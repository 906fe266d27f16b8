------------------------------ MODULE Movement ------------------------------
(***************************************************************************)
(* Who says where the bot is: writePosition of understudy/move.go and the  *)
(* goroutines that call it at the same time.                               *)
(*                                                                         *)
(* Threads.  READER handles teleports and velocities (client.go).  IDLE    *)
(* reports the position every tick (heartbeat.go).  WALKER runs WalkTo     *)
(* (move.go).  USER performs a verb that first awaits the settling of a    *)
(* teleport (settle.go).  c.mu is held only for single reads and writes of *)
(* c.pos, so every such access is a step of its own, and so is every write *)
(* to the socket.                                                          *)
(*                                                                         *)
(* Data.  Positions are points on a line, a walk's step is 1.  Of the two  *)
(* time stamps only what is asked of them is kept: whether a position was  *)
(* sent after the last echo, whether one was sent within the last tick,    *)
(* and whether TeleportSettle has passed since the echo.                   *)
(*                                                                         *)
(* The falls that a teleport or a walk may end with are in module Falling, *)
(* contexts other than a walk's own in module Lifecycle.                   *)
(***************************************************************************)
EXTENDS Integers

CONSTANTS Actors,         \* bound: which of WALKER and USER a run has
          Far,            \* bound: the far end of the line
          Target,         \* where WalkTo is to go
          StallTicks,     \* walkStallTicks
          IdlePosition,   \* not Options.DisableIdlePosition
          Endless,        \* the server moves the bot for as long as it likes
          MaxMoves        \* bound: otherwise, teleports and velocities

ASSUME MovementAssumption ==
  /\ Actors \subseteq {"walker", "user"}
  /\ Far \in Nat /\ Target \in 0..Far
  /\ StallTicks \in Nat \ {0} /\ MaxMoves \in Nat
  /\ IdlePosition \in BOOLEAN /\ Endless \in BOOLEAN

VARIABLES
  conn,      \* the socket, "open" or "closed"
  pos,       \* c.pos
  dead,      \* c.dead
  answered,  \* lastPositionSent > lastTeleportEcho, or there was no echo
  spoke,     \* sincePositionSent() < TickRate
  expired,   \* TeleportSettle has passed since the last echo
  moves,     \* teleports and velocities received, unless Endless
  at,        \* each thread's control point
  goal,      \* the position each thread is about to report, or 0
  best,      \* WALKER's best: the least distance seen
  stalled,   \* ... and its count of ticks without progress
  told       \* ghost: the last position written to the socket

vars == <<conn, pos, dead, answered, spoke, expired, moves, at, goal, best, stalled,
          told>>

stamps == <<answered, spoke, expired>>
walk   == <<best, stalled>>

-----------------------------------------------------------------------------
Positions == 0..Far
Unseen == Far + 1         \* math.Inf(1)
Threads == {"reader", "idle", "walker", "user"}

ReaderPoints == {"read", "place", "confirm", "echo", "mark", "done"}
IdlePoints   == {"off", "tick", "look", "done"}
WalkerEnds   == {"arrived", "blocked", "gaveup"}
WalkerPoints == {"rest", "look", "alive", "sleep"} \cup WalkerEnds
UserPoints   == {"rest", "check", "pause", "use"}
Writing      == {"set", "write", "stamp"}
Points == ReaderPoints \cup IdlePoints \cup WalkerPoints \cup UserPoints \cup Writing

Distance(a, b) == IF a < b THEN b - a ELSE a - b
StepFrom(a) == IF a < Target THEN a + 1 ELSE a - 1

Goes(t, from, to) == at[t] = from /\ at' = [at EXCEPT ![t] = to]
Means(t, x) == goal' = [goal EXCEPT ![t] = x]
Forgets(t) == Means(t, 0)

Init ==
  /\ conn = "open" /\ pos = 0 /\ dead = FALSE
  /\ answered = TRUE /\ spoke = FALSE /\ expired = TRUE
  /\ moves = 0
  /\ at = [t \in Threads |-> CASE t = "reader" -> "read" [] t = "idle" -> "off"
                               [] OTHER -> "rest"]
  /\ goal = [t \in Threads |-> 0]
  /\ best = Unseen /\ stalled = 0
  /\ told = 0

-----------------------------------------------------------------------------
(* The clock and the connection.                                           *)

TickPasses ==
  /\ spoke /\ spoke' = FALSE
  /\ UNCHANGED <<conn, pos, dead, answered, expired, moves, at, goal, walk, told>>

WindowPasses ==
  /\ ~expired /\ expired' = TRUE
  /\ UNCHANGED <<conn, pos, dead, answered, spoke, moves, at, goal, walk, told>>

ConnectionEnds ==
  /\ conn = "open" /\ conn' = "closed"
  /\ UNCHANGED <<pos, dead, stamps, moves, at, goal, walk, told>>

-----------------------------------------------------------------------------
(* writePosition, by any of the threads: record the position, send it,     *)
(* stamp it.                                                               *)

\* Where a thread goes on when writePosition has returned nil ...
AfterWrite(t) ==
  CASE t = "reader" -> "read"
    [] t = "idle"   -> "tick"
    [] t = "walker" -> IF goal[t] = Target THEN "arrived" ELSE "sleep"
    [] t = "user"   -> "pause"

\* ... and when it has returned an error.
AfterFailure(t) ==
  CASE t = "reader" -> "done"
    [] t = "idle"   -> "done"
    [] t = "walker" -> "gaveup"
    [] t = "user"   -> "pause"

RecordPosition(t) ==
  /\ Goes(t, "set", "write")
  /\ pos' = goal[t]
  /\ UNCHANGED <<conn, dead, stamps, moves, goal, walk, told>>

SendPosition(t) ==
  /\ Goes(t, "write", "stamp")
  /\ conn = "open"
  /\ told' = goal[t]
  /\ UNCHANGED <<conn, pos, dead, stamps, moves, goal, walk>>

SendFails(t) ==
  /\ Goes(t, "write", AfterFailure(t)) /\ Forgets(t)
  /\ conn = "closed"
  /\ UNCHANGED <<conn, pos, dead, stamps, moves, walk, told>>

MarkPositionSent(t) ==
  /\ Goes(t, "stamp", AfterWrite(t)) /\ Forgets(t)
  /\ answered' = TRUE /\ spoke' = TRUE
  /\ UNCHANGED <<conn, pos, dead, expired, moves, walk, told>>

-----------------------------------------------------------------------------
(* READER.                                                                 *)

CountMove == IF Endless THEN moves' = moves
             ELSE moves < MaxMoves /\ moves' = moves + 1

\* A teleport to x; a relative one has been resolved against c.pos.
TakeTeleport(x) ==
  /\ Goes("reader", "read", "place") /\ CountMove
  /\ Means("reader", x)
  /\ UNCHANGED <<conn, pos, dead, stamps, walk, told>>

PlaceBot ==
  /\ Goes("reader", "place", "confirm")
  /\ pos' = goal["reader"]
  /\ UNCHANGED <<conn, dead, stamps, moves, goal, walk, told>>

WriteConfirm ==
  /\ Goes("reader", "confirm", "echo") /\ conn = "open"
  /\ UNCHANGED <<conn, pos, dead, stamps, moves, goal, walk, told>>

WriteEcho ==
  /\ Goes("reader", "echo", "mark") /\ conn = "open"
  /\ told' = goal["reader"] /\ Forgets("reader")
  /\ UNCHANGED <<conn, pos, dead, stamps, moves, walk>>

\* Together with the calls of handleTeleport that follow the stamp.
MarkEcho ==
  /\ at["reader"] = "mark"
  /\ answered' = FALSE /\ expired' = FALSE
  /\ at' = [at EXCEPT !["reader"] = "read",
                      !["idle"] = IF @ = "off" /\ IdlePosition THEN "tick" ELSE @]
  /\ UNCHANGED <<conn, pos, dead, spoke, moves, goal, walk, told>>

\* handleEntityMotion, for this player.
TakeMotion(d) ==
  /\ Goes("reader", "read", "set") /\ CountMove
  /\ pos + d \in Positions /\ Means("reader", pos + d)
  /\ UNCHANGED <<conn, pos, dead, stamps, walk, told>>

TakeDeathOrRespawn ==
  /\ at["reader"] = "read" /\ dead' = ~dead
  /\ UNCHANGED <<conn, pos, stamps, moves, at, goal, walk, told>>

ReaderEnds ==
  /\ conn = "closed"
  /\ Goes("reader", "read", "done") \/ Goes("reader", "confirm", "done")
     \/ Goes("reader", "echo", "done")
  /\ Forgets("reader")
  /\ UNCHANGED <<conn, pos, dead, stamps, moves, walk, told>>

-----------------------------------------------------------------------------
(* IDLE.                                                                   *)

\* Mutant of IdleWakes: silent once anything was sent after the teleport.
IdleWakesUnanswered ==
  /\ Goes("idle", "tick", "look")
  /\ ~dead /\ ~answered
  /\ UNCHANGED <<conn, pos, dead, stamps, moves, goal, walk, told>>

\* "Something else already spoke for us this tick."
IdleWakes ==
  /\ Goes("idle", "tick", "look")
  /\ ~dead /\ ~spoke
  /\ UNCHANGED <<conn, pos, dead, stamps, moves, goal, walk, told>>

IdleLooks ==
  /\ Goes("idle", "look", "set")
  /\ Means("idle", pos)
  /\ UNCHANGED <<conn, pos, dead, stamps, moves, walk, told>>

-----------------------------------------------------------------------------
(* WALKER: moveAt.                                                         *)

StartWalk ==
  /\ "walker" \in Actors /\ Goes("walker", "rest", "look") /\ ~dead
  /\ UNCHANGED <<conn, pos, dead, stamps, moves, goal, walk, told>>

\* Mutant of Stride: one tick without progress too many is tolerated.
StrideOnceMore ==
  LET dist == Distance(pos, Target) IN
  /\ Goes("walker", "look", "alive")
  /\ dist > 1
  /\ \/ dist < best /\ best' = dist /\ stalled' = 0
     \/ dist >= best /\ stalled + 1 <= StallTicks /\ stalled' = stalled + 1 /\ UNCHANGED best
  /\ Means("walker", StepFrom(pos))
  /\ UNCHANGED <<conn, pos, dead, stamps, moves, told>>

\* Mutant of Stride: progress is measured against the last tick.
StrideFromLast ==
  LET dist == Distance(pos, Target) IN
  /\ Goes("walker", "look", "alive")
  /\ dist > 1
  /\ \/ dist < best /\ stalled' = 0
     \/ dist >= best /\ stalled + 1 < StallTicks /\ stalled' = stalled + 1
  /\ best' = dist
  /\ Means("walker", StepFrom(pos))
  /\ UNCHANGED <<conn, pos, dead, stamps, moves, told>>

\* One more step towards the target ...
Stride ==
  LET dist == Distance(pos, Target) IN
  /\ Goes("walker", "look", "alive")
  /\ dist > 1
  /\ \/ dist < best /\ best' = dist /\ stalled' = 0
     \/ dist >= best /\ stalled + 1 < StallTicks /\ stalled' = stalled + 1 /\ UNCHANGED best
  /\ Means("walker", StepFrom(pos))
  /\ UNCHANGED <<conn, pos, dead, stamps, moves, told>>

\* ... or the last one ...
LastStride ==
  /\ Goes("walker", "look", "alive")
  /\ Distance(pos, Target) <= 1
  /\ Means("walker", Target)
  /\ UNCHANGED <<conn, pos, dead, stamps, moves, walk, told>>

\* ... or something is in the way.
Blocked ==
  /\ Goes("walker", "look", "blocked")
  /\ Distance(pos, Target) > 1 /\ Distance(pos, Target) >= best
  /\ stalled + 1 >= StallTicks
  /\ UNCHANGED <<conn, pos, dead, stamps, moves, goal, walk, told>>

\* requireAlive, in MoveTo.
CheckAlive ==
  /\ \/ ~dead /\ Goes("walker", "alive", "set") /\ UNCHANGED goal
     \/ dead /\ Goes("walker", "alive", "gaveup") /\ Forgets("walker")
  /\ UNCHANGED <<conn, pos, dead, stamps, moves, walk, told>>

WalkTicks ==
  /\ Goes("walker", "sleep", "look")
  /\ UNCHANGED <<conn, pos, dead, stamps, moves, goal, walk, told>>

WalkCancelled ==
  /\ Goes("walker", "sleep", "gaveup")
  /\ UNCHANGED <<conn, pos, dead, stamps, moves, goal, walk, told>>

-----------------------------------------------------------------------------
(* USER: awaitTeleportSettle, then the packet it guards.                   *)

StartUse ==
  /\ "user" \in Actors /\ Goes("user", "rest", "check") /\ ~dead
  /\ UNCHANGED <<conn, pos, dead, stamps, moves, goal, walk, told>>

FindSettled ==
  /\ Goes("user", "check", "use")
  /\ answered \/ expired
  /\ UNCHANGED <<conn, pos, dead, stamps, moves, goal, walk, told>>

\* Not settled: send the position the server is waiting for.
AnswerTeleport ==
  /\ Goes("user", "check", "set")
  /\ ~answered /\ ~expired
  /\ Means("user", pos)
  /\ UNCHANGED <<conn, pos, dead, stamps, moves, walk, told>>

\* Mutant of PauseEnds: look again, until the teleport has settled.
PauseChecksAgain ==
  /\ Goes("user", "pause", "check")
  /\ UNCHANGED <<conn, pos, dead, stamps, moves, goal, walk, told>>

\* One tick has passed since the position was sent or, if it could not be, what
\* was left of the window at the time; or the caller's context has ended.
PauseEnds ==
  /\ Goes("user", "pause", "use") \/ Goes("user", "pause", "rest")
  /\ UNCHANGED <<conn, pos, dead, stamps, moves, goal, walk, told>>

SendUse ==
  /\ Goes("user", "use", "rest")
  /\ UNCHANGED <<conn, pos, dead, stamps, moves, goal, walk, told>>

-----------------------------------------------------------------------------
Write(t) == RecordPosition(t) \/ SendPosition(t) \/ SendFails(t) \/ MarkPositionSent(t)

Reader == PlaceBot \/ WriteConfirm \/ WriteEcho \/ MarkEcho \/ ReaderEnds

Idle == IdleWakes \/ IdleLooks

Walker == Stride \/ LastStride \/ Blocked \/ CheckAlive \/ WalkTicks

User == FindSettled \/ AnswerTeleport \/ PauseEnds \/ SendUse

Clock == TickPasses \/ WindowPasses

Surroundings ==
  \/ ConnectionEnds \/ TakeDeathOrRespawn \/ StartWalk \/ WalkCancelled \/ StartUse
  \/ \E x \in Positions : TakeTeleport(x)
  \/ \E d \in {-1, 1} : TakeMotion(d)

Next == Reader \/ Idle \/ Walker \/ User \/ Clock \/ Surroundings
        \/ \E t \in Threads : Write(t)

Spec == Init /\ [][Next]_vars

\* Every thread that can go on does, and time passes.  Nothing is assumed of the
\* server, of the operator or of contexts: a server that stops reading blocks a
\* write for good, as WritePacket has no deadline, so that writes are not fair.
FairSpec ==
  /\ Spec
  /\ WF_vars(PlaceBot \/ MarkEcho \/ ReaderEnds) /\ WF_vars(Idle)
  /\ WF_vars(Walker) /\ WF_vars(User) /\ WF_vars(TickPasses) /\ WF_vars(WindowPasses)
  /\ \A t \in Threads : WF_vars(RecordPosition(t) \/ SendFails(t) \/ MarkPositionSent(t))

-----------------------------------------------------------------------------
(* Properties.                                                             *)

TypeOK ==
  /\ conn \in {"open", "closed"} /\ pos \in Positions /\ dead \in BOOLEAN
  /\ answered \in BOOLEAN /\ spoke \in BOOLEAN /\ expired \in BOOLEAN
  /\ moves \in 0..MaxMoves
  /\ at \in [Threads -> Points] /\ goal \in [Threads -> Positions]
  /\ best \in 0..Unseen /\ stalled \in 0..(StallTicks - 1)
  /\ told \in Positions

\* The write of a position never returns.
Blocks(t) == [](at[t] = "write")

\* "Left to itself that burns the caller's whole timeout": a walk ends by itself,
\* wherever and however often the server puts the bot while it walks, or hangs in
\* a write, where not even its context ends it.
WalkEnds == at["walker"] = "look" ~> at["walker"] \in WalkerEnds \/ Blocks("walker")

\* "This is a ceiling, not a cost": waiting for a teleport to settle comes to an
\* end, however many more teleports arrive meanwhile and even if writing the
\* position fails, unless that write, which is made before the wait, never returns.
SettleEnds == at["user"] = "check" ~> at["user"] \in {"use", "rest"} \/ Blocks("user")

\* Two writers can leave the server with another position than the client's, but
\* not for good: unless the server moves the bot again or stops reading, or the
\* bot dies, the idle loop puts it right.
DriftHeals ==
  told # pos ~> \/ told = pos
                \/ dead \/ conn = "closed" \/ at["idle"] = "off"
                \/ at["reader"] # "read" \/ Blocks("idle")
=============================================================================
