----------------------------- MODULE Lifecycle -----------------------------
(***************************************************************************)
(* How a session ends: cmd/understudy-client/main.go's run, the read loop  *)
(* Run and Close of understudy/client.go, and the two goroutines a Client  *)
(* starts for itself, the idle position loop (heartbeat.go) and auto-fall  *)
(* (fall.go).                                                              *)
(*                                                                         *)
(* Threads.  MAIN runs bot.Run, and after it the deferred calls of run.    *)
(* CONTROL serves the HTTP API, and calls Close when serving fails.  LOOP  *)
(* reports an idle position every tick.  FALL k is the auto-fall begun for *)
(* the k-th move the server made the bot do.  The last two are the         *)
(* goroutines that Close waits for, in c.wg.                               *)
(*                                                                         *)
(* Contexts.  ctx ends with a signal or the deferred stop(); runCtx, the   *)
(* one given to Run and passed on to LOOP and FALL, ends with ctx and, if  *)
(* -hold is positive, with its timer or its deferred cancel; the control   *)
(* server's ends with runCtx and with stopControl().                       *)
(*                                                                         *)
(* Socket.  WritePacket has no deadline, so a write blocks while the       *)
(* server does not read, until somebody closes the socket.  A blocked read *)
(* ends with the read timeout, with the connection, or with a packet.      *)
(*                                                                         *)
(* stopResourcePacks is left out here: module ResourcePacks shows that it  *)
(* returns once the socket is closed.  MaxMoves and MaxDeaths bound what   *)
(* the server does to the bot; Faults names the faults of a run.           *)
(***************************************************************************)
EXTENDS Naturals, FiniteSets

CONSTANTS HasHold,        \* cfg.hold > 0
          HasControl,     \* cfg.control is set
          AutoRespawn,    \* not Options.DisableAutoRespawn
          IdlePosition,   \* not Options.DisableIdlePosition
          MaxMoves,       \* bound: teleports and launches by the server
          MaxDeaths,      \* bound: deaths of the bot
          Faults          \* bound: "stall", "hangup", "interrupt", "control"

ASSUME LifecycleAssumption ==
  /\ HasHold \in BOOLEAN /\ HasControl \in BOOLEAN
  /\ AutoRespawn \in BOOLEAN /\ IdlePosition \in BOOLEAN
  /\ MaxMoves \in Nat /\ MaxDeaths \in Nat
  /\ Faults \subseteq {"stall", "hangup", "interrupt", "control"}

VARIABLES
  conn,         \* our end of the socket, "open" or "closed"
  peer,         \* the server: "reading", "stalled" or "gone"
  interrupted,  \* ctx is done
  expired,      \* the -hold context is done
  stopped,      \* stopControl has been called
  dead,         \* c.dead
  deaths,       \* c.deaths
  loadedSent,   \* c.loadedSent
  moves,        \* moves of the bot the reader has taken off the socket
  falling,      \* c.falling
  main,         \* MAIN's control point
  ctl,          \* CONTROL's
  loop,         \* LOOP's
  fall          \* each FALL's

vars == <<conn, peer, interrupted, expired, stopped, dead, deaths, loadedSent,
          moves, falling, main, ctl, loop, fall>>

socket   == <<conn, peer>>
contexts == <<interrupted, expired, stopped>>
player   == <<dead, deaths, loadedSent, moves>>
falls    == <<falling, fall>>

-----------------------------------------------------------------------------
Moves == 1..MaxMoves

MainPoints == {"loop", "read", "confirm", "echo", "loaded", "idle", "fall", "motion",
               "reply", "closing", "returned", "control", "cancel", "close", "wait",
               "stop", "exited"}
ControlPoints == {"none", "serving", "closing", "waiting", "done", "failed"}
LoopPoints == {"none", "tick", "write", "done"}
FallPoints == {"none", "delay", "look", "write", "tick", "land", "reset", "ending",
               "done"}

RunDone == interrupted \/ expired

CanWrite == conn = "open" /\ peer = "reading"
WriteFails == conn = "closed" \/ peer = "gone"

\* The goroutines c.wg counts.
Falling == {k \in Moves : fall[k] \notin {"none", "done"}}
Quiet == loop \in {"none", "done"} /\ Falling = {}

Init ==
  /\ conn = "open" /\ peer = "reading"
  /\ interrupted = FALSE /\ expired = FALSE /\ stopped = FALSE
  /\ dead = FALSE /\ deaths = 0 /\ loadedSent = FALSE /\ moves = 0
  /\ falling = FALSE
  /\ main = "loop"
  /\ ctl = IF HasControl THEN "serving" ELSE "none"
  /\ loop = "none"
  /\ fall = [k \in Moves |-> "none"]

-----------------------------------------------------------------------------
(* The surroundings.                                                       *)

ServerStalls ==
  /\ "stall" \in Faults /\ peer = "reading" /\ peer' = "stalled"
  /\ UNCHANGED <<conn, contexts, player, falls, main, ctl, loop>>

ServerGoes ==
  /\ "hangup" \in Faults /\ peer # "gone" /\ peer' = "gone"
  /\ UNCHANGED <<conn, contexts, player, falls, main, ctl, loop>>

Interrupt ==
  /\ "interrupt" \in Faults /\ ~interrupted /\ interrupted' = TRUE
  /\ UNCHANGED <<socket, expired, stopped, player, falls, main, ctl, loop>>

HoldExpires ==
  /\ HasHold /\ ~expired /\ expired' = TRUE
  /\ UNCHANGED <<socket, interrupted, stopped, player, falls, main, ctl, loop>>

-----------------------------------------------------------------------------
(* MAIN inside bot.Run: readPacket, dispatch and the handlers that write   *)
(* or start a goroutine.                                                   *)

MainAt(from, to) == main = from /\ main' = to

\* Mutant of CheckContext: readPacket does not look at its context.
CheckContextNever ==
  /\ MainAt("loop", "read")
  /\ UNCHANGED <<socket, contexts, player, falls, ctl, loop>>

CheckContext ==
  /\ MainAt("loop", IF RunDone THEN "closing" ELSE "read")
  /\ UNCHANGED <<socket, contexts, player, falls, ctl, loop>>

\* A teleport, or a velocity that throws the bot upwards.
TakeMove(handler) ==
  /\ MainAt("read", handler) /\ handler \in {"confirm", "motion"}
  /\ moves < MaxMoves /\ moves' = moves + 1
  /\ UNCHANGED <<socket, contexts, dead, deaths, loadedSent, falls, ctl, loop>>

\* A keep-alive, a finished chunk batch, ...: a packet answered by one write.
TakeQuery ==
  /\ MainAt("read", "reply")
  /\ UNCHANGED <<socket, contexts, player, falls, ctl, loop>>

\* Mutant of TakeDeath: one death counts twice.
TakeDeathTwice ==
  /\ MainAt("read", IF AutoRespawn THEN "reply" ELSE "loop")
  /\ deaths < MaxDeaths /\ ~dead
  /\ deaths' = deaths + 2 /\ dead' = TRUE
  /\ UNCHANGED <<socket, contexts, loadedSent, moves, falls, ctl, loop>>

TakeDeath ==
  /\ MainAt("read", IF AutoRespawn THEN "reply" ELSE "loop")
  /\ deaths < MaxDeaths /\ ~dead
  /\ deaths' = deaths + 1 /\ dead' = TRUE
  /\ UNCHANGED <<socket, contexts, loadedSent, moves, falls, ctl, loop>>

\* The server respawns a bot that asked for it.
TakeRespawn ==
  /\ MainAt("read", "loop") /\ dead /\ AutoRespawn
  /\ dead' = FALSE
  /\ UNCHANGED <<socket, contexts, deaths, loadedSent, moves, falls, ctl, loop>>

\* The read timeout, a closed socket, a hangup, a kick, a protocol error.
ReadFails ==
  /\ MainAt("read", "closing")
  /\ UNCHANGED <<socket, contexts, player, falls, ctl, loop>>

\* The writes of the handlers: the confirmation and the echo of a teleport,
\* the position after a launch, a reply.
HandlerWrites ==
  /\ CanWrite
  /\ \/ MainAt("confirm", "echo") \/ MainAt("echo", "loaded")
     \/ MainAt("motion", "fall") \/ MainAt("reply", "loop")
  /\ UNCHANGED <<socket, contexts, player, falls, ctl, loop>>

HandlerWriteFails ==
  /\ WriteFails
  /\ main \in {"confirm", "echo", "motion", "reply"} /\ main' = "closing"
  /\ UNCHANGED <<socket, contexts, player, falls, ctl, loop>>

\* announceLoaded: the first time only, and a failed write is not an error.
AnnounceLoaded ==
  /\ MainAt("loaded", "idle")
  /\ loadedSent \/ CanWrite \/ WriteFails
  /\ loadedSent' = TRUE
  /\ UNCHANGED <<socket, contexts, dead, deaths, moves, falls, ctl, loop>>

\* c.positionLoop is set exactly when the loop has ever been started.
StartPositionLoop ==
  /\ MainAt("idle", "fall")
  /\ loop' = IF IdlePosition /\ loop = "none" THEN "tick" ELSE loop
  /\ UNCHANGED <<socket, contexts, player, falls, ctl>>

\* Mutant of AutoFall: no compare-and-swap on c.falling.
AutoFallAlways ==
  /\ MainAt("fall", "loop")
  /\ IF dead THEN UNCHANGED <<falling, fall>>
     ELSE falling' = TRUE /\ fall' = [fall EXCEPT ![moves] = "delay"]
  /\ UNCHANGED <<socket, contexts, player, ctl, loop>>

AutoFall ==
  /\ MainAt("fall", "loop")
  /\ IF dead \/ falling THEN UNCHANGED <<falling, fall>>
     ELSE falling' = TRUE /\ fall' = [fall EXCEPT ![moves] = "delay"]
  /\ UNCHANGED <<socket, contexts, player, ctl, loop>>

\* Run's deferred exit.
RunCloses ==
  /\ MainAt("closing", "returned")
  /\ conn' = "closed"
  /\ UNCHANGED <<peer, contexts, player, falls, ctl, loop>>

-----------------------------------------------------------------------------
(* MAIN after bot.Run: run's last lines and its deferred calls, which run  *)
(* in the opposite order of their defer statements.                        *)

StopControl ==
  /\ MainAt("returned", "control")
  /\ stopped' = TRUE
  /\ UNCHANGED <<socket, interrupted, expired, player, falls, ctl, loop>>

AwaitControl ==
  /\ MainAt("control", "cancel") /\ ctl \in {"none", "done", "failed"}
  /\ UNCHANGED <<socket, contexts, player, falls, ctl, loop>>

DeferredCancel ==
  /\ MainAt("cancel", "close")
  /\ expired' = (expired \/ HasHold)
  /\ UNCHANGED <<socket, interrupted, stopped, player, falls, ctl, loop>>

DeferredClose ==
  /\ MainAt("close", "wait")
  /\ conn' = "closed"
  /\ UNCHANGED <<peer, contexts, player, falls, ctl, loop>>

\* Mutant of CloseReturns: Close does not wait for c.wg.
CloseReturnsAtOnce ==
  /\ MainAt("wait", "stop")
  /\ UNCHANGED <<socket, contexts, player, falls, ctl, loop>>

CloseReturns ==
  /\ MainAt("wait", "stop") /\ Quiet
  /\ UNCHANGED <<socket, contexts, player, falls, ctl, loop>>

DeferredStop ==
  /\ MainAt("stop", "exited")
  /\ interrupted' = TRUE
  /\ UNCHANGED <<socket, expired, stopped, player, falls, ctl, loop>>

-----------------------------------------------------------------------------
(* CONTROL.                                                                *)

\* ServeListener drains requests for at most two seconds, then returns nil.
ControlShutsDown ==
  /\ ctl = "serving" /\ (RunDone \/ stopped) /\ ctl' = "done"
  /\ UNCHANGED <<socket, contexts, player, falls, main, loop>>

ControlFails ==
  /\ "control" \in Faults
  /\ ctl = "serving" /\ ctl' = "closing"
  /\ UNCHANGED <<socket, contexts, player, falls, main, loop>>

ControlCloses ==
  /\ ctl = "closing" /\ ctl' = "waiting"
  /\ conn' = "closed"
  /\ UNCHANGED <<peer, contexts, player, falls, main, loop>>

ControlCloseReturns ==
  /\ ctl = "waiting" /\ Quiet /\ ctl' = "failed"
  /\ UNCHANGED <<socket, contexts, player, falls, main, loop>>

-----------------------------------------------------------------------------
(* LOOP: runPositionLoop.                                                  *)

\* Mutant of LoopStops: a dead bot's loop does not look at its context.
LoopStopsIfAlive ==
  /\ loop = "tick" /\ ~dead /\ RunDone /\ loop' = "done"
  /\ UNCHANGED <<socket, contexts, player, falls, main, ctl>>

\* The select of sleep.  While the bot is dead a tick changes nothing: the loop
\* goes straight back to the select.
LoopStops ==
  /\ loop = "tick" /\ RunDone /\ loop' = "done"
  /\ UNCHANGED <<socket, contexts, player, falls, main, ctl>>

\* A tick on which the loop is neither dead nor spoken for.
LoopSpeaks ==
  /\ loop = "tick" /\ ~dead /\ loop' = "write"
  /\ UNCHANGED <<socket, contexts, player, falls, main, ctl>>

LoopWrites ==
  /\ loop = "write" /\ CanWrite /\ loop' = "tick"
  /\ UNCHANGED <<socket, contexts, player, falls, main, ctl>>

LoopWriteFails ==
  /\ loop = "write" /\ WriteFails /\ loop' = "done"
  /\ UNCHANGED <<socket, contexts, player, falls, main, ctl>>

-----------------------------------------------------------------------------
(* FALL k: autoFall's goroutine, Fall, descend and surface.                *)

FallAt(k, from, to) == fall[k] = from /\ fall' = [fall EXCEPT ![k] = to]

\* autoFallDelay passes, and waitForChunk ends one way or another.
FallBegins(k) ==
  /\ FallAt(k, "delay", "look")
  /\ UNCHANGED <<socket, contexts, player, falling, main, ctl, loop>>

\* The context ends during autoFallDelay or between two steps of the descent.
FallCancelled(k) ==
  /\ RunDone /\ (FallAt(k, "delay", "reset") \/ FallAt(k, "tick", "reset"))
  /\ UNCHANGED <<socket, contexts, player, falling, main, ctl, loop>>

\* Reads the position, the corrections, the deaths and the terrain, and goes
\* on falling (a descent goes on for any of those readings but a death) ...
FallDescends(k) ==
  /\ ~dead /\ FallAt(k, "look", "write")
  /\ UNCHANGED <<socket, contexts, player, falling, main, ctl, loop>>

\* ... or ends: it has died, stands already, or may not fall here (no write),
\* or it has come down (a last position).
FallEnds(k) ==
  /\ FallAt(k, "look", "reset") \/ (~dead /\ FallAt(k, "look", "land"))
  /\ UNCHANGED <<socket, contexts, player, falling, main, ctl, loop>>

FallWrites(k) ==
  /\ CanWrite /\ (FallAt(k, "write", "tick") \/ FallAt(k, "land", "reset"))
  /\ UNCHANGED <<socket, contexts, player, falling, main, ctl, loop>>

FallTicks(k) ==
  /\ FallAt(k, "tick", "look")
  /\ UNCHANGED <<socket, contexts, player, falling, main, ctl, loop>>

FallWriteFails(k) ==
  /\ WriteFails /\ (FallAt(k, "write", "reset") \/ FallAt(k, "land", "reset"))
  /\ UNCHANGED <<socket, contexts, player, falling, main, ctl, loop>>

\* Mutant of FallResets: c.falling is not reset.
FallKeepsFlag(k) ==
  /\ FallAt(k, "reset", "ending")
  /\ UNCHANGED <<socket, contexts, player, falling, main, ctl, loop>>

FallResets(k) ==
  /\ FallAt(k, "reset", "ending")
  /\ falling' = FALSE
  /\ UNCHANGED <<socket, contexts, player, main, ctl, loop>>

\* c.wg.Done.
FallDone(k) ==
  /\ FallAt(k, "ending", "done")
  /\ UNCHANGED <<socket, contexts, player, falling, main, ctl, loop>>

-----------------------------------------------------------------------------
MainStep ==
  \/ CheckContext \/ HandlerWrites \/ HandlerWriteFails \/ AnnounceLoaded
  \/ StartPositionLoop \/ AutoFall \/ RunCloses \/ StopControl \/ AwaitControl
  \/ DeferredCancel \/ DeferredClose \/ CloseReturns \/ DeferredStop

Packets ==
  \/ \E handler \in {"confirm", "motion"} : TakeMove(handler)
  \/ TakeQuery \/ TakeDeath \/ TakeRespawn

Control == ControlShutsDown \/ ControlCloses \/ ControlCloseReturns

Loop == LoopStops \/ LoopSpeaks \/ LoopWrites \/ LoopWriteFails

Fall(k) ==
  \/ FallBegins(k) \/ FallCancelled(k) \/ FallDescends(k) \/ FallEnds(k)
  \/ FallWrites(k) \/ FallTicks(k) \/ FallWriteFails(k) \/ FallResets(k) \/ FallDone(k)

Surroundings ==
  ServerStalls \/ ServerGoes \/ Interrupt \/ HoldExpires \/ ControlFails

Next == MainStep \/ Packets \/ ReadFails \/ Control \/ Loop \/ Surroundings
        \/ \E k \in Moves : Fall(k)

Spec == Init /\ [][Next]_vars

\* Threads that can run do; a read that gets nothing times out; the -hold
\* timer fires.  LoopStops is chosen by a select that is fair between its
\* ready cases, and a descent is bounded by MaxFallBlocks (maxSurfaceTicks in
\* water), so each happens if it could happen again and again.  Nothing is
\* assumed of the server, of signals or of the control API's callers.
FairSpec ==
  /\ Spec
  /\ WF_vars(MainStep) /\ WF_vars(ReadFails) /\ WF_vars(Control)
  /\ WF_vars(Loop) /\ SF_vars(LoopStops)
  /\ WF_vars(HoldExpires)
  /\ \A k \in Moves : WF_vars(Fall(k)) /\ SF_vars(FallEnds(k))

-----------------------------------------------------------------------------
(* Properties.                                                             *)

TypeOK ==
  /\ conn \in {"open", "closed"} /\ peer \in {"reading", "stalled", "gone"}
  /\ interrupted \in BOOLEAN /\ expired \in BOOLEAN /\ stopped \in BOOLEAN
  /\ dead \in BOOLEAN /\ deaths \in 0..MaxDeaths /\ loadedSent \in BOOLEAN
  /\ moves \in 0..MaxMoves
  /\ falling \in BOOLEAN
  /\ main \in MainPoints /\ ctl \in ControlPoints /\ loop \in LoopPoints
  /\ fall \in [Moves -> FallPoints]

\* "falling guards auto-fall against re-entry": two auto-falls never drive the
\* bot at the same time, although the next may be started while the previous
\* one's goroutine has not returned yet.
Driving == {k \in Moves : fall[k] \notin {"none", "ending", "done"}}

FallsDoNotOverlap == \A j, k \in Driving : j = k

\* When the program exits, the client's goroutines and the control server have
\* ended before it, whoever closed the connection and in whatever order.
ExitedIsQuiet == main = "exited" => Quiet /\ ctl \in {"none", "done", "failed"} /\ conn = "closed"

\* "All the work is in run so that every defer -- the signal handler, the
\* connection close, the context cancels -- actually runs": once the session is
\* over the program does get through its deferred calls.
EveryDeferRuns == main = "returned" ~> main = "exited"

\* "Ctrl-C and SIGTERM should disconnect cleanly rather than leave the server
\* holding a half-open player slot."
ExitsOnInterrupt == interrupted ~> main = "exited"

\* c.falling does not get stuck, or no teleport would ever settle again, unless
\* a server that has stopped reading blocks the fall's write.
FallingClears == falling ~> (~falling \/ peer = "stalled")
=============================================================================
