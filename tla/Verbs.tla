------------------------------- MODULE Verbs --------------------------------
(***************************************************************************)
(* The verbs of understudy that hold something down or wait for the world: *)
(* sneaking and sprinting, using an item, digging and placing a block.     *)
(* Each thread is one request of the control API, or a caller of the       *)
(* library, and performs one verb after another; they share the Client and *)
(* its socket.                                                             *)
(*                                                                         *)
(* The server is not part of the repository.  While it waits for the       *)
(* client to say where it is after a teleport it drops uses, placements    *)
(* and player actions (understudy/settle.go), and it ignores a dead        *)
(* player.  It breaks a block, or not, once it has been told to, and says  *)
(* what becomes of terrain it has sent.                                    *)
(*                                                                         *)
(* There is one block to dig and to place, in one column.  A context may   *)
(* end, and a duration pass, at any time, and of two that have Go's select *)
(* takes either, so that a wait can always end in both ways.  How a        *)
(* position is written is the subject of Movement.                         *)
(***************************************************************************)
EXTENDS Integers, SequencesExt

CONSTANTS Threads,     \* those who perform verbs
          Kinds,       \* the verbs they perform
          MaxVerbs,    \* bound: verbs begun
          MaxUpsets,   \* bound: teleports, deaths, unloads and blocks put back
          MaxInFlight  \* bound: packets on their way when the server sends another

ASSUME VerbsAssumption ==
  /\ Kinds \subseteq {"sneak", "sprint", "use", "tap", "draw", "dig", "look", "place"}
  /\ MaxVerbs \in Nat /\ MaxUpsets \in Nat /\ MaxInFlight \in Nat

PlaceAttempts == 2  \* placeAttempts

\* DigBlock, and DigLookingAt.
Digs == {"dig", "look"}

VARIABLES
  conn,       \* the socket: "open" or "closed"
  dead,       \* c.dead
  input,      \* c.input
  unsettled,  \* no position sent since the last teleport was echoed, nor TeleportSettle past
  view,       \* c.world, of the one block: "block", "air" or "unloaded"
  breaks,     \* breaks that needed the finish packet; c.lastHeldBreak is of the last
  cooled,     \* the latest of those that is breakCooldown ago
  at, my,     \* each thread's control point and variables
  begun,      \* verbs begun
  life,       \* server: "alive", "dead", or "asked" to respawn
  awaiting,   \* server: it waits for a position
  told,       \* server: the input it was last told
  using,      \* server: an item is in use
  dig,        \* server: it has been told to break the block
  block,      \* server: whether the block is there
  sent,       \* server: whether the client has the column
  inbox,      \* packets on their way to the client
  upsets,     \* server: teleports, deaths, unloads and blocks put back so far
  slips,      \* ghost: which of the ways to leave something held have happened
  claim       \* ghost: what the last dig or placement to end well says of the block

client == <<dead, input, unsettled, view, breaks, cooled>>
caller == <<at, my, begun>>
server == <<life, awaiting, told, using, dig, block, sent, inbox, upsets>>
ghosts == <<slips, claim>>
vars == <<conn, client, caller, server, ghosts>>

-----------------------------------------------------------------------------
Idle == [verb |-> "none", then |-> "rest", on |-> FALSE, flags |-> {}, seen |-> {},
         finished |-> FALSE, blind |-> FALSE, last |-> 0, tries |-> 0]

CanWrite == conn = "open"

\* The server drops what it is sent without a word.
Deaf == awaiting \/ life # "alive"

Init ==
  /\ conn = "open" /\ dead = FALSE /\ input = {} /\ unsettled = FALSE /\ view = "block"
  /\ breaks = 0 /\ cooled = 0
  /\ at = [t \in Threads |-> "rest"] /\ my = [t \in Threads |-> Idle]
  /\ begun = 0
  /\ life = "alive" /\ awaiting = FALSE /\ told = {} /\ using = FALSE /\ dig = FALSE
  /\ block = TRUE /\ sent = TRUE /\ inbox = <<>> /\ upsets = 0
  /\ slips = {} /\ claim = "none"

Goes(t, from, to) == at[t] = from /\ at' = [at EXCEPT ![t] = to]
Notes(t, record) == my' = [my EXCEPT ![t] = record]

\* The verb of t is over, well or not.
Ends(t) ==
  /\ at' = [at EXCEPT ![t] = "rest"]
  /\ Notes(t, Idle)
  /\ UNCHANGED begun

-----------------------------------------------------------------------------
(* The server.                                                             *)

Sends(packets) == Len(inbox) < MaxInFlight /\ inbox' = inbox \o packets
Upset == upsets < MaxUpsets /\ upsets' = upsets + 1
Seen(there) == IF there THEN "block" ELSE "air"

ServerTeleports ==
  /\ Upset /\ life = "alive"
  /\ awaiting' = TRUE /\ Sends(<<"teleport">>)
  /\ UNCHANGED <<conn, client, caller, life, told, using, dig, block, sent, ghosts>>

\* Death ends a use and a dig.
ServerKills ==
  /\ Upset /\ life = "alive"
  /\ life' = "dead" /\ using' = FALSE /\ dig' = FALSE /\ Sends(<<"death">>)
  /\ UNCHANGED <<conn, client, caller, awaiting, told, block, sent, ghosts>>

\* The position comes as a teleport, the terrain later.
ServerRespawns ==
  /\ life = "asked" /\ life' = "alive"
  /\ sent' = FALSE /\ awaiting' = TRUE /\ Sends(<<"respawn", "teleport">>)
  /\ UNCHANGED <<conn, client, caller, told, using, dig, block, upsets, ghosts>>

ServerSendsColumn ==
  /\ ~sent /\ sent' = TRUE /\ Sends(<<Seen(block)>>)
  /\ UNCHANGED <<conn, client, caller, life, awaiting, told, using, dig, block, upsets, ghosts>>

ServerUnloads ==
  /\ Upset /\ sent /\ sent' = FALSE /\ Sends(<<"unload">>)
  /\ UNCHANGED <<conn, client, caller, life, awaiting, told, using, dig, block, ghosts>>

\* Says what has become of the block, to a client that has its column.
Becomes(there) ==
  /\ block' = there
  /\ IF sent THEN inbox' = Append(inbox, Seen(there)) ELSE UNCHANGED inbox

\* At once with a good tool, or after the finish.
ServerBreaks ==
  /\ dig /\ block /\ dig' = FALSE /\ Becomes(FALSE)
  /\ UNCHANGED <<conn, client, caller, life, awaiting, told, using, sent, upsets, ghosts>>

\* Somebody else puts the block back.
BlockReturns ==
  /\ Upset /\ ~block /\ Len(inbox) < MaxInFlight /\ Becomes(TRUE)
  /\ UNCHANGED <<conn, client, caller, life, awaiting, told, using, dig, sent, ghosts>>

Disconnect ==
  /\ conn = "open" /\ conn' = "closed"
  /\ UNCHANGED <<client, caller, server, ghosts>>

-----------------------------------------------------------------------------
(* The reader, the idle loop and the clock.                                *)

Takes(packet) == conn = "open" /\ inbox # <<>> /\ Head(inbox) = packet /\ inbox' = Tail(inbox)

\* Confirmed and echoed; the echo is not the position the server waits for.
TakeTeleport ==
  /\ Takes("teleport") /\ unsettled' = TRUE
  /\ UNCHANGED <<conn, dead, input, view, breaks, cooled, caller, life, awaiting, told,
                 using, dig, block, sent, upsets, ghosts>>

\* The bot asks to respawn.
TakeDeath ==
  /\ Takes("death") /\ dead' = TRUE /\ life' = "asked"
  /\ UNCHANGED <<conn, input, unsettled, view, breaks, cooled, caller, awaiting, told,
                 using, dig, block, sent, upsets, ghosts>>

\* A report of what the client could see is no more than that once it is told otherwise.
Outdated == claim' = IF view = "unloaded" THEN claim ELSE "none"

TakeRespawn ==
  /\ Takes("respawn") /\ dead' = FALSE /\ view' = "unloaded" /\ Outdated
  /\ UNCHANGED <<conn, input, unsettled, breaks, cooled, caller, life, awaiting, told,
                 using, dig, block, sent, upsets, slips>>

\* A column, the news of one block, or the end of a column.
TakeTerrain(packet) ==
  /\ Takes(packet)
  /\ view' = IF packet = "unload" THEN "unloaded" ELSE packet
  /\ Outdated
  /\ UNCHANGED <<conn, dead, input, unsettled, breaks, cooled, caller, life, awaiting, told,
                 using, dig, block, sent, upsets, slips>>

\* The server takes a position for its answer once its teleport has been taken.
PositionSent ==
  /\ unsettled' = FALSE
  /\ awaiting' = (awaiting /\ Contains(inbox, "teleport"))

IdleReports ==
  /\ unsettled /\ ~dead /\ CanWrite /\ PositionSent
  /\ UNCHANGED <<conn, dead, input, view, breaks, cooled, caller, life, told, using, dig,
                 block, sent, inbox, upsets, ghosts>>

SettleWindowPasses ==
  /\ unsettled /\ unsettled' = FALSE
  /\ UNCHANGED <<conn, dead, input, view, breaks, cooled, caller, server, ghosts>>

BreakCools ==
  /\ cooled < breaks /\ cooled' = cooled + 1
  /\ UNCHANGED <<conn, dead, input, unsettled, view, breaks, caller, server, ghosts>>

-----------------------------------------------------------------------------
(* A verb begins, waits and fails.                                         *)

\* The first thing a verb does that another thread or the server can come before.
First(verb) ==
  CASE verb \in {"sneak", "sprint"} -> "read"
    [] verb = "dig" -> "aim"
    [] verb = "look" -> "point"
    [] OTHER -> "settle"

\* Uses and placements check that the bot is alive before they wait.
Begin(t, verb) ==
  /\ at[t] = "rest" /\ begun < MaxVerbs /\ begun' = begun + 1
  /\ verb \notin {"use", "tap", "draw", "place"} \/ ~dead
  /\ at' = [at EXCEPT ![t] = First(verb)]
  /\ Notes(t, [Idle EXCEPT !.verb = verb, !.on = (verb \in {"sneak", "sprint"}),
                           !.then = IF verb = "place" THEN "aim" ELSE "use"])
  /\ UNCHANGED <<conn, client, server, ghosts>>

\* awaitTeleportSettle: the server has what it needs ...
Settled(t) ==
  /\ ~unsettled /\ Goes(t, "settle", my[t].then)
  /\ UNCHANGED <<conn, client, my, begun, server, ghosts>>

\* ... or is sent it, if it can be ...
Unsettled(t) ==
  /\ unsettled /\ Goes(t, "settle", "answer")
  /\ UNCHANGED <<conn, client, my, begun, server, ghosts>>

AnswerTeleport(t) ==
  /\ Goes(t, "answer", "pause")
  /\ IF CanWrite THEN PositionSent ELSE UNCHANGED <<unsettled, awaiting>>
  /\ UNCHANGED <<conn, dead, input, view, breaks, cooled, my, begun, life, told,
                 using, dig, block, sent, inbox, upsets, ghosts>>

\* ... and given a tick, or what is left of the window, to act on it.
PauseEnds(t) ==
  /\ Goes(t, "pause", my[t].then)
  /\ UNCHANGED <<conn, client, my, begun, server, ghosts>>

\* requireAlive, of StartDig, FinishDig and a second PlaceBlock, before they wait.
StillAlive(t) ==
  /\ ~dead /\ Goes(t, "alive", "settle")
  /\ UNCHANGED <<conn, client, my, begun, server, ghosts>>

\* requireAlive refuses.
Refused(t) ==
  /\ dead /\ at[t] \in {"aim", "alive", "set", "swing"} /\ Ends(t)
  /\ slips' = slips \cup (IF at[t] = "set" /\ ~my[t].on THEN {"refused"} ELSE {})
  /\ UNCHANGED <<conn, client, server, claim>>

WriteFails(t) ==
  /\ ~CanWrite /\ Ends(t)
  /\ at[t] \in {"send", "use", "release", "aim", "start", "finish", "swing", "place"}
  /\ UNCHANGED <<conn, client, server, ghosts>>

\* A wait ends with the context: the verb returns, and with it a release that
\* had first to wait for a teleport to settle ...
CancelEndsVerb(t) ==
  /\ \/ at[t] \in {"pause", "target", "blind", "pace", "seek"}
     \/ at[t] = "cool" /\ my[t].last > cooled
     \/ at[t] = "hold" /\ my[t].verb = "draw"
  /\ Ends(t)
  /\ slips' = slips \cup (IF at[t] = "hold" THEN {"cancelled"} ELSE {})
                    \cup (IF my[t].then = "release" THEN {"unsettled"} ELSE {})
  /\ UNCHANGED <<conn, client, server, claim>>

Release(t) ==
  IF my[t].verb \in {"sneak", "sprint"}
    THEN /\ at' = [at EXCEPT ![t] = "read"]
         /\ Notes(t, [my[t] EXCEPT !.on = FALSE])
    ELSE /\ at' = [at EXCEPT ![t] = "settle"]
         /\ Notes(t, [my[t] EXCEPT !.then = "release"])

\* Mutant of CancelEndsHold: an error of the wait is returned at once.
CancelEndsAll(t) ==
  /\ at[t] = "hold" /\ my[t].verb # "draw" /\ Ends(t)
  /\ UNCHANGED <<conn, client, server, ghosts>>

\* ... but Sneak, SprintTo and UseItemFor go on to let go.
CancelEndsHold(t) ==
  /\ at[t] = "hold" /\ my[t].verb # "draw" /\ Release(t)
  /\ UNCHANGED <<conn, client, begun, server, ghosts>>

\* The time to hold is over; or the walk of SprintTo, or what Consume waits for.
HoldEnds(t) ==
  /\ at[t] = "hold" /\ Release(t)
  /\ UNCHANGED <<conn, client, begun, server, ghosts>>

-----------------------------------------------------------------------------
(* Inputs: setInputBit and SetInput.                                       *)

Bit(t) == {my[t].verb}

\* Mutant of ReadInput: a bit is set either way.
ReadInputOn(t) ==
  /\ Goes(t, "read", "set")
  /\ Notes(t, [my[t] EXCEPT !.seen = input, !.flags = input \cup Bit(t)])
  /\ UNCHANGED <<conn, client, begun, server, ghosts>>

ReadInput(t) ==
  /\ Goes(t, "read", "set")
  /\ Notes(t, [my[t] EXCEPT !.seen = input,
                            !.flags = IF my[t].on THEN input \cup Bit(t) ELSE input \ Bit(t)])
  /\ UNCHANGED <<conn, client, begun, server, ghosts>>

StoreInput(t) ==
  /\ ~dead /\ Goes(t, "set", "send")
  /\ input' = my[t].flags
  /\ slips' = slips \cup (IF my[t].seen # input THEN {"crossed"} ELSE {})
  /\ UNCHANGED <<conn, dead, unsettled, view, breaks, cooled, my, begun, server, claim>>

SendInput(t) ==
  /\ at[t] = "send" /\ CanWrite /\ told' = my[t].flags
  /\ slips' = slips \cup (IF my[t].flags # input THEN {"crossed"} ELSE {})
  /\ IF my[t].on THEN Goes(t, "send", "hold") /\ UNCHANGED <<my, begun>> ELSE Ends(t)
  /\ UNCHANGED <<conn, client, life, awaiting, using, dig, block, sent, inbox, upsets, claim>>

-----------------------------------------------------------------------------
(* Uses: UseItem and releaseUse.  A tap is UseItem, or UseItemFor without  *)
(* a hold.                                                                 *)

SendUse(t) ==
  /\ at[t] = "use" /\ CanWrite /\ using' = (using \/ ~Deaf)
  /\ IF my[t].verb = "tap"
       THEN Ends(t) /\ slips' = slips \cup {"tap"}
       ELSE Goes(t, "use", "hold") /\ UNCHANGED <<my, begun, slips>>
  /\ UNCHANGED <<conn, client, life, awaiting, told, dig, block, sent, inbox, upsets, claim>>

SendRelease(t) ==
  /\ at[t] = "release" /\ CanWrite /\ Ends(t)
  /\ using' = (using /\ Deaf)
  /\ slips' = slips \cup (IF Deaf THEN {"dropped"} ELSE {})
  /\ UNCHANGED <<conn, client, life, awaiting, told, dig, block, sent, inbox, upsets, claim>>

-----------------------------------------------------------------------------
(* Digging: DigBlock, DigLookingAt and awaitBreak.                         *)

Finds(t, from, to) ==
  /\ Goes(t, from, to)
  /\ Notes(t, [my[t] EXCEPT !.then = "start"])
  /\ UNCHANGED <<conn, client, begun, server, ghosts>>

\* DigLookingAt: the crosshair is on the block, which it is not on terrain that is
\* not loaded.
LookAtBlock(t) == my[t].verb = "look" /\ view = "block" /\ Finds(t, "point", "alive")

\* DigBlock looks at the block first.
Aimed(t, to) == ~dead /\ CanWrite /\ Finds(t, "aim", to)

\* The block is in sight; terrain that is not loaded is given the benefit.
AimAtBlock(t) == my[t].verb = "dig" /\ view # "air" /\ Aimed(t, "alive")

\* The block may be on its way: awaitTargetable.
AimAtAir(t) == my[t].verb = "dig" /\ view = "air" /\ Aimed(t, "target")

TargetAppears(t) ==
  /\ view = "block" /\ Goes(t, "target", "alive")
  /\ UNCHANGED <<conn, client, my, begun, server, ghosts>>

\* Nothing is in the crosshair; a deadline passes with nothing to break, a break that did not come, or a
\* block that did not appear for the last time.
GiveUp(t) ==
  /\ \/ at[t] = "point" /\ view # "block"
     \/ at[t] \in {"target", "pace"}
     \/ at[t] = "seek" /\ my[t].tries = PlaceAttempts
  /\ Ends(t)
  /\ UNCHANGED <<conn, client, server, ghosts>>

\* DigLookingAt goes on to awaitBreak with no wait for a cooldown.
SendStart(t) ==
  /\ CanWrite /\ Goes(t, "start", IF my[t].verb = "look" THEN "cool" ELSE "cooldown")
  /\ dig' = (dig \/ (block /\ ~Deaf))
  /\ UNCHANGED <<conn, client, my, begun, life, awaiting, told, using, block, sent,
                 inbox, upsets, ghosts>>

ReadCooldown(t) ==
  /\ Goes(t, "cooldown", "cool")
  /\ Notes(t, [my[t] EXCEPT !.last = breaks])
  /\ UNCHANGED <<conn, client, begun, server, ghosts>>

\* The cooldown is over, or nothing was recorded to wait for.  awaitBreak watches the world, or without terrain holds for the time given.
CoolEnds(t) ==
  /\ my[t].last <= cooled
  /\ Goes(t, "cool", IF view = "unloaded" THEN "blind" ELSE "watch")
  /\ UNCHANGED <<conn, client, my, begun, server, ghosts>>

ToFinish(t, blind) ==
  /\ at' = [at EXCEPT ![t] = "alive"]
  /\ Notes(t, [my[t] EXCEPT !.then = "finish", !.blind = blind])
  /\ UNCHANGED <<conn, client, begun, server, ghosts>>

BlindHoldEnds(t) == at[t] = "blind" /\ ToFinish(t, TRUE)

\* Mutant of BlockIsGone: the finish is taken for the break.
FinishIsEnough(t) == view # "block" \/ my[t].finished

\* IsTargetableAt, for which terrain that has been dropped is air.
BlockIsGone(t) == view # "block"

Broke(t) ==
  /\ at[t] = "watch" /\ BlockIsGone(t) /\ Ends(t)
  /\ breaks' = IF my[t].finished THEN breaks + 1 ELSE breaks
  /\ claim' = "gone"
  /\ slips' = slips \cup (IF view = "unloaded" THEN {"forgotten"} ELSE {})
  /\ UNCHANGED <<conn, dead, input, unsettled, view, cooled, server>>

Stands(t) ==
  /\ ~BlockIsGone(t) /\ Goes(t, "watch", "swing")
  /\ UNCHANGED <<conn, client, my, begun, server, ghosts>>

\* The arm moves every other tick, and once with a placement.
Swing(t) ==
  /\ \/ ~dead /\ CanWrite
     \/ my[t].verb \in Digs
  /\ Goes(t, "swing", IF my[t].verb \in Digs THEN "pace" ELSE "confirm")
  /\ UNCHANGED <<conn, client, my, begun, server, ghosts>>

HoldIsOver(t) == at[t] = "pace" /\ ~my[t].finished /\ ToFinish(t, FALSE)

LookAgain(t) ==
  /\ Goes(t, "pace", "watch")
  /\ UNCHANGED <<conn, client, my, begun, server, ghosts>>

SendFinish(t) ==
  /\ at[t] = "finish" /\ CanWrite
  /\ dig' = (dig \/ (block /\ ~Deaf))
  /\ IF my[t].blind
       THEN Ends(t)
       ELSE /\ Goes(t, "finish", "pace") /\ Notes(t, [my[t] EXCEPT !.finished = TRUE])
            /\ UNCHANGED begun
  /\ UNCHANGED <<conn, client, life, awaiting, told, using, block, sent, inbox, upsets, ghosts>>

-----------------------------------------------------------------------------
(* Placing: PlaceBlockVerified and confirmBlockBecame.                     *)

AimToPlace(t) ==
  /\ my[t].verb = "place" /\ ~dead /\ CanWrite /\ Goes(t, "aim", "place")
  /\ UNCHANGED <<conn, client, my, begun, server, ghosts>>

\* The server may ignore a placement, as it does the first of a session.
SendPlace(t) ==
  /\ CanWrite /\ Goes(t, "place", "swing")
  /\ Notes(t, [my[t] EXCEPT !.tries = @ + 1])
  /\ \/ UNCHANGED <<block, inbox>>
     \/ ~Deaf /\ ~block /\ Becomes(TRUE)
  /\ UNCHANGED <<conn, client, begun, life, awaiting, told, using, dig, sent,
                 upsets, ghosts>>

\* Without terrain there is nothing to verify against.
CannotConfirm(t) ==
  /\ at[t] = "confirm" /\ view = "unloaded" /\ Ends(t)
  /\ UNCHANGED <<conn, client, server, ghosts>>

Confirm(t) ==
  /\ view # "unloaded" /\ Goes(t, "confirm", "seek")
  /\ UNCHANGED <<conn, client, my, begun, server, ghosts>>

Placed(t) ==
  /\ at[t] = "seek" /\ view = "block" /\ Ends(t)
  /\ claim' = "there"
  /\ UNCHANGED <<conn, client, server, slips>>

\* Mutant of PlaceAgain: it tries for as long as it takes.
PlaceAlways(t) ==
  /\ Goes(t, "seek", "alive")
  /\ Notes(t, [my[t] EXCEPT !.then = "aim"])
  /\ UNCHANGED <<conn, client, begun, server, ghosts>>

PlaceAgain(t) ==
  /\ my[t].tries < PlaceAttempts /\ Goes(t, "seek", "alive")
  /\ Notes(t, [my[t] EXCEPT !.then = "aim"])
  /\ UNCHANGED <<conn, client, begun, server, ghosts>>

-----------------------------------------------------------------------------
Server ==
  \/ ServerTeleports \/ ServerKills \/ ServerRespawns \/ ServerSendsColumn
  \/ ServerUnloads \/ ServerBreaks \/ BlockReturns \/ Disconnect

Others ==
  \/ TakeTeleport \/ TakeDeath \/ TakeRespawn
  \/ \E packet \in {"block", "air", "unload"} : TakeTerrain(packet)
  \/ IdleReports \/ SettleWindowPasses

Acts(t) ==
  \/ Settled(t) \/ Unsettled(t) \/ AnswerTeleport(t) \/ PauseEnds(t) \/ StillAlive(t)
  \/ Refused(t) \/ WriteFails(t) \/ CancelEndsVerb(t) \/ CancelEndsHold(t) \/ HoldEnds(t)
  \/ ReadInput(t) \/ StoreInput(t) \/ SendInput(t) \/ SendUse(t) \/ SendRelease(t)
  \/ LookAtBlock(t) \/ AimAtBlock(t) \/ AimAtAir(t) \/ TargetAppears(t) \/ GiveUp(t)
  \/ SendStart(t)
  \/ ReadCooldown(t) \/ CoolEnds(t) \/ BlindHoldEnds(t) \/ Broke(t) \/ Stands(t) \/ Swing(t)
  \/ HoldIsOver(t) \/ LookAgain(t) \/ SendFinish(t)
  \/ AimToPlace(t) \/ SendPlace(t) \/ CannotConfirm(t) \/ Confirm(t) \/ Placed(t) \/ PlaceAgain(t)

Next ==
  \/ Server \/ Others \/ BreakCools
  \/ \E t \in Threads : Acts(t) \/ \E verb \in Kinds : Begin(t, verb)

Spec == Init /\ [][Next]_vars

\* The threads differ in nothing.
Symmetry == Permutations(Threads)

-----------------------------------------------------------------------------
(* Properties.                                                             *)

Points == {"rest", "settle", "answer", "pause", "alive", "hold", "read", "set", "send", "use",
           "release", "point", "aim", "target", "start", "cooldown", "cool", "blind", "watch",
           "swing", "pace", "finish", "place", "confirm", "seek"}

TypeOK ==
  /\ conn \in {"open", "closed"} /\ dead \in BOOLEAN /\ unsettled \in BOOLEAN
  /\ input \subseteq {"sneak", "sprint"} /\ told \subseteq {"sneak", "sprint"}
  /\ view \in {"block", "air", "unloaded"} /\ breaks \in 0..MaxVerbs /\ cooled \in 0..breaks
  /\ at \in [Threads -> Points] /\ begun \in 0..MaxVerbs
  /\ \A t \in Threads : my[t].tries \in 0..PlaceAttempts /\ my[t].last \in 0..breaks
  /\ life \in {"alive", "dead", "asked"} /\ awaiting \in BOOLEAN /\ using \in BOOLEAN
  /\ dig \in BOOLEAN /\ block \in BOOLEAN /\ sent \in BOOLEAN /\ upsets \in 0..MaxUpsets
  /\ slips \subseteq {"crossed", "refused", "cancelled", "unsettled", "dropped", "tap",
                     "forgotten"}
  /\ claim \in {"none", "gone", "there"}

Resting(verbs) == \A t \in Threads : my[t].verb \notin verbs

\* "A cancelled context must still let go, or the bot keeps the button held for
\* the rest of the session": when no use is under way the server does not think
\* otherwise, but for a tap, which is never let go of, a draw or a meal cut short
\* by its context, a release given up for the same reason while a teleport had
\* yet to settle, and one that a teleport the client has not seen made the server
\* drop.
UseIsLetGo ==
  /\ Resting({"use", "tap", "draw"}) /\ conn = "open"
  /\ slips \cap {"tap", "cancelled", "unsettled", "dropped"} = {}
  => ~using

\* "A cancelled context must still stand the bot back up": when no sneak or sprint
\* is under way neither the client nor the server has a bit of one set, unless a
\* dead bot was refused the release or two of them wrote over each other.
InputIsLetGo ==
  /\ Resting({"sneak", "sprint"}) /\ conn = "open"
  /\ slips \cap {"refused", "crossed"} = {}
  => input = {} /\ told = {}

\* "The only honest confirmation is the block actually changing": what a dig or a
\* placement has reported is so, and stays so as far as the client has been told,
\* unless a dig took the dropping of the terrain for the breaking of the block.
ReportIsTrue ==
  sent /\ inbox = <<>> /\ "forgotten" \notin slips
  => (claim = "gone" => ~block) /\ (claim = "there" => block)
=============================================================================
