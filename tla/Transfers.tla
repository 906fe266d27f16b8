----------------------------- MODULE Transfers ------------------------------
(***************************************************************************)
(* Moving counted items about an open window with nothing but clicks: the  *)
(* verbs of understudy/storage.go and understudy/slots.go.                 *)
(*                                                                         *)
(* One goroutine performs one verb after another.  A verb plans from the   *)
(* client's copy of the window, sends a click, pauses for clickDelay and   *)
(* reads the copy again: it never learns whether a click was acted upon,   *)
(* nor what the cursor holds.                                              *)
(*                                                                         *)
(* The server is not part of the repository.  It acts on one click after   *)
(* another, resyncs instead of acting on a click sent before its latest    *)
(* news arrived, and says every change slot by slot.  OTHERS, a hopper or  *)
(* another player, move single items of the window about.  A click and its *)
(* news may take longer than the pause, and the context may end in it.     *)
(*                                                                         *)
(* Data.  The verbs name item "a"; "b" is in the way.  Slots count from 1, *)
(* the container's own before the player's rows.                           *)
(***************************************************************************)
EXTENDS Integers, Sequences, FiniteSets

CONSTANTS Own, Rows,     \* the slots of the container and of the player
          MaxStack,      \* how many items a stack holds
          Layouts,       \* what the window may hold at first: see Init
          Verbs,         \* the verbs asked for: [kind, count, slot]
          MaxStackMoves, \* maxStackMoves
          MaxVerbs,      \* bound: verbs asked for
          OthersMoves,   \* what others move: pairs of slots, from and to
          MaxInFlight,   \* bound: news on its way when somebody else moves
          Troubles       \* what may go wrong, of "late" and "cancel"

Slots == 1..(Own + Rows)
OwnSlots == 1..Own
PlayerRows == (Own + 1)..(Own + Rows)

Empty == [item |-> "none", count |-> 0]
Stacks == {Empty} \cup [item : {"a", "b"}, count : 1..MaxStack]

Kinds == {"deposit", "withdraw", "all", "put", "one"}

ASSUME TransfersAssumption ==
  /\ Own \in Nat \ {0} /\ Rows \in Nat \ {0} /\ MaxStack \in Nat \ {0}
  /\ Layouts \subseteq [Slots -> Stacks]
  /\ Verbs \subseteq [kind : Kinds, count : Nat, slot : OwnSlots]
  /\ MaxStackMoves \in Nat \ {0} /\ MaxVerbs \in Nat /\ MaxInFlight \in Nat
  /\ OthersMoves \subseteq Slots \X Slots
  /\ Troubles \subseteq {"late", "cancel"}

VARIABLES
  slots,   \* server: the window
  cursor,  \* server: what the player's cursor holds
  up,      \* clicks on their way to the server
  down,    \* slots on their way to the client
  view,    \* c.window
  at,      \* the control point
  verb,    \* the verb and its variables
  verbs,   \* verbs so far
  calm,    \* ghost: what the verb has met: "prompt", "late" or "disturbed"
  gained,  \* ghost: what the clicks have added to the destination
  start    \* ghost: the window as the verb found it

vars == <<slots, cursor, up, down, view, at, verb, verbs, calm, gained, start>>

-----------------------------------------------------------------------------
Stack(item, n) == IF n = 0 THEN Empty ELSE [item |-> item, count |-> n]
Least(a, b) == IF a < b THEN a ELSE b

Room(stack, item) ==
  IF stack = Empty THEN MaxStack ELSE IF stack.item = item THEN MaxStack - stack.count ELSE 0

Holds(stack) == IF stack.item = "a" THEN stack.count ELSE 0

\* countInRange
Count(window, range) ==
  LET sum[s \in 0..(Own + Rows)] ==
        IF s = 0 THEN 0 ELSE sum[s - 1] + (IF s \in range THEN Holds(window[s]) ELSE 0)
  IN sum[Own + Rows]

\* findInRange, Container.FindFrom: the first slot of a range with the item, or 0.
First(set) == IF set = {} THEN 0 ELSE CHOOSE s \in set : \A t \in set : s <= t
FindInRange(range) == First({s \in range : view[s].item = "a"})

\* Alongside the same item if there is one, else the first empty slot.
FreeSlotInRange(range) ==
  IF FindInRange(range) # 0 THEN FindInRange(range)
  ELSE First({s \in range : view[s] = Empty})

Source(v) == IF v.kind = "withdraw" THEN OwnSlots ELSE PlayerRows
Destination(v) ==
  CASE v.kind = "withdraw" -> PlayerRows [] v.kind \in {"put", "one"} -> {v.slot}
    [] OTHER -> OwnSlots

NoVerb == [kind |-> "none", count |-> 0, slot |-> 1, remaining |-> 0, before |-> 0, was |-> 0,
           src |-> 0, dst |-> 0, left |-> 0, button |-> 1, moves |-> 0, next |-> "rest",
           result |-> "none", reported |-> 0]

Init ==
  /\ slots \in Layouts /\ cursor = Empty
  /\ up = <<>> /\ down = <<>> /\ view = slots
  /\ at = "rest" /\ verb = NoVerb /\ verbs = 0
  /\ calm = "prompt" /\ gained = 0 /\ start = slots

-----------------------------------------------------------------------------
(* The server.                                                             *)

\* What changed, in the order of the slots.
News(old, new) ==
  LET news[s \in 0..(Own + Rows)] ==
        IF s = 0 THEN <<>>
        ELSE IF new[s] = old[s] THEN news[s - 1]
        ELSE Append(news[s - 1], [slot |-> s, stack |-> new[s]])
  IN news[Own + Rows]

\* A stack poured into slots that can take it, one after another.
PourInto(window, targets, item, n) ==
  LET rest[s \in 0..(Own + Rows)] ==
        IF s = 0 THEN n
        ELSE LET r == rest[s - 1]
             IN IF s \in targets THEN r - Least(r, Room(window[s], item)) ELSE r
  IN [window |-> [s \in Slots |->
        LET k == rest[s - 1] - rest[s]
        IN IF k = 0 THEN window[s] ELSE Stack(item, window[s].count + k)],
      rest |-> rest[Own + Rows]]

\* Into a range: alongside the same item first, then into what is empty.
Pour(window, range, item, n) ==
  LET alongside == PourInto(window, {s \in range : window[s].item = item}, item, n)
  IN PourInto(alongside.window, {s \in range : window[s] = Empty}, item, alongside.rest)

QuickMove(s) ==
  LET item == slots[s].item
      poured == Pour([slots EXCEPT ![s] = Empty], IF s \in OwnSlots THEN PlayerRows ELSE OwnSlots,
                     item, slots[s].count)
  IN IF slots[s] = Empty THEN slots ELSE [poured.window EXCEPT ![s] = Stack(item, poured.rest)]

\* Left takes or puts all there is, right takes half or puts one; a slot with
\* another item trades places with the cursor.
Taken(s, button) == IF button = 0 THEN slots[s].count ELSE (slots[s].count + 1) \div 2
Put(s, button) == Least(IF button = 0 THEN cursor.count ELSE 1, Room(slots[s], cursor.item))

NormalClick(s, button) ==
  IF cursor = Empty
  THEN [slot |-> Stack(slots[s].item, slots[s].count - Taken(s, button)),
        cursor |-> Stack(slots[s].item, Taken(s, button))]
  ELSE IF slots[s] # Empty /\ slots[s].item # cursor.item
  THEN [slot |-> cursor, cursor |-> slots[s]]
  ELSE [slot |-> Stack(cursor.item, slots[s].count + Put(s, button)),
        cursor |-> Stack(cursor.item, cursor.count - Put(s, button))]

Overtaken(clicks) == [i \in DOMAIN clicks |-> [clicks[i] EXCEPT !.stale = TRUE]]

Acts(click, window, held) ==
  /\ slots' = window /\ cursor' = held
  /\ LET news == News(slots, window) IN
     /\ down' = down \o news
     /\ up' = IF news = <<>> THEN Tail(up) ELSE Overtaken(Tail(up))
  /\ gained' = IF click.verb = verbs /\ calm # "disturbed"
               THEN gained + Count(window, Destination(verb)) - Count(slots, Destination(verb))
               ELSE gained

\* A click that was sent, or overtaken, by news it does not know of is not acted on.
ServerTakesClick ==
  /\ up # <<>>
  /\ LET click == Head(up) IN
     \/ /\ ~click.stale /\ click.mode = "quick"
        /\ Acts(click, QuickMove(click.slot), cursor)
     \/ /\ ~click.stale /\ click.mode = "normal"
        /\ LET after == NormalClick(click.slot, click.button)
           IN Acts(click, [slots EXCEPT ![click.slot] = after.slot], after.cursor)
     \/ /\ click.stale
        /\ UNCHANGED <<slots, cursor, gained>>
        /\ up' = Overtaken(Tail(up))
        /\ down' = down \o [s \in Slots |-> [slot |-> s, stack |-> slots[s]]]
  /\ UNCHANGED <<view, at, verb, verbs, calm, start>>

\* Bound: under the first verb; what they move between two is another layout.
OthersMove ==
  /\ at # "rest" /\ verbs = 1 /\ Len(down) < MaxInFlight
  /\ \E move \in OthersMoves :
       LET from == move[1] to == move[2] IN
       /\ from # to /\ slots[from] # Empty /\ Room(slots[to], slots[from].item) > 0
       /\ slots' = [slots EXCEPT ![from] = Stack(@.item, @.count - 1),
                                 ![to] = Stack(slots[from].item, @.count + 1)]
  /\ down' = down \o News(slots, slots')
  /\ up' = Overtaken(up)
  /\ calm' = "disturbed"
  /\ gained' = 0
  /\ UNCHANGED <<cursor, view, at, verb, verbs, start>>

-----------------------------------------------------------------------------
(* The client: handleSetSlot and handleWindowItems.                        *)

TakeNews ==
  /\ down # <<>> /\ down' = Tail(down)
  /\ view' = [view EXCEPT ![Head(down).slot] = Head(down).stack]
  /\ UNCHANGED <<slots, cursor, up, at, verb, verbs, calm, gained, start>>

-----------------------------------------------------------------------------
(* The verbs.                                                              *)

theirs == <<slots, cursor, down, view>>

Goes(from, to) == at = from /\ at' = to

\* ClickContainerSlot, and the pause after it.
Clicks(mode, slot, button, next, rec) ==
  /\ up' = Append(up, [mode |-> mode, slot |-> slot, button |-> button, verb |-> verbs,
                       stale |-> down # <<>>])
  /\ at' = "pause"
  /\ verb' = [rec EXCEPT !.next = next]
  /\ UNCHANGED <<theirs, verbs, calm, gained, start>>

Returns(result) ==
  /\ at' = "rest"
  /\ verb' = [verb EXCEPT !.result = result,
                          !.reported = IF verb.kind \in {"deposit", "withdraw"}
                                       THEN verb.before - Count(view, Source(verb)) ELSE @]
  /\ UNCHANGED <<theirs, up, verbs, calm, gained, start>>

\* Bound: a disturbed verb is the last.
Begin(v) ==
  LET before == Count(view, Source(v)) IN
  /\ at = "rest" /\ verbs < MaxVerbs /\ calm # "disturbed"
  /\ verbs' = verbs + 1
  /\ verb' = [NoVerb EXCEPT !.kind = v.kind, !.count = v.count, !.slot = v.slot,
                            !.before = before,
                            !.remaining = IF v.count > 0 /\ v.count < before THEN v.count
                                          ELSE before]
  /\ at' = CASE v.kind \in {"deposit", "withdraw"} -> "loop" [] v.kind = "all" -> "sweep"
             [] OTHER -> "find"
  /\ calm' = IF up # <<>> \/ down # <<>> THEN "disturbed" ELSE IF cursor = Empty THEN "prompt"
             ELSE "late"
  /\ gained' = 0 /\ start' = slots
  /\ UNCHANGED <<theirs, up>>

(* transfer.                                                               *)

Moves == verb.moves < MaxStackMoves

StopsMoving ==
  /\ at = "loop"
  /\ ~Moves \/ verb.remaining <= 0 \/ FindInRange(Source(verb)) = 0
  /\ Returns("ok")

Loops == at = "loop" /\ Moves /\ verb.remaining > 0 /\ FindInRange(Source(verb)) # 0

\* A stack that is wanted whole is shift-clicked ...
IsWhole(src) == view[src].count <= verb.remaining

TakesWhole ==
  LET src == FindInRange(Source(verb)) IN
  /\ Loops /\ IsWhole(src)
  /\ at' = "take"
  /\ verb' = [verb EXCEPT !.src = src, !.was = Count(view, Source(verb)), !.moves = @ + 1]
  /\ UNCHANGED <<theirs, up, verbs, calm, gained, start>>

\* ... and one that is wanted in part placed one by one, if there is a place for it.
TakesPart ==
  LET dst == FreeSlotInRange(Destination(verb)) IN
  /\ Loops /\ ~IsWhole(FindInRange(Source(verb)))
  /\ dst # 0
  /\ at' = "pick"
  /\ verb' = [verb EXCEPT !.src = FindInRange(Source(verb)), !.dst = dst,
                          !.left = verb.remaining, !.button = 1, !.moves = @ + 1]
  /\ UNCHANGED <<theirs, up, verbs, calm, gained, start>>

HasNoRoom ==
  /\ Loops /\ ~IsWhole(FindInRange(Source(verb)))
  /\ FreeSlotInRange(Destination(verb)) = 0
  /\ Returns("ok")

TakeFromContainer == at = "take" /\ Clicks("quick", verb.src, 0, "counted", verb)

\* Mutant of StackGone: one stack is enough.
StackGoneEnds == at = "counted" /\ verb.kind # "all" /\ Returns("ok")

StackGone ==
  LET gone == verb.was - Count(view, Source(verb)) IN
  /\ Goes("counted", "loop") /\ verb.kind # "all" /\ gone > 0
  /\ verb' = [verb EXCEPT !.remaining = @ - gone]
  /\ UNCHANGED <<theirs, up, verbs, calm, gained, start>>

\* Nothing moved: the far side is full.
Stalled ==
  /\ at = "counted" /\ verb.kind # "all" /\ verb.was <= Count(view, Source(verb))
  /\ Returns("ok")

(* placeOneByOne, and the three clicks of moveIntoSlot.                    *)

PickUp == at = "pick" /\ Clicks("normal", verb.src, 0, "place", verb)

\* Mutant of PlaceOne: one item more.
PlaceOneMore ==
  /\ at = "place" /\ verb.left >= 0
  /\ Clicks("normal", verb.dst, verb.button, "place", [verb EXCEPT !.left = @ - 1])

PlaceOne ==
  /\ at = "place" /\ verb.left > 0
  /\ Clicks("normal", verb.dst, verb.button, "place", [verb EXCEPT !.left = @ - 1])

\* Mutant of PutBack: the remainder stays on the cursor.
PutBackNothing == at = "place" /\ verb.left <= 0 /\ Returns("ok")

\* "Put the remainder back, or the server drops it on the floor".
PutBack ==
  /\ at = "place" /\ verb.left <= 0
  /\ Clicks("normal", verb.src, 0, "placed", verb)

Placed == at = "placed" /\ Returns("ok")

FindsNothing == at = "find" /\ FindInRange(PlayerRows) = 0 /\ Returns("error")

MoveIntoSlot ==
  /\ Goes("find", "pick") /\ FindInRange(PlayerRows) # 0
  /\ verb' = [verb EXCEPT !.src = FindInRange(PlayerRows), !.dst = verb.slot, !.left = 1,
                          !.button = IF verb.kind = "one" THEN 1 ELSE 0]
  /\ UNCHANGED <<theirs, up, verbs, calm, gained, start>>

(* DepositAll.                                                             *)

Held == {s \in PlayerRows : view[s] # Empty}

Sweeps ==
  /\ Goes("sweep", "take") /\ Moves /\ Held # {}
  /\ verb' = [verb EXCEPT !.src = First(Held), !.moves = @ + 1]
  /\ UNCHANGED <<theirs, up, verbs, calm, gained, start>>

Swept == at = "sweep" /\ (~Moves \/ Held = {}) /\ Returns("ok")

\* Mutant of StackLeft: the bound is on moves in vain.
StackLeftRenews ==
  /\ Goes("counted", "sweep") /\ verb.kind = "all" /\ view[verb.src] = Empty
  /\ verb' = [verb EXCEPT !.moves = 0]
  /\ UNCHANGED <<theirs, up, verbs, calm, gained, start>>

StackLeft ==
  /\ Goes("counted", "sweep") /\ verb.kind = "all" /\ view[verb.src] = Empty
  /\ verb' = [verb EXCEPT !.reported = @ + 1]
  /\ UNCHANGED <<theirs, up, verbs, calm, gained, start>>

StackStayed ==
  /\ at = "counted" /\ verb.kind = "all" /\ view[verb.src] # Empty
  /\ Returns("ok")

(* The pause.                                                              *)

PauseEnds ==
  /\ Goes("pause", verb.next)
  /\ IF up = <<>> /\ down = <<>> THEN UNCHANGED calm
     ELSE "late" \in Troubles /\ calm' = IF calm = "prompt" THEN "late" ELSE calm
  /\ UNCHANGED <<theirs, up, verb, verbs, gained, start>>

ContextEnds == "cancel" \in Troubles /\ at = "pause" /\ Returns("error")

-----------------------------------------------------------------------------
Steps ==
  \/ StopsMoving \/ TakesWhole \/ TakesPart \/ HasNoRoom \/ TakeFromContainer \/ StackGone
  \/ Stalled \/ PickUp \/ PlaceOne \/ PutBack \/ Placed \/ FindsNothing \/ MoveIntoSlot
  \/ Sweeps \/ Swept \/ StackLeft \/ StackStayed \/ PauseEnds

Next ==
  \/ Steps \/ ContextEnds \/ (\E v \in Verbs : Begin(v))
  \/ ServerTakesClick \/ TakeNews \/ OthersMove

Spec == Init /\ [][Next]_vars

\* Where ClickContainerSlot writes, without a deadline.
Clicking == at \in {"take", "pick", "place"}

\* The verb's goroutine runs and its pauses end.  Nothing is assumed of the server: one
\* that stops reading blocks a click for good, so that clicks are not fair.
FairSpec == Spec /\ WF_vars(~Clicking /\ Steps)

-----------------------------------------------------------------------------
Returned == at = "rest" /\ verb.result = "ok" /\ up = <<>> /\ down = <<>>
Counted == verb.kind \in {"deposit", "withdraw"}
Wanted == IF verb.count > 0 THEN Least(verb.count, verb.before) ELSE verb.before

(* "So a request for 5 out of a stack of 25 cannot be one click"            *)
(* (storage.go:52): a transfer never moves more than it was asked for, and  *)
(* PutOneIntoSlot never more than one into a slot that could take it, even  *)
(* if the clicks and their news take longer than the pause, the context     *)
(* ends in the middle, or an earlier verb left a stack on the cursor.       *)
NeverMoreThanAsked ==
  calm # "disturbed" =>
    /\ Counted => gained <= Wanted
    /\ verb.kind = "one" /\ start[verb.slot].item # "b" => gained <= 1

(* "The number actually moved is returned" (storage.go:20), and whatever    *)
(* was picked up on the way is put down (storage.go:196): when the server   *)
(* keeps up and nobody interferes, both are true of every verb.             *)
ReportIsTrue ==
  Returned /\ calm = "prompt" =>
    /\ cursor = Empty
    /\ Counted => verb.reported = gained
    /\ verb.kind = "all" =>
         verb.reported = Cardinality({s \in PlayerRows : start[s] # Empty /\ slots[s] = Empty})

(* A transfer is short only where the destination takes no more             *)
(* (storage.go:20), and for a stack wanted in part the destination is one   *)
(* slot: the first that holds the item, though another be empty.            *)
ShortOnlyWhenFull ==
  Returned /\ calm = "prompt" =>
    /\ Counted /\ gained < Wanted =>
         \/ \A s \in Destination(verb) : Room(slots[s], "a") = 0
         \/ verb.dst # 0 /\ Room(slots[verb.dst], "a") = 0
         \/ verb.moves = MaxStackMoves
    /\ verb.kind = "all" /\ (\E s \in PlayerRows : slots[s] # Empty) =>
         \/ \A s \in OwnSlots : Room(slots[s], slots[verb.src].item) = 0
         \/ verb.moves = MaxStackMoves

(* Every verb returns, though others move items back and forth under it     *)
(* for ever, unless a click of it is never written.  A transfer would       *)
(* without maxStackMoves, each turn of its loop leaving less to move;       *)
(* DepositAll, refilled behind its back, returns only because of it         *)
(* (storage.go:285).                                                        *)
VerbsReturn == at # "rest" ~> at = "rest" \/ []Clicking
=============================================================================
