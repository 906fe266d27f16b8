------------------------------ MODULE Windows -------------------------------
(***************************************************************************)
(* The windows a server opens and the client's copies of them: Container   *)
(* and Inventory of internal/inventory, the packets that fill them and the *)
(* verbs of understudy/container.go that open, click and close.            *)
(*                                                                         *)
(* Threads.  The reader handles one packet at a time; Container and        *)
(* Inventory take their locks per call, so a packet is handled in several  *)
(* steps.  OPENER performs OpenContainer and then clicks and closes;       *)
(* CLOSER is a second request that calls CloseContainer once, at any time. *)
(*                                                                         *)
(* The server is not part of the repository.  It answers an interaction    *)
(* with a window or not at all, sends a window's contents after it, says   *)
(* every change once, through whichever window is open, and resends the    *)
(* contents instead of acting on a click with an old state id.             *)
(*                                                                         *)
(* Data.  A window is its own slots followed by the player's rows, slots   *)
(* count from 1 and the rows are the whole of the player's inventory.  An  *)
(* item is "a", "none", or "x", whose data components cannot be skipped.   *)
(* Ids go up from 1, so that they are Container's sequence numbers too.    *)
(***************************************************************************)
EXTENDS Integers, Sequences

CONSTANTS Rows,        \* PlayerWindowSlots
          Stocks,      \* what a window's own slots may hold: names of OwnSlots
          MaxAsks,     \* bound: interactions sent
          MaxClicks,   \* bound: clicks sent
          MaxChanges   \* bound: changes the server makes of its own accord

ASSUME WindowsAssumption ==
  /\ Rows \in Nat \ {0} /\ Stocks \subseteq {"chest", "merchant"}
  /\ MaxAsks \in Nat /\ MaxClicks \in Nat /\ MaxChanges \in Nat

VARIABLES
  menu,      \* server: the open window, its id and own slots; id 0 is the player's
  rows,      \* server: the player's rows
  stamp,     \* server: the last state id of the player's window and of the open one
  lengths,   \* ghost: how many slots each window was opened with
  changes,   \* server: changes of its own so far
  up, down,  \* the packets on their way to the server and to the client
  view,      \* c.window
  inv,       \* c.inv: its slots, and whether they are truncated
  offers,    \* c.trades: whose window they are of, or 0
  reading,   \* the packet the reader is handling, or Nothing, and how far it is
  at,        \* each thread's control point
  my,        \* OPENER's variables
  closing,   \* each thread's id in CloseContainer
  asked,     \* interactions so far
  clicked,   \* clicks so far
  races      \* ghost: which of the races below have happened

vars == <<menu, rows, stamp, lengths, changes, up, down, view, inv, offers, reading, at,
          my, closing, asked, clicked, races>>

server  == <<menu, rows, stamp, lengths, changes>>
copies  == <<view, inv, offers>>
budget  == <<asked, clicked>>

-----------------------------------------------------------------------------
Items == {"none", "a", "x"}
OwnSlots == [chest |-> <<"a", "x">>, merchant |-> <<"a">>]

Nothing == [kind |-> "nothing", step |-> "rest"]
Threads == {"opener", "closer"}

Contents == menu.own \o rows

IsRow(own, slot) == own > 0 /\ slot > own /\ slot <= own + Rows

\* readSlot on one item after another: what precedes the first that does not decode.
Decoded(items) ==
  LET bad == {i \in DOMAIN items : items[i] = "x"}
      n   == IF bad = {} THEN Len(items) ELSE (CHOOSE i \in bad : \A j \in bad : i <= j) - 1
  IN SubSeq(items, 1, n)

Padded(items, n) == items \o [i \in 1..(n - Len(items)) |-> "none"]

\* Mutant of Size: the items that decoded, not the slots declared.
SizeOfDecoded(w) == IF w.trimmed THEN w.decoded ELSE Len(w.slots)

Size(w) == IF w.declared > Len(w.slots) THEN w.declared ELSE Len(w.slots)

ContainerOwnSlots(w) == IF Size(w) <= Rows THEN 0 ELSE Size(w) - Rows

Matches(id) == view.open /\ view.id = id

Goes(t, from, to) == at[t] = from /\ at' = [at EXCEPT ![t] = to]
Sends(packet) == up' = Append(up, packet)

Idle == [before |-> 0, slot |-> 0, id |-> 0]

Init ==
  /\ menu = [id |-> 0, own |-> <<>>] /\ rows = [r \in 1..Rows |-> IF r = 1 THEN "a" ELSE "none"]
  /\ stamp = [player |-> 0, window |-> 0] /\ lengths = <<>> /\ changes = 0
  /\ up = <<>> /\ down = <<>>
  /\ view = [open |-> FALSE, id |-> 0, slots |-> <<>>, declared |-> 0, decoded |-> 0,
             trimmed |-> FALSE, stateID |-> 0, sequence |-> 0]
  /\ inv = [slots |-> rows, truncated |-> FALSE, stateID |-> 0]
  /\ offers = 0 /\ reading = Nothing
  /\ at = [t \in Threads |-> "rest"] /\ my = Idle
  /\ closing = [t \in Threads |-> 0]
  /\ asked = 0 /\ clicked = 0 /\ races = {}

-----------------------------------------------------------------------------
(* The server.                                                             *)

Tells(packets) == down' = down \o packets

Answered == up # <<>> /\ up' = Tail(up)

SlotSet(id, slot, item, sid) ==
  [kind |-> "set_slot", id |-> id, slot |-> slot, item |-> item, sid |-> sid]

AllItems(id, items, sid) ==
  [kind |-> "window_items", id |-> id, items |-> items, sid |-> sid]

Shuts == IF menu.id = 0 THEN <<>> ELSE <<[kind |-> "close_window", id |-> menu.id]>>

\* A window already open is closed first.
ServerOpens(stock) ==
  LET id == Len(lengths) + 1  own == OwnSlots[stock] IN
  /\ Answered /\ Head(up).kind = "use"
  /\ menu' = [id |-> id, own |-> own]
  /\ lengths' = Append(lengths, Len(own) + Rows)
  /\ stamp' = [stamp EXCEPT !.window = 1]
  /\ Tells(Shuts \o <<[kind |-> "open_window", id |-> id], AllItems(id, own \o rows, 1)>>
             \o (IF stock = "merchant" THEN <<[kind |-> "trade_list", id |-> id]>> ELSE <<>>))
  /\ UNCHANGED <<rows, changes, copies, reading, at, my, closing, budget, races>>

ServerIsSilent ==
  /\ Answered /\ Head(up).kind = "use"
  /\ UNCHANGED <<server, down, copies, reading, at, my, closing, budget, races>>

ServerShuts ==
  /\ menu.id # 0 /\ changes < MaxChanges /\ changes' = changes + 1
  /\ menu' = [id |-> 0, own |-> <<>>] /\ Tells(Shuts)
  /\ UNCHANGED <<rows, stamp, lengths, up, copies, reading, at, my, closing, budget, races>>

\* close_window is not acknowledged.
ServerHearsClose ==
  /\ Answered /\ Head(up).kind = "close"
  /\ menu' = IF Head(up).id = menu.id THEN [id |-> 0, own |-> <<>>] ELSE menu
  /\ UNCHANGED <<rows, stamp, lengths, changes, down, copies, reading, at, my, closing,
                 budget, races>>

\* What it says of the open window, or of the player's, carries the next state id.
Current == IF menu.id = 0 THEN stamp.player ELSE stamp.window
Steps == stamp' = IF menu.id = 0 THEN [stamp EXCEPT !.player = @ + 1]
                  ELSE [stamp EXCEPT !.window = @ + 1]

\* A slot of the window, or of the player's own, takes another item.
ServerChanges(slot, item) ==
  /\ changes < MaxChanges /\ changes' = changes + 1
  /\ slot \in DOMAIN Contents /\ Contents[slot] # item
  /\ IF slot <= Len(menu.own)
     THEN menu' = [menu EXCEPT !.own[slot] = item] /\ UNCHANGED rows
     ELSE rows' = [rows EXCEPT ![slot - Len(menu.own)] = item] /\ UNCHANGED menu
  /\ Steps /\ Tells(<<SlotSet(menu.id, slot, item, Current + 1)>>)
  /\ UNCHANGED <<lengths, up, copies, reading, at, my, closing, budget, races>>

\* A quick-move empties one of the window's own slots into a row, if one is free ...
CanMove(click) ==
  /\ click.kind = "click" /\ click.id = menu.id /\ click.sid = stamp.window
  /\ click.slot \in DOMAIN menu.own /\ menu.own[click.slot] # "none"
  /\ \E row \in 1..Rows : rows[row] = "none"

ServerMoves(row) ==
  LET slot == Head(up).slot IN
  /\ Answered /\ CanMove(Head(up)) /\ rows[row] = "none"
  /\ rows' = [rows EXCEPT ![row] = menu.own[slot]]
  /\ menu' = [menu EXCEPT !.own[slot] = "none"]
  /\ Steps
  /\ Tells(<<SlotSet(menu.id, slot, "none", Current + 1),
             SlotSet(menu.id, Len(menu.own) + row, menu.own[slot], Current + 1)>>)
  /\ UNCHANGED <<lengths, changes, copies, reading, at, my, closing, budget, races>>

\* ... a hotbar swap exchanges two rows, whatever window is open ...
CanSwap(click) == click.kind = "swap" /\ click.sid = stamp.player

ServerSwaps ==
  LET slot == Head(up).slot  base == Len(menu.own) IN
  /\ Answered /\ CanSwap(Head(up))
  /\ rows' = [rows EXCEPT ![slot] = rows[Rows], ![Rows] = rows[slot]]
  /\ Steps
  /\ Tells(<<SlotSet(menu.id, base + slot, rows[Rows], Current + 1),
             SlotSet(menu.id, base + Rows, rows[slot], Current + 1)>>)
  /\ UNCHANGED <<menu, lengths, changes, copies, reading, at, my, closing, budget, races>>

\* ... and for any other click "the server silently resyncs instead of acting".
ServerResyncs ==
  LET click == Head(up) IN
  /\ Answered /\ click.kind \in {"click", "swap"} /\ ~CanMove(click) /\ ~CanSwap(click)
  /\ IF click.kind = "swap" \/ click.id = menu.id
     THEN Steps /\ Tells(<<AllItems(menu.id, Contents, Current + 1)>>)
     ELSE UNCHANGED <<stamp, down>>
  /\ UNCHANGED <<menu, rows, lengths, changes, copies, reading, at, my, closing, budget,
                 races>>

-----------------------------------------------------------------------------
(* The reader.                                                             *)

Reads(kind) == reading = Nothing /\ down # <<>> /\ Head(down).kind = kind
               /\ down' = Tail(down)

Handles(packet, step) == reading' = [kind |-> packet.kind, step |-> step, packet |-> packet]

Open(w, n) ==
  [w EXCEPT !.open = TRUE, !.id = n, !.slots = <<>>, !.declared = 0, !.trimmed = FALSE,
            !.sequence = @ + 1]

Close(w) == [w EXCEPT !.open = FALSE, !.id = 0]

ReplaceAll(w, items) ==
  [w EXCEPT !.slots = Padded(Decoded(items), Len(items)), !.declared = Len(items),
            !.decoded = Len(Decoded(items)), !.trimmed = Decoded(items) # items]

SetSlot(w, slot, item) == [w EXCEPT !.slots = [Padded(@, slot) EXCEPT ![slot] = item]]

TakeOpenWindow ==
  /\ Reads("open_window") /\ Handles(Head(down), "opened")
  /\ view' = Open(view, Head(down).id)
  /\ UNCHANGED <<server, up, inv, offers, at, my, closing, budget, races>>

\* "A new window's offers have not arrived yet."
ClearOffers ==
  /\ reading.step = "opened" /\ reading' = Nothing
  /\ offers' = 0
  /\ UNCHANGED <<server, up, down, view, inv, at, my, closing, budget, races>>

TakeTradeList ==
  /\ Reads("trade_list") /\ offers' = Head(down).id
  /\ UNCHANGED <<server, up, view, inv, reading, at, my, closing, budget, races>>

TakeCloseWindow ==
  /\ Reads("close_window")
  /\ view' = IF Matches(Head(down).id) THEN Close(view) ELSE view
  /\ UNCHANGED <<server, up, inv, offers, reading, at, my, closing, budget, races>>

\* handleWindowItems and handleSetSlot decide whose packet it is, once ...
TakeContents(kind) ==
  LET p == Head(down) IN
  /\ kind \in {"window_items", "set_slot"} /\ Reads(kind)
  /\ \/ Matches(p.id) /\ view' = [view EXCEPT !.stateID = p.sid] /\ Handles(p, "window")
        /\ UNCHANGED races
        /\ UNCHANGED inv
     \/ ~Matches(p.id) /\ p.id = 0 /\ inv' = [inv EXCEPT !.stateID = p.sid]
        /\ Handles(p, "inventory") /\ UNCHANGED <<view, races>>
     \/ ~Matches(p.id) /\ p.id # 0 /\ races' = races \cup {"lost"}
        /\ UNCHANGED <<view, inv, reading>>
  /\ UNCHANGED <<server, up, offers, at, my, closing, budget>>

\* ... change the window ...
FillWindow ==
  LET p == reading.packet IN
  /\ reading.step = "window" /\ reading' = [reading EXCEPT !.step = "mirror"]
  /\ view' = IF p.kind = "window_items" THEN ReplaceAll(view, p.items)
             ELSE SetSlot(view, p.slot, p.item)
  /\ UNCHANGED <<server, up, down, inv, offers, at, my, closing, budget, races>>

\* Mutant of MirrorToInventory: it is left out.
MirrorNothing ==
  /\ reading.step = "mirror" /\ reading' = Nothing
  /\ UNCHANGED <<server, up, down, copies, at, my, closing, budget, races>>

\* ... and copy the player's rows of it, as far as they have decoded ...
MirrorToInventory ==
  LET p    == reading.packet
      own  == ContainerOwnSlots(view)
      news == IF p.kind = "set_slot" THEN [s \in {p.slot} |-> p.item] ELSE Decoded(p.items)
  IN
  /\ reading.step = "mirror" /\ reading' = Nothing
  /\ inv' = [inv EXCEPT !.slots = [r \in 1..Rows |->
               IF own > 0 /\ own + r \in DOMAIN news THEN news[own + r] ELSE @[r]]]
  /\ races' = IF p.kind = "window_items" /\ Decoded(p.items) # p.items
              THEN races \cup {"undecoded"} ELSE races
  /\ UNCHANGED <<server, up, down, view, offers, at, my, closing, budget>>

\* ... or change the inventory.
FillInventory ==
  LET p == reading.packet IN
  /\ reading.step = "inventory" /\ reading' = Nothing
  /\ inv' = IF p.kind = "set_slot" THEN [inv EXCEPT !.slots[p.slot] = p.item]
            ELSE [inv EXCEPT !.slots = Padded(Decoded(p.items), Rows),
                             !.truncated = Decoded(p.items) # p.items]
  /\ UNCHANGED <<server, up, down, view, offers, at, my, closing, budget, races>>

-----------------------------------------------------------------------------
(* OPENER: OpenContainer and awaitContainer.                               *)

Unread == <<server, down, copies, reading>>

ReadSequence ==
  /\ Goes("opener", "rest", "ask") /\ asked < MaxAsks
  /\ my' = [Idle EXCEPT !.before = view.sequence]
  /\ UNCHANGED <<Unread, up, closing, budget, races>>

\* UseOnBlock or InteractEntity; it fails if it is refused or cannot be written.
Ask ==
  /\ \/ Goes("opener", "ask", "sequence") /\ asked < MaxAsks /\ asked' = asked + 1
        /\ Sends([kind |-> "use"]) /\ UNCHANGED my
     \/ Goes("opener", "ask", "rest") /\ my' = Idle /\ UNCHANGED <<asked, up>>
  /\ UNCHANGED <<Unread, closing, clicked, races>>

\* Mutant of PollSequence: any window will do.
PollNothing ==
  /\ Goes("opener", "sequence", "open")
  /\ UNCHANGED <<Unread, up, my, closing, budget, races>>

PollSequence ==
  /\ Goes("opener", "sequence", IF view.sequence > my.before THEN "open" ELSE "wait")
  /\ UNCHANGED <<Unread, up, my, closing, budget, races>>

PollOpen ==
  /\ Goes("opener", "open", IF view.open THEN "size" ELSE "wait")
  /\ UNCHANGED <<Unread, up, my, closing, budget, races>>

PollSize ==
  /\ \/ Size(view) > 0 /\ Goes("opener", "size", "opened") /\ my' = Idle
     \/ Size(view) = 0 /\ Goes("opener", "size", "wait") /\ UNCHANGED my
  /\ UNCHANGED <<Unread, up, closing, budget, races>>

TickerFires ==
  /\ Goes("opener", "wait", "sequence")
  /\ UNCHANGED <<Unread, up, my, closing, budget, races>>

\* "Ask again, but only while nothing has opened."
RetryFires ==
  /\ asked < MaxAsks
  /\ Goes("opener", "wait", IF view.sequence = my.before THEN "ask" ELSE "sequence")
  /\ UNCHANGED <<Unread, up, my, closing, budget, races>>

\* A window without contents is "usable for a button press".
DeadlinePasses ==
  /\ Goes("opener", "wait", "rest") /\ my' = Idle
  /\ UNCHANGED <<Unread, up, closing, budget, races>>

-----------------------------------------------------------------------------
(* OPENER, in the window: TakeFromContainer.                               *)

SeeItem(slot) ==
  /\ Goes("opener", "opened", "id") /\ clicked < MaxClicks
  /\ slot \in 1..Len(view.slots) /\ view.slots[slot] = "a"
  /\ slot <= ContainerOwnSlots(view)
  /\ my' = [Idle EXCEPT !.slot = slot]
  /\ UNCHANGED <<Unread, up, closing, budget, races>>

ReadWindowID ==
  /\ \/ view.id # 0 /\ my.slot <= Size(view)
        /\ Goes("opener", "id", "click") /\ my' = [my EXCEPT !.id = view.id]
     \/ ~(view.id # 0 /\ my.slot <= Size(view))
        /\ Goes("opener", "id", "opened") /\ my' = Idle
  /\ UNCHANGED <<Unread, up, closing, budget, races>>

WriteClick ==
  /\ Goes("opener", "click", "opened") /\ clicked' = clicked + 1
  /\ Sends([kind |-> "click", id |-> my.id, slot |-> my.slot, sid |-> view.stateID])
  /\ my' = Idle
  /\ UNCHANGED <<Unread, closing, asked, races>>

-----------------------------------------------------------------------------
(* OPENER, holding an item: HoldItem.                                      *)

\* FindItem: the lowest slot; the last row is the selected hotbar slot.
FindItem(slot) ==
  /\ at["opener"] \in {"rest", "opened"} /\ clicked < MaxClicks
  /\ slot \in 1..(Rows - 1) /\ inv.slots[slot] = "a"
  /\ \A r \in 1..(slot - 1) : inv.slots[r] # "a"
  /\ at' = [at EXCEPT !["opener"] = "hold"]
  /\ my' = [Idle EXCEPT !.slot = slot]
  /\ UNCHANGED <<Unread, up, closing, budget, races>>

WriteSwap ==
  /\ Goes("opener", "hold", "guess") /\ clicked' = clicked + 1
  /\ Sends([kind |-> "swap", id |-> 0, slot |-> my.slot, sid |-> inv.stateID])
  /\ UNCHANGED <<Unread, my, closing, asked, races>>

\* What the reader has yet to handle, or to finish.
Unheard == {down[i] : i \in DOMAIN down}
           \cup (IF "packet" \in DOMAIN reading THEN {reading.packet} ELSE {})

\* One of them says what a row of the player's holds.
Covered(row) ==
  \E p \in Unheard :
    \/ p.kind = "window_items"
    \/ p.kind = "set_slot" /\ p.slot = row + (IF p.id = 0 THEN 0 ELSE lengths[p.id] - Rows)

Unanswered == \E i \in DOMAIN up : up[i].kind = "swap"

\* "The server will echo the moved slots back; update optimistically."
GuessSwap ==
  /\ Goes("opener", "guess", "rest")
  /\ inv' = [inv EXCEPT !.slots[Rows] = "a", !.slots[my.slot] = "none"]
  /\ races' = IF Unanswered \/ (Covered(Rows) /\ Covered(my.slot)) THEN races
              ELSE races \cup {"overtaken"}
  /\ my' = Idle
  /\ UNCHANGED <<server, up, down, view, offers, reading, closing, budget>>

-----------------------------------------------------------------------------
(* CloseContainer, by either.                                              *)

ReadIDToClose(t) ==
  /\ view.id # 0
  /\ \/ Goes(t, "opened", "shut")
     \/ t = "closer" /\ Goes(t, "rest", "shut")
  /\ closing' = [closing EXCEPT ![t] = view.id]
  /\ UNCHANGED <<Unread, up, my, budget, races>>

\* "Mark it closed first": whichever window is open by now.
MarkClosed(t) ==
  /\ Goes(t, "shut", "tell")
  /\ view' = Close(view)
  /\ races' = IF view.id \in {0, closing[t]} THEN races ELSE races \cup {"crossed"}
  /\ UNCHANGED <<server, up, down, inv, offers, reading, my, closing, budget>>

\* Mutant of WriteClose: the id is read after it has been reset.
WriteCloseLate(t) ==
  /\ Goes(t, "tell", IF t = "closer" THEN "done" ELSE "rest")
  /\ Sends([kind |-> "close", id |-> view.id])
  /\ closing' = [closing EXCEPT ![t] = 0]
  /\ UNCHANGED <<Unread, my, budget, races>>

WriteClose(t) ==
  /\ Goes(t, "tell", IF t = "closer" THEN "done" ELSE "rest")
  /\ Sends([kind |-> "close", id |-> closing[t]])
  /\ closing' = [closing EXCEPT ![t] = 0]
  /\ UNCHANGED <<Unread, my, budget, races>>

-----------------------------------------------------------------------------
Server ==
  \/ \E stock \in Stocks : ServerOpens(stock)
  \/ ServerIsSilent \/ ServerShuts \/ ServerHearsClose \/ ServerSwaps \/ ServerResyncs
  \/ \E slot \in 1..(Rows + 2), item \in {"none", "a"} : ServerChanges(slot, item)
  \/ \E row \in 1..Rows : ServerMoves(row)

Reader ==
  \/ TakeOpenWindow \/ ClearOffers \/ TakeTradeList \/ TakeCloseWindow
  \/ TakeContents("window_items") \/ TakeContents("set_slot")
  \/ FillWindow \/ MirrorToInventory \/ FillInventory

Opener ==
  \/ ReadSequence \/ Ask \/ PollSequence \/ PollOpen \/ PollSize
  \/ TickerFires \/ RetryFires \/ DeadlinePasses
  \/ \E slot \in 1..(Rows + 2) : SeeItem(slot) \/ FindItem(slot)
  \/ ReadWindowID \/ WriteClick \/ WriteSwap \/ GuessSwap

Next == Server \/ Reader \/ Opener
        \/ \E t \in Threads : ReadIDToClose(t) \/ MarkClosed(t) \/ WriteClose(t)

Spec == Init /\ [][Next]_vars

-----------------------------------------------------------------------------
(* Properties.                                                             *)

\* Nothing is on its way or half done.
Quiet == up = <<>> /\ down = <<>> /\ reading = Nothing
         /\ at["opener"] \notin {"guess", "shut", "tell"}
         /\ at["closer"] \notin {"shut", "tell"}

\* "Every slot lookup then searched from the wrong floor": however many items of
\* a window decode, and whatever is open by now, what the client shows of the
\* last window it opened has as many slots as that window.
ShapeSurvives ==
  view.slots # <<>> => Size(view) = lengths[view.sequence]

\* The two ends agree on which window is open, what is in it and which state id a
\* click must echo, once nothing is on its way, unless CloseContainer marked
\* another window closed than the one it told the server of.
WindowInStep ==
  Quiet /\ "crossed" \notin races =>
    /\ view.id = menu.id
    /\ menu.id # 0 => /\ view.stateID = stamp.window
                      /\ view.trimmed \/ view.slots = Contents

\* "That second half is not a copy of the player's inventory -- it *is* the
\* player's inventory": the client's own view follows what happens through a
\* window, but for an update of a window it has closed itself, items of a window
\* that do not decode, and a guess made after the answer to it.
InventoryInStep ==
  Quiet /\ races \subseteq {"crossed"} /\ ~inv.truncated => inv.slots = rows

\* "A window newer than the one seen before the interaction, *and* for its
\* contents to arrive": OpenContainer's success means a window opened since, all
\* of its slots, and no earlier merchant's offers.
OpensOnFresh ==
  [][at["opener"] = "size" /\ at'["opener"] = "opened" =>
       /\ view.sequence > my.before
       /\ Len(view.slots) = lengths[view.sequence]
       /\ offers \in {0, view.sequence}]_vars
=============================================================================
