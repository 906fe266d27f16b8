---------------------------- MODULE WindowsProofs ----------------------------
(***************************************************************************)
(* Proofs about Windows, for windows and inventories of any size and for   *)
(* any number of interactions, clicks and changes.                         *)
(*                                                                         *)
(* Every copy the client keeps is right because of the last word on its    *)
(* way: for each slot, the last packet still to be handled that sets it    *)
(* says what the server has, or there is none and the copy is right. That  *)
(* is StampInv for the state id, SlotInv for a slot of the open window and *)
(* RowInv for a row of the player's.  IdInv is what makes both ends speak  *)
(* of the same window, and CoreInv holds the types, the order in which     *)
(* windows are told of and the size of what is shown of them.              *)
(***************************************************************************)
EXTENDS Windows, SequenceTheorems, WellFoundedInduction, TLAPS

-----------------------------------------------------------------------------
(* Types.                                                                  *)

Kinds == {"open_window", "trade_list", "close_window", "window_items", "set_slot"}

Packets ==
  [kind : {"open_window", "trade_list", "close_window"}, id : Nat]
  \cup [kind : {"window_items"}, id : Nat, items : Seq(Items), sid : Nat]
  \cup [kind : {"set_slot"}, id : Nat, slot : Nat, item : Items, sid : Nat]

Requests ==
  [kind : {"use"}] \cup [kind : {"close"}, id : Nat]
  \cup [kind : {"click", "swap"}, id : Nat, slot : Nat, sid : Nat]

\* The slots of the window with an id, or of the player's own.
Extent(id, ls) == IF id = 0 THEN Rows ELSE ls[id]

Fits(p, ls) ==
  /\ p.id \in 0..Len(ls)
  /\ p.kind \in {"open_window", "trade_list", "close_window"} => p.id # 0
  /\ p.kind = "window_items" => Len(p.items) = Extent(p.id, ls)
  /\ p.kind = "set_slot" => p.slot \in 1..Extent(p.id, ls)

ServerTyped ==
  /\ menu \in [id : Nat, own : Seq(Items)] /\ rows \in [1..Rows -> Items]
  /\ stamp \in [player : Nat, window : Nat]
  /\ lengths \in Seq(Nat) /\ \A n \in 1..Len(lengths) : lengths[n] > Rows
  /\ menu.id \in {0, Len(lengths)}
  /\ Len(menu.own) = Extent(menu.id, lengths) - Rows

DownTyped == down \in Seq(Packets) /\ \A i \in 1..Len(down) : Fits(down[i], lengths)

UpTyped ==
  up \in Seq(Requests)
  /\ \A i \in 1..Len(up) : up[i].kind = "swap" => up[i].slot \in 1..(Rows - 1)

ViewTyped ==
  /\ view \in [open : BOOLEAN, id : Nat, slots : Seq(Items), declared : Nat, decoded : Nat,
               trimmed : BOOLEAN, stateID : Nat, sequence : Nat]
  /\ view.id \in {0, view.sequence} /\ (view.open <=> view.id # 0)
  /\ view.sequence \in 0..Len(lengths)

ReadingTyped ==
  \/ reading = Nothing
  \/ /\ reading \in [kind : Kinds, step : {"opened", "window", "mirror", "inventory"},
                     packet : Packets]
     /\ Fits(reading.packet, lengths)
     /\ reading.step = "opened" <=> reading.packet.kind = "open_window"
     /\ reading.step # "opened" => reading.packet.kind \in {"window_items", "set_slot"}
     /\ reading.packet.id = IF reading.step = "inventory" THEN 0 ELSE view.sequence
     /\ reading.step # "inventory" => view.sequence # 0

InvTyped ==
  inv \in [slots : [1..Rows -> Items], truncated : BOOLEAN, stateID : Nat]

Points == {"rest", "ask", "sequence", "open", "size", "wait", "opened", "id", "click", "hold",
           "guess", "shut", "tell", "done"}

ThreadsTyped ==
  /\ at \in [Threads -> Points] /\ closing \in [Threads -> Nat]
  /\ my \in [before : Nat, slot : Nat, id : Nat]
  /\ at["opener"] \in {"hold", "guess"} => my.slot \in 1..(Rows - 1)
  /\ at["opener"] \in {"open", "size"} => view.sequence > my.before

-----------------------------------------------------------------------------
(* Windows are opened one after another, and so are the packets about them.*)

Ordered ==
  /\ \A i \in 1..Len(down) :
       /\ down[i].id # 0 => down[i].id >= view.sequence
       /\ down[i].kind = "open_window" => down[i].id > view.sequence
  /\ \A i, j \in 1..Len(down) : i < j /\ down[i].id # 0 /\ down[j].id # 0 =>
       /\ down[i].id <= down[j].id
       /\ down[j].kind = "open_window" => down[i].id < down[j].id
  /\ \A n \in (view.sequence + 1)..Len(lengths) :
       \E i \in 1..Len(down) : down[i].kind = "open_window" /\ down[i].id = n

\* The contents of a window are on their way before i, or about to be filled in.
Filling(n, i) ==
  \/ reading.step = "window" /\ reading.packet.kind = "window_items" /\ reading.packet.id = n
  \/ \E j \in 1..i : down[j].kind = "window_items" /\ down[j].id = n

\* They have been, or will not be as the window was closed first.
Filled(n) == view.sequence = n /\ (view.slots # <<>> \/ view.id # n)

ShownInv ==
  /\ view.slots # <<>> => view.sequence # 0 /\ Len(view.slots) = lengths[view.sequence]
  /\ view.declared = Len(view.slots)
  /\ reading.step = "window" /\ reading.packet.kind = "set_slot" => view.slots # <<>>
  /\ reading.step = "mirror" => view.slots # <<>>
  /\ reading.step = "opened" => view.slots = <<>>
  /\ reading.step # "opened" => offers \in {0, view.sequence}

SetsComeAfter ==
  \A n, i \in Nat :
    i \in 1..Len(down) /\ down[i].kind = "set_slot" /\ down[i].id = n /\ n # 0 =>
      Filled(n) \/ Filling(n, i)

OpenIsFilled ==
  \A n, i \in Nat : i = Len(down) /\ menu.id = n /\ n # 0 => Filled(n) \/ Filling(n, i)

ShapeInv == ShownInv /\ SetsComeAfter /\ OpenIsFilled

CoreInv == ServerTyped /\ DownTyped /\ ViewTyped /\ ReadingTyped /\ InvTyped /\ Ordered /\ ShapeInv

ThreadInv == UpTyped /\ ThreadsTyped

-----------------------------------------------------------------------------
(* Which window is open.                                                   *)

IdInv ==
  /\ \A t \in Threads :
       /\ at[t] = "shut" => closing[t] \in 1..view.sequence
       /\ at[t] = "tell" => closing[t] \in (1..view.sequence) \ {view.id}
  /\ \A i \in 1..Len(up) : up[i].kind = "close" => up[i].id \in (1..view.sequence) \ {view.id}
  /\ \A i \in 1..Len(down) : down[i].kind = "close_window" => down[i].id # menu.id
  /\ menu.id # 0 /\ view.sequence = menu.id /\ view.id = 0 /\ "crossed" \notin races =>
       \/ \E t \in Threads : at[t] = "tell" /\ closing[t] = menu.id
       \/ \E i \in 1..Len(up) : up[i].kind = "close" /\ up[i].id = menu.id
  /\ menu.id = 0 /\ lengths # <<>>
     /\ (view.id = Len(lengths) \/ \E i \in 1..Len(down) :
           down[i].kind = "open_window" /\ down[i].id = Len(lengths)) =>
       \E i \in 1..Len(down) : down[i].kind = "close_window" /\ down[i].id = Len(lengths)

-----------------------------------------------------------------------------
(* What is in it.                                                          *)

\* The packets to come, the one being handled among them as number 0.
Coming(steps) == (IF reading.step \in steps THEN {0} ELSE {}) \cup 1..Len(down)
Packet(i) == IF i = 0 THEN reading.packet ELSE down[i]

IsContent(p) == p.kind \in {"window_items", "set_slot"}
Sets(p, s) == p.kind = "window_items" \/ (p.kind = "set_slot" /\ p.slot = s)
ValueOf(p, s) == IF p.kind = "window_items" THEN p.items[s] ELSE p.item

\* The client has not closed the server's window by itself.
Followed == menu.id # 0 /\ ~(view.sequence = menu.id /\ view.id = 0)

\* The packet tells the client of the window the server has open.
Concerns(p) == IsContent(p) /\ p.id = menu.id

StampInv == Followed =>
  \/ \E i \in 1..Len(down) :
       /\ Concerns(down[i]) /\ down[i].sid = stamp.window
       /\ \A j \in 1..Len(down) : j > i => ~Concerns(down[j])
  \/ /\ \A j \in 1..Len(down) : ~Concerns(down[j])
     /\ view.id = menu.id /\ view.stateID = stamp.window

Ahead == Coming({"window"})
SetsHere(i, s) == Packet(i).id = menu.id /\ Sets(Packet(i), s)

SlotInv(s) ==
  \/ \E i \in Ahead :
       /\ SetsHere(i, s) /\ ValueOf(Packet(i), s) = Contents[s]
       /\ \A j \in Ahead : j > i => ~SetsHere(j, s)
  \/ /\ \A j \in Ahead : ~SetsHere(j, s)
     /\ view.id = menu.id /\ view.slots # <<>>
     /\ view.trimmed \/ view.slots[s] = Contents[s]

WindowInv == Followed => \A s \in 1..lengths[menu.id] : SlotInv(s)

-----------------------------------------------------------------------------
(* What is in the player's inventory.                                      *)

Base(p) == IF p.id = 0 THEN 0 ELSE lengths[p.id] - Rows

Behind == Coming({"window", "mirror", "inventory"})
SetsRow(i, r) == Sets(Packet(i), r + Base(Packet(i)))

RowInv(r) ==
  \/ \E i \in Behind :
       /\ SetsRow(i, r) /\ ValueOf(Packet(i), r + Base(Packet(i))) = rows[r]
       /\ \A j \in Behind : j > i => ~SetsRow(j, r)
  \/ \E i \in 1..Len(up) : up[i].kind = "swap" /\ r \in {up[i].slot, Rows}
  \/ /\ \A j \in Behind : ~SetsRow(j, r)
     /\ inv.truncated \/ inv.slots[r] = rows[r]

GuessInv ==
  at["opener"] = "guess" =>
    \A i \in 1..Len(up) : up[i].kind = "swap" =>
      \E j \in i..Len(up) : up[j].kind = "swap" /\ up[j].slot = my.slot

InventoryInv == GuessInv /\ (races \subseteq {"crossed"} => \A r \in 1..Rows : RowInv(r))

-----------------------------------------------------------------------------
(* The operators on items.                                                 *)

\* A set of naturals has a least element.
LEMMA LeastElement ==
  ASSUME NEW T, T \subseteq Nat, T # {}
  PROVE  \E x \in T : \A y \in T : x <= y
<1> DEFINE Less == {ss \in Nat \X Nat : ss[1] < ss[2]}
<1>1. IsWellFoundedOn(Less, Nat)
  BY NatLessThanWellFounded DEF OpToRel
<1> HIDE DEF Less
<1>2. PICK x \in T : \A y \in T : <<y, x>> \notin Less
  BY <1>1, WFMin
<1>3. \A y \in T : ~(y < x)
  BY <1>2 DEF Less
<1> QED
  BY <1>2, <1>3

\* What has decoded of a packet's items comes before the rest of them.
LEMMA DecodedFacts ==
  ASSUME NEW items \in Seq(Items)
  PROVE  Decoded(items) \in Seq(Items) /\ Len(Decoded(items)) \in 0..Len(items)
<1> DEFINE bad == {i \in DOMAIN items : items[i] = "x"}
           n == IF bad = {} THEN Len(items)
                ELSE (CHOOSE i \in bad : \A j \in bad : i <= j) - 1
<1>1. DOMAIN items = 1..Len(items) /\ Len(items) \in Nat
  BY LenProperties
<1>2. n \in 0..Len(items)
  <2>1. CASE bad = {}
    BY <1>1, <2>1
  <2>2. CASE bad # {}
    <3>0. bad \subseteq Nat
      BY <1>1
    <3>1. \E i \in bad : \A j \in bad : i <= j
      BY <2>2, <3>0, LeastElement, Zenon
    <3>2. (CHOOSE i \in bad : \A j \in bad : i <= j) \in bad
      BY <3>1
    <3> QED
      BY <1>1, <2>2, <3>2
  <2> QED
    BY <2>1, <2>2
<1>3. Decoded(items) = SubSeq(items, 1, n)
  BY DEF Decoded
<1> HIDE DEF n
<1>4. \A i \in 1..n : items[i] \in Items
  BY <1>1, <1>2, ElementOfSeq
<1> QED
  BY <1>1, <1>2, <1>3, <1>4, SubSeqProperties

\* Padding fills up to a length and leaves what is there.
LEMMA PaddedFacts ==
  ASSUME NEW items \in Seq(Items), NEW n \in Nat
  PROVE  /\ Padded(items, n) \in Seq(Items)
         /\ Len(Padded(items, n)) = IF n > Len(items) THEN n ELSE Len(items)
         /\ \A i \in 1..Len(items) : Padded(items, n)[i] = items[i]
         /\ n <= Len(items) => Padded(items, n) = items
<1> DEFINE m == n - Len(items)
           rest == [i \in 1..m |-> "none"]
<1>1. Len(items) \in Nat
  BY LenProperties
<1>2. CASE n > Len(items)
  <2>1. m \in Nat /\ rest \in [1..m -> Items]
    BY <1>1, <1>2 DEF Items
  <2> HIDE DEF rest
  <2>2. rest \in Seq(Items)
    <3> HIDE DEF m
    <3> QED
      BY <2>1, SeqDef
  <2>3. Len(rest) = m
    BY <2>1, <2>2, LenProperties
  <2>4. Padded(items, n) = items \o rest
    BY DEF Padded, rest
  <2>5. /\ items \o rest \in Seq(Items) /\ Len(items \o rest) = Len(items) + m
        /\ \A i \in 1..(Len(items) + m) :
             (items \o rest)[i] = IF i <= Len(items) THEN items[i] ELSE rest[i - Len(items)]
    BY <2>2, <2>3, ConcatProperties
  <2>6. \A i \in 1..Len(items) : (items \o rest)[i] = items[i]
    BY <1>1, <2>1, <2>5
  <2> QED
    BY <1>1, <1>2, <2>1, <2>4, <2>5, <2>6
<1>3. CASE n <= Len(items)
  <2>1. rest \in [1..0 -> Items]
    BY <1>1, <1>3
  <2>2. rest = <<>>
    <3> HIDE DEF rest
    <3>1. rest \in Seq(Items) /\ Len(rest) = 0
      BY <2>1, SeqDef, LenProperties
    <3> QED
      BY <3>1, EmptySeq
  <2>3. Padded(items, n) = items \o <<>>
    BY <2>2 DEF Padded
  <2> QED
    BY <1>1, <1>3, <2>3, ConcatEmptySeq
<1> QED
  BY <1>1, <1>2, <1>3

\* So is a table of rows a sequence of them.
LEMMA RowsFacts ==
  ASSUME NEW r \in [1..Rows -> Items]
  PROVE  r \in Seq(Items) /\ Len(r) = Rows
BY WindowsAssumption, SeqDef

\* The contents of a window with slots of its own.
LEMMA ContentsFacts ==
  ASSUME NEW own \in Seq(Items), NEW r \in [1..Rows -> Items]
  PROVE  /\ own \o r \in Seq(Items)
         /\ Len(own \o r) = Len(own) + Rows
         /\ \A s \in 1..(Len(own) + Rows) :
              (own \o r)[s] = IF s <= Len(own) THEN own[s] ELSE r[s - Len(own)]
BY RowsFacts, ConcatProperties

-----------------------------------------------------------------------------
(* Packets and queues.                                                     *)

\* What a packet holds.
LEMMA PacketFacts ==
  ASSUME NEW p \in Packets
  PROVE  /\ p.kind \in Kinds /\ p.id \in Nat
         /\ p.kind = "window_items" => p.items \in Seq(Items) /\ p.sid \in Nat
         /\ p.kind = "set_slot" => p.slot \in Nat /\ p.item \in Items /\ p.sid \in Nat
BY DEF Packets, Kinds

\* What the server says is a packet.
LEMMA MadePackets ==
  ASSUME NEW id \in Nat, NEW sid \in Nat
  PROVE  /\ \A kind \in {"open_window", "trade_list", "close_window"} :
              [kind |-> kind, id |-> id] \in Packets
         /\ \A slot \in Nat, item \in Items : SlotSet(id, slot, item, sid) \in Packets
         /\ \A items \in Seq(Items) : AllItems(id, items, sid) \in Packets
BY DEF Packets, SlotSet, AllItems

\* The first packet of a queue is taken, and the others move up.
LEMMA HeadTaken ==
  ASSUME NEW S, NEW q \in Seq(S), q # <<>>
  PROVE  /\ Tail(q) \in Seq(S) /\ Len(Tail(q)) = Len(q) - 1 /\ Len(q) \in Nat \ {0}
         /\ \A i \in 1..(Len(q) - 1) : Tail(q)[i] = q[i + 1]
         /\ Head(q) = q[1] /\ q[1] \in S
BY HeadTailProperties, EmptySeq, ElementOfSeq

\* A request joins the end of a queue.
LEMMA Appended ==
  ASSUME NEW S, NEW q \in Seq(S), NEW e \in S
  PROVE  /\ Append(q, e) \in Seq(S) /\ Len(Append(q, e)) = Len(q) + 1 /\ Len(q) \in Nat
         /\ \A i \in 1..Len(q) : Append(q, e)[i] = q[i]
         /\ Append(q, e)[Len(q) + 1] = e
BY LenProperties

\* What is told joins the end of a queue.
LEMMA Told ==
  ASSUME NEW S, NEW q \in Seq(S), NEW t \in Seq(S)
  PROVE  /\ q \o t \in Seq(S) /\ Len(q \o t) = Len(q) + Len(t)
         /\ Len(q) \in Nat /\ Len(t) \in Nat
         /\ \A i \in 1..Len(q) : (q \o t)[i] = q[i]
         /\ \A k \in 1..Len(t) : (q \o t)[Len(q) + k] = t[k]
         /\ \A i \in 1..(Len(q) + Len(t)) : i > Len(q) =>
              i - Len(q) \in 1..Len(t) /\ (q \o t)[i] = t[i - Len(q)]
<1>1. Len(q) \in Nat /\ Len(t) \in Nat
  BY LenProperties
<1>2. \A i \in 1..(Len(q) + Len(t)) : (q \o t)[i] = IF i <= Len(q) THEN q[i] ELSE t[i - Len(q)]
  BY ConcatProperties
<1>3. q \o t \in Seq(S) /\ Len(q \o t) = Len(q) + Len(t)
  BY ConcatProperties
<1> QED
  BY <1>1, <1>2, <1>3

\* So does one packet.
LEMMA ToldOne ==
  ASSUME NEW S, NEW q \in Seq(S), NEW e \in S
  PROVE  /\ Len(q \o <<e>>) = Len(q) + 1 /\ Len(q) \in Nat
         /\ \A i \in 1..Len(q) : (q \o <<e>>)[i] = q[i]
         /\ (q \o <<e>>)[Len(q) + 1] = e
<1>1. PICK u \in Seq(S) : u = <<e>>
  <2>1. <<e>> \in [1..1 -> S]
    OBVIOUS
  <2>2. PICK n \in Nat : n = 1
    OBVIOUS
  <2>3. <<e>> \in [1..n -> S]
    BY <2>1, <2>2
  <2>4. <<e>> \in Seq(S)
    BY <2>3, SeqDef
  <2> QED
    BY <2>4
<1>2. Len(u) = 1 /\ u[1] = e /\ 1 \in 1..Len(u)
  BY <1>1
<1>3. Len(q \o u) = Len(q) + Len(u) /\ Len(q) \in Nat
  BY Told
<1>4. \A i \in 1..Len(q) : (q \o u)[i] = q[i]
  BY Told
<1>5. \A k \in 1..Len(u) : (q \o u)[Len(q) + k] = u[k]
  BY Told
<1>6. (q \o u)[Len(q) + 1] = e
  BY <1>2, <1>5
<1> QED
  BY <1>1, <1>2, <1>3, <1>4, <1>6
-----------------------------------------------------------------------------
(* What the server says of the window it has open, or of the player's.     *)

\* Of every slot, the last packet that sets it says what the server now has.
LastWord(ps) ==
  \A s \in 1..(Len(menu.own) + Rows) :
    \/ \E k \in 1..Len(ps) :
         /\ Sets(ps[k], s) /\ ValueOf(ps[k], s) = Contents'[s]
         /\ \A m \in 1..Len(ps) : m > k => ~Sets(ps[m], s)
    \/ (\A k \in 1..Len(ps) : ~Sets(ps[k], s)) /\ Contents'[s] = Contents[s]

Speaks(ps) ==
  /\ ps \in Seq(Packets) /\ down' = down \o ps
  /\ menu'.id = menu.id /\ Len(menu'.own) = Len(menu.own)
  /\ UNCHANGED <<lengths, copies, reading, at, my, closing, races>>
  /\ \A k \in 1..Len(ps) :
       /\ IsContent(ps[k]) /\ ps[k].id = menu.id /\ Fits(ps[k], lengths)
       /\ menu.id # 0 => ps[k].sid = stamp'.window
  /\ ps = <<>> => UNCHANGED <<menu, rows, stamp>>
  /\ LastWord(ps)

\* The contents and the extent of what the server has open.
LEMMA OpenFacts ==
  ASSUME ServerTyped
  PROVE  /\ menu.own \in Seq(Items) /\ Len(menu.own) \in Nat
         /\ Len(menu.own) + Rows = Extent(menu.id, lengths)
         /\ Contents \in Seq(Items) /\ Len(Contents) = Len(menu.own) + Rows
         /\ \A s \in 1..(Len(menu.own) + Rows) :
              Contents[s] = IF s <= Len(menu.own) THEN menu.own[s] ELSE rows[s - Len(menu.own)]
         /\ Current + 1 \in Nat /\ menu.id \in Nat /\ menu.id \in 0..Len(lengths)
         /\ menu.id # 0 => Current = stamp.window
<1>1. menu.own \in Seq(Items) /\ Len(menu.own) \in Nat
  BY LenProperties DEF ServerTyped
<1>2. Len(menu.own) + Rows = Extent(menu.id, lengths)
  <2>1. Extent(menu.id, lengths) \in Nat
    <3>1. CASE menu.id = 0
      BY <3>1, WindowsAssumption DEF Extent
    <3>2. CASE menu.id # 0
      <4>1. menu.id = Len(lengths) /\ menu.id \in Nat /\ lengths \in Seq(Nat)
        BY <3>2 DEF ServerTyped
      <4> QED
        BY <3>2, <4>1, ElementOfSeq DEF Extent
    <3> QED
      BY <3>1, <3>2
  <2> QED
    BY <1>1, <2>1, WindowsAssumption DEF ServerTyped
<1>3. rows \in [1..Rows -> Items]
  BY DEF ServerTyped
<1>4. Current + 1 \in Nat /\ (menu.id # 0 => Current = stamp.window)
  BY DEF Current, ServerTyped
<1>5. menu.id \in Nat /\ menu.id \in 0..Len(lengths)
  BY LenProperties DEF ServerTyped
<1> QED
  BY <1>1, <1>2, <1>3, <1>4, <1>5, ContentsFacts DEF Contents

\* The next state id, and where it is kept.
LEMMA StepsFacts ==
  ASSUME ServerTyped, Steps
  PROVE  /\ stamp' \in [player : Nat, window : Nat]
         /\ menu.id # 0 => stamp'.window = Current + 1
BY DEF ServerTyped, Steps, Current

\* One packet that sets a slot, and two.
LEMMA SlotsSpeak ==
  ASSUME ServerTyped, Steps, NEW s1 \in 1..(Len(menu.own) + Rows), NEW v1 \in Items,
         NEW s2 \in 1..(Len(menu.own) + Rows), NEW v2 \in Items,
         NEW ps \in {<<SlotSet(menu.id, s1, v1, Current + 1)>>,
                     <<SlotSet(menu.id, s1, v1, Current + 1),
                       SlotSet(menu.id, s2, v2, Current + 1)>>},
         Tells(ps), menu'.id = menu.id, Len(menu'.own) = Len(menu.own),
         UNCHANGED <<lengths, copies, reading, at, my, closing, races>>,
         Contents'[s1] = v1, Len(ps) = 2 => s1 # s2 /\ Contents'[s2] = v2,
         \A s \in 1..(Len(menu.own) + Rows) :
           s # s1 /\ (Len(ps) = 2 => s # s2) => Contents'[s] = Contents[s]
  PROVE  Speaks(ps)
<1> DEFINE p1 == SlotSet(menu.id, s1, v1, Current + 1)
           p2 == SlotSet(menu.id, s2, v2, Current + 1)
<1>1. Current + 1 \in Nat /\ menu.id \in Nat /\ (menu.id # 0 => stamp'.window = Current + 1)
      /\ Len(menu.own) + Rows = Extent(menu.id, lengths) /\ Len(menu.own) + Rows \in Nat
      /\ menu.id \in 0..Len(lengths)
  BY OpenFacts, StepsFacts, WindowsAssumption
<1>2. p1 \in Packets /\ p2 \in Packets
  <2>1. s1 \in Nat /\ s2 \in Nat
    BY <1>1
  <2> QED
    BY <1>1, <2>1, MadePackets, Zenon
<1>3. /\ IsContent(p1) /\ p1.id = menu.id /\ p1.sid = Current + 1
      /\ IsContent(p2) /\ p2.id = menu.id /\ p2.sid = Current + 1
      /\ \A s : (Sets(p1, s) <=> s = s1) /\ (Sets(p2, s) <=> s = s2)
      /\ ValueOf(p1, s1) = v1 /\ ValueOf(p2, s2) = v2
  BY DEF SlotSet, IsContent, Sets, ValueOf
<1>4. Fits(p1, lengths) /\ Fits(p2, lengths)
  BY <1>1 DEF Fits, SlotSet
<1>5. ps \in {<<p1>>, <<p1, p2>>}
  OBVIOUS
<1> HIDE DEF p1, p2
<1>6. ps \in Seq(Packets) /\ ps # <<>>
  <2>1. <<p1>> \in Seq(Packets) /\ <<p1>> # <<>>
    BY <1>2
  <2>2. <<p1, p2>> \in Seq(Packets) /\ <<p1, p2>> # <<>>
    BY <1>2
  <2> QED
    BY <1>5, <2>1, <2>2, Zenon
<1>7. \A k \in 1..Len(ps) :
        /\ IsContent(ps[k]) /\ ps[k].id = menu.id /\ Fits(ps[k], lengths)
        /\ menu.id # 0 => ps[k].sid = stamp'.window
  BY <1>1, <1>3, <1>4, <1>5
<1>8. LastWord(ps)
  <2> SUFFICES ASSUME NEW s \in 1..(Len(menu.own) + Rows)
               PROVE  \/ \E k \in 1..Len(ps) :
                           /\ Sets(ps[k], s) /\ ValueOf(ps[k], s) = Contents'[s]
                           /\ \A m \in 1..Len(ps) : m > k => ~Sets(ps[m], s)
                      \/ (\A k \in 1..Len(ps) : ~Sets(ps[k], s)) /\ Contents'[s] = Contents[s]
    BY Zenon DEF LastWord
  <2>1. CASE ps = <<p1>>
    <3>1. Len(ps) = 1 /\ ps[1] = p1
      BY <2>1
    <3> QED
      BY <1>3, <3>1
  <2>2. CASE ps = <<p1, p2>>
    <3>1. Len(ps) = 2 /\ ps[1] = p1 /\ ps[2] = p2
      BY <2>2
    <3> QED
      BY <1>3, <3>1
  <2> QED
    BY <1>5, <2>1, <2>2
<1> QED
  BY <1>6, <1>7, <1>8 DEF Speaks, Tells

\* All of it, in one packet.
LEMMA ItemsSpeak ==
  ASSUME ServerTyped, Steps, Tells(<<AllItems(menu.id, Contents, Current + 1)>>),
         UNCHANGED <<menu, rows, lengths, copies, reading, at, my, closing, races>>
  PROVE  Speaks(<<AllItems(menu.id, Contents, Current + 1)>>)
<1> DEFINE p == AllItems(menu.id, Contents, Current + 1)
           ps == <<p>>
<1>1. Current + 1 \in Nat /\ menu.id \in Nat /\ (menu.id # 0 => stamp'.window = Current + 1)
      /\ Len(Contents) = Extent(menu.id, lengths) /\ Contents \in Seq(Items)
      /\ menu.id \in 0..Len(lengths)
  BY OpenFacts, StepsFacts, WindowsAssumption
<1>2. p \in Packets
  BY <1>1, MadePackets
<1>3. /\ IsContent(p) /\ p.id = menu.id /\ p.sid = Current + 1
      /\ \A s : Sets(p, s) /\ ValueOf(p, s) = Contents[s]
  BY DEF AllItems, IsContent, Sets, ValueOf
<1>4. Fits(p, lengths)
  BY <1>1 DEF Fits, AllItems
<1>5. Contents' = Contents
  BY DEF Contents
<1> HIDE DEF p
<1>6. ps \in Seq(Packets) /\ ps # <<>> /\ Len(ps) = 1 /\ ps[1] = p
  BY <1>2
<1> HIDE DEF ps
<1>7. LastWord(ps)
  BY <1>3, <1>5, <1>6 DEF LastWord
<1>8. Speaks(ps)
  BY <1>1, <1>3, <1>4, <1>6, <1>7 DEF Speaks, Tells, ps, p
<1> QED
  BY <1>8 DEF ps, p

\* Nothing at all.
LEMMA SilenceSpeaks ==
  ASSUME ServerTyped, DownTyped,
         UNCHANGED <<menu, rows, stamp, lengths, down, copies, reading, at, my, closing, races>>
  PROVE  Speaks(<<>>)
<1>1. <<>> \in Seq(Packets) /\ Len(<<>>) = 0 /\ down' = down \o <<>>
  BY EmptySeq, ConcatEmptySeq DEF DownTyped
<1>2. LastWord(<<>>)
  BY <1>1 DEF LastWord, Contents
<1> QED
  BY <1>1, <1>2 DEF Speaks

\* The server's answer to a swap says both of the rows it exchanges.
SaysSwap(ps) ==
  Head(up).kind = "swap" =>
    \A r \in {Head(up).slot, Rows} : \E k \in 1..Len(ps) : Sets(ps[k], r + Len(menu.own))

LEMMA ChangesSpeaks ==
  ASSUME ServerTyped, NEW slot \in 1..(Rows + 2), NEW item \in {"none", "a"},
         ServerChanges(slot, item)
  PROVE  ServerTyped' /\ up' = up /\ \E ps : Speaks(ps)
<1>1. /\ menu.own \in Seq(Items) /\ rows \in [1..Rows -> Items] /\ item \in Items
      /\ slot \in 1..(Len(menu.own) + Rows) /\ Len(menu.own) \in Nat
      /\ DOMAIN menu.own = 1..Len(menu.own)
  <2>1. DOMAIN Contents = 1..(Len(menu.own) + Rows)
    BY OpenFacts, LenProperties
  <2> QED
    BY <2>1, OpenFacts, LenProperties DEF ServerTyped, ServerChanges, Items
<1>2. /\ menu' \in [id : Nat, own : Seq(Items)] /\ rows' \in [1..Rows -> Items]
      /\ menu'.id = menu.id /\ Len(menu'.own) = Len(menu.own)
      /\ slot <= Len(menu.own) => menu'.own = [menu.own EXCEPT ![slot] = item] /\ rows' = rows
      /\ slot > Len(menu.own) =>
           menu' = menu /\ rows' = [rows EXCEPT ![slot - Len(menu.own)] = item]
  <2>1. CASE slot <= Len(menu.own)
    <3> DEFINE own == [menu.own EXCEPT ![slot] = item]
    <3>1. menu' = [menu EXCEPT !.own = own] /\ rows' = rows
      BY <2>1 DEF ServerChanges
    <3>2. own \in Seq(Items) /\ Len(own) = Len(menu.own)
      BY <1>1, <2>1, ExceptSeq
    <3> HIDE DEF own
    <3>3. menu' \in [id : Nat, own : Seq(Items)] /\ menu'.id = menu.id /\ menu'.own = own
      BY <3>1, <3>2 DEF ServerTyped
    <3> QED
      BY <1>1, <2>1, <3>1, <3>2, <3>3 DEF own
  <2>2. CASE ~(slot <= Len(menu.own))
    <3>1. menu' = menu /\ rows' = [rows EXCEPT ![slot - Len(menu.own)] = item]
      BY <2>2 DEF ServerChanges
    <3> QED
      BY <1>1, <2>2, <3>1 DEF ServerTyped
  <2> QED
    BY <2>1, <2>2
<1>3. stamp' \in [player : Nat, window : Nat] /\ lengths' = lengths
  BY StepsFacts DEF ServerChanges
<1>4. ServerTyped'
  BY <1>2, <1>3 DEF ServerTyped, Extent
<1>5. \A s \in 1..(Len(menu.own) + Rows) :
        /\ Contents[s] = IF s <= Len(menu.own) THEN menu.own[s] ELSE rows[s - Len(menu.own)]
        /\ Contents'[s] = IF s <= Len(menu.own) THEN menu'.own[s] ELSE rows'[s - Len(menu.own)]
  <2>1. menu'.own \in Seq(Items) /\ rows' \in [1..Rows -> Items]
    BY <1>2
  <2>2. Contents' = menu'.own \o rows' /\ Contents = menu.own \o rows
    BY DEF Contents
  <2>3. \A s \in 1..(Len(menu.own) + Rows) :
          (menu'.own \o rows')[s] =
            IF s <= Len(menu'.own) THEN menu'.own[s] ELSE rows'[s - Len(menu'.own)]
    BY <1>2, <2>1, ContentsFacts, SMTT(60)
  <2>4. \A s \in 1..(Len(menu.own) + Rows) :
          (menu.own \o rows)[s] =
            IF s <= Len(menu.own) THEN menu.own[s] ELSE rows[s - Len(menu.own)]
    BY <1>1, ContentsFacts
  <2> QED
    BY <1>2, <2>2, <2>3, <2>4
<1>6. Contents'[slot] = item
      /\ \A s \in 1..(Len(menu.own) + Rows) : s # slot => Contents'[s] = Contents[s]
  <2>1. CASE slot <= Len(menu.own)
    BY <1>1, <1>2, <1>5, <2>1
  <2>2. CASE slot > Len(menu.own)
    <3>1. slot - Len(menu.own) \in 1..Rows
      BY <1>1, <2>2, WindowsAssumption
    <3>2. \A s \in 1..(Len(menu.own) + Rows) : s > Len(menu.own) =>
            s - Len(menu.own) \in 1..Rows
            /\ (s # slot => s - Len(menu.own) # slot - Len(menu.own))
      BY <1>1, WindowsAssumption
    <3>3. menu' = menu /\ rows' = [rows EXCEPT ![slot - Len(menu.own)] = item]
      BY <1>2, <2>2
    <3>4. Contents'[slot] = rows'[slot - Len(menu.own)]
      BY <1>1, <1>5, <2>2
    <3>5. Contents'[slot] = item
      BY <1>1, <3>1, <3>3, <3>4
    <3>6. \A s \in 1..(Len(menu.own) + Rows) : s # slot => Contents'[s] = Contents[s]
      BY <1>1, <1>5, <3>2, <3>3
    <3> QED
      BY <3>5, <3>6
  <2> QED
    BY <1>1, <2>1, <2>2
<1> DEFINE ps == <<SlotSet(menu.id, slot, item, Current + 1)>>
<1>8. Len(ps) = 1
  OBVIOUS
<1>9. Steps /\ Tells(ps) /\ UNCHANGED <<up, lengths, copies, reading, at, my, closing, races>>
  BY DEF ServerChanges
<1>10. Speaks(ps)
  <2>1. ps \in {<<SlotSet(menu.id, slot, item, Current + 1)>>,
               <<SlotSet(menu.id, slot, item, Current + 1),
                 SlotSet(menu.id, slot, item, Current + 1)>>}
    OBVIOUS
  <2>2. menu'.id = menu.id /\ Len(menu'.own) = Len(menu.own)
        /\ slot \in 1..(Len(menu.own) + Rows) /\ item \in Items
    BY <1>1, <1>2
  <2> HIDE DEF ps
  <2>3. ~(Len(ps) = 2)
    BY <1>8
  <2> QED
    BY <1>6, <1>9, <2>1, <2>2, <2>3, SlotsSpeak
<1> QED
  BY <1>4, <1>9, <1>10

LEMMA MovesSpeaks ==
  ASSUME ServerTyped, NEW row \in 1..Rows, ServerMoves(row)
  PROVE  ServerTyped' /\ Head(up).kind = "click" /\ \E ps : Speaks(ps)
<1> DEFINE slot == Head(up).slot
           base == Len(menu.own)
           item == menu.own[slot]
<1>1. /\ menu.own \in Seq(Items) /\ rows \in [1..Rows -> Items]
      /\ slot \in 1..base /\ base \in Nat /\ item \in Items /\ Rows \in Nat
  <2>1. /\ menu.own \in Seq(Items) /\ rows \in [1..Rows -> Items] /\ Rows \in Nat
        /\ base \in Nat /\ DOMAIN menu.own = 1..base
    BY LenProperties, WindowsAssumption DEF ServerTyped
  <2>2. slot \in 1..base
    BY <2>1 DEF ServerMoves, CanMove
  <2> QED
    BY <2>1, <2>2, ElementOfSeq
<1>2. /\ menu' = [menu EXCEPT !.own = [menu.own EXCEPT ![slot] = "none"]]
      /\ rows' = [rows EXCEPT ![row] = item]
  BY DEF ServerMoves
<1>3. /\ [menu.own EXCEPT ![slot] = "none"] \in Seq(Items)
      /\ Len([menu.own EXCEPT ![slot] = "none"]) = base
  BY <1>1, ExceptSeq DEF Items
<1>4. /\ menu' \in [id : Nat, own : Seq(Items)] /\ rows' \in [1..Rows -> Items]
      /\ menu'.id = menu.id /\ Len(menu'.own) = base
      /\ menu'.own = [menu.own EXCEPT ![slot] = "none"]
  BY <1>1, <1>2, <1>3 DEF ServerTyped
<1>5. stamp' \in [player : Nat, window : Nat] /\ lengths' = lengths
  BY StepsFacts DEF ServerMoves
<1>6. ServerTyped'
  BY <1>4, <1>5 DEF ServerTyped, Extent
<1>7. \A s \in 1..(base + Rows) :
        /\ Contents[s] = IF s <= base THEN menu.own[s] ELSE rows[s - base]
        /\ Contents'[s] = IF s <= base THEN menu'.own[s] ELSE rows'[s - base]
  <2>1. menu'.own \in Seq(Items) /\ rows' \in [1..Rows -> Items]
    BY <1>4
  <2>2. Contents' = menu'.own \o rows' /\ Contents = menu.own \o rows
    BY DEF Contents
  <2>3. \A s \in 1..(base + Rows) :
          (menu'.own \o rows')[s] =
            IF s <= Len(menu'.own) THEN menu'.own[s] ELSE rows'[s - Len(menu'.own)]
    BY <1>4, <2>1, ContentsFacts
  <2>4. \A s \in 1..(base + Rows) :
          (menu.own \o rows)[s] =
            IF s <= Len(menu.own) THEN menu.own[s] ELSE rows[s - Len(menu.own)]
    BY <1>1, ContentsFacts
  <2> QED
    BY <1>4, <2>2, <2>3, <2>4
<1> DEFINE ps == <<SlotSet(menu.id, slot, "none", Current + 1),
                   SlotSet(menu.id, base + row, item, Current + 1)>>
<1>8. Len(ps) = 2 /\ slot # base + row /\ base + row \in 1..(base + Rows)
      /\ slot \in 1..(base + Rows)
  BY <1>1
<1>9. Steps /\ Tells(ps) /\ UNCHANGED <<lengths, copies, reading, at, my, closing, races>>
      /\ Head(up).kind = "click"
  BY DEF ServerMoves, CanMove
<1>10. Contents'[slot] = "none" /\ Contents'[base + row] = item
  BY <1>1, <1>2, <1>4, <1>7, <1>8, SMTT(60)
<1>11. \A s \in 1..(base + Rows) : s # slot /\ s # base + row => Contents'[s] = Contents[s]
  <2>1. \A s \in 1..(base + Rows) : s > base =>
          s - base \in 1..Rows /\ (s # base + row => s - base # row)
    BY <1>1
  <2> HIDE DEF item
  <2> QED
    BY <1>1, <1>2, <1>4, <1>7, <2>1
<1>12. "none" \in Items
  BY DEF Items
<1> HIDE DEF slot, item
<1>13. Speaks(ps)
  BY <1>1, <1>4, <1>8, <1>9, <1>10, <1>11, <1>12, SlotsSpeak
<1> QED
  BY <1>6, <1>9, <1>13

LEMMA SwapsSpeaks ==
  ASSUME ServerTyped, UpTyped, ServerSwaps
  PROVE  ServerTyped' /\ \E ps : Speaks(ps) /\ SaysSwap(ps)
<1> DEFINE slot == Head(up).slot
           base == Len(menu.own)
<1>1. slot \in 1..(Rows - 1)
  BY HeadTaken, EmptySeq DEF UpTyped, ServerSwaps, CanSwap, Answered
<1>2. /\ menu.own \in Seq(Items) /\ rows \in [1..Rows -> Items]
      /\ base \in Nat /\ Rows \in Nat \ {0} /\ rows[slot] \in Items /\ rows[Rows] \in Items
  BY <1>1, OpenFacts, WindowsAssumption, SMTT(60) DEF ServerTyped
<1>3. menu' = menu /\ rows' = [rows EXCEPT ![slot] = rows[Rows], ![Rows] = rows[slot]]
      /\ rows' \in [1..Rows -> Items]
  BY <1>1, <1>2 DEF ServerSwaps
<1>4. stamp' \in [player : Nat, window : Nat] /\ lengths' = lengths
  BY StepsFacts DEF ServerSwaps
<1>5. ServerTyped'
  BY <1>3, <1>4 DEF ServerTyped, Extent
<1>6. \A s \in 1..(base + Rows) :
        /\ Contents[s] = IF s <= base THEN menu.own[s] ELSE rows[s - base]
        /\ Contents'[s] = IF s <= base THEN menu.own[s] ELSE rows'[s - base]
  BY <1>2, <1>3, ContentsFacts DEF Contents
<1> DEFINE ps == <<SlotSet(menu.id, base + slot, rows[Rows], Current + 1),
                   SlotSet(menu.id, base + Rows, rows[slot], Current + 1)>>
<1>7. Len(ps) = 2 /\ base + slot # base + Rows
      /\ base + slot \in 1..(base + Rows) /\ base + Rows \in 1..(base + Rows)
  BY <1>1, <1>2
<1>8. Steps /\ Tells(ps) /\ UNCHANGED <<lengths, copies, reading, at, my, closing, races>>
  BY DEF ServerSwaps
<1>9. Contents'[base + slot] = rows[Rows] /\ Contents'[base + Rows] = rows[slot]
  <2>1. ~(base + slot <= base) /\ base + slot - base = slot
        /\ ~(base + Rows <= base) /\ base + Rows - base = Rows /\ slot # Rows
    BY <1>1, <1>2
  <2>2. rows'[slot] = rows[Rows] /\ rows'[Rows] = rows[slot]
    BY <1>1, <1>2, <1>3, <2>1
  <2>3. base + slot \in 1..(base + Rows) /\ base + Rows \in 1..(base + Rows)
    BY <1>7
  <2>4. /\ Contents'[base + slot] = rows'[base + slot - base]
        /\ Contents'[base + Rows] = rows'[base + Rows - base]
    <3> HIDE DEF base, slot
    <3> QED
      BY <1>1, <1>2, <1>6, <2>1, <2>3
  <2> QED
    BY <2>1, <2>2, <2>4
<1>10. \A s \in 1..(base + Rows) :
         s # base + slot /\ s # base + Rows => Contents'[s] = Contents[s]
  <2>1. \A s \in 1..(base + Rows) : s > base =>
          /\ s - base \in 1..Rows
          /\ s # base + slot /\ s # base + Rows => s - base # slot /\ s - base # Rows
    BY <1>1, <1>2
  <2>2. \A r \in 1..Rows : r # slot /\ r # Rows => rows'[r] = rows[r]
    BY <1>1, <1>2, <1>3
  <2> HIDE DEF slot
  <2> QED
    BY <1>2, <1>6, <2>1, <2>2
<1>11. SaysSwap(ps)
  <2>1. Sets(ps[1], slot + base) /\ Sets(ps[2], Rows + base)
    BY <1>1, <1>2 DEF Sets, SlotSet
  <2> QED
    BY <1>7, <2>1 DEF SaysSwap
<1> HIDE DEF slot
<1>12. Speaks(ps)
  BY <1>2, <1>3, <1>7, <1>8, <1>9, <1>10, SlotsSpeak
<1> QED
  BY <1>5, <1>11, <1>12

LEMMA ResyncsSpeaks ==
  ASSUME ServerTyped, DownTyped, ServerResyncs
  PROVE  ServerTyped' /\ \E ps : Speaks(ps) /\ SaysSwap(ps)
<1> DEFINE p  == AllItems(menu.id, Contents, Current + 1)
           ps == <<p>>
<1>1. UNCHANGED <<menu, rows, lengths, copies, reading, at, my, closing, races>>
  BY DEF ServerResyncs
<1>2. CASE Head(up).kind = "swap" \/ Head(up).id = menu.id
  <2>1. Steps /\ Tells(ps)
    BY <1>2 DEF ServerResyncs
  <2>2. ServerTyped'
    BY <1>1, <2>1, StepsFacts DEF ServerTyped, Extent
  <2>3. Len(ps) = 1 /\ ps[1] = p /\ p.kind = "window_items"
    BY DEF AllItems
  <2>4. SaysSwap(ps)
    BY <2>3 DEF SaysSwap, Sets
  <2> QED
    BY <1>1, <2>1, <2>2, <2>4, ItemsSpeak
<1>3. CASE ~(Head(up).kind = "swap" \/ Head(up).id = menu.id)
  <2>1. UNCHANGED <<stamp, down>>
    BY <1>3 DEF ServerResyncs
  <2>2. ServerTyped'
    BY <1>1, <2>1 DEF ServerTyped, Extent
  <2> QED
    BY <1>1, <1>3, <2>1, <2>2, SilenceSpeaks DEF SaysSwap
<1> QED
  BY <1>2, <1>3

-----------------------------------------------------------------------------
(* CoreInv, one kind of step after another.                                *)

\* The queue to the client, as it is: for reasoning about places in it.
LEMMA DownFacts ==
  ASSUME DownTyped
  PROVE  /\ down \in Seq(Packets) /\ Len(down) \in Nat
         /\ \A i \in 1..Len(down) :
              /\ down[i] \in Packets /\ Fits(down[i], lengths) /\ down[i].kind \in Kinds
              /\ down[i].id \in Nat /\ down[i].id <= Len(lengths)
<1>1. down \in Seq(Packets) /\ Len(down) \in Nat
  BY LenProperties DEF DownTyped
<1>2. \A i \in 1..Len(down) : down[i] \in Packets /\ Fits(down[i], lengths)
  BY <1>1, ElementOfSeq DEF DownTyped
<1>3. \A i \in 1..Len(down) : down[i].kind \in Kinds /\ down[i].id \in Nat
  BY <1>2, PacketFacts
<1>4. \A i \in 1..Len(down) : down[i].id <= Len(lengths)
  BY <1>2 DEF Fits
<1> QED
  BY <1>1, <1>2, <1>3, <1>4

LEMMA SpeaksCore ==
  ASSUME CoreInv, ServerTyped', NEW ps, Speaks(ps)
  PROVE  CoreInv'
<1> USE DEF CoreInv
<1>1. /\ down \in Seq(Packets) /\ ps \in Seq(Packets)
      /\ lengths' = lengths /\ view' = view /\ inv' = inv /\ offers' = offers
      /\ reading' = reading /\ menu'.id = menu.id
  BY DEF Speaks, copies, DownTyped
<1>2. /\ Len(down') = Len(down) + Len(ps) /\ Len(down) \in Nat /\ Len(ps) \in Nat
      /\ \A i \in 1..Len(down) : down'[i] = down[i]
      /\ \A i \in 1..Len(down') : i > Len(down) =>
           i - Len(down) \in 1..Len(ps) /\ down'[i] = ps[i - Len(down)]
      /\ down' \in Seq(Packets)
  BY <1>1, Told DEF Speaks
<1>3. \A k \in 1..Len(ps) : IsContent(ps[k]) /\ ps[k].id = menu.id /\ Fits(ps[k], lengths)
  BY DEF Speaks
<1>4. \A i \in 1..Len(down') : i > Len(down) =>
        IsContent(down'[i]) /\ down'[i].id = menu.id /\ Fits(down'[i], lengths)
  BY <1>2, <1>3
<1>5. \A i \in 1..Len(down) :
        /\ Fits(down[i], lengths) /\ down[i].id <= Len(lengths) /\ down[i].id \in Nat
  BY DownFacts
<1>6. DownTyped'
  <2>1. \A i \in 1..Len(down') : Fits(down'[i], lengths')
    BY <1>1, <1>2, <1>4, <1>5, SMTT(60)
  <2> QED
    BY <1>1, <1>2, <2>1 DEF DownTyped, Fits, Extent
<1>7. ViewTyped' /\ InvTyped' /\ ReadingTyped'
  BY <1>1 DEF ViewTyped, InvTyped, ReadingTyped, Fits, Extent
<1>8. /\ menu.id \in {0, Len(lengths)} /\ Len(lengths) \in Nat
      /\ view.sequence \in 0..Len(lengths)
  BY LenProperties DEF ServerTyped, ViewTyped
<1>9. Ordered'
  <2>0. \A i \in 1..Len(down') : i > Len(down) =>
          down'[i].kind # "open_window" /\ down'[i].id \in {0, Len(lengths)}
    BY <1>4, <1>8 DEF IsContent
  <2>1. \A i \in 1..Len(down') :
          /\ down'[i].id # 0 => down'[i].id >= view.sequence
          /\ down'[i].kind = "open_window" => down'[i].id > view.sequence
    BY <1>2, <1>8, <2>0, SMTT(60) DEF Ordered
  <2>2. \A i, j \in 1..Len(down') : i < j /\ down'[i].id # 0 /\ down'[j].id # 0 =>
          /\ down'[i].id <= down'[j].id
          /\ down'[j].kind = "open_window" => down'[i].id < down'[j].id
    <3> SUFFICES ASSUME NEW i \in 1..Len(down'), NEW j \in 1..Len(down'),
                        i < j, down'[i].id # 0, down'[j].id # 0
                 PROVE  /\ down'[i].id <= down'[j].id
                        /\ down'[j].kind = "open_window" => down'[i].id < down'[j].id
      OBVIOUS
    <3>1. CASE j <= Len(down)
      <4>1. down'[i] = down[i] /\ down'[j] = down[j]
        BY <1>2, <3>1
      <4> QED
        BY <1>2, <3>1, <4>1 DEF Ordered
    <3>2. CASE j > Len(down)
      <4>1. down'[j].id = Len(lengths) /\ down'[j].kind # "open_window"
        BY <2>0, <3>2
      <4>2. CASE i <= Len(down)
        BY <1>2, <1>5, <1>8, <4>1, <4>2
      <4>3. CASE i > Len(down)
        BY <1>8, <2>0, <4>1, <4>3
      <4> QED
        BY <1>2, <4>2, <4>3
    <3> QED
      BY <1>2, <3>1, <3>2
  <2>3. \A n \in (view.sequence + 1)..Len(lengths) :
          \E i \in 1..Len(down') : down'[i].kind = "open_window" /\ down'[i].id = n
    BY <1>2 DEF Ordered
  <2> QED
    BY <1>1, <2>1, <2>2, <2>3 DEF Ordered
<1>10. ShapeInv'
  <2>1. \A n, i : i \in 1..Len(down) /\ Filling(n, i) => Filling(n, i)'
    BY <1>1, <1>2 DEF Filling
  <2>2. \A n, i : i \in Len(down)..Len(down') /\ Filling(n, Len(down)) => Filling(n, i)'
    BY <1>1, <1>2 DEF Filling
  <2>3. \A n : Filled(n) <=> Filled(n)'
    BY <1>1 DEF Filled
  <2>4. SetsComeAfter'
    <3> SUFFICES ASSUME NEW n \in Nat, NEW i \in Nat, i \in 1..Len(down'),
                        down'[i].kind = "set_slot", down'[i].id = n, n # 0
                 PROVE  Filled(n)' \/ Filling(n, i)'
      BY DEF SetsComeAfter
    <3>1. CASE i <= Len(down)
      <4>1. i \in 1..Len(down) /\ down'[i] = down[i]
        BY <1>2, <3>1
      <4>2. Filled(n) \/ Filling(n, i)
        BY <4>1 DEF ShapeInv, SetsComeAfter
      <4> QED
        BY <2>1, <2>3, <4>1, <4>2
    <3>2. CASE i > Len(down)
      <4>1. n = menu.id
        BY <1>4, <3>2
      <4>2. Filled(n) \/ Filling(n, Len(down))
        BY <1>2, <4>1 DEF ShapeInv, OpenIsFilled
      <4>3. i \in Len(down)..Len(down')
        BY <1>2, <3>2
      <4> QED
        BY <2>2, <2>3, <4>2, <4>3
    <3> QED
      BY <1>2, <3>1, <3>2
  <2>5. OpenIsFilled'
    <3> SUFFICES ASSUME NEW n \in Nat, NEW i \in Nat, i = Len(down'), n = menu.id, n # 0
                 PROVE  Filled(n)' \/ Filling(n, i)'
      BY <1>1 DEF OpenIsFilled
    <3>1. i \in Len(down)..Len(down')
      BY <1>2
    <3>2. Filled(n) \/ Filling(n, Len(down))
      BY <1>2 DEF ShapeInv, OpenIsFilled
    <3> QED
      BY <2>2, <2>3, <3>1, <3>2
  <2>6. ShownInv'
    BY <1>1 DEF ShapeInv, ShownInv
  <2> QED
    BY <2>4, <2>5, <2>6 DEF ShapeInv
<1> QED
  BY <1>6, <1>7, <1>9, <1>10

\* Nothing of what CoreInv is about has changed.
LEMMA StillCore ==
  ASSUME CoreInv, UNCHANGED <<menu, rows, stamp, lengths, down, view, inv, offers, reading>>
  PROVE  CoreInv'
BY SMTT(60) DEF CoreInv, ServerTyped, DownTyped, ViewTyped, ReadingTyped, InvTyped, Ordered, ShapeInv,
       ShownInv, SetsComeAfter, OpenIsFilled, Fits, Extent, Filled, Filling, Contents

\* The server forgets its window, and says so or not.
LEMMA ForgetsCore ==
  ASSUME CoreInv, menu' = [id |-> 0, own |-> <<>>],
         down' = down \/ (menu.id # 0 /\ Tells(<<[kind |-> "close_window", id |-> menu.id]>>)),
         UNCHANGED <<rows, stamp, lengths, view, inv, offers, reading>>
  PROVE  CoreInv'
<1> USE DEF CoreInv
<1>1. ServerTyped'
  BY EmptySeq, WindowsAssumption DEF ServerTyped, Extent
<1>2. ViewTyped' /\ InvTyped' /\ ReadingTyped'
  BY DEF ViewTyped, InvTyped, ReadingTyped, Fits, Extent
<1>3. ShownInv' /\ OpenIsFilled'
  BY DEF ShapeInv, ShownInv, OpenIsFilled
<1>4. \A n : Filled(n) <=> Filled(n)'
  BY DEF Filled
<1>5. CASE down' = down
  <2>1. DownTyped' /\ Ordered' /\ SetsComeAfter'
    BY <1>5 DEF DownTyped, Fits, Extent, Ordered, ShapeInv, SetsComeAfter, Filled, Filling
  <2> QED
    BY <1>1, <1>2, <1>3, <2>1 DEF ShapeInv
<1>6. CASE menu.id # 0 /\ Tells(<<[kind |-> "close_window", id |-> menu.id]>>)
  <2> DEFINE p == [kind |-> "close_window", id |-> menu.id]
             ps == <<p>>
  <2>1. /\ menu.id = Len(lengths) /\ Len(lengths) \in Nat \ {0}
        /\ view.sequence \in 0..Len(lengths)
    BY <1>6, LenProperties DEF ServerTyped, ViewTyped
  <2>2. p \in Packets /\ p.kind = "close_window" /\ p.id = Len(lengths)
    BY <2>1, MadePackets
  <2>3. Fits(p, lengths)
    BY <2>1 DEF Fits
  <2>4. ps \in Seq(Packets) /\ Len(ps) = 1 /\ ps[1] = p /\ down \in Seq(Packets)
    BY <2>2 DEF DownTyped
  <2>5. down' = down \o ps
    BY <1>6 DEF Tells
  <2> HIDE DEF p, ps
  <2>6. /\ Len(down') = Len(down) + 1 /\ Len(down) \in Nat
        /\ \A i \in 1..Len(down) : down'[i] = down[i]
        /\ down'[Len(down) + 1] = p
        /\ down' \in Seq(Packets)
    BY <2>4, <2>5, Told, SMTT(60)
  <2>7. \A i \in 1..Len(down') : i \in 1..Len(down) \/ i = Len(down) + 1
    BY <2>6
  <2>8. DownTyped'
    <3>1. \A i \in 1..Len(down') : Fits(down'[i], lengths')
      BY <2>3, <2>6, <2>7 DEF DownTyped
    <3> QED
      BY <2>6, <3>1 DEF DownTyped, Fits, Extent
  <2>9. Ordered'
    <3>1. \A i \in 1..Len(down) : down[i].id <= Len(lengths) /\ down[i].id \in Nat
      BY DownFacts
    <3>2. \A i \in 1..Len(down') :
            /\ down'[i].id # 0 => down'[i].id >= view.sequence
            /\ down'[i].kind = "open_window" => down'[i].id > view.sequence
      BY <2>1, <2>2, <2>6, <2>7, SMTT(60) DEF Ordered
    <3>3. \A i, j \in 1..Len(down') : i < j /\ down'[i].id # 0 /\ down'[j].id # 0 =>
            /\ down'[i].id <= down'[j].id
            /\ down'[j].kind = "open_window" => down'[i].id < down'[j].id
      <4> SUFFICES ASSUME NEW i \in 1..Len(down'), NEW j \in 1..Len(down'),
                          i < j, down'[i].id # 0, down'[j].id # 0
                   PROVE  /\ down'[i].id <= down'[j].id
                          /\ down'[j].kind = "open_window" => down'[i].id < down'[j].id
        OBVIOUS
      <4>1. i \in 1..Len(down) /\ down'[i] = down[i]
        BY <2>6, <2>7
      <4>2. CASE j \in 1..Len(down)
        BY <2>6, <4>1, <4>2 DEF Ordered
      <4>3. CASE j = Len(down) + 1
        BY <2>1, <2>2, <2>6, <3>1, <4>1, <4>3
      <4> QED
        BY <2>7, <4>2, <4>3
    <3>4. \A n \in (view.sequence + 1)..Len(lengths) :
            \E i \in 1..Len(down') : down'[i].kind = "open_window" /\ down'[i].id = n
      BY <2>6 DEF Ordered
    <3> QED
      BY <3>2, <3>3, <3>4 DEF Ordered
  <2>10. SetsComeAfter'
    <3> SUFFICES ASSUME NEW n \in Nat, NEW i \in Nat, i \in 1..Len(down'),
                        down'[i].kind = "set_slot", down'[i].id = n, n # 0
                 PROVE  Filled(n)' \/ Filling(n, i)'
      BY DEF SetsComeAfter
    <3>1. i \in 1..Len(down) /\ down'[i] = down[i]
      BY <2>2, <2>6, <2>7
    <3>2. Filled(n) \/ Filling(n, i)
      BY <3>1 DEF ShapeInv, SetsComeAfter
    <3>3. Filling(n, i) => Filling(n, i)'
      BY <2>6, <3>1 DEF Filling
    <3> QED
      BY <1>4, <3>2, <3>3
  <2> QED
    BY <1>1, <1>2, <1>3, <2>8, <2>9, <2>10 DEF ShapeInv
<1> QED
  BY <1>5, <1>6

\* What the server says when it opens a window: that one it has open is closed, that
\* the next one is open, what is in it and perhaps what is on offer.
OpensAt(b) ==
  LET n == Len(lengths) + 1 IN
  /\ b \in {Len(down), Len(down) + 1}
  /\ b = Len(down) + 1 <=> menu.id # 0
  /\ menu.id # 0 => down'[b] = [kind |-> "close_window", id |-> menu.id]
  /\ down'[b + 1] = [kind |-> "open_window", id |-> n]
  /\ down'[b + 2] = AllItems(n, Contents', 1)
  /\ Len(down') \in {b + 2, b + 3}
  /\ Len(down') = b + 3 => down'[b + 3] = [kind |-> "trade_list", id |-> n]
  /\ \A i \in 1..Len(down) : down'[i] = down[i]
  /\ \A i \in 1..Len(down') :
       i \in 1..Len(down) \/ i \in {b, b + 1, b + 2, b + 3}
  /\ \A i \in 1..Len(down') : i = b => i \in 1..Len(down) \/ menu.id # 0

LEMMA OpensTells ==
  ASSUME ServerTyped, DownTyped, NEW stock \in Stocks, ServerOpens(stock)
  PROVE  /\ menu'.id = Len(lengths) + 1 /\ Len(lengths) \in Nat
         /\ menu' \in [id : Nat, own : Seq(Items)]
         /\ lengths' = Append(lengths, Len(menu'.own) + Rows) /\ Len(menu'.own) \in Nat \ {0}
         /\ stamp' = [stamp EXCEPT !.window = 1]
         /\ Contents' = menu'.own \o rows
         /\ down' \in Seq(Packets) /\ \E b : OpensAt(b)
<1> DEFINE n == Len(lengths) + 1
           own == OwnSlots[stock]
           c == [kind |-> "close_window", id |-> menu.id]
           o == [kind |-> "open_window", id |-> n]
           a == AllItems(n, own \o rows, 1)
           t == [kind |-> "trade_list", id |-> n]
<1>1. own \in Seq(Items) /\ Len(own) \in Nat \ {0}
  <2>1. stock = "chest" \/ stock = "merchant"
    BY WindowsAssumption
  <2>2. OwnSlots["chest"] = <<"a", "x">> /\ OwnSlots["merchant"] = <<"a">>
    BY DEF OwnSlots
  <2>3. /\ <<"a", "x">> \in Seq(Items) /\ Len(<<"a", "x">>) \in Nat \ {0}
        /\ <<"a">> \in Seq(Items) /\ Len(<<"a">>) \in Nat \ {0}
    BY DEF Items
  <2> QED
    BY <2>1, <2>2, <2>3, Zenon
<1>2. n \in Nat /\ Len(lengths) \in Nat /\ menu.id \in Nat /\ rows \in [1..Rows -> Items]
  BY LenProperties DEF ServerTyped
<1>3. /\ menu' = [id |-> n, own |-> own] /\ lengths' = Append(lengths, Len(own) + Rows)
      /\ stamp' = [stamp EXCEPT !.window = 1] /\ rows' = rows
  BY DEF ServerOpens
<1>4. Contents' = own \o rows
  BY <1>3 DEF Contents
<1>5. own \o rows \in Seq(Items)
  BY <1>1, <1>2, ContentsFacts
<1>6. c \in Packets /\ o \in Packets /\ a \in Packets /\ t \in Packets
  BY <1>2, <1>5, MadePackets
<1>7. down \in Seq(Packets) /\ Len(down) \in Nat
  BY DownFacts
<1> DEFINE offer == IF stock = "merchant" THEN <<t>> ELSE <<>>
           first == Shuts \o <<o, a>>
           ps == first \o offer
           b == Len(down) + Len(Shuts)
<1>8. down' = down \o ps
  BY DEF ServerOpens, Tells
<1> HIDE DEF own, a, c, o, t
<1>9. /\ Shuts \in Seq(Packets) /\ Len(Shuts) = IF menu.id = 0 THEN 0 ELSE 1
      /\ menu.id # 0 => Shuts[1] = c
  <2>1. Shuts = IF menu.id = 0 THEN <<>> ELSE <<c>>
    BY DEF Shuts, c
  <2> QED
    BY <1>6, <2>1
<1>10. offer \in Seq(Packets) /\ Len(offer) \in {0, 1} /\ (Len(offer) = 1 => offer[1] = t)
  BY <1>6
<1>11. <<o, a>> \in Seq(Packets) /\ Len(<<o, a>>) = 2 /\ <<o, a>>[1] = o /\ <<o, a>>[2] = a
  BY <1>6
<1> HIDE DEF offer
<1>12. /\ first \in Seq(Packets) /\ Len(first) = Len(Shuts) + 2
       /\ menu.id # 0 => first[1] = c
       /\ first[Len(Shuts) + 1] = o /\ first[Len(Shuts) + 2] = a
  <2> DEFINE pair == <<o, a>>
  <2>1. pair \in Seq(Packets) /\ Len(pair) = 2 /\ pair[1] = o /\ pair[2] = a /\ first = Shuts \o pair
    BY <1>11
  <2> HIDE DEF pair, first
  <2>2. Shuts \in Seq(Packets)
    BY <1>9
  <2>3. /\ first \in Seq(Packets) /\ Len(first) = Len(Shuts) + Len(pair)
        /\ \A i \in 1..Len(Shuts) : first[i] = Shuts[i]
        /\ \A k \in 1..Len(pair) : first[Len(Shuts) + k] = pair[k]
    <3>1. pair \in Seq(Packets) /\ first = Shuts \o pair
      BY <2>1
    <3> QED
      BY <2>2, <3>1, Told
  <2> QED
    BY <1>9, <2>1, <2>3
<1> HIDE DEF first
<1>13. /\ ps \in Seq(Packets) /\ Len(ps) = Len(Shuts) + 2 + Len(offer)
       /\ menu.id # 0 => ps[1] = c
       /\ ps[Len(Shuts) + 1] = o /\ ps[Len(Shuts) + 2] = a
       /\ Len(offer) = 1 => ps[Len(Shuts) + 3] = t
  <2>1. ps = first \o offer
    OBVIOUS
  <2> HIDE DEF ps
  <2>2. /\ ps \in Seq(Packets) /\ Len(ps) = Len(first) + Len(offer)
        /\ \A i \in 1..Len(first) : ps[i] = first[i]
        /\ \A k \in 1..Len(offer) : ps[Len(first) + k] = offer[k]
    <3>1. first \in Seq(Packets) /\ offer \in Seq(Packets)
      BY <1>10, <1>12, Zenon
    <3>2. /\ first \o offer \in Seq(Packets) /\ Len(first \o offer) = Len(first) + Len(offer)
          /\ \A i \in 1..Len(first) : (first \o offer)[i] = first[i]
          /\ \A k \in 1..Len(offer) : (first \o offer)[Len(first) + k] = offer[k]
      BY <3>1, Told, SMTT(60)
    <3> QED
      BY <2>1, <3>2, Zenon
  <2>3. /\ 1 \in 1..Len(first) /\ Len(Shuts) + 1 \in 1..Len(first)
        /\ Len(Shuts) + 2 \in 1..Len(first)
    BY <1>9, <1>12
  <2>4. Len(offer) = 1 => Len(first) + 1 = Len(Shuts) + 3 /\ 1 \in 1..Len(offer)
    BY <1>9, <1>12
  <2>5. ps[1] = first[1] /\ ps[Len(Shuts) + 1] = o /\ ps[Len(Shuts) + 2] = a
    BY <2>2, <2>3, <1>12, Zenon
  <2>6. Len(offer) = 1 => ps[Len(Shuts) + 3] = t
    <3> SUFFICES ASSUME Len(offer) = 1 PROVE ps[Len(Shuts) + 3] = t
      OBVIOUS
    <3>1. ps[Len(first) + 1] = offer[1]
      BY <2>2, <2>4, Zenon
    <3> QED
      BY <3>1, <2>4, <1>10, Zenon
  <2> QED
    BY <1>12, <2>2, <2>5, <2>6, Zenon
<1> HIDE DEF ps
<1>14. /\ down' \in Seq(Packets) /\ Len(down') = Len(down) + Len(ps) /\ Len(ps) \in Nat
       /\ \A i \in 1..Len(down) : down'[i] = down[i]
       /\ \A k \in 1..Len(ps) : down'[Len(down) + k] = ps[k]
  <2>1. ps \in Seq(Packets)
    BY <1>13
  <2> QED
    BY <1>7, <1>8, <2>1, Told
<1>15. /\ b = IF menu.id = 0 THEN Len(down) ELSE Len(down) + 1
       /\ Len(down') = b + 2 + Len(offer)
       /\ menu.id # 0 => down'[b] = c
       /\ down'[b + 1] = o /\ down'[b + 2] = a
       /\ Len(offer) = 1 => down'[b + 3] = t
  <2>1. /\ Len(Shuts) \in {0, 1} /\ Len(Shuts) = (IF menu.id = 0 THEN 0 ELSE 1)
        /\ Len(offer) \in {0, 1} /\ Len(ps) = Len(Shuts) + 2 + Len(offer)
    BY <1>9, <1>10, <1>13
  <2>2. down'[Len(down) + (Len(Shuts) + 1)] = o /\ down'[Len(down) + (Len(Shuts) + 2)] = a
    <3>1. Len(Shuts) + 1 \in 1..Len(ps) /\ Len(Shuts) + 2 \in 1..Len(ps)
      BY <2>1
    <3> QED
      BY <1>13, <1>14, <3>1, Zenon
  <2>3. Len(offer) = 1 => down'[Len(down) + (Len(Shuts) + 3)] = t
    BY <1>13, <1>14, <2>1
  <2>4. menu.id # 0 => down'[Len(down) + 1] = c
    BY <1>13, <1>14, <2>1
  <2> QED
    BY <1>7, <1>14, <2>1, <2>2, <2>3, <2>4
<1> HIDE DEF b
<1>16. OpensAt(b)
  <2>1. /\ c = [kind |-> "close_window", id |-> menu.id]
        /\ o = [kind |-> "open_window", id |-> Len(lengths) + 1]
        /\ a = AllItems(Len(lengths) + 1, Contents', 1)
        /\ t = [kind |-> "trade_list", id |-> Len(lengths) + 1]
    BY <1>4 DEF a, o, t, c
  <2>2. b \in {Len(down), Len(down) + 1} /\ (b = Len(down) + 1 <=> menu.id # 0)
        /\ Len(down') \in {b + 2, b + 3} /\ (Len(down') = b + 3 => Len(offer) = 1)
    <3>1. Len(offer) \in {0, 1} /\ Len(down') = b + 2 + Len(offer)
      BY <1>10, <1>15
    <3>2. b = IF menu.id = 0 THEN Len(down) ELSE Len(down) + 1
      BY <1>15
    <3>3. b \in {Len(down), Len(down) + 1} /\ (b = Len(down) + 1 <=> menu.id # 0)
      <4>1. CASE menu.id = 0
        BY <1>7, <3>2, <4>1
      <4>2. CASE menu.id # 0
        BY <1>7, <3>2, <4>2
      <4> QED
        BY <4>1, <4>2
    <3>4. b \in Nat
      BY <1>7, <3>3
    <3>5. CASE Len(offer) = 0
      <4>1. Len(down') = b + 2
        BY <3>1, <3>4, <3>5
      <4> QED
        BY <3>3, <3>4, <4>1
    <3>6. CASE Len(offer) = 1
      <4>1. Len(down') = b + 3
        BY <3>1, <3>4, <3>6
      <4> QED
        BY <3>3, <3>4, <3>6, <4>1
    <3> QED
      BY <3>1, <3>5, <3>6
  <2>3. \A i \in 1..Len(down') : i \in 1..Len(down) \/ i \in {b, b + 1, b + 2, b + 3}
    BY <1>7, <2>2, SMTT(60)
  <2>4. \A i \in 1..Len(down') : i = b => i \in 1..Len(down) \/ menu.id # 0
    BY <1>7, <2>2
  <2> QED
    BY <1>10, <1>14, <1>15, <2>1, <2>2, <2>3, <2>4 DEF OpensAt
<1> QED
  BY <1>1, <1>2, <1>3, <1>4, <1>14, <1>16

\* Which places the packets of an opening take, after those that were on their way.
Placed(b, i) ==
  LET n == Len(lengths) + 1 IN
  \/ i \in 1..Len(down) /\ down'[i] = down[i]
  \/ i = b /\ i > Len(down) /\ down'[i].kind = "close_window" /\ down'[i].id = n - 1 /\ n # 1
  \/ i = b + 1 /\ down'[i].kind = "open_window" /\ down'[i].id = n
  \/ i = b + 2 /\ down'[i].kind = "window_items" /\ down'[i].id = n
  \/ i = b + 3 /\ down'[i].kind = "trade_list" /\ down'[i].id = n

LEMMA OpensPlaces ==
  ASSUME ServerTyped, DownTyped, NEW b, OpensAt(b)
  PROVE  \A i \in 1..Len(down') : Placed(b, i)
<1>1. menu.id # 0 => menu.id = Len(lengths) /\ Len(lengths) # 0
  BY DEF ServerTyped
<1>2. Len(down) \in Nat /\ Len(lengths) \in Nat /\ b \in Nat /\ b >= Len(down)
  BY DownFacts, LenProperties, SMTT(60) DEF OpensAt, ServerTyped
<1> SUFFICES ASSUME NEW i \in 1..Len(down') PROVE Placed(b, i)
  OBVIOUS
<1>3. CASE i \in 1..Len(down)
  BY <1>3 DEF OpensAt, Placed
<1>4. CASE ~(i \in 1..Len(down)) /\ i = b
  <2>1. down'[b] = [kind |-> "close_window", id |-> menu.id] /\ menu.id # 0
    BY <1>4 DEF OpensAt
  <2> QED
    BY <1>1, <1>2, <1>4, <2>1 DEF Placed
<1>5. CASE i = b + 1
  BY <1>5 DEF OpensAt, Placed
<1>6. CASE i = b + 2
  BY <1>6 DEF OpensAt, Placed, AllItems
<1>7. CASE i = b + 3
  <2>1. Len(down') = b + 3
    BY <1>2, <1>7 DEF OpensAt
  <2> QED
    BY <1>7, <2>1 DEF OpensAt, Placed
<1> QED
  BY <1>3, <1>4, <1>5, <1>6, <1>7 DEF OpensAt

LEMMA OpensCore ==
  ASSUME CoreInv, NEW stock \in Stocks, ServerOpens(stock)
  PROVE  CoreInv'
<1> USE DEF CoreInv
<1> DEFINE n == Len(lengths) + 1
<1>1. /\ menu'.id = n /\ Len(lengths) \in Nat /\ menu' \in [id : Nat, own : Seq(Items)]
      /\ lengths' = Append(lengths, Len(menu'.own) + Rows) /\ Len(menu'.own) \in Nat \ {0}
      /\ stamp' = [stamp EXCEPT !.window = 1] /\ Contents' = menu'.own \o rows
      /\ down' \in Seq(Packets)
  BY OpensTells
<1>2. PICK b : OpensAt(b)
  BY OpensTells
<1>3. /\ rows' = rows /\ view' = view /\ inv' = inv /\ offers' = offers /\ reading' = reading
  BY DEF ServerOpens, copies
<1>4. /\ lengths' \in Seq(Nat) /\ Len(lengths') = n
      /\ \A k \in 1..Len(lengths) : lengths'[k] = lengths[k]
      /\ \A k \in 1..n : k \in 1..Len(lengths) \/ k = n
      /\ lengths'[n] = Len(menu'.own) + Rows
  BY <1>1, WindowsAssumption, Appended, SMTT(60) DEF ServerTyped
<1>5. ServerTyped'
  <2>1. \A k \in 1..Len(lengths') : lengths'[k] > Rows
    <3>1. lengths'[n] > Rows
      BY <1>1, <1>4, WindowsAssumption
    <3>2. \A k \in 1..Len(lengths) : lengths'[k] > Rows
      BY <1>4 DEF ServerTyped
    <3> QED
      BY <1>4, <3>1, <3>2
  <2>2. stamp' \in [player : Nat, window : Nat]
    BY <1>1 DEF ServerTyped
  <2>3. Len(menu'.own) = Extent(menu.id, lengths)' - Rows
    BY <1>1, <1>4, WindowsAssumption DEF Extent
  <2> QED
    BY <1>1, <1>3, <1>4, <2>1, <2>2, <2>3 DEF ServerTyped, Extent
<1>6. \A i \in 1..Len(down') : Placed(b, i)
  BY <1>2, OpensPlaces
<1>7. /\ Len(down) \in Nat /\ b \in {Len(down), Len(down) + 1} /\ Len(down') \in {b + 2, b + 3}
      /\ down' \in Seq(Packets) /\ \A i \in 1..Len(down) : down'[i] = down[i]
  BY <1>1, <1>2, DownFacts DEF OpensAt
<1>8. \A p \in Packets : Fits(p, lengths) => Fits(p, lengths')
  <2>1. \A k \in 0..Len(lengths) : Extent(k, lengths') = Extent(k, lengths)
    BY <1>1, <1>4 DEF Extent
  <2> QED
    BY <1>1, <1>4, <2>1 DEF Fits, Extent
<1>9. DownTyped'
  <2> SUFFICES ASSUME NEW i \in 1..Len(down') PROVE Fits(down'[i], lengths')
    BY <1>7 DEF DownTyped
  <2>1. CASE i \in 1..Len(down) /\ down'[i] = down[i]
    BY <1>8, <2>1, DownFacts
  <2>2. CASE i = b + 2
    <3>1. down'[i] = AllItems(n, Contents', 1)
      BY <1>2, <2>2 DEF OpensAt
    <3>2. Len(Contents') = Len(menu'.own) + Rows
      BY <1>1, ContentsFacts DEF ServerTyped
    <3> QED
      BY <1>1, <1>4, <3>1, <3>2 DEF Fits, AllItems, Extent
  <2>3. CASE i # b + 2 /\ ~(i \in 1..Len(down) /\ down'[i] = down[i])
    <3>1. /\ down'[i].kind \in {"close_window", "open_window", "trade_list"}
          /\ down'[i].id \in {n - 1, n} /\ down'[i].id # 0
      BY <1>1, <1>6, <2>3 DEF Placed
    <3> QED
      BY <1>1, <1>4, <3>1 DEF Fits
  <2> QED
    BY <2>1, <2>2, <2>3
<1>10. ViewTyped' /\ InvTyped'
  BY <1>1, <1>3, <1>4 DEF ViewTyped, InvTyped
<1>11. ReadingTyped'
  BY <1>3, <1>8 DEF ReadingTyped
<1>12. \A i \in 1..Len(down) : down[i].id \in Nat /\ down[i].id < n
  BY <1>1, DownFacts
<1>13. view.sequence \in 0..Len(lengths)
  BY DEF ViewTyped
<1>14. Ordered'
  <2>1. \A i \in 1..Len(down') :
          /\ down'[i].id # 0 => down'[i].id >= view.sequence
          /\ down'[i].kind = "open_window" => down'[i].id > view.sequence
    <3> SUFFICES ASSUME NEW i \in 1..Len(down')
                 PROVE  /\ down'[i].id # 0 => down'[i].id >= view.sequence
                        /\ down'[i].kind = "open_window" => down'[i].id > view.sequence
      OBVIOUS
    <3>1. CASE i \in 1..Len(down) /\ down'[i] = down[i]
      BY <3>1 DEF Ordered
    <3>2. CASE ~(i \in 1..Len(down) /\ down'[i] = down[i])
      <4>1. /\ down'[i].id \in {n - 1, n}
            /\ down'[i].kind = "open_window" => down'[i].id = n
        BY <1>1, <1>6, <3>2 DEF Placed
      <4> QED
        BY <1>1, <1>13, <4>1
    <3> QED
      BY <3>1, <3>2
  <2>2. \A i, j \in 1..Len(down') : i < j /\ down'[i].id # 0 /\ down'[j].id # 0 =>
          /\ down'[i].id <= down'[j].id
          /\ down'[j].kind = "open_window" => down'[i].id < down'[j].id
    <3> SUFFICES ASSUME NEW i \in 1..Len(down'), NEW j \in 1..Len(down'),
                        i < j, down'[i].id # 0, down'[j].id # 0
                 PROVE  /\ down'[i].id <= down'[j].id
                        /\ down'[j].kind = "open_window" => down'[i].id < down'[j].id
      OBVIOUS
    <3>1. CASE j \in 1..Len(down)
      <4>1. i \in 1..Len(down) /\ down'[i] = down[i] /\ down'[j] = down[j]
        BY <1>7, <3>1
      <4> QED
        BY <3>1, <4>1 DEF Ordered
    <3>2. CASE ~(j \in 1..Len(down)) /\ i \in 1..Len(down)
      <4>1. down'[i] = down[i]
        BY <1>2, <3>2 DEF OpensAt
      <4>2. /\ down'[j].id \in {n - 1, n}
            /\ down'[j].kind = "open_window" => down'[j].id = n
        BY <1>1, <1>6, <3>2 DEF Placed
      <4> QED
        BY <1>1, <1>12, <3>2, <4>1, <4>2
    <3>3. CASE ~(j \in 1..Len(down)) /\ ~(i \in 1..Len(down))
      <4>1. Placed(b, i) /\ Placed(b, j)
        BY <1>6
      <4>2. /\ down'[i].id \in {n - 1, n} /\ down'[j].id \in {n - 1, n}
            /\ down'[i].id = n => i > b
            /\ down'[j].id = n - 1 => j = b
            /\ down'[j].kind = "open_window" => j = b + 1 /\ down'[j].id = n
            /\ i = b => down'[i].id = n - 1
        <5>0. b \in Nat /\ i \in Nat /\ n \in Nat /\ n - 1 # n
          BY <1>1, <1>7, SMTT(60)
        <5>1. /\ down'[i].id \in {n - 1, n}
              /\ down'[i].id = n => i > b
              /\ i = b => down'[i].id = n - 1
          <6>1. \/ i = b /\ down'[i].id = n - 1
                \/ i \in {b + 1, b + 2, b + 3} /\ down'[i].id = n
            BY <3>3, <4>1 DEF Placed
          <6> HIDE DEF n
          <6> QED
            BY <5>0, <6>1
        <5>2. /\ down'[j].id \in {n - 1, n}
              /\ down'[j].id = n - 1 => j = b
              /\ down'[j].kind = "open_window" => j = b + 1 /\ down'[j].id = n
          BY <1>1, <1>7, <3>3, <4>1 DEF Placed
        <5> QED
          BY <5>1, <5>2
      <4>3. i >= b
        BY <1>7, <3>3
      <4> QED
        BY <1>1, <1>7, <3>3, <4>2, <4>3
    <3> QED
      BY <3>1, <3>2, <3>3
  <2>3. \A m \in (view.sequence + 1)..n :
          \E i \in 1..Len(down') : down'[i].kind = "open_window" /\ down'[i].id = m
    <3> SUFFICES ASSUME NEW m \in (view.sequence + 1)..n
                 PROVE  \E i \in 1..Len(down') : down'[i].kind = "open_window" /\ down'[i].id = m
      OBVIOUS
    <3>1. CASE m = n
      <4>1. b + 1 \in 1..Len(down') /\ down'[b + 1] = [kind |-> "open_window", id |-> n]
        BY <1>2, <1>7, SMTT(60) DEF OpensAt
      <4> QED
        BY <3>1, <4>1
    <3>2. CASE m # n
      <4>1. m \in (view.sequence + 1)..Len(lengths)
        BY <1>1, <1>13, <3>2
      <4>2. PICK i \in 1..Len(down) : down[i].kind = "open_window" /\ down[i].id = m
        BY <4>1 DEF Ordered
      <4>3. i \in 1..Len(down') /\ down'[i] = down[i]
        BY <1>2, <1>7 DEF OpensAt
      <4> QED
        BY <4>2, <4>3
    <3> QED
      BY <3>1, <3>2
  <2> QED
    BY <1>3, <1>4, <2>1, <2>2, <2>3 DEF Ordered
<1>15. ShapeInv'
  <2>1. ShownInv'
    BY <1>3, <1>4, <1>13 DEF ShapeInv, ShownInv
  <2>2. \A m : Filled(m) <=> Filled(m)'
    BY <1>3 DEF Filled
  <2>3. \A m, i : i \in 1..Len(down) /\ Filling(m, i) => Filling(m, i)'
    <3>1. \A i \in 1..Len(down) : \A j \in 1..i : down'[j] = down[j]
      <4>1. \A i \in 1..Len(down) : \A j \in 1..i : j \in 1..Len(down)
        BY <1>7
      <4> QED
        BY <1>7, <4>1 DEF OpensAt
    <3> QED
      BY <1>3, <3>1 DEF Filling
  <2>4. SetsComeAfter'
    <3> SUFFICES ASSUME NEW m \in Nat, NEW i \in Nat, i \in 1..Len(down'),
                        down'[i].kind = "set_slot", down'[i].id = m, m # 0
                 PROVE  Filled(m)' \/ Filling(m, i)'
      BY DEF SetsComeAfter
    <3>1. i \in 1..Len(down) /\ down'[i] = down[i]
      BY <1>6 DEF Placed
    <3> QED
      BY <2>2, <2>3, <3>1 DEF ShapeInv, SetsComeAfter
  <2>5. OpenIsFilled'
    <3>1. b + 2 \in 1..Len(down') /\ down'[b + 2].kind = "window_items" /\ down'[b + 2].id = n
      BY <1>2, <1>7 DEF OpensAt, AllItems
    <3> QED
      BY <1>1, <3>1 DEF OpenIsFilled, Filling
  <2> QED
    BY <2>1, <2>4, <2>5 DEF ShapeInv
<1> QED
  BY <1>5, <1>9, <1>10, <1>11, <1>14, <1>15

\* The head of the queue is about the last window the client has opened, or opens the next.
LEMMA HeadFacts ==
  ASSUME CoreInv, down # <<>>
  PROVE  /\ Len(down) \in Nat \ {0} /\ Len(Tail(down)) = Len(down) - 1
         /\ Tail(down) \in Seq(Packets)
         /\ \A i \in 1..(Len(down) - 1) : i + 1 \in 1..Len(down) /\ Tail(down)[i] = down[i + 1]
         /\ Head(down) = down[1] /\ Head(down) \in Packets /\ Fits(Head(down), lengths)
         /\ Head(down).id \in Nat /\ Head(down).kind \in Kinds
         /\ Head(down).kind # "open_window" /\ Head(down).id # 0 =>
              Head(down).id = view.sequence
         /\ Head(down).kind = "open_window" => Head(down).id = view.sequence + 1
<1> USE DEF CoreInv
<1> DEFINE h == Head(down)
<1>1. /\ Len(down) \in Nat \ {0} /\ Len(Tail(down)) = Len(down) - 1
      /\ Tail(down) \in Seq(Packets) /\ h = down[1] /\ h \in Packets
      /\ \A i \in 1..(Len(down) - 1) : Tail(down)[i] = down[i + 1]
  BY HeadTaken, DownFacts
<1>2. \A i \in 1..(Len(down) - 1) : i + 1 \in 1..Len(down)
  BY <1>1
<1>3. Fits(h, lengths) /\ h.id \in Nat /\ h.kind \in Kinds /\ h.id <= Len(lengths)
      /\ 1 \in 1..Len(down)
  BY <1>1, DownFacts
<1>4. view.sequence \in Nat /\ Len(lengths) \in Nat
  BY LenProperties DEF ViewTyped, ServerTyped
<1> HIDE DEF h
<1>5. \A i \in 1..Len(down) :
        /\ down[i].id # 0 => down[i].id >= view.sequence
        /\ down[i].kind = "open_window" => down[i].id > view.sequence
  BY DEF Ordered
<1>6. \A j \in 1..Len(down) : 1 < j /\ h.id # 0 /\ down[j].id # 0 =>
        /\ h.id <= down[j].id
        /\ down[j].kind = "open_window" => h.id < down[j].id
  BY <1>1, <1>3 DEF Ordered
<1>7. ASSUME h.kind # "open_window", h.id # 0 PROVE h.id = view.sequence
  <2> SUFFICES ASSUME h.id # view.sequence PROVE FALSE
    OBVIOUS
  <2>1. h.id \in (view.sequence + 1)..Len(lengths)
    BY <1>1, <1>3, <1>4, <1>5, <1>7
  <2>2. PICK j \in 1..Len(down) : down[j].kind = "open_window" /\ down[j].id = h.id
    BY <2>1 DEF Ordered
  <2>3. j # 1
    BY <1>1, <1>7, <2>2
  <2> QED
    BY <1>1, <1>3, <1>6, <1>7, <2>2, <2>3
<1>8. ASSUME h.kind = "open_window" PROVE h.id = view.sequence + 1
  <2>1. h.id > view.sequence
    BY <1>1, <1>3, <1>5, <1>8
  <2> SUFFICES ASSUME h.id # view.sequence + 1 PROVE FALSE
    OBVIOUS
  <2>2. view.sequence + 1 \in (view.sequence + 1)..Len(lengths)
    BY <1>3, <1>4, <2>1
  <2>3. PICK j \in 1..Len(down) :
          down[j].kind = "open_window" /\ down[j].id = view.sequence + 1
    BY <2>2 DEF Ordered
  <2>4. j # 1
    BY <1>1, <2>3
  <2> QED
    BY <1>1, <1>3, <1>4, <1>6, <2>1, <2>3, <2>4
<1> QED
  BY <1>1, <1>2, <1>3, <1>7, <1>8 DEF h

\* The packets that are left are in order.
LEMMA TailOrdered ==
  ASSUME CoreInv, down # <<>>, down' = Tail(down), lengths' = lengths,
         view'.sequence = view.sequence + (IF Head(down).kind = "open_window" THEN 1 ELSE 0)
  PROVE  DownTyped' /\ Ordered'
<1> USE DEF CoreInv
<1> DEFINE h == Head(down)
<1>1. /\ Len(down) \in Nat \ {0} /\ Len(down') = Len(down) - 1
      /\ down' \in Seq(Packets)
      /\ \A i \in 1..Len(down') : i + 1 \in 1..Len(down) /\ down'[i] = down[i + 1]
      /\ h = down[1] /\ h.id \in Nat
      /\ h.kind = "open_window" => h.id = view.sequence + 1
  BY HeadFacts
<1>2. view.sequence \in Nat /\ Len(lengths) \in Nat
  BY LenProperties DEF ViewTyped, ServerTyped
<1>3. DownTyped'
  <2>1. \A i \in 1..Len(down') : Fits(down'[i], lengths')
    BY <1>1 DEF DownTyped
  <2> QED
    BY <1>1, <2>1 DEF DownTyped
<1>4. \A i \in 1..Len(down) : down[i].id \in Nat
  BY DownFacts
<1>5. \A i, j \in 1..Len(down') : i < j /\ down'[i].id # 0 /\ down'[j].id # 0 =>
        /\ down'[i].id <= down'[j].id
        /\ down'[j].kind = "open_window" => down'[i].id < down'[j].id
  <2> SUFFICES ASSUME NEW i \in 1..Len(down'), NEW j \in 1..Len(down'),
                      i < j, down'[i].id # 0, down'[j].id # 0
               PROVE  /\ down'[i].id <= down'[j].id
                      /\ down'[j].kind = "open_window" => down'[i].id < down'[j].id
    OBVIOUS
  <2>1. i + 1 \in 1..Len(down) /\ j + 1 \in 1..Len(down) /\ i + 1 < j + 1
        /\ down'[i] = down[i + 1] /\ down'[j] = down[j + 1]
    BY <1>1
  <2> QED
    BY <2>1 DEF Ordered
<1>6. CASE h.kind # "open_window"
  <2>1. view'.sequence = view.sequence
    BY <1>2, <1>6
  <2>2. \A i \in 1..Len(down') :
          /\ down'[i].id # 0 => down'[i].id >= view.sequence
          /\ down'[i].kind = "open_window" => down'[i].id > view.sequence
    BY <1>1 DEF Ordered
  <2>3. \A n \in (view.sequence + 1)..Len(lengths) :
          \E i \in 1..Len(down') : down'[i].kind = "open_window" /\ down'[i].id = n
    <3> SUFFICES ASSUME NEW n \in (view.sequence + 1)..Len(lengths)
                 PROVE  \E i \in 1..Len(down') :
                          down'[i].kind = "open_window" /\ down'[i].id = n
      OBVIOUS
    <3>1. PICK i \in 1..Len(down) : down[i].kind = "open_window" /\ down[i].id = n
      BY DEF Ordered
    <3>2. i # 1
      BY <1>1, <1>6, <3>1
    <3>3. i - 1 \in 1..Len(down') /\ (i - 1) + 1 = i
      BY <1>1, <3>2
    <3>4. down'[i - 1] = down[i]
      BY <1>1, <3>3
    <3> QED
      BY <3>1, <3>3, <3>4
  <2> QED
    BY <1>3, <1>5, <2>1, <2>2, <2>3 DEF Ordered
<1>7. CASE h.kind = "open_window"
  <2>1. view'.sequence = view.sequence + 1 /\ h.id = view'.sequence
    BY <1>1, <1>2, <1>7
  <2>2. \A j \in 1..Len(down) : 1 < j /\ down[j].id # 0 =>
          /\ h.id <= down[j].id
          /\ down[j].kind = "open_window" => h.id < down[j].id
    <3>1. 1 \in 1..Len(down) /\ h.id # 0
      BY <1>1, <1>2, <1>7
    <3> HIDE DEF h
    <3> QED
      BY <1>1, <3>1 DEF Ordered
  <2>3. \A i \in 1..Len(down') :
          /\ down'[i].id # 0 => down'[i].id >= view'.sequence
          /\ down'[i].kind = "open_window" => down'[i].id > view'.sequence
    <3> SUFFICES ASSUME NEW i \in 1..Len(down')
                 PROVE  /\ down'[i].id # 0 => down'[i].id >= view'.sequence
                        /\ down'[i].kind = "open_window" => down'[i].id > view'.sequence
      OBVIOUS
    <3>1. i + 1 \in 1..Len(down) /\ 1 < i + 1 /\ down'[i] = down[i + 1]
      BY <1>1
    <3>2. down[i + 1].kind = "open_window" => down[i + 1].id # 0
      BY <1>2, <3>1, <1>4 DEF Ordered
    <3> QED
      BY <2>1, <2>2, <3>1, <3>2
  <2>4. \A n \in (view'.sequence + 1)..Len(lengths) :
          \E i \in 1..Len(down') : down'[i].kind = "open_window" /\ down'[i].id = n
    <3> SUFFICES ASSUME NEW n \in (view'.sequence + 1)..Len(lengths)
                 PROVE  \E i \in 1..Len(down') :
                          down'[i].kind = "open_window" /\ down'[i].id = n
      OBVIOUS
    <3>1. n \in (view.sequence + 1)..Len(lengths) /\ n # h.id
      BY <1>2, <2>1
    <3>2. PICK i \in 1..Len(down) : down[i].kind = "open_window" /\ down[i].id = n
      BY <3>1 DEF Ordered
    <3>3. i # 1
      BY <1>1, <3>1, <3>2
    <3>4. i - 1 \in 1..Len(down') /\ (i - 1) + 1 = i
      BY <1>1, <3>3
    <3>5. down'[i - 1] = down[i]
      BY <1>1, <3>4
    <3> QED
      BY <3>2, <3>4, <3>5
  <2> QED
    BY <1>3, <1>5, <2>3, <2>4 DEF Ordered
<1> QED
  BY <1>6, <1>7

\* What is expected of the packets that are left, when a head that fills a window has
\* filled it or is about to.
LEMMA TailExpected ==
  ASSUME CoreInv, reading = Nothing, down # <<>>, down' = Tail(down), menu' = menu,
         Ordered', view'.sequence \in 0..Len(lengths),
         \A n \in Nat : n >= view'.sequence /\ n # 0 /\ Filled(n) => Filled(n)',
         \A n \in Nat : Head(down).kind = "window_items" /\ Head(down).id = n /\ n # 0 =>
           \/ Filled(n)'
           \/ reading'.step = "window" /\ reading'.packet = Head(down)
  PROVE  SetsComeAfter' /\ OpenIsFilled'
<1> USE DEF CoreInv
<1> DEFINE h == Head(down)
<1>1. /\ Len(down) \in Nat \ {0} /\ Len(down') = Len(down) - 1
      /\ \A i \in 1..Len(down') : i + 1 \in 1..Len(down) /\ down'[i] = down[i + 1]
      /\ h = down[1]
  BY HeadFacts
<1>2. reading.step = "rest"
  BY DEF Nothing
<1>3. ASSUME NEW n \in Nat, n # 0, NEW i \in Nat, i \in 0..Len(down'), Filling(n, i + 1)
      PROVE  Filled(n)' \/ Filling(n, i)'
  <2>1. PICK j \in 1..(i + 1) : down[j].kind = "window_items" /\ down[j].id = n
    BY <1>2, <1>3 DEF Filling
  <2>2. CASE j = 1
    BY <1>1, <1>3, <2>1, <2>2 DEF Filling
  <2>3. CASE j # 1
    <3>1. j - 1 \in 1..i /\ j - 1 \in 1..Len(down') /\ (j - 1) + 1 = j
      BY <1>1, <1>3, <2>3
    <3>2. down'[j - 1] = down[j]
      BY <1>1, <3>1
    <3> QED
      BY <2>1, <3>1, <3>2 DEF Filling
  <2> QED
    BY <2>2, <2>3
<1>4. SetsComeAfter'
  <2> SUFFICES ASSUME NEW n \in Nat, NEW i \in Nat, i \in 1..Len(down'),
                      down'[i].kind = "set_slot", down'[i].id = n, n # 0
               PROVE  Filled(n)' \/ Filling(n, i)'
    BY DEF SetsComeAfter
  <2>1. i + 1 \in Nat /\ i + 1 \in 1..Len(down) /\ down'[i] = down[i + 1]
    BY <1>1
  <2>2. Filled(n) \/ Filling(n, i + 1)
    BY <2>1 DEF ShapeInv, SetsComeAfter
  <2>3. n >= view'.sequence
    BY DEF Ordered
  <2>4. i \in 0..Len(down')
    BY <1>1
  <2> QED
    BY <1>3, <2>2, <2>3, <2>4
<1>5. OpenIsFilled'
  <2> SUFFICES ASSUME NEW n \in Nat, NEW i \in Nat, i = Len(down'), n = menu.id, n # 0
               PROVE  Filled(n)' \/ Filling(n, i)'
    BY DEF OpenIsFilled
  <2>1. i + 1 = Len(down) /\ i + 1 \in Nat /\ i \in 0..Len(down')
    BY <1>1
  <2>2. Filled(n) \/ Filling(n, i + 1)
    BY <2>1 DEF ShapeInv, OpenIsFilled
  <2>3. n >= view'.sequence
    <3>1. n = Len(lengths)
      BY DEF ServerTyped
    <3> QED
      BY <3>1
  <2> QED
    BY <1>3, <2>1, <2>2, <2>3
<1> QED
  BY <1>4, <1>5

LEMMA TakeOpenWindowCore ==
  ASSUME CoreInv, TakeOpenWindow
  PROVE  CoreInv'
<1> USE DEF CoreInv
<1> DEFINE h == Head(down)
<1>1. /\ reading = Nothing /\ down # <<>> /\ h.kind = "open_window" /\ down' = Tail(down)
      /\ reading' = [kind |-> h.kind, step |-> "opened", packet |-> h]
      /\ view' = Open(view, h.id)
      /\ UNCHANGED <<menu, rows, stamp, lengths, changes, inv, offers>>
  BY DEF TakeOpenWindow, Reads, Handles, server
<1>2. /\ h \in Packets /\ Fits(h, lengths) /\ h.id \in Nat
      /\ h.kind \in Kinds /\ h.id = view.sequence + 1
  BY <1>1, HeadFacts
<1>3. view.sequence \in Nat /\ Len(lengths) \in Nat /\ view.sequence \in 0..Len(lengths)
  BY LenProperties DEF ViewTyped, ServerTyped
<1>4. h.id \in 1..Len(lengths)
  BY <1>1, <1>2, <1>3 DEF Fits
<1>5. /\ view'.open = TRUE /\ view'.id = h.id /\ view'.slots = <<>> /\ view'.declared = 0
      /\ view'.sequence = h.id
  BY <1>1, <1>2 DEF Open, ViewTyped
<1>6. ViewTyped'
  <2>1. view' \in [open : BOOLEAN, id : Nat, slots : Seq(Items), declared : Nat,
                   decoded : Nat, trimmed : BOOLEAN, stateID : Nat, sequence : Nat]
    BY <1>1, <1>2, EmptySeq DEF Open, ViewTyped
  <2> QED
    BY <1>1, <1>2, <1>3, <1>4, <1>5, <2>1 DEF ViewTyped
<1> HIDE DEF h
<1>7. ServerTyped' /\ InvTyped'
  BY <1>1 DEF ServerTyped, InvTyped
<1>8. ReadingTyped'
  <2>1. reading'.packet = h /\ reading'.step = "opened" /\ reading'.kind = h.kind
    BY <1>1
  <2>2. reading' \in [kind : Kinds, step : {"opened", "window", "mirror", "inventory"},
                      packet : Packets]
    BY <1>1, <1>2
  <2> QED
    BY <1>1, <1>2, <1>4, <1>5, <2>1, <2>2 DEF ReadingTyped
<1>9. DownTyped' /\ Ordered'
  <2>1. view'.sequence = view.sequence + (IF Head(down).kind = "open_window" THEN 1 ELSE 0)
    BY <1>1, <1>2, <1>5 DEF h
  <2> QED
    BY <1>1, <2>1, TailOrdered
<1>10. SetsComeAfter' /\ OpenIsFilled'
  <2>1. \A n \in Nat : n >= view'.sequence /\ n # 0 /\ Filled(n) => Filled(n)'
    BY <1>2, <1>3, <1>5 DEF Filled
  <2>2. \A n \in Nat : ~(Head(down).kind = "window_items")
    BY <1>1 DEF h
  <2>3. view'.sequence \in 0..Len(lengths)
    BY <1>3, <1>4, <1>5
  <2> QED
    BY <1>1, <1>9, <2>1, <2>2, <2>3, TailExpected
<1>11. ShownInv'
  <2>1. Len(<<>>) = 0
    OBVIOUS
  <2> QED
    BY <1>1, <1>5, <2>1 DEF ShownInv
<1> QED
  BY <1>6, <1>7, <1>8, <1>9, <1>10, <1>11 DEF ShapeInv

\* The client closes its window, or not.
Closes == view' = view \/ view' = Close(view)

LEMMA ClosesTyped ==
  ASSUME ViewTyped, Closes, lengths' = lengths
  PROVE  /\ ViewTyped'
         /\ view'.sequence = view.sequence /\ view'.slots = view.slots
         /\ view'.declared = view.declared /\ view'.trimmed = view.trimmed
         /\ view'.stateID = view.stateID /\ view'.id \in {0, view.id}
         /\ \A n \in Nat : n # 0 /\ Filled(n) => Filled(n)'
<1>1. CASE view' = view
  BY <1>1 DEF ViewTyped, Filled
<1>2. CASE view' = Close(view)
  <2>1. /\ view' \in [open : BOOLEAN, id : Nat, slots : Seq(Items), declared : Nat,
                      decoded : Nat, trimmed : BOOLEAN, stateID : Nat, sequence : Nat]
        /\ view'.sequence = view.sequence /\ view'.slots = view.slots
        /\ view'.declared = view.declared /\ view'.trimmed = view.trimmed
        /\ view'.stateID = view.stateID /\ view'.id = 0 /\ view'.open = FALSE
    BY <1>2 DEF ViewTyped, Close
  <2> QED
    BY <2>1 DEF ViewTyped, Filled
<1> QED
  BY <1>1, <1>2 DEF Closes

\* A packet is taken that is about neither contents nor a new window.
LEMMA TakesCore ==
  ASSUME CoreInv, reading = Nothing, down # <<>>, down' = Tail(down),
         Head(down).kind \in {"trade_list", "close_window"}, Closes, reading' = reading,
         offers' \in {offers, Head(down).id}, Head(down).kind = "close_window" => offers' = offers,
         UNCHANGED <<menu, rows, stamp, lengths, inv>>
  PROVE  CoreInv'
<1> USE DEF CoreInv
<1>1. Head(down).id = view.sequence
  <2>1. Head(down).id # 0
    BY HeadFacts DEF Fits
  <2> QED
    BY <2>1, HeadFacts
<1>2. /\ ViewTyped'
      /\ view'.sequence = view.sequence /\ view'.slots = view.slots
      /\ view'.declared = view.declared
      /\ \A n \in Nat : n # 0 /\ Filled(n) => Filled(n)'
  BY ClosesTyped
<1>3. ServerTyped' /\ InvTyped' /\ ReadingTyped'
  BY <1>2 DEF ServerTyped, InvTyped, ReadingTyped, Nothing
<1>4. DownTyped' /\ Ordered'
  <2>1. view'.sequence = view.sequence + (IF Head(down).kind = "open_window" THEN 1 ELSE 0)
    BY <1>2 DEF ViewTyped
  <2> QED
    BY <2>1, TailOrdered
<1>5. SetsComeAfter' /\ OpenIsFilled'
  <2>1. view'.sequence \in 0..Len(lengths)
    BY <1>2 DEF ViewTyped
  <2> QED
    BY <1>2, <1>4, <2>1, TailExpected
<1>6. ShownInv'
  BY <1>1, <1>2 DEF ShapeInv, ShownInv, Nothing
<1> QED
  BY <1>2, <1>3, <1>4, <1>5, <1>6 DEF ShapeInv

LEMMA TakeContentsCore ==
  ASSUME CoreInv, NEW kind, TakeContents(kind)
  PROVE  CoreInv'
<1> USE DEF CoreInv
<1> DEFINE h == Head(down)
<1>1. /\ reading = Nothing /\ down # <<>> /\ h.kind = kind /\ down' = Tail(down)
      /\ kind \in {"window_items", "set_slot"}
      /\ UNCHANGED <<menu, rows, stamp, lengths, changes, offers>>
  BY DEF TakeContents, Reads, server
<1>2. /\ h \in Packets /\ Fits(h, lengths) /\ h.id \in Nat /\ h.kind \in Kinds
      /\ h.id # 0 => h.id = view.sequence
      /\ h = down[1] /\ Len(down) \in Nat \ {0} /\ 1 \in 1..Len(down)
  BY <1>1, HeadFacts
<1>3. h.sid \in Nat
  BY <1>1, <1>2, PacketFacts
<1>4. \/ Matches(h.id) /\ view' = [view EXCEPT !.stateID = h.sid] /\ Handles(h, "window")
         /\ UNCHANGED inv
      \/ ~Matches(h.id) /\ h.id = 0 /\ inv' = [inv EXCEPT !.stateID = h.sid]
         /\ Handles(h, "inventory") /\ UNCHANGED view
      \/ ~Matches(h.id) /\ h.id # 0 /\ UNCHANGED <<view, inv, reading>>
  BY DEF TakeContents
<1> HIDE DEF h
<1>5. /\ ViewTyped' /\ view'.sequence = view.sequence /\ view'.slots = view.slots
      /\ view'.declared = view.declared /\ view'.id = view.id
  <2>1. CASE view' = view
    BY <1>1, <2>1 DEF ViewTyped
  <2>2. CASE view' = [view EXCEPT !.stateID = h.sid]
    <3>1. /\ view' \in [open : BOOLEAN, id : Nat, slots : Seq(Items), declared : Nat,
                        decoded : Nat, trimmed : BOOLEAN, stateID : Nat, sequence : Nat]
          /\ view'.sequence = view.sequence /\ view'.slots = view.slots
          /\ view'.declared = view.declared /\ view'.id = view.id /\ view'.open = view.open
      BY <1>3, <2>2 DEF ViewTyped
    <3> QED
      BY <1>1, <3>1 DEF ViewTyped
  <2> QED
    BY <1>4, <2>1, <2>2
<1>6. ServerTyped' /\ InvTyped'
  <2>1. InvTyped'
    BY <1>3, <1>4 DEF InvTyped
  <2> QED
    BY <1>1, <2>1 DEF ServerTyped
<1>7. DownTyped' /\ Ordered'
  <2>1. view'.sequence = view.sequence + (IF Head(down).kind = "open_window" THEN 1 ELSE 0)
    BY <1>1, <1>5 DEF ViewTyped, h
  <2> QED
    BY <1>1, <2>1, TailOrdered
<1>8. Matches(h.id) => h.id # 0 /\ h.id = view.sequence
  BY <1>2 DEF Matches, ViewTyped
<1>9. ReadingTyped'
  <2>1. CASE reading' = reading
    BY <1>1, <2>1 DEF ReadingTyped
  <2>2. ASSUME NEW step \in {"window", "inventory"}, Handles(h, step),
               h.id = IF step = "inventory" THEN 0 ELSE view.sequence,
               step # "inventory" => view.sequence # 0
        PROVE  ReadingTyped'
    <3>1. reading'.packet = h /\ reading'.step = step
          /\ reading' \in [kind : Kinds, step : {"opened", "window", "mirror", "inventory"},
                           packet : Packets]
      BY <1>2, <2>2 DEF Handles
    <3> QED
      BY <1>1, <1>2, <1>5, <2>2, <3>1 DEF ReadingTyped
  <2> QED
    BY <1>4, <1>8, <2>1, <2>2
<1>10. SetsComeAfter' /\ OpenIsFilled'
  <2>1. \A n : Filled(n) => Filled(n)'
    BY <1>5 DEF Filled
  <2>2. \A n \in Nat : Head(down).kind = "window_items" /\ Head(down).id = n /\ n # 0 =>
          \/ Filled(n)'
          \/ reading'.step = "window" /\ reading'.packet = Head(down)
    <3>1. CASE Matches(h.id)
      BY <1>4, <3>1 DEF Handles, h
    <3>2. ASSUME NEW n \in Nat, h.id = n, ~Matches(h.id), n # 0 PROVE Filled(n)'
      <4>1. view.sequence = n /\ view.id # n
        BY <1>2, <3>2 DEF Matches, ViewTyped
      <4> QED
        BY <1>5, <4>1 DEF Filled
    <3> QED
      BY <3>1, <3>2 DEF h
  <2>3. view'.sequence \in 0..Len(lengths)
    BY <1>5 DEF ViewTyped
  <2> QED
    BY <1>1, <1>7, <2>1, <2>2, <2>3, TailExpected
<1>11. ShownInv'
  <2>1. reading.step = "rest"
    BY <1>1 DEF Nothing
  <2>2. reading'.step \in {"rest", "window", "inventory"}
    BY <1>4, <2>1 DEF Handles
  <2>3. reading'.step = "window" /\ reading'.packet.kind = "set_slot" => view.slots # <<>>
    <3> SUFFICES ASSUME reading'.step = "window", reading'.packet.kind = "set_slot"
                 PROVE  view.slots # <<>>
      OBVIOUS
    <3>1. Matches(h.id) /\ h.kind = "set_slot"
      BY <1>4, <2>1 DEF Handles
    <3>2. ~Filling(h.id, 1)
      BY <1>2, <2>1, <3>1 DEF Filling
    <3>3. Filled(h.id)
      BY <1>2, <1>8, <3>1, <3>2 DEF ShapeInv, SetsComeAfter
    <3> QED
      BY <3>1, <3>3 DEF Filled, Matches
  <2> QED
    BY <1>1, <1>5, <2>1, <2>2, <2>3 DEF ShapeInv, ShownInv
<1> QED
  BY <1>5, <1>6, <1>7, <1>9, <1>10, <1>11 DEF ShapeInv

\* What is being handled is about the window in view, or about the player's own.
LEMMA ReadingFacts ==
  ASSUME CoreInv, reading.step \in {"window", "mirror", "inventory"}
  PROVE  /\ reading.packet \in Packets /\ Fits(reading.packet, lengths)
         /\ IsContent(reading.packet) /\ reading # Nothing
         /\ reading \in [kind : Kinds, step : {"opened", "window", "mirror", "inventory"},
                         packet : Packets]
         /\ reading.step = "inventory" => reading.packet.id = 0
         /\ reading.step # "inventory" =>
              reading.packet.id = view.sequence /\ view.sequence \in 1..Len(lengths)
<1>1. reading # Nothing
  BY DEF Nothing
<1>2. /\ reading \in [kind : Kinds, step : {"opened", "window", "mirror", "inventory"},
                      packet : Packets]
      /\ Fits(reading.packet, lengths)
      /\ reading.step = "opened" <=> reading.packet.kind = "open_window"
      /\ reading.step # "opened" => reading.packet.kind \in {"window_items", "set_slot"}
      /\ reading.packet.id = IF reading.step = "inventory" THEN 0 ELSE view.sequence
      /\ reading.step # "inventory" => view.sequence # 0
  BY <1>1 DEF CoreInv, ReadingTyped
<1>3. view.sequence \in 0..Len(lengths) /\ Len(lengths) \in Nat
  BY LenProperties DEF CoreInv, ServerTyped, ViewTyped
<1>4. reading.step # "opened"
  OBVIOUS
<1> QED
  BY <1>1, <1>2, <1>3, <1>4 DEF IsContent

\* A window is filled with what it was opened for.
LEMMA FillWindowView ==
  ASSUME CoreInv, FillWindow
  PROVE  /\ ViewTyped' /\ view'.sequence = view.sequence /\ view'.id = view.id
         /\ view'.stateID = view.stateID /\ view'.slots # <<>>
         /\ Len(view'.slots) = lengths[view.sequence] /\ view'.declared = Len(view'.slots)
         /\ \A s \in 1..lengths[view.sequence] :
              IF Sets(reading.packet, s)
              THEN view'.trimmed \/ view'.slots[s] = ValueOf(reading.packet, s)
              ELSE view'.slots[s] = view.slots[s] /\ view'.trimmed = view.trimmed
         /\ reading.packet.kind = "set_slot" => view.slots # <<>>
<1> USE DEF CoreInv
<1> DEFINE p == reading.packet
           n == lengths[view.sequence]
<1>1. /\ reading.step = "window" /\ lengths' = lengths
      /\ view' = IF p.kind = "window_items" THEN ReplaceAll(view, p.items)
                 ELSE SetSlot(view, p.slot, p.item)
  BY DEF FillWindow, server
<1>2. /\ p \in Packets /\ Fits(p, lengths) /\ IsContent(p)
      /\ p.id = view.sequence /\ view.sequence \in 1..Len(lengths)
  BY <1>1, ReadingFacts
<1>3. n \in Nat /\ n > Rows /\ n = Extent(p.id, lengths) /\ Rows \in Nat
  <2>1. n \in Nat
    BY <1>2, ElementOfSeq DEF ServerTyped
  <2>2. view.sequence # 0
    BY <1>2, LenProperties DEF ServerTyped
  <2> QED
    BY <1>2, <2>1, <2>2, WindowsAssumption DEF ServerTyped, Extent
<1>4. view \in [open : BOOLEAN, id : Nat, slots : Seq(Items), declared : Nat,
                decoded : Nat, trimmed : BOOLEAN, stateID : Nat, sequence : Nat]
  BY DEF ViewTyped
<1> HIDE DEF p, n
<1>5. CASE p.kind = "window_items"
  <2> DEFINE d == Decoded(p.items)
             f == Padded(d, Len(p.items))
  <2>1. p.items \in Seq(Items) /\ Len(p.items) = n
    BY <1>2, <1>3, <1>5, PacketFacts DEF Fits
  <2>2. d \in Seq(Items) /\ Len(d) \in 0..n
    BY <2>1, DecodedFacts
  <2>3. f \in Seq(Items) /\ Len(f) = n /\ (d = p.items => f = p.items)
    BY <1>3, <2>1, <2>2, PaddedFacts
  <2>4. view' = [view EXCEPT !.slots = f, !.declared = n, !.decoded = Len(d),
                             !.trimmed = d # p.items]
    BY <1>1, <1>5, <2>1 DEF ReplaceAll
  <2> HIDE DEF d, f
  <2>5. (d # p.items) \in BOOLEAN /\ Len(d) \in Nat
    BY <2>2
  <2>6. /\ view' \in [open : BOOLEAN, id : Nat, slots : Seq(Items), declared : Nat,
                      decoded : Nat, trimmed : BOOLEAN, stateID : Nat, sequence : Nat]
        /\ view'.sequence = view.sequence /\ view'.id = view.id /\ view'.open = view.open
        /\ view'.stateID = view.stateID /\ view'.slots = f /\ view'.declared = n
    BY <1>3, <1>4, <2>3, <2>4, <2>5
  <2>7. view'.trimmed <=> d # p.items
    BY <1>4, <2>4
  <2>8. f # <<>>
    BY <1>3, <2>3
  <2>9. ViewTyped'
    BY <1>1, <2>6 DEF ViewTyped
  <2>10. \A s \in 1..n : Sets(p, s) /\ (view'.trimmed \/ view'.slots[s] = ValueOf(p, s))
    BY <1>5, <2>3, <2>6, <2>7 DEF Sets, ValueOf
  <2> QED
    BY <1>5, <2>3, <2>6, <2>8, <2>9, <2>10 DEF p, n
<1>6. CASE p.kind = "set_slot"
  <2>1. p.slot \in 1..n /\ p.item \in Items
    BY <1>2, <1>3, <1>6, PacketFacts DEF Fits
  <2>2. view.slots # <<>> /\ Len(view.slots) = n /\ view.declared = n
    BY <1>1, <1>6 DEF ShapeInv, ShownInv, p, n
  <2>3. Padded(view.slots, p.slot) = view.slots
    BY <1>3, <1>4, <2>1, <2>2, PaddedFacts
  <2> DEFINE f == [view.slots EXCEPT ![p.slot] = p.item]
  <2>4. /\ f \in Seq(Items) /\ Len(f) = n
        /\ \A s \in 1..n : f[s] = IF s = p.slot THEN p.item ELSE view.slots[s]
    BY <1>4, <2>1, <2>2, ExceptSeq
  <2>5. view' = [view EXCEPT !.slots = f]
    BY <1>1, <1>6, <2>3 DEF SetSlot
  <2> HIDE DEF f
  <2>6. /\ view' \in [open : BOOLEAN, id : Nat, slots : Seq(Items), declared : Nat,
                      decoded : Nat, trimmed : BOOLEAN, stateID : Nat, sequence : Nat]
        /\ view'.sequence = view.sequence /\ view'.id = view.id /\ view'.open = view.open
        /\ view'.stateID = view.stateID /\ view'.slots = f /\ view'.declared = n
        /\ view'.trimmed = view.trimmed
    BY <1>4, <2>2, <2>4, <2>5
  <2>7. f # <<>>
    BY <1>3, <2>4
  <2>8. ViewTyped'
    BY <1>1, <2>6 DEF ViewTyped
  <2>9. \A s \in 1..n :
          IF Sets(p, s) THEN view'.slots[s] = ValueOf(p, s)
          ELSE view'.slots[s] = view.slots[s] /\ view'.trimmed = view.trimmed
    BY <1>6, <2>4, <2>6 DEF Sets, ValueOf
  <2> QED
    BY <2>2, <2>4, <2>6, <2>7, <2>8, <2>9 DEF p, n
<1> QED
  BY <1>2, <1>5, <1>6 DEF IsContent

LEMMA FillWindowCore ==
  ASSUME CoreInv, FillWindow
  PROVE  CoreInv'
<1> USE DEF CoreInv
<1> DEFINE p == reading.packet
<1>1. /\ reading.step = "window" /\ reading' = [reading EXCEPT !.step = "mirror"]
      /\ UNCHANGED <<menu, rows, stamp, lengths, down, inv, offers>>
  BY DEF FillWindow, server
<1>2. /\ p \in Packets /\ Fits(p, lengths) /\ reading # Nothing
      /\ p.kind \in {"window_items", "set_slot"}
      /\ reading \in [kind : Kinds, step : {"opened", "window", "mirror", "inventory"},
                      packet : Packets]
      /\ p.id = view.sequence /\ view.sequence \in 1..Len(lengths)
  BY <1>1, ReadingFacts DEF IsContent
<1>3. /\ ViewTyped' /\ view'.sequence = view.sequence /\ view'.id = view.id
      /\ view'.slots # <<>> /\ Len(view'.slots) = lengths[view.sequence]
      /\ view'.declared = Len(view'.slots)
      /\ p.kind = "set_slot" => view.slots # <<>>
  BY FillWindowView
<1>4. view.sequence # 0
  BY <1>2, LenProperties DEF ServerTyped
<1>5. /\ reading' \in [kind : Kinds, step : {"opened", "window", "mirror", "inventory"},
                       packet : Packets]
      /\ reading'.step = "mirror" /\ reading'.packet = p
  BY <1>1, <1>2
<1> HIDE DEF p
<1>6. ServerTyped' /\ DownTyped' /\ InvTyped' /\ Ordered'
  BY <1>1, <1>3 DEF ServerTyped, DownTyped, InvTyped, Ordered
<1>7. ReadingTyped'
  <2>1. p.kind # "open_window"
    BY <1>2
  <2> QED
    BY <1>1, <1>2, <1>3, <1>4, <1>5, <2>1 DEF ReadingTyped
<1>8. \A n, i : Filled(n) \/ Filling(n, i) => Filled(n)' \/ Filling(n, i)'
  <2> SUFFICES ASSUME NEW n, NEW i, Filled(n) \/ Filling(n, i)
               PROVE  Filled(n)' \/ Filling(n, i)'
    OBVIOUS
  <2>1. CASE n = view.sequence
    BY <1>3, <2>1 DEF Filled
  <2>2. CASE n # view.sequence
    BY <1>1, <1>2, <2>2 DEF Filled, Filling, p
  <2> QED
    BY <2>1, <2>2
<1>9. SetsComeAfter' /\ OpenIsFilled'
  BY <1>1, <1>8 DEF ShapeInv, SetsComeAfter, OpenIsFilled
<1>10. ShownInv'
  <2>1. offers \in {0, view.sequence}
    BY <1>1 DEF ShapeInv, ShownInv
  <2> QED
    BY <1>1, <1>3, <1>4, <1>5, <2>1 DEF ShownInv
<1> QED
  BY <1>3, <1>6, <1>7, <1>9, <1>10 DEF ShapeInv

\* What is being handled is done with, the inventory changes and no window does.
LEMMA DoneCore ==
  ASSUME CoreInv, reading.step # "window", InvTyped', reading' = Nothing,
         offers' = 0 \/ (offers' = offers /\ reading.step # "opened"),
         UNCHANGED <<menu, rows, stamp, lengths, down, view>>
  PROVE  CoreInv'
<1> USE DEF CoreInv
<1>1. ServerTyped' /\ DownTyped' /\ ViewTyped' /\ Ordered' /\ ReadingTyped'
  BY DEF ServerTyped, DownTyped, ViewTyped, Ordered, ReadingTyped
<1>2. \A n, i : Filled(n) \/ Filling(n, i) => Filled(n)' \/ Filling(n, i)'
  BY DEF Filled, Filling
<1>3. SetsComeAfter' /\ OpenIsFilled'
  BY <1>2 DEF ShapeInv, SetsComeAfter, OpenIsFilled
<1>4. ShownInv'
  <2>1. reading'.step = "rest"
    BY DEF Nothing
  <2> QED
    BY <2>1 DEF ShapeInv, ShownInv
<1> QED
  BY <1>1, <1>3, <1>4 DEF ShapeInv

\* What MirrorToInventory makes of a row.
LEMMA MirrorFacts ==
  ASSUME CoreInv, MirrorToInventory, NEW p, p = reading.packet
  PROVE  /\ InvTyped' /\ inv'.truncated = inv.truncated
         /\ \A r \in 1..Rows :
              IF Sets(p, r + Base(p))
              THEN inv'.slots[r] = ValueOf(p, r + Base(p))
                   \/ (p.kind = "window_items" /\ Decoded(p.items) # p.items)
              ELSE inv'.slots[r] = inv.slots[r]
<1> USE DEF CoreInv
<1> DEFINE own == ContainerOwnSlots(view)
           news == IF p.kind = "set_slot" THEN [s \in {p.slot} |-> p.item] ELSE Decoded(p.items)
           slots == [r \in 1..Rows |->
                      IF own > 0 /\ own + r \in DOMAIN news THEN news[own + r] ELSE inv.slots[r]]
<1>1. /\ reading.step = "mirror" /\ view' = view /\ lengths' = lengths
      /\ inv' = [inv EXCEPT !.slots = slots]
  BY DEF MirrorToInventory, server
<1>2. /\ p \in Packets /\ Fits(p, lengths) /\ p.kind \in {"window_items", "set_slot"}
      /\ p.id = view.sequence /\ view.sequence \in 1..Len(lengths)
  BY <1>1, ReadingFacts DEF IsContent
<1>3. /\ lengths[p.id] \in Nat /\ lengths[p.id] > Rows /\ Rows \in Nat /\ p.id # 0
      /\ Extent(p.id, lengths) = lengths[p.id]
  <2>1. lengths[p.id] \in Nat /\ Len(lengths) \in Nat
    BY <1>2, ElementOfSeq, LenProperties DEF ServerTyped
  <2> QED
    BY <1>2, <2>1, WindowsAssumption, SMTT(60) DEF ServerTyped, Extent
<1>4. own = Base(p) /\ Base(p) = lengths[p.id] - Rows
  <2>1. Len(view.slots) = lengths[p.id] /\ view.declared = lengths[p.id]
    BY <1>1, <1>2 DEF ShapeInv, ShownInv
  <2> QED
    BY <1>3, <2>1 DEF ContainerOwnSlots, Size, Base
<1> HIDE DEF own
<1>5. inv \in [slots : [1..Rows -> Items], truncated : BOOLEAN, stateID : Nat]
  BY DEF InvTyped
<1>6. CASE p.kind = "window_items"
  <2>1. p.items \in Seq(Items) /\ Len(p.items) = lengths[p.id]
    BY <1>2, <1>3, <1>6, PacketFacts DEF Fits
  <2> DEFINE d == Decoded(p.items)
  <2>2. d \in Seq(Items) /\ DOMAIN d = 1..Len(d) /\ \A i \in DOMAIN d : d[i] \in Items
    BY <2>1, DecodedFacts, LenProperties, ElementOfSeq
  <2>3. news = d
    BY <1>6
  <2> HIDE DEF news
  <2>4. slots \in [1..Rows -> Items]
    BY <1>5, <2>2, <2>3
  <2>5. ASSUME d = p.items
        PROVE  \A r \in 1..Rows : slots[r] = p.items[r + Base(p)]
    <3>1. \A r \in 1..Rows : own > 0 /\ own + r \in DOMAIN d
                             /\ own + r = r + Base(p)
      BY <1>3, <1>4, <2>1, <2>2, <2>5, SMTT(60)
    <3> HIDE DEF d
    <3> QED
      BY <2>3, <2>5, <3>1
  <2> HIDE DEF d, slots
  <2>6. InvTyped' /\ inv'.truncated = inv.truncated /\ inv'.slots = slots
    BY <1>1, <1>5, <2>4 DEF InvTyped
  <2>7. \A s : Sets(p, s) /\ ValueOf(p, s) = p.items[s]
    BY <1>6 DEF Sets, ValueOf
  <2>8. CASE d = p.items
    <3>1. \A r \in 1..Rows :
            Sets(p, r + Base(p)) /\ inv'.slots[r] = ValueOf(p, r + Base(p))
      BY <2>5, <2>6, <2>7, <2>8
    <3> QED
      BY <2>6, <3>1
  <2>9. CASE d # p.items
    BY <1>6, <2>6, <2>7, <2>9 DEF d
  <2> QED
    BY <2>8, <2>9
<1>7. CASE p.kind = "set_slot"
  <2>1. p.slot \in 1..lengths[p.id] /\ p.item \in Items
    BY <1>2, <1>3, <1>7, PacketFacts DEF Fits
  <2>2. DOMAIN news = {p.slot} /\ news[p.slot] = p.item
    BY <1>7
  <2> HIDE DEF news
  <2>3. slots \in [1..Rows -> Items]
    BY <1>5, <2>1, <2>2
  <2>4. \A r \in 1..Rows :
          slots[r] = IF r + Base(p) = p.slot THEN p.item ELSE inv.slots[r]
    BY <1>3, <1>4, <2>2
  <2> HIDE DEF slots
  <2>5. InvTyped' /\ inv'.truncated = inv.truncated /\ inv'.slots = slots
    BY <1>1, <1>5, <2>3 DEF InvTyped
  <2>6. \A s : (Sets(p, s) <=> s = p.slot) /\ ValueOf(p, s) = p.item
    BY <1>7 DEF Sets, ValueOf
  <2>7. \A r \in 1..Rows :
          IF Sets(p, r + Base(p)) THEN inv'.slots[r] = ValueOf(p, r + Base(p))
          ELSE inv'.slots[r] = inv.slots[r]
    BY <2>4, <2>5, <2>6
  <2> QED
    BY <2>5, <2>7
<1> QED
  BY <1>2, <1>6, <1>7

\* What FillInventory makes of a row.
LEMMA FillInventoryFacts ==
  ASSUME CoreInv, FillInventory
  PROVE  /\ InvTyped'
         /\ \A r \in 1..Rows :
              IF Sets(reading.packet, r)
              THEN inv'.truncated \/ inv'.slots[r] = ValueOf(reading.packet, r)
              ELSE inv'.slots[r] = inv.slots[r] /\ inv'.truncated = inv.truncated
<1> USE DEF CoreInv
<1> DEFINE p == reading.packet
<1>1. /\ reading.step = "inventory"
      /\ inv' = IF p.kind = "set_slot" THEN [inv EXCEPT !.slots[p.slot] = p.item]
                ELSE [inv EXCEPT !.slots = Padded(Decoded(p.items), Rows),
                                 !.truncated = Decoded(p.items) # p.items]
  BY DEF FillInventory
<1>2. /\ p \in Packets /\ Fits(p, lengths) /\ p.kind \in {"window_items", "set_slot"}
      /\ p.id = 0 /\ Extent(p.id, lengths) = Rows /\ Rows \in Nat
  BY <1>1, ReadingFacts, WindowsAssumption DEF IsContent, Extent
<1>3. inv \in [slots : [1..Rows -> Items], truncated : BOOLEAN, stateID : Nat]
  BY DEF InvTyped
<1> HIDE DEF p
<1>4. CASE p.kind = "window_items"
  <2> DEFINE d == Decoded(p.items)
             f == Padded(d, Rows)
  <2>1. p.items \in Seq(Items) /\ Len(p.items) = Rows
    BY <1>2, <1>4, PacketFacts DEF Fits
  <2>2. d \in Seq(Items) /\ Len(d) \in 0..Rows
    BY <2>1, DecodedFacts
  <2>3. f \in Seq(Items) /\ Len(f) = Rows /\ (d = p.items => f = p.items)
    BY <1>2, <2>1, <2>2, PaddedFacts
  <2>4. f \in [1..Rows -> Items]
    BY <2>3, LenProperties
  <2>5. inv' = [inv EXCEPT !.slots = f, !.truncated = d # p.items]
    BY <1>1, <1>4
  <2> HIDE DEF d, f
  <2>6. (d # p.items) \in BOOLEAN
    OBVIOUS
  <2>7. InvTyped' /\ inv'.slots = f /\ (inv'.truncated <=> d # p.items)
    BY <1>3, <2>4, <2>5, <2>6 DEF InvTyped
  <2>8. \A s : Sets(p, s) /\ ValueOf(p, s) = p.items[s]
    BY <1>4 DEF Sets, ValueOf
  <2> QED
    BY <2>3, <2>7, <2>8 DEF p
<1>5. CASE p.kind = "set_slot"
  <2>1. p.slot \in 1..Rows /\ p.item \in Items
    BY <1>2, <1>5, PacketFacts DEF Fits
  <2> DEFINE f == [inv.slots EXCEPT ![p.slot] = p.item]
  <2>2. f \in [1..Rows -> Items]
        /\ \A r \in 1..Rows : f[r] = IF r = p.slot THEN p.item ELSE inv.slots[r]
    BY <1>3, <2>1
  <2>3. inv' = [inv EXCEPT !.slots = f]
    BY <1>1, <1>5
  <2> HIDE DEF f
  <2>4. InvTyped' /\ inv'.slots = f /\ inv'.truncated = inv.truncated
    BY <1>3, <2>2, <2>3 DEF InvTyped
  <2>5. \A s : (Sets(p, s) <=> s = p.slot) /\ ValueOf(p, s) = p.item
    BY <1>5 DEF Sets, ValueOf
  <2> QED
    BY <2>2, <2>4, <2>5 DEF p
<1> QED
  BY <1>2, <1>4, <1>5

\* The client closes its window by itself.
LEMMA ClosesCore ==
  ASSUME CoreInv, Closes, UNCHANGED <<menu, rows, stamp, lengths, down, inv, offers, reading>>
  PROVE  CoreInv'
<1> USE DEF CoreInv
<1>1. /\ ViewTyped'
      /\ view'.sequence = view.sequence /\ view'.slots = view.slots
      /\ view'.declared = view.declared
      /\ \A n \in Nat : n # 0 /\ Filled(n) => Filled(n)'
  BY ClosesTyped
<1>2. ServerTyped' /\ DownTyped' /\ InvTyped' /\ ReadingTyped' /\ Ordered'
  BY <1>1 DEF ServerTyped, DownTyped, InvTyped, ReadingTyped, Ordered
<1>3. \A n, i : Filling(n, i) => Filling(n, i)'
  BY DEF Filling
<1>4. ShapeInv'
  BY <1>1, <1>3 DEF ShapeInv, ShownInv, SetsComeAfter, OpenIsFilled
<1> QED
  BY <1>1, <1>2, <1>4

\* GuessSwap writes two rows of the inventory.
LEMMA GuessFacts ==
  ASSUME InvTyped, ThreadsTyped, GuessSwap
  PROVE  /\ InvTyped' /\ my.slot \in 1..(Rows - 1) /\ inv'.truncated = inv.truncated
         /\ \A r \in 1..Rows : r # my.slot /\ r # Rows => inv'.slots[r] = inv.slots[r]
<1>1. my.slot \in 1..(Rows - 1) /\ my.slot \in 1..Rows /\ Rows \in 1..Rows
  BY WindowsAssumption DEF ThreadsTyped, GuessSwap, Goes
<1>2. inv \in [slots : [1..Rows -> Items], truncated : BOOLEAN, stateID : Nat]
  BY DEF InvTyped
<1> DEFINE f == [inv.slots EXCEPT ![Rows] = "a", ![my.slot] = "none"]
<1>3. inv' = [inv EXCEPT !.slots = f]
  BY <1>2 DEF GuessSwap
<1>4. /\ f \in [1..Rows -> Items]
      /\ \A r \in 1..Rows : r # my.slot /\ r # Rows => f[r] = inv.slots[r]
  BY <1>1, <1>2 DEF Items
<1> HIDE DEF f
<1>5. InvTyped' /\ inv'.slots = f /\ inv'.truncated = inv.truncated
  BY <1>2, <1>3, <1>4 DEF InvTyped
<1> QED
  BY <1>1, <1>4, <1>5

\* The steps of the two threads that leave both ends as they are.
Walks ==
  \/ ReadSequence \/ Ask \/ PollSequence \/ PollOpen \/ PollSize
  \/ TickerFires \/ RetryFires \/ DeadlinePasses
  \/ \E slot \in 1..(Rows + 2) : SeeItem(slot) \/ FindItem(slot)
  \/ ReadWindowID \/ WriteClick \/ WriteSwap
  \/ \E t \in Threads : ReadIDToClose(t) \/ WriteClose(t)

LEMMA WalksFrame ==
  ASSUME Walks
  PROVE  UNCHANGED <<menu, rows, stamp, lengths, changes, down, view, inv, offers, reading, races>>
<1> USE DEF Unread, server, copies
<1>1. CASE ReadSequence \/ Ask \/ PollSequence \/ PollOpen \/ PollSize
  BY <1>1 DEF ReadSequence, Ask, PollSequence, PollOpen, PollSize
<1>2. CASE TickerFires \/ RetryFires \/ DeadlinePasses
  BY <1>2 DEF TickerFires, RetryFires, DeadlinePasses
<1>3. CASE \E slot \in 1..(Rows + 2) : SeeItem(slot) \/ FindItem(slot)
  BY <1>3 DEF SeeItem, FindItem
<1>4. CASE ReadWindowID \/ WriteClick \/ WriteSwap
  BY <1>4 DEF ReadWindowID, WriteClick, WriteSwap
<1>5. CASE \E t \in Threads : ReadIDToClose(t) \/ WriteClose(t)
  BY <1>5 DEF ReadIDToClose, WriteClose
<1> QED
  BY <1>1, <1>2, <1>3, <1>4, <1>5 DEF Walks

\* What the server says without opening or forgetting a window, and the request it hears.
ServerTalks ==
  \/ ServerIsSilent \/ ServerSwaps \/ ServerResyncs
  \/ \E slot \in 1..(Rows + 2), item \in {"none", "a"} : ServerChanges(slot, item)
  \/ \E row \in 1..Rows : ServerMoves(row)

LEMMA TalksSpeaks ==
  ASSUME ServerTyped, DownTyped, UpTyped, ServerTalks
  PROVE  /\ ServerTyped'
         /\ \/ up' = up
            \/ Answered /\ Head(up).kind # "close"
         /\ \E ps : Speaks(ps) /\ (up' = up \/ SaysSwap(ps))
<1>1. CASE ServerIsSilent
  <2>1. /\ Answered /\ Head(up).kind = "use"
        /\ UNCHANGED <<menu, rows, stamp, lengths, down, copies, reading, at, my, closing, races>>
    BY <1>1 DEF ServerIsSilent, server
  <2>2. Speaks(<<>>)
    BY <2>1, SilenceSpeaks
  <2>3. ServerTyped'
    BY <2>1 DEF ServerTyped
  <2> QED
    BY <2>1, <2>2, <2>3 DEF SaysSwap
<1>2. CASE ServerSwaps
  BY <1>2, SwapsSpeaks DEF ServerSwaps, CanSwap
<1>3. CASE ServerResyncs
  BY <1>3, ResyncsSpeaks DEF ServerResyncs
<1>4. CASE \E slot \in 1..(Rows + 2), item \in {"none", "a"} : ServerChanges(slot, item)
  BY <1>4, ChangesSpeaks
<1>5. CASE \E row \in 1..Rows : ServerMoves(row)
  <2>1. PICK row \in 1..Rows : ServerMoves(row)
    BY <1>5
  <2>2. ServerTyped' /\ Head(up).kind = "click" /\ \E ps : Speaks(ps)
    BY <2>1, MovesSpeaks
  <2> QED
    BY <2>1, <2>2 DEF ServerMoves, SaysSwap
<1> QED
  BY <1>1, <1>2, <1>3, <1>4, <1>5 DEF ServerTalks

\* The server forgets the window it has open.
Forgets == ServerShuts \/ (ServerHearsClose /\ Head(up).id = menu.id)

LEMMA ForgetsFacts ==
  ASSUME Forgets
  PROVE  /\ menu' = [id |-> 0, own |-> <<>>]
         /\ UNCHANGED <<rows, stamp, lengths, view, inv, offers, reading, at, my, closing, races>>
         /\ \/ ServerShuts /\ up' = up /\ menu.id # 0
               /\ Tells(<<[kind |-> "close_window", id |-> menu.id]>>)
            \/ ServerHearsClose /\ Head(up).id = menu.id /\ down' = down
BY DEF Forgets, ServerShuts, ServerHearsClose, Shuts, copies

LEMMA CoreStep ==
  ASSUME CoreInv, ThreadInv, [Next]_vars
  PROVE  CoreInv'
<1>1. CASE \E stock \in Stocks : ServerOpens(stock)
  BY <1>1, OpensCore
<1>2. CASE ServerTalks
  <2>1. ServerTyped' /\ \E ps : Speaks(ps)
    BY <1>2, TalksSpeaks DEF CoreInv, ThreadInv
  <2> QED
    BY <2>1, SpeaksCore
<1>3. CASE Forgets
  BY <1>3, ForgetsFacts, ForgetsCore
<1>4. CASE ServerHearsClose /\ ~Forgets
  BY <1>4, StillCore DEF ServerHearsClose, Forgets, copies
<1>5. CASE TakeOpenWindow
  BY <1>5, TakeOpenWindowCore
<1>6. CASE ClearOffers
  <2>1. InvTyped'
    BY <1>6 DEF ClearOffers, CoreInv, InvTyped
  <2> QED
    BY <1>6, <2>1, DoneCore DEF ClearOffers, server
<1>7. CASE TakeTradeList
  BY <1>7, TakesCore DEF TakeTradeList, Reads, Closes, server
<1>8. CASE TakeCloseWindow
  BY <1>8, TakesCore DEF TakeCloseWindow, Reads, Closes, server
<1>9. CASE TakeContents("window_items") \/ TakeContents("set_slot")
  BY <1>9, TakeContentsCore
<1>10. CASE FillWindow
  BY <1>10, FillWindowCore
<1>11. CASE MirrorToInventory
  <2>1. InvTyped'
    BY <1>11, MirrorFacts
  <2> QED
    BY <1>11, <2>1, DoneCore DEF MirrorToInventory, server
<1>12. CASE FillInventory
  <2>1. InvTyped'
    BY <1>12, FillInventoryFacts
  <2> QED
    BY <1>12, <2>1, DoneCore DEF FillInventory, server
<1>13. CASE Walks
  BY <1>13, WalksFrame, StillCore
<1>14. CASE GuessSwap
  <2>1. InvTyped'
    BY <1>14, GuessFacts DEF CoreInv, ThreadInv
  <2>2. UNCHANGED <<menu, rows, stamp, lengths, down, view, offers, reading>>
    BY <1>14 DEF GuessSwap, server
  <2>3. ServerTyped' /\ DownTyped' /\ ViewTyped' /\ ReadingTyped' /\ Ordered'
    <3>1. ServerTyped' /\ DownTyped'
      BY <2>2 DEF CoreInv, ServerTyped, DownTyped
    <3>2. ViewTyped' /\ Ordered'
      BY <2>2 DEF CoreInv, ViewTyped, Ordered
    <3>3. ReadingTyped'
      BY <2>2 DEF CoreInv, ReadingTyped
    <3> QED
      BY <3>1, <3>2, <3>3
  <2>4. \A n, i : (Filled(n) <=> Filled(n)') /\ (Filling(n, i) <=> Filling(n, i)')
    BY <2>2 DEF Filled, Filling
  <2>5. ShapeInv'
    BY <2>2, <2>4 DEF CoreInv, ShapeInv, ShownInv, SetsComeAfter, OpenIsFilled
  <2> QED
    BY <2>1, <2>3, <2>5 DEF CoreInv
<1>15. CASE \E t \in Threads : MarkClosed(t)
  BY <1>15, ClosesCore DEF MarkClosed, Closes, server
<1>16. CASE UNCHANGED vars
  BY <1>16, StillCore DEF vars
<1> QED
  BY <1>1, <1>2, <1>3, <1>4, <1>5, <1>6, <1>7, <1>8, <1>9, <1>10, <1>11, <1>12, <1>13, <1>14,
     <1>15, <1>16
  DEF Next, Server, Reader, Opener, ServerTalks, Forgets, Walks

-----------------------------------------------------------------------------
(* ThreadInv.                                                              *)

LEMMA GoesFacts ==
  ASSUME at \in [Threads -> Points], NEW t \in Threads, NEW from, NEW to \in Points,
         Goes(t, from, to)
  PROVE  /\ at' \in [Threads -> Points] /\ at[t] = from /\ at'[t] = to
         /\ \A u \in Threads : u # t => at'[u] = at[u]
BY DEF Goes

\* OPENER goes on without having asked the view of anything it remembers.
LEMMA OpenerGoes ==
  ASSUME ThreadsTyped, NEW from, NEW to \in Points \ {"open", "size", "hold", "guess"},
         Goes("opener", from, to), my' \in [before : Nat, slot : Nat, id : Nat],
         closing' \in [Threads -> Nat]
  PROVE  ThreadsTyped'
<1>1. "opener" \in Threads
  BY DEF Threads
<1>2. at' \in [Threads -> Points] /\ at'["opener"] = to
  BY <1>1, GoesFacts DEF ThreadsTyped
<1> QED
  BY <1>2 DEF ThreadsTyped

\* The threads stay where they are, while the client opens one window or none.
LEMMA ThreadsStay ==
  ASSUME ThreadsTyped, view.sequence \in Nat,
         view'.sequence \in {view.sequence, view.sequence + 1},
         at' = at \/ (\E t \in Threads, to \in {"tell", "done", "shut"} :
                        at' = [at EXCEPT ![t] = to]),
         closing' \in [Threads -> Nat], my' = my
  PROVE  ThreadsTyped'
<1>1. at' \in [Threads -> Points] /\ at'["opener"] \in {at["opener"], "tell", "done", "shut"}
  BY DEF ThreadsTyped, Points, Threads
<1> QED
  BY <1>1 DEF ThreadsTyped

LEMMA WalksTyped ==
  ASSUME CoreInv, ThreadsTyped, Walks
  PROVE  ThreadsTyped'
<1>1. /\ view.sequence \in Nat /\ view.id \in Nat /\ view' = view
      /\ Idle \in [before : Nat, slot : Nat, id : Nat]
      /\ my \in [before : Nat, slot : Nat, id : Nat] /\ closing \in [Threads -> Nat]
      /\ "opener" \in Threads /\ at \in [Threads -> Points]
  BY WalksFrame DEF CoreInv, ViewTyped, Idle, ThreadsTyped, Threads
<1>2. CASE ReadSequence \/ Ask \/ TickerFires \/ RetryFires \/ DeadlinePasses
  <2>1. CASE ReadSequence
    <3>1. my' \in [before : Nat, slot : Nat, id : Nat]
      BY <1>1, <2>1 DEF ReadSequence
    <3> QED
      BY <1>1, <2>1, <3>1, OpenerGoes DEF ReadSequence, Points
  <2>2. CASE Ask
    BY <1>1, <2>2, OpenerGoes DEF Ask, Points
  <2>3. CASE TickerFires
    BY <1>1, <2>3, OpenerGoes DEF TickerFires, Points
  <2>4. CASE RetryFires
    <3>1. (IF view.sequence = my.before THEN "ask" ELSE "sequence")
            \in Points \ {"open", "size", "hold", "guess"}
      BY DEF Points
    <3> QED
      BY <1>1, <2>4, <3>1, OpenerGoes DEF RetryFires
  <2>5. CASE DeadlinePasses
    BY <1>1, <2>5, OpenerGoes DEF DeadlinePasses, Points
  <2> QED
    BY <1>2, <2>1, <2>2, <2>3, <2>4, <2>5
<1>3. CASE PollSequence
  <2>1. CASE view.sequence > my.before
    <3>1. at'["opener"] = "open" /\ at' \in [Threads -> Points] /\ my' = my /\ closing' = closing
      BY <1>1, <1>3, <2>1, GoesFacts DEF PollSequence, Points
    <3> QED
      BY <1>1, <2>1, <3>1 DEF ThreadsTyped
  <2>2. CASE ~(view.sequence > my.before)
    BY <1>1, <1>3, <2>2, OpenerGoes DEF PollSequence, Points
  <2> QED
    BY <2>1, <2>2
<1>4. CASE PollOpen
  <2>1. CASE view.open
    <3>1. at["opener"] = "open" /\ at'["opener"] = "size" /\ at' \in [Threads -> Points]
          /\ my' = my /\ closing' = closing
      BY <1>1, <1>4, <2>1, GoesFacts DEF PollOpen, Points
    <3> QED
      BY <1>1, <3>1 DEF ThreadsTyped
  <2>2. CASE ~view.open
    BY <1>1, <1>4, <2>2, OpenerGoes DEF PollOpen, Points
  <2> QED
    BY <2>1, <2>2
<1>5. CASE PollSize
  BY <1>1, <1>5, OpenerGoes DEF PollSize, Points
<1>6. CASE \E slot \in 1..(Rows + 2) : SeeItem(slot)
  <2>1. PICK slot \in 1..(Rows + 2) : SeeItem(slot)
    BY <1>6
  <2>2. my' \in [before : Nat, slot : Nat, id : Nat]
    <3>1. slot \in Nat /\ my' = [Idle EXCEPT !.slot = slot]
      BY <2>1, WindowsAssumption DEF SeeItem
    <3> QED
      BY <1>1, <3>1
  <2> QED
    BY <1>1, <2>1, <2>2, OpenerGoes DEF SeeItem, Points
<1>7. CASE \E slot \in 1..(Rows + 2) : FindItem(slot)
  <2>1. PICK slot \in 1..(Rows + 2) : FindItem(slot)
    BY <1>7
  <2>2. slot \in Nat /\ slot \in 1..(Rows - 1) /\ my' = [Idle EXCEPT !.slot = slot]
        /\ at' = [at EXCEPT !["opener"] = "hold"] /\ closing' = closing
    BY <2>1, WindowsAssumption DEF FindItem
  <2>3. my' \in [before : Nat, slot : Nat, id : Nat] /\ my'.slot = slot
    BY <1>1, <2>2
  <2>4. at' \in [Threads -> Points] /\ at'["opener"] = "hold"
    BY <1>1, <2>2 DEF Points
  <2> QED
    BY <1>1, <2>2, <2>3, <2>4 DEF ThreadsTyped
<1>8. CASE ReadWindowID
  <2>1. my' \in [before : Nat, slot : Nat, id : Nat]
    BY <1>1, <1>8 DEF ReadWindowID
  <2> QED
    BY <1>1, <1>8, <2>1, OpenerGoes DEF ReadWindowID, Points
<1>9. CASE WriteClick
  BY <1>1, <1>9, OpenerGoes DEF WriteClick, Points
<1>10. CASE WriteSwap
  <2>1. at["opener"] = "hold" /\ at'["opener"] = "guess" /\ at' \in [Threads -> Points]
        /\ my' = my /\ closing' = closing
    BY <1>1, <1>10, GoesFacts DEF WriteSwap, Points
  <2> QED
    BY <1>1, <2>1 DEF ThreadsTyped
<1>11. CASE \E t \in Threads : ReadIDToClose(t)
  <2>1. PICK t \in Threads : ReadIDToClose(t)
    BY <1>11
  <2>2. at' = [at EXCEPT ![t] = "shut"] /\ my' = my /\ closing' \in [Threads -> Nat]
    BY <1>1, <2>1 DEF ReadIDToClose, Goes
  <2> QED
    BY <1>1, <2>2, ThreadsStay
<1>12. CASE \E t \in Threads : WriteClose(t)
  <2>1. PICK t \in Threads : WriteClose(t)
    BY <1>12
  <2>2. my' = my /\ closing' \in [Threads -> Nat]
    BY <1>1, <2>1 DEF WriteClose
  <2>3. CASE t = "closer"
    BY <1>1, <2>1, <2>2, <2>3, ThreadsStay DEF WriteClose, Goes
  <2>4. CASE t = "opener"
    <3>1. Goes("opener", "tell", "rest")
      BY <2>1, <2>4 DEF WriteClose
    <3> QED
      BY <1>1, <2>2, <3>1, OpenerGoes DEF Points
  <2> QED
    BY <2>3, <2>4 DEF Threads
<1> QED
  BY <1>2, <1>3, <1>4, <1>5, <1>6, <1>7, <1>8, <1>9, <1>10, <1>11, <1>12 DEF Walks

\* The client's count of windows goes up by one at a time, and nobody moves meanwhile.
LEMMA ReaderTyped ==
  ASSUME CoreInv, ThreadsTyped, Reader
  PROVE  /\ ThreadsTyped' /\ up' = up /\ menu' = menu /\ rows' = rows /\ stamp' = stamp
         /\ lengths' = lengths /\ at' = at /\ my' = my /\ closing' = closing
<1>1. view.sequence \in Nat
  BY DEF CoreInv, ViewTyped
<1>2. /\ up' = up /\ at' = at /\ my' = my /\ closing' = closing
      /\ menu' = menu /\ rows' = rows /\ stamp' = stamp /\ lengths' = lengths
  BY DEF Reader, TakeOpenWindow, ClearOffers, TakeTradeList, TakeCloseWindow, TakeContents,
     FillWindow, MirrorToInventory, FillInventory, server
<1>3. view'.sequence \in {view.sequence, view.sequence + 1}
  <2>1. CASE TakeOpenWindow
    BY <2>1 DEF TakeOpenWindow, Open, CoreInv, ViewTyped
  <2>2. CASE TakeCloseWindow
    BY <2>2 DEF TakeCloseWindow, Close, CoreInv, ViewTyped
  <2>3. CASE TakeContents("window_items") \/ TakeContents("set_slot")
    BY <2>3 DEF TakeContents, CoreInv, ViewTyped
  <2>4. CASE FillWindow
    BY <2>4, FillWindowView
  <2>5. CASE ClearOffers \/ TakeTradeList \/ MirrorToInventory \/ FillInventory
    BY <2>5 DEF ClearOffers, TakeTradeList, MirrorToInventory, FillInventory
  <2> QED
    BY <2>1, <2>2, <2>3, <2>4, <2>5 DEF Reader
<1>4. closing' \in [Threads -> Nat]
  BY <1>2 DEF ThreadsTyped
<1> QED
  BY <1>1, <1>2, <1>3, <1>4, ThreadsStay


\* What the queue of requests may become.
UpSteps ==
  \/ up' = up
  \/ up # <<>> /\ up' = Tail(up)
  \/ \E r \in Requests : Sends(r) /\ (r.kind = "swap" => r.slot \in 1..(Rows - 1))

LEMMA UpStepsTyped ==
  ASSUME UpTyped, UpSteps
  PROVE  UpTyped'
<1>1. up \in Seq(Requests)
  BY DEF UpTyped
<1>2. CASE up' = up
  BY <1>2 DEF UpTyped
<1>3. CASE up # <<>> /\ up' = Tail(up)
  <2>1. /\ Tail(up) \in Seq(Requests) /\ Len(Tail(up)) = Len(up) - 1 /\ Len(up) \in Nat \ {0}
        /\ \A i \in 1..(Len(up) - 1) : Tail(up)[i] = up[i + 1]
    BY <1>1, <1>3, HeadTaken
  <2>2. \A i \in 1..(Len(up) - 1) : i + 1 \in 1..Len(up)
    BY <2>1
  <2> QED
    BY <1>3, <2>1, <2>2 DEF UpTyped
<1>4. CASE \E r \in Requests : Sends(r) /\ (r.kind = "swap" => r.slot \in 1..(Rows - 1))
  <2>1. PICK r \in Requests : Sends(r) /\ (r.kind = "swap" => r.slot \in 1..(Rows - 1))
    BY <1>4
  <2>2. /\ up' \in Seq(Requests) /\ Len(up') = Len(up) + 1 /\ Len(up) \in Nat
        /\ \A i \in 1..Len(up) : up'[i] = up[i]
        /\ up'[Len(up) + 1] = r
    BY <1>1, <2>1, Appended DEF Sends
  <2>3. \A i \in 1..Len(up') : i \in 1..Len(up) \/ i = Len(up) + 1
    BY <2>2
  <2> QED
    BY <2>1, <2>2, <2>3 DEF UpTyped
<1> QED
  BY <1>2, <1>3, <1>4 DEF UpSteps

\* The requests a thread makes.
Makes(r) ==
  \/ r = [kind |-> "use"] /\ Ask
  \/ r = [kind |-> "click", id |-> my.id, slot |-> my.slot, sid |-> view.stateID] /\ WriteClick
  \/ r = [kind |-> "swap", id |-> 0, slot |-> my.slot, sid |-> inv.stateID] /\ WriteSwap
  \/ \E t \in Threads : r = [kind |-> "close", id |-> closing[t]] /\ WriteClose(t)

LEMMA WalksMake ==
  ASSUME Walks
  PROVE  up' = up \/ \E r : Makes(r) /\ Sends(r)
<1>1. CASE Ask
  BY <1>1 DEF Ask, Makes
<1>2. CASE WriteClick
  BY <1>2 DEF WriteClick, Makes
<1>3. CASE WriteSwap
  BY <1>3 DEF WriteSwap, Makes
<1>4. CASE \E t \in Threads : WriteClose(t)
  BY <1>4 DEF WriteClose, Makes
<1>5. CASE ReadSequence \/ PollSequence \/ PollOpen \/ PollSize \/ TickerFires \/ RetryFires
             \/ DeadlinePasses \/ ReadWindowID
  BY <1>5 DEF ReadSequence, PollSequence, PollOpen, PollSize, TickerFires, RetryFires,
     DeadlinePasses, ReadWindowID
<1>6. CASE (\E slot \in 1..(Rows + 2) : SeeItem(slot) \/ FindItem(slot))
             \/ \E t \in Threads : ReadIDToClose(t)
  BY <1>6 DEF SeeItem, FindItem, ReadIDToClose
<1> QED
  BY <1>1, <1>2, <1>3, <1>4, <1>5, <1>6 DEF Walks

LEMMA MadeRequests ==
  ASSUME CoreInv, ThreadsTyped, NEW r, Makes(r)
  PROVE  /\ r \in Requests
         /\ r.kind = "swap" => r.slot = my.slot /\ r.slot \in 1..(Rows - 1) /\ WriteSwap
         /\ r.kind = "close" => \E t \in Threads : r.id = closing[t] /\ WriteClose(t)
<1>1. /\ my \in [before : Nat, slot : Nat, id : Nat] /\ view.stateID \in Nat
      /\ inv.stateID \in Nat /\ closing \in [Threads -> Nat]
  BY DEF CoreInv, ViewTyped, InvTyped, ThreadsTyped
<1>2. CASE r = [kind |-> "use"] /\ Ask
  BY <1>2 DEF Requests
<1>3. CASE r = [kind |-> "click", id |-> my.id, slot |-> my.slot, sid |-> view.stateID]
           /\ WriteClick
  BY <1>1, <1>3 DEF Requests
<1>4. CASE r = [kind |-> "swap", id |-> 0, slot |-> my.slot, sid |-> inv.stateID] /\ WriteSwap
  <2>1. my.slot \in 1..(Rows - 1)
    BY <1>4 DEF WriteSwap, Goes, ThreadsTyped
  <2> QED
    BY <1>1, <1>4, <2>1 DEF Requests
<1>5. CASE \E t \in Threads : r = [kind |-> "close", id |-> closing[t]] /\ WriteClose(t)
  BY <1>1, <1>5 DEF Requests
<1> QED
  BY <1>2, <1>3, <1>4, <1>5 DEF Makes

LEMMA ThreadStep ==
  ASSUME CoreInv, ThreadInv, [Next]_vars
  PROVE  ThreadInv'
<1>1. UpTyped /\ ThreadsTyped /\ view.sequence \in Nat
      /\ my \in [before : Nat, slot : Nat, id : Nat] /\ closing \in [Threads -> Nat]
      /\ Idle \in [before : Nat, slot : Nat, id : Nat]
  BY DEF ThreadInv, CoreInv, ViewTyped, ThreadsTyped, Idle
<1>2. CASE Server
  <2>1. /\ UNCHANGED <<view, at, my, closing>> /\ (up' = up \/ Answered)
    BY <1>2 DEF Server, ServerOpens, ServerIsSilent, ServerShuts, ServerHearsClose, ServerChanges,
       ServerMoves, ServerSwaps, ServerResyncs, copies
  <2>2. ThreadsTyped'
    BY <1>1, <2>1 DEF ThreadsTyped
  <2>3. UpTyped'
    BY <1>1, <2>1, UpStepsTyped DEF UpSteps, Answered
  <2> QED
    BY <2>2, <2>3 DEF ThreadInv
<1>3. CASE Reader
  BY <1>1, <1>3, ReaderTyped, UpStepsTyped DEF UpSteps, ThreadInv
<1>4. CASE Walks
  <2>1. ThreadsTyped'
    BY <1>1, <1>4, WalksTyped
  <2>2. UpTyped'
    <3>1. CASE up' = up
      BY <1>1, <3>1, UpStepsTyped DEF UpSteps
    <3>2. CASE \E r : Makes(r) /\ Sends(r)
      BY <1>1, <3>2, MadeRequests, UpStepsTyped DEF UpSteps
    <3> QED
      BY <1>4, <3>1, <3>2, WalksMake
  <2> QED
    BY <2>1, <2>2 DEF ThreadInv
<1>5. CASE GuessSwap
  <2>1. Goes("opener", "guess", "rest") /\ my' = Idle /\ UNCHANGED <<up, view, closing>>
    BY <1>5 DEF GuessSwap
  <2>2. ThreadsTyped'
    BY <1>1, <2>1, OpenerGoes DEF Points
  <2> QED
    BY <1>1, <2>1, <2>2, UpStepsTyped DEF UpSteps, ThreadInv
<1>6. CASE \E t \in Threads : MarkClosed(t)
  <2>1. PICK t \in Threads : MarkClosed(t)
    BY <1>6
  <2>2. at' = [at EXCEPT ![t] = "tell"] /\ UNCHANGED <<up, my, closing>>
    BY <2>1 DEF MarkClosed, Goes
  <2>3. view'.sequence = view.sequence
    BY <2>1 DEF MarkClosed, Close, CoreInv, ViewTyped
  <2>4. ThreadsTyped'
    BY <1>1, <2>2, <2>3, ThreadsStay
  <2> QED
    BY <1>1, <2>2, <2>4, UpStepsTyped DEF UpSteps, ThreadInv
<1>7. CASE UNCHANGED vars
  BY <1>7 DEF vars, ThreadInv, UpTyped, ThreadsTyped
<1> QED
  BY <1>2, <1>3, <1>4, <1>5, <1>6, <1>7 DEF Next, Opener, Walks

-----------------------------------------------------------------------------
(* IdInv.                                                                  *)

\* Two queues hold the same packets of some kinds.
SameNews(q, r, kinds) ==
  /\ \A i \in 1..Len(q) : q[i].kind \in kinds => \E j \in 1..Len(r) : r[j] = q[i]
  /\ \A j \in 1..Len(r) : r[j].kind \in kinds => \E i \in 1..Len(q) : q[i] = r[j]

LEMMA TailNews ==
  ASSUME NEW S, NEW q \in Seq(S), q # <<>>, NEW kinds, Head(q).kind \notin kinds
  PROVE  SameNews(Tail(q), q, kinds)
<1>1. /\ Len(Tail(q)) = Len(q) - 1 /\ Len(q) \in Nat \ {0} /\ Head(q) = q[1]
      /\ \A i \in 1..(Len(q) - 1) : Tail(q)[i] = q[i + 1]
  BY HeadTaken
<1>2. \A i \in 1..(Len(q) - 1) : i + 1 \in 1..Len(q)
  BY <1>1
<1>3. \A j \in 1..Len(q) : j # 1 => j - 1 \in 1..(Len(q) - 1) /\ Tail(q)[j - 1] = q[j]
  BY <1>1
<1> QED
  BY <1>1, <1>2, <1>3 DEF SameNews

LEMMA AppendNews ==
  ASSUME NEW S, NEW q \in Seq(S), NEW e \in S, NEW kinds, e.kind \notin kinds
  PROVE  SameNews(Append(q, e), q, kinds)
<1>1. /\ Len(Append(q, e)) = Len(q) + 1 /\ Len(q) \in Nat
      /\ \A i \in 1..Len(q) : Append(q, e)[i] = q[i]
      /\ Append(q, e)[Len(q) + 1] = e
  BY Appended
<1>2. \A i \in 1..(Len(q) + 1) : i \in 1..Len(q) \/ i = Len(q) + 1
  BY <1>1
<1>3. \A i \in 1..Len(q) : i \in 1..(Len(q) + 1)
  BY <1>1
<1> QED
  BY <1>1, <1>2, <1>3 DEF SameNews

LEMMA ToldNews ==
  ASSUME NEW S, NEW q \in Seq(S), NEW t \in Seq(S), NEW kinds,
         \A k \in 1..Len(t) : t[k].kind \notin kinds
  PROVE  SameNews(q \o t, q, kinds)
<1>1. /\ Len(q \o t) = Len(q) + Len(t) /\ Len(q) \in Nat /\ Len(t) \in Nat
      /\ \A i \in 1..Len(q) : (q \o t)[i] = q[i]
      /\ \A i \in 1..(Len(q) + Len(t)) : i > Len(q) =>
           i - Len(q) \in 1..Len(t) /\ (q \o t)[i] = t[i - Len(q)]
  BY Told
<1>2. \A i \in 1..(Len(q) + Len(t)) : i \in 1..Len(q) \/ i > Len(q)
  BY <1>1
<1>3. \A i \in 1..Len(q) : i \in 1..(Len(q) + Len(t))
  BY <1>1
<1> QED
  BY <1>1, <1>2, <1>3 DEF SameNews

LEMMA SelfNews ==
  ASSUME NEW q, NEW kinds
  PROVE  SameNews(q, q, kinds)
BY DEF SameNews

News == {"open_window", "close_window"}

\* A step that opens and closes nothing.
LEMMA IdFrame ==
  ASSUME IdInv, menu'.id = menu.id, view'.id = view.id, view'.sequence = view.sequence,
         lengths' = lengths, closing' = closing,
         \A t \in Threads : /\ at'[t] = "shut" => at[t] = "shut"
                            /\ at'[t] = "tell" <=> at[t] = "tell",
         "crossed" \notin races' => "crossed" \notin races,
         SameNews(up', up, {"close"}), SameNews(down', down, News)
  PROVE  IdInv'
<1>1. \A i \in 1..Len(up') : up'[i].kind = "close" =>
        \E j \in 1..Len(up) : up[j] = up'[i]
  BY DEF SameNews
<1>2. \A j \in 1..Len(up) : up[j].kind = "close" =>
        \E i \in 1..Len(up') : up'[i] = up[j]
  BY DEF SameNews
<1>3. \A i \in 1..Len(down') : down'[i].kind \in News =>
        \E j \in 1..Len(down) : down[j] = down'[i]
  BY DEF SameNews
<1>4. \A j \in 1..Len(down) : down[j].kind \in News =>
        \E i \in 1..Len(down') : down'[i] = down[j]
  BY DEF SameNews
<1>5. (\A t \in Threads :
         /\ at[t] = "shut" => closing[t] \in 1..view.sequence
         /\ at[t] = "tell" => closing[t] \in (1..view.sequence) \ {view.id})'
  BY DEF IdInv
<1>6. (\A i \in 1..Len(up) : up[i].kind = "close" => up[i].id \in (1..view.sequence) \ {view.id})'
  BY <1>1 DEF IdInv
<1>7. (\A i \in 1..Len(down) : down[i].kind = "close_window" => down[i].id # menu.id)'
  BY <1>3 DEF IdInv, News
<1>8. (menu.id # 0 /\ view.sequence = menu.id /\ view.id = 0 /\ "crossed" \notin races =>
       \/ \E t \in Threads : at[t] = "tell" /\ closing[t] = menu.id
       \/ \E i \in 1..Len(up) : up[i].kind = "close" /\ up[i].id = menu.id)'
  BY <1>2 DEF IdInv
<1>9. (menu.id = 0 /\ lengths # <<>>
     /\ (view.id = Len(lengths) \/ \E i \in 1..Len(down) :
           down[i].kind = "open_window" /\ down[i].id = Len(lengths)) =>
       \E i \in 1..Len(down) : down[i].kind = "close_window" /\ down[i].id = Len(lengths))'
  BY <1>3, <1>4 DEF IdInv, News
<1> QED
  BY <1>5, <1>6, <1>7, <1>8, <1>9 DEF IdInv

\* The server opens a window: nothing yet tells of its closing.
LEMMA OpensId ==
  ASSUME CoreInv, UpTyped, IdInv, NEW stock \in Stocks, ServerOpens(stock)
  PROVE  IdInv'
<1>1. ServerTyped /\ DownTyped /\ ViewTyped
  BY DEF CoreInv
<1>2. menu'.id = Len(lengths) + 1 /\ Len(lengths) \in Nat /\ \E b : OpensAt(b)
  BY <1>1, OpensTells
<1>3. PICK b : OpensAt(b)
  BY <1>2
<1>4. \A i \in 1..Len(down') : Placed(b, i)
  BY <1>1, <1>3, OpensPlaces
<1>5. \A i \in 1..Len(down) : down[i].id \in Nat /\ down[i].id <= Len(lengths)
  BY <1>1, DownFacts
<1>6. UNCHANGED <<view, at, closing>> /\ up # <<>> /\ up' = Tail(up) /\ Head(up).kind = "use"
  BY DEF ServerOpens, Answered, copies
<1>7. SameNews(up', up, {"close"})
  BY <1>6, TailNews DEF UpTyped
<1>8. view.sequence \in Nat /\ view.sequence <= Len(lengths)
  BY <1>1, <1>2 DEF ViewTyped
<1>9. \A i \in 1..Len(down') : down'[i].kind = "close_window" => down'[i].id # menu'.id
  BY <1>2, <1>4, <1>5 DEF Placed
<1>10. view'.sequence # menu'.id /\ menu'.id # 0
  BY <1>2, <1>6, <1>8
<1> QED
  BY <1>6, <1>7, <1>9, <1>10 DEF IdInv, SameNews

\* The server forgets its window, and the client does not have it, or will hear of it.
LEMMA ForgetsId ==
  ASSUME CoreInv, UpTyped, IdInv, Forgets
  PROVE  IdInv'
<1>1. /\ menu' = [id |-> 0, own |-> <<>>] /\ UNCHANGED <<lengths, view, at, closing, races>>
  BY ForgetsFacts
<1>2. /\ Len(lengths) \in Nat /\ menu.id \in {0, Len(lengths)} /\ menu.id \in Nat
      /\ view.sequence \in 0..Len(lengths) /\ DownTyped
      /\ \A i \in 1..Len(down) : down[i].kind = "open_window" => down[i].id > view.sequence
  BY DEF CoreInv, ServerTyped, ViewTyped, Ordered
<1>3. CASE ServerShuts /\ up' = up /\ menu.id # 0
           /\ Tells(<<[kind |-> "close_window", id |-> menu.id]>>)
  <2> DEFINE p == [kind |-> "close_window", id |-> menu.id]
  <2>1. p \in Packets /\ p.kind = "close_window" /\ p.id = menu.id
    BY <1>2 DEF Packets
  <2> HIDE DEF p
  <2>2. down' = down \o <<p>> /\ down \in Seq(Packets)
    BY <1>2, <1>3 DEF Tells, p, CoreInv, DownTyped
  <2>4. /\ Len(down') = Len(down) + 1 /\ Len(down) \in Nat
        /\ \A i \in 1..Len(down) : down'[i] = down[i]
        /\ down'[Len(down) + 1] = p
    BY <2>1, <2>2, ToldOne
  <2>5. \A i \in 1..Len(down') : i \in 1..Len(down) \/ i = Len(down) + 1
    BY <2>4
  <2>6. \A i \in 1..Len(down') : down'[i].kind = "close_window" => down'[i].id # menu'.id
    BY <1>1, <1>2, <1>3, <2>1, <2>4, <2>5 DEF DownTyped, Fits
  <2>7. \E i \in 1..Len(down') : down'[i].kind = "close_window" /\ down'[i].id = Len(lengths')
    BY <1>1, <1>2, <1>3, <2>1, <2>4
  <2> QED
    BY <1>1, <1>3, <2>6, <2>7 DEF IdInv
<1>4. CASE ServerHearsClose /\ Head(up).id = menu.id /\ down' = down
  <2>1. up # <<>> /\ up' = Tail(up) /\ Head(up).kind = "close"
    BY <1>4 DEF ServerHearsClose, Answered
  <2>2. /\ Len(Tail(up)) = Len(up) - 1 /\ Len(up) \in Nat \ {0} /\ Head(up) = up[1]
        /\ \A i \in 1..(Len(up) - 1) : Tail(up)[i] = up[i + 1] /\ i + 1 \in 1..Len(up)
    BY <2>1, HeadTaken DEF UpTyped
  <2>3. menu.id \in (1..view.sequence) \ {view.id}
    BY <1>4, <2>1, <2>2 DEF IdInv
  <2>4. view.sequence = Len(lengths) /\ view.id # Len(lengths)
    BY <1>2, <2>3
  <2>5. \A i \in 1..Len(up') : up'[i].kind = "close" => up'[i].id \in (1..view.sequence) \ {view.id}
    BY <2>1, <2>2 DEF IdInv
  <2>6. \A i \in 1..Len(down') : down'[i].kind = "close_window" => down'[i].id # menu'.id
    BY <1>1, <1>2, <1>4 DEF DownTyped, Fits
  <2>7. /\ view'.id # Len(lengths')
        /\ \A i \in 1..Len(down') : ~(down'[i].kind = "open_window" /\ down'[i].id = Len(lengths'))
    BY <1>1, <1>2, <1>4, <2>4
  <2> QED
    BY <1>1, <2>5, <2>6, <2>7 DEF IdInv
<1> QED
  BY <1>3, <1>4, ForgetsFacts

\* The server hears of the closing of a window it does not have open.
LEMMA IgnoresId ==
  ASSUME UpTyped, IdInv, ServerHearsClose, ~Forgets
  PROVE  IdInv'
<1>1. /\ Head(up).id # menu.id /\ menu' = menu
      /\ UNCHANGED <<lengths, down, view, at, closing, races>>
      /\ up # <<>> /\ up' = Tail(up) /\ Head(up).kind = "close"
  BY DEF ServerHearsClose, Forgets, copies, Answered
<1>2. /\ Len(Tail(up)) = Len(up) - 1 /\ Len(up) \in Nat \ {0} /\ Head(up) = up[1]
      /\ \A i \in 1..(Len(up) - 1) : Tail(up)[i] = up[i + 1] /\ i + 1 \in 1..Len(up)
  BY <1>1, HeadTaken DEF UpTyped
<1>3. \A i \in 1..Len(up') : up'[i].kind = "close" => up'[i].id \in (1..view.sequence) \ {view.id}
  BY <1>1, <1>2 DEF IdInv
<1>4. \A j \in 1..Len(up) : up[j].id = menu.id => j - 1 \in 1..Len(up') /\ up'[j - 1] = up[j]
  <2>1. \A j \in 1..Len(up) : j # 1 => j - 1 \in 1..(Len(up) - 1) /\ (j - 1) + 1 = j
    BY <1>2
  <2>2. \A j \in 1..Len(up) : j # 1 => Tail(up)[j - 1] = up[j]
    BY <1>2, <2>1
  <2> QED
    BY <1>1, <1>2, <2>1, <2>2
<1>5. (\E i \in 1..Len(up) : up[i].kind = "close" /\ up[i].id = menu.id) =>
        \E i \in 1..Len(up') : up'[i].kind = "close" /\ up'[i].id = menu'.id
  BY <1>1, <1>4
<1> QED
  BY <1>1, <1>3, <1>5 DEF IdInv

\* The client opens a window that nobody has closed yet.
LEMMA TakeOpenWindowId ==
  ASSUME CoreInv, IdInv, TakeOpenWindow
  PROVE  IdInv'
<1>1. /\ down # <<>> /\ down' = Tail(down) /\ Head(down).kind = "open_window"
      /\ UNCHANGED <<menu, lengths, up, at, closing, races>>
      /\ view' = Open(view, Head(down).id)
  BY DEF TakeOpenWindow, Reads, server
<1>2. /\ Len(down) \in Nat \ {0} /\ Len(Tail(down)) = Len(down) - 1
      /\ \A i \in 1..(Len(down) - 1) : i + 1 \in 1..Len(down) /\ Tail(down)[i] = down[i + 1]
      /\ Head(down) = down[1] /\ Head(down).id = view.sequence + 1
  BY <1>1, HeadFacts
<1>3. view'.id = view.sequence + 1 /\ view'.sequence = view.sequence + 1 /\ view.sequence \in Nat
  BY <1>1, <1>2 DEF Open, CoreInv, ViewTyped
<1>4. (1..view.sequence) \ {view.id} \subseteq (1..view'.sequence) \ {view'.id}
      /\ 1..view.sequence \subseteq 1..view'.sequence
  BY <1>3
<1>5. \A j \in 1..Len(down) : j # 1 => j - 1 \in 1..Len(down') /\ down'[j - 1] = down[j]
  <2>1. \A j \in 1..Len(down) : j # 1 => j - 1 \in 1..(Len(down) - 1) /\ (j - 1) + 1 = j
    BY <1>2
  <2>2. \A j \in 1..Len(down) : j # 1 => Tail(down)[j - 1] = down[j]
    BY <1>2, <2>1
  <2> QED
    BY <1>1, <1>2, <2>1, <2>2
<1>6. menu.id = 0 /\ lengths # <<>>
      /\ (view'.id = Len(lengths) \/ \E i \in 1..Len(down') :
            down'[i].kind = "open_window" /\ down'[i].id = Len(lengths)) =>
        \E i \in 1..Len(down') : down'[i].kind = "close_window" /\ down'[i].id = Len(lengths)
  <2> SUFFICES ASSUME menu.id = 0, lengths # <<>>,
                      view'.id = Len(lengths) \/ \E i \in 1..Len(down') :
                        down'[i].kind = "open_window" /\ down'[i].id = Len(lengths)
               PROVE  \E i \in 1..Len(down') :
                        down'[i].kind = "close_window" /\ down'[i].id = Len(lengths)
    OBVIOUS
  <2>1. \E i \in 1..Len(down) : down[i].kind = "open_window" /\ down[i].id = Len(lengths)
    BY <1>1, <1>2, <1>3
  <2>2. PICK j \in 1..Len(down) : down[j].kind = "close_window" /\ down[j].id = Len(lengths)
    BY <2>1 DEF IdInv
  <2>3. j # 1
    BY <1>1, <1>2, <2>2
  <2> QED
    BY <1>5, <2>2, <2>3
<1>7. \A i \in 1..Len(down') : down'[i].kind = "close_window" => down'[i].id # menu'.id
  BY <1>1, <1>2 DEF IdInv
<1> QED
  BY <1>1, <1>3, <1>4, <1>6, <1>7 DEF IdInv

\* The client hears that its window is closed.
LEMMA TakeCloseWindowId ==
  ASSUME CoreInv, IdInv, TakeCloseWindow
  PROVE  IdInv'
<1>1. /\ down # <<>> /\ down' = Tail(down) /\ Head(down).kind = "close_window"
      /\ UNCHANGED <<menu, lengths, up, at, closing, races>>
      /\ view' = IF Matches(Head(down).id) THEN Close(view) ELSE view
  BY DEF TakeCloseWindow, Reads, server
<1>2. /\ Len(down) \in Nat \ {0} /\ Len(Tail(down)) = Len(down) - 1
      /\ \A i \in 1..(Len(down) - 1) : i + 1 \in 1..Len(down) /\ Tail(down)[i] = down[i + 1]
      /\ Head(down) = down[1] /\ Head(down).id # 0 => Head(down).id = view.sequence
      /\ Fits(Head(down), lengths)
  BY <1>1, HeadFacts
<1>3. Head(down).id = view.sequence /\ Head(down).id # menu.id
  BY <1>1, <1>2 DEF Fits, IdInv
<1>4. /\ view'.sequence = view.sequence /\ view'.id \in {0, view.id} /\ view.id \in Nat
      /\ view.id \in {0, view.sequence} /\ view.sequence \in Nat
      /\ view'.id # 0 => view.id # view.sequence
  BY <1>1, <1>3 DEF Close, CoreInv, ViewTyped, Matches
<1>5. (1..view.sequence) \ {view.id} \subseteq (1..view'.sequence) \ {view'.id}
  BY <1>4
<1>6. \A j \in 1..Len(down) : j # 1 => j - 1 \in 1..Len(down') /\ down'[j - 1] = down[j]
  <2>1. \A j \in 1..Len(down) : j # 1 => j - 1 \in 1..(Len(down) - 1) /\ (j - 1) + 1 = j
    BY <1>2
  <2>2. \A j \in 1..Len(down) : j # 1 => Tail(down)[j - 1] = down[j]
    BY <1>2, <2>1
  <2> QED
    BY <1>1, <1>2, <2>1, <2>2
<1>7. menu.id = 0 /\ lengths # <<>>
      /\ (view'.id = Len(lengths) \/ \E i \in 1..Len(down') :
            down'[i].kind = "open_window" /\ down'[i].id = Len(lengths)) =>
        \E i \in 1..Len(down') : down'[i].kind = "close_window" /\ down'[i].id = Len(lengths)
  <2> SUFFICES ASSUME menu.id = 0, lengths # <<>>,
                      view'.id = Len(lengths) \/ \E i \in 1..Len(down') :
                        down'[i].kind = "open_window" /\ down'[i].id = Len(lengths)
               PROVE  \E i \in 1..Len(down') :
                        down'[i].kind = "close_window" /\ down'[i].id = Len(lengths)
    OBVIOUS
  <2>1. Len(lengths) # 0
    BY DEF CoreInv, ServerTyped
  <2>2. view'.id # Len(lengths)
    BY <1>4, <2>1
  <2>3. PICK i \in 1..Len(down) : down[i].kind = "open_window" /\ down[i].id = Len(lengths)
    BY <1>1, <1>2, <2>2
  <2>4. Len(lengths) > view.sequence
    BY <2>3 DEF CoreInv, Ordered
  <2>5. PICK j \in 1..Len(down) : down[j].kind = "close_window" /\ down[j].id = Len(lengths)
    BY <2>3 DEF IdInv
  <2>6. j # 1
    BY <1>2, <1>3, <1>4, <2>4, <2>5
  <2> QED
    BY <1>6, <2>5, <2>6
<1>8. \A i \in 1..Len(down') : down'[i].kind = "close_window" => down'[i].id # menu'.id
  BY <1>1, <1>2 DEF IdInv
<1>9. menu'.id # view'.sequence
  BY <1>1, <1>3, <1>4
<1> QED
  BY <1>1, <1>4, <1>5, <1>7, <1>8, <1>9 DEF IdInv

\* The client closes a window, and then tells the server of it.
LEMMA ReadIDToCloseId ==
  ASSUME CoreInv, ThreadsTyped, IdInv, NEW t \in Threads, ReadIDToClose(t)
  PROVE  IdInv'
<1>1. /\ UNCHANGED <<menu, lengths, up, down, view, races>>
      /\ at[t] # "tell" /\ at' = [at EXCEPT ![t] = "shut"]
      /\ closing' = [closing EXCEPT ![t] = view.id] /\ view.id # 0
  BY DEF ReadIDToClose, Goes, Unread, server, copies
<1>2. view.id \in 1..view.sequence
  BY <1>1 DEF CoreInv, ViewTyped
<1>3. /\ at'[t] = "shut" /\ closing'[t] = view.id
      /\ \A u \in Threads : u # t => at'[u] = at[u] /\ closing'[u] = closing[u]
  BY <1>1 DEF ThreadsTyped
<1> QED
  BY <1>1, <1>2, <1>3 DEF IdInv

LEMMA MarkClosedId ==
  ASSUME CoreInv, ThreadsTyped, IdInv, NEW t \in Threads, MarkClosed(t)
  PROVE  IdInv'
<1>1. /\ UNCHANGED <<menu, lengths, up, down, closing>> /\ view' = Close(view)
      /\ at[t] = "shut" /\ at' = [at EXCEPT ![t] = "tell"]
      /\ races' = IF view.id \in {0, closing[t]} THEN races ELSE races \cup {"crossed"}
  BY DEF MarkClosed, Goes, server
<1>2. /\ view'.id = 0 /\ view'.sequence = view.sequence /\ view.sequence \in Nat
      /\ view.id \in {0, view.sequence}
  BY <1>1 DEF Close, CoreInv, ViewTyped
<1>3. /\ at'[t] = "tell" /\ \A u \in Threads : u # t => at'[u] = at[u]
  BY <1>1 DEF ThreadsTyped
<1>4. (1..view.sequence) \subseteq (1..view'.sequence) \ {view'.id}
  BY <1>2
<1>5. menu.id # 0 /\ view.sequence = menu.id /\ "crossed" \notin races' =>
        \/ \E u \in Threads : at'[u] = "tell" /\ closing[u] = menu.id
        \/ \E i \in 1..Len(up) : up[i].kind = "close" /\ up[i].id = menu.id
  <2> SUFFICES ASSUME menu.id # 0, view.sequence = menu.id, "crossed" \notin races'
               PROVE  \/ \E u \in Threads : at'[u] = "tell" /\ closing[u] = menu.id
                      \/ \E i \in 1..Len(up) : up[i].kind = "close" /\ up[i].id = menu.id
    OBVIOUS
  <2>1. view.id \in {0, closing[t]} /\ "crossed" \notin races
    BY <1>1
  <2>2. CASE view.id = 0
    BY <1>1, <1>3, <2>1, <2>2 DEF IdInv
  <2>3. CASE view.id # 0
    BY <1>2, <1>3, <2>1, <2>3
  <2> QED
    BY <2>2, <2>3
<1>6. menu.id = 0 /\ lengths # <<>>
      /\ (view'.id = Len(lengths) \/ \E i \in 1..Len(down) :
            down[i].kind = "open_window" /\ down[i].id = Len(lengths)) =>
        \E i \in 1..Len(down) : down[i].kind = "close_window" /\ down[i].id = Len(lengths)
  <2>1. lengths # <<>> => Len(lengths) # 0
    BY DEF CoreInv, ServerTyped
  <2> QED
    BY <1>2, <2>1 DEF IdInv
<1> QED
  BY <1>1, <1>2, <1>3, <1>4, <1>5, <1>6 DEF IdInv

LEMMA WriteCloseId ==
  ASSUME CoreInv, UpTyped, ThreadsTyped, IdInv, NEW t \in Threads, WriteClose(t)
  PROVE  IdInv'
<1> DEFINE r == [kind |-> "close", id |-> closing[t]]
<1>1. /\ UNCHANGED <<menu, lengths, down, view, races>>
      /\ at[t] = "tell" /\ closing' = [closing EXCEPT ![t] = 0]
      /\ at' = [at EXCEPT ![t] = IF t = "closer" THEN "done" ELSE "rest"]
      /\ up' = Append(up, r)
  BY DEF WriteClose, Goes, Unread, server, copies, Sends
<1>2. r \in Requests /\ r.kind = "close" /\ r.id = closing[t]
  BY DEF ThreadsTyped, Requests
<1> HIDE DEF r
<1>3. /\ Len(up') = Len(up) + 1 /\ Len(up) \in Nat
      /\ \A i \in 1..Len(up) : up'[i] = up[i] /\ i \in 1..Len(up')
      /\ up'[Len(up) + 1] = r /\ Len(up) + 1 \in 1..Len(up')
      /\ \A i \in 1..Len(up') : i \in 1..Len(up) \/ i = Len(up) + 1
  <2>1. /\ Len(up') = Len(up) + 1 /\ Len(up) \in Nat
        /\ \A i \in 1..Len(up) : up'[i] = up[i]
        /\ up'[Len(up) + 1] = r
    BY <1>1, <1>2, Appended DEF UpTyped
  <2> QED
    BY <2>1
<1>4. closing[t] \in (1..view.sequence) \ {view.id}
  BY <1>1 DEF IdInv
<1>5. /\ at'[t] \notin {"tell", "shut"}
      /\ \A u \in Threads : u # t => at'[u] = at[u] /\ closing'[u] = closing[u]
  BY <1>1 DEF ThreadsTyped
<1>6. \A i \in 1..Len(up') : up'[i].kind = "close" => up'[i].id \in (1..view.sequence) \ {view.id}
  BY <1>2, <1>3, <1>4 DEF IdInv
<1>7. (\E u \in Threads : at[u] = "tell" /\ closing[u] = menu.id)
      \/ (\E i \in 1..Len(up) : up[i].kind = "close" /\ up[i].id = menu.id) =>
        \/ \E u \in Threads : at'[u] = "tell" /\ closing'[u] = menu.id
        \/ \E i \in 1..Len(up') : up'[i].kind = "close" /\ up'[i].id = menu.id
  BY <1>2, <1>3, <1>5
<1> QED
  BY <1>1, <1>5, <1>6, <1>7 DEF IdInv

\* The other steps of the two threads.
LEMMA WalksId ==
  ASSUME CoreInv, UpTyped, ThreadsTyped, IdInv, Walks \/ GuessSwap,
         \A t \in Threads : ~ReadIDToClose(t) /\ ~WriteClose(t)
  PROVE  IdInv'
<1>1. UNCHANGED <<menu, lengths, down, view>> /\ ("crossed" \notin races' => "crossed" \notin races)
  BY WalksFrame DEF GuessSwap, server
<1>2. \A t \in Threads : /\ at'[t] = "shut" => at[t] = "shut"
                         /\ at'[t] = "tell" <=> at[t] = "tell"
  <2>1. \E to \in Points \ {"shut", "tell"} : at' = [at EXCEPT !["opener"] = to]
    <3>1. CASE ReadSequence \/ Ask \/ PollOpen \/ PollSize \/ TickerFires \/ DeadlinePasses
      BY <3>1 DEF ReadSequence, Ask, PollOpen, PollSize, TickerFires, DeadlinePasses, Goes, Points
    <3>2. CASE PollSequence \/ RetryFires
      BY <3>2 DEF PollSequence, RetryFires, Goes, Points
    <3>3. CASE (\E slot \in 1..(Rows + 2) : SeeItem(slot) \/ FindItem(slot))
      BY <3>3 DEF SeeItem, FindItem, Goes, Points
    <3>4. CASE ReadWindowID \/ WriteClick \/ WriteSwap \/ GuessSwap
      BY <3>4 DEF ReadWindowID, WriteClick, WriteSwap, GuessSwap, Goes, Points
    <3> QED
      BY <3>1, <3>2, <3>3, <3>4 DEF Walks
  <2>2. at["opener"] \notin {"shut", "tell"}
    <3>1. CASE ReadSequence \/ Ask \/ PollOpen \/ PollSize \/ TickerFires \/ DeadlinePasses
      BY <3>1 DEF ReadSequence, Ask, PollOpen, PollSize, TickerFires, DeadlinePasses, Goes
    <3>2. CASE PollSequence \/ RetryFires
      BY <3>2 DEF PollSequence, RetryFires, Goes
    <3>3. CASE (\E slot \in 1..(Rows + 2) : SeeItem(slot) \/ FindItem(slot))
      BY <3>3 DEF SeeItem, FindItem, Goes
    <3>4. CASE ReadWindowID \/ WriteClick \/ WriteSwap \/ GuessSwap
      BY <3>4 DEF ReadWindowID, WriteClick, WriteSwap, GuessSwap, Goes
    <3> QED
      BY <3>1, <3>2, <3>3, <3>4 DEF Walks
  <2> QED
    BY <2>1, <2>2 DEF ThreadsTyped
<1>3. closing' = closing
  BY DEF Walks, GuessSwap, ReadSequence, Ask, PollSequence, PollOpen, PollSize, TickerFires,
     RetryFires, DeadlinePasses, SeeItem, FindItem, ReadWindowID, WriteClick, WriteSwap
<1>4. SameNews(up', up, {"close"})
  <2>1. CASE up' = up
    BY <2>1, SelfNews
  <2>2. CASE Walks /\ up' # up
    <3>1. PICK r : Makes(r) /\ Sends(r)
      BY <2>2, WalksMake
    <3>2. r \in Requests /\ r.kind # "close"
      BY <3>1, MadeRequests
    <3> QED
      BY <3>1, <3>2, AppendNews DEF Sends, UpTyped
  <2> QED
    BY <2>1, <2>2 DEF GuessSwap
<1> QED
  BY <1>1, <1>2, <1>3, <1>4, SelfNews, IdFrame

LEMMA IdStep ==
  ASSUME CoreInv, ThreadInv, IdInv, [Next]_vars
  PROVE  IdInv'
<1>1. UpTyped /\ ThreadsTyped /\ DownTyped /\ ServerTyped /\ ViewTyped
  BY DEF ThreadInv, CoreInv
<1>2. CASE \E stock \in Stocks : ServerOpens(stock)
  BY <1>1, <1>2, OpensId
<1>3. CASE ServerTalks
  <2>1. up' = up \/ (Answered /\ Head(up).kind # "close")
    BY <1>1, <1>3, TalksSpeaks
  <2>2. PICK ps : Speaks(ps)
    BY <1>1, <1>3, TalksSpeaks
  <2>3. SameNews(up', up, {"close"})
    BY <1>1, <2>1, SelfNews, TailNews DEF Answered, UpTyped
  <2>4. SameNews(down', down, News)
    BY <1>1, <2>2, ToldNews DEF Speaks, IsContent, News, DownTyped
  <2> QED
    BY <2>2, <2>3, <2>4, IdFrame DEF Speaks, copies
<1>4. CASE Forgets
  BY <1>1, <1>4, ForgetsId
<1>5. CASE ServerHearsClose /\ ~Forgets
  BY <1>1, <1>5, IgnoresId
<1>6. CASE TakeOpenWindow
  BY <1>6, TakeOpenWindowId
<1>7. CASE TakeCloseWindow
  BY <1>7, TakeCloseWindowId
<1>8. CASE TakeTradeList \/ TakeContents("window_items") \/ TakeContents("set_slot")
  <2>1. /\ UNCHANGED <<menu, lengths, up, at, closing>> /\ down # <<>> /\ down' = Tail(down)
        /\ Head(down).kind \notin News
        /\ "crossed" \notin races' => "crossed" \notin races
    BY <1>8 DEF TakeTradeList, TakeContents, Reads, News, server
  <2>2. view'.id = view.id /\ view'.sequence = view.sequence
    BY <1>1, <1>8 DEF TakeTradeList, TakeContents, ViewTyped
  <2>3. SameNews(down', down, News)
    BY <1>1, <2>1, TailNews DEF DownTyped
  <2> QED
    BY <2>1, <2>2, <2>3, SelfNews, IdFrame
<1>9. CASE ClearOffers \/ FillWindow \/ MirrorToInventory \/ FillInventory
  <2>1. /\ UNCHANGED <<menu, lengths, up, down, at, closing>>
        /\ "crossed" \notin races' => "crossed" \notin races
    BY <1>9 DEF ClearOffers, FillWindow, MirrorToInventory, FillInventory, server
  <2>2. view'.id = view.id /\ view'.sequence = view.sequence
    BY <1>9, FillWindowView DEF ClearOffers, MirrorToInventory, FillInventory
  <2> QED
    BY <2>1, <2>2, SelfNews, IdFrame
<1>10. CASE (Walks \/ GuessSwap) /\ \A t \in Threads : ~ReadIDToClose(t) /\ ~WriteClose(t)
  BY <1>1, <1>10, WalksId
<1>11. CASE \E t \in Threads : ReadIDToClose(t) \/ MarkClosed(t) \/ WriteClose(t)
  BY <1>1, <1>11, ReadIDToCloseId, MarkClosedId, WriteCloseId
<1>12. CASE UNCHANGED vars
  BY <1>12 DEF vars, IdInv
<1> QED
  BY <1>2, <1>3, <1>4, <1>5, <1>6, <1>7, <1>8, <1>9, <1>10, <1>11, <1>12
  DEF Next, Server, Reader, Opener, ServerTalks, Forgets, Walks

-----------------------------------------------------------------------------
(* StampInv.                                                               *)

LEMMA SpeaksStamp ==
  ASSUME CoreInv, StampInv, NEW ps, Speaks(ps)
  PROVE  StampInv'
<1>1. /\ ps \in Seq(Packets) /\ down \in Seq(Packets) /\ down' = down \o ps
      /\ menu'.id = menu.id /\ view' = view
      /\ \A k \in 1..Len(ps) : IsContent(ps[k]) /\ ps[k].id = menu.id
      /\ menu.id # 0 => \A k \in 1..Len(ps) : ps[k].sid = stamp'.window
  BY DEF Speaks, CoreInv, DownTyped, copies
<1>2. /\ Len(down') = Len(down) + Len(ps) /\ Len(down) \in Nat /\ Len(ps) \in Nat
      /\ \A k \in 1..Len(ps) : down'[Len(down) + k] = ps[k]
  BY <1>1, Told
<1>3. CASE ps = <<>>
  <2>1. stamp' = stamp /\ down' = down
    BY <1>1, <1>3 DEF Speaks
  <2>2. /\ Followed' <=> Followed
        /\ \A j \in 1..Len(down) : Concerns(down[j])' <=> Concerns(down[j])
    BY <1>1, <2>1 DEF Followed, Concerns, IsContent
  <2> QED
    BY <1>1, <2>1, <2>2 DEF StampInv
<1>4. CASE ps # <<>> /\ Followed
  <2>1. Len(ps) \in 1..Len(ps) /\ Len(down') \in 1..Len(down')
    BY <1>1, <1>2, <1>4
  <2>2. down'[Len(down')] = ps[Len(ps)]
    BY <1>2, <2>1
  <2>3. /\ IsContent(down'[Len(down')]) /\ down'[Len(down')].id = menu'.id
        /\ down'[Len(down')].sid = stamp'.window
    BY <1>1, <1>4, <2>1, <2>2 DEF Followed
  <2>4. \A j \in 1..Len(down') : ~(j > Len(down'))
    BY <1>2
  <2> QED
    BY <2>1, <2>3, <2>4 DEF StampInv, Concerns, IsContent
<1>5. CASE ~Followed
  BY <1>1, <1>5 DEF StampInv, Followed
<1> QED
  BY <1>3, <1>4, <1>5

LEMMA OpensStamp ==
  ASSUME CoreInv, NEW stock \in Stocks, ServerOpens(stock)
  PROVE  StampInv'
<1>1. ServerTyped /\ DownTyped
  BY DEF CoreInv
<1>2. /\ menu'.id = Len(lengths) + 1 /\ stamp' = [stamp EXCEPT !.window = 1]
      /\ \E b : OpensAt(b)
  BY <1>1, OpensTells
<1>3. PICK b : OpensAt(b)
  BY <1>2
<1>4. \A i \in 1..Len(down') : Placed(b, i)
  BY <1>1, <1>3, OpensPlaces
<1>5. /\ b + 2 \in 1..Len(down') /\ b \in Nat /\ b >= Len(down) /\ Len(down) \in Nat
      /\ down'[b + 2] = AllItems(Len(lengths) + 1, Contents', 1)
  <2>1. Len(down) \in Nat
    BY <1>1, DownFacts
  <2>2. b \in {Len(down), Len(down) + 1} /\ Len(down') \in {b + 2, b + 3}
    BY <1>3 DEF OpensAt
  <2>3. down'[b + 2] = AllItems(Len(lengths) + 1, Contents', 1)
    BY <1>3, Zenon DEF OpensAt
  <2> QED
    BY <2>1, <2>2, <2>3
<1>6. stamp'.window = 1
  BY <1>1, <1>2 DEF ServerTyped
<1>7. down'[b + 2].kind = "window_items" /\ down'[b + 2].id = menu'.id /\ down'[b + 2].sid = 1
  BY <1>2, <1>5 DEF AllItems
<1>8. \A j \in 1..Len(down') : j > b + 2 => down'[j].kind = "trade_list"
  BY <1>4, <1>5 DEF Placed
<1> QED
  BY <1>5, <1>6, <1>7, <1>8 DEF StampInv, Concerns, IsContent

\* The reader takes a packet, and hears the state id if it concerns the window.
LEMMA TakesStamp ==
  ASSUME CoreInv, StampInv, down # <<>>, down' = Tail(down), menu' = menu, stamp' = stamp,
         Followed' => Followed,
         Followed' /\ Concerns(Head(down)) =>
           view'.id = menu.id /\ view'.stateID = Head(down).sid,
         Followed' /\ ~Concerns(Head(down)) /\ view.id = menu.id =>
           view'.id = view.id /\ view'.stateID = view.stateID
  PROVE  StampInv'
<1> SUFFICES ASSUME Followed'
             PROVE  (\/ \E i \in 1..Len(down) :
                          /\ Concerns(down[i]) /\ down[i].sid = stamp.window
                          /\ \A j \in 1..Len(down) : j > i => ~Concerns(down[j])
                     \/ /\ \A j \in 1..Len(down) : ~Concerns(down[j])
                        /\ view.id = menu.id /\ view.stateID = stamp.window)'
  BY DEF StampInv
<1>1. /\ Len(down) \in Nat \ {0} /\ Len(down') = Len(down) - 1
      /\ \A i \in 1..(Len(down) - 1) : i + 1 \in 1..Len(down) /\ down'[i] = down[i + 1]
      /\ Head(down) = down[1]
  BY HeadFacts
<1>2. \A p : IsContent(p)' <=> IsContent(p)
  BY DEF IsContent
<1>3. \A j \in 1..Len(down') : IsContent(down'[j]) /\ down'[j].id = menu'.id <=> Concerns(down[j + 1])
  BY <1>1 DEF Concerns
<1>4. \A j \in 1..Len(down') : IsContent(down'[j]) /\ down'[j].id = menu'.id <=> Concerns(down[j])'
  BY DEF Concerns, IsContent
<1>5. CASE \E i \in 1..Len(down) :
             /\ Concerns(down[i]) /\ down[i].sid = stamp.window
             /\ \A j \in 1..Len(down) : j > i => ~Concerns(down[j])
  <2>1. PICK i \in 1..Len(down) :
             /\ Concerns(down[i]) /\ down[i].sid = stamp.window
             /\ \A j \in 1..Len(down) : j > i => ~Concerns(down[j])
    BY <1>5
  <2>2. CASE i = 1
    <3>1. \A j \in 1..Len(down') : ~Concerns(down[j])'
      BY <1>1, <1>3, <1>4, <2>1, <2>2
    <3> QED
      BY <1>1, <2>1, <2>2, <3>1
  <2>3. CASE i # 1
    <3>1. i - 1 \in 1..Len(down') /\ (i - 1) + 1 = i
      BY <1>1, <2>3
    <3>2. down'[i - 1] = down[i]
      BY <1>1, <3>1
    <3>3. Concerns(down[i - 1])'
      BY <1>4, <2>1, <3>1, <3>2 DEF Concerns
    <3>4. down'[i - 1].sid = stamp'.window
      BY <2>1, <3>2
    <3>5. \A j \in 1..Len(down') : j > i - 1 => ~Concerns(down[j])'
      BY <1>1, <1>3, <1>4, <2>1
    <3> QED
      BY <3>1, <3>3, <3>4, <3>5
  <2> QED
    BY <2>2, <2>3
<1>6. CASE /\ \A j \in 1..Len(down) : ~Concerns(down[j])
           /\ view.id = menu.id /\ view.stateID = stamp.window
  <2>1. \A j \in 1..Len(down') : ~Concerns(down[j])'
    BY <1>1, <1>3, <1>4, <1>6
  <2> QED
    BY <1>1, <1>6, <2>1
<1> QED
  BY <1>5, <1>6 DEF StampInv

\* What the client makes of the packet that comes first.
LEMMA TakenFacts ==
  ASSUME CoreInv, IdInv,
         TakeOpenWindow \/ TakeTradeList \/ TakeCloseWindow
           \/ TakeContents("window_items") \/ TakeContents("set_slot")
  PROVE  /\ reading = Nothing /\ down # <<>> /\ down' = Tail(down)
         /\ UNCHANGED <<menu, rows, stamp, lengths, up, at, my, closing>>
         /\ Followed' => Followed
         /\ Followed' /\ Concerns(Head(down)) =>
              /\ view'.id = menu.id /\ view'.stateID = Head(down).sid
              /\ reading'.step = "window"
         /\ view.id = menu.id /\ menu.id # 0 =>
              /\ view'.id = view.id /\ view'.slots = view.slots /\ view'.trimmed = view.trimmed
              /\ Concerns(Head(down)) \/ view'.stateID = view.stateID
         /\ reading'.step \in {"window", "inventory"} => reading'.packet = Head(down)
         /\ reading'.step # "mirror"
         /\ inv'.slots = inv.slots /\ inv'.truncated = inv.truncated
         /\ races' \subseteq {"crossed"} => races \subseteq {"crossed"}
                           /\ (IsContent(Head(down)) => reading'.step \in {"window", "inventory"})
<1>1. /\ view \in [open : BOOLEAN, id : Nat, slots : Seq(Items), declared : Nat, decoded : Nat,
                   trimmed : BOOLEAN, stateID : Nat, sequence : Nat]
      /\ view.id \in {0, view.sequence} /\ (view.open <=> view.id # 0)
      /\ view.sequence \in 0..Len(lengths) /\ Len(lengths) \in Nat
      /\ menu.id \in {0, Len(lengths)}
      /\ inv \in [slots : [1..Rows -> Items], truncated : BOOLEAN, stateID : Nat]
  BY DEF CoreInv, ViewTyped, ServerTyped, InvTyped
<1>2. down # <<>> => 
        /\ Head(down) = down[1] /\ Head(down).id \in Nat /\ 1 \in 1..Len(down)
        /\ Fits(Head(down), lengths)
        /\ Head(down).kind # "open_window" /\ Head(down).id # 0 => Head(down).id = view.sequence
        /\ Head(down).kind = "open_window" => Head(down).id = view.sequence + 1
  BY HeadFacts
<1>3. Nothing.step = "rest"
  BY DEF Nothing
<1>4. CASE TakeOpenWindow
  <2>1. /\ reading = Nothing /\ down # <<>> /\ down' = Tail(down) /\ Head(down).kind = "open_window"
        /\ UNCHANGED <<menu, rows, stamp, lengths, up, inv, races, at, my, closing>>
        /\ view' = Open(view, Head(down).id) /\ reading'.step = "opened"
    BY <1>4 DEF TakeOpenWindow, Reads, server, Handles
  <2>2. view.sequence + 1 \in 0..Len(lengths)
    BY <1>1, <1>2, <2>1 DEF Fits
  <2> QED
    BY <1>1, <2>1, <2>2 DEF Followed, Concerns, IsContent
<1>5. CASE TakeTradeList
  BY <1>3, <1>5 DEF TakeTradeList, Reads, server, Followed, Concerns, IsContent
<1>6. CASE TakeCloseWindow
  <2>1. /\ reading = Nothing /\ down # <<>> /\ down' = Tail(down) /\ Head(down).kind = "close_window"
        /\ UNCHANGED <<menu, rows, stamp, lengths, up, inv, races, reading, at, my, closing>>
        /\ view' = IF Matches(Head(down).id) THEN Close(view) ELSE view
    BY <1>6 DEF TakeCloseWindow, Reads, server
  <2>2. Head(down).id = view.sequence /\ Head(down).id # menu.id
    BY <1>2, <2>1 DEF IdInv, Fits
  <2>3. view'.sequence = view.sequence /\ view'.id \in {0, view.id}
    BY <1>1, <2>1 DEF Close
  <2>4. Followed' => Followed
    BY <1>1, <2>1, <2>3 DEF Followed
  <2> QED
    BY <1>1, <1>3, <2>1, <2>2, <2>4 DEF Concerns, IsContent
<1>7. CASE TakeContents("window_items") \/ TakeContents("set_slot")
  <2> DEFINE p == Head(down)
  <2>1. /\ reading = Nothing /\ down # <<>> /\ down' = Tail(down)
        /\ p.kind \in {"window_items", "set_slot"}
        /\ UNCHANGED <<menu, rows, stamp, lengths, up, at, my, closing>>
    BY <1>7 DEF TakeContents, Reads, server
  <2>2. CASE Matches(p.id) /\ view' = [view EXCEPT !.stateID = p.sid] /\ Handles(p, "window")
             /\ UNCHANGED races /\ UNCHANGED inv
    <3>1. /\ view'.id = view.id /\ view'.sequence = view.sequence /\ view'.slots = view.slots
          /\ view'.trimmed = view.trimmed /\ view'.stateID = p.sid /\ view.id = p.id
          /\ reading'.step = "window" /\ reading'.packet = p
      BY <1>1, <2>2 DEF Matches, Handles
    <3> QED
      BY <2>1, <2>2, <3>1 DEF Followed, Concerns, IsContent
  <2>3. CASE ~Matches(p.id) /\ p.id = 0 /\ inv' = [inv EXCEPT !.stateID = p.sid]
             /\ Handles(p, "inventory") /\ UNCHANGED <<view, races>>
    <3>1. /\ inv'.slots = inv.slots /\ inv'.truncated = inv.truncated
          /\ reading'.step = "inventory" /\ reading'.packet = p
      BY <1>1, <2>3 DEF Handles
    <3> QED
      BY <2>1, <2>3, <3>1 DEF Followed, Concerns, IsContent
  <2>4. CASE ~Matches(p.id) /\ p.id # 0 /\ races' = races \cup {"lost"}
             /\ UNCHANGED <<view, inv, reading>>
    <3>1. ~(races' \subseteq {"crossed"}) /\ p.id = view.sequence /\ view.id = 0
      BY <1>1, <1>2, <2>1, <2>4 DEF Matches
    <3>2. Followed' => Followed /\ p.id # menu.id
      BY <2>1, <2>4, <3>1 DEF Followed
    <3> QED
      BY <1>3, <2>1, <2>4, <3>1, <3>2 DEF Concerns, IsContent
  <2> QED
    BY <1>7, <2>2, <2>3, <2>4 DEF TakeContents
<1> QED
  BY <1>4, <1>5, <1>6, <1>7

\* A step that leaves both ends' windows and what is said of them as they are.
LEMMA StillStamp ==
  ASSUME StampInv, UNCHANGED <<menu, stamp, down>>,
         view'.id = view.id, view'.sequence = view.sequence, view'.stateID = view.stateID
  PROVE  StampInv'
BY DEF StampInv, Followed, Concerns

LEMMA StampStep ==
  ASSUME CoreInv, ThreadInv, IdInv, StampInv, [Next]_vars
  PROVE  StampInv'
<1>1. UpTyped /\ ServerTyped /\ DownTyped /\ ViewTyped
  BY DEF ThreadInv, CoreInv
<1>2. CASE \E stock \in Stocks : ServerOpens(stock)
  BY <1>2, OpensStamp
<1>3. CASE ServerTalks
  BY <1>1, <1>3, TalksSpeaks, SpeaksStamp
<1>4. CASE Forgets
  <2>1. menu'.id = 0
    BY <1>4, ForgetsFacts
  <2> QED
    BY <2>1 DEF StampInv, Followed
<1>5. CASE ServerHearsClose /\ ~Forgets
  BY <1>5, StillStamp DEF ServerHearsClose, Forgets, copies
<1>6. CASE TakeOpenWindow \/ TakeTradeList \/ TakeCloseWindow
             \/ TakeContents("window_items") \/ TakeContents("set_slot")
  <2>1. Followed' => menu.id # 0
    BY <1>6, TakenFacts DEF Followed
  <2> QED
    BY <1>6, <2>1, TakenFacts, TakesStamp
<1>7. CASE ClearOffers \/ MirrorToInventory \/ FillInventory
  BY <1>7, StillStamp DEF ClearOffers, MirrorToInventory, FillInventory, server
<1>8. CASE FillWindow
  BY <1>8, FillWindowView, StillStamp DEF FillWindow, server
<1>9. CASE Walks
  BY <1>9, WalksFrame, StillStamp
<1>10. CASE GuessSwap
  BY <1>10, StillStamp DEF GuessSwap, server
<1>11. CASE \E t \in Threads : MarkClosed(t)
  <2>1. view' = Close(view) /\ UNCHANGED <<menu, stamp, down>>
    BY <1>11 DEF MarkClosed, server
  <2>2. view'.id = 0 /\ view'.sequence = view.sequence /\ view.id \in {0, view.sequence}
    BY <1>1, <2>1 DEF ViewTyped, Close
  <2>3. Followed' => Followed /\ view.id # menu.id
    BY <2>1, <2>2 DEF Followed
  <2> QED
    BY <2>1, <2>3 DEF StampInv, Concerns
<1>12. CASE UNCHANGED vars
  BY <1>12, StillStamp DEF vars
<1> QED
  BY <1>2, <1>3, <1>4, <1>5, <1>6, <1>7, <1>8, <1>9, <1>10, <1>11, <1>12
  DEF Next, Server, Reader, Opener, ServerTalks, Forgets, Walks

-----------------------------------------------------------------------------
(* The packets to come, as they are told and taken.                        *)

LEMMA ComingFacts ==
  ASSUME NEW steps
  PROVE  \A i \in Coming(steps) :
           (i = 0 /\ reading.step \in steps) \/ (i \in 1..Len(down) /\ Packet(i) = down[i])
<1>1. \A i \in 1..Len(down) : i # 0
  <2>1. \A i \in 1..Len(down) : i \in 1..Len(down) => i >= 1
    OBVIOUS
  <2> QED
    BY <2>1
<1> QED
  BY <1>1 DEF Coming, Packet

\* What is said comes after everything else.
LEMMA Spoken ==
  ASSUME DownTyped, NEW ps, Speaks(ps), NEW steps
  PROVE  /\ \A i \in Coming(steps) :
              /\ i \in Coming(steps)' /\ Packet(i)' = Packet(i)
              /\ i \in Nat /\ i <= Len(down)
         /\ \A k \in 1..Len(ps), n \in Nat : n = Len(down) + k =>
              n \in Coming(steps)' /\ Packet(n)' = ps[k]
         /\ \A j \in Coming(steps)' :
              \/ j \in Coming(steps) /\ j <= Len(down)
              \/ /\ j \in Nat /\ j > Len(down) /\ j - Len(down) \in 1..Len(ps)
                 /\ Packet(j)' = ps[j - Len(down)]
         /\ Len(down) \in Nat /\ Len(ps) \in Nat
<1>1. /\ ps \in Seq(Packets) /\ down \in Seq(Packets) /\ down' = down \o ps /\ reading' = reading
  BY DEF Speaks, DownTyped
<1>2. /\ Len(down') = Len(down) + Len(ps) /\ Len(down) \in Nat /\ Len(ps) \in Nat
      /\ \A i \in 1..Len(down) : down'[i] = down[i]
      /\ \A k \in 1..Len(ps) : down'[Len(down) + k] = ps[k]
      /\ \A i \in 1..(Len(down) + Len(ps)) : i > Len(down) =>
           i - Len(down) \in 1..Len(ps) /\ down'[i] = ps[i - Len(down)]
  BY <1>1, Told
<1>3. \A i \in Coming(steps) : i \in Coming(steps)' /\ Packet(i)' = Packet(i)
                               /\ i \in Nat /\ i <= Len(down)
  BY <1>1, <1>2 DEF Coming, Packet
<1>4. \A k \in 1..Len(ps), n \in Nat : n = Len(down) + k =>
        n \in Coming(steps)' /\ Packet(n)' = ps[k]
  <2>1. \A k \in 1..Len(ps), n \in Nat : n = Len(down) + k =>
          n \in 1..Len(down') /\ n # 0 /\ down'[n] = ps[k]
    BY <1>2
  <2> QED
    BY <2>1 DEF Coming, Packet
<1>5. \A j \in Coming(steps)' :
        \/ j \in Coming(steps) /\ j <= Len(down)
        \/ /\ j \in Nat /\ j > Len(down) /\ j - Len(down) \in 1..Len(ps)
           /\ Packet(j)' = ps[j - Len(down)]
  <2> SUFFICES ASSUME NEW j \in Coming(steps)'
               PROVE  \/ j \in Coming(steps) /\ j <= Len(down)
                      \/ /\ j \in Nat /\ j > Len(down) /\ j - Len(down) \in 1..Len(ps)
                         /\ Packet(j)' = ps[j - Len(down)]
    OBVIOUS
  <2>1. CASE j \in 1..Len(down') /\ j > Len(down)
    BY <1>2, <2>1 DEF Packet
  <2>2. CASE j \in 1..Len(down') /\ ~(j > Len(down))
    BY <1>2, <2>2 DEF Coming
  <2>3. CASE j = 0 /\ reading'.step \in steps
    BY <1>1, <1>2, <2>3 DEF Coming
  <2> QED
    BY <2>1, <2>2, <2>3 DEF Coming
<1> QED
  BY <1>2, <1>3, <1>4, <1>5

\* The first packet is taken, to be handled or not, and the others move up.
LEMMA Shifted ==
  ASSUME CoreInv, reading = Nothing, down # <<>>, down' = Tail(down), NEW steps,
         "rest" \notin steps, reading'.step \in steps => reading'.packet = Head(down)
  PROVE  /\ \A i \in Coming(steps) :
              /\ i \in Nat
              /\ \/ i - 1 \in Coming(steps)' /\ Packet(i - 1)' = Packet(i)
                 \/ reading'.step \notin steps /\ Packet(i) = Head(down)
         /\ \A j \in Coming(steps)' :
              j \in Nat /\ j + 1 \in Coming(steps) /\ Packet(j + 1) = Packet(j)'
<1>1. /\ Len(down) \in Nat \ {0} /\ Len(down') = Len(down) - 1
      /\ \A i \in 1..(Len(down) - 1) : down'[i] = down[i + 1]
      /\ Head(down) = down[1]
  BY HeadFacts
<1>2. Coming(steps) = 1..Len(down) /\ \A i \in Coming(steps) : Packet(i) = down[i] /\ i \in Nat
  <2>1. reading.step \notin steps
    BY DEF Nothing
  <2>2. Coming(steps) = 1..Len(down)
    BY <2>1 DEF Coming
  <2>3. \A i \in 1..Len(down) : i # 0 /\ i \in Nat
    OBVIOUS
  <2> QED
    BY <2>2, <2>3 DEF Packet
<1>3. \A j \in Coming(steps)' :
        j \in Nat /\ j + 1 \in Coming(steps) /\ Packet(j + 1) = Packet(j)'
  <2> SUFFICES ASSUME NEW j \in Coming(steps)'
               PROVE  j \in Nat /\ j + 1 \in Coming(steps) /\ Packet(j + 1) = Packet(j)'
    OBVIOUS
  <2>1. CASE j = 0 /\ reading'.step \in steps
    BY <1>1, <1>2, <2>1 DEF Packet
  <2>2. CASE j \in 1..Len(down')
    <3>1. j \in 1..(Len(down) - 1) /\ j + 1 \in 1..Len(down) /\ j # 0 /\ j \in Nat
      BY <1>1, <2>2
    <3>2. Packet(j)' = down'[j] /\ Packet(j + 1) = down[j + 1]
      BY <1>2, <3>1 DEF Packet
    <3> QED
      BY <1>1, <1>2, <3>1, <3>2
  <2> QED
    BY <2>1, <2>2 DEF Coming
<1>4. \A i \in Coming(steps) :
        \/ i - 1 \in Coming(steps)' /\ Packet(i - 1)' = Packet(i)
        \/ reading'.step \notin steps /\ Packet(i) = Head(down)
  <2> SUFFICES ASSUME NEW i \in 1..Len(down)
               PROVE  \/ i - 1 \in Coming(steps)' /\ Packet(i - 1)' = down[i]
                      \/ reading'.step \notin steps /\ down[i] = Head(down)
    BY <1>2
  <2>1. CASE i = 1 /\ reading'.step \in steps
    BY <1>1, <2>1 DEF Coming, Packet
  <2>2. CASE i = 1 /\ reading'.step \notin steps
    BY <1>1, <2>2
  <2>3. CASE i # 1
    <3>1. i - 1 \in 1..(Len(down) - 1) /\ i - 1 # 0 /\ (i - 1) + 1 = i
      BY <1>1, <2>3
    <3>2. down'[i - 1] = down[i]
      BY <1>1, <3>1
    <3> QED
      BY <1>1, <3>1, <3>2 DEF Coming, Packet
  <2> QED
    BY <2>1, <2>2, <2>3
<1> QED
  BY <1>2, <1>3, <1>4

-----------------------------------------------------------------------------
(* WindowInv.                                                              *)

LEMMA SpeaksSlot ==
  ASSUME CoreInv, NEW ps, Speaks(ps), NEW s \in 1..(Len(menu.own) + Rows), SlotInv(s)
  PROVE  SlotInv(s)'
<1>1. /\ menu'.id = menu.id /\ view' = view /\ LastWord(ps)
      /\ \A k \in 1..Len(ps) : ps[k].id = menu.id
  BY DEF Speaks, copies
<1>2. /\ \A i \in Ahead : /\ i \in Ahead' /\ Packet(i)' = Packet(i)
                          /\ i \in Nat /\ i <= Len(down)
      /\ \A k \in 1..Len(ps), n \in Nat : n = Len(down) + k => n \in Ahead' /\ Packet(n)' = ps[k]
      /\ \A j \in Ahead' : \/ j \in Ahead /\ j <= Len(down)
                           \/ /\ j \in Nat /\ j > Len(down) /\ j - Len(down) \in 1..Len(ps)
                              /\ Packet(j)' = ps[j - Len(down)]
      /\ Len(down) \in Nat /\ Len(ps) \in Nat
  BY Spoken DEF CoreInv, Ahead
<1>3. \A i \in Ahead : SetsHere(i, s)' <=> SetsHere(i, s)
  BY <1>1, <1>2 DEF SetsHere, Sets
<1>4. \A k \in 1..Len(ps), n \in Nat : n = Len(down) + k => (SetsHere(n, s)' <=> Sets(ps[k], s))
  BY <1>1, <1>2 DEF SetsHere, Sets
<1>5. \A j \in Ahead' : j > Len(down) =>
        j - Len(down) \in 1..Len(ps) /\ (SetsHere(j, s)' <=> Sets(ps[j - Len(down)], s))
  BY <1>1, <1>2 DEF SetsHere, Sets
<1>6. CASE \E k \in 1..Len(ps) :
             /\ Sets(ps[k], s) /\ ValueOf(ps[k], s) = Contents'[s]
             /\ \A m \in 1..Len(ps) : m > k => ~Sets(ps[m], s)
  <2>1. PICK k \in 1..Len(ps) :
             /\ Sets(ps[k], s) /\ ValueOf(ps[k], s) = Contents'[s]
             /\ \A m \in 1..Len(ps) : m > k => ~Sets(ps[m], s)
    BY <1>6
  <2>2. \E n \in Nat : n = Len(down) + k
    BY <1>2
  <2>3. PICK n \in Nat : n = Len(down) + k
    BY <2>2
  <2>4. n \in Ahead' /\ SetsHere(n, s)' /\ ValueOf(Packet(n), s)' = Contents'[s]
    BY <1>2, <1>4, <2>1, <2>3 DEF ValueOf
  <2>5. \A j \in Ahead' : j > n => ~SetsHere(j, s)'
    <3> SUFFICES ASSUME NEW j \in Ahead', j > n
                 PROVE  ~SetsHere(j, s)'
      OBVIOUS
    <3>1. j > Len(down) /\ j - Len(down) \in 1..Len(ps) /\ j - Len(down) > k
      BY <1>2, <2>3
    <3> QED
      BY <1>5, <2>1, <3>1
  <2> QED
    BY <2>4, <2>5 DEF SlotInv
<1>7. CASE (\A k \in 1..Len(ps) : ~Sets(ps[k], s)) /\ Contents'[s] = Contents[s]
  <2>1. \A j \in Ahead' : j > Len(down) => ~SetsHere(j, s)'
    BY <1>5, <1>7
  <2>2. \A j \in Ahead' : ~(j > Len(down)) => j \in Ahead
    BY <1>2
  <2>3. \A i \in Ahead : ValueOf(Packet(i), s)' = ValueOf(Packet(i), s)
    BY <1>2 DEF ValueOf
  <2>4. CASE \E i \in Ahead :
               /\ SetsHere(i, s) /\ ValueOf(Packet(i), s) = Contents[s]
               /\ \A j \in Ahead : j > i => ~SetsHere(j, s)
    <3>1. PICK i \in Ahead : /\ SetsHere(i, s) /\ ValueOf(Packet(i), s) = Contents[s]
                             /\ \A j \in Ahead : j > i => ~SetsHere(j, s)
      BY <2>4
    <3>2. i \in Ahead' /\ SetsHere(i, s)' /\ ValueOf(Packet(i), s)' = Contents'[s]
      BY <1>2, <1>3, <1>7, <2>3, <3>1
    <3>3. \A j \in Ahead' : j > i => ~SetsHere(j, s)'
      BY <1>3, <2>1, <2>2, <3>1
    <3> QED
      BY <3>2, <3>3 DEF SlotInv
  <2>5. CASE /\ \A j \in Ahead : ~SetsHere(j, s)
             /\ view.id = menu.id /\ view.slots # <<>>
             /\ view.trimmed \/ view.slots[s] = Contents[s]
    <3>1. \A j \in Ahead' : ~SetsHere(j, s)'
      BY <1>3, <2>1, <2>2, <2>5
    <3> QED
      BY <1>1, <1>7, <2>5, <3>1 DEF SlotInv
  <2> QED
    BY <2>4, <2>5 DEF SlotInv
<1> QED
  BY <1>1, <1>6, <1>7 DEF LastWord

LEMMA OpensWindow ==
  ASSUME CoreInv, NEW stock \in Stocks, ServerOpens(stock)
  PROVE  WindowInv'
<1>1. ServerTyped /\ DownTyped
  BY DEF CoreInv
<1>2. menu'.id = Len(lengths) + 1 /\ \E b : OpensAt(b)
  BY <1>1, OpensTells
<1>3. PICK b : OpensAt(b)
  BY <1>2
<1>4. \A i \in 1..Len(down') : Placed(b, i)
  BY <1>1, <1>3, OpensPlaces
<1>5. /\ b + 2 \in 1..Len(down') /\ b \in Nat /\ b >= Len(down) /\ Len(down) \in Nat
      /\ down'[b + 2] = AllItems(Len(lengths) + 1, Contents', 1)
  <2>1. Len(down) \in Nat
    BY <1>1, DownFacts
  <2>2. b \in {Len(down), Len(down) + 1} /\ Len(down') \in {b + 2, b + 3}
    BY <1>3 DEF OpensAt
  <2>3. down'[b + 2] = AllItems(Len(lengths) + 1, Contents', 1)
    BY <1>3, Zenon DEF OpensAt
  <2> QED
    BY <2>1, <2>2, <2>3
<1>6. PICK n \in Nat : n = b + 2
  BY <1>5
<1>7. n \in Ahead' /\ Packet(n)' = AllItems(Len(lengths) + 1, Contents', 1)
  BY <1>5, <1>6 DEF Ahead, Coming, Packet
<1>8. \A j \in Ahead' : j > n => Packet(j)'.kind = "trade_list"
  <2> SUFFICES ASSUME NEW j \in Ahead', j > n
               PROVE  Packet(j)'.kind = "trade_list"
    OBVIOUS
  <2>1. j \in 1..Len(down') /\ j # 0
    BY <1>6 DEF Ahead, Coming
  <2>2. down'[j].kind = "trade_list"
    BY <1>4, <1>5, <1>6, <2>1 DEF Placed
  <2> QED
    BY <2>1, <2>2 DEF Packet
<1>9. ASSUME NEW s
      PROVE  SlotInv(s)'
  <2>1. SetsHere(n, s)' /\ ValueOf(Packet(n), s)' = Contents'[s]
    BY <1>2, <1>7 DEF SetsHere, Sets, ValueOf, AllItems
  <2>2. \A j \in Ahead' : j > n => ~SetsHere(j, s)'
    BY <1>8 DEF SetsHere, Sets
  <2> QED
    BY <1>7, <2>1, <2>2 DEF SlotInv
<1> QED
  BY <1>9 DEF WindowInv

\* The reader takes a packet: it goes on to change the window, or does not concern it.
LEMMA TakesSlot ==
  ASSUME CoreInv, reading = Nothing, down # <<>>, down' = Tail(down), menu' = menu, rows' = rows,
         reading'.step = "window" => reading'.packet = Head(down),
         reading'.step # "window" => ~Concerns(Head(down)),
         view.id = menu.id =>
           view'.id = view.id /\ view'.slots = view.slots /\ view'.trimmed = view.trimmed,
         NEW s, SlotInv(s)
  PROVE  SlotInv(s)'
<1>1. /\ \A i \in Ahead :
           /\ i \in Nat
           /\ \/ i - 1 \in Ahead' /\ Packet(i - 1)' = Packet(i)
              \/ reading'.step \notin {"window"} /\ Packet(i) = Head(down)
      /\ \A j \in Ahead' :
           j \in Nat /\ j + 1 \in Ahead /\ Packet(j + 1) = Packet(j)'
  BY Shifted DEF Ahead
<1>2. Contents' = Contents
  BY DEF Contents
<1>3. \A j \in Ahead' : SetsHere(j, s)' <=> SetsHere(j + 1, s)
  BY <1>1 DEF SetsHere, Sets
<1>4. \A i \in Ahead : SetsHere(i, s) =>
        \E k \in Ahead' : /\ k = i - 1 /\ SetsHere(k, s)'
                          /\ ValueOf(Packet(k), s)' = ValueOf(Packet(i), s)
  <2> SUFFICES ASSUME NEW i \in Ahead, SetsHere(i, s)
               PROVE  \E k \in Ahead' : /\ k = i - 1 /\ SetsHere(k, s)'
                                        /\ ValueOf(Packet(k), s)' = ValueOf(Packet(i), s)
    OBVIOUS
  <2>1. ~(reading'.step \notin {"window"} /\ Packet(i) = Head(down))
    BY DEF SetsHere, Sets, Concerns, IsContent
  <2>2. i - 1 \in Ahead' /\ Packet(i - 1)' = Packet(i)
    BY <1>1, <2>1
  <2>3. PICK k \in Ahead' : k = i - 1 /\ Packet(k)' = Packet(i)
    BY <2>2
  <2> QED
    BY <2>3 DEF SetsHere, Sets, ValueOf
<1>5. CASE \E i \in Ahead : /\ SetsHere(i, s) /\ ValueOf(Packet(i), s) = Contents[s]
                            /\ \A j \in Ahead : j > i => ~SetsHere(j, s)
  <2>1. PICK i \in Ahead : /\ SetsHere(i, s) /\ ValueOf(Packet(i), s) = Contents[s]
                           /\ \A j \in Ahead : j > i => ~SetsHere(j, s)
    BY <1>5
  <2>2. PICK k \in Ahead' : /\ k = i - 1 /\ SetsHere(k, s)'
                            /\ ValueOf(Packet(k), s)' = ValueOf(Packet(i), s)
    BY <1>4, <2>1
  <2>3. \A j \in Ahead' : j > k => ~SetsHere(j, s)'
    <3> SUFFICES ASSUME NEW j \in Ahead', j > k
                 PROVE  ~SetsHere(j, s)'
      OBVIOUS
    <3>1. j + 1 \in Ahead /\ j + 1 > i
      BY <1>1, <2>2
    <3>2. ~SetsHere(j + 1, s)
      BY <2>1, <3>1
    <3> QED
      BY <1>3, <3>2
  <2> QED
    BY <1>2, <2>1, <2>2, <2>3 DEF SlotInv
<1>6. CASE /\ \A j \in Ahead : ~SetsHere(j, s)
           /\ view.id = menu.id /\ view.slots # <<>>
           /\ view.trimmed \/ view.slots[s] = Contents[s]
  <2>1. \A j \in Ahead' : ~SetsHere(j, s)'
    BY <1>1, <1>3, <1>6
  <2> QED
    BY <1>2, <1>6, <2>1 DEF SlotInv
<1> QED
  BY <1>5, <1>6 DEF SlotInv

\* The packet is filled in.
LEMMA FillWindowSlot ==
  ASSUME CoreInv, FillWindow, Followed, NEW s \in 1..lengths[menu.id], SlotInv(s)
  PROVE  SlotInv(s)'
<1> DEFINE p == reading.packet
<1>1. /\ UNCHANGED <<menu, rows, down>> /\ reading.step = "window" /\ reading'.step = "mirror"
  BY DEF FillWindow, server, CoreInv, ReadingTyped, Nothing
<1>2. p.id = view.sequence /\ view.sequence \in 1..Len(lengths)
  BY <1>1, ReadingFacts
<1>3. /\ view'.id = view.id /\ view'.slots # <<>>
      /\ \A q \in 1..lengths[view.sequence] :
           IF Sets(p, q)
           THEN view'.trimmed \/ view'.slots[q] = ValueOf(p, q)
           ELSE view'.slots[q] = view.slots[q] /\ view'.trimmed = view.trimmed
  BY FillWindowView
<1>4. Contents' = Contents
  BY <1>1 DEF Contents
<1>5. /\ Ahead = {0} \cup 1..Len(down) /\ Ahead' = 1..Len(down)
      /\ \A j \in 1..Len(down) : j # 0 /\ j > 0 /\ Packet(j)' = Packet(j)
      /\ Packet(0) = p
  BY <1>1 DEF Ahead, Coming, Packet
<1>6. \A j \in 1..Len(down) :
        (SetsHere(j, s)' <=> SetsHere(j, s)) /\ ValueOf(Packet(j), s)' = ValueOf(Packet(j), s)
  BY <1>1, <1>5 DEF SetsHere, Sets, ValueOf
<1>7. CASE \E i \in 1..Len(down) : SetsHere(i, s)
  <2>1. PICK i \in Ahead : /\ SetsHere(i, s) /\ ValueOf(Packet(i), s) = Contents[s]
                           /\ \A j \in Ahead : j > i => ~SetsHere(j, s)
    BY <1>5, <1>7 DEF SlotInv
  <2>2. i \in 1..Len(down)
    BY <1>5, <1>7, <2>1
  <2> QED
    BY <1>4, <1>5, <1>6, <2>1, <2>2 DEF SlotInv
<1>8. CASE ~\E i \in 1..Len(down) : SetsHere(i, s)
  <2>1. \A j \in Ahead' : ~SetsHere(j, s)'
    BY <1>5, <1>6, <1>8
  <2>2. CASE menu.id = view.sequence
    <3>1. view.id = menu.id
      BY <2>2 DEF Followed, CoreInv, ViewTyped
    <3>2. SetsHere(0, s) <=> Sets(p, s)
      BY <1>2, <1>5, <2>2 DEF SetsHere
    <3>3. IF Sets(p, s) THEN ValueOf(p, s) = Contents[s]
          ELSE view.trimmed \/ view.slots[s] = Contents[s]
      BY <1>5, <1>8, <3>2 DEF SlotInv
    <3>4. view'.trimmed \/ view'.slots[s] = Contents[s]
      BY <1>3, <2>2, <3>3
    <3> QED
      BY <1>1, <1>3, <1>4, <2>1, <3>1, <3>4 DEF SlotInv
  <2>3. CASE menu.id # view.sequence
    <3>1. ~SetsHere(0, s)
      BY <1>2, <1>5, <2>3 DEF SetsHere
    <3>2. view.id = menu.id
      BY <1>5, <1>8, <3>1 DEF SlotInv
    <3> QED
      BY <2>3, <3>2 DEF CoreInv, ViewTyped, Followed
  <2> QED
    BY <2>2, <2>3
<1> QED
  BY <1>7, <1>8

\* A step that leaves both ends' windows and what is said of them as they are.
LEMMA StillWindow ==
  ASSUME WindowInv, UNCHANGED <<menu, rows, lengths, down, view>>,
         reading' = reading \/ (reading.step # "window" /\ reading'.step # "window")
  PROVE  WindowInv'
<1>1. Contents' = Contents /\ Ahead' = Ahead
  BY DEF Contents, Ahead, Coming
<1>2. \A j \in Ahead : Packet(j)' = Packet(j)
  <2>1. CASE reading' = reading
    BY <2>1 DEF Packet
  <2>2. CASE reading.step # "window"
    <3>1. \A j \in Ahead : j # 0
      <4>1. \A j \in 1..Len(down) : j # 0
        OBVIOUS
      <4> QED
        BY <2>2, <4>1 DEF Ahead, Coming
    <3> QED
      BY <3>1 DEF Packet
  <2> QED
    BY <2>1, <2>2
<1>3. \A s, j : j \in Ahead =>
        (SetsHere(j, s)' <=> SetsHere(j, s)) /\ ValueOf(Packet(j), s)' = ValueOf(Packet(j), s)
  BY <1>2 DEF SetsHere, Sets, ValueOf
<1>4. \A s : SlotInv(s) => SlotInv(s)'
  BY <1>1, <1>3 DEF SlotInv
<1> QED
  BY <1>4 DEF WindowInv, Followed

LEMMA WindowStep ==
  ASSUME CoreInv, ThreadInv, IdInv, WindowInv, [Next]_vars
  PROVE  WindowInv'
<1>1. UpTyped /\ ServerTyped /\ DownTyped /\ ViewTyped
  BY DEF ThreadInv, CoreInv
<1>2. CASE \E stock \in Stocks : ServerOpens(stock)
  BY <1>2, OpensWindow
<1>3. CASE ServerTalks
  <2>1. PICK ps : Speaks(ps)
    BY <1>1, <1>3, TalksSpeaks
  <2>2. menu'.id = menu.id /\ view' = view /\ lengths' = lengths
    BY <2>1 DEF Speaks, copies
  <2>3. SUFFICES ASSUME Followed, NEW s \in 1..lengths[menu.id]
                 PROVE  SlotInv(s)'
    BY <2>2 DEF WindowInv, Followed
  <2>4. s \in 1..(Len(menu.own) + Rows)
    BY <1>1, <2>3, OpenFacts DEF Extent, Followed
  <2> QED
    BY <2>1, <2>3, <2>4, SpeaksSlot DEF WindowInv
<1>4. CASE Forgets
  <2>1. menu'.id = 0
    BY <1>4, ForgetsFacts
  <2> QED
    BY <2>1 DEF WindowInv, Followed
<1>5. CASE ServerHearsClose /\ ~Forgets
  BY <1>5, StillWindow DEF ServerHearsClose, Forgets, copies
<1>6. CASE TakeOpenWindow \/ TakeTradeList \/ TakeCloseWindow
             \/ TakeContents("window_items") \/ TakeContents("set_slot")
  <2>1. UNCHANGED <<menu, rows, lengths>> /\ (Followed' => Followed /\ menu.id # 0)
    BY <1>6, TakenFacts DEF Followed
  <2>2. SUFFICES ASSUME Followed', Followed, NEW s \in 1..lengths[menu.id]
                 PROVE  SlotInv(s)'
    BY <2>1 DEF WindowInv
  <2>3. SlotInv(s)
    BY <2>2 DEF WindowInv
  <2>4. /\ reading = Nothing /\ down # <<>> /\ down' = Tail(down)
        /\ reading'.step = "window" => reading'.packet = Head(down)
        /\ reading'.step # "window" => ~Concerns(Head(down))
        /\ view.id = menu.id =>
             view'.id = view.id /\ view'.slots = view.slots /\ view'.trimmed = view.trimmed
    BY <1>6, <2>1, <2>2, TakenFacts
  <2> QED
    BY <2>1, <2>3, <2>4, TakesSlot
<1>7. CASE ClearOffers \/ MirrorToInventory \/ FillInventory
  <2>1. Nothing.step # "window"
    BY DEF Nothing
  <2> QED
    BY <1>7, <2>1, StillWindow DEF ClearOffers, MirrorToInventory, FillInventory, server
<1>8. CASE FillWindow
  <2>1. UNCHANGED <<menu, lengths>> /\ view'.id = view.id /\ view'.sequence = view.sequence
    BY <1>8, FillWindowView DEF FillWindow, server
  <2> QED
    BY <1>8, <2>1, FillWindowSlot DEF WindowInv, Followed
<1>9. CASE Walks
  BY <1>9, WalksFrame, StillWindow
<1>10. CASE GuessSwap
  BY <1>10, StillWindow DEF GuessSwap, server
<1>11. CASE \E t \in Threads : MarkClosed(t)
  <2>1. view' = Close(view) /\ UNCHANGED <<menu, rows, lengths, down, reading>>
    BY <1>11 DEF MarkClosed, server
  <2>2. view'.id = 0 /\ view'.sequence = view.sequence /\ view.id \in {0, view.sequence}
    BY <1>1, <2>1 DEF ViewTyped, Close
  <2>3. Followed' => Followed /\ view.id # menu.id
    BY <2>1, <2>2 DEF Followed
  <2>4. Contents' = Contents /\ Ahead' = Ahead /\ \A j : Packet(j)' = Packet(j)
    BY <2>1 DEF Contents, Ahead, Coming, Packet
  <2>5. \A s, j : (SetsHere(j, s)' <=> SetsHere(j, s))
                  /\ ValueOf(Packet(j), s)' = ValueOf(Packet(j), s)
    BY <2>1, <2>4 DEF SetsHere, Sets, ValueOf
  <2>6. \A s : view.id # menu.id /\ SlotInv(s) => SlotInv(s)'
    BY <2>4, <2>5 DEF SlotInv
  <2> QED
    BY <2>1, <2>3, <2>6 DEF WindowInv
<1>12. CASE UNCHANGED vars
  BY <1>12, StillWindow DEF vars
<1> QED
  BY <1>2, <1>3, <1>4, <1>5, <1>6, <1>7, <1>8, <1>9, <1>10, <1>11, <1>12
  DEF Next, Server, Reader, Opener, ServerTalks, Forgets, Walks

-----------------------------------------------------------------------------
(* InventoryInv.                                                           *)

\* A swap is on its way that exchanges a row.
Swapping(r) == \E i \in 1..Len(up) : up[i].kind = "swap" /\ r \in {up[i].slot, Rows}


\* The server speaks, perhaps as an answer to a swap.
LEMMA SpeaksRow ==
  ASSUME CoreInv, UpTyped, ServerTyped', NEW ps, Speaks(ps),
         up' = up \/ (Answered /\ SaysSwap(ps)),
         NEW r \in 1..Rows, RowInv(r)
  PROVE  RowInv(r)'
<1> DEFINE s == r + Len(menu.own)
<1>1. /\ menu'.id = menu.id /\ LastWord(ps) /\ lengths' = lengths /\ inv' = inv
      /\ reading' = reading /\ Len(menu'.own) = Len(menu.own)
      /\ \A k \in 1..Len(ps) : ps[k].id = menu.id
  BY DEF Speaks, copies
<1>2. /\ \A i \in Behind : /\ i \in Behind' /\ Packet(i)' = Packet(i)
                           /\ i \in Nat /\ i <= Len(down)
      /\ \A k \in 1..Len(ps), n \in Nat : n = Len(down) + k => n \in Behind' /\ Packet(n)' = ps[k]
      /\ \A j \in Behind' : \/ j \in Behind /\ j <= Len(down)
                            \/ /\ j \in Nat /\ j > Len(down) /\ j - Len(down) \in 1..Len(ps)
                               /\ Packet(j)' = ps[j - Len(down)]
      /\ Len(down) \in Nat /\ Len(ps) \in Nat
  BY Spoken DEF CoreInv, Behind
<1>3. /\ s \in 1..(Len(menu.own) + Rows) /\ Len(menu.own) \in Nat
      /\ Contents[s] = rows[r] /\ Contents'[s] = rows'[r]
      /\ \A p : p.id = menu.id => Base(p) = Len(menu.own)
  <2>1. /\ menu.own \in Seq(Items) /\ rows \in [1..Rows -> Items] /\ Len(menu.own) \in Nat
        /\ menu'.own \in Seq(Items) /\ rows' \in [1..Rows -> Items]
        /\ Len(menu.own) + Rows = Extent(menu.id, lengths) /\ Rows \in Nat
    BY OpenFacts, WindowsAssumption DEF CoreInv, ServerTyped
  <2>2. /\ s \in 1..(Len(menu.own) + Rows) /\ ~(s <= Len(menu.own)) /\ s - Len(menu.own) = r
    BY <2>1
  <2>3. Contents[s] = rows[r]
    BY <2>1, <2>2, ContentsFacts DEF Contents
  <2>4. Contents' = menu'.own \o rows'
    BY DEF Contents
  <2>5. (menu'.own \o rows')[s] = rows'[r]
    <3> DEFINE o == menu'.own
               q == rows'
    <3>1. o \in Seq(Items) /\ q \in [1..Rows -> Items] /\ Len(o) = Len(menu.own)
      BY <1>1, <2>1
    <3> HIDE DEF o, q
    <3>2. \A n \in 1..(Len(o) + Rows) : (o \o q)[n] = IF n <= Len(o) THEN o[n] ELSE q[n - Len(o)]
      BY <3>1, ContentsFacts
    <3>3. (o \o q)[s] = q[r]
      BY <2>2, <3>1, <3>2
    <3> QED
      BY <3>3 DEF o, q
  <2>6. ASSUME NEW p, p.id = menu.id PROVE Base(p) = Len(menu.own)
    BY <2>1, <2>6 DEF Base, Extent
  <2> QED
    BY <2>1, <2>2, <2>3, <2>4, <2>5, <2>6
<1> HIDE DEF s
<1>4. \A i \in Behind :
        /\ SetsRow(i, r)' <=> SetsRow(i, r)
        /\ ValueOf(Packet(i), r + Base(Packet(i)))' = ValueOf(Packet(i), r + Base(Packet(i)))
  BY <1>1, <1>2 DEF SetsRow, Sets, Base, ValueOf
<1>5. \A k \in 1..Len(ps) : Base(ps[k])' = Len(menu.own) /\ r + Base(ps[k])' = s
  BY <1>1, <1>3 DEF Base, s
<1>6. \A k \in 1..Len(ps), n \in Nat : n = Len(down) + k =>
        /\ SetsRow(n, r)' <=> Sets(ps[k], s)
        /\ ValueOf(Packet(n), r + Base(Packet(n)))' = ValueOf(ps[k], s)
  BY <1>2, <1>3, <1>5 DEF SetsRow, Sets, ValueOf, s
<1>7. \A j \in Behind' : j > Len(down) =>
        j - Len(down) \in 1..Len(ps) /\ (SetsRow(j, r)' <=> Sets(ps[j - Len(down)], s))
  <2> SUFFICES ASSUME NEW j \in Behind', j > Len(down)
               PROVE  j - Len(down) \in 1..Len(ps)
                      /\ (SetsRow(j, r)' <=> Sets(ps[j - Len(down)], s))
    OBVIOUS
  <2>1. j \in Nat /\ j - Len(down) \in 1..Len(ps) /\ j = Len(down) + (j - Len(down))
    BY <1>2
  <2> QED
    BY <1>6, <2>1
<1>8. CASE \E k \in 1..Len(ps) :
             /\ Sets(ps[k], s) /\ ValueOf(ps[k], s) = Contents'[s]
             /\ \A m \in 1..Len(ps) : m > k => ~Sets(ps[m], s)
  <2>1. PICK k \in 1..Len(ps) :
             /\ Sets(ps[k], s) /\ ValueOf(ps[k], s) = Contents'[s]
             /\ \A m \in 1..Len(ps) : m > k => ~Sets(ps[m], s)
    BY <1>8
  <2>2. \E n \in Nat : n = Len(down) + k
    BY <1>2
  <2>3. PICK n \in Nat : n = Len(down) + k
    BY <2>2
  <2>4. n \in Behind' /\ SetsRow(n, r)'
        /\ ValueOf(Packet(n), r + Base(Packet(n)))' = rows'[r]
    BY <1>2, <1>3, <1>6, <2>1, <2>3
  <2>5. \A j \in Behind' : j > n => ~SetsRow(j, r)'
    <3> SUFFICES ASSUME NEW j \in Behind', j > n
                 PROVE  ~SetsRow(j, r)'
      OBVIOUS
    <3>1. j > Len(down) /\ j - Len(down) \in 1..Len(ps) /\ j - Len(down) > k
      BY <1>2, <2>3
    <3> QED
      BY <1>7, <2>1, <3>1
  <2> QED
    BY <2>4, <2>5 DEF RowInv
<1>9. CASE (\A k \in 1..Len(ps) : ~Sets(ps[k], s)) /\ Contents'[s] = Contents[s]
  <2>1. rows'[r] = rows[r]
    BY <1>3, <1>9
  <2>2. \A j \in Behind' : j > Len(down) => ~SetsRow(j, r)'
    BY <1>7, <1>9
  <2>3. \A j \in Behind' : ~(j > Len(down)) => j \in Behind
    BY <1>2
  <2>4. CASE \E i \in Behind :
               /\ SetsRow(i, r) /\ ValueOf(Packet(i), r + Base(Packet(i))) = rows[r]
               /\ \A j \in Behind : j > i => ~SetsRow(j, r)
    <3>1. PICK i \in Behind :
               /\ SetsRow(i, r) /\ ValueOf(Packet(i), r + Base(Packet(i))) = rows[r]
               /\ \A j \in Behind : j > i => ~SetsRow(j, r)
      BY <2>4
    <3>2. i \in Behind' /\ SetsRow(i, r)'
          /\ ValueOf(Packet(i), r + Base(Packet(i)))' = rows'[r]
      BY <1>2, <1>4, <2>1, <3>1
    <3>3. \A j \in Behind' : j > i => ~SetsRow(j, r)'
      BY <1>4, <2>2, <2>3, <3>1
    <3> QED
      BY <3>2, <3>3 DEF RowInv
  <2>5. CASE Swapping(r)
    <3>1. ~(Answered /\ Head(up).kind = "swap" /\ r \in {Head(up).slot, Rows} /\ SaysSwap(ps))
      BY <1>9 DEF SaysSwap, s
    <3>2. CASE up' = up
      BY <2>5, <3>2 DEF RowInv, Swapping
    <3>3. CASE Answered /\ SaysSwap(ps)
      <4>1. PICK i \in 1..Len(up) : up[i].kind = "swap" /\ r \in {up[i].slot, Rows}
        BY <2>5 DEF Swapping
      <4>2. /\ up # <<>> /\ up' = Tail(up) /\ Len(up') = Len(up) - 1 /\ Len(up) \in Nat \ {0}
            /\ \A n \in 1..(Len(up) - 1) : up'[n] = up[n + 1]
            /\ Head(up) = up[1]
        BY <3>3, HeadTaken DEF Answered, UpTyped
      <4>3. i - 1 \in 1..(Len(up) - 1) /\ (i - 1) + 1 = i
        BY <3>1, <3>3, <4>1, <4>2
      <4>4. i - 1 \in 1..Len(up') /\ up'[i - 1] = up[i]
        BY <4>2, <4>3
      <4> QED
        BY <4>1, <4>4 DEF RowInv
    <3> QED
      BY <3>2, <3>3
  <2>6. CASE (\A j \in Behind : ~SetsRow(j, r)) /\ (inv.truncated \/ inv.slots[r] = rows[r])
    <3>1. \A j \in Behind' : ~SetsRow(j, r)'
      BY <1>4, <2>2, <2>3, <2>6
    <3> QED
      BY <1>1, <2>1, <2>6, <3>1 DEF RowInv
  <2> QED
    BY <2>4, <2>5, <2>6 DEF RowInv, Swapping
<1> QED
  BY <1>1, <1>3, <1>8, <1>9 DEF LastWord

\* The server opens a window and says all of what is in it.
LEMMA OpensRow ==
  ASSUME CoreInv, NEW stock \in Stocks, ServerOpens(stock), NEW r \in 1..Rows
  PROVE  RowInv(r)'
<1>1. ServerTyped /\ DownTyped /\ ServerTyped'
  BY OpensCore DEF CoreInv
<1>2. /\ menu'.id = Len(lengths) + 1 /\ Len(lengths) \in Nat /\ Contents' = menu'.own \o rows
      /\ lengths' = Append(lengths, Len(menu'.own) + Rows)
      /\ menu' \in [id : Nat, own : Seq(Items)] /\ Len(menu'.own) \in Nat /\ \E b : OpensAt(b)
  BY <1>1, OpensTells
<1>3. PICK b : OpensAt(b)
  BY <1>2
<1>4. \A i \in 1..Len(down') : Placed(b, i)
  BY <1>1, <1>3, OpensPlaces
<1>5. /\ b + 2 \in 1..Len(down') /\ b \in Nat /\ b >= Len(down) /\ Len(down) \in Nat
      /\ down'[b + 2] = AllItems(Len(lengths) + 1, Contents', 1)
  <2>1. Len(down) \in Nat
    BY <1>1, DownFacts
  <2>2. b \in {Len(down), Len(down) + 1} /\ Len(down') \in {b + 2, b + 3}
    BY <1>3 DEF OpensAt
  <2>3. down'[b + 2] = AllItems(Len(lengths) + 1, Contents', 1)
    BY <1>3, Zenon DEF OpensAt
  <2> QED
    BY <2>1, <2>2, <2>3
<1>6. PICK n \in Nat : n = b + 2
  BY <1>5
<1>7. n \in Behind' /\ Packet(n)' = AllItems(Len(lengths) + 1, Contents', 1)
  BY <1>5, <1>6 DEF Behind, Coming, Packet
<1>8. Base(Packet(n))' = Len(menu'.own)
  <2>1. lengths'[Len(lengths) + 1] = Len(menu'.own) + Rows
    BY <1>1, <1>2 DEF ServerTyped
  <2>2. Packet(n)'.id = Len(lengths) + 1 /\ Len(lengths) + 1 # 0
    BY <1>2, <1>7 DEF AllItems
  <2> QED
    BY <1>2, <2>1, <2>2, WindowsAssumption DEF Base
<1>9. rows' = rows /\ rows \in [1..Rows -> Items] /\ Rows \in Nat
  BY <1>1, WindowsAssumption DEF ServerOpens, ServerTyped
<1>10. Contents'[r + Len(menu'.own)] = rows[r]
  <2>1. menu'.own \in Seq(Items)
    BY <1>2
  <2>2. /\ r + Len(menu'.own) \in 1..(Len(menu'.own) + Rows)
        /\ ~(r + Len(menu'.own) <= Len(menu'.own)) /\ r + Len(menu'.own) - Len(menu'.own) = r
    BY <1>2, <1>9
  <2> QED
    BY <1>2, <1>9, <2>1, <2>2, ContentsFacts
<1>11. SetsRow(n, r)' /\ ValueOf(Packet(n), r + Base(Packet(n)))' = rows'[r]
  BY <1>7, <1>8, <1>9, <1>10 DEF SetsRow, Sets, ValueOf, AllItems
<1>12. \A j \in Behind' : j > n => ~SetsRow(j, r)'
  <2> SUFFICES ASSUME NEW j \in Behind', j > n
               PROVE  ~SetsRow(j, r)'
    OBVIOUS
  <2>1. j \in 1..Len(down') /\ j # 0
    BY <1>6 DEF Behind, Coming
  <2>2. down'[j].kind = "trade_list"
    BY <1>4, <1>5, <1>6, <2>1 DEF Placed
  <2> QED
    BY <2>1, <2>2 DEF Packet, SetsRow, Sets
<1> QED
  BY <1>7, <1>11, <1>12 DEF RowInv

\* The reader takes a packet: it goes on to change the copies, or says nothing of a row.
LEMMA TakesRow ==
  ASSUME CoreInv, reading = Nothing, down # <<>>, down' = Tail(down),
         UNCHANGED <<rows, lengths, up>>,
         reading'.step \in {"window", "inventory"} => reading'.packet = Head(down),
         reading'.step # "mirror",
         IsContent(Head(down)) => reading'.step \in {"window", "inventory"},
         inv'.slots = inv.slots, inv'.truncated = inv.truncated,
         NEW r, RowInv(r)
  PROVE  RowInv(r)'
<1>1. /\ \A i \in Behind :
           /\ i \in Nat
           /\ \/ i - 1 \in Behind' /\ Packet(i - 1)' = Packet(i)
              \/ reading'.step \notin {"window", "mirror", "inventory"} /\ Packet(i) = Head(down)
      /\ \A j \in Behind' :
           j \in Nat /\ j + 1 \in Behind /\ Packet(j + 1) = Packet(j)'
  BY Shifted DEF Behind
<1>2. \A j \in Behind' : SetsRow(j, r)' <=> SetsRow(j + 1, r)
  BY <1>1 DEF SetsRow, Sets, Base
<1>3. \A i \in Behind : SetsRow(i, r) =>
        \E k \in Behind' :
          /\ k = i - 1 /\ SetsRow(k, r)'
          /\ ValueOf(Packet(k), r + Base(Packet(k)))' = ValueOf(Packet(i), r + Base(Packet(i)))
  <2> SUFFICES ASSUME NEW i \in Behind, SetsRow(i, r)
               PROVE  \E k \in Behind' :
                        /\ k = i - 1 /\ SetsRow(k, r)'
                        /\ ValueOf(Packet(k), r + Base(Packet(k)))'
                             = ValueOf(Packet(i), r + Base(Packet(i)))
    OBVIOUS
  <2>1. ~(reading'.step \notin {"window", "mirror", "inventory"} /\ Packet(i) = Head(down))
    BY DEF SetsRow, Sets, IsContent
  <2>2. i - 1 \in Behind' /\ Packet(i - 1)' = Packet(i)
    BY <1>1, <2>1
  <2>3. PICK k \in Behind' : k = i - 1 /\ Packet(k)' = Packet(i)
    BY <2>2
  <2> QED
    BY <2>3 DEF SetsRow, Sets, ValueOf, Base
<1>4. CASE \E i \in Behind :
             /\ SetsRow(i, r) /\ ValueOf(Packet(i), r + Base(Packet(i))) = rows[r]
             /\ \A j \in Behind : j > i => ~SetsRow(j, r)
  <2>1. PICK i \in Behind :
             /\ SetsRow(i, r) /\ ValueOf(Packet(i), r + Base(Packet(i))) = rows[r]
             /\ \A j \in Behind : j > i => ~SetsRow(j, r)
    BY <1>4
  <2>2. PICK k \in Behind' :
          /\ k = i - 1 /\ SetsRow(k, r)'
          /\ ValueOf(Packet(k), r + Base(Packet(k)))' = ValueOf(Packet(i), r + Base(Packet(i)))
    BY <1>3, <2>1
  <2>3. \A j \in Behind' : j > k => ~SetsRow(j, r)'
    <3> SUFFICES ASSUME NEW j \in Behind', j > k
                 PROVE  ~SetsRow(j, r)'
      OBVIOUS
    <3>1. j + 1 \in Behind /\ j + 1 > i
      BY <1>1, <2>2
    <3>2. ~SetsRow(j + 1, r)
      BY <2>1, <3>1
    <3> QED
      BY <1>2, <3>2
  <2> QED
    BY <2>1, <2>2, <2>3 DEF RowInv
<1>5. CASE Swapping(r)
  BY <1>5 DEF RowInv, Swapping
<1>6. CASE (\A j \in Behind : ~SetsRow(j, r)) /\ (inv.truncated \/ inv.slots[r] = rows[r])
  <2>1. \A j \in Behind' : ~SetsRow(j, r)'
    BY <1>1, <1>2, <1>6
  <2> QED
    BY <1>6, <2>1 DEF RowInv
<1> QED
  BY <1>4, <1>5, <1>6 DEF RowInv, Swapping

\* The last step of a packet: the copy has it of the rows the packet sets.
LEMMA DoneRow ==
  ASSUME CoreInv, reading.step \in {"mirror", "inventory"}, reading' = Nothing,
         UNCHANGED <<rows, lengths, down, up>>,
         NEW r \in 1..Rows, NEW p, p = reading.packet,
         IF Sets(p, r + Base(p))
         THEN inv'.truncated \/ inv'.slots[r] = ValueOf(p, r + Base(p))
         ELSE inv'.slots[r] = inv.slots[r] /\ inv'.truncated = inv.truncated,
         RowInv(r)
  PROVE  RowInv(r)'
<1>1. /\ Behind = {0} \cup 1..Len(down) /\ Behind' = 1..Len(down)
      /\ \A j \in 1..Len(down) : j # 0 /\ j > 0 /\ Packet(j)' = Packet(j)
      /\ Packet(0) = p
  <2>1. reading'.step \notin {"window", "mirror", "inventory"}
    BY DEF Nothing
  <2>2. \A j \in 1..Len(down) : j # 0 /\ j > 0
    OBVIOUS
  <2>3. \A j \in 1..Len(down) : Packet(j)' = Packet(j)
    BY <2>2 DEF Packet
  <2>4. Behind = {0} \cup 1..Len(down)
    BY DEF Behind, Coming
  <2>5. Behind' = 1..Len(down)
    BY <2>1 DEF Behind, Coming
  <2>6. Packet(0) = p
    BY DEF Packet
  <2> QED
    BY <2>2, <2>3, <2>4, <2>5, <2>6
<1>2. \A j \in 1..Len(down) :
        /\ SetsRow(j, r)' <=> SetsRow(j, r)
        /\ ValueOf(Packet(j), r + Base(Packet(j)))' = ValueOf(Packet(j), r + Base(Packet(j)))
  BY <1>1 DEF SetsRow, Sets, ValueOf, Base
<1>3. CASE \E i \in 1..Len(down) :
             /\ SetsRow(i, r) /\ ValueOf(Packet(i), r + Base(Packet(i))) = rows[r]
             /\ \A j \in Behind : j > i => ~SetsRow(j, r)
  BY <1>1, <1>2, <1>3 DEF RowInv
<1>4. CASE Swapping(r)
  BY <1>4 DEF RowInv, Swapping
<1>5. CASE /\ SetsRow(0, r) /\ ValueOf(Packet(0), r + Base(Packet(0))) = rows[r]
           /\ \A j \in Behind : j > 0 => ~SetsRow(j, r)
  <2>1. Sets(p, r + Base(p)) /\ ValueOf(p, r + Base(p)) = rows[r]
    BY <1>1, <1>5 DEF SetsRow
  <2>2. \A j \in Behind' : ~SetsRow(j, r)'
    BY <1>1, <1>2, <1>5
  <2> QED
    BY <2>1, <2>2 DEF RowInv
<1>6. CASE (\A j \in Behind : ~SetsRow(j, r)) /\ (inv.truncated \/ inv.slots[r] = rows[r])
  <2>1. ~Sets(p, r + Base(p))
    BY <1>1, <1>6 DEF SetsRow
  <2>2. \A j \in Behind' : ~SetsRow(j, r)'
    BY <1>1, <1>2, <1>6
  <2> QED
    BY <1>6, <2>1, <2>2 DEF RowInv
<1> QED
  BY <1>1, <1>3, <1>4, <1>5, <1>6 DEF RowInv, Swapping

\* A step that says nothing of the rows and leaves the copy as it is.
LEMMA StillRow ==
  ASSUME UNCHANGED <<rows, lengths>>, inv' = inv,
         \A j \in 1..Len(up) : up[j].kind = "swap" => \E i \in 1..Len(up') : up'[i] = up[j],
         \A j \in Behind : j \in Behind' /\ Packet(j)' = Packet(j),
         \A j \in Behind' : j \in Behind \/ ~IsContent(Packet(j))',
         NEW r, RowInv(r)
  PROVE  RowInv(r)'
<1>1. \A j \in Behind :
        /\ SetsRow(j, r)' <=> SetsRow(j, r)
        /\ ValueOf(Packet(j), r + Base(Packet(j)))' = ValueOf(Packet(j), r + Base(Packet(j)))
  BY DEF SetsRow, Sets, ValueOf, Base
<1>2. \A j \in Behind' : SetsRow(j, r)' => j \in Behind /\ SetsRow(j, r)
  BY <1>1 DEF SetsRow, Sets, IsContent
<1>3. CASE \E i \in Behind :
             /\ SetsRow(i, r) /\ ValueOf(Packet(i), r + Base(Packet(i))) = rows[r]
             /\ \A j \in Behind : j > i => ~SetsRow(j, r)
  <2>1. PICK i \in Behind :
             /\ SetsRow(i, r) /\ ValueOf(Packet(i), r + Base(Packet(i))) = rows[r]
             /\ \A j \in Behind : j > i => ~SetsRow(j, r)
    BY <1>3
  <2>2. i \in Behind' /\ SetsRow(i, r)'
        /\ ValueOf(Packet(i), r + Base(Packet(i)))' = rows'[r]
    BY <1>1, <2>1
  <2>3. \A j \in Behind' : j > i => ~SetsRow(j, r)'
    BY <1>2, <2>1
  <2> QED
    BY <2>2, <2>3 DEF RowInv
<1>4. CASE Swapping(r)
  BY <1>4 DEF RowInv, Swapping
<1>5. CASE (\A j \in Behind : ~SetsRow(j, r)) /\ (inv.truncated \/ inv.slots[r] = rows[r])
  <2>1. \A j \in Behind' : ~SetsRow(j, r)'
    BY <1>2, <1>5
  <2> QED
    BY <1>5, <2>1 DEF RowInv
<1> QED
  BY <1>3, <1>4, <1>5 DEF RowInv, Swapping

\* Nothing is taken or told.
LEMMA StillBehind ==
  ASSUME down' = down,
         \/ reading' = reading
         \/ /\ reading.step \in {"window", "mirror", "inventory"}
                 <=> reading'.step \in {"window", "mirror", "inventory"}
            /\ reading.step \in {"window", "mirror", "inventory"} =>
                 reading'.packet = reading.packet
  PROVE  /\ \A j \in Behind : j \in Behind' /\ Packet(j)' = Packet(j)
         /\ \A j \in Behind' : j \in Behind
<1>1. Behind' = Behind
  BY DEF Behind, Coming
<1>2. \A j \in 1..Len(down) : j # 0
  OBVIOUS
<1>3. ASSUME NEW j \in Behind PROVE Packet(j)' = Packet(j)
  <2>1. CASE j = 0
    <3>1. 0 \in Behind => reading.step \in {"window", "mirror", "inventory"}
      BY <1>2 DEF Behind, Coming
    <3> QED
      BY <1>3, <2>1, <3>1 DEF Packet
  <2>2. CASE j # 0
    BY <2>2 DEF Packet
  <2> QED
    BY <2>1, <2>2
<1> QED
  BY <1>1, <1>3

\* Each row is spoken of by what overtakes OPENER's guess, or still to be answered.
LEMMA GuessRow ==
  ASSUME CoreInv, UpTyped, ThreadsTyped, GuessInv, GuessSwap, races' \subseteq {"crossed"},
         NEW r \in 1..Rows, RowInv(r)
  PROVE  RowInv(r)'
<1>1. /\ UNCHANGED <<rows, lengths, up, down, reading>> /\ at["opener"] = "guess"
  BY DEF GuessSwap, server, Goes
<1>2. /\ inv'.truncated = inv.truncated
      /\ r # my.slot /\ r # Rows => inv'.slots[r] = inv.slots[r]
  BY GuessFacts DEF CoreInv
<1>3. /\ \A j \in Behind : j \in Behind' /\ Packet(j)' = Packet(j)
      /\ \A j \in Behind' : j \in Behind
  BY <1>1, StillBehind
<1>4. \A j \in Behind :
        /\ SetsRow(j, r)' <=> SetsRow(j, r)
        /\ ValueOf(Packet(j), r + Base(Packet(j)))' = ValueOf(Packet(j), r + Base(Packet(j)))
  BY <1>1, <1>3 DEF SetsRow, Sets, ValueOf, Base
<1>5. CASE \E i \in Behind :
             /\ SetsRow(i, r) /\ ValueOf(Packet(i), r + Base(Packet(i))) = rows[r]
             /\ \A j \in Behind : j > i => ~SetsRow(j, r)
  <2>1. PICK i \in Behind :
             /\ SetsRow(i, r) /\ ValueOf(Packet(i), r + Base(Packet(i))) = rows[r]
             /\ \A j \in Behind : j > i => ~SetsRow(j, r)
    BY <1>5
  <2>2. i \in Behind' /\ SetsRow(i, r)'
        /\ ValueOf(Packet(i), r + Base(Packet(i)))' = rows'[r]
    BY <1>1, <1>3, <1>4, <2>1
  <2>3. \A j \in Behind' : j > i => ~SetsRow(j, r)'
    BY <1>3, <1>4, <2>1
  <2> QED
    BY <2>2, <2>3 DEF RowInv
<1>6. CASE Swapping(r)
  BY <1>1, <1>6 DEF RowInv, Swapping
<1>7. CASE (\A j \in Behind : ~SetsRow(j, r)) /\ (inv.truncated \/ inv.slots[r] = rows[r])
  <2>1. CASE r # my.slot /\ r # Rows
    <3>1. \A j \in Behind' : ~SetsRow(j, r)'
      BY <1>3, <1>4, <1>7
    <3> QED
      BY <1>1, <1>2, <1>7, <2>1, <3>1 DEF RowInv
  <2>2. CASE r \in {my.slot, Rows} /\ Unanswered
    <3>1. PICK i \in DOMAIN up : up[i].kind = "swap"
      BY <2>2 DEF Unanswered
    <3>2. CASE i \in 1..Len(up)
      <4>1. PICK j \in i..Len(up) : up[j].kind = "swap" /\ up[j].slot = my.slot
        BY <1>1, <3>1, <3>2 DEF GuessInv
      <4>2. j \in 1..Len(up)
        BY <3>2, <4>1
      <4> QED
        BY <1>1, <2>2, <4>1, <4>2 DEF RowInv
    <3> QED
      BY <3>2 DEF UpTyped
  <2>3. CASE r \in {my.slot, Rows} /\ ~Unanswered
    <3>1. Covered(r)
      <4>1. Covered(Rows) /\ Covered(my.slot)
        BY <2>3 DEF GuessSwap
      <4> QED
        BY <2>3, <4>1
    <3>2. PICK p \in Unheard :
            \/ p.kind = "window_items"
            \/ p.kind = "set_slot" /\ p.slot = r + (IF p.id = 0 THEN 0 ELSE lengths[p.id] - Rows)
      BY <3>1 DEF Covered
    <3>3. Sets(p, r + Base(p))
      BY <3>2 DEF Sets, Base
    <3>4. CASE \E i \in DOMAIN down : p = down[i]
      <4>1. PICK i \in 1..Len(down) : p = down[i]
        BY <3>4 DEF CoreInv, DownTyped
      <4>2. i \in Behind /\ Packet(i) = p
        BY <4>1 DEF Behind, Coming, Packet
      <4> QED
        BY <1>7, <3>3, <4>2 DEF SetsRow
    <3>5. CASE "packet" \in DOMAIN reading /\ p = reading.packet
      <4>1. reading # Nothing
        BY <3>5 DEF Nothing
      <4>2. reading.step \in {"window", "mirror", "inventory"}
        BY <3>2, <3>5, <4>1 DEF CoreInv, ReadingTyped
      <4>3. 0 \in Behind /\ Packet(0) = p
        BY <3>5, <4>2 DEF Behind, Coming, Packet
      <4> QED
        BY <1>7, <3>3, <4>3 DEF SetsRow
    <3> QED
      BY <3>4, <3>5 DEF Unheard
  <2> QED
    BY <2>1, <2>2, <2>3
<1> QED
  BY <1>5, <1>6, <1>7 DEF RowInv, Swapping

\* While OPENER is about to guess, the last swap on its way is its own.
LEMMA KeepsGuess ==
  ASSUME UpTyped, GuessInv, at["opener"] = "guess", my' = my,
         \/ up' = up
         \/ Answered
         \/ \E e \in Requests : Sends(e) /\ e.kind # "swap"
  PROVE  GuessInv'
<1> SUFFICES ASSUME NEW i \in 1..Len(up'), up'[i].kind = "swap"
             PROVE  \E j \in i..Len(up') : up'[j].kind = "swap" /\ up'[j].slot = my.slot
  BY DEF GuessInv
<1>1. CASE up' = up
  BY <1>1 DEF GuessInv
<1>2. CASE Answered
  <2>1. /\ Len(up') = Len(up) - 1 /\ Len(up) \in Nat \ {0}
        /\ \A n \in 1..(Len(up) - 1) : up'[n] = up[n + 1]
    BY <1>2, HeadTaken DEF Answered, UpTyped
  <2>2. i + 1 \in 1..Len(up) /\ up[i + 1].kind = "swap"
    BY <2>1
  <2>3. PICK k \in (i + 1)..Len(up) : up[k].kind = "swap" /\ up[k].slot = my.slot
    BY <2>2 DEF GuessInv
  <2>4. k - 1 \in i..Len(up') /\ k - 1 \in 1..(Len(up) - 1) /\ (k - 1) + 1 = k
    BY <2>1, <2>3
  <2>5. up'[k - 1] = up[k]
    BY <2>1, <2>4
  <2> QED
    BY <2>3, <2>4, <2>5
<1>3. CASE \E e \in Requests : Sends(e) /\ e.kind # "swap"
  <2>1. PICK e \in Requests : Sends(e) /\ e.kind # "swap"
    BY <1>3
  <2>2. /\ Len(up') = Len(up) + 1 /\ Len(up) \in Nat
        /\ \A n \in 1..Len(up) : up'[n] = up[n]
        /\ up'[Len(up) + 1] = e
    BY <2>1, Appended DEF Sends, UpTyped
  <2>3. i \in 1..Len(up)
    BY <2>1, <2>2
  <2>4. PICK k \in i..Len(up) : up[k].kind = "swap" /\ up[k].slot = my.slot
    BY <2>2, <2>3 DEF GuessInv
  <2>5. k \in i..Len(up') /\ k \in 1..Len(up)
    BY <2>2, <2>3
  <2> QED
    BY <2>2, <2>4, <2>5
<1> QED
  BY <1>1, <1>2, <1>3

LEMMA GuessStep ==
  ASSUME CoreInv, ThreadInv, GuessInv, [Next]_vars
  PROVE  GuessInv'
<1>1. /\ UpTyped /\ ThreadsTyped /\ at \in [Threads -> Points]
      /\ "opener" \in Threads /\ "closer" \in Threads
  BY DEF ThreadInv, ThreadsTyped, Threads
<1>2. SUFFICES ASSUME at'["opener"] = "guess"
               PROVE  GuessInv'
  BY DEF GuessInv
<1>3. CASE Server
  <2>1. UNCHANGED <<at, my>> /\ (up' = up \/ Answered)
    BY <1>3 DEF Server, ServerOpens, ServerIsSilent, ServerShuts, ServerHearsClose, ServerChanges,
       ServerMoves, ServerSwaps, ServerResyncs
  <2> QED
    BY <1>1, <1>2, <2>1, KeepsGuess
<1>4. CASE Reader
  <2>1. UNCHANGED <<at, my, up>>
    BY <1>1, <1>4, ReaderTyped
  <2> QED
    BY <1>1, <1>2, <2>1, KeepsGuess
<1>5. CASE WriteSwap
  <2> DEFINE e == [kind |-> "swap", id |-> 0, slot |-> my.slot, sid |-> inv.stateID]
  <2>1. up' = Append(up, e) /\ my' = my
    BY <1>5 DEF WriteSwap, Sends
  <2>2. e \in Requests /\ e.kind = "swap" /\ e.slot = my.slot
    BY <1>1 DEF ThreadsTyped, CoreInv, InvTyped, Requests
  <2> HIDE DEF e
  <2>3. Len(up') = Len(up) + 1 /\ Len(up) \in Nat /\ up'[Len(up) + 1] = e
    BY <1>1, <2>1, <2>2, Appended DEF UpTyped
  <2> SUFFICES ASSUME NEW i \in 1..Len(up')
               PROVE  \E j \in i..Len(up') : up'[j].kind = "swap" /\ up'[j].slot = my'.slot
    BY DEF GuessInv
  <2>4. Len(up) + 1 \in i..Len(up')
    BY <2>3
  <2> QED
    BY <2>1, <2>2, <2>3, <2>4
<1>6. CASE \E t \in Threads : ReadIDToClose(t) \/ MarkClosed(t) \/ WriteClose(t)
  <2>1. PICK t \in Threads : ReadIDToClose(t) \/ MarkClosed(t) \/ WriteClose(t)
    BY <1>6
  <2>2. \E to \in {"shut", "tell", "done", "rest"} : at' = [at EXCEPT ![t] = to]
    BY <2>1 DEF ReadIDToClose, MarkClosed, WriteClose, Goes
  <2>3. at["opener"] = "guess"
    BY <1>1, <1>2, <2>2
  <2>4. my' = my /\ (up' = up \/ Sends([kind |-> "close", id |-> closing[t]]))
    BY <2>1 DEF ReadIDToClose, MarkClosed, WriteClose
  <2>5. [kind |-> "close", id |-> closing[t]] \in Requests
    BY <1>1 DEF ThreadsTyped, Requests
  <2> QED
    BY <1>1, <2>3, <2>4, <2>5, KeepsGuess
<1>7. CASE Opener /\ ~WriteSwap
  <2>1. \E to \in Points \ {"guess"} : at' = [at EXCEPT !["opener"] = to]
    <3>1. CASE ReadSequence \/ Ask \/ PollOpen \/ PollSize \/ TickerFires \/ DeadlinePasses
      BY <3>1 DEF ReadSequence, Ask, PollOpen, PollSize, TickerFires, DeadlinePasses, Goes, Points
    <3>2. CASE PollSequence \/ RetryFires
      BY <3>2 DEF PollSequence, RetryFires, Goes, Points
    <3>3. CASE (\E slot \in 1..(Rows + 2) : SeeItem(slot) \/ FindItem(slot))
      BY <3>3 DEF SeeItem, FindItem, Goes, Points
    <3>4. CASE ReadWindowID \/ WriteClick \/ GuessSwap
      BY <3>4 DEF ReadWindowID, WriteClick, GuessSwap, Goes, Points
    <3> QED
      BY <1>7, <3>1, <3>2, <3>3, <3>4 DEF Opener
  <2> QED
    BY <1>1, <1>2, <2>1
<1>8. CASE UNCHANGED vars
  BY <1>8 DEF vars, GuessInv
<1> QED
  BY <1>3, <1>4, <1>5, <1>6, <1>7, <1>8 DEF Next

\* The server forgets its window, and says so, which is not about a row.
LEMMA ForgetsRow ==
  ASSUME CoreInv, UpTyped, Forgets, NEW r, RowInv(r)
  PROVE  RowInv(r)'
<1>1. /\ UNCHANGED <<rows, lengths, inv, reading>>
  BY ForgetsFacts
<1>2. CASE ServerShuts /\ up' = up /\ menu.id # 0
           /\ Tells(<<[kind |-> "close_window", id |-> menu.id]>>)
  <2> DEFINE p == [kind |-> "close_window", id |-> menu.id]
  <2>1. p \in Packets /\ p.kind = "close_window"
    BY DEF Packets, CoreInv, ServerTyped
  <2> HIDE DEF p
  <2>2. down' = down \o <<p>> /\ down \in Seq(Packets)
    BY <1>2 DEF Tells, p, CoreInv, DownTyped
  <2>4. /\ Len(down') = Len(down) + 1 /\ Len(down) \in Nat
        /\ \A i \in 1..Len(down) : down'[i] = down[i]
        /\ down'[Len(down) + 1] = p
    BY <2>1, <2>2, ToldOne
  <2>5. \A j \in Behind : j \in Behind' /\ Packet(j)' = Packet(j)
    BY <1>1, <2>4 DEF Behind, Coming, Packet
  <2>6. \A j \in Behind' : j \in Behind \/ ~IsContent(Packet(j))'
    <3> SUFFICES ASSUME NEW j \in Behind', j \notin Behind
                 PROVE  ~IsContent(Packet(j))'
      OBVIOUS
    <3>1. j = Len(down) + 1 /\ j # 0
      BY <1>1, <2>4 DEF Behind, Coming
    <3> QED
      BY <2>1, <2>4, <3>1 DEF IsContent, Packet
  <2> QED
    BY <1>1, <1>2, <2>5, <2>6, StillRow
<1>3. CASE ServerHearsClose /\ Head(up).id = menu.id /\ down' = down
  <2>1. SameNews(up', up, {"swap"})
    BY <1>3, TailNews DEF ServerHearsClose, Answered, UpTyped
  <2> QED
    BY <1>1, <1>3, <2>1, StillBehind, StillRow DEF SameNews
<1> QED
  BY <1>2, <1>3, ForgetsFacts

LEMMA InventoryStep ==
  ASSUME CoreInv, ThreadInv, IdInv, InventoryInv, [Next]_vars
  PROVE  InventoryInv'
<1>1. GuessInv'
  BY GuessStep DEF InventoryInv
<1>2. UpTyped /\ ThreadsTyped /\ ServerTyped /\ DownTyped /\ GuessInv
  BY DEF ThreadInv, CoreInv, InventoryInv
<1>3. SUFFICES ASSUME races' \subseteq {"crossed"}, NEW r \in 1..Rows
               PROVE  RowInv(r)'
  BY <1>1 DEF InventoryInv
<1>4. races \subseteq {"crossed"} => RowInv(r)
  BY DEF InventoryInv
<1>5. CASE \E stock \in Stocks : ServerOpens(stock)
  BY <1>5, OpensRow
<1>6. CASE ServerTalks
  <2>1. ServerTyped' /\ \E ps : Speaks(ps) /\ (up' = up \/ SaysSwap(ps))
    BY <1>2, <1>6, TalksSpeaks
  <2>2. PICK ps : Speaks(ps) /\ (up' = up \/ SaysSwap(ps))
    BY <2>1
  <2>3. up' = up \/ Answered
    BY <1>2, <1>6, TalksSpeaks
  <2>4. RowInv(r)
    BY <1>3, <1>4, <2>2 DEF Speaks
  <2> QED
    BY <1>2, <2>1, <2>2, <2>3, <2>4, SpeaksRow
<1>7. CASE Forgets
  <2>1. races' = races
    BY <1>7, ForgetsFacts
  <2> QED
    BY <1>2, <1>3, <1>4, <1>7, <2>1, ForgetsRow
<1>8. CASE ServerHearsClose /\ ~Forgets
  <2>1. UNCHANGED <<rows, lengths, inv, reading, down, races>>
    BY <1>8 DEF ServerHearsClose, copies
  <2>2. SameNews(up', up, {"swap"})
    BY <1>2, <1>8, TailNews DEF ServerHearsClose, Answered, UpTyped
  <2> QED
    BY <1>3, <1>4, <2>1, <2>2, StillBehind, StillRow DEF SameNews
<1>9. CASE TakeOpenWindow \/ TakeTradeList \/ TakeCloseWindow
             \/ TakeContents("window_items") \/ TakeContents("set_slot")
  <2>1. RowInv(r) /\ (IsContent(Head(down)) => reading'.step \in {"window", "inventory"})
    BY <1>3, <1>4, <1>9, TakenFacts
  <2> QED
    BY <1>9, <2>1, TakenFacts, TakesRow
<1>10. CASE ClearOffers
  <2>1. /\ UNCHANGED <<rows, lengths, inv, down, races, up>>
        /\ reading.step = "opened" /\ reading'.step = "rest"
    BY <1>10 DEF ClearOffers, server, Nothing
  <2> QED
    BY <1>3, <1>4, <2>1, StillBehind, StillRow
<1>11. CASE FillWindow
  <2>1. /\ UNCHANGED <<rows, lengths, inv, down, races, up>> /\ reading.step = "window"
        /\ reading' = [reading EXCEPT !.step = "mirror"]
    BY <1>11 DEF FillWindow, server
  <2>2. reading'.step = "mirror" /\ reading'.packet = reading.packet
    BY <2>1, ReadingFacts
  <2> QED
    BY <1>3, <1>4, <2>1, <2>2, StillBehind, StillRow
<1>12. CASE MirrorToInventory
  <2>1. PICK p : p = reading.packet
    OBVIOUS
  <2>2. /\ UNCHANGED <<rows, lengths, down, up>> /\ reading.step = "mirror" /\ reading' = Nothing
        /\ races \subseteq {"crossed"} /\ ~(p.kind = "window_items" /\ Decoded(p.items) # p.items)
    BY <1>3, <1>12, <2>1 DEF MirrorToInventory, server
  <2>3. IF Sets(p, r + Base(p))
        THEN inv'.slots[r] = ValueOf(p, r + Base(p))
        ELSE inv'.slots[r] = inv.slots[r] /\ inv'.truncated = inv.truncated
    BY <1>12, <2>1, <2>2, MirrorFacts
  <2> QED
    BY <1>3, <1>4, <2>1, <2>2, <2>3, DoneRow
<1>13. CASE FillInventory
  <2>1. PICK p : p = reading.packet
    OBVIOUS
  <2>2. /\ UNCHANGED <<rows, lengths, down, up, races>> /\ reading.step = "inventory"
        /\ reading' = Nothing
    BY <1>13 DEF FillInventory, server
  <2>3. r + Base(p) = r
    BY <2>1, <2>2, ReadingFacts DEF Base
  <2>4. IF Sets(p, r + Base(p))
        THEN inv'.truncated \/ inv'.slots[r] = ValueOf(p, r + Base(p))
        ELSE inv'.slots[r] = inv.slots[r] /\ inv'.truncated = inv.truncated
    BY <1>13, <2>1, <2>3, FillInventoryFacts
  <2> QED
    BY <1>3, <1>4, <2>1, <2>2, <2>4, DoneRow
<1>14. CASE Walks
  <2>1. UNCHANGED <<rows, lengths, inv, down, reading, races>>
    BY <1>14, WalksFrame
  <2>2. \A j \in 1..Len(up) : \E i \in 1..Len(up') : up'[i] = up[j]
    <3>1. CASE up' = up
      BY <3>1
    <3>2. CASE \E e : Makes(e) /\ Sends(e)
      <4>1. PICK e : Makes(e) /\ Sends(e)
        BY <3>2
      <4>2. e \in Requests
        BY <1>2, <4>1, MadeRequests
      <4>3. /\ Len(up') = Len(up) + 1 /\ Len(up) \in Nat
            /\ \A n \in 1..Len(up) : up'[n] = up[n]
        BY <1>2, <4>1, <4>2, Appended DEF Sends, UpTyped
      <4>4. \A n \in 1..Len(up) : n \in 1..Len(up')
        BY <4>3
      <4> QED
        BY <4>3, <4>4
    <3> QED
      BY <1>14, <3>1, <3>2, WalksMake
  <2> QED
    BY <1>3, <1>4, <2>1, <2>2, StillBehind, StillRow
<1>15. CASE GuessSwap
  <2>1. races \subseteq {"crossed"}
    BY <1>3, <1>15 DEF GuessSwap
  <2> QED
    BY <1>2, <1>3, <1>4, <1>15, <2>1, GuessRow
<1>16. CASE \E t \in Threads : MarkClosed(t)
  <2>1. UNCHANGED <<rows, lengths, inv, down, reading, up>> /\ races \subseteq {"crossed"}
    BY <1>3, <1>16 DEF MarkClosed, server
  <2> QED
    BY <1>3, <1>4, <2>1, StillBehind, StillRow
<1>17. CASE UNCHANGED vars
  <2>1. UNCHANGED <<rows, lengths, inv, down, reading, up, races>>
    BY <1>17 DEF vars
  <2> QED
    BY <1>3, <1>4, <2>1, StillBehind, StillRow
<1> QED
  BY <1>5, <1>6, <1>7, <1>8, <1>9, <1>10, <1>11, <1>12, <1>13, <1>14, <1>15, <1>16, <1>17
  DEF Next, Server, Reader, Opener, ServerTalks, Forgets, Walks

-----------------------------------------------------------------------------
(* The theorems.                                                           *)

Inv == CoreInv /\ ThreadInv /\ IdInv /\ StampInv /\ WindowInv /\ InventoryInv

LEMMA InitInv == Init => Inv
<1> SUFFICES ASSUME Init
             PROVE  Inv
  OBVIOUS
<1>1. /\ menu = [id |-> 0, own |-> <<>>] /\ stamp = [player |-> 0, window |-> 0]
      /\ lengths = <<>> /\ up = <<>> /\ down = <<>> /\ Len(lengths) = 0
      /\ Len(up) = 0 /\ Len(down) = 0
      /\ offers = 0 /\ reading = Nothing /\ reading.step = "rest" /\ races = {}
      /\ my = [before |-> 0, slot |-> 0, id |-> 0]
      /\ \A t \in Threads : at[t] = "rest"
      /\ at = [t \in Threads |-> "rest"] /\ closing = [t \in Threads |-> 0]
  BY DEF Init, Nothing, Idle
<1>2. view = [open |-> FALSE, id |-> 0, slots |-> <<>>, declared |-> 0, decoded |-> 0,
              trimmed |-> FALSE, stateID |-> 0, sequence |-> 0]
      /\ inv = [slots |-> rows, truncated |-> FALSE, stateID |-> 0]
  BY DEF Init
<1>3. rows \in [1..Rows -> Items]
  BY DEF Init, Items
<1>4. ServerTyped
  BY <1>1, <1>3, WindowsAssumption DEF ServerTyped, Extent
<1>5. DownTyped /\ ViewTyped /\ ReadingTyped
  BY <1>1, <1>2 DEF DownTyped, ViewTyped, ReadingTyped
<1>6. InvTyped
  BY <1>2, <1>3 DEF InvTyped
<1>7. Ordered
  BY <1>1, <1>2 DEF Ordered
<1>8. ShapeInv
  BY <1>1, <1>2 DEF ShapeInv, ShownInv, SetsComeAfter, OpenIsFilled
<1>9. ThreadInv
  BY <1>1 DEF ThreadInv, UpTyped, ThreadsTyped, Points, Threads
<1>10. IdInv
  BY <1>1 DEF IdInv
<1>11. StampInv /\ WindowInv
  BY <1>1 DEF StampInv, WindowInv, Followed
<1>12. InventoryInv
  <2>1. Behind = {}
    BY <1>1 DEF Behind, Coming
  <2>2. GuessInv
    BY <1>1 DEF GuessInv
  <2>3. \A r \in 1..Rows : RowInv(r)
    BY <1>2, <2>1 DEF RowInv
  <2> QED
    BY <2>2, <2>3 DEF InventoryInv
<1> QED
  BY <1>4, <1>5, <1>6, <1>7, <1>8, <1>9, <1>10, <1>11, <1>12 DEF Inv, CoreInv

\* The inductive invariant: both ends are right up to what is on its way.
THEOREM RightUpToTheLastWord == Spec => []Inv
<1>1. Inv /\ [Next]_vars => Inv'
  BY CoreStep, ThreadStep, IdStep, StampStep, WindowStep, InventoryStep DEF Inv
<1> QED
  BY InitInv, <1>1, PTL DEF Spec

\* ShapeSurvives: whatever decodes of a window's items, the client shows as many
\* slots of it as it was opened with.
THEOREM ShapeSurvivesAlways == Spec => []ShapeSurvives
<1>1. Inv => ShapeSurvives
  <2> SUFFICES ASSUME Inv, view.slots # <<>>
               PROVE  Size(view) = lengths[view.sequence]
    BY DEF ShapeSurvives
  <2>1. Len(view.slots) = lengths[view.sequence] /\ view.declared = Len(view.slots)
    BY DEF Inv, CoreInv, ShapeInv, ShownInv
  <2> QED
    BY <2>1 DEF Size
<1> QED
  BY RightUpToTheLastWord, <1>1, PTL

\* WindowInStep: once nothing is on its way both ends have the same window open,
\* with the same state id and the same items, unless CloseContainer crossed another
\* window's opening.
THEOREM WindowInStepAlways == Spec => []WindowInStep
<1>1. Inv => WindowInStep
  <2> SUFFICES ASSUME Inv, Quiet, "crossed" \notin races
               PROVE  /\ view.id = menu.id
                      /\ menu.id # 0 => /\ view.stateID = stamp.window
                                        /\ view.trimmed \/ view.slots = Contents
    BY DEF WindowInStep
  <2>1. /\ ServerTyped /\ ViewTyped /\ Len(up) = 0 /\ Len(down) = 0
        /\ reading.step # "window" /\ \A t \in Threads : at[t] # "tell"
    BY DEF Inv, CoreInv, Quiet, Nothing, Threads
  <2>2. /\ menu.id \in {0, Len(lengths)} /\ Len(lengths) \in Nat /\ view.sequence \in 0..Len(lengths)
        /\ view.id \in {0, view.sequence} /\ lengths \in Seq(Nat)
    BY <2>1 DEF ServerTyped, ViewTyped
  <2>3. view.sequence = Len(lengths)
    <3>1. \A n \in (view.sequence + 1)..Len(lengths) : FALSE
      BY <2>1 DEF Inv, CoreInv, Ordered
    <3> QED
      BY <2>2, <3>1
  <2>4. view.id = menu.id
    <3>1. CASE menu.id = 0
      <4>1. lengths # <<>> => view.id # Len(lengths)
        BY <2>1, <3>1 DEF Inv, IdInv
      <4>2. lengths = <<>> => Len(lengths) = 0
        OBVIOUS
      <4> QED
        BY <2>2, <2>3, <3>1, <4>1, <4>2
    <3>2. CASE menu.id # 0
      <4>1. view.id # 0
        BY <2>1, <2>2, <2>3, <3>2 DEF Inv, IdInv
      <4> QED
        BY <2>2, <2>3, <3>2, <4>1
    <3> QED
      BY <3>1, <3>2
  <2>5. ASSUME menu.id # 0
        PROVE  view.stateID = stamp.window /\ (view.trimmed \/ view.slots = Contents)
    <3>1. Followed
      BY <2>4, <2>5 DEF Followed
    <3>2. view.stateID = stamp.window
      BY <2>1, <3>1 DEF Inv, StampInv
    <3>3. Ahead = {}
      BY <2>1 DEF Ahead, Coming
    <3>4. \A s \in 1..lengths[menu.id] :
            view.slots # <<>> /\ (view.trimmed \/ view.slots[s] = Contents[s])
      BY <3>1, <3>3 DEF Inv, WindowInv, SlotInv
    <3>5. menu.id = Len(lengths) /\ lengths[menu.id] \in Nat /\ lengths[menu.id] > Rows
      BY <2>1, <2>2, <2>5 DEF ServerTyped
    <3>6. 1 \in 1..lengths[menu.id]
      BY <3>5, WindowsAssumption
    <3>7. Len(view.slots) = lengths[menu.id] /\ view.slots \in Seq(Items)
      BY <2>1, <2>3, <3>4, <3>5, <3>6 DEF Inv, CoreInv, ShapeInv, ShownInv, ViewTyped
    <3>8. Len(Contents) = lengths[menu.id] /\ Contents \in Seq(Items)
      BY <2>1, <2>5, OpenFacts DEF Extent
    <3>9. CASE ~view.trimmed
      <4>1. \A s \in 1..Len(view.slots) : view.slots[s] = Contents[s]
        BY <3>4, <3>7, <3>9
      <4>2. PICK w \in Seq(Items) : w = view.slots
        BY <3>7
      <4>3. PICK c \in Seq(Items) : c = Contents
        BY <3>8
      <4>4. Len(w) = Len(c) /\ \A s \in 1..Len(w) : w[s] = c[s]
        BY <3>7, <3>8, <4>1, <4>2, <4>3
      <4>5. w = c
        BY <4>4, SeqEqual
      <4> QED
        BY <3>2, <4>2, <4>3, <4>5
    <3> QED
      BY <3>2, <3>9
  <2> QED
    BY <2>4, <2>5
<1> QED
  BY RightUpToTheLastWord, <1>1, PTL

\* InventoryInStep: and the client has the player's own items, unless it closed a
\* window on an update's way or guessed after the answer.
THEOREM InventoryInStepAlways == Spec => []InventoryInStep
<1>1. Inv => InventoryInStep
  <2> SUFFICES ASSUME Inv, Quiet, races \subseteq {"crossed"}, ~inv.truncated
               PROVE  inv.slots = rows
    BY DEF InventoryInStep
  <2>1. Len(up) = 0 /\ Len(down) = 0 /\ Behind = {}
    BY DEF Quiet, Nothing, Behind, Coming
  <2>2. \A r \in 1..Rows : inv.slots[r] = rows[r]
    BY <2>1 DEF Inv, InventoryInv, RowInv
  <2>3. inv.slots \in [1..Rows -> Items] /\ rows \in [1..Rows -> Items]
    BY DEF Inv, CoreInv, InvTyped, ServerTyped
  <2>4. /\ inv.slots = [r \in 1..Rows |-> inv.slots[r]]
        /\ rows = [r \in 1..Rows |-> rows[r]]
    BY <2>3
  <2>5. [r \in 1..Rows |-> inv.slots[r]] = [r \in 1..Rows |-> rows[r]]
    BY <2>2
  <2> QED
    BY <2>4, <2>5
<1> QED
  BY RightUpToTheLastWord, <1>1, PTL

\* OpensOnFresh: OpenContainer succeeds on a window newer than the one it saw first,
\* with all its slots, and no offers of an earlier merchant's.
THEOREM OpensOnFreshAlways == Spec => OpensOnFresh
<1>1. Inv /\ [Next]_vars =>
        [at["opener"] = "size" /\ at'["opener"] = "opened" =>
           /\ view.sequence > my.before
           /\ Len(view.slots) = lengths[view.sequence]
           /\ offers \in {0, view.sequence}]_vars
  <2> SUFFICES ASSUME Inv, [Next]_vars, at["opener"] = "size", at'["opener"] = "opened"
               PROVE  /\ view.sequence > my.before
                      /\ Len(view.slots) = lengths[view.sequence]
                      /\ offers \in {0, view.sequence}
    OBVIOUS
  <2>1. at \in [Threads -> Points] /\ "opener" \in Threads
    BY DEF Inv, ThreadInv, ThreadsTyped, Threads
  <2>2. CASE PollSize
    <3>1. Size(view) > 0
      BY <2>1, <2>2 DEF PollSize, Goes
    <3>2. view.slots # <<>>
      <4>1. view.declared = Len(view.slots)
        BY DEF Inv, CoreInv, ShapeInv, ShownInv
      <4>2. Len(view.slots) > 0
        BY <3>1, <4>1 DEF Size
      <4> QED
        BY <4>2
    <3>3. view.sequence > my.before
      BY DEF Inv, ThreadInv, ThreadsTyped
    <3> QED
      BY <3>2, <3>3 DEF Inv, CoreInv, ShapeInv, ShownInv
  <2>3. CASE Server \/ Reader \/ UNCHANGED vars
    <3>1. at' = at
      <4>1. CASE Server
        BY <4>1 DEF Server, ServerOpens, ServerIsSilent, ServerShuts, ServerHearsClose,
           ServerChanges, ServerMoves, ServerSwaps, ServerResyncs
      <4>2. CASE Reader
        BY <4>2, ReaderTyped DEF Inv, ThreadInv
      <4> QED
        BY <2>3, <4>1, <4>2 DEF vars
    <3> QED
      BY <3>1
  <2>4. CASE \E t \in Threads : ReadIDToClose(t) \/ MarkClosed(t) \/ WriteClose(t)
    <3>1. \E t \in Threads, to \in {"shut", "tell", "done", "rest"} : at' = [at EXCEPT ![t] = to]
      BY <2>4 DEF ReadIDToClose, MarkClosed, WriteClose, Goes
    <3> QED
      BY <2>1, <3>1
  <2>5. CASE Opener /\ ~PollSize
    <3>1. CASE ReadSequence \/ Ask \/ PollOpen \/ TickerFires \/ DeadlinePasses
      BY <3>1 DEF ReadSequence, Ask, PollOpen, TickerFires, DeadlinePasses, Goes
    <3>2. CASE PollSequence \/ RetryFires
      BY <3>2 DEF PollSequence, RetryFires, Goes
    <3>3. CASE (\E slot \in 1..(Rows + 2) : SeeItem(slot) \/ FindItem(slot))
      BY <3>3 DEF SeeItem, FindItem, Goes
    <3>4. CASE ReadWindowID \/ WriteClick \/ WriteSwap \/ GuessSwap
      BY <3>4 DEF ReadWindowID, WriteClick, WriteSwap, GuessSwap, Goes
    <3> QED
      BY <2>5, <3>1, <3>2, <3>3, <3>4 DEF Opener
  <2> QED
    BY <2>2, <2>3, <2>4, <2>5 DEF Next
<1> QED
  BY RightUpToTheLastWord, <1>1, PTL DEF Spec, OpensOnFresh
=============================================================================
