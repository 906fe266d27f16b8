--------------------------- MODULE TransfersProofs ---------------------------
(***************************************************************************)
(* Proofs about Transfers, for windows of any size, stacks of any height   *)
(* and any verbs one after another.                                        *)
(*                                                                         *)
(* NewsInv is what the client may rely on while nobody interferes: every   *)
(* slot it has wrong is the subject of a word on its way, and a click the  *)
(* server will act on was sent with none on its way.  So a whole stack is  *)
(* taken only where it was seen (QuickInv), and of what is placed one by   *)
(* one at most one click is ever acted on too many, which Promised counts  *)
(* with what is still to be placed (PartInv).  That bounds every transfer. *)
(*                                                                         *)
(* While the server keeps up too, a pause begins with one fresh click and  *)
(* ends with none (CleanInv), and every item is accounted for on the       *)
(* cursor, in the source or in the destination (HandInv, MovedInv) until   *)
(* the verb has returned and Done says what it promised.                   *)
(***************************************************************************)
EXTENDS Transfers, FiniteSetTheorems, WellFoundedInduction, TLAPS

\* The last slot, and what a window may hold.
Last == Own + Rows
Windows == [Slots -> Stacks]

-----------------------------------------------------------------------------
(* Functions by recursion on the slots.                                    *)

\* The slots are an interval of two ranges that are apart.
LEMMA SlotFacts ==
  /\ Last \in Nat /\ Last >= 2 /\ Slots = 1..Last
  /\ OwnSlots \subseteq Slots /\ PlayerRows \subseteq Slots /\ OwnSlots \cap PlayerRows = {}
  /\ Slots = OwnSlots \cup PlayerRows
BY TransfersAssumption DEF Last, Slots, OwnSlots, PlayerRows

\* A set with 0 in it, and with every slot whose predecessor it has, has them all.
LEMMA Upwards ==
  ASSUME NEW T, 0 \in T, \A s \in 1..Last : s - 1 \in T => s \in T
  PROVE  \A s \in 0..Last : s \in T
<1> DEFINE B == {s \in Nat : s <= Last /\ s \notin T}
<1> SUFFICES ASSUME B # {} PROVE FALSE
  BY SlotFacts
<1>1. IsWellFoundedOn(OpToRel(<, Nat), Nat)
  BY NatLessThanWellFounded
<1>2. B \subseteq Nat
  OBVIOUS
<1>3. PICK x \in B : \A y \in B : ~(<<y, x>> \in OpToRel(<, Nat))
  <2> HIDE DEF B
  <2> QED BY <1>1, <1>2, WFMin
<1>4. \A y \in B : ~(y < x)
  BY <1>3 DEF OpToRel
<1>5. x \in 1..Last /\ x - 1 \in Nat /\ x - 1 <= Last
  BY SlotFacts
<1>6. x - 1 \notin B
  <2> HIDE DEF B
  <2>1. x - 1 < x
    BY <1>5
  <2> QED BY <1>4, <2>1
<1> QED BY <1>5, <1>6

\* A function defined by recursion on the slots, given step by step by G.
LEMMA RecursionExists ==
  ASSUME NEW S, NEW a \in S, NEW G \in [Slots -> [S -> S]]
  PROVE  \E f \in [0..Last -> S] : f[0] = a /\ \A s \in Slots : f[s] = G[s][f[s - 1]]
<1> DEFINE Upto(n, f) == f \in [0..n -> S] /\ f[0] = a /\ \A s \in 1..n : f[s] = G[s][f[s - 1]]
           T == {n \in 0..Last : \E f : Upto(n, f)}
<1>1. 0 \in T
  <2>1. Upto(0, [s \in 0..0 |-> a])
    OBVIOUS
  <2>2. 0 \in 0..Last
    BY SlotFacts
  <2> HIDE DEF Upto
  <2> QED BY <2>1, <2>2
<1>2. ASSUME NEW n \in 1..Last, n - 1 \in T PROVE n \in T
  <2>1. PICK f : Upto(n - 1, f)
    BY <1>2
  <2>0. n \in Slots /\ n \in Nat /\ n - 1 \in 0..(n - 1) /\ n - 1 \in Nat /\ n \in 0..Last /\ n # 0
    BY SlotFacts
  <2> DEFINE g == [s \in 0..n |-> IF s = n THEN G[n][f[n - 1]] ELSE f[s]]
  <2>2. f \in [0..(n - 1) -> S] /\ f[0] = a /\ \A s \in 1..(n - 1) : f[s] = G[s][f[s - 1]]
    BY <2>1
  <2>3. G[n][f[n - 1]] \in S
    <3>1. f[n - 1] \in S /\ G[n] \in [S -> S]
      BY <2>0, <2>2
    <3> QED BY <3>1
  <2>4. \A s \in 0..n : s # n => s \in 0..(n - 1)
    BY <2>0
  <2>5. g \in [0..n -> S]
    BY <2>2, <2>3, <2>4
  <2>6. g[0] = a
    BY <2>0, <2>2
  <2>7. ASSUME NEW s \in 1..n PROVE g[s] = G[s][g[s - 1]]
    <3>1. s - 1 \in 0..n /\ s - 1 # n /\ s \in 0..n
      BY <2>0
    <3>2. g[s - 1] = f[s - 1]
      BY <3>1
    <3>3. CASE s = n
      BY <3>1, <3>2, <3>3
    <3>4. CASE s # n
      <4>1. s \in 1..(n - 1)
        BY <2>0, <3>4
      <4>2. g[s] = f[s]
        BY <3>1, <3>4
      <4> QED BY <4>1, <4>2, <3>2, <2>2, Zenon
    <3> QED BY <3>3, <3>4
  <2>8. Upto(n, g)
    BY <2>5, <2>6, <2>7
  <2> HIDE DEF Upto
  <2> QED BY <2>8, <2>0
<1>3. Last \in T
  <2> HIDE DEF T
  <2>1. \A s \in 0..Last : s \in T
    BY <1>1, <1>2, Upwards
  <2> QED BY <2>1, SlotFacts
<1> QED BY <1>3, SlotFacts

-----------------------------------------------------------------------------
(* Counting.                                                               *)

\* What a stack is.
LEMMA StackFacts ==
  /\ MaxStack \in Nat \ {0} /\ Empty \in Stacks
  /\ \A x \in Stacks : /\ x = Empty \/ (x.item \in {"a", "b"} /\ x.count \in 1..MaxStack)
                       /\ Holds(x) \in Nat
  /\ \A i \in {"a", "b"}, n \in 0..MaxStack : Stack(i, n) \in Stacks
BY TransfersAssumption DEF Stacks, Empty, Holds, Stack

\* The sum by which Count is defined.
LEMMA CountSum ==
  ASSUME NEW w \in Windows, NEW R
  PROVE  \E sum \in [0..Last -> Nat] :
           /\ sum[0] = 0 /\ Count(w, R) = sum[Last]
           /\ \A s \in Slots : sum[s] = sum[s - 1] + (IF s \in R THEN Holds(w[s]) ELSE 0)
<1> DEFINE h(s) == IF s \in R THEN Holds(w[s]) ELSE 0
           G == [s \in Slots |-> [x \in Nat |-> x + h(s)]]
           P(u) == u = [s \in 0..(Own + Rows) |->
                          IF s = 0 THEN 0 ELSE u[s - 1] + (IF s \in R THEN Holds(w[s]) ELSE 0)]
<1>1. \A s \in Slots : h(s) \in Nat
  BY StackFacts DEF Windows
<1>2. G \in [Slots -> [Nat -> Nat]]
  <2> HIDE DEF h
  <2> QED BY <1>1
<1>3. PICK f \in [0..Last -> Nat] : f[0] = 0 /\ \A s \in Slots : f[s] = G[s][f[s - 1]]
  <2> HIDE DEF G
  <2>1. PICK S : S = Nat
    OBVIOUS
  <2>2. PICK z \in S : z = 0
    BY <2>1
  <2>3. G \in [Slots -> [S -> S]]
    BY <1>2, <2>1, Zenon
  <2>4. \E f \in [0..Last -> S] : f[0] = z /\ \A s \in Slots : f[s] = G[s][f[s - 1]]
    BY <2>3, RecursionExists
  <2> QED BY <2>1, <2>2, <2>4, Zenon
<1>4. \A s \in Slots : s - 1 \in 0..Last /\ s # 0
  BY SlotFacts
<1>5. \A s \in Slots : f[s] = f[s - 1] + h(s)
  <2> HIDE DEF h
  <2> QED BY <1>3, <1>4
<1>6. P(f)
  <2>1. \A s \in 0..Last : s = 0 \/ s \in Slots
    BY SlotFacts
  <2> QED BY <2>1, <1>3, <1>5 DEF Last
<1>7. Count(w, R) = (CHOOSE u : P(u))[Own + Rows]
  BY DEF Count
<1> DEFINE sum == CHOOSE u : P(u)
<1>8. P(sum)
  <2> HIDE DEF P
  <2> QED BY <1>6
<1>9. Count(w, R) = sum[Last]
  BY <1>7 DEF Last
<1> HIDE DEF sum
<1>10. sum[0] = 0 /\ \A s \in Slots : sum[s] = sum[s - 1] + h(s)
  <2>1. 0 \in 0..Last /\ \A s \in Slots : s \in 0..Last
    BY SlotFacts
  <2> QED BY <2>1, <1>4, <1>8 DEF Last
<1>11. \A s \in 0..Last : sum[s] \in Nat
  <2> DEFINE T == {s \in 0..Last : sum[s] \in Nat}
  <2>1. 0 \in T
    BY <1>10, SlotFacts
  <2>2. ASSUME NEW s \in 1..Last, s - 1 \in T PROVE s \in T
    <3>1. s \in Slots /\ s \in 0..Last /\ sum[s - 1] \in Nat
      BY <2>2, SlotFacts
    <3>2. sum[s] = sum[s - 1] + h(s) /\ h(s) \in Nat
      <4> HIDE DEF h
      <4> QED BY <3>1, <1>1, <1>10
    <3>3. sum[s] \in Nat
      <4> HIDE DEF h
      <4> QED BY <3>1, <3>2
    <3> QED BY <3>1, <3>3
  <2> HIDE DEF T
  <2>3. \A s \in 0..Last : s \in T
    BY <2>1, <2>2, Upwards
  <2> QED BY <2>3 DEF T
<1>12. sum \in [0..Last -> Nat]
  BY <1>8, <1>11 DEF Last
<1> QED BY <1>9, <1>10, <1>12

\* Changing a slot changes what is counted by what the slot holds.
LEMMA CountUpdate ==
  ASSUME NEW w \in Windows, NEW u \in Windows, NEW t \in Slots, NEW R,
         \A s \in (Slots \cap R) \ {t} : Holds(u[s]) = Holds(w[s])
  PROVE  /\ Count(w, R) \in Nat /\ Count(u, R) \in Nat
         /\ Count(u, R) = Count(w, R) + (IF t \in R THEN Holds(u[t]) - Holds(w[t]) ELSE 0)
<1>1. PICK f \in [0..Last -> Nat] :
        /\ f[0] = 0 /\ Count(w, R) = f[Last]
        /\ \A s \in Slots : f[s] = f[s - 1] + (IF s \in R THEN Holds(w[s]) ELSE 0)
  BY CountSum
<1>2. PICK g \in [0..Last -> Nat] :
        /\ g[0] = 0 /\ Count(u, R) = g[Last]
        /\ \A s \in Slots : g[s] = g[s - 1] + (IF s \in R THEN Holds(u[s]) ELSE 0)
  BY CountSum
<1> DEFINE d == IF t \in R THEN Holds(u[t]) - Holds(w[t]) ELSE 0
           T == {s \in 0..Last : g[s] = f[s] + (IF s < t THEN 0 ELSE d)}
<1>3. \A s \in Slots : Holds(w[s]) \in Nat /\ Holds(u[s]) \in Nat
  BY StackFacts DEF Windows
<1>4. 0 \in T
  BY <1>1, <1>2, SlotFacts
<1>5. ASSUME NEW s \in 1..Last, s - 1 \in T PROVE s \in T
  <2>1. s \in Slots /\ s - 1 \in 0..Last /\ s \in 0..Last /\ t \in 1..Last
    BY SlotFacts
  <2>2. PICK x \in Nat, y \in Nat, v \in Nat, z \in Nat :
          x = f[s - 1] /\ y = g[s - 1] /\ v = f[s] /\ z = g[s]
    BY <2>1
  <2>3. PICK hw \in Nat, hu \in Nat, tw \in Nat, tu \in Nat :
          hw = Holds(w[s]) /\ hu = Holds(u[s]) /\ tw = Holds(w[t]) /\ tu = Holds(u[t])
    BY <1>3, <2>1
  <2>4. v = x + (IF s \in R THEN hw ELSE 0) /\ z = y + (IF s \in R THEN hu ELSE 0)
    BY <1>1, <1>2, <2>1, <2>2, <2>3
  <2>5. y = x + (IF s - 1 < t THEN 0 ELSE IF t \in R THEN tu - tw ELSE 0)
    BY <1>5, <2>2, <2>3
  <2>6. s # t /\ s \in R => hu = hw
    BY <2>1, <2>3
  <2>7. s = t => hu = tu /\ hw = tw
    BY <2>3
  <2>8. z = v + (IF s < t THEN 0 ELSE IF t \in R THEN tu - tw ELSE 0)
    BY <2>1, <2>4, <2>5, <2>6, <2>7
  <2> QED BY <2>1, <2>2, <2>3, <2>8
<1>6. \A s \in 0..Last : s \in T
  <2> HIDE DEF T
  <2> QED BY <1>4, <1>5, Upwards
<1>7. Last \in 0..Last /\ ~(Last < t)
  BY SlotFacts
<1>8. g[Last] = f[Last] + d
  BY <1>6, <1>7
<1> QED BY <1>1, <1>2, <1>7, <1>8

\* A range holds at least what each of its slots holds ...
LEMMA CountAtLeast ==
  ASSUME NEW w \in Windows, NEW R, NEW t \in Slots, t \in R
  PROVE  Count(w, R) \in Nat /\ Holds(w[t]) <= Count(w, R)
<1> DEFINE u == [w EXCEPT ![t] = Empty]
<1>1. u \in Windows /\ u[t] = Empty /\ \A s \in Slots \ {t} : u[s] = w[s]
  BY StackFacts DEF Windows
<1>2. Holds(Empty) = 0 /\ Holds(w[t]) \in Nat
  BY StackFacts DEF Windows, Holds, Empty
<1> HIDE DEF u
<1>3. /\ Count(w, R) \in Nat /\ Count(u, R) \in Nat
      /\ Count(u, R) = Count(w, R) + (Holds(u[t]) - Holds(w[t]))
  BY <1>1, CountUpdate
<1> QED BY <1>1, <1>2, <1>3

\* ... and nothing if none of them holds anything.
LEMMA CountNothing ==
  ASSUME NEW w \in Windows, NEW R, \A s \in Slots \cap R : Holds(w[s]) = 0
  PROVE  Count(w, R) = 0
<1>1. PICK f \in [0..Last -> Nat] :
        /\ f[0] = 0 /\ Count(w, R) = f[Last]
        /\ \A s \in Slots : f[s] = f[s - 1] + (IF s \in R THEN Holds(w[s]) ELSE 0)
  BY CountSum
<1> DEFINE T == {s \in 0..Last : f[s] = 0}
<1>2. 0 \in T
  BY <1>1, SlotFacts
<1>3. ASSUME NEW s \in 1..Last, s - 1 \in T PROVE s \in T
  <2>1. s \in Slots /\ s \in 0..Last /\ f[s - 1] = 0
    BY <1>3, SlotFacts
  <2>2. s \in R => Holds(w[s]) = 0
    BY <2>1
  <2>3. f[s] = 0 + 0
    BY <2>1, <2>2, <1>1
  <2> QED BY <2>1, <2>3
<1>4. \A s \in 0..Last : s \in T
  <2> HIDE DEF T
  <2> QED BY <1>2, <1>3, Upwards
<1> QED BY <1>1, <1>4, SlotFacts

\* Only what the slots of a range hold matters to what it holds.
LEMMA CountSame ==
  ASSUME NEW w \in Windows, NEW u \in Windows, NEW R,
         \A s \in Slots \cap R : Holds(u[s]) = Holds(w[s])
  PROVE  Count(u, R) = Count(w, R) /\ Count(w, R) \in Nat
<1>1. PICK f \in [0..Last -> Nat] :
        /\ f[0] = 0 /\ Count(w, R) = f[Last]
        /\ \A s \in Slots : f[s] = f[s - 1] + (IF s \in R THEN Holds(w[s]) ELSE 0)
  BY CountSum
<1>2. PICK g \in [0..Last -> Nat] :
        /\ g[0] = 0 /\ Count(u, R) = g[Last]
        /\ \A s \in Slots : g[s] = g[s - 1] + (IF s \in R THEN Holds(u[s]) ELSE 0)
  BY CountSum
<1> DEFINE T == {s \in 0..Last : f[s] = g[s]}
<1>3. 0 \in T
  BY <1>1, <1>2, SlotFacts
<1>4. ASSUME NEW s \in 1..Last, s - 1 \in T PROVE s \in T
  <2>1. s \in Slots /\ f[s - 1] = g[s - 1] /\ s \in 0..Last
    BY <1>4, SlotFacts
  <2>2. (IF s \in R THEN Holds(u[s]) ELSE 0) = (IF s \in R THEN Holds(w[s]) ELSE 0)
    BY <2>1
  <2> QED BY <2>1, <2>2, <1>1, <1>2
<1>5. \A s \in 0..Last : s \in T
  <2> HIDE DEF T
  <2> QED BY <1>3, <1>4, Upwards
<1>6. Last \in 0..Last
  BY SlotFacts
<1> QED BY <1>1, <1>2, <1>5, <1>6

-----------------------------------------------------------------------------
(* What the server does with a window.                                     *)

Word == [slot : Slots, stack : Stacks]

\* What the news says of a change.
Tells(news, old, new) ==
  /\ news \in Seq(Word)
  /\ \A i \in 1..Len(news) :
       news[i].stack = new[news[i].slot] /\ new[news[i].slot] # old[news[i].slot]
  /\ \A s \in Slots : new[s] # old[s] => \E i \in 1..Len(news) : news[i].slot = s

\* The news of a change is one word for each slot that changed.
LEMMA NewsFacts ==
  ASSUME NEW old \in Windows, NEW new \in Windows
  PROVE  Tells(News(old, new), old, new)
<1> DEFINE word(s) == [slot |-> s, stack |-> new[s]]
           G == [s \in Slots |-> [x \in Seq(Word) |->
                   IF new[s] = old[s] THEN x ELSE Append(x, word(s))]]
           P(u) == u = [s \in 0..(Own + Rows) |->
                          IF s = 0 THEN <<>>
                          ELSE IF new[s] = old[s] THEN u[s - 1]
                          ELSE Append(u[s - 1], [slot |-> s, stack |-> new[s]])]
<1>1. \A s \in Slots : word(s) \in Word /\ word(s).slot = s /\ word(s).stack = new[s]
  BY DEF Word, Windows
<1>2. G \in [Slots -> [Seq(Word) -> Seq(Word)]]
  <2> HIDE DEF word
  <2> QED BY <1>1
<1>3. PICK f \in [0..Last -> Seq(Word)] : f[0] = <<>> /\ \A s \in Slots : f[s] = G[s][f[s - 1]]
  <2> HIDE DEF G
  <2>1. PICK S : S = Seq(Word)
    OBVIOUS
  <2>2. PICK z \in S : z = <<>>
    <3>1. <<>> \in Seq(Word)
      OBVIOUS
    <3> QED BY <2>1, <3>1
  <2>3. G \in [Slots -> [S -> S]]
    BY <1>2, <2>1, Zenon
  <2>4. \E f \in [0..Last -> S] : f[0] = z /\ \A s \in Slots : f[s] = G[s][f[s - 1]]
    BY <2>3, RecursionExists
  <2> QED BY <2>1, <2>2, <2>4, Zenon
<1>4. \A s \in Slots : s - 1 \in 0..Last /\ s # 0 /\ s \in 0..Last
  BY SlotFacts
<1>5. \A s \in Slots : f[s] = IF new[s] = old[s] THEN f[s - 1] ELSE Append(f[s - 1], word(s))
  <2> HIDE DEF word
  <2> QED BY <1>3, <1>4
<1>6. P(f)
  <2>1. \A s \in 0..Last : s = 0 \/ s \in Slots
    BY SlotFacts
  <2> QED BY <2>1, <1>3, <1>5 DEF Last
<1> DEFINE news == CHOOSE u : P(u)
<1>7. P(news)
  <2> HIDE DEF P
  <2> QED BY <1>6
<1>8. News(old, new) = news[Last]
  BY DEF News, Last
<1> HIDE DEF news
<1>9. news[0] = <<>>
  BY <1>7, SlotFacts DEF Last
<1>10. \A s \in Slots :
         news[s] = IF new[s] = old[s] THEN news[s - 1] ELSE Append(news[s - 1], word(s))
  BY <1>4, <1>7 DEF Last
<1> HIDE DEF P, G, word
<1> DEFINE Right(s) ==
             /\ news[s] \in Seq(Word)
             /\ \A i \in 1..Len(news[s]) :
                  /\ news[s][i].stack = new[news[s][i].slot]
                  /\ new[news[s][i].slot] # old[news[s][i].slot]
             /\ \A t \in 1..s : new[t] # old[t] => \E i \in 1..Len(news[s]) : news[s][i].slot = t
           T == {s \in 0..Last : Right(s)}
<1>11. 0 \in T
  <2>1. news[0] \in Seq(Word) /\ Len(news[0]) = 0
    BY <1>9
  <2>2. 0 \in 0..Last /\ \A i \in 1..0 : FALSE
    BY SlotFacts
  <2>3. Right(0)
    BY <2>1, <2>2
  <2> HIDE DEF Right
  <2> QED BY <2>2, <2>3
<1>12. ASSUME NEW s \in 1..Last, s - 1 \in T PROVE s \in T
  <2>0. s \in Slots /\ s \in Nat
    BY SlotFacts
  <2>1. Right(s - 1)
    BY <1>12
  <2>2. CASE new[s] = old[s]
    <3>1. news[s] = news[s - 1]
      BY <2>0, <2>2, <1>10
    <3>2. \A t \in 1..s : t = s \/ t \in 1..(s - 1)
      BY <2>0
    <3>3. Right(s)
      BY <3>1, <3>2, <2>1, <2>2
    <3> HIDE DEF Right
    <3> QED BY <3>3, <1>4, <2>0
  <2>3. CASE new[s] # old[s]
    <3>1. news[s] = Append(news[s - 1], word(s))
      BY <2>0, <2>3, <1>10
    <3>2. PICK q : q = news[s - 1]
      OBVIOUS
    <3>3. PICK r : r = news[s]
      OBVIOUS
    <3>4. q \in Seq(Word) /\ r = Append(q, word(s)) /\ word(s) \in Word
      BY <3>1, <3>2, <3>3, <2>0, <2>1, <1>1
    <3>5. /\ r \in Seq(Word) /\ Len(r) = Len(q) + 1 /\ r[Len(q) + 1] = word(s)
          /\ \A i \in 1..Len(q) : r[i] = q[i]
      BY <3>4
    <3>6. Len(q) \in Nat /\ \A i \in 1..Len(r) : i \in 1..Len(q) \/ i = Len(q) + 1
      BY <3>4, <3>5
    <3>7. \A i \in 1..Len(r) : r[i].stack = new[r[i].slot] /\ new[r[i].slot] # old[r[i].slot]
      <4> SUFFICES ASSUME NEW i \in 1..Len(r)
                   PROVE  r[i].stack = new[r[i].slot] /\ new[r[i].slot] # old[r[i].slot]
        OBVIOUS
      <4>1. CASE i \in 1..Len(q)
        <5>1. r[i] = q[i]
          BY <3>5, <4>1
        <5>2. q[i].stack = new[q[i].slot] /\ new[q[i].slot] # old[q[i].slot]
          BY <2>1, <3>2, <4>1
        <5> QED BY <5>1, <5>2
      <4>2. CASE i = Len(q) + 1
        BY <4>2, <3>5, <1>1, <2>0, <2>3
      <4> QED BY <3>6, <4>1, <4>2
    <3>8. ASSUME NEW t \in 1..s, new[t] # old[t] PROVE \E i \in 1..Len(r) : r[i].slot = t
      <4>1. CASE t = s
        <5>1. Len(q) + 1 \in 1..Len(r)
          BY <3>5, <3>6
        <5>2. r[Len(q) + 1].slot = t
          BY <3>5, <4>1, <1>1, <2>0
        <5> QED BY <5>1, <5>2
      <4>2. CASE t # s
        <5>1. t \in 1..(s - 1)
          BY <4>2, <2>0
        <5>2. PICK i \in 1..Len(q) : q[i].slot = t
          BY <2>1, <3>2, <3>8, <5>1
        <5>3. i \in 1..Len(r) /\ r[i] = q[i]
          BY <3>5, <3>6
        <5> QED BY <5>2, <5>3
      <4> QED BY <4>1, <4>2
    <3>9. Right(s)
      BY <3>3, <3>5, <3>7, <3>8
    <3> HIDE DEF Right
    <3> QED BY <3>9, <1>4, <2>0
  <2> QED BY <2>2, <2>3
<1>13. \A s \in 0..Last : s \in T
  <2> HIDE DEF T
  <2> QED BY <1>11, <1>12, Upwards
<1>14. Right(Last)
  <2> HIDE DEF Right
  <2> QED BY <1>13, SlotFacts
<1> QED BY <1>8, <1>14, SlotFacts DEF Tells

\* What a stack takes of an item, and the stack it is then.
LEMMA RoomFacts ==
  ASSUME NEW x \in Stacks, NEW item \in {"a", "b"}
  PROVE  /\ Room(x, item) \in 0..MaxStack
         /\ Room(x, item) # 0 => x = Empty \/ x.item = item
         /\ \A k \in 1..Room(x, item) :
              /\ Stack(item, x.count + k) \in Stacks
              /\ Stack(item, x.count + k).item = item
              /\ Stack(item, x.count + k) # Empty
              /\ Room(Stack(item, x.count + k), item) = Room(x, item) - k
              /\ item = "a" => Holds(Stack(item, x.count + k)) = Holds(x) + k
<1>0. MaxStack \in Nat \ {0} /\ Empty.count = 0 /\ Empty.item = "none"
  BY TransfersAssumption DEF Empty
<1>1. CASE x = Empty
  <2>1. Room(x, item) = MaxStack /\ x.count = 0 /\ Holds(x) = 0
    BY <1>0, <1>1 DEF Room, Holds
  <2>2. ASSUME NEW k \in 1..MaxStack
        PROVE  /\ Stack(item, k) \in Stacks /\ Stack(item, k).item = item
               /\ Stack(item, k) # Empty /\ Room(Stack(item, k), item) = MaxStack - k
               /\ item = "a" => Holds(Stack(item, k)) = k
    <3>1. Stack(item, k) = [item |-> item, count |-> k]
      BY <1>0 DEF Stack
    <3>2. [item |-> item, count |-> k] # Empty
      BY <1>0
    <3>3. Stack(item, k) \in Stacks
      BY <3>1 DEF Stacks
    <3>4. Room(Stack(item, k), item) = MaxStack - k
      BY <3>1, <3>2 DEF Room
    <3>5. item = "a" => Holds(Stack(item, k)) = k
      BY <3>1 DEF Holds
    <3>6. Stack(item, k) # Empty /\ Stack(item, k).item = item
      BY <3>1, <3>2
    <3> QED BY <3>3, <3>4, <3>5, <3>6
  <2>3. ASSUME NEW k \in 1..MaxStack
        PROVE  Stack(item, x.count + k) = Stack(item, k) /\ Holds(x) + k = k
    <3>1. x.count + k = k /\ Holds(x) + k = k
      BY <2>1
    <3> QED BY <3>1
  <2> QED BY <1>0, <1>1, <2>1, <2>2, <2>3
<1>2. CASE x # Empty
  <2>1. x.item \in {"a", "b"} /\ x.count \in 1..MaxStack
    BY <1>2 DEF Stacks
  <2>2. CASE x.item # item
    <3>1. Room(x, item) = 0
      BY <1>2, <2>2 DEF Room
    <3> QED BY <1>0, <3>1
  <2>3. CASE x.item = item
    <3>1. Room(x, item) = MaxStack - x.count /\ Room(x, item) \in 0..MaxStack
      BY <1>0, <1>2, <2>1, <2>3 DEF Room
    <3>2. item = "a" => Holds(x) = x.count
      BY <2>3 DEF Holds
    <3>3. ASSUME NEW k \in 1..(MaxStack - x.count)
          PROVE  /\ Stack(item, x.count + k) \in Stacks
                 /\ Stack(item, x.count + k).item = item
                 /\ Stack(item, x.count + k) # Empty
                 /\ Room(Stack(item, x.count + k), item) = MaxStack - x.count - k
                 /\ item = "a" => Holds(Stack(item, x.count + k)) = x.count + k
      <4>1. x.count + k \in 1..MaxStack
        BY <1>0, <2>1
      <4>2. Stack(item, x.count + k) = [item |-> item, count |-> x.count + k]
        BY <4>1 DEF Stack
      <4>3. [item |-> item, count |-> x.count + k] # Empty
        BY <1>0
      <4>4. Stack(item, x.count + k) \in Stacks
        BY <4>1, <4>2 DEF Stacks
      <4>5. Room(Stack(item, x.count + k), item) = MaxStack - (x.count + k)
        BY <4>2, <4>3 DEF Room
      <4>6. item = "a" => Holds(Stack(item, x.count + k)) = x.count + k
        BY <4>2 DEF Holds
      <4> QED BY <1>0, <2>1, <4>2, <4>3, <4>4, <4>5, <4>6
    <3> QED BY <2>3, <3>1, <3>2, <3>3
  <2> QED BY <2>2, <2>3
<1> QED BY <1>1, <1>2

\* A stack poured into a range: what came of the window, and what was left of the stack.
Poured(w, range, item, n, new, rest) ==
  /\ new \in Windows /\ rest \in 0..n
  /\ \A s \in Slots : \/ new[s] = w[s]
                      \/ s \in range /\ Room(w[s], item) # 0 /\ new[s].item = item
  /\ rest > 0 => \A s \in range : Room(new[s], item) = 0
  /\ item = "a" => \A R : range \subseteq R => Count(new, R) = Count(w, R) + (n - rest)

\* Pouring into a set of slots keeps every item, and stops only where all are full.
LEMMA PourIntoFacts ==
  ASSUME NEW w \in Windows, NEW T, T \subseteq Slots, NEW item \in {"a", "b"}, NEW n \in Nat
  PROVE  Poured(w, T, item, n, PourInto(w, T, item, n).window, PourInto(w, T, item, n).rest)
<1> DEFINE G == [s \in Slots |-> [r \in Nat |->
                   IF s \in T THEN r - Least(r, Room(w[s], item)) ELSE r]]
           P(u) == u = [s \in 0..(Own + Rows) |->
                          IF s = 0 THEN n
                          ELSE IF s \in T THEN u[s - 1] - Least(u[s - 1], Room(w[s], item))
                          ELSE u[s - 1]]
<1>1. \A s \in Slots : w[s] \in Stacks /\ Room(w[s], item) \in Nat
  BY RoomFacts DEF Windows
<1>2. \A s \in Slots, r \in Nat :
        /\ Least(r, Room(w[s], item)) \in 0..Room(w[s], item)
        /\ Least(r, Room(w[s], item)) <= r
        /\ r - Least(r, Room(w[s], item)) \in Nat
  BY <1>1 DEF Least
<1>3. G \in [Slots -> [Nat -> Nat]]
  BY <1>2
<1>4. PICK f \in [0..Last -> Nat] : f[0] = n /\ \A s \in Slots : f[s] = G[s][f[s - 1]]
  <2> HIDE DEF G
  <2>1. PICK S : S = Nat
    OBVIOUS
  <2>2. PICK z \in S : z = n
    BY <2>1
  <2>3. G \in [Slots -> [S -> S]]
    BY <1>3, <2>1, Zenon
  <2>4. \E f \in [0..Last -> S] : f[0] = z /\ \A s \in Slots : f[s] = G[s][f[s - 1]]
    BY <2>3, RecursionExists
  <2> QED BY <2>1, <2>2, <2>4, Zenon
<1>5. \A s \in Slots : s - 1 \in 0..Last /\ s # 0 /\ s \in 0..Last
  BY SlotFacts
<1>6. \A s \in Slots :
        f[s] = IF s \in T THEN f[s - 1] - Least(f[s - 1], Room(w[s], item)) ELSE f[s - 1]
  BY <1>4, <1>5
<1>7. P(f)
  <2>1. \A s \in 0..Last : s = 0 \/ s \in Slots
    BY SlotFacts
  <2> QED BY <2>1, <1>4, <1>6 DEF Last
<1> DEFINE rest == CHOOSE u : P(u)
           new == [s \in Slots |->
                     IF rest[s - 1] - rest[s] = 0 THEN w[s]
                     ELSE Stack(item, w[s].count + (rest[s - 1] - rest[s]))]
<1>8. P(rest)
  <2> HIDE DEF P
  <2> QED BY <1>7
<1>9. PourInto(w, T, item, n) = [window |-> new, rest |-> rest[Last]]
  BY DEF PourInto, Last
<1> HIDE DEF rest, G
<1>10. rest[0] = n
  BY <1>8, SlotFacts DEF Last
<1>11. \A s \in Slots :
        rest[s] = IF s \in T THEN rest[s - 1] - Least(rest[s - 1], Room(w[s], item))
                  ELSE rest[s - 1]
  BY <1>5, <1>8 DEF Last
<1> HIDE DEF P
<1>12. \A s \in 0..Last : rest[s] \in Nat
  <2> DEFINE U == {s \in 0..Last : rest[s] \in Nat}
  <2>1. 0 \in U
    BY <1>10, SlotFacts
  <2>2. ASSUME NEW s \in 1..Last, s - 1 \in U PROVE s \in U
    <3>1. s \in Slots /\ s \in 0..Last /\ rest[s - 1] \in Nat
      BY <2>2, SlotFacts
    <3>2. rest[s - 1] - Least(rest[s - 1], Room(w[s], item)) \in Nat
      BY <1>2, <3>1
    <3>3. rest[s] \in Nat
      BY <1>11, <3>1, <3>2
    <3> QED BY <3>1, <3>3
  <2> HIDE DEF U
  <2>3. \A s \in 0..Last : s \in U
    BY <2>1, <2>2, Upwards
  <2> QED BY <2>3 DEF U
<1>13. ASSUME NEW s \in Slots
       PROVE  \E k \in 0..Room(w[s], item) :
                /\ rest[s] = rest[s - 1] - k /\ (s \notin T => k = 0)
                /\ (s \in T /\ rest[s] > 0 => k = Room(w[s], item))
                /\ new[s] = IF k = 0 THEN w[s] ELSE Stack(item, w[s].count + k)
  <2>1. PICK p \in Nat, q \in Nat, m \in Nat : p = rest[s - 1] /\ q = rest[s] /\ m = Room(w[s], item)
    BY <1>1, <1>5, <1>12
  <2>2. q = IF s \in T THEN p - Least(p, m) ELSE p
    BY <1>11, <2>1
  <2>3. p - q \in 0..m /\ q = p - (p - q) /\ (s \notin T => p - q = 0)
        /\ (s \in T /\ q > 0 => p - q = m)
    BY <2>2 DEF Least
  <2>4. new[s] = IF p - q = 0 THEN w[s] ELSE Stack(item, w[s].count + (p - q))
    BY <2>1
  <2> HIDE DEF new
  <2> QED BY <2>1, <2>3, <2>4
<1>14. \A s \in Slots : new[s] \in Stacks
  <2> SUFFICES ASSUME NEW s \in Slots PROVE new[s] \in Stacks
    OBVIOUS
  <2> HIDE DEF new
  <2>1. PICK k \in 0..Room(w[s], item) :
          new[s] = IF k = 0 THEN w[s] ELSE Stack(item, w[s].count + k)
    BY <1>13
  <2>2. k # 0 => k \in 1..Room(w[s], item)
    BY <1>1
  <2> QED BY <2>1, <2>2, <1>1, RoomFacts
<1>15. new \in Windows
  BY <1>14 DEF Windows
<1> HIDE DEF new
<1>16. ASSUME NEW s \in 1..Last PROVE rest[s] <= rest[s - 1]
  <2>1. s \in Slots
    BY SlotFacts
  <2>2. PICK k \in 0..Room(w[s], item) : rest[s] = rest[s - 1] - k
    BY <1>13, <2>1
  <2>3. k \in Nat /\ rest[s - 1] \in Nat
    BY <1>1, <1>5, <1>12, <2>1
  <2> QED BY <2>2, <2>3
<1>17. \A s \in 0..Last : \A j \in 0..s : rest[s] <= rest[j]
  <2> DEFINE U == {s \in 0..Last : \A j \in 0..s : rest[s] <= rest[j]}
  <2>1. 0 \in U
    BY <1>10, SlotFacts
  <2>2. ASSUME NEW s \in 1..Last, s - 1 \in U PROVE s \in U
    <3>1. s \in 0..Last /\ s - 1 \in 0..Last /\ rest[s] <= rest[s - 1]
      BY <1>16, SlotFacts
    <3>2. ASSUME NEW j \in 0..s PROVE rest[s] <= rest[j]
      <4>1. j = s \/ j \in 0..(s - 1)
        BY <3>1
      <4>2. j \in 0..Last
        BY <3>1, SlotFacts
      <4>3. rest[j] \in Nat /\ rest[s] \in Nat /\ rest[s - 1] \in Nat
        BY <1>12, <3>1, <4>2
      <4>4. j \in 0..(s - 1) => rest[s - 1] <= rest[j]
        BY <2>2
      <4> QED BY <3>1, <4>1, <4>3, <4>4
    <3> QED BY <3>1, <3>2
  <2> HIDE DEF U
  <2>3. \A s \in 0..Last : s \in U
    BY <2>1, <2>2, Upwards
  <2> QED BY <2>3 DEF U
<1>18. rest[Last] \in 0..n
  <2>1. rest[Last] \in Nat /\ rest[Last] <= rest[0]
    BY <1>12, <1>17, SlotFacts
  <2> QED BY <2>1, <1>10
<1>19. ASSUME NEW s \in Slots
       PROVE  new[s] = w[s] \/ (s \in T /\ Room(w[s], item) # 0 /\ new[s].item = item)
  <2>1. PICK k \in 0..Room(w[s], item) :
          /\ s \notin T => k = 0
          /\ new[s] = IF k = 0 THEN w[s] ELSE Stack(item, w[s].count + k)
    BY <1>13
  <2>2. k # 0 => k \in 1..Room(w[s], item) /\ Room(w[s], item) # 0
    BY <1>1
  <2> QED BY <2>1, <2>2, <1>1, RoomFacts
<1>20. ASSUME rest[Last] > 0, NEW s \in T PROVE Room(new[s], item) = 0
  <2>0. s \in Slots /\ s \in 0..Last /\ Last \in 0..Last /\ s \in 0..Last
    BY SlotFacts
  <2>1. rest[s] > 0
    <3>1. rest[Last] <= rest[s] /\ rest[s] \in Nat /\ rest[Last] \in Nat
      BY <1>12, <1>17, <2>0, SlotFacts
    <3> QED BY <1>20, <3>1
  <2>2. PICK k \in 0..Room(w[s], item) :
          /\ k = Room(w[s], item)
          /\ new[s] = IF k = 0 THEN w[s] ELSE Stack(item, w[s].count + k)
    BY <1>13, <2>0, <2>1
  <2>3. k # 0 => k \in 1..Room(w[s], item)
    BY <1>1
  <2>4. CASE k = 0
    BY <2>2, <2>4
  <2>5. CASE k # 0
    <3>1. Room(new[s], item) = Room(w[s], item) - k
      BY <2>0, <2>2, <2>3, <2>5, <1>1, RoomFacts
    <3> QED BY <3>1, <2>2, <2>0, <1>1
  <2> QED BY <2>4, <2>5
<1>21. ASSUME item = "a", NEW R, T \subseteq R
       PROVE  Count(new, R) = Count(w, R) + (n - rest[Last])
  <2>1. PICK x \in [0..Last -> Nat] :
          /\ x[0] = 0 /\ Count(w, R) = x[Last]
          /\ \A s \in Slots : x[s] = x[s - 1] + (IF s \in R THEN Holds(w[s]) ELSE 0)
    BY CountSum
  <2>2. PICK y \in [0..Last -> Nat] :
          /\ y[0] = 0 /\ Count(new, R) = y[Last]
          /\ \A s \in Slots : y[s] = y[s - 1] + (IF s \in R THEN Holds(new[s]) ELSE 0)
    BY <1>15, CountSum
  <2> DEFINE U == {s \in 0..Last : y[s] = x[s] + (n - rest[s])}
  <2>3. 0 \in U
    <3>1. 0 \in 0..Last /\ n - rest[0] = 0
      BY <1>10, SlotFacts
    <3> QED BY <3>1, <2>1, <2>2
  <2>4. ASSUME NEW s \in 1..Last, s - 1 \in U PROVE s \in U
    <3>0. s \in Slots /\ s \in 0..Last /\ s - 1 \in 0..Last
      BY SlotFacts
    <3>1. PICK k \in 0..Room(w[s], item) :
            /\ rest[s] = rest[s - 1] - k /\ (s \notin T => k = 0)
            /\ new[s] = IF k = 0 THEN w[s] ELSE Stack(item, w[s].count + k)
      BY <1>13, <3>0
    <3>2. k # 0 => k \in 1..Room(w[s], item)
      BY <1>1, <3>0
    <3>3. Holds(new[s]) = Holds(w[s]) + k
      <4>1. k \in Nat /\ Holds(w[s]) \in Nat
        BY <1>1, <3>0, StackFacts
      <4>2. CASE k = 0
        BY <3>1, <4>1, <4>2
      <4>3. CASE k # 0
        <5>1. new[s] = Stack("a", w[s].count + k) /\ k \in 1..Room(w[s], "a")
          BY <1>21, <3>1, <3>2, <4>3
        <5>2. w[s] \in Stacks
          BY <1>1, <3>0
        <5> QED BY <5>1, <5>2, RoomFacts
      <4> QED BY <4>2, <4>3
    <3>4. k # 0 => s \in R
      BY <3>1, <1>21
    <3>5. PICK x0 \in Nat, x1 \in Nat, y0 \in Nat, y1 \in Nat, r0 \in Nat, r1 \in Nat, hw \in Nat,
               hn \in Nat :
            /\ x0 = x[s - 1] /\ x1 = x[s] /\ y0 = y[s - 1] /\ y1 = y[s]
            /\ r0 = rest[s - 1] /\ r1 = rest[s] /\ hw = Holds(w[s]) /\ hn = Holds(new[s])
      <4>1. Holds(w[s]) \in Nat /\ Holds(new[s]) \in Nat
        BY <1>1, <1>14, <3>0, StackFacts
      <4>2. x[s - 1] \in Nat /\ x[s] \in Nat /\ y[s - 1] \in Nat /\ y[s] \in Nat
        BY <3>0
      <4>3. rest[s - 1] \in Nat /\ rest[s] \in Nat
        BY <1>12, <3>0
      <4> QED BY <4>1, <4>2, <4>3
    <3>6. /\ x1 = x0 + (IF s \in R THEN hw ELSE 0) /\ y1 = y0 + (IF s \in R THEN hn ELSE 0)
          /\ y0 = x0 + (n - r0) /\ r1 = r0 - k /\ hn = hw + k
      BY <2>1, <2>2, <2>4, <3>0, <3>1, <3>3, <3>5
    <3>7. k \in Nat
      BY <1>1, <3>0
    <3>8. y1 = x1 + (n - r1)
      BY <3>4, <3>6, <3>7
    <3> QED BY <3>0, <3>5, <3>8
  <2>5. \A s \in 0..Last : s \in U
    <3> HIDE DEF U
    <3> QED BY <2>3, <2>4, Upwards
  <2>6. Last \in 0..Last
    BY SlotFacts
  <2>7. y[Last] = x[Last] + (n - rest[Last])
    BY <2>5, <2>6
  <2> QED BY <2>1, <2>2, <2>7
<1>22. Poured(w, T, item, n, new, rest[Last])
  BY <1>15, <1>18, <1>19, <1>20, <1>21 DEF Poured
<1> QED BY <1>9, <1>22

\* So does pouring into a range, alongside the item first.
LEMMA PourFacts ==
  ASSUME NEW w \in Windows, NEW range, range \subseteq Slots, NEW item \in {"a", "b"},
         NEW n \in Nat
  PROVE  Poured(w, range, item, n, Pour(w, range, item, n).window, Pour(w, range, item, n).rest)
<1> DEFINE same == {s \in range : w[s].item = item}
           free == {s \in range : w[s] = Empty}
<1>0. PICK one : one = PourInto(w, same, item, n)
  OBVIOUS
<1>1. PICK two : two = PourInto(one.window, free, item, one.rest)
  OBVIOUS
<1>2. Pour(w, range, item, n) = two
  BY <1>0, <1>1 DEF Pour
<1>3. same \subseteq Slots /\ free \subseteq Slots /\ same \subseteq range /\ free \subseteq range
  OBVIOUS
<1>4. Poured(w, same, item, n, one.window, one.rest)
  <2> HIDE DEF same
  <2> QED BY <1>0, <1>3, PourIntoFacts
<1>5. one.window \in Windows /\ one.rest \in Nat
  BY <1>4 DEF Poured
<1>6. Poured(one.window, free, item, one.rest, two.window, two.rest)
  <2> HIDE DEF free
  <2> QED BY <1>1, <1>3, <1>5, PourIntoFacts
<1>7. \A s \in Slots : s \in same => s \notin free
  BY DEF Empty
<1> HIDE DEF same, free
<1>8. two.window \in Windows /\ two.rest \in 0..n /\ two.rest <= one.rest
  BY <1>4, <1>6 DEF Poured
<1>9. \A s \in Slots : \/ two.window[s] = w[s]
                       \/ s \in range /\ Room(w[s], item) # 0 /\ two.window[s].item = item
  BY <1>3, <1>4, <1>6, <1>7 DEF Poured
<1>10. ASSUME two.rest > 0, NEW s \in range PROVE Room(two.window[s], item) = 0
  <2>1. one.rest > 0
    BY <1>5, <1>8, <1>10
  <2>2. s \in Slots
    OBVIOUS
  <2>3. CASE s \in free
    BY <1>6, <1>10, <2>3 DEF Poured
  <2>4. CASE s \in same
    <3>1. two.window[s] = one.window[s]
      BY <1>6, <1>7, <2>2, <2>4 DEF Poured
    <3> QED BY <3>1, <1>4, <2>1, <2>4 DEF Poured
  <2>5. CASE s \notin free /\ s \notin same
    <3>1. two.window[s] = w[s]
      BY <1>4, <1>6, <2>2, <2>5 DEF Poured
    <3>2. w[s] # Empty /\ w[s].item # item
      BY <2>5 DEF free, same
    <3> QED BY <3>1, <3>2 DEF Room
  <2> QED BY <2>3, <2>4, <2>5
<1>11. ASSUME item = "a", NEW R, range \subseteq R
       PROVE  Count(two.window, R) = Count(w, R) + (n - two.rest)
  <2>1. PICK i \in Nat, j \in Int, k \in Int, m \in Nat, r \in Nat :
          /\ i = Count(w, R) /\ j = Count(one.window, R) /\ k = Count(two.window, R)
          /\ m = one.rest /\ r = two.rest
    <3>1. Count(w, R) \in Nat /\ Count(one.window, R) \in Nat
          /\ Count(two.window, R) \in Nat
      BY <1>5, <1>8, CountSame
    <3>2. one.rest \in Nat /\ two.rest \in Nat
      BY <1>5, <1>8
    <3> QED BY <3>1, <3>2
  <2>2. j = i + (n - m) /\ k = j + (m - r)
    BY <2>1, <1>3, <1>4, <1>6, <1>11 DEF Poured
  <2> QED BY <2>1, <2>2
<1> QED BY <1>2, <1>8, <1>9, <1>10, <1>11 DEF Poured

\* A stack shift-clicked: what is left of it stays, and nothing is left unless all is full.
LEMMA QuickMoveFacts ==
  ASSUME slots \in Windows, NEW s \in Slots, NEW range,
         range = IF s \in OwnSlots THEN PlayerRows ELSE OwnSlots, slots[s] # Empty
  PROVE  \E rest \in 0..slots[s].count :
           /\ QuickMove(s) \in Windows /\ QuickMove(s)[s] = Stack(slots[s].item, rest)
           /\ \A t \in Slots \ {s} :
                \/ QuickMove(s)[t] = slots[t]
                \/ /\ t \in range /\ Room(slots[t], slots[s].item) # 0
                   /\ QuickMove(s)[t].item = slots[s].item
           /\ rest > 0 => \A t \in range : Room(QuickMove(s)[t], slots[s].item) = 0
           /\ slots[s].item = "a" =>
                Count(QuickMove(s), range) = Count(slots, range) + (slots[s].count - rest)
<1> DEFINE item == slots[s].item
           n == slots[s].count
<1>1. item \in {"a", "b"} /\ n \in 1..MaxStack /\ n \in Nat
  BY StackFacts DEF Windows
<1>2. PICK w : w = [slots EXCEPT ![s] = Empty]
  OBVIOUS
<1>3. w \in Windows /\ w[s] = Empty /\ \A t \in Slots \ {s} : w[t] = slots[t]
  BY <1>2, StackFacts DEF Windows
<1>4. range \subseteq Slots /\ s \notin range
  BY SlotFacts
<1>5. PICK poured : poured = Pour(w, range, item, n)
  OBVIOUS
<1>6. QuickMove(s) = [poured.window EXCEPT ![s] = Stack(item, poured.rest)]
  BY <1>2, <1>5 DEF QuickMove
<1> HIDE DEF item, n
<1>7. Poured(w, range, item, n, poured.window, poured.rest)
  BY <1>1, <1>3, <1>4, <1>5, PourFacts
<1>8. PICK rest \in 0..n : rest = poured.rest
  BY <1>7 DEF Poured
<1>9. rest \in 0..MaxStack
  BY <1>1, StackFacts
<1>10. Stack(item, rest) \in Stacks
  BY <1>1, <1>9, StackFacts
<1>11. PICK new : new = QuickMove(s)
  OBVIOUS
<1>12. new \in Windows /\ new[s] = Stack(item, rest)
       /\ \A t \in Slots \ {s} : new[t] = poured.window[t]
  BY <1>6, <1>7, <1>8, <1>10, <1>11 DEF Poured, Windows
<1>13. \A t \in Slots \ {s} :
         new[t] = slots[t] \/ (t \in range /\ Room(slots[t], item) # 0 /\ new[t].item = item)
  BY <1>3, <1>7, <1>12 DEF Poured
<1>14. \A t \in range : t \in Slots \ {s} /\ new[t] = poured.window[t]
  BY <1>4, <1>12
<1>15. rest > 0 => \A t \in range : Room(new[t], item) = 0
  BY <1>7, <1>8, <1>14 DEF Poured
<1>16. ASSUME item = "a" PROVE Count(new, range) = Count(slots, range) + (n - rest)
  <2>1. Count(poured.window, range) = Count(w, range) + (n - rest)
    BY <1>7, <1>8, <1>16 DEF Poured
  <2>2. poured.window \in Windows
    BY <1>7 DEF Poured
  <2>3. Count(new, range) = Count(poured.window, range)
    <3>1. \A t \in Slots \cap range : Holds(new[t]) = Holds(poured.window[t])
      BY <1>14
    <3> QED BY <3>1, <2>2, <1>12, CountSame
  <2>4. Count(slots, range) = Count(w, range)
    <3>1. \A t \in Slots \cap range : Holds(slots[t]) = Holds(w[t])
      BY <1>3, <1>4
    <3> QED BY <3>1, <1>3, CountSame
  <2> QED BY <2>1, <2>3, <2>4
<1> QED BY <1>8, <1>11, <1>12, <1>13, <1>15, <1>16 DEF item, n

\* What the cursor holds of the item a slot hides behind another.
Hidden(stack, held) == IF stack.item = "b" THEN Holds(held) ELSE 0

\* A click neither makes nor loses items; left it takes or puts all, right at most one more.
LEMMA NormalClickFacts ==
  ASSUME slots \in Windows, cursor \in Stacks, NEW s \in Slots, NEW button \in {0, 1},
         NEW after, after = NormalClick(s, button)
  PROVE  /\ after.slot \in Stacks /\ after.cursor \in Stacks
         /\ Holds(after.slot) + Holds(after.cursor) = Holds(slots[s]) + Holds(cursor)
         /\ button = 1 => Holds(after.slot) + Hidden(after.slot, after.cursor)
                            <= Holds(slots[s]) + Hidden(slots[s], cursor) + 1
         /\ cursor = Empty /\ button = 0 => after.slot = Empty /\ after.cursor = slots[s]
         /\ slots[s] = Empty /\ button = 0 => after.slot = cursor /\ after.cursor = Empty
         /\ cursor.item = "a" /\ slots[s].item # "b" /\ button = 1 =>
              IF Room(slots[s], "a") = 0 THEN after.slot = slots[s] /\ after.cursor = cursor
              ELSE /\ Room(after.slot, "a") = Room(slots[s], "a") - 1
                   /\ after.slot.item = "a" /\ Holds(after.slot) = Holds(slots[s]) + 1
                   /\ after.cursor = Stack("a", cursor.count - 1)
<1> DEFINE x == slots[s]
           i == cursor.item
           n == cursor.count
           k == Put(s, button)
           t == Taken(s, button)
<1>1. x \in Stacks /\ Holds(x) \in Nat /\ Holds(cursor) \in Nat
  BY StackFacts DEF Windows
<1>2. Empty.item = "none" /\ Empty.count = 0 /\ Holds(Empty) = 0 /\ Room(Empty, "a") = MaxStack
  BY DEF Empty, Holds, Room
<1>3. CASE cursor = Empty
  <2>1. after = [slot |-> Stack(x.item, x.count - t), cursor |-> Stack(x.item, t)]
    BY <1>3 DEF NormalClick
  <2>2. CASE x = Empty
    <3>1. t = 0
      BY <1>2, <2>2 DEF Taken
    <3>2. after.slot = Empty /\ after.cursor = Empty
      BY <1>2, <2>1, <2>2, <3>1 DEF Stack
    <3> QED BY <1>2, <1>3, <2>2, <3>2, StackFacts DEF Hidden
  <2>3. CASE x # Empty
    <3>1. x.item \in {"a", "b"} /\ x.count \in 1..MaxStack /\ MaxStack \in Nat
      BY <1>1, <2>3, StackFacts
    <3>2. t \in 1..x.count /\ (button = 0 => t = x.count)
      BY <3>1 DEF Taken
    <3>3. x.count - t \in 0..MaxStack /\ t \in 0..MaxStack
      BY <3>1, <3>2
    <3> HIDE DEF t, x
    <3>4. after.slot = Stack(x.item, x.count - t) /\ after.cursor = Stack(x.item, t)
      BY <2>1
    <3>5. after.slot \in Stacks /\ after.cursor \in Stacks
      BY <3>1, <3>3, <3>4, StackFacts
    <3>6. after.slot = IF x.count = t THEN Empty ELSE [item |-> x.item, count |-> x.count - t]
      BY <3>1, <3>2, <3>4 DEF Stack
    <3>7. after.cursor = [item |-> x.item, count |-> t]
      BY <3>2, <3>4 DEF Stack
    <3>8. button = 0 => after.slot = Empty /\ after.cursor = x
      <4>1. x = [item |-> x.item, count |-> x.count]
        BY <1>1, <2>3 DEF Stacks, x
      <4> QED BY <3>2, <3>6, <3>7, <4>1
    <3>9. /\ Holds(x) = IF x.item = "a" THEN x.count ELSE 0
          /\ Holds(after.slot) = IF x.item = "a" THEN x.count - t ELSE 0
          /\ Holds(after.cursor) = IF x.item = "a" THEN t ELSE 0
      BY <3>1, <3>2, <3>6, <3>7, <1>2 DEF Holds
    <3>10. Hidden(after.slot, after.cursor) = 0 /\ Hidden(x, cursor) = 0
      BY <3>6, <3>9, <1>2, <1>3 DEF Hidden
    <3>11. /\ Holds(after.slot) + Holds(after.cursor) = Holds(x) + 0
           /\ Holds(after.slot) + 0 <= Holds(x) + 0 + 1
      BY <3>1, <3>2, <3>9
    <3> QED BY <2>3, <3>5, <3>8, <3>10, <3>11, <1>2, <1>3 DEF x
  <2> QED BY <2>2, <2>3
<1>4. CASE cursor # Empty /\ x # Empty /\ x.item # i
  <2>1. after = [slot |-> cursor, cursor |-> x]
    BY <1>4 DEF NormalClick
  <2>2. after.slot = cursor /\ after.cursor = x
    BY <2>1
  <2>3. i \in {"a", "b"} /\ x.item \in {"a", "b"} /\ cursor.count \in Nat /\ x.count \in Nat
    BY <1>1, <1>4, StackFacts
  <2>4. Holds(cursor) + Hidden(cursor, x) = Holds(x) + Hidden(x, cursor)
    BY <1>4, <2>3 DEF Hidden, Holds
  <2>5. /\ Holds(cursor) + Holds(x) = Holds(x) + Holds(cursor)
        /\ Holds(cursor) + Hidden(cursor, x) <= Holds(x) + Hidden(x, cursor) + 1
    BY <1>1, <2>4 DEF Hidden
  <2> QED BY <1>1, <1>4, <2>2, <2>3, <2>5
<1>5. CASE cursor # Empty /\ (x = Empty \/ x.item = i)
  <2>1. after = [slot |-> Stack(i, x.count + k), cursor |-> Stack(i, n - k)]
    BY <1>5 DEF NormalClick
  <2>2. i \in {"a", "b"} /\ n \in 1..MaxStack /\ MaxStack \in Nat /\ x.count \in 0..MaxStack
    BY <1>1, <1>2, <1>5, StackFacts
  <2>3. Room(x, i) = MaxStack - x.count /\ Room(x, i) \in 0..MaxStack
    BY <1>2, <1>5, <2>2 DEF Room
  <2>4. /\ k \in 0..n /\ k \in 0..Room(x, i) /\ (button = 1 => k <= 1)
        /\ button = 0 /\ Room(x, i) >= n => k = n
        /\ button = 1 /\ Room(x, i) # 0 => k = 1
    BY <2>2, <2>3 DEF Put, Least
  <2> HIDE DEF k, n, i, x
  <2>5. PICK c \in 0..MaxStack : c = x.count
    BY <2>2
  <2>6. c + k \in 0..MaxStack /\ n - k \in 0..MaxStack
    BY <2>2, <2>3, <2>4, <2>5
  <2>7. after.slot = Stack(i, c + k) /\ after.cursor = Stack(i, n - k)
    BY <2>1, <2>5
  <2>8. after.slot \in Stacks /\ after.cursor \in Stacks
    BY <2>2, <2>6, <2>7, StackFacts
  <2>9. /\ after.slot = IF c + k = 0 THEN Empty ELSE [item |-> i, count |-> c + k]
        /\ after.cursor = IF n - k = 0 THEN Empty ELSE [item |-> i, count |-> n - k]
    BY <2>7 DEF Stack
  <2>10. /\ Holds(after.slot) = IF i = "a" THEN c + k ELSE 0
         /\ Holds(after.cursor) = IF i = "a" THEN n - k ELSE 0
         /\ Holds(x) = IF i = "a" THEN c ELSE 0
         /\ Holds(cursor) = IF i = "a" THEN n ELSE 0
    <3>1. Holds(after.slot) = IF i = "a" THEN c + k ELSE 0
      BY <2>6, <2>9, <1>2 DEF Holds
    <3>2. Holds(after.cursor) = IF i = "a" THEN n - k ELSE 0
      BY <2>6, <2>9, <1>2 DEF Holds
    <3>3. Holds(x) = IF i = "a" THEN c ELSE 0
      BY <1>2, <1>5, <2>5 DEF Holds
    <3>4. Holds(cursor) = IF i = "a" THEN n ELSE 0
      BY DEF Holds, i, n
    <3> QED BY <3>1, <3>2, <3>3, <3>4
  <2>11. Hidden(after.slot, after.cursor) = 0 /\ Hidden(x, cursor) = 0
    <3>1. after.slot.item = "b" => i = "b"
      BY <2>9, <1>2
    <3>2. x.item = "b" => i = "b"
      BY <1>2, <1>5
    <3> QED BY <3>1, <3>2, <2>10 DEF Hidden
  <2>12. /\ Holds(after.slot) + Holds(after.cursor) = Holds(x) + Holds(cursor)
         /\ button = 1 => Holds(after.slot) + 0 <= Holds(x) + 0 + 1
    BY <2>2, <2>4, <2>5, <2>6, <2>10
  <2>13. ASSUME x = Empty, button = 0 PROVE after.slot = cursor /\ after.cursor = Empty
    <3>1. c = 0 /\ k = n /\ n # 0
      BY <1>2, <2>2, <2>3, <2>4, <2>5, <2>13
    <3>2. c + k = n /\ n - k = 0
      BY <2>2, <3>1
    <3>3. cursor = [item |-> i, count |-> n]
      BY <1>5 DEF Stacks, i, n
    <3> QED BY <2>9, <3>1, <3>2, <3>3
  <2>14. ASSUME i = "a", button = 1
         PROVE  IF Room(x, "a") = 0 THEN after.slot = x /\ after.cursor = cursor
                ELSE /\ Room(after.slot, "a") = Room(x, "a") - 1
                     /\ after.slot.item = "a" /\ Holds(after.slot) = Holds(x) + 1
                     /\ after.cursor = Stack("a", n - 1)
    <3>1. CASE Room(x, "a") = 0
      <4>1. k = 0 /\ c + k = c /\ n - k = n /\ n # 0 /\ c # 0
        BY <2>2, <2>3, <2>4, <2>5, <2>14, <3>1, StackFacts
      <4>2. cursor = [item |-> i, count |-> n]
        BY <1>5 DEF Stacks, i, n
      <4>3. x = [item |-> i, count |-> c]
        BY <1>1, <1>2, <1>5, <2>5, <4>1 DEF Stacks
      <4> QED BY <2>9, <3>1, <4>1, <4>2, <4>3
    <3>2. CASE Room(x, "a") # 0
      <4>1. k = 1 /\ c + k = c + 1 /\ c + 1 # 0 /\ k \in 1..Room(x, i)
        BY <2>2, <2>3, <2>4, <2>5, <2>14, <3>2
      <4>2. Room(Stack(i, x.count + k), i) = Room(x, i) - k
        BY <1>1, <2>2, <4>1, RoomFacts
      <4>3. after.slot.item = "a" /\ Holds(after.slot) = Holds(x) + 1
        BY <2>5, <2>9, <2>10, <2>14, <4>1
      <4> QED BY <2>5, <2>7, <2>14, <3>2, <4>1, <4>2, <4>3
    <3> QED BY <3>1, <3>2
  <2> QED BY <1>5, <2>8, <2>11, <2>12, <2>13, <2>14 DEF x, i, n
<1> QED BY <1>3, <1>4, <1>5

-----------------------------------------------------------------------------
(* What a verb finds, and what becomes of the clicks.                      *)

\* The first slot of a set of slots.
LEMMA FirstFacts ==
  ASSUME NEW set, set \subseteq Slots
  PROVE  IF set = {} THEN First(set) = 0 ELSE First(set) \in set /\ First(set) # 0
<1>1. CASE set = {}
  BY <1>1 DEF First
<1>2. CASE set # {}
  <2>1. \E s \in set : \A t \in set : s <= t
    <3>1. IsWellFoundedOn(OpToRel(<, Nat), Nat)
      BY NatLessThanWellFounded
    <3>2. set \subseteq Nat
      BY SlotFacts
    <3>3. PICK s \in set : \A t \in set : ~(<<t, s>> \in OpToRel(<, Nat))
      BY <3>1, <3>2, <1>2, WFMin
    <3>4. \A t \in set : ~(t < s)
      BY <3>2, <3>3 DEF OpToRel
    <3> QED BY <3>2, <3>4
  <2>2. First(set) = CHOOSE s \in set : \A t \in set : s <= t
    BY <1>2 DEF First
  <2>3. First(set) \in set
    BY <2>1, <2>2
  <2>4. First(set) # 0
    <3>1. First(set) \in Slots
      BY <2>3
    <3>2. \A s \in Slots : s # 0
      BY SlotFacts
    <3> QED BY <3>1, <3>2
  <2> QED BY <2>3, <2>4, <1>2
<1> QED BY <1>1, <1>2

\* The slot a verb takes from, if there is one.
LEMMA FindFacts ==
  ASSUME view \in Windows, NEW range, range \subseteq Slots
  PROVE  IF \A s \in range : view[s].item # "a" THEN FindInRange(range) = 0
         ELSE /\ FindInRange(range) \in range /\ FindInRange(range) # 0
              /\ view[FindInRange(range)].item = "a"
<1> DEFINE set == {s \in range : view[s].item = "a"}
<1>1. FindInRange(range) = First(set)
  BY DEF FindInRange
<1>2. set \subseteq Slots /\ set \subseteq range /\ (set = {} <=> \A s \in range : view[s].item # "a")
  OBVIOUS
<1>3. \A s \in set : view[s].item = "a"
  OBVIOUS
<1> HIDE DEF set
<1>4. IF set = {} THEN First(set) = 0 ELSE First(set) \in set /\ First(set) # 0
  BY <1>2, FirstFacts
<1> QED BY <1>1, <1>2, <1>3, <1>4

\* The slot a part of a stack goes to, if there is one.
LEMMA FreeFacts ==
  ASSUME view \in Windows, NEW range, range \subseteq Slots
  PROVE  IF FreeSlotInRange(range) = 0 THEN \A s \in range : view[s].item = "b"
         ELSE /\ FreeSlotInRange(range) \in range
              /\ view[FreeSlotInRange(range)].item # "b"
<1>1. CASE FindInRange(range) # 0
  <2>1. FreeSlotInRange(range) = FindInRange(range)
    BY <1>1 DEF FreeSlotInRange
  <2> QED BY <1>1, <2>1, FindFacts
<1>2. CASE FindInRange(range) = 0
  <2> DEFINE set == {s \in range : view[s] = Empty}
  <2>1. FreeSlotInRange(range) = First(set)
    BY <1>2 DEF FreeSlotInRange
  <2>2. set \subseteq Slots
    OBVIOUS
  <2>3. IF set = {} THEN First(set) = 0 ELSE First(set) \in set /\ First(set) # 0
    <3> HIDE DEF set
    <3> QED BY <2>2, FirstFacts
  <2>4. \A s \in range : view[s].item # "a"
    BY <1>2, FindFacts
  <2>5. CASE set = {}
    <3>1. ASSUME NEW s \in range PROVE view[s].item = "b"
      <4>1. view[s] # Empty /\ view[s] \in Stacks
        BY <2>5 DEF Windows
      <4> QED BY <4>1, <2>4, StackFacts
    <3> QED BY <3>1, <2>1, <2>3, <2>5
  <2>6. CASE set # {}
    BY <2>1, <2>3, <2>6 DEF Empty
  <2> QED BY <2>5, <2>6
<1> QED BY <1>1, <1>2

Click == [mode : {"quick", "normal"}, slot : Slots, button : {0, 1}, verb : Nat,
          stale : BOOLEAN]

SameClick(a, b) == a.mode = b.mode /\ a.slot = b.slot /\ a.button = b.button
AllStale(clicks) == \A i \in 1..Len(clicks) : clicks[i].stale

\* Clicks overtaken are the same clicks, and stale.
LEMMA OvertakenFacts ==
  ASSUME NEW clicks \in Seq(Click)
  PROVE  /\ Overtaken(clicks) \in Seq(Click) /\ Len(Overtaken(clicks)) = Len(clicks)
         /\ \A i \in 1..Len(clicks) :
              /\ Overtaken(clicks)[i].stale /\ SameClick(Overtaken(clicks)[i], clicks[i])
              /\ Overtaken(clicks)[i].verb = clicks[i].verb
<1>1. PICK n \in Nat : n = Len(clicks) /\ DOMAIN clicks = 1..n
  OBVIOUS
<1>2. PICK o : o = [i \in 1..n |-> [clicks[i] EXCEPT !.stale = TRUE]]
  OBVIOUS
<1>3. Overtaken(clicks) = o
  BY <1>1, <1>2 DEF Overtaken
<1>4. ASSUME NEW i \in 1..n
      PROVE  /\ o[i] \in Click /\ o[i].stale /\ SameClick(o[i], clicks[i])
             /\ o[i].verb = clicks[i].verb
  <2>1. clicks[i] \in Click
    BY <1>1
  <2>2. o[i] = [clicks[i] EXCEPT !.stale = TRUE]
    BY <1>2
  <2> QED BY <2>1, <2>2 DEF Click, SameClick
<1>5. o \in Seq(Click) /\ Len(o) = n
  <2>1. o \in [1..n -> Click]
    BY <1>2, <1>4
  <2> QED BY <2>1
<1> QED BY <1>1, <1>3, <1>4, <1>5

\* A queue that is not empty, and its tail.
LEMMA TailFacts ==
  ASSUME NEW S, NEW q \in Seq(S), q # <<>>
  PROVE  /\ Tail(q) \in Seq(S) /\ Len(q) \in Nat \ {0} /\ Len(Tail(q)) = Len(q) - 1
         /\ Head(q) = q[1] /\ q[1] \in S
         /\ \A i \in 1..(Len(q) - 1) : Tail(q)[i] = q[i + 1]
<1>1. Len(q) \in Nat \ {0}
  OBVIOUS
<1>2. Tail(q) \in Seq(S) /\ Len(Tail(q)) = Len(q) - 1
  OBVIOUS
<1>3. \A i \in 1..(Len(q) - 1) : Tail(q)[i] = q[i + 1]
  BY <1>1
<1>4. Head(q) = q[1] /\ q[1] \in S
  BY <1>1
<1> QED BY <1>1, <1>2, <1>3, <1>4

\* A queue with something put behind it.
LEMMA AppendFacts ==
  ASSUME NEW S, NEW q \in Seq(S), NEW x \in S
  PROVE  /\ Append(q, x) \in Seq(S) /\ Len(q) \in Nat /\ Len(Append(q, x)) = Len(q) + 1
         /\ Append(q, x)[Len(q) + 1] = x
         /\ \A i \in 1..Len(q) : Append(q, x)[i] = q[i]
OBVIOUS

\* A queue with another behind it.
LEMMA ConcatFacts ==
  ASSUME NEW S, NEW q \in Seq(S), NEW r \in Seq(S)
  PROVE  /\ q \o r \in Seq(S) /\ Len(q) \in Nat /\ Len(r) \in Nat
         /\ Len(q \o r) = Len(q) + Len(r)
         /\ \A i \in 1..Len(q) : (q \o r)[i] = q[i]
         /\ \A i \in 1..Len(r) : (q \o r)[Len(q) + i] = r[i]
         /\ \A i \in 1..Len(q \o r) : i \in 1..Len(q) \/ \E j \in 1..Len(r) : i = Len(q) + j
<1>1. Len(q) \in Nat /\ Len(r) \in Nat /\ q \o r \in Seq(S) /\ Len(q \o r) = Len(q) + Len(r)
  OBVIOUS
<1>2. \A i \in 1..Len(q) : (q \o r)[i] = q[i]
  OBVIOUS
<1>3. \A i \in 1..Len(r) : (q \o r)[Len(q) + i] = r[i]
  BY <1>1
<1>4. ASSUME NEW i \in 1..Len(q \o r)
      PROVE  i \in 1..Len(q) \/ \E j \in 1..Len(r) : i = Len(q) + j
  <2>1. \A m \in Nat, n \in Nat : \A k \in 1..(m + n) :
          k \in 1..m \/ (k - m \in 1..n /\ k = m + (k - m))
    OBVIOUS
  <2>2. i \in 1..Len(q) \/ (i - Len(q) \in 1..Len(r) /\ i = Len(q) + (i - Len(q)))
    BY <1>1, <2>1
  <2> QED BY <2>2
<1> QED BY <1>1, <1>2, <1>3, <1>4

\* An empty queue.
LEMMA EmptyFacts == ASSUME NEW S, NEW q \in Seq(S) PROVE q = <<>> <=> Len(q) = 0
OBVIOUS

-----------------------------------------------------------------------------
(* Types, and where a verb is.                                             *)

Points == {"rest", "loop", "take", "counted", "pick", "place", "placed", "find", "sweep",
           "pause"}

\* A verb and its variables.
VerbType == [kind : Kinds \cup {"none"}, count : Nat, slot : OwnSlots, remaining : Int,
             before : Nat, was : Nat, src : Slots \cup {0}, dst : Slots \cup {0}, left : Nat,
             button : {0, 1}, moves : 0..MaxStackMoves,
             next : {"rest", "counted", "place", "placed"},
             result : {"none", "ok", "error"}, reported : Int]

\* The types.
Typed ==
  /\ slots \in Windows /\ view \in Windows /\ start \in Windows
  /\ cursor \in Stacks /\ up \in Seq(Click) /\ down \in Seq(Word)
  /\ at \in Points /\ verb \in VerbType /\ verbs \in Nat
  /\ calm \in {"prompt", "late", "disturbed"} /\ gained \in Int

\* The point a verb is at, or goes on from after its pause.
Point == IF at = "pause" THEN verb.next ELSE at

\* What the verb has chosen by the point it is at.
PointInv ==
  /\ at = "pause" => verb.next \in {"counted", "place", "placed"}
  /\ at \in {"counted", "place", "placed"} => verb.next = at
  /\ Point = "loop" => Counted
  /\ Point = "sweep" => verb.kind = "all"
  /\ Point = "find" => verb.kind \in {"put", "one"}
  /\ Point \in {"take", "counted"} => verb.src \in Source(verb) /\ (Counted \/ verb.kind = "all")
  /\ Point \in {"loop", "sweep", "find", "take", "counted"} => verb.dst = 0
  /\ Point \in {"pick", "place", "placed"} => verb.dst # 0
  /\ verb.dst # 0 =>
       /\ verb.dst \in Destination(verb) /\ verb.src \in Source(verb)
       /\ Counted \/ verb.kind \in {"put", "one"}
       /\ verb.kind # "put" => verb.button = 1

\* The ranges of a verb are apart, and on the two sides of the window.
LEMMA RangeFacts ==
  ASSUME verb \in VerbType
  PROVE  /\ Source(verb) \subseteq Slots /\ Destination(verb) \subseteq Slots
         /\ Source(verb) \cap Destination(verb) = {}
         /\ \A s \in Source(verb) : s # 0
         /\ Counted \/ verb.kind = "all" =>
              \A s \in Source(verb) :
                Destination(verb) = IF s \in OwnSlots THEN PlayerRows ELSE OwnSlots
<1>1. verb.slot \in OwnSlots /\ verb.kind \in Kinds \cup {"none"}
  BY DEF VerbType
<1>2. Source(verb) \in {OwnSlots, PlayerRows}
  BY DEF Source
<1>3. Destination(verb) \in {OwnSlots, PlayerRows, {verb.slot}}
  BY DEF Destination
<1>4. verb.kind = "withdraw" => Source(verb) = OwnSlots /\ Destination(verb) = PlayerRows
  BY DEF Source, Destination
<1>5. verb.kind # "withdraw" => Source(verb) = PlayerRows /\ Destination(verb) \subseteq OwnSlots
  BY <1>1 DEF Source, Destination
<1>6. (Counted \/ verb.kind = "all") /\ verb.kind # "withdraw" => Destination(verb) = OwnSlots
  BY DEF Destination, Counted
<1>7. Source(verb) \subseteq Slots /\ Destination(verb) \subseteq Slots
  BY <1>4, <1>5, SlotFacts
<1>8. Source(verb) \cap Destination(verb) = {}
  BY <1>4, <1>5, SlotFacts
<1>9. \A s \in Slots : s # 0
  BY SlotFacts
<1>10. ASSUME Counted \/ verb.kind = "all", NEW s \in Source(verb)
       PROVE  Destination(verb) = IF s \in OwnSlots THEN PlayerRows ELSE OwnSlots
  <2>1. CASE verb.kind = "withdraw"
    BY <1>4, <2>1, <1>10
  <2>2. CASE verb.kind # "withdraw"
    BY <1>5, <1>6, <2>2, <1>10, SlotFacts
  <2> QED BY <2>1, <2>2
<1> QED BY <1>7, <1>8, <1>9, <1>10

\* What a click of the verb, or its return, leaves.
LEMMA TypedClicks ==
  ASSUME Typed, NEW mode \in {"quick", "normal"}, NEW s \in Slots, NEW button \in {0, 1},
         NEW next \in {"counted", "place", "placed"}, NEW rec \in VerbType,
         Clicks(mode, s, button, next, rec)
  PROVE  Typed'
<1>1. [mode |-> mode, slot |-> s, button |-> button, verb |-> verbs, stale |-> down # <<>>] \in Click
  BY DEF Click, Typed
<1>2. up' \in Seq(Click)
  BY <1>1, AppendFacts DEF Clicks, Typed
<1>3. [rec EXCEPT !.next = next] \in VerbType
  BY DEF VerbType
<1> QED BY <1>2, <1>3 DEF Clicks, Typed, theirs, Points

\* What is counted is a natural number.
LEMMA CountType == ASSUME NEW w \in Windows, NEW R PROVE Count(w, R) \in Nat
BY CountSame

\* A return keeps the types.
LEMMA TypedReturns ==
  ASSUME Typed, NEW result \in {"ok", "error"}, Returns(result)
  PROVE  Typed'
<1>1. Count(view, Source(verb)) \in Nat
  BY CountType DEF Typed
<1>2. verb.before - Count(view, Source(verb)) \in Int
  BY <1>1 DEF Typed, VerbType
<1>3. verb' \in VerbType
  BY <1>2 DEF Returns, Typed, VerbType
<1> QED BY <1>3 DEF Returns, Typed, theirs, Points

\* So does what the server does with a click.
LEMMA TypedActs ==
  ASSUME Typed, up # <<>>, NEW click, NEW window \in Windows, NEW held \in Stacks,
         Acts(click, window, held), UNCHANGED <<view, at, verb, verbs, calm, start>>
  PROVE  Typed'
<1>1. slots' \in Windows /\ cursor' \in Stacks
  BY DEF Acts
<1>2. Tail(up) \in Seq(Click)
  BY TailFacts DEF Typed
<1>3. up' \in Seq(Click)
  <2>1. Overtaken(Tail(up)) \in Seq(Click)
    BY <1>2, OvertakenFacts
  <2> QED BY <1>2, <2>1 DEF Acts
<1>4. down' \in Seq(Word)
  <2>1. News(slots, window) \in Seq(Word)
    BY NewsFacts DEF Tells, Typed
  <2>2. down' = down \o News(slots, window)
    BY DEF Acts
  <2> QED BY <2>1, <2>2, ConcatFacts DEF Typed
<1>5. gained' \in Int
  <2>1. Count(window, Destination(verb)) \in Nat /\ Count(slots, Destination(verb)) \in Nat
    BY CountType DEF Typed
  <2>2. gained + Count(window, Destination(verb)) - Count(slots, Destination(verb)) \in Int
    BY <2>1 DEF Typed
  <2> QED BY <2>2 DEF Acts, Typed
<1> QED BY <1>1, <1>3, <1>4, <1>5 DEF Typed

\* The server keeps the types, ...
LEMMA TypedServer == ASSUME Typed, ServerTakesClick PROVE Typed'
<1>1. up # <<>> /\ UNCHANGED <<view, at, verb, verbs, calm, start>>
  BY DEF ServerTakesClick
<1>2. PICK click : click = Head(up)
  OBVIOUS
<1>3. click \in Click
  BY <1>1, <1>2, TailFacts DEF Typed
<1>4. click.slot \in Slots /\ click.button \in {0, 1}
  BY <1>3 DEF Click
<1>5. CASE Acts(click, QuickMove(click.slot), cursor)
  <2>1. QuickMove(click.slot) \in Windows
    <3>1. CASE slots[click.slot] = Empty
      BY <3>1 DEF QuickMove, Typed
    <3>2. CASE slots[click.slot] # Empty
      BY <3>2, <1>4, QuickMoveFacts DEF Typed
    <3> QED BY <3>1, <3>2
  <2>2. cursor \in Stacks
    BY DEF Typed
  <2> QED BY <1>1, <1>5, <2>1, <2>2, TypedActs
<1>6. ASSUME NEW after, after = NormalClick(click.slot, click.button),
             Acts(click, [slots EXCEPT ![click.slot] = after.slot], after.cursor)
      PROVE  Typed'
  <2>1. after.slot \in Stacks /\ after.cursor \in Stacks
    BY <1>4, <1>6, NormalClickFacts DEF Typed
  <2>2. [slots EXCEPT ![click.slot] = after.slot] \in Windows
    BY <2>1, <1>4 DEF Typed, Windows
  <2> QED BY <1>1, <1>6, <2>1, <2>2, TypedActs
<1>7. CASE /\ UNCHANGED <<slots, cursor, gained>>
           /\ up' = Overtaken(Tail(up))
           /\ down' = down \o [s \in Slots |-> [slot |-> s, stack |-> slots[s]]]
  <2>1. up' \in Seq(Click)
    BY <1>1, <1>7, TailFacts, OvertakenFacts DEF Typed
  <2>2. [s \in Slots |-> [slot |-> s, stack |-> slots[s]]] \in Seq(Word)
    <3>1. \A s \in Slots : [slot |-> s, stack |-> slots[s]] \in Word
      BY DEF Word, Typed, Windows
    <3>2. Slots = 1..Last /\ Last \in Nat
      BY SlotFacts
    <3> QED BY <3>1, <3>2
  <2>3. down' \in Seq(Word)
    BY <1>7, <2>2, ConcatFacts DEF Typed
  <2> QED BY <1>1, <1>7, <2>1, <2>3 DEF Typed
<1>8. \/ Acts(click, QuickMove(click.slot), cursor)
      \/ LET after == NormalClick(click.slot, click.button)
         IN Acts(click, [slots EXCEPT ![click.slot] = after.slot], after.cursor)
      \/ /\ UNCHANGED <<slots, cursor, gained>>
         /\ up' = Overtaken(Tail(up))
         /\ down' = down \o [s \in Slots |-> [slot |-> s, stack |-> slots[s]]]
  BY <1>2 DEF ServerTakesClick
<1> HIDE DEF Typed
<1> QED BY <1>5, <1>6, <1>7, <1>8

\* ... and whoever moves items under the verb, ...
LEMMA TypedOthers == ASSUME Typed, OthersMove PROVE Typed'
<1>1. PICK move \in OthersMoves, from \in Slots, to \in Slots :
        /\ from # to /\ slots[from] # Empty /\ Room(slots[to], slots[from].item) > 0
        /\ slots' = [slots EXCEPT ![from] = Stack(@.item, @.count - 1),
                                  ![to] = Stack(slots[from].item, @.count + 1)]
  BY TransfersAssumption DEF OthersMove
<1>2. slots[from].item \in {"a", "b"} /\ slots[from].count \in 1..MaxStack /\ MaxStack \in Nat
      /\ slots[from] \in Stacks /\ slots[to] \in Stacks
  BY <1>1, StackFacts DEF Typed, Windows
<1>3. Stack(slots[from].item, slots[from].count - 1) \in Stacks
  <2>1. slots[from].count - 1 \in 0..MaxStack
    BY <1>2
  <2> QED BY <1>2, <2>1, StackFacts
<1>4. Stack(slots[from].item, slots[to].count + 1) \in Stacks
  <2>1. 1 \in 1..Room(slots[to], slots[from].item)
    BY <1>1, <1>2, RoomFacts
  <2> QED BY <1>2, <2>1, RoomFacts
<1>5. slots' \in Windows
  BY <1>1, <1>3, <1>4 DEF Typed, Windows
<1>6. up' \in Seq(Click)
  BY OvertakenFacts DEF OthersMove, Typed
<1>7. down' \in Seq(Word)
  <2>1. News(slots, slots') \in Seq(Word)
    <3>1. PICK w \in Windows : w = slots'
      BY <1>5
    <3>2. News(slots, w) \in Seq(Word)
      BY NewsFacts DEF Tells, Typed
    <3> QED BY <3>1, <3>2
  <2> QED BY <2>1, ConcatFacts DEF OthersMove, Typed
<1>8. /\ UNCHANGED <<view, at, verb, verbs, start, cursor>>
      /\ calm' \in {"prompt", "late", "disturbed"} /\ gained' \in Int
  BY DEF OthersMove
<1> QED BY <1>5, <1>6, <1>7, <1>8 DEF Typed

\* ... the client that takes news, ...
LEMMA TypedNews == ASSUME Typed, TakeNews PROVE Typed'
<1>1. down # <<>> /\ down' = Tail(down)
      /\ view' = [view EXCEPT ![Head(down).slot] = Head(down).stack]
      /\ UNCHANGED <<slots, cursor, up, at, verb, verbs, calm, gained, start>>
  BY DEF TakeNews
<1>2. down' \in Seq(Word) /\ Head(down) \in Word
  BY <1>1, TailFacts DEF Typed
<1>3. view' \in Windows
  BY <1>1, <1>2 DEF Typed, Windows, Word
<1> QED BY <1>1, <1>2, <1>3 DEF Typed

\* ... a verb that begins ...
LEMMA TypedBegin == ASSUME Typed, NEW v \in Verbs, Begin(v) PROVE Typed'
<1>1. v.kind \in Kinds /\ v.count \in Nat /\ v.slot \in OwnSlots
  BY TransfersAssumption
<1>2. PICK before \in Nat : before = Count(view, Source(v))
  BY CountType DEF Typed
<1>3. verb' = [NoVerb EXCEPT !.kind = v.kind, !.count = v.count, !.slot = v.slot,
                             !.before = before,
                             !.remaining = IF v.count > 0 /\ v.count < before THEN v.count
                                           ELSE before]
  BY <1>2 DEF Begin
<1>4. verb' \in VerbType
  <2>1. MaxStackMoves \in Nat
    BY TransfersAssumption
  <2>2. PICK r \in Nat : r = IF v.count > 0 /\ v.count < before THEN v.count ELSE before
    BY <1>1
  <2>3. verb' = [kind |-> v.kind, count |-> v.count, slot |-> v.slot, remaining |-> r,
                 before |-> before, was |-> 0, src |-> 0, dst |-> 0, left |-> 0, button |-> 1,
                 moves |-> 0, next |-> "rest", result |-> "none", reported |-> 0]
    BY <1>3, <2>2 DEF NoVerb
  <2>4. 0 \in 0..MaxStackMoves
    BY <2>1
  <2> QED BY <1>1, <2>3, <2>4 DEF VerbType
<1>5. at' \in Points /\ calm' \in {"prompt", "late", "disturbed"}
  BY DEF Begin, Points
<1>6. UNCHANGED <<slots, cursor, up, down, view>> /\ verbs' = verbs + 1 /\ gained' = 0
      /\ start' = slots
  BY DEF Begin, theirs
<1> QED BY <1>4, <1>5, <1>6 DEF Typed

\* ... and every step of one.
LEMMA TypedSteps == ASSUME Typed, PointInv, Steps \/ ContextEnds PROVE Typed'
<1>0. verb \in VerbType /\ MaxStackMoves \in Nat \ {0} /\ view \in Windows
  BY TransfersAssumption DEF Typed
<1>1. CASE \/ StopsMoving \/ HasNoRoom \/ Stalled \/ Placed \/ FindsNothing \/ Swept
           \/ StackStayed \/ ContextEnds
  <2>1. \E result \in {"ok", "error"} : Returns(result)
    BY <1>1 DEF StopsMoving, HasNoRoom, Stalled, Placed, FindsNothing, Swept, StackStayed,
                ContextEnds
  <2> QED BY <2>1, TypedReturns
<1>2. CASE TakeFromContainer
  <2>1. at = "take" /\ Clicks("quick", verb.src, 0, "counted", verb)
    BY <1>2 DEF TakeFromContainer
  <2>2. verb.src \in Slots
    BY <2>1, <1>0, RangeFacts DEF PointInv, Point
  <2> QED BY <2>1, <2>2, <1>0, TypedClicks
<1>3. CASE PickUp
  <2>1. at = "pick" /\ Clicks("normal", verb.src, 0, "place", verb)
    BY <1>3 DEF PickUp
  <2>2. verb.src \in Slots
    BY <2>1, <1>0, RangeFacts DEF PointInv, Point
  <2> QED BY <2>1, <2>2, <1>0, TypedClicks
<1>4. CASE PlaceOne
  <2>1. at = "place" /\ verb.left > 0
        /\ Clicks("normal", verb.dst, verb.button, "place", [verb EXCEPT !.left = @ - 1])
    BY <1>4 DEF PlaceOne
  <2>2. verb.dst \in Slots /\ verb.button \in {0, 1}
    BY <2>1, <1>0, RangeFacts DEF PointInv, Point, VerbType
  <2>3. [verb EXCEPT !.left = @ - 1] \in VerbType
    BY <1>0, <2>1 DEF VerbType
  <2> QED BY <2>1, <2>2, <2>3, TypedClicks
<1>5. CASE PutBack
  <2>1. at = "place" /\ Clicks("normal", verb.src, 0, "placed", verb)
    BY <1>5 DEF PutBack
  <2>2. verb.src \in Slots
    BY <2>1, <1>0, RangeFacts DEF PointInv, Point
  <2> QED BY <2>1, <2>2, <1>0, TypedClicks
<1>6. CASE \/ TakesWhole \/ TakesPart \/ StackGone \/ MoveIntoSlot \/ Sweeps \/ StackLeft
           \/ PauseEnds
  <2>1. verb' \in VerbType
    <3>1. CASE TakesWhole
      <4>1. PICK s \in Slots \cup {0}, n \in Nat :
              /\ verb' = [verb EXCEPT !.src = s, !.was = n, !.moves = @ + 1]
              /\ verb.moves < MaxStackMoves
        <5>1. FindInRange(Source(verb)) \in Slots \cup {0}
          BY <1>0, RangeFacts, FindFacts
        <5>2. Count(view, Source(verb)) \in Nat
          BY <1>0, CountType
        <5> QED BY <3>1, <5>1, <5>2 DEF TakesWhole, Loops, Moves
      <4>2. verb.moves + 1 \in 0..MaxStackMoves
        <5>1. verb.moves \in 0..MaxStackMoves
          BY <1>0 DEF VerbType
        <5> QED BY <1>0, <4>1, <5>1
      <4> QED BY <1>0, <4>1, <4>2 DEF VerbType
    <3>2. CASE TakesPart
      <4>1. PICK s \in Slots \cup {0}, d \in Slots \cup {0} :
              /\ verb' = [verb EXCEPT !.src = s, !.dst = d, !.left = verb.remaining,
                                      !.button = 1, !.moves = @ + 1]
              /\ verb.moves < MaxStackMoves /\ verb.remaining > 0
        <5>1. FindInRange(Source(verb)) \in Slots \cup {0}
          BY <1>0, RangeFacts, FindFacts
        <5>2. FreeSlotInRange(Destination(verb)) \in Slots \cup {0}
          BY <1>0, RangeFacts, FreeFacts
        <5> QED BY <3>2, <5>1, <5>2 DEF TakesPart, Loops, Moves
      <4>2. verb.moves + 1 \in 0..MaxStackMoves
        <5>1. verb.moves \in 0..MaxStackMoves
          BY <1>0 DEF VerbType
        <5> QED BY <1>0, <4>1, <5>1
      <4>3. verb.remaining \in Nat
        <5>1. verb.remaining \in Int
          BY <1>0 DEF VerbType
        <5> QED BY <4>1, <5>1
      <4> QED BY <1>0, <4>1, <4>2, <4>3 DEF VerbType
    <3>3. CASE StackGone
      <4>1. PICK n \in Nat : verb' = [verb EXCEPT !.remaining = @ - (verb.was - n)]
        <5>1. Count(view, Source(verb)) \in Nat
          BY <1>0, CountType
        <5> QED BY <3>3, <5>1 DEF StackGone
      <4> QED BY <1>0, <4>1 DEF VerbType
    <3>4. CASE MoveIntoSlot
      <4>1. PICK s \in Slots \cup {0}, b \in {0, 1} :
              verb' = [verb EXCEPT !.src = s, !.dst = verb.slot, !.left = 1, !.button = b]
        <5>1. FindInRange(PlayerRows) \in Slots \cup {0}
          BY <1>0, SlotFacts, FindFacts
        <5> QED BY <3>4, <5>1 DEF MoveIntoSlot
      <4>2. verb.slot \in Slots
        BY <1>0, SlotFacts DEF VerbType
      <4> QED BY <1>0, <4>1, <4>2 DEF VerbType
    <3>5. CASE Sweeps
      <4>1. PICK s \in Slots \cup {0} :
              /\ verb' = [verb EXCEPT !.src = s, !.moves = @ + 1]
              /\ verb.moves < MaxStackMoves
        <5>1. Held \subseteq Slots
          BY SlotFacts DEF Held
        <5>2. First(Held) \in Slots \cup {0}
          BY <5>1, FirstFacts
        <5> QED BY <3>5, <5>2 DEF Sweeps, Moves
      <4>2. verb.moves + 1 \in 0..MaxStackMoves
        <5>1. verb.moves \in 0..MaxStackMoves
          BY <1>0 DEF VerbType
        <5> QED BY <1>0, <4>1, <5>1
      <4> QED BY <1>0, <4>1, <4>2 DEF VerbType
    <3>6. CASE StackLeft
      <4>1. verb' = [verb EXCEPT !.reported = @ + 1]
        BY <3>6 DEF StackLeft
      <4> QED BY <1>0, <4>1 DEF VerbType
    <3>7. CASE PauseEnds
      BY <1>0, <3>7 DEF PauseEnds
    <3> QED BY <1>6, <3>1, <3>2, <3>3, <3>4, <3>5, <3>6, <3>7
  <2>2. /\ UNCHANGED <<slots, cursor, down, view, up, verbs, gained, start>>
        /\ calm' \in {"prompt", "late", "disturbed"} /\ at' \in Points
    <3>1. \/ UNCHANGED calm /\ at' \in {"take", "pick", "loop", "sweep"}
          \/ PauseEnds
      BY <1>6 DEF TakesWhole, TakesPart, StackGone, MoveIntoSlot, Sweeps, StackLeft, Goes
    <3>2. UNCHANGED <<slots, cursor, down, view, up, verbs, gained, start>>
      BY <1>6 DEF TakesWhole, TakesPart, StackGone, MoveIntoSlot, Sweeps, StackLeft, PauseEnds,
                  theirs
    <3>3. CASE PauseEnds
      BY <3>2, <3>3, <1>0 DEF PauseEnds, Goes, Typed, VerbType, Points
    <3> QED BY <3>1, <3>2, <3>3 DEF Typed, Points
  <2> QED BY <2>1, <2>2 DEF Typed
<1> HIDE DEF Typed, PointInv
<1> QED BY <1>1, <1>2, <1>3, <1>4, <1>5, <1>6 DEF Steps

\* What changes of a verb that has begun leaves alone.
SameVerb ==
  /\ verb'.kind = verb.kind /\ verb'.count = verb.count /\ verb'.slot = verb.slot
  /\ verb'.before = verb.before

\* A verb that has begun keeps its ranges and what it wants.
LEMMA SameRanges ==
  ASSUME SameVerb
  PROVE  /\ Source(verb') = Source(verb) /\ Destination(verb') = Destination(verb)
         /\ Counted' = Counted /\ Wanted' = Wanted
BY DEF SameVerb, Source, Destination, Counted, Wanted

\* No step of a verb touches the window, the cursor, the news or what was asked.
LEMMA StepsSame ==
  ASSUME Typed, Steps \/ ContextEnds
  PROVE  SameVerb /\ UNCHANGED <<theirs, verbs, gained, start>>
<1>1. verb \in VerbType
  BY DEF Typed
<1>2. \/ \E result : Returns(result)
      \/ TakesWhole \/ TakesPart \/ TakeFromContainer \/ StackGone
      \/ PickUp \/ PlaceOne \/ PutBack \/ MoveIntoSlot \/ Sweeps \/ StackLeft \/ PauseEnds
  BY DEF Steps, ContextEnds, StopsMoving, HasNoRoom, Stalled, Placed, FindsNothing, Swept, StackStayed
<1>3. CASE \E result : Returns(result)
  BY <1>1, <1>3 DEF Returns, SameVerb, VerbType
<1>4. CASE TakesWhole
  BY <1>1, <1>4 DEF TakesWhole, SameVerb, VerbType
<1>5. CASE TakesPart
  BY <1>1, <1>5 DEF TakesPart, SameVerb, VerbType
<1>6. CASE TakeFromContainer
  BY <1>1, <1>6 DEF TakeFromContainer, Clicks, SameVerb, VerbType
<1>7. CASE StackGone
  BY <1>1, <1>7 DEF StackGone, SameVerb, VerbType
<1>8. CASE PickUp
  BY <1>1, <1>8 DEF PickUp, Clicks, SameVerb, VerbType
<1>9. CASE PlaceOne
  BY <1>1, <1>9 DEF PlaceOne, Clicks, SameVerb, VerbType
<1>10. CASE PutBack
  BY <1>1, <1>10 DEF PutBack, Clicks, SameVerb, VerbType
<1>11. CASE MoveIntoSlot
  BY <1>1, <1>11 DEF MoveIntoSlot, SameVerb, VerbType
<1>12. CASE Sweeps
  BY <1>1, <1>12 DEF Sweeps, SameVerb, VerbType
<1>13. CASE StackLeft
  BY <1>1, <1>13 DEF StackLeft, SameVerb, VerbType
<1>14. CASE PauseEnds
  BY <1>1, <1>14 DEF PauseEnds, SameVerb, VerbType
<1> QED BY <1>2, <1>3, <1>4, <1>5, <1>6, <1>7, <1>8, <1>9, <1>10, <1>11, <1>12, <1>13, <1>14

\* Who does not touch the verb leaves it where it is.
LEMMA PointOthers ==
  ASSUME PointInv, UNCHANGED <<at, verb>>
  PROVE  PointInv'
BY DEF PointInv, Point, Counted

\* A verb that returns, from wherever it is.
LEMMA PointReturns ==
  ASSUME Typed, PointInv, NEW result, Returns(result)
  PROVE  PointInv'
<1>1. verb \in VerbType
  BY DEF Typed
<1>2. at' = "rest" /\ SameVerb /\ verb'.dst = verb.dst /\ verb'.src = verb.src
      /\ verb'.button = verb.button
  BY <1>1 DEF Returns, SameVerb, VerbType
<1>3. Source(verb') = Source(verb) /\ Destination(verb') = Destination(verb) /\ Counted' = Counted
  BY <1>2, SameRanges
<1> QED BY <1>2, <1>3 DEF PointInv, Point, SameVerb

\* A verb that clicks pauses, and goes on from there.
LEMMA PointClicks ==
  ASSUME Typed, PointInv,
         TakeFromContainer \/ PickUp \/ PlaceOne \/ PutBack \/ PauseEnds
  PROVE  PointInv'
<1>1. verb \in VerbType
  BY DEF Typed
<1>2. SameVerb
  BY StepsSame DEF Steps
<1>3. Source(verb') = Source(verb) /\ Destination(verb') = Destination(verb) /\ Counted' = Counted
  BY <1>2, SameRanges
<1>4. verb'.dst = verb.dst /\ verb'.src = verb.src /\ verb'.button = verb.button
  BY <1>1 DEF TakeFromContainer, PickUp, PlaceOne, PutBack, PauseEnds, Clicks, VerbType
<1>5. \/ at = "take" /\ at' = "pause" /\ verb'.next = "counted"
      \/ at = "pick" /\ at' = "pause" /\ verb'.next = "place"
      \/ at = "place" /\ at' = "pause" /\ verb'.next \in {"place", "placed"}
      \/ at = "pause" /\ at' = verb.next /\ verb'.next = verb.next
  BY <1>1 DEF TakeFromContainer, PickUp, PlaceOne, PutBack, PauseEnds, Clicks, Goes, VerbType
<1> HIDE DEF TakeFromContainer, PickUp, PlaceOne, PutBack, PauseEnds
<1> QED BY <1>2, <1>3, <1>4, <1>5 DEF PointInv, Point, SameVerb

\* Every step of a verb keeps to its points.
LEMMA PointSteps == ASSUME Typed, PointInv, Steps \/ ContextEnds PROVE PointInv'
<1>1. verb \in VerbType /\ view \in Windows
  BY DEF Typed
<1>2. SameVerb /\ UNCHANGED <<theirs, verbs, gained, start>>
  BY StepsSame
<1>3. Source(verb') = Source(verb) /\ Destination(verb') = Destination(verb) /\ Counted' = Counted
  BY <1>2, SameRanges
<1>4. \/ \E result : Returns(result)
      \/ TakesWhole \/ TakesPart \/ TakeFromContainer \/ StackGone
      \/ PickUp \/ PlaceOne \/ PutBack \/ MoveIntoSlot \/ Sweeps \/ StackLeft \/ PauseEnds
  BY DEF Steps, ContextEnds, StopsMoving, HasNoRoom, Stalled, Placed, FindsNothing, Swept, StackStayed
<1>5. CASE \E result : Returns(result)
  BY <1>5, PointReturns
<1>6. CASE TakeFromContainer \/ PickUp \/ PlaceOne \/ PutBack \/ PauseEnds
  BY <1>6, PointClicks
<1>7. CASE TakesWhole
  <2>1. FindInRange(Source(verb)) \in Source(verb)
    BY <1>1, <1>7, RangeFacts, FindFacts DEF TakesWhole, Loops
  <2>2. at = "loop" /\ at' = "take" /\ verb'.src \in Source(verb) /\ verb'.dst = verb.dst
    BY <1>1, <1>7, <2>1 DEF TakesWhole, Loops, VerbType
  <2> QED BY <1>2, <1>3, <2>2 DEF PointInv, Point, SameVerb
<1>8. CASE TakesPart
  <2>1. FindInRange(Source(verb)) \in Source(verb)
    BY <1>1, <1>8, RangeFacts, FindFacts DEF TakesPart, Loops
  <2>2. FreeSlotInRange(Destination(verb)) \in Destination(verb)
    BY <1>1, <1>8, RangeFacts, FreeFacts DEF TakesPart
  <2>3. /\ at = "loop" /\ at' = "pick" /\ verb'.src \in Source(verb)
        /\ verb'.dst \in Destination(verb) /\ verb'.dst # 0 /\ verb'.button = 1
    BY <1>1, <1>8, <2>1, <2>2 DEF TakesPart, Loops, VerbType
  <2> QED BY <1>2, <1>3, <2>3 DEF PointInv, Point, SameVerb
<1>9. CASE StackGone
  <2>1. at = "counted" /\ at' = "loop" /\ verb.kind # "all" /\ verb'.dst = verb.dst
    BY <1>1, <1>9 DEF StackGone, Goes, VerbType
  <2> QED BY <1>2, <1>3, <2>1 DEF PointInv, Point, SameVerb
<1>10. CASE MoveIntoSlot
  <2>1. at = "find" /\ at' = "pick" /\ verb.kind \in {"put", "one"}
    BY <1>10 DEF MoveIntoSlot, Goes, PointInv, Point
  <2>2. Source(verb) = PlayerRows /\ Destination(verb) = {verb.slot}
    BY <2>1 DEF Source, Destination
  <2>3. FindInRange(PlayerRows) \in PlayerRows
    BY <1>1, <1>10, SlotFacts, FindFacts DEF MoveIntoSlot
  <2>4. /\ verb'.src \in Source(verb) /\ verb'.dst \in Destination(verb)
        /\ verb'.dst # 0 /\ (verb.kind = "one" => verb'.button = 1)
    <3>1. verb.slot # 0
      BY <1>1, SlotFacts DEF VerbType, OwnSlots
    <3> QED BY <1>1, <1>10, <2>2, <2>3, <3>1 DEF MoveIntoSlot, VerbType
  <2>5. ~Counted
    BY <2>1 DEF Counted
  <2> QED BY <1>2, <1>3, <2>1, <2>4, <2>5 DEF PointInv, Point, SameVerb
<1>11. CASE Sweeps
  <2>1. at = "sweep" /\ at' = "take" /\ verb.kind = "all" /\ verb'.dst = verb.dst
    BY <1>1, <1>11 DEF Sweeps, Goes, PointInv, Point, VerbType
  <2>2. Held \subseteq PlayerRows /\ Held \subseteq Slots /\ Held # {}
    BY <1>11, SlotFacts DEF Sweeps, Held
  <2>3. verb'.src \in PlayerRows
    <3>1. First(Held) \in PlayerRows
      BY <2>2, FirstFacts
    <3> QED BY <1>1, <1>11, <3>1 DEF Sweeps, VerbType
  <2>4. Source(verb) = PlayerRows
    BY <2>1 DEF Source
  <2> QED BY <1>2, <1>3, <2>1, <2>3, <2>4 DEF PointInv, Point, SameVerb
<1>12. CASE StackLeft
  <2>1. at = "counted" /\ at' = "sweep" /\ verb.kind = "all" /\ verb'.dst = verb.dst
    BY <1>1, <1>12 DEF StackLeft, Goes, VerbType
  <2> QED BY <1>2, <1>3, <2>1 DEF PointInv, Point, SameVerb
<1> HIDE DEF Typed, PointInv
<1> QED BY <1>4, <1>5, <1>6, <1>7, <1>8, <1>9, <1>10, <1>11, <1>12

\* So does its beginning.
LEMMA PointBegin == ASSUME NEW v \in Verbs, Begin(v) PROVE PointInv'
<1>1. v.kind \in Kinds
  BY TransfersAssumption
<1>2. /\ verb'.kind = v.kind /\ verb'.dst = 0
      /\ at' = CASE v.kind \in {"deposit", "withdraw"} -> "loop" [] v.kind = "all" -> "sweep"
                 [] OTHER -> "find"
  BY DEF Begin, NoVerb
<1>3. CASE v.kind \in {"deposit", "withdraw"}
  BY <1>2, <1>3 DEF PointInv, Point, Counted
<1>4. CASE v.kind = "all"
  BY <1>2, <1>4 DEF PointInv, Point, Counted
<1>5. CASE v.kind \in {"put", "one"}
  BY <1>2, <1>5 DEF PointInv, Point, Counted
<1> QED BY <1>1, <1>3, <1>4, <1>5 DEF Kinds

-----------------------------------------------------------------------------
(* What is on its way while nobody interferes.                             *)

\* Nobody has moved anything under the verb.
Calm == calm # "disturbed"

\* Every word on its way is true, every slot the client has wrong is about to be said, and
\* a click the server will act on was sent with nothing on its way.
NewsInv ==
  /\ \A i \in 1..Len(down) : down[i].stack = slots[down[i].slot]
  /\ \A s \in Slots : view[s] = slots[s] \/ \E i \in 1..Len(down) : down[i].slot = s
  /\ \A i \in 1..Len(up) : up[i].verb = verbs /\ (~up[i].stale => down = <<>>)

\* The server comes to a click while nobody else is about.
Shifts ==
  /\ up # <<>> /\ UNCHANGED <<view, at, verb, verbs, calm, start>>
  /\ up' \in Seq(Click) /\ Len(up) \in Nat \ {0} /\ Len(up') = Len(up) - 1
  /\ \A i \in 1..(Len(up) - 1) :
       SameClick(up'[i], up[i + 1]) /\ (up'[i].stale \/ ~up[i + 1].stale)

ServesStale == Shifts /\ up[1].stale /\ UNCHANGED <<slots, cursor, gained>> /\ AllStale(up')

Serves ==
  /\ Shifts /\ ~up[1].stale /\ down = <<>> /\ view = slots
  /\ up[1].slot \in Slots /\ up[1].button \in {0, 1}
  /\ gained' = gained + Count(slots', Destination(verb)) - Count(slots, Destination(verb))
  /\ slots' = slots \/ AllStale(up')

ServesQuick ==
  Serves /\ up[1].mode = "quick" /\ slots' = QuickMove(up[1].slot) /\ cursor' = cursor

ServesNormal ==
  /\ Serves /\ up[1].mode = "normal"
  /\ \E after : /\ after = NormalClick(up[1].slot, up[1].button)
                /\ slots' = [slots EXCEPT ![up[1].slot] = after.slot]
                /\ cursor' = after.cursor

\* Who changes neither the window nor the queues keeps NewsInv.
LEMMA SameNews == ASSUME NewsInv, UNCHANGED <<slots, view, down, up, verbs>> PROVE NewsInv'
BY DEF NewsInv

\* With no news on its way the client sees the window.
LEMMA NewsSeen == ASSUME Typed, NewsInv, down = <<>> PROVE view = slots
<1>1. \A s \in Slots : view[s] = slots[s]
  BY DEF NewsInv
<1> QED BY <1>1 DEF Typed, Windows

\* A click is sent fresh only when there is no news on its way.
LEMMA NewsClicks ==
  ASSUME Typed, NewsInv, NEW mode \in {"quick", "normal"}, NEW s \in Slots, NEW button \in {0, 1},
         NEW next, NEW rec, Clicks(mode, s, button, next, rec)
  PROVE  /\ NewsInv' /\ up' \in Seq(Click) /\ Len(up) \in Nat /\ Len(up') = Len(up) + 1
         /\ up'[Len(up')] = [mode |-> mode, slot |-> s, button |-> button, verb |-> verbs,
                             stale |-> down # <<>>]
         /\ \A i \in 1..Len(up) : up'[i] = up[i]
<1>1. PICK click : click = [mode |-> mode, slot |-> s, button |-> button, verb |-> verbs,
                            stale |-> down # <<>>]
  OBVIOUS
<1>2. click \in Click
  BY <1>1 DEF Click, Typed
<1>3. up' = Append(up, click) /\ UNCHANGED <<slots, view, down, verbs>>
  BY <1>1 DEF Clicks, theirs
<1>4. /\ up' \in Seq(Click) /\ Len(up) \in Nat /\ Len(up') = Len(up) + 1
      /\ up'[Len(up) + 1] = click /\ \A i \in 1..Len(up) : up'[i] = up[i]
  BY <1>2, <1>3, AppendFacts DEF Typed
<1>5. \A i \in 1..Len(up') : i \in 1..Len(up) \/ i = Len(up) + 1
  BY <1>4
<1>6. \A i \in 1..Len(up') : up'[i].verb = verbs /\ (~up'[i].stale => down = <<>>)
  <2> SUFFICES ASSUME NEW i \in 1..Len(up')
               PROVE  up'[i].verb = verbs /\ (~up'[i].stale => down = <<>>)
    OBVIOUS
  <2>1. CASE i \in 1..Len(up)
    <3>1. up'[i] = up[i]
      BY <2>1, <1>4
    <3> QED BY <2>1, <3>1 DEF NewsInv
  <2>2. CASE i = Len(up) + 1
    <3>1. up'[i] = click
      BY <2>2, <1>4
    <3>2. click.verb = verbs /\ (click.stale <=> down # <<>>)
      BY <1>1
    <3> QED BY <3>1, <3>2
  <2> QED BY <2>1, <2>2, <1>5
<1> QED BY <1>1, <1>3, <1>4, <1>6 DEF NewsInv

\* Taking news makes one slot right, and none wrong.
LEMMA NewsTaken ==
  ASSUME Typed, NewsInv, TakeNews
  PROVE  /\ NewsInv' /\ down # <<>>
         /\ UNCHANGED <<slots, cursor, up, at, verb, verbs, calm, gained, start>>
         /\ \E t \in Slots : view'[t] = slots[t] /\ \A s \in Slots \ {t} : view'[s] = view[s]
<1>1. /\ down # <<>> /\ down' = Tail(down)
      /\ view' = [view EXCEPT ![Head(down).slot] = Head(down).stack]
      /\ UNCHANGED <<slots, cursor, up, at, verb, verbs, calm, gained, start>>
  BY DEF TakeNews
<1>2. /\ down' \in Seq(Word) /\ Len(down) \in Nat \ {0} /\ Len(down') = Len(down) - 1
      /\ Head(down) = down[1] /\ down[1] \in Word
      /\ \A i \in 1..(Len(down) - 1) : down'[i] = down[i + 1]
  BY <1>1, TailFacts DEF Typed
<1>3. PICK t \in Slots : t = down[1].slot
  BY <1>2 DEF Word
<1>4. view'[t] = slots[t] /\ \A s \in Slots \ {t} : view'[s] = view[s]
  <2>1. 1 \in 1..Len(down)
    BY <1>2
  <2>2. down[1].stack = slots[t]
    BY <2>1, <1>3 DEF NewsInv
  <2> QED BY <2>2, <1>1, <1>2, <1>3 DEF Typed, Windows
<1>5. \A i \in 1..Len(down') : i + 1 \in 1..Len(down) /\ down'[i] = down[i + 1]
  BY <1>2
<1>6. \A i \in 1..Len(down') : down'[i].stack = slots[down'[i].slot]
  BY <1>5 DEF NewsInv
<1>7. ASSUME NEW s \in Slots PROVE view'[s] = slots[s] \/ \E i \in 1..Len(down') : down'[i].slot = s
  <2>1. CASE s = t
    BY <1>4, <2>1
  <2>2. CASE s # t
    <3>1. CASE view[s] = slots[s]
      BY <1>4, <2>2, <3>1
    <3>2. ASSUME NEW i \in 1..Len(down), down[i].slot = s
          PROVE  \E j \in 1..Len(down') : down'[j].slot = s
      <4>1. i # 1
        BY <2>2, <3>2, <1>3
      <4>2. i - 1 \in 1..Len(down') /\ i - 1 \in 1..(Len(down) - 1) /\ (i - 1) + 1 = i
        BY <4>1, <1>2
      <4>3. down'[i - 1] = down[i]
        BY <4>2, <1>2
      <4> QED BY <4>2, <4>3, <3>2
    <3> QED BY <3>1, <3>2 DEF NewsInv
  <2> QED BY <2>1, <2>2
<1>8. \A i \in 1..Len(up) : up[i].verb = verbs /\ (~up[i].stale => FALSE)
  BY <1>1 DEF NewsInv
<1> QED BY <1>1, <1>3, <1>4, <1>6, <1>7, <1>8 DEF NewsInv

\* What Acts does to the news, the clicks and the count.
LEMMA ActsFacts ==
  ASSUME Typed, Calm, NewsInv, up # <<>>, ~up[1].stale,
         UNCHANGED <<view, at, verb, verbs, calm, start>>,
         NEW window \in Windows, NEW held, Acts(up[1], window, held)
  PROVE  Serves /\ NewsInv' /\ slots' = window /\ cursor' = held
<1>1. /\ Tail(up) \in Seq(Click) /\ Len(up) \in Nat \ {0} /\ Len(Tail(up)) = Len(up) - 1
      /\ up[1] \in Click /\ \A i \in 1..(Len(up) - 1) : Tail(up)[i] = up[i + 1]
  BY TailFacts DEF Typed
<1>2. 1 \in 1..Len(up) /\ \A i \in 1..(Len(up) - 1) : i + 1 \in 1..Len(up)
  BY <1>1
<1>3. down = <<>> /\ up[1].verb = verbs
  BY <1>2 DEF NewsInv
<1>4. view = slots
  BY <1>3, NewsSeen
<1>5. PICK news : news = News(slots, window)
  OBVIOUS
<1>6. /\ slots' = window /\ cursor' = held /\ down' = down \o news
      /\ up' = IF news = <<>> THEN Tail(up) ELSE Overtaken(Tail(up))
      /\ gained' = gained + Count(window, Destination(verb)) - Count(slots, Destination(verb))
  BY <1>3, <1>5 DEF Acts, Calm
<1>7. /\ news \in Seq(Word)
      /\ \A i \in 1..Len(news) :
           news[i].stack = window[news[i].slot] /\ window[news[i].slot] # slots[news[i].slot]
      /\ \A s \in Slots : window[s] # slots[s] => \E i \in 1..Len(news) : news[i].slot = s
  <2>1. Tells(news, slots, window)
    BY <1>5, NewsFacts DEF Typed
  <2> QED BY <2>1 DEF Tells
<1>8. down' = news
  BY <1>3, <1>6, <1>7
<1>9. /\ Overtaken(Tail(up)) \in Seq(Click) /\ Len(Overtaken(Tail(up))) = Len(up) - 1
      /\ \A i \in 1..(Len(up) - 1) :
           /\ SameClick(Overtaken(Tail(up))[i], up[i + 1]) /\ Overtaken(Tail(up))[i].stale
           /\ Overtaken(Tail(up))[i].verb = up[i + 1].verb
  <2>1. PICK tail \in Seq(Click) : tail = Tail(up)
    BY <1>1
  <2>2. /\ Overtaken(tail) \in Seq(Click) /\ Len(Overtaken(tail)) = Len(tail)
        /\ \A i \in 1..Len(tail) :
             /\ Overtaken(tail)[i].stale /\ SameClick(Overtaken(tail)[i], tail[i])
             /\ Overtaken(tail)[i].verb = tail[i].verb
    BY OvertakenFacts
  <2>3. Len(tail) = Len(up) - 1 /\ \A i \in 1..(Len(up) - 1) : tail[i] = up[i + 1]
    BY <1>1, <2>1
  <2> QED BY <2>1, <2>2, <2>3
<1>10. Shifts
  <2>1. CASE news = <<>>
    BY <1>1, <1>6, <2>1 DEF Shifts, SameClick
  <2>2. CASE news # <<>>
    BY <1>1, <1>6, <1>9, <2>2 DEF Shifts
  <2> QED BY <2>1, <2>2
<1>11. slots' = slots \/ AllStale(up')
  <2>1. CASE news = <<>>
    <3>1. \A s \in Slots : window[s] = slots[s]
      BY <1>7, <2>1
    <3> QED BY <3>1, <1>6 DEF Typed, Windows
  <2>2. CASE news # <<>>
    BY <1>6, <1>9, <2>2 DEF AllStale
  <2> QED BY <2>1, <2>2
<1>12. NewsInv'
  <2>1. \A i \in 1..Len(up') : up'[i].verb = verbs /\ (~up'[i].stale => news = <<>>)
    <3>1. CASE news = <<>>
      BY <1>1, <1>2, <1>6, <3>1 DEF NewsInv
    <3>2. CASE news # <<>>
      BY <1>2, <1>6, <1>9, <3>2 DEF NewsInv
    <3> QED BY <3>1, <3>2
  <2>2. \A i \in 1..Len(down') : down'[i].stack = slots'[down'[i].slot]
    BY <1>6, <1>7, <1>8
  <2>3. \A s \in Slots : view'[s] = slots'[s] \/ \E i \in 1..Len(down') : down'[i].slot = s
    BY <1>4, <1>6, <1>7, <1>8
  <2> QED BY <2>1, <2>2, <2>3, <1>8 DEF NewsInv
<1> QED BY <1>1, <1>3, <1>4, <1>6, <1>10, <1>11, <1>12 DEF Serves, Click

\* The server keeps NewsInv, and comes to the click at the head of the queue.
LEMMA ServerFacts ==
  ASSUME Typed, Calm, NewsInv, ServerTakesClick
  PROVE  NewsInv' /\ (ServesStale \/ ServesQuick \/ ServesNormal)
<1>1. up # <<>> /\ UNCHANGED <<view, at, verb, verbs, calm, start>>
  BY DEF ServerTakesClick
<1>2. /\ Tail(up) \in Seq(Click) /\ Len(up) \in Nat \ {0} /\ Len(Tail(up)) = Len(up) - 1
      /\ Head(up) = up[1]
      /\ up[1] \in Click /\ \A i \in 1..(Len(up) - 1) : Tail(up)[i] = up[i + 1]
  BY <1>1, TailFacts DEF Typed
<1>3. up[1].slot \in Slots /\ up[1].button \in {0, 1}
  BY <1>2 DEF Click
<1>4. \/ /\ ~up[1].stale /\ up[1].mode = "quick"
         /\ Acts(up[1], QuickMove(up[1].slot), cursor)
      \/ /\ ~up[1].stale /\ up[1].mode = "normal"
         /\ \E after : /\ after = NormalClick(up[1].slot, up[1].button)
                       /\ Acts(up[1], [slots EXCEPT ![up[1].slot] = after.slot], after.cursor)
      \/ /\ up[1].stale
         /\ UNCHANGED <<slots, cursor, gained>>
         /\ up' = Overtaken(Tail(up))
         /\ down' = down \o [s \in Slots |-> [slot |-> s, stack |-> slots[s]]]
  BY <1>2 DEF ServerTakesClick
<1>5. CASE /\ ~up[1].stale /\ up[1].mode = "quick"
           /\ Acts(up[1], QuickMove(up[1].slot), cursor)
  <2>1. QuickMove(up[1].slot) \in Windows
    <3>1. CASE slots[up[1].slot] = Empty
      BY <3>1 DEF QuickMove, Typed
    <3>2. CASE slots[up[1].slot] # Empty
      BY <3>2, <1>3, QuickMoveFacts DEF Typed
    <3> QED BY <3>1, <3>2
  <2>2. Serves /\ NewsInv' /\ slots' = QuickMove(up[1].slot) /\ cursor' = cursor
    BY <1>1, <1>5, <2>1, ActsFacts
  <2> QED BY <1>5, <2>2 DEF ServesQuick
<1>6. ASSUME ~up[1].stale, up[1].mode = "normal",
             NEW after, after = NormalClick(up[1].slot, up[1].button),
             Acts(up[1], [slots EXCEPT ![up[1].slot] = after.slot], after.cursor)
      PROVE  NewsInv' /\ ServesNormal
  <2>1. after.slot \in Stacks /\ after.cursor \in Stacks
    BY <1>3, <1>6, NormalClickFacts DEF Typed
  <2>2. [slots EXCEPT ![up[1].slot] = after.slot] \in Windows
    BY <2>1, <1>3 DEF Typed, Windows
  <2>3. /\ Serves /\ NewsInv' /\ slots' = [slots EXCEPT ![up[1].slot] = after.slot]
        /\ cursor' = after.cursor
    BY <1>1, <1>6, <2>2, ActsFacts
  <2> QED BY <1>6, <2>3 DEF ServesNormal
<1>7. CASE /\ up[1].stale
           /\ UNCHANGED <<slots, cursor, gained>>
           /\ up' = Overtaken(Tail(up))
           /\ down' = down \o [s \in Slots |-> [slot |-> s, stack |-> slots[s]]]
  <2>1. /\ up' \in Seq(Click) /\ Len(up') = Len(up) - 1
        /\ \A i \in 1..(Len(up) - 1) :
             /\ SameClick(up'[i], up[i + 1]) /\ up'[i].stale /\ up'[i].verb = up[i + 1].verb
    <3>1. PICK tail \in Seq(Click) : tail = Tail(up)
      BY <1>2
    <3>2. /\ Overtaken(tail) \in Seq(Click) /\ Len(Overtaken(tail)) = Len(tail)
          /\ \A i \in 1..Len(tail) :
               /\ Overtaken(tail)[i].stale /\ SameClick(Overtaken(tail)[i], tail[i])
               /\ Overtaken(tail)[i].verb = tail[i].verb
      BY OvertakenFacts
    <3>3. Len(tail) = Len(up) - 1 /\ \A i \in 1..(Len(up) - 1) : tail[i] = up[i + 1]
      BY <1>2, <3>1
    <3> QED BY <1>7, <3>1, <3>2, <3>3
  <2>2. PICK all : all = [s \in Slots |-> [slot |-> s, stack |-> slots[s]]]
    OBVIOUS
  <2>3. \A s \in Slots : all[s].slot = s /\ all[s].stack = slots[s] /\ all[s] \in Word
    BY <2>2 DEF Word, Typed, Windows
  <2>4. all \in Seq(Word) /\ Len(all) = Last /\ Slots = 1..Len(all)
    <3>1. Slots = 1..Last /\ Last \in Nat
      BY SlotFacts
    <3>2. all \in Seq(Word) /\ Len(all) = Last
      BY <2>2, <2>3, <3>1
    <3> QED BY <3>1, <3>2
  <2>5. down' = down \o all
    BY <1>7, <2>2
  <2>6. /\ down' \in Seq(Word) /\ Len(down) \in Nat /\ Len(all) \in Nat
        /\ Len(down') = Len(down) + Len(all)
        /\ \A i \in 1..Len(down) : down'[i] = down[i]
        /\ \A i \in 1..Len(all) : down'[Len(down) + i] = all[i]
        /\ \A i \in 1..Len(down') :
             i \in 1..Len(down) \/ \E j \in 1..Len(all) : i = Len(down) + j
    <3>1. PICK q \in Seq(Word) : q = down
      BY DEF Typed
    <3>2. PICK r \in Seq(Word) : r = all
      BY <2>4
    <3>3. /\ q \o r \in Seq(Word) /\ Len(q) \in Nat /\ Len(r) \in Nat
          /\ Len(q \o r) = Len(q) + Len(r)
          /\ \A i \in 1..Len(q) : (q \o r)[i] = q[i]
          /\ \A i \in 1..Len(r) : (q \o r)[Len(q) + i] = r[i]
          /\ \A i \in 1..Len(q \o r) : i \in 1..Len(q) \/ \E j \in 1..Len(r) : i = Len(q) + j
      BY ConcatFacts
    <3> QED BY <2>5, <3>1, <3>2, <3>3, Zenon
  <2>7. \A i \in 1..Len(down') : down'[i].stack = slots[down'[i].slot]
    <3> SUFFICES ASSUME NEW i \in 1..Len(down') PROVE down'[i].stack = slots[down'[i].slot]
      OBVIOUS
    <3>1. CASE i \in 1..Len(down)
      <4>1. down'[i] = down[i]
        BY <2>6, <3>1
      <4> QED BY <3>1, <4>1 DEF NewsInv
    <3>2. ASSUME NEW j \in 1..Len(all), i = Len(down) + j PROVE down'[i].stack = slots[down'[i].slot]
      <4>1. down'[i] = all[j]
        BY <2>6, <3>2
      <4> QED BY <2>3, <2>4, <4>1
    <3> QED BY <2>6, <3>1, <3>2
  <2>8. ASSUME NEW s \in Slots PROVE \E i \in 1..Len(down') : down'[i].slot = s
    <3>1. s \in 1..Len(all)
      BY <2>4
    <3>2. Len(down) + s \in 1..Len(down')
      BY <3>1, <2>6
    <3>3. down'[Len(down) + s].slot = s
      BY <3>1, <2>3, <2>6
    <3> QED BY <3>2, <3>3
  <2>9. \A i \in 1..Len(up') : up'[i].verb = verbs /\ up'[i].stale
    <3>1. \A i \in 1..(Len(up) - 1) : i + 1 \in 1..Len(up)
      BY <1>2
    <3> QED BY <3>1, <2>1 DEF NewsInv
  <2>10. NewsInv'
    BY <1>1, <1>7, <2>7, <2>8, <2>9 DEF NewsInv
  <2>11. ServesStale
    BY <1>1, <1>2, <1>7, <2>1 DEF ServesStale, Shifts, AllStale
  <2> QED BY <2>10, <2>11
<1> QED BY <1>4, <1>5, <1>6, <1>7

-----------------------------------------------------------------------------
(* While nobody interferes.                                                *)

\* The client sees the source as it is.
Seen == \A s \in Source(verb) : view[s] = slots[s]
\* The whole stack on its way across is one that was asked for.
Promising ==
  /\ verb.src \in Source(verb) /\ slots[verb.src].item = "a"
  /\ slots[verb.src].count + gained <= Wanted

\* While a transfer takes whole stacks: what is counted out of the source is what the
\* destination has gained, and what is still wanted fits what was counted last.
QuickInv ==
  /\ gained = verb.before - Count(slots, Source(verb)) /\ gained <= Wanted
  /\ \A s \in Destination(verb) : slots[s].item = "b" => view[s] = slots[s]
  /\ up # <<>> =>
       Len(up) = 1 /\ up[1].mode = "quick" /\ up[1].slot = verb.src /\ Promising
  /\ at = "loop" =>
       up = <<>> /\ Seen /\ verb.remaining >= 0 /\ verb.remaining + gained = Wanted
  /\ at = "take" =>
       /\ up = <<>> /\ Seen /\ Promising /\ verb.was = Count(slots, Source(verb))
       /\ verb.remaining + gained = Wanted
  /\ Point = "counted" =>
       /\ verb.remaining - verb.was = Wanted - verb.before
       /\ up # <<>> => Seen /\ verb.was = Count(slots, Source(verb))
       /\ \A s \in Source(verb) : s # verb.src => view[s] = slots[s]
       /\ Seen \/ Count(view, Source(verb)) = verb.was

\* Before PutIntoSlot or PutOneIntoSlot has found the item nothing has moved.
IdleInv ==
  /\ gained = 0 /\ up = <<>>
  /\ at = "find" => down = <<>> /\ slots = start

\* The verbs that promise a bound, and the bound.
Good == Counted \/ (verb.kind = "one" /\ start[verb.slot].item # "b")
Cap == IF Counted THEN Wanted ELSE 1
NoB == slots[verb.dst].item # "b"
OnTheWay == \E i \in 1..Len(up) : up[i].slot = verb.dst /\ ~up[i].stale
Promised == gained + verb.left + (IF OnTheWay THEN 1 ELSE 0) + Hidden(slots[verb.dst], cursor)

\* While items are placed one by one: what has been gained, is left to place, is on its way
\* or is hidden on the cursor by what is in the way never exceeds what was asked.
PartInv ==
  /\ gained <= Cap
  /\ \A i \in 1..Len(up) :
       /\ up[i].mode = "normal"
       /\ \/ up[i].slot = verb.dst /\ up[i].button = 1
          \/ up[i].slot = verb.src /\ i = 1 /\ NoB
          \/ up[i].slot = verb.src /\ i = Len(up) /\ verb.next = "placed" /\ verb.left = 0
  /\ at = "pick" => up = <<>> /\ NoB
  /\ verb.left > 0 \/ OnTheWay => Promised <= Cap

\* All that holds while nobody interferes.
CalmInv ==
  /\ NewsInv
  /\ Counted /\ verb.dst = 0 => QuickInv
  /\ verb.kind \in {"put", "one"} /\ verb.dst = 0 => IdleInv
  /\ Good /\ verb.dst # 0 => PartInv

\* A shift-click on a stack of the item, while the verb counts.
LEMMA QuickFacts ==
  ASSUME Typed, Typed', Counted, ServesQuick, up[1].slot = verb.src, verb.src \in Source(verb),
         slots[verb.src].item = "a"
  PROVE  \E rest \in Nat :
           /\ rest <= slots[verb.src].count /\ slots'[verb.src] = Stack("a", rest)
           /\ gained' = gained + (slots[verb.src].count - rest)
           /\ Count(slots', Source(verb)) = Count(slots, Source(verb)) - (slots[verb.src].count - rest)
           /\ \A s \in Source(verb) : s # verb.src => slots'[s] = slots[s]
           /\ \A s \in Destination(verb) : slots'[s] = slots[s] \/ slots'[s].item = "a"
           /\ rest > 0 => \A s \in Destination(verb) : Room(slots'[s], "a") = 0
<1> DEFINE src == verb.src
           D == Destination(verb)
           S == Source(verb)
           n == slots[src].count
<1>1. /\ S \subseteq Slots /\ D \subseteq Slots /\ S \cap D = {} /\ src \in S /\ src \in Slots
      /\ D = IF src \in OwnSlots THEN PlayerRows ELSE OwnSlots
  BY RangeFacts DEF Typed
<1>2. slots \in Windows /\ slots' \in Windows /\ slots[src] # Empty /\ gained \in Int
  BY DEF Typed, Empty
<1>3. slots' = QuickMove(src) /\ gained' = gained + Count(slots', D) - Count(slots, D)
  BY DEF ServesQuick, Serves
<1>4. n \in 1..MaxStack /\ MaxStack \in Nat /\ slots[src] \in Stacks
  BY <1>1, <1>2, StackFacts DEF Windows
<1> HIDE DEF src, D, S, n
<1>5. PICK rest \in 0..n :
        /\ slots'[src] = Stack("a", rest)
        /\ \A t \in Slots \ {src} : slots'[t] = slots[t] \/ (t \in D /\ slots'[t].item = "a")
        /\ rest > 0 => \A t \in D : Room(slots'[t], "a") = 0
        /\ Count(slots', D) = Count(slots, D) + (n - rest)
  <2>1. slots[src].item = "a"
    BY DEF src
  <2> QED BY <2>1, <1>1, <1>2, <1>3, QuickMoveFacts DEF n
<1>6. rest \in Nat /\ rest <= n
  BY <1>4, <1>5
<1>7. Count(slots, D) \in Nat /\ Count(slots, S) \in Nat
  BY <1>2, CountType
<1>8. gained' = gained + (n - rest)
  BY <1>2, <1>3, <1>4, <1>5, <1>6, <1>7
<1>9. Holds(slots'[src]) = rest /\ Holds(slots[src]) = n
  <2>1. Holds(slots[src]) = n
    BY DEF src, n, Holds
  <2>2. Holds(slots'[src]) = rest
    BY <1>5 DEF Stack, Holds, Empty
  <2> QED BY <2>1, <2>2
<1>10. \A s \in S : s # src => slots'[s] = slots[s]
  BY <1>1, <1>5
<1>11. Count(slots', S) = Count(slots, S) - (n - rest)
  <2>1. \A s \in (Slots \cap S) \ {src} : Holds(slots'[s]) = Holds(slots[s])
    BY <1>10
  <2>2. Count(slots', S) = Count(slots, S)
                             + (IF src \in S THEN Holds(slots'[src]) - Holds(slots[src]) ELSE 0)
    BY <2>1, <1>1, <1>2, CountUpdate
  <2>3. Count(slots', S) = Count(slots, S) + (rest - n)
    BY <2>2, <1>1, <1>9
  <2> QED BY <2>3, <1>4, <1>6, <1>7
<1>12. \A s \in D : slots'[s] = slots[s] \/ slots'[s].item = "a"
  BY <1>1, <1>5
<1> QED BY <1>5, <1>6, <1>8, <1>10, <1>11, <1>12 DEF src, D, S, n

\* What the server does with a shift-click of a transfer keeps QuickInv.
LEMMA QuickServer ==
  ASSUME Typed, Typed', Counted, QuickInv, ServesStale \/ ServesQuick \/ ServesNormal
  PROVE  QuickInv'
<1>0. /\ up # <<>> /\ UNCHANGED <<view, at, verb, verbs, calm, start>>
      /\ up' \in Seq(Click) /\ Len(up') = Len(up) - 1
  BY DEF ServesStale, ServesQuick, ServesNormal, Serves, Shifts
<1>1. up' = <<>>
  <2>1. Len(up') = 0
    BY <1>0 DEF QuickInv
  <2> QED BY <1>0, <2>1, EmptyFacts
<1>2. at # "loop" /\ at # "take" /\ Promising /\ up[1].mode = "quick" /\ up[1].slot = verb.src
  BY <1>0 DEF QuickInv
<1>3. CASE ServesStale
  <2>1. UNCHANGED <<slots, gained>>
    BY <1>3 DEF ServesStale
  <2> QED BY <1>0, <1>1, <1>2, <2>1 DEF QuickInv, Seen, Wanted, Point
<1>4. CASE ServesNormal
  BY <1>2, <1>4 DEF ServesNormal
<1>5. CASE ServesQuick
  <2>1. verb.src \in Source(verb) /\ slots[verb.src].item = "a" /\ view = slots
        /\ slots[verb.src].count + gained <= Wanted
    BY <1>2, <1>5 DEF Promising, ServesQuick, Serves
  <2>2. PICK rest \in Nat :
           /\ rest <= slots[verb.src].count
           /\ gained' = gained + (slots[verb.src].count - rest)
           /\ Count(slots', Source(verb)) = Count(slots, Source(verb)) - (slots[verb.src].count - rest)
           /\ \A s \in Source(verb) : s # verb.src => slots'[s] = slots[s]
           /\ \A s \in Destination(verb) : slots'[s] = slots[s] \/ slots'[s].item = "a"
    BY <1>2, <1>5, <2>1, QuickFacts
  <2>3. /\ slots[verb.src].count \in Nat /\ gained \in Int /\ Count(slots, Source(verb)) \in Nat
        /\ verb.before \in Nat /\ Wanted \in Nat
    <3>1. slots[verb.src] # Empty /\ slots[verb.src] \in Stacks
      BY <2>1, RangeFacts DEF Typed, Windows, Empty
    <3>2. slots[verb.src].count \in Nat
      BY <3>1, StackFacts
    <3>3. Count(slots, Source(verb)) \in Nat
      BY CountType DEF Typed
    <3>4. verb.before \in Nat /\ verb.count \in Nat
      BY DEF Typed, VerbType
    <3>5. Wanted \in Nat
      BY <3>4 DEF Wanted, Least
    <3> QED BY <3>2, <3>3, <3>4, <3>5 DEF Typed
  <2>4. gained' = verb.before - Count(slots', Source(verb)) /\ gained' <= Wanted
    <3>1. gained = verb.before - Count(slots, Source(verb))
      BY DEF QuickInv
    <3> QED BY <3>1, <2>1, <2>2, <2>3
  <2>5. \A s \in Destination(verb) : slots'[s].item = "b" => view[s] = slots'[s]
    BY <2>1, <2>2
  <2>6. Point = "counted" =>
          /\ verb.remaining - verb.was = Wanted - verb.before
          /\ \A s \in Source(verb) : s # verb.src => view[s] = slots'[s]
          /\ Count(view, Source(verb)) = verb.was
    BY <1>0, <2>1, <2>2 DEF QuickInv
  <2>7. Wanted' = Wanted /\ Point' = Point
    BY <1>0 DEF Wanted, Point
  <2> QED BY <1>0, <1>1, <1>2, <2>4, <2>5, <2>6, <2>7 DEF QuickInv
<1> QED BY <1>3, <1>4, <1>5

\* The numbers of a verb.
LEMMA WantedFacts ==
  ASSUME Typed
  PROVE  /\ Wanted \in Nat /\ Wanted <= verb.before /\ verb.before \in Nat /\ gained \in Int
         /\ Count(slots, Source(verb)) \in Nat /\ Count(view, Source(verb)) \in Nat
         /\ verb.remaining \in Int /\ verb.was \in Nat /\ verb.left \in Nat
         /\ verb.count \in Nat
<1>1. verb.before \in Nat /\ verb.count \in Nat /\ verb.remaining \in Int /\ verb.was \in Nat
      /\ verb.left \in Nat
  BY DEF Typed, VerbType
<1>2. Wanted \in Nat /\ Wanted <= verb.before
  BY <1>1 DEF Wanted, Least
<1>3. Count(slots, Source(verb)) \in Nat /\ Count(view, Source(verb)) \in Nat
  BY CountType DEF Typed
<1> QED BY <1>1, <1>2, <1>3 DEF Typed

\* A verb that sees its side of the window counts it.
LEMMA SeenCount ==
  ASSUME Typed, Seen
  PROVE  Count(view, Source(verb)) = Count(slots, Source(verb))
<1>1. \A s \in Slots \cap Source(verb) : Holds(view[s]) = Holds(slots[s])
  BY DEF Seen
<1> QED BY <1>1, CountSame DEF Typed

\* News keeps QuickInv: what the verb counted is still wrong, or right.
LEMMA QuickNews ==
  ASSUME Typed, Typed', NewsInv, QuickInv, TakeNews
  PROVE  QuickInv'
<1>1. /\ UNCHANGED <<slots, cursor, up, at, verb, verbs, calm, gained, start>>
      /\ \E t \in Slots : view'[t] = slots[t] /\ \A s \in Slots \ {t} : view'[s] = view[s]
  BY NewsTaken
<1>2. PICK t \in Slots : view'[t] = slots[t] /\ \A s \in Slots \ {t} : view'[s] = view[s]
  BY <1>1
<1>3. Source(verb) \subseteq Slots /\ Destination(verb) \subseteq Slots
  BY RangeFacts DEF Typed
<1>4. \A s \in Slots : view[s] = slots[s] => view'[s] = slots[s]
  BY <1>2
<1>5. \A s \in Destination(verb) : slots[s].item = "b" => view'[s] = slots[s]
  BY <1>3, <1>4 DEF QuickInv
<1>6. (\A s \in Source(verb) : view[s] = slots[s]) => \A s \in Source(verb) : view'[s] = slots[s]
  BY <1>3, <1>4
<1>7. ASSUME Point = "counted"
      PROVE  (\A s \in Source(verb) : view'[s] = slots[s]) \/ Count(view', Source(verb)) = verb.was
  <2>1. \A s \in Source(verb) : s # verb.src => view[s] = slots[s]
    BY <1>7 DEF QuickInv
  <2>2. CASE Seen
    BY <2>2, <1>6 DEF Seen
  <2>3. CASE t = verb.src /\ t \in Source(verb)
    BY <2>1, <2>3, <1>2, <1>3, <1>4
  <2>4. CASE ~Seen /\ ~(t = verb.src /\ t \in Source(verb))
    <3>1. \A s \in Slots \cap Source(verb) : Holds(view'[s]) = Holds(view[s])
      BY <2>1, <2>4, <1>2
    <3>2. Count(view', Source(verb)) = Count(view, Source(verb))
      BY <3>1, CountSame DEF Typed
    <3> QED BY <3>2, <2>4, <1>7 DEF QuickInv
  <2> QED BY <2>2, <2>3, <2>4
<1>8. Wanted' = Wanted /\ Point' = Point /\ Promising' = Promising
      /\ (Seen' <=> \A s \in Source(verb) : view'[s] = slots[s])
  BY <1>1 DEF Wanted, Point, Promising, Seen
<1>9. \A s \in Source(verb) : view[s] = slots[s] => view'[s] = slots[s]
  BY <1>3, <1>4
<1> QED BY <1>1, <1>5, <1>6, <1>7, <1>8, <1>9 DEF QuickInv, Seen

\* While a transfer moves whole stacks.
LEMMA QuickSteps ==
  ASSUME Typed, Typed', PointInv, PointInv', NewsInv, Counted, verb.dst = 0, QuickInv,
         Steps \/ ContextEnds, verb'.dst = 0
  PROVE  QuickInv'
<1>0. verb \in VerbType /\ view \in Windows
  BY DEF Typed
<1>1. SameVerb /\ UNCHANGED <<slots, cursor, down, view, verbs, gained, start>>
  BY StepsSame DEF theirs
<1>2. /\ Source(verb') = Source(verb) /\ Destination(verb') = Destination(verb)
      /\ Counted' = Counted /\ Wanted' = Wanted
  BY <1>1, SameRanges
<1>3. /\ gained' = verb'.before - Count(slots', Source(verb')) /\ gained' <= Wanted'
      /\ \A s \in Destination(verb') : slots'[s].item = "b" => view'[s] = slots'[s]
  BY <1>1, <1>2 DEF QuickInv, SameVerb
<1>4. verb.kind # "all" /\ verb.kind \notin {"put", "one"} /\ Point # "sweep" /\ Point # "find"
      /\ Point \notin {"pick", "place", "placed"}
  BY DEF Counted, PointInv
<1>5. \/ \E result : Returns(result)
      \/ TakesWhole \/ TakeFromContainer \/ StackGone \/ PauseEnds
  <2>1. \/ \E result : Returns(result)
        \/ TakesWhole \/ TakesPart \/ TakeFromContainer \/ StackGone
        \/ PickUp \/ PlaceOne \/ PutBack \/ MoveIntoSlot \/ Sweeps \/ StackLeft \/ PauseEnds
    BY DEF Steps, ContextEnds, StopsMoving, HasNoRoom, Stalled, Placed, FindsNothing, Swept,
           StackStayed
  <2>2. ~TakesPart
    <3>1. TakesPart => verb'.dst # 0
      BY <1>0 DEF TakesPart, VerbType
    <3> QED BY <3>1
  <2>3. ~PickUp /\ ~PlaceOne /\ ~PutBack /\ ~MoveIntoSlot /\ ~Sweeps /\ ~StackLeft
    BY <1>4 DEF Point, PickUp, PlaceOne, PutBack, MoveIntoSlot, Sweeps, StackLeft, Goes
  <2> QED BY <2>1, <2>2, <2>3
<1>6. CASE \E result : Returns(result)
  <2>1. at' = "rest" /\ up' = up /\ verb'.src = verb.src
    BY <1>0, <1>6 DEF Returns, VerbType
  <2>2. Promising => Promising'
    BY <1>1, <1>2, <2>1 DEF Promising
  <2> QED BY <1>3, <2>1, <2>2 DEF QuickInv, Point
<1>7. CASE TakesWhole
  <2>1. at = "loop" /\ at' = "take" /\ up' = up
    BY <1>7 DEF TakesWhole, Loops
  <2>2. PICK src : src = FindInRange(Source(verb))
    OBVIOUS
  <2>3. /\ src # 0 /\ view[src].count <= verb.remaining
        /\ verb'.src = src /\ verb'.was = Count(view, Source(verb))
        /\ verb'.remaining = verb.remaining
    BY <1>0, <1>7, <2>2 DEF TakesWhole, Loops, IsWhole, VerbType
  <2>4. src \in Source(verb) /\ view[src].item = "a"
    BY <2>2, <2>3, <1>0, RangeFacts, FindFacts
  <2>5. up = <<>> /\ Seen /\ verb.remaining + gained = Wanted
    BY <2>1 DEF QuickInv
  <2>6. slots[src] = view[src] /\ slots[src].count \in Nat
    <3>1. slots[src] = view[src]
      BY <2>4, <2>5 DEF Seen
    <3>2. slots[src] \in Stacks /\ slots[src] # Empty
      BY <2>4, <3>1, RangeFacts DEF Typed, Windows, Empty
    <3> QED BY <3>1, <3>2, StackFacts
  <2>7. slots[src].count + gained <= Wanted
    BY <2>3, <2>5, <2>6, WantedFacts
  <2>8. Promising'
    BY <1>1, <1>2, <2>3, <2>4, <2>6, <2>7 DEF Promising
  <2>9. Seen' /\ verb'.was = Count(slots', Source(verb'))
    <3>1. Count(view, Source(verb)) = Count(slots, Source(verb))
      BY <2>5, SeenCount
    <3>2. Seen'
      BY <1>1, <1>2, <2>5 DEF Seen
    <3> QED BY <3>1, <3>2, <1>1, <1>2, <2>3
  <2> QED BY <1>1, <1>2, <1>3, <2>1, <2>3, <2>5, <2>8, <2>9 DEF QuickInv, Point
<1>8. CASE TakeFromContainer
  <2>1. at = "take" /\ at' = "pause" /\ Clicks("quick", verb.src, 0, "counted", verb)
    BY <1>8 DEF TakeFromContainer, Clicks
  <2>2. /\ up = <<>> /\ Seen /\ Promising /\ verb.was = Count(slots, Source(verb))
        /\ verb.remaining + gained = Wanted
    BY <2>1 DEF QuickInv
  <2>3. verb.src \in Slots
    BY <2>2, RangeFacts, <1>0 DEF Promising
  <2>4. Len(up') = 1 /\ up'[1].mode = "quick" /\ up'[1].slot = verb.src
    <3>1. /\ Len(up) \in Nat /\ Len(up') = Len(up) + 1
          /\ up'[Len(up')] = [mode |-> "quick", slot |-> verb.src, button |-> 0, verb |-> verbs,
                              stale |-> down # <<>>]
      BY <2>1, <2>3, NewsClicks
    <3>2. Len(up) = 0
      BY <2>2
    <3> QED BY <3>1, <3>2
  <2>5. /\ verb'.src = verb.src /\ verb'.was = verb.was /\ verb'.remaining = verb.remaining
        /\ verb'.next = "counted"
    BY <1>0, <2>1 DEF Clicks, VerbType
  <2>6. Promising' /\ Seen'
    BY <1>1, <1>2, <2>2, <2>5 DEF Promising, Seen
  <2>7. verb'.remaining - verb'.was = Wanted' - verb'.before
    <3>1. gained = verb.before - Count(slots, Source(verb))
      BY DEF QuickInv
    <3>2. verb.remaining - verb.was = Wanted - verb.before
      <4>1. PICK r \in Int, w \in Nat, g \in Int, b \in Nat :
              r = verb.remaining /\ w = verb.was /\ g = gained /\ b = verb.before
        BY WantedFacts
      <4>2. g = b - w /\ r + g = Wanted
        BY <4>1, <3>1, <2>2
      <4>3. r - w = (r + g) - b
        BY <4>2
      <4> QED BY <4>1, <4>2, <4>3
    <3> QED BY <3>2, <1>1, <1>2, <2>5 DEF SameVerb
  <2>8. verb'.was = Count(slots', Source(verb'))
    BY <1>1, <1>2, <2>2, <2>5
  <2>9. \A s \in Source(verb') : view'[s] = slots'[s]
    BY <2>6 DEF Seen
  <2> QED BY <1>3, <2>1, <2>4, <2>5, <2>6, <2>7, <2>8, <2>9 DEF QuickInv, Point
<1>9. CASE StackGone
  <2>1. /\ at = "counted" /\ at' = "loop" /\ verb.was - Count(view, Source(verb)) > 0
        /\ verb'.remaining = verb.remaining - (verb.was - Count(view, Source(verb)))
        /\ verb'.src = verb.src /\ up' = up
    BY <1>0, <1>9 DEF StackGone, Goes, VerbType
  <2>2. /\ verb.remaining - verb.was = Wanted - verb.before
        /\ up # <<>> => Seen /\ verb.was = Count(slots, Source(verb))
        /\ Seen \/ Count(view, Source(verb)) = verb.was
    BY <2>1 DEF QuickInv, Point
  <2>3. Seen
    BY <2>1, <2>2, WantedFacts
  <2>4. Count(view, Source(verb)) = Count(slots, Source(verb))
    BY <2>3, SeenCount
  <2>5. up = <<>>
    BY <2>1, <2>2, <2>4, WantedFacts
  <2>6. gained = verb.before - Count(slots, Source(verb)) /\ gained <= Wanted
    BY DEF QuickInv
  <2>7. verb'.remaining >= 0 /\ verb'.remaining + gained = Wanted
    <3>1. PICK r \in Int, w \in Int, b \in Int, c \in Int, n \in Int :
            /\ r = verb.remaining /\ w = verb.was /\ b = verb.before /\ n = Wanted
            /\ c = Count(slots, Source(verb))
      BY WantedFacts
    <3>2. r - w = n - b /\ gained = b - c /\ gained <= n /\ verb'.remaining = r - (w - c)
      BY <3>1, <2>1, <2>2, <2>4, <2>6
    <3>3. r - (w - c) >= 0 /\ r - (w - c) + gained = n
      BY <3>2
    <3> QED BY <3>1, <3>2, <3>3
  <2>8. Seen'
    BY <1>1, <1>2, <2>3 DEF Seen
  <2> QED BY <1>1, <1>2, <1>3, <2>1, <2>5, <2>7, <2>8 DEF QuickInv, Point
<1>10. CASE PauseEnds
  <2>1. at = "pause" /\ at' = verb.next /\ up' = up /\ verb' = verb
    BY <1>10 DEF PauseEnds, Goes
  <2>2. at' = "counted" /\ Point' = Point
    BY <1>4, <2>1 DEF PointInv, Point
  <2>3. Promising' = Promising /\ Seen' = Seen
    BY <1>1, <1>2, <2>1 DEF Promising, Seen
  <2> QED BY <1>1, <1>2, <2>1, <2>2, <2>3 DEF QuickInv
<1> QED BY <1>5, <1>6, <1>7, <1>8, <1>9, <1>10

\* What is hidden is a natural number.
LEMMA HiddenFacts ==
  ASSUME NEW held \in Stacks, NEW stack
  PROVE  Hidden(stack, held) \in Nat
BY StackFacts DEF Hidden

\* A click on a slot counts what it adds to the slot.
LEMMA ClickCounts ==
  ASSUME NEW w \in Windows, NEW u \in Windows, NEW s \in Slots, NEW R,
         \A t \in Slots \ {s} : u[t] = w[t]
  PROVE  Count(u, R) = Count(w, R) + (IF s \in R THEN Holds(u[s]) - Holds(w[s]) ELSE 0)
<1>1. \A t \in (Slots \cap R) \ {s} : Holds(u[t]) = Holds(w[t])
  OBVIOUS
<1> QED BY <1>1, CountUpdate

\* What the server does with a click of three keeps PartInv.
LEMMA PartServer ==
  ASSUME Typed, Typed', PointInv, Good, verb.dst # 0, PartInv,
         ServesStale \/ ServesQuick \/ ServesNormal
  PROVE  PartInv'
<1> DEFINE src == verb.src
           dst == verb.dst
           D == Destination(verb)
           L == Hidden(slots[dst], cursor)
           M == Hidden(slots'[dst], cursor')
<1>0. /\ up # <<>> /\ UNCHANGED <<view, at, verb, verbs, calm, start>>
      /\ up' \in Seq(Click) /\ Len(up) \in Nat \ {0} /\ Len(up') = Len(up) - 1
      /\ \A i \in 1..(Len(up) - 1) :
           SameClick(up'[i], up[i + 1]) /\ (up'[i].stale \/ ~up[i + 1].stale)
  BY DEF ServesStale, ServesQuick, ServesNormal, Serves, Shifts
<1>1. dst \in D /\ src \notin D /\ src # dst /\ dst \in Slots /\ src \in Slots
  BY RangeFacts DEF PointInv, Typed
<1>2. /\ slots \in Windows /\ slots' \in Windows /\ cursor \in Stacks /\ cursor' \in Stacks
      /\ gained \in Int /\ verb.left \in Nat /\ Wanted \in Nat /\ Cap \in Nat
  <2>1. Wanted \in Nat /\ verb.left \in Nat
    BY WantedFacts
  <2> QED BY <2>1 DEF Typed, Cap
<1>3. Cap' = Cap
  BY <1>0 DEF Cap, Counted, Wanted
<1>4. L \in Nat /\ M \in Nat
  BY <1>2, HiddenFacts
<1>5. ASSUME NEW i \in 1..Len(up')
      PROVE  /\ up'[i].mode = "normal"
             /\ \/ up'[i].slot = dst /\ up'[i].button = 1
                \/ up'[i].slot = src /\ i = Len(up') /\ verb.next = "placed" /\ verb.left = 0
  <2>1. i \in 1..(Len(up) - 1) /\ i + 1 \in 1..Len(up) /\ i + 1 # 1
        /\ (i + 1 = Len(up) <=> i = Len(up'))
    BY <1>0
  <2>2. SameClick(up'[i], up[i + 1])
    BY <2>1, <1>0
  <2> QED BY <2>1, <2>2 DEF SameClick, PartInv
<1>6. at # "pick"
  BY <1>0 DEF PartInv
<1>7. OnTheWay' => OnTheWay
  <2> SUFFICES ASSUME NEW i \in 1..Len(up'), up'[i].slot = dst /\ ~up'[i].stale
               PROVE  OnTheWay
    BY <1>0 DEF OnTheWay
  <2>1. i \in 1..(Len(up) - 1) /\ i + 1 \in 1..Len(up)
    BY <1>0
  <2>2. SameClick(up'[i], up[i + 1]) /\ (up'[i].stale \/ ~up[i + 1].stale)
    BY <1>0, <2>1
  <2> QED BY <2>1, <2>2 DEF SameClick, OnTheWay
<1>8. AllStale(up') => ~OnTheWay'
  BY DEF AllStale, OnTheWay
<1>9. verb.left > 0 \/ OnTheWay => gained + verb.left + (IF OnTheWay THEN 1 ELSE 0) + L <= Cap
  BY DEF PartInv, Promised
<1>10. Promised' = gained' + verb.left + (IF OnTheWay' THEN 1 ELSE 0) + M
  BY <1>0 DEF Promised
<1>11. gained <= Cap
  BY DEF PartInv
<1>12. SUFFICES /\ gained' <= Cap
                /\ verb.left > 0 \/ OnTheWay' =>
                     gained' + verb.left + (IF OnTheWay' THEN 1 ELSE 0) + M <= Cap
  BY <1>0, <1>3, <1>5, <1>6, <1>10 DEF PartInv
<1> HIDE DEF L, M, D, src, dst
<1>13. CASE ServesStale
  <2>1. gained' = gained /\ ~OnTheWay' /\ M = L
    BY <1>0, <1>8, <1>13 DEF ServesStale, L, M, dst
  <2> QED BY <2>1, <1>2, <1>4, <1>9, <1>11
<1>14. CASE ServesQuick
  <2>1. up[1].mode = "normal"
    BY <1>0 DEF PartInv
  <2> QED BY <2>1, <1>14 DEF ServesQuick
<1>15. CASE ServesNormal
  <2>1. PICK after : /\ after = NormalClick(up[1].slot, up[1].button)
                     /\ slots' = [slots EXCEPT ![up[1].slot] = after.slot]
                     /\ cursor' = after.cursor
    BY <1>15 DEF ServesNormal
  <2>2. /\ up[1].slot \in Slots /\ up[1].button \in {0, 1} /\ ~up[1].stale
        /\ gained' = gained + Count(slots', D) - Count(slots, D)
        /\ slots' = slots \/ AllStale(up')
    BY <1>15 DEF ServesNormal, Serves, D
  <2>3. /\ Holds(after.slot) + Holds(after.cursor) = Holds(slots[up[1].slot]) + Holds(cursor)
        /\ up[1].button = 1 => Holds(after.slot) + Hidden(after.slot, after.cursor)
                                 <= Holds(slots[up[1].slot]) + Hidden(slots[up[1].slot], cursor) + 1
    BY <1>2, <2>1, <2>2, NormalClickFacts
  <2>4. slots'[up[1].slot] = after.slot /\ \A t \in Slots \ {up[1].slot} : slots'[t] = slots[t]
    BY <1>2, <2>1, <2>2 DEF Windows
  <2>5. Count(slots', D) = Count(slots, D)
          + (IF up[1].slot \in D THEN Holds(slots'[up[1].slot]) - Holds(slots[up[1].slot]) ELSE 0)
    BY <1>2, <2>2, <2>4, ClickCounts
  <2>6. Count(slots, D) \in Nat /\ Holds(slots[dst]) \in Nat /\ Holds(slots'[dst]) \in Nat
        /\ Holds(cursor) \in Nat /\ Holds(cursor') \in Nat
    BY <1>1, <1>2, CountType, StackFacts DEF Windows
  <2>7. 1 \in 1..Len(up)
    BY <1>0
  <2>8. \/ up[1].slot = dst /\ up[1].button = 1
        \/ up[1].slot = src /\ NoB
        \/ up[1].slot = src /\ 1 = Len(up) /\ verb.left = 0
    BY <2>7 DEF PartInv, src, dst
  <2>9. CASE up[1].slot = dst /\ up[1].button = 1
    <3>1. PICK h \in Nat, k \in Nat, c \in Nat : h = Holds(slots[dst]) /\ k = Holds(slots'[dst])
                                                 /\ c = Count(slots, D)
      BY <2>6
    <3>2. gained' = gained + (k - h)
      <4>1. Count(slots', D) = c + (k - h)
        BY <1>1, <2>5, <2>9, <3>1
      <4> QED BY <4>1, <2>2, <3>1, <1>2
    <3>3. k + M <= h + L + 1
      BY <2>1, <2>3, <2>4, <2>9, <3>1 DEF L, M
    <3>4. OnTheWay
      BY <2>2, <2>7, <2>9 DEF OnTheWay, dst
    <3>5. gained + verb.left + 1 + L <= Cap
      BY <1>9, <3>4
    <3>6. gained' + verb.left + M <= Cap /\ gained' <= Cap
      BY <1>2, <1>4, <3>1, <3>2, <3>3, <3>5
    <3>7. CASE ~OnTheWay'
      BY <1>2, <1>4, <3>1, <3>2, <3>6, <3>7
    <3>8. CASE OnTheWay'
      <4>1. slots' = slots
        BY <2>2, <3>8, <1>8
      <4>2. Holds(cursor') = Holds(cursor)
        BY <2>1, <2>3, <2>4, <2>6, <2>9, <4>1
      <4>3. M = L /\ gained' = gained
        BY <1>2, <3>1, <3>2, <4>1, <4>2 DEF L, M, Hidden
      <4> QED BY <1>2, <1>4, <3>5, <4>3
    <3> QED BY <3>7, <3>8
  <2>10. CASE up[1].slot = src
    <3>1. gained' = gained
      BY <1>1, <1>2, <2>2, <2>5, <2>6, <2>10
    <3>2. slots'[dst] = slots[dst]
      BY <1>1, <2>4, <2>10
    <3>3. CASE NoB
      <4>1. M = 0 /\ L = 0
        BY <3>2, <3>3 DEF L, M, NoB, Hidden, dst
      <4> QED BY <4>1, <3>1, <1>2, <1>7, <1>9, <1>11
    <3>4. CASE 1 = Len(up) /\ verb.left = 0
      <4>1. ~OnTheWay'
        <5>1. Len(up') = 0
          BY <3>4, <1>0
        <5>2. \A i \in 1..Len(up') : FALSE
          BY <5>1
        <5> QED BY <5>2 DEF OnTheWay
      <4> QED BY <4>1, <3>1, <3>4, <1>11
    <3> QED BY <2>8, <2>10, <3>3, <3>4, <1>1
  <2> QED BY <2>8, <2>9, <2>10
<1> QED BY <1>13, <1>14, <1>15

\* While a transfer, or PutOneIntoSlot, places one by one.
LEMMA PartSteps ==
  ASSUME Typed, PointInv, NewsInv, Good, verb.dst # 0, PartInv, Steps \/ ContextEnds
  PROVE  PartInv'
<1>0. verb \in VerbType
  BY DEF Typed
<1>1. SameVerb /\ UNCHANGED <<slots, cursor, down, view, verbs, gained, start>>
  BY StepsSame DEF theirs
<1>2. Cap' = Cap
  BY <1>1, SameRanges DEF Cap
<1>3. verb.dst \in Slots /\ verb.src \in Slots /\ verb.src # verb.dst /\ verb.button = 1
  BY <1>0, RangeFacts DEF PointInv, Good, Counted
<1>4. /\ gained \in Int /\ verb.left \in Nat /\ Cap \in Nat
      /\ Hidden(slots[verb.dst], cursor) \in Nat
  <2>1. Wanted \in Nat /\ verb.left \in Nat
    BY WantedFacts
  <2> QED BY <2>1, HiddenFacts DEF Typed, Cap
<1>5. \/ \E result : Returns(result)
      \/ PickUp \/ PlaceOne \/ PutBack \/ PauseEnds
  <2>1. \/ \E result : Returns(result)
        \/ TakesWhole \/ TakesPart \/ TakeFromContainer \/ StackGone
        \/ PickUp \/ PlaceOne \/ PutBack \/ MoveIntoSlot \/ Sweeps \/ StackLeft \/ PauseEnds
    BY DEF Steps, ContextEnds, StopsMoving, HasNoRoom, Stalled, Placed, FindsNothing, Swept,
           StackStayed
  <2>2. at \notin {"loop", "sweep", "find", "take", "counted"}
    BY DEF PointInv, Point
  <2> QED BY <2>1, <2>2 DEF TakesWhole, TakesPart, Loops, TakeFromContainer, StackGone,
                            MoveIntoSlot, Sweeps, StackLeft, Goes
<1>6. CASE \E result : Returns(result)
  <2>1. /\ at' = "rest" /\ up' = up /\ verb'.src = verb.src /\ verb'.dst = verb.dst
        /\ verb'.left = verb.left /\ verb'.next = verb.next
    BY <1>0, <1>6 DEF Returns, VerbType
  <2> QED BY <1>1, <1>2, <2>1 DEF PartInv, NoB, OnTheWay, Promised
<1>7. CASE PauseEnds
  <2>1. up' = up /\ verb' = verb /\ at' # "pick"
    BY <1>7 DEF PauseEnds, Goes, PointInv
  <2> QED BY <1>1, <1>2, <2>1 DEF PartInv, NoB, OnTheWay, Promised
<1>8. CASE PickUp
  <2>1. at = "pick" /\ at' = "pause" /\ Clicks("normal", verb.src, 0, "place", verb)
    BY <1>8 DEF PickUp, Clicks
  <2>2. up = <<>> /\ NoB
    BY <2>1 DEF PartInv
  <2>3. Len(up') = 1 /\ up'[1].mode = "normal" /\ up'[1].slot = verb.src
    <3>1. /\ Len(up) \in Nat /\ Len(up') = Len(up) + 1
          /\ up'[Len(up')] = [mode |-> "normal", slot |-> verb.src, button |-> 0,
                              verb |-> verbs, stale |-> down # <<>>]
      BY <2>1, <1>3, NewsClicks
    <3>2. Len(up) = 0
      BY <2>2
    <3> QED BY <3>1, <3>2
  <2>4. verb'.src = verb.src /\ verb'.dst = verb.dst /\ verb'.left = verb.left
    BY <1>0, <2>1 DEF Clicks, VerbType
  <2>5. ~OnTheWay' /\ ~OnTheWay
    BY <2>2, <2>3, <2>4, <1>3 DEF OnTheWay
  <2>6. Promised' = Promised
    BY <1>1, <2>4, <2>5 DEF Promised
  <2>7. NoB'
    BY <1>1, <2>2, <2>4 DEF NoB
  <2> QED BY <1>1, <1>2, <2>1, <2>3, <2>4, <2>5, <2>6, <2>7 DEF PartInv
<1>9. CASE PlaceOne
  <2>1. /\ at = "place" /\ at' = "pause" /\ verb.left > 0
        /\ Clicks("normal", verb.dst, 1, "place", [verb EXCEPT !.left = @ - 1])
    BY <1>3, <1>9 DEF PlaceOne, Clicks
  <2>2. /\ Len(up) \in Nat /\ Len(up') = Len(up) + 1
        /\ up'[Len(up')] = [mode |-> "normal", slot |-> verb.dst, button |-> 1,
                            verb |-> verbs, stale |-> down # <<>>]
        /\ \A i \in 1..Len(up) : up'[i] = up[i]
    BY <2>1, <1>3, NewsClicks
  <2>3. verb'.src = verb.src /\ verb'.dst = verb.dst /\ verb'.left = verb.left - 1
    BY <1>0, <2>1 DEF Clicks, VerbType
  <2>4. NoB' = NoB
    BY <1>1, <2>3 DEF NoB
  <2>5. ASSUME NEW i \in 1..Len(up')
        PROVE  /\ up'[i].mode = "normal"
               /\ \/ up'[i].slot = verb.dst /\ up'[i].button = 1
                  \/ up'[i].slot = verb.src /\ i = 1 /\ NoB
    <3>1. CASE i = Len(up')
      BY <2>2, <3>1
    <3>2. CASE i # Len(up')
      <4>1. i \in 1..Len(up) /\ up'[i] = up[i]
        BY <2>2, <3>2
      <4>2. ~(verb.left = 0)
        BY <2>1, <1>4
      <4> QED BY <4>1, <4>2 DEF PartInv
    <3> QED BY <3>1, <3>2
  <2>6. gained + verb.left + Hidden(slots[verb.dst], cursor) <= Cap
    <3>1. Promised <= Cap
      BY <2>1 DEF PartInv
    <3> QED BY <3>1, <1>4 DEF Promised
  <2>7. Promised' <= Cap'
    <3>1. Promised' = gained + (verb.left - 1) + (IF OnTheWay' THEN 1 ELSE 0)
                        + Hidden(slots[verb.dst], cursor)
      BY <1>1, <2>3 DEF Promised
    <3> QED BY <3>1, <2>6, <1>2, <1>4
  <2>8. gained' <= Cap'
    BY <1>1, <1>2 DEF PartInv
  <2> QED BY <2>1, <2>3, <2>4, <2>5, <2>7, <2>8 DEF PartInv
<1>10. CASE PutBack
  <2>1. /\ at = "place" /\ at' = "pause" /\ verb.left <= 0
        /\ Clicks("normal", verb.src, 0, "placed", verb)
    BY <1>10 DEF PutBack, Clicks
  <2>2. /\ Len(up) \in Nat /\ Len(up') = Len(up) + 1
        /\ up'[Len(up')] = [mode |-> "normal", slot |-> verb.src, button |-> 0,
                            verb |-> verbs, stale |-> down # <<>>]
        /\ \A i \in 1..Len(up) : up'[i] = up[i]
    BY <2>1, <1>3, NewsClicks
  <2>3. /\ verb'.src = verb.src /\ verb'.dst = verb.dst /\ verb'.left = verb.left
        /\ verb'.next = "placed" /\ verb.left = 0 /\ verb.next = "place"
    <3>1. verb.left = 0
      BY <2>1, <1>4
    <3>2. verb.next = "place"
      BY <2>1 DEF PointInv
    <3> QED BY <1>0, <2>1, <3>1, <3>2 DEF Clicks, VerbType
  <2>4. NoB' = NoB
    BY <1>1, <2>3 DEF NoB
  <2>5. ASSUME NEW i \in 1..Len(up')
        PROVE  /\ up'[i].mode = "normal"
               /\ \/ up'[i].slot = verb.dst /\ up'[i].button = 1
                  \/ up'[i].slot = verb.src /\ i = 1 /\ NoB
                  \/ up'[i].slot = verb.src /\ i = Len(up')
    <3>1. CASE i = Len(up')
      BY <2>2, <3>1
    <3>2. CASE i # Len(up')
      <4>1. i \in 1..Len(up) /\ up'[i] = up[i]
        BY <2>2, <3>2
      <4> QED BY <4>1, <2>3 DEF PartInv
    <3> QED BY <3>1, <3>2
  <2>6. OnTheWay' => OnTheWay
    <3> SUFFICES ASSUME NEW i \in 1..Len(up'), up'[i].slot = verb.dst /\ ~up'[i].stale
                 PROVE  OnTheWay
      BY <2>3 DEF OnTheWay
    <3>1. i # Len(up')
      BY <2>2, <1>3
    <3>2. i \in 1..Len(up) /\ up'[i] = up[i]
      BY <2>2, <3>1
    <3> QED BY <3>2 DEF OnTheWay
  <2>7. verb'.left > 0 \/ OnTheWay' => Promised' <= Cap'
    <3>1. OnTheWay' => Promised' = Promised
      BY <1>1, <2>3, <2>6 DEF Promised
    <3>2. ~(verb'.left > 0)
      BY <2>3
    <3> QED BY <3>1, <3>2, <2>6, <1>2 DEF PartInv
  <2>8. gained' <= Cap'
    BY <1>1, <1>2 DEF PartInv
  <2> QED BY <2>1, <2>3, <2>4, <2>5, <2>7, <2>8 DEF PartInv
<1> HIDE DEF Typed, PointInv, PartInv
<1> QED BY <1>5, <1>6, <1>7, <1>8, <1>9, <1>10

\* Coming to it from the loop ...
LEMMA PartTaken ==
  ASSUME Typed, PointInv, QuickInv, Counted, TakesPart
  PROVE  PartInv'
<1>0. verb \in VerbType
  BY DEF Typed
<1>1. SameVerb /\ UNCHANGED <<slots, cursor, down, view, verbs, gained, start>>
  BY StepsSame DEF theirs, Steps
<1>2. Cap' = Wanted
  BY <1>1, SameRanges DEF Cap
<1>3. /\ at = "loop" /\ at' = "pick" /\ up' = up /\ FreeSlotInRange(Destination(verb)) # 0
      /\ verb'.dst = FreeSlotInRange(Destination(verb)) /\ verb'.left = verb.remaining
  BY <1>0 DEF TakesPart, Loops, VerbType
<1>4. up = <<>> /\ verb.remaining + gained = Wanted
  BY <1>3 DEF QuickInv
<1>5. verb'.dst \in Destination(verb) /\ view[verb'.dst].item # "b"
  BY <1>3, <1>0, RangeFacts, FreeFacts DEF Typed
<1>6. slots[verb'.dst].item # "b"
  BY <1>5 DEF QuickInv
<1>7. NoB' /\ ~OnTheWay'
  BY <1>1, <1>3, <1>4, <1>6 DEF NoB, OnTheWay
<1>8. Promised' = gained + verb.remaining + 0 + 0
  BY <1>1, <1>3, <1>6, <1>7 DEF Promised, Hidden
<1>9. Promised' <= Cap'
  BY <1>2, <1>4, <1>8, WantedFacts
<1>10. gained' <= Cap'
  BY <1>1, <1>2 DEF QuickInv
<1> QED BY <1>3, <1>4, <1>7, <1>9, <1>10 DEF PartInv

\* ... and from the search for an item to put.
LEMMA PartFound ==
  ASSUME Typed, PointInv, IdleInv, Good, verb.kind = "one", MoveIntoSlot
  PROVE  PartInv'
<1>0. verb \in VerbType
  BY DEF Typed
<1>1. SameVerb /\ UNCHANGED <<slots, cursor, down, view, verbs, gained, start>>
  BY StepsSame DEF theirs, Steps
<1>2. Cap' = 1
  BY <1>1 DEF Cap, Counted, SameVerb
<1>3. at = "find" /\ at' = "pick" /\ up' = up /\ verb'.dst = verb.slot /\ verb'.left = 1
  BY <1>0 DEF MoveIntoSlot, Goes, VerbType
<1>4. up = <<>> /\ gained = 0 /\ slots = start
  BY <1>3 DEF IdleInv
<1>5. slots[verb'.dst].item # "b"
  BY <1>3, <1>4 DEF Good, Counted
<1>6. NoB' /\ ~OnTheWay'
  BY <1>1, <1>3, <1>4, <1>5 DEF NoB, OnTheWay
<1>7. Promised' = 0 + 1 + 0 + 0
  BY <1>1, <1>3, <1>4, <1>5, <1>6 DEF Promised, Hidden
<1> QED BY <1>1, <1>2, <1>3, <1>4, <1>6, <1>7 DEF PartInv

\* A verb that begins with nothing on its way sees the window, and has moved nothing.
LEMMA BeginFacts ==
  ASSUME Typed, Calm => NewsInv, NEW v \in Verbs, Begin(v), Calm'
  PROVE  /\ up = <<>> /\ down = <<>> /\ view = slots /\ NewsInv'
         /\ UNCHANGED <<slots, cursor, up, down, view>> /\ gained' = 0 /\ start' = slots
         /\ calm' = "prompt" => cursor = Empty
         /\ v.kind \in Kinds /\ v.count \in Nat
         /\ verb'.kind = v.kind /\ verb'.count = v.count /\ verb'.dst = 0 /\ verb'.reported = 0
         /\ verb'.before = Count(view, Source(v))
         /\ verb'.remaining = IF v.count > 0 /\ v.count < Count(view, Source(v)) THEN v.count
                              ELSE Count(view, Source(v))
         /\ at' = CASE v.kind \in {"deposit", "withdraw"} -> "loop" [] v.kind = "all" -> "sweep"
                    [] OTHER -> "find"
<1>1. up = <<>> /\ down = <<>> /\ Calm
  BY DEF Begin, Calm
<1>2. view = slots
  BY <1>1, NewsSeen
<1>3. UNCHANGED <<slots, cursor, up, down, view>>
  BY DEF Begin, theirs
<1>4. Len(up) = 0 /\ Len(down) = 0
  BY <1>1
<1>5. NewsInv'
  BY <1>1, <1>2, <1>3, <1>4 DEF NewsInv
<1>6. v.kind \in Kinds /\ v.count \in Nat
  BY TransfersAssumption
<1>7. /\ gained' = 0 /\ start' = slots /\ (calm' = "prompt" => cursor = Empty)
      /\ at' = CASE v.kind \in {"deposit", "withdraw"} -> "loop" [] v.kind = "all" -> "sweep"
                 [] OTHER -> "find"
  BY DEF Begin
<1>8. /\ verb'.kind = v.kind /\ verb'.count = v.count /\ verb'.dst = 0 /\ verb'.reported = 0
      /\ verb'.before = Count(view, Source(v))
      /\ verb'.remaining = IF v.count > 0 /\ v.count < Count(view, Source(v)) THEN v.count
                           ELSE Count(view, Source(v))
  BY DEF Begin, NoVerb
<1> QED BY <1>1, <1>2, <1>3, <1>5, <1>6, <1>7, <1>8

\* A verb that begins while nothing is on its way keeps CalmInv.
LEMMA CalmBegin ==
  ASSUME Typed, Calm => NewsInv, NEW v \in Verbs, Begin(v), Calm'
  PROVE  CalmInv'
<1>1. /\ up = <<>> /\ down = <<>> /\ view = slots /\ NewsInv'
      /\ UNCHANGED <<slots, cursor, up, down, view>> /\ gained' = 0 /\ start' = slots
      /\ v.kind \in Kinds /\ v.count \in Nat
      /\ verb'.kind = v.kind /\ verb'.count = v.count /\ verb'.dst = 0
      /\ verb'.before = Count(view, Source(v))
      /\ verb'.remaining = IF v.count > 0 /\ v.count < Count(view, Source(v)) THEN v.count
                           ELSE Count(view, Source(v))
      /\ at' = CASE v.kind \in {"deposit", "withdraw"} -> "loop" [] v.kind = "all" -> "sweep"
                 [] OTHER -> "find"
  BY BeginFacts
<1>2. Source(verb') = Source(v)
  BY <1>1 DEF Source
<1>3. PICK n \in Nat : n = Count(view, Source(v))
  BY CountType DEF Typed
<1>4. ASSUME Counted' PROVE QuickInv'
  <2>1. v.kind \in {"deposit", "withdraw"}
    BY <1>1, <1>4 DEF Counted
  <2>2. at' = "loop"
    BY <1>1, <2>1
  <2>3. Count(slots', Source(verb')) = n /\ verb'.before = n
    BY <1>1, <1>2, <1>3
  <2>4. Wanted' \in Nat /\ verb'.remaining = Wanted'
    BY <1>1, <1>3 DEF Wanted, Least
  <2>5. \A s \in Slots : view'[s] = slots'[s]
    BY <1>1
  <2>6. Seen'
    BY <1>1 DEF Seen
  <2>7. up' = <<>> /\ gained' = 0
    BY <1>1
  <2>8. gained' = verb'.before - Count(slots', Source(verb')) /\ gained' <= Wanted'
        /\ verb'.remaining >= 0 /\ verb'.remaining + gained' = Wanted'
    <3>1. PICK m \in Nat : m = Wanted' /\ m = verb'.remaining
      BY <2>4
    <3>2. gained' = n - n /\ gained' <= m /\ m >= 0 /\ m + gained' = m
      BY <2>7, <1>3, <3>1
    <3> QED BY <3>1, <3>2, <2>3
  <2>9. \A s \in Destination(verb') : slots'[s].item = "b" => view'[s] = slots'[s]
    BY <1>1
  <2> QED BY <2>2, <2>6, <2>7, <2>8, <2>9 DEF QuickInv, Point
<1>5. IdleInv'
  BY <1>1 DEF IdleInv
<1> QED BY <1>1, <1>4, <1>5 DEF CalmInv

\* A verb still looking for the item has moved nothing.
LEMMA IdleSteps ==
  ASSUME Typed, PointInv, verb.kind \in {"put", "one"}, verb.dst = 0, IdleInv,
         Steps \/ ContextEnds, verb'.dst = 0
  PROVE  IdleInv'
<1>0. verb \in VerbType
  BY DEF Typed
<1>1. SameVerb /\ UNCHANGED <<slots, cursor, down, view, verbs, gained, start>>
  BY StepsSame DEF theirs
<1>2. Point \notin {"loop", "take", "counted", "sweep", "pick", "place", "placed"} /\ at # "pause"
  BY DEF PointInv, Counted, Point
<1>3. \/ \E result : Returns(result)
      \/ TakesWhole \/ TakesPart \/ TakeFromContainer \/ StackGone
      \/ PickUp \/ PlaceOne \/ PutBack \/ MoveIntoSlot \/ Sweeps \/ StackLeft \/ PauseEnds
  BY DEF Steps, ContextEnds, StopsMoving, HasNoRoom, Stalled, Placed, FindsNothing, Swept, StackStayed
<1>4. ~MoveIntoSlot
  <2>1. MoveIntoSlot => verb'.dst = verb.slot
    BY <1>0 DEF MoveIntoSlot, VerbType
  <2>2. verb.slot # 0
    BY <1>0, SlotFacts DEF VerbType, OwnSlots
  <2> QED BY <2>1, <2>2
<1>5. \E result : Returns(result)
  BY <1>2, <1>3, <1>4 DEF Point, TakesWhole, TakesPart, Loops, TakeFromContainer, StackGone, PickUp,
        PlaceOne, PutBack, Sweeps, StackLeft, PauseEnds, Goes
<1>6. at' = "rest" /\ up' = up
  BY <1>5 DEF Returns
<1> QED BY <1>1, <1>6 DEF IdleInv

\* Every step of a verb keeps CalmInv, ...
LEMMA CalmSteps ==
  ASSUME Typed, Typed', PointInv, PointInv', CalmInv, Steps \/ ContextEnds
  PROVE  CalmInv'
<1>0. verb \in VerbType
  BY DEF Typed
<1>1. SameVerb /\ UNCHANGED <<slots, cursor, down, view, verbs, gained, start>>
  BY StepsSame DEF theirs
<1>2. Counted' = Counted /\ Good' = Good
  BY <1>1, SameRanges DEF Good, SameVerb
<1>3. NewsInv /\ NewsInv'
  <2>1. NewsInv
    BY DEF CalmInv
  <2>2. CASE up' = up
    BY <2>1, <2>2, <1>1, SameNews
  <2>3. CASE up' # up
    <3>1. TakeFromContainer \/ PickUp \/ PlaceOne \/ PutBack
      BY <2>3 DEF Steps, ContextEnds, StopsMoving, TakesWhole, TakesPart, HasNoRoom, StackGone,
             Stalled, Placed, FindsNothing, MoveIntoSlot, Sweeps, Swept, StackLeft, StackStayed,
             PauseEnds, Returns
    <3>2. at \in {"take", "pick", "place"} => verb.src \in Slots
      BY <1>0, RangeFacts DEF PointInv, Point
    <3>3. at = "place" => verb.dst \in Slots /\ verb.button \in {0, 1}
      BY <1>0, RangeFacts DEF PointInv, Point, VerbType
    <3>4. CASE TakeFromContainer
      <4>1. at = "take" /\ Clicks("quick", verb.src, 0, "counted", verb)
        BY <3>4 DEF TakeFromContainer
      <4> QED BY <4>1, <3>2, <2>1, NewsClicks
    <3>5. CASE PickUp
      <4>1. at = "pick" /\ Clicks("normal", verb.src, 0, "place", verb)
        BY <3>5 DEF PickUp
      <4> QED BY <4>1, <3>2, <2>1, NewsClicks
    <3>6. CASE PlaceOne
      <4>1. /\ at = "place"
            /\ Clicks("normal", verb.dst, verb.button, "place", [verb EXCEPT !.left = @ - 1])
        BY <3>6 DEF PlaceOne
      <4> QED BY <4>1, <3>3, <2>1, NewsClicks
    <3>7. CASE PutBack
      <4>1. at = "place" /\ Clicks("normal", verb.src, 0, "placed", verb)
        BY <3>7 DEF PutBack
      <4> QED BY <4>1, <3>2, <2>1, NewsClicks
    <3> QED BY <3>1, <3>4, <3>5, <3>6, <3>7
  <2> QED BY <2>1, <2>2, <2>3
<1>4. verb.dst # 0 => verb'.dst # 0
  <2>1. at \notin {"loop", "sweep", "find", "take", "counted"} \/ verb.dst = 0
    BY DEF PointInv, Point
  <2>2. at \notin {"loop", "sweep", "find", "take", "counted"} => verb'.dst = verb.dst
    BY <1>0 DEF Steps, ContextEnds, StopsMoving, TakesWhole, TakesPart, HasNoRoom, StackGone,
           Stalled, Placed, FindsNothing, MoveIntoSlot, Sweeps, Swept, StackLeft, StackStayed,
           PauseEnds, Returns, Loops, TakeFromContainer, PickUp, PlaceOne, PutBack, Clicks, Goes,
           VerbType
  <2> QED BY <2>1, <2>2
<1>5. verb.dst = 0 /\ verb'.dst # 0 => TakesPart \/ MoveIntoSlot
  BY <1>0 DEF Steps, ContextEnds, StopsMoving, TakesWhole, HasNoRoom, StackGone,
         Stalled, Placed, FindsNothing, Sweeps, Swept, StackLeft, StackStayed,
         PauseEnds, Returns, Loops, TakeFromContainer, PickUp, PlaceOne, PutBack, Clicks, Goes,
         VerbType
<1>6. Counted' /\ verb'.dst = 0 => QuickInv'
  BY <1>2, <1>3, <1>4, QuickSteps DEF CalmInv
<1>7. verb'.kind \in {"put", "one"} /\ verb'.dst = 0 => IdleInv'
  <2>1. verb'.kind = verb.kind
    BY <1>1 DEF SameVerb
  <2> QED BY <2>1, <1>4, IdleSteps DEF CalmInv
<1>8. Good' /\ verb'.dst # 0 => PartInv'
  <2> SUFFICES ASSUME Good, verb'.dst # 0 PROVE PartInv'
    BY <1>2
  <2>1. CASE verb.dst # 0
    BY <2>1, <1>3, PartSteps DEF CalmInv
  <2>2. CASE verb.dst = 0 /\ TakesPart
    <3>1. Counted
      BY <2>2 DEF TakesPart, Loops, PointInv, Point
    <3> QED BY <2>2, <3>1, PartTaken DEF CalmInv
  <2>3. CASE verb.dst = 0 /\ MoveIntoSlot
    <3>1. verb.kind \in {"put", "one"} /\ ~Counted
      BY <2>3 DEF MoveIntoSlot, Goes, PointInv, Point, Counted
    <3>2. verb.kind = "one"
      BY <3>1 DEF Good
    <3> QED BY <2>3, <3>1, <3>2, PartFound DEF CalmInv
  <2> QED BY <2>1, <2>2, <2>3, <1>5
<1> QED BY <1>3, <1>6, <1>7, <1>8 DEF CalmInv

\* ... and so do the server ...
LEMMA CalmServer ==
  ASSUME Typed, Typed', PointInv, Calm, CalmInv, ServerTakesClick
  PROVE  CalmInv'
<1>1. NewsInv' /\ (ServesStale \/ ServesQuick \/ ServesNormal)
  BY ServerFacts DEF CalmInv
<1>2. up # <<>> /\ UNCHANGED <<view, at, verb, verbs, calm, start>>
  BY <1>1 DEF ServesStale, ServesQuick, ServesNormal, Serves, Shifts
<1>3. Counted' = Counted /\ Good' = Good
  BY <1>2 DEF Counted, Good
<1>4. Counted' /\ verb'.dst = 0 => QuickInv'
  BY <1>1, <1>2, <1>3, QuickServer DEF CalmInv
<1>5. verb'.kind \in {"put", "one"} /\ verb'.dst = 0 => IdleInv'
  BY <1>2 DEF CalmInv, IdleInv
<1>6. Good' /\ verb'.dst # 0 => PartInv'
  BY <1>1, <1>2, <1>3, PartServer DEF CalmInv
<1> QED BY <1>1, <1>4, <1>5, <1>6 DEF CalmInv

\* ... and the client that takes news.
LEMMA CalmNews ==
  ASSUME Typed, Typed', CalmInv, TakeNews
  PROVE  CalmInv'
<1>1. NewsInv' /\ down # <<>> /\ UNCHANGED <<slots, cursor, up, at, verb, verbs, calm, gained, start>>
  BY NewsTaken DEF CalmInv
<1>2. Counted' = Counted /\ Good' = Good /\ Cap' = Cap /\ NoB' = NoB /\ OnTheWay' = OnTheWay
      /\ Promised' = Promised
  BY <1>1 DEF Counted, Good, Cap, NoB, OnTheWay, Promised, Wanted
<1>3. Counted' /\ verb'.dst = 0 => QuickInv'
  BY <1>1, <1>2, QuickNews DEF CalmInv
<1>4. verb'.kind \in {"put", "one"} /\ verb'.dst = 0 => IdleInv'
  BY <1>1 DEF CalmInv, IdleInv
<1>5. Good' /\ verb'.dst # 0 => PartInv'
  BY <1>1, <1>2 DEF CalmInv, PartInv
<1> QED BY <1>1, <1>3, <1>4, <1>5 DEF CalmInv

-----------------------------------------------------------------------------
(* While the server keeps up too.                                          *)

\* No slot of a range takes any more of the item.
Full(window, item, range) == \A s \in range : Room(window[s], item) = 0

\* Outside a pause nothing is on its way, and in it at most the one click it is for, fresh.
CleanInv ==
  /\ at \notin {"pause", "rest"} \/ (at = "rest" /\ verb.result = "ok") => up = <<>> /\ down = <<>>
  /\ at = "pause" => Len(up) <= 1
  /\ at = "pause" /\ up # <<>> =>
       /\ ~up[1].stale
       /\ verb.next = "counted" => up[1].mode = "quick" /\ up[1].slot = verb.src
       /\ verb.next = "place" =>
            /\ up[1].mode = "normal"
            /\ \/ up[1].slot = verb.src /\ up[1].button = 0
               \/ up[1].slot = verb.dst /\ up[1].button = verb.button
       /\ verb.next = "placed" =>
            up[1].mode = "normal" /\ up[1].slot = verb.src /\ up[1].button = 0

\* A stack is about to be picked up, is on the cursor, has been put back.
Lifting ==
  at = "pick" \/ (at = "pause" /\ verb.next = "place" /\ up # <<>> /\ up[1].slot = verb.src)
Lifted ==
  \/ at = "place" \/ (at = "pause" /\ verb.next = "place" /\ ~Lifting)
  \/ at = "pause" /\ verb.next = "placed" /\ up # <<>>
Laid == at = "placed" \/ (at = "pause" /\ verb.next = "placed" /\ up = <<>>)
Pending == IF at = "pause" /\ verb.next = "place" /\ up # <<>> THEN 1 ELSE 0

NoRoom == Room(slots[verb.dst], "a") = 0
InHand ==
  /\ slots[verb.src] = Empty
  /\ Counted =>
       /\ cursor.item = "a" /\ cursor.count > verb.left + Pending /\ NoB
       /\ gained + verb.left + Pending = Wanted \/ NoRoom

\* Where the picked-up stack is: in its slot, on the cursor, put back.
HandInv ==
  /\ Point \in {"loop", "take", "counted", "sweep", "find"} => cursor = Empty
  /\ Lifting =>
       /\ cursor = Empty /\ slots[verb.src].item = "a"
       /\ Counted => slots[verb.src].count > verb.left /\ gained + verb.left = Wanted /\ NoB
  /\ Lifted => InHand
  /\ at = "pause" /\ verb.next = "placed" => verb.left = 0
  /\ Laid => cursor = Empty /\ (Counted => gained = Wanted \/ NoRoom)
  /\ Counted /\ Point \in {"pick", "place", "placed"} =>
       verb.before = Count(slots, Source(verb)) + gained + Holds(cursor)

\* The rows that DepositAll has emptied.
Emptied == {s \in PlayerRows : start[s] # Empty /\ slots[s] = Empty}

\* A shift-click emptied its slot, or moved something, or the far side is full; DepositAll
\* has counted the rows it emptied.
MovedInv ==
  /\ Counted /\ Point = "counted" /\ up = <<>> =>
       Count(slots, Source(verb)) < verb.was \/ Full(slots, "a", Destination(verb))
  /\ Point \in {"sweep", "take", "counted"} /\ verb.kind = "all" =>
       \A s \in PlayerRows : start[s] = Empty => slots[s] = Empty
  /\ Point = "sweep" => Cardinality(Emptied) = verb.reported
  /\ Point \in {"take", "counted"} /\ verb.kind = "all" =>
       /\ start[verb.src] # Empty
       /\ Cardinality(Emptied \ {verb.src}) = verb.reported
       /\ IF at = "take" \/ up # <<>> THEN slots[verb.src] # Empty
          ELSE slots[verb.src] = Empty \/ Full(slots, slots[verb.src].item, OwnSlots)

\* What a verb that returns without an error has kept to.
Done ==
  /\ cursor = Empty
  /\ Counted => verb.reported = gained
  /\ Counted /\ gained < Wanted =>
       \/ Full(slots, "a", Destination(verb))
       \/ verb.dst # 0 /\ NoRoom
       \/ verb.moves = MaxStackMoves
  /\ verb.kind = "all" =>
       /\ verb.reported = Cardinality(Emptied)
       /\ (\E s \in PlayerRows : slots[s] # Empty) =>
            \/ Full(slots, slots[verb.src].item, OwnSlots)
            \/ verb.moves = MaxStackMoves

DoneInv == at = "rest" /\ verb.result = "ok" => Done

PromptInv == CleanInv /\ HandInv /\ MovedInv /\ DoneInv

\* What a click of the verb does, the server having nothing else to do.
LEMMA HandServer ==
  ASSUME Typed, Typed', PointInv, CleanInv, HandInv, at = "pause", verb.next \in {"place", "placed"},
         ServesNormal
  PROVE  HandInv'
<1> DEFINE src == verb.src
           dst == verb.dst
           D == Destination(verb)
           S == Source(verb)
<1>0. /\ up # <<>> /\ UNCHANGED <<view, at, verb, verbs, calm, start>> /\ up' = <<>>
      /\ up[1].slot \in Slots /\ up[1].button \in {0, 1}
  <2>1. /\ up # <<>> /\ UNCHANGED <<view, at, verb, verbs, calm, start>>
        /\ up' \in Seq(Click) /\ Len(up) \in Nat \ {0} /\ Len(up') = Len(up) - 1
        /\ up[1].slot \in Slots /\ up[1].button \in {0, 1}
    BY DEF ServesNormal, Serves, Shifts
  <2>2. Len(up') = 0
    BY <2>1 DEF CleanInv
  <2> QED BY <2>1, <2>2, EmptyFacts
<1>1. /\ dst \in D /\ src \in S /\ src \notin D /\ dst \notin S /\ src # dst
      /\ dst \in Slots /\ src \in Slots /\ (Counted => verb.button = 1)
  BY RangeFacts DEF PointInv, Point, Typed, Counted
<1>2. /\ slots \in Windows /\ slots' \in Windows /\ cursor \in Stacks /\ cursor' \in Stacks
      /\ gained \in Int /\ verb.left \in Nat /\ Wanted \in Nat /\ verb.before \in Nat
  BY WantedFacts DEF Typed
<1>3. Counted' = Counted /\ Wanted' = Wanted /\ Point' = Point /\ Point \in {"place", "placed"}
  BY <1>0 DEF Counted, Wanted, Point
<1>4. PICK after : /\ after = NormalClick(up[1].slot, up[1].button)
                   /\ slots' = [slots EXCEPT ![up[1].slot] = after.slot]
                   /\ cursor' = after.cursor
  BY DEF ServesNormal
<1>5. gained' = gained + Count(slots', D) - Count(slots, D)
  BY DEF ServesNormal, Serves
<1>6. slots'[up[1].slot] = after.slot /\ \A t \in Slots \ {up[1].slot} : slots'[t] = slots[t]
  BY <1>0, <1>2, <1>4 DEF Windows
<1> HIDE DEF src, dst, D, S
<1>7. /\ Count(slots', D) = Count(slots, D)
           + (IF up[1].slot \in D THEN Holds(slots'[up[1].slot]) - Holds(slots[up[1].slot]) ELSE 0)
      /\ Count(slots', S) = Count(slots, S)
           + (IF up[1].slot \in S THEN Holds(slots'[up[1].slot]) - Holds(slots[up[1].slot]) ELSE 0)
  BY <1>0, <1>2, <1>6, ClickCounts
<1>8. /\ Holds(after.slot) + Holds(after.cursor) = Holds(slots[up[1].slot]) + Holds(cursor)
      /\ cursor = Empty /\ up[1].button = 0 => after.slot = Empty /\ after.cursor = slots[up[1].slot]
      /\ slots[up[1].slot] = Empty /\ up[1].button = 0 => after.slot = cursor /\ after.cursor = Empty
      /\ cursor.item = "a" /\ slots[up[1].slot].item # "b" /\ up[1].button = 1 =>
           IF Room(slots[up[1].slot], "a") = 0 THEN after.slot = slots[up[1].slot] /\ after.cursor = cursor
           ELSE /\ Room(after.slot, "a") = Room(slots[up[1].slot], "a") - 1
                /\ after.slot.item = "a" /\ Holds(after.slot) = Holds(slots[up[1].slot]) + 1
                /\ after.cursor = Stack("a", cursor.count - 1)
  BY <1>0, <1>2, <1>4, NormalClickFacts
<1>9. PICK h \in Nat, k \in Nat, c \in Nat, e \in Nat, cd \in Nat, cs \in Nat :
        /\ h = Holds(slots[up[1].slot]) /\ k = Holds(slots'[up[1].slot])
        /\ c = Holds(cursor) /\ e = Holds(cursor')
        /\ cd = Count(slots, D) /\ cs = Count(slots, S)
  BY <1>0, <1>2, CountType, StackFacts DEF Windows
<1>10. k + e = h + c
  BY <1>4, <1>6, <1>8, <1>9
<1>11. ASSUME up[1].slot \in D \/ up[1].slot \in S
       PROVE  Counted' =>
                verb'.before = Count(slots', Source(verb')) + gained' + Holds(cursor')
  <2> SUFFICES ASSUME Counted PROVE verb.before = Count(slots', S) + gained' + e
    BY <1>0, <1>3, <1>9 DEF S
  <2>1. verb.before = cs + gained + c
    BY <1>3, <1>9 DEF HandInv, S
  <2>2. D \cap S = {}
    BY RangeFacts DEF D, S, Typed
  <2>3. CASE up[1].slot \in D
    <3>1. Count(slots', D) = cd + (k - h) /\ Count(slots', S) = cs
      BY <2>2, <2>3, <1>7, <1>9
    <3>2. gained' = gained + (cd + (k - h)) - cd
      BY <3>1, <1>5, <1>9
    <3> QED BY <3>1, <3>2, <2>1, <1>2, <1>10
  <2>4. CASE up[1].slot \in S
    <3>1. Count(slots', D) = cd /\ Count(slots', S) = cs + (k - h)
      BY <2>2, <2>4, <1>7, <1>9
    <3>2. gained' = gained + cd - cd
      BY <3>1, <1>5, <1>9
    <3> QED BY <3>1, <3>2, <2>1, <1>2, <1>10
  <2> QED BY <1>11, <2>3, <2>4
<1>12. ASSUME up[1].slot = src
       PROVE  gained' = gained /\ slots'[dst] = slots[dst]
  <2>1. Count(slots', D) = cd
    BY <1>1, <1>7, <1>9, <1>12
  <2> QED BY <2>1, <1>1, <1>2, <1>5, <1>6, <1>9, <1>12
<1>13. ~Lifting' /\ Pending' = 0 /\ (Lifted' <=> verb.next = "place")
       /\ (Laid' <=> verb.next = "placed") /\ (NoB' <=> slots'[dst].item # "b")
       /\ (NoRoom' <=> Room(slots'[dst], "a") = 0)
  BY <1>0 DEF Lifting, Lifted, Laid, Pending, NoB, NoRoom, dst
<1>14. CASE verb.next = "place" /\ up[1].slot = src
  <2>1. up[1].button = 0
    BY <1>0, <1>1, <1>14 DEF CleanInv, src, dst
  <2>2. Lifting
    BY <1>0, <1>14 DEF Lifting, src
  <2>3. /\ cursor = Empty /\ slots[src].item = "a"
        /\ Counted => slots[src].count > verb.left /\ gained + verb.left = Wanted /\ slots[dst].item # "b"
    BY <2>2 DEF HandInv, NoB, src, dst
  <2>4. slots'[src] = Empty /\ cursor' = slots[src]
    BY <1>4, <1>6, <1>8, <1>14, <2>1, <2>3
  <2>5. InHand'
    BY <1>0, <1>2, <1>3, <1>12, <1>13, <1>14, <2>3, <2>4 DEF InHand, src
  <2> QED BY <1>0, <1>1, <1>3, <1>11, <1>13, <1>14, <2>5 DEF HandInv
<1>15. CASE verb.next = "place" /\ up[1].slot # src
  <2>1. up[1].slot = dst /\ up[1].button = verb.button
    BY <1>0, <1>15 DEF CleanInv, src, dst
  <2>2. Lifted /\ Pending = 1
    BY <1>0, <1>15 DEF Lifted, Lifting, Pending, src
  <2>3. /\ slots[src] = Empty
        /\ Counted => /\ cursor.item = "a" /\ cursor.count > verb.left + 1 /\ slots[dst].item # "b"
                      /\ gained + verb.left + 1 = Wanted \/ Room(slots[dst], "a") = 0
    BY <2>2 DEF HandInv, InHand, NoB, NoRoom, src, dst
  <2>4. slots'[src] = Empty
    BY <1>1, <1>6, <2>1, <2>3
  <2>5. ASSUME Counted
        PROVE  /\ cursor'.item = "a" /\ cursor'.count > verb.left /\ slots'[dst].item # "b"
               /\ gained' + verb.left = Wanted \/ Room(slots'[dst], "a") = 0
    <3>1. up[1].button = 1
      BY <1>1, <2>1, <2>5
    <3>2. CASE Room(slots[dst], "a") = 0
      <4>1. slots'[dst] = slots[dst] /\ cursor' = cursor
        BY <1>4, <1>6, <1>8, <2>1, <2>3, <2>5, <3>1, <3>2
      <4>2. cursor.count \in Nat
        BY <1>2, <2>3, <2>5, StackFacts DEF Empty
      <4> QED BY <4>1, <4>2, <1>2, <2>3, <2>5, <3>2
    <3>3. CASE Room(slots[dst], "a") # 0
      <4>1. slots'[dst].item = "a" /\ k = h + 1 /\ cursor' = Stack("a", cursor.count - 1)
        BY <1>4, <1>6, <1>8, <1>9, <2>1, <2>3, <2>5, <3>1, <3>3
      <4>2. cursor.count \in Nat /\ cursor.count > verb.left + 1 /\ gained + verb.left + 1 = Wanted
        BY <1>2, <2>3, <2>5, <3>3, StackFacts DEF Empty
      <4>3. cursor'.item = "a" /\ cursor'.count = cursor.count - 1
        <5>1. cursor.count - 1 # 0
          BY <4>2, <1>2
        <5> QED BY <4>1, <5>1 DEF Stack
      <4>4. gained' = gained + 1
        <5>1. Count(slots', D) = cd + (k - h)
          BY <1>1, <1>7, <1>9, <2>1
        <5> QED BY <5>1, <4>1, <1>2, <1>5, <1>9
      <4> QED BY <4>1, <4>2, <4>3, <4>4, <1>2
    <3> QED BY <3>2, <3>3
  <2>6. InHand'
    BY <1>0, <1>2, <1>3, <1>13, <2>4, <2>5 DEF InHand, src
  <2> QED BY <1>0, <1>1, <1>3, <1>11, <1>13, <1>15, <2>1, <2>6 DEF HandInv
<1>16. CASE verb.next = "placed"
  <2>1. up[1].slot = src /\ up[1].button = 0
    BY <1>0, <1>16 DEF CleanInv, src
  <2>2. Lifted /\ Pending = 0 /\ verb.left = 0
    BY <1>0, <1>16 DEF Lifted, Pending, HandInv
  <2>3. /\ slots[src] = Empty
        /\ Counted => gained = Wanted \/ Room(slots[dst], "a") = 0
    BY <1>2, <2>2 DEF HandInv, InHand, NoRoom, src, dst
  <2>4. cursor' = Empty
    BY <1>4, <1>8, <2>1, <2>3
  <2> QED BY <1>0, <1>1, <1>3, <1>11, <1>12, <1>13, <1>16, <2>1, <2>2, <2>3, <2>4 DEF HandInv
<1> QED BY <1>14, <1>15, <1>16

\* A shift-click of DepositAll.
LEMMA SweepServer ==
  ASSUME Typed, Typed', PointInv, MovedInv, at = "pause", verb.next = "counted", verb.kind = "all",
         up # <<>>, up' = <<>>, up[1].slot = verb.src, ServesQuick
  PROVE  MovedInv'
<1>0. UNCHANGED <<view, at, verb, verbs, calm, start>> /\ slots' = QuickMove(verb.src)
  BY DEF ServesQuick, Serves, Shifts
<1> DEFINE src == verb.src
<1>1. Point = "counted" /\ Point' = "counted" /\ ~Counted'
  BY <1>0 DEF Point, Counted
<1>2. src \in PlayerRows
  BY <1>1 DEF PointInv, Source
<1>3. /\ start[src] # Empty /\ Cardinality(Emptied \ {src}) = verb.reported
      /\ slots[src] # Empty /\ \A s \in PlayerRows : start[s] = Empty => slots[s] = Empty
  BY <1>1 DEF MovedInv
<1>4. /\ OwnSlots = IF src \in OwnSlots THEN PlayerRows ELSE OwnSlots
      /\ src \in Slots /\ \A t \in PlayerRows : t \in Slots /\ t \notin OwnSlots
  BY <1>2, SlotFacts
<1>5. slots \in Windows
  BY DEF Typed
<1> HIDE DEF src
<1>6. PICK rest \in 0..slots[src].count :
        /\ QuickMove(src)[src] = Stack(slots[src].item, rest)
        /\ \A t \in Slots \ {src} : QuickMove(src)[t] = slots[t] \/ t \in OwnSlots
        /\ rest > 0 => \A t \in OwnSlots : Room(QuickMove(src)[t], slots[src].item) = 0
  BY <1>3, <1>4, <1>5, QuickMoveFacts
<1>7. slots' = QuickMove(src)
  BY <1>0 DEF src
<1>8. \A t \in PlayerRows \ {src} : slots'[t] = slots[t]
  BY <1>4, <1>6, <1>7
<1>9. Emptied' \ {src} = Emptied \ {src}
  BY <1>0, <1>8 DEF Emptied
<1>10. slots'[src] = Empty \/ Full(slots', slots'[src].item, OwnSlots)
  <2>1. CASE rest = 0
    BY <2>1, <1>6, <1>7 DEF Stack
  <2>2. CASE rest # 0
    <3>1. rest > 0 /\ slots'[src].item = slots[src].item
      <4>1. slots[src].count \in Nat
        BY <1>3, <1>4, <1>5, StackFacts DEF Windows
      <4> QED BY <4>1, <2>2, <1>6, <1>7 DEF Stack
    <3> QED BY <3>1, <1>6, <1>7 DEF Full
  <2> QED BY <2>1, <2>2
<1>11. \A s \in PlayerRows : start'[s] = Empty => slots'[s] = Empty
  BY <1>0, <1>3, <1>8
<1>12. /\ start'[verb'.src] # Empty /\ Cardinality(Emptied' \ {verb'.src}) = verb'.reported
       /\ slots'[verb'.src] = Empty \/ Full(slots', slots'[verb'.src].item, OwnSlots)
  BY <1>0, <1>3, <1>9, <1>10 DEF src
<1> QED BY <1>0, <1>1, <1>11, <1>12 DEF MovedInv

\* A shift-click of a transfer.
LEMMA MovedServer ==
  ASSUME Typed, Typed', PointInv, QuickInv, Counted, at = "pause", verb.next = "counted",
         up # <<>>, up' = <<>>, up[1].slot = verb.src, ServesQuick
  PROVE  MovedInv'
<1>0. UNCHANGED <<view, at, verb, verbs, calm, start>>
  BY DEF ServesQuick, Serves, Shifts
<1>1. Point = "counted" /\ Point' = "counted" /\ Counted' /\ verb'.kind # "all"
  BY <1>0 DEF Point, Counted
<1>2. Promising /\ verb.was = Count(slots, Source(verb))
  BY <1>1 DEF QuickInv
<1>3. PICK rest \in Nat :
           /\ rest <= slots[verb.src].count
           /\ Count(slots', Source(verb)) = Count(slots, Source(verb)) - (slots[verb.src].count - rest)
           /\ rest > 0 => \A s \in Destination(verb) : Room(slots'[s], "a") = 0
  BY <1>2, QuickFacts DEF Promising
<1>4. slots[verb.src].count \in Nat \ {0}
  <2>1. slots[verb.src] \in Stacks /\ slots[verb.src] # Empty
    BY <1>2, RangeFacts DEF Promising, Typed, Windows, Empty
  <2> QED BY <2>1, StackFacts
<1>5. Count(slots', Source(verb)) < verb.was \/ Full(slots', "a", Destination(verb))
  <2>1. CASE rest = 0
    <3>1. PICK n \in Nat, c \in Nat : n = slots[verb.src].count /\ c = Count(slots, Source(verb))
      BY <1>4, WantedFacts
    <3>2. n > 0 /\ Count(slots', Source(verb)) = c - (n - 0)
      BY <3>1, <2>1, <1>3, <1>4
    <3> QED BY <3>1, <3>2, <1>2
  <2>2. CASE rest # 0
    BY <2>2, <1>3 DEF Full
  <2> QED BY <2>1, <2>2
<1>6. Count(slots', Source(verb')) < verb'.was \/ Full(slots', "a", Destination(verb'))
  BY <1>0, <1>5
<1> QED BY <1>1, <1>6 DEF MovedInv

\* The server takes the one click there is.
LEMMA PromptServer ==
  ASSUME Typed, Typed', PointInv, PromptInv, Counted /\ verb.dst = 0 => QuickInv,
         ServesStale \/ ServesQuick \/ ServesNormal
  PROVE  PromptInv'
<1>0. /\ up # <<>> /\ UNCHANGED <<view, at, verb, verbs, calm, start>>
      /\ up' \in Seq(Click) /\ Len(up) \in Nat \ {0} /\ Len(up') = Len(up) - 1
  BY DEF ServesStale, ServesQuick, ServesNormal, Serves, Shifts
<1>1. CASE at = "rest"
  <2>1. verb.result # "ok"
    BY <1>0, <1>1 DEF PromptInv, CleanInv
  <2>2. at' = "rest" /\ verb'.result # "ok"
    BY <2>1, <1>0, <1>1
  <2> QED BY <2>2 DEF PromptInv, CleanInv, HandInv, MovedInv, DoneInv, Point, Lifting, Lifted, Laid
<1>2. CASE at = "pause"
  <2>1. /\ Len(up) <= 1 /\ ~up[1].stale
        /\ verb.next = "counted" => up[1].mode = "quick" /\ up[1].slot = verb.src
        /\ verb.next \in {"place", "placed"} => up[1].mode = "normal"
    BY <1>0, <1>2 DEF PromptInv, CleanInv
  <2>2. up' = <<>> /\ Len(up') = 0 /\ at' = "pause"
    <3>1. Len(up') = 0
      BY <2>1, <1>0
    <3> QED BY <3>1, <1>0, <1>2, EmptyFacts
  <2>3. CleanInv' /\ DoneInv'
    BY <2>2 DEF CleanInv, DoneInv
  <2>4. verb.next \in {"counted", "place", "placed"}
    BY <1>2 DEF PointInv
  <2>5. CASE verb.next = "counted"
    <3>1. ServesQuick /\ up[1].slot = verb.src /\ cursor' = cursor /\ Point = "counted"
      BY <2>1, <2>5, <1>2 DEF ServesStale, ServesNormal, ServesQuick, Point
    <3>2. MovedInv'
      <4>1. CASE verb.kind = "all"
        BY <4>1, <3>1, <2>2, <2>5, <1>0, <1>2, SweepServer DEF PromptInv
      <4>2. CASE verb.kind # "all"
        <5>1. Counted /\ verb.dst = 0
          BY <4>2, <3>1 DEF PointInv
        <5> QED BY <5>1, <3>1, <2>2, <2>5, <1>0, <1>2, MovedServer
      <4> QED BY <4>1, <4>2
    <3>3. HandInv'
      <4>1. cursor' = Empty
        BY <3>1 DEF PromptInv, HandInv
      <4>2. Point' = "counted" /\ verb'.next = "counted" /\ at' = "pause"
        BY <2>2, <2>5, <1>0 DEF Point
      <4> QED BY <4>1, <4>2 DEF HandInv, Lifting, Lifted, Laid
    <3> QED BY <2>3, <3>2, <3>3 DEF PromptInv
  <2>6. CASE verb.next \in {"place", "placed"}
    <3>1. ServesNormal
      BY <2>1, <2>6 DEF ServesStale, ServesQuick
    <3>2. HandInv'
      BY <3>1, <2>6, <1>2, HandServer DEF PromptInv
    <3>3. MovedInv'
      BY <2>2, <2>6, <1>0 DEF MovedInv, Point
    <3> QED BY <2>3, <3>2, <3>3 DEF PromptInv
  <2> QED BY <2>4, <2>5, <2>6
<1>3. at \in {"rest", "pause"}
  BY <1>0 DEF PromptInv, CleanInv
<1> QED BY <1>1, <1>2, <1>3

\* News reaches the client during a pause, or after the verb.
LEMMA PromptNews ==
  ASSUME PromptInv, TakeNews
  PROVE  PromptInv'
<1>1. down # <<>> /\ UNCHANGED <<slots, cursor, up, at, verb, verbs, calm, gained, start>>
  BY DEF TakeNews
<1>2. at \in {"rest", "pause"} /\ ~(at = "rest" /\ verb.result = "ok")
  BY <1>1 DEF PromptInv, CleanInv
<1>3. CleanInv'
  BY <1>1, <1>2 DEF PromptInv, CleanInv
<1>4. HandInv'
  BY <1>1 DEF PromptInv, HandInv, Point, Lifting, Lifted, Laid, InHand, NoB, NoRoom, Pending,
        Counted, Wanted
<1>5. MovedInv'
  BY <1>1 DEF PromptInv, MovedInv, Point, Counted, Emptied
<1>6. DoneInv'
  BY <1>1, <1>2 DEF DoneInv
<1> QED BY <1>3, <1>4, <1>5, <1>6 DEF PromptInv

\* A verb that has nothing on the cursor and can account for what it moved may end.
LEMMA EndFacts ==
  ASSUME Typed, NewsInv, CleanInv, Returns("ok"), at \notin {"pause", "rest"}, cursor = Empty,
         Counted => verb.before - Count(slots, Source(verb)) = gained,
         Counted /\ gained < Wanted =>
           \/ Full(slots, "a", Destination(verb))
           \/ verb.dst # 0 /\ NoRoom
           \/ verb.moves = MaxStackMoves,
         verb.kind = "all" =>
           /\ verb.reported = Cardinality(Emptied)
           /\ (\E s \in PlayerRows : slots[s] # Empty) =>
                \/ Full(slots, slots[verb.src].item, OwnSlots)
                \/ verb.moves = MaxStackMoves
  PROVE  PromptInv'
<1>1. up = <<>> /\ down = <<>> /\ view = slots
  BY NewsSeen DEF CleanInv
<1>2. /\ at' = "rest" /\ UNCHANGED <<slots, cursor, up, down, view, gained, start>>
      /\ verb' = [verb EXCEPT !.result = "ok",
                              !.reported = IF verb.kind \in {"deposit", "withdraw"}
                                           THEN verb.before - Count(view, Source(verb)) ELSE @]
  BY DEF Returns, theirs
<1>3. /\ verb'.kind = verb.kind /\ verb'.slot = verb.slot /\ verb'.dst = verb.dst
      /\ verb'.src = verb.src /\ verb'.moves = verb.moves /\ verb'.before = verb.before
      /\ verb'.count = verb.count
      /\ Counted => verb'.reported = verb.before - Count(view, Source(verb))
      /\ ~Counted => verb'.reported = verb.reported
  BY <1>2 DEF Typed, VerbType, Counted
<1>4. /\ Counted' = Counted /\ Wanted' = Wanted /\ Destination(verb') = Destination(verb)
      /\ Emptied' = Emptied /\ NoRoom' = NoRoom
  BY <1>2, <1>3 DEF Counted, Wanted, Destination, Emptied, NoRoom
<1>5. Counted' => verb'.reported = gained'
  BY <1>1, <1>2, <1>3, <1>4
<1>6. Counted' /\ gained' < Wanted' =>
        \/ Full(slots', "a", Destination(verb'))
        \/ verb'.dst # 0 /\ NoRoom'
        \/ verb'.moves = MaxStackMoves
  BY <1>2, <1>3, <1>4
<1>7. verb'.kind = "all" =>
        /\ verb'.reported = Cardinality(Emptied')
        /\ (\E s \in PlayerRows : slots'[s] # Empty) =>
             \/ Full(slots', slots'[verb'.src].item, OwnSlots)
             \/ verb'.moves = MaxStackMoves
  BY <1>2, <1>3, <1>4 DEF Counted
<1>8. Done'
  BY <1>2, <1>5, <1>6, <1>7 DEF Done
<1>9. up' = <<>> /\ down' = <<>>
  BY <1>1, <1>2
<1> QED BY <1>2, <1>8, <1>9 DEF PromptInv, CleanInv, HandInv, MovedInv, DoneInv, Point, Lifting,
        Lifted, Laid

\* The context ends, or there is nothing to move: no promise is made.
LEMMA PromptErrors ==
  ASSUME Typed, Returns("error")
  PROVE  PromptInv'
<1>1. at' = "rest" /\ verb'.result # "ok"
  BY DEF Returns, Typed, VerbType
<1> QED BY <1>1 DEF PromptInv, CleanInv, HandInv, MovedInv, DoneInv, Point, Lifting, Lifted, Laid

\* Every return of a transfer is an end.
LEMMA CountedReturns ==
  ASSUME Typed, PointInv, NewsInv, PromptInv, Counted /\ verb.dst = 0 => QuickInv,
         StopsMoving \/ HasNoRoom \/ Stalled
  PROVE  PromptInv'
<1>1. at \in {"loop", "counted"} /\ Returns("ok")
  BY DEF StopsMoving, HasNoRoom, Loops, Stalled
<1>2. Point = at /\ Counted /\ verb.dst = 0 /\ verb.kind # "all"
  <2>1. Point = at
    BY <1>1 DEF Point
  <2>2. at = "counted" => verb.kind # "all"
    BY DEF StopsMoving, HasNoRoom, Loops, Stalled
  <2> QED BY <1>1, <2>1, <2>2 DEF PointInv, Counted
<1>3. cursor = Empty /\ CleanInv /\ up = <<>> /\ down = <<>> /\ view = slots
  BY <1>1, <1>2, NewsSeen DEF PromptInv, HandInv, CleanInv
<1>4. gained = verb.before - Count(slots, Source(verb))
  BY <1>2 DEF QuickInv
<1>5. ASSUME gained < Wanted
      PROVE  Full(slots, "a", Destination(verb)) \/ verb.moves = MaxStackMoves
  <2>1. CASE StopsMoving
    <3>1. at = "loop" /\ (~Moves \/ verb.remaining <= 0 \/ FindInRange(Source(verb)) = 0)
      BY <2>1 DEF StopsMoving
    <3>2. CASE ~Moves
      BY <3>2, TransfersAssumption DEF Moves, Typed, VerbType
    <3>3. CASE verb.remaining <= 0
      <4>1. verb.remaining + gained = Wanted
        BY <3>1, <1>2 DEF QuickInv
      <4> QED BY <4>1, <3>3, <1>5, WantedFacts
    <3>4. CASE FindInRange(Source(verb)) = 0
      <4>1. \A s \in Source(verb) : view[s].item # "a"
        BY <3>4, RangeFacts, FindFacts DEF Typed
      <4>2. \A s \in Slots \cap Source(verb) : Holds(slots[s]) = 0
        BY <4>1, <1>3 DEF Holds
      <4>3. Count(slots, Source(verb)) = 0
        BY <4>2, CountNothing DEF Typed
      <4> QED BY <4>3, <1>4, <1>5, WantedFacts
    <3> QED BY <3>1, <3>2, <3>3, <3>4
  <2>2. CASE HasNoRoom
    <3>1. \A s \in Destination(verb) : view[s].item = "b"
      BY <2>2, RangeFacts, FreeFacts DEF HasNoRoom, Typed
    <3> QED BY <3>1, <1>3 DEF Full, Room, Empty
  <2>3. CASE Stalled
    <3>1. at = "counted" /\ verb.was <= Count(slots, Source(verb))
      BY <2>3, <1>3 DEF Stalled
    <3>2. Count(slots, Source(verb)) < verb.was \/ Full(slots, "a", Destination(verb))
      BY <3>1, <1>2, <1>3 DEF PromptInv, MovedInv
    <3> QED BY <3>1, <3>2, WantedFacts
  <2> QED BY <2>1, <2>2, <2>3
<1> QED BY <1>1, <1>2, <1>3, <1>4, <1>5, EndFacts

\* So is the end of three clicks, ...
LEMMA PlacedReturns ==
  ASSUME Typed, PointInv, NewsInv, PromptInv, Placed
  PROVE  PromptInv'
<1>1. at = "placed" /\ Returns("ok") /\ Point = "placed"
  BY DEF Placed, Point
<1>2. verb.dst # 0 /\ verb.kind # "all"
  BY <1>1 DEF PointInv, Counted
<1>3. CleanInv /\ cursor = Empty /\ (Counted => gained = Wanted \/ NoRoom)
  BY <1>1 DEF PromptInv, HandInv, Laid
<1>4. Counted => verb.before - Count(slots, Source(verb)) = gained
  <2> SUFFICES ASSUME Counted PROVE verb.before - Count(slots, Source(verb)) = gained
    OBVIOUS
  <2>1. verb.before = Count(slots, Source(verb)) + gained + Holds(cursor)
    BY <1>1 DEF PromptInv, HandInv
  <2>2. Holds(cursor) = 0
    BY <1>3 DEF Holds, Empty
  <2> QED BY <2>1, <2>2, WantedFacts
<1>5. Counted /\ gained < Wanted => verb.dst # 0 /\ NoRoom
  BY <1>2, <1>3, WantedFacts
<1> QED BY <1>1, <1>2, <1>3, <1>4, <1>5, EndFacts

\* ... and of DepositAll.
LEMMA AllReturns ==
  ASSUME Typed, PointInv, NewsInv, PromptInv, Swept \/ StackStayed
  PROVE  PromptInv'
<1>1. at \in {"sweep", "counted"} /\ Returns("ok") /\ Point = at /\ verb.kind = "all" /\ ~Counted
  BY DEF Swept, StackStayed, Point, PointInv, Counted
<1>2. CleanInv /\ cursor = Empty /\ up = <<>> /\ view = slots
  BY <1>1, NewsSeen DEF PromptInv, HandInv, CleanInv
<1>3. /\ verb.reported = Cardinality(Emptied)
      /\ (\E s \in PlayerRows : slots[s] # Empty) =>
           \/ Full(slots, slots[verb.src].item, OwnSlots)
           \/ verb.moves = MaxStackMoves
  <2>1. CASE Swept
    <3>1. at = "sweep" /\ (~Moves \/ Held = {})
      BY <2>1 DEF Swept
    <3>2. verb.reported = Cardinality(Emptied)
      BY <3>1, <1>1 DEF PromptInv, MovedInv
    <3>3. CASE ~Moves
      <4>1. verb.moves = MaxStackMoves
        BY <3>3, TransfersAssumption DEF Moves, Typed, VerbType
      <4> QED BY <3>2, <4>1
    <3>4. CASE Held = {}
      BY <3>2, <3>4, <1>2 DEF Held
    <3> QED BY <3>1, <3>3, <3>4
  <2>2. CASE StackStayed
    <3>1. at = "counted" /\ slots[verb.src] # Empty
      BY <2>2, <1>2 DEF StackStayed
    <3>2. /\ Cardinality(Emptied \ {verb.src}) = verb.reported
          /\ slots[verb.src] = Empty \/ Full(slots, slots[verb.src].item, OwnSlots)
      BY <3>1, <1>1, <1>2 DEF PromptInv, MovedInv
    <3>3. Emptied \ {verb.src} = Emptied
      BY <3>1 DEF Emptied
    <3> QED BY <3>1, <3>2, <3>3
  <2> QED BY <2>1, <2>2
<1> QED BY <1>1, <1>2, <1>3, EndFacts

\* A verb that clicks has nothing else on its way.
LEMMA CleanClicks ==
  ASSUME Typed, CleanInv, at \notin {"pause", "rest"},
         NEW mode \in {"quick", "normal"}, NEW s \in Slots, NEW button \in {0, 1},
         NEW next \in {"counted", "place", "placed"}, NEW rec \in VerbType,
         Clicks(mode, s, button, next, rec),
         next = "counted" => mode = "quick" /\ s = rec.src,
         next = "place" =>
           mode = "normal" /\ ((s = rec.src /\ button = 0) \/ (s = rec.dst /\ button = rec.button)),
         next = "placed" => mode = "normal" /\ s = rec.src /\ button = 0
  PROVE  /\ CleanInv' /\ DoneInv' /\ at' = "pause" /\ verb' = [rec EXCEPT !.next = next]
         /\ verb'.next = next /\ up' # <<>> /\ up'[1].slot = s
         /\ UNCHANGED <<slots, cursor, down, view, verbs, gained, start>>
<1>1. up = <<>> /\ down = <<>>
  BY DEF CleanInv
<1>2. PICK click : click = [mode |-> mode, slot |-> s, button |-> button, verb |-> verbs,
                            stale |-> down # <<>>]
  OBVIOUS
<1>3. click \in Click /\ ~click.stale
  BY <1>1, <1>2 DEF Click, Typed
<1>4. /\ up' = Append(up, click) /\ at' = "pause" /\ verb' = [rec EXCEPT !.next = next]
      /\ UNCHANGED <<slots, cursor, down, view, verbs, gained, start>>
  BY <1>2 DEF Clicks, theirs
<1>5. Len(up') = 1 /\ up'[1] = click /\ up' # <<>>
  <2>1. /\ up' \in Seq(Click) /\ Len(up') = Len(up) + 1 /\ up'[Len(up) + 1] = click
    BY <1>3, <1>4, AppendFacts DEF Typed
  <2>2. Len(up) = 0
    BY <1>1
  <2> QED BY <2>1, <2>2, EmptyFacts
<1>6. /\ verb'.next = next /\ verb'.src = rec.src /\ verb'.dst = rec.dst
      /\ verb'.button = rec.button
  BY <1>4 DEF VerbType
<1>7. CleanInv'
  <2>1. click.mode = mode /\ click.slot = s /\ click.button = button
    BY <1>2
  <2>2. /\ ~click.stale
        /\ next = "counted" => click.mode = "quick" /\ click.slot = verb'.src
        /\ next = "place" =>
             /\ click.mode = "normal"
             /\ \/ click.slot = verb'.src /\ click.button = 0
                \/ click.slot = verb'.dst /\ click.button = verb'.button
        /\ next = "placed" => click.mode = "normal" /\ click.slot = verb'.src /\ click.button = 0
    BY <2>1, <1>3, <1>6
  <2> QED BY <2>2, <1>4, <1>5, <1>6 DEF CleanInv
<1>8. DoneInv'
  BY <1>4 DEF DoneInv
<1> QED BY <1>2, <1>4, <1>5, <1>6, <1>7, <1>8

\* A verb that goes on without a click still has nothing on its way.
LEMMA CleanGoes ==
  ASSUME CleanInv, at \notin {"pause", "rest"}, at' \notin {"pause", "rest"},
         UNCHANGED <<up, down>>
  PROVE  CleanInv' /\ DoneInv'
BY DEF CleanInv, DoneInv

\* A verb about to shift-click a stack, that does so, and has seen what became of it.
LEMMA PromptTakes ==
  ASSUME Typed, PointInv, NewsInv, PromptInv,
         TakesWhole \/ TakeFromContainer \/ StackGone \/ Sweeps \/ StackLeft
  PROVE  PromptInv'
<1>0. verb \in VerbType /\ CleanInv /\ HandInv /\ MovedInv /\ DoneInv
  BY DEF Typed, PromptInv
<1>1. SameVerb /\ UNCHANGED <<slots, cursor, down, view, verbs, gained, start>>
  BY StepsSame DEF theirs, Steps
<1>2. Counted' = Counted /\ verb'.kind = verb.kind /\ Emptied' = Emptied
  BY <1>1, SameRanges DEF SameVerb, Emptied
<1>3. at \in {"loop", "take", "counted", "sweep"} /\ Point = at
  BY DEF TakesWhole, Loops, TakeFromContainer, StackGone, Sweeps, StackLeft, Goes, Point
<1>4. cursor = Empty /\ cursor' = Empty
  BY <1>0, <1>1, <1>3 DEF HandInv
<1>5. view = slots /\ up = <<>>
  BY <1>0, <1>3, NewsSeen DEF CleanInv
<1>6. CASE TakesWhole
  <2>1. at = "loop" /\ at' = "take" /\ up' = up
    BY <1>6 DEF TakesWhole, Loops
  <2>2. CleanInv' /\ DoneInv'
    BY <2>1, <1>0, <1>1, CleanGoes
  <2>3. HandInv'
    BY <2>1, <1>4 DEF HandInv, Point, Lifting, Lifted, Laid
  <2>4. Counted
    BY <2>1, <1>3 DEF PointInv
  <2>5. MovedInv'
    BY <2>1, <2>4, <1>2 DEF MovedInv, Point, Counted
  <2> QED BY <2>2, <2>3, <2>5 DEF PromptInv
<1>7. CASE TakeFromContainer
  <2>1. at = "take" /\ Clicks("quick", verb.src, 0, "counted", verb)
    BY <1>7 DEF TakeFromContainer
  <2>2. verb.src \in Slots
    BY <2>1, <1>0, <1>3, RangeFacts DEF PointInv
  <2>3. /\ CleanInv' /\ DoneInv' /\ at' = "pause" /\ verb' = [verb EXCEPT !.next = "counted"]
        /\ verb'.next = "counted" /\ up' # <<>>
    <3>1. at \notin {"pause", "rest"}
      BY <2>1
    <3> QED BY <2>1, <2>2, <3>1, <1>0, CleanClicks
  <2>4. HandInv'
    BY <2>3, <1>4 DEF HandInv, Point, Lifting, Lifted, Laid
  <2>5. verb'.src = verb.src /\ verb'.reported = verb.reported
    BY <2>3, <1>0 DEF VerbType
  <2>6. MovedInv'
    <3>1. verb.kind = "all" =>
            /\ \A s \in PlayerRows : start[s] = Empty => slots[s] = Empty
            /\ start[verb.src] # Empty /\ Cardinality(Emptied \ {verb.src}) = verb.reported
            /\ slots[verb.src] # Empty
      BY <2>1, <1>0, <1>3 DEF MovedInv
    <3> QED BY <3>1, <2>3, <2>5, <1>1, <1>2 DEF MovedInv, Point
  <2> QED BY <2>3, <2>4, <2>6 DEF PromptInv
<1>8. CASE StackGone
  <2>1. at = "counted" /\ at' = "loop" /\ up' = up /\ verb.kind # "all"
    BY <1>8 DEF StackGone, Goes
  <2>2. CleanInv' /\ DoneInv'
    BY <2>1, <1>0, <1>1, CleanGoes
  <2>3. HandInv'
    BY <2>1, <1>4 DEF HandInv, Point, Lifting, Lifted, Laid
  <2>4. MovedInv'
    BY <2>1 DEF MovedInv, Point
  <2> QED BY <2>2, <2>3, <2>4 DEF PromptInv
<1>9. CASE Sweeps
  <2>1. /\ at = "sweep" /\ at' = "take" /\ up' = up /\ Held # {}
        /\ verb'.src = First(Held) /\ verb'.reported = verb.reported
    BY <1>0, <1>9 DEF Sweeps, Goes, VerbType
  <2>2. CleanInv' /\ DoneInv'
    BY <2>1, <1>0, <1>1, CleanGoes
  <2>3. HandInv'
    BY <2>1, <1>4 DEF HandInv, Point, Lifting, Lifted, Laid
  <2>4. PICK src \in PlayerRows : src = First(Held) /\ slots[src] # Empty
    <3>1. Held \subseteq Slots
      BY SlotFacts DEF Held
    <3>2. First(Held) \in Held
      BY <2>1, <3>1, FirstFacts
    <3> QED BY <3>2, <1>5 DEF Held
  <2>5. /\ \A s \in PlayerRows : start[s] = Empty => slots[s] = Empty
        /\ Cardinality(Emptied) = verb.reported /\ verb.kind = "all"
    BY <2>1, <1>0, <1>3 DEF MovedInv, PointInv
  <2>6. start[src] # Empty /\ Emptied \ {src} = Emptied
    BY <2>4, <2>5 DEF Emptied
  <2>7. MovedInv'
    <3>1. verb'.src = src
      BY <2>1, <2>4
    <3>2. ~Counted'
      BY <2>5, <1>2 DEF Counted
    <3> QED BY <3>1, <3>2, <2>1, <2>4, <2>5, <2>6, <1>1, <1>2 DEF MovedInv, Point
  <2> QED BY <2>2, <2>3, <2>7 DEF PromptInv
<1>10. CASE StackLeft
  <2>1. /\ at = "counted" /\ at' = "sweep" /\ up' = up /\ verb.kind = "all"
        /\ view[verb.src] = Empty /\ verb'.reported = verb.reported + 1
    BY <1>0, <1>10 DEF StackLeft, Goes, VerbType
  <2>2. CleanInv' /\ DoneInv'
    BY <2>1, <1>0, <1>1, CleanGoes
  <2>3. HandInv'
    BY <2>1, <1>4 DEF HandInv, Point, Lifting, Lifted, Laid
  <2>4. /\ \A s \in PlayerRows : start[s] = Empty => slots[s] = Empty
        /\ start[verb.src] # Empty /\ Cardinality(Emptied \ {verb.src}) = verb.reported
    BY <2>1, <1>0, <1>3 DEF MovedInv
  <2>5. verb.src \in Emptied
    <3>1. verb.src \in PlayerRows
      BY <2>1, <1>3 DEF PointInv, Source
    <3> QED BY <3>1, <2>1, <2>4, <1>5 DEF Emptied
  <2>6. Cardinality(Emptied) = verb.reported + 1
    <3>1. IsFiniteSet(Emptied \ {verb.src})
      <4>1. PlayerRows = (Own + 1)..(Own + Rows) /\ Own + 1 \in Int /\ Own + Rows \in Int
        BY TransfersAssumption DEF PlayerRows
      <4>2. IsFiniteSet(PlayerRows)
        BY <4>1, FS_Interval
      <4>3. Emptied \ {verb.src} \subseteq PlayerRows
        BY DEF Emptied
      <4> QED BY <4>2, <4>3, FS_Subset
    <3>2. Emptied = (Emptied \ {verb.src}) \cup {verb.src} /\ verb.src \notin Emptied \ {verb.src}
      BY <2>5
    <3>3. Cardinality(Emptied) = Cardinality(Emptied \ {verb.src}) + 1
      BY <3>1, <3>2, FS_AddElement
    <3> QED BY <3>3, <2>4
  <2>7. MovedInv'
    BY <2>1, <2>4, <2>6, <1>1, <1>2 DEF MovedInv, Point
  <2> QED BY <2>2, <2>3, <2>7 DEF PromptInv
<1> QED BY <1>6, <1>7, <1>8, <1>9, <1>10

\* A verb about to pick a stack up: of the item, seen, and more than is wanted.
LEMMA PromptChooses ==
  ASSUME Typed, PointInv, NewsInv, PromptInv, Counted /\ verb.dst = 0 => QuickInv,
         TakesPart \/ MoveIntoSlot
  PROVE  PromptInv'
<1>0. verb \in VerbType /\ view \in Windows /\ slots \in Windows /\ CleanInv /\ HandInv
  BY DEF Typed, PromptInv
<1>1. SameVerb /\ UNCHANGED <<slots, cursor, down, view, verbs, gained, start>>
  BY StepsSame DEF theirs, Steps
<1>2. /\ Counted' = Counted /\ Wanted' = Wanted /\ Source(verb') = Source(verb)
      /\ Destination(verb') = Destination(verb)
  BY <1>1, SameRanges
<1>3. at \in {"loop", "find"} /\ Point = at /\ at' = "pick" /\ up' = up
  BY DEF TakesPart, Loops, MoveIntoSlot, Goes, Point
<1>4. cursor = Empty /\ up = <<>> /\ view = slots
  BY <1>0, <1>3, NewsSeen DEF HandInv, CleanInv
<1>5. CleanInv' /\ DoneInv'
  BY <1>0, <1>1, <1>3, CleanGoes
<1>6. MovedInv'
  BY <1>3 DEF MovedInv, Point
<1>7. /\ slots[verb'.src].item = "a"
      /\ Counted => /\ slots[verb'.src].count > verb'.left /\ gained + verb'.left = Wanted
                    /\ slots[verb'.dst].item # "b"
                    /\ verb.before = Count(slots, Source(verb)) + gained
  <2>1. CASE TakesPart
    <3>1. PICK src : src = FindInRange(Source(verb))
      OBVIOUS
    <3>2. PICK dst : dst = FreeSlotInRange(Destination(verb))
      OBVIOUS
    <3>3. /\ at = "loop" /\ src # 0 /\ ~(view[src].count <= verb.remaining) /\ dst # 0
          /\ verb'.src = src /\ verb'.dst = dst /\ verb'.left = verb.remaining
      BY <1>0, <2>1, <3>1, <3>2 DEF TakesPart, Loops, IsWhole, VerbType
    <3>4. src \in Source(verb) /\ slots[src].item = "a"
      BY <1>0, <1>4, <3>1, <3>3, RangeFacts, FindFacts
    <3>5. slots[dst].item # "b"
      BY <1>0, <1>4, <3>2, <3>3, RangeFacts, FreeFacts
    <3>6. Counted /\ verb.dst = 0
      BY <3>3, <1>3 DEF PointInv
    <3>7. verb.remaining + gained = Wanted /\ gained = verb.before - Count(slots, Source(verb))
      BY <3>3, <3>6 DEF QuickInv
    <3>8. slots[src].count \in Nat
      <4>1. slots[src] \in Stacks /\ slots[src] # Empty
        BY <3>4, <1>0, RangeFacts DEF Windows, Empty
      <4> QED BY <4>1, StackFacts
    <3>9. slots[src].count > verb.remaining
      BY <3>3, <3>8, <1>4, WantedFacts
    <3>10. gained + verb.remaining = Wanted /\ verb.before = Count(slots, Source(verb)) + gained
      BY <3>7, WantedFacts
    <3> QED BY <3>3, <3>4, <3>5, <3>9, <3>10
  <2>2. CASE MoveIntoSlot
    <3>1. PICK src : src = FindInRange(PlayerRows)
      OBVIOUS
    <3>2. at = "find" /\ src # 0 /\ verb'.src = src
      BY <1>0, <2>2, <3>1 DEF MoveIntoSlot, Goes, VerbType
    <3>3. slots[src].item = "a"
      BY <1>0, <1>4, <3>1, <3>2, SlotFacts, FindFacts
    <3>4. ~Counted
      BY <3>2, <1>3 DEF PointInv, Counted
    <3> QED BY <3>2, <3>3, <3>4
  <2> QED BY <2>1, <2>2
<1>8. HandInv'
  <2>1. cursor' = Empty /\ slots'[verb'.src].item = "a"
    BY <1>1, <1>4, <1>7
  <2>2. Counted' => slots'[verb'.src].count > verb'.left /\ gained' + verb'.left = Wanted' /\ NoB'
    BY <1>1, <1>2, <1>7 DEF NoB
  <2>3. Counted' => verb'.before = Count(slots', Source(verb')) + gained' + Holds(cursor')
    <3>1. Holds(cursor') = 0
      BY <2>1 DEF Holds, Empty
    <3>2. SUFFICES ASSUME Counted PROVE verb.before = Count(slots, Source(verb)) + gained + 0
      BY <3>1, <1>1, <1>2 DEF SameVerb
    <3> QED BY <3>2, <1>7, WantedFacts
  <2> QED BY <1>3, <2>1, <2>2, <2>3 DEF HandInv, Point, Lifted, Laid
<1> QED BY <1>5, <1>6, <1>8 DEF PromptInv

\* Picked up, placed one by one, and the remainder put back.
LEMMA PromptPlaces ==
  ASSUME Typed, PointInv, NewsInv, PromptInv, PickUp \/ PlaceOne \/ PutBack
  PROVE  PromptInv'
<1>0. verb \in VerbType /\ CleanInv /\ HandInv
  BY DEF Typed, PromptInv
<1>1. SameVerb /\ UNCHANGED <<slots, cursor, down, view, verbs, gained, start>>
  BY StepsSame DEF theirs, Steps
<1>2. /\ Counted' = Counted /\ Wanted' = Wanted /\ Source(verb') = Source(verb)
      /\ Destination(verb') = Destination(verb)
  BY <1>1, SameRanges
<1>3. at \in {"pick", "place"} /\ Point = at
  BY DEF PickUp, PlaceOne, PutBack, Point
<1>4. /\ verb.src \in Slots /\ verb.dst \in Slots /\ verb.src # verb.dst
      /\ verb.button \in {0, 1}
  BY <1>0, <1>3, RangeFacts DEF PointInv, VerbType
<1>5. ASSUME Counted
      PROVE  verb.before = Count(slots', Source(verb')) + gained' + Holds(cursor')
  <2>1. verb.before = Count(slots, Source(verb)) + gained + Holds(cursor)
    BY <1>0, <1>3, <1>5 DEF HandInv
  <2> QED BY <2>1, <1>1, <1>2
<1>6. CASE PickUp
  <2>1. at = "pick" /\ Clicks("normal", verb.src, 0, "place", verb)
    BY <1>6 DEF PickUp
  <2>2. /\ CleanInv' /\ DoneInv' /\ at' = "pause" /\ verb' = [verb EXCEPT !.next = "place"]
        /\ verb'.next = "place" /\ up' # <<>> /\ up'[1].slot = verb.src
    <3>1. at \notin {"pause", "rest"}
      BY <2>1
    <3> QED BY <2>1, <3>1, <1>0, <1>4, CleanClicks
  <2>3. verb'.src = verb.src /\ verb'.dst = verb.dst /\ verb'.left = verb.left
    BY <2>2, <1>0 DEF VerbType
  <2>4. /\ cursor = Empty /\ slots[verb.src].item = "a"
        /\ Counted => slots[verb.src].count > verb.left /\ gained + verb.left = Wanted /\ NoB
    BY <2>1, <1>0 DEF HandInv, Lifting
  <2>5. /\ cursor' = Empty /\ slots'[verb'.src].item = "a"
        /\ Counted' => slots'[verb'.src].count > verb'.left /\ gained' + verb'.left = Wanted' /\ NoB'
    BY <2>3, <2>4, <1>1, <1>2 DEF NoB
  <2>6. Lifting' /\ ~Lifted' /\ ~Laid' /\ Point' = "place"
    BY <2>2, <2>3 DEF Lifting, Lifted, Laid, Point
  <2>7. HandInv'
    BY <2>2, <2>5, <2>6, <1>1, <1>2, <1>5 DEF HandInv, SameVerb
  <2>8. MovedInv'
    BY <2>6 DEF MovedInv
  <2> QED BY <2>2, <2>7, <2>8 DEF PromptInv
<1>7. CASE PlaceOne
  <2>1. PICK rec \in VerbType : rec = [verb EXCEPT !.left = @ - 1] /\ verb.left > 0
    <3>1. at = "place" /\ verb.left > 0
      BY <1>7 DEF PlaceOne
    <3>2. verb.left \in Nat
      BY <1>0 DEF VerbType
    <3>3. verb.left - 1 \in Nat
      BY <3>1, <3>2
    <3>4. [verb EXCEPT !.left = @ - 1] \in VerbType
      BY <3>3, <1>0 DEF VerbType
    <3> QED BY <3>1, <3>4
  <2>2. at = "place" /\ Clicks("normal", verb.dst, verb.button, "place", rec)
    BY <1>7, <2>1 DEF PlaceOne
  <2>3. /\ rec.src = verb.src /\ rec.dst = verb.dst /\ rec.button = verb.button
        /\ rec.left = verb.left - 1
    BY <1>0, <2>1 DEF VerbType
  <2>4. /\ CleanInv' /\ DoneInv' /\ at' = "pause" /\ verb' = [rec EXCEPT !.next = "place"]
        /\ verb'.next = "place" /\ up' # <<>> /\ up'[1].slot = verb.dst
    <3>1. at \notin {"pause", "rest"}
      BY <2>2
    <3> QED BY <2>2, <2>3, <3>1, <1>0, <1>4, CleanClicks
  <2>5. verb'.src = verb.src /\ verb'.dst = verb.dst /\ verb'.left = verb.left - 1
    BY <2>3, <2>4 DEF VerbType
  <2>6. Lifted /\ Pending = 0
    BY <2>2 DEF Lifted, Pending
  <2>7. ~Lifting' /\ Lifted' /\ ~Laid' /\ Point' = "place" /\ Pending' = 1
    BY <2>4, <2>5, <1>4 DEF Lifting, Lifted, Laid, Point, Pending
  <2>8. /\ slots[verb.src] = Empty
        /\ Counted =>
             /\ cursor.item = "a" /\ cursor.count > verb.left + 0 /\ NoB
             /\ gained + verb.left + 0 = Wanted \/ NoRoom
    BY <2>6, <1>0 DEF HandInv, InHand
  <2>9. Counted =>
          /\ cursor.count > (verb.left - 1) + 1
          /\ gained + (verb.left - 1) + 1 = Wanted \/ NoRoom
    BY <2>8, WantedFacts
  <2>10. InHand'
    BY <2>5, <2>7, <2>8, <2>9, <1>1, <1>2 DEF InHand, NoB, NoRoom
  <2>11. HandInv'
    BY <2>4, <2>7, <2>10, <1>1, <1>2, <1>5 DEF HandInv, SameVerb
  <2>12. MovedInv'
    BY <2>7 DEF MovedInv
  <2> QED BY <2>4, <2>11, <2>12 DEF PromptInv
<1>8. CASE PutBack
  <2>1. at = "place" /\ verb.left <= 0 /\ Clicks("normal", verb.src, 0, "placed", verb)
    BY <1>8 DEF PutBack
  <2>2. /\ CleanInv' /\ DoneInv' /\ at' = "pause" /\ verb' = [verb EXCEPT !.next = "placed"]
        /\ verb'.next = "placed" /\ up' # <<>> /\ up'[1].slot = verb.src
    <3>1. at \notin {"pause", "rest"}
      BY <2>1
    <3> QED BY <2>1, <3>1, <1>0, <1>4, CleanClicks
  <2>3. verb'.src = verb.src /\ verb'.dst = verb.dst /\ verb'.left = verb.left /\ verb.left = 0
    BY <2>1, <2>2, <1>0 DEF VerbType
  <2>4. Lifted /\ Pending = 0
    BY <2>1 DEF Lifted, Pending
  <2>5. ~Lifting' /\ Lifted' /\ ~Laid' /\ Point' = "placed" /\ Pending' = 0
    BY <2>2 DEF Lifting, Lifted, Laid, Point, Pending
  <2>6. InHand
    BY <2>4, <1>0 DEF HandInv
  <2>7. InHand'
    BY <2>3, <2>4, <2>5, <2>6, <1>1, <1>2 DEF InHand, NoB, NoRoom
  <2>8. HandInv'
    BY <2>2, <2>3, <2>5, <2>7, <1>1, <1>2, <1>5 DEF HandInv, SameVerb
  <2>9. MovedInv'
    BY <2>5 DEF MovedInv
  <2> QED BY <2>2, <2>8, <2>9 DEF PromptInv
<1> QED BY <1>6, <1>7, <1>8

\* A pause that the server kept up with.
LEMMA PromptPauses ==
  ASSUME Typed, PointInv, PromptInv, PauseEnds, calm' = "prompt"
  PROVE  PromptInv'
<1>1. /\ at = "pause" /\ at' = verb.next
      /\ UNCHANGED <<slots, cursor, up, down, view, verb, verbs, gained, start>>
  BY DEF PauseEnds, Goes, theirs
<1>2. up = <<>> /\ down = <<>>
  BY DEF PauseEnds, Typed
<1>3. at' \in {"counted", "place", "placed"} /\ Point = at' /\ Point' = at'
  BY <1>1 DEF PointInv, Point
<1>4. Counted' = Counted /\ Wanted' = Wanted /\ NoB' = NoB /\ NoRoom' = NoRoom
      /\ Emptied' = Emptied
  BY <1>1 DEF Counted, Wanted, NoB, NoRoom, Emptied
<1>5. CleanInv' /\ DoneInv'
  BY <1>1, <1>2, <1>3 DEF CleanInv, DoneInv
<1>6. ~Lifting' /\ (Lifted' => Lifted) /\ (Laid' => Laid) /\ Pending = 0 /\ Pending' = 0
  BY <1>1, <1>2, <1>3 DEF Lifting, Lifted, Laid, Pending
<1>7. InHand' = InHand
  BY <1>1, <1>4, <1>6 DEF InHand
<1>8. HandInv'
  BY <1>1, <1>3, <1>4, <1>6, <1>7 DEF PromptInv, HandInv
<1>9. MovedInv'
  BY <1>1, <1>2, <1>3, <1>4 DEF PromptInv, MovedInv
<1> QED BY <1>5, <1>8, <1>9 DEF PromptInv

\* Every step of a verb keeps what holds while the server keeps up.
LEMMA PromptSteps ==
  ASSUME Typed, PointInv, NewsInv, PromptInv, Counted /\ verb.dst = 0 => QuickInv,
         Steps \/ ContextEnds, calm' = "prompt"
  PROVE  PromptInv'
<1>1. FindsNothing \/ ContextEnds => PromptInv'
  BY PromptErrors DEF FindsNothing, ContextEnds
<1> QED BY <1>1, CountedReturns, PlacedReturns, AllReturns, PromptTakes, PromptChooses, PromptPlaces,
        PromptPauses DEF Steps

\* So does its beginning.
LEMMA PromptBegin ==
  ASSUME Typed, Calm => NewsInv, NEW v \in Verbs, Begin(v), calm' = "prompt"
  PROVE  PromptInv'
<1>1. /\ up' = <<>> /\ down' = <<>> /\ UNCHANGED slots /\ start' = slots /\ cursor' = Empty
      /\ verb'.reported = 0 /\ at' \in {"loop", "sweep", "find"}
  BY BeginFacts DEF Calm
<1>2. Emptied' = {}
  BY <1>1 DEF Emptied
<1>3. Cardinality(Emptied') = verb'.reported
  BY <1>1, <1>2, FS_EmptySet
<1>4. \A s \in PlayerRows : start'[s] = Empty => slots'[s] = Empty
  BY <1>1
<1>5. Point' = at'
  BY <1>1 DEF Point
<1> QED BY <1>1, <1>3, <1>4, <1>5 DEF PromptInv, CleanInv, HandInv, MovedInv, DoneInv, Lifting, Lifted,
        Laid

-----------------------------------------------------------------------------
(* The invariant, and the theorems.                                        *)

\* The inductive invariant.
IInv == Typed /\ PointInv /\ (Calm => CalmInv) /\ (calm = "prompt" => PromptInv)

\* The invariant holds at first ...
LEMMA InitInv == Init => IInv
<1> SUFFICES ASSUME Init PROVE IInv
  OBVIOUS
<1>1. slots \in Windows
  BY TransfersAssumption DEF Init, Windows
<1>2. verb = NoVerb /\ NoVerb \in VerbType
  <2>1. 1 \in OwnSlots /\ 0 \in 0..MaxStackMoves
    BY TransfersAssumption DEF OwnSlots
  <2> QED BY <2>1 DEF Init, NoVerb, VerbType
<1>3. Typed
  BY <1>1, <1>2, StackFacts DEF Init, Typed, Points
<1>4. /\ at = "rest" /\ verb.kind = "none" /\ verb.dst = 0 /\ verb.result = "none"
      /\ Point = "rest"
  BY <1>2 DEF Init, NoVerb, Point
<1>5. PointInv
  BY <1>4 DEF PointInv
<1>6. NewsInv
  <2>1. Len(up) = 0 /\ Len(down) = 0 /\ view = slots
    BY DEF Init
  <2> QED BY <2>1 DEF NewsInv
<1>7. CalmInv
  BY <1>4, <1>6 DEF CalmInv, Counted
<1>8. PromptInv
  BY <1>4 DEF PromptInv, CleanInv, HandInv, MovedInv, DoneInv, Lifting, Lifted, Laid
<1> QED BY <1>3, <1>5, <1>7, <1>8 DEF IInv

\* ... and after every step.
LEMMA NextInv == IInv /\ [Next]_vars => IInv'
<1> SUFFICES ASSUME IInv, [Next]_vars PROVE IInv'
  OBVIOUS
<1>0. Typed /\ PointInv /\ (Calm => CalmInv) /\ (calm = "prompt" => PromptInv)
  BY DEF IInv
<1>1. Calm /\ Counted /\ verb.dst = 0 => QuickInv
  BY <1>0 DEF CalmInv
<1>2. CASE Steps \/ ContextEnds
  <2>1. Typed' /\ PointInv'
    BY <1>0, <1>2, TypedSteps, PointSteps
  <2>2. (Calm' => Calm) /\ (calm' = "prompt" => calm = "prompt")
    BY <1>2 DEF Steps, ContextEnds, StopsMoving, TakesWhole, TakesPart, HasNoRoom, TakeFromContainer,
           StackGone, Stalled, PickUp, PlaceOne, PutBack, Placed, FindsNothing, MoveIntoSlot, Sweeps,
           Swept, StackLeft, StackStayed, PauseEnds, Returns, Clicks, Calm
  <2>3. Calm' => CalmInv'
    BY <2>1, <2>2, <1>0, <1>2, CalmSteps
  <2>4. calm' = "prompt" => PromptInv'
    <3> SUFFICES ASSUME calm' = "prompt" PROVE PromptInv'
      OBVIOUS
    <3>1. Calm /\ NewsInv /\ PromptInv
      BY <2>2, <1>0 DEF Calm, CalmInv
    <3> QED BY <3>1, <1>0, <1>1, <1>2, PromptSteps
  <2> QED BY <2>1, <2>3, <2>4 DEF IInv
<1>3. ASSUME NEW v \in Verbs, Begin(v) PROVE IInv'
  <2>1. Typed' /\ PointInv'
    BY <1>0, <1>3, TypedBegin, PointBegin
  <2>2. Calm => NewsInv
    BY <1>0 DEF CalmInv
  <2>3. Calm' => CalmInv'
    BY <2>2, <1>0, <1>3, CalmBegin
  <2>4. calm' = "prompt" => PromptInv'
    BY <2>2, <1>0, <1>3, PromptBegin
  <2> QED BY <2>1, <2>3, <2>4 DEF IInv
<1>4. CASE ServerTakesClick
  <2>1. UNCHANGED <<view, at, verb, verbs, calm, start>>
    BY <1>4 DEF ServerTakesClick
  <2>2. Typed' /\ PointInv'
    BY <2>1, <1>0, <1>4, TypedServer, PointOthers
  <2>3. Calm' => CalmInv'
    BY <2>1, <2>2, <1>0, <1>4, CalmServer DEF Calm
  <2>4. calm' = "prompt" => PromptInv'
    <3> SUFFICES ASSUME calm' = "prompt" PROVE PromptInv'
      OBVIOUS
    <3>1. Calm /\ PromptInv /\ NewsInv
      BY <2>1, <1>0 DEF Calm, CalmInv
    <3>2. ServesStale \/ ServesQuick \/ ServesNormal
      BY <3>1, <1>0, <1>4, ServerFacts
    <3> QED BY <3>1, <3>2, <2>2, <1>0, <1>1, PromptServer
  <2> QED BY <2>2, <2>3, <2>4 DEF IInv
<1>5. CASE TakeNews
  <2>1. UNCHANGED <<slots, cursor, up, at, verb, verbs, calm, gained, start>>
    BY <1>5 DEF TakeNews
  <2>2. Typed' /\ PointInv'
    BY <2>1, <1>0, <1>5, TypedNews, PointOthers
  <2>3. Calm' => CalmInv'
    BY <2>1, <2>2, <1>0, <1>5, CalmNews DEF Calm
  <2>4. calm' = "prompt" => PromptInv'
    BY <2>1, <1>0, <1>5, PromptNews
  <2> QED BY <2>2, <2>3, <2>4 DEF IInv
<1>6. CASE OthersMove
  <2>1. UNCHANGED <<at, verb>> /\ calm' = "disturbed"
    BY <1>6 DEF OthersMove
  <2>2. Typed' /\ PointInv'
    BY <2>1, <1>0, <1>6, TypedOthers, PointOthers
  <2> QED BY <2>1, <2>2 DEF IInv, Calm
<1>7. CASE UNCHANGED vars
  <2>0. UNCHANGED <<slots, cursor, up, down, view, at, verb, verbs, calm, gained, start>>
    BY <1>7 DEF vars
  <2>1. Typed' /\ PointInv'
    BY <2>0, <1>0, PointOthers DEF Typed
  <2>2. /\ Counted' = Counted /\ Wanted' = Wanted /\ Point' = Point /\ NoB' = NoB /\ Seen' = Seen
        /\ Good' = Good /\ Cap' = Cap /\ NoRoom' = NoRoom /\ Emptied' = Emptied
    BY <2>0 DEF Counted, Wanted, Point, NoB, Seen, Good, Cap, NoRoom, Emptied
  <2>3. CalmInv => CalmInv'
    <3>1. (NewsInv => NewsInv') /\ (QuickInv => QuickInv') /\ (IdleInv => IdleInv')
      BY <2>0, <2>2 DEF NewsInv, QuickInv, Promising, IdleInv
    <3>2. PartInv => PartInv'
      <4>1. OnTheWay' = OnTheWay /\ Promised' = Promised
        BY <2>0 DEF OnTheWay, Promised
      <4> QED BY <4>1, <2>0, <2>2 DEF PartInv
    <3> QED BY <3>1, <3>2, <2>0, <2>2 DEF CalmInv
  <2>4. PromptInv => PromptInv'
    <3>1. CleanInv => CleanInv'
      BY <2>0 DEF CleanInv
    <3>2. /\ Lifting' = Lifting /\ Lifted' = Lifted /\ Laid' = Laid /\ Pending' = Pending
      BY <2>0 DEF Lifting, Lifted, Laid, Pending
    <3>3. InHand' = InHand
      BY <3>2, <2>0, <2>2 DEF InHand
    <3>4. HandInv => HandInv'
      BY <3>2, <3>3, <2>0, <2>2 DEF HandInv
    <3>5. (MovedInv => MovedInv') /\ (DoneInv => DoneInv')
      BY <2>0, <2>2 DEF MovedInv, DoneInv, Done
    <3> QED BY <3>1, <3>4, <3>5 DEF PromptInv
  <2> QED BY <2>0, <2>1, <2>3, <2>4, <1>0 DEF IInv, Calm
<1> QED BY <1>2, <1>3, <1>4, <1>5, <1>6, <1>7 DEF Next

\* It bounds what a verb moves, ...
LEMMA InvAsked == IInv => NeverMoreThanAsked
<1> SUFFICES ASSUME IInv, Calm PROVE (Counted => gained <= Wanted)
                       /\ (verb.kind = "one" /\ start[verb.slot].item # "b" => gained <= 1)
  BY DEF NeverMoreThanAsked, Calm
<1>1. CalmInv
  BY DEF IInv
<1>2. Counted => gained <= Wanted
  BY <1>1 DEF CalmInv, QuickInv, PartInv, Good, Cap
<1>3. verb.kind = "one" /\ start[verb.slot].item # "b" => gained <= 1
  <2>1. verb.kind = "one" => ~Counted
    BY DEF Counted
  <2> QED BY <2>1, <1>1 DEF CalmInv, IdleInv, PartInv, Good, Cap
<1> QED BY <1>2, <1>3

\* ... and makes what it reports true ...
LEMMA InvReport == IInv => ReportIsTrue
BY DEF IInv, PromptInv, DoneInv, Done, ReportIsTrue, Returned, Emptied

\* ... and what falls short explained.
LEMMA InvShort == IInv => ShortOnlyWhenFull
BY DEF IInv, PromptInv, DoneInv, Done, ShortOnlyWhenFull, Returned, Full, NoRoom

\* The server's window, the client's copy, the clicks, the news and the verb keep
\* their types, however late the answers and whoever interferes, and no verb goes
\* round its loop more than maxStackMoves times.
THEOREM TypeCorrect == Spec => []Typed
<1>1. IInv => Typed
  BY DEF IInv
<1> QED BY <1>1, InitInv, NextInv, PTL DEF Spec

\* The invariant of every verb, quiet, late or disturbed: the one the three
\* promises below follow from.
THEOREM EverythingAccountedFor == Spec => []IInv
BY InitInv, NextInv, PTL DEF Spec

\* A transfer never moves more than it was asked for, and PutOneIntoSlot never
\* more than one into a slot that could take it, though clicks and news be late,
\* the context end in the middle or an earlier verb have left a stack on the
\* cursor (storage.go, transfer and placeOneByOne; slots.go, PutOneIntoSlot).
THEOREM NeverMoreThanAskedAlways == Spec => []NeverMoreThanAsked
BY EverythingAccountedFor, InvAsked, PTL

\* While the server keeps up and nobody interferes, a verb that returns without
\* an error leaves nothing on the cursor and reports what it moved: transfer the
\* items the destination gained, DepositAll the rows it emptied.
THEOREM ReportIsTrueAlways == Spec => []ReportIsTrue
BY EverythingAccountedFor, InvReport, PTL

\* Then too, a transfer is short only where the destination, or the one slot
\* chosen for a part of a stack, takes no more, or after maxStackMoves.
THEOREM ShortOnlyWhenFullAlways == Spec => []ShortOnlyWhenFull
BY EverythingAccountedFor, InvShort, PTL

-----------------------------------------------------------------------------
(* How long a verb goes on.                                                *)

\* The steps a verb may still take: four for each turn of its loop that is left, two for
\* each item it still has to place, and those of the point it is at.
StepsFrom(point) ==
  LET turns == 4 * (MaxStackMoves - verb.moves) + 2 * MaxStack + 1 IN
  CASE point \in {"loop", "sweep"} -> turns
    [] point = "take" -> turns + 3
    [] point = "counted" -> turns + 1
    [] point = "find" -> 9
    [] point = "pick" -> 2 * verb.left + 6
    [] point = "place" -> 2 * verb.left + 4
    [] point = "placed" -> 1
    [] OTHER -> 0
StepsLeft == StepsFrom(Point) + (IF at = "pause" THEN 1 ELSE 0)

\* A step of a verb leaves it fewer, nobody else changes them, and it begins with so many.
StepsRunOut ==
  /\ StepsLeft \in Nat
  /\ Steps \/ ContextEnds => StepsLeft' < StepsLeft
  /\ ServerTakesClick \/ TakeNews \/ OthersMove => StepsLeft' = StepsLeft
  /\ (\E v \in Verbs : Begin(v)) => StepsLeft' <= 4 * MaxStackMoves + 2 * MaxStack + 9

\* They are a natural number, and none only at rest.
LEMMA StepsLeftType == ASSUME Typed, PointInv PROVE StepsLeft \in Nat /\ (at # "rest" => StepsLeft > 0)
<1>1. PICK n \in Nat, m \in Nat, k \in Nat, l \in Nat :
        n = MaxStackMoves /\ m = verb.moves /\ m <= n /\ k = MaxStack /\ l = verb.left
  <2>1. MaxStackMoves \in Nat /\ MaxStack \in Nat
    BY TransfersAssumption
  <2>2. verb.moves \in 0..MaxStackMoves /\ verb.left \in Nat
    BY DEF Typed, VerbType
  <2>3. verb.moves \in Nat /\ verb.moves <= MaxStackMoves
    BY <2>1, <2>2
  <2> QED BY <2>1, <2>2, <2>3
<1>2. /\ 4 * (n - m) + 2 * k + 1 \in Nat /\ 4 * (n - m) + 2 * k + 1 > 0
      /\ 2 * l + 6 \in Nat /\ 2 * l + 4 \in Nat
  BY <1>1
<1>3. at \in Points /\ (at = "pause" => Point \in {"counted", "place", "placed"})
      /\ (at # "pause" => Point = at)
  BY DEF Typed, PointInv, Point
<1>4. PICK t \in Nat : t = 4 * (MaxStackMoves - verb.moves) + 2 * MaxStack + 1 /\ t > 0
  BY <1>1, <1>2
<1>5. /\ StepsFrom("loop") = t /\ StepsFrom("sweep") = t /\ StepsFrom("take") = t + 3
      /\ StepsFrom("counted") = t + 1 /\ StepsFrom("find") = 9 /\ StepsFrom("pick") = 2 * l + 6
      /\ StepsFrom("place") = 2 * l + 4 /\ StepsFrom("placed") = 1 /\ StepsFrom("rest") = 0
  BY <1>1, <1>4 DEF StepsFrom
<1>6. CASE at = "pause"
  <2>1. StepsFrom(Point) \in Nat
    BY <1>2, <1>1, <1>3, <1>5, <1>6
  <2> QED BY <2>1, <1>6 DEF StepsLeft
<1>7. CASE at # "pause"
  <2>1. StepsLeft = StepsFrom(at) + 0
    BY <1>3, <1>7 DEF StepsLeft
  <2> QED BY <2>1, <1>1, <1>2, <1>3, <1>4, <1>5, <1>7 DEF Points
<1> QED BY <1>6, <1>7

\* Whatever the others do meanwhile, each step of a verb leaves it fewer.
LEMMA StepsLeftFewer ==
  ASSUME Typed, PointInv, Typed', PointInv', Steps \/ ContextEnds
  PROVE  StepsLeft' < StepsLeft
<1>0. verb \in VerbType
  BY DEF Typed
<1>1. PICK n \in Nat, m \in Nat, k \in Nat, l \in Nat :
        n = MaxStackMoves /\ m = verb.moves /\ m <= n /\ k = MaxStack /\ l = verb.left
  <2>1. MaxStackMoves \in Nat /\ MaxStack \in Nat
    BY TransfersAssumption
  <2>2. verb.moves \in 0..MaxStackMoves /\ verb.left \in Nat
    BY DEF Typed, VerbType
  <2>3. verb.moves \in Nat /\ verb.moves <= MaxStackMoves
    BY <2>1, <2>2
  <2> QED BY <2>1, <2>2, <2>3
<1>2. StepsLeft \in Nat /\ (at # "rest" => StepsLeft > 0)
  BY StepsLeftType
<1>3. CASE \E result : Returns(result) /\ at # "rest"
  <2>1. StepsLeft' = 0
    BY <1>3 DEF Returns, StepsLeft, StepsFrom, Point
  <2> QED BY <2>1, <1>2, <1>3
<1>4. CASE TakesWhole \/ Sweeps
  <2>1. at \in {"loop", "sweep"} /\ at' = "take" /\ verb'.moves = m + 1
    BY <1>0, <1>1, <1>4 DEF TakesWhole, Loops, Sweeps, Goes, VerbType
  <2>2. StepsLeft = 4 * (n - m) + 2 * k + 1 /\ StepsLeft' = 4 * (n - (m + 1)) + 2 * k + 1 + 3
    <3>1. StepsLeft = 4 * (n - m) + 2 * k + 1 + 0
      BY <2>1, <1>1 DEF StepsLeft, StepsFrom, Point
    <3>2. StepsLeft' = 4 * (n - (m + 1)) + 2 * k + 1 + 3 + 0
      BY <2>1, <1>1 DEF StepsLeft, StepsFrom, Point
    <3> QED BY <3>1, <3>2
  <2> QED BY <2>2
<1>5. CASE TakesPart
  <2>1. PICK src : src = FindInRange(Source(verb))
    OBVIOUS
  <2>2. /\ at = "loop" /\ at' = "pick" /\ verb'.left = verb.remaining
        /\ m < n /\ src # 0 /\ ~(view[src].count <= verb.remaining)
    BY <1>0, <1>1, <1>5, <2>1 DEF TakesPart, Loops, Moves, IsWhole, VerbType
  <2>3. src \in Source(verb) /\ view[src].item = "a"
    BY <1>0, <2>1, <2>2, RangeFacts, FindFacts DEF Typed
  <2>4. view[src].count \in Nat /\ view[src].count <= k
    <3>1. view[src] \in Stacks /\ view[src] # Empty
      BY <1>0, <2>3, RangeFacts DEF Typed, Windows, Empty
    <3>2. view[src].count \in 1..MaxStack
      BY <3>1, StackFacts
    <3> QED BY <3>2, <1>1
  <2>5. PICK r \in Nat : r = verb'.left /\ r < k
    <3>1. verb'.left \in Nat
      BY DEF Typed, VerbType
    <3> QED BY <3>1, <2>2, <2>4
  <2>6. StepsLeft = 4 * (n - m) + 2 * k + 1 + 0
    BY <2>2, <1>1 DEF StepsLeft, StepsFrom, Point
  <2>7. StepsLeft' = 2 * r + 6 + 0
    BY <2>2, <2>5 DEF StepsLeft, StepsFrom, Point
  <2> QED BY <2>2, <2>5, <2>6, <2>7
<1>6. CASE TakeFromContainer
  <2>1. at = "take" /\ at' = "pause" /\ verb'.next = "counted" /\ verb'.moves = m
    BY <1>0, <1>1, <1>6 DEF TakeFromContainer, Clicks, VerbType
  <2>2. StepsLeft = 4 * (n - m) + 2 * k + 1 + 3 + 0
    BY <2>1, <1>1 DEF StepsLeft, StepsFrom, Point
  <2>3. StepsLeft' = 4 * (n - m) + 2 * k + 1 + 1 + 1
    BY <2>1, <1>1 DEF StepsLeft, StepsFrom, Point
  <2> QED BY <2>2, <2>3
<1>7. CASE StackGone \/ StackLeft
  <2>1. at = "counted" /\ at' \in {"loop", "sweep"} /\ verb'.moves = m
    BY <1>0, <1>1, <1>7 DEF StackGone, StackLeft, Goes, VerbType
  <2>2. StepsLeft = 4 * (n - m) + 2 * k + 1 + 1 + 0
    BY <2>1, <1>1 DEF StepsLeft, StepsFrom, Point
  <2>3. StepsLeft' = 4 * (n - m) + 2 * k + 1 + 0
    BY <2>1, <1>1 DEF StepsLeft, StepsFrom, Point
  <2> QED BY <2>2, <2>3
<1>8. CASE PickUp
  <2>1. at = "pick" /\ at' = "pause" /\ verb'.next = "place" /\ verb'.left = l
    BY <1>0, <1>1, <1>8 DEF PickUp, Clicks, VerbType
  <2>2. StepsLeft = 2 * l + 6 + 0 /\ StepsLeft' = 2 * l + 4 + 1
    BY <2>1, <1>1 DEF StepsLeft, StepsFrom, Point
  <2> QED BY <2>2
<1>9. CASE PlaceOne
  <2>1. at = "place" /\ at' = "pause" /\ verb'.next = "place" /\ verb'.left = l - 1
    BY <1>0, <1>1, <1>9 DEF PlaceOne, Clicks, VerbType
  <2>2. StepsLeft = 2 * l + 4 + 0 /\ StepsLeft' = 2 * (l - 1) + 4 + 1
    BY <2>1, <1>1 DEF StepsLeft, StepsFrom, Point
  <2> QED BY <2>2
<1>10. CASE PutBack
  <2>1. at = "place" /\ at' = "pause" /\ verb'.next = "placed"
    BY <1>0, <1>10 DEF PutBack, Clicks, VerbType
  <2>2. StepsLeft = 2 * l + 4 + 0 /\ StepsLeft' = 1 + 1
    BY <2>1, <1>1 DEF StepsLeft, StepsFrom, Point
  <2> QED BY <2>2
<1>11. CASE MoveIntoSlot
  <2>1. at = "find" /\ at' = "pick" /\ verb'.left = 1
    BY <1>0, <1>11 DEF MoveIntoSlot, Goes, VerbType
  <2>2. StepsLeft = 9 + 0 /\ StepsLeft' = 2 * 1 + 6 + 0
    BY <2>1 DEF StepsLeft, StepsFrom, Point
  <2> QED BY <2>2
<1>12. CASE PauseEnds
  <2>1. at = "pause" /\ at' = verb.next /\ verb' = verb
    BY <1>12 DEF PauseEnds, Goes
  <2>2. verb.next \in {"counted", "place", "placed"}
    BY <2>1 DEF PointInv
  <2>3. StepsLeft = StepsFrom(verb.next) + 1
    BY <2>1 DEF StepsLeft, Point
  <2>4. StepsLeft' = StepsFrom(verb.next) + 0
    BY <2>1, <2>2 DEF StepsLeft, Point, StepsFrom
  <2>5. PICK t \in Int : t = 4 * (n - m) + 2 * k + 1
    OBVIOUS
  <2>6. StepsFrom(verb.next) \in Int
    BY <2>2, <1>1, <2>5 DEF StepsFrom
  <2> QED BY <2>3, <2>4, <2>6
<1>13. Steps \/ ContextEnds =>
         \/ \E result : Returns(result) /\ at # "rest"
         \/ TakesWhole \/ TakesPart \/ TakeFromContainer \/ StackGone
         \/ PickUp \/ PlaceOne \/ PutBack \/ MoveIntoSlot \/ Sweeps \/ StackLeft \/ PauseEnds
  BY DEF Steps, ContextEnds, StopsMoving, HasNoRoom, Loops, Stalled, Placed, FindsNothing, Swept,
         StackStayed
<1> QED BY <1>3, <1>4, <1>5, <1>6, <1>7, <1>8, <1>9, <1>10, <1>11, <1>12, <1>13

\* A verb begins with no more than these.
LEMMA StepsLeftBegin ==
  ASSUME Typed, NEW v \in Verbs, Begin(v)
  PROVE  StepsLeft' <= 4 * MaxStackMoves + 2 * MaxStack + 9
<1>1. at' \in {"loop", "sweep", "find"} /\ verb'.moves = 0
  BY DEF Begin, NoVerb
<1>2. PICK n \in Nat, k \in Nat : n = MaxStackMoves /\ k = MaxStack
  BY TransfersAssumption
<1>3. StepsLeft' = 4 * (n - 0) + 2 * k + 1 + 0 \/ StepsLeft' = 9 + 0
  BY <1>1, <1>2 DEF StepsLeft, StepsFrom, Point
<1> QED BY <1>2, <1>3

\* No verb takes more steps than four for each of maxStackMoves turns, two for each item of
\* a stack and nine, whatever the server, the news and others do meanwhile: each step of its
\* goroutine leaves it fewer, and nobody else gives it any.
THEOREM StepsRunOutAlways == Spec => [][StepsRunOut]_vars
<1>1. IInv /\ IInv' /\ [Next]_vars => [StepsRunOut]_vars
  <2> SUFFICES ASSUME IInv, IInv', Next PROVE StepsRunOut
    OBVIOUS
  <2>1. Typed /\ PointInv /\ Typed' /\ PointInv'
    BY DEF IInv
  <2>2. StepsLeft \in Nat
    BY <2>1, StepsLeftType
  <2>3. Steps \/ ContextEnds => StepsLeft' < StepsLeft
    BY <2>1, StepsLeftFewer
  <2>4. ServerTakesClick \/ TakeNews \/ OthersMove => StepsLeft' = StepsLeft
    <3>1. ServerTakesClick \/ TakeNews \/ OthersMove => UNCHANGED <<at, verb>>
      BY DEF ServerTakesClick, TakeNews, OthersMove
    <3> QED BY <3>1 DEF StepsLeft, StepsFrom, Point
  <2>5. (\E v \in Verbs : Begin(v)) => StepsLeft' <= 4 * MaxStackMoves + 2 * MaxStack + 9
    BY <2>1, StepsLeftBegin
  <2> QED BY <2>2, <2>3, <2>4, <2>5 DEF StepsRunOut
<1> QED BY <1>1, EverythingAccountedFor, NextInv, PTL DEF Spec
=============================================================================
