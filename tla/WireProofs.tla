----------------------------- MODULE WireProofs -----------------------------
(***************************************************************************)
(* That the frames of two goroutines are never spliced, and that either    *)
(* direction of Wire is a PacketChannel: what is read is what was sent,    *)
(* once and in order.  Both for every base, every width of a VarInt and of *)
(* a packet, every threshold, conversation and fault.                      *)
(*                                                                         *)
(* NoSplice says nothing of a frame half written.  The induction needs     *)
(* what ties the wire to its writers: who writes holds writeMu (Exclusive),*)
(* what a writer has left is the end of one frame (Remainders), and the    *)
(* wire ends where the remainder of its holder begins (Continues) or, when *)
(* nobody is in the middle of a frame, at the end of one (Complete).  A    *)
(* write that failed leaves half a frame behind for good: from then on the *)
(* socket takes no byte, so the last two are stated of a live one.         *)
(*                                                                         *)
(* Reading is exact because ReadVarInt undoes AppendVarInt, which is       *)
(* proved of the recursive functions of Wire from the least number at      *)
(* which they would fail, and because a frame is exactly the front of the  *)
(* bytes it begins.  The invariant of a connection is CInv.                *)
(***************************************************************************)
EXTENDS Wire, FiniteSetTheorems, WellFoundedInduction, TLAPS

-----------------------------------------------------------------------------
(* That frames are never spliced.                                          *)


Points == {"encode", "lock", "write", "packs", "read", "joined", "failed", "stop", "wait",
           "ended", "none"}

Sequential == \E S : up \in Seq(S) /\ \A w \in Writers : rest[w] \in Seq(S)

Typed ==
  /\ at \in [Writers -> Points] /\ writeMu \in Writers \cup {"free"}
  /\ DOMAIN rest = Writers /\ rest = [w \in Writers |-> rest[w]]

Exclusive == \A w \in Writers : at[w] = "write" <=> writeMu = w

EndOfFrame(w, bytes) ==
  \A i \in 1..Len(bytes) :
    /\ bytes[i].by = w /\ bytes[i].of \in Nat /\ bytes[i].of = bytes[1].of
    /\ bytes[i].index = bytes[i].of - Len(bytes) + i

Remainders ==
  \A w \in Writers :
    /\ EndOfFrame(w, rest[w])
    /\ at[w] = "lock" /\ rest[w] # <<>> => rest[w][1].index = 1

Live == open /\ server # "closed"

Follows(a, b) ==
  IF a.index = a.of THEN b.index = 1
  ELSE b.by = a.by /\ b.of = a.of /\ b.index = a.index + 1

Continues ==
  Live /\ up # <<>> =>
    \A w \in Writers : at[w] = "write" /\ rest[w] # <<>> => Follows(up[Len(up)], rest[w][1])

Complete ==
  Live /\ up # <<>> /\ (\A w \in Writers : at[w] = "write" => rest[w] = <<>>)
    => up[Len(up)].index = up[Len(up)].of

Contiguous == \A i \in 1..(Len(up) - 1) : Follows(up[i], up[i + 1])

WInv ==
  Sequential /\ Typed /\ Exclusive /\ Remainders /\ Continues /\ Complete /\ Contiguous

-----------------------------------------------------------------------------
(* Frames are sequences, whatever they hold.                               *)

LEMMA VarIntLenType == ASSUME NEW v PROVE VarIntLen(v) \in Nat
<1> DEFINE T == {n \in 0..(MaxVarIntBytes - 1) : n = 0 \/ Shifted(v)[n] # 0}
<1>1. IsFiniteSet(0..(MaxVarIntBytes - 1)) BY WireAssumption, FS_Interval
<1>2. T \subseteq 0..(MaxVarIntBytes - 1) OBVIOUS
<1>3. IsFiniteSet(T) BY <1>1, <1>2, FS_Subset
<1>4. Cardinality(T) \in Nat BY <1>3, FS_CardinalityType
<1> QED BY <1>4 DEF VarIntLen

LEMMA AppendVarIntType == ASSUME NEW v PROVE \E S : AppendVarInt(v) \in Seq(S)
<1> DEFINE e(i) == Number((Shifted(v)[i - 1] % Base) + (IF i < VarIntLen(v) THEN Base ELSE 0))
           S == {e(i) : i \in 1..VarIntLen(v)}
<1>1. AppendVarInt(v) = [i \in 1..VarIntLen(v) |-> e(i)] BY DEF AppendVarInt
<1> HIDE DEF e
<1>2. AppendVarInt(v) \in [1..VarIntLen(v) -> S] BY <1>1
<1>3. VarIntLen(v) \in Nat BY VarIntLenType
<1>4. AppendVarInt(v) \in Seq(S) BY <1>2, <1>3
<1> QED BY <1>4

LEMMA PayloadType == ASSUME NEW p PROVE \E S : Payload(p) \in Seq(S)
<1> DEFINE S == {[kind |-> "payload", value |-> i, packet |-> p] : i \in 1..Size(p)}
<1>1. Size(p) \in Nat BY DEF Size
<1>2. Payload(p) \in [1..Size(p) -> S] BY DEF Payload
<1>3. Payload(p) \in Seq(S) BY <1>1, <1>2
<1> QED BY <1>3

LEMMA ConcatType ==
  ASSUME NEW a, NEW b, \E S : a \in Seq(S), \E S : b \in Seq(S)
  PROVE  \E S : a \o b \in Seq(S)
<1> PICK S : a \in Seq(S) OBVIOUS
<1> PICK T : b \in Seq(T) OBVIOUS
<1>1. a \in Seq(S \cup T) OBVIOUS
<1>2. b \in Seq(S \cup T) OBVIOUS
<1>3. a \o b \in Seq(S \cup T) BY <1>1, <1>2
<1> QED BY <1>3

LEMMA FramedType ==
  ASSUME NEW p, NEW t PROVE \E S : Framed(EncodeFrame(p, t)) \in Seq(S)
<1>1. \E S : Zlib(p) \in Seq(S)
  <2>1. Zlib(p) \in Seq({Zlib(p)[1]}) BY DEF Zlib
  <2> QED BY <2>1
<1>2. \E S : AppendVarInt(0) \o Payload(p) \in Seq(S)
  BY AppendVarIntType, PayloadType, ConcatType
<1>3. \E S : AppendVarInt(Size(p)) \o Zlib(p) \in Seq(S)
  BY <1>1, AppendVarIntType, ConcatType
<1>4. \E S : EncodeFrame(p, t) \in Seq(S)
  BY <1>2, <1>3, PayloadType DEF EncodeFrame
<1> QED BY <1>4, AppendVarIntType, ConcatType DEF Framed

\* The bytes of a frame, labelled, are the end of it that is all of it.
LEMMA LabelledType ==
  ASSUME NEW w, NEW f, NEW S, f \in Seq(S)
  PROVE  /\ \E T : Labelled(w, f) \in Seq(T)
         /\ EndOfFrame(w, Labelled(w, f))
         /\ Labelled(w, f) # <<>> => Labelled(w, f)[1].index = 1
<1> DEFINE L == Labelled(w, f)
           e(i) == [kind |-> f[i].kind, value |-> f[i].value, packet |-> f[i].packet,
                    by |-> w, index |-> i, of |-> Len(f)]
           T == {e(i) : i \in 1..Len(f)}
<1>1. Len(f) \in Nat OBVIOUS
<1>2. L = [i \in 1..Len(f) |-> e(i)] BY DEF Labelled
<1>3. \A i \in 1..Len(f) : L[i].by = w /\ L[i].index = i /\ L[i].of = Len(f) BY <1>2
<1> HIDE DEF e, L
<1>4. L \in [1..Len(f) -> T] BY <1>2
<1>5. L \in Seq(T) /\ Len(L) = Len(f) BY <1>1, <1>4
<1>6. EndOfFrame(w, L) BY <1>1, <1>3, <1>5 DEF EndOfFrame
<1>7. L # <<>> => L[1].index = 1 BY <1>1, <1>3, <1>5
<1> QED BY <1>5, <1>6, <1>7 DEF L

-----------------------------------------------------------------------------
(* The steps.                                                              *)

LEMMA InitWInv == Init => WInv
<1> SUFFICES ASSUME Init PROVE WInv OBVIOUS
<1>1. up = <<>> /\ \A w \in Writers : rest[w] = <<>> BY DEF Init
<1>2. Sequential
  <2>1. up \in Seq({}) /\ \A w \in Writers : rest[w] \in Seq({})
    <3>1. <<>> \in Seq({}) OBVIOUS
    <3> QED BY <1>1, <3>1
  <2> QED BY <2>1 DEF Sequential
<1>3. Typed BY DEF Typed, Init, Points, Writers
<1>4. Exclusive BY DEF Exclusive, Init, Writers
<1>5. Remainders BY <1>1 DEF Remainders, EndOfFrame
<1>6. Continues /\ Complete /\ Contiguous BY <1>1 DEF Continues, Complete, Contiguous
<1> QED BY <1>2, <1>3, <1>4, <1>5, <1>6 DEF WInv

\* A step that neither writes nor takes or leaves the lock.
Quiet ==
  /\ UNCHANGED <<writeMu, rest, up>>
  /\ at' \in [Writers -> Points]
  /\ \A w \in Writers : /\ at'[w] = "write" <=> at[w] = "write"
                        /\ at'[w] = "lock" => at[w] = "lock"
  /\ Live' => Live

LEMMA QuietWInv == WInv /\ Quiet => WInv'
<1> SUFFICES ASSUME WInv, Quiet PROVE WInv' OBVIOUS
<1> USE DEF WInv, Quiet
<1>1. Sequential' BY DEF Sequential
<1>2. Typed' BY DEF Typed
<1>3. Exclusive' BY DEF Exclusive
<1>4. Remainders' BY DEF Remainders, EndOfFrame
<1>5. Continues' BY DEF Continues, Follows
<1>6. Complete' BY DEF Complete
<1>7. Contiguous' BY DEF Contiguous, Follows
<1> QED BY <1>1, <1>2, <1>3, <1>4, <1>5, <1>6, <1>7

LEMMA EncodeWInv == ASSUME NEW w \in Writers, WInv, Encode(w) PROVE WInv'
<1> DEFINE f == Framed(EncodeFrame(job[w], threshold))
<1>1. PICK F : f \in Seq(F) BY FramedType
<1>2. /\ \E T : Labelled(w, f) \in Seq(T)
      /\ EndOfFrame(w, Labelled(w, f))
      /\ Labelled(w, f) # <<>> => Labelled(w, f)[1].index = 1
  BY <1>1, LabelledType
<1>3. rest' = [rest EXCEPT ![w] = Labelled(w, f)] BY DEF Encode
<1> HIDE DEF f
<1>4. /\ at[w] = "encode" /\ at' = [at EXCEPT ![w] = "lock"]
      /\ up' = up /\ writeMu' = writeMu /\ Live' = Live
  BY DEF Encode, Go, conn, theirs, Live
<1>5. Typed BY DEF WInv
<1>6. rest'[w] = Labelled(w, f) /\ \A v \in Writers \ {w} : rest'[v] = rest[v]
  BY <1>3, <1>5 DEF Typed
<1>7. at'[w] = "lock" /\ \A v \in Writers \ {w} : at'[v] = at[v] BY <1>4, <1>5 DEF Typed
<1>8. Sequential'
  <2>1. PICK T : Labelled(w, f) \in Seq(T) BY <1>2
  <2>2. PICK S : up \in Seq(S) /\ \A v \in Writers : rest[v] \in Seq(S) BY DEF WInv, Sequential
  <2>3. up' \in Seq(S \cup T) BY <2>2, <1>4
  <2>4. ASSUME NEW v \in Writers PROVE rest'[v] \in Seq(S \cup T)
    <3>1. CASE v = w BY <3>1, <2>1, <1>6
    <3>2. CASE v # w BY <3>2, <2>2, <1>6
    <3> QED BY <3>1, <3>2
  <2> QED BY <2>3, <2>4 DEF Sequential
<1>9. Typed' BY <1>3, <1>4, <1>5 DEF Typed, Points
<1>10. Exclusive' BY <1>4, <1>7 DEF WInv, Exclusive
<1>11. Remainders'
  <2> SUFFICES ASSUME NEW v \in Writers
               PROVE  /\ EndOfFrame(v, rest'[v])
                      /\ at'[v] = "lock" /\ rest'[v] # <<>> => rest'[v][1].index = 1
    BY DEF Remainders, EndOfFrame
  <2>1. CASE v = w BY <2>1, <1>2, <1>6
  <2>2. CASE v # w BY <2>2, <1>6, <1>7 DEF WInv, Remainders
  <2> QED BY <2>1, <2>2
<1>12. Continues' BY <1>4, <1>6, <1>7 DEF WInv, Continues, Follows
<1>13. Complete' BY <1>4, <1>6, <1>7 DEF WInv, Complete
<1>14. Contiguous' BY <1>4 DEF WInv, Contiguous, Follows
<1> QED BY <1>8, <1>9, <1>10, <1>11, <1>12, <1>13, <1>14 DEF WInv

LEMMA LockWInv == ASSUME NEW w \in Writers, WInv, Lock(w) PROVE WInv'
<1>1. /\ at[w] = "lock" /\ writeMu = "free" /\ writeMu' = w /\ at' = [at EXCEPT ![w] = "write"]
      /\ up' = up /\ rest' = rest /\ Live' = Live
  BY DEF Lock, Go, theirs, Live
<1>2. Typed BY DEF WInv
<1>3. at'[w] = "write" /\ \A v \in Writers \ {w} : at'[v] = at[v] BY <1>1, <1>2 DEF Typed
<1>4. \A v \in Writers : at[v] # "write" BY <1>1 DEF WInv, Exclusive, Writers
<1>5. Sequential' BY <1>1 DEF WInv, Sequential
<1>6. Typed' BY <1>1, <1>2 DEF Typed, Points
<1>7. Exclusive' BY <1>1, <1>3, <1>4 DEF Exclusive
<1>8. Remainders' BY <1>1, <1>3 DEF WInv, Remainders, EndOfFrame
<1>9. Live /\ up # <<>> => up[Len(up)].index = up[Len(up)].of BY <1>4 DEF WInv, Complete
<1>10. rest[w] # <<>> => rest[w][1].index = 1 BY <1>1 DEF WInv, Remainders
<1>11. Continues' BY <1>1, <1>3, <1>4, <1>9, <1>10 DEF Continues, Follows
<1>12. Complete' BY <1>1, <1>9 DEF Complete
<1>13. Contiguous' BY <1>1 DEF WInv, Contiguous, Follows
<1> QED BY <1>5, <1>6, <1>7, <1>8, <1>11, <1>12, <1>13 DEF WInv

LEMMA WriteByteWInv == ASSUME NEW w \in Writers, WInv, WriteByte(w) PROVE WInv'
<1>1. /\ at[w] = "write" /\ rest[w] # <<>> /\ Live
      /\ up' = Append(up, Head(rest[w])) /\ rest' = [rest EXCEPT ![w] = Tail(rest[w])]
      /\ at' = at /\ writeMu' = writeMu
  BY DEF WriteByte, conn, Live
<1>2. Typed /\ Exclusive /\ Remainders /\ Continues /\ Contiguous BY DEF WInv
<1>3. rest'[w] = Tail(rest[w]) /\ \A v \in Writers \ {w} : rest'[v] = rest[v]
  BY <1>1, <1>2 DEF Typed
<1>4. \A v \in Writers : at[v] = "write" => v = w BY <1>1, <1>2 DEF Exclusive
<1>5. PICK S : up \in Seq(S) /\ \A v \in Writers : rest[v] \in Seq(S) BY DEF WInv, Sequential
<1>6. /\ rest[w] \in Seq(S) /\ Len(rest[w]) \in Nat \ {0} /\ Head(rest[w]) = rest[w][1]
      /\ rest[w][1] \in S
  BY <1>1, <1>5
<1>7. /\ Tail(rest[w]) \in Seq(S) /\ Len(Tail(rest[w])) = Len(rest[w]) - 1
      /\ \A i \in 1..(Len(rest[w]) - 1) : Tail(rest[w])[i] = rest[w][i + 1]
  BY <1>6
<1>8. /\ up' \in Seq(S) /\ Len(up) \in Nat /\ Len(up') = Len(up) + 1
      /\ up'[Len(up')] = rest[w][1] /\ \A i \in 1..Len(up) : up'[i] = up[i]
  BY <1>1, <1>5, <1>6
<1>9. EndOfFrame(w, rest[w]) BY <1>2 DEF Remainders
<1>10. Sequential'
  <2>1. ASSUME NEW v \in Writers PROVE rest'[v] \in Seq(S)
    <3>1. CASE v = w BY <3>1, <1>3, <1>7
    <3>2. CASE v # w BY <3>2, <1>3, <1>5
    <3> QED BY <3>1, <3>2
  <2> QED BY <2>1, <1>8 DEF Sequential
<1>11. Typed' BY <1>1, <1>2 DEF Typed
<1>12. Exclusive' BY <1>1, <1>2 DEF Exclusive
<1>13. Remainders'
  <2> SUFFICES ASSUME NEW v \in Writers
               PROVE  /\ EndOfFrame(v, rest'[v])
                      /\ at'[v] = "lock" /\ rest'[v] # <<>> => rest'[v][1].index = 1
    BY DEF Remainders, EndOfFrame
  <2>1. CASE v = w
    <3>1. EndOfFrame(w, Tail(rest[w]))
      <4> SUFFICES ASSUME NEW i \in 1..Len(Tail(rest[w]))
                   PROVE  /\ Tail(rest[w])[i].by = w /\ Tail(rest[w])[i].of \in Nat
                          /\ Tail(rest[w])[i].of = Tail(rest[w])[1].of
                          /\ Tail(rest[w])[i].index
                               = Tail(rest[w])[i].of - Len(Tail(rest[w])) + i
        BY DEF EndOfFrame
      <4>1. i \in 1..(Len(rest[w]) - 1) /\ 1 \in 1..(Len(rest[w]) - 1) BY <1>6, <1>7
      <4>2. i + 1 \in 1..Len(rest[w]) /\ 2 \in 1..Len(rest[w]) BY <4>1, <1>6
      <4>3. /\ rest[w][i + 1].by = w /\ rest[w][i + 1].of \in Nat
            /\ rest[w][i + 1].of = rest[w][1].of /\ rest[w][2].of = rest[w][1].of
            /\ rest[w][i + 1].index = rest[w][i + 1].of - Len(rest[w]) + (i + 1)
        BY <4>2, <1>9 DEF EndOfFrame
      <4>4. Tail(rest[w])[i] = rest[w][i + 1] /\ Tail(rest[w])[1] = rest[w][2] BY <4>1, <1>7
      <4>5. Len(Tail(rest[w])) = Len(rest[w]) - 1 /\ Len(rest[w]) \in Nat BY <1>6, <1>7
      <4>6. rest[w][i + 1].index = rest[w][i + 1].of - (Len(rest[w]) - 1) + i
        <5>1. \A x, y, l \in Int : x = y - l + (i + 1) => x = y - (l - 1) + i
          OBVIOUS
        <5>2. rest[w][i + 1].of \in Int /\ Len(rest[w]) \in Int BY <4>3, <4>5
        <5>3. rest[w][i + 1].index \in Int BY <4>3, <5>2
        <5> QED BY <4>3, <5>1, <5>2, <5>3, Zenon
      <4>7. Tail(rest[w])[i].index = Tail(rest[w])[i].of - Len(Tail(rest[w])) + i
        BY <4>4, <4>5, <4>6
      <4> QED BY <4>3, <4>4, <4>7
    <3> QED BY <2>1, <3>1, <1>1, <1>3
  <2>2. CASE v # w BY <2>2, <1>1, <1>2, <1>3 DEF Remainders
  <2> QED BY <2>1, <2>2
<1>14. /\ rest[w][1].by = w /\ rest[w][1].of \in Nat
       /\ rest[w][1].index = rest[w][1].of - Len(rest[w]) + 1
  BY <1>6, <1>9 DEF EndOfFrame
<1>15. Tail(rest[w]) # <<>> => Follows(rest[w][1], Tail(rest[w])[1])
  <2> SUFFICES ASSUME Tail(rest[w]) # <<>> PROVE Follows(rest[w][1], Tail(rest[w])[1]) OBVIOUS
  <2>1. Len(rest[w]) > 1 /\ 2 \in 1..Len(rest[w]) /\ 1 \in 1..(Len(rest[w]) - 1) BY <1>6, <1>7
  <2>2. Tail(rest[w])[1] = rest[w][2] BY <2>1, <1>7
  <2>3. /\ rest[w][2].by = w /\ rest[w][2].of = rest[w][1].of
        /\ rest[w][2].index = rest[w][2].of - Len(rest[w]) + 2
    BY <2>1, <1>9 DEF EndOfFrame
  <2> QED BY <2>1, <2>2, <2>3, <1>14, <1>6 DEF Follows
<1>16. Continues'
  <2> SUFFICES ASSUME NEW v \in Writers, at'[v] = "write", rest'[v] # <<>>
               PROVE  Follows(up'[Len(up')], rest'[v][1])
    BY DEF Continues, Follows
  <2>1. v = w BY <1>1, <1>4
  <2> QED BY <2>1, <1>3, <1>8, <1>15
<1>17. Complete'
  <2> SUFFICES ASSUME rest'[w] = <<>> PROVE up'[Len(up')].index = up'[Len(up')].of
    BY <1>1 DEF Complete
  <2>1. Tail(rest[w]) = <<>> BY <1>3
  <2>2. Len(Tail(rest[w])) = 0
    <3>1. Len(<<>>) = 0 OBVIOUS
    <3> QED BY <2>1, <3>1, Zenon
  <2>3. Len(rest[w]) = 1 BY <2>2, <1>6, <1>7
  <2> QED BY <2>3, <1>8, <1>14
<1>18. Contiguous'
  <2> SUFFICES ASSUME NEW i \in 1..(Len(up') - 1) PROVE Follows(up'[i], up'[i + 1])
    BY DEF Contiguous, Follows
  <2>1. CASE i = Len(up)
    <3>1. up # <<>> BY <2>1, <1>8
    <3>2. Follows(up[Len(up)], rest[w][1]) BY <3>1, <1>1, <1>2 DEF Continues
    <3> QED BY <2>1, <3>2, <1>8
  <2>2. CASE i # Len(up)
    <3>1. i \in 1..(Len(up) - 1) /\ i \in 1..Len(up) /\ i + 1 \in 1..Len(up) BY <2>2, <1>8
    <3> QED BY <3>1, <1>2, <1>8 DEF Contiguous
  <2> QED BY <2>1, <2>2
<1> QED BY <1>10, <1>11, <1>12, <1>13, <1>16, <1>17, <1>18 DEF WInv

\* The writer leaves the lock, with nothing left to write or for good.
Leaves(w) ==
  /\ at[w] = "write" /\ writeMu' = "free" /\ up' = up
  /\ rest' = [rest EXCEPT ![w] = <<>>]
  /\ at' \in [Writers -> Points] /\ at'[w] \notin {"write", "lock"}
  /\ \A v \in Writers \ {w} :
       at'[v] = at[v] \/ (at'[v] \notin {"write", "lock"} /\ at[v] # "write")
  /\ Live' => Live /\ rest[w] = <<>>

LEMMA LeavesWInv == ASSUME NEW w \in Writers, WInv, Leaves(w) PROVE WInv'
<1> USE DEF Leaves
<1>1. Typed /\ Exclusive /\ Remainders /\ Complete /\ Contiguous BY DEF WInv
<1>2. rest'[w] = <<>> /\ \A v \in Writers \ {w} : rest'[v] = rest[v] BY <1>1 DEF Typed
<1>3. \A v \in Writers : at[v] = "write" <=> v = w BY <1>1 DEF Exclusive
<1>4. \A v \in Writers : at'[v] # "write" BY <1>3
<1>5. \A v \in Writers : at'[v] = "lock" => at[v] = "lock" /\ v # w OBVIOUS
<1>6. Sequential'
  <2>1. PICK S : up \in Seq(S) /\ \A v \in Writers : rest[v] \in Seq(S) BY DEF WInv, Sequential
  <2>2. ASSUME NEW v \in Writers PROVE rest'[v] \in Seq(S)
    <3>1. <<>> \in Seq(S) OBVIOUS
    <3>2. CASE v = w BY <3>1, <3>2, <1>2
    <3>3. CASE v # w BY <3>3, <2>1, <1>2
    <3> QED BY <3>2, <3>3
  <2> QED BY <2>1, <2>2 DEF Sequential
<1>7. Typed' BY <1>1 DEF Typed
<1>8. Exclusive' BY <1>4 DEF Exclusive, Writers
<1>9. Remainders'
  <2> SUFFICES ASSUME NEW v \in Writers
               PROVE  /\ EndOfFrame(v, rest'[v])
                      /\ at'[v] = "lock" /\ rest'[v] # <<>> => rest'[v][1].index = 1
    BY DEF Remainders, EndOfFrame
  <2>1. CASE v = w BY <2>1, <1>2 DEF EndOfFrame
  <2>2. CASE v # w BY <2>2, <1>1, <1>2, <1>5 DEF Remainders
  <2> QED BY <2>1, <2>2
<1>10. Continues' BY <1>4 DEF Continues
<1>11. Complete'
  <2> SUFFICES ASSUME Live', up # <<>> PROVE up[Len(up)].index = up[Len(up)].of
    BY DEF Complete
  <2>1. Live /\ \A v \in Writers : at[v] = "write" => rest[v] = <<>> BY <1>3
  <2> QED BY <2>1, <1>1 DEF Complete
<1>12. Contiguous' BY <1>1 DEF Contiguous, Follows
<1> QED BY <1>6, <1>7, <1>8, <1>9, <1>10, <1>11, <1>12 DEF WInv

LEMMA ServerReadsWInv == WInv /\ ServerReads => WInv'
<1> SUFFICES ASSUME WInv, ServerReads PROVE WInv' OBVIOUS
<1>1. PICK n \in 1..Len(up) : up' = SubSeq(up, n + 1, Len(up)) BY DEF ServerReads
<1>2. UNCHANGED <<open, writeMu, at, rest, server>>
  BY DEF ServerReads, Ours, conn, writers
<1>3. PICK S : up \in Seq(S) /\ \A v \in Writers : rest[v] \in Seq(S) BY DEF WInv, Sequential
<1>4. /\ up' \in Seq(S) /\ Len(up) \in Nat /\ Len(up') = Len(up) - n
      /\ \A i \in 1..(Len(up) - n) : up'[i] = up[i + n]
  BY <1>1, <1>3
<1>5. Live' = Live BY <1>2 DEF Live
<1>6. up' # <<>> => up # <<>> /\ up'[Len(up')] = up[Len(up)]
  <2> SUFFICES ASSUME up' # <<>> PROVE up # <<>> /\ up'[Len(up')] = up[Len(up)] OBVIOUS
  <2>1. Len(up') \in 1..(Len(up) - n) BY <1>1, <1>4
  <2> QED BY <2>1, <1>4
<1>7. Sequential' BY <1>2, <1>3, <1>4 DEF Sequential
<1>8. Typed' /\ Exclusive' /\ Remainders'
  BY <1>2 DEF WInv, Typed, Exclusive, Remainders, EndOfFrame
<1>9. Continues' BY <1>2, <1>5, <1>6 DEF WInv, Continues, Follows
<1>10. Complete' BY <1>2, <1>5, <1>6 DEF WInv, Complete
<1>11. Contiguous'
  <2> SUFFICES ASSUME NEW i \in 1..(Len(up') - 1) PROVE Follows(up'[i], up'[i + 1])
    BY DEF Contiguous, Follows
  <2>1. i + n \in 1..(Len(up) - 1) /\ i \in 1..(Len(up) - n) /\ i + 1 \in 1..(Len(up) - n)
    BY <1>1, <1>4
  <2>2. up'[i] = up[i + n] /\ up'[i + 1] = up[(i + n) + 1]
    <3>1. \A a, b \in Int : (a + 1) + b = (a + b) + 1 OBVIOUS
    <3>2. i \in Int /\ n \in Int BY <1>1
    <3>3. (i + 1) + n = (i + n) + 1 BY <3>1, <3>2
    <3> QED BY <2>1, <3>3, <1>4
  <2> QED BY <2>1, <2>2 DEF WInv, Contiguous
<1> QED BY <1>7, <1>8, <1>9, <1>10, <1>11 DEF WInv

LEMMA WritesOnLeaves == ASSUME NEW w \in Writers, WInv, WritesOn(w) PROVE Leaves(w)
<1>1. Typed BY DEF WInv
<1>2. at[w] = "write" /\ rest[w] = <<>> /\ rest' = rest /\ up' = up /\ writeMu' = "free"
  BY DEF WritesOn, Wrote
<1>3. rest' = [rest EXCEPT ![w] = <<>>] BY <1>1, <1>2 DEF Typed
<1>4. at' = [at EXCEPT ![w] = "encode"] /\ Live' = Live
  BY DEF WritesOn, Wrote, Go, Live, theirs
<1>5. /\ at' \in [Writers -> Points] /\ at'[w] \notin {"write", "lock"}
      /\ \A v \in Writers \ {w} : at'[v] = at[v]
  BY <1>1, <1>3, <1>4 DEF Typed, Points
<1> QED BY <1>2, <1>3, <1>4, <1>5 DEF Leaves

LEMMA HandlerReturnsLeaves == WInv /\ HandlerReturns => Leaves("login")
<1> SUFFICES ASSUME WInv, HandlerReturns PROVE Leaves("login") OBVIOUS
<1> DEFINE w == "login"
<1>1. w \in Writers /\ Typed BY DEF Writers, WInv
<1>2. at[w] = "write" /\ rest[w] = <<>> /\ rest' = rest /\ up' = up /\ writeMu' = "free"
  BY DEF HandlerReturns, Wrote
<1>3. rest' = [rest EXCEPT ![w] = <<>>] BY <1>1, <1>2 DEF Typed
<1>4. Live' = Live BY DEF HandlerReturns, Wrote, Live, theirs
<1>5. \/ at' = [at EXCEPT !["login"] = "joined"]
      \/ at' = [login |-> NextRead, worker |-> "packs"]
      \/ at' = [at EXCEPT !["login"] = NextRead]
  BY DEF HandlerReturns
<1>6. NextRead \in {"read", "failed"} BY DEF NextRead
<1>7. at["worker"] # "write" BY <1>1, <1>2 DEF WInv, Exclusive, Writers
<1>8. /\ at' \in [Writers -> Points] /\ at'[w] \notin {"write", "lock"}
      /\ \/ at'["worker"] = at["worker"]
         \/ at'["worker"] \notin {"write", "lock"}
  BY <1>1, <1>5, <1>6 DEF Typed, Points, Writers
<1> QED BY <1>2, <1>3, <1>4, <1>7, <1>8 DEF Leaves, Writers

LEMMA WorkerReturnsLeaves == WInv /\ WorkerReturns => Leaves("worker")
<1> SUFFICES ASSUME WInv, WorkerReturns PROVE Leaves("worker") OBVIOUS
<1> DEFINE w == "worker"
<1>1. w \in Writers /\ Typed BY DEF Writers, WInv
<1>2. at[w] = "write" /\ rest[w] = <<>> /\ rest' = rest /\ up' = up /\ writeMu' = "free"
  BY DEF WorkerReturns, Wrote
<1>3. rest' = [rest EXCEPT ![w] = <<>>] BY <1>1, <1>2 DEF Typed
<1>4. at' = [at EXCEPT ![w] = "none"] /\ Live' = Live
  BY DEF WorkerReturns, Wrote, Go, Live, theirs
<1>5. /\ at' \in [Writers -> Points] /\ at'[w] \notin {"write", "lock"}
      /\ \A v \in Writers \ {w} : at'[v] = at[v]
  BY <1>1, <1>4 DEF Typed, Points
<1> QED BY <1>2, <1>3, <1>4, <1>5 DEF Leaves

LEMMA WriteFailsLeaves == ASSUME NEW w \in Writers, WInv, WriteFails(w) PROVE Leaves(w)
<1>1. Typed BY DEF WInv
<1>2. /\ at[w] = "write" /\ ~Live /\ writeMu' = "free" /\ up' = up
      /\ rest' = [rest EXCEPT ![w] = <<>>]
  BY DEF WriteFails, Live
<1>3. at' = [at EXCEPT ![w] = "failed"] \/ at' = [at EXCEPT ![w] = "none"]
  BY DEF WriteFails, Go
<1>4. ~Live' BY <1>2 DEF WriteFails, Live, theirs
<1>5. /\ at' \in [Writers -> Points] /\ at'[w] \notin {"write", "lock"}
      /\ \A v \in Writers \ {w} : at'[v] = at[v]
  BY <1>1, <1>3, <1>4 DEF Typed, Points
<1> QED BY <1>2, <1>3, <1>4, <1>5 DEF Leaves

\* The four ways to leave the lock.
LeavesLock ==
  HandlerReturns \/ WorkerReturns \/ \E w \in Writers : WritesOn(w) \/ WriteFails(w)

LEMMA LeavesLockWInv == WInv /\ LeavesLock => WInv'
<1> SUFFICES ASSUME WInv, LeavesLock PROVE WInv' OBVIOUS
<1>1. \E w \in Writers : Leaves(w)
  BY WritesOnLeaves, HandlerReturnsLeaves, WorkerReturnsLeaves, WriteFailsLeaves
     DEF LeavesLock, Writers
<1> QED BY <1>1, LeavesWInv

\* The steps of the login goroutine and of the worker that write nothing.
WritesNothing ==
  \/ ReadPacket \/ ReadFails \/ CloseSocket \/ StopResourcePacks \/ PacksStopped
  \/ WorkerGivesUp \/ \E w \in Writers : TakePacksMu(w)

LEMMA QuietSteps == ASSUME WInv, WritesNothing PROVE Quiet
<1>1. Typed BY DEF WInv
<1>2. UNCHANGED <<writeMu, rest, up, server>> /\ (open' => open)
  BY DEF ReadPacket, ReadFails, CloseSocket, StopResourcePacks, PacksStopped, WorkerGivesUp,
         TakePacksMu, WritesNothing, conn, ghosts, theirs
<1>3. \E w \in Writers, point \in {"encode", "packs", "read", "failed", "stop", "wait",
                                   "ended", "none"} :
        at[w] \notin {"write", "lock"} /\ at' = [at EXCEPT ![w] = point]
  <2>1. CASE ReadPacket
    <3>1. PICK p : Handle(p) BY <2>1 DEF ReadPacket
    <3>2. \E point \in {"encode", "packs", "read", "failed"} : Go("login", point)
      BY <3>1 DEF Handle, TakeCompress, LoginSuccess, AnswersRequest, TakePackOffer,
                  TakeFinish, TakeRefusal, SkipsPacket, Replies, NextRead
    <3> QED BY <2>1, <3>2 DEF ReadPacket, Go, Writers
  <2>2. CASE ReadFails BY <2>2 DEF ReadFails, Go, Writers
  <2>3. CASE CloseSocket BY <2>3 DEF CloseSocket, Go, Writers
  <2>4. CASE StopResourcePacks BY <2>4 DEF StopResourcePacks, Go, Writers
  <2>5. CASE PacksStopped BY <2>5 DEF PacksStopped, Go, Writers
  <2>6. CASE WorkerGivesUp BY <2>6 DEF WorkerGivesUp, Go, Writers
  <2>7. CASE \E w \in Writers : TakePacksMu(w) BY <2>7 DEF TakePacksMu, Go
  <2> QED BY <2>1, <2>2, <2>3, <2>4, <2>5, <2>6, <2>7 DEF WritesNothing
<1> QED BY <1>1, <1>2, <1>3 DEF Quiet, Typed, Points, Live

LEMMA ServerSteps ==
  ASSUME WInv, ServerAsks \/ ServerRefuses \/ ServerFails \/ ContextEnds
  PROVE  Quiet
<1>1. Typed BY DEF WInv
<1>2. UNCHANGED <<writeMu, rest, up, at, open>>
  BY DEF ServerAsks, ServerRefuses, ServerFails, ContextEnds, Sends, Ours, conn, writers
<1>3. server' # "closed" => server # "closed"
  BY DEF ServerAsks, ServerRefuses, ServerFails, ContextEnds, MayAsk, theirs
<1> QED BY <1>1, <1>2, <1>3 DEF Quiet, Typed, Live

LEMMA NextWInv == WInv /\ [Next]_vars => WInv'
<1> SUFFICES ASSUME WInv, [Next]_vars PROVE WInv' OBVIOUS
<1>1. CASE \E w \in Writers : Encode(w) \/ Lock(w) \/ WriteByte(w)
  BY <1>1, EncodeWInv, LockWInv, WriteByteWInv
<1>2. CASE LeavesLock BY <1>2, LeavesLockWInv
<1>3. CASE WritesNothing BY <1>3, QuietSteps, QuietWInv
<1>4. CASE ServerReads BY <1>4, ServerReadsWInv
<1>5. CASE ServerAsks \/ ServerRefuses \/ ServerFails \/ ContextEnds
  BY <1>5, ServerSteps, QuietWInv
<1>6. CASE UNCHANGED vars
  <2>1. UNCHANGED <<writeMu, rest, up, at, open, server>>
    BY <1>6 DEF vars, conn, writers, theirs
  <2>2. Quiet BY <2>1 DEF Quiet, WInv, Typed, Live
  <2> QED BY <2>2, QuietWInv
<1> QED
  BY <1>1, <1>2, <1>3, <1>4, <1>5, <1>6
     DEF Next, Progress, Login, Worker, WritePacket, LeavesLock, WritesNothing, Writers

(* No byte of one frame lands inside another, for every width of a VarInt, *)
(* every threshold and conversation, and whatever the server and the       *)
(* context do (conn.go:180).                                               *)
THEOREM NeverSpliced == Spec => []NoSplice
<1>1. WInv => NoSplice BY DEF WInv, Contiguous, Follows, NoSplice
<1> QED BY <1>1, InitWInv, NextWInv, PTL DEF Spec

(* And the reason: whoever puts bytes on the socket holds writeMu, so never *)
(* do two goroutines write at once (conn.go:182).                           *)
THEOREM OneWriter ==
  Spec => [](\A v, w \in Writers : at[v] = "write" /\ at[w] = "write" => v = w)
<1>1. WInv => \A v, w \in Writers : at[v] = "write" /\ at[w] = "write" => v = w
  BY DEF WInv, Exclusive
<1> QED BY <1>1, InitWInv, NextWInv, PTL DEF Spec


-----------------------------------------------------------------------------
(* Functions by recursion, and the digits of a number.                     *)

\* A set of naturals with anything in it has a least.
LEMMA LeastOne ==
  ASSUME NEW T, T \subseteq Nat, T # {}
  PROVE  \E x \in T : \A y \in T : x <= y
<1>1. IsWellFoundedOn(OpToRel(<, Nat), Nat)
  BY NatLessThanWellFounded
<1>2. PICK x \in T : \A y \in T : ~(<<y, x>> \in OpToRel(<, Nat))
  BY <1>1, WFMin
<1>3. \A y \in T : ~(y < x)
  BY <1>2 DEF OpToRel
<1> QED BY <1>3

\* A function defined by recursion on the naturals, given step by step by G.
LEMMA RecursionExists ==
  ASSUME NEW a \in Nat, NEW G \in [Nat -> [Nat -> Nat]]
  PROVE  \E f \in [Nat -> Nat] : f[0] = a /\ \A i \in Nat \ {0} : f[i] = G[i][f[i - 1]]
<1> DEFINE App(n) == {f \in [0..n -> Nat] : f[0] = a /\ \A i \in 1..n : f[i] = G[i][f[i - 1]]}
<1>1. \A n \in Nat : App(n) # {}
  <2> DEFINE T == {n \in Nat : App(n) = {}}
  <2> SUFFICES ASSUME T # {} PROVE FALSE
    OBVIOUS
  <2>1. PICK n \in T : \A m \in T : n <= m
    <3> HIDE DEF App
    <3> QED BY LeastOne
  <2>2. CASE n = 0
    <3> DEFINE f == [i \in 0..0 |-> a]
    <3>1. f \in App(0)
      OBVIOUS
    <3> QED BY <2>2, <3>1
  <2>3. CASE n # 0
    <3>1. n - 1 \in Nat /\ n \in Nat
      BY <2>3
    <3>2. n - 1 \notin T
      <4> HIDE DEF T
      <4>1. ~(n <= n - 1)
        BY <3>1
      <4> QED BY <4>1, <2>1
    <3>3. PICK f : f \in App(n - 1)
      BY <3>1, <3>2
    <3> DEFINE g == [i \in 0..n |-> IF i = n THEN G[n][f[n - 1]] ELSE f[i]]
    <3>4. f \in [0..(n - 1) -> Nat] /\ f[0] = a /\ \A i \in 1..(n - 1) : f[i] = G[i][f[i - 1]]
      BY <3>3
    <3>8. G[n][f[n - 1]] \in Nat
      <4>1. f[n - 1] \in Nat
        BY <3>1, <3>4
      <4>2. G[n] \in [Nat -> Nat]
        BY <3>1, Zenon
      <4> QED BY <4>1, <4>2, Zenon
    <3>5. g \in [0..n -> Nat] /\ g[0] = a
      <4>1. \A i \in 0..n : i # n => i \in 0..(n - 1)
        BY <3>1
      <4>2. \A i \in 0..(n - 1) : f[i] \in Nat
        BY <3>4
      <4>3. g \in [0..n -> Nat]
        BY <4>1, <4>2, <3>8
      <4>4. 0 \in 0..n /\ 0 # n
        BY <3>1, <2>3
      <4>5. g[0] = f[0]
        BY <4>4
      <4> QED BY <4>3, <4>5, <3>4
    <3>6. ASSUME NEW i \in 1..n PROVE g[i] = G[i][g[i - 1]]
      <4>1. i - 1 \in 0..n /\ i - 1 # n /\ i \in 0..n /\ n \in Nat
        BY <3>1
      <4>2. g[i - 1] = f[i - 1]
        BY <4>1
      <4>3. CASE i = n
        BY <4>1, <4>2, <4>3
      <4>4. CASE i # n
        <5>1. i \in 1..(n - 1)
          BY <4>1, <4>4
        <5>2. g[i] = f[i]
          BY <4>1, <4>4
        <5>3. f[i] = G[i][f[i - 1]]
          BY <5>1, <3>4, Zenon
        <5> QED BY <5>2, <5>3, <4>2, Zenon
      <4> QED BY <4>3, <4>4
    <3>7. g \in App(n)
      BY <3>5, <3>6
    <3> QED BY <3>7, <2>1
  <2> QED BY <2>2, <2>3
<1>2. ASSUME NEW n \in Nat, NEW m \in Nat, NEW f \in App(n), NEW g \in App(m),
             NEW j \in Nat, j <= n, j <= m
      PROVE  f[j] = g[j]
  <2> DEFINE T == {i \in Nat : i <= n /\ i <= m /\ f[i] # g[i]}
  <2> SUFFICES ASSUME T # {} PROVE FALSE
    BY <1>2
  <2>1. PICK i \in T : \A k \in T : i <= k
    <3> HIDE DEF App
    <3> QED BY LeastOne
  <2>2. i # 0 /\ i \in Nat /\ i <= n /\ i <= m
    OBVIOUS
  <2>3. i - 1 \notin T
    <3> HIDE DEF T
    <3>1. ~(i <= i - 1)
      BY <2>2
    <3> QED BY <3>1, <2>1
  <2>4. f[i - 1] = g[i - 1]
    BY <2>2, <2>3
  <2>5. f[i] = G[i][f[i - 1]] /\ g[i] = G[i][g[i - 1]]
    <3>1. i \in 1..n /\ i \in 1..m
      BY <2>2
    <3> QED BY <3>1, Zenon
  <2> QED BY <2>4, <2>5
<1> DEFINE part(n) == CHOOSE f : f \in App(n)
           h == [n \in Nat |-> part(n)[n]]
<1>3. \A n \in Nat : part(n) \in App(n)
  <2> HIDE DEF App
  <2> QED BY <1>1
<1> HIDE DEF part
<1>4. \A n \in Nat : /\ part(n) \in [0..n -> Nat] /\ part(n)[0] = a
                     /\ \A i \in 1..n : part(n)[i] = G[i][part(n)[i - 1]]
  BY <1>3
<1>5. h \in [Nat -> Nat] /\ h[0] = a
  BY <1>4
<1>6. ASSUME NEW i \in Nat \ {0} PROVE h[i] = G[i][h[i - 1]]
  <2>1. i - 1 \in Nat /\ i \in Nat /\ i - 1 <= i /\ i - 1 <= i - 1 /\ i \in 1..i
    OBVIOUS
  <2>2. part(i)[i - 1] = part(i - 1)[i - 1]
    <3>1. part(i) \in App(i) /\ part(i - 1) \in App(i - 1)
      BY <2>1, <1>3
    <3> HIDE DEF App
    <3> QED BY <2>1, <3>1, <1>2
  <2>3. part(i)[i] = G[i][part(i)[i - 1]]
    BY <2>1, <1>4
  <2> QED BY <2>1, <2>2, <2>3
<1> QED BY <1>5, <1>6

\* What division by the base leaves.
LEMMA Division ==
  ASSUME NEW x \in Nat
  PROVE  /\ x \div Base \in Nat /\ x % Base \in 0..(Base - 1)
         /\ x = Base * (x \div Base) + (x % Base)
<1>1. \A b \in Nat \ {0} : /\ x \div b \in Nat /\ x % b \in 0..(b - 1)
                            /\ x = b * (x \div b) + (x % b)
  OBVIOUS
<1>2. Base \in Nat \ {0}
  BY WireAssumption
<1> QED BY <1>1, <1>2

\* The shifts of a number, one by one.
LEMMA ShiftedFacts ==
  ASSUME NEW v \in Nat
  PROVE  /\ Shifted(v) \in [Nat -> Nat] /\ Shifted(v)[0] = v
         /\ \A i \in Nat \ {0} : Shifted(v)[i] = Shifted(v)[i - 1] \div Base
<1> DEFINE G == [i \in Nat |-> [x \in Nat |-> x \div Base]]
<1>1. G \in [Nat -> [Nat -> Nat]]
  BY Division
<1>2. PICK f \in [Nat -> Nat] : f[0] = v /\ \A i \in Nat \ {0} : f[i] = G[i][f[i - 1]]
  <2> HIDE DEF G
  <2> QED BY <1>1, RecursionExists
<1>3. f = [i \in Nat |-> IF i = 0 THEN v ELSE f[i - 1] \div Base]
  <2>1. ASSUME NEW i \in Nat \ {0} PROVE f[i] = f[i - 1] \div Base
    <3>1. f[i - 1] \in Nat
      BY <1>2
    <3> QED BY <1>2, <3>1
  <2> QED BY <1>2, <2>1
<1>4. Shifted(v) = [i \in Nat |-> IF i = 0 THEN v ELSE Shifted(v)[i - 1] \div Base]
  <2> DEFINE P(u) == u = [i \in Nat |-> IF i = 0 THEN v ELSE u[i - 1] \div Base]
  <2>1. Shifted(v) = CHOOSE u : P(u)
    BY DEF Shifted
  <2>2. P(f)
    BY <1>3
  <2>3. P(CHOOSE u : P(u))
    <3> HIDE DEF P
    <3> QED BY <2>2
  <2> QED BY <2>1, <2>3
<1>5. Shifted(v)[0] = v /\ \A i \in Nat \ {0} : Shifted(v)[i] = Shifted(v)[i - 1] \div Base
  BY <1>4
<1>6. \A i \in Nat : Shifted(v)[i] \in Nat
  <2> DEFINE T == {i \in Nat : Shifted(v)[i] \notin Nat}
  <2> SUFFICES ASSUME T # {} PROVE FALSE
    OBVIOUS
  <2>1. PICK i \in T : \A k \in T : i <= k
    BY LeastOne
  <2>2. i \in Nat \ {0} /\ i - 1 \in Nat
    BY <1>5
  <2>3. i - 1 \notin T
    <3> HIDE DEF T
    <3>1. ~(i <= i - 1)
      BY <2>2
    <3> QED BY <3>1, <2>1
  <2>4. Shifted(v)[i - 1] \in Nat
    BY <2>2, <2>3
  <2>5. Shifted(v)[i] \in Nat
    BY <2>2, <2>4, <1>5, Division
  <2> QED BY <2>5
<1> QED BY <1>4, <1>5, <1>6

\* The powers of the base, one by one.
LEMMA WeightFacts ==
  /\ Weight \in [Nat -> Nat] /\ Weight[0] = 1
  /\ \A i \in Nat \ {0} : Weight[i] = Base * Weight[i - 1]
<1> DEFINE G == [i \in Nat |-> [x \in Nat |-> Base * x]]
<1>0. Base \in Nat
  BY WireAssumption
<1>1. G \in [Nat -> [Nat -> Nat]] /\ 1 \in Nat
  BY <1>0
<1>2. PICK f \in [Nat -> Nat] : f[0] = 1 /\ \A i \in Nat \ {0} : f[i] = G[i][f[i - 1]]
  <2> HIDE DEF G
  <2> QED BY <1>1, RecursionExists
<1>3. f = [i \in Nat |-> IF i = 0 THEN 1 ELSE Base * f[i - 1]]
  <2>1. ASSUME NEW i \in Nat \ {0} PROVE f[i] = Base * f[i - 1]
    <3>1. f[i - 1] \in Nat
      BY <1>2
    <3> QED BY <1>2, <3>1
  <2> QED BY <1>2, <2>1
<1>4. Weight = [i \in Nat |-> IF i = 0 THEN 1 ELSE Base * Weight[i - 1]]
  <2> DEFINE P(u) == u = [i \in Nat |-> IF i = 0 THEN 1 ELSE Base * u[i - 1]]
  <2>1. Weight = CHOOSE u : P(u)
    BY DEF Weight
  <2>2. P(f)
    BY <1>3
  <2>3. P(CHOOSE u : P(u))
    <3> HIDE DEF P
    <3> QED BY <2>2
  <2> QED BY <2>1, <2>3
<1>5. Weight[0] = 1 /\ \A i \in Nat \ {0} : Weight[i] = Base * Weight[i - 1]
  BY <1>4
<1>6. \A i \in Nat : Weight[i] \in Nat
  <2> DEFINE T == {i \in Nat : Weight[i] \notin Nat}
  <2> SUFFICES ASSUME T # {} PROVE FALSE
    OBVIOUS
  <2>1. PICK i \in T : \A k \in T : i <= k
    BY LeastOne
  <2>2. i \in Nat \ {0} /\ i - 1 \in Nat
    BY <1>5
  <2>3. i - 1 \notin T
    <3> HIDE DEF T
    <3>1. ~(i <= i - 1)
      BY <2>2
    <3> QED BY <3>1, <2>1
  <2>4. Weight[i - 1] \in Nat
    BY <2>2, <2>3
  <2>5. Weight[i] \in Nat
    BY <2>2, <2>4, <1>0, <1>5
  <2> QED BY <2>5
<1> QED BY <1>4, <1>5, <1>6

\* What has been read of a number and what is left of it make it up.
LEMMA ShiftsAddUp ==
  ASSUME NEW v \in Nat, NEW i \in Nat \ {0}
  PROVE  Shifted(v)[i - 1] = Base * Shifted(v)[i] + (Shifted(v)[i - 1] % Base)
<1>1. Shifted(v)[i - 1] \in Nat
  BY ShiftedFacts
<1>2. Shifted(v)[i] = Shifted(v)[i - 1] \div Base
  BY ShiftedFacts
<1> QED BY <1>1, <1>2, Division, Zenon

\* What is left of a number after n digits weighs no more than it.
LEMMA WeighsNoMore ==
  ASSUME NEW v \in Nat, NEW n \in Nat
  PROVE  Weight[n] * Shifted(v)[n] <= v
<1> DEFINE T == {i \in Nat : ~(Weight[i] * Shifted(v)[i] <= v)}
<1> SUFFICES ASSUME T # {} PROVE FALSE
  OBVIOUS
<1>1. PICK i \in T : \A k \in T : i <= k
  BY LeastOne
<1>2. i \in Nat \ {0} /\ i - 1 \in Nat
  <2>1. Weight[0] * Shifted(v)[0] = v
    <3>1. Weight[0] = 1 /\ Shifted(v)[0] = v
      BY ShiftedFacts, WeightFacts, Zenon
    <3> QED BY <3>1
  <2> QED BY <2>1
<1>3. i - 1 \notin T
  <2> HIDE DEF T
  <2>1. ~(i <= i - 1)
    BY <1>2
  <2> QED BY <2>1, <1>1
<1>4. PICK w \in Nat, s \in Nat, t \in Nat, d \in Nat :
        /\ w = Weight[i - 1] /\ s = Shifted(v)[i - 1] /\ t = Shifted(v)[i]
        /\ d = Shifted(v)[i - 1] % Base
  <2>1. Weight[i - 1] \in Nat /\ Shifted(v)[i - 1] \in Nat /\ Shifted(v)[i] \in Nat
    BY <1>2, ShiftedFacts, WeightFacts
  <2>2. Shifted(v)[i - 1] % Base \in Nat
    <3>1. Shifted(v)[i - 1] % Base \in 0..(Base - 1) /\ Base \in Nat
      BY <2>1, Division, WireAssumption
    <3> QED BY <3>1
  <2> QED BY <2>1, <2>2
<1>5. w * s <= v
  BY <1>2, <1>3, <1>4
<1>6. Weight[i] = Base * w
  BY <1>2, <1>4, WeightFacts
<1>7. s = Base * t + d
  BY <1>2, <1>4, ShiftsAddUp, Zenon
<1>8. Weight[i] * Shifted(v)[i] = (Base * w) * t
  BY <1>4, <1>6
<1>9. Base \in Nat
  BY WireAssumption
<1>10. (Base * w) * t <= w * (Base * t + d)
  BY <1>4, <1>9
<1> QED BY <1>4, <1>5, <1>7, <1>8, <1>9, <1>10

\* What the bytes of a VarInt can hold, which is more than a word.
Held == 0..(Weight[MaxVarIntBytes] - 1)

LEMMA HeldFacts ==
  /\ Word \in Nat \ {0} /\ Held \subseteq Nat /\ 0..(Word + 1) \subseteq Held
<1>1. SignBit \in Nat /\ 1 < SignBit
  BY WireAssumption
<1>2. Word \in Nat \ {0}
  BY <1>1 DEF Word
<1>3. Weight[MaxVarIntBytes] \in Nat
  BY WireAssumption, WeightFacts
<1> QED BY <1>2, <1>3, WidthAssumption DEF Held

\* What a word keeps of a number that fits, and of one that is a word more.
LEMMA WordFacts ==
  ASSUME NEW u \in 0..(Word - 1)
  PROVE  /\ u % Word = u /\ (u + Word) % Word = u
<1>1. \A w \in Nat \ {0} : \A x \in 0..(w - 1) : x % w = x /\ (x + w) % w = x
  OBVIOUS
<1> QED BY <1>1, HeldFacts

\* A length of a frame, or the first that is out of range, is read as it is.
LEMMA LengthFacts ==
  ASSUME NEW v \in 0..(MaxPacketSize + 1)
  PROVE  v \in Held /\ Signed(v) = v
<1>1. /\ SignBit \in Nat /\ MaxPacketSize \in Nat /\ MaxPacketSize + 1 < SignBit
      /\ Word = 2 * SignBit
  BY WireAssumption DEF Word
<1>2. v \in 0..(Word - 1) /\ v \in 0..(Word + 1) /\ v < SignBit
  BY <1>1
<1>3. v \in Held
  BY <1>2, HeldFacts
<1>4. v % Word = v
  BY <1>2, WordFacts
<1> QED BY <1>2, <1>3, <1>4 DEF Signed

\* A number a VarInt holds is shifted out at its width.
LEMMA ShiftedOut ==
  ASSUME NEW v \in Held
  PROVE  Shifted(v)[MaxVarIntBytes] = 0
<1> DEFINE M == MaxVarIntBytes
<1>1. M \in Nat /\ v \in Nat /\ Weight[M] \in Nat /\ v <= Weight[M] - 1
  BY WireAssumption, WeightFacts, HeldFacts DEF Held
<1>2. PICK w \in Nat, s \in Nat : w = Weight[M] /\ s = Shifted(v)[M]
  BY <1>1, ShiftedFacts, WeightFacts
<1>3. w * s <= v
  BY <1>1, <1>2, WeighsNoMore
<1>4. v < w
  BY <1>1, <1>2
<1>5. s = 0
  <2>1. s >= 1 => w * s >= w
    OBVIOUS
  <2> QED BY <1>1, <1>3, <1>4, <2>1
<1> QED BY <1>2, <1>5

\* Once nothing is left of a number nothing is left from then on.
LEMMA NothingAfterNothing ==
  ASSUME NEW v \in Nat, NEW i \in Nat, NEW j \in Nat, i <= j, Shifted(v)[i] = 0
  PROVE  Shifted(v)[j] = 0
<1> DEFINE T == {k \in Nat : i <= k /\ Shifted(v)[k] # 0}
<1> SUFFICES ASSUME T # {} PROVE FALSE
  OBVIOUS
<1>1. PICK k \in T : \A n \in T : k <= n
  BY LeastOne
<1>2. k \in Nat \ {0} /\ k - 1 \in Nat /\ i <= k - 1
  <2>1. k # i /\ k \in Nat /\ i <= k
    OBVIOUS
  <2> QED BY <2>1
<1>3. k - 1 \notin T
  <2> HIDE DEF T
  <2>1. ~(k <= k - 1)
    BY <1>2
  <2> QED BY <2>1, <1>1
<1>4. Shifted(v)[k - 1] = 0
  BY <1>2, <1>3
<1>5. Shifted(v)[k] = 0 \div Base
  <2>1. Shifted(v)[k] = Shifted(v)[k - 1] \div Base
    BY <1>2, ShiftedFacts
  <2> QED BY <1>4, <2>1, Zenon
<1>6. 0 \div Base = 0
  <2>1. \A b \in Nat \ {0} : 0 \div b = 0
    OBVIOUS
  <2> QED BY <2>1, WireAssumption
<1> QED BY <1>5, <1>6

\* VarIntLen counts the shifts up to the one that leaves nothing.
LEMMA VarIntLenFacts ==
  ASSUME NEW v \in Held
  PROVE  /\ VarIntLen(v) \in 1..MaxVarIntBytes /\ Shifted(v)[VarIntLen(v)] = 0
<1> DEFINE M == MaxVarIntBytes
           T == {i \in 1..M : Shifted(v)[i] = 0}
           N == {n \in 0..(M - 1) : n = 0 \/ Shifted(v)[n] # 0}
<1>1. M \in Nat \ {0} /\ v \in Nat
  BY WireAssumption, HeldFacts
<1>2. T # {} /\ T \subseteq Nat
  BY <1>1, ShiftedOut
<1>3. PICK k \in T : \A i \in T : k <= i
  <2> HIDE DEF T
  <2> QED BY <1>2, LeastOne
<1>4. k \in 1..M /\ Shifted(v)[k] = 0 /\ k \in Nat /\ k <= M
  BY <1>1, <1>3
<1>5. N = 0..(k - 1)
  <2>1. ASSUME NEW n \in N PROVE n \in 0..(k - 1)
    <3>1. n \in 0..(M - 1) /\ n \in Nat
      BY <1>1
    <3>2. CASE n = 0
      BY <3>2, <1>1, <1>4
    <3>3. CASE Shifted(v)[n] # 0
      <4>1. ~(k <= n)
        BY <1>1, <1>4, <3>1, <3>3, NothingAfterNothing
      <4> QED BY <1>1, <1>4, <3>1, <4>1
    <3> QED BY <3>2, <3>3
  <2>2. ASSUME NEW n \in 0..(k - 1) PROVE n \in N
    <3>1. n \in 0..(M - 1) /\ n \in Nat /\ ~(k <= n)
      BY <1>1, <1>4
    <3>2. n # 0 => n \in 1..M
      BY <1>1, <3>1
    <3>3. n # 0 => Shifted(v)[n] # 0
      BY <1>3, <3>1, <3>2
    <3> QED BY <3>1, <3>3
  <2> HIDE DEF N
  <2> QED BY <2>1, <2>2
<1>6. Cardinality(0..(k - 1)) = k
  <2>1. 0 \in Int /\ k - 1 \in Int /\ ~(0 > k - 1) /\ (k - 1) - 0 + 1 = k
    BY <1>1, <1>4
  <2>2. Cardinality(0..(k - 1)) = (k - 1) - 0 + 1
    BY <2>1, FS_Interval
  <2> QED BY <2>1, <2>2
<1>7. VarIntLen(v) = k
  BY <1>5, <1>6 DEF VarIntLen
<1> QED BY <1>4, <1>7

\* The digits of a number, weighed and added up, are the number.
LEMMA NumberOfDigits ==
  ASSUME NEW v \in Nat, NEW n \in Nat, Shifted(v)[n] = 0
  PROVE  NumberOf([i \in 1..n |-> Shifted(v)[i - 1] % Base]) = v
<1> DEFINE digits == [i \in 1..n |-> Shifted(v)[i - 1] % Base]
           left == [i \in 0..n |-> v - Weight[i] * Shifted(v)[i]]
           P(value) == value = [i \in 0..n |->
             IF i = 0 THEN 0 ELSE value[i - 1] + digits[i] * Weight[i - 1]]
<1>1. ASSUME NEW i \in 1..n
      PROVE  /\ i \in 0..n /\ i - 1 \in 0..n /\ i # 0
             /\ left[i] = left[i - 1] + digits[i] * Weight[i - 1]
  <2>1. i \in 0..n /\ i - 1 \in 0..n /\ i \in Nat \ {0} /\ i - 1 \in Nat
    OBVIOUS
  <2>2. PICK w \in Nat, s \in Nat, t \in Nat, d \in Nat :
          /\ w = Weight[i - 1] /\ s = Shifted(v)[i - 1] /\ t = Shifted(v)[i]
          /\ d = Shifted(v)[i - 1] % Base
    <3>1. Weight[i - 1] \in Nat /\ Shifted(v)[i - 1] \in Nat /\ Shifted(v)[i] \in Nat
      <4>1. Weight \in [Nat -> Nat] /\ Shifted(v) \in [Nat -> Nat]
        BY ShiftedFacts, WeightFacts, Zenon
      <4>2. i \in Nat
        BY <2>1
      <4> QED BY <2>1, <4>1, <4>2, Zenon
    <3>2. Shifted(v)[i - 1] % Base \in Nat
      <4>1. Shifted(v)[i - 1] % Base \in 0..(Base - 1) /\ Base \in Nat
        BY <3>1, Division, WireAssumption
      <4> QED BY <4>1
    <3> QED BY <3>1, <3>2
  <2>3. Base \in Nat /\ Weight[i] = Base * w /\ s = Base * t + d
    <3>1. Weight[i] = Base * w
      BY <2>1, <2>2, WeightFacts
    <3>2. s = Base * t + d
      BY <2>1, <2>2, ShiftsAddUp, Zenon
    <3> QED BY <3>1, <3>2, WireAssumption
  <2>4. left[i - 1] = v - w * s /\ left[i] = v - (Base * w) * t /\ digits[i] = d
    BY <2>1, <2>2, <2>3
  <2>5. v - (Base * w) * t = (v - w * (Base * t + d)) + d * w
    BY <2>2, <2>3
  <2>6. left[i] = left[i - 1] + digits[i] * w
    BY <2>3, <2>4, <2>5
  <2> QED BY <2>1, <2>2, <2>6
<1>2. left[0] = 0 /\ left[n] = v
  <2>1. Weight[0] = 1 /\ Shifted(v)[0] = v /\ Weight[n] \in Nat
    BY ShiftedFacts, WeightFacts
  <2>2. Weight[n] * Shifted(v)[n] = 0
    BY <2>1
  <2> QED BY <2>1, <2>2
<1>3. P(left)
  <2>1. ASSUME NEW i \in 0..n
        PROVE  left[i] = IF i = 0 THEN 0 ELSE left[i - 1] + digits[i] * Weight[i - 1]
    <3>1. CASE i = 0
      BY <3>1, <1>2
    <3>2. CASE i # 0
      <4>1. i \in 1..n
        BY <3>2
      <4> HIDE DEF left, digits
      <4> QED BY <4>1, <3>2, <1>1
    <3> QED BY <3>1, <3>2
  <2>2. left = [i \in 0..n |-> left[i]]
    OBVIOUS
  <2> HIDE DEF left, digits
  <2> QED BY <2>1, <2>2
<1>4. ASSUME NEW value, P(value) PROVE value[n] = v
  <2> HIDE DEF left, digits
  <2>1. \A i \in 0..n : value[i] =
          IF i = 0 THEN 0 ELSE value[i - 1] + digits[i] * Weight[i - 1]
    BY <1>4
  <2> HIDE DEF P
  <2> DEFINE T == {i \in Nat : i <= n /\ value[i] # left[i]}
  <2> SUFFICES ASSUME T # {} PROVE FALSE
    BY <1>2
  <2>2. PICK i \in T : \A k \in T : i <= k
    BY LeastOne
  <2>3. 0 \in 0..n
    OBVIOUS
  <2>4. i \in 1..n /\ i - 1 \in Nat /\ i - 1 <= n /\ i \in Nat
    <3>1. value[0] = 0
      BY <2>1, <2>3
    <3>2. i # 0 /\ i \in Nat /\ i <= n
      BY <1>2, <3>1
    <3> QED BY <3>2
  <2>5. i - 1 \notin T
    <3> HIDE DEF T
    <3>1. ~(i <= i - 1)
      BY <2>4
    <3> QED BY <3>1, <2>2
  <2>6. value[i - 1] = left[i - 1]
    BY <2>4, <2>5
  <2>7. value[i] = value[i - 1] + digits[i] * Weight[i - 1]
    BY <1>1, <2>1, <2>4
  <2>8. value[i] = left[i]
    BY <1>1, <2>4, <2>6, <2>7
  <2> QED BY <2>8
<1>5. Len(digits) = n
  <2> DEFINE D == {Shifted(v)[i - 1] % Base : i \in 1..n}
  <2>1. digits \in [1..n -> D]
    OBVIOUS
  <2> HIDE DEF D, digits
  <2>2. digits \in Seq(D)
    BY <2>1
  <2> QED BY <2>1, <2>2
<1>6. NumberOf(digits) = (CHOOSE value : P(value))[n]
  <2> HIDE DEF digits
  <2> QED BY <1>5 DEF NumberOf
<1>7. P(CHOOSE value : P(value))
  <2> HIDE DEF P
  <2> QED BY <1>3
<1> HIDE DEF P, left
<1>8. (CHOOSE value : P(value))[n] = v
  BY <1>4, <1>7
<1> QED BY <1>6, <1>8

(***************************************************************************)
(* ReadVarInt undoes AppendVarInt (varint.go:23 and 55), for every base    *)
(* and width: the bytes of whatever they have room for are a VarInt as     *)
(* they stand and are read as the int32 of it, so that the bytes written   *)
(* for uint32(v) are read as v, negative or not, and those of a number     *)
(* past the word as what the word keeps of it.                             *)
(***************************************************************************)
THEOREM VarIntsAreRead ==
  /\ \A u \in Held :
       LET bytes == AppendVarInt(u)
       IN IsVarInt(bytes, Len(bytes)) /\ ReadVarInt(bytes, Len(bytes)) = Signed(u)
  /\ \A v \in (-SignBit)..(SignBit - 1) :
       LET u == IF v < 0 THEN v + Word ELSE v
       IN u \in Held /\ Signed(u) = v /\ Signed(Word + u) = v
<1>a. ASSUME NEW v \in (-SignBit)..(SignBit - 1), NEW u, u = IF v < 0 THEN v + Word ELSE v
      PROVE  u \in Held /\ Signed(u) = v /\ Signed(Word + u) = v
  <2>1. SignBit \in Nat /\ Word = 2 * SignBit
    BY WireAssumption DEF Word
  <2>2. /\ u \in 0..(Word - 1) /\ u \in 0..(Word + 1)
        /\ v = IF u < SignBit THEN u ELSE u - Word
    BY <1>a, <2>1
  <2>3. u \in Held
    BY <2>2, HeldFacts
  <2>4. u % Word = u /\ (Word + u) % Word = u
    <3>1. u % Word = u /\ (u + Word) % Word = u
      BY <2>2, WordFacts
    <3>2. Word + u = u + Word
      BY <2>1, <2>2
    <3> QED BY <3>1, <3>2
  <2> QED BY <2>2, <2>3, <2>4 DEF Signed
<1>b. ASSUME NEW v \in Held
      PROVE  IsVarInt(AppendVarInt(v), Len(AppendVarInt(v)))
             /\ ReadVarInt(AppendVarInt(v), Len(AppendVarInt(v))) = Signed(v)
  <2> DEFINE bytes == AppendVarInt(v)
             L == VarIntLen(v)
  <2>1. v \in Nat /\ L \in 1..MaxVarIntBytes /\ L \in Nat /\ Shifted(v)[L] = 0
    <3>1. L \in 1..MaxVarIntBytes /\ Shifted(v)[L] = 0
      BY <1>b, VarIntLenFacts
    <3> QED BY <1>b, <3>1, WireAssumption, HeldFacts
  <2>2. Len(bytes) = L
    <3>1. PICK S : bytes \in Seq(S)
      BY AppendVarIntType
    <3>2. DOMAIN bytes = 1..L
      BY DEF AppendVarInt
    <3> QED BY <2>1, <3>1, <3>2
  <2>3. ASSUME NEW i \in 1..L
        PROVE  /\ bytes[i].kind = "number" /\ (bytes[i].value >= Base <=> i < L)
               /\ bytes[i].value % Base = Shifted(v)[i - 1] % Base
    <3>1. i - 1 \in Nat /\ Shifted(v)[i - 1] \in Nat
      BY <2>1, ShiftedFacts
    <3>2. PICK d \in Nat : d = Shifted(v)[i - 1] % Base /\ d < Base
      <4>1. Shifted(v)[i - 1] % Base \in 0..(Base - 1) /\ Base \in Nat
        BY <3>1, Division, WireAssumption
      <4> QED BY <4>1
    <3>3. bytes[i] = Number(d + (IF i < L THEN Base ELSE 0))
      BY <3>2 DEF AppendVarInt
    <3>4. bytes[i].kind = "number" /\ bytes[i].value = d + (IF i < L THEN Base ELSE 0)
      BY <3>3 DEF Number
    <3>5. \A b \in Nat \ {0} : d < b => d % b = d /\ (d + b) % b = d
      OBVIOUS
    <3>6. Base \in Nat \ {0}
      BY WireAssumption
    <3>7. d % Base = d /\ (d + Base) % Base = d
      BY <3>2, <3>5, <3>6
    <3>8. CASE i < L
      <4>1. bytes[i].value = d + Base
        BY <3>4, <3>8
      <4> QED BY <3>2, <3>4, <3>6, <3>7, <3>8, <4>1
    <3>9. CASE ~(i < L)
      <4>1. bytes[i].value = d
        BY <3>4, <3>9
      <4> QED BY <3>2, <3>4, <3>6, <3>7, <3>9, <4>1
    <3> QED BY <3>8, <3>9
  <2>4. IsVarInt(bytes, L)
    BY <2>1, <2>2, <2>3, WireAssumption DEF IsVarInt
  <2>5. ReadVarInt(bytes, L) = Signed(v)
    <3>1. [i \in 1..L |-> bytes[i].value % Base] = [i \in 1..L |-> Shifted(v)[i - 1] % Base]
      BY <2>3
    <3> QED BY <2>1, <3>1, NumberOfDigits DEF ReadVarInt
  <2> QED BY <2>2, <2>4, <2>5
<1> QED BY <1>a, <1>b

-----------------------------------------------------------------------------
(* VarInts and frames at the front of a sequence of bytes.                 *)

\* The same byte, whoever put it on the wire.
Same(a, b) == a.kind = b.kind /\ a.value = b.value /\ a.packet = b.packet

\* What there is of bytes agrees with f, as far as f goes.
Agrees(bytes, f) == \A i \in 1..Len(f) : i <= Len(bytes) => Same(bytes[i], f[i])

\* The bytes of the VarInt of v.
LEMMA VarIntFacts ==
  ASSUME NEW v \in Held
  PROVE  /\ VarIntLen(v) \in 1..MaxVarIntBytes
         /\ Len(AppendVarInt(v)) = VarIntLen(v)
         /\ \A i \in 1..VarIntLen(v) :
              /\ AppendVarInt(v)[i].kind = "number"
              /\ AppendVarInt(v)[i].value >= Base <=> i < VarIntLen(v)
         /\ Signed(NumberOf([i \in 1..VarIntLen(v) |-> AppendVarInt(v)[i].value % Base]))
              = Signed(v)
<1> DEFINE b == AppendVarInt(v)
           L == VarIntLen(v)
<1>1. L \in Nat
  BY VarIntLenType
<1>2. L >= 1
  BY VarIntLenFacts, WireAssumption
<1>3. Len(b) = L
  <2>1. \E S : b \in Seq(S)
    BY AppendVarIntType
  <2>2. DOMAIN b = 1..L
    BY DEF AppendVarInt
  <2> QED
    BY <1>1, <2>1, <2>2
<1>4. IsVarInt(b, L) /\ ReadVarInt(b, L) = Signed(v)
  BY <1>3, VarIntsAreRead
<1> HIDE DEF b, L
<1>5. L <= MaxVarIntBytes /\ \A i \in 1..L : b[i].kind = "number" /\ (b[i].value >= Base <=> i < L)
  BY <1>4 DEF IsVarInt
<1>6. Signed(NumberOf([i \in 1..L |-> b[i].value % Base])) = Signed(v)
  BY <1>4 DEF ReadVarInt
<1> QED
  BY <1>1, <1>2, <1>3, <1>5, <1>6, WireAssumption DEF b, L

\* Bytes that agree with a VarInt hold no other, and none before it is whole.
LEMMA VarIntFront ==
  ASSUME NEW v \in Held, NEW S, NEW bytes \in Seq(S),
         Agrees(bytes, AppendVarInt(v))
  PROVE  /\ \A k \in Nat \ {0} :
              IsVarInt(bytes, k) <=> k = VarIntLen(v) /\ k <= Len(bytes)
         /\ VarIntLen(v) <= Len(bytes) => ReadVarInt(bytes, VarIntLen(v)) = Signed(v)
<1> DEFINE b == AppendVarInt(v)
           L == VarIntLen(v)
<1>1. L \in 1..MaxVarIntBytes /\ L \in Nat \ {0} /\ Len(bytes) \in Nat
  <2>1. L \in 1..MaxVarIntBytes
    BY VarIntFacts, Zenon
  <2> QED
    BY <2>1, WireAssumption
<1>2. \A i \in 1..L : i <= Len(bytes) =>
        bytes[i].kind = "number" /\ bytes[i].value = b[i].value
        /\ (bytes[i].value >= Base <=> i < L)
  BY VarIntFacts DEF Agrees, Same
<1> HIDE DEF b, L
<1>3. ASSUME NEW k \in Nat \ {0}, IsVarInt(bytes, k) PROVE k = L /\ k <= Len(bytes)
  <2>1. k <= Len(bytes) /\ \A i \in 1..k : bytes[i].value >= Base <=> i < k
    BY <1>3 DEF IsVarInt
  <2>2. ~(k < L)
    BY <1>1, <1>2, <2>1
  <2>3. ~(L < k)
    BY <1>1, <1>2, <2>1
  <2> QED
    BY <1>1, <2>1, <2>2, <2>3
<1>4. L <= Len(bytes) => IsVarInt(bytes, L)
  BY <1>1, <1>2 DEF IsVarInt
<1>5. ASSUME L <= Len(bytes) PROVE ReadVarInt(bytes, L) = Signed(v)
  <2>1. [i \in 1..L |-> bytes[i].value % Base] = [i \in 1..L |-> b[i].value % Base]
    BY <1>1, <1>2, <1>5
  <2>2. Signed(NumberOf([i \in 1..L |-> b[i].value % Base])) = Signed(v)
    BY VarIntFacts DEF b, L
  <2> QED
    BY <2>1, <2>2 DEF ReadVarInt
<1> QED
  BY <1>3, <1>4, <1>5 DEF L

\* So does a frame at the front of the bytes end where it ends, and half of one
\* nowhere.
LEMMA FrameFront ==
  ASSUME NEW T, NEW f \in Seq(T), Len(f) <= MaxPacketSize,
         NEW S, NEW bytes \in Seq(S), Agrees(bytes, Framed(f)), NEW n \in Nat
  PROVE  IsFrame(bytes, n) <=>
           n = Len(Framed(f)) /\ VarIntLen(Len(f)) <= Len(bytes)
<1> DEFINE v == Len(f)
           L == VarIntLen(v)
<1>1. v \in 0..MaxPacketSize /\ v \in Nat /\ v \in Held /\ Signed(v) = v
  <2>1. v \in 0..(MaxPacketSize + 1) /\ v \in 0..MaxPacketSize /\ v \in Nat
    BY WireAssumption
  <2> HIDE DEF v
  <2> QED
    BY <2>1, LengthFacts
<1>2. L \in 1..MaxVarIntBytes /\ Len(AppendVarInt(v)) = L /\ L \in Nat \ {0}
  <2>1. L \in 1..MaxVarIntBytes /\ Len(AppendVarInt(v)) = L
    BY <1>1, VarIntFacts, Zenon
  <2> QED
    BY <2>1, WireAssumption
<1>3. PICK U : AppendVarInt(v) \in Seq(U)
  BY AppendVarIntType
<1>4. Len(Framed(f)) = L + v /\ \A i \in 1..L : Framed(f)[i] = AppendVarInt(v)[i]
  <2>1. AppendVarInt(v) \in Seq(U \cup T) /\ f \in Seq(U \cup T)
    BY <1>3
  <2> QED
    BY <1>2, <2>1 DEF Framed
<1>5. Agrees(bytes, AppendVarInt(v))
  BY <1>1, <1>2, <1>4 DEF Agrees
<1>6. /\ \A k \in Nat \ {0} : IsVarInt(bytes, k) <=> k = L /\ k <= Len(bytes)
      /\ L <= Len(bytes) => ReadVarInt(bytes, L) = v
  BY <1>1, <1>5, VarIntFront
<1>7. MaxVarIntBytes \in Nat
  BY WireAssumption
<1> HIDE DEF v, L
<1>8. IsFrame(bytes, n) <=> L <= Len(bytes) /\ v = n - L
  <2>1. \A k \in 1..MaxVarIntBytes : IsVarInt(bytes, k) <=> k = L /\ k <= Len(bytes)
    BY <1>6, <1>7
  <2>2. v \in 0..MaxPacketSize /\ v = Len(f)
    BY <1>1 DEF v
  <2> QED
    BY <1>1, <1>2, <1>6, <2>1, <2>2 DEF IsFrame
<1> QED
  BY <1>1, <1>2, <1>4, <1>8 DEF L, v

LEMMA AfterVarInt ==
  ASSUME NEW v \in Held, NEW S, NEW bytes \in Seq(S),
         Agrees(bytes, AppendVarInt(v)), VarIntLen(v) <= Len(bytes)
  PROVE  /\ After(bytes) \in Seq(S) /\ Len(After(bytes)) = Len(bytes) - VarIntLen(v)
         /\ \A i \in 1..(Len(bytes) - VarIntLen(v)) :
              After(bytes)[i] = bytes[VarIntLen(v) + i]
<1> DEFINE L == VarIntLen(v)
<1>1. L \in Nat /\ L >= 1
  <2>1. L \in 1..MaxVarIntBytes
    BY VarIntFacts, Zenon
  <2> QED
    BY <2>1, WireAssumption
<1>2. \A k \in Nat \ {0} : IsVarInt(bytes, k) <=> k = L /\ k <= Len(bytes)
  BY VarIntFront
<1> HIDE DEF L
<1>3. \A k \in 1..Len(bytes) : IsVarInt(bytes, k) <=> k = L
  BY <1>1, <1>2
<1>4. (CHOOSE k \in 1..Len(bytes) : IsVarInt(bytes, k)) = L
  BY <1>1, <1>3 DEF L
<1>5. After(bytes) = SubSeq(bytes, L + 1, Len(bytes))
  BY <1>4 DEF After
<1> QED
  BY <1>1, <1>5 DEF L

-----------------------------------------------------------------------------
(* A packet, encoded under a threshold and decoded under the same.         *)

Packets == ToServer \cup ToClient
Levels == Thresholds \cup {CompressionDisabled}

IsPayload(bytes, p) ==
  /\ \E S : bytes \in Seq(S)
  /\ Len(bytes) = Size(p)
  /\ \A i \in 1..Size(p) :
       bytes[i].kind = "payload" /\ bytes[i].value = i /\ bytes[i].packet = p

LEMMA SizeType == ASSUME NEW p PROVE Size(p) \in 1..2
  BY DEF Size

LEMMA PayloadIs == ASSUME NEW p PROVE IsPayload(Payload(p), p)
<1>1. \E S : Payload(p) \in Seq(S)
  BY PayloadType
<1>2. DOMAIN Payload(p) = 1..Size(p) /\ Size(p) \in Nat
  BY SizeType DEF Payload
<1>3. Len(Payload(p)) = Size(p)
  BY <1>1, <1>2
<1> QED
  BY <1>1, <1>3 DEF IsPayload, Payload

\* Both are sequences, and the frame is no longer than it may be.
LEMMA EncodeFrameType ==
  ASSUME NEW p, NEW t \in Levels
  PROVE  /\ \E S : EncodeFrame(p, t) \in Seq(S)
         /\ Len(EncodeFrame(p, t)) \in 1..MaxPacketSize
<1>1. PICK S : Payload(p) \in Seq(S) /\ Len(Payload(p)) = Size(p)
  BY PayloadIs DEF IsPayload
<1>2. PICK T : Zlib(p) \in Seq(T) /\ Len(Zlib(p)) = 1
  <2>1. Zlib(p) \in Seq({Zlib(p)[1]}) /\ Len(Zlib(p)) = 1
    BY DEF Zlib
  <2> QED
    BY <2>1
<1>3. Size(p) \in 1..2
  BY SizeType
<1>4. 0 \in Held /\ Size(p) \in Held
  <2>1. 0 \in 0..(MaxPacketSize + 1) /\ Size(p) \in 0..(MaxPacketSize + 1)
    BY <1>3, WireAssumption
  <2> QED
    BY <2>1, LengthFacts
<1>5. ASSUME NEW v \in Held, NEW U, NEW body \in Seq(U),
             Len(body) \in 1..2
      PROVE  /\ \E R : AppendVarInt(v) \o body \in Seq(R)
             /\ Len(AppendVarInt(v) \o body) \in 1..MaxPacketSize
  <2>1. PICK R : AppendVarInt(v) \in Seq(R)
    BY AppendVarIntType
  <2>2. Len(AppendVarInt(v)) = VarIntLen(v) /\ VarIntLen(v) \in 1..MaxVarIntBytes
    BY VarIntFacts, Zenon
  <2>3. AppendVarInt(v) \in Seq(R \cup U) /\ body \in Seq(R \cup U)
    BY <2>1
  <2>4. /\ AppendVarInt(v) \o body \in Seq(R \cup U)
        /\ Len(AppendVarInt(v) \o body) = VarIntLen(v) + Len(body)
    BY <2>2, <2>3
  <2>5. VarIntLen(v) + Len(body) \in 1..MaxPacketSize
    <3>1. \A x \in 1..MaxVarIntBytes, y \in 1..2 : x + y \in 1..MaxPacketSize
      BY WireAssumption
    <3> QED
      BY <1>5, <2>2, <3>1, Zenon
  <2> QED
    BY <2>4, <2>5
<1>6. \E R : AppendVarInt(0) \o Payload(p) \in Seq(R)
  BY <1>1, <1>3, <1>4, <1>5
<1>7. Len(AppendVarInt(0) \o Payload(p)) \in 1..MaxPacketSize
  BY <1>1, <1>3, <1>4, <1>5
<1>8. \E R : AppendVarInt(Size(p)) \o Zlib(p) \in Seq(R)
  BY <1>2, <1>4, <1>5
<1>9. Len(AppendVarInt(Size(p)) \o Zlib(p)) \in 1..MaxPacketSize
  BY <1>2, <1>4, <1>5
<1>10. Len(Payload(p)) \in 1..MaxPacketSize
  BY <1>1, <1>3, WireAssumption
<1> QED
  BY <1>1, <1>6, <1>7, <1>8, <1>9, <1>10 DEF EncodeFrame

\* A VarInt and what follows it, told apart again.
LEMMA SplitVarInt ==
  ASSUME NEW v \in 0..(MaxPacketSize + 1), NEW T, NEW body \in Seq(T),
         NEW S, NEW bytes \in Seq(S),
         Len(bytes) = Len(AppendVarInt(v) \o body), Agrees(bytes, AppendVarInt(v) \o body)
  PROVE  /\ VarIntLen(v) \in 1..Len(bytes)
         /\ \A k \in Nat \ {0} : IsVarInt(bytes, k) <=> k = VarIntLen(v)
         /\ ReadVarInt(bytes, VarIntLen(v)) = v
         /\ After(bytes) \in Seq(S) /\ Len(After(bytes)) = Len(body)
         /\ Agrees(After(bytes), body)
<1> DEFINE L == VarIntLen(v)
<1>0. v \in Held /\ Signed(v) = v
  BY LengthFacts
<1>1. L \in 1..MaxVarIntBytes /\ Len(AppendVarInt(v)) = L
  BY <1>0, VarIntFacts, Zenon
<1>2. L \in Nat \ {0}
  BY <1>1, WireAssumption
<1>3. PICK U : AppendVarInt(v) \in Seq(U)
  BY AppendVarIntType
<1>4. /\ Len(bytes) = L + Len(body) /\ Len(body) \in Nat
      /\ \A i \in 1..L : (AppendVarInt(v) \o body)[i] = AppendVarInt(v)[i]
      /\ \A i \in 1..Len(body) : (AppendVarInt(v) \o body)[L + i] = body[i]
      /\ Len(AppendVarInt(v) \o body) = L + Len(body)
  <2>1. AppendVarInt(v) \in Seq(U \cup T) /\ body \in Seq(U \cup T)
    BY <1>3
  <2> QED
    BY <1>1, <2>1
<1> HIDE DEF L
<1>5. Agrees(bytes, AppendVarInt(v))
  BY <1>1, <1>2, <1>4 DEF Agrees
<1>6. L <= Len(bytes)
  BY <1>2, <1>4
<1>7. /\ \A k \in Nat \ {0} : IsVarInt(bytes, k) <=> k = L /\ k <= Len(bytes)
      /\ ReadVarInt(bytes, L) = v
  BY <1>0, <1>5, <1>6, VarIntFront DEF L
<1>8. /\ After(bytes) \in Seq(S) /\ Len(After(bytes)) = Len(bytes) - L
      /\ \A i \in 1..(Len(bytes) - L) : After(bytes)[i] = bytes[L + i]
  BY <1>0, <1>5, <1>6, AfterVarInt DEF L
<1>9. Agrees(After(bytes), body)
  <2> SUFFICES ASSUME NEW i \in 1..Len(body) PROVE Same(After(bytes)[i], body[i])
    BY DEF Agrees
  <2>1. After(bytes)[i] = bytes[L + i]
    <3>1. i \in 1..(Len(bytes) - L)
      BY <1>2, <1>4
    <3> QED
      BY <1>8, <3>1
  <2>2. Same(bytes[L + i], (AppendVarInt(v) \o body)[L + i])
    BY <1>2, <1>4 DEF Agrees
  <2> QED
    BY <1>4, <2>1, <2>2
<1>10. Len(After(bytes)) = Len(body)
  BY <1>2, <1>4, <1>8
<1>11. L \in 1..Len(bytes) /\ \A k \in Nat \ {0} : IsVarInt(bytes, k) <=> k = L
  BY <1>2, <1>6, <1>7
<1> QED
  BY <1>7, <1>8, <1>9, <1>10, <1>11 DEF L

\* Bytes that agree with a payload are one.
LEMMA SamePayload ==
  ASSUME NEW p, NEW S, NEW bytes \in Seq(S), Len(bytes) = Len(Payload(p)),
         Agrees(bytes, Payload(p))
  PROVE  IsPayload(bytes, p)
<1>1. Len(Payload(p)) = Size(p) /\ Size(p) \in Nat
  BY PayloadIs, SizeType DEF IsPayload
<1>2. \A i \in 1..Size(p) : Same(bytes[i], Payload(p)[i])
  BY <1>1 DEF Agrees
<1>3. \A i \in 1..Size(p) :
        Payload(p)[i].kind = "payload" /\ Payload(p)[i].value = i /\ Payload(p)[i].packet = p
  BY PayloadIs DEF IsPayload
<1> QED
  BY <1>1, <1>2, <1>3 DEF IsPayload, Same

LEMMA DecompressedIs ==
  ASSUME NEW p, NEW t \in Levels, t >= 0, NEW S, NEW frame \in Seq(S),
         Len(frame) = Len(EncodeFrame(p, t)), Agrees(frame, EncodeFrame(p, t))
  PROVE  IsPayload(DecompressFrame(frame), p)
<1>1. Size(p) \in 1..2 /\ 0 \in 0..(MaxPacketSize + 1) /\ Size(p) \in 0..(MaxPacketSize + 1)
      /\ Size(p) <= MaxPacketSize
  BY SizeType, WireAssumption
<1>2. t \in Int /\ ~(t < 0)
  BY WireAssumption DEF Levels, CompressionDisabled
<1>3. ASSUME NEW v \in 0..(MaxPacketSize + 1), NEW L, L \in 1..Len(frame),
             \A k \in Nat \ {0} : IsVarInt(frame, k) <=> k = L, ReadVarInt(frame, L) = v
      PROVE  DecompressFrame(frame) =
               IF v = 0 THEN After(frame)
               ELSE IF /\ v \in 1..MaxPacketSize
                       /\ After(frame) # <<>> /\ After(frame)[1].kind = "zlib"
                       /\ After(frame)[1].value >= v
               THEN SubSeq(Payload(After(frame)[1].packet), 1, v) ELSE <<>>
  <2>1. \A k \in 1..Len(frame) : IsVarInt(frame, k) <=> k = L
    BY <1>3
  <2>2. (CHOOSE k \in 1..Len(frame) : IsVarInt(frame, k)) = L
    BY <1>3, <2>1
  <2> QED
    BY <1>3, <2>1, <2>2 DEF DecompressFrame
<1>4. CASE Size(p) < t
  <2>1. EncodeFrame(p, t) = AppendVarInt(0) \o Payload(p)
    BY <1>2, <1>4 DEF EncodeFrame
  <2>2. PICK T : Payload(p) \in Seq(T)
    BY PayloadType
  <2>3. PICK v \in 0..(MaxPacketSize + 1) : v = 0
    BY <1>1
  <2>4. Len(frame) = Len(AppendVarInt(v) \o Payload(p)) /\ Agrees(frame, AppendVarInt(v) \o Payload(p))
    BY <2>1, <2>3
  <2>5. /\ VarIntLen(v) \in 1..Len(frame)
        /\ \A k \in Nat \ {0} : IsVarInt(frame, k) <=> k = VarIntLen(v)
        /\ ReadVarInt(frame, VarIntLen(v)) = v
        /\ After(frame) \in Seq(S) /\ Len(After(frame)) = Len(Payload(p))
        /\ Agrees(After(frame), Payload(p))
    BY <2>2, <2>4, SplitVarInt
  <2>6. DecompressFrame(frame) = After(frame)
    BY <1>3, <2>3, <2>5
  <2> QED
    BY <2>5, <2>6, SamePayload
<1>5. CASE ~(Size(p) < t)
  <2> DEFINE v == Size(p)
  <2>1. EncodeFrame(p, t) = AppendVarInt(v) \o Zlib(p)
    BY <1>2, <1>5 DEF EncodeFrame
  <2>2. PICK T : Zlib(p) \in Seq(T) /\ Len(Zlib(p)) = 1
    <3>1. Zlib(p) \in Seq({Zlib(p)[1]}) /\ Len(Zlib(p)) = 1
      BY DEF Zlib
    <3> QED
      BY <3>1
  <2>3. Zlib(p)[1] = [kind |-> "zlib", value |-> Size(p), packet |-> p]
    BY DEF Zlib
  <2>4. v \in 0..(MaxPacketSize + 1) /\ v # 0 /\ v \in 1..MaxPacketSize /\ v >= v /\ v \in Nat
    BY <1>1, WireAssumption
  <2> HIDE DEF v
  <2>5. /\ VarIntLen(v) \in 1..Len(frame)
        /\ \A k \in Nat \ {0} : IsVarInt(frame, k) <=> k = VarIntLen(v)
        /\ ReadVarInt(frame, VarIntLen(v)) = v
        /\ After(frame) \in Seq(S) /\ Len(After(frame)) = Len(Zlib(p))
        /\ Agrees(After(frame), Zlib(p))
    BY <2>1, <2>2, <2>4, SplitVarInt
  <2>6. After(frame) # <<>> /\ Same(After(frame)[1], Zlib(p)[1])
    <3>1. Len(After(frame)) = 1 /\ 1 \in 1..Len(Zlib(p))
      BY <2>2, <2>5
    <3>2. Same(After(frame)[1], Zlib(p)[1])
      BY <2>5, <3>1 DEF Agrees
    <3>3. After(frame) # <<>>
      BY <3>1
    <3> QED
      BY <3>2, <3>3
  <2>7. /\ After(frame)[1].kind = "zlib" /\ After(frame)[1].value = v
        /\ After(frame)[1].packet = p
    BY <2>3, <2>6 DEF Same, v
  <2>8. DecompressFrame(frame) = SubSeq(Payload(p), 1, v)
    BY <1>3, <2>4, <2>5, <2>6, <2>7
  <2>9. PICK U : Payload(p) \in Seq(U) /\ Len(Payload(p)) = v
    BY PayloadIs DEF IsPayload, v
  <2>10. SubSeq(Payload(p), 1, v) = Payload(p)
    BY <2>4, <2>9
  <2> QED
    BY <2>8, <2>10, PayloadIs
<1> QED
  BY <1>4, <1>5

\* What the reader makes of a whole frame.
LEMMA PacketRead ==
  ASSUME NEW p, NEW t \in Levels, NEW S, NEW bytes \in Seq(S),
         Len(bytes) = Len(Framed(EncodeFrame(p, t))), Agrees(bytes, Framed(EncodeFrame(p, t)))
  PROVE  PacketOf(bytes, t) = p
<1> DEFINE f == EncodeFrame(p, t)
           payload == IF t >= 0 THEN DecompressFrame(After(bytes)) ELSE After(bytes)
<1>1. PICK T : f \in Seq(T)
  BY EncodeFrameType
<1>2. Len(f) \in 0..(MaxPacketSize + 1)
  BY EncodeFrameType, WireAssumption
<1> HIDE DEF f
<1>3. After(bytes) \in Seq(S) /\ Len(After(bytes)) = Len(f) /\ Agrees(After(bytes), f)
  BY <1>1, <1>2, SplitVarInt DEF Framed, f
<1>4. t \in Int
  BY WireAssumption DEF Levels, CompressionDisabled
<1>5. IsPayload(payload, p)
  <2>1. CASE t >= 0
    BY <2>1, <1>3, DecompressedIs DEF f
  <2>2. CASE ~(t >= 0)
    <3>1. f = Payload(p)
      BY <1>4, <2>2 DEF f, EncodeFrame
    <3> QED
      BY <2>2, <3>1, <1>3, SamePayload
  <2> QED
    BY <2>1, <2>2
<1>6. PacketOf(bytes, t) =
        IF payload = <<>> THEN "error"
        ELSE IF /\ payload[1].kind = "payload" /\ Len(payload) = Size(payload[1].packet)
                /\ \A i \in 1..Size(payload[1].packet) :
                     payload[i].packet = payload[1].packet /\ payload[i].value = i
        THEN payload[1].packet ELSE "garbage"
  BY DEF PacketOf
<1> HIDE DEF payload
<1>7. payload # <<>> /\ payload[1].packet = p /\ payload[1].kind = "payload"
  BY <1>5, SizeType DEF IsPayload
<1> QED
  BY <1>5, <1>6, <1>7 DEF IsPayload

-----------------------------------------------------------------------------
(* A stream: m frames, one after another, in the first n bytes.            *)

Cuts(bytes, m, frames, n, cut) ==
  /\ cut \in [0..m -> 0..n] /\ cut[0] = 0 /\ cut[m] = n
  /\ \A i, j \in 0..m : i <= j => cut[i] <= cut[j]
  /\ \A j \in 1..m :
       /\ Len(frames[j]) \in Nat /\ cut[j] = cut[j - 1] + Len(frames[j])
       /\ \A i \in 1..Len(frames[j]) : Same(bytes[cut[j - 1] + i], frames[j][i])

Stream(bytes, m, frames, n) ==
  m \in Nat /\ n \in 0..Len(bytes) /\ \E cut : Cuts(bytes, m, frames, n, cut)

LEMMA StreamEmpty ==
  ASSUME NEW S, NEW bytes \in Seq(S), NEW frames PROVE Stream(bytes, 0, frames, 0)
<1> DEFINE cut == [j \in 0..0 |-> 0]
<1>1. Cuts(bytes, 0, frames, 0, cut)
  BY DEF Cuts
<1> QED
  BY <1>1 DEF Stream

\* Nothing is in a stream of no frames.
LEMMA StreamNone ==
  ASSUME NEW bytes, NEW frames, NEW n, Stream(bytes, 0, frames, n) PROVE n = 0
  BY DEF Stream, Cuts

\* Bytes that come after it are no matter of the stream, and frames that are equal
\* are the same ones.
LEMMA StreamGrows ==
  ASSUME NEW S, NEW bytes \in Seq(S), NEW T, NEW more \in Seq(T), Len(bytes) <= Len(more),
         \A i \in 1..Len(bytes) : more[i] = bytes[i],
         NEW m, NEW n, NEW frames, NEW same, \A j \in 1..m : same[j] = frames[j],
         Stream(bytes, m, frames, n)
  PROVE  Stream(more, m, same, n)
<1>1. m \in Nat /\ n \in 0..Len(bytes)
  BY DEF Stream
<1>2. PICK cut : Cuts(bytes, m, frames, n, cut)
  BY DEF Stream
<1>3. cut \in [0..m -> 0..n] /\ \A i, j \in 0..m : i <= j => cut[i] <= cut[j]
  BY <1>2 DEF Cuts
<1>4. ASSUME NEW j \in 1..m
      PROVE  /\ Len(same[j]) \in Nat /\ cut[j] = cut[j - 1] + Len(same[j])
             /\ \A i \in 1..Len(same[j]) : Same(more[cut[j - 1] + i], same[j][i])
  <2>1. same[j] = frames[j]
    BY <1>4
  <2>2. /\ Len(same[j]) \in Nat /\ cut[j] = cut[j - 1] + Len(same[j])
        /\ \A i \in 1..Len(same[j]) : Same(bytes[cut[j - 1] + i], same[j][i])
    BY <1>2, <1>4, <2>1 DEF Cuts
  <2>3. cut[j - 1] \in 0..n /\ cut[j] \in 0..n
    BY <1>1, <1>3, <1>4
  <2>4. ASSUME NEW i \in 1..Len(same[j]) PROVE more[cut[j - 1] + i] = bytes[cut[j - 1] + i]
    <3>1. \A a, l, k, h \in Nat : i \in 1..l /\ a + l <= k /\ k <= h => a + i \in 1..h
      OBVIOUS
    <3>2. cut[j - 1] \in Nat /\ n \in Nat /\ Len(bytes) \in Nat /\ n <= Len(bytes)
      BY <1>1, <2>3
    <3>3. cut[j - 1] + Len(same[j]) <= n
      BY <1>1, <2>2, <2>3
    <3>4. cut[j - 1] + i \in 1..Len(bytes)
      BY <2>2, <2>4, <3>1, <3>2, <3>3, Zenon
    <3> QED
      BY <3>4
  <2> QED
    BY <2>2, <2>4
<1>5. Cuts(more, m, same, n, cut)
  BY <1>2, <1>4 DEF Cuts
<1> QED
  BY <1>1, <1>5 DEF Stream

\* A frame that has become whole joins the stream.
LEMMA StreamPush ==
  ASSUME NEW S, NEW bytes \in Seq(S), NEW m, NEW n, NEW frames, NEW f, Len(f) \in Nat,
         Stream(bytes, m, frames, n), n + Len(f) <= Len(bytes),
         \A i \in 1..Len(f) : Same(bytes[n + i], f[i]),
         NEW longer, \A j \in 1..m : longer[j] = frames[j], longer[m + 1] = f
  PROVE  Stream(bytes, m + 1, longer, n + Len(f))
<1>1. m \in Nat /\ n \in 0..Len(bytes) /\ n \in Nat
  BY DEF Stream
<1>2. PICK cut : Cuts(bytes, m, frames, n, cut)
  BY DEF Stream
<1>3. /\ cut \in [0..m -> 0..n] /\ \A i, j \in 0..m : i <= j => cut[i] <= cut[j]
      /\ cut[0] = 0 /\ cut[m] = n
  BY <1>2 DEF Cuts
<1> DEFINE more == [j \in 0..(m + 1) |-> IF j = m + 1 THEN n + Len(f) ELSE cut[j]]
<1>4. \A j \in 0..m : more[j] = cut[j] /\ cut[j] \in 0..n
  BY <1>1, <1>3
<1>5. more[m + 1] = n + Len(f) /\ DOMAIN more = 0..(m + 1)
  BY <1>1
<1>6. more \in [0..(m + 1) -> 0..(n + Len(f))]
  BY <1>1, <1>3
<1> HIDE DEF more
<1>7. \A i, j \in 0..(m + 1) : i <= j => more[i] <= more[j]
  <2> SUFFICES ASSUME NEW i \in 0..(m + 1), NEW j \in 0..(m + 1), i <= j
               PROVE  more[i] <= more[j]
    OBVIOUS
  <2>1. CASE j \in 0..m
    <3>1. i \in 0..m
      BY <1>1, <2>1
    <3> QED
      BY <1>3, <1>4, <2>1, <3>1
  <2>2. CASE j = m + 1
    <3>1. more[i] \in 0..(n + Len(f))
      BY <1>6
    <3> QED
      BY <1>1, <1>5, <2>2, <3>1
  <2> QED
    BY <1>1, <2>1, <2>2
<1>8. ASSUME NEW j \in 1..(m + 1)
      PROVE  /\ Len(longer[j]) \in Nat /\ more[j] = more[j - 1] + Len(longer[j])
             /\ \A i \in 1..Len(longer[j]) : Same(bytes[more[j - 1] + i], longer[j][i])
  <2>1. CASE j \in 1..m
    <3>1. j \in 0..m /\ j - 1 \in 0..m
      BY <1>1, <2>1
    <3>2. more[j] = cut[j] /\ more[j - 1] = cut[j - 1] /\ longer[j] = frames[j]
      BY <1>4, <2>1, <3>1
    <3> QED
      BY <1>2, <2>1, <3>2 DEF Cuts
  <2>2. CASE j = m + 1
    <3>1. j - 1 = m /\ m \in 0..m
      BY <1>1, <2>2
    <3>2. more[j - 1] = n /\ more[j] = n + Len(f) /\ longer[j] = f
      BY <1>3, <1>4, <1>5, <2>2, <3>1
    <3> QED
      BY <3>2
  <2> QED
    BY <1>1, <2>1, <2>2
<1>9. more[0] = 0
  BY <1>1, <1>3, <1>4
<1>10. Cuts(bytes, m + 1, longer, n + Len(f), more)
  BY <1>5, <1>6, <1>7, <1>8, <1>9 DEF Cuts
<1> QED
  BY <1>1, <1>10 DEF Stream

\* The first frame is at the front, and what follows it is a stream again.
LEMMA StreamFirst ==
  ASSUME NEW S, NEW bytes \in Seq(S), NEW m, NEW n, NEW frames,
         Stream(bytes, m, frames, n), m # 0
  PROVE  Len(frames[1]) \in 0..n /\ n <= Len(bytes) /\ Agrees(bytes, frames[1])
<1>1. m \in Nat /\ n \in 0..Len(bytes) /\ 1 \in 1..m /\ 1 \in 0..m
  BY DEF Stream
<1>2. PICK cut : Cuts(bytes, m, frames, n, cut)
  BY DEF Stream
<1>3. /\ Len(frames[1]) \in Nat /\ cut[1] = Len(frames[1]) /\ cut[1] \in 0..n
      /\ \A i \in 1..Len(frames[1]) : Same(bytes[i], frames[1][i])
  <2>1. cut[1] = cut[1 - 1] + Len(frames[1]) /\ cut[1 - 1] = 0 /\ cut[1] \in 0..n
        /\ Len(frames[1]) \in Nat
        /\ \A i \in 1..Len(frames[1]) : Same(bytes[cut[1 - 1] + i], frames[1][i])
    BY <1>1, <1>2 DEF Cuts
  <2> QED
    BY <2>1
<1> QED
  BY <1>1, <1>3 DEF Agrees

LEMMA StreamPop ==
  ASSUME NEW S, NEW bytes \in Seq(S), NEW m, NEW n, NEW frames,
         Stream(bytes, m, frames, n), m # 0,
         NEW others, \A j \in 1..(m - 1) : others[j] = frames[j + 1]
  PROVE  Stream(SubSeq(bytes, Len(frames[1]) + 1, Len(bytes)), m - 1, others,
                n - Len(frames[1]))
<1> DEFINE l == Len(frames[1])
           later == SubSeq(bytes, l + 1, Len(bytes))
<1>1. m \in Nat /\ m - 1 \in Nat /\ n \in 0..Len(bytes) /\ n \in Nat /\ Len(bytes) \in Nat
  BY DEF Stream
<1>2. l \in 0..n /\ l \in Nat
  BY <1>1, StreamFirst
<1>3. PICK cut : Cuts(bytes, m, frames, n, cut)
  BY DEF Stream
<1>4. cut[1] = l
  <2>1. 1 \in 1..m
    BY <1>1
  <2>2. cut[1] = cut[1 - 1] + l /\ cut[1 - 1] = 0
    BY <1>3, <2>1 DEF Cuts
  <2> QED
    BY <1>2, <2>2
<1> HIDE DEF l
<1>5. Len(later) = Len(bytes) - l /\ \A i \in 1..(Len(bytes) - l) : later[i] = bytes[l + i]
  BY <1>1, <1>2
<1> HIDE DEF later
<1> DEFINE less == [j \in 0..(m - 1) |-> cut[j + 1] - l]
<1>6. /\ cut \in [0..m -> 0..n] /\ \A i, j \in 0..m : i <= j => cut[i] <= cut[j]
      /\ cut[m] = n
  BY <1>3 DEF Cuts
<1>7. \A j \in 0..(m - 1) :
        /\ less[j] = cut[j + 1] - l /\ j + 1 \in 1..m /\ j + 1 \in 0..m
        /\ cut[j + 1] \in l..n
  <2> SUFFICES ASSUME NEW j \in 0..(m - 1)
               PROVE  j + 1 \in 1..m /\ j + 1 \in 0..m /\ cut[j + 1] \in l..n
    OBVIOUS
  <2>1. j + 1 \in 1..m /\ j + 1 \in 0..m /\ 1 \in 0..m /\ 1 <= j + 1
    BY <1>1
  <2>2. cut[1] <= cut[j + 1] /\ cut[j + 1] \in 0..n
    BY <1>6, <2>1
  <2> QED
    BY <1>1, <1>2, <1>4, <2>1, <2>2
<1>8. less \in [0..(m - 1) -> 0..(n - l)]
  <2>1. \A j \in 0..(m - 1) : cut[j + 1] - l \in 0..(n - l)
    BY <1>1, <1>2, <1>7
  <2> QED
    BY <2>1
<1> HIDE DEF less
<1>9. less[0] = 0 /\ less[m - 1] = n - l
  <2>1. 0 \in 0..(m - 1) /\ m - 1 \in 0..(m - 1) /\ (m - 1) + 1 = m /\ 0 + 1 = 1
    BY <1>1
  <2> QED
    BY <1>2, <1>4, <1>6, <1>7, <2>1
<1>10. \A i, j \in 0..(m - 1) : i <= j => less[i] <= less[j]
  <2> SUFFICES ASSUME NEW i \in 0..(m - 1), NEW j \in 0..(m - 1), i <= j
               PROVE  less[i] <= less[j]
    OBVIOUS
  <2>1. cut[i + 1] <= cut[j + 1]
    BY <1>1, <1>6, <1>7
  <2>2. cut[i + 1] \in l..n /\ cut[j + 1] \in l..n
    BY <1>7
  <2> QED
    BY <1>1, <1>2, <1>7, <2>1, <2>2
<1>11. ASSUME NEW j \in 1..(m - 1)
       PROVE  /\ Len(others[j]) \in Nat /\ less[j] = less[j - 1] + Len(others[j])
              /\ \A i \in 1..Len(others[j]) : Same(later[less[j - 1] + i], others[j][i])
  <2>1. j \in 0..(m - 1) /\ j - 1 \in 0..(m - 1) /\ (j - 1) + 1 = j /\ j + 1 \in 1..m
        /\ (j + 1) - 1 = j
    BY <1>1
  <2>2. others[j] = frames[j + 1]
    BY <1>11
  <2>3. /\ Len(others[j]) \in Nat /\ cut[j + 1] = cut[j] + Len(others[j])
        /\ \A i \in 1..Len(others[j]) : Same(bytes[cut[j] + i], others[j][i])
    <3>1. /\ Len(frames[j + 1]) \in Nat
          /\ cut[j + 1] = cut[(j + 1) - 1] + Len(frames[j + 1])
          /\ \A i \in 1..Len(frames[j + 1]) :
               Same(bytes[cut[(j + 1) - 1] + i], frames[j + 1][i])
      BY <1>3, <2>1 DEF Cuts
    <3> QED
      BY <2>1, <2>2, <3>1
  <2>4. less[j] = cut[j + 1] - l /\ less[j - 1] = cut[j] - l
        /\ cut[j] \in l..n /\ cut[j + 1] \in l..n
    <3>1. less[j - 1] = cut[(j - 1) + 1] - l /\ cut[(j - 1) + 1] \in l..n
      BY <1>7, <2>1
    <3> QED
      BY <1>7, <2>1, <3>1
  <2>5. less[j] = less[j - 1] + Len(others[j])
    <3>1. \A a, b, x \in Int : b = a + x => b - l = (a - l) + x
      BY <1>2
    <3>2. cut[j] \in Int /\ cut[j + 1] \in Int /\ Len(others[j]) \in Int
      BY <1>1, <1>2, <2>3, <2>4
    <3>3. cut[j + 1] = cut[j] + Len(others[j])
      BY <2>3
    <3>4. cut[j + 1] - l = (cut[j] - l) + Len(others[j])
      BY <3>1, <3>2, <3>3, Zenon
    <3> QED
      BY <2>4, <3>4, Zenon
  <2>6. ASSUME NEW i \in 1..Len(others[j])
        PROVE  later[less[j - 1] + i] = bytes[cut[j] + i]
    <3>1. less[j - 1] + i \in 1..(Len(bytes) - l) /\ l + (less[j - 1] + i) = cut[j] + i
      <4>1. \A a, b, x \in Int : a \in l..n /\ b \in l..n /\ x \in 1..(b - a)
              => (a - l) + x \in 1..(Len(bytes) - l) /\ l + ((a - l) + x) = a + x
        BY <1>1, <1>2
      <4>2. i \in 1..(cut[j + 1] - cut[j])
        BY <1>1, <1>2, <2>3, <2>4, <2>6, SMTT(30)
      <4>3. i \in Int /\ cut[j] \in Int /\ cut[j + 1] \in Int
        BY <1>1, <1>2, <2>4, <2>6
      <4> QED
        BY <2>4, <4>1, <4>2, <4>3
    <3> QED
      BY <1>5, <3>1
  <2> QED
    BY <2>3, <2>5, <2>6
<1>12. Cuts(later, m - 1, others, n - l, less)
  BY <1>8, <1>9, <1>10, <1>11 DEF Cuts
<1>13. n - l \in 0..Len(later)
  BY <1>1, <1>2, <1>5
<1>14. Stream(later, m - 1, others, n - l)
  BY <1>1, <1>12, <1>13 DEF Stream
<1> QED
  BY <1>14 DEF later, l

-----------------------------------------------------------------------------
(* The invariant.  The wire is a stream of the frames that have not been   *)
(* read, and after them half a frame at most; the threshold under which    *)
(* each was encoded is the one it will be read under.                      *)

Frame(p, t) == Framed(EncodeFrame(p, t))

DataTyped ==
  /\ job \in [Writers -> ToServer] /\ limit \in Levels
  /\ said \in Seq(ToServer) /\ heard \in Seq(ToServer)
  /\ asked \in Seq(ToClient) /\ got \in Seq(ToClient)
  /\ \E S : down \in Seq(S)

\* What is read is what was written, as far as it has been read.
Prefixes ==
  /\ Len(heard) <= Len(said) /\ \A j \in 1..Len(heard) : heard[j] = said[j]
  /\ Len(got) <= Len(asked) /\ \A j \in 1..Len(got) : got[j] = asked[j]

\* A writer's remainder is the end of the frame of its packet, all of it before it
\* has the lock.
RestInv ==
  \A w \in Writers : at[w] \in {"lock", "write"} =>
    LET f == Frame(job[w], threshold)
    IN /\ Len(rest[w]) <= Len(f) /\ (at[w] = "lock" => Len(rest[w]) = Len(f))
       /\ \A i \in 1..Len(rest[w]) : Same(rest[w][i], f[Len(f) - Len(rest[w]) + i])

\* After the first n bytes the wire holds nothing or half a frame, that of the one
\* who is writing while the wire takes bytes.
Starts(bytes, n, f) == \A i \in 1..(Len(bytes) - n) : Same(bytes[n + i], f[i])

Half(bytes, n) ==
  \E p \in ToServer, t \in Levels :
    Len(bytes) - n < Len(Frame(p, t)) /\ Starts(bytes, n, Frame(p, t))

OwnInv(n) == Live =>
  /\ \A w \in Writers : at[w] = "write" /\ rest[w] # <<>> =>
       /\ Len(up) - n = Len(Frame(job[w], threshold)) - Len(rest[w])
       /\ Starts(up, n, Frame(job[w], threshold))
  /\ (\A w \in Writers : at[w] = "write" => rest[w] = <<>>) => Len(up) = n

Unheard == Len(said) - Len(heard)
UpFrames == [j \in 1..Unheard |-> Frame(said[Len(heard) + j], serverThreshold)]

UpInv == \E n \in Nat : Stream(up, Unheard, UpFrames, n) /\ Half(up, n) /\ OwnInv(n)

\* The threshold of the server's j-th packet.
Level(j) ==
  IF \E i \in 1..(j - 1) : asked[i] = "compress" THEN limit ELSE CompressionDisabled

Unread == Len(asked) - Len(got)
DownFrames == [j \in 1..Unread |-> Frame(asked[Len(got) + j], Level(Len(got) + j))]

DownInv ==
  \E n \in Nat :
    /\ Stream(down, Unread, DownFrames, n)
    /\ Len(down) = n \/ (server = "garbled" /\ SubSeq(down, n + 1, Len(down)) \in Garbage)

\* Both ends switch at the announcement, each in its own time.
LevelInv == threshold = Level(Len(got) + 1) /\ serverThreshold = Level(Len(asked) + 1)

Says(p) == \E i \in 1..Len(said) : said[i] = p

\* The server announces compression once, before it accepts the login, and speaks
\* when it has been spoken to.
OrderInv ==
  /\ \A i, j \in 1..Len(asked) : asked[i] = "compress" /\ asked[j] = "compress" => i = j
  /\ \A j \in 1..Len(asked) : asked[j] = "compress" => limit >= 0
  /\ \A j \in 1..Len(asked) : asked[j] = "success" /\ limit >= 0 =>
       \E i \in 1..(j - 1) : asked[i] = "compress"
  /\ asked # <<>> => Says("start")

Early == \A i \in 1..Len(got) : got[i] # "success"

Written == at["login"] = "read" \/ (at["login"] = "write" /\ rest["login"] = <<>>)
Unwritten ==
  at["login"] \in {"encode", "lock"} \/ (at["login"] = "write" /\ rest["login"] # <<>>)

\* Until the login is accepted the client says two packets, and then waits.
EarlyInv == Early =>
  /\ at["worker"] = "none"
  /\ at["login"] \in {"encode", "lock", "write", "read", "failed", "stop", "wait", "ended"}
  /\ \/ /\ job["login"] = "handshake" /\ state = "handshaking" /\ at["login"] # "read"
        /\ Unwritten => said = <<>>
        /\ Written => said = <<"handshake">>
        /\ said \in {<<>>, <<"handshake">>}
     \/ /\ job["login"] = "start" /\ state = "login"
        /\ Unwritten => said = <<"handshake">>
        /\ Written => said = <<"handshake", "start">>
        /\ said \in {<<"handshake">>, <<"handshake", "start">>}

TalkInv == DataTyped /\ Prefixes /\ LevelInv /\ OrderInv /\ EarlyInv

CInv == WInv /\ RestInv /\ UpInv /\ DownInv /\ TalkInv

LEMMA LevelType == ASSUME limit \in Levels, NEW j PROVE Level(j) \in Levels
  BY DEF Level, Levels

LEMMA FrameType ==
  ASSUME NEW p, NEW t \in Levels
  PROVE  /\ \E S : Frame(p, t) \in Seq(S)
         /\ Len(Frame(p, t)) \in Nat \ {0}
         /\ VarIntLen(Len(EncodeFrame(p, t))) \in 1..Len(Frame(p, t))
<1> DEFINE f == EncodeFrame(p, t)
           v == Len(f)
<1>1. PICK S : f \in Seq(S)
  BY EncodeFrameType
<1>2. v \in Held /\ v \in Nat
  <2>1. v \in 0..(MaxPacketSize + 1) /\ v \in Nat
    BY EncodeFrameType, WireAssumption
  <2> HIDE DEF v
  <2> QED
    BY <2>1, LengthFacts
<1>3. PICK U : AppendVarInt(v) \in Seq(U)
  BY AppendVarIntType
<1>4. Len(AppendVarInt(v)) = VarIntLen(v) /\ VarIntLen(v) \in 1..MaxVarIntBytes
  BY <1>2, VarIntFacts, Zenon
<1> HIDE DEF f
<1>5. AppendVarInt(v) \in Seq(U \cup S) /\ f \in Seq(U \cup S)
  BY <1>1, <1>3
<1>6. /\ Framed(f) \in Seq(U \cup S) /\ Len(Framed(f)) = VarIntLen(v) + Len(f)
  BY <1>4, <1>5 DEF Framed
<1>7. VarIntLen(v) \in Nat \ {0}
  BY <1>4, WireAssumption
<1> QED
  BY <1>2, <1>6, <1>7 DEF Frame, f

-----------------------------------------------------------------------------
(* What is read off a wire is the first packet that has not been read.     *)

\* No frame is found in what is garbled.
LEMMA GarbageIsNone ==
  ASSUME NEW S, NEW bytes \in Seq(S), bytes \in Garbage, NEW n \in Nat
  PROVE  ~(n <= Len(bytes) /\ IsFrame(bytes, n))
<1>0. /\ MaxPacketSize \in Nat /\ MaxVarIntBytes \in Nat /\ SignBit \in Nat
      /\ MaxPacketSize + 1 < SignBit /\ Word = 2 * SignBit
  BY WireAssumption DEF Word
<1>1. ASSUME NEW u \in {MaxPacketSize + 1, Word - 1, Word + 1}, bytes = AppendVarInt(u)
      PROVE  ~(n <= Len(bytes) /\ IsFrame(bytes, n))
  <2>1. u \in Held
    <3>1. u \in 0..(Word + 1)
      BY <1>0, <1>1
    <3> QED
      BY <3>1, HeldFacts
  <2>2. Signed(u) \notin 0..MaxPacketSize \/ Signed(u) = 1
    <3>1. CASE u = MaxPacketSize + 1
      <4>1. u \in 0..(MaxPacketSize + 1)
        BY <1>0, <3>1
      <4>2. Signed(u) = u
        BY <4>1, LengthFacts
      <4> QED
        BY <1>0, <3>1, <4>2
    <3>2. CASE u = Word - 1
      <4>1. u \in 0..(Word - 1) /\ ~(u < SignBit) /\ u - Word = -1
        BY <1>0, <3>2
      <4>2. u % Word = u
        BY <4>1, WordFacts
      <4>3. Signed(u) = -1
        BY <4>1, <4>2 DEF Signed
      <4> QED
        BY <1>0, <4>3
    <3>3. CASE u = Word + 1
      <4>1. 1 \in 0..(Word - 1) /\ 1 < SignBit /\ 1 + Word = u
        BY <1>0, <3>3
      <4>2. u % Word = 1
        BY <4>1, WordFacts
      <4> QED
        BY <4>1, <4>2 DEF Signed
    <3> QED
      BY <3>1, <3>2, <3>3
  <2>3. Agrees(bytes, AppendVarInt(u))
    BY <1>1 DEF Agrees, Same
  <2>4. Len(bytes) = VarIntLen(u) /\ VarIntLen(u) \in Nat
    BY <1>1, <2>1, VarIntFacts, VarIntLenType, Zenon
  <2>5. \A k \in Nat \ {0} :
          IsVarInt(bytes, k) => k = Len(bytes) /\ ReadVarInt(bytes, k) = Signed(u)
    BY <2>1, <2>3, <2>4, VarIntFront
  <2> SUFFICES ASSUME n <= Len(bytes), NEW k \in 1..MaxVarIntBytes, IsVarInt(bytes, k),
                      ReadVarInt(bytes, k) = n - k, ReadVarInt(bytes, k) \in 0..MaxPacketSize
               PROVE  FALSE
    BY DEF IsFrame
  <2>6. k = Len(bytes) /\ ReadVarInt(bytes, k) = Signed(u)
    BY <1>0, <2>5
  <2>7. n - k = 1
    BY <2>2, <2>6
  <2> QED
    BY <1>0, <2>4, <2>6, <2>7
<1>2. CASE bytes = [i \in 1..MaxVarIntBytes |-> Number(Base)]
  <2>1. \A k \in 1..MaxVarIntBytes : bytes[k].value = Base
    BY <1>2 DEF Number
  <2>2. \A k \in 1..MaxVarIntBytes : ~IsVarInt(bytes, k)
    <3> SUFFICES ASSUME NEW k \in 1..MaxVarIntBytes, IsVarInt(bytes, k) PROVE FALSE
      OBVIOUS
    <3>1. bytes[k].value >= Base <=> k < k
      BY <1>0 DEF IsVarInt
    <3> QED
      BY <1>0, <2>1, <3>1, WireAssumption
  <2> QED
    BY <2>2 DEF IsFrame
<1> QED
  BY <1>1, <1>2 DEF Garbage

\* A whole frame at the front of the bytes.
LEMMA FrontFrame ==
  ASSUME NEW p, NEW t \in Levels, NEW S, NEW bytes \in Seq(S),
         Agrees(bytes, Frame(p, t)), Len(Frame(p, t)) <= Len(bytes),
         NEW n \in 1..Len(bytes), IsFrame(bytes, n)
  PROVE  n = Len(Frame(p, t)) /\ PacketOf(SubSeq(bytes, 1, n), t) = p
<1>1. PICK T : EncodeFrame(p, t) \in Seq(T)
  BY EncodeFrameType
<1>2. Len(EncodeFrame(p, t)) <= MaxPacketSize
  BY EncodeFrameType, WireAssumption
<1>3. n = Len(Frame(p, t))
  BY <1>1, <1>2, FrameFront DEF Frame
<1> DEFINE front == SubSeq(bytes, 1, n)
<1>4. front \in Seq(S) /\ Len(front) = n /\ \A i \in 1..n : front[i] = bytes[i]
  OBVIOUS
<1> HIDE DEF front
<1>5. Agrees(front, Frame(p, t))
  BY <1>3, <1>4 DEF Agrees
<1>6. PacketOf(front, t) = p
  BY <1>3, <1>4, <1>5, PacketRead DEF Frame
<1> QED
  BY <1>3, <1>6 DEF front

\* Half a frame is none.
LEMMA HalfIsNone ==
  ASSUME NEW p, NEW t \in Levels, NEW S, NEW bytes \in Seq(S),
         Agrees(bytes, Frame(p, t)), Len(bytes) < Len(Frame(p, t)),
         NEW n \in 1..Len(bytes)
  PROVE  ~IsFrame(bytes, n)
<1>1. PICK T : EncodeFrame(p, t) \in Seq(T)
  BY EncodeFrameType
<1>2. Len(EncodeFrame(p, t)) <= MaxPacketSize
  BY EncodeFrameType, WireAssumption
<1>3. IsFrame(bytes, n) => n = Len(Frame(p, t))
  BY <1>1, <1>2, FrameFront DEF Frame
<1> QED
  BY <1>3

LEMMA ReadsNext ==
  ASSUME DataTyped, Prefixes, LevelInv, DownInv,
         NEW n \in 1..Len(down), IsFrame(down, n)
  PROVE  /\ Unread \in Nat \ {0} /\ n = Len(DownFrames[1])
         /\ PacketOf(SubSeq(down, 1, n), threshold) = asked[Len(got) + 1]
<1>1. PICK S : down \in Seq(S)
  BY DEF DataTyped
<1>2. PICK n0 \in Nat :
        /\ Stream(down, Unread, DownFrames, n0)
        /\ Len(down) = n0 \/ (server = "garbled" /\ SubSeq(down, n0 + 1, Len(down)) \in Garbage)
  BY DEF DownInv
<1>3. Unread \in Nat /\ n \in Nat
  BY <1>2 DEF Stream
<1>4. Unread # 0
  <2> SUFFICES ASSUME Unread = 0 PROVE FALSE
    OBVIOUS
  <2>1. n0 = 0
    BY <1>2, StreamNone
  <2>2. Len(down) # 0
    BY <1>1
  <2>3. down \in Garbage
    <3>1. SubSeq(down, 1, Len(down)) = down
      BY <1>1
    <3>2. SubSeq(down, 0 + 1, Len(down)) \in Garbage
      BY <1>2, <2>1, <2>2
    <3>3. 0 + 1 = 1
      OBVIOUS
    <3> QED
      BY <3>1, <3>2, <3>3
  <2> QED
    BY <1>1, <1>3, <2>3, GarbageIsNone
<1> DEFINE p == asked[Len(got) + 1]
<1>5. DownFrames[1] = Frame(p, threshold)
  <2>1. 1 \in 1..Unread
    BY <1>3, <1>4
  <2> QED
    BY <2>1 DEF DownFrames, LevelInv
<1>6. threshold \in Levels
  BY LevelType DEF LevelInv, DataTyped
<1>7. Len(Frame(p, threshold)) <= Len(down) /\ Agrees(down, Frame(p, threshold))
  <2>1. Len(DownFrames[1]) \in 0..n0 /\ n0 <= Len(down) /\ Agrees(down, DownFrames[1])
    BY <1>1, <1>2, <1>4, StreamFirst
  <2> QED
    BY <1>1, <1>5, <2>1
<1> HIDE DEF p
<1>8. n = Len(Frame(p, threshold)) /\ PacketOf(SubSeq(down, 1, n), threshold) = p
  BY <1>1, <1>6, <1>7, FrontFrame
<1> QED
  BY <1>3, <1>4, <1>5, <1>8 DEF p

LEMMA HearsNext ==
  ASSUME Sequential, DataTyped, UpInv, serverThreshold \in Levels,
         NEW n \in 1..Len(up), IsFrame(up, n)
  PROVE  /\ Unheard \in Nat \ {0} /\ n = Len(UpFrames[1])
         /\ PacketOf(SubSeq(up, 1, n), serverThreshold) = said[Len(heard) + 1]
<1>1. PICK S : up \in Seq(S)
  BY DEF Sequential
<1>2. PICK n0 \in Nat : Stream(up, Unheard, UpFrames, n0) /\ Half(up, n0)
  BY DEF UpInv
<1>3. Unheard \in Nat /\ n \in Nat
  BY <1>2 DEF Stream
<1>4. Unheard # 0
  <2> SUFFICES ASSUME Unheard = 0 PROVE FALSE
    OBVIOUS
  <2>1. n0 = 0
    BY <1>2, StreamNone
  <2>2. PICK p \in ToServer, t \in Levels :
          Len(up) - 0 < Len(Frame(p, t)) /\ \A i \in 1..(Len(up) - 0) : Same(up[0 + i], Frame(p, t)[i])
    BY <1>2, <2>1 DEF Half, Starts
  <2>3. Len(up) < Len(Frame(p, t)) /\ \A i \in 1..Len(up) : Same(up[i], Frame(p, t)[i])
    BY <1>1, <2>2
  <2>4. Agrees(up, Frame(p, t))
    <3>1. \A i \in 1..Len(Frame(p, t)) : i <= Len(up) => i \in 1..Len(up)
      BY <1>1, FrameType
    <3> QED
      BY <2>3, <3>1 DEF Agrees
  <2> QED
    BY <1>1, <2>3, <2>4, HalfIsNone
<1> DEFINE p == said[Len(heard) + 1]
<1>5. UpFrames[1] = Frame(p, serverThreshold)
  <2>1. 1 \in 1..Unheard
    BY <1>3, <1>4
  <2> QED
    BY <2>1 DEF UpFrames
<1>6. Len(Frame(p, serverThreshold)) <= Len(up) /\ Agrees(up, Frame(p, serverThreshold))
  <2>1. Len(UpFrames[1]) \in 0..n0 /\ n0 <= Len(up) /\ Agrees(up, UpFrames[1])
    BY <1>1, <1>2, <1>4, StreamFirst
  <2> QED
    BY <1>1, <1>5, <2>1
<1> HIDE DEF p
<1>7. n = Len(Frame(p, serverThreshold)) /\ PacketOf(SubSeq(up, 1, n), serverThreshold) = p
  BY <1>1, <1>6, FrontFrame
<1> QED
  BY <1>3, <1>4, <1>5, <1>7 DEF p

-----------------------------------------------------------------------------
(* The beginning of the conversation.                                      *)

LEMMA Said ==
  /\ <<>> # <<"handshake">> /\ <<>> # <<"handshake", "start">>
  /\ <<"handshake">> # <<"handshake", "start">>
  /\ Len(<<"handshake">>) = 1 /\ Len(<<"handshake", "start">>) = 2
  OBVIOUS

LEMMA AppendSaid ==
  /\ Append(<<>>, "handshake") = <<"handshake">>
  /\ Append(<<"handshake">>, "start") = <<"handshake", "start">>
<1>1. Append(<<>>, "handshake") = <<"handshake">>
  OBVIOUS
<1>2. Append(<<"handshake">>, "start") = <<"handshake", "start">>
  <2> DEFINE a == Append(<<"handshake">>, "start")
             b == <<"handshake", "start">>
             Words == {"handshake", "start"}
  <2>1. a \in Seq(Words) /\ Len(a) = 2 /\ a[1] = "handshake" /\ a[2] = "start"
    OBVIOUS
  <2>2. b \in Seq(Words) /\ Len(b) = 2 /\ b[1] = "handshake" /\ b[2] = "start"
    OBVIOUS
  <2> HIDE DEF a, b
  <2>3. \A i \in 1..Len(a) : a[i] = b[i]
    BY <2>1, <2>2
  <2>4. a = b
    BY <2>1, <2>2, <2>3
  <2> QED
    BY <2>4 DEF a, b
<1> QED
  BY <1>1, <1>2

\* The client has said "start" before it is accepted: it waits for an answer.
LEMMA Waits ==
  ASSUME Early, EarlyInv, Says("start")
  PROVE  /\ said = <<"handshake", "start">> /\ state = "login"
         /\ at["worker"] = "none" /\ ~Unwritten
<1>1. said # <<>> /\ said # <<"handshake">>
  BY DEF Says
<1> QED
  BY <1>1 DEF EarlyInv

\* Once a threshold differs from the other, the client has nothing to write.
LEMMA SwitchIsSilent ==
  ASSUME DataTyped, Prefixes, LevelInv, OrderInv, EarlyInv, WInv
  PROVE  \/ threshold = serverThreshold
         \/ \A w \in Writers : at[w] \notin {"encode", "lock"}
                               /\ (at[w] = "write" => rest[w] = <<>>)
<1> SUFFICES ASSUME threshold # serverThreshold
             PROVE  \A w \in Writers : at[w] \notin {"encode", "lock"}
                                       /\ (at[w] = "write" => rest[w] = <<>>)
  OBVIOUS
<1>1. Len(got) \in Nat /\ Len(asked) \in Nat /\ Len(got) <= Len(asked)
  BY DEF DataTyped, Prefixes
<1>2. PICK c \in 1..Len(asked) : asked[c] = "compress" /\ c > Len(got)
  <2>1. \A i \in 1..(Len(got) + 1 - 1) : i \in 1..(Len(asked) + 1 - 1)
    BY <1>1
  <2>2. ~ \E i \in 1..(Len(got) + 1 - 1) : asked[i] = "compress"
    BY <2>1 DEF LevelInv, Level
  <2>3. PICK c \in 1..(Len(asked) + 1 - 1) : asked[c] = "compress"
    BY <2>2 DEF LevelInv, Level
  <2> QED
    BY <1>1, <2>2, <2>3
<1>3. Early
  <2> SUFFICES ASSUME NEW s \in 1..Len(got), got[s] = "success" PROVE FALSE
    BY DEF Early
  <2>1. s \in 1..Len(asked) /\ asked[s] = "success"
    BY <1>1 DEF Prefixes
  <2>2. limit >= 0
    BY <1>2 DEF OrderInv
  <2>3. PICK i \in 1..(s - 1) : asked[i] = "compress"
    BY <2>1, <2>2 DEF OrderInv
  <2>4. i \in 1..Len(asked) /\ i < c
    BY <1>1, <1>2, <2>1, <2>3
  <2>5. i = c
    BY <1>2, <2>3, <2>4 DEF OrderInv
  <2> QED
    BY <1>1, <1>2, <2>4, <2>5
<1>4. Says("start")
  BY <1>1, <1>2 DEF OrderInv, DataTyped
<1>5. at["worker"] = "none" /\ ~Unwritten
  BY <1>3, <1>4, Waits
<1> QED
  BY <1>5 DEF Unwritten, Writers

-----------------------------------------------------------------------------
(* Steps that leave the wire to the server as it is.                       *)

RestQuiet ==
  /\ \A w \in Writers : at'[w] \in {"lock", "write"} =>
       at'[w] = at[w] /\ rest'[w] = rest[w] /\ job'[w] = job[w]
  /\ threshold' = threshold \/ \A w \in Writers : at'[w] \notin {"lock", "write"}

LEMMA RestQuietStep == RestInv /\ RestQuiet => RestInv'
<1> SUFFICES ASSUME RestInv, RestQuiet, NEW w \in Writers, at'[w] \in {"lock", "write"}
             PROVE  LET f == Frame(job'[w], threshold')
                    IN /\ Len(rest'[w]) <= Len(f) /\ (at'[w] = "lock" => Len(rest'[w]) = Len(f))
                       /\ \A i \in 1..Len(rest'[w]) :
                            Same(rest'[w][i], f[Len(f) - Len(rest'[w]) + i])
  BY DEF RestInv, Frame, Same, Framed, EncodeFrame
<1>1. /\ at'[w] = at[w] /\ rest'[w] = rest[w] /\ job'[w] = job[w]
      /\ threshold' = threshold
  BY DEF RestQuiet
<1> QED
  BY <1>1 DEF RestInv

UpQuiet ==
  /\ UNCHANGED <<up, said, heard>>
  /\ serverThreshold' = serverThreshold \/ Len(said) = Len(heard)
  /\ Live' => Live
  /\ \A w \in Writers : at'[w] = "write" =>
       at[w] = "write" /\ rest'[w] = rest[w] /\ job'[w] = job[w]
  /\ threshold' = threshold \/ \A w \in Writers : at'[w] # "write"
  /\ Live' => \A w \in Writers : at[w] = "write" /\ rest[w] # <<>> => at'[w] = "write"

LEMMA UpQuietStep ==
  ASSUME Sequential, DataTyped, UpInv, UpQuiet PROVE UpInv'
<1>1. PICK S : up \in Seq(S)
  BY DEF Sequential
<1>2. PICK n \in Nat : Stream(up, Unheard, UpFrames, n) /\ Half(up, n) /\ OwnInv(n)
  BY DEF UpInv
<1>3. up' = up /\ said' = said /\ heard' = heard /\ Unheard' = Unheard
  BY DEF UpQuiet, Unheard
<1>4. \A j \in 1..Unheard : UpFrames'[j] = UpFrames[j]
  <2>1. CASE serverThreshold' = serverThreshold
    BY <1>3, <2>1 DEF UpFrames
  <2>2. CASE Len(said) = Len(heard)
    <3>1. Unheard = 0
      BY <2>2 DEF Unheard, DataTyped
    <3> QED
      BY <3>1
  <2> QED
    BY <2>1, <2>2 DEF UpQuiet
<1>5. Stream(up, Unheard, UpFrames', n)
  <2> DEFINE same == UpFrames'
  <2>1. \A j \in 1..Unheard : same[j] = UpFrames[j]
    BY <1>4
  <2> HIDE DEF same
  <2>2. Stream(up, Unheard, same, n)
    BY <1>1, <1>2, <2>1, StreamGrows
  <2> QED
    BY <2>2 DEF same
<1>6. Stream(up', Unheard', UpFrames', n)
  BY <1>3, <1>5
<1>7. Half(up', n)
  BY <1>2, <1>3
<1>8. OwnInv(n)'
  <2> SUFFICES ASSUME Live' PROVE
        /\ \A w \in Writers : at'[w] = "write" /\ rest'[w] # <<>> =>
             /\ Len(up) - n = Len(Frame(job'[w], threshold')) - Len(rest'[w])
             /\ Starts(up, n, Frame(job'[w], threshold'))
        /\ (\A w \in Writers : at'[w] = "write" => rest'[w] = <<>>) => Len(up) = n
    BY <1>3 DEF OwnInv
  <2>1. ASSUME NEW w \in Writers, at'[w] = "write", rest'[w] # <<>>
        PROVE  /\ Len(up) - n = Len(Frame(job'[w], threshold')) - Len(rest'[w])
               /\ Starts(up, n, Frame(job'[w], threshold'))
    BY <1>2, <2>1 DEF UpQuiet, OwnInv
  <2>2. ASSUME \A w \in Writers : at'[w] = "write" => rest'[w] = <<>> PROVE Len(up) = n
    BY <1>2, <2>2 DEF UpQuiet, OwnInv
  <2> QED
    BY <2>1, <2>2
<1> QED
  BY <1>6, <1>7, <1>8 DEF UpInv

-----------------------------------------------------------------------------
(* WritePacket.                                                            *)

LEMMA EncodeRest ==
  ASSUME WInv, RestInv, DataTyped, LevelInv, NEW w \in Writers, Encode(w)
  PROVE  RestInv'
<1> DEFINE f == Frame(job[w], threshold)
<1>1. threshold \in Levels
  BY LevelType DEF LevelInv, DataTyped
<1>2. PICK S : f \in Seq(S)
  BY <1>1, FrameType
<1>3. /\ Len(f) \in Nat /\ rest' = [rest EXCEPT ![w] = Labelled(w, f)]
      /\ at' = [at EXCEPT ![w] = "lock"] /\ job' = job /\ threshold' = threshold
  BY <1>2 DEF Encode, Go, Frame, conn
<1> HIDE DEF f
<1>4. \A i \in 1..Len(f) : Same(Labelled(w, f)[i], f[i])
  BY <1>3 DEF Labelled, Same
<1>5. Len(Labelled(w, f)) = Len(f)
  <2>1. PICK T : Labelled(w, f) \in Seq(T)
    BY <1>2, LabelledType
  <2>2. DOMAIN Labelled(w, f) = 1..Len(f)
    BY DEF Labelled
  <2> QED
    BY <1>3, <2>1, <2>2
<1>6. rest'[w] = Labelled(w, f) /\ \A v \in Writers : v # w => rest'[v] = rest[v] /\ at'[v] = at[v]
  BY <1>3 DEF WInv, Typed
<1> SUFFICES ASSUME NEW v \in Writers, at'[v] \in {"lock", "write"}
             PROVE  LET g == Frame(job[v], threshold)
                    IN /\ Len(rest'[v]) <= Len(g) /\ (at'[v] = "lock" => Len(rest'[v]) = Len(g))
                       /\ \A i \in 1..Len(rest'[v]) :
                            Same(rest'[v][i], g[Len(g) - Len(rest'[v]) + i])
  BY <1>3 DEF RestInv
<1>7. CASE v = w
  <2>1. Len(rest'[v]) = Len(f)
    BY <1>5, <1>6, <1>7
  <2>2. ASSUME NEW i \in 1..Len(f) PROVE Same(rest'[v][i], f[Len(f) - Len(rest'[v]) + i])
    <3>1. Len(f) - Len(rest'[v]) + i = i
      BY <1>3, <2>1
    <3> QED
      BY <1>4, <1>6, <1>7, <3>1
  <2>3. Len(rest'[v]) <= Len(f)
    BY <1>3, <2>1
  <2> QED
    BY <1>7, <2>1, <2>2, <2>3 DEF f
<1>8. CASE v # w
  BY <1>6, <1>8 DEF RestInv
<1> QED
  BY <1>7, <1>8

LEMMA EncodeUp ==
  ASSUME WInv, DataTyped, UpInv, NEW w \in Writers, Encode(w) PROVE UpInv'
<1>1. /\ at' = [at EXCEPT ![w] = "lock"] /\ at[w] = "encode"
      /\ \E x : rest' = [rest EXCEPT ![w] = x]
      /\ UNCHANGED <<up, said, heard, serverThreshold, threshold, job, open, server>>
  BY DEF Encode, Go, conn, ghosts, theirs
<1>2. \A v \in Writers : v # w => rest'[v] = rest[v] /\ at'[v] = at[v]
  BY <1>1 DEF WInv, Typed
<1>3. at'[w] = "lock"
  BY <1>1 DEF WInv, Typed
<1>4. UpQuiet
  BY <1>1, <1>2, <1>3 DEF UpQuiet, Live
<1> QED
  BY <1>4, UpQuietStep DEF WInv

LEMMA LockRest ==
  ASSUME WInv, RestInv, NEW w \in Writers, Lock(w) PROVE RestInv'
<1>1. /\ at' = [at EXCEPT ![w] = "write"] /\ at[w] = "lock"
      /\ UNCHANGED <<rest, threshold, job>>
  BY DEF Lock, Go
<1>2. \A v \in Writers : at'[v] \in {"lock", "write"} =>
        at[v] \in {"lock", "write"} /\ (at'[v] = "lock" => at[v] = "lock")
  BY <1>1 DEF WInv, Typed
<1> QED
  BY <1>1, <1>2 DEF RestInv

LEMMA LockUp ==
  ASSUME WInv, RestInv, DataTyped, LevelInv, UpInv,
         NEW w \in Writers, Lock(w)
  PROVE  UpInv'
<1>1. /\ at' = [at EXCEPT ![w] = "write"] /\ at[w] = "lock" /\ writeMu = "free"
      /\ UNCHANGED <<up, said, heard, serverThreshold, rest, threshold, job, open, server>>
  BY DEF Lock, Go, ghosts, theirs
<1>2. PICK n \in Nat : Stream(up, Unheard, UpFrames, n) /\ Half(up, n) /\ OwnInv(n)
  BY DEF UpInv
<1>3. \A v \in Writers : at[v] # "write"
  BY <1>1 DEF WInv, Exclusive, Writers
<1>4. Live => Len(up) = n
  BY <1>2, <1>3 DEF OwnInv
<1>5. Len(rest[w]) = Len(Frame(job[w], threshold))
  BY <1>1 DEF RestInv
<1>6. Len(Frame(job[w], threshold)) \in Nat
  BY FrameType, LevelType DEF LevelInv, DataTyped
<1>7. \A v \in Writers : at'[v] = "write" => v = w
  BY <1>1, <1>3 DEF WInv, Typed
<1>8. up' = up /\ Unheard' = Unheard /\ UpFrames' = UpFrames
  BY <1>1 DEF Unheard, UpFrames
<1>9. OwnInv(n)'
  <2> SUFFICES ASSUME Live PROVE
        /\ \A v \in Writers : at'[v] = "write" /\ rest[v] # <<>> =>
             /\ Len(up) - n = Len(Frame(job[v], threshold)) - Len(rest[v])
             /\ Starts(up, n, Frame(job[v], threshold))
        /\ Len(up) = n
    BY <1>1 DEF OwnInv, Live
  <2>1. Len(up) - n = 0
    BY <1>2, <1>4
  <2>2. Starts(up, n, Frame(job[w], threshold))
    BY <2>1 DEF Starts
  <2>3. Len(up) - n = Len(Frame(job[w], threshold)) - Len(rest[w])
    BY <1>5, <1>6, <2>1
  <2> QED
    BY <1>4, <1>7, <2>2, <2>3
<1> QED
  BY <1>2, <1>8, <1>9 DEF UpInv

LEMMA WriteByteRest ==
  ASSUME WInv, RestInv, DataTyped, LevelInv, NEW w \in Writers, WriteByte(w)
  PROVE  RestInv'
<1> DEFINE f == Frame(job[w], threshold)
<1>1. /\ at[w] = "write" /\ rest[w] # <<>> /\ rest' = [rest EXCEPT ![w] = Tail(rest[w])]
      /\ UNCHANGED <<at, threshold, job>>
  BY DEF WriteByte, conn
<1>2. PICK S : rest[w] \in Seq(S)
  BY DEF WInv, Sequential
<1>3. Len(f) \in Nat
  BY FrameType, LevelType DEF LevelInv, DataTyped
<1>4. /\ Len(rest[w]) <= Len(f)
      /\ \A i \in 1..Len(rest[w]) : Same(rest[w][i], f[Len(f) - Len(rest[w]) + i])
  BY <1>1 DEF RestInv
<1> HIDE DEF f
<1>5. /\ Len(Tail(rest[w])) = Len(rest[w]) - 1
      /\ \A i \in 1..(Len(rest[w]) - 1) : Tail(rest[w])[i] = rest[w][i + 1]
  BY <1>1, <1>2
<1>6. \A i \in 1..Len(Tail(rest[w])) :
        Same(Tail(rest[w])[i], f[Len(f) - Len(Tail(rest[w])) + i])
  <2> SUFFICES ASSUME NEW i \in 1..Len(Tail(rest[w]))
               PROVE  Same(Tail(rest[w])[i], f[Len(f) - Len(Tail(rest[w])) + i])
    OBVIOUS
  <2>2. /\ i + 1 \in 1..Len(rest[w]) /\ i \in 1..(Len(rest[w]) - 1) /\ i \in Int
        /\ Len(rest[w]) \in Int /\ Len(Tail(rest[w])) \in Int
    BY <1>2, <1>5
  <2>3. Len(f) - Len(rest[w]) + (i + 1) = Len(f) - Len(Tail(rest[w])) + i
    <3>1. Len(f) \in Int
      BY <1>3
    <3>2. PICK a \in Int, b \in Int, c \in Int, j \in Int :
            a = Len(f) /\ b = Len(rest[w]) /\ c = Len(Tail(rest[w])) /\ j = i
      BY <2>2, <3>1, Zenon
    <3>3. c = b - 1
      BY <1>5, <3>2
    <3>4. a - b + (j + 1) = a - c + j
      BY <3>3
    <3> QED
      BY <3>2, <3>4
  <2> QED
    BY <1>4, <1>5, <2>2, <2>3
<1>7. rest'[w] = Tail(rest[w]) /\ \A v \in Writers : v # w => rest'[v] = rest[v]
  BY <1>1 DEF WInv, Typed
<1>8. Len(Tail(rest[w])) <= Len(f)
  BY <1>2, <1>3, <1>4, <1>5
<1> SUFFICES ASSUME NEW v \in Writers, at[v] \in {"lock", "write"}
             PROVE  LET g == Frame(job[v], threshold)
                    IN /\ Len(rest'[v]) <= Len(g) /\ (at[v] = "lock" => Len(rest'[v]) = Len(g))
                       /\ \A i \in 1..Len(rest'[v]) :
                            Same(rest'[v][i], g[Len(g) - Len(rest'[v]) + i])
  BY <1>1 DEF RestInv
<1>9. CASE v = w
  BY <1>1, <1>6, <1>7, <1>8, <1>9 DEF f
<1>10. CASE v # w
  BY <1>7, <1>10 DEF RestInv
<1> QED
  BY <1>9, <1>10

LEMMA WriteByteUp ==
  ASSUME WInv, RestInv, UpInv, TalkInv, NEW w \in Writers, WriteByte(w)
  PROVE  UpInv'
<1> DEFINE f == Frame(job[w], threshold)
           b == Head(rest[w])
<1>1. /\ at[w] = "write" /\ rest[w] # <<>> /\ Live /\ up' = Append(up, Head(rest[w]))
      /\ rest' = [rest EXCEPT ![w] = Tail(rest[w])]
      /\ said' = IF Len(rest[w]) = 1 THEN Append(said, job[w]) ELSE said
      /\ UNCHANGED <<at, threshold, job, heard, serverThreshold, open, server>>
  BY DEF WriteByte, conn, theirs, Live
<1>2. PICK S : up \in Seq(S) /\ rest[w] \in Seq(S)
  BY DEF WInv, Sequential
<1>3. PICK n \in Nat : Stream(up, Unheard, UpFrames, n) /\ Half(up, n) /\ OwnInv(n)
  BY DEF UpInv
<1>4. threshold \in Levels /\ job[w] \in ToServer /\ said \in Seq(ToServer)
      /\ heard \in Seq(ToServer) /\ Len(heard) <= Len(said)
  BY LevelType DEF TalkInv, LevelInv, DataTyped, Prefixes
<1>5. Len(f) \in Nat \ {0}
  BY <1>4, FrameType
<1>6. /\ Len(up) - n = Len(f) - Len(rest[w]) /\ Starts(up, n, f)
      /\ Len(rest[w]) <= Len(f)
      /\ \A i \in 1..Len(rest[w]) : Same(rest[w][i], f[Len(f) - Len(rest[w]) + i])
  BY <1>1, <1>3 DEF OwnInv, RestInv
<1> HIDE DEF f
<1>7. n <= Len(up) /\ Unheard \in Nat /\ Len(up) \in Nat
  BY <1>2, <1>3 DEF Stream
<1>8. Len(rest[w]) \in Nat /\ Len(rest[w]) >= 1 /\ b = rest[w][1]
      /\ Len(Tail(rest[w])) = Len(rest[w]) - 1
  BY <1>1, <1>2
<1>9. /\ Len(up') = Len(up) + 1 /\ up'[Len(up) + 1] = b
      /\ \A i \in 1..Len(up) : up'[i] = up[i]
      /\ up' \in Seq(S)
  BY <1>1, <1>2, <1>8
<1>10. Starts(up', n, f)
  <2> SUFFICES ASSUME NEW i \in 1..(Len(up') - n) PROVE Same(up'[n + i], f[i])
    BY DEF Starts
  <2>1. CASE i \in 1..(Len(up) - n)
    <3>1. n + i \in 1..Len(up)
      BY <1>7, <2>1
    <3> QED
      BY <1>6, <1>9, <2>1, <3>1 DEF Starts
  <2>2. CASE i = Len(up) - n + 1
    <3>1. n + i = Len(up) + 1
      BY <1>7, <2>2
    <3>2. i = Len(f) - Len(rest[w]) + 1
      BY <1>6, <2>2
    <3>3. 1 \in 1..Len(rest[w])
      BY <1>8
    <3> QED
      BY <1>6, <1>8, <1>9, <3>1, <3>2, <3>3
  <2> QED
    BY <1>7, <1>9, <2>1, <2>2
<1>11. \A v \in Writers : v # w => at[v] # "write"
  BY <1>1 DEF WInv, Exclusive
<1>12. rest'[w] = Tail(rest[w])
  BY <1>1 DEF WInv, Typed
<1>13. CASE Len(rest[w]) = 1
  <2>1. threshold = serverThreshold
    BY <1>1, SwitchIsSilent DEF TalkInv
  <2>2. /\ Len(said') = Len(said) + 1 /\ Unheard' = Unheard + 1 /\ heard' = heard
        /\ said'[Len(said) + 1] = job[w] /\ \A j \in 1..Len(said) : said'[j] = said[j]
    BY <1>1, <1>4, <1>13 DEF Unheard
  <2>3. \A j \in 1..Unheard : UpFrames'[j] = UpFrames[j]
    <3> SUFFICES ASSUME NEW j \in 1..Unheard
                 PROVE  UpFrames'[j] = UpFrames[j]
      OBVIOUS
    <3>1. j \in 1..(Unheard + 1) /\ Len(heard) + j \in 1..Len(said)
      BY <1>4 DEF Unheard
    <3> QED
      BY <1>1, <2>2, <3>1 DEF UpFrames
  <2>4. UpFrames'[Unheard + 1] = f
    <3>1. Unheard + 1 \in 1..(Unheard + 1) /\ Len(heard) + (Unheard + 1) = Len(said) + 1
      BY <1>4, <1>7 DEF Unheard
    <3> QED
      BY <1>1, <2>1, <2>2, <3>1 DEF UpFrames, f
  <2>5. n + Len(f) = Len(up') /\ Len(up') - n = Len(f)
    BY <1>5, <1>6, <1>7, <1>9, <1>13
  <2>6. Stream(up', Unheard + 1, UpFrames', n + Len(f))
    <3> DEFINE more == up'
               longer == UpFrames'
    <3>1. more \in Seq(S) /\ Len(up) <= Len(more) /\ \A i \in 1..Len(up) : more[i] = up[i]
      BY <1>7, <1>9
    <3>2. \A i \in 1..Len(f) : Same(more[n + i], f[i])
      BY <1>10, <2>5 DEF Starts
    <3>3. longer[Unheard + 1] = f /\ \A j \in 1..Unheard : longer[j] = UpFrames[j]
      BY <2>3, <2>4
    <3>4. n + Len(f) <= Len(more)
      BY <1>9, <2>5
    <3> HIDE DEF more, longer
    <3>5. Stream(more, Unheard, UpFrames, n)
      BY <1>2, <1>3, <3>1, StreamGrows
    <3>6. Stream(more, Unheard + 1, longer, n + Len(f))
      BY <1>5, <3>1, <3>2, <3>3, <3>4, <3>5, StreamPush
    <3> QED
      BY <3>6 DEF more, longer
  <2>7. PICK m \in Nat : m = n + Len(f) /\ Len(up') = m
    BY <1>5, <2>5
  <2>8. Half(up', m)
    <3>1. Len(up') - m < Len(f) /\ Starts(up', m, f)
      BY <1>5, <2>7 DEF Starts
    <3> QED
      BY <1>4, <3>1 DEF Half, f
  <2>9. \A v \in Writers : at'[v] = "write" => rest'[v] = <<>>
    <3>1. Tail(rest[w]) = <<>>
      <4>1. Tail(rest[w]) \in Seq(S)
        BY <1>1, <1>2
      <4>2. Len(Tail(rest[w])) = 0
        BY <1>8, <1>13
      <4>3. \A s \in Seq(S) : Len(s) = 0 => s = <<>>
        OBVIOUS
      <4> QED
        BY <4>1, <4>2, <4>3, Zenon
    <3> QED
      BY <1>1, <1>11, <1>12, <3>1
  <2>10. OwnInv(m)'
    BY <2>7, <2>9 DEF OwnInv
  <2>11. Stream(up', Unheard', UpFrames', m)
    BY <2>2, <2>6, <2>7
  <2> QED
    BY <2>7, <2>8, <2>10, <2>11 DEF UpInv
<1>14. CASE Len(rest[w]) # 1
  <2>1. said' = said /\ Unheard' = Unheard /\ UpFrames' = UpFrames
    BY <1>1, <1>14 DEF Unheard, UpFrames
  <2>2. Stream(up', Unheard, UpFrames, n)
    <3> DEFINE more == up'
    <3>1. more \in Seq(S) /\ Len(up) <= Len(more) /\ \A i \in 1..Len(up) : more[i] = up[i]
      BY <1>7, <1>9
    <3> HIDE DEF more
    <3>2. Stream(more, Unheard, UpFrames, n)
      BY <1>2, <1>3, <3>1, StreamGrows
    <3> QED
      BY <3>2 DEF more
  <2>3. Len(up') - n < Len(f)
    <3>1. \A i, j, k, l \in Int : i - j = k - l /\ l # 1 /\ l >= 1 => (i + 1) - j < k
      OBVIOUS
    <3>2. Len(up) \in Int /\ n \in Int /\ Len(f) \in Int /\ Len(rest[w]) \in Int
      BY <1>5, <1>7, <1>8
    <3>3. Len(up) - n = Len(f) - Len(rest[w]) /\ Len(rest[w]) # 1 /\ Len(rest[w]) >= 1
      BY <1>6, <1>8, <1>14
    <3>4. (Len(up) + 1) - n < Len(f)
      BY <3>1, <3>2, <3>3
    <3> QED
      BY <1>9, <3>4
  <2>4. Half(up', n)
    BY <1>4, <1>10, <2>3 DEF Half, f
  <2>5. /\ Len(up') - n = Len(f) - Len(rest'[w]) /\ rest'[w] # <<>>
    <3>2. Len(up) \in Int /\ n \in Int /\ Len(f) \in Int /\ Len(rest[w]) \in Int
      BY <1>5, <1>7, <1>8
    <3>3. Len(up) - n = Len(f) - Len(rest[w])
      BY <1>6
    <3>4. (Len(up) + 1) - n = Len(f) - (Len(rest[w]) - 1)
      <4>1. PICK i \in Int, j \in Int, k \in Int, l \in Int :
              i = Len(up) /\ j = n /\ k = Len(f) /\ l = Len(rest[w])
        BY <3>2
      <4>2. (i + 1) - j = k - (l - 1)
        <5>1. i - j = k - l
          BY <3>3, <4>1
        <5> QED
          BY <5>1
      <4> QED
        BY <4>1, <4>2
    <3>5. Len(up') - n = Len(f) - Len(rest'[w])
      BY <1>8, <1>9, <1>12, <3>4
    <3>6. Len(rest'[w]) # 0
      BY <1>8, <1>12, <1>14
    <3> QED
      BY <3>5, <3>6
  <2>6. OwnInv(n)'
    <3>1. ASSUME NEW v \in Writers, at[v] = "write"
          PROVE  /\ Len(up') - n = Len(Frame(job[v], threshold)) - Len(rest'[v])
                 /\ Starts(up', n, Frame(job[v], threshold))
      BY <1>10, <1>11, <2>5, <3>1 DEF f
    <3>2. at[w] = "write" /\ rest'[w] # <<>>
      BY <1>1, <2>5
    <3> QED
      BY <1>1, <3>1, <3>2 DEF OwnInv
  <2> QED
    BY <2>1, <2>2, <2>4, <2>6 DEF UpInv
<1> QED
  BY <1>13, <1>14

-----------------------------------------------------------------------------
(* Leaving the lock, reading, and the end of the session.                  *)

\* Who leaves the lock is in no frame, and nobody comes to be in one.
LEMMA LeavesQuiet ==
  ASSUME WInv, NEW w \in Writers, Leaves(w),
         \A v \in Writers : v # w => job'[v] = job[v],
         UNCHANGED <<said, heard, serverThreshold, threshold>>
  PROVE  RestQuiet /\ UpQuiet
<1>1. rest'[w] = <<>> /\ \A v \in Writers \ {w} : rest'[v] = rest[v]
  BY DEF WInv, Typed, Leaves
<1>2. \A v \in Writers : at[v] = "write" <=> v = w
  BY DEF WInv, Exclusive, Leaves
<1>3. \A v \in Writers : at'[v] \in {"lock", "write"} => v # w /\ at'[v] = at[v]
  BY DEF Leaves
<1>4. \A v \in Writers : at'[v] # "write"
  BY <1>2, <1>3
<1>5. RestQuiet
  BY <1>1, <1>3 DEF RestQuiet
<1>6. UpQuiet
  BY <1>2, <1>4 DEF UpQuiet, Leaves
<1> QED
  BY <1>5, <1>6

LEMMA LeavesLockKeeps ==
  ASSUME WInv, RestInv, DataTyped, UpInv, LeavesLock PROVE RestInv' /\ UpInv'
<1>1. PICK w \in Writers : Leaves(w) /\ \A v \in Writers : v # w => job'[v] = job[v]
  <2>1. CASE HandlerReturns
    BY <2>1, HandlerReturnsLeaves DEF HandlerReturns, Writers
  <2>2. CASE WorkerReturns
    BY <2>2, WorkerReturnsLeaves DEF WorkerReturns, Writers
  <2>3. ASSUME NEW w \in Writers, WritesOn(w)
        PROVE  Leaves(w) /\ \A v \in Writers : v # w => job'[v] = job[v]
    BY <2>3, WritesOnLeaves DEF WritesOn, DataTyped
  <2>4. ASSUME NEW w \in Writers, WriteFails(w)
        PROVE  Leaves(w) /\ \A v \in Writers : v # w => job'[v] = job[v]
    BY <2>4, WriteFailsLeaves DEF WriteFails
  <2> QED
    BY <2>1, <2>2, <2>3, <2>4 DEF LeavesLock
<1>2. UNCHANGED <<said, heard, serverThreshold, threshold>>
  BY DEF LeavesLock, HandlerReturns, WorkerReturns, WritesOn, WriteFails, Wrote, ghosts, theirs
<1>3. RestQuiet /\ UpQuiet
  BY <1>1, <1>2, LeavesQuiet
<1> QED
  BY <1>3, RestQuietStep, UpQuietStep DEF WInv

\* A quiet step of one who is not writing, with a threshold that changes only while
\* nobody is, or a server's that changes only when it has heard all there is.
LEMMA QuietKeeps ==
  ASSUME WInv, RestInv, DataTyped, UpInv, Quiet,
         \A w \in Writers : at'[w] \in {"lock", "write"} => job'[w] = job[w],
         UNCHANGED <<said, heard>>,
         threshold' = threshold \/ \A w \in Writers : at'[w] \notin {"lock", "write"},
         serverThreshold' = serverThreshold \/ Len(said) = Len(heard)
  PROVE  RestInv' /\ UpInv'
<1>1. RestQuiet
  BY DEF RestQuiet, Quiet
<1>2. UpQuiet
  BY DEF UpQuiet, Quiet
<1> QED
  BY <1>1, <1>2, RestQuietStep, UpQuietStep DEF WInv

\* Compression is announced before the login is accepted.
LEMMA CompressIsEarly ==
  ASSUME DataTyped, Prefixes, OrderInv, Len(got) < Len(asked),
         asked[Len(got) + 1] = "compress"
  PROVE  Early
<1> SUFFICES ASSUME NEW s \in 1..Len(got), got[s] = "success" PROVE FALSE
  BY DEF Early
<1>1. Len(got) \in Nat /\ Len(asked) \in Nat /\ Len(got) + 1 \in 1..Len(asked)
  BY DEF DataTyped
<1>2. s \in 1..Len(asked) /\ asked[s] = "success"
  BY <1>1 DEF Prefixes
<1>3. limit >= 0
  BY <1>1 DEF OrderInv
<1>4. PICK i \in 1..(s - 1) : asked[i] = "compress"
  BY <1>2, <1>3 DEF OrderInv
<1>5. i \in 1..Len(asked) /\ i < Len(got) + 1
  BY <1>1, <1>2, <1>4
<1>6. i = Len(got) + 1
  BY <1>1, <1>4, <1>5 DEF OrderInv
<1> QED
  BY <1>1, <1>5, <1>6

\* So when the client reads it, it has written what it had to write.
LEMMA CompressIsTaken ==
  ASSUME WInv, TalkInv, Len(got) < Len(asked), NEW p, p = asked[Len(got) + 1],
         at["login"] = "read", Handle(p)
  PROVE  IF p = "compress"
         THEN /\ TakeCompress(p) /\ at["worker"] = "none"
         ELSE threshold' = threshold
<1>1. CASE p = "compress"
  <2>1. Early
    BY <1>1, CompressIsEarly DEF TalkInv
  <2>2. asked # <<>>
    BY DEF TalkInv, DataTyped
  <2>3. state = "login" /\ at["worker"] = "none"
    BY <2>1, <2>2, Waits DEF TalkInv, OrderInv
  <2>4. TakeCompress(p)
    BY <1>1, <2>3 DEF Handle, LoginSuccess, AnswersRequest, TakePackOffer, TakeFinish,
                      TakeRefusal, SkipsPacket, Answer
  <2> QED
    BY <1>1, <2>3, <2>4
<1>2. CASE p # "compress"
  BY <1>2 DEF Handle, TakeCompress, LoginSuccess, AnswersRequest, TakePackOffer, TakeFinish,
              TakeRefusal, SkipsPacket, Replies
<1> QED
  BY <1>1, <1>2

LEMMA HandleJob ==
  ASSUME NEW p, Handle(p)
  PROVE  /\ job' = job \/ (\E q : job' = [job EXCEPT !["login"] = q])
         /\ \E point \in {"encode", "packs", "read", "failed"} : Go("login", point)
  BY DEF Handle, TakeCompress, LoginSuccess, AnswersRequest, TakePackOffer, TakeFinish,
         TakeRefusal, SkipsPacket, Replies, NextRead

\* What ReadPacket reads.
LEMMA ReadPacketReads ==
  ASSUME DownInv, TalkInv, ReadPacket
  PROVE  /\ Len(got) < Len(asked) /\ Unread \in Nat \ {0}
         /\ got' = Append(got, asked[Len(got) + 1]) /\ Handle(asked[Len(got) + 1])
         /\ Len(DownFrames[1]) \in 1..Len(down)
         /\ down' = SubSeq(down, Len(DownFrames[1]) + 1, Len(down))
<1>1. PICK n \in 1..Len(down) :
        /\ IsFrame(down, n) /\ down' = SubSeq(down, n + 1, Len(down))
        /\ got' = Append(got, PacketOf(SubSeq(down, 1, n), threshold))
        /\ Handle(PacketOf(SubSeq(down, 1, n), threshold))
  BY DEF ReadPacket
<1>2. /\ Unread \in Nat \ {0} /\ n = Len(DownFrames[1])
      /\ PacketOf(SubSeq(down, 1, n), threshold) = asked[Len(got) + 1]
  BY <1>1, ReadsNext DEF TalkInv
<1>3. Len(got) < Len(asked)
  BY <1>2 DEF Unread, TalkInv, DataTyped
<1> QED
  BY <1>1, <1>2, <1>3

LEMMA ReadPacketKeeps ==
  ASSUME WInv, RestInv, UpInv, DownInv, TalkInv, ReadPacket
  PROVE  RestInv' /\ UpInv'
<1> DEFINE p == asked[Len(got) + 1]
<1>1. Len(got) < Len(asked) /\ Handle(p)
  BY ReadPacketReads
<1>2. at["login"] = "read" /\ UNCHANGED <<said, heard, serverThreshold>>
  BY DEF ReadPacket, theirs
<1>3. Quiet
  BY QuietSteps DEF WritesNothing
<1>4. at'["login"] \notin {"lock", "write"} /\ at'["worker"] = at["worker"]
      /\ job'["worker"] = job["worker"]
  <2>1. PICK point \in {"encode", "packs", "read", "failed"} : Go("login", point)
    BY <1>1, HandleJob
  <2>2. job'["worker"] = job["worker"]
    BY <1>1, HandleJob DEF TalkInv, DataTyped, Writers
  <2> QED
    BY <2>1, <2>2 DEF Go, WInv, Typed, Writers
<1>5. threshold' = threshold \/ \A w \in Writers : at'[w] \notin {"lock", "write"}
  BY <1>1, <1>2, <1>4, CompressIsTaken DEF Writers
<1>6. \A w \in Writers : at'[w] \in {"lock", "write"} => job'[w] = job[w]
  BY <1>4 DEF Writers
<1> QED
  BY <1>2, <1>3, <1>5, <1>6, QuietKeeps DEF TalkInv

\* The other quiet steps change no job and no threshold of the client's.
OnlyWaits ==
  \/ ReadFails \/ CloseSocket \/ StopResourcePacks \/ PacksStopped \/ WorkerGivesUp
  \/ ContextEnds \/ ServerFails \/ \E w \in Writers : TakePacksMu(w)

LEMMA OnlyWaitsChanges ==
  ASSUME OnlyWaits
  PROVE  UNCHANGED <<threshold, job, said, got, limit, serverThreshold, asked, heard>>
  BY DEF OnlyWaits, ReadFails, CloseSocket, StopResourcePacks, PacksStopped, WorkerGivesUp,
         ContextEnds, ServerFails, TakePacksMu, conn, writers, ghosts, theirs, Ours

LEMMA OnlyWaitsKeeps ==
  ASSUME WInv, RestInv, DataTyped, UpInv, OnlyWaits PROVE RestInv' /\ UpInv'
<1>1. Quiet
  BY QuietSteps, ServerSteps DEF OnlyWaits, WritesNothing
<1> QED
  BY <1>1, OnlyWaitsChanges, QuietKeeps

-----------------------------------------------------------------------------
(* The server.                                                             *)

LEMMA ServerLevel ==
  ASSUME TalkInv PROVE serverThreshold \in Levels /\ threshold \in Levels
  BY LevelType DEF TalkInv, LevelInv, DataTyped

LEMMA ServerReadsHears ==
  ASSUME WInv, UpInv, TalkInv, ServerReads
  PROVE  /\ Unheard \in Nat \ {0} /\ Len(UpFrames[1]) \in 1..Len(up)
         /\ heard' = Append(heard, said[Len(heard) + 1])
         /\ up' = SubSeq(up, Len(UpFrames[1]) + 1, Len(up))
         /\ UNCHANGED <<open, threshold, at, job, rest, said, server, serverThreshold>>
<1>1. PICK n \in 1..Len(up) :
        /\ IsFrame(up, n) /\ up' = SubSeq(up, n + 1, Len(up))
        /\ heard' = Append(heard, PacketOf(SubSeq(up, 1, n), serverThreshold))
  BY DEF ServerReads
<1>2. /\ Unheard \in Nat \ {0} /\ n = Len(UpFrames[1])
      /\ PacketOf(SubSeq(up, 1, n), serverThreshold) = said[Len(heard) + 1]
  BY <1>1, HearsNext, ServerLevel DEF TalkInv, WInv
<1>3. UNCHANGED <<open, threshold, at, job, rest, said, server, serverThreshold>>
  BY DEF ServerReads, Ours, conn, writers, ghosts
<1> QED
  BY <1>1, <1>2, <1>3

\* What is behind the first frame stays where it is, and so does half a frame.
LEMMA HalfStays ==
  ASSUME NEW S, NEW bytes \in Seq(S), NEW k \in 0..Len(bytes), NEW n \in k..Len(bytes)
  PROVE  LET later == SubSeq(bytes, k + 1, Len(bytes))
         IN /\ later \in Seq(S) /\ n - k \in Nat /\ n - k \in 0..Len(later)
            /\ Len(later) = Len(bytes) - k /\ Len(later) - (n - k) = Len(bytes) - n
            /\ \A f : Starts(bytes, n, f) => Starts(later, n - k, f)
<1> DEFINE later == SubSeq(bytes, k + 1, Len(bytes))
<1>1. Len(bytes) \in Nat /\ k \in Nat /\ n \in Nat /\ k <= n /\ n <= Len(bytes)
  OBVIOUS
<1>2. /\ later \in Seq(S) /\ Len(later) = Len(bytes) - k
      /\ \A i \in 1..(Len(bytes) - k) : later[i] = bytes[k + i]
  BY <1>1
<1> HIDE DEF later
<1>3. Len(later) - (n - k) = Len(bytes) - n /\ n - k \in Nat /\ n - k \in 0..Len(later)
  BY <1>1, <1>2
<1>4. ASSUME NEW f, Starts(bytes, n, f) PROVE Starts(later, n - k, f)
  <2> SUFFICES ASSUME NEW i \in 1..(Len(bytes) - n) PROVE Same(later[(n - k) + i], f[i])
    BY <1>3 DEF Starts
  <2>1. (n - k) + i \in 1..(Len(bytes) - k) /\ k + ((n - k) + i) = n + i
    BY <1>1
  <2>2. later[(n - k) + i] = bytes[n + i]
    BY <1>2, <2>1
  <2> QED
    BY <1>4, <2>2 DEF Starts
<1> QED
  BY <1>2, <1>3, <1>4 DEF later

LEMMA ServerReadsUp ==
  ASSUME WInv, UpInv, TalkInv, ServerReads PROVE UpInv'
<1>1. PICK S : up \in Seq(S)
  BY DEF WInv, Sequential
<1>2. PICK n \in Nat : Stream(up, Unheard, UpFrames, n) /\ Half(up, n) /\ OwnInv(n)
  BY DEF UpInv
<1> DEFINE k == Len(UpFrames[1])
           later == SubSeq(up, k + 1, Len(up))
<1>3. /\ Unheard \in Nat \ {0} /\ k \in 1..Len(up)
      /\ heard' = Append(heard, said[Len(heard) + 1]) /\ up' = later
      /\ UNCHANGED <<open, threshold, at, job, rest, said, server, serverThreshold>>
  BY ServerReadsHears
<1>4. k \in 0..n /\ n <= Len(up)
  BY <1>1, <1>2, <1>3, StreamFirst
<1>5. Len(heard') = Len(heard) + 1 /\ Len(heard) \in Nat /\ Unheard' = Unheard - 1
      /\ Len(said) \in Nat
  <2>1. /\ Len(heard') = Len(heard) + 1 /\ Len(heard) \in Nat
        /\ Len(said) \in Nat
    BY <1>3 DEF TalkInv, DataTyped
  <2> QED
    BY <1>3, <2>1 DEF Unheard
<1>6. \A j \in 1..(Unheard - 1) : UpFrames'[j] = UpFrames[j + 1]
  <2> SUFFICES ASSUME NEW j \in 1..(Unheard - 1) PROVE UpFrames'[j] = UpFrames[j + 1]
    OBVIOUS
  <2>1. /\ j + 1 \in 1..Unheard /\ j \in 1..Unheard'
        /\ Len(heard') + j = Len(heard) + (j + 1)
    BY <1>3, <1>5
  <2>2. UpFrames'[j] = Frame(said[Len(heard') + j], serverThreshold)
    BY <1>3, <2>1 DEF UpFrames
  <2>3. UpFrames[j + 1] = Frame(said[Len(heard) + (j + 1)], serverThreshold)
    BY <2>1 DEF UpFrames
  <2> QED
    BY <2>1, <2>2, <2>3
<1>7. Stream(later, Unheard - 1, UpFrames', n - k)
  <2> DEFINE others == UpFrames'
  <2>1. \A j \in 1..(Unheard - 1) : others[j] = UpFrames[j + 1]
    BY <1>6
  <2> HIDE DEF others
  <2>2. Stream(later, Unheard - 1, others, n - k)
    BY <1>1, <1>2, <1>3, <2>1, StreamPop
  <2> QED
    BY <2>2 DEF others
<1>8. /\ n - k \in Nat /\ Len(later) - (n - k) = Len(up) - n
      /\ \A f : Starts(up, n, f) => Starts(later, n - k, f)
      /\ Len(later) = Len(up) - k
  <2>1. k \in 0..Len(up) /\ n \in k..Len(up)
    BY <1>1, <1>2, <1>4
  <2> HIDE DEF k
  <2> QED
    BY <1>1, <2>1, HalfStays
<1> HIDE DEF k, later
<1>9. PICK m \in Nat : m = n - k
  BY <1>8
<1>10. Len(up') - m = Len(up) - n /\ \A f : Starts(up, n, f) => Starts(up', m, f)
  BY <1>3, <1>8, <1>9
<1>11. Half(up', m)
  BY <1>2, <1>10 DEF Half
<1>12. OwnInv(m)'
  <2> SUFFICES ASSUME Live PROVE
        /\ \A w \in Writers : at[w] = "write" /\ rest[w] # <<>> =>
             /\ Len(up') - m = Len(Frame(job[w], threshold)) - Len(rest[w])
             /\ Starts(up', m, Frame(job[w], threshold))
        /\ (\A w \in Writers : at[w] = "write" => rest[w] = <<>>) => Len(up') = m
    BY <1>3 DEF OwnInv, Live
  <2>1. (\A w \in Writers : at[w] = "write" => rest[w] = <<>>) => Len(up) = n
    BY <1>2 DEF OwnInv
  <2>2. Len(up) = n => Len(up') = m
    BY <1>3, <1>8, <1>9
  <2>3. \A w \in Writers : at[w] = "write" /\ rest[w] # <<>> =>
          /\ Len(up') - m = Len(Frame(job[w], threshold)) - Len(rest[w])
          /\ Starts(up', m, Frame(job[w], threshold))
    BY <1>2, <1>10 DEF OwnInv
  <2> QED
    BY <2>1, <2>2, <2>3
<1>13. Stream(up', Unheard', UpFrames', m)
  BY <1>3, <1>5, <1>7, <1>9
<1> QED
  BY <1>11, <1>12, <1>13 DEF UpInv

LEMMA ServerReadsRest ==
  ASSUME WInv, RestInv, ServerReads PROVE RestInv'
<1>1. UNCHANGED <<threshold, at, job, rest>>
  BY DEF ServerReads, Ours, conn, writers
<1> QED
  BY <1>1 DEF RestInv

-----------------------------------------------------------------------------
(* What the server sends.                                                  *)

\* Whatever it asks first, it has been spoken to.
LEMMA AsksWhenSpokenTo ==
  ASSUME TalkInv, NEW p, MayAsk(p) \/ Heard("start") PROVE Says("start")
<1>1. \A q : Heard(q) => Says(q)
  <2> SUFFICES ASSUME NEW q, Heard(q) PROVE Says(q)
    OBVIOUS
  <2>1. PICK j \in DOMAIN heard : heard[j] = q
    BY DEF Heard, Range
  <2>2. j \in 1..Len(heard) /\ j \in 1..Len(said)
    BY <2>1 DEF TalkInv, DataTyped, Prefixes
  <2> QED
    BY <2>1, <2>2 DEF Says, TalkInv, Prefixes
<1>2. asked # <<>> => Says("start")
  BY DEF TalkInv, OrderInv
<1>3. ASSUME asked = <<>>, NEW q \in {"acknowledged", "settings"} PROVE ~Says(q)
  <2>1. Early
    BY <1>3 DEF TalkInv, Prefixes, DataTyped, Early
  <2>2. said \in {<<>>, <<"handshake">>, <<"handshake", "start">>}
    BY <2>1 DEF TalkInv, EarlyInv
  <2> QED
    BY <2>2 DEF Says
<1>4. asked = <<>> => \A q : ~Asked(q)
  BY DEF Asked, Range
<1>5. ASSUME MayAsk(p), asked = <<>> PROVE Heard("start")
  BY <1>1, <1>3, <1>4, <1>5 DEF MayAsk
<1> QED
  BY <1>1, <1>2, <1>5

\* Compression is announced when the client has written all it had to write.
LEMMA CompressIsQuiet ==
  ASSUME TalkInv, MayAsk("compress") PROVE Len(said) = Len(heard) /\ limit >= 0
<1>1. Heard("start") /\ ~Asked("compress") /\ limit >= 0
  BY WireAssumption DEF MayAsk
<1>2. Early
  <2> SUFFICES ASSUME NEW s \in 1..Len(got), got[s] = "success" PROVE FALSE
    BY DEF Early
  <2>1. s \in 1..Len(asked) /\ asked[s] = "success"
    BY DEF TalkInv, DataTyped, Prefixes
  <2>2. PICK i \in 1..(s - 1) : asked[i] = "compress"
    BY <1>1, <2>1 DEF TalkInv, OrderInv
  <2>3. i \in DOMAIN asked
    BY <2>1, <2>2 DEF TalkInv, DataTyped
  <2> QED
    BY <1>1, <2>2, <2>3 DEF Asked, Range
<1>3. said = <<"handshake", "start">>
  BY <1>2, AsksWhenSpokenTo, Waits DEF TalkInv
<1>4. PICK j \in DOMAIN heard : heard[j] = "start"
  BY <1>1 DEF Heard, Range
<1>5. j \in 1..Len(heard) /\ Len(heard) <= Len(said) /\ Len(heard) \in Nat /\ said[j] = "start"
  <2>1. j \in 1..Len(heard) /\ Len(heard) \in Nat
    BY <1>4 DEF TalkInv, DataTyped
  <2>2. Len(heard) <= Len(said) /\ heard[j] = said[j]
    BY <2>1 DEF TalkInv, Prefixes
  <2> QED
    BY <1>4, <2>1, <2>2
<1>6. Len(said) = 2 /\ said[1] = "handshake"
  BY <1>3
<1>7. j # 1
  BY <1>5, <1>6
<1> QED
  BY <1>1, <1>5, <1>6, <1>7

\* What the induction needs to know of a packet that the server sends.
Proper(p) ==
  /\ p \in ToClient /\ server = "serving" /\ Says("start")
  /\ p = "compress" => Len(said) = Len(heard) /\ limit >= 0 /\ ~Asked("compress")
  /\ p = "success" /\ limit >= 0 => Asked("compress")

LEMMA SentIsProper ==
  ASSUME TalkInv, ServerAsks \/ ServerRefuses
  PROVE  \E p : Sends(p) /\ Proper(p)
<1>1. ASSUME NEW p \in ToClient, MayAsk(p), Sends(p) PROVE Proper(p)
  <2>1. server = "serving" /\ Says("start") /\ ~Asked(p)
    BY <1>1, AsksWhenSpokenTo DEF MayAsk
  <2>2. p = "compress" => Len(said) = Len(heard) /\ limit >= 0
    BY <1>1, CompressIsQuiet
  <2>3. p = "success" /\ limit >= 0 => Asked("compress")
    BY <1>1, WireAssumption DEF MayAsk
  <2> QED
    BY <2>1, <2>2, <2>3 DEF Proper
<1>2. ASSUME ServerRefuses PROVE \E p : Sends(p) /\ Proper(p)
  <2>1. PICK p \in {"disconnect", "encryption"} : Sends(p)
    BY <1>2 DEF ServerRefuses
  <2>2. server = "serving" /\ Says("start")
    BY <1>2, AsksWhenSpokenTo DEF ServerRefuses
  <2> QED
    BY <2>1, <2>2 DEF Proper, ToClient
<1> QED
  BY <1>1, <1>2 DEF ServerAsks

LEMMA SendsChanges ==
  ASSUME TalkInv, NEW p, p \in ToClient, Sends(p)
  PROVE  /\ asked' \in Seq(ToClient) /\ Len(asked') = Len(asked) + 1
         /\ asked'[Len(asked) + 1] = p /\ \A j \in 1..Len(asked) : asked'[j] = asked[j]
         /\ down' = down \o Frame(p, serverThreshold)
         /\ serverThreshold' = IF p = "compress" THEN limit ELSE serverThreshold
         /\ UNCHANGED <<up, rest, at, job, threshold, said, got, heard, limit, state>>
<1>1. asked' = Append(asked, p) /\ asked \in Seq(ToClient)
  BY DEF Sends, TalkInv, DataTyped
<1>2. UNCHANGED <<up, rest, at, job, threshold, said, got, heard, limit, state>>
  BY DEF Sends, Ours, conn, writers, ghosts
<1>3. /\ down' = down \o Frame(p, serverThreshold)
      /\ serverThreshold' = IF p = "compress" THEN limit ELSE serverThreshold
  BY DEF Sends, Frame
<1> QED
  BY <1>1, <1>2, <1>3

\* A packet more does not change the threshold of those before it.
LEMMA LevelStays ==
  ASSUME TalkInv, NEW p, p \in ToClient, Sends(p)
  PROVE  \A j \in Nat : j <= Len(asked) + 1 => Level(j)' = Level(j)
<1> SUFFICES ASSUME NEW j \in Nat, j <= Len(asked) + 1
             PROVE  (\E i \in 1..(j - 1) : asked'[i] = "compress")
                      <=> (\E i \in 1..(j - 1) : asked[i] = "compress")
  BY SendsChanges DEF Level
<1>1. \A i \in 1..(j - 1) : i \in 1..Len(asked)
  BY DEF TalkInv, DataTyped
<1> QED
  BY <1>1, SendsChanges

LEMMA SendsLevel ==
  ASSUME TalkInv, NEW p, Sends(p), Proper(p) PROVE LevelInv'
<1>1. p \in ToClient /\ Len(got) \in Nat /\ Len(asked) \in Nat /\ Len(got) <= Len(asked)
  BY DEF Proper, TalkInv, DataTyped, Prefixes
<1>2. threshold' = IF \E i \in 1..(Len(got') + 1 - 1) : asked'[i] = "compress"
                   THEN limit' ELSE CompressionDisabled
  <2>1. PICK j \in Nat : j = Len(got) + 1 /\ j <= Len(asked) + 1
    BY <1>1
  <2>2. Level(j)' = Level(j)
    BY <1>1, <2>1, LevelStays
  <2>3. threshold' = Level(j)'
    BY <1>1, <2>1, <2>2, SendsChanges DEF TalkInv, LevelInv
  <2> QED
    BY <1>1, <2>1, <2>3, SendsChanges DEF Level
<1>3. serverThreshold' = IF \E i \in 1..(Len(asked') + 1 - 1) : asked'[i] = "compress"
                         THEN limit' ELSE CompressionDisabled
  <2> DEFINE l == Len(asked)
  <2>1. /\ Len(asked') + 1 - 1 = l + 1 /\ l + 1 - 1 = l /\ l \in Nat
        /\ asked'[l + 1] = p /\ \A j \in 1..l : asked'[j] = asked[j]
        /\ limit' = limit
    BY <1>1, SendsChanges
  <2> HIDE DEF l
  <2>2. (\E i \in 1..(l + 1) : asked'[i] = "compress")
          <=> (p = "compress" \/ \E i \in 1..l : asked[i] = "compress")
    <3>1. \A i \in 1..(l + 1) : i = l + 1 \/ i \in 1..l
      BY <2>1
    <3>2. l + 1 \in 1..(l + 1) /\ \A i \in 1..l : i \in 1..(l + 1)
      BY <2>1
    <3> QED
      BY <2>1, <3>1, <3>2
  <2>3. serverThreshold = IF \E i \in 1..l : asked[i] = "compress" THEN limit
                          ELSE CompressionDisabled
    BY <2>1 DEF TalkInv, LevelInv, Level, l
  <2>4. serverThreshold' = IF p = "compress" THEN limit ELSE serverThreshold
    BY <1>1, SendsChanges
  <2>5. serverThreshold' = IF \E i \in 1..(l + 1) : asked'[i] = "compress" THEN limit'
                           ELSE CompressionDisabled
    BY <2>1, <2>2, <2>3, <2>4
  <2> QED
    BY <2>1, <2>5
<1> QED
  BY <1>2, <1>3 DEF LevelInv, Level

LEMMA SendsOrder ==
  ASSUME TalkInv, NEW p, Sends(p), Proper(p) PROVE OrderInv'
<1> DEFINE l == Len(asked)
<1>1. /\ l \in Nat /\ Len(asked') = l + 1 /\ asked'[l + 1] = p
      /\ \A j \in 1..l : asked'[j] = asked[j]
      /\ limit' = limit /\ said' = said
  BY SendsChanges DEF Proper, TalkInv, DataTyped
<1>2. (\A j \in 1..l : asked[j] # "compress") <=> ~Asked("compress")
  BY DEF TalkInv, DataTyped, Asked, Range
<1>3. Says("start")'
  BY <1>1 DEF Proper, Says
<1>4. p = "compress" => limit >= 0 /\ \A j \in 1..l : asked[j] # "compress"
  BY <1>2 DEF Proper
<1>5. p = "success" /\ limit >= 0 => \E i \in 1..l : asked[i] = "compress"
  BY <1>2 DEF Proper
<1>6. /\ \A i, j \in 1..l : asked[i] = "compress" /\ asked[j] = "compress" => i = j
      /\ \A j \in 1..l : asked[j] = "compress" => limit >= 0
      /\ \A j \in 1..l : asked[j] = "success" /\ limit >= 0 =>
           \E i \in 1..(j - 1) : asked[i] = "compress"
  BY DEF TalkInv, OrderInv
<1> HIDE DEF l
<1>7. \A j \in 1..(l + 1) : (j = l + 1 /\ asked'[j] = p) \/ (j \in 1..l /\ asked'[j] = asked[j])
  BY <1>1
<1>8. \A i, j \in 1..(l + 1) : asked'[i] = "compress" /\ asked'[j] = "compress" => i = j
  BY <1>4, <1>6, <1>7
<1>9. \A j \in 1..(l + 1) : asked'[j] = "compress" => limit' >= 0
  BY <1>1, <1>4, <1>6, <1>7
<1>10. ASSUME NEW j \in 1..(l + 1), asked'[j] = "success", limit >= 0
       PROVE  \E i \in 1..(j - 1) : asked'[i] = "compress"
  <2>1. CASE j = l + 1
    <3>1. PICK i \in 1..l : asked[i] = "compress"
      BY <1>5, <1>7, <1>10, <2>1, <1>1
    <3>2. i \in 1..(j - 1) /\ asked'[i] = "compress"
      BY <1>1, <2>1, <3>1
    <3> QED
      BY <3>2
  <2>2. CASE j \in 1..l
    <3>1. PICK i \in 1..(j - 1) : asked[i] = "compress"
      BY <1>1, <1>6, <1>10, <2>2
    <3>2. i \in 1..l
      BY <1>1, <2>2, <3>1
    <3> QED
      BY <1>1, <3>1, <3>2
  <2> QED
    BY <1>7, <2>1, <2>2
<1> QED
  BY <1>1, <1>3, <1>8, <1>9, <1>10 DEF OrderInv

LEMMA SendsTalk ==
  ASSUME TalkInv, NEW p, Sends(p), Proper(p) PROVE TalkInv'
<1> USE SendsChanges DEF Proper
<1>1. DataTyped'
  <2>1. PICK S : down \in Seq(S)
    BY DEF TalkInv, DataTyped
  <2>2. PICK T : Frame(p, serverThreshold) \in Seq(T)
    BY FrameType, ServerLevel
  <2>3. down \in Seq(S \cup T) /\ Frame(p, serverThreshold) \in Seq(S \cup T)
    BY <2>1, <2>2
  <2>4. down \o Frame(p, serverThreshold) \in Seq(S \cup T)
    BY <2>3
  <2>5. \E U : down' \in Seq(U)
    BY <2>4
  <2> QED
    BY <2>5 DEF TalkInv, DataTyped
<1>2. Prefixes'
  BY DEF TalkInv, DataTyped, Prefixes
<1>3. EarlyInv'
  BY DEF TalkInv, EarlyInv, Early, Written, Unwritten
<1> QED
  BY <1>1, <1>2, <1>3, SendsLevel, SendsOrder DEF TalkInv

LEMMA SendsDown ==
  ASSUME DownInv, TalkInv, NEW p, Sends(p), Proper(p) PROVE DownInv'
<1> DEFINE f == Frame(p, serverThreshold)
<1>1. PICK S : down \in Seq(S)
  BY DEF TalkInv, DataTyped
<1>2. PICK T : f \in Seq(T) /\ Len(f) \in Nat
  BY FrameType, ServerLevel
<1>3. PICK n \in Nat : Stream(down, Unread, DownFrames, n) /\ Len(down) = n
  BY DEF DownInv, Proper
<1>4. /\ Len(asked) \in Nat /\ Len(asked') = Len(asked) + 1 /\ asked'[Len(asked) + 1] = p
      /\ \A j \in 1..Len(asked) : asked'[j] = asked[j]
      /\ down' = down \o f /\ got' = got /\ Len(got) \in Nat
  BY SendsChanges DEF Proper, TalkInv, DataTyped
<1>5. Unread \in Nat /\ Unread' = Unread + 1 /\ Len(got) + Unread = Len(asked)
  BY <1>3, <1>4 DEF Unread, Stream
<1>6. \A j \in Nat : j <= Len(asked) + 1 => Level(j)' = Level(j)
  BY LevelStays DEF Proper
<1>7. \A j \in 1..Unread : DownFrames'[j] = DownFrames[j]
  <2> SUFFICES ASSUME NEW j \in 1..Unread PROVE DownFrames'[j] = DownFrames[j]
    OBVIOUS
  <2>1. PICK k \in Nat : k = Len(got) + j /\ k \in 1..Len(asked) /\ k <= Len(asked) + 1
    <3>1. Len(got) + j \in Nat /\ Len(got) + j >= 1 /\ Len(got) + j <= Len(asked)
      BY <1>4, <1>5
    <3> QED
      BY <1>4, <3>1, SMTT(30)
  <2>2. Level(k)' = Level(k)
    BY <1>6, <2>1
  <2>3. DownFrames[j] = Frame(asked[k], Level(k))
    BY <2>1 DEF DownFrames
  <2>4. DownFrames'[j] = Frame(asked'[k], Level(k)')
    <3>1. j \in 1..Unread'
      BY <1>5
    <3> QED
      BY <1>4, <2>1, <3>1 DEF DownFrames, Level
  <2> QED
    BY <1>4, <2>1, <2>2, <2>3, <2>4
<1>8. DownFrames'[Unread + 1] = f
  <2>1. PICK k \in Nat : k = Len(asked) + 1
    BY <1>4
  <2>2. Level(k)' = Level(k) /\ Level(k) = serverThreshold
    BY <1>6, <2>1 DEF TalkInv, LevelInv
  <2>3. Unread + 1 \in 1..Unread' /\ Len(got') + (Unread + 1) = k
    BY <1>4, <1>5, <2>1
  <2>4. DownFrames'[Unread + 1] = Frame(asked'[k], Level(k)')
    BY <2>3 DEF DownFrames, Level
  <2> QED
    BY <1>4, <2>1, <2>2, <2>4
<1> HIDE DEF f
<1>9. /\ down' \in Seq(S \cup T) /\ Len(down') = Len(down) + Len(f) /\ Len(down) \in Nat
      /\ \A i \in 1..Len(down) : down'[i] = down[i]
      /\ \A i \in 1..Len(f) : down'[Len(down) + i] = f[i]
  <2>1. down \in Seq(S \cup T) /\ f \in Seq(S \cup T)
    BY <1>1, <1>2
  <2> QED
    BY <1>4, <2>1
<1>10. Stream(down', Unread + 1, DownFrames', n + Len(f))
  <2> DEFINE more == down'
             longer == DownFrames'
  <2>1. /\ more \in Seq(S \cup T) /\ Len(down) <= Len(more)
        /\ \A i \in 1..Len(down) : more[i] = down[i]
        /\ n + Len(f) <= Len(more) /\ \A i \in 1..Len(f) : Same(more[n + i], f[i])
    BY <1>2, <1>3, <1>9 DEF Same
  <2>2. longer[Unread + 1] = f /\ \A j \in 1..Unread : longer[j] = DownFrames[j]
    BY <1>7, <1>8
  <2> HIDE DEF more, longer
  <2>3. Stream(more, Unread, DownFrames, n)
    BY <1>1, <1>3, <2>1, StreamGrows
  <2>4. Stream(more, Unread + 1, longer, n + Len(f))
    BY <1>2, <2>1, <2>2, <2>3, StreamPush
  <2> QED
    BY <2>4 DEF more, longer
<1>11. PICK m \in Nat : m = n + Len(f)
  BY <1>2
<1>12. Stream(down', Unread', DownFrames', m) /\ Len(down') = m
  BY <1>3, <1>5, <1>9, <1>10, <1>11
<1> QED
  BY <1>12 DEF DownInv

LEMMA SendsKeeps ==
  ASSUME CInv, ServerAsks \/ ServerRefuses PROVE CInv'
<1>1. Quiet
  BY ServerSteps DEF CInv
<1>2. PICK p : Sends(p) /\ Proper(p)
  BY SentIsProper DEF CInv
<1>3. RestInv' /\ UpInv'
  <2>1. /\ UNCHANGED <<job, threshold, said, heard>>
        /\ serverThreshold' = IF p = "compress" THEN limit ELSE serverThreshold
    BY <1>2, SendsChanges DEF Proper, CInv
  <2>2. p = "compress" => Len(said) = Len(heard)
    BY <1>2 DEF Proper
  <2> QED
    BY <1>1, <2>1, <2>2, QuietKeeps DEF CInv, TalkInv
<1>4. DownInv' /\ TalkInv'
  BY <1>2, SendsDown, SendsTalk DEF CInv
<1> QED
  BY <1>1, <1>3, <1>4, QuietWInv DEF CInv

-----------------------------------------------------------------------------
(* Reading.                                                                *)

LEMMA GotGrows ==
  ASSUME DownInv, TalkInv, ReadPacket
  PROVE  /\ got' \in Seq(ToClient) /\ Len(got) \in Nat /\ Len(got') = Len(got) + 1
         /\ Len(got) < Len(asked) /\ Len(asked) \in Nat
         /\ got'[Len(got) + 1] = asked[Len(got) + 1]
         /\ \A j \in 1..Len(got) : got'[j] = got[j]
         /\ UNCHANGED <<asked, limit, said, heard, serverThreshold, server, rest, state>>
<1>1. Len(got) < Len(asked) /\ got' = Append(got, asked[Len(got) + 1])
  BY ReadPacketReads
<1>2. got \in Seq(ToClient) /\ asked \in Seq(ToClient)
  BY DEF TalkInv, DataTyped
<1>3. asked[Len(got) + 1] \in ToClient
  BY <1>1, <1>2
<1>4. UNCHANGED <<asked, limit, said, heard, serverThreshold, server, rest, state>>
  BY DEF ReadPacket, theirs
<1> QED
  BY <1>1, <1>2, <1>3, <1>4

LEMMA ReadPacketDown ==
  ASSUME DownInv, TalkInv, ReadPacket PROVE DownInv'
<1>1. PICK S : down \in Seq(S)
  BY DEF TalkInv, DataTyped
<1>2. PICK n \in Nat :
        /\ Stream(down, Unread, DownFrames, n)
        /\ Len(down) = n \/ (server = "garbled" /\ SubSeq(down, n + 1, Len(down)) \in Garbage)
  BY DEF DownInv
<1> DEFINE k == Len(DownFrames[1])
           later == SubSeq(down, k + 1, Len(down))
<1>3. Unread \in Nat \ {0} /\ k \in 1..Len(down) /\ down' = later
  BY ReadPacketReads
<1>4. k \in 0..n /\ n <= Len(down) /\ Len(down) \in Nat /\ k \in Nat
  BY <1>1, <1>2, <1>3, StreamFirst
<1>5. Unread' = Unread - 1 /\ Len(got') = Len(got) + 1 /\ Len(got) \in Nat /\ got' # got
  BY GotGrows DEF Unread
<1>6. \A j \in 1..(Unread - 1) : DownFrames'[j] = DownFrames[j + 1]
  <2> SUFFICES ASSUME NEW j \in 1..(Unread - 1) PROVE DownFrames'[j] = DownFrames[j + 1]
    OBVIOUS
  <2>1. PICK i \in Nat : i = Len(got) + (j + 1)
    BY <1>3, <1>5
  <2>2. j + 1 \in 1..Unread /\ j \in 1..Unread' /\ Len(got') + j = i
    BY <1>3, <1>5, <2>1
  <2>3. DownFrames'[j] = Frame(asked'[i], Level(i)')
    BY <2>2 DEF DownFrames, Level
  <2>4. DownFrames[j + 1] = Frame(asked[i], Level(i))
    BY <2>1, <2>2 DEF DownFrames
  <2>5. asked' = asked /\ Level(i)' = Level(i)
    BY GotGrows DEF Level
  <2> QED
    BY <2>3, <2>4, <2>5
<1>7. Stream(later, Unread - 1, DownFrames', n - k)
  <2> DEFINE others == DownFrames'
  <2>1. \A j \in 1..(Unread - 1) : others[j] = DownFrames[j + 1]
    BY <1>6
  <2> HIDE DEF others
  <2>2. Stream(later, Unread - 1, others, n - k)
    BY <1>1, <1>2, <1>3, <2>1, StreamPop
  <2> QED
    BY <2>2 DEF others
<1> HIDE DEF k
<1>8. Len(later) = Len(down) - k
  BY <1>1, <1>4
<1>9. PICK m \in Nat : m = n - k
  BY <1>4
<1>10. ASSUME Len(down) = n PROVE Len(later) = m
  BY <1>4, <1>8, <1>9, <1>10
<1>11. SubSeq(later, m + 1, Len(later)) = SubSeq(down, n + 1, Len(down))
  <2> DEFINE a == SubSeq(later, m + 1, Len(later))
             b == SubSeq(down, n + 1, Len(down))
  <2>1. later \in Seq(S) /\ m + 1 \in Nat \ {0} /\ n + 1 \in Nat \ {0}
    BY <1>1, <1>4
  <2>2. /\ a \in Seq(S) /\ Len(a) = Len(later) - m
        /\ \A i \in 1..(Len(later) - m) : a[i] = later[m + i]
    BY <1>4, <1>8, <1>9, <2>1
  <2>3. b \in Seq(S) /\ Len(b) = Len(down) - n
        /\ \A i \in 1..(Len(down) - n) : b[i] = down[n + i]
    BY <1>1, <1>4, <2>1
  <2>4. \A i \in 1..(Len(down) - k) : later[i] = down[k + i]
    BY <1>1, <1>4
  <2> HIDE DEF a, b, later
  <2>5. Len(later) - m = Len(down) - n
    BY <1>4, <1>8, <1>9
  <2>6. ASSUME NEW i \in 1..(Len(down) - n) PROVE a[i] = b[i]
    <3>1. m + i \in 1..(Len(down) - k) /\ k + (m + i) = n + i
      BY <1>4, <1>9
    <3> QED
      BY <2>2, <2>3, <2>4, <2>5, <3>1
  <2>7. a = b
    <3>1. Len(a) = Len(b) /\ \A i \in 1..Len(a) : a[i] = b[i]
      BY <2>2, <2>3, <2>5, <2>6
    <3>2. a \in Seq(S) /\ b \in Seq(S)
      BY <2>2, <2>3
    <3> QED
      BY <3>1, <3>2
  <2> QED
    BY <2>7 DEF a, b
<1> HIDE DEF later
<1>12. Stream(down', Unread', DownFrames', m)
  BY <1>3, <1>5, <1>7, <1>9
<1>13. Len(down') = m \/ (server' = "garbled" /\ SubSeq(down', m + 1, Len(down')) \in Garbage)
  BY <1>2, <1>3, <1>10, <1>11, GotGrows
<1> QED
  BY <1>12, <1>13 DEF DownInv

LEMMA ReadPacketLevel ==
  ASSUME WInv, DownInv, TalkInv, ReadPacket PROVE LevelInv'
<1> DEFINE p == asked[Len(got) + 1]
           l == Len(got)
<1>1. /\ l \in Nat /\ Len(got') = l + 1
      /\ UNCHANGED <<asked, limit, serverThreshold>>
  BY GotGrows
<1>2. IF p = "compress" THEN TakeCompress(p) ELSE threshold' = threshold
  BY ReadPacketReads, CompressIsTaken DEF ReadPacket
<1>3. threshold' = IF p = "compress" THEN limit ELSE threshold
  BY <1>2 DEF TakeCompress
<1>4. threshold = IF \E i \in 1..l : asked[i] = "compress" THEN limit ELSE CompressionDisabled
  BY <1>1 DEF TalkInv, LevelInv, Level
<1>5. asked[l + 1] = p
  OBVIOUS
<1> HIDE DEF l, p
<1>6. (\E i \in 1..(l + 1) : asked[i] = "compress")
        <=> (p = "compress" \/ \E i \in 1..l : asked[i] = "compress")
  <2>1. \A i \in 1..(l + 1) : i = l + 1 \/ i \in 1..l
    BY <1>1
  <2>2. l + 1 \in 1..(l + 1) /\ \A i \in 1..l : i \in 1..(l + 1)
    BY <1>1
  <2> QED
    BY <1>5, <2>1, <2>2
<1>7. threshold' = IF \E i \in 1..(l + 1) : asked[i] = "compress" THEN limit
                   ELSE CompressionDisabled
  BY <1>3, <1>4, <1>6
<1>8. Len(got') + 1 - 1 = l + 1
  BY <1>1
<1>9. threshold' = IF \E i \in 1..(Len(got') + 1 - 1) : asked'[i] = "compress" THEN limit'
                   ELSE CompressionDisabled
  BY <1>1, <1>7, <1>8
<1>10. serverThreshold' = IF \E i \in 1..(Len(asked') + 1 - 1) : asked'[i] = "compress"
                          THEN limit' ELSE CompressionDisabled
  BY <1>1 DEF TalkInv, LevelInv, Level
<1> QED
  BY <1>9, <1>10 DEF LevelInv, Level

LEMMA ReadPacketJob ==
  ASSUME NEW p, DataTyped, Handle(p) PROVE job' \in [Writers -> ToServer]
<1>1. CASE job' = job
  BY <1>1 DEF DataTyped
<1>2. CASE \E q \in ToServer : job' = [job EXCEPT !["login"] = q]
  BY <1>2 DEF DataTyped, Writers
<1>3. job' = job \/ \E q \in ToServer : job' = [job EXCEPT !["login"] = q]
  BY DEF Handle, TakeCompress, LoginSuccess, AnswersRequest, TakePackOffer, TakeFinish,
         TakeRefusal, SkipsPacket, Replies, Answer, ToServer
<1> QED
  BY <1>1, <1>2, <1>3

LEMMA ReadPacketEarly ==
  ASSUME WInv, DownInv, TalkInv, ReadPacket PROVE EarlyInv'
<1> DEFINE p == asked[Len(got) + 1]
<1> SUFFICES ASSUME Early'
             PROVE  /\ at'["worker"] = "none" /\ at'["login"] \in {"read", "failed"}
                    /\ job'["login"] = "start" /\ state' = "login"
                    /\ said' = <<"handshake", "start">>
  BY Said DEF EarlyInv, Written, Unwritten
<1>1. at["login"] = "read" /\ Handle(p)
  BY ReadPacketReads DEF ReadPacket
<1>2. Early /\ p # "success"
  BY GotGrows DEF Early
<1>3. /\ at["worker"] = "none" /\ job["login"] = "start" /\ state = "login"
      /\ said = <<"handshake", "start">>
  BY <1>1, <1>2 DEF TalkInv, EarlyInv, Written
<1>4. TakeCompress(p) \/ TakeRefusal(p) \/ SkipsPacket(p)
  BY <1>1, <1>2, <1>3 DEF Handle, LoginSuccess, AnswersRequest, TakePackOffer, TakeFinish
<1>5. job' = job /\ (Go("login", "read") \/ Go("login", "failed"))
  BY <1>4 DEF TakeCompress, TakeRefusal, SkipsPacket, NextRead
<1>6. at'["worker"] = "none" /\ at'["login"] \in {"read", "failed"}
  BY <1>3, <1>5 DEF Go, WInv, Typed, Writers
<1> QED
  BY <1>3, <1>5, <1>6, GotGrows

LEMMA ReadPacketTalk ==
  ASSUME WInv, DownInv, TalkInv, ReadPacket PROVE TalkInv'
<1>1. DataTyped'
  <2>1. PICK S : down \in Seq(S)
    BY DEF TalkInv, DataTyped
  <2>2. PICK k \in 1..Len(down) : down' = SubSeq(down, k + 1, Len(down))
    BY ReadPacketReads
  <2>3. down' \in Seq(S)
    BY <2>1, <2>2
  <2>4. job' \in [Writers -> ToServer]
    BY ReadPacketReads, ReadPacketJob DEF TalkInv
  <2> QED
    BY <2>3, <2>4, GotGrows DEF TalkInv, DataTyped
<1>2. Prefixes'
  <2>1. Len(got') <= Len(asked)
    BY GotGrows
  <2>2. ASSUME NEW j \in 1..Len(got') PROVE got'[j] = asked[j]
    <3>1. j \in 1..Len(got) \/ j = Len(got) + 1
      BY GotGrows
    <3> QED
      BY <3>1, GotGrows DEF TalkInv, Prefixes
  <2> QED
    BY <2>1, <2>2, GotGrows DEF TalkInv, Prefixes
<1>3. OrderInv'
  BY GotGrows DEF TalkInv, OrderInv, Says
<1> QED
  BY <1>1, <1>2, <1>3, ReadPacketLevel, ReadPacketEarly DEF TalkInv

LEMMA ReadPacketKeepsAll ==
  ASSUME CInv, ReadPacket PROVE CInv'
<1>1. WInv'
  BY QuietSteps, QuietWInv DEF CInv, WritesNothing
<1> QED
  BY <1>1, ReadPacketKeeps, ReadPacketDown, ReadPacketTalk DEF CInv

-----------------------------------------------------------------------------
(* The steps that read and send nothing.                                   *)

LEMMA SameDown ==
  ASSUME DownInv, UNCHANGED <<down, got, asked, limit>>,
         server' = server \/ server = "serving"
  PROVE  DownInv'
<1>1. PICK n \in Nat :
        /\ Stream(down, Unread, DownFrames, n)
        /\ Len(down) = n \/ (server = "garbled" /\ SubSeq(down, n + 1, Len(down)) \in Garbage)
  BY DEF DownInv
<1>2. Unread' = Unread /\ DownFrames' = DownFrames /\ down' = down
  BY DEF Unread, DownFrames, Level
<1>3. Stream(down', Unread', DownFrames', n)
  BY <1>1, <1>2
<1>4. Len(down') = n \/ (server' = "garbled" /\ SubSeq(down', n + 1, Len(down')) \in Garbage)
  BY <1>1
<1> QED
  BY <1>3, <1>4 DEF DownInv

\* All of TalkInv but the beginning of the conversation.
LEMMA SameTalk ==
  ASSUME TalkInv, job' \in [Writers -> ToServer], EarlyInv',
         UNCHANGED <<down, limit, threshold, serverThreshold, said, heard, asked, got>>
  PROVE  TalkInv'
<1>1. LevelInv'
  BY DEF TalkInv, LevelInv, Level
<1>2. DataTyped' /\ Prefixes' /\ OrderInv'
  BY DEF TalkInv, DataTyped, Prefixes, OrderInv, Says
<1> QED
  BY <1>1, <1>2 DEF TalkInv

LEMMA LeavesLockTalk ==
  ASSUME WInv, TalkInv, LeavesLock
  PROVE  /\ job' \in [Writers -> ToServer] /\ EarlyInv'
         /\ UNCHANGED <<down, limit, threshold, serverThreshold, said, heard, asked, got, server>>
<1>1. UNCHANGED <<down, limit, threshold, serverThreshold, said, heard, asked, got, server>>
  BY DEF LeavesLock, HandlerReturns, WorkerReturns, WritesOn, WriteFails, Wrote, ghosts, theirs
<1>2. job' \in [Writers -> ToServer]
  <2>1. CASE job' = job
    BY <2>1 DEF TalkInv, DataTyped
  <2>2. ASSUME NEW w \in Writers, WritesOn(w) PROVE job' \in [Writers -> ToServer]
    <3>1. Then[job[w]] \in ToServer
      BY <2>2 DEF WritesOn, Then, ToServer
    <3> QED
      BY <2>2, <3>1 DEF WritesOn, TalkInv, DataTyped
  <2> QED
    BY <2>1, <2>2 DEF LeavesLock, HandlerReturns, WorkerReturns, WriteFails
<1>3. EarlyInv'
  <2> SUFFICES ASSUME Early' PROVE
        /\ at'["worker"] = "none"
        /\ \/ /\ at'["login"] = "encode" /\ job'["login"] = "start" /\ state' = "login"
              /\ said' = <<"handshake">>
           \/ /\ at'["login"] = "read" /\ job'["login"] = "start" /\ state' = "login"
              /\ said' = <<"handshake", "start">>
           \/ /\ at'["login"] = "failed" /\ UNCHANGED <<job, state>>
              /\ \/ /\ job["login"] = "handshake" /\ state = "handshaking"
                    /\ said \in {<<>>, <<"handshake">>}
                 \/ /\ job["login"] = "start" /\ state = "login"
                    /\ said \in {<<"handshake">>, <<"handshake", "start">>}
    BY <1>1, Said DEF EarlyInv, Written, Unwritten
  <2>1. Early /\ EarlyInv /\ at["worker"] = "none"
    BY <1>1 DEF TalkInv, Early, EarlyInv
  <2>2. ASSUME WritesOn("login") PROVE
          /\ at'["worker"] = "none" /\ at'["login"] = "encode" /\ job'["login"] = "start"
          /\ state' = "login" /\ said' = <<"handshake">>
    <3>1. at["login"] = "write" /\ rest["login"] = <<>> /\ job["login"] \in DOMAIN Then
      BY <2>2 DEF WritesOn, Wrote
    <3>2. job["login"] = "handshake" /\ said = <<"handshake">>
      BY <2>1, <3>1 DEF EarlyInv, Written, Then
    <3>3. state' = "login"
      BY <2>2, <3>2 DEF WritesOn, Wrote, StateAfter
    <3>4. job'["login"] = "start"
      BY <2>2, <3>2 DEF WritesOn, Then, TalkInv, DataTyped, Writers
    <3>5. at'["login"] = "encode" /\ at'["worker"] = "none"
      BY <2>1, <2>2 DEF WritesOn, Go, WInv, Typed, Writers
    <3> QED
      BY <1>1, <3>2, <3>3, <3>4, <3>5
  <2>3. ASSUME HandlerReturns PROVE
          /\ at'["worker"] = "none" /\ at'["login"] \in {"read", "failed"}
          /\ job' = job /\ job["login"] = "start" /\ state' = state /\ state = "login"
          /\ said' = <<"handshake", "start">> /\ said' = said
    <3>1. at["login"] = "write" /\ rest["login"] = <<>> /\ job["login"] \notin DOMAIN Then
          /\ job' = job /\ state' = StateAfter(job["login"])
      BY <2>3 DEF HandlerReturns, Wrote
    <3>2. job["login"] = "start" /\ said = <<"handshake", "start">> /\ state = "login"
      BY <2>1, <3>1 DEF EarlyInv, Written, Then
    <3>3. state' = state
      BY <3>1, <3>2 DEF StateAfter
    <3>4. at' = [at EXCEPT !["login"] = NextRead]
      BY <2>3, <3>2 DEF HandlerReturns
    <3>5. at'["login"] \in {"read", "failed"} /\ at'["worker"] = "none"
      BY <2>1, <3>4 DEF WInv, Typed, Writers, NextRead
    <3> QED
      BY <1>1, <3>1, <3>2, <3>3, <3>5
  <2>4. ASSUME WriteFails("login") PROVE
          at'["worker"] = "none" /\ at'["login"] = "failed" /\ UNCHANGED <<job, state>>
    BY <2>1, <2>4 DEF WriteFails, Go, WInv, Typed, Writers
  <2>5. ~WorkerReturns /\ ~WritesOn("worker") /\ ~WriteFails("worker")
    BY <2>1 DEF WorkerReturns, WritesOn, WriteFails, Wrote
  <2>6. \/ /\ job["login"] = "handshake" /\ state = "handshaking"
           /\ said \in {<<>>, <<"handshake">>}
        \/ /\ job["login"] = "start" /\ state = "login"
           /\ said \in {<<"handshake">>, <<"handshake", "start">>}
    BY <2>1 DEF EarlyInv
  <2>7. HandlerReturns \/ WritesOn("login") \/ WriteFails("login")
    BY <2>5 DEF LeavesLock, Writers
  <2> QED
    BY <2>2, <2>3, <2>4, <2>6, <2>7
<1> QED
  BY <1>1, <1>2, <1>3

LEMMA LeavesLockKeepsAll == ASSUME CInv, LeavesLock PROVE CInv'
<1>1. DownInv' /\ TalkInv'
  BY LeavesLockTalk, SameDown, SameTalk DEF CInv
<1> QED
  BY <1>1, LeavesLockWInv, LeavesLockKeeps DEF CInv, TalkInv

LEMMA OnlyWaitsEarly ==
  ASSUME WInv, TalkInv, OnlyWaits PROVE EarlyInv'
<1> SUFFICES ASSUME Early' PROVE
      \/ UNCHANGED <<at, rest, job, state, said>>
      \/ /\ at'["worker"] = "none" /\ at'["login"] \in {"failed", "stop", "wait", "ended"}
         /\ UNCHANGED <<job, state, said>>
         /\ at["login"] # "read" \/ job["login"] = "start"
  <2>1. (Early' => Early) /\ EarlyInv
    BY OnlyWaitsChanges DEF TalkInv, Early
  <2> QED
    BY <2>1 DEF EarlyInv, Written, Unwritten
<1>1. Early /\ EarlyInv /\ UNCHANGED <<job, said>>
  BY OnlyWaitsChanges DEF TalkInv, Early
<1>2. at["worker"] = "none" /\ at["login"] # "packs"
      /\ (at["login"] = "read" => job["login"] = "start")
  BY <1>1 DEF EarlyInv
<1>3. ~WorkerGivesUp /\ \A w \in Writers : ~TakePacksMu(w)
  BY <1>2 DEF WorkerGivesUp, TakePacksMu, Writers
<1>4. CASE ContextEnds \/ ServerFails
  BY <1>4 DEF ContextEnds, ServerFails, Ours, writers, ghosts
<1>5. CASE ReadFails \/ CloseSocket \/ StopResourcePacks \/ PacksStopped
  <2>1. \E point \in {"failed", "stop", "wait", "ended"} : Go("login", point)
    BY <1>5 DEF ReadFails, CloseSocket, StopResourcePacks, PacksStopped
  <2>2. at'["worker"] = "none" /\ at'["login"] \in {"failed", "stop", "wait", "ended"}
    BY <1>2, <2>1 DEF Go, WInv, Typed, Writers
  <2>3. state' = state
    BY <1>5 DEF ReadFails, CloseSocket, StopResourcePacks, PacksStopped
  <2> QED
    BY <1>1, <1>2, <2>2, <2>3
<1> QED
  BY <1>3, <1>4, <1>5 DEF OnlyWaits

\* Bytes that are no frame come after the last one.
LEMMA ServerFailsDown ==
  ASSUME DownInv, TalkInv, ServerFails PROVE DownInv' /\ \E S : down' \in Seq(S)
<1>1. server = "serving" /\ UNCHANGED <<got, asked, limit>>
  BY DEF ServerFails, Ours, ghosts
<1>2. PICK S : down \in Seq(S)
  BY DEF TalkInv, DataTyped
<1>3. CASE down' = down
  BY <1>1, <1>2, <1>3, SameDown
<1>4. ASSUME NEW g \in Garbage, down' = down \o g, server' = "garbled"
      PROVE  DownInv' /\ \E T : down' \in Seq(T)
  <2>1. PICK T : g \in Seq(T)
    <3>1. CASE \E u \in {MaxPacketSize + 1, Word - 1, Word + 1} : g = AppendVarInt(u)
      BY <3>1, AppendVarIntType
    <3>2. CASE g = [i \in 1..MaxVarIntBytes |-> Number(Base)]
      <4>1. g \in Seq({Number(Base)})
        BY <3>2, WireAssumption
      <4> QED
        BY <4>1
    <3> QED
      BY <1>4, <3>1, <3>2 DEF Garbage
  <2>2. PICK n \in Nat : Stream(down, Unread, DownFrames, n) /\ Len(down) = n
    BY <1>1 DEF DownInv
  <2> DEFINE R == S \cup T
  <2>3. down \in Seq(R) /\ g \in Seq(R)
    BY <1>2, <2>1
  <2>4. /\ down' \in Seq(R) /\ Len(down') = n + Len(g) /\ Len(g) \in Nat
        /\ \A i \in 1..n : down'[i] = down[i]
        /\ \A i \in 1..Len(g) : down'[n + i] = g[i]
    <3>1. PICK a : a = down /\ a \in Seq(R) /\ Len(a) = n
      BY <2>2, <2>3
    <3>2. /\ a \o g \in Seq(R) /\ Len(a \o g) = n + Len(g) /\ Len(g) \in Nat
          /\ \A i \in 1..n : (a \o g)[i] = a[i]
          /\ \A i \in 1..Len(g) : (a \o g)[n + i] = g[i]
      BY <2>3, <3>1
    <3> QED
      BY <1>4, <3>1, <3>2
  <2>5. Stream(down', Unread, DownFrames, n)
    <3> DEFINE more == down'
    <3>1. more \in Seq(R) /\ Len(down) <= Len(more) /\ \A i \in 1..Len(down) : more[i] = down[i]
      BY <2>2, <2>4
    <3> HIDE DEF more
    <3>2. Stream(more, Unread, DownFrames, n)
      BY <1>2, <2>2, <3>1, StreamGrows
    <3> QED
      BY <3>2 DEF more
  <2>6. SubSeq(down', n + 1, Len(down')) = g
    <3> DEFINE a == SubSeq(down', n + 1, Len(down'))
    <3>1. /\ a \in Seq(R) /\ Len(a) = Len(g)
          /\ \A i \in 1..Len(g) : a[i] = down'[n + i]
      BY <2>4
    <3> HIDE DEF a
    <3>2. \A i \in 1..Len(a) : a[i] = g[i]
      BY <2>4, <3>1
    <3>3. a \in Seq(R) /\ Len(a) = Len(g)
      BY <3>1
    <3>4. a = g
      BY <2>3, <3>2, <3>3
    <3> QED
      BY <3>4 DEF a
  <2>7. Unread' = Unread /\ DownFrames' = DownFrames
    BY <1>1 DEF Unread, DownFrames, Level
  <2>8. Stream(down', Unread', DownFrames', n)
    BY <2>5, <2>7
  <2>9. server' = "garbled" /\ SubSeq(down', n + 1, Len(down')) \in Garbage
    BY <1>4, <2>6
  <2> QED
    BY <2>4, <2>8, <2>9 DEF DownInv
<1> QED
  BY <1>3, <1>4 DEF ServerFails

LEMMA OnlyWaitsKeepsAll == ASSUME CInv, OnlyWaits PROVE CInv'
<1>1. WInv'
  BY QuietSteps, ServerSteps, QuietWInv DEF CInv, OnlyWaits, WritesNothing
<1>2. DownInv' /\ \E S : down' \in Seq(S)
  <2>1. CASE ServerFails
    BY <2>1, ServerFailsDown DEF CInv
  <2>2. CASE ~ServerFails
    <3>1. UNCHANGED <<down, server>>
      BY <2>2 DEF OnlyWaits, ReadFails, CloseSocket, StopResourcePacks, PacksStopped,
                  WorkerGivesUp, ContextEnds, TakePacksMu, theirs
    <3> QED
      BY <3>1, SameDown, OnlyWaitsChanges DEF CInv, TalkInv, DataTyped
  <2> QED
    BY <2>1, <2>2
<1>3. TalkInv'
  <2>1. LevelInv'
    BY OnlyWaitsChanges DEF CInv, TalkInv, LevelInv, Level
  <2>2. DataTyped'
    BY <1>2, OnlyWaitsChanges DEF CInv, TalkInv, DataTyped
  <2>3. Prefixes' /\ OrderInv'
    BY OnlyWaitsChanges DEF CInv, TalkInv, Prefixes, OrderInv, Says
  <2> QED
    BY <2>1, <2>2, <2>3, OnlyWaitsEarly DEF CInv, TalkInv
<1> QED
  BY <1>1, <1>2, <1>3, OnlyWaitsKeeps DEF CInv, TalkInv

LEMMA StutterKeepsAll == ASSUME CInv, UNCHANGED vars PROVE CInv'
<1> USE DEF vars, conn, writers, ghosts, theirs
<1>1. WInv'
  BY NextWInv DEF CInv
<1>2. Quiet
  BY DEF Quiet, CInv, WInv, Typed, Live
<1>3. RestInv' /\ UpInv'
  BY <1>2, QuietKeeps DEF CInv, TalkInv
<1>4. DownInv'
  BY SameDown DEF CInv
<1>5. EarlyInv' /\ job' \in [Writers -> ToServer]
  BY DEF CInv, TalkInv, DataTyped, EarlyInv, Early, Written, Unwritten
<1>6. TalkInv'
  BY <1>5, SameTalk DEF CInv
<1> QED
  BY <1>1, <1>3, <1>4, <1>6 DEF CInv

-----------------------------------------------------------------------------
(* The steps of WritePacket, and what the server reads.                    *)

LEMMA EncodeKeepsAll ==
  ASSUME CInv, NEW w \in Writers, Encode(w) PROVE CInv'
<1>1. /\ at[w] = "encode" /\ at' = [at EXCEPT ![w] = "lock"]
      /\ UNCHANGED <<state, job, down, limit, threshold, serverThreshold, said, heard, asked,
                     got, server>>
  BY DEF Encode, Go, conn, ghosts, theirs
<1>2. EarlyInv'
  <2> SUFFICES ASSUME Early' PROVE
        at'["worker"] = "none" /\ at'["login"] = "lock" /\ at["login"] = "encode" /\ EarlyInv
        /\ Early
    BY <1>1 DEF EarlyInv, Written, Unwritten
  <2>1. Early /\ EarlyInv
    BY <1>1 DEF CInv, TalkInv, Early
  <2>2. w = "login" /\ at["worker"] = "none"
    BY <1>1, <2>1 DEF EarlyInv, Writers
  <2> QED
    BY <1>1, <2>1, <2>2 DEF CInv, WInv, Typed, Writers
<1>3. job' \in [Writers -> ToServer]
  BY <1>1 DEF CInv, TalkInv, DataTyped
<1>4. TalkInv' /\ DownInv'
  BY <1>1, <1>2, <1>3, SameTalk, SameDown DEF CInv
<1>5. RestInv' /\ UpInv'
  BY EncodeRest, EncodeUp DEF CInv, TalkInv
<1> QED
  BY <1>4, <1>5, EncodeWInv DEF CInv

LEMMA LockKeepsAll ==
  ASSUME CInv, NEW w \in Writers, Lock(w) PROVE CInv'
<1>1. /\ at[w] = "lock" /\ at' = [at EXCEPT ![w] = "write"]
      /\ UNCHANGED <<state, job, rest, down, limit, threshold, serverThreshold, said, heard,
                     asked, got, server>>
  BY DEF Lock, Go, ghosts, theirs
<1>2. rest[w] # <<>>
  <2>1. Len(rest[w]) = Len(Frame(job[w], threshold))
    BY <1>1 DEF CInv, RestInv
  <2>2. Len(Frame(job[w], threshold)) # 0
    BY FrameType, ServerLevel DEF CInv
  <2>3. Len(rest[w]) # 0
    BY <2>1, <2>2
  <2> QED
    BY <2>3
<1>3. EarlyInv'
  <2> SUFFICES ASSUME Early' PROVE
        /\ at'["worker"] = "none" /\ at'["login"] = "write" /\ rest'["login"] # <<>>
        /\ at["login"] = "lock" /\ EarlyInv /\ Early
    BY <1>1 DEF EarlyInv, Written, Unwritten
  <2>1. Early /\ EarlyInv
    BY <1>1 DEF CInv, TalkInv, Early
  <2>2. w = "login" /\ at["worker"] = "none"
    BY <1>1, <2>1 DEF EarlyInv, Writers
  <2> QED
    BY <1>1, <1>2, <2>1, <2>2 DEF CInv, WInv, Typed, Writers
<1>4. job' \in [Writers -> ToServer]
  BY <1>1 DEF CInv, TalkInv, DataTyped
<1>5. TalkInv' /\ DownInv'
  BY <1>1, <1>3, <1>4, SameTalk, SameDown DEF CInv
<1>6. RestInv' /\ UpInv'
  BY LockRest, LockUp DEF CInv, TalkInv
<1> QED
  BY <1>5, <1>6, LockWInv DEF CInv

LEMMA WriteByteTalk ==
  ASSUME WInv, TalkInv, NEW w \in Writers, WriteByte(w) PROVE TalkInv'
<1>1. /\ at[w] = "write" /\ rest[w] # <<>> /\ rest' = [rest EXCEPT ![w] = Tail(rest[w])]
      /\ said' = IF Len(rest[w]) = 1 THEN Append(said, job[w]) ELSE said
      /\ UNCHANGED <<at, state, job, down, limit, threshold, serverThreshold, heard, asked, got>>
  BY DEF WriteByte, conn, theirs
<1>2. /\ said' \in Seq(ToServer) /\ Len(said') >= Len(said) /\ Len(said) \in Nat
      /\ \A j \in 1..Len(said) : said'[j] = said[j]
  <2>1. said \in Seq(ToServer) /\ job[w] \in ToServer
    BY DEF TalkInv, DataTyped
  <2> QED
    BY <1>1, <2>1
<1>3. DataTyped'
  BY <1>1, <1>2 DEF TalkInv, DataTyped
<1>4. Prefixes'
  BY <1>1, <1>2 DEF TalkInv, DataTyped, Prefixes
<1>5. LevelInv'
  BY <1>1 DEF TalkInv, LevelInv, Level
<1>6. OrderInv'
  <2>1. Says("start") => Says("start")'
    BY <1>2 DEF Says
  <2> QED
    BY <1>1, <2>1 DEF TalkInv, OrderInv
<1>7. EarlyInv'
  <2> SUFFICES ASSUME Early' PROVE EarlyInv'
    BY DEF EarlyInv
  <2>1. Early /\ EarlyInv
    BY <1>1 DEF TalkInv, Early
  <2>2. w = "login" /\ Unwritten
    BY <1>1, <2>1 DEF EarlyInv, Unwritten, Writers
  <2>3. rest'["login"] = Tail(rest["login"])
    BY <1>1, <2>2 DEF WInv, Typed
  <2>4. PICK S : rest["login"] \in Seq(S)
    BY <2>2 DEF WInv, Sequential
  <2>5. CASE Len(rest[w]) = 1
    <3>1. said' = Append(said, job["login"])
      BY <1>1, <2>2, <2>5
    <3>2. \/ /\ job["login"] = "handshake" /\ said' = <<"handshake">> /\ state = "handshaking"
          \/ /\ job["login"] = "start" /\ said' = <<"handshake", "start">> /\ state = "login"
      BY <2>1, <2>2, <3>1, AppendSaid DEF EarlyInv
    <3>3. rest'["login"] = <<>>
      <4>1. Tail(rest["login"]) \in Seq(S) /\ Len(Tail(rest["login"])) = 0
        BY <1>1, <2>2, <2>4, <2>5
      <4>2. \A s \in Seq(S) : Len(s) = 0 => s = <<>>
        OBVIOUS
      <4> QED
        BY <2>3, <4>1, <4>2, Zenon
    <3>4. at["login"] = "write" /\ at' = at /\ at["worker"] = "none"
      BY <1>1, <2>1, <2>2 DEF EarlyInv
    <3> QED
      BY <1>1, <3>2, <3>3, <3>4, Said DEF EarlyInv, Written, Unwritten
  <2>6. CASE Len(rest[w]) # 1
    <3>1. rest'["login"] # <<>>
      <4>1. rest["login"] # <<>> /\ Len(rest["login"]) # 1
        BY <1>1, <2>2, <2>6
      <4>2. \A s \in Seq(S) : s # <<>> /\ Len(s) # 1 => Tail(s) # <<>>
        <5> SUFFICES ASSUME NEW s \in Seq(S), s # <<>>, Len(s) # 1 PROVE Tail(s) # <<>>
          OBVIOUS
        <5>1. Len(s) \in Nat \ {0} /\ Len(Tail(s)) = Len(s) - 1
          OBVIOUS
        <5>2. Len(Tail(s)) # 0
          BY <5>1
        <5>3. Len(<<>>) = 0
          OBVIOUS
        <5> QED
          BY <5>2, <5>3, Zenon
      <4> QED
        BY <2>3, <2>4, <4>1, <4>2
    <3>2. at["login"] = "write" /\ at' = at /\ said' = said
      BY <1>1, <2>2, <2>6
    <3> QED
      BY <1>1, <2>1, <2>2, <3>1, <3>2 DEF EarlyInv, Written, Unwritten
  <2> QED
    BY <2>5, <2>6
<1> QED
  BY <1>3, <1>4, <1>5, <1>6, <1>7 DEF TalkInv

LEMMA WriteByteKeepsAll ==
  ASSUME CInv, NEW w \in Writers, WriteByte(w) PROVE CInv'
<1>1. DownInv'
  <2>1. UNCHANGED <<down, got, asked, limit, server>>
    BY DEF WriteByte, theirs
  <2> QED
    BY <2>1, SameDown DEF CInv
<1>2. RestInv' /\ UpInv'
  BY WriteByteRest, WriteByteUp DEF CInv, TalkInv
<1> QED
  BY <1>1, <1>2, WriteByteTalk, WriteByteWInv DEF CInv

LEMMA ServerReadsKeepsAll ==
  ASSUME CInv, ServerReads PROVE CInv'
<1>1. UNCHANGED <<down, got, asked, limit, server, serverThreshold, threshold, at, rest, job,
                  said, state>>
  BY DEF ServerReads, Ours, conn, writers, ghosts
<1>2. DownInv'
  BY <1>1, SameDown DEF CInv
<1>3. /\ Unheard \in Nat \ {0} /\ heard' = Append(heard, said[Len(heard) + 1])
      /\ heard \in Seq(ToServer) /\ said \in Seq(ToServer)
  BY ServerReadsHears DEF CInv, TalkInv, DataTyped
<1>4. /\ Len(heard) < Len(said) /\ said[Len(heard) + 1] \in ToServer
  BY <1>3 DEF Unheard
<1>5. /\ heard' \in Seq(ToServer) /\ Len(heard') = Len(heard) + 1 /\ Len(heard') <= Len(said)
      /\ \A j \in 1..Len(heard') : j \in 1..Len(heard) \/ j = Len(heard) + 1
      /\ heard'[Len(heard) + 1] = said[Len(heard) + 1]
      /\ \A j \in 1..Len(heard) : heard'[j] = heard[j]
  BY <1>3, <1>4
<1>6. TalkInv'
  <2>1. DataTyped'
    BY <1>1, <1>5 DEF CInv, TalkInv, DataTyped
  <2>2. Prefixes'
    BY <1>1, <1>5 DEF CInv, TalkInv, Prefixes
  <2>3. LevelInv'
    BY <1>1 DEF CInv, TalkInv, LevelInv, Level
  <2>4. OrderInv' /\ EarlyInv'
    BY <1>1 DEF CInv, TalkInv, OrderInv, Says, EarlyInv, Early, Written, Unwritten
  <2> QED
    BY <2>1, <2>2, <2>3, <2>4 DEF TalkInv
<1>7. WInv' /\ RestInv' /\ UpInv'
  BY ServerReadsWInv, ServerReadsRest, ServerReadsUp DEF CInv
<1> QED
  BY <1>2, <1>6, <1>7 DEF CInv

-----------------------------------------------------------------------------
(* Either direction is a channel.                                          *)

LEMMA InitCInv == Init => CInv
<1> SUFFICES ASSUME Init PROVE CInv
  OBVIOUS
<1>1. WInv
  BY InitWInv
<1>2. /\ up = <<>> /\ down = <<>> /\ said = <<>> /\ got = <<>> /\ asked = <<>> /\ heard = <<>>
      /\ at = [login |-> "encode", worker |-> "none"]
      /\ job = [login |-> "handshake", worker |-> "downloaded"] /\ state = "handshaking"
      /\ limit \in Levels /\ threshold = CompressionDisabled
      /\ serverThreshold = CompressionDisabled
  BY DEF Init, Levels
<1>3. RestInv
  BY <1>2 DEF RestInv, Writers
<1>4. Len(<<>>) = 0 /\ <<>> \in Seq({})
  OBVIOUS
<1>5. UpInv
  <2>1. Unheard = 0
    BY <1>2, <1>4 DEF Unheard
  <2>2. Stream(up, Unheard, UpFrames, 0)
    <3>1. up \in Seq({})
      BY <1>2, <1>4
    <3> QED
      BY <2>1, <3>1, StreamEmpty
  <2>3. Half(up, 0)
    <3>1. "handshake" \in ToServer /\ CompressionDisabled \in Levels
      BY DEF ToServer, Levels
    <3>2. Len(Frame("handshake", CompressionDisabled)) \in Nat \ {0}
      BY <3>1, FrameType
    <3>3. Len(up) - 0 = 0
      BY <1>2, <1>4
    <3>4. Starts(up, 0, Frame("handshake", CompressionDisabled))
      BY <3>3 DEF Starts
    <3> QED
      BY <3>1, <3>2, <3>3, <3>4 DEF Half
  <2>4. OwnInv(0)
    BY <1>2, <1>4 DEF OwnInv, Writers
  <2> QED
    BY <2>2, <2>3, <2>4 DEF UpInv
<1>6. DownInv
  <2>1. Unread = 0
    BY <1>2, <1>4 DEF Unread
  <2>2. Stream(down, Unread, DownFrames, 0)
    <3>1. down \in Seq({})
      BY <1>2, <1>4
    <3> QED
      BY <2>1, <3>1, StreamEmpty
  <2> QED
    BY <1>2, <1>4, <2>2 DEF DownInv
<1>7. TalkInv
  <2>1. DataTyped
    BY <1>2, <1>4 DEF DataTyped, Writers, ToServer
  <2>2. Prefixes
    BY <1>2, <1>4 DEF Prefixes
  <2>3. LevelInv
    BY <1>2, <1>4 DEF LevelInv, Level
  <2>4. OrderInv
    BY <1>2, <1>4 DEF OrderInv
  <2>5. EarlyInv
    BY <1>2 DEF EarlyInv, Unwritten, Written
  <2> QED
    BY <2>1, <2>2, <2>3, <2>4, <2>5 DEF TalkInv
<1> QED
  BY <1>1, <1>3, <1>5, <1>6, <1>7 DEF CInv

LEMMA NextCases ==
  ASSUME [Next]_vars
  PROVE  \/ \E w \in Writers : Encode(w) \/ Lock(w) \/ WriteByte(w)
         \/ LeavesLock \/ ReadPacket \/ OnlyWaits \/ ServerReads
         \/ ServerAsks \/ ServerRefuses \/ UNCHANGED vars
  BY DEF Next, Progress, Login, Worker, WritePacket, LeavesLock, OnlyWaits, Writers

LEMMA NextCInv == CInv /\ [Next]_vars => CInv'
<1> SUFFICES ASSUME CInv, [Next]_vars PROVE CInv'
  OBVIOUS
<1>1. CASE \E w \in Writers : Encode(w) \/ Lock(w) \/ WriteByte(w)
  BY <1>1, EncodeKeepsAll, LockKeepsAll, WriteByteKeepsAll
<1>2. CASE LeavesLock
  BY <1>2, LeavesLockKeepsAll
<1>3. CASE ReadPacket
  BY <1>3, ReadPacketKeepsAll
<1>4. CASE OnlyWaits
  BY <1>4, OnlyWaitsKeepsAll
<1>5. CASE ServerReads
  BY <1>5, ServerReadsKeepsAll
<1>6. CASE ServerAsks \/ ServerRefuses
  BY <1>6, SendsKeeps
<1>7. CASE UNCHANGED vars
  BY <1>7, StutterKeepsAll
<1> QED
  BY <1>1, <1>2, <1>3, <1>4, <1>5, <1>6, <1>7, NextCases

\* What a step does to the packets of either direction.
LEMMA UpStep ==
  ASSUME CInv, [Next]_vars
  PROVE  UNCHANGED <<said, heard>> \/ Up!Send \/ Up!Receive
<1>1. CASE \E w \in Writers : WriteByte(w)
  <2>1. PICK w \in Writers : WriteByte(w)
    BY <1>1
  <2>2. /\ said' = IF Len(rest[w]) = 1 THEN Append(said, job[w]) ELSE said
        /\ heard' = heard /\ job[w] \in ToServer
    BY <2>1 DEF WriteByte, theirs, CInv, TalkInv, DataTyped
  <2> QED
    BY <2>2 DEF Up!Send
<1>2. CASE ServerReads
  <2>1. /\ Unheard \in Nat \ {0} /\ heard' = Append(heard, said[Len(heard) + 1])
        /\ said' = said
    BY <1>2, ServerReadsHears DEF CInv
  <2>2. Len(heard) < Len(said)
    BY <2>1 DEF Unheard, CInv, TalkInv, DataTyped
  <2> QED
    BY <2>1, <2>2 DEF Up!Receive
<1>3. CASE ServerAsks \/ ServerRefuses
  BY <1>3 DEF ServerAsks, ServerRefuses, Sends, Ours, ghosts
<1>4. CASE \/ \E w \in Writers : Encode(w) \/ Lock(w)
           \/ LeavesLock \/ ReadPacket \/ OnlyWaits \/ UNCHANGED vars
  <2>1. CASE \E w \in Writers : Encode(w) \/ Lock(w)
    BY <2>1 DEF Encode, Lock, ghosts, theirs
  <2>2. CASE LeavesLock
    BY <2>2, LeavesLockTalk DEF CInv
  <2>3. CASE ReadPacket
    BY <2>3 DEF ReadPacket, theirs
  <2>4. CASE OnlyWaits
    BY <2>4, OnlyWaitsChanges
  <2>5. CASE UNCHANGED vars
    BY <2>5 DEF vars, ghosts, theirs
  <2> QED
    BY <1>4, <2>1, <2>2, <2>3, <2>4, <2>5
<1> QED
  BY <1>1, <1>2, <1>3, <1>4, NextCases

LEMMA DownStep ==
  ASSUME CInv, [Next]_vars
  PROVE  UNCHANGED <<asked, got>> \/ Down!Send \/ Down!Receive
<1>1. CASE ServerAsks \/ ServerRefuses
  <2>1. PICK p : Sends(p) /\ Proper(p)
    BY <1>1, SentIsProper DEF CInv
  <2>2. asked' = Append(asked, p) /\ got' = got /\ p \in ToClient
    BY <2>1 DEF Sends, Proper, Ours, ghosts
  <2> QED
    BY <2>2 DEF Down!Send
<1>2. CASE ReadPacket
  <2>1. /\ Len(got) < Len(asked) /\ got' = Append(got, asked[Len(got) + 1])
    BY <1>2, ReadPacketReads DEF CInv
  <2>2. asked' = asked
    BY <1>2 DEF ReadPacket, theirs
  <2> QED
    BY <2>1, <2>2 DEF Down!Receive
<1>3. CASE \/ \E w \in Writers : Encode(w) \/ Lock(w) \/ WriteByte(w)
           \/ LeavesLock \/ OnlyWaits \/ ServerReads \/ UNCHANGED vars
  <2>1. CASE \E w \in Writers : Encode(w) \/ Lock(w) \/ WriteByte(w)
    BY <2>1 DEF Encode, Lock, WriteByte, ghosts, theirs
  <2>2. CASE LeavesLock
    BY <2>2, LeavesLockTalk DEF CInv
  <2>3. CASE OnlyWaits
    BY <2>3, OnlyWaitsChanges
  <2>4. CASE ServerReads
    BY <2>4 DEF ServerReads, Ours, ghosts
  <2>5. CASE UNCHANGED vars
    BY <2>5 DEF vars, ghosts, theirs
  <2> QED
    BY <1>3, <2>1, <2>2, <2>3, <2>4, <2>5
<1> QED
  BY <1>1, <1>2, <1>3, NextCases

(***************************************************************************)
(* WritePacket towards the server (conn.go:180): whichever goroutine       *)
(* writes, and though the threshold changes in the middle of the stream,   *)
(* the server reads the packets in the order they took the wire, each once *)
(* and whole, and a packet that was not written whole is never read.       *)
(***************************************************************************)
THEOREM UpChannel == Spec => UpIsChannel
<1>1. Init => Up!Init
  BY DEF Init, Up!Init
<1>2. CInv /\ [Next]_vars => [Up!Send \/ Up!Receive]_<<said, heard>>
  BY UpStep
<1> QED
  BY <1>1, <1>2, InitCInv, NextCInv, PTL DEF Spec, UpIsChannel, Up!Spec

(***************************************************************************)
(* ReadPacket (conn.go:104): what the client reads are the packets that    *)
(* the server sent, in order and each once; each frame is decoded under    *)
(* the threshold it was encoded under, and bytes that are no frame yield   *)
(* no packet.                                                              *)
(***************************************************************************)
THEOREM DownChannel == Spec => DownIsChannel
<1>1. Init => Down!Init
  BY DEF Init, Down!Init
<1>2. CInv /\ [Next]_vars => [Down!Send \/ Down!Receive]_<<asked, got>>
  BY DownStep
<1> QED
  BY <1>1, <1>2, InitCInv, NextCInv, PTL DEF Spec, DownIsChannel, Down!Spec
=============================================================================
