--------------------------- MODULE MovementProofs ---------------------------
(***************************************************************************)
(* Proofs about Movement, for a line of any length, any target and any     *)
(* number of ticks that a walk may stall.                                  *)
(*                                                                         *)
(* TypeOK is inductive as it stands: a walk strides only while it is not   *)
(* at its target, so that StepFrom stays between the two, and stalls only  *)
(* while it may.                                                           *)
(***************************************************************************)
EXTENDS Movement, TLAPS

LEMMA DistanceType ==
  ASSUME NEW a \in Positions, NEW b \in Positions
  PROVE  Distance(a, b) \in 0..Far
  BY MovementAssumption DEF Distance, Positions

\* A step towards the target does not leave the line.
LEMMA StepStays ==
  ASSUME NEW a \in Positions, Distance(a, Target) > 1
  PROVE  StepFrom(a) \in Positions
  BY MovementAssumption DEF StepFrom, Distance, Positions

LEMMA Returning ==
  ASSUME NEW t \in Threads
  PROVE  AfterWrite(t) \in Points /\ AfterFailure(t) \in Points
  BY DEF AfterWrite, AfterFailure, Threads, Points, ReaderPoints, IdlePoints, WalkerPoints,
         WalkerEnds, UserPoints

LEMMA InitType == Init => TypeOK
<1> SUFFICES ASSUME Init PROVE TypeOK
  OBVIOUS
<1>1. \A t \in Threads : at[t] \in Points
  BY DEF Init, Threads, Points, ReaderPoints, IdlePoints, UserPoints
<1>2. at = [t \in Threads |-> at[t]]
  BY DEF Init
<1>3. at \in [Threads -> Points]
  BY <1>1, <1>2
<1>4. goal \in [Threads -> Positions]
  BY MovementAssumption DEF Init, Positions
<1>5. /\ conn = "open" /\ pos = 0 /\ dead = FALSE /\ moves = 0
      /\ answered = TRUE /\ spoke = FALSE /\ expired = TRUE
      /\ best = Unseen /\ stalled = 0 /\ told = 0
  BY DEF Init
<1>6. best \in 0..Unseen /\ stalled \in 0..(StallTicks - 1) /\ moves \in 0..MaxMoves
      /\ pos \in Positions /\ told \in Positions
  BY <1>5, MovementAssumption DEF Positions, Unseen
<1> QED
  BY <1>3, <1>4, <1>5, <1>6, Zenon DEF TypeOK

\* The threads' control points and the positions they are about to report.
LEMMA GoesType ==
  ASSUME TypeOK, NEW t \in Threads, NEW from, NEW to \in Points, Goes(t, from, to)
  PROVE  at' \in [Threads -> Points]
  BY DEF TypeOK, Goes

LEMMA MeansType ==
  ASSUME TypeOK, NEW t \in Threads, NEW x \in Positions, Means(t, x)
  PROVE  goal' \in [Threads -> Positions]
  BY DEF TypeOK, Means

LEMMA ForgetsType ==
  ASSUME TypeOK, NEW t \in Threads, Forgets(t)
  PROVE  goal' \in [Threads -> Positions]
  BY MeansType, MovementAssumption DEF Forgets, Positions

-----------------------------------------------------------------------------
LEMMA WriteType ==
  ASSUME TypeOK, NEW t \in Threads, Write(t)
  PROVE  TypeOK'
<1> USE DEF TypeOK, stamps, walk
<1>1. CASE RecordPosition(t)
  BY <1>1 DEF RecordPosition, Goes, Points, Writing
<1>2. CASE SendPosition(t)
  BY <1>2 DEF SendPosition, Goes, Points, Writing
<1>3. CASE SendFails(t)
  BY <1>3, Returning, GoesType, ForgetsType DEF SendFails
<1>4. CASE MarkPositionSent(t)
  BY <1>4, Returning, GoesType, ForgetsType DEF MarkPositionSent
<1> QED
  BY <1>1, <1>2, <1>3, <1>4 DEF Write

LEMMA ReaderType ==
  ASSUME TypeOK,
         Reader \/ TakeDeathOrRespawn \/ (\E x \in Positions : TakeTeleport(x))
                \/ (\E d \in {-1, 1} : TakeMotion(d))
  PROVE  TypeOK'
<1> USE DEF TypeOK, stamps, walk
<1>a. "reader" \in Threads /\ "idle" \in Threads /\ {"place", "confirm", "echo", "mark", "done",
       "set", "read", "tick"} \subseteq Points
  BY DEF Threads, Points, ReaderPoints, IdlePoints, Writing
<1>b. ASSUME CountMove PROVE moves' \in 0..MaxMoves
  BY <1>b, MovementAssumption DEF CountMove
<1>1. CASE PlaceBot
  BY <1>1, <1>a, GoesType DEF PlaceBot
<1>2. CASE WriteConfirm
  BY <1>2, <1>a, GoesType DEF WriteConfirm
<1>3. CASE WriteEcho
  BY <1>3, <1>a, GoesType, ForgetsType DEF WriteEcho
<1>4. CASE MarkEcho
  BY <1>4, <1>a DEF MarkEcho
<1>5. CASE ReaderEnds
  BY <1>5, <1>a, GoesType, ForgetsType DEF ReaderEnds
<1>6. CASE TakeDeathOrRespawn
  BY <1>6 DEF TakeDeathOrRespawn
<1>7. ASSUME NEW x \in Positions, TakeTeleport(x) PROVE TypeOK'
  BY <1>7, <1>a, <1>b, GoesType, MeansType DEF TakeTeleport
<1>8. ASSUME NEW d \in {-1, 1}, TakeMotion(d) PROVE TypeOK'
  BY <1>8, <1>a, <1>b, GoesType, MeansType DEF TakeMotion
<1> QED
  BY <1>1, <1>2, <1>3, <1>4, <1>5, <1>6, <1>7, <1>8 DEF Reader

LEMMA WalkerType ==
  ASSUME TypeOK, Walker \/ StartWalk \/ WalkCancelled
  PROVE  TypeOK'
<1> USE DEF TypeOK, stamps, walk
<1>a. "walker" \in Threads /\ WalkerPoints \cup {"set"} \subseteq Points
  BY DEF Threads, Points, Writing
<1>b. Target \in Positions /\ Distance(pos, Target) \in 0..Far
  BY DistanceType, MovementAssumption DEF Positions
<1>1. CASE Stride
  <2>1. at' \in [Threads -> Points]
    BY <1>1, <1>a, GoesType DEF Stride, WalkerPoints
  <2>2. goal' \in [Threads -> Positions]
    BY <1>1, <1>a, StepStays, MeansType DEF Stride
  <2>3. best' \in 0..Unseen /\ stalled' \in 0..(StallTicks - 1)
    BY <1>1, <1>b, MovementAssumption DEF Stride, Unseen
  <2> QED
    BY <1>1, <2>1, <2>2, <2>3 DEF Stride
<1>2. CASE LastStride
  BY <1>2, <1>a, <1>b, GoesType, MeansType DEF LastStride, WalkerPoints
<1>3. CASE Blocked \/ WalkTicks \/ StartWalk \/ WalkCancelled
  BY <1>3, <1>a, GoesType DEF Blocked, WalkTicks, StartWalk, WalkCancelled, WalkerPoints,
     WalkerEnds
<1>4. CASE CheckAlive
  BY <1>4, <1>a, GoesType, ForgetsType DEF CheckAlive, WalkerPoints, WalkerEnds
<1> QED
  BY <1>1, <1>2, <1>3, <1>4 DEF Walker

LEMMA OthersType ==
  ASSUME TypeOK, Idle \/ User \/ StartUse \/ Clock \/ ConnectionEnds
  PROVE  TypeOK'
<1> USE DEF TypeOK, stamps, walk
<1>a. "idle" \in Threads /\ "user" \in Threads
      /\ {"look", "set", "use", "rest", "check"} \subseteq Points
  BY DEF Threads, Points, IdlePoints, UserPoints, Writing
<1>1. CASE Idle
  BY <1>1, <1>a, GoesType, MeansType DEF Idle, IdleWakes, IdleLooks
<1>2. CASE User \/ StartUse
  BY <1>2, <1>a, GoesType, MeansType DEF User, FindSettled, AnswerTeleport, PauseEnds, SendUse,
     StartUse
<1>3. CASE Clock \/ ConnectionEnds
  BY <1>3 DEF Clock, TickPasses, WindowPasses, ConnectionEnds
<1> QED
  BY <1>1, <1>2, <1>3

LEMMA TypeStep == TypeOK /\ [Next]_vars => TypeOK'
<1> SUFFICES ASSUME TypeOK, [Next]_vars PROVE TypeOK'
  OBVIOUS
<1>1. CASE Next
  BY <1>1, WriteType, ReaderType, WalkerType, OthersType DEF Next, Surroundings
<1>2. CASE UNCHANGED vars
  BY <1>2 DEF vars, TypeOK
<1> QED
  BY <1>1, <1>2

\* The type invariant of writePosition's callers (move.go, heartbeat.go, client.go,
\* settle.go): in particular WalkTo never aims beyond its target, and gives up at the
\* walkStallTicks-th tick without progress.
THEOREM TypeCorrect == Spec => []TypeOK
  BY InitType, TypeStep, PTL DEF Spec
=============================================================================
