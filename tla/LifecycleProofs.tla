------------------------- MODULE LifecycleProofs -------------------------
(***************************************************************************)
(* Proofs about Lifecycle, for every number of moves and deaths and every  *)
(* set of faults.                                                          *)
(*                                                                         *)
(* ExitedIsQuiet is not inductive: when CloseReturns lets MAIN go on, the  *)
(* goroutines Close has waited for must not be followed by new ones, and   *)
(* they are not because only the read loop starts any (QuietInv keeps      *)
(* this for the later points of MAIN, ServerInv and ClosedInv the rest of  *)
(* the property).  FallsDoNotOverlap needs to know what c.falling stands   *)
(* for (FlagInv), and that the fall the reader is about to start is a new  *)
(* one (FreshInv).                                                         *)
(***************************************************************************)
EXTENDS Lifecycle, TLAPS

DrivingPoints == FallPoints \ {"none", "ending", "done"}
HandlerPoints == {"confirm", "echo", "loaded", "idle", "fall", "motion"}

\* c.falling is set exactly while one fall drives the bot.
FlagInv ==
  /\ \A j, k \in Moves :
       fall[j] \in DrivingPoints /\ fall[k] \in DrivingPoints => j = k
  /\ falling <=> \E k \in Moves : fall[k] \in DrivingPoints

\* The fall of a move that the reader has not come to, or is still handling, has
\* not been started.
FreshInv ==
  /\ \A k \in Moves : k > moves => fall[k] = "none"
  /\ main \in HandlerPoints => moves \in Moves /\ fall[moves] = "none"

\* Once Run has returned the socket is closed.
ClosedInv ==
  main \in {"returned", "control", "cancel", "close", "wait", "stop", "exited"} =>
    conn = "closed"

\* Once MAIN has seen it end, the control server has ended.
ServerInv ==
  main \in {"cancel", "close", "wait", "stop", "exited"} =>
    ctl \in {"none", "done", "failed"}

\* Once the deferred Close has returned there is no goroutine in c.wg.
QuietInv ==
  main \in {"stop", "exited"} =>
    /\ loop \in {"none", "done"}
    /\ \A k \in Moves : fall[k] \in {"none", "done"}

IInv == TypeOK /\ FlagInv /\ FreshInv /\ ClosedInv /\ ServerInv /\ QuietInv

-----------------------------------------------------------------------------

LEMMA InitIInv == Init => IInv
<1> SUFFICES ASSUME Init PROVE IInv
  OBVIOUS
<1> USE LifecycleAssumption
<1>1. 0 \in 0..MaxMoves /\ 0 \in 0..MaxDeaths
  OBVIOUS
<1>2. ctl \in ControlPoints
  BY DEF Init, ControlPoints
<1>3. fall \in [Moves -> FallPoints]
  BY DEF Init, FallPoints
<1>4. TypeOK
  BY <1>1, <1>2, <1>3 DEF Init, TypeOK, MainPoints, LoopPoints
<1>5. FlagInv /\ FreshInv /\ ClosedInv /\ ServerInv /\ QuietInv
  BY DEF Init, FlagInv, FreshInv, ClosedInv, ServerInv, QuietInv, DrivingPoints,
         HandlerPoints
<1> QED
  BY <1>4, <1>5 DEF IInv

-----------------------------------------------------------------------------
\* Preservation of the conjuncts of the invariant.
LEMMA TypeOKStep == IInv /\ [Next]_vars => TypeOK'
<1> SUFFICES ASSUME IInv, [Next]_vars PROVE TypeOK'
  OBVIOUS
<1>a. TypeOK /\ LifecycleAssumption
  BY LifecycleAssumption DEF IInv
<1>b. FreshInv
  BY DEF IInv
<1>1. CASE CheckContext
  BY <1>1, <1>a DEF CheckContext, MainAt, TypeOK, socket, contexts, player, falls,
     MainPoints, ControlPoints, LoopPoints
<1>2. CASE HandlerWrites
  BY <1>2, <1>a DEF HandlerWrites, MainAt, TypeOK, socket, contexts, player,
     falls, MainPoints, ControlPoints, LoopPoints
<1>3. CASE HandlerWriteFails
  BY <1>3, <1>a DEF HandlerWriteFails, TypeOK, socket, contexts, player, falls,
     MainPoints, ControlPoints, LoopPoints
<1>4. CASE AnnounceLoaded
  BY <1>4, <1>a DEF AnnounceLoaded, MainAt, TypeOK, socket, contexts, player,
     falls, MainPoints, ControlPoints, LoopPoints
<1>5. CASE StartPositionLoop
  BY <1>5, <1>a DEF StartPositionLoop, MainAt, TypeOK, socket, contexts, player,
     falls, MainPoints, ControlPoints, LoopPoints
<1>6. CASE AutoFall
  <2>1. fall' \in [Moves -> FallPoints] /\ falling' \in BOOLEAN
    BY <1>6, <1>a DEF AutoFall, TypeOK, FallPoints
  <2> QED
    BY <2>1, <1>6, <1>a DEF AutoFall, MainAt, TypeOK, socket, contexts, player,
       MainPoints
<1>7. CASE RunCloses
  BY <1>7, <1>a DEF RunCloses, MainAt, TypeOK, socket, contexts, player, falls,
     MainPoints, ControlPoints, LoopPoints
<1>8. CASE StopControl
  BY <1>8, <1>a DEF StopControl, MainAt, TypeOK, socket, contexts, player, falls,
     MainPoints, ControlPoints, LoopPoints
<1>9. CASE AwaitControl
  BY <1>9, <1>a DEF AwaitControl, MainAt, TypeOK, socket, contexts, player, falls,
     MainPoints, ControlPoints, LoopPoints
<1>10. CASE DeferredCancel
  BY <1>10, <1>a DEF DeferredCancel, MainAt, TypeOK, socket, contexts, player,
     falls, MainPoints, ControlPoints, LoopPoints
<1>11. CASE DeferredClose
  BY <1>11, <1>a DEF DeferredClose, MainAt, TypeOK, socket, contexts, player,
     falls, MainPoints, ControlPoints, LoopPoints
<1>12. CASE CloseReturns
  BY <1>12, <1>a DEF CloseReturns, MainAt, TypeOK, socket, contexts, player,
     falls, MainPoints, ControlPoints, LoopPoints
<1>13. CASE DeferredStop
  BY <1>13, <1>a DEF DeferredStop, MainAt, TypeOK, socket, contexts, player,
     falls, MainPoints, ControlPoints, LoopPoints
<1>14. ASSUME NEW handler \in {"confirm", "motion"}, TakeMove(handler)
      PROVE  TypeOK'
  BY <1>14, <1>a DEF TakeMove, MainAt, TypeOK, socket, contexts, player, falls,
     MainPoints, ControlPoints, LoopPoints
<1>15. CASE TakeQuery
  BY <1>15, <1>a DEF TakeQuery, MainAt, TypeOK, socket, contexts, player, falls,
     MainPoints, ControlPoints, LoopPoints
<1>16. CASE TakeDeath
  BY <1>16, <1>a DEF TakeDeath, MainAt, TypeOK, socket, contexts, player, falls,
     MainPoints, ControlPoints, LoopPoints
<1>17. CASE TakeRespawn
  <2>1. main' = "loop" /\ dead' = FALSE
    BY <1>17 DEF TakeRespawn, MainAt
  <2>2. UNCHANGED <<conn, peer, interrupted, expired, stopped, deaths, loadedSent,
                    moves, falling, fall, ctl, loop>>
    BY <1>17 DEF TakeRespawn, socket, contexts, falls
  <2> QED
    BY <2>1, <2>2, <1>a DEF TypeOK, MainPoints
<1>18. CASE ReadFails
  BY <1>18, <1>a DEF ReadFails, MainAt, TypeOK, socket, contexts, player, falls,
     MainPoints, ControlPoints, LoopPoints
<1>19. CASE ControlShutsDown
  BY <1>19, <1>a DEF ControlShutsDown, TypeOK, socket, contexts, player, falls,
     MainPoints, ControlPoints, LoopPoints
<1>20. CASE ControlCloses
  BY <1>20, <1>a DEF ControlCloses, TypeOK, socket, contexts, player, falls,
     MainPoints, ControlPoints, LoopPoints
<1>21. CASE ControlCloseReturns
  BY <1>21, <1>a DEF ControlCloseReturns, TypeOK, socket, contexts, player, falls,
     MainPoints, ControlPoints, LoopPoints
<1>22. CASE LoopStops
  BY <1>22, <1>a DEF LoopStops, TypeOK, socket, contexts, player, falls,
     MainPoints, ControlPoints, LoopPoints
<1>23. CASE LoopSpeaks
  BY <1>23, <1>a DEF LoopSpeaks, TypeOK, socket, contexts, player, falls,
     MainPoints, ControlPoints, LoopPoints
<1>24. CASE LoopWrites
  BY <1>24, <1>a DEF LoopWrites, TypeOK, socket, contexts, player, falls,
     MainPoints, ControlPoints, LoopPoints
<1>25. CASE LoopWriteFails
  BY <1>25, <1>a DEF LoopWriteFails, TypeOK, socket, contexts, player, falls,
     MainPoints, ControlPoints, LoopPoints
<1>26. CASE ServerStalls
  BY <1>26, <1>a DEF ServerStalls, TypeOK, socket, contexts, player, falls,
     MainPoints, ControlPoints, LoopPoints
<1>27. CASE ServerGoes
  BY <1>27, <1>a DEF ServerGoes, TypeOK, socket, contexts, player, falls,
     MainPoints, ControlPoints, LoopPoints
<1>28. CASE Interrupt
  BY <1>28, <1>a DEF Interrupt, TypeOK, socket, contexts, player, falls,
     MainPoints, ControlPoints, LoopPoints
<1>29. CASE HoldExpires
  BY <1>29, <1>a DEF HoldExpires, TypeOK, socket, contexts, player, falls,
     MainPoints, ControlPoints, LoopPoints
<1>30. CASE ControlFails
  BY <1>30, <1>a DEF ControlFails, TypeOK, socket, contexts, player, falls,
     MainPoints, ControlPoints, LoopPoints
<1>31. ASSUME NEW k \in Moves, FallBegins(k)
      PROVE  TypeOK'
  BY <1>31, <1>a DEF FallBegins, FallAt, FallPoints, TypeOK, socket, contexts,
     player, falls, MainPoints, ControlPoints, LoopPoints
<1>32. ASSUME NEW k \in Moves, FallCancelled(k)
      PROVE  TypeOK'
  BY <1>32, <1>a DEF FallCancelled, FallAt, FallPoints, TypeOK, socket, contexts,
     player, falls, MainPoints, ControlPoints, LoopPoints
<1>33. ASSUME NEW k \in Moves, FallDescends(k)
      PROVE  TypeOK'
  BY <1>33, <1>a DEF FallDescends, FallAt, FallPoints, TypeOK, socket, contexts,
     player, falls, MainPoints, ControlPoints, LoopPoints
<1>34. ASSUME NEW k \in Moves, FallEnds(k)
      PROVE  TypeOK'
  BY <1>34, <1>a DEF FallEnds, FallAt, FallPoints, TypeOK, socket, contexts,
     player, falls, MainPoints, ControlPoints, LoopPoints
<1>35. ASSUME NEW k \in Moves, FallWrites(k)
      PROVE  TypeOK'
  BY <1>35, <1>a DEF FallWrites, FallAt, FallPoints, TypeOK, socket, contexts,
     player, falls, MainPoints, ControlPoints, LoopPoints
<1>36. ASSUME NEW k \in Moves, FallTicks(k)
      PROVE  TypeOK'
  BY <1>36, <1>a DEF FallTicks, FallAt, FallPoints, TypeOK, socket, contexts,
     player, falls, MainPoints, ControlPoints, LoopPoints
<1>37. ASSUME NEW k \in Moves, FallWriteFails(k)
      PROVE  TypeOK'
  BY <1>37, <1>a DEF FallWriteFails, FallAt, FallPoints, TypeOK, socket, contexts,
     player, falls, MainPoints, ControlPoints, LoopPoints
<1>38. ASSUME NEW k \in Moves, FallResets(k)
      PROVE  TypeOK'
  <2>1. fall' \in [Moves -> FallPoints]
    BY <1>38, <1>a DEF FallResets, FallAt, TypeOK, FallPoints
  <2> QED
    BY <2>1, <1>38, <1>a DEF FallResets, TypeOK, socket, contexts, player
<1>39. ASSUME NEW k \in Moves, FallDone(k)
      PROVE  TypeOK'
  BY <1>39, <1>a DEF FallDone, FallAt, FallPoints, TypeOK, socket, contexts,
     player, falls, MainPoints, ControlPoints, LoopPoints
<1>40. CASE UNCHANGED vars
  BY <1>40, <1>a DEF vars, socket, contexts, player, falls, TypeOK, socket,
     contexts, player, falls, MainPoints, ControlPoints, LoopPoints
<1> QED
  BY <1>1, <1>2, <1>3, <1>4, <1>5, <1>6, <1>7, <1>8, <1>9, <1>10, <1>11,
     <1>12, <1>13, <1>14, <1>15, <1>16, <1>17, <1>18, <1>19, <1>20, <1>21,
     <1>22, <1>23, <1>24, <1>25, <1>26, <1>27, <1>28, <1>29, <1>30, <1>31,
     <1>32, <1>33, <1>34, <1>35, <1>36, <1>37, <1>38, <1>39, <1>40
     DEF Next, MainStep, Packets, Control, Loop, Surroundings, Fall

LEMMA FlagInvStep == IInv /\ [Next]_vars => FlagInv'
<1> SUFFICES ASSUME IInv, [Next]_vars PROVE FlagInv'
  OBVIOUS
<1>a. TypeOK /\ FlagInv /\ FreshInv
  BY DEF IInv
<1>b. fall \in [Moves -> FallPoints]
  BY <1>a DEF TypeOK
<1>c. ASSUME falling' = falling,
             \A i \in Moves : fall'[i] \in DrivingPoints <=> fall[i] \in DrivingPoints
      PROVE  FlagInv'
  BY <1>c, <1>a DEF FlagInv
<1>d. falling' = falling /\ fall' = fall => FlagInv'
  BY <1>a DEF FlagInv
<1>1. CASE AutoFall
  <2>1. CASE dead \/ falling
    BY <2>1, <1>1, <1>c DEF AutoFall
  <2>2. CASE ~dead /\ ~falling
    <3>1. falling' = TRUE /\ fall' = [fall EXCEPT ![moves] = "delay"]
      BY <2>2, <1>1 DEF AutoFall
    <3>2. moves \in Moves
      BY <1>1, <1>a DEF AutoFall, MainAt, FreshInv, HandlerPoints
    <3>3. \A i \in Moves : fall[i] \notin DrivingPoints
      BY <2>2, <1>a DEF FlagInv
    <3>4. \A i \in Moves : fall'[i] \in DrivingPoints <=> i = moves
      BY <3>1, <3>2, <3>3, <1>b DEF DrivingPoints, FallPoints
    <3> QED
      BY <3>1, <3>2, <3>4 DEF FlagInv
  <2> QED
    BY <2>1, <2>2
<1>2. ASSUME NEW k \in Moves, FallBegins(k)
      PROVE  FlagInv'
  <2>1. \A i \in Moves : fall'[i] \in DrivingPoints <=> fall[i] \in DrivingPoints
    BY <1>2, <1>b DEF FallBegins, FallAt, DrivingPoints, FallPoints
  <2>2. falling' = falling
    BY <1>2 DEF FallBegins
  <2> QED
    BY <2>1, <2>2, <1>c
<1>3. ASSUME NEW k \in Moves, FallCancelled(k)
      PROVE  FlagInv'
  <2>1. \A i \in Moves : fall'[i] \in DrivingPoints <=> fall[i] \in DrivingPoints
    BY <1>3, <1>b DEF FallCancelled, FallAt, DrivingPoints, FallPoints
  <2>2. falling' = falling
    BY <1>3 DEF FallCancelled
  <2> QED
    BY <2>1, <2>2, <1>c
<1>4. ASSUME NEW k \in Moves, FallDescends(k)
      PROVE  FlagInv'
  <2>1. \A i \in Moves : fall'[i] \in DrivingPoints <=> fall[i] \in DrivingPoints
    BY <1>4, <1>b DEF FallDescends, FallAt, DrivingPoints, FallPoints
  <2>2. falling' = falling
    BY <1>4 DEF FallDescends
  <2> QED
    BY <2>1, <2>2, <1>c
<1>5. ASSUME NEW k \in Moves, FallEnds(k)
      PROVE  FlagInv'
  <2>1. \A i \in Moves : fall'[i] \in DrivingPoints <=> fall[i] \in DrivingPoints
    BY <1>5, <1>b DEF FallEnds, FallAt, DrivingPoints, FallPoints
  <2>2. falling' = falling
    BY <1>5 DEF FallEnds
  <2> QED
    BY <2>1, <2>2, <1>c
<1>6. ASSUME NEW k \in Moves, FallWrites(k)
      PROVE  FlagInv'
  <2>1. \A i \in Moves : fall'[i] \in DrivingPoints <=> fall[i] \in DrivingPoints
    BY <1>6, <1>b DEF FallWrites, FallAt, DrivingPoints, FallPoints
  <2>2. falling' = falling
    BY <1>6 DEF FallWrites
  <2> QED
    BY <2>1, <2>2, <1>c
<1>7. ASSUME NEW k \in Moves, FallTicks(k)
      PROVE  FlagInv'
  <2>1. \A i \in Moves : fall'[i] \in DrivingPoints <=> fall[i] \in DrivingPoints
    BY <1>7, <1>b DEF FallTicks, FallAt, DrivingPoints, FallPoints
  <2>2. falling' = falling
    BY <1>7 DEF FallTicks
  <2> QED
    BY <2>1, <2>2, <1>c
<1>8. ASSUME NEW k \in Moves, FallWriteFails(k)
      PROVE  FlagInv'
  <2>1. \A i \in Moves : fall'[i] \in DrivingPoints <=> fall[i] \in DrivingPoints
    BY <1>8, <1>b DEF FallWriteFails, FallAt, DrivingPoints, FallPoints
  <2>2. falling' = falling
    BY <1>8 DEF FallWriteFails
  <2> QED
    BY <2>1, <2>2, <1>c
<1>9. ASSUME NEW k \in Moves, FallResets(k)
      PROVE  FlagInv'
  <2>1. /\ falling' = FALSE
        /\ fall[k] \in DrivingPoints
        /\ fall' = [fall EXCEPT ![k] = "ending"]
    BY <1>9 DEF FallResets, FallAt, DrivingPoints, FallPoints
  <2>2. \A i \in Moves : fall'[i] \notin DrivingPoints
    <3> SUFFICES ASSUME NEW i \in Moves PROVE fall'[i] \notin DrivingPoints
      OBVIOUS
    <3>1. CASE i = k
      BY <3>1, <2>1, <1>b DEF DrivingPoints
    <3>2. CASE i # k
      <4>1. fall[i] \notin DrivingPoints
        BY <3>2, <2>1, <1>a DEF FlagInv
      <4> QED
        BY <4>1, <3>2, <2>1, <1>b
    <3> QED
      BY <3>1, <3>2
  <2> QED
    BY <2>1, <2>2 DEF FlagInv
<1>10. ASSUME NEW k \in Moves, FallDone(k)
      PROVE  FlagInv'
  <2>1. \A i \in Moves : fall'[i] \in DrivingPoints <=> fall[i] \in DrivingPoints
    BY <1>10, <1>b DEF FallDone, FallAt, DrivingPoints, FallPoints
  <2>2. falling' = falling
    BY <1>10 DEF FallDone
  <2> QED
    BY <2>1, <2>2, <1>c
<1>11. CASE \/ CheckContext
           \/ HandlerWrites
           \/ HandlerWriteFails
           \/ AnnounceLoaded
           \/ StartPositionLoop
           \/ RunCloses
           \/ StopControl
           \/ AwaitControl
           \/ DeferredCancel
           \/ DeferredClose
           \/ CloseReturns
           \/ DeferredStop
  BY <1>11, <1>d DEF CheckContext, HandlerWrites, HandlerWriteFails,
     AnnounceLoaded, StartPositionLoop, RunCloses, StopControl, AwaitControl,
     DeferredCancel, DeferredClose, CloseReturns, DeferredStop, MainAt, socket,
     contexts, player, falls
<1>12. CASE \/ \E handler \in {"confirm", "motion"} : TakeMove(handler)
           \/ TakeQuery
           \/ TakeDeath
           \/ TakeRespawn
           \/ ReadFails
           \/ ControlShutsDown
           \/ ControlCloses
           \/ ControlCloseReturns
           \/ LoopStops
           \/ LoopSpeaks
           \/ LoopWrites
           \/ LoopWriteFails
  BY <1>12, <1>d DEF TakeMove, TakeQuery, TakeDeath, TakeRespawn, ReadFails,
     ControlShutsDown, ControlCloses, ControlCloseReturns, LoopStops, LoopSpeaks,
     LoopWrites, LoopWriteFails, MainAt, socket, contexts, player, falls
<1>13. CASE \/ ServerStalls
           \/ ServerGoes
           \/ Interrupt
           \/ HoldExpires
           \/ ControlFails
  BY <1>13, <1>d DEF ServerStalls, ServerGoes, Interrupt, HoldExpires,
     ControlFails, socket, contexts, player, falls
<1>14. CASE UNCHANGED vars
  BY <1>14, <1>d DEF vars, socket, contexts, player, falls, socket, contexts,
     player, falls
<1> QED
  BY <1>1, <1>2, <1>3, <1>4, <1>5, <1>6, <1>7, <1>8, <1>9, <1>10, <1>11,
     <1>12, <1>13, <1>14
     DEF Next, MainStep, Packets, Control, Loop, Surroundings, Fall

LEMMA FreshInvStep == IInv /\ [Next]_vars => FreshInv'
<1> SUFFICES ASSUME IInv, [Next]_vars PROVE FreshInv'
  OBVIOUS
<1>a. FreshInv
  BY DEF IInv
<1>b. fall \in [Moves -> FallPoints]
  BY DEF IInv, TypeOK
<1>c. moves \in 0..MaxMoves /\ MaxMoves \in Nat
  BY LifecycleAssumption DEF IInv, TypeOK
<1>1. CASE CheckContext
  BY <1>1, <1>a, <1>b, <1>c DEF CheckContext, MainAt, FreshInv, socket, contexts,
     player, falls, HandlerPoints
<1>2. CASE HandlerWrites
  BY <1>2, <1>a, <1>b, <1>c DEF HandlerWrites, MainAt, FreshInv, socket, contexts,
     player, falls, HandlerPoints
<1>3. CASE AnnounceLoaded
  BY <1>3, <1>a, <1>b, <1>c DEF AnnounceLoaded, MainAt, FreshInv, socket,
     contexts, player, falls, HandlerPoints
<1>4. CASE StartPositionLoop
  BY <1>4, <1>a, <1>b, <1>c DEF StartPositionLoop, MainAt, FreshInv, socket,
     contexts, player, falls, HandlerPoints
<1>5. CASE AutoFall
  BY <1>5, <1>a, <1>b, <1>c DEF AutoFall, MainAt, FreshInv, socket, contexts,
     player, falls, HandlerPoints
<1>6. ASSUME NEW handler \in {"confirm", "motion"}, TakeMove(handler)
      PROVE  FreshInv'
  <2>1. moves' = moves + 1 /\ moves' \in Moves /\ fall' = fall
    BY <1>6, <1>c DEF TakeMove, Moves, falls
  <2>2. fall'[moves'] = "none"
    BY <2>1, <1>a, <1>c DEF FreshInv
  <2>3. \A k \in Moves : k > moves' => fall'[k] = "none"
    BY <2>1, <1>a, <1>c DEF FreshInv, Moves
  <2> QED
    BY <2>1, <2>2, <2>3 DEF FreshInv
<1>7. ASSUME NEW k \in Moves, FallBegins(k)
      PROVE  FreshInv'
  BY <1>7, <1>a, <1>b, <1>c DEF FallBegins, FallAt, FreshInv, socket, contexts,
     player, falls, HandlerPoints
<1>8. ASSUME NEW k \in Moves, FallCancelled(k)
      PROVE  FreshInv'
  BY <1>8, <1>a, <1>b, <1>c DEF FallCancelled, FallAt, FreshInv, socket, contexts,
     player, falls, HandlerPoints
<1>9. ASSUME NEW k \in Moves, FallDescends(k)
      PROVE  FreshInv'
  BY <1>9, <1>a, <1>b, <1>c DEF FallDescends, FallAt, FreshInv, socket, contexts,
     player, falls, HandlerPoints
<1>10. ASSUME NEW k \in Moves, FallEnds(k)
      PROVE  FreshInv'
  BY <1>10, <1>a, <1>b, <1>c DEF FallEnds, FallAt, FreshInv, socket, contexts,
     player, falls, HandlerPoints
<1>11. ASSUME NEW k \in Moves, FallWrites(k)
      PROVE  FreshInv'
  BY <1>11, <1>a, <1>b, <1>c DEF FallWrites, FallAt, FreshInv, socket, contexts,
     player, falls, HandlerPoints
<1>12. ASSUME NEW k \in Moves, FallTicks(k)
      PROVE  FreshInv'
  BY <1>12, <1>a, <1>b, <1>c DEF FallTicks, FallAt, FreshInv, socket, contexts,
     player, falls, HandlerPoints
<1>13. ASSUME NEW k \in Moves, FallWriteFails(k)
      PROVE  FreshInv'
  BY <1>13, <1>a, <1>b, <1>c DEF FallWriteFails, FallAt, FreshInv, socket,
     contexts, player, falls, HandlerPoints
<1>14. ASSUME NEW k \in Moves, FallResets(k)
      PROVE  FreshInv'
  BY <1>14, <1>a, <1>b, <1>c DEF FallResets, FallAt, FreshInv, socket, contexts,
     player, falls, HandlerPoints
<1>15. ASSUME NEW k \in Moves, FallDone(k)
      PROVE  FreshInv'
  BY <1>15, <1>a, <1>b, <1>c DEF FallDone, FallAt, FreshInv, socket, contexts,
     player, falls, HandlerPoints
<1>16. CASE \/ HandlerWriteFails
           \/ RunCloses
           \/ StopControl
           \/ AwaitControl
           \/ DeferredCancel
           \/ DeferredClose
           \/ CloseReturns
           \/ DeferredStop
           \/ TakeQuery
           \/ TakeDeath
           \/ TakeRespawn
           \/ ReadFails
  BY <1>16, <1>a, <1>b, <1>c DEF HandlerWriteFails, RunCloses, StopControl,
     AwaitControl, DeferredCancel, DeferredClose, CloseReturns, DeferredStop,
     TakeQuery, TakeDeath, TakeRespawn, ReadFails, MainAt, FreshInv, socket,
     contexts, player, falls, HandlerPoints
<1>17. CASE \/ ControlShutsDown
           \/ ControlCloses
           \/ ControlCloseReturns
           \/ LoopStops
           \/ LoopSpeaks
           \/ LoopWrites
           \/ LoopWriteFails
           \/ ServerStalls
           \/ ServerGoes
           \/ Interrupt
           \/ HoldExpires
           \/ ControlFails
  BY <1>17, <1>a, <1>b, <1>c DEF ControlShutsDown, ControlCloses,
     ControlCloseReturns, LoopStops, LoopSpeaks, LoopWrites, LoopWriteFails,
     ServerStalls, ServerGoes, Interrupt, HoldExpires, ControlFails, FreshInv,
     socket, contexts, player, falls, HandlerPoints
<1>18. CASE UNCHANGED vars
  BY <1>18, <1>a, <1>b, <1>c DEF vars, socket, contexts, player, falls, FreshInv,
     socket, contexts, player, falls, HandlerPoints
<1> QED
  BY <1>1, <1>2, <1>3, <1>4, <1>5, <1>6, <1>7, <1>8, <1>9, <1>10, <1>11,
     <1>12, <1>13, <1>14, <1>15, <1>16, <1>17, <1>18
     DEF Next, MainStep, Packets, Control, Loop, Surroundings, Fall

LEMMA EndInvStep == IInv /\ [Next]_vars => (ClosedInv /\ ServerInv /\ QuietInv)'
<1> SUFFICES ASSUME IInv, [Next]_vars PROVE (ClosedInv /\ ServerInv /\ QuietInv)'
  OBVIOUS
<1>a. ClosedInv /\ ServerInv /\ QuietInv
  BY DEF IInv
<1>b. fall \in [Moves -> FallPoints]
  BY DEF IInv, TypeOK
<1>1. CASE StartPositionLoop
  BY <1>1, <1>a, <1>b DEF StartPositionLoop, MainAt, ClosedInv, ServerInv,
     QuietInv, socket, contexts, player, falls
<1>2. CASE AutoFall
  BY <1>2, <1>a, <1>b DEF AutoFall, MainAt, ClosedInv, ServerInv, QuietInv,
     socket, contexts, player, falls
<1>3. CASE RunCloses
  BY <1>3, <1>a, <1>b DEF RunCloses, MainAt, ClosedInv, ServerInv, QuietInv,
     socket, contexts, player, falls
<1>4. CASE StopControl
  BY <1>4, <1>a, <1>b DEF StopControl, MainAt, ClosedInv, ServerInv, QuietInv,
     socket, contexts, player, falls
<1>5. CASE AwaitControl
  BY <1>5, <1>a, <1>b DEF AwaitControl, MainAt, ClosedInv, ServerInv, QuietInv,
     socket, contexts, player, falls
<1>6. CASE DeferredCancel
  BY <1>6, <1>a, <1>b DEF DeferredCancel, MainAt, ClosedInv, ServerInv, QuietInv,
     socket, contexts, player, falls
<1>7. CASE DeferredClose
  BY <1>7, <1>a, <1>b DEF DeferredClose, MainAt, ClosedInv, ServerInv, QuietInv,
     socket, contexts, player, falls
<1>8. CASE CloseReturns
  BY <1>8, <1>a, <1>b DEF CloseReturns, MainAt, Quiet, Falling, ClosedInv,
     ServerInv, QuietInv, socket, contexts, player, falls
<1>9. CASE DeferredStop
  BY <1>9, <1>a, <1>b DEF DeferredStop, MainAt, ClosedInv, ServerInv, QuietInv,
     socket, contexts, player, falls
<1>10. CASE ControlShutsDown
  BY <1>10, <1>a, <1>b DEF ControlShutsDown, ClosedInv, ServerInv, QuietInv,
     socket, contexts, player, falls
<1>11. CASE ControlCloses
  BY <1>11, <1>a, <1>b DEF ControlCloses, ClosedInv, ServerInv, QuietInv, socket,
     contexts, player, falls
<1>12. CASE ControlCloseReturns
  BY <1>12, <1>a, <1>b DEF ControlCloseReturns, Quiet, Falling, ClosedInv,
     ServerInv, QuietInv, socket, contexts, player, falls
<1>13. CASE ControlFails
  BY <1>13, <1>a, <1>b DEF ControlFails, ClosedInv, ServerInv, QuietInv, socket,
     contexts, player, falls
<1>14. ASSUME NEW k \in Moves, FallBegins(k)
      PROVE  (ClosedInv /\ ServerInv /\ QuietInv)'
  BY <1>14, <1>a, <1>b DEF FallBegins, FallAt, ClosedInv, ServerInv, QuietInv,
     socket, contexts, player, falls
<1>15. ASSUME NEW k \in Moves, FallCancelled(k)
      PROVE  (ClosedInv /\ ServerInv /\ QuietInv)'
  BY <1>15, <1>a, <1>b DEF FallCancelled, FallAt, ClosedInv, ServerInv, QuietInv,
     socket, contexts, player, falls
<1>16. ASSUME NEW k \in Moves, FallDescends(k)
      PROVE  (ClosedInv /\ ServerInv /\ QuietInv)'
  BY <1>16, <1>a, <1>b DEF FallDescends, FallAt, ClosedInv, ServerInv, QuietInv,
     socket, contexts, player, falls
<1>17. ASSUME NEW k \in Moves, FallEnds(k)
      PROVE  (ClosedInv /\ ServerInv /\ QuietInv)'
  BY <1>17, <1>a, <1>b DEF FallEnds, FallAt, ClosedInv, ServerInv, QuietInv,
     socket, contexts, player, falls
<1>18. ASSUME NEW k \in Moves, FallWrites(k)
      PROVE  (ClosedInv /\ ServerInv /\ QuietInv)'
  BY <1>18, <1>a, <1>b DEF FallWrites, FallAt, ClosedInv, ServerInv, QuietInv,
     socket, contexts, player, falls
<1>19. ASSUME NEW k \in Moves, FallTicks(k)
      PROVE  (ClosedInv /\ ServerInv /\ QuietInv)'
  BY <1>19, <1>a, <1>b DEF FallTicks, FallAt, ClosedInv, ServerInv, QuietInv,
     socket, contexts, player, falls
<1>20. ASSUME NEW k \in Moves, FallWriteFails(k)
      PROVE  (ClosedInv /\ ServerInv /\ QuietInv)'
  BY <1>20, <1>a, <1>b DEF FallWriteFails, FallAt, ClosedInv, ServerInv, QuietInv,
     socket, contexts, player, falls
<1>21. ASSUME NEW k \in Moves, FallResets(k)
      PROVE  (ClosedInv /\ ServerInv /\ QuietInv)'
  BY <1>21, <1>a, <1>b DEF FallResets, FallAt, ClosedInv, ServerInv, QuietInv,
     socket, contexts, player, falls
<1>22. ASSUME NEW k \in Moves, FallDone(k)
      PROVE  (ClosedInv /\ ServerInv /\ QuietInv)'
  BY <1>22, <1>a, <1>b DEF FallDone, FallAt, ClosedInv, ServerInv, QuietInv,
     socket, contexts, player, falls
<1>23. CASE \/ CheckContext
           \/ HandlerWrites
           \/ HandlerWriteFails
           \/ AnnounceLoaded
           \/ \E handler \in {"confirm", "motion"} : TakeMove(handler)
           \/ TakeQuery
           \/ TakeDeath
           \/ TakeRespawn
           \/ ReadFails
           \/ LoopStops
           \/ LoopSpeaks
           \/ LoopWrites
  BY <1>23, <1>a, <1>b DEF CheckContext, HandlerWrites, HandlerWriteFails,
     AnnounceLoaded, TakeMove, TakeQuery, TakeDeath, TakeRespawn, ReadFails,
     LoopStops, LoopSpeaks, LoopWrites, MainAt, ClosedInv, ServerInv, QuietInv,
     socket, contexts, player, falls
<1>24. CASE \/ LoopWriteFails
           \/ ServerStalls
           \/ ServerGoes
           \/ Interrupt
           \/ HoldExpires
  BY <1>24, <1>a, <1>b DEF LoopWriteFails, ServerStalls, ServerGoes, Interrupt,
     HoldExpires, ClosedInv, ServerInv, QuietInv, socket, contexts, player, falls
<1>25. CASE UNCHANGED vars
  BY <1>25, <1>a, <1>b DEF vars, socket, contexts, player, falls, ClosedInv,
     ServerInv, QuietInv, socket, contexts, player, falls
<1> QED
  BY <1>1, <1>2, <1>3, <1>4, <1>5, <1>6, <1>7, <1>8, <1>9, <1>10, <1>11,
     <1>12, <1>13, <1>14, <1>15, <1>16, <1>17, <1>18, <1>19, <1>20, <1>21,
     <1>22, <1>23, <1>24, <1>25
     DEF Next, MainStep, Packets, Control, Loop, Surroundings, Fall

-----------------------------------------------------------------------------
LEMMA NextIInv == IInv /\ [Next]_vars => IInv'
  BY TypeOKStep, FlagInvStep, FreshInvStep, EndInvStep DEF IInv

LEMMA Invariance == Spec => []IInv
<1>1. Init => IInv
  BY InitIInv
<1>2. IInv /\ [Next]_vars => IInv'
  BY NextIInv
<1> QED
  BY <1>1, <1>2, PTL DEF Spec

\* The variables keep their types whatever the server, the operator and the
\* control server do.
THEOREM TypeCorrect == Spec => []TypeOK
<1>1. IInv => TypeOK
  BY DEF IInv
<1> QED
  BY <1>1, Invariance, PTL

\* At most one auto-fall drives the bot, for any number of moves: the flag of
\* autoFall's compare-and-swap is released only by the fall that took it.
THEOREM OneFall == Spec => []FallsDoNotOverlap
<1>1. IInv => FallsDoNotOverlap
  <2> SUFFICES ASSUME IInv, NEW j \in Driving, NEW k \in Driving PROVE j = k
    BY DEF FallsDoNotOverlap
  <2>1. \A i \in Driving : i \in Moves /\ fall[i] \in DrivingPoints
    BY DEF IInv, TypeOK, Driving, DrivingPoints
  <2> QED
    BY <2>1 DEF IInv, FlagInv
<1> QED
  BY <1>1, Invariance, PTL

\* The program does not exit before the client's goroutines, the control server
\* and the connection have ended, whichever of the two calls of Close came first.
THEOREM QuietExit == Spec => []ExitedIsQuiet
<1>1. IInv => ExitedIsQuiet
  BY DEF IInv, ClosedInv, ServerInv, QuietInv, ExitedIsQuiet, Quiet, Falling
<1> QED
  BY <1>1, Invariance, PTL
=============================================================================
