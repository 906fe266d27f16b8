------------------------ MODULE ResourcePacksProofs ------------------------
(***************************************************************************)
(* Proofs about ResourcePacks for every number of packs, offers, removals  *)
(* and download slots, and whatever the server and the caller do.          *)
(*                                                                         *)
(* The argument rests on who holds packs.mu.  The mutex is with the reader *)
(* exactly while it writes a reply or acknowledges the end of              *)
(* configuration (LockInv), so `state' cannot change under a status write, *)
(* and the acknowledgement is on the wire exactly when state says so       *)
(* (PhaseInv).  A job that is registered belongs to a worker that has not  *)
(* reported, and an offer that was withdrawn is registered nowhere         *)
(* (RegisteredInv), which is what suppresses stale replies (ReportInv).    *)
(* The active counter counts exactly the workers that hold a slot          *)
(* (SlotInv).                                                              *)
(* Once a stop has set closed with the socket closed, no offer can be      *)
(* accepted any more (StopInv).  What has been said of an offer agrees     *)
(* with the control points of the reader and of its worker (TalkInv).      *)
(***************************************************************************)
EXTENDS ResourcePacks, FiniteSetTheorems, SequenceTheorems, TLAPS

Writing == {"downloaded", "final", "failing"}
Working == {"validating", "aborting", "locking"}

LockInv ==
  /\ mu = Reader <=> rpc \in {"reply", "ack", "enter"}
  /\ \A n \in Offers : mu = n <=> wpc[n] \in Writing

RegisteredInv == \A id \in PackIDs : ~closed /\ jobs[id] # NoOffer =>
  /\ packOf[jobs[id]] = id
  /\ wpc[jobs[id]] \in Working
  /\ jobs[id] \notin withdrawn

FreshInv ==
  /\ \A n \in Offers : n > offers => wpc[n] = "idle" /\ n \notin withdrawn
  /\ rpc \in {"offer", "reply"} =>
       /\ offers \in Offers
       /\ wpc[offers] = "idle" /\ offers \notin withdrawn
       /\ pending.ids = {packOf[offers]}

ResultInv == \A n \in Offers :
  wpc[n] \in {"locking", "downloaded", "final"} => result[n] \in Outcomes

ReportInv == \A n \in withdrawn : wpc[n] \notin {"downloaded", "final"}

Acked == \E k \in DOMAIN wire : wire[k] = FinishAck

PhaseInv ==
  /\ Acked <=> (state = "Play" \/ rpc = "enter")
  /\ rpc \in {"finish", "ack", "enter"} => state = "Configuration"
  /\ StatusUsesWirePhase

SlotInv == active = Cardinality(Downloading) /\ active <= MaxActive

StopInv ==
  /\ rpc \in {"stopping", "waiting", "gone"} => conn = "closed"
  /\ cpc # "idle" => conn = "closed"
  /\ rpc \in {"waiting", "gone"} => closed
  /\ QuietAfterStop

IInv == /\ TypeOK /\ LockInv /\ RegisteredInv /\ FreshInv /\ ResultInv
        /\ ReportInv /\ PhaseInv /\ SlotInv /\ StopInv

USE PacksAssumption DEF Offers, NoOffer, Reader, Free

\* The packs' offers are finitely many, so a set of them can be counted.
LEMMA DownloadingFinite == IsFiniteSet(Downloading)
<1>1. IsFiniteSet(Offers)
  BY FS_Interval
<1>2. Downloading \in SUBSET Offers
  BY DEF Downloading
<1> QED
  BY <1>1, <1>2, FS_Subset

\* A worker that holds a slot is counted by active.
LEMMA SlotHeld ==
  ASSUME IInv, NEW n \in Offers, wpc[n] = "locking"
  PROVE  active > 0
<1>1. n \in Downloading
  BY DEF Downloading
<1>2. Cardinality(Downloading) \in Nat /\ Cardinality(Downloading) # 0
  BY <1>1, DownloadingFinite, FS_CardinalityType, FS_EmptySet
<1> QED
  BY <1>2 DEF IInv, SlotInv

\* Cancelling jobs moves workers between control points only.
LEMMA CancelledType ==
  ASSUME TypeOK, NEW S
  PROVE  Cancelled(S) \in [Offers -> WorkerPoints]
BY DEF Cancelled, TypeOK, WorkerPoints

LEMMA AnswerType == ASSUME NEW kind PROVE Answer(kind) \in Statuses
BY DEF Answer, Statuses

\* Every variable keeps its type.
LEMMA TypeStep == IInv /\ [Next]_vars => TypeOK'
<1> SUFFICES ASSUME IInv, [Next]_vars PROVE TypeOK'
  OBVIOUS
<1> USE DEF IInv, TypeOK, ReaderPoints, WorkerPoints, CloserPoints, States,
   Outcomes, NoOutcome,
        vars, session, packs, work, script, reading
<1>1. CASE ServerStalls
  BY <1>1 DEF ServerStalls
<1>2. CASE ServerGoes
  BY <1>2 DEF ServerGoes
<1>3. CASE CallRun
  BY <1>3 DEF CallRun
<1>4. CASE CallClose
  BY <1>4 DEF CallClose
<1>5. CASE ReadFails
  BY <1>5 DEF ReadFails
<1>6. CASE CheckContext
  BY <1>6 DEF CheckContext
<1>7. CASE HandleOffer
  <2>1. wpc' \in [Offers -> WorkerPoints]
    BY <1>7, CancelledType DEF HandleOffer, Unregister
  <2>2. withdrawn' \in SUBSET Offers
    <3>1. offers \in 0..MaxOffers /\ withdrawn \in SUBSET Offers /\ MaxOffers \in Nat
      OBVIOUS
    <3>2. withdrawn' = withdrawn \cup {n \in 1..(offers - 1) : packOf[n] \in pending.ids}
      BY <1>7 DEF HandleOffer, Unregister
    <3>3. ASSUME NEW n \in withdrawn' PROVE n \in Offers
      <4> HIDE DEF IInv, TypeOK
      <4>1. n \in withdrawn \/ n \in 1..(offers - 1)
        BY <3>2
      <4>2. CASE n \in withdrawn
        BY <3>1, <4>2
      <4>3. CASE n \in 1..(offers - 1)
        BY <3>1, <4>3
      <4> QED
        BY <4>1, <4>2, <4>3
    <3> QED
      BY <3>3
  <2> QED
    BY <1>7, <2>1, <2>2 DEF HandleOffer, Unregister
<1>8. CASE HandlePop
  <2>1. wpc' \in [Offers -> WorkerPoints]
    BY <1>8, CancelledType DEF HandlePop, Unregister
  <2>2. withdrawn' \in SUBSET Offers
    <3>1. offers \in 0..MaxOffers /\ withdrawn \in SUBSET Offers /\ MaxOffers \in Nat
      OBVIOUS
    <3>2. withdrawn' = withdrawn \cup {n \in 1..offers : packOf[n] \in pending.ids}
      BY <1>8 DEF HandlePop, Unregister
    <3>3. ASSUME NEW n \in withdrawn' PROVE n \in Offers
      <4> HIDE DEF IInv, TypeOK
      <4>1. n \in withdrawn \/ n \in 1..offers
        BY <3>2
      <4>2. CASE n \in withdrawn
        BY <3>1, <4>2
      <4>3. CASE n \in 1..offers
        BY <3>1, <4>3
      <4> QED
        BY <4>1, <4>2, <4>3
    <3> QED
      BY <3>3
  <2> QED
    BY <1>8, <2>1, <2>2 DEF HandlePop, Unregister, HandlerReturns, NoPacket, Kinds
<1>9. CASE HandlerFails
  BY <1>9 DEF HandlerFails, HandlerReturns, NoPacket, Kinds
<1>10. CASE WriteReply
  <2>1. offers \in Offers /\ Answer(pending.kind) \in Statuses
    BY <1>10, AnswerType DEF WriteReply, FreshInv
  <2>2. wire' \in Seq([offer : {NoOffer} \cup Offers,
                       status : Statuses \cup {"finish"}, pkt : States])
    BY <1>10, <2>1 DEF WriteReply, Message
  <2>3. CASE Answer(pending.kind) = "accepted"
    <3>1. wpc' \in [Offers -> WorkerPoints]
      <4>1. wpc' = [wpc EXCEPT ![offers] = IF state \in cancelled THEN "aborting"
                                           ELSE "validating"]
        BY <1>10, <2>3 DEF WriteReply, StartWorker
      <4>2. wpc \in [Offers -> WorkerPoints]
        OBVIOUS
      <4> HIDE DEF IInv, TypeOK
      <4> QED
        BY <4>1, <4>2, <2>1
    <3>2. jobs' \in [PackIDs -> {NoOffer} \cup Offers]
      <4>1. jobs' = [jobs EXCEPT ![packOf[offers]] = offers]
        BY <1>10, <2>3 DEF WriteReply, StartWorker
      <4>2. jobs \in [PackIDs -> {NoOffer} \cup Offers]
        OBVIOUS
      <4> HIDE DEF IInv, TypeOK
      <4> QED
        BY <4>1, <4>2, <2>1
    <3>3. ctxOf' \in [Offers -> States]
      <4>1. ctxOf' = [ctxOf EXCEPT ![offers] = state]
        BY <1>10, <2>3 DEF WriteReply, StartWorker
      <4>2. ctxOf \in [Offers -> States] /\ state \in States
        OBVIOUS
      <4> HIDE DEF IInv, TypeOK
      <4> QED
        BY <4>1, <4>2, <2>1
    <3> QED
      BY <1>10, <2>1, <2>2, <2>3, <3>1, <3>2, <3>3 DEF WriteReply, StartWorker,
         HandlerReturns, NoPacket, Kinds
  <2>4. CASE Answer(pending.kind) # "accepted"
    BY <1>10, <2>2, <2>4 DEF WriteReply, HandlerReturns, NoPacket, Kinds
  <2> QED
    BY <2>3, <2>4
<1>11. CASE LockFinish
  BY <1>11 DEF LockFinish
<1>12. CASE WriteFinish
  BY <1>12 DEF WriteFinish, FinishAck, Message, NoOffer
<1>13. CASE EnterPlay
  BY <1>13 DEF EnterPlay
<1>14. CASE ReaderWriteFails
  BY <1>14 DEF ReaderWriteFails, HandlerReturns, NoPacket, Kinds
<1>15. CASE ReaderCloses
  BY <1>15 DEF ReaderCloses
<1>16. CASE ReaderStops
  BY <1>16, CancelledType DEF ReaderStops, StopLocked
<1>17. CASE ReaderWaits
  BY <1>17 DEF ReaderWaits
<1>18. CASE TakeFinish
  BY <1>18 DEF TakeFinish
<1>19. CASE CloserStops
  BY <1>19, CancelledType DEF CloserStops, StopLocked
<1>20. CASE CloserWaits
  BY <1>20 DEF CloserWaits
<1>21. ASSUME NEW kind \in Kinds, TakeOffer(kind)
      PROVE  TypeOK'
  BY <1>21 DEF TakeOffer, Kinds
<1>22. ASSUME NEW ids \in {{id} : id \in PackIDs} \cup {PackIDs},
             NEW kind \in {"good", "malformed"}, TakePop(ids, kind)
      PROVE  TypeOK'
  BY <1>22 DEF TakePop, Kinds
<1>23. ASSUME NEW c \in Cancellable, CallerCancels(c)
      PROVE  TypeOK'
  BY <1>23, CancelledType DEF CallerCancels
<1>24. ASSUME NEW n \in Offers, JobTimesOut(n)
      PROVE  TypeOK'
  BY <1>24 DEF JobTimesOut
<1>25. ASSUME NEW n \in Offers, Validate(n)
      PROVE  TypeOK'
  BY <1>25 DEF Validate
<1>26. ASSUME NEW n \in Offers, Abort(n)
      PROVE  TypeOK'
  BY <1>26 DEF Abort
<1>27. ASSUME NEW n \in Offers, CompleteSilently(n)
      PROVE  TypeOK'
  BY <1>27, SlotHeld DEF CompleteSilently, WorkerReturns, FirstReport
<1>28. ASSUME NEW n \in Offers, Complete(n)
      PROVE  TypeOK'
  BY <1>28, SlotHeld DEF Complete, WorkerReturns, FirstReport
<1>29. ASSUME NEW n \in Offers, WriteDownloaded(n)
      PROVE  TypeOK'
  BY <1>29 DEF WriteDownloaded, Message, Statuses
<1>30. ASSUME NEW n \in Offers, WriteFinal(n)
      PROVE  TypeOK'
  BY <1>30 DEF WriteFinal, Message, WorkerReturns, Statuses, FreshInv, ResultInv
<1>31. ASSUME NEW n \in Offers, WorkerWriteFails(n)
      PROVE  TypeOK'
  BY <1>31 DEF WorkerWriteFails
<1>32. ASSUME NEW n \in Offers, WorkerCloses(n)
      PROVE  TypeOK'
  BY <1>32 DEF WorkerCloses, WorkerReturns
<1>33. CASE UNCHANGED vars
  BY <1>33
<1> QED
  BY <1>1, <1>2, <1>3, <1>4, <1>5, <1>6, <1>7, <1>8, <1>9, <1>10, <1>11,
<1>12, <1>13, <1>14, <1>15, <1>16, <1>17, <1>18, <1>19, <1>20, <1>21,
<1>22, <1>23, <1>24, <1>25, <1>26, <1>27, <1>28, <1>29, <1>30, <1>31,
<1>32, <1>33
DEF Next, ReaderInternal, Packets, Closer, Surroundings, Worker

\* Cancelling jobs turns validating workers into aborting ones, no others.
LEMMA CancelledPoint ==
  ASSUME TypeOK, NEW S, NEW n \in Offers
  PROVE  \/ Cancelled(S)[n] = wpc[n]
         \/ wpc[n] = "validating" /\ Cancelled(S)[n] = "aborting"
BY DEF Cancelled, TypeOK

\* packs.mu stays with the thread that is writing.
LEMMA LockStep == IInv /\ [Next]_vars => LockInv'
<1> SUFFICES ASSUME IInv, [Next]_vars PROVE LockInv'
  OBVIOUS
<1> USE DEF LockInv, Writing, WorkerPoints, vars, session, packs, work, script,
   reading
<1>a. TypeOK /\ wpc \in [Offers -> WorkerPoints] /\ mu \in {Free, Reader} \cup Offers
  BY DEF IInv, TypeOK
<1>b. LockInv
  BY DEF IInv
<1>1. CASE ServerStalls
  BY <1>1, <1>a, <1>b DEF ServerStalls
<1>2. CASE ServerGoes
  BY <1>2, <1>a, <1>b DEF ServerGoes
<1>3. CASE CallRun
  BY <1>3, <1>a, <1>b DEF CallRun
<1>4. CASE CallClose
  BY <1>4, <1>a, <1>b DEF CallClose
<1>5. CASE ReadFails
  BY <1>5, <1>a, <1>b DEF ReadFails
<1>6. CASE CheckContext
  BY <1>6, <1>a, <1>b DEF CheckContext
<1>7. CASE HandleOffer
  BY <1>7, <1>a, <1>b, CancelledPoint DEF HandleOffer, Unregister
<1>8. CASE HandlePop
  BY <1>8, <1>a, <1>b, CancelledPoint DEF HandlePop, Unregister, HandlerReturns
<1>9. CASE HandlerFails
  BY <1>9, <1>a, <1>b DEF HandlerFails, HandlerReturns
<1>10. CASE WriteReply
  BY <1>10, <1>a, <1>b DEF WriteReply, HandlerReturns, StartWorker
<1>11. CASE LockFinish
  BY <1>11, <1>a, <1>b DEF LockFinish
<1>12. CASE WriteFinish
  BY <1>12, <1>a, <1>b DEF WriteFinish
<1>13. CASE EnterPlay
  BY <1>13, <1>a, <1>b DEF EnterPlay
<1>14. CASE ReaderWriteFails
  BY <1>14, <1>a, <1>b DEF ReaderWriteFails, HandlerReturns
<1>15. CASE ReaderCloses
  BY <1>15, <1>a, <1>b DEF ReaderCloses
<1>16. CASE ReaderStops
  BY <1>16, <1>a, <1>b, CancelledPoint DEF ReaderStops, StopLocked
<1>17. CASE ReaderWaits
  BY <1>17, <1>a, <1>b DEF ReaderWaits
<1>18. CASE TakeFinish
  BY <1>18, <1>a, <1>b DEF TakeFinish
<1>19. CASE CloserStops
  BY <1>19, <1>a, <1>b, CancelledPoint DEF CloserStops, StopLocked
<1>20. CASE CloserWaits
  BY <1>20, <1>a, <1>b DEF CloserWaits
<1>21. ASSUME NEW kind \in Kinds, TakeOffer(kind)
      PROVE  LockInv'
  BY <1>21, <1>a, <1>b DEF TakeOffer
<1>22. ASSUME NEW ids \in {{id} : id \in PackIDs} \cup {PackIDs},
             NEW kind \in {"good", "malformed"}, TakePop(ids, kind)
      PROVE  LockInv'
  BY <1>22, <1>a, <1>b DEF TakePop
<1>23. ASSUME NEW c \in Cancellable, CallerCancels(c)
      PROVE  LockInv'
  BY <1>23, <1>a, <1>b, CancelledPoint DEF CallerCancels
<1>24. ASSUME NEW n \in Offers, JobTimesOut(n)
      PROVE  LockInv'
  BY <1>24, <1>a, <1>b DEF JobTimesOut
<1>25. ASSUME NEW n \in Offers, Validate(n)
      PROVE  LockInv'
  BY <1>25, <1>a, <1>b DEF Validate
<1>26. ASSUME NEW n \in Offers, Abort(n)
      PROVE  LockInv'
  BY <1>26, <1>a, <1>b DEF Abort
<1>27. ASSUME NEW n \in Offers, CompleteSilently(n)
      PROVE  LockInv'
  BY <1>27, <1>a, <1>b DEF CompleteSilently, WorkerReturns
<1>28. ASSUME NEW n \in Offers, Complete(n)
      PROVE  LockInv'
  BY <1>28, <1>a, <1>b DEF Complete, FirstReport
<1>29. ASSUME NEW n \in Offers, WriteDownloaded(n)
      PROVE  LockInv'
  BY <1>29, <1>a, <1>b DEF WriteDownloaded
<1>30. ASSUME NEW n \in Offers, WriteFinal(n)
      PROVE  LockInv'
  BY <1>30, <1>a, <1>b DEF WriteFinal, WorkerReturns
<1>31. ASSUME NEW n \in Offers, WorkerWriteFails(n)
      PROVE  LockInv'
  BY <1>31, <1>a, <1>b DEF WorkerWriteFails
<1>32. ASSUME NEW n \in Offers, WorkerCloses(n)
      PROVE  LockInv'
  BY <1>32, <1>a, <1>b DEF WorkerCloses, WorkerReturns
<1>33. CASE UNCHANGED vars
  BY <1>33, <1>a, <1>b
<1> QED
  BY <1>1, <1>2, <1>3, <1>4, <1>5, <1>6, <1>7, <1>8, <1>9, <1>10, <1>11,
<1>12, <1>13, <1>14, <1>15, <1>16, <1>17, <1>18, <1>19, <1>20, <1>21,
<1>22, <1>23, <1>24, <1>25, <1>26, <1>27, <1>28, <1>29, <1>30, <1>31,
<1>32, <1>33
DEF Next, ReaderInternal, Packets, Closer, Surroundings, Worker

\* Offers not yet taken, or not yet answered, have no worker.
LEMMA FreshStep == IInv /\ [Next]_vars => FreshInv'
<1> SUFFICES ASSUME IInv, [Next]_vars PROVE FreshInv'
  OBVIOUS
<1> USE DEF FreshInv, WorkerPoints, vars, session, packs, work, script, reading
<1>a. /\ TypeOK /\ wpc \in [Offers -> WorkerPoints]
      /\ jobs \in [PackIDs -> {NoOffer} \cup Offers] /\ packOf \in [Offers -> PackIDs]
      /\ offers \in 0..MaxOffers /\ withdrawn \in SUBSET Offers
      /\ result \in [Offers -> Outcomes \cup {NoOutcome}]
  BY DEF IInv, TypeOK
<1>b. FreshInv /\ RegisteredInv /\ LockInv /\ ResultInv /\ ReportInv
  BY DEF IInv
<1>1. CASE ServerStalls
  BY <1>1, <1>a, <1>b DEF ServerStalls
<1>2. CASE ServerGoes
  BY <1>2, <1>a, <1>b DEF ServerGoes
<1>3. CASE CallRun
  BY <1>3, <1>a, <1>b DEF CallRun
<1>4. CASE CallClose
  BY <1>4, <1>a, <1>b DEF CallClose
<1>5. CASE ReadFails
  BY <1>5, <1>a, <1>b DEF ReadFails
<1>6. CASE CheckContext
  BY <1>6, <1>a, <1>b DEF CheckContext
<1>7. CASE HandleOffer
  BY <1>7, <1>a, <1>b, CancelledPoint DEF HandleOffer, Unregister
<1>8. CASE HandlePop
  BY <1>8, <1>a, <1>b, CancelledPoint DEF HandlePop, Unregister, HandlerReturns,
     NoPacket
<1>9. CASE HandlerFails
  BY <1>9, <1>a, <1>b DEF HandlerFails, HandlerReturns, NoPacket
<1>10. CASE WriteReply
  BY <1>10, <1>a, <1>b DEF WriteReply, HandlerReturns, NoPacket, StartWorker
<1>11. CASE LockFinish
  BY <1>11, <1>a, <1>b DEF LockFinish
<1>12. CASE WriteFinish
  BY <1>12, <1>a, <1>b DEF WriteFinish
<1>13. CASE EnterPlay
  BY <1>13, <1>a, <1>b DEF EnterPlay
<1>14. CASE ReaderWriteFails
  BY <1>14, <1>a, <1>b DEF ReaderWriteFails, HandlerReturns, NoPacket
<1>15. CASE ReaderCloses
  BY <1>15, <1>a, <1>b DEF ReaderCloses
<1>16. CASE ReaderStops
  BY <1>16, <1>a, <1>b, CancelledPoint DEF ReaderStops, StopLocked
<1>17. CASE ReaderWaits
  BY <1>17, <1>a, <1>b DEF ReaderWaits
<1>18. CASE TakeFinish
  BY <1>18, <1>a, <1>b DEF TakeFinish
<1>19. CASE CloserStops
  BY <1>19, <1>a, <1>b, CancelledPoint DEF CloserStops, StopLocked
<1>20. CASE CloserWaits
  BY <1>20, <1>a, <1>b DEF CloserWaits
<1>21. ASSUME NEW kind \in Kinds, TakeOffer(kind)
      PROVE  FreshInv'
  BY <1>21, <1>a, <1>b DEF TakeOffer
<1>22. ASSUME NEW ids \in {{id} : id \in PackIDs} \cup {PackIDs},
             NEW kind \in {"good", "malformed"}, TakePop(ids, kind)
      PROVE  FreshInv'
  BY <1>22, <1>a, <1>b DEF TakePop
<1>23. ASSUME NEW c \in Cancellable, CallerCancels(c)
      PROVE  FreshInv'
  BY <1>23, <1>a, <1>b, CancelledPoint DEF CallerCancels
<1>24. ASSUME NEW n \in Offers, JobTimesOut(n)
      PROVE  FreshInv'
  BY <1>24, <1>a, <1>b DEF JobTimesOut
<1>25. ASSUME NEW n \in Offers, Validate(n)
      PROVE  FreshInv'
  BY <1>25, <1>a, <1>b DEF Validate
<1>26. ASSUME NEW n \in Offers, Abort(n)
      PROVE  FreshInv'
  BY <1>26, <1>a, <1>b DEF Abort
<1>27. ASSUME NEW n \in Offers, CompleteSilently(n)
      PROVE  FreshInv'
  BY <1>27, <1>a, <1>b DEF CompleteSilently, WorkerReturns, Superseded
<1>28. ASSUME NEW n \in Offers, Complete(n)
      PROVE  FreshInv'
  BY <1>28, <1>a, <1>b DEF Complete, FirstReport, Superseded
<1>29. ASSUME NEW n \in Offers, WriteDownloaded(n)
      PROVE  FreshInv'
  BY <1>29, <1>a, <1>b DEF WriteDownloaded
<1>30. ASSUME NEW n \in Offers, WriteFinal(n)
      PROVE  FreshInv'
  BY <1>30, <1>a, <1>b DEF WriteFinal, WorkerReturns
<1>31. ASSUME NEW n \in Offers, WorkerWriteFails(n)
      PROVE  FreshInv'
  BY <1>31, <1>a, <1>b DEF WorkerWriteFails
<1>32. ASSUME NEW n \in Offers, WorkerCloses(n)
      PROVE  FreshInv'
  BY <1>32, <1>a, <1>b DEF WorkerCloses, WorkerReturns
<1>33. CASE UNCHANGED vars
  BY <1>33, <1>a, <1>b
<1> QED
  BY <1>1, <1>2, <1>3, <1>4, <1>5, <1>6, <1>7, <1>8, <1>9, <1>10, <1>11,
<1>12, <1>13, <1>14, <1>15, <1>16, <1>17, <1>18, <1>19, <1>20, <1>21,
<1>22, <1>23, <1>24, <1>25, <1>26, <1>27, <1>28, <1>29, <1>30, <1>31,
<1>32, <1>33
DEF Next, ReaderInternal, Packets, Closer, Surroundings, Worker

\* While the pack session is open, a registered job is one still to report.
LEMMA RegisteredStep == IInv /\ [Next]_vars => RegisteredInv'
<1> SUFFICES ASSUME IInv, [Next]_vars PROVE RegisteredInv'
  OBVIOUS
<1> USE DEF RegisteredInv, Working, LockInv, Writing, WorkerPoints, vars, session,
   packs, work, script, reading
<1>a. /\ TypeOK /\ wpc \in [Offers -> WorkerPoints]
      /\ jobs \in [PackIDs -> {NoOffer} \cup Offers] /\ packOf \in [Offers -> PackIDs]
      /\ offers \in 0..MaxOffers /\ withdrawn \in SUBSET Offers
      /\ result \in [Offers -> Outcomes \cup {NoOutcome}]
  BY DEF IInv, TypeOK
<1>b. FreshInv /\ RegisteredInv /\ LockInv /\ ResultInv /\ ReportInv
  BY DEF IInv
<1>1. CASE ServerStalls
  BY <1>1, <1>a, <1>b DEF ServerStalls
<1>2. CASE ServerGoes
  BY <1>2, <1>a, <1>b DEF ServerGoes
<1>3. CASE CallRun
  BY <1>3, <1>a, <1>b DEF CallRun
<1>4. CASE CallClose
  BY <1>4, <1>a, <1>b DEF CallClose
<1>5. CASE ReadFails
  BY <1>5, <1>a, <1>b DEF ReadFails
<1>6. CASE CheckContext
  BY <1>6, <1>a, <1>b DEF CheckContext
<1>7. CASE HandleOffer
  BY <1>7, <1>a, <1>b, CancelledPoint DEF HandleOffer, Unregister
<1>8. CASE HandlePop
  BY <1>8, <1>a, <1>b, CancelledPoint DEF HandlePop, Unregister, HandlerReturns,
     NoPacket
<1>9. CASE HandlerFails
  BY <1>9, <1>a, <1>b DEF HandlerFails, HandlerReturns, NoPacket
<1>10. CASE WriteReply
  <2>1. CASE Answer(pending.kind) = "accepted"
    <3>1. /\ jobs' = [jobs EXCEPT ![packOf[offers]] = offers]
          /\ wpc' = [wpc EXCEPT ![offers] = IF state \in cancelled THEN "aborting"
                                          ELSE "validating"]
          /\ UNCHANGED <<closed, packOf, withdrawn>>
      BY <1>10, <2>1 DEF WriteReply, StartWorker
    <3>2. offers \in Offers /\ wpc[offers] = "idle" /\ offers \notin withdrawn
      BY <1>10, <1>b DEF WriteReply, FreshInv
    <3>3. ASSUME NEW id \in PackIDs, ~closed, jobs'[id] # NoOffer
          PROVE  /\ packOf[jobs'[id]] = id /\ wpc'[jobs'[id]] \in Working
                 /\ jobs'[id] \notin withdrawn
      <4>1. CASE id = packOf[offers]
        BY <3>1, <3>2, <4>1, <1>a
      <4>2. CASE id # packOf[offers]
        <5>1. jobs'[id] = jobs[id] /\ wpc[jobs[id]] \in Working /\ jobs[id] \in Offers
          BY <3>1, <3>3, <4>2, <1>a, <1>b
        <5>2. wpc'[jobs[id]] = wpc[jobs[id]]
          BY <3>1, <3>2, <5>1, <1>a
        <5> QED
          BY <5>1, <5>2, <3>3, <1>b
      <4> QED
        BY <4>1, <4>2
    <3> QED
      BY <3>1, <3>3
  <2>2. CASE Answer(pending.kind) # "accepted"
    BY <1>10, <2>2, <1>b DEF WriteReply
  <2> QED
    BY <2>1, <2>2
<1>11. CASE LockFinish
  BY <1>11, <1>a, <1>b DEF LockFinish
<1>12. CASE WriteFinish
  BY <1>12, <1>a, <1>b DEF WriteFinish
<1>13. CASE EnterPlay
  BY <1>13, <1>a, <1>b DEF EnterPlay
<1>14. CASE ReaderWriteFails
  BY <1>14, <1>a, <1>b DEF ReaderWriteFails, HandlerReturns, NoPacket
<1>15. CASE ReaderCloses
  BY <1>15, <1>a, <1>b DEF ReaderCloses
<1>16. CASE ReaderStops
  BY <1>16, <1>a, <1>b, CancelledPoint DEF ReaderStops, StopLocked
<1>17. CASE ReaderWaits
  BY <1>17, <1>a, <1>b DEF ReaderWaits
<1>18. CASE TakeFinish
  BY <1>18, <1>a, <1>b DEF TakeFinish
<1>19. CASE CloserStops
  BY <1>19, <1>a, <1>b, CancelledPoint DEF CloserStops, StopLocked
<1>20. CASE CloserWaits
  BY <1>20, <1>a, <1>b DEF CloserWaits
<1>21. ASSUME NEW kind \in Kinds, TakeOffer(kind)
      PROVE  RegisteredInv'
  BY <1>21, <1>a, <1>b DEF TakeOffer
<1>22. ASSUME NEW ids \in {{id} : id \in PackIDs} \cup {PackIDs},
             NEW kind \in {"good", "malformed"}, TakePop(ids, kind)
      PROVE  RegisteredInv'
  BY <1>22, <1>a, <1>b DEF TakePop
<1>23. ASSUME NEW c \in Cancellable, CallerCancels(c)
      PROVE  RegisteredInv'
  BY <1>23, <1>a, <1>b, CancelledPoint DEF CallerCancels
<1>24. ASSUME NEW n \in Offers, JobTimesOut(n)
      PROVE  RegisteredInv'
  BY <1>24, <1>a, <1>b DEF JobTimesOut
<1>25. ASSUME NEW n \in Offers, Validate(n)
      PROVE  RegisteredInv'
  BY <1>25, <1>a, <1>b DEF Validate
<1>26. ASSUME NEW n \in Offers, Abort(n)
      PROVE  RegisteredInv'
  BY <1>26, <1>a, <1>b DEF Abort
<1>27. ASSUME NEW n \in Offers, CompleteSilently(n)
      PROVE  RegisteredInv'
  BY <1>27, <1>a, <1>b DEF CompleteSilently, WorkerReturns, Superseded
<1>28. ASSUME NEW n \in Offers, Complete(n)
      PROVE  RegisteredInv'
  BY <1>28, <1>a, <1>b DEF Complete, FirstReport, Superseded
<1>29. ASSUME NEW n \in Offers, WriteDownloaded(n)
      PROVE  RegisteredInv'
  BY <1>29, <1>a, <1>b DEF WriteDownloaded
<1>30. ASSUME NEW n \in Offers, WriteFinal(n)
      PROVE  RegisteredInv'
  BY <1>30, <1>a, <1>b DEF WriteFinal, WorkerReturns
<1>31. ASSUME NEW n \in Offers, WorkerWriteFails(n)
      PROVE  RegisteredInv'
  BY <1>31, <1>a, <1>b DEF WorkerWriteFails
<1>32. ASSUME NEW n \in Offers, WorkerCloses(n)
      PROVE  RegisteredInv'
  BY <1>32, <1>a, <1>b DEF WorkerCloses, WorkerReturns
<1>33. CASE UNCHANGED vars
  BY <1>33, <1>a, <1>b
<1> QED
  BY <1>1, <1>2, <1>3, <1>4, <1>5, <1>6, <1>7, <1>8, <1>9, <1>10, <1>11,
<1>12, <1>13, <1>14, <1>15, <1>16, <1>17, <1>18, <1>19, <1>20, <1>21,
<1>22, <1>23, <1>24, <1>25, <1>26, <1>27, <1>28, <1>29, <1>30, <1>31,
<1>32, <1>33
DEF Next, ReaderInternal, Packets, Closer, Surroundings, Worker

\* A worker that is to report has something to report.
LEMMA ResultStep == IInv /\ [Next]_vars => ResultInv'
<1> SUFFICES ASSUME IInv, [Next]_vars PROVE ResultInv'
  OBVIOUS
<1> USE DEF ResultInv, Outcomes, NoOutcome, WorkerPoints, vars, session, packs,
   work, script, reading
<1>a. /\ TypeOK /\ wpc \in [Offers -> WorkerPoints]
      /\ jobs \in [PackIDs -> {NoOffer} \cup Offers] /\ packOf \in [Offers -> PackIDs]
      /\ offers \in 0..MaxOffers /\ withdrawn \in SUBSET Offers
      /\ result \in [Offers -> Outcomes \cup {NoOutcome}]
  BY DEF IInv, TypeOK
<1>b. FreshInv /\ RegisteredInv /\ LockInv /\ ResultInv /\ ReportInv
  BY DEF IInv
<1>1. CASE ServerStalls
  BY <1>1, <1>a, <1>b DEF ServerStalls
<1>2. CASE ServerGoes
  BY <1>2, <1>a, <1>b DEF ServerGoes
<1>3. CASE CallRun
  BY <1>3, <1>a, <1>b DEF CallRun
<1>4. CASE CallClose
  BY <1>4, <1>a, <1>b DEF CallClose
<1>5. CASE ReadFails
  BY <1>5, <1>a, <1>b DEF ReadFails
<1>6. CASE CheckContext
  BY <1>6, <1>a, <1>b DEF CheckContext
<1>7. CASE HandleOffer
  BY <1>7, <1>a, <1>b, CancelledPoint DEF HandleOffer, Unregister
<1>8. CASE HandlePop
  BY <1>8, <1>a, <1>b, CancelledPoint DEF HandlePop, Unregister, HandlerReturns,
     NoPacket
<1>9. CASE HandlerFails
  BY <1>9, <1>a, <1>b DEF HandlerFails, HandlerReturns, NoPacket
<1>10. CASE WriteReply
  BY <1>10, <1>a, <1>b DEF WriteReply, HandlerReturns, NoPacket, StartWorker
<1>11. CASE LockFinish
  BY <1>11, <1>a, <1>b DEF LockFinish
<1>12. CASE WriteFinish
  BY <1>12, <1>a, <1>b DEF WriteFinish
<1>13. CASE EnterPlay
  BY <1>13, <1>a, <1>b DEF EnterPlay
<1>14. CASE ReaderWriteFails
  BY <1>14, <1>a, <1>b DEF ReaderWriteFails, HandlerReturns, NoPacket
<1>15. CASE ReaderCloses
  BY <1>15, <1>a, <1>b DEF ReaderCloses
<1>16. CASE ReaderStops
  BY <1>16, <1>a, <1>b, CancelledPoint DEF ReaderStops, StopLocked
<1>17. CASE ReaderWaits
  BY <1>17, <1>a, <1>b DEF ReaderWaits
<1>18. CASE TakeFinish
  BY <1>18, <1>a, <1>b DEF TakeFinish
<1>19. CASE CloserStops
  BY <1>19, <1>a, <1>b, CancelledPoint DEF CloserStops, StopLocked
<1>20. CASE CloserWaits
  BY <1>20, <1>a, <1>b DEF CloserWaits
<1>21. ASSUME NEW kind \in Kinds, TakeOffer(kind)
      PROVE  ResultInv'
  BY <1>21, <1>a, <1>b DEF TakeOffer
<1>22. ASSUME NEW ids \in {{id} : id \in PackIDs} \cup {PackIDs},
             NEW kind \in {"good", "malformed"}, TakePop(ids, kind)
      PROVE  ResultInv'
  BY <1>22, <1>a, <1>b DEF TakePop
<1>23. ASSUME NEW c \in Cancellable, CallerCancels(c)
      PROVE  ResultInv'
  BY <1>23, <1>a, <1>b, CancelledPoint DEF CallerCancels
<1>24. ASSUME NEW n \in Offers, JobTimesOut(n)
      PROVE  ResultInv'
  BY <1>24, <1>a, <1>b DEF JobTimesOut
<1>25. ASSUME NEW n \in Offers, Validate(n)
      PROVE  ResultInv'
  BY <1>25, <1>a, <1>b DEF Validate
<1>26. ASSUME NEW n \in Offers, Abort(n)
      PROVE  ResultInv'
  BY <1>26, <1>a, <1>b DEF Abort
<1>27. ASSUME NEW n \in Offers, CompleteSilently(n)
      PROVE  ResultInv'
  BY <1>27, <1>a, <1>b DEF CompleteSilently, WorkerReturns, Superseded
<1>28. ASSUME NEW n \in Offers, Complete(n)
      PROVE  ResultInv'
  BY <1>28, <1>a, <1>b DEF Complete, FirstReport, Superseded
<1>29. ASSUME NEW n \in Offers, WriteDownloaded(n)
      PROVE  ResultInv'
  BY <1>29, <1>a, <1>b DEF WriteDownloaded
<1>30. ASSUME NEW n \in Offers, WriteFinal(n)
      PROVE  ResultInv'
  BY <1>30, <1>a, <1>b DEF WriteFinal, WorkerReturns
<1>31. ASSUME NEW n \in Offers, WorkerWriteFails(n)
      PROVE  ResultInv'
  BY <1>31, <1>a, <1>b DEF WorkerWriteFails
<1>32. ASSUME NEW n \in Offers, WorkerCloses(n)
      PROVE  ResultInv'
  BY <1>32, <1>a, <1>b DEF WorkerCloses, WorkerReturns
<1>33. CASE UNCHANGED vars
  BY <1>33, <1>a, <1>b
<1> QED
  BY <1>1, <1>2, <1>3, <1>4, <1>5, <1>6, <1>7, <1>8, <1>9, <1>10, <1>11,
<1>12, <1>13, <1>14, <1>15, <1>16, <1>17, <1>18, <1>19, <1>20, <1>21,
<1>22, <1>23, <1>24, <1>25, <1>26, <1>27, <1>28, <1>29, <1>30, <1>31,
<1>32, <1>33
DEF Next, ReaderInternal, Packets, Closer, Surroundings, Worker

\* A worker about to report is one the server has not withdrawn.
LEMMA ReportStep == IInv /\ [Next]_vars => ReportInv'
<1> SUFFICES ASSUME IInv, [Next]_vars PROVE ReportInv'
  OBVIOUS
<1> USE DEF ReportInv, LockInv, Writing, WorkerPoints, vars, session, packs, work,
   script, reading
<1>a. /\ TypeOK /\ wpc \in [Offers -> WorkerPoints]
      /\ jobs \in [PackIDs -> {NoOffer} \cup Offers] /\ packOf \in [Offers -> PackIDs]
      /\ offers \in 0..MaxOffers /\ withdrawn \in SUBSET Offers
      /\ result \in [Offers -> Outcomes \cup {NoOutcome}]
  BY DEF IInv, TypeOK
<1>b. FreshInv /\ RegisteredInv /\ LockInv /\ ResultInv /\ ReportInv
  BY DEF IInv
<1>1. CASE ServerStalls
  BY <1>1, <1>a, <1>b DEF ServerStalls
<1>2. CASE ServerGoes
  BY <1>2, <1>a, <1>b DEF ServerGoes
<1>3. CASE CallRun
  BY <1>3, <1>a, <1>b DEF CallRun
<1>4. CASE CallClose
  BY <1>4, <1>a, <1>b DEF CallClose
<1>5. CASE ReadFails
  BY <1>5, <1>a, <1>b DEF ReadFails
<1>6. CASE CheckContext
  BY <1>6, <1>a, <1>b DEF CheckContext
<1>7. CASE HandleOffer
  BY <1>7, <1>a, <1>b, CancelledPoint DEF HandleOffer, Unregister
<1>8. CASE HandlePop
  BY <1>8, <1>a, <1>b, CancelledPoint DEF HandlePop, Unregister, HandlerReturns,
     NoPacket
<1>9. CASE HandlerFails
  BY <1>9, <1>a, <1>b DEF HandlerFails, HandlerReturns, NoPacket
<1>10. CASE WriteReply
  BY <1>10, <1>a, <1>b DEF WriteReply, HandlerReturns, NoPacket, StartWorker,
     FreshInv
<1>11. CASE LockFinish
  BY <1>11, <1>a, <1>b DEF LockFinish
<1>12. CASE WriteFinish
  BY <1>12, <1>a, <1>b DEF WriteFinish
<1>13. CASE EnterPlay
  BY <1>13, <1>a, <1>b DEF EnterPlay
<1>14. CASE ReaderWriteFails
  BY <1>14, <1>a, <1>b DEF ReaderWriteFails, HandlerReturns, NoPacket
<1>15. CASE ReaderCloses
  BY <1>15, <1>a, <1>b DEF ReaderCloses
<1>16. CASE ReaderStops
  BY <1>16, <1>a, <1>b, CancelledPoint DEF ReaderStops, StopLocked
<1>17. CASE ReaderWaits
  BY <1>17, <1>a, <1>b DEF ReaderWaits
<1>18. CASE TakeFinish
  BY <1>18, <1>a, <1>b DEF TakeFinish
<1>19. CASE CloserStops
  BY <1>19, <1>a, <1>b, CancelledPoint DEF CloserStops, StopLocked
<1>20. CASE CloserWaits
  BY <1>20, <1>a, <1>b DEF CloserWaits
<1>21. ASSUME NEW kind \in Kinds, TakeOffer(kind)
      PROVE  ReportInv'
  BY <1>21, <1>a, <1>b DEF TakeOffer
<1>22. ASSUME NEW ids \in {{id} : id \in PackIDs} \cup {PackIDs},
             NEW kind \in {"good", "malformed"}, TakePop(ids, kind)
      PROVE  ReportInv'
  BY <1>22, <1>a, <1>b DEF TakePop
<1>23. ASSUME NEW c \in Cancellable, CallerCancels(c)
      PROVE  ReportInv'
  BY <1>23, <1>a, <1>b, CancelledPoint DEF CallerCancels
<1>24. ASSUME NEW n \in Offers, JobTimesOut(n)
      PROVE  ReportInv'
  BY <1>24, <1>a, <1>b DEF JobTimesOut
<1>25. ASSUME NEW n \in Offers, Validate(n)
      PROVE  ReportInv'
  BY <1>25, <1>a, <1>b DEF Validate
<1>26. ASSUME NEW n \in Offers, Abort(n)
      PROVE  ReportInv'
  BY <1>26, <1>a, <1>b DEF Abort
<1>27. ASSUME NEW n \in Offers, CompleteSilently(n)
      PROVE  ReportInv'
  BY <1>27, <1>a, <1>b DEF CompleteSilently, WorkerReturns, Superseded
<1>28. ASSUME NEW n \in Offers, Complete(n)
      PROVE  ReportInv'
  BY <1>28, <1>a, <1>b DEF Complete, FirstReport, Superseded, RegisteredInv
<1>29. ASSUME NEW n \in Offers, WriteDownloaded(n)
      PROVE  ReportInv'
  BY <1>29, <1>a, <1>b DEF WriteDownloaded
<1>30. ASSUME NEW n \in Offers, WriteFinal(n)
      PROVE  ReportInv'
  BY <1>30, <1>a, <1>b DEF WriteFinal, WorkerReturns
<1>31. ASSUME NEW n \in Offers, WorkerWriteFails(n)
      PROVE  ReportInv'
  BY <1>31, <1>a, <1>b DEF WorkerWriteFails
<1>32. ASSUME NEW n \in Offers, WorkerCloses(n)
      PROVE  ReportInv'
  BY <1>32, <1>a, <1>b DEF WorkerCloses, WorkerReturns
<1>33. CASE UNCHANGED vars
  BY <1>33, <1>a, <1>b
<1> QED
  BY <1>1, <1>2, <1>3, <1>4, <1>5, <1>6, <1>7, <1>8, <1>9, <1>10, <1>11,
<1>12, <1>13, <1>14, <1>15, <1>16, <1>17, <1>18, <1>19, <1>20, <1>21,
<1>22, <1>23, <1>24, <1>25, <1>26, <1>27, <1>28, <1>29, <1>30, <1>31,
<1>32, <1>33
DEF Next, ReaderInternal, Packets, Closer, Surroundings, Worker

\* Writing a status under the packet id of the current state keeps the wire in
\* phase and does not look like the acknowledgement.
LEMMA StatusAppended ==
  ASSUME TypeOK, PhaseInv, rpc # "enter", NEW n, NEW s, s # "finish",
         wire' = Append(wire, Message(n, s, state))
  PROVE  StatusUsesWirePhase' /\ (Acked' <=> Acked)
<1> DEFINE m == Message(n, s, state)
<1>1. m # FinishAck /\ m.pkt = state
  BY DEF Message, FinishAck
<1>2. /\ Len(wire) \in Nat /\ Len(wire') = Len(wire) + 1
      /\ wire'[Len(wire) + 1] = m
      /\ \A i \in 1..Len(wire) : wire'[i] = wire[i]
      /\ DOMAIN wire = 1..Len(wire) /\ DOMAIN wire' = 1..(Len(wire) + 1)
  BY DEF TypeOK
<1>3. Acked' <=> Acked
  BY <1>1, <1>2 DEF Acked
<1>4. state \in States /\ (Acked <=> state = "Play")
  BY DEF PhaseInv, TypeOK
<1>5. ASSUME NEW i \in DOMAIN wire', wire'[i] # FinishAck
      PROVE  wire'[i].pkt = "Play" <=> \E k \in 1..(i - 1) : wire'[k] = FinishAck
  <2>1. CASE i = Len(wire) + 1
    BY <1>1, <1>2, <1>4, <2>1 DEF Acked, States
  <2>2. CASE i \in DOMAIN wire
    BY <1>2, <1>5, <2>2 DEF PhaseInv, StatusUsesWirePhase
  <2> QED
    BY <1>2, <2>1, <2>2
<1> QED
  BY <1>3, <1>5 DEF StatusUsesWirePhase

\* Statuses stay in phase with the acknowledgement.
LEMMA PhaseStep == IInv /\ [Next]_vars => PhaseInv'
<1> SUFFICES ASSUME IInv, [Next]_vars PROVE PhaseInv'
  OBVIOUS
<1> USE DEF PhaseInv, Acked, StatusUsesWirePhase,
            vars, session, packs, work, script, reading
<1>a. TypeOK /\ state \in States /\ wpc \in [Offers -> WorkerPoints]
  BY DEF IInv, TypeOK
<1>b. PhaseInv /\ LockInv /\ ResultInv
  BY DEF IInv
<1>1. CASE ServerStalls
  BY <1>1, <1>a, <1>b DEF ServerStalls
<1>2. CASE ServerGoes
  BY <1>2, <1>a, <1>b DEF ServerGoes
<1>3. CASE CallRun
  BY <1>3, <1>a, <1>b DEF CallRun
<1>4. CASE CallClose
  BY <1>4, <1>a, <1>b DEF CallClose
<1>5. CASE ReadFails
  BY <1>5, <1>a, <1>b DEF ReadFails
<1>6. CASE CheckContext
  BY <1>6, <1>a, <1>b DEF CheckContext
<1>7. CASE HandleOffer
  BY <1>7, <1>a, <1>b DEF HandleOffer, Unregister
<1>8. CASE HandlePop
  BY <1>8, <1>a, <1>b DEF HandlePop, HandlerReturns, Unregister
<1>9. CASE HandlerFails
  BY <1>9, <1>a, <1>b DEF HandlerFails, HandlerReturns
<1>10. CASE WriteReply
  <2>1. rpc # "enter" /\ rpc' # "enter" /\ state' = state
      /\ Answer(pending.kind) # "finish"
    BY <1>10, <1>a, <1>b, AnswerType DEF WriteReply, HandlerReturns, session,
       Statuses, Outcomes
  <2>2. wire' = Append(wire, Message(offers, Answer(pending.kind), state))
    BY <1>10 DEF WriteReply
  <2>3. StatusUsesWirePhase' /\ (Acked' <=> Acked)
    BY <1>a, <1>b, <2>1, <2>2, StatusAppended
  <2>4. rpc' \in {"finish", "ack", "enter"} => rpc \in {"finish", "ack", "enter"}
    BY <1>10 DEF WriteReply, HandlerReturns
  <2> QED
    BY <1>b, <2>1, <2>3, <2>4 DEF PhaseInv
<1>11. CASE LockFinish
  BY <1>11, <1>a, <1>b DEF LockFinish
<1>12. CASE WriteFinish
  <2>1. /\ state = "Configuration" /\ rpc = "ack" /\ rpc' = "enter" /\ state' = state
        /\ ~Acked /\ wire' = Append(wire, FinishAck)
    BY <1>12, <1>b DEF WriteFinish, PhaseInv, session
  <2>2. /\ Len(wire) \in Nat /\ wire'[Len(wire) + 1] = FinishAck
        /\ \A i \in 1..Len(wire) : wire'[i] = wire[i]
        /\ DOMAIN wire = 1..Len(wire) /\ DOMAIN wire' = 1..(Len(wire) + 1)
    BY <2>1, <1>a DEF TypeOK
  <2>3. Acked'
    BY <2>2 DEF Acked
  <2>4. StatusUsesWirePhase'
    BY <2>1, <2>2, <1>b DEF PhaseInv, StatusUsesWirePhase
  <2> QED
    BY <2>1, <2>3, <2>4 DEF PhaseInv
<1>13. CASE EnterPlay
  BY <1>13, <1>a, <1>b DEF EnterPlay, LockInv
<1>14. CASE ReaderWriteFails
  BY <1>14, <1>a, <1>b DEF ReaderWriteFails, HandlerReturns
<1>15. CASE ReaderCloses
  BY <1>15, <1>a, <1>b DEF ReaderCloses
<1>16. CASE ReaderStops
  BY <1>16, <1>a, <1>b DEF ReaderStops
<1>17. CASE ReaderWaits
  BY <1>17, <1>a, <1>b DEF ReaderWaits
<1>18. CASE TakeFinish
  BY <1>18, <1>a, <1>b DEF TakeFinish, States
<1>19. CASE CloserStops
  BY <1>19, <1>a, <1>b DEF CloserStops
<1>20. CASE CloserWaits
  BY <1>20, <1>a, <1>b DEF CloserWaits
<1>21. ASSUME NEW kind \in Kinds, TakeOffer(kind)
      PROVE  PhaseInv'
  BY <1>21, <1>a, <1>b DEF TakeOffer
<1>22. ASSUME NEW ids \in {{id} : id \in PackIDs} \cup {PackIDs},
             NEW kind \in {"good", "malformed"}, TakePop(ids, kind)
      PROVE  PhaseInv'
  BY <1>22, <1>a, <1>b DEF TakePop
<1>23. ASSUME NEW c \in Cancellable, CallerCancels(c)
      PROVE  PhaseInv'
  BY <1>23, <1>a, <1>b DEF CallerCancels
<1>24. ASSUME NEW n \in Offers, JobTimesOut(n)
      PROVE  PhaseInv'
  BY <1>24, <1>a, <1>b DEF JobTimesOut
<1>25. ASSUME NEW n \in Offers, Validate(n)
      PROVE  PhaseInv'
  BY <1>25, <1>a, <1>b DEF Validate
<1>26. ASSUME NEW n \in Offers, Abort(n)
      PROVE  PhaseInv'
  BY <1>26, <1>a, <1>b DEF Abort
<1>27. ASSUME NEW n \in Offers, CompleteSilently(n)
      PROVE  PhaseInv'
  BY <1>27, <1>a, <1>b DEF CompleteSilently
<1>28. ASSUME NEW n \in Offers, Complete(n)
      PROVE  PhaseInv'
  BY <1>28, <1>a, <1>b DEF Complete
<1>29. ASSUME NEW n \in Offers, WriteDownloaded(n)
      PROVE  PhaseInv'
  <2>1. rpc # "enter" /\ rpc' # "enter" /\ state' = state
      /\ "downloaded" # "finish"
    BY <1>29, <1>a, <1>b DEF WriteDownloaded, LockInv, Writing, session, reading
  <2>2. wire' = Append(wire, Message(n, "downloaded", state))
    BY <1>29 DEF WriteDownloaded
  <2>3. StatusUsesWirePhase' /\ (Acked' <=> Acked)
    BY <1>a, <1>b, <2>1, <2>2, StatusAppended
  <2>4. rpc' \in {"finish", "ack", "enter"} => rpc \in {"finish", "ack", "enter"}
    BY <1>29 DEF WriteDownloaded, reading
  <2> QED
    BY <1>b, <2>1, <2>3, <2>4 DEF PhaseInv
<1>30. ASSUME NEW n \in Offers, WriteFinal(n)
      PROVE  PhaseInv'
  <2>1. rpc # "enter" /\ rpc' # "enter" /\ state' = state
      /\ result[n] # "finish"
    BY <1>30, <1>a, <1>b DEF WriteFinal, LockInv, Writing, ResultInv,
       Outcomes, session, reading
  <2>2. wire' = Append(wire, Message(n, result[n], state))
    BY <1>30 DEF WriteFinal
  <2>3. StatusUsesWirePhase' /\ (Acked' <=> Acked)
    BY <1>a, <1>b, <2>1, <2>2, StatusAppended
  <2>4. rpc' \in {"finish", "ack", "enter"} => rpc \in {"finish", "ack", "enter"}
    BY <1>30 DEF WriteFinal, reading
  <2> QED
    BY <1>b, <2>1, <2>3, <2>4 DEF PhaseInv
<1>31. ASSUME NEW n \in Offers, WorkerWriteFails(n)
      PROVE  PhaseInv'
  BY <1>31, <1>a, <1>b DEF WorkerWriteFails
<1>32. ASSUME NEW n \in Offers, WorkerCloses(n)
      PROVE  PhaseInv'
  BY <1>32, <1>a, <1>b DEF WorkerCloses
<1>33. CASE UNCHANGED vars
  BY <1>33, <1>a, <1>b
<1> QED
  BY <1>1, <1>2, <1>3, <1>4, <1>5, <1>6, <1>7, <1>8, <1>9, <1>10, <1>11,
<1>12, <1>13, <1>14, <1>15, <1>16, <1>17, <1>18, <1>19, <1>20, <1>21,
<1>22, <1>23, <1>24, <1>25, <1>26, <1>27, <1>28, <1>29, <1>30, <1>31,
<1>32, <1>33
DEF Next, ReaderInternal, Packets, Closer, Surroundings, Worker

\* active counts the workers that hold a slot, and stays within the limit.
LEMMA SlotStep == IInv /\ [Next]_vars => SlotInv'
<1> SUFFICES ASSUME IInv, [Next]_vars PROVE SlotInv'
  OBVIOUS
<1> USE DEF vars, session, packs, work, script, reading
<1>a. /\ TypeOK /\ wpc \in [Offers -> WorkerPoints] /\ active \in Nat
      /\ offers \in 0..MaxOffers
  BY DEF IInv, TypeOK
<1>b. FreshInv /\ SlotInv /\ IsFiniteSet(Downloading) /\ Cardinality(Downloading) \in Nat
  BY DownloadingFinite, FS_CardinalityType DEF IInv
<1>1. CASE ServerStalls
  BY <1>1, <1>b DEF ServerStalls, SlotInv, Downloading
<1>2. CASE ServerGoes
  BY <1>2, <1>b DEF ServerGoes, SlotInv, Downloading
<1>3. CASE CallRun
  BY <1>3, <1>b DEF CallRun, SlotInv, Downloading
<1>4. CASE CallClose
  BY <1>4, <1>b DEF CallClose, SlotInv, Downloading
<1>5. CASE ReadFails
  BY <1>5, <1>b DEF ReadFails, SlotInv, Downloading
<1>6. CASE CheckContext
  BY <1>6, <1>b DEF CheckContext, SlotInv, Downloading
<1>7. CASE HandleOffer
  <2>1. Downloading' = Downloading /\ active' = active
    BY <1>7, <1>a, CancelledPoint DEF Downloading, HandleOffer, Unregister
  <2> QED
    BY <1>b, <2>1 DEF SlotInv
<1>8. CASE HandlePop
  <2>1. Downloading' = Downloading /\ active' = active
    BY <1>8, <1>a, CancelledPoint DEF Downloading, HandlePop, Unregister
  <2> QED
    BY <1>b, <2>1 DEF SlotInv
<1>9. CASE HandlerFails
  BY <1>9, <1>b DEF HandlerFails, SlotInv, Downloading
<1>10. CASE WriteReply
  <2>1. CASE Answer(pending.kind) = "accepted"
    <3>1. active < MaxActive
      BY <2>1, <1>a DEF Answer
    <3>2. offers \in Offers /\ wpc[offers] = "idle"
      BY <1>10, <1>b DEF WriteReply, FreshInv
    <3>3. /\ offers \notin Downloading /\ Downloading' = Downloading \cup {offers}
          /\ active' = active + 1
      BY <1>10, <2>1, <3>2, <1>a DEF WriteReply, StartWorker, Downloading
    <3>4. Cardinality(Downloading \cup {offers}) = Cardinality(Downloading) + 1
      BY <1>b, <3>3, FS_AddElement
    <3> QED
      BY <1>a, <1>b, <3>1, <3>3, <3>4 DEF SlotInv
  <2>2. CASE Answer(pending.kind) # "accepted"
    BY <1>10, <2>2, <1>b DEF WriteReply, SlotInv, Downloading
  <2> QED
    BY <2>1, <2>2
<1>11. CASE LockFinish
  BY <1>11, <1>b DEF LockFinish, SlotInv, Downloading
<1>12. CASE WriteFinish
  BY <1>12, <1>b DEF WriteFinish, SlotInv, Downloading
<1>13. CASE EnterPlay
  BY <1>13, <1>b DEF EnterPlay, SlotInv, Downloading
<1>14. CASE ReaderWriteFails
  BY <1>14, <1>b DEF ReaderWriteFails, SlotInv, Downloading
<1>15. CASE ReaderCloses
  BY <1>15, <1>b DEF ReaderCloses, SlotInv, Downloading
<1>16. CASE ReaderStops
  <2>1. Downloading' = Downloading /\ active' = active
    BY <1>16, <1>a, CancelledPoint DEF Downloading, ReaderStops, StopLocked
  <2> QED
    BY <1>b, <2>1 DEF SlotInv
<1>17. CASE ReaderWaits
  BY <1>17, <1>b DEF ReaderWaits, SlotInv, Downloading
<1>18. CASE TakeFinish
  BY <1>18, <1>b DEF TakeFinish, SlotInv, Downloading
<1>19. CASE CloserStops
  <2>1. Downloading' = Downloading /\ active' = active
    BY <1>19, <1>a, CancelledPoint DEF Downloading, CloserStops, StopLocked, packs
  <2> QED
    BY <1>b, <2>1 DEF SlotInv
<1>20. CASE CloserWaits
  BY <1>20, <1>b DEF CloserWaits, SlotInv, Downloading
<1>21. ASSUME NEW kind \in Kinds, TakeOffer(kind)
      PROVE  SlotInv'
  BY <1>21, <1>b DEF TakeOffer, SlotInv, Downloading
<1>22. ASSUME NEW ids \in {{id} : id \in PackIDs} \cup {PackIDs},
             NEW kind \in {"good", "malformed"}, TakePop(ids, kind)
      PROVE  SlotInv'
  BY <1>22, <1>b DEF TakePop, SlotInv, Downloading
<1>23. ASSUME NEW c \in Cancellable, CallerCancels(c)
      PROVE  SlotInv'
  <2>1. Downloading' = Downloading /\ active' = active
    BY <1>23, <1>a, CancelledPoint DEF Downloading, CallerCancels, packs
  <2> QED
    BY <1>b, <2>1 DEF SlotInv
<1>24. ASSUME NEW n \in Offers, JobTimesOut(n)
      PROVE  SlotInv'
  <2>1. Downloading' = Downloading /\ active' = active
    BY <1>24, <1>a DEF Downloading, JobTimesOut, packs
  <2> QED
    BY <1>b, <2>1 DEF SlotInv
<1>25. ASSUME NEW n \in Offers, Validate(n)
      PROVE  SlotInv'
  <2>1. Downloading' = Downloading /\ active' = active
    BY <1>25, <1>a DEF Downloading, Validate, packs
  <2> QED
    BY <1>b, <2>1 DEF SlotInv
<1>26. ASSUME NEW n \in Offers, Abort(n)
      PROVE  SlotInv'
  <2>1. Downloading' = Downloading /\ active' = active
    BY <1>26, <1>a DEF Downloading, Abort, packs
  <2> QED
    BY <1>b, <2>1 DEF SlotInv
<1>27. ASSUME NEW n \in Offers, CompleteSilently(n)
      PROVE  SlotInv'
  <2>1. n \in Downloading /\ Downloading' = Downloading \ {n} /\ active' = active - 1
    BY <1>27, <1>a DEF Downloading, CompleteSilently, WorkerReturns
  <2>2. Cardinality(Downloading \ {n}) = Cardinality(Downloading) - 1
    BY <1>b, <2>1, FS_RemoveElement
  <2> QED
    BY <1>a, <1>b, <2>1, <2>2 DEF SlotInv
<1>28. ASSUME NEW n \in Offers, Complete(n)
      PROVE  SlotInv'
  <2>1. n \in Downloading /\ Downloading' = Downloading \ {n} /\ active' = active - 1
    BY <1>28, <1>a DEF Downloading, Complete, FirstReport
  <2>2. Cardinality(Downloading \ {n}) = Cardinality(Downloading) - 1
    BY <1>b, <2>1, FS_RemoveElement
  <2> QED
    BY <1>a, <1>b, <2>1, <2>2 DEF SlotInv
<1>29. ASSUME NEW n \in Offers, WriteDownloaded(n)
      PROVE  SlotInv'
  <2>1. Downloading' = Downloading /\ active' = active
    BY <1>29, <1>a DEF Downloading, WriteDownloaded, packs
  <2> QED
    BY <1>b, <2>1 DEF SlotInv
<1>30. ASSUME NEW n \in Offers, WriteFinal(n)
      PROVE  SlotInv'
  <2>1. Downloading' = Downloading /\ active' = active
    BY <1>30, <1>a DEF Downloading, WriteFinal, WorkerReturns, packs
  <2> QED
    BY <1>b, <2>1 DEF SlotInv
<1>31. ASSUME NEW n \in Offers, WorkerWriteFails(n)
      PROVE  SlotInv'
  <2>1. Downloading' = Downloading /\ active' = active
    BY <1>31, <1>a DEF Downloading, WorkerWriteFails, packs
  <2> QED
    BY <1>b, <2>1 DEF SlotInv
<1>32. ASSUME NEW n \in Offers, WorkerCloses(n)
      PROVE  SlotInv'
  <2>1. Downloading' = Downloading /\ active' = active
    BY <1>32, <1>a DEF Downloading, WorkerCloses, WorkerReturns, packs
  <2> QED
    BY <1>b, <2>1 DEF SlotInv
<1>33. CASE UNCHANGED vars
  BY <1>33, <1>b DEF SlotInv, Downloading
<1> QED
  BY <1>1, <1>2, <1>3, <1>4, <1>5, <1>6, <1>7, <1>8, <1>9, <1>10, <1>11,
<1>12, <1>13, <1>14, <1>15, <1>16, <1>17, <1>18, <1>19, <1>20, <1>21,
<1>22, <1>23, <1>24, <1>25, <1>26, <1>27, <1>28, <1>29, <1>30, <1>31,
<1>32, <1>33
DEF Next, ReaderInternal, Packets, Closer, Surroundings, Worker

\* After a stop has returned no worker is running, and none can start: it
\* takes a write, and the socket is closed.
LEMMA StopStep == IInv /\ [Next]_vars => StopInv'
<1> SUFFICES ASSUME IInv, [Next]_vars PROVE StopInv'
  OBVIOUS
<1> USE DEF StopInv, QuietAfterStop, Running, WorkerPoints,
            vars, session, packs, work, script, reading
<1>a. TypeOK /\ wpc \in [Offers -> WorkerPoints] /\ ctxOf \in [Offers -> States]
  BY DEF IInv, TypeOK
<1>b. StopInv /\ LockInv /\ FreshInv
  BY DEF IInv
<1>1. CASE ServerStalls
  BY <1>1, <1>a, <1>b DEF ServerStalls
<1>2. CASE ServerGoes
  BY <1>2, <1>a, <1>b DEF ServerGoes
<1>3. CASE CallRun
  BY <1>3, <1>a, <1>b DEF CallRun
<1>4. CASE CallClose
  BY <1>4, <1>a, <1>b DEF CallClose
<1>5. CASE ReadFails
  BY <1>5, <1>a, <1>b DEF ReadFails
<1>6. CASE CheckContext
  BY <1>6, <1>a, <1>b DEF CheckContext
<1>7. CASE HandleOffer
  BY <1>7, <1>a, <1>b, CancelledPoint DEF HandleOffer, Unregister
<1>8. CASE HandlePop
  BY <1>8, <1>a, <1>b, CancelledPoint DEF HandlePop, Unregister, HandlerReturns
<1>9. CASE HandlerFails
  BY <1>9, <1>a, <1>b DEF HandlerFails, HandlerReturns
<1>10. CASE WriteReply
  BY <1>10, <1>a, <1>b DEF WriteReply, HandlerReturns, StartWorker, CanWrite,
     FreshInv
<1>11. CASE LockFinish
  BY <1>11, <1>a, <1>b DEF LockFinish
<1>12. CASE WriteFinish
  BY <1>12, <1>a, <1>b DEF WriteFinish
<1>13. CASE EnterPlay
  BY <1>13, <1>a, <1>b DEF EnterPlay
<1>14. CASE ReaderWriteFails
  BY <1>14, <1>a, <1>b DEF ReaderWriteFails, HandlerReturns
<1>15. CASE ReaderCloses
  BY <1>15, <1>a, <1>b DEF ReaderCloses
<1>16. CASE ReaderStops
  BY <1>16, <1>a, <1>b, CancelledPoint DEF ReaderStops, StopLocked
<1>17. CASE ReaderWaits
  BY <1>17, <1>a, <1>b DEF ReaderWaits
<1>18. CASE TakeFinish
  BY <1>18, <1>a, <1>b DEF TakeFinish
<1>19. CASE CloserStops
  BY <1>19, <1>a, <1>b, CancelledPoint DEF CloserStops, StopLocked
<1>20. CASE CloserWaits
  BY <1>20, <1>a, <1>b DEF CloserWaits
<1>21. ASSUME NEW kind \in Kinds, TakeOffer(kind)
      PROVE  StopInv'
  BY <1>21, <1>a, <1>b DEF TakeOffer
<1>22. ASSUME NEW ids \in {{id} : id \in PackIDs} \cup {PackIDs},
             NEW kind \in {"good", "malformed"}, TakePop(ids, kind)
      PROVE  StopInv'
  BY <1>22, <1>a, <1>b DEF TakePop
<1>23. ASSUME NEW c \in Cancellable, CallerCancels(c)
      PROVE  StopInv'
  BY <1>23, <1>a, <1>b, CancelledPoint DEF CallerCancels
<1>24. ASSUME NEW n \in Offers, JobTimesOut(n)
      PROVE  StopInv'
  BY <1>24, <1>a, <1>b DEF JobTimesOut
<1>25. ASSUME NEW n \in Offers, Validate(n)
      PROVE  StopInv'
  BY <1>25, <1>a, <1>b DEF Validate
<1>26. ASSUME NEW n \in Offers, Abort(n)
      PROVE  StopInv'
  BY <1>26, <1>a, <1>b DEF Abort
<1>27. ASSUME NEW n \in Offers, CompleteSilently(n)
      PROVE  StopInv'
  BY <1>27, <1>a, <1>b DEF CompleteSilently, WorkerReturns
<1>28. ASSUME NEW n \in Offers, Complete(n)
      PROVE  StopInv'
  BY <1>28, <1>a, <1>b DEF Complete
<1>29. ASSUME NEW n \in Offers, WriteDownloaded(n)
      PROVE  StopInv'
  BY <1>29, <1>a, <1>b DEF WriteDownloaded
<1>30. ASSUME NEW n \in Offers, WriteFinal(n)
      PROVE  StopInv'
  BY <1>30, <1>a, <1>b DEF WriteFinal, WorkerReturns
<1>31. ASSUME NEW n \in Offers, WorkerWriteFails(n)
      PROVE  StopInv'
  BY <1>31, <1>a, <1>b DEF WorkerWriteFails
<1>32. ASSUME NEW n \in Offers, WorkerCloses(n)
      PROVE  StopInv'
  BY <1>32, <1>a, <1>b DEF WorkerCloses, WorkerReturns
<1>33. CASE UNCHANGED vars
  BY <1>33, <1>a, <1>b
<1> QED
  BY <1>1, <1>2, <1>3, <1>4, <1>5, <1>6, <1>7, <1>8, <1>9, <1>10, <1>11,
<1>12, <1>13, <1>14, <1>15, <1>16, <1>17, <1>18, <1>19, <1>20, <1>21,
<1>22, <1>23, <1>24, <1>25, <1>26, <1>27, <1>28, <1>29, <1>30, <1>31,
<1>32, <1>33
DEF Next, ReaderInternal, Packets, Closer, Surroundings, Worker

-----------------------------------------------------------------------------
(* The invariant.                                                          *)

LEMMA InitIInv == Init => IInv
<1> SUFFICES ASSUME Init PROVE IInv
  OBVIOUS
<1>1. TypeOK
  <2>1. pending \in [kind : Kinds, ids : SUBSET PackIDs]
    BY DEF Init, Kinds, NoPacket
  <2>2. wire \in Seq([offer : {NoOffer} \cup Offers,
                     status : Statuses \cup {"finish"}, pkt : States])
    BY DEF Init
  <2>3. wpc \in [Offers -> WorkerPoints] /\ ctxOf \in [Offers -> States]
    BY DEF Init, WorkerPoints, States
  <2>4. jobs \in [PackIDs -> {NoOffer} \cup Offers]
    BY DEF Init
  <2>5. result \in [Offers -> Outcomes \cup {NoOutcome}]
    BY DEF Init
  <2>6. /\ conn \in {"open", "closed"} /\ peer \in {"reading", "stalled", "gone"}
        /\ mu \in {Free, Reader} \cup Offers /\ closed \in BOOLEAN
        /\ rpc \in ReaderPoints /\ cpc \in CloserPoints /\ state \in States
    BY DEF Init, States, ReaderPoints, CloserPoints
  <2>7. cancelled \in SUBSET States /\ withdrawn \in SUBSET Offers
    BY DEF Init
  <2>8. active \in Nat /\ offers \in 0..MaxOffers /\ pops \in 0..MaxPops
    BY DEF Init
  <2>9. packOf \in [Offers -> PackIDs]
    BY DEF Init
  <2> QED
    BY <2>1, <2>2, <2>3, <2>4, <2>5, <2>6, <2>7, <2>8, <2>9 DEF TypeOK
<1>2. LockInv /\ RegisteredInv /\ FreshInv /\ ResultInv /\ ReportInv /\ StopInv
  BY DEF Init, LockInv, RegisteredInv, FreshInv, ResultInv, ReportInv, StopInv,
         QuietAfterStop, Writing
<1>3. PhaseInv
  BY DEF Init, PhaseInv, Acked, StatusUsesWirePhase
<1>4. Downloading = {} /\ active = 0
  BY DEF Init, Downloading
<1>5. SlotInv
  BY <1>4, FS_EmptySet DEF SlotInv
<1> QED
  BY <1>1, <1>2, <1>3, <1>5 DEF IInv

LEMMA NextIInv == IInv /\ [Next]_vars => IInv'
BY TypeStep, LockStep, RegisteredStep, FreshStep, ResultStep, ReportStep,
   PhaseStep, SlotStep, StopStep DEF IInv

THEOREM Invariance == Spec => []IInv
BY InitIInv, NextIInv, PTL DEF Spec

\* Only four steps write to the socket.
LEMMA WireStep ==
  ASSUME [Next]_vars
  PROVE  wire' = wire \/ WriteReply \/ WriteFinish
         \/ \E n \in Offers : WriteDownloaded(n) \/ WriteFinal(n)
BY DEF Next, ReaderInternal, Packets, Closer, Surroundings, Worker, vars,
   CheckContext, HandleOffer, HandlePop, HandlerFails, LockFinish, EnterPlay,
   ReaderWriteFails, ReaderCloses, ReaderStops, ReaderWaits, TakeOffer, TakePop,
   TakeFinish, CloserStops, CloserWaits, Abort, CompleteSilently, Complete,
   WorkerWriteFails, WorkerCloses, ServerStalls, ServerGoes, CallRun, CallClose,
   ReadFails, CallerCancels, JobTimesOut, Validate

-----------------------------------------------------------------------------
(* The theorems.                                                           *)

\* Every variable keeps its type.
THEOREM TypeCorrect == Spec => []TypeOK
<1>1. IInv => TypeOK
  BY DEF IInv
<1> QED
  BY <1>1, Invariance, PTL

\* Every status on the wire carries the packet id of the phase the server is
\* in when it reads it, however the acknowledgement and the workers interleave:
\* packs.mu serializes them.
THEOREM StatusPhase == Spec => []StatusUsesWirePhase
<1>1. IInv => StatusUsesWirePhase
  BY DEF IInv, PhaseInv
<1> QED
  BY <1>1, Invariance, PTL

\* No mixture of offers, replacements and removals makes more than MaxActive
\* downloads run at once.
THEOREM DownloadBound == Spec => []DownloadsBounded
<1>1. IInv => DownloadsBounded
  BY DEF IInv, SlotInv, DownloadsBounded
<1> QED
  BY <1>1, Invariance, PTL

\* Once stopResourcePacks has returned to anyone no worker runs again.
THEOREM QuietStop == Spec => []QuietAfterStop
<1>1. IInv => QuietAfterStop
  BY DEF IInv, StopInv
<1> QED
  BY <1>1, Invariance, PTL

\* No status is written for an offer that was removed or replaced before.
THEOREM NoStale == Spec => NoStaleReply
<1> DEFINE Fresh == Len(wire') > Len(wire) => wire'[Len(wire')].offer \notin withdrawn
<1>1. ASSUME IInv, [Next]_vars PROVE [Fresh]_vars
  <2>1. /\ TypeOK /\ Len(wire) \in Nat /\ withdrawn \in SUBSET Offers
        /\ FreshInv /\ ReportInv
    BY <1>1 DEF IInv, TypeOK
  <2>2. ASSUME wire' = wire PROVE Fresh
    BY <2>1, <2>2
  <2>3. ASSUME NEW m, m.offer \notin withdrawn, wire' = Append(wire, m) PROVE Fresh
    BY <2>1, <2>3 DEF TypeOK
  <2>4. CASE WriteReply
    BY <2>1, <2>3, <2>4 DEF WriteReply, FreshInv, Message
  <2>5. CASE WriteFinish
    BY <2>1, <2>3, <2>5 DEF WriteFinish, FinishAck, Message, NoOffer
  <2>6. ASSUME NEW n \in Offers, WriteDownloaded(n) PROVE Fresh
    BY <2>1, <2>3, <2>6 DEF WriteDownloaded, ReportInv, Message
  <2>7. ASSUME NEW n \in Offers, WriteFinal(n) PROVE Fresh
    BY <2>1, <2>3, <2>7 DEF WriteFinal, ReportInv, Message
  <2>8. CASE wire' = wire
    BY <2>2, <2>8
  <2>9. wire' = wire \/ WriteReply \/ WriteFinish
        \/ \E n \in Offers : WriteDownloaded(n) \/ WriteFinal(n)
    BY <1>1, WireStep
  <2> QED
    BY <2>4, <2>5, <2>6, <2>7, <2>8, <2>9
<1> QED
  BY <1>1, Invariance, PTL DEF Spec, NoStaleReply

-----------------------------------------------------------------------------
(* What the server hears of one offer.                                     *)

Said == Statuses \cup {"finish"}

\* The messages on the wire that are about offer n.
Told(n) == {i \in DOMAIN wire : wire[i].offer = n}

\* The statuses about n on the wire are, in order, the sequence h.
Heard(n, h) ==
  /\ Cardinality(Told(n)) = Len(h)
  /\ \A i \in Told(n) : wire[i].status = h[HeardUpTo(n, i)]

Histories == Conversations \cup {<<>>, <<"accepted">>, <<"accepted", "downloaded">>}

\* What the control points of the reader and of n's worker say of what the
\* server has heard: nothing before the reply, "accepted" while the worker
\* holds a slot, and the next status of the conversation when it reports.
Agrees(n, h) ==
  /\ (n > offers \/ (n = offers /\ rpc \in {"offer", "reply"})) => h = <<>>
  /\ wpc[n] \in Working => h = <<"accepted">>
  /\ wpc[n] = "downloaded" => h = <<"accepted">> /\ result[n] # "failedDownload"
  /\ wpc[n] = "final" /\ result[n] = "failedDownload" => h = <<"accepted">>
  /\ wpc[n] = "final" /\ result[n] # "failedDownload" =>
       h = <<"accepted", "downloaded">>

TalkInv == \A n \in Offers : \E h \in Histories : Heard(n, h) /\ Agrees(n, h)

\* A status added to a history of one or of two.
LEMMA AppendSecond ==
  ASSUME NEW a, NEW b
  PROVE  Append(<<a>>, b) = <<a, b>>
<1> DEFINE s == Append(<<a>>, b)
           t == <<a, b>>
<1>1. s \in Seq({a, b}) /\ t \in Seq({a, b})
  OBVIOUS
<1>2. Len(s) = 2 /\ Len(t) = 2 /\ s[1] = t[1] /\ s[2] = t[2]
  OBVIOUS
<1>3. Len(s) = Len(t) /\ \A i \in 1..Len(s) : s[i] = t[i]
  BY <1>2
<1> HIDE DEF s, t
<1>4. s = t
  BY <1>1, <1>3, SeqEqual
<1> QED
  BY <1>4 DEF s, t

LEMMA AppendThird ==
  ASSUME NEW a, NEW b, NEW c
  PROVE  Append(<<a, b>>, c) = <<a, b, c>>
<1> DEFINE s == Append(<<a, b>>, c)
           t == <<a, b, c>>
<1>1. s \in Seq({a, b, c}) /\ t \in Seq({a, b, c})
  OBVIOUS
<1>2. /\ Len(s) = 3 /\ Len(t) = 3
      /\ s[1] = t[1] /\ s[2] = t[2] /\ s[3] = t[3]
  OBVIOUS
<1>3. Len(s) = Len(t) /\ \A i \in 1..Len(s) : s[i] = t[i]
  BY <1>2
<1> HIDE DEF s, t
<1>4. s = t
  BY <1>1, <1>3, SeqEqual
<1> QED
  BY <1>4 DEF s, t

\* A message about another offer, or the acknowledgement, is not heard as one
\* about n; one about n is heard last.
LEMMA HeardAppended ==
  ASSUME TypeOK, NEW n \in Offers, NEW h \in Seq(Said), Heard(n, h),
         NEW m, m.status \in Said, wire' = Append(wire, m)
  PROVE  /\ m.offer # n => Heard(n, h)'
         /\ m.offer = n => Heard(n, Append(h, m.status))'
<1>0. PICK k \in Nat : k = Len(wire)
  BY DEF TypeOK
<1> DEFINE S(i) == {j \in 1..i : wire[j].offer = n}
           T(i) == {j \in 1..i : wire'[j].offer = n}
<1>1. /\ wire'[k + 1] = m
      /\ DOMAIN wire = 1..k /\ DOMAIN wire' = 1..(k + 1)
      /\ \A i \in 1..k : wire'[i] = wire[i]
  BY <1>0 DEF TypeOK
<1>2. \A i \in 1..k : T(i) = S(i)
  <2>1. ASSUME NEW i \in 1..k, NEW j \in 1..i PROVE wire'[j] = wire[j]
    BY <1>1, <2>1
  <2> QED
    BY <2>1
<1>3. Told(n) = S(k) /\ Told(n)' = T(k + 1)
  BY <1>1 DEF Told
<1>4. IsFiniteSet(S(k)) /\ k + 1 \notin S(k)
  <2>1. IsFiniteSet(1..k) /\ S(k) \subseteq 1..k
    BY FS_Interval
  <2> QED
    BY <2>1, FS_Subset
<1>5. m.offer # n => T(k + 1) = S(k)
  BY <1>1
<1>6. m.offer = n => T(k + 1) = S(k) \cup {k + 1}
  BY <1>1
<1>7. /\ Cardinality(S(k)) \in Nat
      /\ Cardinality(S(k) \cup {k + 1}) = Cardinality(S(k)) + 1
  BY <1>4, FS_AddElement, FS_CardinalityType
<1>8. \A i \in 1..k : HeardUpTo(n, i)' = HeardUpTo(n, i)
  BY <1>2 DEF HeardUpTo
<1>9. HeardUpTo(n, k + 1)' = Cardinality(T(k + 1))
  BY DEF HeardUpTo
<1>10. \A i \in S(k) : HeardUpTo(n, i) \in 1..Len(h)
  <2>1. SUFFICES ASSUME NEW i \in S(k) PROVE HeardUpTo(n, i) \in 1..Len(h)
    OBVIOUS
  <2>2. S(i) \subseteq S(k) /\ i \in S(i)
    BY <2>1
  <2>3. /\ IsFiniteSet(S(i)) /\ Cardinality(S(i)) \in Nat
        /\ Cardinality(S(i)) <= Cardinality(S(k)) /\ Cardinality(S(i)) # 0
    BY <1>4, <2>2, FS_Subset, FS_CardinalityType, FS_EmptySet
  <2>4. Cardinality(S(k)) = Len(h) /\ HeardUpTo(n, i) = Cardinality(S(i))
    BY <1>3 DEF Heard, HeardUpTo
  <2> HIDE DEF S
  <2> QED
    BY <2>3, <2>4
<1>11. /\ Cardinality(S(k)) = Len(h)
       /\ \A i \in S(k) : wire[i].status = h[HeardUpTo(n, i)]
  BY <1>3 DEF Heard
<1>12. S(k) \subseteq 1..k
  OBVIOUS
<1> HIDE DEF S, T
<1>13. ASSUME m.offer # n PROVE Heard(n, h)'
  BY <1>1, <1>3, <1>5, <1>8, <1>11, <1>12, <1>13 DEF Heard
<1>14. ASSUME m.offer = n PROVE Heard(n, Append(h, m.status))'
  <2> DEFINE g == Append(h, m.status)
  <2>1. /\ Len(g) = Len(h) + 1 /\ g[Len(h) + 1] = m.status
        /\ \A j \in 1..Len(h) : g[j] = h[j]
    OBVIOUS
  <2>2. Cardinality(T(k + 1)) = Len(g)
    BY <1>6, <1>7, <1>11, <1>14, <2>1
  <2>3. ASSUME NEW i \in S(k) PROVE wire'[i].status = g[HeardUpTo(n, i)']
    BY <1>1, <1>8, <1>10, <1>11, <1>12, <2>1, <2>3
  <2>4. wire'[k + 1].status = g[HeardUpTo(n, k + 1)']
    BY <1>1, <1>7, <1>9, <1>6, <1>11, <1>14, <2>1
  <2>5. \A i \in T(k + 1) : wire'[i].status = g[HeardUpTo(n, i)']
    BY <1>6, <1>14, <2>3, <2>4
  <2>6. (Cardinality(Told(n)) = Len(g))'
    BY <1>3, <2>2
  <2> QED
    BY <1>3, <2>5, <2>6 DEF Heard
<1> QED
  BY <1>13, <1>14

\* Every history is a conversation or the beginning of one.
LEMMA HistoryBegins ==
  ASSUME NEW h \in Histories
  PROVE  /\ h \in Seq(Said)
         /\ \E c \in Conversations : Len(h) <= Len(c) /\ \A k \in 1..Len(h) : h[k] = c[k]
<1> USE DEF Said, Statuses, Outcomes
<1>1. h \in Seq(Said)
  <2>1. /\ <<>> \in Seq(Said) /\ <<"accepted">> \in Seq(Said)
        /\ <<"declined">> \in Seq(Said) /\ <<"invalidURL">> \in Seq(Said)
    OBVIOUS
  <2>2. /\ <<"accepted", "downloaded">> \in Seq(Said)
        /\ <<"accepted", "failedDownload">> \in Seq(Said)
    OBVIOUS
  <2>3. /\ <<"accepted", "downloaded", "loaded">> \in Seq(Said)
        /\ <<"accepted", "downloaded", "failedReload">> \in Seq(Said)
    OBVIOUS
  <2> QED
    BY <2>1, <2>2, <2>3 DEF Histories, Conversations
<1>2. CASE h \in Conversations
  BY <1>1, <1>2
<1>3. CASE h = <<>>
  <2>1. <<"declined">> \in Conversations
    BY DEF Conversations
  <2> QED
    BY <1>3, <2>1
<1>4. CASE h = <<"accepted">>
  <2> DEFINE c == <<"accepted", "failedDownload">>
  <2>1. c \in Conversations
    BY DEF Conversations
  <2>2. Len(h) = 1 /\ Len(c) = 2 /\ h[1] = c[1]
    BY <1>4
  <2>3. \A k \in 1..Len(h) : h[k] = c[k]
    BY <2>2
  <2> HIDE DEF c
  <2> QED
    BY <1>1, <2>1, <2>2, <2>3
<1>5. CASE h = <<"accepted", "downloaded">>
  <2> DEFINE c == <<"accepted", "downloaded", "loaded">>
  <2>1. c \in Conversations
    BY DEF Conversations
  <2>2. Len(h) = 2 /\ Len(c) = 3 /\ h[1] = c[1] /\ h[2] = c[2]
    BY <1>5
  <2>3. \A k \in 1..Len(h) : h[k] = c[k]
    BY <2>2
  <2> HIDE DEF c
  <2> QED
    BY <1>1, <2>1, <2>2, <2>3
<1> QED
  BY <1>1, <1>2, <1>3, <1>4, <1>5 DEF Histories

LEMMA TalkWellFormed == TypeOK /\ TalkInv => ConversationsAreWellFormed
<1> SUFFICES ASSUME TypeOK, TalkInv, NEW n \in Offers
             PROVE  \E c \in Conversations :
                      \A i \in DOMAIN wire : wire[i].offer = n =>
                        /\ HeardUpTo(n, i) <= Len(c)
                        /\ wire[i].status = c[HeardUpTo(n, i)]
  BY DEF ConversationsAreWellFormed
<1>1. PICK h \in Histories : Heard(n, h)
  BY DEF TalkInv
<1>2. /\ h \in Seq(Said)
      /\ \E c \in Conversations : Len(h) <= Len(c) /\ \A k \in 1..Len(h) : h[k] = c[k]
  BY HistoryBegins
<1>3. PICK c \in Conversations : Len(h) <= Len(c) /\ \A k \in 1..Len(h) : h[k] = c[k]
  BY <1>2
<1>4. Len(c) \in Nat /\ Len(h) \in Nat
  BY <1>2, <1>3 DEF Conversations
<1>5. ASSUME NEW i \in DOMAIN wire, wire[i].offer = n
      PROVE  HeardUpTo(n, i) \in 1..Len(h)
  <2> DEFINE S == {j \in 1..i : wire[j].offer = n}
  <2>1. DOMAIN wire = 1..Len(wire) /\ Len(wire) \in Nat
    BY DEF TypeOK
  <2>2. S \subseteq Told(n) /\ i \in S
    BY <2>1, <1>5 DEF Told
  <2>3. IsFiniteSet(Told(n))
    <3>1. IsFiniteSet(1..Len(wire)) /\ Told(n) \subseteq 1..Len(wire)
      BY <2>1, FS_Interval DEF Told
    <3> QED
      BY <3>1, FS_Subset
  <2>4. /\ Cardinality(S) \in Nat /\ Cardinality(S) # 0
        /\ Cardinality(S) <= Cardinality(Told(n))
    BY <2>2, <2>3, FS_Subset, FS_CardinalityType, FS_EmptySet
  <2>5. Cardinality(Told(n)) = Len(h) /\ HeardUpTo(n, i) = Cardinality(S)
    BY <1>1 DEF Heard, HeardUpTo
  <2> HIDE DEF S
  <2> QED
    BY <1>4, <2>4, <2>5
<1>6. ASSUME NEW i \in DOMAIN wire, wire[i].offer = n
      PROVE  /\ HeardUpTo(n, i) <= Len(c)
             /\ wire[i].status = c[HeardUpTo(n, i)]
  <2>1. HeardUpTo(n, i) \in 1..Len(h)
    BY <1>5, <1>6
  <2>2. wire[i].status = h[HeardUpTo(n, i)]
    BY <1>1, <1>6 DEF Heard, Told
  <2> QED
    BY <1>3, <1>4, <2>1, <2>2
<1> QED
  BY <1>6

\* A step that writes nothing leaves the control points in agreement with what
\* has been heard.
LEMMA AgreesStep ==
  ASSUME IInv, [Next]_vars, wire' = wire, NEW n \in Offers, NEW h, Agrees(n, h)
  PROVE  Agrees(n, h)'
<1> USE DEF Agrees, Working, vars, session, packs, work, script, reading
<1>a. /\ TypeOK /\ wpc \in [Offers -> WorkerPoints] /\ offers \in 0..MaxOffers
      /\ result \in [Offers -> Outcomes \cup {NoOutcome}]
  BY DEF IInv, TypeOK
<1>b. FreshInv /\ \A e : wire # Append(wire, e)
  <2>1. Len(wire) \in Nat /\ \A e : Len(Append(wire, e)) = Len(wire) + 1
    BY <1>a DEF TypeOK
  <2> QED
    BY <2>1 DEF IInv
<1>1. CASE ServerStalls
  BY <1>1, <1>a, <1>b DEF ServerStalls
<1>2. CASE ServerGoes
  BY <1>2, <1>a, <1>b DEF ServerGoes
<1>3. CASE CallRun
  BY <1>3, <1>a, <1>b DEF CallRun
<1>4. CASE CallClose
  BY <1>4, <1>a, <1>b DEF CallClose
<1>5. CASE ReadFails
  BY <1>5, <1>a, <1>b DEF ReadFails
<1>6. CASE CheckContext
  BY <1>6, <1>a, <1>b DEF CheckContext
<1>7. CASE HandleOffer
  BY <1>7, <1>a, <1>b, CancelledPoint DEF HandleOffer, Unregister
<1>8. CASE HandlePop
  BY <1>8, <1>a, <1>b, CancelledPoint DEF HandlePop, Unregister, HandlerReturns,
     NoPacket
<1>9. CASE HandlerFails
  BY <1>9, <1>a, <1>b DEF HandlerFails, HandlerReturns, NoPacket
<1>10. CASE WriteReply
  BY <1>10, <1>b DEF WriteReply
<1>11. CASE LockFinish
  BY <1>11, <1>a, <1>b DEF LockFinish
<1>12. CASE WriteFinish
  BY <1>12, <1>b DEF WriteFinish
<1>13. CASE EnterPlay
  BY <1>13, <1>a, <1>b DEF EnterPlay
<1>14. CASE ReaderWriteFails
  BY <1>14, <1>a, <1>b DEF ReaderWriteFails, HandlerReturns, NoPacket
<1>15. CASE ReaderCloses
  BY <1>15, <1>a, <1>b DEF ReaderCloses
<1>16. CASE ReaderStops
  BY <1>16, <1>a, <1>b, CancelledPoint DEF ReaderStops, StopLocked
<1>17. CASE ReaderWaits
  BY <1>17, <1>a, <1>b DEF ReaderWaits
<1>18. CASE TakeFinish
  BY <1>18, <1>a, <1>b DEF TakeFinish
<1>19. CASE CloserStops
  BY <1>19, <1>a, <1>b, CancelledPoint DEF CloserStops, StopLocked
<1>20. CASE CloserWaits
  BY <1>20, <1>a, <1>b DEF CloserWaits
<1>21. ASSUME NEW kind \in Kinds, TakeOffer(kind)
      PROVE  Agrees(n, h)'
  BY <1>21, <1>a, <1>b DEF TakeOffer
<1>22. ASSUME NEW ids \in {{id} : id \in PackIDs} \cup {PackIDs},
             NEW kind \in {"good", "malformed"}, TakePop(ids, kind)
      PROVE  Agrees(n, h)'
  BY <1>22, <1>a, <1>b DEF TakePop
<1>23. ASSUME NEW c \in Cancellable, CallerCancels(c)
      PROVE  Agrees(n, h)'
  BY <1>23, <1>a, <1>b, CancelledPoint DEF CallerCancels
<1>24. ASSUME NEW w \in Offers, JobTimesOut(w)
      PROVE  Agrees(n, h)'
  BY <1>24, <1>a, <1>b DEF JobTimesOut
<1>25. ASSUME NEW w \in Offers, Validate(w)
      PROVE  Agrees(n, h)'
  BY <1>25, <1>a, <1>b DEF Validate
<1>26. ASSUME NEW w \in Offers, Abort(w)
      PROVE  Agrees(n, h)'
  BY <1>26, <1>a, <1>b DEF Abort
<1>27. ASSUME NEW w \in Offers, CompleteSilently(w)
      PROVE  Agrees(n, h)'
  BY <1>27, <1>a, <1>b DEF CompleteSilently, WorkerReturns, Superseded
<1>28. ASSUME NEW w \in Offers, Complete(w)
      PROVE  Agrees(n, h)'
  BY <1>28, <1>a, <1>b DEF Complete, FirstReport, Superseded
<1>29. ASSUME NEW w \in Offers, WriteDownloaded(w)
      PROVE  Agrees(n, h)'
  BY <1>29, <1>b DEF WriteDownloaded
<1>30. ASSUME NEW w \in Offers, WriteFinal(w)
      PROVE  Agrees(n, h)'
  BY <1>30, <1>b DEF WriteFinal
<1>31. ASSUME NEW w \in Offers, WorkerWriteFails(w)
      PROVE  Agrees(n, h)'
  BY <1>31, <1>a, <1>b DEF WorkerWriteFails
<1>32. ASSUME NEW w \in Offers, WorkerCloses(w)
      PROVE  Agrees(n, h)'
  BY <1>32, <1>a, <1>b DEF WorkerCloses, WorkerReturns
<1>33. CASE UNCHANGED vars
  BY <1>33, <1>a, <1>b
<1> QED
  BY <1>1, <1>2, <1>3, <1>4, <1>5, <1>6, <1>7, <1>8, <1>9, <1>10, <1>11,
<1>12, <1>13, <1>14, <1>15, <1>16, <1>17, <1>18, <1>19, <1>20, <1>21,
<1>22, <1>23, <1>24, <1>25, <1>26, <1>27, <1>28, <1>29, <1>30, <1>31,
<1>32, <1>33
DEF Next, ReaderInternal, Packets, Closer, Surroundings, Worker


LEMMA TalkStep == IInv /\ TalkInv /\ [Next]_vars => TalkInv'
<1> SUFFICES ASSUME IInv, TalkInv, [Next]_vars, NEW n \in Offers
             PROVE  \E h \in Histories : Heard(n, h)' /\ Agrees(n, h)'
  BY DEF TalkInv
<1>1. PICK h \in Histories : Heard(n, h) /\ Agrees(n, h)
  BY DEF TalkInv
<1>2. /\ TypeOK /\ FreshInv /\ ResultInv
      /\ wpc \in [Offers -> WorkerPoints] /\ offers \in 0..MaxOffers
      /\ result \in [Offers -> Outcomes \cup {NoOutcome}]
  BY DEF IInv, TypeOK
<1>3. h \in Seq(Said)
  BY HistoryBegins
<1>4. ASSUME wire' = wire PROVE Heard(n, h)' /\ Agrees(n, h)'
  <2>1. Agrees(n, h)'
    BY <1>1, <1>4, AgreesStep
  <2>2. Heard(n, h)'
    BY <1>1, <1>4 DEF Heard, Told, HeardUpTo
  <2> QED
    BY <2>1, <2>2
<1>5. CASE WriteReply
  <2>0. PICK a, m : a = Answer(pending.kind) /\ m = Message(offers, a, state)
    OBVIOUS
  <2> DEFINE g == Append(h, a)
  <2>1. /\ a \in {"declined", "invalidURL", "accepted"} /\ wire' = Append(wire, m)
        /\ offers' = offers /\ rpc = "reply" /\ rpc' = "loop" /\ result' = result
        /\ offers \in Offers /\ wpc[offers] = "idle"
    BY <1>2, <1>5, <2>0 DEF WriteReply, Answer, HandlerReturns, script, FreshInv
  <2>2. m.offer = offers /\ m.status = a
    BY <2>0 DEF Message
  <2>3. CASE n = offers
    <3>1. h = <<>>
      BY <1>1, <2>1, <2>3 DEF Agrees
    <3>2. Heard(n, g)'
      <4>1. m.status \in Said
        BY <2>1, <2>2 DEF Said, Statuses
      <4> QED
        BY <1>1, <1>2, <1>3, <2>1, <2>2, <2>3, <4>1, HeardAppended
    <3>3. g = <<a>>
      BY <3>1
    <3>4. <<a>> \in Histories
      BY <2>1 DEF Histories, Conversations
    <3>5. a = "accepted" \/ wpc'[n] = "idle"
      BY <1>5, <2>0, <2>1, <2>3 DEF WriteReply
    <3>6. wpc'[n] \in {"idle", "validating", "aborting"}
      BY <1>2, <1>5, <2>1, <2>3 DEF WriteReply, StartWorker
    <3>7. Agrees(n, <<a>>)'
      <4>1. ~(n > offers')
        BY <1>2, <2>1, <2>3
      <4>2. /\ wpc'[n] \notin {"downloaded", "final"}
            /\ wpc'[n] \in Working => a = "accepted"
        BY <3>5, <3>6 DEF Working
      <4> QED
        BY <2>1, <4>1, <4>2 DEF Agrees
    <3> QED
      BY <3>2, <3>3, <3>4, <3>7
  <2>4. CASE n # offers
    <3>1. wpc'[n] = wpc[n]
      BY <1>2, <1>5, <2>1, <2>4 DEF WriteReply, StartWorker
    <3>2. Agrees(n, h)'
      BY <1>1, <2>1, <2>4, <3>1 DEF Agrees, Working
    <3>3. Heard(n, h)'
      <4>1. m.status \in Said
        BY <2>1, <2>2 DEF Said, Statuses
      <4> QED
        BY <1>1, <1>2, <1>3, <2>1, <2>2, <2>4, <4>1, HeardAppended
    <3> QED
      BY <3>2, <3>3
  <2> QED
    BY <2>3, <2>4
<1>6. CASE WriteFinish
  <2>1. Heard(n, h)'
    <3>1. FinishAck.offer # n /\ FinishAck.status \in Said
      <4>1. FinishAck.offer = 0 /\ FinishAck.status = "finish"
        BY DEF FinishAck, Message
      <4> QED
        BY <4>1 DEF Said
    <3>2. wire' = Append(wire, FinishAck)
      BY <1>6 DEF WriteFinish
    <3> QED
      BY <1>1, <1>2, <1>3, <3>1, <3>2, HeardAppended
  <2>2. Agrees(n, h)'
    BY <1>1, <1>6 DEF WriteFinish, Agrees, Working, script, work
  <2> QED
    BY <2>1, <2>2
<1>7. ASSUME NEW w \in Offers, WriteDownloaded(w)
      PROVE  \E g \in Histories : Heard(n, g)' /\ Agrees(n, g)'
  <2>0. PICK m : m = Message(w, "downloaded", state)
    OBVIOUS
  <2> DEFINE g == Append(h, "downloaded")
  <2>1. /\ wire' = Append(wire, m) /\ wpc[w] = "downloaded"
        /\ wpc' = [wpc EXCEPT ![w] = "final"] /\ result' = result
        /\ offers' = offers /\ rpc' = rpc
    BY <1>7, <2>0 DEF WriteDownloaded, reading, script
  <2>2. m.offer = w /\ m.status = "downloaded"
    BY <2>0 DEF Message
  <2>3. CASE n = w
    <3>1. h = <<"accepted">> /\ result[n] # "failedDownload"
      BY <1>1, <2>1, <2>3 DEF Agrees
    <3>2. Heard(n, g)'
      <4> QED
        BY <1>1, <1>2, <1>3, <2>1, <2>2, <2>3, HeardAppended DEF Said, Statuses
    <3>3. g = <<"accepted", "downloaded">>
      BY <3>1, AppendSecond
    <3>4. wpc'[n] = "final"
      BY <1>2, <2>1, <2>3
    <3>5. n <= offers /\ ~(n = offers /\ rpc \in {"offer", "reply"})
      BY <1>2, <2>1, <2>3 DEF FreshInv
    <3>6. Agrees(n, <<"accepted", "downloaded">>)'
      <4> DEFINE f == <<"accepted", "downloaded">>
      <4>1. /\ ~(n > offers' \/ (n = offers' /\ rpc' \in {"offer", "reply"}))
            /\ result'[n] # "failedDownload"
        BY <1>2, <2>1, <3>1, <3>5
      <4>2. wpc'[n] # "downloaded" /\ wpc'[n] \notin Working
        BY <3>4 DEF Working
      <4> HIDE DEF f
      <4>3. f = <<"accepted", "downloaded">> => Agrees(n, f)'
        BY <4>1, <4>2 DEF Agrees
      <4> QED
        BY <4>3 DEF f
    <3> QED
      BY <3>2, <3>3, <3>6 DEF Histories
  <2>4. CASE n # w
    <3>1. wpc'[n] = wpc[n]
      BY <1>2, <2>1, <2>4
    <3>2. Agrees(n, h)'
      BY <1>1, <2>1, <3>1 DEF Agrees, Working
    <3>3. Heard(n, h)'
      <4> QED
        BY <1>1, <1>2, <1>3, <2>1, <2>2, <2>4, HeardAppended DEF Said, Statuses
    <3> QED
      BY <3>2, <3>3
  <2> QED
    BY <2>3, <2>4
<1>8. ASSUME NEW w \in Offers, WriteFinal(w)
      PROVE  \E g \in Histories : Heard(n, g)' /\ Agrees(n, g)'
  <2>0. PICK r, m : r = result[w] /\ m = Message(w, r, state)
    OBVIOUS
  <2> DEFINE g == Append(h, r)
  <2>1. /\ wire' = Append(wire, m) /\ wpc[w] = "final"
        /\ wpc' = [wpc EXCEPT ![w] = "done"]
        /\ result' = [result EXCEPT ![w] = NoOutcome]
        /\ offers' = offers /\ rpc' = rpc
    BY <1>8, <2>0 DEF WriteFinal, WorkerReturns, reading, script
  <2>2. m.offer = w /\ m.status = r
    BY <2>0 DEF Message
  <2>3. r = result[w] /\ r \in {"loaded", "failedDownload", "failedReload"}
    BY <2>0, <1>2, <2>1 DEF ResultInv, Outcomes
  <2>4. CASE n = w
    <3>1. \/ h = <<"accepted">> /\ r = "failedDownload"
          \/ h = <<"accepted", "downloaded">> /\ r \in {"loaded", "failedReload"}
      BY <1>1, <2>1, <2>3, <2>4 DEF Agrees
    <3>2. Heard(n, g)'
      <4>1. m.status \in Said
        BY <2>2, <2>3 DEF Said, Statuses, Outcomes
      <4> QED
        BY <1>1, <1>2, <1>3, <2>1, <2>2, <2>4, <4>1, HeardAppended
    <3>3. g \in Conversations
      <4>1. CASE h = <<"accepted">> /\ r = "failedDownload"
        <5>1. g = <<"accepted", "failedDownload">>
          BY <4>1, AppendSecond
        <5> QED
          BY <5>1 DEF Conversations
      <4>2. CASE h = <<"accepted", "downloaded">> /\ r = "loaded"
        <5>1. g = <<"accepted", "downloaded", "loaded">>
          BY <4>2, AppendThird
        <5> QED
          BY <5>1 DEF Conversations
      <4>3. CASE h = <<"accepted", "downloaded">> /\ r = "failedReload"
        <5>1. g = <<"accepted", "downloaded", "failedReload">>
          BY <4>3, AppendThird
        <5> QED
          BY <5>1 DEF Conversations
      <4> QED
        BY <3>1, <4>1, <4>2, <4>3
    <3>4. wpc'[n] = "done"
      BY <1>2, <2>1, <2>4
    <3>5. n <= offers /\ ~(n = offers /\ rpc \in {"offer", "reply"})
      <4>1. wpc[n] # "idle"
        BY <2>1, <2>4
      <4>2. n > offers => wpc[n] = "idle"
        BY <1>2 DEF FreshInv
      <4>3. rpc \in {"offer", "reply"} => wpc[offers] = "idle"
        BY <1>2 DEF FreshInv
      <4>4. ~(n > offers)
        BY <4>1, <4>2
      <4>5. offers \in Nat /\ n \in Nat
        BY <1>2
      <4>6. n <= offers
        BY <4>4, <4>5
      <4> QED
        BY <4>1, <4>3, <4>6
    <3>6. Agrees(n, g)'
      <4> HIDE DEF g
      <4>1. ASSUME NEW f PROVE Agrees(n, f)'
        BY <1>2, <2>1, <3>4, <3>5 DEF Agrees, Working
      <4> QED
        BY <4>1
    <3> HIDE DEF g
    <3> QED
      BY <3>2, <3>3, <3>6 DEF Histories
  <2>5. CASE n # w
    <3>1. wpc'[n] = wpc[n] /\ result'[n] = result[n]
      BY <1>2, <2>1, <2>5
    <3>2. Agrees(n, h)'
      BY <1>1, <2>1, <3>1 DEF Agrees, Working
    <3>3. Heard(n, h)'
      <4>1. m.status \in Said
        BY <2>2, <2>3 DEF Said, Statuses, Outcomes
      <4> QED
        BY <1>1, <1>2, <1>3, <2>1, <2>2, <2>5, <4>1, HeardAppended
    <3> QED
      BY <3>2, <3>3
  <2> QED
    BY <2>4, <2>5
<1>9. wire' = wire \/ WriteReply \/ WriteFinish
      \/ \E w \in Offers : WriteDownloaded(w) \/ WriteFinal(w)
  BY WireStep
<1> QED
  BY <1>1, <1>4, <1>5, <1>6, <1>7, <1>8, <1>9

LEMMA InitTalk == Init => TalkInv
<1> SUFFICES ASSUME Init, NEW n \in Offers PROVE Heard(n, <<>>) /\ Agrees(n, <<>>)
  BY DEF TalkInv, Histories
<1>1. Told(n) = {}
  BY DEF Init, Told
<1>2. Heard(n, <<>>)
  BY <1>1, FS_EmptySet DEF Heard
<1>3. Agrees(n, <<>>)
  BY DEF Init, Agrees, Working
<1> QED
  BY <1>2, <1>3

\* Whatever the interleaving of replies, downloads, removals, cancellations and
\* stops, what the server hears of an offer is the beginning of one of the
\* protocol's conversations, each status at most once and in order.
THEOREM WellFormedConversations == Spec => []ConversationsAreWellFormed
<1>1. IInv => TypeOK
  BY DEF IInv
<1>2. Spec => []TalkInv
  BY InitTalk, TalkStep, Invariance, PTL DEF Spec
<1> QED
  BY <1>1, <1>2, TalkWellFormed, Invariance, PTL

=============================================================================
