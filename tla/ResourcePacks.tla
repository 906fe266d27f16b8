--------------------------- MODULE ResourcePacks ---------------------------
(***************************************************************************)
(* Resource-pack negotiation of understudy/resource_packs.go, together     *)
(* with the parts of login.go and client.go that share its mutex: the      *)
(* configuration -> play acknowledgement, the read loop's exit and Close.  *)
(*                                                                         *)
(* Threads.  One READER goroutine drives Connect's configuration loop and, *)
(* after Connect has returned, Run.  One WORKER goroutine per accepted     *)
(* offer downloads and validates the pack.  One CLOSER may call Close once *)
(* Connect has returned.  They share packs.mu, the jobs map, the active    *)
(* counter, the closed flag and the socket.                                *)
(*                                                                         *)
(* Grain.  A step ends wherever another thread can get in between: taking  *)
(* packs.mu, and every socket write, because WritePacket has no deadline   *)
(* and blocks for as long as the server does not read.  Holding packs.mu   *)
(* across a write is exactly what the code does, so a write blocked under  *)
(* the mutex is a state of this model.                                     *)
(*                                                                         *)
(* Data.  An offer is a number in the order the server made them, a pack   *)
(* UUID a member of PackIDs, a download an outcome.  MaxOffers and MaxPops *)
(* bound the packets the server sends, Cancellable and PeerFaults the      *)
(* faults of a run; MaxActive is the literal 4.                            *)
(***************************************************************************)
EXTENDS Integers, Sequences, FiniteSets

CONSTANTS PackIDs,                 \* the pack UUIDs the server uses
          MaxOffers,               \* bound: resource_pack_push packets sent
          MaxPops,                 \* bound: resource_pack_pop packets sent
          MaxActive,               \* the download limit (4 in the code)
          HeadlessResourcePacks,   \* Options.HeadlessResourcePacks
          Cancellable,             \* bound: the caller contexts that may end
          PeerFaults               \* bound: what may become of the server

ASSUME PacksAssumption ==
  /\ MaxOffers \in Nat
  /\ MaxPops \in Nat
  /\ MaxActive \in Nat
  /\ HeadlessResourcePacks \in BOOLEAN
  /\ Cancellable \subseteq {"Configuration", "Play"}
  /\ PeerFaults \subseteq {"stalled", "gone"}

VARIABLES
  conn,       \* our end of the socket: "open" or "closed"
  peer,       \* the server: "reading", "stalled" (reads nothing), "gone"
  cancelled,  \* the caller contexts that are done: "Configuration" is the
              \* one given to Connect, "Play" the one given to Run
  state,      \* c.state, "Configuration" or "Play"
  mu,         \* holder of packs.mu
  closed,     \* packs.closed
  jobs,       \* packs.jobs: the offer whose job is registered for a pack
  active,     \* packs.active
  offers,     \* how many offers the reader has taken off the socket
  pops,       \* how many pops it has taken
  packOf,     \* the pack each offer is for: the server's choice, fixed at Init
  rpc,        \* the reader's control point
  pending,    \* the packet the reader is handling
  wpc,        \* each worker's control point; "aborting" is "validating" with
              \* its own context done (timed out, or cancelled)
  ctxOf,      \* the caller context each worker was started under
  result,     \* the outcome of each worker's validation
  cpc,        \* the closer's control point
  wire,       \* what the server has been sent, in order
  withdrawn   \* offers the server has since removed or replaced

vars == <<conn, peer, cancelled, state, mu, closed, jobs, active, offers, pops,
          packOf, rpc, pending, wpc, ctxOf, result, cpc, wire, withdrawn>>

session == <<conn, peer, cancelled, state>>
packs   == <<mu, closed, jobs, active>>
work    == <<wpc, ctxOf, result>>
script  == <<offers, pops, packOf>>
reading == <<script, rpc, pending, withdrawn>>

-----------------------------------------------------------------------------
Offers  == 1..MaxOffers
NoOffer == 0
Free    == -1           \* packs.mu is not held
Reader  == 0            \* ... or held by the reader; a worker's own number
                        \* stands for that worker
States  == {"Configuration", "Play"}
Kinds   == {"good", "badURL", "malformed"}
NoPacket == [kind |-> "good", ids |-> {}]
Outcomes == {"loaded", "failedDownload", "failedReload"}
NoOutcome == "none"
Statuses == Outcomes \cup {"declined", "accepted", "downloaded", "invalidURL"}

ReaderPoints == {"loop", "read", "offer", "reply", "pop", "finish", "ack",
                 "enter", "returned", "exit", "stopping", "waiting", "gone"}
WorkerPoints == {"idle", "validating", "aborting", "locking", "downloaded", "final",
                 "failing", "done"}
CloserPoints == {"idle", "stopping", "waiting", "returned"}

Message(n, s, p) == [offer |-> n, status |-> s, pkt |-> p]
FinishAck == Message(NoOffer, "finish", "Configuration")

\* Goroutines counted by packs.wg.
Running == {n \in Offers : wpc[n] \notin {"idle", "done"}}

\* Workers that hold a download slot.
Downloading == {n \in Offers : wpc[n] \in {"validating", "aborting", "locking"}}

CanWrite == conn = "open" /\ peer = "reading"
WriteFails == conn = "closed" \/ peer = "gone"

\* job.cancel() for every job in S.
Cancelled(S) == [n \in Offers |-> IF n \in S /\ wpc[n] = "validating"
                                  THEN "aborting" ELSE wpc[n]]

Registered == {jobs[id] : id \in PackIDs} \ {NoOffer}

-----------------------------------------------------------------------------
Init ==
  /\ conn = "open" /\ peer = "reading" /\ cancelled = {}
  /\ state = "Configuration"
  /\ mu = Free /\ closed = FALSE /\ active = 0
  /\ jobs = [id \in PackIDs |-> NoOffer]
  /\ offers = 0 /\ pops = 0
  /\ packOf \in [Offers -> PackIDs]
  /\ rpc = "loop" /\ pending = NoPacket
  /\ wpc = [n \in Offers |-> "idle"]
  /\ ctxOf = [n \in Offers |-> "Configuration"]
  /\ result = [n \in Offers |-> NoOutcome]
  /\ cpc = "idle"
  /\ wire = <<>> /\ withdrawn = {}

-----------------------------------------------------------------------------
(* The surroundings: the server, the caller's contexts, the clock.         *)

ServerStalls ==
  /\ "stalled" \in PeerFaults
  /\ peer = "reading" /\ peer' = "stalled"
  /\ UNCHANGED <<conn, cancelled, state, packs, reading, work, cpc, wire>>

ServerGoes ==
  /\ "gone" \in PeerFaults
  /\ peer # "gone" /\ peer' = "gone"
  /\ UNCHANGED <<conn, cancelled, state, packs, reading, work, cpc, wire>>

\* The caller cancels the context it gave to Connect or to Run; the jobs
\* started under it have contexts derived from it.
CallerCancels(c) ==
  /\ c \notin cancelled
  /\ cancelled' = cancelled \cup {c}
  /\ wpc' = Cancelled({n \in Offers : ctxOf[n] = c})
  /\ UNCHANGED <<conn, peer, state, packs, reading, ctxOf, result, cpc, wire>>

\* context.WithTimeout(ctx, 60*time.Second) expires.
JobTimesOut(n) ==
  /\ wpc[n] = "validating"
  /\ wpc' = [wpc EXCEPT ![n] = "aborting"]
  /\ UNCHANGED <<session, packs, reading, ctxOf, result, cpc, wire>>

-----------------------------------------------------------------------------
(* The reader: readPacket, handleResourcePack, the finish acknowledgement. *)

\* readPacket looks at ctx before it blocks on the socket.
CheckContext ==
  /\ rpc = "loop"
  /\ rpc' = IF state \in cancelled THEN "exit" ELSE "read"
  /\ UNCHANGED <<session, packs, script, pending, withdrawn, work, cpc, wire>>

\* A frame already in the read buffer can be returned after a close.
TakeOffer(kind) ==
  /\ rpc = "read" /\ offers < MaxOffers
  /\ offers' = offers + 1
  /\ pending' = [kind |-> kind, ids |-> {packOf[offers + 1]}]
  /\ rpc' = "offer"
  /\ UNCHANGED <<session, packs, pops, packOf, withdrawn, work, cpc, wire>>

TakePop(ids, kind) ==
  /\ rpc = "read" /\ pops < MaxPops
  /\ pops' = pops + 1
  /\ pending' = [kind |-> kind, ids |-> ids]
  /\ rpc' = "pop"
  /\ UNCHANGED <<session, packs, offers, packOf, withdrawn, work, cpc, wire>>

TakeFinish ==
  /\ rpc = "read" /\ state = "Configuration"
  /\ rpc' = "finish"
  /\ UNCHANGED <<session, packs, script, pending, withdrawn, work, cpc, wire>>

\* A kick, a protocol error in some other packet, the read timeout, EOF.
ReadFails ==
  /\ rpc = "read"
  /\ rpc' = "exit"
  /\ UNCHANGED <<session, packs, script, pending, withdrawn, work, cpc, wire>>

\* Mutant of Answer: the limit counts registered jobs, not busy workers.
AnswerByJobs(kind) ==
  IF ~HeadlessResourcePacks THEN "declined"
  ELSE IF kind = "badURL" THEN "invalidURL"
  ELSE IF Cardinality(Registered) >= MaxActive THEN "declined"
  ELSE "accepted"

\* What handleResourcePack answers to a well-formed push.
Answer(kind) ==
  IF ~HeadlessResourcePacks THEN "declined"
  ELSE IF kind = "badURL" THEN "invalidURL"
  ELSE IF active >= MaxActive THEN "declined"
  ELSE "accepted"

\* Every job registered for one of ids is cancelled and forgotten: the server
\* no longer wants to hear of its offers up to number last for those packs.
Unregister(ids, last) ==
  /\ wpc' = Cancelled({jobs[id] : id \in ids})
  /\ jobs' = [id \in PackIDs |-> IF id \in ids THEN NoOffer ELSE jobs[id]]
  /\ withdrawn' = withdrawn \cup {n \in 1..last : packOf[n] \in ids}

HandlerRefuses == closed \/ pending.kind = "malformed"

HandlerReturns(next) == rpc' = next /\ pending' = NoPacket

\* Up to the first status write, which happens with packs.mu held.
HandleOffer ==
  /\ rpc = "offer" /\ mu = Free /\ ~HandlerRefuses
  /\ mu' = Reader /\ rpc' = "reply"
  /\ Unregister(pending.ids, offers - 1)
  /\ UNCHANGED <<session, closed, active, script, pending, ctxOf, result, cpc, wire>>

\* Mutant of HandlePop: a removal gives the worker's slot back at once.
HandlePopReleasing ==
  /\ rpc = "pop" /\ mu = Free /\ ~HandlerRefuses
  /\ Unregister(pending.ids, offers)
  /\ active' = active - Cardinality({jobs[id] : id \in pending.ids} \ {NoOffer})
  /\ HandlerReturns("loop")
  /\ UNCHANGED <<session, mu, closed, script, ctxOf, result, cpc, wire>>

HandlePop ==
  /\ rpc = "pop" /\ mu = Free /\ ~HandlerRefuses
  /\ Unregister(pending.ids, offers)
  /\ HandlerReturns("loop")
  /\ UNCHANGED <<session, mu, closed, active, script, ctxOf, result, cpc, wire>>

\* A closed pack session or a frame that does not decode ends the loop.
HandlerFails ==
  /\ rpc \in {"offer", "pop"} /\ mu = Free /\ HandlerRefuses
  /\ HandlerReturns("exit")
  /\ UNCHANGED <<session, packs, script, withdrawn, work, cpc, wire>>

\* The goroutine of an accepted offer, its slot, its context (derived from a
\* caller context that may be done already).
StartWorker(n) ==
  /\ jobs' = [jobs EXCEPT ![packOf[n]] = n]
  /\ active' = active + 1
  /\ wpc' = [wpc EXCEPT ![n] = IF state \in cancelled THEN "aborting"
                               ELSE "validating"]
  /\ ctxOf' = [ctxOf EXCEPT ![n] = state]

\* Mutant of WriteReply: the worker inherits the mutex while it downloads.
WriteReplyKeepingLock ==
  /\ rpc = "reply" /\ CanWrite
  /\ wire' = Append(wire, Message(offers, Answer(pending.kind), state))
  /\ IF Answer(pending.kind) = "accepted"
     THEN StartWorker(offers) /\ mu' = offers
     ELSE mu' = Free /\ UNCHANGED <<jobs, active, wpc, ctxOf>>
  /\ HandlerReturns("loop")
  /\ UNCHANGED <<session, closed, script, withdrawn, result, cpc>>

WriteReply ==
  /\ rpc = "reply" /\ CanWrite
  /\ wire' = Append(wire, Message(offers, Answer(pending.kind), state))
  /\ IF Answer(pending.kind) = "accepted" THEN StartWorker(offers)
     ELSE UNCHANGED <<jobs, active, wpc, ctxOf>>
  /\ mu' = Free /\ HandlerReturns("loop")
  /\ UNCHANGED <<session, closed, script, withdrawn, result, cpc>>

\* Mutant of LockFinish: the acknowledgement does not take packs.mu.
LockFinishUnlocked ==
  /\ rpc = "finish" /\ rpc' = "ack"
  /\ UNCHANGED <<session, packs, script, pending, withdrawn, work, cpc, wire>>

\* CBConfigFinishConfiguration: acknowledge and enter play under packs.mu.
LockFinish ==
  /\ rpc = "finish" /\ mu = Free
  /\ mu' = Reader /\ rpc' = "ack"
  /\ UNCHANGED <<session, closed, jobs, active, script, pending, withdrawn, work,
                 cpc, wire>>

WriteFinish ==
  /\ rpc = "ack" /\ CanWrite
  /\ wire' = Append(wire, FinishAck)
  /\ rpc' = "enter"
  /\ UNCHANGED <<session, packs, script, pending, withdrawn, work, cpc>>

EnterPlay ==
  /\ rpc = "enter"
  /\ state' = "Play" /\ mu' = Free /\ rpc' = "returned"
  /\ UNCHANGED <<conn, peer, cancelled, closed, jobs, active, script, pending,
                 withdrawn, work, cpc, wire>>

\* A failed write returns an error through the deferred unlock.
ReaderWriteFails ==
  /\ rpc \in {"reply", "ack"} /\ WriteFails
  /\ mu' = Free /\ HandlerReturns("exit")
  /\ UNCHANGED <<session, closed, jobs, active, script, withdrawn, work, cpc, wire>>

\* Connect has returned and the caller calls Run, or never does.
CallRun ==
  /\ rpc = "returned"
  /\ rpc' = "loop"
  /\ UNCHANGED <<session, packs, script, pending, withdrawn, work, cpc, wire>>

\* The deferred exits of Connect and of Run: close the socket, then
\* stopResourcePacks.
ReaderCloses ==
  /\ rpc = "exit"
  /\ conn' = "closed" /\ rpc' = "stopping"
  /\ UNCHANGED <<peer, cancelled, state, packs, script, pending, withdrawn, work,
                 cpc, wire>>

-----------------------------------------------------------------------------
(* stopResourcePacks, by the reader's deferred exit and by Close.          *)

StopLocked ==
  /\ mu = Free
  /\ closed' = TRUE
  /\ wpc' = Cancelled(Registered)

ReaderStops ==
  /\ rpc = "stopping" /\ StopLocked /\ rpc' = "waiting"
  /\ UNCHANGED <<session, mu, jobs, active, script, pending, withdrawn, ctxOf,
                 result, cpc, wire>>

ReaderWaits ==
  /\ rpc = "waiting" /\ Running = {} /\ rpc' = "gone"
  /\ UNCHANGED <<session, packs, script, pending, withdrawn, work, cpc, wire>>

\* Mutant of CallClose: stopResourcePacks before the socket is closed.
CallCloseStopsFirst ==
  /\ cpc = "idle" /\ (state = "Play" \/ rpc = "gone")
  /\ cpc' = "stopping"
  /\ UNCHANGED <<session, packs, reading, work, wire>>

\* Close: the socket first, which is what frees a write blocked under mu.
CallClose ==
  /\ cpc = "idle" /\ (state = "Play" \/ rpc = "gone")
  /\ conn' = "closed" /\ cpc' = "stopping"
  /\ UNCHANGED <<peer, cancelled, state, packs, reading, work, wire>>

CloserStops ==
  /\ cpc = "stopping" /\ StopLocked /\ cpc' = "waiting"
  /\ UNCHANGED <<session, mu, jobs, active, reading, ctxOf, result, wire>>

\* Mutant of CloserWaits: packs.wg.Wait is missing.
CloserDoesNotWait ==
  /\ cpc = "waiting" /\ cpc' = "returned"
  /\ UNCHANGED <<session, packs, reading, work, wire>>

CloserWaits ==
  /\ cpc = "waiting" /\ Running = {} /\ cpc' = "returned"
  /\ UNCHANGED <<session, packs, reading, work, wire>>

-----------------------------------------------------------------------------
(* A worker: downloadResourcePack.                                         *)

\* validateResourcePack returns by itself, at the HTTP server's pleasure ...
Validate(n) ==
  /\ wpc[n] = "validating"
  /\ \E o \in Outcomes : result' = [result EXCEPT ![n] = o]
  /\ wpc' = [wpc EXCEPT ![n] = "locking"]
  /\ UNCHANGED <<session, packs, reading, ctxOf, cpc, wire>>

\* Mutant of Abort: a download that times out just gives up.
AbortUnreported(n) ==
  /\ wpc[n] = "aborting" /\ mu = Free
  /\ active' = active - 1
  /\ wpc' = [wpc EXCEPT ![n] = "done"]
  /\ UNCHANGED <<session, mu, closed, jobs, reading, ctxOf, result, cpc, wire>>

\* ... or fails because its context is done, while downloading or unzipping.
Abort(n) ==
  /\ wpc[n] = "aborting"
  /\ \E o \in Outcomes \ {"loaded"} : result' = [result EXCEPT ![n] = o]
  /\ wpc' = [wpc EXCEPT ![n] = "locking"]
  /\ UNCHANGED <<session, packs, reading, ctxOf, cpc, wire>>

\* Mutant of Superseded: a worker does not ask whether the job is still its own.
SupersededByStop(n) == closed

\* The session is over, or this job has been replaced or removed.
Superseded(n) == closed \/ jobs[packOf[n]] # n

\* ctx.Err() != nil, of the context the worker was started under.
SessionOver(n) == ctxOf[n] \in cancelled

\* The goroutine returns: packs.wg.Done, and its status goes out of scope.
WorkerReturns(n) ==
  /\ wpc' = [wpc EXCEPT ![n] = "done"]
  /\ result' = [result EXCEPT ![n] = NoOutcome]

\* Mutant of FirstReport: "downloaded" before every outcome.
FirstReportAlways(n) == "downloaded"

\* Where reporting starts: "downloaded" comes before everything but a failed
\* download.
FirstReport(n) == IF result[n] = "failedDownload" THEN "final" ELSE "downloaded"

\* The worker takes packs.mu, gives its slot back, and returns silently if the
\* server no longer wants to hear of this offer ...
CompleteSilently(n) ==
  /\ wpc[n] = "locking" /\ mu = Free
  /\ Superseded(n) \/ SessionOver(n)
  /\ active' = active - 1
  /\ jobs' = IF Superseded(n) THEN jobs ELSE [jobs EXCEPT ![packOf[n]] = NoOffer]
  /\ WorkerReturns(n)
  /\ UNCHANGED <<session, mu, closed, reading, ctxOf, cpc, wire>>

\* ... or goes on to report, keeping the mutex until the report is written.
Complete(n) ==
  /\ wpc[n] = "locking" /\ mu = Free
  /\ ~Superseded(n) /\ ~SessionOver(n)
  /\ active' = active - 1
  /\ jobs' = [jobs EXCEPT ![packOf[n]] = NoOffer]
  /\ mu' = n
  /\ wpc' = [wpc EXCEPT ![n] = FirstReport(n)]
  /\ UNCHANGED <<session, closed, reading, ctxOf, result, cpc, wire>>

\* packStatus picks the packet id from State, which changes only under packs.mu.
WriteDownloaded(n) ==
  /\ wpc[n] = "downloaded" /\ CanWrite
  /\ wire' = Append(wire, Message(n, "downloaded", state))
  /\ wpc' = [wpc EXCEPT ![n] = "final"]
  /\ UNCHANGED <<session, packs, reading, ctxOf, result, cpc>>

WriteFinal(n) ==
  /\ wpc[n] = "final" /\ CanWrite
  /\ wire' = Append(wire, Message(n, result[n], state))
  /\ mu' = Free /\ WorkerReturns(n)
  /\ UNCHANGED <<session, closed, jobs, active, reading, ctxOf, cpc>>

WorkerWriteFails(n) ==
  /\ wpc[n] \in {"downloaded", "final"} /\ WriteFails
  /\ wpc' = [wpc EXCEPT ![n] = "failing"]
  /\ UNCHANGED <<session, packs, reading, ctxOf, result, cpc, wire>>

\* A status that cannot be written closes the connection, still under mu.
WorkerCloses(n) ==
  /\ wpc[n] = "failing"
  /\ conn' = "closed" /\ mu' = Free /\ WorkerReturns(n)
  /\ UNCHANGED <<peer, cancelled, state, closed, jobs, active, reading, ctxOf,
                 cpc, wire>>

-----------------------------------------------------------------------------
ReaderInternal ==
  \/ CheckContext \/ HandleOffer \/ HandlePop \/ HandlerFails \/ WriteReply
  \/ LockFinish \/ WriteFinish \/ EnterPlay \/ ReaderWriteFails \/ ReaderCloses
  \/ ReaderStops \/ ReaderWaits

Packets ==
  \/ \E kind \in Kinds : TakeOffer(kind)
  \/ \E ids \in {{id} : id \in PackIDs} \cup {PackIDs},
        kind \in {"good", "malformed"} : TakePop(ids, kind)
  \/ TakeFinish

Closer == CloserStops \/ CloserWaits

Worker(n) == \/ Abort(n) \/ CompleteSilently(n) \/ Complete(n) \/ WriteDownloaded(n) \/ WriteFinal(n)
             \/ WorkerWriteFails(n) \/ WorkerCloses(n)

Surroundings ==
  \/ ServerStalls \/ ServerGoes \/ CallRun \/ CallClose \/ ReadFails
  \/ \E c \in Cancellable : CallerCancels(c)
  \/ \E n \in Offers : JobTimesOut(n) \/ Validate(n)

Next == ReaderInternal \/ Packets \/ Closer \/ Surroundings
        \/ \E n \in Offers : Worker(n)

Spec == Init /\ [][Next]_vars

\* Scheduling: a goroutine that can run does run, and a socket that is closed
\* or whose peer is gone fails the read it is blocked in.  Nothing is assumed
\* of the server, of the caller, or of the HTTP server behind a download.
ThreadFairness ==
  /\ WF_vars(ReaderInternal)
  /\ WF_vars(WriteFails /\ ReadFails)
  /\ WF_vars(Closer)
  /\ \A n \in Offers : WF_vars(Worker(n))

FairSpec == Spec /\ ThreadFairness

-----------------------------------------------------------------------------
(* Properties.                                                             *)

TypeOK ==
  /\ conn \in {"open", "closed"} /\ peer \in {"reading", "stalled", "gone"}
  /\ cancelled \in SUBSET States /\ state \in States
  /\ mu \in {Free, Reader} \cup Offers
  /\ closed \in BOOLEAN
  /\ jobs \in [PackIDs -> {NoOffer} \cup Offers]
  /\ active \in Nat /\ offers \in 0..MaxOffers /\ pops \in 0..MaxPops
  /\ packOf \in [Offers -> PackIDs]
  /\ rpc \in ReaderPoints
  /\ pending \in [kind : Kinds, ids : SUBSET PackIDs]
  /\ wpc \in [Offers -> WorkerPoints]
  /\ ctxOf \in [Offers -> States]
  /\ result \in [Offers -> Outcomes \cup {NoOutcome}]
  /\ cpc \in CloserPoints
  /\ wire \in Seq([offer : {NoOffer} \cup Offers,
                   status : Statuses \cup {"finish"}, pkt : States])
  /\ withdrawn \in SUBSET Offers

\* "mu also serializes status writes with the configuration -> play
\* acknowledgement, so statuses use the correct packet ID": on the wire every
\* status before the acknowledgement carries the configuration packet id and
\* every status after it the play one.
StatusUsesWirePhase ==
  \A i \in DOMAIN wire :
    wire[i] # FinishAck =>
      (wire[i].pkt = "Play" <=> \E k \in 1..(i - 1) : wire[k] = FinishAck)

\* What the server hears of one offer, in order, is a prefix of one of the
\* protocol's conversations: declined or refused at once, or accepted and then
\* one outcome, with "downloaded" before every outcome but a failed download.
Conversations ==
  {<<"declined">>, <<"invalidURL">>, <<"accepted", "failedDownload">>,
   <<"accepted", "downloaded", "loaded">>,
   <<"accepted", "downloaded", "failedReload">>}

\* How many statuses about offer n the server has read up to message i.
HeardUpTo(n, i) == Cardinality({j \in 1..i : wire[j].offer = n})

ConversationsAreWellFormed ==
  \A n \in Offers : \E c \in Conversations :
    \A i \in DOMAIN wire : wire[i].offer = n =>
      /\ HeardUpTo(n, i) <= Len(c)
      /\ wire[i].status = c[HeardUpTo(n, i)]

\* "Removing or replacing an offer cancels its download and suppresses stale
\* replies": no status is ever written for an offer the reader has already seen
\* removed or replaced, not even one whose worker had finished by then.
NoStaleReply ==
  [][Len(wire') > Len(wire) => wire'[Len(wire')].offer \notin withdrawn]_vars

\* "Completed workers release slots; replacement does not bypass the bound":
\* the downloads in flight never exceed the limit, whatever mixture of offers,
\* replacements and removals the server sends.
DownloadsBounded == Cardinality(Downloading) <= MaxActive

\* Once stopResourcePacks has returned to anyone, no worker is running and none
\* starts again, though a frame read before the close may still be handled.
QuietAfterStop ==
  (rpc = "gone" \/ cpc = "returned") => Running = {}

\* Close, and the deferred exits of Connect and Run, return even though a server
\* that has stopped reading may hold a status write, and packs.mu with it,
\* forever, and however slow the downloads in flight are.
StopReturns ==
  /\ cpc = "stopping" ~> cpc = "returned"
  /\ rpc = "exit" ~> rpc = "gone"

\* "a slow HTTP server must not delay keepalives": the reader never waits for
\* packs.mu longer than the server takes to read what has been written.
ReaderNotDelayed ==
  rpc \in {"offer", "pop", "finish"} ~>
    (rpc \notin {"offer", "pop", "finish"} \/ peer # "reading")

\* Every accepted offer is answered in the end, if the 60 s timers of the
\* downloads do fire, unless the server removed or replaced it, the session
\* ended, or the caller cancelled the context the download was started under.
TimersFire == \A n \in Offers : WF_vars(JobTimesOut(n))

Answered(n) == \E i \in DOMAIN wire : wire[i].offer = n /\ wire[i].status \in Outcomes
SessionEnds == closed \/ conn = "closed" \/ peer # "reading"

AcceptedIsAnswered ==
  TimersFire => \A n \in Offers :
    wpc[n] = "validating" ~>
      (Answered(n) \/ n \in withdrawn \/ SessionEnds \/ SessionOver(n))
=============================================================================
