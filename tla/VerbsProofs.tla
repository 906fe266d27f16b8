----------------------------- MODULE VerbsProofs -----------------------------
(***************************************************************************)
(* Proofs about Verbs, for any number of threads, verbs, upsets and        *)
(* packets on their way.                                                   *)
(*                                                                         *)
(* What a verb presses it lets go of: PressInv names, for every bit the    *)
(* client or the server has set, a thread that is yet to clear it, and     *)
(* UseInv, while an item is in use, one that is yet to release it.  That   *)
(* two threads may press the same bit, and the first to let go clears it,  *)
(* is why neither can say more than that there is one.  ThreadInv is what  *)
(* a thread's control point says of its variables.                         *)
(*                                                                         *)
(* BoundInv counts: a verb under way has been begun and ends with one      *)
(* break at most.  ReportInv follows what is said of the block: the last   *)
(* word on its way to the client, or what the client knows when there is   *)
(* none, is what the server has, and what was reported is what it knows.   *)
(***************************************************************************)
EXTENDS Verbs, FiniteSetTheorems, TLAPS

Inputs == {"sneak", "sprint"}
Uses == {"use", "tap", "draw"}
AllVerbs == Inputs \cup Uses \cup Digs \cup {"place", "none"}

\* The steps that a verb waits for a teleport to settle before, and while it does.
Thens == {"rest", "use", "release", "aim", "start", "finish"}
Settling == {"settle", "answer", "pause"}

Variables ==
  [verb : AllVerbs, then : Thens, on : BOOLEAN, flags : SUBSET AllVerbs,
   seen : SUBSET AllVerbs, finished : BOOLEAN, blind : BOOLEAN, last : Nat, tries : Nat]

TypeInv ==
  /\ at \in [Threads -> Points] /\ my \in [Threads -> Variables]
  /\ input \subseteq AllVerbs
  /\ breaks \in Nat /\ cooled \in Nat /\ cooled <= breaks

\* What a thread at p has in its variables r.
Follows(p, r) ==
  /\ p = "set" => r.flags = IF r.on THEN r.seen \cup {r.verb} ELSE r.seen \ {r.verb}
  /\ p \in {"read", "set", "send"} => r.verb \in Inputs
  /\ p = "use" \/ (p \in Settling /\ r.then = "use") => r.verb \in Uses
  /\ p \in {"alive", "target"} => r.then # "use"
  /\ r.then = "release" => p \in Settling \cup {"release"}
  /\ p = "place" => r.verb = "place"

ThreadInv == \A t \in Threads : Follows(at[t], my[t])

\* A thread has set its bit and has yet to clear it ...
Presses(p, r) ==
  r.verb \in Inputs /\ (p = "hold" \/ (p = "send" /\ r.on) \/ (p \in {"read", "set"} /\ ~r.on))

\* ... or to tell the server.
Tells(p, r) == Presses(p, r) \/ (r.verb \in Inputs /\ p = "send")

PressInv ==
  conn = "open" /\ slips \cap {"refused", "crossed"} = {} =>
    /\ \A bit \in input : \E t \in Threads : my[t].verb = bit /\ Presses(at[t], my[t])
    /\ \A bit \in told : \E t \in Threads : my[t].verb = bit /\ Tells(at[t], my[t])

\* A thread has begun a use and has yet to release it.
Draws(p, r) == r.verb \in Uses /\ (p = "hold" \/ r.then = "release")

UseInv ==
  conn = "open" /\ slips \cap {"tap", "cancelled", "unsettled", "dropped"} = {} /\ using =>
    \E t \in Threads : Draws(at[t], my[t])

IInv == TypeInv /\ ThreadInv /\ PressInv /\ UseInv

LEMMA IdleType == Idle \in Variables /\ Follows("rest", Idle)
  BY DEF Idle, Variables, AllVerbs, Inputs, Uses, Digs, Thens, Follows, Settling

LEMMA InitIInv == Init => IInv
<1> SUFFICES ASSUME Init PROVE IInv
  OBVIOUS
<1>1. \A t \in Threads : at[t] = "rest" /\ my[t] = Idle
  BY DEF Init
<1>2. TypeInv
  BY IdleType DEF Init, TypeInv, Points
<1>3. ThreadInv
  BY <1>1, <1>2, IdleType DEF ThreadInv, TypeInv
<1>4. PressInv
  BY DEF Init, PressInv
<1>5. UseInv
  BY DEF Init, UseInv
<1> QED
  BY <1>2, <1>3, <1>4, <1>5 DEF IInv

-----------------------------------------------------------------------------
\* The server, the reader and the clocks leave the threads, what they press and
\* what has slipped alone, and let go of the item at most.
LEMMA OthersStep ==
  ASSUME IInv, Server \/ Others \/ BreakCools
  PROVE  IInv'
<1>1. /\ UNCHANGED <<at, my, input, told, slips, breaks>>
      /\ conn' = conn \/ conn' = "closed"
      /\ using' = using \/ using' = FALSE
      /\ cooled' = cooled \/ (cooled < breaks /\ cooled' = cooled + 1)
  BY DEF Server, Others, BreakCools, ServerTeleports, ServerKills, ServerRespawns,
     ServerSendsColumn, ServerUnloads, ServerBreaks, BlockReturns, Disconnect, TakeTeleport,
     TakeDeath, TakeRespawn, TakeTerrain, IdleReports, SettleWindowPasses, client, caller,
     server, ghosts
<1>2. TypeInv'
  BY <1>1 DEF IInv, TypeInv
<1>3. ThreadInv'
  BY <1>1 DEF IInv, ThreadInv
<1>4. PressInv'
  BY <1>1 DEF IInv, PressInv
<1>5. UseInv'
  BY <1>1 DEF IInv, UseInv
<1> QED
  BY <1>2, <1>3, <1>4, <1>5 DEF IInv

\* A thread moves to a point with variables that go with it.
Moves(t, p, r) ==
  /\ p \in Points /\ r \in Variables /\ Follows(p, r)
  /\ at' = [at EXCEPT ![t] = p] /\ my' = [my EXCEPT ![t] = r]

LEMMA MovesThreads ==
  ASSUME IInv, NEW t \in Threads, NEW p, NEW r, Moves(t, p, r),
         input' \subseteq AllVerbs, cooled' = cooled, breaks' \in {breaks, breaks + 1}
  PROVE  TypeInv' /\ ThreadInv'
  BY DEF IInv, TypeInv, ThreadInv, Moves

\* A move that leaves inputs and uses alone, and does not go from a point at which
\* something is pressed or drawn to one at which it is not, unless that has slipped.
LEMMA MovesQuietly ==
  ASSUME IInv, NEW t \in Threads, NEW p, NEW r, Moves(t, p, r),
         UNCHANGED <<input, told, using, conn, cooled>>, breaks' \in {breaks, breaks + 1},
         slips \subseteq slips',
         conn = "open" /\ slips' \cap {"refused", "crossed"} = {} =>
           /\ Presses(at[t], my[t]) => Presses(p, r) /\ r.verb = my[t].verb
           /\ Tells(at[t], my[t]) => Tells(p, r) /\ r.verb = my[t].verb,
         conn = "open" /\ slips' \cap {"tap", "cancelled", "unsettled", "dropped"} = {} =>
           (Draws(at[t], my[t]) => Draws(p, r))
  PROVE  IInv'
<1>1. TypeInv' /\ ThreadInv'
  BY MovesThreads DEF IInv, TypeInv
<1>2. /\ at'[t] = p /\ my'[t] = r
      /\ \A u \in Threads : u # t => at'[u] = at[u] /\ my'[u] = my[u]
  BY DEF Moves, IInv, TypeInv
<1>3. PressInv'
  <2> SUFFICES ASSUME conn = "open", slips' \cap {"refused", "crossed"} = {}
               PROVE  /\ \A bit \in input : \E u \in Threads :
                           my'[u].verb = bit /\ Presses(at'[u], my'[u])
                      /\ \A bit \in told : \E u \in Threads :
                           my'[u].verb = bit /\ Tells(at'[u], my'[u])
    BY DEF PressInv
  <2>1. slips \cap {"refused", "crossed"} = {}
    OBVIOUS
  <2>2. \A u \in Threads :
          /\ Presses(at[u], my[u]) => Presses(at'[u], my'[u]) /\ my'[u].verb = my[u].verb
          /\ Tells(at[u], my[u]) => Tells(at'[u], my'[u]) /\ my'[u].verb = my[u].verb
    BY <1>2
  <2>3. /\ \A bit \in input : \E u \in Threads : my[u].verb = bit /\ Presses(at[u], my[u])
        /\ \A bit \in told : \E u \in Threads : my[u].verb = bit /\ Tells(at[u], my[u])
    BY <2>1 DEF IInv, PressInv
  <2> QED
    BY <2>2, <2>3
<1>4. UseInv'
  <2>1. conn = "open" /\ slips' \cap {"tap", "cancelled", "unsettled", "dropped"} = {} =>
          \A u \in Threads : Draws(at[u], my[u]) => Draws(at'[u], my'[u])
    BY <1>2
  <2>2. slips' \cap {"tap", "cancelled", "unsettled", "dropped"} = {} =>
          slips \cap {"tap", "cancelled", "unsettled", "dropped"} = {}
    OBVIOUS
  <2>3. using' = using /\ conn' = conn
    OBVIOUS
  <2>4. UseInv
    BY DEF IInv
  <2> QED
    BY <2>1, <2>2, <2>3, <2>4 DEF UseInv
<1> QED
  BY <1>1, <1>3, <1>4 DEF IInv

Pressing == {"read", "set", "send", "hold"}

\* From one point to another with the same variables.
LEMMA GoesQuietly ==
  ASSUME IInv, NEW t \in Threads, NEW from, NEW to \in Points, Goes(t, from, to),
         from \notin Pressing, Follows(to, my[t]),
         UNCHANGED <<my, input, told, using, conn, cooled, breaks, slips>>
  PROVE  IInv'
<1>1. Moves(t, to, my[t])
  BY DEF Moves, Goes, IInv, TypeInv
<1>2. ~Tells(at[t], my[t]) /\ ~Presses(at[t], my[t])
      /\ (Draws(at[t], my[t]) => Draws(to, my[t]))
  BY DEF Tells, Presses, Draws, Goes, Pressing
<1> QED
  BY <1>1, <1>2, MovesQuietly

\* To another with other variables, from where nothing is pressed or drawn.
LEMMA NotesQuietly ==
  ASSUME IInv, NEW t \in Threads, NEW p \in Points, NEW r \in Variables,
         Follows(p, r), at' = [at EXCEPT ![t] = p], Notes(t, r),
         at[t] \notin Pressing \cup Settling \cup {"release"},
         UNCHANGED <<input, told, using, conn, cooled>>, breaks' \in {breaks, breaks + 1},
         slips \subseteq slips'
  PROVE  IInv'
<1>1. Moves(t, p, r)
  BY DEF Moves, Notes
<1>2. Follows(at[t], my[t])
  BY DEF IInv, ThreadInv
<1>3. ~Tells(at[t], my[t]) /\ ~Presses(at[t], my[t]) /\ ~Draws(at[t], my[t])
  BY <1>2 DEF Tells, Presses, Draws, Pressing, Follows, Settling
<1> QED
  BY <1>1, <1>3, MovesQuietly

-----------------------------------------------------------------------------
(* The steps of a thread.                                                  *)

LEMMA BeginStep ==
  ASSUME IInv, NEW t \in Threads, NEW verb \in Kinds, Begin(t, verb)
  PROVE  IInv'
<1> DEFINE r == [Idle EXCEPT !.verb = verb, !.on = (verb \in {"sneak", "sprint"}),
                             !.then = IF verb = "place" THEN "aim" ELSE "use"]
<1>1. verb \in AllVerbs \ {"none"}
  BY VerbsAssumption DEF AllVerbs, Inputs, Uses, Digs
<1>2. r \in Variables
  <2> DEFINE then == IF verb = "place" THEN "aim" ELSE "use"
             on == verb \in {"sneak", "sprint"}
  <2>1. then \in Thens /\ on \in BOOLEAN
    BY DEF Thens
  <2> HIDE DEF then, on
  <2>2. [Idle EXCEPT !.verb = verb, !.on = on, !.then = then] \in Variables
    BY <1>1, <2>1, IdleType DEF Variables
  <2> QED
    BY <2>2 DEF then, on
<1>3. First(verb) \in Points /\ Follows(First(verb), r)
  BY <1>1 DEF First, Points, Follows, Idle, AllVerbs, Inputs, Uses, Digs, Settling,
     IInv, TypeInv
<1>4. /\ at[t] = "rest" /\ at' = [at EXCEPT ![t] = First(verb)] /\ Notes(t, r)
      /\ UNCHANGED <<input, told, using, conn, cooled, breaks, slips>>
  BY DEF Begin, client, server, ghosts
<1> HIDE DEF r
<1> QED
  BY <1>2, <1>3, <1>4, NotesQuietly DEF Pressing, Settling

LEMMA WaitStep ==
  ASSUME IInv, NEW t \in Threads,
         \/ Settled(t) \/ Unsettled(t) \/ AnswerTeleport(t) \/ PauseEnds(t) \/ StillAlive(t)
         \/ TargetAppears(t) \/ SendStart(t) \/ CoolEnds(t) \/ Stands(t) \/ Swing(t)
         \/ LookAgain(t) \/ AimToPlace(t) \/ Confirm(t)
  PROVE  IInv'
<1> USE DEF client, server, ghosts
<1>a. my[t] \in Variables /\ Follows(at[t], my[t])
  BY DEF IInv, TypeInv, ThreadInv
<1>b. my[t].then \in Thens /\ my[t].verb \in AllVerbs
  BY <1>a DEF Variables
<1>1. CASE Settled(t) \/ PauseEnds(t)
  <2>1. \E from \in Settling : Goes(t, from, my[t].then)
    BY <1>1 DEF Settled, PauseEnds, Settling
  <2>2. my[t].then \in Points /\ Follows(my[t].then, my[t])
    BY <1>a, <1>b, <2>1 DEF Goes, Thens, Points, Follows, Settling
  <2>3. UNCHANGED <<my, input, told, using, conn, cooled, breaks, slips>>
    BY <1>1 DEF Settled, PauseEnds
  <2> QED
    BY <2>1, <2>2, <2>3, GoesQuietly DEF Settling, Pressing
<1>2. CASE Unsettled(t) \/ AnswerTeleport(t)
  <2>1. \E from \in Settling, to \in Settling : Goes(t, from, to)
    BY <1>2 DEF Unsettled, AnswerTeleport, Settling
  <2>2. \A to \in Settling : Goes(t, at[t], to) => to \in Points /\ Follows(to, my[t])
    BY <1>a, <2>1 DEF Goes, Points, Follows, Settling
  <2>3. UNCHANGED <<my, input, told, using, conn, cooled, breaks, slips>>
    BY <1>2 DEF Unsettled, AnswerTeleport
  <2> QED
    BY <2>1, <2>2, <2>3, GoesQuietly DEF Settling, Pressing, Goes
<1>3. CASE StillAlive(t) \/ TargetAppears(t)
  <2>1. /\ at[t] \in {"alive", "target"} /\ Goes(t, at[t], IF at[t] = "alive" THEN "settle" ELSE "alive")
        /\ UNCHANGED <<my, input, told, using, conn, cooled, breaks, slips>>
    BY <1>3 DEF StillAlive, TargetAppears, Goes
  <2>2. \A to \in {"settle", "alive"} : to \in Points /\ Follows(to, my[t])
    BY <1>a, <2>1 DEF Points, Follows, Settling
  <2> QED
    BY <2>1, <2>2, GoesQuietly DEF Pressing
<1>4. CASE SendStart(t) \/ CoolEnds(t)
  <2>1. /\ at[t] \in {"start", "cool"}
        /\ \E to \in {"cooldown", "cool", "blind", "watch"} : Goes(t, at[t], to)
        /\ UNCHANGED <<my, input, told, using, conn, cooled, breaks, slips>>
    BY <1>4 DEF SendStart, CoolEnds, Goes
  <2>2. \A to \in {"cooldown", "cool", "blind", "watch"} : to \in Points /\ Follows(to, my[t])
    BY <1>a, <2>1 DEF Points, Follows, Settling
  <2> QED
    BY <2>1, <2>2, GoesQuietly DEF Pressing
<1>5. CASE Stands(t) \/ LookAgain(t)
  <2>1. /\ at[t] \in {"watch", "pace"}
        /\ \E to \in {"swing", "watch"} : Goes(t, at[t], to)
        /\ UNCHANGED <<my, input, told, using, conn, cooled, breaks, slips>>
    BY <1>5 DEF Stands, LookAgain, Goes
  <2>2. \A to \in {"swing", "watch"} : to \in Points /\ Follows(to, my[t])
    BY <1>a, <2>1 DEF Points, Follows, Settling
  <2> QED
    BY <2>1, <2>2, GoesQuietly DEF Pressing
<1>6. CASE Swing(t) \/ Confirm(t)
  <2>1. /\ at[t] \in {"swing", "confirm"}
        /\ \E to \in {"pace", "confirm", "seek"} :
             Goes(t, at[t], to) /\ (to = "pace" => at[t] = "swing" /\ my[t].verb \in Digs)
        /\ UNCHANGED <<my, input, told, using, conn, cooled, breaks, slips>>
    BY <1>6 DEF Swing, Confirm, Goes
  <2>2. \A to \in {"pace", "confirm", "seek"} :
          (to = "pace" => at[t] = "swing" /\ my[t].verb \in Digs)
            => to \in Points /\ Follows(to, my[t])
    BY <1>a, <2>1 DEF Points, Follows, Settling
  <2> QED
    BY <2>1, <2>2, GoesQuietly DEF Pressing
<1>7. CASE AimToPlace(t)
  <2>1. /\ my[t].verb = "place" /\ Goes(t, "aim", "place")
        /\ UNCHANGED <<my, input, told, using, conn, cooled, breaks, slips>>
    BY <1>7 DEF AimToPlace
  <2>2. "place" \in Points /\ Follows("place", my[t])
    BY <1>a, <2>1 DEF Points, Follows, Settling, Goes
  <2> QED
    BY <2>1, <2>2, GoesQuietly DEF Pressing
<1> QED
  BY <1>1, <1>2, <1>3, <1>4, <1>5, <1>6, <1>7

LEMMA NoteStep ==
  ASSUME IInv, NEW t \in Threads,
         \/ LookAtBlock(t) \/ AimAtBlock(t) \/ AimAtAir(t) \/ ReadCooldown(t)
         \/ BlindHoldEnds(t) \/ HoldIsOver(t) \/ SendPlace(t) \/ PlaceAgain(t)
         \/ SendFinish(t) /\ ~my[t].blind
  PROVE  IInv'
<1> USE DEF client, server, ghosts
<1>a. /\ my[t] \in Variables /\ Follows(at[t], my[t])
      /\ breaks \in Nat /\ at \in [Threads -> Points]
  BY DEF IInv, TypeInv, ThreadInv
<1>1. CASE LookAtBlock(t) \/ AimAtBlock(t) \/ AimAtAir(t)
  <2> DEFINE r == [my[t] EXCEPT !.then = "start"]
  <2>1. r \in Variables
    BY <1>a DEF Variables, Thens
  <2>2. /\ at[t] \in {"point", "aim"} /\ Notes(t, r)
        /\ \E p \in {"alive", "target"} : at' = [at EXCEPT ![t] = p]
        /\ UNCHANGED <<input, told, using, conn, cooled, breaks, slips>>
    BY <1>1 DEF LookAtBlock, AimAtBlock, AimAtAir, Aimed, Finds, Goes
  <2>3. \A p \in {"alive", "target"} : p \in Points /\ Follows(p, r)
    BY <1>a DEF Points, Follows, Settling, Variables
  <2> HIDE DEF r
  <2> QED
    BY <2>1, <2>2, <2>3, NotesQuietly DEF Pressing, Settling
<1>2. CASE ReadCooldown(t)
  <2> DEFINE r == [my[t] EXCEPT !.last = breaks]
  <2>1. r \in Variables
    BY <1>a DEF Variables
  <2>2. /\ at[t] = "cooldown" /\ Notes(t, r) /\ at' = [at EXCEPT ![t] = "cool"]
        /\ UNCHANGED <<input, told, using, conn, cooled, breaks, slips>>
    BY <1>2 DEF ReadCooldown, Goes
  <2>3. "cool" \in Points /\ Follows("cool", r)
    BY <1>a, <2>2 DEF Points, Follows, Settling, Variables
  <2> HIDE DEF r
  <2> QED
    BY <2>1, <2>2, <2>3, NotesQuietly DEF Pressing, Settling
<1>3. ASSUME NEW blind \in BOOLEAN, at[t] \in {"blind", "pace"}, ToFinish(t, blind)
      PROVE  IInv'
  <2> DEFINE r == [my[t] EXCEPT !.then = "finish", !.blind = blind]
  <2>1. r \in Variables
    BY <1>a DEF Variables, Thens
  <2>2. /\ Notes(t, r) /\ at' = [at EXCEPT ![t] = "alive"]
        /\ UNCHANGED <<input, told, using, conn, cooled, breaks, slips>>
    BY <1>3 DEF ToFinish
  <2>3. "alive" \in Points /\ Follows("alive", r)
    BY <1>a, <1>3 DEF Points, Follows, Settling, Variables
  <2> HIDE DEF r
  <2> QED
    BY <1>3, <2>1, <2>2, <2>3, NotesQuietly DEF Pressing, Settling
<1>4. CASE SendPlace(t)
  <2> DEFINE r == [my[t] EXCEPT !.tries = @ + 1]
  <2>1. r \in Variables
    BY <1>a DEF Variables
  <2>2. /\ at[t] = "place" /\ Notes(t, r) /\ at' = [at EXCEPT ![t] = "swing"]
        /\ UNCHANGED <<input, told, using, conn, cooled, breaks, slips>>
    BY <1>4 DEF SendPlace, Goes
  <2>3. "swing" \in Points /\ Follows("swing", r)
    BY <1>a, <2>2 DEF Points, Follows, Settling, Variables
  <2> HIDE DEF r
  <2> QED
    BY <2>1, <2>2, <2>3, NotesQuietly DEF Pressing, Settling
<1>5. CASE PlaceAgain(t)
  <2> DEFINE r == [my[t] EXCEPT !.then = "aim"]
  <2>1. r \in Variables
    BY <1>a DEF Variables, Thens
  <2>2. /\ at[t] = "seek" /\ Notes(t, r) /\ at' = [at EXCEPT ![t] = "alive"]
        /\ UNCHANGED <<input, told, using, conn, cooled, breaks, slips>>
    BY <1>5 DEF PlaceAgain, Goes
  <2>3. "alive" \in Points /\ Follows("alive", r)
    BY <1>a DEF Points, Follows, Settling, Variables
  <2> HIDE DEF r
  <2> QED
    BY <2>1, <2>2, <2>3, NotesQuietly DEF Pressing, Settling
<1>6. CASE SendFinish(t) /\ ~my[t].blind
  <2> DEFINE r == [my[t] EXCEPT !.finished = TRUE]
  <2>1. r \in Variables
    BY <1>a DEF Variables
  <2>2. /\ at[t] = "finish" /\ Notes(t, r) /\ at' = [at EXCEPT ![t] = "pace"]
        /\ UNCHANGED <<input, told, using, conn, cooled, breaks, slips>>
    BY <1>6 DEF SendFinish, Goes
  <2>3. "pace" \in Points /\ Follows("pace", r)
    BY <1>a, <2>2 DEF Points, Follows, Settling, Variables
  <2> HIDE DEF r
  <2> QED
    BY <2>1, <2>2, <2>3, NotesQuietly DEF Pressing, Settling
<1> QED
  BY <1>1, <1>2, <1>3, <1>4, <1>5, <1>6 DEF BlindHoldEnds, HoldIsOver

\* The verb is over, and what it leaves pressed or drawn has slipped.
LEMMA EndStep ==
  ASSUME IInv, NEW t \in Threads,
         \/ Refused(t) \/ WriteFails(t) \/ CancelEndsVerb(t) \/ GiveUp(t) \/ Broke(t)
         \/ CannotConfirm(t) \/ Placed(t)
         \/ SendFinish(t) /\ my[t].blind
  PROVE  IInv'
<1> USE DEF client, server, ghosts
<1>a. my[t] \in Variables /\ Follows(at[t], my[t]) /\ cooled \in Nat
  BY DEF IInv, TypeInv, ThreadInv
<1>1. /\ Ends(t) /\ UNCHANGED <<input, told, using, conn, cooled>>
      /\ breaks' \in {breaks, breaks + 1} /\ slips \subseteq slips'
  BY DEF Refused, WriteFails, CancelEndsVerb, GiveUp, Broke, CannotConfirm, Placed, SendFinish
<1>2. Moves(t, "rest", Idle)
  BY <1>1, <1>a, IdleType DEF Moves, Ends, Notes, Points
<1>3. conn = "open" /\ slips' \cap {"refused", "crossed"} = {} => ~Tells(at[t], my[t])
  BY <1>a DEF Refused, WriteFails, CancelEndsVerb, GiveUp, Broke, CannotConfirm, Placed,
     SendFinish, CanWrite, Tells, Presses, Inputs
<1>4. conn = "open" /\ slips' \cap {"tap", "cancelled", "unsettled", "dropped"} = {}
        => ~Draws(at[t], my[t])
  BY <1>a DEF Refused, WriteFails, CancelEndsVerb, GiveUp, Broke, CannotConfirm, Placed,
     SendFinish, CanWrite, Draws, Follows, Settling
<1> QED
  BY <1>1, <1>2, <1>3, <1>4, MovesQuietly DEF Tells

LEMMA LetGoStep ==
  ASSUME IInv, NEW t \in Threads, CancelEndsHold(t) \/ HoldEnds(t)
  PROVE  IInv'
<1> USE DEF client, server, ghosts
<1>a. my[t] \in Variables /\ Follows(at[t], my[t])
  BY DEF IInv, TypeInv, ThreadInv
<1>b. /\ at[t] = "hold" /\ Release(t)
      /\ UNCHANGED <<input, told, using, conn, cooled, breaks, slips>>
  BY DEF CancelEndsHold, HoldEnds
<1>1. CASE my[t].verb \in Inputs
  <2> DEFINE r == [my[t] EXCEPT !.on = FALSE]
  <2>1. Moves(t, "read", r)
    BY <1>a, <1>b, <1>1 DEF Release, Notes, Moves, Variables, Points, Follows,
       Settling, Inputs
  <2>2. Presses("read", r) /\ r.verb = my[t].verb /\ ~Draws(at[t], my[t])
    BY <1>a, <1>1 DEF Presses, Draws, Variables, Inputs, Uses
  <2> HIDE DEF r
  <2> QED
    BY <1>b, <2>1, <2>2, MovesQuietly DEF Tells
<1>2. CASE my[t].verb \notin Inputs
  <2> DEFINE r == [my[t] EXCEPT !.then = "release"]
  <2>1. Moves(t, "settle", r)
    BY <1>a, <1>b, <1>2 DEF Release, Notes, Moves, Variables, Points, Follows,
       Settling, Inputs, Thens
  <2>2. ~Tells(at[t], my[t]) /\ ~Presses(at[t], my[t])
        /\ (Draws(at[t], my[t]) => Draws("settle", r))
    BY <1>a, <1>2 DEF Tells, Presses, Draws, Variables
  <2> HIDE DEF r
  <2> QED
    BY <1>b, <2>1, <2>2, MovesQuietly
<1> QED
  BY <1>1, <1>2

LEMMA ReadInputStep ==
  ASSUME IInv, NEW t \in Threads, ReadInput(t)
  PROVE  IInv'
<1> USE DEF client, server, ghosts
<1>a. my[t] \in Variables /\ Follows(at[t], my[t]) /\ input \subseteq AllVerbs
  BY DEF IInv, TypeInv, ThreadInv
<1> DEFINE flags == IF my[t].on THEN input \cup Bit(t) ELSE input \ Bit(t)
           r == [my[t] EXCEPT !.seen = input, !.flags = flags]
<1>1. flags \in SUBSET AllVerbs
  BY <1>a DEF Bit, Variables
<1>2. /\ at[t] = "read" /\ Notes(t, r) /\ at' = [at EXCEPT ![t] = "set"]
      /\ UNCHANGED <<input, told, using, conn, cooled, breaks, slips>>
  BY DEF ReadInput, Goes
<1>3. r.flags = IF r.on THEN r.seen \cup {r.verb} ELSE r.seen \ {r.verb}
  BY <1>a DEF Variables, Bit
<1> HIDE DEF flags
<1>4. /\ r \in Variables
      /\ r.verb = my[t].verb /\ r.on = my[t].on /\ r.then = my[t].then /\ r.last = my[t].last
  BY <1>a, <1>1 DEF Variables
<1> HIDE DEF r
<1>5. Moves(t, "set", r)
  BY <1>a, <1>2, <1>3, <1>4 DEF Moves, Notes, Points, Follows, Settling
<1>6. /\ Presses(at[t], my[t]) => Presses("set", r)
      /\ Tells(at[t], my[t]) => Tells("set", r)
      /\ Draws(at[t], my[t]) => Draws("set", r)
  BY <1>2, <1>4 DEF Presses, Tells, Draws
<1> QED
  BY <1>2, <1>4, <1>5, <1>6, MovesQuietly

\* If no thread has stored bits since this one read them, what it stores is what
\* the others press, with its own bit or without.
LEMMA StoreInputStep ==
  ASSUME IInv, NEW t \in Threads, StoreInput(t)
  PROVE  IInv'
<1> USE DEF client, server, ghosts
<1>a. my[t] \in Variables /\ Follows(at[t], my[t])
  BY DEF IInv, TypeInv, ThreadInv
<1>1. /\ at[t] = "set" /\ at' = [at EXCEPT ![t] = "send"] /\ my' = my
      /\ input' = my[t].flags
      /\ UNCHANGED <<told, using, conn, cooled, breaks>>
      /\ slips \subseteq slips' /\ ("crossed" \notin slips' => my[t].seen = input)
  BY DEF StoreInput, Goes
<1>2. Moves(t, "send", my[t])
  BY <1>1, <1>a DEF Moves, Points, Follows, Settling, IInv, TypeInv
<1>3. TypeInv' /\ ThreadInv'
  BY <1>1, <1>2, <1>a, MovesThreads DEF Variables
<1>4. /\ my[t].verb \in Inputs
      /\ my[t].flags = IF my[t].on THEN my[t].seen \cup {my[t].verb}
                       ELSE my[t].seen \ {my[t].verb}
  BY <1>1, <1>a DEF Follows
<1>5. at'[t] = "send" /\ \A u \in Threads : u # t => at'[u] = at[u]
  BY <1>1 DEF IInv, TypeInv
<1>6. PressInv'
  <2> SUFFICES ASSUME conn = "open", slips' \cap {"refused", "crossed"} = {}
               PROVE  /\ \A bit \in input' : \E u \in Threads :
                           my[u].verb = bit /\ Presses(at'[u], my[u])
                      /\ \A bit \in told : \E u \in Threads :
                           my[u].verb = bit /\ Tells(at'[u], my[u])
    BY <1>1 DEF PressInv
  <2>1. /\ slips \cap {"refused", "crossed"} = {} /\ my[t].seen = input
    BY <1>1
  <2>2. /\ \A bit \in input : \E u \in Threads : my[u].verb = bit /\ Presses(at[u], my[u])
        /\ \A bit \in told : \E u \in Threads : my[u].verb = bit /\ Tells(at[u], my[u])
    BY <2>1 DEF IInv, PressInv
  <2>3. Tells(at'[t], my[t])
    BY <1>4, <1>5 DEF Tells
  <2>4. ASSUME NEW bit \in input' PROVE \E u \in Threads :
          my[u].verb = bit /\ Presses(at'[u], my[u])
    <3>1. CASE bit = my[t].verb
      <4>1. my[t].on
        BY <1>1, <1>4, <3>1
      <4> QED
        BY <1>4, <1>5, <3>1, <4>1 DEF Presses
    <3>2. CASE bit # my[t].verb
      <4>1. bit \in input
        BY <1>1, <1>4, <2>1, <3>2
      <4> QED
        BY <1>5, <2>2, <3>2, <4>1
    <3> QED
      BY <3>1, <3>2
  <2> QED
    BY <1>5, <2>2, <2>3, <2>4
<1>7. UseInv'
  <2>1. slips' \cap {"tap", "cancelled", "unsettled", "dropped"} = {} =>
          slips \cap {"tap", "cancelled", "unsettled", "dropped"} = {}
    BY <1>1
  <2>2. \A u \in Threads : Draws(at[u], my[u]) => Draws(at'[u], my'[u])
    BY <1>1, <1>5 DEF Draws
  <2>3. UseInv
    BY DEF IInv
  <2> QED
    BY <1>1, <2>1, <2>2, <2>3 DEF UseInv
<1> QED
  BY <1>3, <1>6, <1>7 DEF IInv

\* If no thread has stored bits since this one did, the server is told what they
\* are, and every bit of them is pressed by another if this one has let go.
LEMMA SendInputStep ==
  ASSUME IInv, NEW t \in Threads, SendInput(t)
  PROVE  IInv'
<1> USE DEF client, server, ghosts
<1> DEFINE p == IF my[t].on THEN "hold" ELSE "rest"
           r == IF my[t].on THEN my[t] ELSE Idle
<1>a. my[t] \in Variables /\ Follows(at[t], my[t]) /\ cooled \in Nat
  BY DEF IInv, TypeInv, ThreadInv
<1>1. /\ at[t] = "send" /\ at' = [at EXCEPT ![t] = p] /\ my' = [my EXCEPT ![t] = r]
      /\ told' = my[t].flags
      /\ UNCHANGED <<input, using, conn, cooled, breaks>>
      /\ slips \subseteq slips' /\ ("crossed" \notin slips' => my[t].flags = input)
  BY DEF SendInput, Goes, Ends, Notes, IInv, TypeInv
<1>2. Moves(t, p, r)
  BY <1>1, <1>a, IdleType DEF Moves, Points, Follows, Settling
<1>3. TypeInv' /\ ThreadInv'
  BY <1>1, <1>2, MovesThreads DEF IInv, TypeInv
<1>4. /\ at'[t] = p /\ my'[t] = r
      /\ \A u \in Threads : u # t => at'[u] = at[u] /\ my'[u] = my[u]
  BY <1>1 DEF IInv, TypeInv
<1>5. PressInv'
  <2> SUFFICES ASSUME conn = "open", slips' \cap {"refused", "crossed"} = {}
               PROVE  \A bit \in input : \E u \in Threads :
                        my'[u].verb = bit /\ Presses(at'[u], my'[u])
    BY <1>1 DEF PressInv, Tells
  <2>1. \A bit \in input : \E u \in Threads : my[u].verb = bit /\ Presses(at[u], my[u])
    BY <1>1 DEF IInv, PressInv
  <2>2. Presses(at[t], my[t]) => Presses(p, r) /\ r.verb = my[t].verb
    BY <1>1 DEF Presses
  <2> QED
    BY <1>4, <2>1, <2>2
<1>6. UseInv'
  <2>1. slips' \cap {"tap", "cancelled", "unsettled", "dropped"} = {} =>
          slips \cap {"tap", "cancelled", "unsettled", "dropped"} = {}
    BY <1>1
  <2>2. ~Draws(at[t], my[t])
    BY <1>1, <1>a DEF Draws, Follows, Settling, Inputs, Uses
  <2>3. \A u \in Threads : Draws(at[u], my[u]) => Draws(at'[u], my'[u])
    BY <1>4, <2>2
  <2>4. UseInv
    BY DEF IInv
  <2> QED
    BY <1>1, <2>1, <2>3, <2>4 DEF UseInv
<1> QED
  BY <1>3, <1>5, <1>6 DEF IInv

LEMMA SendUseStep ==
  ASSUME IInv, NEW t \in Threads, SendUse(t)
  PROVE  IInv'
<1> USE DEF client, server, ghosts
<1>a. my[t] \in Variables /\ Follows(at[t], my[t]) /\ cooled \in Nat
  BY DEF IInv, TypeInv, ThreadInv
<1> DEFINE p == IF my[t].verb = "tap" THEN "rest" ELSE "hold"
           r == IF my[t].verb = "tap" THEN Idle ELSE my[t]
<1>1. /\ at[t] = "use" /\ at' = [at EXCEPT ![t] = p] /\ my' = [my EXCEPT ![t] = r]
      /\ UNCHANGED <<input, told, conn, cooled, breaks>>
      /\ slips' = IF my[t].verb = "tap" THEN slips \cup {"tap"} ELSE slips
  BY DEF SendUse, Goes, Ends, Notes, IInv, TypeInv
<1>2. Moves(t, p, r)
  BY <1>1, <1>a, IdleType DEF Moves, Points, Follows, Settling
<1>3. TypeInv' /\ ThreadInv'
  BY <1>1, <1>2, MovesThreads DEF IInv, TypeInv
<1>4. /\ at'[t] = p /\ my'[t] = r
      /\ \A u \in Threads : u # t => at'[u] = at[u] /\ my'[u] = my[u]
  BY <1>1 DEF IInv, TypeInv
<1>5. PressInv'
  <2>1. ~Presses(at[t], my[t]) /\ ~Tells(at[t], my[t])
    BY <1>1 DEF Presses, Tells
  <2>2. PressInv /\ slips \subseteq slips'
    BY <1>1 DEF IInv
  <2> QED
    BY <1>1, <1>4, <2>1, <2>2 DEF PressInv
<1>6. UseInv'
  <2>1. my[t].verb \in Uses
    BY <1>1, <1>a DEF Follows
  <2>2. my[t].verb # "tap" => Draws(at'[t], my'[t])
    BY <1>4, <2>1 DEF Draws
  <2> QED
    BY <1>1, <2>2 DEF UseInv
<1> QED
  BY <1>3, <1>5, <1>6 DEF IInv

LEMMA SendReleaseStep ==
  ASSUME IInv, NEW t \in Threads, SendRelease(t)
  PROVE  IInv'
<1> USE DEF client, server, ghosts
<1>a. cooled \in Nat
  BY DEF IInv, TypeInv
<1>1. /\ at[t] = "release" /\ at' = [at EXCEPT ![t] = "rest"] /\ my' = [my EXCEPT ![t] = Idle]
      /\ UNCHANGED <<input, told, conn, cooled, breaks>>
      /\ slips \subseteq slips' /\ (Deaf => "dropped" \in slips') /\ (using' => Deaf)
  BY DEF SendRelease, Ends, Notes
<1>2. Moves(t, "rest", Idle)
  BY <1>1, <1>a, IdleType DEF Moves, Points
<1>3. TypeInv' /\ ThreadInv'
  BY <1>1, <1>2, MovesThreads DEF IInv, TypeInv
<1>4. \A u \in Threads : u # t => at'[u] = at[u] /\ my'[u] = my[u]
  BY <1>1 DEF IInv, TypeInv
<1>5. PressInv'
  <2>1. ~Presses(at[t], my[t]) /\ ~Tells(at[t], my[t])
    BY <1>1 DEF Presses, Tells
  <2>2. PressInv
    BY DEF IInv
  <2> QED
    BY <1>1, <1>4, <2>1, <2>2 DEF PressInv
<1>6. UseInv'
  BY <1>1 DEF UseInv
<1> QED
  BY <1>3, <1>5, <1>6 DEF IInv

LEMMA IInvStep == IInv /\ [Next]_vars => IInv'
<1> SUFFICES ASSUME IInv, [Next]_vars PROVE IInv'
  OBVIOUS
<1>1. CASE Server \/ Others \/ BreakCools
  BY <1>1, OthersStep
<1>2. ASSUME NEW t \in Threads, Acts(t) PROVE IInv'
  <2>1. CASE SendFinish(t)
    BY <2>1, NoteStep, EndStep
  <2>2. CASE ~SendFinish(t)
    BY <1>2, <2>2, WaitStep, NoteStep, EndStep, LetGoStep, ReadInputStep, StoreInputStep,
       SendInputStep, SendUseStep, SendReleaseStep DEF Acts
  <2> QED
    BY <2>1, <2>2
<1>3. ASSUME NEW t \in Threads, NEW verb \in Kinds, Begin(t, verb) PROVE IInv'
  BY <1>3, BeginStep
<1>4. CASE UNCHANGED vars
  BY <1>4 DEF vars, client, caller, server, ghosts, IInv, TypeInv, ThreadInv, PressInv, UseInv
<1> QED
  BY <1>1, <1>2, <1>3, <1>4 DEF Next

-----------------------------------------------------------------------------
\* What a verb says of itself, the bits it presses are for as long as they are,
\* and an item in use is for somebody to release.
THEOREM Invariance == Spec => []IInv
  BY InitIInv, IInvStep, PTL DEF Spec

\* "A cancelled context must still stand the bot back up" (Sneak, SprintTo): no bit
\* stays pressed with nobody to clear it, however many verbs press it at once.
THEOREM InputLetGo == Spec => []InputIsLetGo
<1>1. IInv => InputIsLetGo
  BY DEF IInv, PressInv, Presses, Tells, Inputs, InputIsLetGo, Resting
<1> QED
  BY Invariance, <1>1, PTL

\* "A cancelled context must still let go" (UseItemFor, DrawAndRelease, Consume): no
\* item stays in use with nobody to release it.
THEOREM UseLetGo == Spec => []UseIsLetGo
<1>1. IInv => UseIsLetGo
  BY DEF IInv, UseInv, Draws, Uses, UseIsLetGo, Resting
<1> QED
  BY Invariance, <1>1, PTL

-----------------------------------------------------------------------------
(* The bounds of what is counted.                                          *)

Digging == {"target", "start", "cooldown", "cool", "blind", "watch", "pace", "finish"}
Trying == {"settle", "answer", "pause", "alive", "aim", "place"}

\* A thread at p that has r, when there have been b breaks, tries to place no more
\* often than it may and remembers no break that has not been.
Bounded(p, r, b) ==
  /\ r.tries <= PlaceAttempts /\ r.last <= b
  /\ r.flags \subseteq Inputs /\ r.seen \subseteq Inputs
  /\ r.verb # "place" => r.tries = 0
  /\ r.verb = "place" /\ p \in Trying => r.tries < PlaceAttempts
  /\ p \in Digging \/ r.then \in {"start", "finish"} => r.verb \in Digs
  /\ p = "hold" => r.verb \in Inputs \cup Uses
  /\ p # "rest" => r.then # "rest"

Busy == {t \in Threads : at[t] # "rest"}

\* A verb ends with one break at most.
BoundInv ==
  /\ \A t \in Threads : Bounded(at[t], my[t], breaks)
  /\ input \subseteq Inputs /\ told \subseteq Inputs
  /\ IsFiniteSet(Busy) /\ begun \in 0..MaxVerbs
  /\ breaks + Cardinality(Busy) <= begun

ClientType ==
  /\ conn \in {"open", "closed"} /\ dead \in BOOLEAN /\ unsettled \in BOOLEAN
  /\ view \in {"block", "air", "unloaded"}

ServerType ==
  /\ life \in {"alive", "dead", "asked"} /\ awaiting \in BOOLEAN
  /\ using \in BOOLEAN /\ dig \in BOOLEAN

TerrainType == block \in BOOLEAN /\ sent \in BOOLEAN /\ upsets \in 0..MaxUpsets

GhostType ==
  /\ slips \subseteq {"crossed", "refused", "cancelled", "unsettled", "dropped", "tap",
                     "forgotten"}
  /\ claim \in {"none", "gone", "there"}

WorldInv == ClientType /\ ServerType /\ TerrainType /\ GhostType

-----------------------------------------------------------------------------
(* What is said of the block.                                              *)

\* The packets that change what the client knows of the block.
Words == {"block", "air", "unload", "respawn"}
Packets == Words \cup {"teleport", "death"}

\* The last word on its way to the client, or what the client knows if there is
\* none, is what the server has.
LastWordIsRight ==
  \/ \E i \in 1..Len(inbox) :
       inbox[i] = Seen(block) /\ \A j \in 1..Len(inbox) : j > i => inbox[j] \notin Words
  \/ view = Seen(block) /\ \A j \in 1..Len(inbox) : inbox[j] \notin Words

ReportInv ==
  /\ inbox \in Seq(Packets)
  /\ sent => LastWordIsRight
  /\ claim = "gone" /\ "forgotten" \notin slips => view = "air"
  /\ claim = "there" => view = "block"

LEMMA IdleBounded == \A b \in Nat : Bounded("rest", Idle, b)
  BY DEF Bounded, Idle, PlaceAttempts, Digging

\* A thread begins a verb, goes on with one, or ends it.
LEMMA BoundedMove ==
  ASSUME IInv, BoundInv, NEW t \in Threads, NEW p \in Points, NEW r \in Variables,
         at' = [at EXCEPT ![t] = p], my' = [my EXCEPT ![t] = r],
         breaks' \in {breaks, breaks + 1}, Bounded(p, r, breaks'),
         input' \subseteq Inputs, told' \subseteq Inputs,
         \/ /\ at[t] # "rest" /\ p # "rest" /\ breaks' = breaks /\ begun' = begun
         \/ /\ at[t] # "rest" /\ p = "rest" /\ begun' = begun
         \/ /\ at[t] = "rest" /\ p # "rest" /\ breaks' = breaks
            /\ begun < MaxVerbs /\ begun' = begun + 1
  PROVE  BoundInv'
<1>1. /\ at \in [Threads -> Points] /\ my \in [Threads -> Variables] /\ breaks \in Nat
      /\ begun \in 0..MaxVerbs /\ MaxVerbs \in Nat
      /\ IsFiniteSet(Busy) /\ Cardinality(Busy) \in Nat
      /\ breaks + Cardinality(Busy) <= begun
  BY VerbsAssumption, FS_CardinalityType DEF IInv, TypeInv, BoundInv
<1>2. \A u \in Threads : Bounded(at'[u], my'[u], breaks')
  <2>1. ASSUME NEW u \in Threads, u # t PROVE Bounded(at'[u], my'[u], breaks')
    <3>1. at'[u] = at[u] /\ my'[u] = my[u] /\ Bounded(at[u], my[u], breaks)
      BY <1>1, <2>1 DEF BoundInv
    <3>2. my[u].last \in Nat
      BY <1>1 DEF Variables
    <3> QED
      BY <1>1, <3>1, <3>2 DEF Bounded
  <2>2. Bounded(at'[t], my'[t], breaks')
    BY <1>1
  <2> QED
    BY <2>1, <2>2
<1>3. IsFiniteSet(Busy') /\ begun' \in 0..MaxVerbs /\ breaks' + Cardinality(Busy') <= begun'
  <2>1. CASE at[t] # "rest" /\ p # "rest" /\ breaks' = breaks /\ begun' = begun
    <3>1. Busy' = Busy
      BY <1>1, <2>1 DEF Busy
    <3> QED
      BY <1>1, <2>1, <3>1
  <2>2. CASE at[t] # "rest" /\ p = "rest" /\ begun' = begun
    <3>1. t \in Busy /\ Busy' = Busy \ {t}
      BY <1>1, <2>2 DEF Busy
    <3>2. IsFiniteSet(Busy') /\ Cardinality(Busy') = Cardinality(Busy) - 1
      BY <1>1, <3>1, FS_RemoveElement
    <3> QED
      BY <1>1, <2>2, <3>2
  <2>3. CASE /\ at[t] = "rest" /\ p # "rest" /\ breaks' = breaks
             /\ begun < MaxVerbs /\ begun' = begun + 1
    <3>1. t \notin Busy /\ Busy' = Busy \cup {t}
      BY <1>1, <2>3 DEF Busy
    <3>2. IsFiniteSet(Busy') /\ Cardinality(Busy') = Cardinality(Busy) + 1
      BY <1>1, <3>1, FS_AddElement
    <3> QED
      BY <1>1, <2>3, <3>2
  <2> QED
    BY <2>1, <2>2, <2>3
<1> QED
  BY <1>2, <1>3 DEF BoundInv

LEMMA BoundWait ==
  ASSUME IInv, BoundInv, NEW t \in Threads,
         \/ Settled(t) \/ Unsettled(t) \/ AnswerTeleport(t) \/ PauseEnds(t) \/ StillAlive(t)
         \/ TargetAppears(t) \/ SendStart(t) \/ CoolEnds(t) \/ Stands(t) \/ Swing(t)
         \/ LookAgain(t) \/ AimToPlace(t) \/ Confirm(t)
  PROVE  BoundInv'
<1> USE DEF client, server, ghosts
<1>a. /\ my[t] \in Variables /\ my[t].then \in Thens /\ Bounded(at[t], my[t], breaks)
      /\ Follows(at[t], my[t]) /\ at \in [Threads -> Points]
      /\ my \in [Threads -> Variables] /\ input \subseteq Inputs /\ told \subseteq Inputs
  BY DEF IInv, TypeInv, ThreadInv, BoundInv, Variables
<1>b. /\ UNCHANGED <<my, input, told, breaks, begun>>
  BY DEF Settled, Unsettled, AnswerTeleport, PauseEnds, StillAlive, TargetAppears, SendStart,
     CoolEnds, Stands, Swing, LookAgain, AimToPlace, Confirm
<1>c. ASSUME NEW p \in Points, Goes(t, at[t], p), at[t] # "rest", p # "rest",
             Bounded(p, my[t], breaks)
      PROVE  BoundInv'
  <2>1. my' = [my EXCEPT ![t] = my[t]]
    BY <1>a, <1>b
  <2> QED
    BY <1>a, <1>b, <1>c, <2>1, BoundedMove DEF Goes
<1>1. CASE Settled(t) \/ PauseEnds(t)
  <2>1. at[t] \in Settling /\ Goes(t, at[t], my[t].then)
    BY <1>1 DEF Settled, PauseEnds, Settling, Goes
  <2>2. /\ my[t].then \in Points /\ my[t].then # "rest" /\ at[t] # "rest"
        /\ Bounded(my[t].then, my[t], breaks)
    BY <1>a, <2>1 DEF Thens, Points, Bounded, Settling, Digging, Trying, Uses
  <2> QED
    BY <1>c, <2>1, <2>2
<1>2. CASE Unsettled(t) \/ AnswerTeleport(t)
  <2>1. at[t] \in Settling /\ \E to \in {"answer", "pause"} : Goes(t, at[t], to)
    BY <1>2 DEF Unsettled, AnswerTeleport, Settling, Goes
  <2>2. \A to \in {"answer", "pause"} : to \in Points /\ Bounded(to, my[t], breaks)
    BY <1>a, <2>1 DEF Points, Bounded, Settling, Digging, Trying
  <2> QED
    BY <1>c, <2>1, <2>2 DEF Settling
<1>3. CASE StillAlive(t) \/ TargetAppears(t)
  <2>1. \/ at[t] = "alive" /\ Goes(t, at[t], "settle")
        \/ at[t] = "target" /\ Goes(t, at[t], "alive")
    BY <1>3 DEF StillAlive, TargetAppears, Goes
  <2>2. \A to \in {"settle", "alive"} : to \in Points /\ Bounded(to, my[t], breaks)
    BY <1>a, <2>1 DEF Points, Bounded, Digging, Trying, Digs
  <2> QED
    BY <1>c, <2>1, <2>2
<1>4. CASE SendStart(t) \/ CoolEnds(t)
  <2>1. /\ at[t] \in {"start", "cool"}
        /\ \E to \in {"cooldown", "cool", "blind", "watch"} : Goes(t, at[t], to)
    BY <1>4 DEF SendStart, CoolEnds, Goes
  <2>2. \A to \in {"cooldown", "cool", "blind", "watch"} :
          to \in Points /\ Bounded(to, my[t], breaks)
    BY <1>a, <2>1 DEF Points, Bounded, Digging, Trying, Digs
  <2> QED
    BY <1>c, <2>1, <2>2
<1>5. CASE Stands(t) \/ LookAgain(t)
  <2>1. /\ at[t] \in {"watch", "pace"}
        /\ \E to \in {"swing", "watch"} : Goes(t, at[t], to)
    BY <1>5 DEF Stands, LookAgain, Goes
  <2>2. \A to \in {"swing", "watch"} : to \in Points /\ Bounded(to, my[t], breaks)
    BY <1>a, <2>1 DEF Points, Bounded, Digging, Trying, Digs
  <2> QED
    BY <1>c, <2>1, <2>2
<1>6. CASE Swing(t) \/ Confirm(t)
  <2>1. /\ at[t] \in {"swing", "confirm"}
        /\ \E to \in {"pace", "confirm", "seek"} :
             Goes(t, at[t], to) /\ (to = "pace" => my[t].verb \in Digs)
    BY <1>6 DEF Swing, Confirm, Goes
  <2>2. \A to \in {"pace", "confirm", "seek"} :
          (to = "pace" => my[t].verb \in Digs) => to \in Points /\ Bounded(to, my[t], breaks)
    BY <1>a, <2>1 DEF Points, Bounded, Digging, Trying, Digs
  <2> QED
    BY <1>c, <2>1, <2>2
<1>7. CASE AimToPlace(t)
  <2>1. at[t] = "aim" /\ Goes(t, at[t], "place")
    BY <1>7 DEF AimToPlace, Goes
  <2>2. "place" \in Points /\ Bounded("place", my[t], breaks)
    BY <1>a, <2>1 DEF Points, Bounded, Digging, Trying, Digs
  <2> QED
    BY <1>c, <2>1, <2>2
<1> QED
  BY <1>1, <1>2, <1>3, <1>4, <1>5, <1>6, <1>7

\* A thread goes on with other variables, or as a use or an input goes on.
LEMMA BoundNote ==
  ASSUME IInv, BoundInv, NEW t \in Threads,
         \/ LookAtBlock(t) \/ AimAtBlock(t) \/ AimAtAir(t) \/ ReadCooldown(t)
         \/ BlindHoldEnds(t) \/ HoldIsOver(t) \/ SendPlace(t) \/ PlaceAgain(t)
         \/ SendFinish(t) /\ ~my[t].blind
         \/ CancelEndsHold(t) \/ HoldEnds(t) \/ ReadInput(t)
         \/ StoreInput(t)
         \/ SendInput(t) /\ my[t].on
         \/ SendUse(t) /\ my[t].verb # "tap"
  PROVE  BoundInv'
<1> USE DEF client, server, ghosts
<1>a. /\ my[t] \in Variables /\ Bounded(at[t], my[t], breaks)
      /\ Follows(at[t], my[t]) /\ at \in [Threads -> Points] /\ breaks \in Nat
      /\ my \in [Threads -> Variables] /\ input \subseteq Inputs /\ told \subseteq Inputs
  BY DEF IInv, TypeInv, ThreadInv, BoundInv
<1>b. UNCHANGED <<breaks, begun>>
  BY DEF LookAtBlock, AimAtBlock, AimAtAir, Aimed, Finds, ReadCooldown, BlindHoldEnds,
     HoldIsOver, ToFinish, SendPlace, PlaceAgain, SendFinish, CancelEndsHold, HoldEnds,
     Release, ReadInput, StoreInput, SendInput, SendUse
<1>c. ASSUME NEW p \in Points, NEW r \in Variables, at' = [at EXCEPT ![t] = p],
             my' = [my EXCEPT ![t] = r], at[t] # "rest", p # "rest", Bounded(p, r, breaks),
             input' \subseteq Inputs, told' \subseteq Inputs
      PROVE  BoundInv'
  BY <1>a, <1>b, <1>c, BoundedMove
<1>1. CASE LookAtBlock(t) \/ AimAtBlock(t) \/ AimAtAir(t)
  <2> DEFINE r == [my[t] EXCEPT !.then = "start"]
  <2>1. /\ r \in Variables /\ r.verb = my[t].verb /\ r.then = "start" /\ r.tries = my[t].tries
        /\ r.last = my[t].last /\ r.flags = my[t].flags /\ r.seen = my[t].seen
    BY <1>a DEF Variables, Thens
  <2>2. /\ at[t] \in {"point", "aim"} /\ my[t].verb \in Digs /\ my' = [my EXCEPT ![t] = r]
        /\ at' = [at EXCEPT ![t] = "alive"] \/ at' = [at EXCEPT ![t] = "target"]
        /\ UNCHANGED <<input, told>>
    BY <1>1 DEF LookAtBlock, AimAtBlock, AimAtAir, Aimed, Finds, Goes, Notes, Digs
  <2> HIDE DEF r
  <2>3. \A p \in {"alive", "target"} : p \in Points /\ Bounded(p, r, breaks)
    BY <1>a, <2>1, <2>2 DEF Bounded, Digging, Trying, Points, Digs
  <2> QED
    BY <1>a, <1>c, <2>1, <2>2, <2>3
<1>2. CASE ReadCooldown(t)
  <2> DEFINE r == [my[t] EXCEPT !.last = breaks]
  <2>1. /\ r \in Variables /\ r.verb = my[t].verb /\ r.then = my[t].then
        /\ r.tries = my[t].tries /\ r.last = breaks /\ r.flags = my[t].flags
        /\ r.seen = my[t].seen
    BY <1>a DEF Variables
  <2>2. /\ at[t] = "cooldown" /\ my' = [my EXCEPT ![t] = r]
        /\ at' = [at EXCEPT ![t] = "cool"] /\ UNCHANGED <<input, told>>
    BY <1>2 DEF ReadCooldown, Goes, Notes
  <2> HIDE DEF r
  <2>3. "cool" \in Points /\ Bounded("cool", r, breaks)
    BY <1>a, <2>1, <2>2 DEF Bounded, Digging, Trying, Points, Digs
  <2> QED
    BY <1>a, <1>c, <2>1, <2>2, <2>3
<1>3. ASSUME NEW blind \in BOOLEAN, at[t] \in {"blind", "pace"}, ToFinish(t, blind)
      PROVE  BoundInv'
  <2> DEFINE r == [my[t] EXCEPT !.then = "finish", !.blind = blind]
  <2>1. /\ r \in Variables /\ r.verb = my[t].verb /\ r.then = "finish"
        /\ r.tries = my[t].tries /\ r.last = my[t].last /\ r.flags = my[t].flags
        /\ r.seen = my[t].seen
    BY <1>a DEF Variables, Thens
  <2>2. /\ my' = [my EXCEPT ![t] = r] /\ at' = [at EXCEPT ![t] = "alive"]
        /\ UNCHANGED <<input, told>>
    BY <1>3 DEF ToFinish, Notes
  <2> HIDE DEF r
  <2>3. "alive" \in Points /\ Bounded("alive", r, breaks)
    BY <1>a, <1>3, <2>1 DEF Bounded, Digging, Trying, Points, Digs
  <2> QED
    BY <1>a, <1>c, <1>3, <2>1, <2>2, <2>3
<1>4. CASE SendPlace(t)
  <2> DEFINE r == [my[t] EXCEPT !.tries = my[t].tries + 1]
  <2>1. /\ r \in Variables /\ r.verb = my[t].verb /\ r.then = my[t].then
        /\ r.tries = my[t].tries + 1 /\ r.last = my[t].last /\ r.flags = my[t].flags
        /\ r.seen = my[t].seen /\ my[t].tries \in Nat
    BY <1>a DEF Variables
  <2>2. /\ at[t] = "place" /\ my' = [my EXCEPT ![t] = r]
        /\ at' = [at EXCEPT ![t] = "swing"] /\ UNCHANGED <<input, told>>
    BY <1>4 DEF SendPlace, Goes, Notes
  <2> HIDE DEF r
  <2>3. my[t].verb = "place" /\ my[t].tries < PlaceAttempts
    BY <1>a, <2>2 DEF Follows, Bounded, Trying
  <2>4. "swing" \in Points /\ Bounded("swing", r, breaks)
    BY <1>a, <2>1, <2>2, <2>3 DEF Bounded, Digging, Trying, Points, PlaceAttempts
  <2> QED
    BY <1>a, <1>c, <2>1, <2>2, <2>4
<1>5. CASE PlaceAgain(t)
  <2> DEFINE r == [my[t] EXCEPT !.then = "aim"]
  <2>1. /\ r \in Variables /\ r.verb = my[t].verb /\ r.then = "aim"
        /\ r.tries = my[t].tries /\ r.last = my[t].last /\ r.flags = my[t].flags
        /\ r.seen = my[t].seen
    BY <1>a DEF Variables, Thens
  <2>2. /\ at[t] = "seek" /\ my[t].tries < PlaceAttempts /\ my' = [my EXCEPT ![t] = r]
        /\ at' = [at EXCEPT ![t] = "alive"] /\ UNCHANGED <<input, told>>
    BY <1>5 DEF PlaceAgain, Goes, Notes
  <2> HIDE DEF r
  <2>3. "alive" \in Points /\ Bounded("alive", r, breaks)
    BY <1>a, <2>1, <2>2 DEF Bounded, Digging, Trying, Points, Digs
  <2> QED
    BY <1>a, <1>c, <2>1, <2>2, <2>3
<1>6. CASE SendFinish(t) /\ ~my[t].blind
  <2> DEFINE r == [my[t] EXCEPT !.finished = TRUE]
  <2>1. /\ r \in Variables /\ r.verb = my[t].verb /\ r.then = my[t].then
        /\ r.tries = my[t].tries /\ r.last = my[t].last /\ r.flags = my[t].flags
        /\ r.seen = my[t].seen
    BY <1>a DEF Variables
  <2>2. /\ at[t] = "finish" /\ my' = [my EXCEPT ![t] = r]
        /\ at' = [at EXCEPT ![t] = "pace"] /\ UNCHANGED <<input, told>>
    BY <1>6 DEF SendFinish, Goes, Notes
  <2> HIDE DEF r
  <2>3. "pace" \in Points /\ Bounded("pace", r, breaks)
    BY <1>a, <2>1, <2>2 DEF Bounded, Digging, Trying, Points, Digs
  <2> QED
    BY <1>a, <1>c, <2>1, <2>2, <2>3
<1>7. CASE CancelEndsHold(t) \/ HoldEnds(t)
  <2>1. at[t] = "hold" /\ Release(t) /\ UNCHANGED <<input, told>>
    BY <1>7 DEF CancelEndsHold, HoldEnds
  <2>2. my[t].verb \in Inputs \cup Uses /\ my[t].tries = 0 /\ my[t].then # "rest"
    BY <1>a, <2>1 DEF Bounded, Inputs, Uses
  <2>3. CASE my[t].verb \in Inputs
    <3> DEFINE r == [my[t] EXCEPT !.on = FALSE]
    <3>1. /\ r \in Variables /\ r.verb = my[t].verb /\ r.then = my[t].then
          /\ r.tries = my[t].tries /\ r.last = my[t].last /\ r.flags = my[t].flags
          /\ r.seen = my[t].seen
      BY <1>a DEF Variables
    <3>2. my' = [my EXCEPT ![t] = r] /\ at' = [at EXCEPT ![t] = "read"]
      BY <2>1, <2>3 DEF Release, Notes, Inputs
    <3> HIDE DEF r
    <3>3. "read" \in Points /\ Bounded("read", r, breaks)
      BY <1>a, <2>1, <2>2, <3>1 DEF Bounded, Digging, Trying, Points, Digs
    <3> QED
      BY <1>a, <1>c, <2>1, <3>1, <3>2, <3>3
  <2>4. CASE my[t].verb \notin Inputs
    <3> DEFINE r == [my[t] EXCEPT !.then = "release"]
    <3>1. /\ r \in Variables /\ r.verb = my[t].verb /\ r.then = "release"
          /\ r.tries = my[t].tries /\ r.last = my[t].last /\ r.flags = my[t].flags
          /\ r.seen = my[t].seen
      BY <1>a DEF Variables, Thens
    <3>2. my' = [my EXCEPT ![t] = r] /\ at' = [at EXCEPT ![t] = "settle"]
      BY <2>1, <2>4 DEF Release, Notes, Inputs
    <3> HIDE DEF r
    <3>3. "settle" \in Points /\ Bounded("settle", r, breaks)
      BY <1>a, <2>1, <2>2, <3>1 DEF Bounded, Digging, Trying, Points, Inputs, Uses
    <3> QED
      BY <1>a, <1>c, <2>1, <3>1, <3>2, <3>3
  <2> QED
    BY <2>3, <2>4
<1>8. CASE ReadInput(t)
  <2> DEFINE flags == IF my[t].on THEN input \cup Bit(t) ELSE input \ Bit(t)
             r == [my[t] EXCEPT !.seen = input, !.flags = flags]
  <2>1. /\ at[t] = "read" /\ my' = [my EXCEPT ![t] = r]
        /\ at' = [at EXCEPT ![t] = "set"] /\ UNCHANGED <<input, told>>
    BY <1>8 DEF ReadInput, Goes, Notes
  <2>2. flags \subseteq Inputs /\ flags \in SUBSET AllVerbs /\ input \in SUBSET AllVerbs
    BY <1>a, <2>1 DEF Bit, Follows, AllVerbs
  <2> HIDE DEF flags
  <2>3. /\ r \in Variables /\ r.verb = my[t].verb /\ r.then = my[t].then
        /\ r.tries = my[t].tries /\ r.last = my[t].last /\ r.flags = flags
        /\ r.seen = input
    BY <1>a, <2>2 DEF Variables
  <2> HIDE DEF r
  <2>4. "set" \in Points /\ Bounded("set", r, breaks)
    BY <1>a, <2>1, <2>2, <2>3 DEF Bounded, Digging, Trying, Points, Digs
  <2> QED
    BY <1>a, <1>c, <2>1, <2>3, <2>4
<1>9. CASE StoreInput(t) \/ (SendInput(t) /\ my[t].on) \/ (SendUse(t) /\ my[t].verb # "tap")
  <2>1. my[t].flags \subseteq Inputs
    BY <1>a DEF Bounded
  <2>2. /\ at[t] \in {"set", "send", "use"} /\ my' = my
        /\ \E p \in {"send", "hold"} :
             at' = [at EXCEPT ![t] = p] /\ (p = "hold" => at[t] \in {"send", "use"})
        /\ input' \in {input, my[t].flags} /\ told' \in {told, my[t].flags}
    BY <1>9 DEF StoreInput, SendInput, SendUse, Goes
  <2>3. my' = [my EXCEPT ![t] = my[t]]
    BY <1>a, <2>2
  <2>4. \A p \in {"send", "hold"} : (p = "hold" => at[t] \in {"send", "use"}) =>
          p \in Points /\ Bounded(p, my[t], breaks)
    BY <1>a, <2>2 DEF Bounded, Digging, Trying, Points, Follows
  <2> QED
    BY <1>a, <1>c, <2>1, <2>2, <2>3, <2>4
<1> QED
  BY <1>1, <1>2, <1>3, <1>4, <1>5, <1>6, <1>7, <1>8, <1>9 DEF BlindHoldEnds, HoldIsOver

\* A verb is over, or begins.
LEMMA BoundEnd ==
  ASSUME IInv, BoundInv, NEW t \in Threads,
         \/ Refused(t) \/ WriteFails(t) \/ CancelEndsVerb(t) \/ GiveUp(t) \/ Broke(t)
         \/ CannotConfirm(t) \/ Placed(t) \/ SendRelease(t)
         \/ SendFinish(t) /\ my[t].blind
         \/ SendInput(t) /\ ~my[t].on
         \/ SendUse(t) /\ my[t].verb = "tap"
  PROVE  BoundInv'
<1> USE DEF client, server, ghosts
<1>a. /\ my[t] \in Variables /\ Bounded(at[t], my[t], breaks) /\ breaks \in Nat
      /\ at \in [Threads -> Points] /\ my \in [Threads -> Variables]
      /\ input \subseteq Inputs /\ told \subseteq Inputs
  BY DEF IInv, TypeInv, ThreadInv, BoundInv
<1>1. /\ Ends(t) /\ at[t] # "rest" /\ breaks' \in {breaks, breaks + 1}
      /\ input' = input /\ told' \in {told, my[t].flags}
  BY DEF Refused, WriteFails, CancelEndsVerb, GiveUp, Broke, CannotConfirm, Placed,
     SendRelease, SendFinish, SendInput, SendUse, Goes
<1>2. /\ at' = [at EXCEPT ![t] = "rest"] /\ my' = [my EXCEPT ![t] = Idle] /\ begun' = begun
  BY <1>1 DEF Ends, Notes
<1>3. Idle \in Variables /\ "rest" \in Points /\ Bounded("rest", Idle, breaks')
  BY <1>a, <1>1, IdleType, IdleBounded DEF Points
<1>4. input' \subseteq Inputs /\ told' \subseteq Inputs
  BY <1>a, <1>1 DEF Bounded
<1> QED
  BY <1>1, <1>2, <1>3, <1>4, BoundedMove

LEMMA BoundBegin ==
  ASSUME IInv, BoundInv, NEW t \in Threads, NEW verb \in Kinds, Begin(t, verb)
  PROVE  BoundInv'
<1> DEFINE on == verb \in {"sneak", "sprint"}
           then == IF verb = "place" THEN "aim" ELSE "use"
           r == [Idle EXCEPT !.verb = verb, !.on = on, !.then = then]
<1>1. /\ verb \in AllVerbs \ {"none"} /\ on \in BOOLEAN /\ then \in Thens
      /\ then \notin {"rest", "start", "finish"}
  BY VerbsAssumption DEF AllVerbs, Inputs, Uses, Digs, Thens
<1>2. /\ at[t] = "rest" /\ at' = [at EXCEPT ![t] = First(verb)] /\ my' = [my EXCEPT ![t] = r]
      /\ begun < MaxVerbs /\ begun' = begun + 1
      /\ UNCHANGED <<input, told, breaks>>
  BY DEF Begin, Notes, client, server, ghosts
<1> HIDE DEF on, then
<1>3. /\ r \in Variables /\ r.verb = verb /\ r.then = then /\ r.tries = 0 /\ r.last = 0
      /\ r.flags = {} /\ r.seen = {}
  BY <1>1, IdleType DEF Variables, Idle
<1> HIDE DEF r
<1>4. First(verb) \in Points /\ First(verb) \notin {"rest", "hold"} \cup Digging
  BY <1>1 DEF First, Points, Digging
<1>5. breaks \in Nat /\ input \subseteq Inputs /\ told \subseteq Inputs
  BY DEF IInv, TypeInv, BoundInv
<1>6. Bounded(First(verb), r, breaks)
  BY <1>1, <1>3, <1>4, <1>5 DEF Bounded, PlaceAttempts
<1> QED
  BY <1>2, <1>3, <1>4, <1>5, <1>6, BoundedMove

LEMMA BoundStep == IInv /\ BoundInv /\ [Next]_vars => BoundInv'
<1> SUFFICES ASSUME IInv, BoundInv, [Next]_vars PROVE BoundInv'
  OBVIOUS
<1>1. CASE Server \/ Others \/ BreakCools
  <2>1. UNCHANGED <<at, my, begun, input, told, breaks>>
    BY <1>1 DEF Server, Others, BreakCools, ServerTeleports, ServerKills, ServerRespawns,
       ServerSendsColumn, ServerUnloads, ServerBreaks, BlockReturns, Disconnect, TakeTeleport,
       TakeDeath, TakeRespawn, TakeTerrain, IdleReports, SettleWindowPasses, client, caller,
       server, ghosts
  <2> QED
    BY <2>1 DEF BoundInv, Busy
<1>2. ASSUME NEW t \in Threads, Acts(t) PROVE BoundInv'
  <2>1. CASE SendFinish(t) \/ SendInput(t) \/ SendUse(t)
    <3>1. (SendFinish(t) /\ my[t].blind) \/ (SendInput(t) /\ ~my[t].on)
          \/ (SendUse(t) /\ my[t].verb = "tap") => BoundInv'
      BY BoundEnd
    <3>2. (SendFinish(t) /\ ~my[t].blind) \/ (SendInput(t) /\ my[t].on)
          \/ (SendUse(t) /\ my[t].verb # "tap") => BoundInv'
      BY BoundNote
    <3> QED
      BY <2>1, <3>1, <3>2
  <2>2. CASE \/ Settled(t) \/ Unsettled(t) \/ AnswerTeleport(t) \/ PauseEnds(t)
             \/ StillAlive(t) \/ TargetAppears(t) \/ SendStart(t) \/ CoolEnds(t)
             \/ Stands(t) \/ Swing(t) \/ LookAgain(t) \/ AimToPlace(t) \/ Confirm(t)
    BY <2>2, BoundWait
  <2>3. CASE \/ LookAtBlock(t) \/ AimAtBlock(t) \/ AimAtAir(t) \/ ReadCooldown(t)
             \/ BlindHoldEnds(t) \/ HoldIsOver(t) \/ SendPlace(t) \/ PlaceAgain(t)
    BY <2>3, BoundNote
  <2>5. CASE CancelEndsHold(t) \/ HoldEnds(t) \/ ReadInput(t) \/ StoreInput(t)
    BY <2>5, BoundNote
  <2>4. CASE \/ Refused(t) \/ WriteFails(t) \/ CancelEndsVerb(t) \/ GiveUp(t) \/ Broke(t)
             \/ CannotConfirm(t) \/ Placed(t) \/ SendRelease(t)
    BY <2>4, BoundEnd
  <2> QED
    BY <1>2, <2>1, <2>2, <2>3, <2>4, <2>5 DEF Acts
<1>3. ASSUME NEW t \in Threads, NEW verb \in Kinds, Begin(t, verb) PROVE BoundInv'
  BY <1>3, BoundBegin
<1>4. CASE UNCHANGED vars
  BY <1>4 DEF vars, client, caller, server, BoundInv, Busy
<1> QED
  BY <1>1, <1>2, <1>3, <1>4 DEF Next

LEMMA InitBound == Init => BoundInv
<1> SUFFICES ASSUME Init PROVE BoundInv
  OBVIOUS
<1>1. Busy = {}
  BY DEF Init, Busy
<1>2. \A t \in Threads : at[t] = "rest" /\ my[t] = Idle /\ breaks = 0
  BY DEF Init
<1>3. \A t \in Threads : Bounded(at[t], my[t], breaks)
  BY <1>2, IdleBounded
<1>4. IsFiniteSet(Busy) /\ Cardinality(Busy) = 0
  BY <1>1, FS_EmptySet
<1> QED
  BY <1>3, <1>4, VerbsAssumption DEF Init, BoundInv

-----------------------------------------------------------------------------
(* The types of what is left of the client, of the server and the ghosts.  *)

\* The socket and what the client has been told.
LEMMA ClientStep == ClientType /\ [Next]_vars => ClientType'
<1> SUFFICES ASSUME ClientType, [Next]_vars PROVE ClientType'
  OBVIOUS
<1> USE DEF ClientType, client, caller, server, ghosts
<1>1. CASE ServerTeleports \/ ServerKills \/ ServerUnloads \/ BlockReturns
  BY <1>1 DEF ServerTeleports, ServerKills, ServerUnloads, BlockReturns, Becomes, Upset
<1>2. CASE ServerRespawns \/ ServerSendsColumn \/ ServerBreaks \/ Disconnect \/ BreakCools
  BY <1>2 DEF ServerRespawns, ServerSendsColumn, ServerBreaks, Disconnect, BreakCools, Becomes
<1>3. CASE Others
  BY <1>3 DEF Others, TakeTeleport, TakeDeath, TakeRespawn, TakeTerrain, Outdated, IdleReports,
     SettleWindowPasses, PositionSent
<1>4. ASSUME NEW t \in Threads,
             \/ Settled(t) \/ Unsettled(t) \/ AnswerTeleport(t) \/ PauseEnds(t) \/ StillAlive(t)
             \/ Refused(t) \/ WriteFails(t) \/ CancelEndsVerb(t)
      PROVE  ClientType'
  BY <1>4 DEF Settled, Unsettled, AnswerTeleport, PauseEnds, StillAlive, Refused, WriteFails,
     CancelEndsVerb, PositionSent
<1>5. ASSUME NEW t \in Threads,
             \/ CancelEndsHold(t) \/ HoldEnds(t) \/ ReadInput(t) \/ StoreInput(t)
             \/ SendInput(t) \/ SendUse(t) \/ SendRelease(t)
      PROVE  ClientType'
  BY <1>5 DEF CancelEndsHold, HoldEnds, ReadInput, StoreInput, SendInput, SendUse, SendRelease, Deaf
<1>6. ASSUME NEW t \in Threads,
             \/ LookAtBlock(t) \/ AimAtBlock(t) \/ AimAtAir(t) \/ TargetAppears(t)
             \/ GiveUp(t) \/ SendStart(t) \/ ReadCooldown(t) \/ CoolEnds(t) \/ BlindHoldEnds(t)
      PROVE  ClientType'
  BY <1>6 DEF LookAtBlock, AimAtBlock, AimAtAir, Aimed, Finds, TargetAppears, GiveUp, SendStart,
     ReadCooldown, CoolEnds, BlindHoldEnds, ToFinish, Deaf
<1>7. ASSUME NEW t \in Threads,
             \/ Broke(t) \/ Stands(t) \/ Swing(t) \/ HoldIsOver(t) \/ LookAgain(t)
             \/ SendFinish(t)
      PROVE  ClientType'
  BY <1>7 DEF Broke, Stands, Swing, HoldIsOver, ToFinish, LookAgain, SendFinish, Deaf
<1>8. ASSUME NEW t \in Threads,
             \/ AimToPlace(t) \/ SendPlace(t) \/ CannotConfirm(t) \/ Confirm(t) \/ Placed(t)
             \/ PlaceAgain(t)
      PROVE  ClientType'
  BY <1>8 DEF AimToPlace, SendPlace, CannotConfirm, Confirm, Placed, PlaceAgain, Becomes
<1>9. ASSUME NEW t \in Threads, NEW verb \in Kinds, Begin(t, verb) PROVE ClientType'
  BY <1>9 DEF Begin
<1>10. CASE UNCHANGED vars
  BY <1>10 DEF vars
<1> QED
  BY <1>1, <1>2, <1>3, <1>4, <1>5, <1>6, <1>7, <1>8, <1>9, <1>10 DEF Next, Server, Acts

\* What the server thinks of the player.
LEMMA ServerStep == ServerType /\ [Next]_vars => ServerType'
<1> SUFFICES ASSUME ServerType, [Next]_vars PROVE ServerType'
  OBVIOUS
<1> USE DEF ServerType, client, caller, server, ghosts
<1>1. CASE ServerTeleports \/ ServerKills \/ ServerUnloads \/ BlockReturns
  BY <1>1 DEF ServerTeleports, ServerKills, ServerUnloads, BlockReturns, Becomes, Upset
<1>2. CASE ServerRespawns \/ ServerSendsColumn \/ ServerBreaks \/ Disconnect \/ BreakCools
  BY <1>2 DEF ServerRespawns, ServerSendsColumn, ServerBreaks, Disconnect, BreakCools, Becomes
<1>3. CASE Others
  BY <1>3 DEF Others, TakeTeleport, TakeDeath, TakeRespawn, TakeTerrain, Outdated, IdleReports,
     SettleWindowPasses, PositionSent
<1>4. ASSUME NEW t \in Threads,
             \/ Settled(t) \/ Unsettled(t) \/ AnswerTeleport(t) \/ PauseEnds(t) \/ StillAlive(t)
             \/ Refused(t) \/ WriteFails(t) \/ CancelEndsVerb(t)
      PROVE  ServerType'
  BY <1>4 DEF Settled, Unsettled, AnswerTeleport, PauseEnds, StillAlive, Refused, WriteFails,
     CancelEndsVerb, PositionSent
<1>5. ASSUME NEW t \in Threads,
             \/ CancelEndsHold(t) \/ HoldEnds(t) \/ ReadInput(t) \/ StoreInput(t)
             \/ SendInput(t) \/ SendUse(t) \/ SendRelease(t)
      PROVE  ServerType'
  BY <1>5 DEF CancelEndsHold, HoldEnds, ReadInput, StoreInput, SendInput, SendUse, SendRelease, Deaf
<1>6. ASSUME NEW t \in Threads,
             \/ LookAtBlock(t) \/ AimAtBlock(t) \/ AimAtAir(t) \/ TargetAppears(t)
             \/ GiveUp(t) \/ SendStart(t) \/ ReadCooldown(t) \/ CoolEnds(t) \/ BlindHoldEnds(t)
      PROVE  ServerType'
  BY <1>6 DEF LookAtBlock, AimAtBlock, AimAtAir, Aimed, Finds, TargetAppears, GiveUp, SendStart,
     ReadCooldown, CoolEnds, BlindHoldEnds, ToFinish, Deaf
<1>7. ASSUME NEW t \in Threads,
             \/ Broke(t) \/ Stands(t) \/ Swing(t) \/ HoldIsOver(t) \/ LookAgain(t)
             \/ SendFinish(t)
      PROVE  ServerType'
  BY <1>7 DEF Broke, Stands, Swing, HoldIsOver, ToFinish, LookAgain, SendFinish, Deaf
<1>8. ASSUME NEW t \in Threads,
             \/ AimToPlace(t) \/ SendPlace(t) \/ CannotConfirm(t) \/ Confirm(t) \/ Placed(t)
             \/ PlaceAgain(t)
      PROVE  ServerType'
  BY <1>8 DEF AimToPlace, SendPlace, CannotConfirm, Confirm, Placed, PlaceAgain, Becomes
<1>9. ASSUME NEW t \in Threads, NEW verb \in Kinds, Begin(t, verb) PROVE ServerType'
  BY <1>9 DEF Begin
<1>10. CASE UNCHANGED vars
  BY <1>10 DEF vars
<1> QED
  BY <1>1, <1>2, <1>3, <1>4, <1>5, <1>6, <1>7, <1>8, <1>9, <1>10 DEF Next, Server, Acts

\* The block, and whether its column has been sent.
LEMMA TerrainStep == TerrainType /\ [Next]_vars => TerrainType'
<1> SUFFICES ASSUME TerrainType, [Next]_vars PROVE TerrainType'
  OBVIOUS
<1> USE DEF TerrainType, client, caller, server, ghosts
<1>1. CASE ServerTeleports \/ ServerKills \/ ServerUnloads \/ BlockReturns
  <2>1. upsets < MaxUpsets /\ upsets' = upsets + 1 /\ MaxUpsets \in Nat
    BY <1>1, VerbsAssumption DEF ServerTeleports, ServerKills, ServerUnloads, BlockReturns, Upset
  <2>2. block' \in BOOLEAN /\ sent' \in BOOLEAN
    BY <1>1 DEF ServerTeleports, ServerKills, ServerUnloads, BlockReturns, Becomes
  <2> QED
    BY <2>1, <2>2
<1>2. CASE ServerRespawns \/ ServerSendsColumn \/ ServerBreaks \/ Disconnect \/ BreakCools
  BY <1>2 DEF ServerRespawns, ServerSendsColumn, ServerBreaks, Disconnect, BreakCools, Becomes
<1>3. CASE Others
  BY <1>3 DEF Others, TakeTeleport, TakeDeath, TakeRespawn, TakeTerrain, Outdated, IdleReports,
     SettleWindowPasses, PositionSent
<1>4. ASSUME NEW t \in Threads,
             \/ Settled(t) \/ Unsettled(t) \/ AnswerTeleport(t) \/ PauseEnds(t) \/ StillAlive(t)
             \/ Refused(t) \/ WriteFails(t) \/ CancelEndsVerb(t)
      PROVE  TerrainType'
  BY <1>4 DEF Settled, Unsettled, AnswerTeleport, PauseEnds, StillAlive, Refused, WriteFails,
     CancelEndsVerb, PositionSent
<1>5. ASSUME NEW t \in Threads,
             \/ CancelEndsHold(t) \/ HoldEnds(t) \/ ReadInput(t) \/ StoreInput(t)
             \/ SendInput(t) \/ SendUse(t) \/ SendRelease(t)
      PROVE  TerrainType'
  BY <1>5 DEF CancelEndsHold, HoldEnds, ReadInput, StoreInput, SendInput, SendUse, SendRelease, Deaf
<1>6. ASSUME NEW t \in Threads,
             \/ LookAtBlock(t) \/ AimAtBlock(t) \/ AimAtAir(t) \/ TargetAppears(t)
             \/ GiveUp(t) \/ SendStart(t) \/ ReadCooldown(t) \/ CoolEnds(t) \/ BlindHoldEnds(t)
      PROVE  TerrainType'
  BY <1>6 DEF LookAtBlock, AimAtBlock, AimAtAir, Aimed, Finds, TargetAppears, GiveUp, SendStart,
     ReadCooldown, CoolEnds, BlindHoldEnds, ToFinish, Deaf
<1>7. ASSUME NEW t \in Threads,
             \/ Broke(t) \/ Stands(t) \/ Swing(t) \/ HoldIsOver(t) \/ LookAgain(t)
             \/ SendFinish(t)
      PROVE  TerrainType'
  BY <1>7 DEF Broke, Stands, Swing, HoldIsOver, ToFinish, LookAgain, SendFinish, Deaf
<1>8. ASSUME NEW t \in Threads,
             \/ AimToPlace(t) \/ SendPlace(t) \/ CannotConfirm(t) \/ Confirm(t) \/ Placed(t)
             \/ PlaceAgain(t)
      PROVE  TerrainType'
  BY <1>8 DEF AimToPlace, SendPlace, CannotConfirm, Confirm, Placed, PlaceAgain, Becomes
<1>9. ASSUME NEW t \in Threads, NEW verb \in Kinds, Begin(t, verb) PROVE TerrainType'
  BY <1>9 DEF Begin
<1>10. CASE UNCHANGED vars
  BY <1>10 DEF vars
<1> QED
  BY <1>1, <1>2, <1>3, <1>4, <1>5, <1>6, <1>7, <1>8, <1>9, <1>10 DEF Next, Server, Acts

\* What has gone wrong and what has been reported.
LEMMA GhostStep == GhostType /\ [Next]_vars => GhostType'
<1> SUFFICES ASSUME GhostType, [Next]_vars PROVE GhostType'
  OBVIOUS
<1> USE DEF GhostType, client, caller, server, ghosts
<1>1. CASE ServerTeleports \/ ServerKills \/ ServerUnloads \/ BlockReturns
  BY <1>1 DEF ServerTeleports, ServerKills, ServerUnloads, BlockReturns, Becomes, Upset
<1>2. CASE ServerRespawns \/ ServerSendsColumn \/ ServerBreaks \/ Disconnect \/ BreakCools
  BY <1>2 DEF ServerRespawns, ServerSendsColumn, ServerBreaks, Disconnect, BreakCools, Becomes
<1>3. CASE Others
  BY <1>3 DEF Others, TakeTeleport, TakeDeath, TakeRespawn, TakeTerrain, Outdated, IdleReports,
     SettleWindowPasses, PositionSent
<1>4. ASSUME NEW t \in Threads,
             \/ Settled(t) \/ Unsettled(t) \/ AnswerTeleport(t) \/ PauseEnds(t) \/ StillAlive(t)
             \/ Refused(t) \/ WriteFails(t) \/ CancelEndsVerb(t)
      PROVE  GhostType'
  BY <1>4 DEF Settled, Unsettled, AnswerTeleport, PauseEnds, StillAlive, Refused, WriteFails,
     CancelEndsVerb, PositionSent
<1>5. ASSUME NEW t \in Threads,
             \/ CancelEndsHold(t) \/ HoldEnds(t) \/ ReadInput(t) \/ StoreInput(t)
             \/ SendInput(t) \/ SendUse(t) \/ SendRelease(t)
      PROVE  GhostType'
  BY <1>5 DEF CancelEndsHold, HoldEnds, ReadInput, StoreInput, SendInput, SendUse, SendRelease, Deaf
<1>6. ASSUME NEW t \in Threads,
             \/ LookAtBlock(t) \/ AimAtBlock(t) \/ AimAtAir(t) \/ TargetAppears(t)
             \/ GiveUp(t) \/ SendStart(t) \/ ReadCooldown(t) \/ CoolEnds(t) \/ BlindHoldEnds(t)
      PROVE  GhostType'
  BY <1>6 DEF LookAtBlock, AimAtBlock, AimAtAir, Aimed, Finds, TargetAppears, GiveUp, SendStart,
     ReadCooldown, CoolEnds, BlindHoldEnds, ToFinish, Deaf
<1>7. ASSUME NEW t \in Threads,
             \/ Broke(t) \/ Stands(t) \/ Swing(t) \/ HoldIsOver(t) \/ LookAgain(t)
             \/ SendFinish(t)
      PROVE  GhostType'
  BY <1>7 DEF Broke, Stands, Swing, HoldIsOver, ToFinish, LookAgain, SendFinish, Deaf
<1>8. ASSUME NEW t \in Threads,
             \/ AimToPlace(t) \/ SendPlace(t) \/ CannotConfirm(t) \/ Confirm(t) \/ Placed(t)
             \/ PlaceAgain(t)
      PROVE  GhostType'
  BY <1>8 DEF AimToPlace, SendPlace, CannotConfirm, Confirm, Placed, PlaceAgain, Becomes
<1>9. ASSUME NEW t \in Threads, NEW verb \in Kinds, Begin(t, verb) PROVE GhostType'
  BY <1>9 DEF Begin
<1>10. CASE UNCHANGED vars
  BY <1>10 DEF vars
<1> QED
  BY <1>1, <1>2, <1>3, <1>4, <1>5, <1>6, <1>7, <1>8, <1>9, <1>10 DEF Next, Server, Acts

LEMMA WorldStep == WorldInv /\ [Next]_vars => WorldInv'
  BY ClientStep, ServerStep, TerrainStep, GhostStep DEF WorldInv

LEMMA InitWorld == Init => WorldInv
<1> SUFFICES ASSUME Init PROVE WorldInv
  OBVIOUS
<1>1. ClientType
  BY DEF Init, ClientType
<1>2. ServerType
  BY DEF Init, ServerType
<1>3. TerrainType
  BY VerbsAssumption DEF Init, TerrainType
<1>4. GhostType
  BY DEF Init, GhostType
<1> QED
  BY <1>1, <1>2, <1>3, <1>4 DEF WorldInv

-----------------------------------------------------------------------------
(* The last word on the block.                                             *)

\* The server says what has become of the block.
LEMMA WordSaid ==
  ASSUME inbox \in Seq(Packets), NEW w \in {"block", "air"},
         inbox' = Append(inbox, w), w = Seen(block')
  PROVE  inbox' \in Seq(Packets) /\ LastWordIsRight'
<1>1. PICK k \in Nat : k = Len(inbox)
  OBVIOUS
<1>2. w \in Packets
  BY DEF Packets, Words
<1>3. inbox' \in Seq(Packets) /\ Len(inbox') = k + 1 /\ inbox'[k + 1] = w
  BY <1>1, <1>2
<1> QED
  BY <1>3 DEF LastWordIsRight

\* A packet that does not concern the block.
LEMMA NothingSaid ==
  ASSUME inbox \in Seq(Packets), NEW w \in {"teleport", "death"},
         inbox' = Append(inbox, w), block' = block, view' = view, LastWordIsRight
  PROVE  LastWordIsRight'
<1>1. PICK k \in Nat : k = Len(inbox)
  OBVIOUS
<1>2. /\ Len(inbox') = k + 1 /\ inbox'[k + 1] = w /\ w \notin Words
      /\ \A i \in 1..k : inbox'[i] = inbox[i]
  BY <1>1 DEF Words
<1>3. CASE \E i \in 1..k : inbox[i] = Seen(block) /\ \A j \in 1..k : j > i => inbox[j] \notin Words
  <2>1. PICK i \in 1..k : inbox[i] = Seen(block) /\ \A j \in 1..k : j > i => inbox[j] \notin Words
    BY <1>3
  <2>2. i \in 1..(k + 1) /\ inbox'[i] = Seen(block')
    BY <1>2, <2>1 DEF Seen
  <2>3. \A j \in 1..(k + 1) : j > i => inbox'[j] \notin Words
    BY <1>2, <2>1
  <2> QED
    BY <1>2, <2>2, <2>3 DEF LastWordIsRight
<1>4. CASE view = Seen(block) /\ \A j \in 1..k : inbox[j] \notin Words
  <2>1. view' = Seen(block')
    BY <1>4 DEF Seen
  <2>2. \A j \in 1..(k + 1) : inbox'[j] \notin Words
    BY <1>2, <1>4
  <2> QED
    BY <1>2, <2>1, <2>2 DEF LastWordIsRight
<1> QED
  BY <1>1, <1>3, <1>4 DEF LastWordIsRight

\* The client takes a packet: it knows what the last word was when it has taken it.
LEMMA WordTaken ==
  ASSUME inbox \in Seq(Packets), inbox # <<>>, inbox' = Tail(inbox), block' = block,
         LastWordIsRight,
         Head(inbox) \notin Words => view' = view,
         Head(inbox) \in {"block", "air"} => view' = Head(inbox)
  PROVE  LastWordIsRight'
<1>1. PICK k \in Nat : k + 1 = Len(inbox)
  <2>1. Len(inbox) \in Nat /\ Len(inbox) # 0
    OBVIOUS
  <2>2. Len(inbox) - 1 \in Nat /\ (Len(inbox) - 1) + 1 = Len(inbox)
    BY <2>1
  <2> QED
    BY <2>2
<1>2. Len(inbox') = k /\ Head(inbox) = inbox[1] /\ \A i \in 1..k : inbox'[i] = inbox[i + 1]
  BY <1>1
<1>3. \A j \in 1..k : j + 1 \in 1..(k + 1)
  OBVIOUS
<1>4. CASE \E i \in 1..(k + 1) :
             inbox[i] = Seen(block) /\ \A j \in 1..(k + 1) : j > i => inbox[j] \notin Words
  <2>1. PICK i \in 1..(k + 1) :
             inbox[i] = Seen(block) /\ \A j \in 1..(k + 1) : j > i => inbox[j] \notin Words
    BY <1>4
  <2>2. CASE i = 1
    <3>1. view' = Seen(block')
      BY <1>2, <2>1, <2>2 DEF Seen
    <3>2. \A j \in 1..k : inbox'[j] \notin Words
      BY <1>2, <1>3, <2>1, <2>2
    <3> QED
      BY <1>2, <3>1, <3>2 DEF LastWordIsRight
  <2>3. CASE i # 1
    <3>1. PICK h \in 1..k : h + 1 = i
      <4>1. i - 1 \in 1..k /\ (i - 1) + 1 = i
        BY <2>1, <2>3
      <4> QED
        BY <4>1
    <3>2. inbox'[h] = Seen(block')
      BY <1>2, <2>1, <3>1 DEF Seen
    <3>3. \A j \in 1..k : j > h => inbox'[j] \notin Words
      BY <1>2, <1>3, <2>1, <3>1
    <3> QED
      BY <1>2, <3>2, <3>3 DEF LastWordIsRight
  <2> QED
    BY <2>2, <2>3
<1>5. CASE view = Seen(block) /\ \A j \in 1..(k + 1) : inbox[j] \notin Words
  <2>1. view' = Seen(block')
    BY <1>2, <1>5 DEF Seen
  <2>2. \A j \in 1..k : inbox'[j] \notin Words
    BY <1>2, <1>3, <1>5
  <2> QED
    BY <1>2, <2>1, <2>2 DEF LastWordIsRight
<1> QED
  BY <1>1, <1>4, <1>5 DEF LastWordIsRight

\* What becomes of the block is said to whoever has its column.
LEMMA BecomesSaid ==
  ASSUME inbox \in Seq(Packets), NEW there \in BOOLEAN, Becomes(there), sent' = sent,
         sent \in BOOLEAN
  PROVE  inbox' \in Seq(Packets) /\ (sent' => LastWordIsRight')
<1>1. CASE sent
  <2>1. PICK w : w = Seen(there)
    OBVIOUS
  <2>2. w \in {"block", "air"} /\ w = Seen(block') /\ inbox' = Append(inbox, w)
    BY <1>1, <2>1 DEF Becomes, Seen
  <2> QED
    BY <2>2, WordSaid
<1>2. CASE ~sent
  BY <1>2 DEF Becomes
<1> QED
  BY <1>1, <1>2

\* A thread that reports nothing.
LEMMA Unreported ==
  ASSUME ReportInv, UNCHANGED <<inbox, block, sent, view>>, claim' = claim, slips \subseteq slips'
  PROVE  ReportInv'
  BY DEF ReportInv, LastWordIsRight

LEMMA ReportStep == WorldInv /\ ReportInv /\ [Next]_vars => ReportInv'
<1> SUFFICES ASSUME WorldInv, ReportInv, [Next]_vars PROVE ReportInv'
  OBVIOUS
<1> USE DEF client, caller, server, ghosts
<1>a. /\ inbox \in Seq(Packets) /\ (sent => LastWordIsRight)
      /\ (claim = "gone" /\ "forgotten" \notin slips => view = "air")
      /\ (claim = "there" => view = "block")
      /\ sent \in BOOLEAN /\ block \in BOOLEAN
  BY DEF ReportInv, WorldInv, TerrainType
<1>b. ASSUME UNCHANGED <<claim, view, slips>>, inbox' \in Seq(Packets),
             sent' => LastWordIsRight'
      PROVE  ReportInv'
  BY <1>a, <1>b DEF ReportInv
<1>1. CASE ServerTeleports \/ ServerKills
  <2>1. PICK w \in {"teleport", "death"} : inbox' = inbox \o <<w>>
    BY <1>1 DEF ServerTeleports, ServerKills, Sends
  <2>2. inbox' = Append(inbox, w) /\ w \in Packets
    BY <1>a, <2>1 DEF Packets
  <2>3. UNCHANGED <<claim, view, slips, block, sent>>
    BY <1>1 DEF ServerTeleports, ServerKills
  <2>4. inbox' \in Seq(Packets)
    BY <1>a, <2>2
  <2>5. sent' => LastWordIsRight'
    BY <1>a, <2>2, <2>3, NothingSaid
  <2> QED
    BY <1>b, <2>3, <2>4, <2>5
<1>2. CASE ServerRespawns \/ ServerUnloads
  <2>1. inbox' = inbox \o <<"respawn", "teleport">> \/ inbox' = inbox \o <<"unload">>
    BY <1>2 DEF ServerRespawns, ServerUnloads, Sends
  <2>2. <<"respawn", "teleport">> \in Seq(Packets) /\ <<"unload">> \in Seq(Packets)
    BY DEF Packets, Words
  <2>3. inbox' \in Seq(Packets)
    <3>1. \A more \in Seq(Packets) : inbox \o more \in Seq(Packets)
      BY <1>a
    <3> QED
      BY <2>1, <2>2, <3>1
  <2>4. UNCHANGED <<claim, view, slips>> /\ sent' = FALSE
    BY <1>2 DEF ServerRespawns, ServerUnloads
  <2> QED
    BY <1>b, <2>3, <2>4
<1>3. CASE ServerSendsColumn
  <2>1. PICK w \in {"block", "air"} : w = Seen(block)
    BY DEF Seen
  <2>2. inbox' = Append(inbox, w) /\ w = Seen(block')
    BY <1>3, <1>a, <2>1 DEF ServerSendsColumn, Sends, Seen
  <2>3. UNCHANGED <<claim, view, slips>>
    BY <1>3 DEF ServerSendsColumn
  <2> QED
    BY <1>a, <1>b, <2>2, <2>3, WordSaid
<1>4. CASE ServerBreaks \/ BlockReturns
  <2>1. \E there \in BOOLEAN : Becomes(there)
    BY <1>4 DEF ServerBreaks, BlockReturns
  <2>2. UNCHANGED <<claim, view, slips, sent>>
    BY <1>4 DEF ServerBreaks, BlockReturns
  <2> QED
    BY <1>a, <1>b, <2>1, <2>2, BecomesSaid
<1>5. CASE Disconnect \/ BreakCools \/ IdleReports \/ SettleWindowPasses
  BY <1>5, Unreported DEF Disconnect, BreakCools, IdleReports, SettleWindowPasses
<1>6. ASSUME NEW w \in {"teleport", "death", "respawn", "block", "air", "unload"}, Takes(w),
             block' = block, sent' = sent, slips' = slips,
             w \in {"teleport", "death"} => view' = view /\ claim' = claim,
             w \notin {"teleport", "death"} => Outdated,
             w \in {"block", "air"} => view' = w
      PROVE  ReportInv'
  <2>1. inbox # <<>> /\ Head(inbox) = w /\ inbox' = Tail(inbox)
    BY <1>6 DEF Takes
  <2>2. inbox' \in Seq(Packets)
    BY <1>a, <2>1
  <2>3. Head(inbox) \notin Words => view' = view
    BY <1>6, <2>1 DEF Words
  <2>4. sent' => LastWordIsRight'
    BY <1>a, <1>6, <2>1, <2>3, WordTaken
  <2>5. CASE w \in {"teleport", "death"}
    BY <1>a, <1>6, <2>2, <2>4, <2>5 DEF ReportInv
  <2>6. CASE w \notin {"teleport", "death"}
    <3>1. claim' = IF view = "unloaded" THEN claim ELSE "none"
      BY <1>6, <2>6 DEF Outdated
    <3>2. /\ claim' # "there"
          /\ claim' = "gone" => "forgotten" \in slips'
      BY <1>a, <1>6, <3>1
    <3> QED
      BY <2>2, <2>4, <3>2 DEF ReportInv
  <2> QED
    BY <2>5, <2>6
<1>7. CASE TakeTeleport \/ TakeDeath
  BY <1>6, <1>7 DEF TakeTeleport, TakeDeath
<1>8. CASE TakeRespawn
  BY <1>6, <1>8 DEF TakeRespawn
<1>9. ASSUME NEW packet \in {"block", "air", "unload"}, TakeTerrain(packet) PROVE ReportInv'
  BY <1>6, <1>9 DEF TakeTerrain
<1>10. ASSUME NEW t \in Threads, Broke(t) PROVE ReportInv'
  <2>1. /\ view # "block" /\ claim' = "gone" /\ UNCHANGED <<inbox, block, sent, view>>
        /\ slips' = slips \cup (IF view = "unloaded" THEN {"forgotten"} ELSE {})
    BY <1>10 DEF Broke, BlockIsGone
  <2>2. view \in {"block", "air", "unloaded"}
    BY DEF WorldInv, ClientType
  <2>3. "forgotten" \notin slips' => view' = "air"
    BY <2>1, <2>2
  <2> QED
    BY <1>a, <2>1, <2>3 DEF ReportInv, LastWordIsRight
<1>11. ASSUME NEW t \in Threads, Placed(t) PROVE ReportInv'
  <2>1. view = "block" /\ claim' = "there" /\ UNCHANGED <<inbox, block, sent, view, slips>>
    BY <1>11 DEF Placed
  <2> QED
    BY <1>a, <2>1 DEF ReportInv, LastWordIsRight
<1>12. ASSUME NEW t \in Threads, SendPlace(t) PROVE ReportInv'
  <2>1. UNCHANGED <<claim, view, slips, sent>>
    BY <1>12 DEF SendPlace
  <2>2. CASE Becomes(TRUE)
    BY <1>a, <1>b, <2>1, <2>2, BecomesSaid
  <2>3. CASE UNCHANGED <<block, inbox>>
    BY <2>1, <2>3, Unreported
  <2> QED
    BY <1>12, <2>2, <2>3 DEF SendPlace
<1>13. ASSUME NEW t \in Threads,
             \/ Settled(t) \/ Unsettled(t) \/ AnswerTeleport(t) \/ PauseEnds(t)
             \/ StillAlive(t) \/ Refused(t) \/ WriteFails(t) \/ CancelEndsVerb(t)
             \/ CancelEndsHold(t) \/ HoldEnds(t) \/ ReadInput(t) \/ StoreInput(t)
       PROVE  ReportInv'
  BY <1>13, Unreported DEF Settled, Unsettled, AnswerTeleport, PauseEnds, StillAlive, Refused,
     WriteFails, CancelEndsVerb, CancelEndsHold, HoldEnds, ReadInput, StoreInput
<1>14. ASSUME NEW t \in Threads,
             \/ SendInput(t) \/ SendUse(t) \/ SendRelease(t) \/ LookAtBlock(t)
             \/ AimAtBlock(t) \/ AimAtAir(t)
             \/ TargetAppears(t) \/ GiveUp(t) \/ SendStart(t) \/ ReadCooldown(t)
             \/ CoolEnds(t) \/ BlindHoldEnds(t)
       PROVE  ReportInv'
  BY <1>14, Unreported DEF SendInput, SendUse, SendRelease, LookAtBlock, AimAtBlock,
     AimAtAir, Aimed, Finds,
     TargetAppears, GiveUp, SendStart, ReadCooldown, CoolEnds, BlindHoldEnds, ToFinish
<1>15. ASSUME NEW t \in Threads,
             \/ Stands(t) \/ Swing(t) \/ HoldIsOver(t) \/ LookAgain(t) \/ SendFinish(t)
             \/ AimToPlace(t) \/ CannotConfirm(t) \/ Confirm(t) \/ PlaceAgain(t)
       PROVE  ReportInv'
  BY <1>15, Unreported DEF Stands, Swing, HoldIsOver, ToFinish, LookAgain, SendFinish,
     AimToPlace, CannotConfirm, Confirm, PlaceAgain
<1>16. ASSUME NEW t \in Threads, NEW verb \in Kinds, Begin(t, verb) PROVE ReportInv'
  BY <1>16, Unreported DEF Begin
<1>17. CASE UNCHANGED vars
  BY <1>17, Unreported DEF vars
<1>18. CASE Server
  BY <1>18, <1>1, <1>2, <1>3, <1>4, <1>5 DEF Server
<1>19. CASE Others
  BY <1>19, <1>5, <1>7, <1>8, <1>9 DEF Others
<1>20. ASSUME NEW t \in Threads, Acts(t) PROVE ReportInv'
  BY <1>20, <1>10, <1>11, <1>12, <1>13, <1>14, <1>15 DEF Acts
<1> QED
  BY <1>5, <1>16, <1>17, <1>18, <1>19, <1>20 DEF Next

LEMMA InitReport == Init => ReportInv
<1> SUFFICES ASSUME Init PROVE ReportInv
  OBVIOUS
<1>1. inbox = <<>> /\ view = "block" /\ block = TRUE /\ claim = "none"
  BY DEF Init
<1>2. LastWordIsRight
  BY <1>1 DEF LastWordIsRight, Seen
<1> QED
  BY <1>1, <1>2 DEF ReportInv

-----------------------------------------------------------------------------
(* The theorems about what is counted and what is reported.                *)

\* No variable leaves its type: a verb ends with one break at most, a placement is
\* tried no more often than it may be, and what is counted stays within its bounds.
THEOREM TypeCorrect == Spec => []TypeOK
<1>1. IInv /\ BoundInv /\ WorldInv => TypeOK
  <2> SUFFICES ASSUME IInv, BoundInv, WorldInv PROVE TypeOK
    OBVIOUS
  <2>1. /\ at \in [Threads -> Points] /\ my \in [Threads -> Variables]
        /\ breaks \in Nat /\ cooled \in 0..breaks
    BY DEF IInv, TypeInv
  <2>2. Cardinality(Busy) \in Nat /\ breaks + Cardinality(Busy) <= begun /\ begun \in 0..MaxVerbs
    BY FS_CardinalityType DEF BoundInv
  <2>3. breaks \in 0..MaxVerbs /\ begun \in 0..MaxVerbs
    BY <2>1, <2>2, VerbsAssumption
  <2>4. \A t \in Threads : my[t].tries \in 0..PlaceAttempts /\ my[t].last \in 0..breaks
    BY <2>1 DEF BoundInv, Bounded, Variables, PlaceAttempts
  <2>5. input \subseteq Inputs /\ told \subseteq Inputs
    BY DEF BoundInv
  <2> QED
    BY <2>1, <2>3, <2>4, <2>5 DEF TypeOK, WorldInv, ClientType, ServerType, TerrainType,
       GhostType, Inputs
<1>2. Spec => []BoundInv
  BY InitBound, BoundStep, Invariance, PTL DEF Spec
<1>3. Spec => []WorldInv
  BY InitWorld, WorldStep, PTL DEF Spec
<1> QED
  BY Invariance, <1>1, <1>2, <1>3, PTL

\* "The only honest confirmation is the block actually changing" (awaitBreak,
\* confirmBlockBecame): once all that was said of the block has arrived it is as the
\* last dig or placement reported, unless a dig took terrain it was no longer sent
\* for a block that is gone.
THEOREM ReportTrue == Spec => []ReportIsTrue
<1>1. WorldInv /\ ReportInv => ReportIsTrue
  <2> SUFFICES ASSUME WorldInv, ReportInv, sent, inbox = <<>>, "forgotten" \notin slips
               PROVE  (claim = "gone" => ~block) /\ (claim = "there" => block)
    BY DEF ReportIsTrue
  <2>1. view = Seen(block)
    BY DEF ReportInv, LastWordIsRight
  <2> QED
    BY <2>1 DEF ReportInv, Seen, WorldInv, TerrainType
<1>2. Spec => []WorldInv
  BY InitWorld, WorldStep, PTL DEF Spec
<1>3. Spec => []ReportInv
  BY InitReport, ReportStep, <1>2, PTL DEF Spec
<1> QED
  BY <1>1, <1>2, <1>3, PTL
=============================================================================
