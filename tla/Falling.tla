------------------------------ MODULE Falling ------------------------------
(***************************************************************************)
(* How the bot comes down: Fall, FallTo, descend and surface of            *)
(* understudy/fall.go, over the terrain queries of understudy/world.go,    *)
(* while the reader goes on handling what the server sends.                *)
(*                                                                         *)
(* One goroutine falls (c.falling and the caller see to that, module       *)
(* Lifecycle).  Every access of it to what the reader also touches -       *)
(* Position, Corrections, Deaths, HasChunk, Scan, writePosition - takes a  *)
(* lock of its own, so each is a step, and the reader's handlers come in   *)
(* between.                                                                *)
(*                                                                         *)
(* Data.  Two columns of terrain.  Heights are integers; a tick of gravity *)
(* lowers the bot by 1 or 2.  Of the counters of corrections and deaths    *)
(* only the comparison with the value descend keeps is kept.               *)
(***************************************************************************)
EXTENDS Integers

CONSTANTS HereKind, HereY,     \* bound: the two columns, and the height at which
          ThereKind, ThereY,   \*   each stops a fall
          Top,                 \* bound: the server puts the bot at 0..Top
          MaxFall,             \* MaxFallBlocks
          MaxResumes,          \* maxFallResumes
          MaxSwim,             \* maxSurfaceTicks
          Sideways,            \* the server moves the bot to another column
          Unloading,           \* the server takes terrain away, or brings it late
          Guessing             \* FallTo is given heights that are not the floor's

Kinds == {"solid", "water", "lava", "void"}

ASSUME FallingAssumption ==
  /\ HereKind \in Kinds /\ ThereKind \in Kinds
  /\ Top \in Nat /\ HereY \in 0..Top /\ ThereY \in 0..Top
  /\ MaxFall \in Nat \ {0} /\ MaxResumes \in Nat /\ MaxSwim \in Nat
  /\ Sideways \in BOOLEAN /\ Unloading \in BOOLEAN /\ Guessing \in BOOLEAN

VARIABLES
  pos,         \* c.pos: [col, y]
  onGround,    \* c.onGround
  dead,        \* c.dead
  known,       \* the columns the world holds
  corrected,   \* descend has begun and c.Corrections() > corrections
  died,        \* descend has begun and c.Deaths() > deaths; ghost in surface, which
               \*   does not ask: the bot has died since it read what it sends
  at,          \* where the falling goroutine is
  fall,        \* its variables, a record
  where,       \* the position a terrain query is about, or a swim stroke's
  late         \* ghost: positions the loop of descend, or of surface, has sent since
               \*   a death, up to 2

vars == <<pos, onGround, dead, known, corrected, died, at, fall, where, late>>

body   == <<pos, onGround>>
news   == <<corrected, died>>
server == <<dead, known>>

-----------------------------------------------------------------------------
Columns == {"here", "there"}
Heights == 0..Top
None == Top + 1
Spots == [col : Columns, y : Heights]
Nowhere == [col |-> "here", y |-> 0]

KindOf(col) == IF col = "here" THEN HereKind ELSE ThereKind
FloorOf(col) == IF col = "here" THEN HereY ELSE ThereY

Lower(a, b) == IF a < b THEN a ELSE b
Higher(a, b) == IF a < b THEN b ELSE a

\* FindGround's scan downwards from below the feet.  Feet go into the top block
\* of water, whose bed is at 0, and onto anything else.
GroundY(spot) ==
  IF KindOf(spot.col) = "water" /\ spot.y > 0
  THEN Lower(spot.y - 1, FloorOf(spot.col))
  ELSE Lower(spot.y, FloorOf(spot.col))

InWater(spot) == KindOf(spot.col) = "water" /\ spot.y > 0

\* An unloaded column reads as air.
Found(spot) == spot.col \in known /\ KindOf(spot.col) # "void"

\* The block above the feet is water.
Submerged(spot) ==
  spot.col \in known /\ KindOf(spot.col) = "water" /\ spot.y < FloorOf(spot.col)

WaterSurfaceAbove(spot) ==
  IF spot.col \in known /\ KindOf(spot.col) = "water"
  THEN Higher(spot.y, FloorOf(spot.col)) ELSE spot.y

Ends == {"landed", "afloat", "standing", "unknown", "lava", "void", "ranout", "died",
         "failed"}
Points == Ends \cup
  {"rest", "wait", "start", "locate", "has", "scan", "enter", "count", "tick", "sleep",
   "alive", "judge", "adopt", "note", "land", "track", "head", "rise", "swim",
   "stroke", "float", "gasp"}

\* descend's variables and parameters, before it has any.
Still == [start |-> 0, col |-> "here", y |-> 0, target |-> None, water |-> FALSE,
          blind |-> FALSE, resumed |-> 0, swum |-> 0, going |-> FALSE]

Goes(from, to) == at = from /\ at' = to

\* The fall is over for a reason, and its variables are gone.
Stops(from, end) ==
  /\ Goes(from, end) /\ fall' = Still /\ where' = Nowhere
  /\ corrected' = FALSE /\ died' = FALSE

\* descend has returned nil: in Fall's water case the bot goes on to surface.
Returns(from, end) ==
  \/ /\ fall.water /\ Goes(from, "head") /\ where' = Nowhere
     /\ fall' = [Still EXCEPT !.water = TRUE]
     /\ corrected' = FALSE /\ died' = FALSE
  \/ ~fall.water /\ Stops(from, end)

\* sendPosition.
Sends(spot, ground) ==
  /\ pos' = spot /\ onGround' = ground
  /\ late' = IF died THEN Lower(late + 1, 2) ELSE late

Init ==
  /\ pos \in Spots /\ onGround = TRUE /\ dead = FALSE
  /\ known \in (IF Unloading THEN SUBSET Columns ELSE {Columns})
  /\ corrected = FALSE /\ died = FALSE
  /\ at = "rest" /\ fall = Still /\ where = Nowhere
  /\ late = 0

-----------------------------------------------------------------------------
(* Fall: autoFall's, EnsureGrounded's or a caller's.                       *)

\* The bot lives and, a bound, is at a height the server puts it at.
MayFall == at \in Ends \cup {"rest"} /\ ~dead /\ pos.y \in Heights

AutoFall ==
  /\ MayFall /\ at' = "wait"
  /\ UNCHANGED <<body, news, server, fall, where, late>>

\* The delay, then waitForChunk: the terrain is there or its timeout expires, and
\* Fall's requireAlive follows.
WaitEnds ==
  /\ \/ ~dead /\ Goes("wait", "start")
     \/ dead /\ Goes("wait", "failed")
  /\ UNCHANGED <<body, news, server, fall, where, late>>

StartFall ==
  /\ MayFall /\ at' = "start"
  /\ UNCHANGED <<body, news, server, fall, where, late>>

ReadStart ==
  /\ Goes("start", "locate")
  /\ fall' = [Still EXCEPT !.start = pos.y, !.y = pos.y, !.col = pos.col]
  /\ UNCHANGED <<body, news, server, where, late>>

\* FallTo, given a height.
StartFallTo(ground) ==
  /\ MayFall /\ at' = "enter"
  /\ Guessing \/ (KindOf(pos.col) # "void" /\ ground = FloorOf(pos.col))
  /\ pos.y > ground
  /\ fall' = [Still EXCEPT !.start = pos.y, !.y = pos.y, !.col = pos.col,
                           !.target = ground]
  /\ UNCHANGED <<body, news, server, where, late>>

-----------------------------------------------------------------------------
(* GroundBelow: asked by Fall, and by descend (going) after a correction.  *)

ReadPosition ==
  /\ Goes("locate", "has") /\ where' = pos
  /\ UNCHANGED <<body, news, server, fall, late>>

FindColumn ==
  /\ Goes("has", "scan") /\ where.col \in known
  /\ UNCHANGED <<body, news, server, fall, where, late>>

\* "Not falling: the column below has not been sent."
FallUnknown ==
  /\ ~fall.going /\ where.col \notin known /\ Stops("has", "unknown")
  /\ onGround' = TRUE
  /\ UNCHANGED <<pos, server, late>>

FallBlind ==
  /\ ~fall.going /\ ~Found(where) /\ Goes("scan", "enter")
  /\ fall' = [fall EXCEPT !.blind = TRUE]
  /\ where' = Nowhere
  /\ UNCHANGED <<body, news, server, late>>

FallStanding ==
  /\ ~fall.going /\ Found(where) /\ fall.start <= GroundY(where)
  /\ Stops("scan", "standing")
  /\ UNCHANGED <<body, server, late>>

FallRefused ==
  /\ ~fall.going /\ Found(where) /\ fall.start > GroundY(where)
  /\ KindOf(where.col) = "lava" /\ Stops("scan", "lava")
  /\ UNCHANGED <<body, server, late>>

FallToFloor ==
  /\ ~fall.going /\ Found(where) /\ fall.start > GroundY(where)
  /\ KindOf(where.col) # "lava" /\ Goes("scan", "enter")
  /\ fall' = [fall EXCEPT !.target = GroundY(where), !.water = InWater(where)]
  /\ where' = Nowhere
  /\ UNCHANGED <<body, news, server, late>>

-----------------------------------------------------------------------------
(* descend.                                                                *)

CountCorrections ==
  /\ Goes("enter", "count") /\ corrected' = FALSE
  /\ fall' = [fall EXCEPT !.going = TRUE]
  /\ UNCHANGED <<pos, onGround, died, server, where, late>>

CountDeaths ==
  /\ Goes("count", "tick") /\ died' = FALSE /\ late' = 0
  /\ UNCHANGED <<body, corrected, server, fall, where>>

Falls == fall.start - fall.y < MaxFall

\* A tick's descent reaches the floor ...
LandOnTarget(drop) ==
  /\ Falls /\ fall.target # None /\ fall.y - drop <= fall.target
  /\ Sends([col |-> fall.col, y |-> fall.target], ~fall.water)
  /\ Returns("tick", "landed")
  /\ UNCHANGED server

\* ... or does not, ...
Descend(drop) ==
  /\ Falls /\ ~(fall.target # None /\ fall.y - drop <= fall.target)
  /\ Goes("tick", "sleep")
  /\ fall' = [fall EXCEPT !.y = @ - drop]
  /\ Sends([col |-> fall.col, y |-> fall.y - drop], FALSE)
  /\ UNCHANGED <<news, server, where>>

\* ... or the packet, after the position is recorded, cannot be written.
SendFails(drop) ==
  /\ Falls /\ Stops("tick", "failed")
  /\ Sends([col |-> fall.col, y |-> fall.y - drop], FALSE)
  /\ UNCHANGED server

RunOut ==
  /\ ~Falls
  /\ \/ fall.blind /\ Stops("tick", "void")
     \/ ~fall.blind /\ Returns("tick", "ranout")
  /\ UNCHANGED <<body, server, late>>

SleepEnds ==
  /\ Goes("sleep", "alive")
  /\ UNCHANGED <<body, news, server, fall, where, late>>

FallCancelled ==
  /\ Stops("sleep", "failed") \/ Stops("gasp", "failed")
  /\ UNCHANGED <<body, server, late>>

\* Mutant of CheckDeath: only c.Dead() ends the fall.
CheckDeadOnly ==
  /\ \/ dead /\ Returns("alive", "died")
     \/ ~dead /\ Goes("alive", "judge") /\ UNCHANGED <<fall, where, news>>
  /\ UNCHANGED <<body, server, late>>

CheckDeath ==
  /\ \/ (died \/ dead) /\ Returns("alive", "died")
     \/ ~(died \/ dead) /\ Goes("alive", "judge") /\ UNCHANGED <<fall, where, news>>
  /\ UNCHANGED <<body, server, late>>

CheckCorrections ==
  /\ Goes("judge", IF corrected THEN "adopt" ELSE "track")
  /\ UNCHANGED <<body, news, server, fall, where, late>>

\* "Track sideways corrections", "and never claim to be higher."
Track ==
  /\ Goes("track", "tick")
  /\ fall' = [fall EXCEPT !.col = pos.col, !.y = Lower(@, pos.y)]
  /\ UNCHANGED <<body, news, server, where, late>>

\* From here on x, y, z are not used again, except to be set to what is read here.
Adopt ==
  /\ Goes("adopt", "note")
  /\ fall' = [fall EXCEPT !.col = pos.col, !.y = pos.y]
  /\ UNCHANGED <<body, news, server, where, late>>

\* Mutant of NoteCorrections: every correction is a landing.
NoteLanding ==
  /\ Goes("note", "land") /\ corrected' = FALSE
  /\ UNCHANGED <<pos, onGround, died, server, fall, where, late>>

NoteCorrections ==
  /\ Goes("note", IF fall.resumed < MaxResumes THEN "locate" ELSE "land")
  /\ corrected' = FALSE
  /\ UNCHANGED <<pos, onGround, died, server, fall, where, late>>

NotALanding == Found(where) /\ fall.y - GroundY(where) > 1

\* Mutants of Resume: resuming is not counted, or counted twice.
ResumeUncounted ==
  /\ fall.going /\ NotALanding /\ Goes("scan", "tick")
  /\ where' = Nowhere
  /\ UNCHANGED <<body, news, server, fall, late>>

ResumeTwice ==
  /\ fall.going /\ NotALanding /\ Goes("scan", "tick")
  /\ fall' = [fall EXCEPT !.resumed = @ + 2]
  /\ where' = Nowhere
  /\ UNCHANGED <<body, news, server, late>>

Resume ==
  /\ fall.going /\ NotALanding /\ Goes("scan", "tick")
  /\ fall' = [fall EXCEPT !.resumed = @ + 1]
  /\ where' = Nowhere
  /\ UNCHANGED <<body, news, server, late>>

\* "Landing is the safe reading."
TakeForLanding ==
  /\ fall.going
  /\ \/ Goes("has", "land") /\ where.col \notin known
     \/ Goes("scan", "land") /\ ~NotALanding
  /\ where' = Nowhere
  /\ UNCHANGED <<body, news, server, fall, late>>

LandHere ==
  /\ Sends([col |-> fall.col, y |-> fall.y], TRUE)
  /\ Returns("land", "landed") \/ Stops("land", "failed")
  /\ UNCHANGED server

-----------------------------------------------------------------------------
(* surface.  (The scan for the surface always finds one here.)             *)

HoldsBreath ==
  /\ \/ Submerged(pos) /\ Goes("head", "rise") /\ UNCHANGED <<fall, where, news>>
     \/ ~Submerged(pos) /\ Stops("head", "afloat")
  /\ UNCHANGED <<body, server, late>>

FindSurface ==
  /\ Goes("rise", "swim") /\ late' = 0
  /\ fall' = [fall EXCEPT !.target = WaterSurfaceAbove(pos)]
  /\ UNCHANGED <<body, news, server, where>>

Swim ==
  /\ fall.swum < MaxSwim
  /\ Goes("swim", IF pos.y >= fall.target \/ ~Submerged(pos) THEN "float" ELSE "stroke")
  /\ where' = pos /\ died' = dead /\ fall' = [fall EXCEPT !.swum = @ + 1]
  /\ UNCHANGED <<body, corrected, server, late>>

SwimTimesOut ==
  /\ fall.swum = MaxSwim /\ Stops("swim", "ranout")
  /\ UNCHANGED <<body, server, late>>

Stroke ==
  /\ \/ Goes("stroke", "gasp") /\ where' = Nowhere /\ UNCHANGED <<fall, news>>
     \/ Stops("stroke", "failed")
  /\ Sends([where EXCEPT !.y = Lower(@ + 1, fall.target)], FALSE)
  /\ UNCHANGED server

Float ==
  /\ Stops("float", "afloat") \/ Stops("float", "failed")
  /\ Sends(where, FALSE)
  /\ UNCHANGED server

\* Mutant of CatchBreath: the swim does not ask whether the bot lives.
SwimOn ==
  /\ Goes("gasp", "swim") /\ UNCHANGED <<fall, where, news>>
  /\ UNCHANGED <<body, server, late>>

CatchBreath ==
  /\ \/ dead /\ Stops("gasp", "died")
     \/ ~dead /\ Goes("gasp", "swim") /\ UNCHANGED <<fall, where, news>>
  /\ UNCHANGED <<body, server, late>>

-----------------------------------------------------------------------------
(* The reader.                                                             *)

\* handleTeleport.
Correct(spot) ==
  /\ Sideways \/ spot.col = pos.col
  /\ pos' = spot /\ onGround' = TRUE /\ corrected' = fall.going
  /\ UNCHANGED <<dead, known, died, at, fall, where, late>>

\* handleEntityMotion for this player; see Movement for what else it does.
Knock(spot) ==
  /\ Sideways /\ spot.y - pos.y \in -1..1
  /\ pos' = spot /\ onGround' = (onGround /\ spot.y = pos.y)
  /\ UNCHANGED <<news, server, at, fall, where, late>>

TakeDeath ==
  /\ dead' = TRUE
  /\ died' = IF fall.going \/ at \in {"stroke", "float"} THEN TRUE ELSE died
  /\ late' = IF fall.going THEN late ELSE 0
  /\ UNCHANGED <<body, corrected, known, at, fall, where>>

\* (c.dead and the world change in one step: nothing here reads one after the other.)
TakeRespawn ==
  /\ dead' = FALSE /\ known' = {}
  /\ UNCHANGED <<body, news, at, fall, where, late>>

StoreChunk(col) ==
  /\ known' = known \cup {col}
  /\ UNCHANGED <<body, news, dead, at, fall, where, late>>

DropChunk(col) ==
  /\ Unloading /\ known' = known \ {col}
  /\ UNCHANGED <<body, news, dead, at, fall, where, late>>

-----------------------------------------------------------------------------
GroundBelow == ReadPosition \/ FindColumn

Decide == FallUnknown \/ FallBlind \/ FallStanding \/ FallRefused \/ FallToFloor

Tick == RunOut \/ \E drop \in {1, 2} : LandOnTarget(drop) \/ Descend(drop)

Judge == SleepEnds \/ CheckDeath \/ CheckCorrections \/ Track \/ Adopt
         \/ NoteCorrections \/ Resume \/ TakeForLanding \/ LandHere

Surface == HoldsBreath \/ FindSurface \/ Swim \/ SwimTimesOut \/ Stroke \/ Float
           \/ CatchBreath

Faller == WaitEnds \/ ReadStart \/ GroundBelow \/ Decide
          \/ CountCorrections \/ CountDeaths \/ Tick \/ Judge \/ Surface

Surroundings ==
  \/ AutoFall \/ StartFall \/ FallCancelled \/ TakeDeath \/ TakeRespawn
  \/ \E ground \in Heights : StartFallTo(ground)
  \/ \E drop \in {1, 2} : SendFails(drop)
  \/ \E spot \in Spots : Correct(spot) \/ Knock(spot)
  \/ \E col \in Columns : StoreChunk(col) \/ DropChunk(col)

Next == Faller \/ Surroundings

Spec == Init /\ [][Next]_vars

\* The goroutine is in conn.Write, which has no deadline: a server that reads no
\* more blocks it for good.
Writing == (at = "tick" /\ Falls) \/ at \in {"land", "stroke", "float"}

\* The falling goroutine runs and its ticker ticks.  A write need never return, and
\* nothing is assumed of what the server sends.
FairSpec == Spec /\ WF_vars(~Writing /\ Faller)

-----------------------------------------------------------------------------
(* Properties.                                                             *)

Depths == -(MaxFall + 2)..Top

TypeOK ==
  /\ pos \in [col : Columns, y : Depths] /\ onGround \in BOOLEAN /\ dead \in BOOLEAN
  /\ known \subseteq Columns /\ corrected \in BOOLEAN /\ died \in BOOLEAN
  /\ at \in Points /\ where \in [col : Columns, y : Depths]
  /\ fall \in [start : Depths, col : Columns, y : Depths, target : Depths \cup {None},
               water : BOOLEAN, blind : BOOLEAN, resumed : 0..MaxResumes,
               swum : 0..MaxSwim, going : BOOLEAN]
  /\ late \in 0..2

\* "The bound is what stops a bot that really has landed from arguing with the
\* server about it forever": a fall ends whatever the server sends while it lasts,
\* unless a write of it blocks for good.
FallEnds == at = "start" ~> at \in Ends \/ []Writing

\* "A death has to end the fall rather than let it run on stale coordinates":
\* after a death descend still sends at most the packet that was on its way, even if
\* the bot has respawned by the time the loop looks; and surface, which a death in
\* water leads to or meets, at most one position that it read in the former life or
\* while dead.  (A death before descend has read Deaths is no news to it, and after
\* a respawn surface goes on, from positions it reads anew.)
DeathEndsFall == late <= 1

NearFloor(spot) ==
  (spot.col \in known /\ KindOf(spot.col) # "void") => spot.y - FloorOf(spot.col) <= 1

\* "Treating every correction as a landing is what produced the flying kick": a
\* fall takes itself for landed only on a floor, if it knows the terrain and has
\* not resumed as often as it may.
LandsOnFloor ==
  [][ /\ (at = "tick" /\ at' = "landed" /\ onGround') => NearFloor(pos')
      /\ (at \in {"note", "scan"} /\ at' = "land" /\ fall.resumed < MaxResumes)
           => NearFloor([col |-> fall.col, y |-> fall.y]) ]_vars
=============================================================================
