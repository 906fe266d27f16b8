-------------------------- MODULE FallingProofs --------------------------
(***************************************************************************)
(* Proofs about Falling, for any two columns of terrain and any bounds.    *)
(*                                                                         *)
(* DeathEndsFall is not inductive: LateInv adds that nothing has been sent *)
(* late wherever descend may still send without having asked about deaths  *)
(* again, and that after a late packet the death is still to be seen when  *)
(* it does ask: descend is then under way (GoingInv), so that it counts    *)
(* the deaths there are.  In surface nothing has been sent late before a   *)
(* stroke that is: it leads to the question whether the bot lives.         *)
(***************************************************************************)
EXTENDS Falling, TLAPS

\* descend is past its look at the deaths, and may send before the next.
SendPoints == {"tick", "judge", "adopt", "note", "land", "track"}
QueryPoints == {"locate", "has", "scan"}
SwimPoints == {"swim", "stroke", "float", "gasp"}

\* While descend runs, and only then, corrections and deaths are counted.
GoingInv ==
  /\ "going" \in DOMAIN fall
  /\ at \in SwimPoints \cup {"head", "rise"} => ~fall.going
  /\ at \in SendPoints \cup {"count", "sleep", "alive"} => fall.going

\* What has been sent since a death, by where descend or surface is.
LateInv ==
  /\ GoingInv
  /\ late \in {0, 1}
  /\ at \in SendPoints => late = 0
  /\ at \in QueryPoints /\ fall.going => late = 0
  /\ at \in {"sleep", "alive"} => late = 0 \/ died
  /\ at = "swim" /\ dead => late = 0
  /\ at \in {"stroke", "float"} /\ died => late = 0

LEMMA InitLate == Init => LateInv
  BY DEF Init, LateInv, GoingInv, SendPoints, QueryPoints, SwimPoints, Still

\* A fall that ends, or that goes on to the surface, is at no such point.
LEMMA EndsQuiet ==
  ASSUME NEW from, NEW end \in Ends, Stops(from, end) \/ Returns(from, end)
  PROVE  /\ at' \notin SendPoints \cup QueryPoints \cup SwimPoints
                        \cup {"count", "sleep", "alive"}
         /\ "going" \in DOMAIN fall' /\ ~fall'.going
  BY DEF Stops, Returns, Goes, Ends, SendPoints, QueryPoints, SwimPoints, Still

\* A position that is sent when nothing was late is the first late one.
LEMMA FirstLate ==
  ASSUME late \in {0, 1}, died => late = 0, NEW spot, NEW ground, Sends(spot, ground)
  PROVE  /\ late' \in {0, 1}
         /\ late = 0 => late' = 0 \/ died
  BY DEF Sends, Lower

-----------------------------------------------------------------------------
LEMMA LateStep == LateInv /\ [Next]_vars => LateInv'
<1> SUFFICES ASSUME LateInv, [Next]_vars PROVE LateInv'
  OBVIOUS
<1> USE DEF LateInv, GoingInv, SendPoints, QueryPoints, SwimPoints, body, news, server
<1>1. CASE WaitEnds \/ ReadStart
  BY <1>1 DEF WaitEnds, ReadStart, Goes, Still
<1>2. CASE GroundBelow
  BY <1>2 DEF GroundBelow, ReadPosition, FindColumn, Goes
<1>3. CASE Decide
  BY <1>3, EndsQuiet DEF Decide, FallUnknown, FallBlind, FallStanding, FallRefused,
     FallToFloor, Goes, Ends
<1>4. CASE CountCorrections \/ CountDeaths
  BY <1>4 DEF CountCorrections, CountDeaths, Goes
<1>5. CASE RunOut
  BY <1>5, EndsQuiet DEF RunOut, Ends
<1>6. ASSUME NEW drop \in {1, 2}, LandOnTarget(drop) PROVE LateInv'
  <2>1. /\ at = "tick" /\ "going" \in DOMAIN fall' /\ ~fall'.going
        /\ at' \notin SendPoints \cup QueryPoints \cup SwimPoints
                       \cup {"count", "sleep", "alive"}
    BY <1>6, EndsQuiet DEF LandOnTarget, Returns, Stops, Goes, Ends
  <2> QED
    BY <1>6, <2>1, FirstLate DEF LandOnTarget
<1>7. ASSUME NEW drop \in {1, 2}, Descend(drop) PROVE LateInv'
  BY <1>7, FirstLate DEF Descend, Goes
<1>8. ASSUME NEW drop \in {1, 2}, SendFails(drop) PROVE LateInv'
  <2>1. /\ at = "tick" /\ "going" \in DOMAIN fall' /\ ~fall'.going
        /\ at' \notin SendPoints \cup QueryPoints \cup SwimPoints
                       \cup {"count", "sleep", "alive"}
    BY <1>8, EndsQuiet DEF SendFails, Stops, Goes, Ends
  <2> QED
    BY <1>8, <2>1, FirstLate DEF SendFails
<1>9. CASE SleepEnds \/ CheckCorrections \/ Track \/ Adopt \/ NoteCorrections
  BY <1>9 DEF SleepEnds, CheckCorrections, Track, Adopt, NoteCorrections, Goes
<1>10. CASE CheckDeath
  BY <1>10, EndsQuiet DEF CheckDeath, Goes, Ends
<1>11. CASE Resume \/ TakeForLanding
  BY <1>11 DEF Resume, TakeForLanding, Goes
<1>12. CASE LandHere
  <2>1. /\ at = "land" /\ "going" \in DOMAIN fall' /\ ~fall'.going
        /\ at' \notin SendPoints \cup QueryPoints \cup SwimPoints
                       \cup {"count", "sleep", "alive"}
    BY <1>12, EndsQuiet DEF LandHere, Returns, Stops, Goes, Ends
  <2> QED
    BY <1>12, <2>1, FirstLate DEF LandHere
<1>13. CASE HoldsBreath \/ FindSurface \/ Swim \/ SwimTimesOut \/ CatchBreath
  BY <1>13, EndsQuiet DEF HoldsBreath, FindSurface, Swim, SwimTimesOut, CatchBreath,
     Goes, Ends
<1>20. CASE Stroke \/ Float
  <2>1. late' \in {0, 1}
    <3>1. at \in {"stroke", "float"}
      BY <1>20 DEF Stroke, Float, Stops, Goes
    <3> QED
      BY <1>20, <3>1, FirstLate DEF Stroke, Float
  <2>2. CASE \E end \in Ends : Stops("stroke", end) \/ Stops("float", end)
    BY <2>1, <2>2, EndsQuiet
  <2>3. CASE Goes("stroke", "gasp") /\ UNCHANGED fall
    BY <2>1, <2>3 DEF Goes
  <2> QED
    BY <1>20, <2>2, <2>3 DEF Stroke, Float, Ends
<1>14. CASE AutoFall \/ StartFall \/ FallCancelled
  BY <1>14, EndsQuiet DEF AutoFall, StartFall, FallCancelled, MayFall, Ends
<1>15. ASSUME NEW ground \in Heights, StartFallTo(ground) PROVE LateInv'
  BY <1>15 DEF StartFallTo, Still
<1>16. CASE TakeDeath
  <2>1. UNCHANGED <<at, fall>>
    BY <1>16 DEF TakeDeath
  <2>2. CASE fall.going
    <3>1. died' /\ late' = late
      BY <1>16, <2>2 DEF TakeDeath
    <3> QED
      BY <2>1, <2>2, <3>1
  <2>3. CASE ~fall.going
    <3>1. late' = 0
      BY <1>16, <2>3 DEF TakeDeath
    <3> QED
      BY <2>1, <2>3, <3>1
  <2> QED
    BY <2>2, <2>3
<1>21. CASE TakeRespawn
  BY <1>21 DEF TakeRespawn
<1>17. ASSUME NEW spot \in Spots, Correct(spot) \/ Knock(spot) PROVE LateInv'
  BY <1>17 DEF Correct, Knock
<1>18. ASSUME NEW col \in Columns, StoreChunk(col) \/ DropChunk(col) PROVE LateInv'
  BY <1>18 DEF StoreChunk, DropChunk
<1>19. CASE UNCHANGED vars
  BY <1>19 DEF vars
<1> QED
  BY <1>1, <1>2, <1>3, <1>4, <1>5, <1>6, <1>7, <1>8, <1>9, <1>10, <1>11, <1>12,
     <1>13, <1>14, <1>15, <1>16, <1>17, <1>18, <1>19, <1>20,
     <1>21
     DEF Next, Faller, Surroundings, Tick, Judge, Surface

\* "A death has to end the fall rather than let it run on stale coordinates":
\* after a death descend (fall.go), once it has read Deaths, sends at most the packet
\* that was on its way, and surface at most one position that it read in the former
\* life or while dead.
THEOREM LateDeath == Spec => []DeathEndsFall
<1>1. LateInv => DeathEndsFall
  BY DEF LateInv, DeathEndsFall
<1> QED
  BY InitLate, LateStep, <1>1, PTL DEF Spec

-----------------------------------------------------------------------------
(* TypeOK is not inductive either.  That a fall goes no deeper than        *)
(* MaxFall + 2 needs its start to be a height of the server's; that it     *)
(* resumes no oftener than it may, the answer to Resume's question between *)
(* NoteCorrections and Resume; that a stroke ends at a height, the surface *)
(* that surface has found before.                                          *)

\* Where the numbers in the variables of the fall come from.
RangeInv ==
  /\ at \in {"wait", "start"} => pos.y \in Heights
  /\ fall.start \in Heights
  /\ at \in QueryPoints /\ fall.going => fall.resumed < MaxResumes
  /\ at \in SwimPoints => fall.target \in Depths

TypeInv == TypeOK /\ RangeInv

\* A height is a depth, and so is what is no deeper than one.
LEMMA DepthFacts ==
  /\ Heights \subseteq Depths /\ Depths \subseteq Int
  /\ \A a, b \in Depths : Lower(a, b) \in Depths /\ Higher(a, b) \in Depths
  /\ \A col \in Columns : FloorOf(col) \in Heights
  BY FallingAssumption DEF Heights, Depths, Lower, Higher, FloorOf, Columns

LEMMA StillType ==
  /\ Still \in [start : Depths, col : Columns, y : Depths, target : Depths \cup {None},
                water : BOOLEAN, blind : BOOLEAN, resumed : 0..MaxResumes,
                swum : 0..MaxSwim, going : BOOLEAN]
  /\ Still.start \in Heights
  /\ Nowhere \in [col : Columns, y : Depths]
  BY FallingAssumption DEF Still, Nowhere, Depths, Heights, None, Columns

LEMMA InitRange == Init => TypeInv
<1> SUFFICES ASSUME Init PROVE TypeInv
  OBVIOUS
<1>1. pos \in [col : Columns, y : Heights] /\ known \subseteq Columns
  BY DEF Init, Spots
<1>2. pos \in [col : Columns, y : Depths]
  BY <1>1, DepthFacts
<1>3. /\ fall = Still /\ where = Nowhere /\ at = "rest" /\ late = 0 /\ onGround = TRUE
      /\ dead = FALSE /\ corrected = FALSE /\ died = FALSE
  BY DEF Init
<1>4. at \in Points /\ at \notin {"wait", "start"} \cup QueryPoints \cup SwimPoints
  BY <1>3 DEF Points, QueryPoints, SwimPoints
<1>5. TypeOK
  <2>1. late \in 0..2 /\ onGround \in BOOLEAN /\ dead \in BOOLEAN /\ corrected \in BOOLEAN
        /\ died \in BOOLEAN
    <3>1. late \in 0..2
      BY <1>3
    <3> QED
      BY <1>3, <3>1, Zenon
  <2>2. where \in [col : Columns, y : Depths]
    BY <1>3, StillType
  <2>3. fall \in [start : Depths, col : Columns, y : Depths, target : Depths \cup {None},
                water : BOOLEAN, blind : BOOLEAN, resumed : 0..MaxResumes,
                swum : 0..MaxSwim, going : BOOLEAN]
    BY <1>3, StillType
  <2> QED
    BY <1>1, <1>2, <1>4, <2>1, <2>2, <2>3, Zenon DEF TypeOK
<1>6. RangeInv
  <2>1. ~(at \in {"wait", "start"}) /\ ~(at \in QueryPoints) /\ ~(at \in SwimPoints)
    BY <1>4
  <2> QED
    BY <2>1, <1>3, StillType DEF RangeInv
<1> QED
  BY <1>5, <1>6 DEF TypeInv

\* The end of a fall, or of its descent, leaves no variables.
LEMMA EndsTyped ==
  ASSUME TypeInv, NEW from, NEW end \in Ends, Stops(from, end) \/ Returns(from, end),
         pos' \in [col : Columns, y : Depths], onGround' \in BOOLEAN, dead' \in BOOLEAN,
         known' \subseteq Columns, late' \in 0..2
  PROVE  TypeInv'
<1>1. fall' = Still \/ fall' = [Still EXCEPT !.water = TRUE]
  BY DEF Stops, Returns
<1>2. /\ fall' \in [start : Depths, col : Columns, y : Depths, target : Depths \cup {None},
                    water : BOOLEAN, blind : BOOLEAN, resumed : 0..MaxResumes,
                    swum : 0..MaxSwim, going : BOOLEAN]
      /\ fall'.start \in Heights
  BY <1>1, StillType
<1>3. /\ at' \in Points /\ at' \notin {"wait", "start"} \cup QueryPoints \cup SwimPoints
      /\ where' = Nowhere /\ corrected' = FALSE /\ died' = FALSE
  BY DEF Stops, Returns, Goes, Ends, Points, QueryPoints, SwimPoints
<1> QED
  BY <1>2, <1>3, StillType DEF TypeInv, TypeOK, RangeInv

\* A position that is sent is one, and counted up to 2.
LEMMA SendsTyped ==
  ASSUME TypeInv, NEW spot \in [col : Columns, y : Depths], NEW ground \in BOOLEAN,
         Sends(spot, ground)
  PROVE  pos' \in [col : Columns, y : Depths] /\ onGround' \in BOOLEAN /\ late' \in 0..2
  BY DEF Sends, Lower, TypeInv, TypeOK

\* A tick of gravity under the bound of descend.
LEMMA DropTyped ==
  ASSUME TypeInv, Falls, NEW drop \in {1, 2}
  PROVE  fall.y - drop \in Depths
  BY FallingAssumption DEF TypeInv, TypeOK, RangeInv, Falls, Depths, Heights

-----------------------------------------------------------------------------
LEMMA FallRange ==
  ASSUME TypeInv, WaitEnds \/ ReadStart \/ GroundBelow \/ Decide
  PROVE  TypeInv'
<1> USE DEF TypeInv, TypeOK, RangeInv, body, news, server
<1> USE DEF Points, QueryPoints, SwimPoints
<1>1. CASE WaitEnds
  BY <1>1 DEF WaitEnds, Goes, Ends
<1>2. CASE ReadStart
  BY <1>2, StillType, DepthFacts DEF ReadStart, Goes, Still, Heights
<1>3. CASE GroundBelow
  BY <1>3 DEF GroundBelow, ReadPosition, FindColumn, Goes
<1>4. CASE FallUnknown \/ FallStanding \/ FallRefused
  <2>1. \E end \in Ends : Stops("has", end) \/ Stops("scan", end)
    BY <1>4 DEF FallUnknown, FallStanding, FallRefused, Ends
  <2>2. UNCHANGED <<pos, dead, known, late>> /\ onGround' \in BOOLEAN
    BY <1>4 DEF FallUnknown, FallStanding, FallRefused
  <2> HIDE DEF TypeInv
  <2>3. /\ pos' \in [col : Columns, y : Depths] /\ dead' \in BOOLEAN
        /\ known' \subseteq Columns /\ late' \in 0..2
    BY <2>2 DEF TypeInv
  <2> QED
    BY <2>1, <2>2, <2>3, EndsTyped
<1>5. CASE FallBlind
  BY <1>5, StillType DEF FallBlind, Goes
<1>6. CASE FallToFloor
  <2>1. GroundY(where) \in Depths
    <3>1. where.col \in Columns /\ where.y \in Depths /\ where.y \in Int
      BY DepthFacts
    <3>2. where.y > 0 => where.y - 1 \in Depths
      BY <3>1, FallingAssumption DEF Depths
    <3> QED
      BY <3>1, <3>2, DepthFacts DEF GroundY
  <2> QED
    BY <1>6, <2>1, StillType DEF FallToFloor, Goes, InWater
<1> QED
  BY <1>1, <1>2, <1>3, <1>4, <1>5, <1>6 DEF Decide

-----------------------------------------------------------------------------
LEMMA DescendRange ==
  ASSUME TypeInv,
         CountCorrections \/ CountDeaths \/ Tick \/ FallCancelled
           \/ (\E drop \in {1, 2} : SendFails(drop))
  PROVE  TypeInv'
<1> USE DEF body, news, server
<1>a. pos \in [col : Columns, y : Depths] /\ onGround \in BOOLEAN /\ dead \in BOOLEAN
      /\ known \subseteq Columns /\ late \in 0..2
  BY DEF TypeInv, TypeOK
<1>b. fall.col \in Columns /\ fall.target \in Depths \cup {None} /\ fall.water \in BOOLEAN
  BY DEF TypeInv, TypeOK
<1>1. CASE CountCorrections
  BY <1>1 DEF CountCorrections, Goes, TypeInv, TypeOK, RangeInv, Points, QueryPoints,
     SwimPoints
<1>2. CASE CountDeaths
  <2>1. at' \in Points /\ late' \in 0..2 /\ RangeInv'
    BY <1>2 DEF CountDeaths, Goes, TypeInv, RangeInv, Points, QueryPoints, SwimPoints
  <2>2. died' \in BOOLEAN
    BY <1>2, Zenon DEF CountDeaths
  <2>3. UNCHANGED <<pos, onGround, corrected, dead, known, fall, where>>
    BY <1>2 DEF CountDeaths
  <2> QED
    BY <2>1, <2>2, <2>3 DEF TypeInv, TypeOK
<1>3. CASE RunOut
  <2>1. \E end \in Ends : Stops("tick", end) \/ Returns("tick", end)
    BY <1>3 DEF RunOut, Ends
  <2> QED
    BY <1>3, <2>1, <1>a, EndsTyped DEF RunOut
<1>4. ASSUME NEW drop \in {1, 2}, LandOnTarget(drop) PROVE TypeInv'
  <2>1. [col |-> fall.col, y |-> fall.target] \in [col : Columns, y : Depths]
        /\ (~fall.water) \in BOOLEAN
    BY <1>4, <1>b DEF LandOnTarget
  <2>2. /\ pos' \in [col : Columns, y : Depths] /\ onGround' \in BOOLEAN /\ late' \in 0..2
        /\ dead' = dead /\ known' = known
    BY <1>4, <2>1, SendsTyped DEF LandOnTarget
  <2>3. "landed" \in Ends /\ Returns("tick", "landed")
    BY <1>4 DEF LandOnTarget, Ends
  <2> QED
    BY <2>2, <2>3, <1>a, EndsTyped
<1>5. ASSUME NEW drop \in {1, 2}, Falls
      PROVE  [col |-> fall.col, y |-> fall.y - drop] \in [col : Columns, y : Depths]
  BY <1>5, <1>b, DropTyped
<1>6. ASSUME NEW drop \in {1, 2}, Descend(drop) PROVE TypeInv'
  <2>1. Falls /\ fall.y - drop \in Depths
    BY <1>6, DropTyped DEF Descend
  <2>2. pos' \in [col : Columns, y : Depths] /\ onGround' \in BOOLEAN /\ late' \in 0..2
    BY <1>5, <1>6, <2>1, SendsTyped DEF Descend
  <2> QED
    BY <1>6, <2>1, <2>2 DEF Descend, Goes, TypeInv, TypeOK, RangeInv, Points, QueryPoints,
       SwimPoints
<1>7. ASSUME NEW drop \in {1, 2}, SendFails(drop) PROVE TypeInv'
  <2>1. /\ pos' \in [col : Columns, y : Depths] /\ onGround' \in BOOLEAN /\ late' \in 0..2
        /\ dead' = dead /\ known' = known
    BY <1>5, <1>7, SendsTyped DEF SendFails
  <2>2. "failed" \in Ends /\ Stops("tick", "failed")
    BY <1>7 DEF SendFails, Ends
  <2> QED
    BY <2>1, <2>2, <1>a, EndsTyped
<1>8. CASE FallCancelled
  <2>1. "failed" \in Ends /\ (Stops("sleep", "failed") \/ Stops("gasp", "failed"))
    BY <1>8 DEF FallCancelled, Ends
  <2> QED
    BY <1>8, <2>1, <1>a, EndsTyped DEF FallCancelled
<1> QED
  BY <1>1, <1>2, <1>3, <1>4, <1>6, <1>7, <1>8 DEF Tick

LEMMA JudgeRange ==
  ASSUME TypeInv, Judge
  PROVE  TypeInv'
<1> USE DEF body, news, server
<1>a. pos \in [col : Columns, y : Depths] /\ onGround \in BOOLEAN /\ dead \in BOOLEAN
      /\ known \subseteq Columns /\ late \in 0..2
  BY DEF TypeInv, TypeOK
<1>1. CASE SleepEnds \/ CheckCorrections \/ NoteCorrections \/ Adopt
  BY <1>1 DEF SleepEnds, CheckCorrections, NoteCorrections, Adopt, Goes, TypeInv, TypeOK,
     RangeInv, Points, QueryPoints, SwimPoints
<1>2. CASE Track
  <2>1. fall.y \in Depths /\ pos.y \in Depths /\ pos.col \in Columns
    BY DEF TypeInv, TypeOK
  <2>2. Lower(fall.y, pos.y) \in Depths
    BY <2>1, DepthFacts
  <2> QED
    BY <1>2, <2>1, <2>2 DEF Track, Goes, TypeInv, TypeOK, RangeInv, Points, QueryPoints,
       SwimPoints
<1>3. CASE CheckDeath
  <2>1. CASE Returns("alive", "died")
    BY <1>3, <2>1, <1>a, EndsTyped DEF CheckDeath, Ends
  <2>2. CASE Goes("alive", "judge") /\ UNCHANGED <<fall, where, news>>
    BY <1>3, <2>2 DEF CheckDeath, Goes, TypeInv, TypeOK, RangeInv, Points, QueryPoints,
       SwimPoints
  <2> QED
    BY <1>3, <2>1, <2>2 DEF CheckDeath
<1>4. CASE Resume
  <2>1. fall.resumed \in 0..MaxResumes /\ fall.resumed < MaxResumes
    BY <1>4 DEF Resume, Goes, TypeInv, TypeOK, RangeInv, QueryPoints
  <2>2. fall.resumed + 1 \in 0..MaxResumes
    BY <2>1, FallingAssumption
  <2> QED
    BY <1>4, <2>2, StillType DEF Resume, Goes, TypeInv, TypeOK, RangeInv, Points,
       QueryPoints, SwimPoints
<1>5. CASE TakeForLanding
  BY <1>5, StillType DEF TakeForLanding, Goes, TypeInv, TypeOK, RangeInv, Points,
     QueryPoints, SwimPoints
<1>6. CASE LandHere
  <2>1. [col |-> fall.col, y |-> fall.y] \in [col : Columns, y : Depths]
    BY DEF TypeInv, TypeOK
  <2>2. /\ pos' \in [col : Columns, y : Depths] /\ onGround' \in BOOLEAN /\ late' \in 0..2
        /\ dead' = dead /\ known' = known
    BY <1>6, <2>1, SendsTyped DEF LandHere
  <2>3. "landed" \in Ends /\ "failed" \in Ends
        /\ (Returns("land", "landed") \/ Stops("land", "failed"))
    BY <1>6 DEF LandHere, Ends
  <2> QED
    BY <2>2, <2>3, <1>a, EndsTyped
<1> QED
  BY <1>1, <1>2, <1>3, <1>4, <1>5, <1>6 DEF Judge

LEMMA SurfaceRange ==
  ASSUME TypeInv, Surface
  PROVE  TypeInv'
<1> USE DEF body, news, server
<1>a. pos \in [col : Columns, y : Depths] /\ onGround \in BOOLEAN /\ dead \in BOOLEAN
      /\ known \subseteq Columns /\ late \in 0..2 /\ where \in [col : Columns, y : Depths]
  BY DEF TypeInv, TypeOK
<1>b. "afloat" \in Ends /\ "ranout" \in Ends /\ "failed" \in Ends /\ "died" \in Ends
  BY DEF Ends
<1>1. CASE HoldsBreath
  <2>1. CASE Stops("head", "afloat")
    BY <1>1, <2>1, <1>a, <1>b, EndsTyped DEF HoldsBreath
  <2>2. CASE Goes("head", "rise") /\ UNCHANGED <<fall, where, news>>
    BY <1>1, <2>2 DEF HoldsBreath, Goes, TypeInv, TypeOK, RangeInv, Points, QueryPoints,
       SwimPoints
  <2> QED
    BY <1>1, <2>1, <2>2 DEF HoldsBreath
<1>2. CASE FindSurface
  <2>0. late' = 0
    BY <1>2 DEF FindSurface
  <2>1. WaterSurfaceAbove(pos) \in Depths
    BY <1>a, DepthFacts DEF WaterSurfaceAbove
  <2> QED
    BY <1>2, <2>0, <2>1 DEF FindSurface, Goes, TypeInv, TypeOK, RangeInv, Points, QueryPoints,
       SwimPoints
<1>3. CASE Swim
  <2>1. fall.swum \in 0..MaxSwim /\ fall.swum < MaxSwim
    BY <1>3 DEF Swim, TypeInv, TypeOK
  <2>2. fall.swum + 1 \in 0..MaxSwim
    BY <2>1, FallingAssumption
  <2> QED
    BY <1>3, <2>2 DEF Swim, Goes, TypeInv, TypeOK, RangeInv, Points, QueryPoints, SwimPoints
<1>4. CASE SwimTimesOut
  BY <1>4, <1>a, <1>b, EndsTyped DEF SwimTimesOut
<1>c. \A spot \in [col : Columns, y : Depths] :
        Sends(spot, FALSE) => /\ pos' \in [col : Columns, y : Depths]
                              /\ onGround' \in BOOLEAN /\ late' \in 0..2
  BY SendsTyped
<1>5. CASE Stroke
  <2>1. fall.target \in Depths
    BY <1>5 DEF Stroke, Stops, Goes, TypeInv, RangeInv, SwimPoints
  <2>2. Lower(where.y + 1, fall.target) \in Depths
    BY <1>a, <2>1, FallingAssumption DEF Lower, Depths
  <2>3. /\ pos' \in [col : Columns, y : Depths] /\ onGround' \in BOOLEAN
        /\ dead' = dead /\ known' = known /\ late' \in 0..2
    BY <1>5, <1>a, <1>c, <2>2 DEF Stroke
  <2>4. CASE Stops("stroke", "failed")
    BY <2>4, <2>3, <1>a, <1>b, EndsTyped
  <2>5. CASE Goes("stroke", "gasp") /\ where' = Nowhere /\ UNCHANGED <<fall, news>>
    BY <2>5, <2>3, StillType DEF Goes, TypeInv, TypeOK, RangeInv, Points, QueryPoints,
       SwimPoints
  <2> QED
    BY <1>5, <2>4, <2>5 DEF Stroke
<1>6. CASE Float
  <2>1. Stops("float", "afloat") \/ Stops("float", "failed")
    BY <1>6 DEF Float
  <2>2. /\ pos' \in [col : Columns, y : Depths] /\ onGround' \in BOOLEAN
        /\ dead' = dead /\ known' = known /\ late' \in 0..2
    BY <1>6, <1>a, <1>c DEF Float
  <2> QED
    BY <2>1, <2>2, <1>a, <1>b, EndsTyped
<1>7. CASE CatchBreath
  <2>1. CASE Stops("gasp", "died")
    BY <1>7, <2>1, <1>a, <1>b, EndsTyped DEF CatchBreath
  <2>2. CASE Goes("gasp", "swim") /\ UNCHANGED <<fall, where, news>>
    BY <1>7, <2>2 DEF CatchBreath, Goes, TypeInv, TypeOK, RangeInv, Points, QueryPoints,
       SwimPoints
  <2> QED
    BY <1>7, <2>1, <2>2 DEF CatchBreath
<1> QED
  BY <1>1, <1>2, <1>3, <1>4, <1>5, <1>6, <1>7 DEF Surface

LEMMA OthersRange ==
  ASSUME TypeInv,
         \/ AutoFall \/ StartFall \/ TakeDeath \/ TakeRespawn
         \/ \E ground \in Heights : StartFallTo(ground)
         \/ \E spot \in Spots : Correct(spot) \/ Knock(spot)
         \/ \E col \in Columns : StoreChunk(col) \/ DropChunk(col)
  PROVE  TypeInv'
<1> USE DEF body, news, server
<1>a. fall.going \in BOOLEAN
  BY DEF TypeInv, TypeOK
<1>1. CASE AutoFall \/ StartFall
  BY <1>1 DEF AutoFall, StartFall, MayFall, TypeInv, TypeOK, RangeInv, Points, QueryPoints,
     SwimPoints
<1>2. ASSUME NEW ground \in Heights, StartFallTo(ground) PROVE TypeInv'
  <2>1. /\ pos.y \in Heights /\ pos.y \in Depths /\ pos.col \in Columns
        /\ ground \in Depths
    BY <1>2, DepthFacts DEF StartFallTo, MayFall, TypeInv, TypeOK
  <2>2. fall' = [Still EXCEPT !.start = pos.y, !.y = pos.y, !.col = pos.col,
                              !.target = ground]
    BY <1>2 DEF StartFallTo
  <2>3. /\ fall' \in [start : Depths, col : Columns, y : Depths, target : Depths \cup {None},
                      water : BOOLEAN, blind : BOOLEAN, resumed : 0..MaxResumes,
                      swum : 0..MaxSwim, going : BOOLEAN]
        /\ fall'.start \in Heights
    BY <2>1, <2>2, StillType
  <2> QED
    BY <1>2, <2>3 DEF StartFallTo, TypeInv, TypeOK, RangeInv, Points, QueryPoints, SwimPoints
<1>3. CASE TakeDeath \/ TakeRespawn
  <2>1. dead' \in BOOLEAN
    BY <1>3, Zenon DEF TakeDeath, TakeRespawn
  <2>2. died' \in BOOLEAN /\ late' \in 0..2
    <3>1. died \in BOOLEAN /\ late \in 0..2
      BY DEF TypeInv, TypeOK
    <3>2. CASE TakeDeath
      <4>1. (died' = TRUE \/ died' = died) /\ (late' = late \/ late' = 0)
        BY <3>2, Zenon DEF TakeDeath
      <4>2. died' \in BOOLEAN
        BY <3>1, <4>1, Zenon
      <4>3. late' \in 0..2
        BY <3>1, <4>1
      <4> QED
        BY <4>2, <4>3
    <3> QED
      BY <1>3, <3>1, <3>2 DEF TakeRespawn
  <2>3. known' \subseteq Columns /\ UNCHANGED <<pos, onGround, corrected, at, fall, where>>
    BY <1>3 DEF TakeDeath, TakeRespawn, TypeInv, TypeOK
  <2> QED
    BY <2>1, <2>2, <2>3 DEF TypeInv, TypeOK, RangeInv
<1>4. ASSUME NEW spot \in Spots, Correct(spot) \/ Knock(spot) PROVE TypeInv'
  <2>1. pos' \in [col : Columns, y : Heights] /\ pos' \in [col : Columns, y : Depths]
    BY <1>4, DepthFacts DEF Correct, Knock, Spots
  <2>2. onGround' \in BOOLEAN
    BY <1>4, Zenon DEF Correct, Knock
  <2>3. corrected' \in BOOLEAN
    BY <1>4, <1>a DEF Correct, Knock, TypeInv, TypeOK
  <2>4. UNCHANGED <<dead, known, died, at, fall, where, late>>
    BY <1>4 DEF Correct, Knock
  <2> QED
    BY <2>1, <2>2, <2>3, <2>4 DEF TypeInv, TypeOK, RangeInv
<1>5. ASSUME NEW col \in Columns, StoreChunk(col) \/ DropChunk(col) PROVE TypeInv'
  BY <1>5 DEF StoreChunk, DropChunk, TypeInv, TypeOK, RangeInv
<1> QED
  BY <1>1, <1>2, <1>3, <1>4, <1>5

LEMMA TypeStep == TypeInv /\ [Next]_vars => TypeInv'
<1> SUFFICES ASSUME TypeInv, [Next]_vars PROVE TypeInv'
  OBVIOUS
<1>1. CASE Next
  BY <1>1, FallRange, DescendRange, JudgeRange, SurfaceRange, OthersRange
     DEF Next, Faller, Surroundings
<1>2. CASE UNCHANGED vars
  BY <1>2 DEF vars, TypeInv, TypeOK, RangeInv
<1> QED
  BY <1>1, <1>2

\* The type invariant of Fall, FallTo, descend and surface (fall.go): in particular
\* a fall reports no position further below the heights the server uses than
\* MaxFallBlocks and a tick's drop, and resumes and swims no oftener than it may.
THEOREM TypeCorrect == Spec => []TypeOK
<1>1. TypeInv => TypeOK
  BY DEF TypeInv
<1> QED
  BY InitRange, TypeStep, <1>1, PTL DEF Spec

-----------------------------------------------------------------------------
(* A landing on a floor is about one column: the scan, the bot and the     *)
(* variables of descend are about the same one as long as the server moves *)
(* the bot sideways no more, and the height descend falls to is no higher  *)
(* than that column's floor.                                               *)

DescentPoints == QueryPoints \cup SendPoints \cup {"enter", "count", "sleep", "alive"}

ColumnInv ==
  /\ at \in DescentPoints => fall.col = pos.col
  /\ at \in {"has", "scan", "stroke", "float"} => where.col = pos.col
  /\ at \in DescentPoints /\ fall.target # None => fall.target <= FloorOf(fall.col)

\* What LandsOnFloor assumes of the surroundings of a fall.
PlainFall == Sideways = FALSE /\ Guessing = FALSE

LEMMA InitColumn == Init => ColumnInv
  BY DEF Init, ColumnInv, DescentPoints, QueryPoints, SendPoints

\* The scan finds nothing above the floor, in water neither.
LEMMA GroundFacts ==
  ASSUME NEW spot \in [col : Columns, y : Depths]
  PROVE  GroundY(spot) \in Int /\ GroundY(spot) <= FloorOf(spot.col)
<1>1. spot.y \in Int /\ FloorOf(spot.col) \in Int
  BY DepthFacts
<1> QED
  BY <1>1 DEF GroundY, Lower

\* A fall that is over, or that goes on to the surface, is about no column.
LEMMA EndsColumn ==
  ASSUME NEW from, NEW end \in Ends, Stops(from, end) \/ Returns(from, end)
  PROVE  ColumnInv'
  BY DEF Stops, Returns, Goes, Ends, ColumnInv, DescentPoints, QueryPoints, SendPoints

\* Everything before the first tick, and the query of a correction.
LEMMA FallColumn ==
  ASSUME TypeInv, ColumnInv, WaitEnds \/ ReadStart \/ GroundBelow \/ Decide
  PROVE  ColumnInv'
<1> USE DEF ColumnInv, DescentPoints, QueryPoints, SendPoints, body, news, server
<1>1. CASE WaitEnds \/ GroundBelow
  BY <1>1 DEF WaitEnds, GroundBelow, ReadPosition, FindColumn, Goes
<1>2. CASE ReadStart
  BY <1>2 DEF ReadStart, Goes, Still
<1>3. CASE FallUnknown \/ FallStanding \/ FallRefused
  <2>1. \E end \in Ends : Stops("has", end) \/ Stops("scan", end)
    BY <1>3 DEF FallUnknown, FallStanding, FallRefused, Ends
  <2> QED
    BY <2>1, EndsColumn
<1>4. CASE FallBlind
  BY <1>4 DEF FallBlind, Goes, TypeInv, TypeOK
<1>5. CASE FallToFloor
  <2>1. /\ at = "scan" /\ at' = "enter" /\ pos' = pos
        /\ fall' = [fall EXCEPT !.target = GroundY(where), !.water = InWater(where)]
    BY <1>5 DEF FallToFloor, Goes
  <2>2. fall'.col = fall.col /\ fall'.target = GroundY(where)
    BY <2>1 DEF TypeInv, TypeOK
  <2>3. GroundY(where) <= FloorOf(where.col)
    BY GroundFacts DEF TypeInv, TypeOK
  <2> QED
    BY <2>1, <2>2, <2>3
<1> QED
  BY <1>1, <1>2, <1>3, <1>4, <1>5 DEF Decide

\* descend's own steps.
LEMMA DescendColumn ==
  ASSUME TypeInv, ColumnInv, CountCorrections \/ CountDeaths \/ Tick \/ Judge
  PROVE  ColumnInv'
<1> USE DEF ColumnInv, DescentPoints, QueryPoints, SendPoints, body, news, server
<1>1. CASE CountCorrections \/ CountDeaths
  BY <1>1 DEF CountCorrections, CountDeaths, Goes, TypeInv, TypeOK
<1>2. CASE RunOut
  BY <1>2, EndsColumn DEF RunOut, Ends
<1>3. ASSUME NEW drop \in {1, 2}, LandOnTarget(drop) PROVE ColumnInv'
  BY <1>3, EndsColumn DEF LandOnTarget, Ends
<1>4. ASSUME NEW drop \in {1, 2}, Descend(drop) PROVE ColumnInv'
  <2>1. /\ at = "tick" /\ at' = "sleep" /\ pos' = [col |-> fall.col, y |-> fall.y - drop]
        /\ fall' = [fall EXCEPT !.y = @ - drop]
    BY <1>4 DEF Descend, Goes, Sends
  <2> QED
    BY <2>1 DEF TypeInv, TypeOK
<1>5. CASE SleepEnds \/ CheckCorrections \/ NoteCorrections
  BY <1>5 DEF SleepEnds, CheckCorrections, NoteCorrections, Goes
<1>6. CASE CheckDeath
  BY <1>6, EndsColumn DEF CheckDeath, Goes, Ends
<1>7. CASE Track \/ Adopt
  <2>1. /\ at \in {"track", "adopt"} /\ at' \in {"tick", "note"} /\ pos' = pos
        /\ \E y \in Int : fall' = [fall EXCEPT !.col = pos.col, !.y = y]
    <3>1. pos.y \in Int /\ Lower(fall.y, pos.y) \in Int
      BY DepthFacts DEF TypeInv, TypeOK
    <3> QED
      BY <1>7, <3>1 DEF Track, Adopt, Goes
  <2>2. fall'.col = pos.col /\ fall'.target = fall.target /\ fall.col = pos.col
    BY <2>1 DEF TypeInv, TypeOK
  <2> QED
    BY <2>1, <2>2
<1>8. CASE Resume
  <2>1. /\ at = "scan" /\ at' = "tick" /\ pos' = pos
        /\ fall'.col = fall.col /\ fall'.target = fall.target
    BY <1>8 DEF Resume, Goes, TypeInv, TypeOK
  <2> QED
    BY <2>1
<1>9. CASE TakeForLanding
  BY <1>9 DEF TakeForLanding, Goes
<1>10. CASE LandHere
  BY <1>10, EndsColumn DEF LandHere, Ends
<1> QED
  BY <1>1, <1>2, <1>3, <1>4, <1>5, <1>6, <1>7, <1>8, <1>9, <1>10 DEF Tick, Judge

\* The swim stays in its column too.
LEMMA SurfaceColumn ==
  ASSUME TypeInv, ColumnInv, Surface
  PROVE  ColumnInv'
<1> USE DEF ColumnInv, DescentPoints, QueryPoints, SendPoints, body, news, server
<1>1. CASE HoldsBreath \/ SwimTimesOut \/ Float \/ CatchBreath
  BY <1>1, EndsColumn DEF HoldsBreath, SwimTimesOut, Float, CatchBreath, Goes, Ends
<1>2. CASE FindSurface \/ Swim
  BY <1>2 DEF FindSurface, Swim, Goes
<1>3. CASE Stroke
  BY <1>3, EndsColumn DEF Stroke, Goes, Ends
<1> QED
  BY <1>1, <1>2, <1>3 DEF Surface

\* What is not the fall's own doing: here the hypotheses are needed.
LEMMA OthersColumn ==
  ASSUME TypeInv, ColumnInv, PlainFall, Surroundings
  PROVE  ColumnInv'
<1> USE DEF ColumnInv, DescentPoints, QueryPoints, SendPoints, body, news, server
<1>1. CASE AutoFall \/ StartFall
  BY <1>1 DEF AutoFall, StartFall, MayFall, Ends
<1>2. CASE FallCancelled
  BY <1>2, EndsColumn DEF FallCancelled, Ends
<1>3. ASSUME NEW drop \in {1, 2}, SendFails(drop) PROVE ColumnInv'
  BY <1>3, EndsColumn DEF SendFails, Ends
<1>4. ASSUME NEW ground \in Heights, StartFallTo(ground) PROVE ColumnInv'
  <2>1. /\ at' = "enter" /\ pos' = pos /\ ground = FloorOf(pos.col)
        /\ fall'.col = pos.col /\ fall'.target = ground
    BY <1>4 DEF StartFallTo, PlainFall, Still
  <2> QED
    BY <2>1, DepthFacts DEF Heights
<1>5. CASE TakeDeath \/ TakeRespawn
  BY <1>5 DEF TakeDeath, TakeRespawn
<1>6. ASSUME NEW spot \in Spots, Correct(spot) \/ Knock(spot) PROVE ColumnInv'
  <2>1. pos'.col = pos.col /\ UNCHANGED <<at, fall, where>>
    BY <1>6 DEF Correct, Knock, PlainFall
  <2> QED
    BY <2>1
<1>7. ASSUME NEW col \in Columns, StoreChunk(col) \/ DropChunk(col) PROVE ColumnInv'
  BY <1>7 DEF StoreChunk, DropChunk
<1> QED
  BY <1>1, <1>2, <1>3, <1>4, <1>5, <1>6, <1>7 DEF Surroundings

LEMMA ColumnStep == TypeInv /\ ColumnInv /\ PlainFall /\ [Next]_vars => ColumnInv'
<1> SUFFICES ASSUME TypeInv, ColumnInv, PlainFall, [Next]_vars PROVE ColumnInv'
  OBVIOUS
<1>1. CASE Next
  BY <1>1, FallColumn, DescendColumn, SurfaceColumn, OthersColumn DEF Next, Faller
<1>2. CASE UNCHANGED vars
  BY <1>2 DEF vars, ColumnInv
<1> QED
  BY <1>1, <1>2

-----------------------------------------------------------------------------
(* The only steps LandsOnFloor speaks of are the packet that reaches the   *)
(* target and the answer to a correction: their names, from where they     *)
(* start and end.                                                          *)

LEMMA LandingStep ==
  ASSUME Next, at = "tick", at' = "landed"
  PROVE  \E drop \in {1, 2} : LandOnTarget(drop)
<1> USE DEF Goes, Stops, Returns
<1>1. ~(WaitEnds \/ ReadStart \/ GroundBelow \/ Decide \/ CountCorrections \/ CountDeaths)
  BY DEF WaitEnds, ReadStart, GroundBelow, ReadPosition, FindColumn, Decide, FallUnknown,
     FallBlind, FallStanding, FallRefused, FallToFloor, CountCorrections, CountDeaths
<1>2. ~(Judge \/ Surface)
  BY DEF Judge, SleepEnds, CheckDeath, CheckCorrections, Track, Adopt, NoteCorrections,
     Resume, TakeForLanding, LandHere, Surface, HoldsBreath, FindSurface, Swim,
     SwimTimesOut, Stroke, Float, CatchBreath
<1>3. ~Surroundings
  BY DEF Surroundings, AutoFall, StartFall, FallCancelled, TakeDeath, TakeRespawn,
     StartFallTo, SendFails, Correct, Knock, StoreChunk, DropChunk
<1>4. ~RunOut /\ \A drop \in {1, 2} : ~Descend(drop)
  BY DEF RunOut, Descend
<1> QED
  BY <1>1, <1>2, <1>3, <1>4 DEF Next, Faller, Tick

LEMMA AnswerStep ==
  ASSUME Next, at \in {"note", "scan"}, at' = "land"
  PROVE  NoteCorrections \/ TakeForLanding
<1> USE DEF Goes, Stops, Returns
<1>1. ~(WaitEnds \/ ReadStart \/ GroundBelow \/ Decide \/ CountCorrections \/ CountDeaths
        \/ Tick)
  BY DEF WaitEnds, ReadStart, GroundBelow, ReadPosition, FindColumn, Decide, FallUnknown,
     FallBlind, FallStanding, FallRefused, FallToFloor, CountCorrections, CountDeaths,
     Tick, RunOut, LandOnTarget, Descend
<1>2. ~(SleepEnds \/ CheckDeath \/ CheckCorrections \/ Track \/ Adopt \/ Resume \/ LandHere
        \/ Surface)
  BY DEF SleepEnds, CheckDeath, CheckCorrections, Track, Adopt, Resume, LandHere, Surface,
     HoldsBreath, FindSurface, Swim, SwimTimesOut, Stroke, Float, CatchBreath
<1>3. ~Surroundings
  BY DEF Surroundings, AutoFall, StartFall, FallCancelled, TakeDeath, TakeRespawn,
     StartFallTo, SendFails, Correct, Knock, StoreChunk, DropChunk
<1> QED
  BY <1>1, <1>2, <1>3 DEF Next, Faller, Judge

LEMMA LandingNear ==
  ASSUME TypeInv, ColumnInv, NEW drop \in {1, 2}, LandOnTarget(drop)
  PROVE  NearFloor(pos')
<1>1. /\ at = "tick" /\ fall.target # None
      /\ pos' = [col |-> fall.col, y |-> fall.target]
  BY DEF LandOnTarget, Returns, Stops, Goes, Sends
<1>2. fall.target <= FloorOf(fall.col)
  BY <1>1 DEF ColumnInv, DescentPoints, SendPoints
<1>3. fall.target \in Int /\ FloorOf(fall.col) \in Int
  BY <1>1, DepthFacts DEF TypeInv, TypeOK
<1>4. pos'.y - FloorOf(pos'.col) <= 1
  BY <1>1, <1>2, <1>3
<1> QED
  BY <1>4 DEF NearFloor

LEMMA AnswerNear ==
  ASSUME TypeInv, ColumnInv, NoteCorrections \/ TakeForLanding,
         at \in {"note", "scan"}, at' = "land", fall.resumed < MaxResumes
  PROVE  NearFloor([col |-> fall.col, y |-> fall.y])
<1>1. at = "scan" /\ ~NotALanding
  BY DEF NoteCorrections, TakeForLanding, Goes
<1>2. where.col = fall.col
  BY <1>1 DEF ColumnInv, DescentPoints, QueryPoints
<1>3. GroundY(where) \in Int /\ GroundY(where) <= FloorOf(fall.col)
  BY <1>2, GroundFacts DEF TypeInv, TypeOK
<1>4. fall.y \in Int /\ FloorOf(fall.col) \in Int
  BY DepthFacts DEF TypeInv, TypeOK
<1>5. Found(where) => fall.y - FloorOf(fall.col) <= 1
  BY <1>1, <1>3, <1>4 DEF NotALanding
<1> QED
  BY <1>2, <1>5 DEF NearFloor, Found

\* "Treating every correction as a landing is what produced the flying kick": a
\* fall of descend (fall.go) takes itself for landed only on a floor, however
\* terrain comes and goes, as long as the server leaves the bot in its column and
\* FallTo is given the floor's height.
THEOREM FallLandsOnFloor == PlainFall /\ Spec => LandsOnFloor
<1> DEFINE LandsNear ==
      /\ (at = "tick" /\ at' = "landed" /\ onGround') => NearFloor(pos')
      /\ (at \in {"note", "scan"} /\ at' = "land" /\ fall.resumed < MaxResumes)
           => NearFloor([col |-> fall.col, y |-> fall.y])
<1>1. TypeInv /\ ColumnInv /\ [Next]_vars => [LandsNear]_vars
  <2> SUFFICES ASSUME TypeInv, ColumnInv, Next PROVE LandsNear
    OBVIOUS
  <2>1. ASSUME at = "tick", at' = "landed" PROVE NearFloor(pos')
    <3>1. PICK drop \in {1, 2} : LandOnTarget(drop)
      BY <2>1, LandingStep
    <3> QED
      BY <3>1, LandingNear
  <2>2. ASSUME at \in {"note", "scan"}, at' = "land", fall.resumed < MaxResumes
        PROVE  NearFloor([col |-> fall.col, y |-> fall.y])
    BY <2>2, AnswerStep, AnswerNear
  <2> QED
    BY <2>1, <2>2
<1> HIDE DEF LandsNear
<1>2. PlainFall /\ Spec => []TypeInv
  BY InitRange, TypeStep, PTL DEF Spec
<1>3. PlainFall => PlainFall'
  BY DEF PlainFall
<1>4. PlainFall /\ Spec => []ColumnInv
  BY InitColumn, ColumnStep, <1>2, <1>3, PTL DEF Spec
<1>5. PlainFall /\ Spec => [][LandsNear]_vars
  BY <1>1, <1>2, <1>4, PTL DEF Spec
<1> QED
  BY <1>5 DEF LandsOnFloor, LandsNear
=============================================================================
