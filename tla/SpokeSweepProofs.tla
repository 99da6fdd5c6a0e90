-------------------------- MODULE SpokeSweepProofs --------------------------
(***************************************************************************)
(* Proofs about SpokeSweep, for every resolution of the azimuth, zone,     *)
(* threshold and set of advances that meet the assumptions: no picture is  *)
(* made of two revolutions, no points are lost and nothing is made of the  *)
(* initial struct.                                                         *)
(***************************************************************************)
EXTENDS SpokeSweep, FiniteSetTheorems, TLAPS

THEOREM TypeCorrect == Spec => []TypeOK
<1> USE ZoneAssumption, StepAssumption
<1>1. Init => TypeOK
  <2>1. Ahead \in Azimuths
    BY DEF Ahead, Azimuths
  <2> SUFFICES ASSUME Init PROVE TypeOK
    OBVIOUS
  <2>3. [m \in Members |-> {}] \in Picture
    BY DEF Picture
  <2>4. azimuth \in Azimuths /\ previous \in Azimuths
    BY <2>1 DEF Init
  <2>5. /\ sharedState \in SpokeStates /\ spokeState \in SpokeStates
        /\ shared \in Picture /\ obstacles \in Picture
        /\ copied \in 0 .. Copied /\ toRead \subseteq Members
    BY <2>3 DEF Init, SpokeStates, Copied
  <2>6. previousIn \in BOOLEAN /\ atomic \in BOOLEAN
    BY Zenon DEF Init, PreviousInAtStart
  <2>7. radar \in RadarStates /\ revolution \in Revolutions
        /\ surroundings = {} /\ targets = {}
    BY DEF Init, RadarStates, Revolutions
  <2> QED
    BY <2>4, <2>5, <2>6, <2>7 DEF TypeOK
<1>2. TypeOK /\ [Next]_vars => TypeOK'
  <2> SUFFICES ASSUME TypeOK, [Next]_vars PROVE TypeOK'
    OBVIOUS
  <2> USE DEF TypeOK, trackerVars, plannerVars
  <2>1. CASE StartMarineRadar \/ UpdateSpoke
    BY <2>1 DEF StartMarineRadar, Unlock, Connect, ConnectFails, UpdateSpoke,
                RadarStates
  <2>2. ASSUME NEW advance \in Advances, AutoTracking(advance) PROVE TypeOK'
    <3>1. Sample(advance)
      BY <2>2 DEF AutoTracking, CollectSpoke, LeaveZone, StayOutside, SameSpoke
    <3>2. /\ azimuth' \in Azimuths /\ previous' \in Azimuths
          /\ revolution' \in Revolutions /\ previousIn' \in BOOLEAN
          /\ radar' \in RadarStates /\ obstacles' \in Picture
          /\ atomic' \in BOOLEAN /\ toRead' \subseteq Members
      BY <3>1 DEF Sample, Wrap, Azimuths, Revolutions
    <3>3. /\ spokeState' \in SpokeStates
          /\ surroundings' \subseteq Revolutions /\ targets' \subseteq Revolutions
      BY <2>2, <3>2 DEF AutoTracking, CollectSpoke, LeaveZone, StayOutside,
                        SameSpoke, SpokeStates
    <3>4. /\ sharedState' \in SpokeStates /\ shared' \in Picture
          /\ copied' \in 0 .. Copied
      <4>1. Publish
        BY <2>2 DEF AutoTracking, CollectSpoke, LeaveZone, StayOutside, SameSpoke
      <4> QED
        BY <4>1, <3>3 DEF Publish, Picture, Copied
    <3> QED
      BY <3>2, <3>3, <3>4
  <2>3. CASE CopyTargets
    <3>1. ASSUME NEW member
          PROVE  [shared EXCEPT ![member] = targets] \in Picture
      BY DEF Picture
    <3>2. shared' \in Picture
      BY <2>3, <3>1 DEF CopyTargets
    <3>3. copied' \in 0 .. Copied
      BY <2>3 DEF CopyTargets, Copied
    <3> QED
      BY <2>3, <3>2, <3>3 DEF CopyTargets
  <2>4. CASE SetupObstacle
    BY <2>4 DEF SetupObstacle, TakeOver
  <2>5. CASE UNCHANGED vars
    BY <2>5 DEF vars
  <2>6. ASSUME NEW member \in Members, ReadMember(member) PROVE TypeOK'
    BY <2>6 DEF ReadMember, Picture
  <2> QED
    BY <2>1, <2>2, <2>3, <2>4, <2>5, <2>6 DEF Next
<1> QED
  BY <1>1, <1>2, PTL DEF Spec

-----------------------------------------------------------------------------
(***************************************************************************)
(* Where the collected points come from.  While the spoke is in the zone   *)
(* they are of this revolution.  After it has left, by less than one       *)
(* advance, they have been clustered; the next move clears them.  Before   *)
(* the first spoke the azimuth is the one the tracker starts with.         *)
(***************************************************************************)
InZone == azimuth \in Zone /\ surroundings = {revolution}

PastZone ==
    /\ azimuth \notin Zone /\ targets = surroundings
    /\ \E r \in Revolutions : surroundings = {r}
    /\ \E a \in Advances : \/ ZoneLast < azimuth /\ azimuth <= ZoneLast + a
                           \/ azimuth + Units <= ZoneLast + a

SweepInv ==
    /\ surroundings # {} =>
         /\ previous = azimuth /\ (previousIn <=> azimuth \in Zone)
         /\ InZone \/ PastZone
    /\ radar \in {"locked", "unlocked", "started"} =>
         surroundings = {} /\ azimuth = Ahead /\ previous = Ahead

\* A move by some advance is noticed, one by 0 is not.
LEMMA MoveNoticed ==
    ASSUME NEW a \in Azimuths, NEW advance \in Advances
    PROVE  Distance(Wrap(a + advance), a) > Threshold <=> advance # 0
  BY ZoneAssumption, StepAssumption, SweepAssumption
     DEF Distance, Wrap, Azimuths

\* A step of the tracker keeps the collected points of one revolution.
LEMMA SweepStep ==
    ASSUME TypeOK, SweepInv, NEW advance \in Advances, AutoTracking(advance)
    PROVE  SweepInv'
<1> USE ZoneAssumption, StepAssumption DEF TypeOK
<1>1. Sample(advance)
  BY DEF AutoTracking, CollectSpoke, LeaveZone, StayOutside, SameSpoke
<1>2. /\ radar' = radar /\ radar \notin {"locked", "unlocked"}
      /\ advance > 0 => radar = "spinning"
      /\ previous' = azimuth'
      /\ azimuth' = Wrap(azimuth + advance)
      /\ revolution' = IF azimuth + advance >= Units
                       THEN (revolution + 1) % 3 ELSE revolution
      /\ azimuth' \in Azimuths
  BY <1>1 DEF Sample, Wrap, Azimuths
<1>3. previousIn' <=> azimuth' \in Zone
  BY <1>1, Zenon DEF Sample
<1>4. CASE radar = "started"
  <2>1. advance = 0 /\ azimuth = Ahead /\ previous = Ahead /\ surroundings = {}
    BY <1>2, <1>4 DEF SweepInv
  <2>2. azimuth' = azimuth /\ ~Moved
    BY <1>2, <2>1, MoveNoticed DEF Moved, Wrap, Azimuths
  <2>3. surroundings' = surroundings
    BY <2>2 DEF AutoTracking, CollectSpoke, LeaveZone, StayOutside, SameSpoke
  <2> QED
    BY <1>2, <1>4, <2>1, <2>2, <2>3 DEF SweepInv
<1>5. SUFFICES ASSUME radar # "started" PROVE SweepInv'
  BY <1>4
<1>6. surroundings # {} => (Moved <=> advance # 0)
  BY <1>2, MoveNoticed DEF Moved, SweepInv
<1>7. CASE CollectSpoke(advance)
  <2>1. CASE surroundings = {}
    BY <1>7, <1>2, <1>3, <1>5, <2>1 DEF CollectSpoke, SweepInv, InZone
  <2>2. CASE surroundings # {} /\ PastZone
    \* impossible: from past the zone no advance leads into it
    <3>1. advance # 0
      BY <1>7, <1>6, <2>2 DEF CollectSpoke
    <3>2. PICK a \in Advances :
            \/ ZoneLast < azimuth /\ azimuth <= ZoneLast + a
            \/ azimuth + Units <= ZoneLast + a
      BY <2>2 DEF PastZone
    <3>3. ZoneLast + a + advance < Units + ZoneFirst
      BY SweepAssumption
    <3>4. azimuth' >= ZoneFirst /\ azimuth' <= ZoneLast
      BY <1>7 DEF CollectSpoke, Zone
    <3>5. a \in Nat /\ advance \in Nat /\ azimuth \in Nat
      BY DEF Azimuths
    <3> QED
      BY <1>2, <3>2, <3>3, <3>4, <3>5 DEF Wrap
  <2>3. CASE surroundings # {} /\ InZone
    <3>1. revolution' = revolution
      BY <1>7, <1>2, <2>3, SweepAssumption
         DEF CollectSpoke, InZone, Zone, Azimuths, Wrap
    <3> QED
      BY <1>7, <1>2, <1>3, <1>5, <2>3, <3>1 DEF CollectSpoke, SweepInv, InZone
  <2> QED
    BY <2>1, <2>2, <2>3 DEF SweepInv
<1>8. CASE LeaveZone(advance)
  <2>1. CASE surroundings = {}
    BY <1>8, <1>2, <1>3, <1>5, <2>1 DEF LeaveZone, SweepInv
  <2>2. CASE surroundings # {}
    <3>1. InZone
      BY <1>8, <2>2 DEF LeaveZone, SweepInv, PastZone
    <3>2. targets' = surroundings' /\ surroundings' = {revolution}
          /\ azimuth' \notin Zone
      BY <1>8, <3>1 DEF LeaveZone, InZone
    <3>3. \/ ZoneLast < azimuth' /\ azimuth' <= ZoneLast + advance
          \/ azimuth' + Units <= ZoneLast + advance
      BY <1>2, <3>1, <3>2 DEF InZone, Zone, Wrap, Azimuths
    <3>4. PastZone'
      BY <3>2, <3>3 DEF PastZone
    <3> QED
      BY <1>2, <1>3, <1>5, <3>4 DEF SweepInv
  <2> QED
    BY <2>1, <2>2
<1>9. CASE StayOutside(advance)
  BY <1>2, <1>5, <1>9 DEF StayOutside, SweepInv
<1>10. CASE SameSpoke(advance)
  <2>1. CASE surroundings = {}
    BY <1>10, <1>2, <1>3, <1>5, <2>1 DEF SameSpoke, SweepInv
  <2>2. CASE surroundings # {}
    <3>1. advance = 0
      BY <1>6, <1>10, <2>2 DEF SameSpoke
    <3>2. azimuth' = azimuth /\ revolution' = revolution
      BY <1>2, <3>1 DEF Wrap, Azimuths
    <3>3. surroundings' = surroundings /\ targets' = targets
      BY <1>10 DEF SameSpoke
    <3> QED
      BY <1>2, <1>3, <1>5, <2>2, <3>2, <3>3 DEF SweepInv, InZone, PastZone
  <2> QED
    BY <2>1, <2>2
<1> QED
  BY <1>7, <1>8, <1>9, <1>10 DEF AutoTracking

LEMMA SweepInvariant == Spec => []SweepInv
<1>1. Init => SweepInv
  BY DEF Init, SweepInv
<1>2. TypeOK /\ SweepInv /\ [Next]_vars => SweepInv'
  <2> SUFFICES ASSUME TypeOK, SweepInv, [Next]_vars PROVE SweepInv'
    OBVIOUS
  <2>1. CASE StartMarineRadar
    BY <2>1 DEF StartMarineRadar, Unlock, Connect, ConnectFails, trackerVars,
                SweepInv
  <2>2. CASE UpdateSpoke
    BY <2>2 DEF UpdateSpoke, trackerVars, SweepInv
  <2>3. ASSUME NEW advance \in Advances, AutoTracking(advance) PROVE SweepInv'
    BY <2>3, SweepStep
  <2>4. CASE \/ CopyTargets \/ SetupObstacle
             \/ \E member \in Members : ReadMember(member)
             \/ UNCHANGED vars
    <3>1. UNCHANGED <<radar, azimuth, revolution, previous, previousIn,
                      surroundings, targets>>
      BY <2>4 DEF CopyTargets, SetupObstacle, TakeOver, ReadMember,
                  trackerVars, vars
    <3> QED
      BY <3>1 DEF SweepInv, InZone, PastZone
  <2> QED
    BY <2>1, <2>2, <2>3, <2>4 DEF Next
<1> QED
  BY <1>1, <1>2, TypeCorrect, PTL DEF Spec

-----------------------------------------------------------------------------
\* A set of revolutions with one member or none.
AtMostOne(S) == S = {} \/ \E r \in Revolutions : S = {r}

LEMMA AtMostOneCardinality ==
    ASSUME NEW S, AtMostOne(S)
    PROVE  Cardinality(S) <= 1
<1>1. CASE S = {}
  BY <1>1, FS_EmptySet
<1>2. CASE \E r \in Revolutions : S = {r}
  BY <1>2, FS_Singleton
<1> QED
  BY <1>1, <1>2 DEF AtMostOne

\* The newest picture has, like the points, one revolution at most.
PictureInv == AtMostOne(targets)

LEMMA PictureInvariant == Spec => []PictureInv
<1>1. Init => PictureInv
  BY DEF Init, PictureInv, AtMostOne
<1>2. TypeOK /\ SweepInv /\ PictureInv /\ [Next]_vars => PictureInv'
  <2> SUFFICES ASSUME TypeOK, SweepInv, PictureInv, [Next]_vars
               PROVE  PictureInv'
    OBVIOUS
  <2>1. AtMostOne(surroundings)
    BY DEF SweepInv, InZone, PastZone, AtMostOne, TypeOK
  <2>2. targets' \in {targets, surroundings}
    BY DEF Next, StartMarineRadar, Unlock, Connect, ConnectFails, UpdateSpoke,
           trackerVars, AutoTracking, CollectSpoke, LeaveZone, StayOutside,
           SameSpoke, CopyTargets, SetupObstacle, TakeOver, ReadMember, vars
  <2> QED
    BY <2>1, <2>2 DEF PictureInv, AtMostOne
<1> QED
  BY <1>1, <1>2, TypeCorrect, SweepInvariant, PTL DEF Spec

(***************************************************************************)
(* AutoTracking never clusters points of two revolutions together.         *)
(***************************************************************************)
THEOREM PictureOfOneRevolution == Spec => []OneRevolutionPerPicture
<1>1. TypeOK /\ SweepInv /\ PictureInv => OneRevolutionPerPicture
  <2> SUFFICES ASSUME TypeOK, SweepInv, PictureInv PROVE OneRevolutionPerPicture
    OBVIOUS
  <2>1. AtMostOne(surroundings)
    BY DEF SweepInv, InZone, PastZone, AtMostOne, TypeOK
  <2> QED
    BY <2>1, AtMostOneCardinality DEF PictureInv, OneRevolutionPerPicture
<1> QED
  BY <1>1, TypeCorrect, SweepInvariant, PictureInvariant, PTL

(***************************************************************************)
(* AutoTracking clears the points only after it has clustered them.        *)
(***************************************************************************)
THEOREM PointsClustered == Spec => NoPointsLost
<1> DEFINE Kept == \A r \in surroundings : r \notin surroundings' => r \in targets
<1>1. TypeOK /\ SweepInv /\ [Next]_vars => [Kept]_vars
  <2> SUFFICES ASSUME TypeOK, SweepInv, [Next]_vars,
                      NEW r \in surroundings, r \notin surroundings'
               PROVE  r \in targets
    OBVIOUS
  <2>1. PICK advance \in Advances : StayOutside(advance)
    BY DEF Next, StartMarineRadar, Unlock, Connect, ConnectFails, UpdateSpoke,
           trackerVars, AutoTracking, CollectSpoke, LeaveZone, SameSpoke,
           CopyTargets, SetupObstacle, TakeOver, ReadMember, vars
  <2>2. ~previousIn
    BY <2>1 DEF StayOutside
  <2>3. azimuth \notin Zone
    BY <2>2, Zenon DEF SweepInv
  <2> QED
    BY <2>3 DEF SweepInv, InZone, PastZone
<1> QED
  BY <1>1, TypeCorrect, SweepInvariant, PTL DEF Spec, NoPointsLost

(***************************************************************************)
(* Without a spinning antenna the azimuth never leaves the zone, so that   *)
(* nothing is clustered and every picture stays empty.                     *)
(***************************************************************************)
SilentInv ==
    radar # "spinning" =>
       /\ previousIn => azimuth \in Zone
       /\ radar \in {"locked", "unlocked"} => ~previousIn
       /\ spokeState # "LEAVE_ALARM_ZONE"
       /\ targets = {}
       /\ \A m \in Members : shared[m] = {} /\ obstacles[m] = {}

THEOREM SilentRadar == Spec => []NoPictureWithoutSpin
<1>1. Init => SilentInv
  BY DEF Init, SilentInv, PreviousInAtStart
<1>2. TypeOK /\ SilentInv /\ [Next]_vars => SilentInv'
  <2> SUFFICES ASSUME TypeOK, SilentInv, [Next]_vars, radar' # "spinning"
               PROVE  SilentInv'
    BY DEF SilentInv
  <2>1. radar # "spinning"
    BY DEF Next, StartMarineRadar, Unlock, Connect, ConnectFails, UpdateSpoke,
           AutoTracking, CollectSpoke, LeaveZone, StayOutside, SameSpoke, Sample,
           CopyTargets, SetupObstacle, TakeOver, ReadMember, vars
  <2>2. CASE StartMarineRadar
    BY <2>1, <2>2 DEF StartMarineRadar, Unlock, Connect, ConnectFails,
                      trackerVars, plannerVars, SilentInv
  <2>3. ASSUME NEW advance \in Advances, AutoTracking(advance)
        PROVE  SilentInv'
    <3>1. Sample(advance)
      BY <2>3 DEF AutoTracking, CollectSpoke, LeaveZone, StayOutside, SameSpoke
    <3>2. azimuth' = azimuth /\ radar' = radar /\ obstacles' = obstacles
          /\ radar \notin {"locked", "unlocked"}
      BY <2>1, <3>1, ZoneAssumption, StepAssumption
         DEF Sample, Wrap, TypeOK, Azimuths, plannerVars
    <3>3. previousIn' <=> azimuth' \in Zone
      BY <3>1, Zenon DEF Sample
    <3>4. ~LeaveZone(advance)
      BY <2>1, <3>2 DEF SilentInv, LeaveZone
    <3>5. targets' = targets /\ spokeState' # "LEAVE_ALARM_ZONE" /\ Publish
      BY <2>1, <2>3, <3>4 DEF SilentInv, AutoTracking, CollectSpoke, StayOutside,
                              SameSpoke
    <3>6. \A m \in Members : shared'[m] = {}
      BY <2>1, <3>5 DEF SilentInv, Publish
    <3> QED
      BY <2>1, <3>2, <3>3, <3>5, <3>6 DEF SilentInv
  <2>4. CASE CopyTargets
    BY <2>1, <2>4 DEF CopyTargets, SilentInv, TypeOK, Picture, plannerVars
  <2>5. CASE SetupObstacle
    BY <2>1, <2>5 DEF SetupObstacle, TakeOver, SilentInv, trackerVars
  <2>6. CASE UNCHANGED vars
    BY <2>1, <2>6 DEF vars, SilentInv
  <2>7. CASE UpdateSpoke
    BY <2>7 DEF UpdateSpoke
  <2>8. ASSUME NEW member \in Members, ReadMember(member)
        PROVE  SilentInv'
    BY <2>1, <2>8 DEF ReadMember, SilentInv, TypeOK, Picture, trackerVars
  <2> QED
    BY <2>2, <2>3, <2>4, <2>5, <2>6, <2>7, <2>8 DEF Next
<1>3. SilentInv => NoPictureWithoutSpin
  BY DEF SilentInv, NoPictureWithoutSpin
<1> QED
  BY <1>1, <1>2, <1>3, TypeCorrect, PTL DEF Spec
=============================================================================
