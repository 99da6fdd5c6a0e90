--------------------------- MODULE TargetTracking ---------------------------
(***************************************************************************)
(* What AutoTracking (TargetTracking.h) does when the spoke leaves the     *)
(* alarm zone: the clusters of the last revolution are filtered, matched   *)
(* with the max_num_target slots of the tracker, the slots are predicted   *)
(* or updated, judged (SituationAwareness) and thinned out                 *)
(* (RemoveDuplicateTargets).                                               *)
(*                                                                         *)
(* The marine plane is reduced to a line, one sweep of the antenna is the  *)
(* unit of time, and the gains of the alpha-beta filter are 1, so that an  *)
(* update moves the slot to the detection.  The loss of a match grows with *)
(* the change of velocity and of radius; radii are left out, so that when  *)
(* they differ any admissible detection may have the least loss.           *)
(***************************************************************************)
EXTENDS Integers, FiniteSets, Sequences, Functions

CONSTANTS
    SlotCounts,       \* values of max_num_target that are tried
    Scenes,           \* clusters of a revolution: sequences of [at, plausible]
    p_radius,         \* targets this close are duplicates
    speed_threhold,   \* a target this slow is static
    max_speed, max_acceleration,
    safe_distance,
    Radii,            \* TRUE \in Radii: targets may all be of the same size
    VesselAt,         \* position and speed of the own vessel
    VesselSpeed

ASSUME SlotAssumption == SlotCounts \subseteq Nat \ {0}

Abs(n) == IF n < 0 THEN -n ELSE n

\* Clusters of the DBSCAN are more than p_radius apart.
ASSUME SceneAssumption ==
    \A scene \in Scenes :
        /\ scene \in Seq([at : Int, plausible : BOOLEAN])
        /\ \A k, l \in DOMAIN scene :
              k # l => Abs(scene[k].at - scene[l].at) > p_radius
ASSUME LimitAssumption ==
    /\ {p_radius, speed_threhold, max_speed, max_acceleration,
        safe_distance} \subseteq Nat
    /\ {VesselAt, VesselSpeed} \subseteq Int
    /\ Radii \subseteq BOOLEAN

IDLE      == 0
ACQUIRING == 1
ACQUIRED  == 2
SAFE      == 0
DANGEROUS == 1

VARIABLES
    max_num_target,   \* slots of the tracker, constant
    equalRadii,       \* the targets of this sea are all of the same size
    detection,        \* TargetDetection_RTdata: where the plausible clusters
                      \* are, by their place among all clusters
    track             \* TargetTracking_RTdata, per slot

build == <<max_num_target, equalRadii>>
vars  == <<build, detection, track>>

Slots == 1 .. max_num_target

Targets ==
    [state : {IDLE, ACQUIRING, ACQUIRED}, x : Int, v : Int,
     intention : {SAFE, DANGEROUS}, TCPA : {-1, 0, 1}]

TypeOK ==
    /\ max_num_target \in SlotCounts /\ equalRadii \in Radii
    /\ DOMAIN detection \subseteq Nat /\ Range(detection) \subseteq Int
    /\ track \in [Slots -> Targets]

NoTarget ==
    [state |-> IDLE, x |-> 0, v |-> 0, intention |-> SAFE, TCPA |-> 0]

Init ==
    /\ max_num_target \in SlotCounts
    /\ equalRadii \in Radii
    /\ detection = <<>>
    /\ track = [i \in Slots |-> NoTarget]

Active(t) == {i \in Slots : t[i].state # IDLE}

-----------------------------------------------------------------------------
(***************************************************************************)
(* Finding the slots the detections belong to.                             *)
(***************************************************************************)
RemoveImpossibleRadius(scene) ==
    [k \in {k \in DOMAIN scene : scene[k].plausible} |-> scene[k].at]

\* The gates of the loss function.  A moving target must not turn round;
\* standing still (an angle of 0 to the zero vector) is no turn.
Admissible(slot, found) ==
    {k \in DOMAIN found :
        LET displacement == found[k] - slot.x
        IN  /\ Abs(displacement) <= max_speed
            /\ Abs(displacement - slot.v) <= max_acceleration
            /\ Abs(slot.v) > speed_threhold => displacement * slot.v >= 0}

LeastLossUnpredicted(slot, found, k) ==   \* faulty: ignores the velocity
    \A l \in Admissible(slot, found) :
        LET loss(d) == Abs(found[d] - slot.x)
        IN  loss(k) < loss(l) \/ (loss(k) = loss(l) /\ k <= l)

\* The loss is compared with <: of equals the first one is kept.
LeastLoss(slot, found, k) ==
    \A l \in Admissible(slot, found) :
        LET loss(d) == Abs(found[d] - slot.x - slot.v)
        IN  loss(k) < loss(l) \/ (loss(k) = loss(l) /\ k <= l)

\* Indices of detections a slot may match; 0 is unmatched.
BestMatches(slot, found) ==
    LET best == {k \in Admissible(slot, found) :
                    equalRadii => LeastLoss(slot, found, k)}
    IN  IF best = {} THEN {0} ELSE best

(***************************************************************************)
(* Two slots may match one detection.  Detections no slot matched go to    *)
(* the IDLE slots in order; those that find no IDLE slot are dropped.      *)
(***************************************************************************)
Before(S, n) == Cardinality({m \in S : m < n})

TargetIdentification(t, found, matched) ==
    LET idle      == Slots \ Active(t)
        unmatched == DOMAIN found \ Range(matched)
        next(i)   == {k \in unmatched : Before(unmatched, k) = Before(idle, i)}
    IN  [i \in Slots |-> CASE i \in Active(t) -> matched[i]
                         [] i \in idle /\ next(i) # {} -> CHOOSE k \in next(i) : TRUE
                         [] OTHER -> 0]

-----------------------------------------------------------------------------
SpeedFloor(v) == IF Abs(v) <= speed_threhold THEN 0 ELSE v

MissedCountsDown(slot) ==     \* faulty: an IDLE slot is counted down, too
    [slot EXCEPT !.state = @ - 1, !.x = @ + slot.v, !.v = SpeedFloor(@)]

MissedCoasts(slot) ==         \* faulty: an ACQUIRING slot is kept
    IF slot.state # IDLE
    THEN [slot EXCEPT !.state = ACQUIRING, !.x = @ + slot.v,
                      !.v = SpeedFloor(@)]
    ELSE [slot EXCEPT !.x = 0, !.v = 0]

Missed(slot) ==
    IF slot.state = ACQUIRED
    THEN [slot EXCEPT !.state = ACQUIRING, !.x = @ + slot.v,
                      !.v = SpeedFloor(@)]
    ELSE [slot EXCEPT !.state = IDLE, !.x = 0, !.v = 0]

Seen(slot, at) ==
    IF slot.state = IDLE
    THEN [slot EXCEPT !.state = ACQUIRING, !.x = at, !.v = 0]
    ELSE [slot EXCEPT !.state = ACQUIRED, !.x = at,
                      !.v = SpeedFloor(at - slot.x)]

PredictMotion(t, found, match) ==
    [i \in Slots |-> IF match[i] = 0 THEN Missed(t[i])
                                     ELSE Seen(t[i], found[match[i]])]

(***************************************************************************)
(* computeCPA on a line: there is a CPA when the distance shrinks, and the *)
(* distance that counts is the one the own vessel makes until then.        *)
(***************************************************************************)
Judge(slot, position, speed) ==
    LET away    == position - slot.x
        closing == speed - slot.v
    IN  IF slot.state = IDLE THEN slot
        ELSE IF Abs(slot.v) <= speed_threhold THEN
            [slot EXCEPT !.intention = IF Abs(away) <= safe_distance
                                       THEN DANGEROUS ELSE SAFE]
        ELSE IF away * closing < 0 THEN
            [slot EXCEPT
                !.TCPA = 1,
                !.intention =
                    IF Abs(speed * away) <= safe_distance * Abs(closing)
                    THEN DANGEROUS ELSE SAFE]
        ELSE [slot EXCEPT !.TCPA = -1]

\* AutoTracking passes the speed of the vessel for its position, too.
SituationAwareness(t) ==
    [i \in Slots |-> Judge(t[i], VesselSpeed, VesselSpeed)]

(***************************************************************************)
(* Of two targets that are close the one that is not faster goes.          *)
(***************************************************************************)
Close(t, i, j) == Abs(t[i].x - t[j].x) <= p_radius

RemoveBothDuplicates(t) ==    \* faulty: of two equally fast ones both go
    [i \in Slots |->
        IF \E j \in Active(t) \ {i} :
              i \in Active(t) /\ Close(t, i, j) /\ Abs(t[i].v) <= Abs(t[j].v)
        THEN [t[i] EXCEPT !.state = IDLE] ELSE t[i]]

\* The inner loop, over j > i: it ends when i itself is dropped.
DropAround(t, alive, i) ==
    LET near     == {j \in alive : j > i /\ Close(t, i, j)}
        stronger == {j \in near : Abs(t[j].v) >= Abs(t[i].v)}
        before   == {j \in near : \A k \in stronger : j < k}
    IN  IF i \notin alive THEN alive
        ELSE alive \ (IF stronger = {} THEN near ELSE before \cup {i})

LastOuterShort == max_num_target - 2   \* faulty: one slot too early
LastOuter      == max_num_target - 1

\* The outer loop: the slots left after the first i of them
Left(t) ==
    LET left[i \in 0 .. LastOuter] ==
            IF i = 0 THEN Active(t) ELSE DropAround(t, left[i - 1], i)
    IN  left

RemoveDuplicateTargets(t) ==
    LET alive == Left(t)[LastOuter]
    IN  [i \in Slots |-> IF i \in alive THEN t[i]
                         ELSE [t[i] EXCEPT !.state = IDLE]]

LeaveAlarmZone(scene) ==
    LET found == RemoveImpossibleRadius(scene)
        best  == [i \in Active(track) |-> BestMatches(track[i], found)]
    IN  /\ detection' = found
        /\ UNCHANGED build
        /\ \E matched \in [Active(track) -> DOMAIN found \cup {0}] :
              /\ \A i \in Active(track) : matched[i] \in best[i]
              /\ track' = RemoveDuplicateTargets(
                            SituationAwareness(
                              PredictMotion(track, found,
                                TargetIdentification(track, found, matched))))

Next == \E scene \in Scenes : LeaveAlarmZone(scene)

Spec == Init /\ [][Next]_vars

-----------------------------------------------------------------------------
(***************************************************************************)
(* The picture given to the planner holds no target twice.                 *)
(***************************************************************************)
NoDuplicates ==
    \A i, j \in Active(track) :
        i # j => Abs(track[i].x - track[j].x) > p_radius

AtDetection(i) == track[i].x \in Range(detection)

(***************************************************************************)
(* A target is coasted over one missed revolution, never over two.         *)
(***************************************************************************)
CoastsOnce ==
    [][\A i \in Active(track) \cap Active(track') :
          AtDetection(i) \/ AtDetection(i)']_vars

(***************************************************************************)
(* No plausible cluster is overlooked: unless every slot was taken, each   *)
(* one has a target in the picture.  The exception is a cluster that a     *)
(* target is coasted to, within p_radius, although its gates denied it     *)
(* every cluster: it may push the cluster's own target out, and be pushed  *)
(* out in turn by a third one.                                             *)
(***************************************************************************)
Covered(t, at) == \E i \in Active(t) : t[i].x = at

Intruded(at) ==
    \E i \in Active(track) :
        /\ track[i].state = ACQUIRED
        /\ Admissible(track[i], detection') = {}
        /\ Abs(track[i].x + track[i].v - at) <= p_radius

PictureComplete ==
    [][Cardinality(Slots \ Active(track)) >= Cardinality(DOMAIN detection') =>
          \A at \in Range(detection') : Covered(track', at) \/ Intruded(at)]_vars

(***************************************************************************)
(* An acquired target that goes on as predicted stays in the picture, even *)
(* when other targets crowd the slots, if its size does not make it look   *)
(* like another one, with the same exception.                              *)
(***************************************************************************)
ContinuingTargetStays ==
    [][\A i \in Active(track) :
          LET next == track[i].x + track[i].v
          IN  equalRadii /\ track[i].state = ACQUIRED /\ next \in Range(detection')
                => Covered(track', next) \/ Intruded(next)]_vars

(***************************************************************************)
(* "when TCPA<0, no collision" (TargetTrackingData.h): a target that moves *)
(* away is not flagged as dangerous.                                       *)
(***************************************************************************)
RecedingIsSafe ==
    \A i \in Active(track) :
        Abs(track[i].v) > speed_threhold /\ track[i].TCPA < 0
          => track[i].intention = SAFE

(***************************************************************************)
(* A static target is dangerous when it is within the safe distance of     *)
(* the own vessel.                                                         *)
(***************************************************************************)
StaticDanger ==
    \A i \in Active(track) :
        Abs(track[i].v) <= speed_threhold =>
          (track[i].intention = DANGEROUS
             <=> Abs(VesselAt - track[i].x) <= safe_distance)
=============================================================================
