----------------------------- MODULE SpokeSweep -----------------------------
(***************************************************************************)
(* How one revolution of the marine radar becomes the obstacles of the     *)
(* path planner.  The tracker thread samples the newest spoke and          *)
(* AutoTracking (TargetTracking.h) turns its azimuth into a spoke state:   *)
(* points are collected while spokes are in the alarm zone, clustered when *)
(* the spoke leaves it, and cleared at the next spoke outside.  The        *)
(* planner thread polls the shared spoke state and takes the targets over  *)
(* as obstacles only when it happens to see LEAVE_ALARM_ZONE.  The loops   *)
(* sleep for times of their own: neither waits for the other, and any      *)
(* number of passes of one fits between two of the other.                  *)
(*                                                                         *)
(* The radar driver (MarineRadar.h) comes first: it unlocks the SDK, trying *)
(* for ever, and connects the image and the target client, trying once.    *)
(* Its struct is published from then on, READY in any case, and the tracker*)
(* samples it: the struct's initial spoke until UpdateSpoke brings one, for*)
(* ever if a client could not be connected.                                *)
(*                                                                         *)
(* Azimuths are counted in units from the blind side of the alarm zone, so *)
(* that the zone is an interval and "ahead" is Units \div 2.  Points are   *)
(* abstracted to the revolution of the antenna they were measured in, and  *)
(* a picture of targets to the revolutions its newest clustering worked on *)
(* (which targets the tracker makes of them is TargetTracking's subject).  *)
(* Of the published struct only what the planner reads is kept, for one of *)
(* the slots: its state and its two coordinates, copied one after another. *)
(***************************************************************************)
EXTENDS Naturals, FiniteSets

CONSTANTS
    Units,       \* azimuth units per revolution
    ZoneFirst,   \* first and last unit of the alarm zone
    ZoneLast,
    Threshold,   \* azimuth changes up to this are ignored (0.008 rad)
    Advances     \* by how much the azimuth may change between two samples

ASSUME ZoneAssumption ==
    /\ Units \in Nat \ {0}
    /\ ZoneFirst \in Nat /\ ZoneLast \in Nat
    /\ 0 < ZoneFirst /\ ZoneFirst <= ZoneLast /\ ZoneLast + 1 < Units
ASSUME StepAssumption ==
    /\ Threshold \in Nat
    /\ Advances \subseteq 0 .. Units - 1

\* The antenna moves by more than the threshold or not at all, and in two
\* samples never from the far edge of the zone round to its near edge.
ASSUME SweepAssumption ==
    /\ \A a \in Advances \ {0} : Threshold < a /\ a + Threshold < Units
    /\ \A a, b \in Advances : ZoneLast + a + b < Units + ZoneFirst

Azimuths    == 0 .. Units - 1
Zone        == ZoneFirst .. ZoneLast
Revolutions == 0 .. 2      \* counted modulo 3: neighbours differ
SpokeStates == {"OUTSIDE_ALARM_ZONE", "ENTER_ALARM_ZONE", "IN_ALARM_ZONE",
                "LEAVE_ALARM_ZONE"}
RadarStates == {"locked", "unlocked", "started", "spinning", "failed"}

\* What setup_obstacle is given of TargetTracker_RTdata, as it is declared
CopyOrder == <<"targets_state", "targets_x", "targets_y">>
Copied    == 3
Members   == {CopyOrder[i] : i \in 1 .. Copied}
Picture   == [Members -> SUBSET Revolutions]

VARIABLES
    atomic,        \* no thread runs in the middle of a struct copy
    radar,         \* progress of StartMarineRadar; "spinning": spokes come
    azimuth,       \* MarineRadar_RTdata.spoke_azimuth_deg
    revolution,    \* of the antenna
    previous,      \* previous_spoke_azimuth_rad
    previousIn,    \* previous_IsInAlarmAzimuth
    spokeState,    \* TargetTracking_RTdata.spoke_state
    surroundings,  \* revolutions of the points in SpokeProcess_RTdata
    targets,       \* revolutions the newest clustering worked on
    sharedState,   \* TargetTracker_RTdata.spoke_state, copied first
    shared,        \* the members of TargetTracker_RTdata
    copied,        \* members assigned since the tracker's last pass
    obstacles,     \* what the planner takes for obstacles, by member read
    toRead         \* members that setup_obstacle has still to read

vars == <<atomic, radar, azimuth, revolution, previous, previousIn, spokeState,
          surroundings, targets, sharedState, shared, copied, obstacles, toRead>>

TypeOK ==
    /\ radar \in RadarStates
    /\ azimuth \in Azimuths /\ previous \in Azimuths
    /\ revolution \in Revolutions
    /\ previousIn \in BOOLEAN
    /\ spokeState \in SpokeStates
    /\ surroundings \subseteq Revolutions /\ targets \subseteq Revolutions
    /\ sharedState \in SpokeStates /\ shared \in Picture
    /\ copied \in 0 .. Copied
    /\ obstacles \in Picture
    /\ toRead \subseteq Members
    /\ atomic \in BOOLEAN

\* The struct's first azimuth is 0 (ahead), previous_spoke_azimuth_rad, too.
Ahead == Units \div 2

PreviousInOfAhead == TRUE    \* faulty: what the zone says of azimuth 0
PreviousInAtStart == FALSE

Init ==
    /\ atomic \in BOOLEAN
    /\ radar = "locked"
    /\ azimuth = Ahead
    /\ revolution = 0
    /\ previous = Ahead
    /\ previousIn = PreviousInAtStart
    /\ spokeState = "OUTSIDE_ALARM_ZONE"
    /\ surroundings = {}
    /\ targets = {}
    /\ sharedState = "OUTSIDE_ALARM_ZONE"
    /\ shared = [m \in Members |-> {}]
    /\ copied = Copied
    /\ obstacles = [m \in Members |-> {}]
    /\ toRead = {}

Wrap(a) == IF a < Units THEN a ELSE a - Units

\* |Normalizeheadingangle(a - b)|
Distance(a, b) ==
    LET d == Wrap(a + Units - b) IN IF d <= Units - d THEN d ELSE Units - d

trackerVars == <<previous, previousIn, spokeState, surroundings, targets,
                 sharedState, shared, copied>>
plannerVars == <<obstacles, toRead>>

(***************************************************************************)
(* StartMarineRadar: InitiateUnlock every second until it succeeds, then   *)
(* MultiRadar_Connect once.  A client that cannot be connected takes the   *)
(* other down with it; spokes may have come in between, for the radar may  *)
(* be transmitting for another display.  Nothing tries again.              *)
(***************************************************************************)
Unlock ==
    /\ radar = "locked"
    /\ radar' = "unlocked"
    /\ UNCHANGED <<atomic, azimuth, revolution, trackerVars, plannerVars>>

Connect ==
    /\ radar = "unlocked"
    /\ radar' = "started"
    /\ UNCHANGED <<atomic, azimuth, revolution, trackerVars, plannerVars>>

ConnectFails(imageError) ==
    /\ radar = "unlocked"
    /\ radar' = "failed"
    /\ azimuth' \in IF imageError THEN {azimuth} ELSE Azimuths
    /\ UNCHANGED <<atomic, revolution, trackerVars, plannerVars>>

UpdateSpoke ==
    /\ radar = "started"
    /\ radar' = "spinning"
    /\ azimuth' \in Azimuths
    /\ UNCHANGED <<atomic, revolution, trackerVars, plannerVars>>

StartMarineRadar ==
    Unlock \/ Connect \/ \E imageError \in BOOLEAN : ConnectFails(imageError)

(***************************************************************************)
(* One pass of target_tracking_loop.  The monitor lets it begin when the   *)
(* radar's struct is published as READY.  Between two passes the antenna   *)
(* turns by some advance (the radar thread copies a new spoke every 50 ms, *)
(* or none); AutoTracking then works on the azimuth it finds.              *)
(***************************************************************************)
Sample(advance) ==
    /\ radar \in {"started", "spinning", "failed"}
    /\ advance > 0 => radar = "spinning"
    /\ copied = Copied
    /\ azimuth' = Wrap(azimuth + advance)
    /\ revolution' = IF azimuth + advance >= Units
                     THEN (revolution + 1) % 3 ELSE revolution
    /\ previous' = azimuth'
    /\ previousIn' = (azimuth' \in Zone)
    /\ UNCHANGED <<atomic, radar, plannerVars>>

Moved == Distance(azimuth', previous) > Threshold

\* The struct assignment copies spoke_state first, the other members later.
Publish ==
    /\ sharedState' = spokeState'
    /\ IF atomic
       THEN /\ shared' = [m \in Members |-> targets']
            /\ UNCHANGED copied
       ELSE /\ copied' = 0
            /\ UNCHANGED shared

CollectSpokeUnset(advance) == \* faulty: a first spoke in the zone is not told
    /\ Sample(advance)
    /\ Moved
    /\ azimuth' \in Zone
    /\ surroundings' = surroundings \cup {revolution'}
    /\ spokeState' = IF previousIn THEN "IN_ALARM_ZONE" ELSE "UNKNOWN"
    /\ UNCHANGED targets
    /\ Publish

CollectSpoke(advance) ==
    /\ Sample(advance)
    /\ Moved
    /\ azimuth' \in Zone
    /\ surroundings' = surroundings \cup {revolution'}
    /\ spokeState' = IF previousIn THEN "IN_ALARM_ZONE" ELSE "ENTER_ALARM_ZONE"
    /\ UNCHANGED targets
    /\ Publish

LeaveZoneUnseen(advance) == \* faulty: compares after previousIn is updated
    /\ Sample(advance)
    /\ Moved
    /\ azimuth' \notin Zone /\ previousIn
    /\ surroundings' = {}
    /\ spokeState' = "OUTSIDE_ALARM_ZONE"
    /\ UNCHANGED targets
    /\ Publish

LeaveZone(advance) ==
    /\ Sample(advance)
    /\ Moved
    /\ azimuth' \notin Zone /\ previousIn
    /\ targets' = surroundings
    /\ spokeState' = "LEAVE_ALARM_ZONE"
    /\ UNCHANGED surroundings
    /\ Publish

StayOutsideKeeps(advance) == \* faulty: the points are not cleared
    /\ Sample(advance)
    /\ Moved
    /\ azimuth' \notin Zone /\ ~previousIn
    /\ spokeState' = "OUTSIDE_ALARM_ZONE"
    /\ UNCHANGED <<surroundings, targets>>
    /\ Publish

StayOutside(advance) ==
    /\ Sample(advance)
    /\ Moved
    /\ azimuth' \notin Zone /\ ~previousIn
    /\ surroundings' = {}
    /\ spokeState' = "OUTSIDE_ALARM_ZONE"
    /\ UNCHANGED targets
    /\ Publish

SameSpokeClears(advance) == \* faulty: a repeated spoke resets the points
    /\ Sample(advance)
    /\ ~Moved
    /\ surroundings' = {}
    /\ UNCHANGED <<spokeState, targets>>
    /\ Publish

SameSpoke(advance) ==
    /\ Sample(advance)
    /\ ~Moved
    /\ UNCHANGED <<spokeState, surroundings, targets>>
    /\ Publish

AutoTracking(advance) ==
    \/ CollectSpoke(advance) \/ LeaveZone(advance)
    \/ StayOutside(advance)  \/ SameSpoke(advance)

CopyTargets ==
    /\ copied < Copied
    /\ copied' = copied + 1
    /\ shared' = [shared EXCEPT ![CopyOrder[copied + 1]] = targets]
    /\ UNCHANGED <<atomic, radar, azimuth, revolution, previous, previousIn,
                   spokeState, surroundings, targets, sharedState, plannerVars>>

(***************************************************************************)
(* The planner's poll of spoke_state in an AVOIDANCE mode, at any time, and*)
(* what setup_obstacle then reads: it takes dynamic vectors, so each member*)
(* is copied for the call, in an order that the language leaves open.      *)
(***************************************************************************)
TakeOver ==
    /\ toRead = {}
    /\ IF atomic
       THEN /\ obstacles' = shared
            /\ UNCHANGED toRead
       ELSE /\ toRead' = Members
            /\ UNCHANGED obstacles
    /\ UNCHANGED <<atomic, radar, azimuth, revolution, trackerVars>>

SetupObstacleOutside ==    \* faulty: waits for ENTER, not for LEAVE
    /\ sharedState = "ENTER_ALARM_ZONE"
    /\ TakeOver

SetupObstacle ==
    /\ sharedState = "LEAVE_ALARM_ZONE"
    /\ TakeOver

ReadMember(member) ==
    /\ member \in toRead
    /\ toRead' = toRead \ {member}
    /\ obstacles' = [obstacles EXCEPT ![member] = shared[member]]
    /\ UNCHANGED <<atomic, radar, azimuth, revolution, trackerVars>>

Next ==
    \/ StartMarineRadar
    \/ UpdateSpoke
    \/ \E advance \in Advances : AutoTracking(advance)
    \/ CopyTargets
    \/ SetupObstacle
    \/ \E member \in Members : ReadMember(member)

Spec == Init /\ [][Next]_vars

(***************************************************************************)
(* Both loops run for ever (each ends in a finite sleep_for): a copy and a *)
(* reading come to their end, and the planner polls again and again.  It   *)
(* need not poll at any given time, nor need the antenna turn.             *)
(***************************************************************************)
FairSpec ==
    /\ Spec
    /\ WF_vars(CopyTargets)
    /\ WF_vars(SetupObstacle)
    /\ WF_vars(\E member \in Members : ReadMember(member))

-----------------------------------------------------------------------------
(***************************************************************************)
(* A picture of targets is made from the points of one revolution: points  *)
(* of the last revolution are gone before the zone is entered again.       *)
(***************************************************************************)
OneRevolutionPerPicture ==
    Cardinality(surroundings) <= 1 /\ Cardinality(targets) <= 1

(***************************************************************************)
(* Points collected in the alarm zone are never thrown away before they    *)
(* have been clustered into the targets.                                   *)
(***************************************************************************)
NoPointsLost ==
    [][\A r \in surroundings : r \notin surroundings' => r \in targets]_vars

(***************************************************************************)
(* Tracker, planner and controller are released by the READY of the radar  *)
(* even when it never delivers a spoke.  Until then no picture is made of  *)
(* the initial struct, nor of a single spoke that came before a failure.   *)
(***************************************************************************)
NoPictureWithoutSpin ==
    radar # "spinning" =>
       /\ spokeState # "LEAVE_ALARM_ZONE" /\ targets = {}
       /\ \A m \in Members : obstacles[m] = {}

(***************************************************************************)
(* An antenna that the samples find turning again and again makes the      *)
(* tracker cluster again and again.                                        *)
(***************************************************************************)
Turning == \E advance \in Advances \ {0} : AutoTracking(advance)
ClustersForever ==
    []<><<Turning>>_vars => []<>(spokeState = "LEAVE_ALARM_ZONE")

(***************************************************************************)
(* A planner that reads while the struct is copied can mix coordinates of  *)
(* two revolutions, but not for good: when the antenna stops with the zone *)
(* just left, the obstacles come to be the newest targets, in each member. *)
(***************************************************************************)
LastPictureAvoided ==
    <>[](spokeState = "LEAVE_ALARM_ZONE") =>
       <>[](\A m \in Members : obstacles[m] = targets)
=============================================================================
