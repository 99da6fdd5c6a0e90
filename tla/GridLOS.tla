------------------------------ MODULE GridLOS ------------------------------
(***************************************************************************)
(* Way-point following (trajectorytracking.h): once per sample of the      *)
(* controller Grid_LOS looks at the vessel's position, switches to the     *)
(* next leg of the route when the vessel is in the capture circle of the   *)
(* leg's end, and sets course and speed by line of sight.                  *)
(*                                                                         *)
(* Legs are parallel to an axis, positions are integers and a speed is the *)
(* distance run in one sample.  The vessel is one whose heading and speed  *)
(* follow the set point at once; its position is the real one rounded up   *)
(* or down in either direction.                                            *)
(***************************************************************************)
EXTENDS Integers, Sequences

CONSTANTS
    Routes,              \* sequences of way points <<x, y>>
    Offsets,             \* where the vessel may start, from the first point
    los_radius,
    los_capture_radius,  \* of the configuration, for routes of one leg
    capture_radius,      \* of the route, for longer ones
    desired_speed,       \* even, so that half of it is an integer
    Sea                  \* coordinates within which the vessel is followed

Points == Int \X Int

ASSUME RouteAssumption ==
    \A r \in Routes : r \in Seq(Points) /\ Len(r) >= 2
ASSUME OffsetAssumption == Offsets \subseteq Points /\ Sea \subseteq Int
ASSUME RadiusAssumption ==
    /\ los_radius \in Nat \ {0}
    /\ los_capture_radius \in Nat /\ capture_radius \in Nat
    /\ desired_speed \in Nat \ {0} /\ desired_speed % 2 = 0

VARIABLES
    route,       \* grid_points_x, grid_points_y
    vessel,      \* where the vessel is at the next sample
    index,       \* grid_points_index
    trackermode,
    setpoint,    \* course of the leg, cross-track error steered by, speed
    visited      \* history: way points whose circle a sample was taken in

vars == <<route, vessel, index, trackermode, setpoint, visited>>

Courses == {<<1, 0>>, <<-1, 0>>, <<0, 1>>, <<0, -1>>}

TypeOK ==
    /\ route \in Routes
    /\ vessel \in Points
    /\ index \in 0 .. Len(route) - 2
    /\ trackermode \in {"STARTED", "TRACKING", "FINISHED"}
    /\ setpoint \in [course : Courses, error : -los_radius .. los_radius,
                     speed : 0 .. desired_speed]
    /\ visited \subseteq 1 .. Len(route)

Plus(p, q)  == <<p[1] + q[1], p[2] + q[2]>>
Minus(p, q) == <<p[1] - q[1], p[2] - q[2]>>
Dot(p, q)   == p[1] * q[1] + p[2] * q[2]
Cross(p, q) == p[1] * q[2] - p[2] * q[1]
Scaled(n, p) == <<n * p[1], n * p[2]>>
Left(p)     == <<-p[2], p[1]>>
Abs(n)      == IF n < 0 THEN -n ELSE n
Sgn(n)      == IF n < 0 THEN -1 ELSE IF n > 0 THEN 1 ELSE 0
Course(p, q) == <<Sgn(q[1] - p[1]), Sgn(q[2] - p[2])>>

ASSUME LegAssumption ==
    \A r \in Routes : \A k \in 1 .. Len(r) - 1 : Course(r[k], r[k + 1]) \in Courses

\* The controller's tracker after set_grid_points; no set point yet.
Init ==
    /\ route \in Routes
    /\ \E offset \in Offsets : vessel = Plus(route[1], offset)
    /\ index = 0
    /\ trackermode = "STARTED"
    /\ setpoint = [course |-> <<1, 0>>, error |-> 0, speed |-> 0]
    /\ visited = {}

\* set_grid_points takes the route's radius over for three or more points.
Radius(r) == IF Len(r) > 2 THEN capture_radius ELSE los_capture_radius

DistanceSquare(p, q) == Dot(Minus(p, q), Minus(p, q))

IsEnterCaptureRadius(k) ==
    DistanceSquare(vessel, route[k]) <= Radius(route) * Radius(route)

-----------------------------------------------------------------------------
\* The leg that Grid_LOS read before it switches, from wp0 to wp1.
wp0 == index + 1
wp1 == index + 2

CrossTrack(from, to) ==
    Cross(Course(route[from], route[to]), Minus(vessel, route[from]))

ClippedAway(e) ==          \* faulty: steers away from the leg
    IF e > los_radius THEN -los_radius
    ELSE IF e < -los_radius THEN los_radius ELSE -e

Clipped(e) == IF e > los_radius THEN los_radius
              ELSE IF e < -los_radius THEN -los_radius ELSE e

\* |turning_angles(k - 1)| in quarter turns: between the legs at point k + 1.
TurningAngle(k) ==
    LET before == Course(route[k], route[k + 1])
        after  == Course(route[k + 1], route[k + 2])
    IN  IF Dot(before, after) > 0 THEN 0
        ELSE IF Dot(before, after) = 0 THEN 1 ELSE 2

SpeedStops(leg) ==         \* faulty: taken for a part of a right angle
    IF IsEnterCaptureRadius(wp0) /\ leg > 0 /\ TurningAngle(leg) > 0
    THEN 0 ELSE desired_speed

\* Near wp0 the speed is (1 - angle / pi) of the desired one.
Speed(leg) ==
    IF IsEnterCaptureRadius(wp0) /\ leg > 0
    THEN ((2 - TurningAngle(leg)) * desired_speed) \div 2
    ELSE desired_speed

(***************************************************************************)
(* CircularArcLOS: along the leg, turned by asin(e / los_radius) towards   *)
(* it, at right angles beyond los_radius.  The leg is the one read before  *)
(* the switch, the speed is computed with the index after it.              *)
(***************************************************************************)
CircularArcLOS ==
    /\ trackermode' = "TRACKING"
    /\ setpoint' = [course |-> Course(route[wp0], route[wp1]),
                    error  |-> Clipped(CrossTrack(wp0, wp1)),
                    speed  |-> Speed(index')]

(***************************************************************************)
(* The vessel until the next sample: it runs the set point's speed, along  *)
(* the course and towards the leg in the proportion of the LOS angle.      *)
(***************************************************************************)
Runs(s, e) ==
    LET l == los_radius
        along == s * s * (l * l - e * e)     \* (l * distance along the leg)^2
    IN  {run \in [along : 0 .. s, across : 0 .. s] :
            /\ Abs(run.across * l - s * Abs(e)) < l
            /\ run.along > 0 => l * l * (run.along - 1) * (run.along - 1) < along
            /\ along < l * l * (run.along + 1) * (run.along + 1)
            /\ s > 0 => run.along + run.across > 0}

Sail ==
    /\ vessel \in Sea \X Sea
    /\ \E run \in Runs(setpoint'.speed, setpoint'.error) :
          vessel' = Plus(vessel,
                      Plus(Scaled(run.along, setpoint'.course),
                           Scaled(-Sgn(setpoint'.error) * run.across,
                                  Left(setpoint'.course))))
    /\ visited' = visited \cup {k \in 1 .. Len(route) : IsEnterCaptureRadius(k)}
    /\ UNCHANGED route

ReachLastWaypoint ==       \* the last set point is kept
    /\ IsEnterCaptureRadius(wp1)
    /\ index = Len(route) - 2
    /\ trackermode' = "FINISHED"
    /\ UNCHANGED <<index, setpoint>>
    /\ Sail

NextWaypointAtStart ==     \* faulty: tests the beginning of the leg
    /\ IsEnterCaptureRadius(wp0)
    /\ index < Len(route) - 2
    /\ index' = index + 1
    /\ CircularArcLOS
    /\ Sail

NextWaypointUnguarded ==   \* faulty: runs past the end of the route
    /\ IsEnterCaptureRadius(wp1)
    /\ index' = index + 1
    /\ CircularArcLOS
    /\ Sail

NextWaypoint ==
    /\ IsEnterCaptureRadius(wp1)
    /\ index < Len(route) - 2
    /\ index' = index + 1
    /\ CircularArcLOS
    /\ Sail

StayOnLeg ==
    /\ ~IsEnterCaptureRadius(wp1)
    /\ UNCHANGED index
    /\ CircularArcLOS
    /\ Sail

Grid_LOS == ReachLastWaypoint \/ NextWaypoint \/ StayOnLeg

Spec == Init /\ [][Grid_LOS]_vars

\* The controller loop runs for ever.
FairSpec == Spec /\ WF_vars(Grid_LOS)

-----------------------------------------------------------------------------
StartsNear ==
    \E offset \in Offsets :
        /\ vessel = Plus(route[1], offset)
        /\ Dot(offset, offset) <= Radius(route) * Radius(route)
NoUTurn == \A k \in 1 .. Len(route) - 2 : TurningAngle(k) < 2

Length(k) == Dot(Course(route[k], route[k + 1]), Minus(route[k + 1], route[k]))
Paced == \A k \in 1 .. Len(route) - 1 : Length(k) >= desired_speed

(***************************************************************************)
(* No way point is skipped, also on a route that ends where it begins or   *)
(* whose capture circles overlap: when Grid_LOS reports FINISHED, a sample *)
(* was taken in the circle of every one.                                   *)
(***************************************************************************)
EveryWaypointVisited ==
    trackermode = "FINISHED" => 2 .. Len(route) \subseteq visited

(***************************************************************************)
(* A vessel that starts within the capture radius of the first way point   *)
(* never misses a circle: it comes to the last way point, although legs    *)
(* are switched one sample late, unless the route doubles back or the      *)
(* vessel outruns its legs, of which it takes one a sample at most.        *)
(***************************************************************************)
ReachesDestination ==
    StartsNear /\ NoUTurn /\ Paced => <>(trackermode = "FINISHED")

(***************************************************************************)
(* The vessel keeps to the leg it follows: from the first switch on it is  *)
(* off the line by at most the capture radius and the run of one sample,   *)
(* although it runs along the old leg for one more sample after each       *)
(* switch, and sails on through the destination.                           *)
(***************************************************************************)
KeepsToLeg ==
    index > 0 =>
        Abs(CrossTrack(wp0, wp1)) <= Radius(route) + desired_speed
=============================================================================
