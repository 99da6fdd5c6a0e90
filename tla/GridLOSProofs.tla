---------------------------- MODULE GridLOSProofs ----------------------------
(***************************************************************************)
(* Theorems about GridLOS for all routes along the axes, radii and speeds, *)
(* wherever the vessel starts.                                             *)
(***************************************************************************)
EXTENDS GridLOS, TLAPS

\* Coordinates stay integers.
LEMMA PlusType ==
    ASSUME NEW p \in Points, NEW q \in Points
    PROVE  Plus(p, q) \in Points
  BY DEF Plus, Points

LEMMA ScaledType ==
    ASSUME NEW n \in Int, NEW p \in Courses
    PROVE  Scaled(n, p) \in Points /\ Scaled(n, Left(p)) \in Points
  BY DEF Scaled, Left, Courses, Points

\* The cross-track error is an integer.
LEMMA CrossTrackType ==
    ASSUME NEW p \in Points, NEW q \in Points, NEW c \in Courses
    PROVE  Cross(c, Minus(p, q)) \in Int
  BY DEF Cross, Minus, Courses, Points

LEMMA ClippedType ==
    ASSUME NEW e \in Int
    PROVE  Clipped(e) \in -los_radius .. los_radius
  BY RadiusAssumption DEF Clipped

\* Slowing down for a turn never reverses the vessel.
LEMMA SpeedType ==
    ASSUME NEW leg
    PROVE  Speed(leg) \in 0 .. desired_speed
<1>1. TurningAngle(leg) \in {0, 1, 2}
  BY DEF TurningAngle
<1>2. desired_speed \in Nat /\ 0 <= desired_speed
  BY RadiusAssumption
<1>3. CASE ~(IsEnterCaptureRadius(wp0) /\ leg > 0)
  BY <1>2, <1>3 DEF Speed
<1>4. CASE IsEnterCaptureRadius(wp0) /\ leg > 0
  <2>1. CASE TurningAngle(leg) = 0
    BY <1>2, <1>4, <2>1 DEF Speed
  <2>2. CASE TurningAngle(leg) = 1
    BY <1>2, <1>4, <2>2 DEF Speed
  <2>3. CASE TurningAngle(leg) = 2
    BY <1>2, <1>4, <2>3 DEF Speed
  <2> QED
    BY <1>1, <2>1, <2>2, <2>3
<1> QED
  BY <1>3, <1>4

\* The leg that is followed has two way points of the route.
LEMMA LegType ==
    ASSUME TypeOK
    PROVE  /\ route \in Seq(Points)
           /\ wp0 \in 1 .. Len(route) /\ wp1 \in 1 .. Len(route)
           /\ route[wp0] \in Points /\ route[wp1] \in Points
           /\ Course(route[wp0], route[wp1]) \in Courses
<1>1. route \in Routes /\ route \in Seq(Points) /\ Len(route) >= 2
  BY RouteAssumption DEF TypeOK
<1>2. wp0 \in 1 .. Len(route) - 1 /\ wp1 = wp0 + 1
  BY <1>1 DEF TypeOK, wp0, wp1
<1> QED
  BY <1>1, <1>2, LegAssumption

SetpointType == [course : Courses, error : -los_radius .. los_radius,
                 speed : 0 .. desired_speed]

\* Grid_LOS keeps the set point well typed, and so does the vessel's position.
LEMMA SteeredType ==
    ASSUME TypeOK, CircularArcLOS
    PROVE  trackermode' = "TRACKING" /\ setpoint' \in SetpointType
<1>1. CrossTrack(wp0, wp1) \in Int
  BY LegType, CrossTrackType DEF CrossTrack, TypeOK
<1> QED
  BY <1>1, LegType, ClippedType, SpeedType
     DEF CircularArcLOS, SetpointType

LEMMA SailedType ==
    ASSUME TypeOK, setpoint' \in SetpointType, Sail
    PROVE  vessel' \in Points /\ route' = route /\ visited' \subseteq 1 .. Len(route)
<1>1. PICK run \in Runs(setpoint'.speed, setpoint'.error) :
          vessel' = Plus(vessel,
                      Plus(Scaled(run.along, setpoint'.course),
                           Scaled(-Sgn(setpoint'.error) * run.across,
                                  Left(setpoint'.course))))
  BY DEF Sail
<1>2. /\ setpoint'.speed \in Nat /\ setpoint'.error \in Int
      /\ setpoint'.course \in Courses
  BY RadiusAssumption DEF SetpointType
<1>3. run \in [along : 0 .. setpoint'.speed, across : 0 .. setpoint'.speed]
  BY <1>1 DEF Runs
<1>4. run.along \in Int /\ run.across \in Int
  BY <1>2, <1>3
<1>5. -Sgn(setpoint'.error) * run.across \in Int
  BY <1>2, <1>4 DEF Sgn
<1>6. vessel' \in Points
  BY <1>1, <1>2, <1>4, <1>5, ScaledType, PlusType DEF TypeOK
<1> QED
  BY <1>6 DEF Sail, TypeOK

(***************************************************************************)
(* Type correctness: the way-point index never leaves the route, the speed *)
(* is never negative, for every route.                                     *)
(***************************************************************************)
THEOREM TypeCorrect == Spec => []TypeOK
<1>1. Init => TypeOK
  <2> SUFFICES ASSUME Init PROVE TypeOK
    OBVIOUS
  <2>1. route \in Routes /\ route \in Seq(Points) /\ Len(route) >= 2
    BY RouteAssumption DEF Init
  <2>2. vessel \in Points
    BY <2>1, OffsetAssumption, PlusType DEF Init
  <2>3. setpoint \in SetpointType
    BY RadiusAssumption DEF Init, SetpointType, Courses
  <2> QED
    BY <2>1, <2>2, <2>3 DEF Init, TypeOK, SetpointType
<1>2. TypeOK /\ [Grid_LOS]_vars => TypeOK'
  <2> SUFFICES ASSUME TypeOK, [Grid_LOS]_vars PROVE TypeOK'
    OBVIOUS
  <2>1. CASE ReachLastWaypoint
    <3>1. setpoint' \in SetpointType
      BY <2>1 DEF ReachLastWaypoint, TypeOK, SetpointType
    <3> QED
      BY <2>1, <3>1, SailedType
         DEF ReachLastWaypoint, TypeOK, SetpointType, Sail
  <2>2. CASE NextWaypoint
    <3>1. setpoint' \in SetpointType /\ trackermode' = "TRACKING"
      BY <2>2, SteeredType DEF NextWaypoint
    <3>2. index' \in 0 .. Len(route) - 2
      BY <2>2, LegType DEF NextWaypoint, TypeOK
    <3> QED
      BY <2>2, <3>1, <3>2, SailedType
         DEF NextWaypoint, TypeOK, SetpointType, Sail
  <2>3. CASE StayOnLeg
    <3>1. setpoint' \in SetpointType /\ trackermode' = "TRACKING"
      BY <2>3, SteeredType DEF StayOnLeg
    <3> QED
      BY <2>3, <3>1, SailedType
         DEF StayOnLeg, TypeOK, SetpointType, Sail
  <2>4. CASE UNCHANGED vars
    BY <2>4 DEF vars, TypeOK
  <2> QED
    BY <2>1, <2>2, <2>3, <2>4 DEF Grid_LOS
<1> QED
  BY <1>1, <1>2, PTL DEF Spec

-----------------------------------------------------------------------------
(***************************************************************************)
(* The circles entered so far reach up to the leg that is followed; the    *)
(* last one was entered before FINISHED is reported.                       *)
(***************************************************************************)
VisitedInOrder ==
    /\ 2 .. index + 1 \subseteq visited
    /\ trackermode = "FINISHED" =>
          index = Len(route) - 2 /\ Len(route) \in visited

(***************************************************************************)
(* No way point of any route is skipped.                                   *)
(***************************************************************************)
THEOREM NoWaypointSkipped == Spec => []EveryWaypointVisited
<1>1. Init => VisitedInOrder
  BY DEF Init, VisitedInOrder
<1>2. TypeOK /\ VisitedInOrder /\ [Grid_LOS]_vars => VisitedInOrder'
  <2> SUFFICES ASSUME TypeOK, VisitedInOrder, [Grid_LOS]_vars
               PROVE  VisitedInOrder'
    OBVIOUS
  <2>1. CASE ReachLastWaypoint
    <3>1. wp1 = Len(route) /\ wp1 \in 1 .. Len(route)
      BY <2>1, LegType DEF ReachLastWaypoint, TypeOK, wp1
    <3> QED
      BY <2>1, <3>1 DEF ReachLastWaypoint, Sail, VisitedInOrder
  <2>2. CASE NextWaypoint
    <3>1. wp1 \in visited' /\ visited \subseteq visited'
      BY <2>2, LegType DEF NextWaypoint, Sail
    <3>2. 2 .. index' + 1 \subseteq (2 .. index + 1) \cup {wp1}
      BY <2>2 DEF NextWaypoint, TypeOK, wp1
    <3> QED
      BY <2>2, <3>1, <3>2
         DEF NextWaypoint, CircularArcLOS, VisitedInOrder
  <2>3. CASE StayOnLeg
    BY <2>3 DEF StayOnLeg, CircularArcLOS, Sail, VisitedInOrder
  <2>4. CASE UNCHANGED vars
    BY <2>4 DEF vars, VisitedInOrder
  <2> QED
    BY <2>1, <2>2, <2>3, <2>4 DEF Grid_LOS
<1>3. TypeOK /\ VisitedInOrder => EveryWaypointVisited
  <2> SUFFICES ASSUME TypeOK, VisitedInOrder, trackermode = "FINISHED"
               PROVE  2 .. Len(route) \subseteq visited
    BY DEF EveryWaypointVisited
  <2>1. Len(route) \in Nat /\ index + 1 = Len(route) - 1
    BY LegType DEF TypeOK, VisitedInOrder
  <2> QED
    BY <2>1 DEF VisitedInOrder
<1> QED
  BY <1>1, <1>2, <1>3, TypeCorrect, PTL DEF Spec

-----------------------------------------------------------------------------
(***************************************************************************)
(* Distances.  In the frame of a leg Dot is how far the vessel is along it *)
(* and Cross how far off; a turn by quarters exchanges the two.            *)
(***************************************************************************)
LEMMA SquaresGrow ==
    ASSUME NEW m \in Nat, NEW n \in Nat, m * m <= n * n
    PROVE  m <= n
<1> SUFFICES ASSUME n + 1 <= m PROVE FALSE
  OBVIOUS
<1>1. (n + 1) * (n + 1) <= m * m
  <2>1. PICK d \in Nat : m = (n + 1) + d
    <3>1. m - (n + 1) \in Nat /\ m = (n + 1) + (m - (n + 1))
      OBVIOUS
    <3> QED
      BY <3>1
  <2>2. m * m = (n + 1) * (n + 1) + 2 * (d * (n + 1)) + d * d
    BY <2>1
  <2>3. d * (n + 1) >= 0 /\ d * d >= 0
    BY <2>1
  <2> QED
    BY <2>2, <2>3
<1>2. (n + 1) * (n + 1) = n * n + 2 * n + 1
  OBVIOUS
<1> QED
  BY <1>1, <1>2

LEMMA SideOfCircle ==
    ASSUME NEW x \in Int, NEW y \in Int, NEW R \in Nat, x * x + y * y <= R * R
    PROVE  Abs(x) <= R /\ Abs(y) <= R
<1>1. /\ Abs(x) \in Nat /\ Abs(x) * Abs(x) = x * x
      /\ Abs(y) \in Nat /\ Abs(y) * Abs(y) = y * y
  BY DEF Abs
<1>2. x * x >= 0 /\ y * y >= 0
  BY <1>1
<1>3. Abs(x) * Abs(x) <= R * R /\ Abs(y) * Abs(y) <= R * R
  BY <1>1, <1>2
<1> QED
  BY <1>1, <1>3, SquaresGrow

LEMMA Frame ==
    ASSUME NEW c \in Courses, NEW w \in Points
    PROVE  /\ w[1] \in Int /\ w[2] \in Int
           /\ \/ Dot(c, w) = w[1] /\ Cross(c, w) = w[2]
              \/ Dot(c, w) = -w[1] /\ Cross(c, w) = -w[2]
              \/ Dot(c, w) = w[2] /\ Cross(c, w) = -w[1]
              \/ Dot(c, w) = -w[2] /\ Cross(c, w) = w[1]
BY DEF Courses, Points, Dot, Cross

LEMMA FrameType ==
    ASSUME NEW c \in Courses, NEW w \in Points
    PROVE  /\ Dot(c, w) \in Int /\ Cross(c, w) \in Int
           /\ Dot(c, w) * Dot(c, w) + Cross(c, w) * Cross(c, w) = Dot(w, w)
BY Frame DEF Dot

LEMMA Turned ==
    ASSUME NEW c \in Courses, NEW d \in Courses, NEW w \in Points, NEW R \in Nat,
           Abs(Dot(c, w)) <= R, Abs(Cross(c, w)) <= R
    PROVE  Abs(Dot(d, w)) <= R /\ Abs(Cross(d, w)) <= R
<1>1. w[1] \in Int /\ w[2] \in Int
  BY Frame
<1>2. Abs(w[1]) <= R /\ Abs(w[2]) <= R
  BY <1>1, Frame DEF Abs
<1> QED
  BY <1>1, <1>2, Frame DEF Abs

\* The vessel in the frame of a leg from p to q
LEMMA LegFrame ==
    ASSUME NEW p \in Points, NEW q \in Points, NEW v \in Points,
           Course(p, q) \in Courses
    PROVE  LET c == Course(p, q)
           IN  /\ Cross(c, Minus(v, p)) = Cross(c, Minus(v, q))
               /\ Dot(c, Minus(v, p)) = Dot(c, Minus(v, q)) + Dot(c, Minus(q, p))
               /\ Minus(v, p) \in Points /\ Minus(v, q) \in Points
<1> DEFINE c == Course(p, q)
<1>1. /\ p[1] \in Int /\ p[2] \in Int /\ q[1] \in Int /\ q[2] \in Int
      /\ v[1] \in Int /\ v[2] \in Int
  BY DEF Points
<1>2. /\ Minus(v, p) = <<v[1] - p[1], v[2] - p[2]>>
      /\ Minus(v, q) = <<v[1] - q[1], v[2] - q[2]>>
      /\ Minus(q, p) = <<q[1] - p[1], q[2] - p[2]>>
  BY DEF Minus
<1>3. /\ Sgn(q[1] - p[1]) = 0 => q[1] = p[1]
      /\ Sgn(q[2] - p[2]) = 0 => q[2] = p[2]
  BY <1>1 DEF Sgn
<1>4. \/ c = <<1, 0>> /\ q[2] = p[2]
      \/ c = <<-1, 0>> /\ q[2] = p[2]
      \/ c = <<0, 1>> /\ q[1] = p[1]
      \/ c = <<0, -1>> /\ q[1] = p[1]
  BY <1>3 DEF Course, Courses
<1> HIDE DEF c
<1>5. /\ Cross(c, Minus(v, p)) = Cross(c, Minus(v, q))
      /\ Dot(c, Minus(v, p)) = Dot(c, Minus(v, q)) + Dot(c, Minus(q, p))
  <2>1. /\ Minus(v, p) \in Points /\ Minus(v, q) \in Points /\ c \in Courses
        /\ Minus(q, p) \in Points
    BY <1>1, <1>2 DEF Points, c
  <2>2. /\ Minus(v, p)[1] = Minus(v, q)[1] + Minus(q, p)[1]
        /\ Minus(v, p)[2] = Minus(v, q)[2] + Minus(q, p)[2]
    BY <1>1, <1>2
  <2>3. CASE c \in {<<1, 0>>, <<-1, 0>>} /\ q[2] = p[2]
    BY <1>1, <1>2, <2>1, <2>2, <2>3 DEF Cross, Dot, Points
  <2>4. CASE c \in {<<0, 1>>, <<0, -1>>} /\ q[1] = p[1]
    BY <1>1, <1>2, <2>1, <2>2, <2>4 DEF Cross, Dot, Points
  <2> QED
    BY <1>4, <2>3, <2>4
<1> QED
  BY <1>1, <1>2, <1>5 DEF Points, c

Shifted(v, c, along, aside) ==
    Plus(v, Plus(Scaled(along, c), Scaled(aside, Left(c))))

LEMMA ShiftedFrame ==
    ASSUME NEW v \in Points, NEW q \in Points, NEW c \in Courses,
           NEW along \in Int, NEW aside \in Int
    PROVE  LET w == Minus(Shifted(v, c, along, aside), q)
           IN  /\ w \in Points
               /\ Dot(c, w) = Dot(c, Minus(v, q)) + along
               /\ Cross(c, w) = Cross(c, Minus(v, q)) + aside
BY DEF Shifted, Plus, Minus, Scaled, Left, Courses, Points, Dot, Cross

LEMMA RadiusType == Radius(route) \in Nat
BY RadiusAssumption DEF Radius

LEMMA InCircle ==
    ASSUME TypeOK, NEW k \in 1 .. Len(route), IsEnterCaptureRadius(k),
           NEW c \in Courses
    PROVE  /\ Abs(Dot(c, Minus(vessel, route[k]))) <= Radius(route)
           /\ Abs(Cross(c, Minus(vessel, route[k]))) <= Radius(route)
<1> DEFINE w == Minus(vessel, route[k])
<1>1. route[k] \in Points
  BY LegType
<1>2. w \in Points
  BY <1>1 DEF TypeOK, Points, Minus
<1>3. Dot(w, w) <= Radius(route) * Radius(route)
  BY DEF IsEnterCaptureRadius, DistanceSquare
<1> HIDE DEF w
<1>4. /\ Dot(c, w) \in Int /\ Cross(c, w) \in Int
      /\ Dot(c, w) * Dot(c, w) + Cross(c, w) * Cross(c, w)
           <= Radius(route) * Radius(route)
  BY <1>2, <1>3, FrameType
<1>5. Abs(Dot(c, w)) <= Radius(route) /\ Abs(Cross(c, w)) <= Radius(route)
  BY <1>4, RadiusType, SideOfCircle
<1> QED
  BY <1>5 DEF w

-----------------------------------------------------------------------------
(***************************************************************************)
(* One sample.  A vessel no faster than los_radius a sample never crosses  *)
(* the leg, and one that is far enough off comes closer.                   *)
(***************************************************************************)
LEMMA RunBounds ==
    ASSUME NEW s \in Nat, s <= los_radius,
           NEW e \in -los_radius .. los_radius, NEW run \in Runs(s, e)
    PROVE  /\ run.along \in 0 .. s /\ run.across \in 0 .. s
           /\ run.across <= Abs(e)
           /\ s * Abs(e) >= los_radius => run.across >= 1
<1> DEFINE n == run.across
           l == los_radius
           f == Abs(e)
<1>1. l \in Nat /\ l > 0 /\ f \in Nat
  BY RadiusAssumption DEF Abs
<1>2. /\ run.along \in 0 .. s /\ n \in 0 .. s
      /\ Abs(n * l - s * f) < l
  BY DEF Runs
<1> HIDE DEF n, l, f
<1>3. n * l \in Int /\ s * f \in Int
  BY <1>1, <1>2
<1>4. n * l < s * f + l /\ s * f - l < n * l
  BY <1>1, <1>2, <1>3 DEF Abs
<1>5. n <= f
  <2> SUFFICES ASSUME f + 1 <= n PROVE FALSE
    BY <1>1, <1>2
  <2>1. s * f <= l * f
    <3>1. (l - s) * f >= 0
      <4>1. l - s \in Nat
        BY <1>1 DEF l
      <4> QED
        BY <1>1, <4>1
    <3>2. (l - s) * f = l * f - s * f
      BY <1>1
    <3> QED
      BY <1>1, <3>1, <3>2
  <2>2. (f + 1) * l <= n * l
    <3>1. (n - (f + 1)) * l >= 0
      <4>1. n - (f + 1) \in Nat
        BY <1>1, <1>2
      <4> QED
        BY <1>1, <4>1
    <3>2. (n - (f + 1)) * l = n * l - (f + 1) * l
      BY <1>1, <1>2
    <3> QED
      BY <1>1, <1>2, <3>1, <3>2
  <2>3. (f + 1) * l = l * f + l
    BY <1>1
  <2> QED
    BY <1>1, <1>2, <1>4, <2>1, <2>2, <2>3
<1>6. s * f >= l => n >= 1
  <2> SUFFICES ASSUME s * f >= l, n = 0 PROVE FALSE
    BY <1>2
  <2>1. n * l = 0
    BY <1>1
  <2> QED
    BY <1>1, <1>3, <1>4, <2>1
<1> QED
  BY <1>2, <1>5, <1>6 DEF n, l, f

\* Where the vessel is along the leg it follows (negative: ahead of its end)
Along == Dot(Course(route[wp0], route[wp1]), Minus(vessel, route[wp1]))
Off   == Abs(CrossTrack(wp0, wp1))

\* The vessel's move while it is steered along the leg it followed.
LEMMA Followed ==
    ASSUME TypeOK, desired_speed <= los_radius, CircularArcLOS, Sail
    PROVE  LET c == Course(route[wp0], route[wp1])
               w == Minus(vessel', route[wp1])
           IN  /\ vessel' \in Points /\ w \in Points
               /\ Along \in Int /\ Off \in Nat
               /\ Off = Abs(Cross(c, Minus(vessel, route[wp1])))
               /\ \E along \in 0 .. Speed(index'), across \in 0 .. Off :
                    /\ Dot(c, w) = Along + along
                    /\ Abs(Cross(c, w)) = Off - across
                    /\ Speed(index') >= 1 /\ Speed(index') * Off >= los_radius
                         => across >= 1
<1> DEFINE c == Course(route[wp0], route[wp1])
           p == route[wp0]
           q == route[wp1]
           s == Speed(index')
           e == CrossTrack(wp0, wp1)
           f == Clipped(e)
<1>1. c \in Courses /\ p \in Points /\ q \in Points /\ vessel \in Points
  BY LegType DEF TypeOK
<1>2. /\ e = Cross(c, Minus(vessel, p)) /\ e = Cross(c, Minus(vessel, q))
      /\ Minus(vessel, q) \in Points
  BY <1>1, LegFrame DEF CrossTrack
<1>3. /\ Along = Dot(c, Minus(vessel, q)) /\ Off = Abs(e)
      /\ Along \in Int /\ e \in Int
  BY <1>1, <1>2, FrameType DEF Along, Off
<1>4. /\ setpoint'.course = c /\ setpoint'.error = f /\ setpoint'.speed = s
  BY DEF CircularArcLOS
<1>5. s \in 0 .. desired_speed /\ desired_speed \in Nat
  BY SpeedType, RadiusAssumption
<1>6. f \in -los_radius .. los_radius /\ los_radius \in Nat \ {0}
  BY <1>3, ClippedType, RadiusAssumption
<1>7. PICK run \in Runs(s, f) :
          vessel' = Shifted(vessel, c, run.along, -Sgn(f) * run.across)
  BY <1>4 DEF Sail, Shifted
<1> HIDE DEF c, p, q, s, e
<1>8. s \in Nat /\ s <= los_radius
  BY <1>5, <1>6
<1> HIDE DEF f
<1>9. /\ run.along \in 0 .. s /\ run.across \in 0 .. s
      /\ run.across <= Abs(f)
      /\ s * Abs(f) >= los_radius => run.across >= 1
  BY <1>6, <1>7, <1>8, RunBounds
<1>10. /\ run.along \in Int /\ run.across \in Nat
       /\ -Sgn(f) * run.across \in Int
  BY <1>6, <1>8, <1>9 DEF Sgn
<1>11. /\ Minus(vessel', q) \in Points
       /\ Dot(c, Minus(vessel', q)) = Along + run.along
       /\ Cross(c, Minus(vessel', q)) = e - Sgn(f) * run.across
  <2>1. /\ Minus(vessel', q) \in Points
        /\ Dot(c, Minus(vessel', q)) = Along + run.along
        /\ Cross(c, Minus(vessel', q)) = e + (-Sgn(f) * run.across)
    BY <1>1, <1>2, <1>3, <1>7, <1>10, ShiftedFrame
  <2>2. e + (-Sgn(f) * run.across) = e - Sgn(f) * run.across
    BY <1>3, <1>6, <1>10 DEF Sgn
  <2> QED
    BY <2>1, <2>2
<1>12. /\ Sgn(f) = Sgn(e) /\ Abs(f) <= Abs(e)
       /\ Abs(f) = Abs(e) \/ Abs(f) = los_radius
  BY <1>3, <1>6 DEF f, Clipped, Sgn, Abs
<1>13. Abs(e - Sgn(f) * run.across) = Abs(e) - run.across
  <2>1. run.across <= Abs(e)
    BY <1>3, <1>6, <1>9, <1>10, <1>12 DEF Abs
  <2> QED
    BY <1>3, <1>10, <1>12, <2>1 DEF Sgn, Abs
<1>14. s >= 1 /\ s * Abs(e) >= los_radius => run.across >= 1
  <2>1. s >= 1 => s * los_radius >= los_radius
    <3> SUFFICES ASSUME s >= 1 PROVE s * los_radius >= los_radius
      OBVIOUS
    <3>1. (s - 1) * los_radius >= 0
      <4>1. s - 1 \in Nat
        BY <1>8
      <4> QED
        BY <1>6, <4>1
    <3>2. (s - 1) * los_radius = s * los_radius - los_radius
      BY <1>6, <1>8
    <3> QED
      BY <1>6, <1>8, <3>1, <3>2
  <2> QED
    BY <1>9, <1>12, <2>1
<1>15. Abs(e) \in Nat /\ run.across \in 0 .. Abs(e)
  BY <1>3, <1>6, <1>9, <1>10, <1>12 DEF Abs
<1>16. vessel' \in Points
  BY <1>1, <1>7, <1>10, ScaledType, PlusType DEF Shifted
<1>17. /\ run.along \in 0 .. s /\ run.across \in 0 .. Off
       /\ Dot(c, Minus(vessel', q)) = Along + run.along
       /\ Abs(Cross(c, Minus(vessel', q))) = Off - run.across
       /\ s >= 1 /\ s * Off >= los_radius => run.across >= 1
  BY <1>3, <1>9, <1>11, <1>13, <1>14, <1>15
<1> QED
  BY <1>2, <1>3, <1>11, <1>15, <1>16, <1>17 DEF c, q, s

\* The vessel's move in the frame of any leg, and after a switch to it
LEMMA NextFrame ==
    ASSUME TypeOK, index < Len(route) - 2
    PROVE  /\ wp1 \in 1 .. Len(route) - 1
           /\ route[wp1 + 1] \in Points
           /\ Course(route[wp1], route[wp1 + 1]) \in Courses
<1>1. route \in Seq(Points) /\ wp1 \in 1 .. Len(route) - 1 /\ Len(route) \in Nat
  BY LegType DEF TypeOK, wp1
<1> QED
  BY <1>1, LegAssumption DEF TypeOK

LEMMA OffAfter ==
    ASSUME TypeOK, route' = route, vessel' \in Points,
           index' \in 0 .. Len(route) - 2
    PROVE  LET p == route[index' + 1]
               q == route[index' + 2]
               c == Course(p, q)
           IN  /\ c \in Courses /\ p \in Points /\ q \in Points
               /\ Minus(vessel', p) \in Points /\ Minus(vessel', q) \in Points
               /\ Off' = Abs(Cross(c, Minus(vessel', p)))
               /\ Off' = Abs(Cross(c, Minus(vessel', q)))
               /\ Along' = Dot(c, Minus(vessel', q))
               /\ Along' = Dot(c, Minus(vessel', p)) - Dot(c, Minus(q, p))
               /\ Along' \in Int /\ Off' \in Nat
<1> DEFINE p == route[index' + 1]
           q == route[index' + 2]
           c == Course(p, q)
<1>1. /\ route \in Seq(Points)
      /\ index' + 1 \in 1 .. Len(route) - 1
      /\ index' + 1 \in 1 .. Len(route) /\ index' + 2 \in 1 .. Len(route)
      /\ index' + 2 = (index' + 1) + 1
  <2>1. route \in Seq(Points) /\ Len(route) \in Nat
    BY LegType
  <2>2. \A n \in 0 .. Len(route) - 2 :
           /\ n + 1 \in 1 .. Len(route) - 1
           /\ n + 1 \in 1 .. Len(route) /\ n + 2 \in 1 .. Len(route)
           /\ n + 2 = (n + 1) + 1
    BY <2>1
  <2> QED
    BY <2>1, <2>2, Zenon
<1>2. c \in Courses /\ p \in Points /\ q \in Points
  <2>1. \A k \in 1 .. Len(route) - 1 : Course(route[k], route[k + 1]) \in Courses
    BY LegAssumption DEF TypeOK
  <2>2. \A k \in 1 .. Len(route) : route[k] \in Points
    BY <1>1
  <2>3. c = Course(route[index' + 1], route[(index' + 1) + 1])
    BY <1>1
  <2> QED
    BY <1>1, <2>1, <2>2, <2>3
<1>3. Off' = Abs(Cross(c, Minus(vessel', p))) /\ Along' = Dot(c, Minus(vessel', q))
  BY DEF Off, Along, CrossTrack, wp0, wp1
<1>4. /\ Cross(c, Minus(vessel', p)) = Cross(c, Minus(vessel', q))
      /\ Dot(c, Minus(vessel', p))
           = Dot(c, Minus(vessel', q)) + Dot(c, Minus(q, p))
      /\ Minus(vessel', p) \in Points /\ Minus(vessel', q) \in Points
  BY <1>2, LegFrame
<1>5. Minus(q, p) \in Points
  BY <1>2 DEF Minus, Points
<1> HIDE DEF c, p, q
<1>6. /\ Dot(c, Minus(vessel', q)) \in Int /\ Dot(c, Minus(q, p)) \in Int
      /\ Cross(c, Minus(vessel', p)) \in Int
  BY <1>2, <1>4, <1>5, FrameType
<1>7. Abs(Cross(c, Minus(vessel', p))) \in Nat
  BY <1>6 DEF Abs
<1> QED
  BY <1>2, <1>3, <1>4, <1>6, <1>7 DEF c, q, p

LEMMA OffNow ==
    ASSUME TypeOK
    PROVE  LET p == route[wp0]
               q == route[wp1]
               c == Course(p, q)
           IN  /\ c \in Courses
               /\ Off = Abs(Cross(c, Minus(vessel, p)))
               /\ Off = Abs(Cross(c, Minus(vessel, q)))
               /\ Along = Dot(c, Minus(vessel, q))
               /\ Along = Dot(c, Minus(vessel, p)) - Dot(c, Minus(q, p))
               /\ Minus(vessel, q) \in Points /\ Dot(c, Minus(q, p)) \in Int
               /\ Along \in Int /\ Off \in Nat
<1> DEFINE p == route[wp0]
           q == route[wp1]
           c == Course(p, q)
<1>1. c \in Courses /\ p \in Points /\ q \in Points /\ vessel \in Points
  BY LegType DEF TypeOK
<1>2. /\ Cross(c, Minus(vessel, p)) = Cross(c, Minus(vessel, q))
      /\ Dot(c, Minus(vessel, p)) = Dot(c, Minus(vessel, q)) + Dot(c, Minus(q, p))
      /\ Minus(vessel, p) \in Points /\ Minus(vessel, q) \in Points
  BY <1>1, LegFrame
<1>3. Off = Abs(Cross(c, Minus(vessel, p))) /\ Along = Dot(c, Minus(vessel, q))
  BY DEF Off, Along, CrossTrack
<1>4. Minus(q, p) \in Points
  BY <1>1 DEF Minus, Points
<1> HIDE DEF c, p, q
<1>5. /\ Dot(c, Minus(vessel, q)) \in Int /\ Dot(c, Minus(q, p)) \in Int
      /\ Cross(c, Minus(vessel, p)) \in Int
  BY <1>1, <1>2, <1>4, FrameType
<1>6. Abs(Cross(c, Minus(vessel, p))) \in Nat
  BY <1>5 DEF Abs
<1> QED
  BY <1>1, <1>2, <1>3, <1>5, <1>6 DEF c, q, p

\* After a switch the vessel is as near to the new leg as it was to the old.
LEMMA Switched ==
    ASSUME TypeOK, desired_speed <= los_radius, NextWaypoint,
           NEW R \in Nat, Radius(route) <= R, Along + desired_speed <= R
    PROVE  Off' <= R /\ Along' <= R - Dot(Course(route[wp0'], route[wp1']),
                                          Minus(route[wp1'], route[wp0']))
<1> DEFINE c == Course(route[wp0], route[wp1])
           w == Minus(vessel', route[wp1])
           d == Course(route[wp1], route[wp1 + 1])
<1>1. IsEnterCaptureRadius(wp1) /\ index < Len(route) - 2 /\ index' = index + 1
      /\ CircularArcLOS /\ Sail
  BY DEF NextWaypoint
<1>2. wp1 \in 1 .. Len(route) /\ c \in Courses
  BY LegType
<1>3. /\ vessel' \in Points /\ w \in Points /\ Along \in Int /\ Off \in Nat
      /\ Off = Abs(Cross(c, Minus(vessel, route[wp1])))
      /\ \E along \in 0 .. Speed(index'), across \in 0 .. Off :
           /\ Dot(c, w) = Along + along
           /\ Abs(Cross(c, w)) = Off - across
  BY <1>1, Followed
<1>4. /\ Abs(Along) <= Radius(route) /\ Off <= Radius(route)
  BY <1>1, <1>2, <1>3, InCircle, OffNow
<1>5. Speed(index') \in 0 .. desired_speed /\ desired_speed \in Nat
      /\ Radius(route) \in Nat
  BY SpeedType, RadiusType, RadiusAssumption
<1>6. d \in Courses
  BY <1>1, NextFrame
<1>7. /\ route' = route /\ index' \in 0 .. Len(route) - 2
      /\ wp0' = wp1 /\ wp1' = wp1 + 1 /\ index' + 1 = wp1 /\ index' + 2 = wp1 + 1
  <2>1. index \in 0 .. Len(route) - 2 /\ Len(route) \in Nat
    BY LegType DEF TypeOK
  <2> QED
    BY <1>1, <2>1 DEF Sail, wp0, wp1
<1>8. /\ Off' = Abs(Cross(d, w))
      /\ Along' = Dot(d, w) - Dot(d, Minus(route[wp1 + 1], route[wp1]))
      /\ Along' \in Int /\ Minus(route[wp1 + 1], route[wp1]) \in Points
  <2>1. Minus(route[wp1 + 1], route[wp1]) \in Points
    <3>1. route[wp1] \in Points /\ route[wp1 + 1] \in Points
      BY <1>1, LegType, NextFrame
    <3> QED
      BY <3>1 DEF Minus, Points
  <2> QED
    BY <1>3, <1>7, <2>1, OffAfter
<1>9. /\ d = Course(route[wp0'], route[wp1'])
      /\ Minus(route[wp1 + 1], route[wp1]) = Minus(route[wp1'], route[wp0'])
  BY <1>7
<1> HIDE DEF c, w, d
<1>10. Dot(c, w) \in Int /\ Cross(c, w) \in Int /\ Dot(d, w) \in Int
  BY <1>2, <1>3, <1>6, FrameType
<1>11. Abs(Dot(c, w)) <= R /\ Abs(Cross(c, w)) <= R
  <2>1. PICK along \in 0 .. Speed(index'), across \in 0 .. Off :
           /\ Dot(c, w) = Along + along
           /\ Abs(Cross(c, w)) = Off - across
    BY <1>3
  <2>2. along \in 0 .. desired_speed /\ across \in Nat
    BY <1>3, <1>5, <2>1
  <2>3. -Radius(route) <= Along
    BY <1>3, <1>4, <1>5 DEF Abs
  <2> QED
    BY <1>3, <1>4, <1>5, <1>10, <2>1, <2>2, <2>3 DEF Abs
<1>12. Abs(Dot(d, w)) <= R /\ Abs(Cross(d, w)) <= R
  BY <1>2, <1>3, <1>6, <1>11, Turned
<1>13. Dot(d, w) <= R
  BY <1>10, <1>12 DEF Abs
<1>14. Dot(d, Minus(route[wp1 + 1], route[wp1])) \in Int
  BY <1>6, <1>8, FrameType
<1> QED
  BY <1>8, <1>9, <1>10, <1>12, <1>13, <1>14

-----------------------------------------------------------------------------
(***************************************************************************)
(* On every route, however short its legs: from the first switch on the    *)
(* vessel is off its leg by at most the capture radius and the run of one  *)
(* sample, also when it has sailed through the destination.                *)
(***************************************************************************)
THEOREM LegsInReach ==
    ASSUME desired_speed <= los_radius
    PROVE  Spec => []KeepsToLeg
<1>1. Init => KeepsToLeg
  BY DEF Init, KeepsToLeg
<1>2. TypeOK /\ TypeOK' /\ KeepsToLeg /\ [Grid_LOS]_vars => KeepsToLeg'
  <2> SUFFICES ASSUME TypeOK, TypeOK', KeepsToLeg, [Grid_LOS]_vars, index' > 0
               PROVE  Off' <= Radius(route)' + desired_speed
    BY DEF KeepsToLeg, Off
  <2>1. /\ Radius(route) \in Nat /\ desired_speed \in Nat
        /\ route' = route => Radius(route)' = Radius(route)
    BY RadiusType, RadiusAssumption DEF Radius
  <2>2. CASE ReachLastWaypoint
    <3>1. /\ IsEnterCaptureRadius(wp1) /\ index' = index /\ setpoint' = setpoint
          /\ Sail /\ route' = route
      BY <2>2 DEF ReachLastWaypoint, Sail
    <3> DEFINE d == setpoint.course
               c == Course(route[wp0], route[wp1])
               u == Minus(vessel, route[wp1])
               w == Minus(vessel', route[wp1])
    <3>2. /\ d \in Courses /\ setpoint.speed \in 0 .. desired_speed
          /\ setpoint.error \in Int
      BY <2>1, RadiusAssumption DEF TypeOK
    <3>3. PICK run \in Runs(setpoint.speed, setpoint.error) :
             vessel' = Shifted(vessel, d, run.along,
                               -Sgn(setpoint.error) * run.across)
      BY <3>1 DEF Sail, Shifted
    <3>4. run.along \in 0 .. desired_speed /\ run.across \in 0 .. desired_speed
      <4>1. run.along \in 0 .. setpoint.speed /\ run.across \in 0 .. setpoint.speed
        BY <3>3 DEF Runs
      <4> QED
        BY <2>1, <3>2, <4>1
    <3> DEFINE aside == -Sgn(setpoint.error) * run.across
    <3>5. aside \in -desired_speed .. desired_speed
      BY <2>1, <3>2, <3>4 DEF Sgn
    <3>6. /\ c \in Courses /\ vessel \in Points /\ route[wp1] \in Points
          /\ wp1 \in 1 .. Len(route)
      BY LegType DEF TypeOK
    <3>7. /\ w \in Points
          /\ Dot(d, w) = Dot(d, u) + run.along /\ Cross(d, w) = Cross(d, u) + aside
      <4> HIDE DEF aside
      <4>1. run.along \in Int /\ aside \in Int
        BY <2>1, <3>4, <3>5
      <4>2. vessel' = Shifted(vessel, d, run.along, aside)
        BY <3>3 DEF aside
      <4> QED
        BY <3>2, <3>6, <4>1, <4>2, ShiftedFrame
    <3>8. Abs(Dot(d, u)) <= Radius(route) /\ Abs(Cross(d, u)) <= Radius(route)
      BY <3>1, <3>2, <3>6, InCircle
    <3>9. u \in Points
      BY <3>6 DEF Minus, Points
    <3>10. Off' = Abs(Cross(c, w))
      <4>1. /\ vessel' \in Points /\ index' \in 0 .. Len(route) - 2
            /\ index' + 1 = wp0 /\ index' + 2 = wp1
        BY <3>1 DEF TypeOK, wp0, wp1
      <4> QED
        BY <3>1, <4>1, OffAfter
    <3> HIDE DEF d, c, u, w, aside
    <3>11. Dot(d, u) \in Int /\ Cross(d, u) \in Int
      BY <3>2, <3>9, FrameType
    <3>12. /\ Abs(Dot(d, w)) <= Radius(route) + desired_speed
           /\ Abs(Cross(d, w)) <= Radius(route) + desired_speed
      BY <2>1, <3>4, <3>5, <3>7, <3>8, <3>11 DEF Abs
    <3>13. Abs(Cross(c, w)) <= Radius(route) + desired_speed
      <4>1. Radius(route) + desired_speed \in Nat
        BY <2>1
      <4> QED
        BY <3>2, <3>6, <3>7, <3>12, <4>1, Turned
    <3> QED
      BY <2>1, <3>1, <3>10, <3>13
  <2>3. CASE NextWaypoint
    <3>1. route' = route /\ IsEnterCaptureRadius(wp1)
      BY <2>3 DEF NextWaypoint, Sail
    <3>2. /\ Along \in Int /\ Abs(Along) <= Radius(route)
      BY <3>1, LegType, OffNow, InCircle
    <3>3. /\ Radius(route) + desired_speed \in Nat
          /\ Radius(route) <= Radius(route) + desired_speed
          /\ Along + desired_speed <= Radius(route) + desired_speed
      BY <2>1, <3>2 DEF Abs
    <3>4. Off' <= Radius(route) + desired_speed
      BY <2>3, <3>3, Switched
    <3> QED
      BY <2>1, <3>1, <3>4
  <2>4. CASE StayOnLeg
    <3>1. /\ index' = index /\ CircularArcLOS /\ Sail /\ route' = route
      BY <2>4 DEF StayOnLeg, Sail
    <3>2. /\ vessel' \in Points /\ index' \in 0 .. Len(route) - 2
          /\ index' + 1 = wp0 /\ index' + 2 = wp1
      BY <3>1 DEF TypeOK, wp0, wp1
    <3>3. PICK along \in 0 .. Speed(index'), across \in 0 .. Off :
             Abs(Cross(Course(route[wp0], route[wp1]),
                       Minus(vessel', route[wp1]))) = Off - across
      BY <3>1, Followed
    <3>4. Off' = Off - across /\ Off \in Nat
      BY <3>1, <3>2, <3>3, OffAfter, OffNow
    <3>5. Off <= Radius(route) + desired_speed
      BY <3>1 DEF KeepsToLeg, Off
    <3> QED
      BY <2>1, <3>1, <3>4, <3>5
  <2>5. CASE UNCHANGED vars
    BY <2>5 DEF vars, KeepsToLeg, Off, CrossTrack, wp0, wp1, Radius
  <2> QED
    BY <2>2, <2>3, <2>4, <2>5 DEF Grid_LOS
<1> QED
  BY <1>1, <1>2, TypeCorrect, PTL DEF Spec

-----------------------------------------------------------------------------
(***************************************************************************)
(* Long legs.  A vessel that is off by more than `narrow` comes closer by  *)
(* one with every sample at full speed.  A leg that leaves it enough       *)
(* samples lets it into the circle before it is abeam of the way point, so *)
(* that it is not carried out on the far side by the late switch.          *)
(***************************************************************************)
Suits(narrow) ==
    /\ los_radius <= desired_speed * narrow
    /\ narrow * narrow + desired_speed * desired_speed
         <= Radius(route) * Radius(route)
    /\ \A k \in 1 .. Len(route) - 1 :
          Length(k) >= Radius(route) + 2 * desired_speed
                         + desired_speed * (Radius(route) - narrow)

LongLegs == \E narrow \in Nat : Suits(narrow)

\* Either near the leg's line and not past its end, or with enough samples left
InLane(narrow) ==
    /\ Off <= Radius(route)
    /\ Off <= narrow => Along <= 0
    /\ Off > narrow => Along + desired_speed * (Off - narrow) <= -desired_speed

LEMMA SuitsBounds ==
    ASSUME NEW narrow \in Nat, Suits(narrow)
    PROVE  narrow <= Radius(route) /\ desired_speed <= Radius(route)
<1>1. desired_speed \in Nat /\ Radius(route) \in Nat
  BY RadiusType, RadiusAssumption
<1>2. /\ narrow * narrow + desired_speed * desired_speed
           <= Radius(route) * Radius(route)
      /\ narrow * narrow \in Nat /\ desired_speed * desired_speed \in Nat
      /\ Radius(route) * Radius(route) \in Nat
  BY <1>1 DEF Suits
<1>3. /\ narrow * narrow <= Radius(route) * Radius(route)
      /\ desired_speed * desired_speed <= Radius(route) * Radius(route)
  BY <1>2
<1> QED
  BY <1>1, <1>3, SquaresGrow

\* At the beginning of a leg there are enough samples.
LEMMA Ahead ==
    ASSUME NEW s \in Nat, NEW R \in Nat, NEW narrow \in Nat, narrow <= R,
           NEW length \in Int, length >= R + 2 * s + s * (R - narrow),
           NEW off \in Nat, off <= R, NEW along \in Int, along <= R + s - length
    PROVE  /\ along <= 0
           /\ off > narrow => along + s * (off - narrow) <= -s
<1>1. s * (R - narrow) \in Nat
  <2>1. R - narrow \in Nat
    OBVIOUS
  <2> QED
    BY <2>1
<1>2. along <= -s - s * (R - narrow)
  BY <1>1
<1>3. off > narrow => s * (off - narrow) <= s * (R - narrow)
  <2> SUFFICES ASSUME off > narrow
               PROVE  s * (off - narrow) <= s * (R - narrow)
    OBVIOUS
  <2>1. R - off \in Nat
    OBVIOUS
  <2>2. s * (R - off) \in Nat
    BY <2>1
  <2>3. s * (R - narrow) = s * (off - narrow) + s * (R - off)
    OBVIOUS
  <2> QED
    BY <1>1, <2>2, <2>3
<1>4. s * (off - narrow) \in Int
  OBVIOUS
<1> QED
  BY <1>1, <1>2, <1>3, <1>4

\* A sample at full speed, outside the circle of the leg's end
LEMMA Nearer ==
    ASSUME NEW s \in Nat \ {0}, NEW R \in Nat, NEW narrow \in Nat,
           narrow * narrow + s * s <= R * R,
           NEW off \in Nat, NEW along \in Int,
           along * along + off * off > R * R,
           off <= narrow => along <= 0,
           off > narrow => along + s * (off - narrow) <= -s,
           NEW run \in 0 .. s, NEW across \in 0 .. off,
           off > narrow => across >= 1
    PROVE  /\ off - across <= narrow => along + run <= 0
           /\ off - across > narrow =>
                along + run + s * ((off - across) - narrow) <= -s
<1>1. CASE off <= narrow
  <2>1. off * off <= narrow * narrow
    <3>1. PICK d \in Nat : narrow = off + d
      <4>1. narrow - off \in Nat /\ narrow = off + (narrow - off)
        BY <1>1
      <4> QED
        BY <4>1
    <3>2. narrow * narrow = off * off + 2 * (off * d) + d * d
      BY <3>1
    <3>3. off * d \in Nat /\ d * d \in Nat
      BY <3>1
    <3> QED
      BY <3>2, <3>3
  <2>2. s * s <= (-along) * (-along)
    <3>1. (-along) * (-along) = along * along
      OBVIOUS
    <3>2. /\ s * s \in Nat /\ along * along \in Int /\ off * off \in Nat
          /\ narrow * narrow \in Nat /\ R * R \in Nat
      OBVIOUS
    <3> QED
      BY <2>1, <3>1, <3>2
  <2>3. s <= -along
    <3>1. -along \in Nat
      BY <1>1
    <3> QED
      BY <2>2, <3>1, SquaresGrow
  <2> QED
    BY <1>1, <2>3
<1>2. CASE off > narrow
  <2>1. /\ s * (off - narrow) \in Int /\ s * ((off - across) - narrow) \in Int
        /\ s * across \in Int
    OBVIOUS
  <2>2. s * ((off - across) - narrow) = s * (off - narrow) - s * across
    OBVIOUS
  <2>3. s * across >= s
    <3>1. across - 1 \in Nat
      BY <1>2
    <3>2. s * (across - 1) \in Nat
      BY <3>1
    <3>3. s * across = s * (across - 1) + s
      BY <3>1
    <3> QED
      BY <3>2, <3>3
  <2>4. s * (off - narrow) >= s
    <3>1. (off - narrow) - 1 \in Nat
      BY <1>2
    <3>2. s * ((off - narrow) - 1) \in Nat
      BY <3>1
    <3>3. s * (off - narrow) = s * ((off - narrow) - 1) + s
      OBVIOUS
    <3> QED
      BY <3>2, <3>3
  <2> QED
    BY <1>2, <2>1, <2>2, <2>3, <2>4
<1> QED
  BY <1>1, <1>2

LEMMA LaneAtStart ==
    ASSUME Init, StartsNear, NEW narrow \in Nat, Suits(narrow)
    PROVE  InLane(narrow)
<1>1. PICK offset \in Offsets :
        /\ vessel = Plus(route[1], offset)
        /\ Dot(offset, offset) <= Radius(route) * Radius(route)
  BY DEF StartsNear
<1>2. /\ offset \in Points /\ route \in Seq(Points) /\ Len(route) \in Nat
      /\ Len(route) >= 2 /\ route[1] \in Points /\ route[2] \in Points
      /\ Course(route[1], route[2]) \in Courses
      /\ wp0 = 1 /\ wp1 = 2
  <2>1. route \in Seq(Points) /\ Len(route) >= 2 /\ route \in Routes
    BY RouteAssumption DEF Init
  <2>2. Len(route) \in Nat /\ 1 \in 1 .. Len(route) /\ 2 \in 1 .. Len(route)
        /\ 1 \in 1 .. Len(route) - 1 /\ 1 + 1 = 2
    BY <2>1
  <2> QED
    BY <2>1, <2>2, LegAssumption, OffsetAssumption DEF Init, wp0, wp1
<1> DEFINE c == Course(route[1], route[2])
<1>3. Minus(vessel, route[1]) = offset
  BY <1>1, <1>2 DEF Points, Plus, Minus
<1>4. vessel \in Points
  BY <1>1, <1>2, PlusType
<1>5. /\ Off = Abs(Cross(c, offset))
      /\ Along = Dot(c, offset) - Length(1)
      /\ Dot(c, offset) \in Int /\ Cross(c, offset) \in Int /\ Length(1) \in Int
  <2>1. Length(1) = Dot(c, Minus(route[2], route[1]))
    BY DEF Length
  <2>2. Minus(route[2], route[1]) \in Points
    BY <1>2 DEF Minus, Points
  <2>3. /\ Cross(c, Minus(vessel, route[1])) = Cross(c, Minus(vessel, route[2]))
        /\ Dot(c, Minus(vessel, route[1]))
             = Dot(c, Minus(vessel, route[2])) + Dot(c, Minus(route[2], route[1]))
        /\ Minus(vessel, route[2]) \in Points
    BY <1>2, <1>4, LegFrame
  <2>4. /\ Off = Abs(Cross(c, Minus(vessel, route[1])))
        /\ Along = Dot(c, Minus(vessel, route[2]))
    BY <1>2 DEF Off, Along, CrossTrack
  <2>5. c \in Courses
    BY <1>2
  <2> HIDE DEF c
  <2>6. /\ Dot(c, offset) \in Int /\ Cross(c, offset) \in Int
        /\ Dot(c, Minus(route[2], route[1])) \in Int
        /\ Dot(c, Minus(vessel, route[2])) \in Int
    BY <1>2, <2>2, <2>3, <2>5, FrameType
  <2> QED
    BY <1>3, <2>1, <2>3, <2>4, <2>6
<1>6. Abs(Dot(c, offset)) <= Radius(route) /\ Abs(Cross(c, offset)) <= Radius(route)
  <2>1. c \in Courses
    BY <1>2
  <2> HIDE DEF c
  <2>2. Dot(c, offset) * Dot(c, offset) + Cross(c, offset) * Cross(c, offset)
          <= Radius(route) * Radius(route)
    BY <1>1, <1>2, <2>1, FrameType
  <2> QED
    BY <1>5, <2>2, RadiusType, SideOfCircle
<1>7. Length(1) >= Radius(route) + 2 * desired_speed
                     + desired_speed * (Radius(route) - narrow)
  BY <1>2 DEF Suits
<1>8. desired_speed \in Nat /\ Radius(route) \in Nat /\ narrow <= Radius(route)
  BY RadiusType, RadiusAssumption, SuitsBounds
<1> HIDE DEF c
<1>9. /\ Along \in Int /\ Off \in Nat /\ Off <= Radius(route)
      /\ Along <= Radius(route) + desired_speed - Length(1)
  BY <1>5, <1>6, <1>8 DEF Abs
<1> QED
  BY <1>5, <1>7, <1>8, <1>9, Ahead DEF InLane

LEMMA LaneStep ==
    ASSUME TypeOK, TypeOK', desired_speed <= los_radius,
           NEW narrow \in Nat, Suits(narrow), InLane(narrow),
           NextWaypoint \/ StayOnLeg
    PROVE  InLane(narrow)'
<1>1. /\ desired_speed \in Nat \ {0} /\ Radius(route) \in Nat
      /\ narrow <= Radius(route) /\ desired_speed <= Radius(route)
  BY RadiusType, RadiusAssumption, SuitsBounds
<1>2. route' = route /\ Radius(route)' = Radius(route)
  BY DEF NextWaypoint, StayOnLeg, Sail, Radius
<1>3. Along \in Int /\ Off \in Nat
  BY OffNow
<1>4. Off' <= Radius(route) /\ Off' \in Nat /\ Along' \in Int =>
        (InLane(narrow)' <=>
           /\ Off' <= narrow => Along' <= 0
           /\ Off' > narrow =>
                Along' + desired_speed * (Off' - narrow) <= -desired_speed)
  BY <1>2 DEF InLane
<1>5. \A k \in 1 .. Len(route) - 1 :
         /\ Length(k) \in Int
         /\ Length(k) >= Radius(route) + 2 * desired_speed
                           + desired_speed * (Radius(route) - narrow)
  <2> SUFFICES ASSUME NEW k \in 1 .. Len(route) - 1 PROVE Length(k) \in Int
    BY DEF Suits
  <2>1. route \in Seq(Points) /\ Len(route) \in Nat
    BY LegType
  <2>2. k \in 1 .. Len(route) /\ k + 1 \in 1 .. Len(route)
    BY <2>1
  <2>3. route[k] \in Points /\ route[k + 1] \in Points
    BY <2>1, <2>2
  <2>4. Course(route[k], route[k + 1]) \in Courses
    BY LegAssumption DEF TypeOK
  <2>5. Minus(route[k + 1], route[k]) \in Points
    BY <2>3 DEF Minus, Points
  <2> QED
    BY <2>4, <2>5, FrameType DEF Length
<1>6. CASE NextWaypoint
  <2>1. Along <= 0
    <3>1. Off > narrow => desired_speed * (Off - narrow) \in Nat
      <4> SUFFICES ASSUME Off > narrow PROVE desired_speed * (Off - narrow) \in Nat
        OBVIOUS
      <4>1. Off - narrow \in Nat
        BY <1>3
      <4> QED
        BY <1>1, <4>1
    <3> QED
      BY <1>1, <1>3, <3>1 DEF InLane
  <2>2. Along + desired_speed <= Radius(route)
    BY <1>1, <1>3, <2>1
  <2>3. Off' <= Radius(route) /\ Along' <= Radius(route)
          - Dot(Course(route[wp0'], route[wp1']), Minus(route[wp1'], route[wp0']))
    BY <1>1, <1>6, <2>2, Switched
  <2>4. wp1 \in 1 .. Len(route) - 1 /\ wp0' = wp1 /\ wp1' = wp1 + 1
        /\ index' \in 0 .. Len(route) - 2 /\ vessel' \in Points
    <3>1. index < Len(route) - 2 /\ index' = index + 1
      BY <1>6 DEF NextWaypoint
    <3>2. wp0' = wp1 /\ wp1' = wp1 + 1
      BY <3>1 DEF wp0, wp1, TypeOK
    <3> QED
      BY <1>2, <3>1, <3>2, NextFrame DEF TypeOK
  <2>5. Along' <= Radius(route) - Length(wp1)
    BY <2>3, <2>4 DEF Length
  <2>6. Along' \in Int /\ Off' \in Nat
    BY <1>2, <2>4, OffAfter
  <2>7. Along' <= Radius(route) + desired_speed - Length(wp1)
    BY <1>1, <1>5, <2>4, <2>5, <2>6
  <2>8. /\ Along' <= 0
        /\ Off' > narrow =>
             Along' + desired_speed * (Off' - narrow) <= -desired_speed
    BY <1>1, <1>5, <2>3, <2>4, <2>6, <2>7, Ahead
  <2> QED
    BY <1>4, <2>3, <2>6, <2>8
<1>7. CASE StayOnLeg
  <2>1. /\ index' = index /\ CircularArcLOS /\ Sail
        /\ ~IsEnterCaptureRadius(wp1)
    BY <1>7 DEF StayOnLeg
  <2> DEFINE c == Course(route[wp0], route[wp1])
             w == Minus(vessel', route[wp1])
             s == Speed(index')
  <2>2. PICK run \in 0 .. s, across \in 0 .. Off :
           /\ Dot(c, w) = Along + run
           /\ Abs(Cross(c, w)) = Off - across
           /\ s >= 1 /\ s * Off >= los_radius => across >= 1
    BY <2>1, Followed
  <2>3. /\ vessel' \in Points /\ index' \in 0 .. Len(route) - 2
        /\ index' + 1 = wp0 /\ index' + 2 = wp1
    BY <1>2, <2>1 DEF TypeOK, wp0, wp1
  <2>4. /\ Off' = Off - across /\ Along' = Along + run
        /\ Along' \in Int /\ Off' \in Nat
    BY <1>2, <2>2, <2>3, OffAfter
  <2>5. s \in 0 .. desired_speed
    BY SpeedType
  <2>6. Off' <= Radius(route)
    BY <1>1, <1>3, <2>2, <2>4 DEF InLane
  <2>7. CASE IsEnterCaptureRadius(wp0)
    <3>1. c \in Courses /\ wp0 \in 1 .. Len(route) /\ wp0 \in 1 .. Len(route) - 1
          /\ wp1 = wp0 + 1
      <4>1. Len(route) \in Nat /\ index \in 0 .. Len(route) - 2
        BY LegType DEF TypeOK
      <4> QED
        BY <4>1, LegType DEF wp0, wp1
    <3>2. Abs(Dot(c, Minus(vessel, route[wp0]))) <= Radius(route)
      BY <2>7, <3>1, InCircle
    <3>3. Along = Dot(c, Minus(vessel, route[wp0])) - Length(wp0)
      BY <3>1, OffNow DEF Length
    <3>4. Minus(vessel, route[wp0]) \in Points
      <4>1. route[wp0] \in Points /\ vessel \in Points
        BY LegType DEF TypeOK
      <4> QED
        BY <4>1 DEF Minus, Points
    <3> HIDE DEF c, s
    <3>5. Dot(c, Minus(vessel, route[wp0])) \in Int
      BY <3>1, <3>4, FrameType
    <3>6. Along' <= Radius(route) + desired_speed - Length(wp0)
      <4>1. Along' = Along + run /\ run \in 0 .. desired_speed
        BY <1>1, <2>2, <2>4, <2>5
      <4>2. Dot(c, Minus(vessel, route[wp0])) <= Radius(route)
        BY <1>1, <3>2, <3>5 DEF Abs
      <4>3. Length(wp0) \in Int
        BY <1>5, <3>1
      <4> QED
        BY <1>1, <1>3, <3>3, <3>5, <4>1, <4>2, <4>3
    <3>7. /\ Along' <= 0
          /\ Off' > narrow =>
               Along' + desired_speed * (Off' - narrow) <= -desired_speed
      BY <1>1, <1>5, <2>4, <2>6, <3>1, <3>6, Ahead
    <3> QED
      BY <1>4, <2>4, <2>6, <3>7
  <2>8. CASE ~IsEnterCaptureRadius(wp0)
    <3>1. s = desired_speed
      BY <2>8 DEF Speed
    <3>2. Off > narrow => across >= 1
      <4> SUFFICES ASSUME Off > narrow PROVE across >= 1
        OBVIOUS
      <4>1. desired_speed * Off >= desired_speed * narrow
        <5>1. Off - narrow \in Nat
          BY <1>3
        <5>2. desired_speed * (Off - narrow) \in Nat
          BY <1>1, <5>1
        <5>3. desired_speed * Off
                = desired_speed * narrow + desired_speed * (Off - narrow)
          BY <1>1, <1>3
        <5> QED
          BY <1>1, <1>3, <5>2, <5>3
      <4>2. los_radius <= desired_speed * narrow
        BY DEF Suits
      <4>3. desired_speed * Off >= los_radius
        <5>1. /\ desired_speed * Off \in Int /\ desired_speed * narrow \in Int
              /\ los_radius \in Int
          BY <1>1, <1>3, RadiusAssumption
        <5> QED
          BY <4>1, <4>2, <5>1
      <4> HIDE DEF s
      <4> QED
        BY <1>1, <2>2, <3>1, <4>3
    <3>3. Along * Along + Off * Off > Radius(route) * Radius(route)
      <4> DEFINE u == Minus(vessel, route[wp1])
      <4>1. /\ c \in Courses /\ u \in Points /\ Along = Dot(c, u)
            /\ Off = Abs(Cross(c, u))
        BY OffNow
      <4>2. ~(Dot(u, u) <= Radius(route) * Radius(route))
        BY <2>1 DEF IsEnterCaptureRadius, DistanceSquare
      <4> HIDE DEF c, u
      <4>3. /\ Dot(c, u) \in Int /\ Cross(c, u) \in Int
            /\ Dot(c, u) * Dot(c, u) + Cross(c, u) * Cross(c, u) = Dot(u, u)
        BY <4>1, FrameType
      <4>4. Off * Off = Cross(c, u) * Cross(c, u)
        BY <4>1, <4>3 DEF Abs
      <4>5. Along * Along + Off * Off = Dot(u, u)
        BY <4>1, <4>3, <4>4
      <4>6. /\ Along * Along + Off * Off \in Int
            /\ Radius(route) * Radius(route) \in Int
        BY <1>1, <1>3
      <4> QED
        BY <4>2, <4>5, <4>6
    <3>4. /\ narrow * narrow + desired_speed * desired_speed
               <= Radius(route) * Radius(route)
          /\ Off <= narrow => Along <= 0
          /\ Off > narrow =>
               Along + desired_speed * (Off - narrow) <= -desired_speed
      BY DEF Suits, InLane
    <3>5. run \in 0 .. desired_speed
      BY <2>2, <3>1
    <3> HIDE DEF s, c, w
    <3>6. /\ Off - across <= narrow => Along + run <= 0
          /\ Off - across > narrow =>
               Along + run + desired_speed * ((Off - across) - narrow)
                 <= -desired_speed
      BY <1>1, <1>3, <2>2, <3>2, <3>3, <3>4, <3>5, Nearer
    <3> QED
      BY <1>4, <2>4, <2>6, <3>6
  <2> QED
    BY <2>7, <2>8
<1> QED
  BY <1>6, <1>7

(***************************************************************************)
(* The vessel is off its leg by at most the capture radius, from the start *)
(* until it reports FINISHED, if it starts in the first circle and the     *)
(* legs are long enough.                                                   *)
(***************************************************************************)
WithinCapture == Off <= Radius(route)

THEOREM LegsKept ==
    ASSUME desired_speed <= los_radius
    PROVE  Spec /\ StartsNear /\ LongLegs /\ [](trackermode # "FINISHED")
             => []WithinCapture
<1> DEFINE Lane == \E narrow \in Nat : Suits(narrow) /\ InLane(narrow)
<1>1. Init /\ StartsNear /\ LongLegs => Lane
  BY LaneAtStart DEF LongLegs
<1>2. TypeOK /\ TypeOK' /\ Lane /\ (trackermode # "FINISHED")'
        /\ [Grid_LOS]_vars => Lane'
  <2> SUFFICES ASSUME TypeOK, TypeOK', (trackermode # "FINISHED")',
                      [Grid_LOS]_vars,
                      NEW narrow \in Nat, Suits(narrow), InLane(narrow)
               PROVE  Suits(narrow)' /\ InLane(narrow)'
    OBVIOUS
  <2>1. route' = route
    BY DEF Grid_LOS, ReachLastWaypoint, NextWaypoint, StayOnLeg, Sail, vars
  <2>2. Suits(narrow)'
    BY <2>1 DEF Suits, Length, Radius
  <2>3. CASE UNCHANGED vars
    BY <2>2, <2>3 DEF vars, InLane, Off, Along, CrossTrack, wp0, wp1, Radius
  <2>4. CASE NextWaypoint \/ StayOnLeg
    BY <2>2, <2>4, LaneStep
  <2>5. ~ReachLastWaypoint
    BY DEF ReachLastWaypoint
  <2> QED
    BY <2>3, <2>4, <2>5 DEF Grid_LOS
<1>3. Lane => WithinCapture
  BY DEF InLane, WithinCapture
<1> QED
  BY <1>1, <1>2, <1>3, TypeCorrect, PTL DEF Spec
=============================================================================
