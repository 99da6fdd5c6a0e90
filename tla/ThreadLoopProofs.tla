-------------------------- MODULE ThreadLoopProofs --------------------------
(***************************************************************************)
(* Proofs about the start-up of the vessel program, for every set of test  *)
(* modes.  Safety rests on one invariant, ReadyChain: who became READY     *)
(* because of whom.                                                        *)
(***************************************************************************)
EXTENDS ThreadLoop, TLAPS

(***************************************************************************)
(* The inductive form of StartOrder: each indicator implies the indicator  *)
(* or the shared toggle that the monitor tested when it set it.            *)
(***************************************************************************)
ReadyChain ==
    /\ running \subseteq ready
    /\ "routeplanner" \in ready => Published(ToggleAt)
    /\ "target_tracking" \in ready =>
          /\ testmode = "EXPERIMENT_AVOIDANCE"
          /\ "estimator" \in ready
          /\ "marine_radar" \in ready
    /\ "marine_radar" \in ready => radar
    /\ testmode \in Experiment =>
          /\ "gps" \in ready => "routeplanner" \in ready
          /\ "estimator" \in ready => "gps" \in ready
          /\ "pathplanner" \in ready => "estimator" \in ready
          /\ "controller" \in ready => "estimator" \in ready
    /\ testmode = "EXPERIMENT_AVOIDANCE" =>
          /\ "pathplanner" \in ready => "target_tracking" \in ready
          /\ "controller" \in ready => "target_tracking" \in ready

-----------------------------------------------------------------------------
(***************************************************************************)
(* Type correctness: no step of any thread leaves the typed state space.   *)
(***************************************************************************)
THEOREM TypeCorrect == Spec => []TypeOK
<1>1. Init => TypeOK
  <2>1. InitialTaint \in [Data -> SUBSET Placeholders]
    <3>1. ASSUME NEW d \in Data
          PROVE  InitialTaint[d] \in SUBSET Placeholders
      BY <3>1 DEF InitialTaint, Data, Placeholders
    <3> QED
      BY <3>1 DEF InitialTaint
  <2>2. NoFix \in Fix
    BY DEF NoFix, Fix
  <2>3. ASSUME Init
        PROVE  TypeOK
    <3>1. /\ testmode \in TestModes /\ atomic \in BOOLEAN
          /\ routeCopied \in 0 .. WaypointsAt
      BY <2>3 DEF Init, WaypointsAt
    <3>2. gpsLocal \in Fix /\ gps \in Fix
      BY <2>2, <2>3 DEF Init
    <3>3. gpsCopying \in BOOLEAN /\ radar \in BOOLEAN /\ aborted \in BOOLEAN
      BY <2>3 DEF Init
    <3>4. ready \subseteq Indicators /\ running \subseteq Gated
      BY <2>3 DEF Init
    <3>5. taint \in [Data -> SUBSET Placeholders]
      BY <2>1, <2>3 DEF Init
    <3> QED
      BY <3>1, <3>2, <3>3, <3>4, <3>5 DEF TypeOK
  <2> QED
    BY <2>3
<1>2. TypeOK /\ [Next]_vars => TypeOK'
  <2> SUFFICES ASSUME TypeOK, [Next]_vars
               PROVE  TypeOK'
    OBVIOUS
  <2> USE DEF TypeOK, Alive, Loop
  <2>1. CASE PublishRoute
    BY <2>1 DEF PublishRoute, WaypointsAt
  <2>2. ASSUME NEW fix \in BOOLEAN, ParseGPS(fix)
        PROVE  TypeOK'
    <3>1. gpsLocal' \in Fix
      BY <2>2 DEF ParseGPS, PositionTaint, Fix
    <3>2. gps' \in Fix /\ gpsCopying' \in BOOLEAN
      BY <2>2, <3>1 DEF ParseGPS, Fix
    <3> QED
      BY <2>2, <3>1, <3>2 DEF ParseGPS
  <2>3. CASE CopyPosition
    BY <2>3 DEF CopyPosition
  <2>4. CASE PublishRadar
    BY <2>4 DEF PublishRadar
  <2>5. CASE Monitor
    <3>1. ready' \subseteq Indicators
      BY <2>5 DEF Monitor, MonitorRoute, MonitorGPS, MonitorEstimator,
         MonitorRadar, MonitorTracking, MonitorPlannerController, Toggle,
         Indicators
    <3>2. UNCHANGED <<testmode, atomic, routeCopied, gpsLocal, gps, gpsCopying,
                      radar, running, taint, aborted>>
      BY <2>5 DEF Monitor, MonitorRoute, MonitorGPS, MonitorEstimator,
         MonitorRadar, MonitorTracking, MonitorPlannerController, Toggle
    <3> QED
      BY <3>1, <3>2
  <2>6. CASE StartTracking
    BY <2>6 DEF StartTracking, PassGate, Frame, Gated
  <2> Measured \in SUBSET Placeholders
    BY DEF Measured, Fix, Placeholders, Data
  <2> SpeedTaint \in SUBSET Placeholders /\ CourseTaint \in SUBSET Placeholders
    BY DEF SpeedTaint, CourseTaint, Placeholders
  <2>7. CASE StartEstimator
    <3> gps.taint \in SUBSET Placeholders
      BY DEF Fix, Placeholders
    <3> QED
      BY <2>7 DEF StartEstimator, PassGate, Frame, Gated, Data
  <2>8. CASE EstimatorStep
    BY <2>8 DEF EstimatorStep, Frame, Data
  <2>9. CASE StartPlanner
    <3> CourseTaint \cup {"initial"} \in SUBSET Placeholders
      BY DEF Placeholders
    <3> QED
      BY <2>9 DEF StartPlanner, PassGate, Frame, Gated, Data
  <2>10. CASE PlannerFindsPath
    BY <2>10 DEF PlannerFindsPath, PlanStep, Frame, Data
  <2>11. CASE PlannerKeepsPlan
    BY <2>11 DEF PlannerKeepsPlan, PlanStep, Frame, Data
  <2>12. CASE StartController
    BY <2>12 DEF StartController, PassGate, Frame, Gated, Data
  <2>13. ASSUME NEW setpoint \in SUBSET Placeholders, ControlWith(setpoint)
         PROVE  TypeOK'
    BY <2>13 DEF ControlWith, Frame, Data
  <2>14. CASE Controller
    BY <2>13, <2>14 DEF Controller, ControllerHoldsPosition,
       ControllerTracksGrid, ControllerFinishedGrid, ControllerFollowsArc, Data
  <2>15. CASE UNCHANGED vars
    BY <2>15 DEF vars
  <2>16. CASE TrackingStep
    BY <2>16 DEF TrackingStep, Frame, Data
  <2>17. CASE AbortController
    BY <2>17 DEF AbortController, Frame
  <2> QED
    BY <2>1, <2>2, <2>3, <2>4, <2>5, <2>6, <2>7, <2>8, <2>9, <2>10, <2>11,
       <2>12, <2>14, <2>15, <2>16, <2>17 DEF Next
<1> QED
  BY <1>1, <1>2, PTL DEF Spec

-----------------------------------------------------------------------------
(***************************************************************************)
(* A step that touches neither indicators nor gates, and neither unsets    *)
(* the radar's toggle nor takes back a copied member.                      *)
(***************************************************************************)
QuietStep ==
    /\ UNCHANGED <<testmode, atomic, ready, running>>
    /\ radar => radar'
    /\ routeCopied' = routeCopied

\* All data traffic of the threads is quiet in this sense.
LEMMA QuietSteps ==
    ASSUME TypeOK,
           \/ \E fix \in BOOLEAN : ParseGPS(fix)
           \/ CopyPosition \/ PublishRadar \/ TrackingStep \/ EstimatorStep
           \/ PlannerFindsPath \/ PlannerKeepsPlan \/ Controller
           \/ AbortController \/ UNCHANGED vars
    PROVE  QuietStep
  BY DEF QuietStep, ParseGPS, CopyPosition, PublishRadar, TrackingStep,
     EstimatorStep, PlannerFindsPath, PlannerKeepsPlan, PlanStep, Controller,
     ControllerHoldsPosition, ControllerTracksGrid, ControllerFinishedGrid,
     ControllerFollowsArc, ControlWith, AbortController, Loop, Frame, vars

\* The chain of releases is never broken, whatever thread runs next.
LEMMA ReadyChainInvariant == Spec => []ReadyChain
<1>1. Init => ReadyChain
  BY DEF Init, ReadyChain
<1>2. TypeOK /\ ReadyChain /\ [Next]_vars => ReadyChain'
  <2> SUFFICES ASSUME TypeOK, ReadyChain, [Next]_vars
               PROVE  ReadyChain'
    OBVIOUS
  <2> USE DEF ReadyChain, Published, ToggleAt
  <2>1. CASE PublishRoute
    BY <2>1 DEF PublishRoute, TypeOK, WaypointsAt
  <2>2. CASE QuietStep
    BY <2>2 DEF QuietStep
  <2>3. CASE Monitor
    <3> USE DEF Toggle, Modes, Simulation, Experiment
    <3>1. CASE MonitorRoute
      BY <3>1 DEF MonitorRoute
    <3>2. CASE MonitorGPS
      BY <3>2 DEF MonitorGPS
    <3>3. CASE MonitorEstimator
      BY <3>3 DEF MonitorEstimator
    <3>4. CASE MonitorRadar
      BY <3>4 DEF MonitorRadar
    <3>5. CASE MonitorTracking
      BY <3>5 DEF MonitorTracking
    <3>6. CASE MonitorPlannerController
      BY <3>6 DEF MonitorPlannerController
    <3> QED
      BY <2>3, <3>1, <3>2, <3>3, <3>4, <3>5, <3>6 DEF Monitor
  <2>4. CASE StartTracking \/ StartEstimator \/ StartPlanner \/ StartController
    BY <2>4 DEF StartTracking, StartEstimator, StartPlanner, StartController,
       PassGate, Frame
  <2> QED
    BY <2>1, <2>2, <2>3, <2>4, QuietSteps DEF Next
<1> QED
  BY <1>1, <1>2, TypeCorrect, PTL DEF Spec

(***************************************************************************)
(* Nobody runs before what it was released by: the chain of releases that  *)
(* state_monitor_loop promises holds in every mode, torn copies included.  *)
(***************************************************************************)
THEOREM ReleasedInOrder == Spec => []StartOrder
<1>1. TypeOK /\ ReadyChain => StartOrder
  BY DEF TypeOK, ReadyChain, StartOrder, Gated, Experiment
<1> QED
  BY <1>1, ReadyChainInvariant, TypeCorrect, PTL

-----------------------------------------------------------------------------
(***************************************************************************)
(* With struct copies that no reader interrupts, READY means that the      *)
(* whole route is there, and the two threads that capture it have it.      *)
(***************************************************************************)
CaptureInv ==
    /\ atomic => routeCopied \in {0, WaypointsAt}
    /\ RouteCaptured

\* An unpublished route has no READY toggle, so nobody has captured it.
LEMMA RouteBeforeCapture ==
    ASSUME TypeOK, ReadyChain, CaptureInv, atomic, testmode \in Experiment,
           \/ "pathplanner" \in ready
           \/ "controller" \in ready
    PROVE  SpeedTaint = {} /\ CourseTaint = {}
<1>1. Published(ToggleAt)
  BY DEF ReadyChain
<1>2. routeCopied = WaypointsAt
  BY <1>1 DEF CaptureInv, Published, ToggleAt, WaypointsAt
<1> QED
  BY <1>2 DEF SpeedTaint, CourseTaint, Published, SpeedAt, WaypointsAt

\* No thread takes an unpublished route over, and none ends the program.
LEMMA CaptureInvariant == Spec => []CaptureInv
<1>1. Init => CaptureInv
  BY DEF Init, CaptureInv, RouteCaptured
<1>2. TypeOK /\ ReadyChain /\ CaptureInv /\ [Next]_vars => CaptureInv'
  <2> SUFFICES ASSUME TypeOK, ReadyChain, CaptureInv, [Next]_vars
               PROVE  CaptureInv'
    OBVIOUS
  <2> USE DEF CaptureInv, RouteCaptured, Alive, Loop
  <2>1. CASE PublishRoute
    BY <2>1 DEF PublishRoute
  <2>2. ASSUME UNCHANGED <<testmode, atomic, routeCopied, running, aborted>>,
               taint'["course"] = taint["course"],
               taint'["grid"] = taint["grid"]
        PROVE  CaptureInv'
    BY <2>2
  <2>3. CASE \/ \E fix \in BOOLEAN : ParseGPS(fix)
             \/ CopyPosition \/ PublishRadar \/ UNCHANGED vars
    BY <2>2, <2>3 DEF ParseGPS, CopyPosition, PublishRadar, vars
  <2>4. CASE Monitor
    BY <2>2, <2>4 DEF Monitor, MonitorRoute, MonitorGPS, MonitorEstimator,
       MonitorRadar, MonitorTracking, MonitorPlannerController, Toggle
  <2>5. CASE StartTracking \/ StartEstimator
    BY <2>5 DEF StartTracking, StartEstimator, PassGate, Frame, TypeOK, Data
  <2>6. CASE TrackingStep \/ EstimatorStep
             \/ PlannerFindsPath \/ PlannerKeepsPlan
    BY <2>2, <2>6 DEF TrackingStep, EstimatorStep, PlannerFindsPath,
       PlannerKeepsPlan, PlanStep, Frame, TypeOK, Data
  <2>7. CASE StartPlanner
    BY <2>7, RouteBeforeCapture
       DEF StartPlanner, PassGate, Frame, TypeOK, Data
  <2>8. CASE StartController
    BY <2>8, RouteBeforeCapture
       DEF StartController, PassGate, Frame, TypeOK, Data
  <2>9. CASE Controller
    BY <2>2, <2>9 DEF Controller, ControllerHoldsPosition,
       ControllerTracksGrid, ControllerFinishedGrid, ControllerFollowsArc,
       ControlWith, Frame, TypeOK, Data
  <2>10. CASE AbortController
    <3>1. ~(atomic /\ testmode \in Experiment)
      <4>1. "controller" \in ready /\ SpeedTaint # {}
        BY <2>10 DEF AbortController, SpeedTaint
      <4> QED
        BY <4>1, RouteBeforeCapture
    <3> QED
      BY <2>10, <3>1 DEF AbortController, Frame
  <2> QED
    BY <2>1, <2>3, <2>4, <2>5, <2>6, <2>7, <2>8, <2>9, <2>10 DEF Next
<1> QED
  BY <1>1, <1>2, TypeCorrect, ReadyChainInvariant, PTL DEF Spec

(***************************************************************************)
(* The path planner's course and the controller's grid are the planned     *)
(* route on the vessel, although both are read exactly once, and the speed *)
(* does not end the program, provided that no copy of the route is torn.   *)
(***************************************************************************)
THEOREM CapturedRoute == Spec => []RouteCaptured
<1>1. CaptureInv => RouteCaptured
  BY DEF CaptureInv
<1> QED
  BY <1>1, CaptureInvariant, PTL

-----------------------------------------------------------------------------
(***************************************************************************)
(* How data get round: what the threads that run compute lies in any set X *)
(* that holds what there is and what the two reads of the route and the    *)
(* samples of the receiver may add.                                        *)
(***************************************************************************)
Captured == {"course", "grid"}

LEMMA DataFlow ==
    ASSUME TypeOK, ReadyChain, [Next]_vars, NEW X,
           \A d \in Data \ Captured : taint[d] \subseteq X,
           "pathplanner" \in running =>
              taint["course"] \cup SpeedTaint \subseteq X,
           "controller" \in running => taint["grid"] \subseteq X,
           "pathplanner" \in ready \ running =>
              CourseTaint \cup {"initial"} \subseteq X,
           testmode \in Experiment /\ "estimator" \in ready =>
              gps.taint \subseteq X
    PROVE  \A d \in Data \ Captured : taint'[d] \subseteq X
<1> DEFINE Within == \A d \in Data \ Captured : taint'[d] \subseteq X
<1> SUFFICES Within
  OBVIOUS
<1>1. CASE UNCHANGED taint
  BY <1>1
<1>2. CASE \/ PublishRoute \/ \E fix \in BOOLEAN : ParseGPS(fix)
           \/ CopyPosition \/ PublishRadar \/ Monitor \/ StartTracking
           \/ AbortController \/ UNCHANGED vars
  BY <1>1, <1>2 DEF PublishRoute, ParseGPS, CopyPosition, PublishRadar,
     Monitor, MonitorRoute, MonitorGPS, MonitorEstimator, MonitorRadar,
     MonitorTracking, MonitorPlannerController, Toggle, StartTracking,
     AbortController, vars
<1>3. ASSUME NEW c \in Captured, NEW S,
             taint' = [taint EXCEPT ![c] = S]
      PROVE  Within
  BY <1>3 DEF TypeOK, Captured
<1>4. ASSUME NEW d \in Data, NEW e \in Data,
             NEW S \in SUBSET X, NEW T \in SUBSET X,
             taint' = [taint EXCEPT ![d] = S, ![e] = T]
      PROVE  Within
  BY <1>4 DEF TypeOK
<1>5. CASE TrackingStep
  BY <1>5 DEF TrackingStep, TypeOK, Data, Captured
<1>6. CASE StartEstimator
  <2>1. (IF testmode \in Simulation THEN {} ELSE gps.taint) \subseteq X
    BY <1>6, ModesAssumption DEF StartEstimator, PassGate, TypeOK, Modes
  <2> QED
    BY <1>6, <2>1 DEF StartEstimator, TypeOK, Data
<1>7. CASE EstimatorStep
  <2>1. Measured \subseteq X
    BY <1>7, ModesAssumption DEF EstimatorStep, Loop, Measured, ReadyChain,
       TypeOK, Modes, Data, Captured
  <2>2. taint["state"] \subseteq X /\ taint["setpoint"] \subseteq X
    BY DEF Data, Captured
  <2>3. PICK S \in SUBSET X :
           taint' = [taint EXCEPT !["state"] = S,
                                  !["error"] = S \cup taint["setpoint"]]
    BY <1>7, <2>1, <2>2 DEF EstimatorStep
  <2>4. S \cup taint["setpoint"] \in SUBSET X
    BY <2>2
  <2> QED
    BY <2>3, <2>4, <1>4 DEF Data
<1>8. CASE StartPlanner
  <2>1. taint' = [taint EXCEPT !["course"] = CourseTaint,
                               !["nextplan"] = CourseTaint \cup {"initial"}]
    BY <1>8 DEF StartPlanner
  <2>2. CourseTaint \cup {"initial"} \subseteq X
    BY <1>8 DEF StartPlanner, PassGate
  <2> QED
    BY <2>1, <2>2 DEF TypeOK, Data, Captured
<1>9. CASE PlannerFindsPath
  <2> DEFINE plan == taint["state"] \cup taint["course"] \cup taint["targets"]
                       \cup SpeedTaint
  <2>1. taint' = [taint EXCEPT !["nextplan"] = plan, !["plan"] = plan]
    BY <1>9 DEF PlannerFindsPath
  <2>2. plan \in SUBSET X
    BY <1>9 DEF PlannerFindsPath, PlanStep, Loop, Data, Captured
  <2>3. "nextplan" \in Data /\ "plan" \in Data
    BY DEF Data
  <2> HIDE DEF plan
  <2> QED
    BY <2>1, <2>2, <2>3, <1>4
<1>10. CASE PlannerKeepsPlan
  BY <1>10 DEF PlannerKeepsPlan, TypeOK, Data, Captured
<1>11. CASE StartController
  <2>1. taint' = [taint EXCEPT !["grid"] = CourseTaint]
    BY <1>11 DEF StartController
  <2> QED
    BY <2>1, <1>3 DEF Captured
<1>12. ASSUME NEW S \in SUBSET X, ControlWith(S)
       PROVE  Within
  <2>1. taint' = [taint EXCEPT !["setpoint"] = S,
                    !["command"] = taint["command"] \cup taint["error"] \cup S]
    BY <1>12 DEF ControlWith
  <2>2. taint["command"] \cup taint["error"] \cup S \in SUBSET X
    BY DEF Data, Captured
  <2>3. S \in SUBSET X /\ "setpoint" \in Data /\ "command" \in Data
    BY <1>12 DEF Data
  <2> QED
    BY <2>1, <2>2, <2>3, <1>4
<1>13. CASE Controller
  <2>1. /\ taint["state"] \subseteq X /\ taint["setpoint"] \subseteq X
        /\ taint["plan"] \subseteq X
    BY DEF Data, Captured
  <2>2. "controller" \in running
    BY <1>13 DEF Controller, ControllerHoldsPosition, ControllerTracksGrid,
       ControllerFinishedGrid, ControllerFollowsArc, ControlWith, Loop
  <2>3. taint["state"] \cup taint["grid"] \in SUBSET X
    BY <2>1, <2>2
  <2> QED
    BY <1>12, <1>13, <2>1, <2>3 DEF Controller, ControllerHoldsPosition,
       ControllerTracksGrid, ControllerFinishedGrid, ControllerFollowsArc
<1> QED
  BY <1>2, <1>5, <1>6, <1>7, <1>8, <1>9, <1>10, <1>11, <1>13 DEF Next

\* Course and grid only ever take the published members over.
LEMMA CapturedFlow ==
    ASSUME TypeOK, [Next]_vars, NEW c \in Captured
    PROVE  taint'[c] \in {taint[c], CourseTaint}
<1>1. CASE UNCHANGED taint
  BY <1>1
<1>2. CASE \/ PublishRoute \/ \E fix \in BOOLEAN : ParseGPS(fix)
           \/ CopyPosition \/ PublishRadar \/ Monitor \/ StartTracking
           \/ AbortController \/ UNCHANGED vars
  BY <1>1, <1>2 DEF PublishRoute, ParseGPS, CopyPosition, PublishRadar,
     Monitor, MonitorRoute, MonitorGPS, MonitorEstimator, MonitorRadar,
     MonitorTracking, MonitorPlannerController, Toggle, StartTracking,
     AbortController, vars
<1>3. CASE TrackingStep \/ StartEstimator \/ EstimatorStep
           \/ PlannerFindsPath \/ PlannerKeepsPlan
  BY <1>3 DEF TrackingStep, StartEstimator, EstimatorStep, PlannerFindsPath,
     PlannerKeepsPlan, TypeOK, Data, Captured
<1>4. CASE StartPlanner \/ StartController
  BY <1>4 DEF StartPlanner, StartController, TypeOK, Data, Captured
<1>5. CASE Controller
  BY <1>5 DEF Controller, ControllerHoldsPosition, ControllerTracksGrid,
     ControllerFinishedGrid, ControllerFollowsArc, ControlWith, TypeOK, Data,
     Captured
<1> QED
  BY <1>2, <1>3, <1>4, <1>5 DEF Next

-----------------------------------------------------------------------------
(***************************************************************************)
(* Why a placeholder that washed out cannot come back: as long as a member *)
(* of the route is unpublished the controller's grid still is, and as long *)
(* as the planner has not started its own plan still is, a placeholder.    *)
(***************************************************************************)
Reservoir ==
    /\ SpeedTaint \subseteq taint["grid"]
    /\ CourseTaint \subseteq taint["grid"]
    /\ "pathplanner" \notin running => "initial" \in taint["nextplan"]

LEMMA ReservoirInvariant == Spec => []Reservoir
<1> USE DEF SpeedTaint, CourseTaint, Published, SpeedAt, WaypointsAt
<1>1. Init => Reservoir
  BY DEF Init, Reservoir, InitialTaint, Data
<1>2. TypeOK /\ Reservoir /\ [Next]_vars => Reservoir'
  <2> SUFFICES ASSUME TypeOK, Reservoir, [Next]_vars
               PROVE  Reservoir'
    OBVIOUS
  <2> USE DEF Reservoir
  <2>1. CASE PublishRoute
    BY <2>1 DEF PublishRoute, TypeOK
  <2>2. ASSUME UNCHANGED <<routeCopied, running>>,
               taint'["nextplan"] = taint["nextplan"],
               taint'["grid"] = taint["grid"]
        PROVE  Reservoir'
    BY <2>2
  <2>3. CASE \/ \E fix \in BOOLEAN : ParseGPS(fix)
             \/ CopyPosition \/ PublishRadar \/ UNCHANGED vars
    BY <2>2, <2>3 DEF ParseGPS, CopyPosition, PublishRadar, vars
  <2>4. CASE Monitor
    BY <2>2, <2>4 DEF Monitor, MonitorRoute, MonitorGPS, MonitorEstimator,
       MonitorRadar, MonitorTracking, MonitorPlannerController, Toggle
  <2>5. CASE StartTracking \/ StartEstimator \/ StartPlanner \/ StartController
    BY <2>5 DEF StartTracking, StartEstimator, StartPlanner, StartController,
       PassGate, Frame, TypeOK, Data
  <2>6. CASE \/ TrackingStep \/ EstimatorStep \/ PlannerKeepsPlan
             \/ AbortController
    BY <2>2, <2>6 DEF TrackingStep, EstimatorStep, PlannerKeepsPlan, PlanStep,
       AbortController, Loop, Frame, TypeOK, Data
  <2>7. CASE PlannerFindsPath
    BY <2>7 DEF PlannerFindsPath, PlanStep, Loop, Frame, TypeOK, Data
  <2>8. CASE Controller
    BY <2>2, <2>8 DEF Controller, ControllerHoldsPosition,
       ControllerTracksGrid, ControllerFinishedGrid, ControllerFollowsArc,
       ControlWith, Loop, Frame, TypeOK, Data
  <2> QED
    BY <2>1, <2>3, <2>4, <2>5, <2>6, <2>7, <2>8 DEF Next
<1> QED
  BY <1>1, <1>2, TypeCorrect, PTL DEF Spec

(***************************************************************************)
(* Start-up transients drain: no interleaving of the threads lets a datum  *)
(* derive again from an initial value that nothing derived from any more.  *)
(***************************************************************************)
THEOREM TransientsDrain == Spec => WashedOut
<1> DEFINE Frames == {"nofix", "zone"}
<1>1. TypeOK /\ ReadyChain /\ Reservoir /\ [Next]_vars
         => Derived' \ Frames \subseteq Derived
  <2> SUFFICES ASSUME TypeOK, ReadyChain, Reservoir, [Next]_vars
               PROVE  Derived' \ Frames \subseteq Derived
    OBVIOUS
  <2> DEFINE X == Derived \cup Frames
  <2>1. \A d \in Data : taint[d] \subseteq Derived
    BY DEF Derived
  <2>2. SpeedTaint \subseteq X /\ CourseTaint \subseteq X
    BY <2>1 DEF Reservoir, Data
  <2>3. gps.taint \subseteq X
    BY DEF TypeOK, Fix
  <2>4. "pathplanner" \notin running => "initial" \in X
    BY <2>1 DEF Reservoir, Data
  <2>5. \A d \in Data \ Captured : taint[d] \subseteq X
    BY <2>1
  <2>6. taint["course"] \subseteq X /\ taint["grid"] \subseteq X
    BY <2>1 DEF Data
  <2> HIDE DEF X
  <2>7. \A d \in Data \ Captured : taint'[d] \subseteq X
    BY <2>2, <2>3, <2>4, <2>5, <2>6, DataFlow
  <2>8. \A c \in Captured : taint'[c] \subseteq X
    BY <2>2, <2>6, CapturedFlow DEF Captured
  <2>9. \A d \in Data : taint'[d] \subseteq X
    BY <2>7, <2>8
  <2> QED
    BY <2>9 DEF Derived, X
<1> QED
  BY <1>1, TypeCorrect, ReadyChainInvariant, ReservoirInvariant, PTL
     DEF Spec, WashedOut

-----------------------------------------------------------------------------
(***************************************************************************)
(* With untorn copies what the monitor tested (status >= 1) leaves a trace *)
(* in gps_data: its position is not from before the first fix, and never   *)
(* will be again; so nothing that the threads pass round is.               *)
(***************************************************************************)
FixInv ==
    /\ atomic => gpsLocal = gps
    /\ atomic /\ gps.status => "nofix" \notin gps.taint
    /\ atomic /\ testmode \in Experiment /\ "gps" \in ready =>
          "nofix" \notin gps.taint
    /\ atomic => \A d \in Data : "nofix" \notin taint[d]

\* The receiver keeps its part: what was a fix stays one.
LEMMA ReceiverKeepsFix ==
    ASSUME TypeOK, ReadyChain, FixInv, [Next]_vars
    PROVE  /\ atomic' => gpsLocal' = gps'
           /\ atomic' /\ gps'.status => "nofix" \notin gps'.taint
           /\ atomic' /\ testmode' \in Experiment /\ "gps" \in ready' =>
                 "nofix" \notin gps'.taint
<1> USE DEF FixInv
<1>1. CASE UNCHANGED <<testmode, atomic, gpsLocal, gps, ready>>
  BY <1>1
<1>2. CASE \/ PublishRoute \/ PublishRadar \/ TrackingStep \/ EstimatorStep
           \/ PlannerFindsPath \/ PlannerKeepsPlan \/ Controller
           \/ AbortController \/ StartTracking \/ StartEstimator
           \/ StartPlanner \/ StartController \/ UNCHANGED vars
  BY <1>1, <1>2 DEF PublishRoute, PublishRadar, TrackingStep, EstimatorStep,
     PlannerFindsPath, PlannerKeepsPlan, PlanStep, Controller,
     ControllerHoldsPosition, ControllerTracksGrid, ControllerFinishedGrid,
     ControllerFollowsArc, ControlWith, AbortController, StartTracking,
     StartEstimator, StartPlanner, StartController, PassGate, Loop, Frame, vars
<1>3. ASSUME NEW fix \in BOOLEAN, ParseGPS(fix)
      PROVE  /\ atomic' => gpsLocal' = gps'
             /\ atomic' /\ gps'.status => "nofix" \notin gps'.taint
             /\ atomic' /\ testmode' \in Experiment /\ "gps" \in ready' =>
                   "nofix" \notin gps'.taint
  <2>1. atomic => /\ gps' = [status |-> fix, taint |-> PositionTaint(fix)]
                  /\ gpsLocal' = gps'
    BY <1>3 DEF ParseGPS
  <2>2. fix => "nofix" \notin PositionTaint(fix)
    BY DEF PositionTaint
  <2>3. "nofix" \in PositionTaint(fix) => "nofix" \in gpsLocal.taint
    BY DEF PositionTaint
  <2> QED
    BY <1>3, <2>1, <2>2, <2>3 DEF ParseGPS
<1>4. CASE CopyPosition
  BY <1>4 DEF CopyPosition
<1>5. CASE Monitor
  BY <1>5 DEF Monitor, MonitorRoute, MonitorGPS, MonitorEstimator,
     MonitorRadar, MonitorTracking, MonitorPlannerController, Toggle
<1> QED
  BY <1>2, <1>3, <1>4, <1>5 DEF Next

\* No step of any thread changes the build's mode or the kind of its copies.
LEMMA ModeStays == [Next]_vars => UNCHANGED <<testmode, atomic>>
  BY DEF Next, vars, PublishRoute, ParseGPS, CopyPosition, PublishRadar,
     Monitor, MonitorRoute, MonitorGPS, MonitorEstimator, MonitorRadar,
     MonitorTracking, MonitorPlannerController, Toggle, StartTracking,
     TrackingStep, StartEstimator, EstimatorStep, StartPlanner,
     PlannerFindsPath, PlannerKeepsPlan, PlanStep, StartController,
     AbortController, Controller, ControllerHoldsPosition,
     ControllerTracksGrid, ControllerFinishedGrid, ControllerFollowsArc,
     ControlWith, PassGate, Loop, Frame

LEMMA FixInvariant == Spec => []FixInv
<1>1. Init => FixInv
  BY DEF Init, NoFix, FixInv, InitialTaint, Data
<1>2. TypeOK /\ ReadyChain /\ FixInv /\ [Next]_vars => FixInv'
  <2> SUFFICES ASSUME TypeOK, ReadyChain, FixInv, [Next]_vars
               PROVE  FixInv'
    OBVIOUS
  <2>1. ASSUME atomic
        PROVE  \A d \in Data : "nofix" \notin taint'[d]
    <3> DEFINE X == Placeholders \ {"nofix"}
    <3>1. \A d \in Data : taint[d] \subseteq X
      BY <2>1 DEF FixInv, TypeOK
    <3>2. /\ SpeedTaint \subseteq X /\ CourseTaint \subseteq X
          /\ "initial" \in X
      BY DEF SpeedTaint, CourseTaint, Placeholders
    <3>3. testmode \in Experiment /\ "estimator" \in ready =>
             gps.taint \subseteq X
      BY <2>1 DEF FixInv, ReadyChain, TypeOK, Fix, Placeholders
    <3>4. \A d \in Data \ Captured : taint[d] \subseteq X
      BY <3>1
    <3>5. taint["course"] \subseteq X /\ taint["grid"] \subseteq X
      BY <3>1 DEF Data
    <3>6. \A e \in X : e # "nofix"
      OBVIOUS
    <3> HIDE DEF X
    <3>7. \A d \in Data \ Captured : taint'[d] \subseteq X
      BY <3>2, <3>3, <3>4, <3>5, DataFlow
    <3>8. \A c \in Captured : taint'[c] \subseteq X
      BY <3>2, <3>5, CapturedFlow DEF Captured
    <3> QED
      BY <3>6, <3>7, <3>8
  <2> QED
    BY <2>1, ReceiverKeepsFix, ModeStays DEF FixInv
<1> QED
  BY <1>1, <1>2, TypeCorrect, ReadyChainInvariant, PTL DEF Spec

(***************************************************************************)
(* Every state the estimator publishes, its first one included, then comes *)
(* from a sample taken after the first fix, wherever else it comes from.   *)
(***************************************************************************)
THEOREM EstimatesHaveFix == Spec => []StateHasFix
<1>1. FixInv => StateHasFix
  BY DEF FixInv, StateHasFix, Data
<1> QED
  BY <1>1, FixInvariant, PTL

-----------------------------------------------------------------------------
(***************************************************************************)
(* On the vessel, and with untorn copies, the unplanned route never leaves *)
(* the two members that wait to be overwritten: the course before the      *)
(* planner and the grid before the controller have started.                *)
(***************************************************************************)
PlannedInv ==
    atomic /\ testmode \in Experiment =>
       \A d \in Data \ Captured : taint[d] \cap {"waypoints", "speed"} = {}

LEMMA PlannedInvariant == Spec => []PlannedInv
<1>1. Init => PlannedInv
  BY DEF Init, PlannedInv, InitialTaint, Data, Captured
<1>2. /\ TypeOK /\ ReadyChain /\ CaptureInv /\ PlannedInv /\ [Next]_vars
      => PlannedInv'
  <2> SUFFICES ASSUME TypeOK, ReadyChain, CaptureInv, PlannedInv, [Next]_vars,
                      atomic, testmode \in Experiment
               PROVE  \A d \in Data \ Captured :
                         taint'[d] \cap {"waypoints", "speed"} = {}
    BY ModeStays DEF PlannedInv
  <2> DEFINE X == Placeholders \ {"waypoints", "speed"}
  <2>1. \A d \in Data \ Captured : taint[d] \subseteq X
    BY DEF PlannedInv, TypeOK
  <2>2. "pathplanner" \in ready => SpeedTaint = {} /\ CourseTaint = {}
    BY RouteBeforeCapture
  <2>3. "pathplanner" \in running =>
           taint["course"] \cup SpeedTaint \subseteq X
    BY <2>2 DEF CaptureInv, RouteCaptured, ReadyChain
  <2>4. "controller" \in running => taint["grid"] \subseteq X
    BY DEF CaptureInv, RouteCaptured
  <2>5. "initial" \in X /\ gps.taint \subseteq X
    BY DEF TypeOK, Fix, Placeholders
  <2>6. \A e \in X : e # "waypoints" /\ e # "speed"
    OBVIOUS
  <2> HIDE DEF X
  <2>7. \A d \in Data \ Captured : taint'[d] \subseteq X
    BY <2>1, <2>2, <2>3, <2>4, <2>5, DataFlow
  <2> QED
    BY <2>6, <2>7
<1> QED
  BY <1>1, <1>2, TypeCorrect, ReadyChainInvariant, CaptureInvariant, PTL
     DEF Spec

(***************************************************************************)
(* No command to the thrusters of the vessel derives from the route before *)
(* it was planned or from a position before the first fix, although set    *)
(* points, states and commands feed each other in a circle.                *)
(***************************************************************************)
THEOREM GroundedCommands == Spec => []CommandsGrounded
<1>1. FixInv /\ PlannedInv => CommandsGrounded
  BY DEF FixInv, PlannedInv, CommandsGrounded, Unplanned, Data, Captured
<1> QED
  BY <1>1, FixInvariant, PlannedInvariant, PTL
=============================================================================
