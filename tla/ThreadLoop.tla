----------------------------- MODULE ThreadLoop -----------------------------
(***************************************************************************)
(* The start-up of the vessel program: threadloop.h starts one thread per  *)
(* subsystem, the threads share plain (unlocked) "RTdata" structs, and a   *)
(* state monitor thread (state_monitor_loop, StateMonitor.h) releases the  *)
(* target tracker, the estimator, the path planner and the controller once *)
(* it has seen what they depend on.  A released thread reads some of the   *)
(* shared data only once and keeps it forever (the planner its course, the *)
(* controller its grid of waypoints), so what it was released too early    *)
(* with is what it lives with.                                             *)
(*                                                                         *)
(* Numbers are abstracted to where they come from: the taint of a datum is *)
(* the set of placeholders (initial values, positions in a wrong frame)    *)
(* that the newest value of the datum was computed from.                   *)
(***************************************************************************)
EXTENDS Naturals, FiniteSets

CONSTANT
    TestModes      \* the test modes a build is compiled for (config.h)

Simulation == {"SIMULATION_DP", "SIMULATION_LOS", "SIMULATION_FRENET",
               "SIMULATION_AVOIDANCE"}
Experiment == {"EXPERIMENT_DP", "EXPERIMENT_LOS", "EXPERIMENT_FRENET",
               "EXPERIMENT_AVOIDANCE"}
Modes      == Simulation \cup Experiment
DPModes    == {"SIMULATION_DP", "EXPERIMENT_DP"}
LOSModes   == {"SIMULATION_LOS", "EXPERIMENT_LOS"}
PlanModes  == Modes \ (DPModes \cup LOSModes)   \* FRENET and AVOIDANCE

ASSUME ModesAssumption == TestModes \subseteq Modes

Indicators == {"routeplanner", "gps", "estimator", "marine_radar",
               "target_tracking", "pathplanner", "controller"}
Gated      == {"target_tracking", "estimator", "pathplanner", "controller"}

(***************************************************************************)
(* Members of RoutePlannerRTdata in declaration order: the struct          *)
(* assignment copies state_toggle first and the waypoints last.            *)
(***************************************************************************)
ToggleAt    == 1
ZoneAt      == 2
SpeedAt     == 3
WaypointsAt == 4

Data         == {"state", "error", "targets", "course", "nextplan", "plan",
                 "grid", "setpoint", "command"}
Placeholders == {"initial", "speed", "waypoints", "nofix", "zone"}

VARIABLES
    testmode,     \* constexpr testmode
    atomic,       \* no thread runs in the middle of a struct copy
    routeCopied,  \* members of RoutePlanner_RTdata assigned so far
    gpsLocal,     \* GPS::GPSdata, the gps thread's own copy
    gps,          \* gps_data, shared
    gpsCopying,   \* status copied, position not yet
    radar,        \* MarineRadar_RTdata.state_toggle is READY
    ready,        \* indicators that are READY
    running,      \* gated threads that passed their gate
    taint,        \* [Data -> placeholders the value derives from]
    aborted       \* an assertion of the Debug build ended the program

vars == <<testmode, atomic, routeCopied, gpsLocal, gps, gpsCopying, radar,
          ready, running, taint, aborted>>

Fix == [status : BOOLEAN, taint : SUBSET {"nofix", "zone"}]

TypeOK ==
    /\ testmode \in TestModes
    /\ atomic \in BOOLEAN
    /\ routeCopied \in 0 .. WaypointsAt
    /\ gpsLocal \in Fix
    /\ gps \in Fix
    /\ gpsCopying \in BOOLEAN
    /\ radar \in BOOLEAN
    /\ ready \subseteq Indicators
    /\ running \subseteq Gated
    /\ taint \in [Data -> SUBSET Placeholders]
    /\ aborted \in BOOLEAN

NoFix == [status |-> FALSE, taint |-> {"nofix"}]

(***************************************************************************)
(* The initial values of the RTdata members: speed 0 and zero waypoints in *)
(* RoutePlanner_RTdata, a made-up course (60 degrees at 2 m/s) in          *)
(* Planning_Marine_state, zeros elsewhere.  Targets that are IDLE are no   *)
(* obstacles, and stand for nothing.                                       *)
(***************************************************************************)
InitialTaint ==
    [d \in Data |-> CASE d = "course"   -> {"waypoints"}
                      [] d = "grid"     -> {"waypoints", "speed"}
                      [] d = "targets"  -> {}
                      [] OTHER          -> {"initial"}]

Init ==
    /\ testmode \in TestModes
    /\ atomic \in BOOLEAN
    /\ routeCopied = 0
    /\ gpsLocal = NoFix
    /\ gps = NoFix
    /\ gpsCopying = FALSE
    /\ radar = FALSE
    /\ ready = {}
    /\ running = {}
    /\ taint = InitialTaint
    /\ aborted = FALSE

\* What every step of every thread needs, and all but one leave so.
Alive == ~aborted /\ UNCHANGED aborted

Published(member) == member <= routeCopied

(***************************************************************************)
(* route_planner_loop: the plan is computed in the thread's own object and *)
(* assigned, member by member, to RoutePlanner_RTdata, once.               *)
(***************************************************************************)
PublishRouteAgain ==   \* faulty: the plan is cleared and published again
    /\ Alive
    /\ routeCopied' = IF routeCopied < WaypointsAt THEN routeCopied + 1 ELSE 0
    /\ UNCHANGED <<testmode, atomic, gpsLocal, gps, gpsCopying, radar, ready,
                   running, taint>>

PublishRoute ==
    /\ Alive
    /\ routeCopied < WaypointsAt
    /\ routeCopied' = IF atomic THEN WaypointsAt ELSE routeCopied + 1
    /\ UNCHANGED <<testmode, atomic, gpsLocal, gps, gpsCopying, radar, ready,
                   running, taint>>

(***************************************************************************)
(* gps_loop: a $GPGGA line with (fix) or without a fix.  The position is   *)
(* transferred to the planning zone only when utm_zone is not "OFF" at the *)
(* time the line is handled.  A line without a fix is handled like one with *)
(* it; after the first fix its position is taken for an old one.           *)
(***************************************************************************)
PositionTaint(fix) ==
    (IF fix THEN {} ELSE gpsLocal.taint \cap {"nofix"})
      \cup (IF Published(ZoneAt) THEN {} ELSE {"zone"})

ParseGPS(fix) ==
    /\ Alive
    /\ testmode \in Experiment
    /\ ~gpsCopying
    /\ gpsLocal' = [status |-> fix, taint |-> PositionTaint(fix)]
    /\ IF atomic
       THEN /\ gps' = gpsLocal'
            /\ UNCHANGED gpsCopying
       ELSE /\ gps' = [gps EXCEPT !.status = fix]
            /\ gpsCopying' = TRUE
    /\ UNCHANGED <<testmode, atomic, routeCopied, radar, ready, running, taint>>

CopyPosition ==
    /\ Alive
    /\ gpsCopying
    /\ gps' = gpsLocal
    /\ gpsCopying' = FALSE
    /\ UNCHANGED <<testmode, atomic, routeCopied, gpsLocal, radar, ready,
                   running, taint>>

\* marine_radar_loop: StartMarineRadar returned and its toggle was copied.
PublishRadar ==
    /\ Alive
    /\ testmode = "EXPERIMENT_AVOIDANCE"
    /\ ~radar
    /\ radar' = TRUE
    /\ UNCHANGED <<testmode, atomic, routeCopied, gpsLocal, gps, gpsCopying,
                   ready, running, taint>>

-----------------------------------------------------------------------------
(***************************************************************************)
(* state_monitor_loop: one action per "if" of the loop body.  Each of them *)
(* re-reads what it tests, so passes of the loop need no program counter.  *)
(***************************************************************************)
Toggle(indicators, condition) ==
    /\ Alive
    /\ indicators \cap ready = {}
    /\ condition
    /\ ready' = ready \cup indicators
    /\ UNCHANGED <<testmode, atomic, routeCopied, gpsLocal, gps, gpsCopying,
                   radar, running, taint>>

MonitorRoute == Toggle({"routeplanner"}, Published(ToggleAt))

MonitorGPSAnyRoute ==      \* faulty: does not wait for the route
    /\ testmode \in Experiment
    /\ Toggle({"gps"}, gps.status)

MonitorGPSAnyStatus ==     \* faulty: does not wait for the fix
    /\ testmode \in Experiment
    /\ Toggle({"gps"}, "routeplanner" \in ready)

MonitorGPS ==
    /\ testmode \in Experiment
    /\ Toggle({"gps"}, gps.status /\ "routeplanner" \in ready)

MonitorEstimatorGPS ==     \* faulty: waits for a gps in simulations, too
    Toggle({"estimator"}, "gps" \in ready)

MonitorEstimatorAtOnce ==  \* faulty: waits for nothing
    Toggle({"estimator"}, TRUE)

MonitorEstimator ==
    Toggle({"estimator"}, testmode \in Simulation \/ "gps" \in ready)

MonitorRadar ==
    /\ testmode = "EXPERIMENT_AVOIDANCE"
    /\ Toggle({"marine_radar"}, radar)

MonitorTracking ==
    /\ testmode = "EXPERIMENT_AVOIDANCE"
    /\ Toggle({"target_tracking"},
              {"estimator", "marine_radar"} \subseteq ready)

MonitorPlannerMisspelt ==  \* faulty: toggles an indicator nobody polls
    Toggle({"planner", "controller"},
           IF testmode = "EXPERIMENT_AVOIDANCE"
           THEN "target_tracking" \in ready
           ELSE "estimator" \in ready)

MonitorPlannerEarly ==     \* faulty: does not wait for the tracker
    Toggle({"pathplanner", "controller"}, "estimator" \in ready)

MonitorPlannerController ==
    Toggle({"pathplanner", "controller"},
           IF testmode = "EXPERIMENT_AVOIDANCE"
           THEN "target_tracking" \in ready
           ELSE "estimator" \in ready)

Monitor == \/ MonitorRoute \/ MonitorGPS \/ MonitorEstimator
           \/ MonitorRadar \/ MonitorTracking \/ MonitorPlannerController

-----------------------------------------------------------------------------
(***************************************************************************)
(* The gated threads.  A gate polls its indicator (check_... of            *)
(* StateMonitor.h); what the thread does once after the gate is part of    *)
(* the same action, because the poll may come arbitrarily late.            *)
(***************************************************************************)
PassGate(thread) ==
    /\ Alive
    /\ thread \in ready \ running
    /\ running' = running \cup {thread}

Frame == <<testmode, atomic, routeCopied, gpsLocal, gps, gpsCopying, radar,
           ready>>

StartTracking ==
    /\ PassGate("target_tracking")
    /\ UNCHANGED <<Frame, taint>>

\* One pass of a loop of a thread that runs
Loop(thread) ==
    /\ Alive
    /\ thread \in running
    /\ UNCHANGED <<Frame, running>>

\* AutoTracking places the targets by the vessel's state and filters them on.
TrackingStep ==
    /\ Loop("target_tracking")
    /\ taint' = [taint EXCEPT !["targets"] = @ \cup taint["state"]]

\* setvalue, with gps_data or the constants of a simulation
StartEstimator ==
    /\ PassGate("estimator")
    /\ taint' = [taint EXCEPT !["state"] =
                    IF testmode \in Simulation THEN {} ELSE gps.taint]
    /\ UNCHANGED Frame

(***************************************************************************)
(* What the estimator works on.  The simulator moves its own last state by *)
(* the set heading and the thrust; on the vessel it is gps_data.           *)
(***************************************************************************)
Measured == IF testmode \in Simulation
            THEN taint["state"] \cup taint["setpoint"] \cup taint["command"]
            ELSE gps.taint

(***************************************************************************)
(* estimatestate, then estimateerror.  Near the set heading the estimator  *)
(* turns positions and speeds by that heading instead of the measured one; *)
(* the averages of the speeds may still hold older samples.                *)
(***************************************************************************)
EstimatorStep ==
    /\ Loop("estimator")
    /\ \E nearSetHeading, oldSamples \in BOOLEAN :
          LET state == Measured
                \cup (IF nearSetHeading THEN taint["setpoint"] ELSE {})
                \cup (IF oldSamples THEN taint["state"] ELSE {})
          IN  taint' = [taint EXCEPT !["state"] = state,
                                     !["error"] = state \cup taint["setpoint"]]

SpeedTaint  == IF Published(SpeedAt) THEN {} ELSE {"speed"}
CourseTaint == IF Published(WaypointsAt) THEN {} ELSE {"waypoints"}

StartPlanner ==     \* regenerate_target_course, never called again
    /\ PassGate("pathplanner")
    /\ taint' = [taint EXCEPT !["course"] = CourseTaint,
                              !["nextplan"] = CourseTaint \cup {"initial"}]
    /\ UNCHANGED Frame

PlanStep == Loop("pathplanner") /\ testmode \in PlanModes

\* trajectoryonestep found a path that is free of the targets' collisions
PlannerFindsPath ==
    /\ PlanStep
    /\ LET plan == taint["state"] \cup taint["course"] \cup taint["targets"]
                     \cup SpeedTaint
       IN  taint' = [taint EXCEPT !["nextplan"] = plan, !["plan"] = plan]

\* "No best path!": the next state of the last search is published again
PlannerKeepsPlan ==
    /\ PlanStep
    /\ taint' = [taint EXCEPT !["plan"] = taint["nextplan"]]

\* initializecontroller and set_grid_points, once.  (The configured start of
\* the thrusters is no placeholder, but the thrust BalphaU stays zero.)
StartController ==
    /\ PassGate("controller")
    /\ Published(SpeedAt)
    /\ taint' = [taint EXCEPT !["grid"] = CourseTaint]
    /\ UNCHANGED Frame

\* assert(_desired_speed > 0) ends the program with all its threads.
AbortController ==
    /\ ~aborted
    /\ "controller" \in ready \ running
    /\ ~Published(SpeedAt)
    /\ aborted' = TRUE
    /\ UNCHANGED <<Frame, running, taint>>

\* One pass of controllerloop with the setpoint of this mode's tracker; the
\* thrust allocation starts from the last command.
ControlWith(setpoint) ==
    /\ Loop("controller")
    /\ taint' = [taint EXCEPT !["setpoint"] = setpoint,
                              !["command"] = @ \cup taint["error"] \cup setpoint]

ControllerHoldsPosition ==      \* the setpoint is the constant zero
    /\ testmode \in DPModes
    /\ ControlWith({})

ControllerTracksGrid ==         \* Grid_LOS, TRACKING
    /\ testmode \in LOSModes
    /\ ControlWith(taint["state"] \cup taint["grid"])

ControllerFinishedGrid ==       \* Grid_LOS, FINISHED: the setpoint is kept
    /\ testmode \in LOSModes
    /\ ControlWith(taint["setpoint"])

ControllerFollowsArc ==         \* FollowCircularArc(Planning_Marine_state)
    /\ testmode \in PlanModes
    /\ ControlWith(taint["plan"])

Controller == \/ ControllerHoldsPosition \/ ControllerTracksGrid
              \/ ControllerFinishedGrid \/ ControllerFollowsArc

-----------------------------------------------------------------------------
Next ==
    \/ PublishRoute
    \/ \E fix \in BOOLEAN : ParseGPS(fix)
    \/ CopyPosition
    \/ PublishRadar
    \/ Monitor
    \/ StartTracking
    \/ TrackingStep
    \/ StartEstimator
    \/ EstimatorStep
    \/ StartPlanner
    \/ PlannerFindsPath
    \/ PlannerKeepsPlan
    \/ StartController
    \/ AbortController
    \/ Controller
    \/ aborted /\ UNCHANGED vars

Spec == Init /\ [][Next]_vars

(***************************************************************************)
(* Every thread is scheduled again and again, until the program ends.  What*)
(* the sea, the receiver and the radar do is not: lines from the gps and   *)
(* the radar's unlocking have no fairness.                                 *)
(***************************************************************************)
Scheduling ==
    /\ WF_vars(PublishRoute)
    /\ WF_vars(CopyPosition)
    /\ WF_vars(Monitor)
    /\ WF_vars(StartTracking)
    /\ WF_vars(StartEstimator)
    /\ WF_vars(StartPlanner)
    /\ WF_vars(StartController)

FairSpec == Spec /\ Scheduling

-----------------------------------------------------------------------------
(***************************************************************************)
(* The chain of releases: no gated thread runs unless its indicator is     *)
(* READY; on the vessel nothing runs before the route planner published    *)
(* its toggle and the monitor saw a fix; with avoidance, tracker, planner  *)
(* and controller also wait for the radar.  Torn copies change nothing.    *)
(***************************************************************************)
StartOrder ==
    /\ running \subseteq ready
    /\ testmode \in Experiment /\ running # {} =>
          Published(ToggleAt) /\ {"routeplanner", "gps"} \subseteq ready
    /\ testmode = "EXPERIMENT_AVOIDANCE" /\ running \ {"estimator"} # {} =>
          radar /\ "estimator" \in ready

(***************************************************************************)
(* What is read once is read in time: on the vessel the course of the path *)
(* planner (regenerate_target_course) and the grid and speed of the        *)
(* controller (set_grid_points) are the planned ones, never the zeros      *)
(* RoutePlanner_RTdata starts with, provided that no copy is torn; nor do  *)
(* those zeros end the program.                                            *)
(***************************************************************************)
RouteCaptured ==
    atomic /\ testmode \in Experiment =>
      /\ ~aborted
      /\ "pathplanner" \in running => taint["course"] = {}
      /\ "controller" \in running => taint["grid"] = {}

(***************************************************************************)
(* What the monitor saw of the receiver when it released the estimator     *)
(* still counts when the estimator reads gps_data: no state it publishes,  *)
(* the first one (setvalue) included, comes from before the first fix.     *)
(***************************************************************************)
StateHasFix ==
    atomic /\ "estimator" \in running => "nofix" \notin taint["state"]

(***************************************************************************)
(* set_grid_points asserts a positive speed (trajectorytracking.h): the    *)
(* speed member is 0 until the route is published.                         *)
(***************************************************************************)
GridSpeedPositive == ~aborted

(***************************************************************************)
(* gps.h transfers a position to the planning UTM zone before anybody uses *)
(* it: no state of the estimator is in the vessel's own zone.              *)
(***************************************************************************)
StateInPlanningZone == "zone" \notin taint["state"]

(***************************************************************************)
(* Placeholders wash out and stay out: once no datum derives from an       *)
(* initial value any more, no later step of any thread brings it back.     *)
(* (What a position lacks comes from the receiver, at any time.)           *)
(***************************************************************************)
Derived == UNION {taint[d] : d \in Data}
WashedOut ==
    [][Derived' \ {"nofix", "zone"} \subseteq Derived]_vars

(***************************************************************************)
(* Whatever the order in which the threads come up, and however data go    *)
(* round between estimator, tracker, planner and controller: no command to *)
(* the thrusters of the vessel ever derives from the way points and the    *)
(* speed before they were planned, or from a position before the first fix,*)
(* provided that no copy is torn.                                          *)
(***************************************************************************)
Unplanned == {"waypoints", "speed", "nofix"}
CommandsGrounded ==
    atomic /\ testmode \in Experiment => taint["command"] \cap Unplanned = {}

(***************************************************************************)
(* No gated thread waits for ever: in a simulation, or when the receiver   *)
(* keeps its fix and, with avoidance, the radar unlocks, all of them come  *)
(* to run, unless the assertion of the speed ends the program first.       *)
(***************************************************************************)
ThreadsOf(mode) ==
    IF mode = "EXPERIMENT_AVOIDANCE" THEN Gated ELSE Gated \ {"target_tracking"}

ThreadsStart ==
    /\ testmode \in Experiment => <>[]gps.status
    /\ testmode = "EXPERIMENT_AVOIDANCE" => <>radar
    => <>(aborted \/ ThreadsOf(testmode) \subseteq running)
=============================================================================
