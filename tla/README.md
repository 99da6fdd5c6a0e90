# Verification of the vessel program

TLA+ models, TLC runs and TLAPS proofs for the control software of the
unmanned surface vessel in `src/` (the program of
`src/examples/siyuanhuhao/utest`, which links the libraries under
`src/modules` and `src/common`), and for the client of the motor PLC, which
the repository tests by itself. The models are written from the C++ headers;
line numbers of every definition are in `PROJECT.json` ("map").

    tlc -workers 2 -config ThreadLoop_modes.cfg ThreadLoop     # a run
    tlapm ThreadLoopProofs.tla                                 # the proofs

## 1. The system

`threadloop.h` starts one thread per subsystem. The threads share "RTdata"
structs, one writer each, copied with plain struct assignments: there is no
lock, no queue and no condition variable anywhere. A monitor thread decides
when the others may begin, by setting indicators that they poll.

| Component (source) | State | Operations | Talks to |
|---|---|---|---|
| State monitor (`threadloop.h` 1423-1564, `StateMonitor.h`) | seven indicators `STANDBY/READY` | one `if` per indicator, in a loop | reads `state_toggle`s and the GPS status; four threads poll its indicators |
| Route planner (`RoutePlanning.h`, loop 286-314) | `RoutePlanner_RTdata`: toggle, zone, speed, way points | computes the plan once, publishes it once | read by GPS, estimator, planner, controller, monitor |
| GPS/IMU (`gps.h`, loop 1304-1332) | `GPSdata`, `gps_data` | parses `$GPGGA` and others, converts to UTM | read by monitor and estimator |
| Estimator (`estimator.h`, loop 621-768) | `Estimator_RTdata` | `setvalue` once; `estimatestate`, `estimateerror` | reads GPS or simulator, tracker set point; read by planner, controller |
| Path planner (`LatticePlanner.h`, loop 317-463) | course, `next` state, obstacles, `Planning_Marine_state` | `regenerate_target_course` once; `trajectoryonestep`; `setup_obstacle` | reads route, state, targets; read by controller |
| Trajectory tracking and controller (`trajectorytracking.h`, `controller.h`, loop 466-618) | grid, way-point index, set point, command | `set_grid_points` once; `Grid_LOS`, `FollowCircularArc`, `controlleronestep` | reads route, state, plan, error |
| Radar driver (`MarineRadar.h`, loop 1335-1361) | newest spoke, radar state | SDK callbacks, unlocking | read by the tracker |
| Target tracker (`TargetTracking.h`, loop 226-283) | spoke state, collected points, slots | `AutoTracking` | read by the planner and the recorder |
| GUI link (`guilink.h`, loop 1364-1410) | orders, status, failure count | send, wait, read a line | serial line; `guilink_RTdata`, `stm32_data` |
| Motor board link (`stm32_link.h`, loop 1267-1301) | orders, status, connection count | send, read a line | serial line; `guilink_RTdata`, `stm32_data` |
| Recorder (`sqlloop` 771-1264, `datarecorder.h`) | SQLite tables | polls every struct | output only |
| TCP telemetry (`tcpserver.h`, `tcpclient.h`, loop 1567-1639) | `master` and `read_fds`, `fdmax`, the snapshot that is sent | `selectserver`: select, accept, recv and send in one scan | clients that ask over TCP; runs in simulations |
| CRC (`crc.h`) | tables | `crcFast`, `crcSlow` | both links |
| Motor PLC client (`motorclient.h`, `testmotor.cc`) | socket, serial number, `feedback_allinfo`, last angle | `startup_socket_client`, `PLCcommunication`, `TerminalPLC` | a Modbus PLC over TCP; started by the two motor tests, not by the vessel program |
| Open-space planner (`HybridAStar.h`, `hybridstlastar.h`, `stlastar.h`, `fsa.h`) | open and closed lists | search steps | not started by this program |
| Numerics (filters, PID, QP allocation, splines, geometry) | floating-point | - | called by the above |

### What is hard here

* **Start-up order.** Planner and controller read the route *once*. Released a
  moment too early they live with zero way points, or end the program by an
  assertion; released never, the thrusters follow initial values for ever.
  Correct when: every gated thread runs after what it depends on and takes over
  the real route, all of them come to run, and no command derives from what was
  not planned.
* **Data that go round.** The state goes into the set point, the set point into
  the next state, the last command into the next one. What gets in once may stay.
* **Unlocked structs.** An assignment is copied member by member; a reader may
  see `state_toggle` of the new value and the way points of the old one.
* **Sampling.** Events (the spoke leaving the alarm zone, a failed search) are
  states of a struct that others poll at their own rate, and copy member by
  member. Correct when: no revolution is mixed with another by the tracker, and
  a mixture that the planner reads does not stay.
* **Multi-target bookkeeping.** Matching, coasting, thinning in nested loops
  over a fixed number of slots. Correct when: no duplicate, no target forgotten
  or kept for ever, the danger flag is right.
* **Relayed orders.** An operator's emergency stop passes two serial lines, two
  threads and two structs; its confirmation the same way back. Correct when: a
  newer order is never undone by an older one, no confirmation is false, lost
  lines only delay, and dead links are noticed.
* **Requests and answers over TCP.** `recv` takes whatever has arrived: half an
  answer, two at once, or the end of the one before. Links break with requests
  under way; descriptors are closed and used again. Correct when: no stale
  reading passes for a new one, the motors do not run before the reset, nobody
  is read by a descriptor of somebody else, and everyone is answered.

The full list, each at its line and with the properties that watch it, is in
`PROJECT.json` ("hazards").

## 2. The modules

### `ThreadLoop` - start-up and data flow of the vessel program

*State.* `ready` holds the indicators that are `READY`, `running` the gated
threads past their gate, `routeCopied` how many members of
`RoutePlanner_RTdata` have been assigned, `gpsLocal`/`gps` the receiver's own
and its shared struct. Numbers are replaced by where they come from: `taint[d]`
is the set of placeholders the newest value of the datum `d` was computed from
(the initial values of the structs, such as the made-up course of
`Planning_Marine_state`, are one placeholder; the speed and the way points before
they are planned, a position without a fix and a position in the wrong UTM zone are
the others). `atomic` tells whether other threads can run in the middle of a
struct copy; it is chosen initially, so that one run covers both. `aborted`: the
assertion of `set_grid_points` met speed 0 and ended the program (Debug build).

*Actions.* One per `if` of `state_monitor_loop`; one per gate together with
what the thread does once behind it (the gate poll may come arbitrarily late,
so gate and first step need no action between them); one per outcome of a loop
body. A loop body computes from the structs as they are at one moment. A
finer interleaving inside a body adds only older values of the same data.

*Data flow.* Estimator: the measured position (a simulator moves its last state by
the set heading and the thrust), the set heading when the vessel is near it
(`estimator.h:191`), and the averages of earlier samples, which may or may not be
full of newer ones. Errors: state and set point. Tracker: its targets and the state. Planner: state, course,
targets, speed. Controller: errors, set point, and the last command, from which
the thrust allocation starts. The Kalman filters are off (`KALMANOFF`,
`config.h:37`). Of what is kept inside an object, the integral parts of the PID
loops are left out: they hold earlier errors only, and the command keeps their
placeholders anyhow. Because state and set point, and command and command, feed
each other, an initial value may go round for ever: nothing here says that it
dies out.

### `SpokeSweep` - a revolution of the radar becomes obstacles

The five outcomes of the spoke logic of `AutoTracking` (nothing, collect,
leave, outside) are actions; each includes the publication of the struct.
Points are abstracted to the revolution they were measured in, counted modulo
3, which tells neighbours apart. Tracker and planner are independent: each sleeps
for a time of its own, and any number of passes of one fits between two of the
other. The struct is assigned member by member (`Publish`, `CopyTargets`, in the
order of the declaration), and `setup_obstacle` takes three dynamic vectors, so
that each of the three members is read for the call at a moment of its own
(`ReadMember`, in any order). `shared` and `obstacles` therefore tell, for each
member, which revolution it is of.

The radar driver is in the same module: unlocking (tried for ever), connecting
the two clients (tried once), the first spoke. Its struct is `READY` in any case,
so that the tracker samples also a radar that failed, and the struct's initial
spoke, which is ahead, in the middle of the alarm zone, while
`previous_IsInAlarmAzimuth` begins as false.

`SweepAssumption` says how the antenna moves: not at all or by more than the
threshold, and in two samples never from the far edge of the zone round to the
near one.

### `TargetTracking` (instance `MCTargetTracking`) - the slots

One action per revolution: filter the clusters, match, open new slots, predict
or update, judge, thin out, in the order of the code. The plane is a line and
the filter gains are 1, so that all comparisons the code makes (speed,
acceleration and turn gates, loss, duplicates, CPA) are exact. When targets
differ in size, the radius term of the loss may favour any admissible
detection; `equalRadii` says whether they do. `SlotCounts` lists the sizes of the
tracker.

A detection keeps its index among all clusters, so that `detection` is a
function on the plausible ones. The second loop of `TargetIdentification`, which
hands the unmatched detections to the idle slots in order, is stated by rank: a
slot gets the detection that has as many unmatched ones before it as the slot has
idle ones. The two loops of `RemoveDuplicateTargets` are `DropAround` (over `j`,
with the `break`) and the recursive function `Left` (over `i`).
`SceneAssumption` says that clusters are more than `p_radius` apart: on a line
DBSCAN with that radius joins what is nearer. In the plane the centres of the
circles around two long clusters can be nearer.

### `DataLinks` - orders and confirmations over the two serial links

Orders are numbered as the operator gives them. Both loops are modelled in two
steps each (send; read and publish), with every outcome of a read: a line, a
garbled line, nothing. Input buffers are queues of `MaxLines` lines; a sent
line arrives or is lost. The counts behind `checkconnection` are kept with
their caps.

### `OrderRelay` - what the two links promise

Three numbers: the last order given, the one the board executes, the one the GUI
shows. The board may execute any order from the present one to the last given,
the GUI show any from the one it shows to the one executed. `DataLinks`
instantiates it with its own variables of these names (`Relay`), and
`RelaysOrders` says that it implements it.

### `GridLOS` (instance `MCGridLOS`) - way-point following

One action per outcome of `Grid_LOS` (last way point, next way point, same leg)
together with the vessel's run until the next sample. Legs are parallel to the
axes and turning angles are quarter turns; the LOS angle asin(e/radius) enters as
the proportion of the run across and along the leg, rounded to integers in
either direction. The two branches of the code for two and for more way points
differ in the capture radius only (`Radius`). The vessel is ideal: it follows the
set point at once; the position of the estimate is the true one. `visited` is a
history variable.

### `MotorClient` - exchanges with the motor PLC

*State.* `stage` is where the program is, `todo` the requests left in the
procedure that runs (`reset`, `run`, `stop`, a command, a read), `waiting` that it
is in `recv`. `requests` and `stream` are the two directions of the TCP
connection; an answer is one piece or a head and a tail. The six azimuth angles
are one, in units of which `HalfTurn` make 180 degrees; speeds and torques are
left out. `Angles` are the angles that are asked for, any set of whole numbers:
`commandPLC` checks none, and in `TerminalPLC` they come from `scanf`, which also
reads NaN and infinity (not modelled) and leaves the last command in place when
it cannot read at all. `outdated`, `readings`, `lost` and the angle a command was
`asked` with are history.

*Actions.* `Exchange`: send, its failure, `recv` of any bytes (answers to writes
are not looked at), of the right answer, of a wrong one, and its failure.
`startup_socket_client`, `PLCcommunication` and `TerminalPLC` begin the next
procedure when one is done. A failed exchange closes the socket;
`PLCcommunication` connects again in the same pass and dereferences a null
pointer when that fails (`Crash`). The PLC and the network are external: the PLC
handles requests in order and changes its status by itself, the link breaks.

### `Telemetry` - the TCP server of the simulations

*State.* The descriptor sets of `tcpserver.h`, the connection behind each
descriptor, the connections that wait for `accept`, and `current`: the clients
that have not yet got the present snapshot. `read_fds` is reduced to the
descriptors the scan has still to look at.

*Actions.* `Build` takes the snapshot; `Select` waits; the scan takes readable
descriptors from the lowest, each an action of its own, so that clients may hang
up, ask and connect between any two. A failed `select` leaves all of `master` to be
scanned. Accepted sockets inherit the listener's receive timeout of a second
(`tcpserver.h:157`), so that a `recv` from a client that asks nothing fails, and its
connection is closed. Clients ask one question at a time.

### The proofs

`ThreadLoopProofs`, `SpokeSweepProofs`, `GridLOSProofs`, `DataLinksProofs`,
`MotorClientProofs`, `TargetTrackingProofs`, `TelemetryProofs`: the theorems of
section 5 and the lemmas they rest on.

## 3. The runs

| Run | Module | Shows |
|---|---|---|
| `modes` | `ThreadLoop` | In seven modes, with fixes lost and found, copies whole and torn: releases in order (`StartOrder`), route taken over (`RouteCaptured`), states come from a fix (`StateHasFix`), no command derives from an unplanned route or a missing fix (`CommandsGrounded`), placeholders only drain (`WashedOut`), all gated threads come to run unless the assertion ends the program (`ThreadsStart`) |
| `simspeed` | `ThreadLoop` | finding: the controller of a simulation may take speed 0 over, which `set_grid_points` asserts against |
| `zone` | `ThreadLoop` | finding: a position in the wrong UTM zone reaches the estimator |
| `turn` | `SpokeSweep` | A planner that polls at any time, copies torn between members: the tracker's pictures do not mix revolutions (`OneRevolutionPerPicture`), points are clustered before they are cleared (`NoPointsLost`), clustering goes on (`ClustersForever`), the planner ends up with the newest targets in each member when the antenna stops with the zone just left (`LastPictureAvoided`), and a radar that never turns makes no targets (`NoPictureWithoutSpin`) |
| `slots` | `MCTargetTracking` | No duplicates (`NoDuplicates`), coasting lasts one revolution (`CoastsOnce`), no plausible cluster is without a target while slots suffice (`PictureComplete`), for targets of any size; among targets of the same size one that goes on as predicted stays (`ContinuingTargetStays`). The last two except a place that a target is coasted to (section 6) |
| `receding` | `MCTargetTracking` | finding: a target that moves away keeps its danger flag |
| `ownposition` | `MCTargetTracking` | finding: static targets are judged against the speed vector of the vessel |
| `routes` | `MCGridLOS` | No way point is skipped (`EveryWaypointVisited`) or, with legs that are no shorter than a sample's run, missed (`ReachesDestination`); the cross-track error stays within the capture radius and a sample's run (`KeepsToLeg`) |
| `orders` | `DataLinks` | Orders and confirmations through lossy links: an implementation of `OrderRelay` (`RelaysOrders`), no older order after a newer one (`NoOldOrder`), true confirmations (`ConfirmationsTrue`), the last order arrives (`OrdersArrive`) and is held when the GUI falls silent (`LastOrderHeld`); damping and loss of the board link (`LinkIsDamped`, `BoardLossNoticed`) |
| `guilost` | `DataLinks` | finding: a silent GUI is never reported |
| `plc` | `MCMotorClient` | Answers split, run together, cut off; links that break anywhere: no reading older than the commands before it is accepted (`FeedbackCurrent`), start-up runs the motors only after the reset and two readings of 0 (`RunOnlyAfterReset`), no command turns a thruster by more than half a turn, or by a turn less than what was asked for when that is longer (`ShortTurns`), commands get through again (`CommandsResume`) |
| `tcp` | `Telemetry` | Clients that ask, leave and come back, selects and accepts that fail: `master` is exactly what is open (`DescriptorsOpen`), no snapshot is sent twice to a client (`AnswersFresh`), everyone who asks is answered (`Answered`) |

### Bounds, and why they are enough

* `modes`: the state space is finite by itself; nothing is bounded (710 thousand
  states, about two minutes).
  `EXPERIMENT_FRENET` is left out of the run to keep it short: it differs from
  `EXPERIMENT_AVOIDANCE` only by not waiting for the radar, a chain that
  `EXPERIMENT_LOS` has, and the theorems cover it.
* `turn`: 24 azimuth units, a zone of 5, steps of 0, 2, 3 and 5 with threshold
  1. A step of 5 can jump from the near edge to the far edge of the zone and not
  over it, as on the vessel: the configured zone is 60 degrees wide
  (`property.json:103`), 4 units of 15 degrees, and an antenna at up to 48 turns a
  minute makes less than 30 degrees in a sample of 0.1 s. Steps at or below the threshold are not tried:
  there the code drops the edge of the zone (see section 6).
* `slots`: trackers of two and of three slots, two clusters a revolution, at
  five places with gaps of 1, 2 and 3 and `p_radius` = 2: enough for two slots
  that claim one cluster, a cluster with no slot, a full tracker, duplicates that
  differ in speed, and a coasted target that intrudes on a detected one. The
  antenna passes the clusters in the order of their places; a cluster that is not
  plausible has place 0, which keeps only the gap in the indices. The limits
  (`max_speed`, `max_acceleration` = 3) are inside the line, so that the gates
  exclude something. Positions off the line occur by prediction. With three
  slots two clusters a revolution do not fill the tracker with targets that go
  their own ways, and a wrong match costs nothing; with two it does. The two
  findings use five places and `p_radius` = 1. The proofs bound nothing.
* `routes`: routes of one to four legs: all that turn twice after a first leg
  (96, doubling back included), with legs from a third of the capture radius up,
  a closed circuit, a straight way point, a single leg, and four legs in a row that
  are half as long as a sample's run. Longer routes repeat these turns. The vessel starts in the first circle, on its rim, or too far out;
  it is followed within `MCSea`, which a vessel that misses a circle leaves
  (hence no deadlock check), and in which all others stay until they finish.
* `orders`: two orders suffice for "old after new" (the proof covers any
  number); buffers of two lines hold a stale and a fresh one. The thresholds of
  the board link are shrunk to 1/2 of 2 to keep the product small; the damping
  is proved for all thresholds. `guilost` uses the thresholds of the code.
* `plc`: a half turn of two units has an angle on each side, the opposite one
  and the border between them; the angles asked for are all within half a turn and
  one of 450 degrees (`MCAngles`), so that positions beyond a turn are remembered
  and one correction by a turn is not always enough; two serial numbers, so that numbers repeat at
  once; an answer is split while at most `MaxUnread` = 1 request or piece is
  outstanding. That leaves a tail behind a read and behind the write before it;
  with 2 all properties hold as well (2.6 million states), and the proofs bound
  nothing. (That figure is for the angles within half a turn.) There is no
  deadlock check, for a program that has crashed has stopped.
* `tcp`: two clients, three descriptors, of which one lies below the listener's
  and two above (so that `fdmax` has to grow twice, and a connection may be left
  over from a client that has come back), two connections waiting.

## 4. Fairness

* Loops of threads: weak fairness. Each ends in `sleep_for` or in a read with a
  timeout and never exits; no lock can hold one up.
* `SpokeSweep`: a copy and a reading come to their end, and the planner polls
  again and again: weak fairness, so that it must meet `LEAVE_ALARM_ZONE` only if that
  stays. Nothing is assumed of the antenna; `ClustersForever` speaks of one that the
  samples find turning again and again.
* `GridLOS`: weak fairness of the controller's samples. The vessel moves with
  each sample by its set point, so that nothing else need be assumed.
* `MotorClient`: weak fairness of the client, which has no other wait than
  `recv`, and of the PLC's answers, for `recv` has no timeout: a PLC that stays
  connected and silent holds the program for ever. `CommandsResume` assumes that
  start-up comes to an end, that the link stops breaking and that each connect
  succeeds.
* `Telemetry`: weak fairness of the server's thread, whose only wait without a
  timeout is the `select`. Selects may fail at any time and need not. Nothing is
  assumed of the clients.
* Environment: never fair unless a property says so in its premise. `ThreadsStart`
  assumes a fix that comes to stay and, with avoidance, that the radar unlocks;
  `OrdersArrive` assumes `LiveLinks` (both ends keep reporting, and of the lines
  tried again and again some are whole).

## 5. What is proved

For every value of the constants (all test modes, any number of orders, buffer
sizes and thresholds), checked by `tlapm`:

* `TypeCorrect` (`TypeOK`) in all seven proof modules. In `MotorClientProofs` it
  needs `TypeInv`: `recv` is called only with a request under way.
* `ReleasedInOrder` (`StartOrder`) from `ReadyChain`: every indicator that is
  `READY` has the indicators before it `READY`, back to the published toggle.
  `StartOrder` alone is not inductive: it speaks of threads, the monitor of
  indicators.
* `CapturedRoute` (`RouteCaptured`) from `CaptureInv`: with whole copies a
  release implies that all members are published, so what a gate reads is free
  of placeholders, and nobody writes course and grid afterwards.
* `TransientsDrain` (`WashedOut`) from `Reservoir`: as long as a member of the
  route is unpublished the controller's grid still derives from its placeholder,
  and as long as the planner has not started so does its next state, so that
  taking them over brings nothing new; all other steps combine what is there
  (`DataFlow`: a set that bounds every datum, and what the gates read, bounds
  every datum after the step).
* `EstimatesHaveFix` (`StateHasFix`) from `FixInv`: a receiver that had a fix
  never again publishes a position from before it, an estimator that is
  released was released after one, and, by `DataFlow`, no datum that goes round
  between the threads ever derives from before it.
* `GroundedCommands` (`CommandsGrounded`) from `FixInv`, `CaptureInv` and
  `PlannedInv`: the unplanned route is only in the two members that wait to be
  overwritten (`CapturedFlow`), the planner's course and the controller's grid,
  and their threads take the planned ones over before they use them.
* `NoWaypointSkipped` (`EveryWaypointVisited`)
  from `VisitedInOrder`: the circles entered reach up to the leg that is followed.
  For every route along the axes, every radius and speed, wherever the vessel
  starts.
* `LegsInReach` (`KeepsToLeg`), inductive as it stands, for every route and start:
  a switch happens in the circle of the new leg's first way point, the run of a
  sample adds `desired_speed` at most, and a vessel that runs at most `los_radius`
  a sample (on the vessel 0.2 m and 9.3 m) never crosses the leg it steers to.
* `LegsKept`: until `FINISHED` the error is at most the capture radius, if the
  vessel starts in the first circle and the route has `LongLegs`. The invariant
  `InLane(narrow)`: the vessel is within `narrow` of the line and not past the end
  of the leg, or it has a sample left for each unit it is off by more. Being
  `narrow` means to be unable to run past the circle unseen, so that each switch
  comes before the way point is abeam, and the late switch carries the vessel out
  by one sample from there. On the vessel (speed 2 m/s, capture radius 6.6 m)
  legs from 11 m on are long; in the run those of the closed circuit are.
* `OrdersInOrder` (`NoOldOrder`) from `OrderChain`: along operator, line, GUI
  struct, shared struct, board struct, board, orders never increase, and lines
  in a buffer are sorted.
* `TrueConfirmations` (`ConfirmationsTrue`) from `OrderChain` and `StatusChain`,
  the same chain back.
* `ImplementsRelay` (`RelaysOrders`) from both chains: a line that arrives at the
  board is an `Execute`, one that arrives at the GUI a `Confirm`, every other step
  stutters.
* `DampedLink` (`LinkIsDamped`) from `LinkLag`: the link status that is shown
  lags one line behind the count, and a line moves the count by one.
* `PictureOfOneRevolution` (`OneRevolutionPerPicture`) and `PointsClustered`
  (`NoPointsLost`) from `SweepInv`: while there are points, they are of one
  revolution, the previous azimuth is the present one, and the antenna is in the
  zone or has just passed it with the points clustered. For every zone, threshold
  and set of steps that satisfy `SweepAssumption`.
* `SilentRadar` (`NoPictureWithoutSpin`) from `SilentInv`: before the first spoke
  the previous one was not in the zone unless the present one is.
* `NoStaleReading` (`FeedbackCurrent`) from `ReadInv`: a read is only ever the
  last thing under way. It is sent by itself, and either its whole answer is
  taken or the connection is given up, so that an answer of the right length is
  the newest whatever its serial number.
* `RunsAfterReset` (`RunOnlyAfterReset`) from `StartInv`: once the reset pulse is
  sent, either it has been handled or its end is under way behind every other
  reset (`Settled`); a start-up that failed has closed its socket for good, so
  that what it goes on to send runs nothing.
* `TurnsAreShort` (`ShortTurns`) from `TurnInv`: the commands under way form a
  chain, each a `ShortTurn` from the one before, from where the thruster is (or
  from where the last command before them sends it) up to `last_position`. A
  command that is lost, or a reset that sends the thrusters home behind its back,
  breaks the chain, and `lost` records it. Nothing is assumed of the angles or of
  where the thruster stands; the long way that one correction leaves is part of
  what `ShortTurn` says (section 6).
* `NearestPosition`: for every angle asked for and every angle remembered,
  `min_position` gives the one asked for, or that a turn more or less, by a
  `ShortTurn` from the remembered one. Hence positions do not wind up: each is 0
  or within a turn of an angle that was asked for (`TypeOK`).
* `TargetsDistinct` (`NoDuplicates`): a slot that is left at the end was left
  when its turn in the outer loop came, and so was any other; the inner loop drops
  one of two that are close (`InnerLoop`).
* `CoastedOnce` (`CoastsOnce`) from `AcquiredSeen`: what is `ACQUIRED` is where a
  cluster was just detected, no faster than `max_speed`.
* `NothingOverlooked` (`PictureComplete`): with as many idle slots as detections
  each is matched (`EachIsMatched`: the rank of an unmatched detection is the rank
  of some idle slot, and ranks are unique); a target that is dropped leaves one at
  its place, or has one near it elsewhere (`StaysOrNear`, along the outer loop);
  and what is near a detection without being at one was coasted there.
* `TargetsGoOn` (`ContinuingTargetStays`) from `AcquiredSeen`: the cluster at the
  predicted place passes the gates and has no loss, any other has some.
* `NoDescriptorLeaks` (`DescriptorsOpen`), inductive with `TypeOK` as it stands.
* `FreshAnswers` (`AnswersFresh`) from `FreshInv`: a client has one connection
  that can be answered, and in a scan those not yet looked at belong to clients
  that have not got the snapshot.

The lemmas about loops (`LeftUnfolds`, `LeftShrinks`, `StaysOrNear`) and about
ranks (`RanksAreAll`) are inductions over numbers. They use a set where a
textbook uses a predicate: a set of naturals with 0 and with every successor is
`Nat` (`SetInduction`), since a set without a least member is empty (`LeastOfNat`,
from the well-foundedness of `<`).

Only model-checked: the liveness properties (`ThreadsStart`, `ClustersForever`,
`LastPictureAvoided`, `ReachesDestination`, `OrdersArrive`, `LastOrderHeld`,
`BoardLossNoticed`, `CommandsResume`, `Answered`), which need fairness. All other
properties of the passing runs are theorems.

## 6. Observations that are no runs

* Copies of the route torn after `state_toggle` can hand speed 0 and zero way
  points to planner and controller on the vessel too (`RouteCaptured` is
  therefore stated for `atomic`); the window is the length of a struct copy.
* Set point and state feed each other (`threadloop.h:671`, 746), and so do
  consecutive commands (502): the initial heading and, in simulations, speed 0 of
  the unplanned route may go round in the data for ever. Near the set heading the
  estimator turns positions and speeds by it instead of the measured one.
* In a Debug build a simulation whose controller is released before the route is
  there ends with the assertion of `set_grid_points` (finding `simspeed`); in a
  Release build it takes speed 0, and zero way points perhaps, over for good.
* Neither loop waits for the other: the planner (0.2 s) may miss
  `LEAVE_ALARM_ZONE`, which lasts one change of the spoke that the tracker (0.1 s,
  `property.json`) samples. On the vessel nothing bounds how many revolutions it
  misses.
* The planner may read the coordinates of the targets while they are assigned, or
  an assignment may come between two of its reads: `obstacles` can have `targets_x`
  of one revolution and `targets_y` of the next. TLC finds such a mixture in 14
  steps. The next `LEAVE_ALARM_ZONE` that the planner meets replaces it, and
  `LastPictureAvoided` shows that it does not stay when the antenna stops.
* Steps of the azimuth at or below 0.008 rad still move the previous azimuth and
  the previous zone flag; an edge of the zone crossed like that is not seen, and
  `NoPointsLost` fails.
* `RemoveDuplicateTargets` can leave a detected cluster without any target near
  it, with idle slots at hand. Three targets in a chain, each within `p_radius` of
  the next: the middle one drops the first, which is at the cluster, and is then
  dropped by the third, which is not near the first. On the line the middle one is
  always a target that was coasted, having been denied every cluster by its gates,
  to within `p_radius` of the cluster. `PictureComplete` and
  `ContinuingTargetStays` except exactly that (`Intruded`); without the exception
  TLC finds the hole in five revolutions of three slots.
* Targets of different size that go on as predicted may be dropped: two slots
  match one cluster, one goes as a duplicate, and the other cluster finds no
  idle slot.
* After the last way point the set point is kept, speed included
  (`trajectorytracking.h:125`): an ideal vessel sails through the destination,
  leaves the circle and is `TRACKING` again along the last leg's line.
* A route that doubles back has its speed reduced to 0 at the turn
  (`trajectorytracking.h:136`), and a vessel that passes a way point outside its
  circle never turns round; `ReachesDestination` fails without its premises.
* At most one leg is taken a sample. Of a chain of legs that are shorter than a
  sample's run the vessel gets ahead, sails out of the circles and misses the rest
  of the route; at the next turn it is off by more than the capture radius.
* When the GUI link dies, the last order stays in `guilink_RTdata` and goes on
  being sent (`LastOrderHeld` states it); nothing in the code says what should
  happen to a vessel whose operator is gone.
* A radar client that cannot be connected is not reported: the toggle is
  `READY`, and tracker, planner and controller are released (`MarineRadar.h:87`).
* The recorder polls for `LEAVE_ALARM_ZONE` like the planner
  (`threadloop.h:1196`) and misses revolutions in the same way.
* A start-up of the PLC client that fails does not connect again: it reads on a
  closed socket for ever if the last status was not 0, and otherwise ends as if
  the motors ran (`motorclient.h:110`). A failed connect dereferences a null
  pointer (`motorclient.h:718`).
* `min_position` remembers the last command, not the thruster: after a command
  that was lost, or a reset from the menu, which sends the thrusters home, the
  next turn may be longer than half a turn; `ShortTurns` excludes both (`lost`). The
  next command that the PLC handles restores the agreement.
* `min_position` corrects by one turn only. Commands for 150, -60, 100 and -170
  degrees, with nothing lost, send the thruster to 150, 300, 460 and 190: the last
  turn is one of 270 degrees where 90 would do. Positions count on as long as each
  command is near the last (to a turn beyond what is asked for, not further), and
  the way back is the long one.
* The telemetry snapshot is taken before a `select` without a timeout: the first
  answer after a pause is as old as the pause. After a failed `select`, `recv`
  waits for each client that has not asked, up to a second, and then closes its
  connection; the others wait that long. The client learns it only from its next
  `senddata`, which returns without an answer.
* `tcpclient::reconnect` loops also after it has connected; nothing calls it.
* `target_tracking_loop` passes elements 0, 1, 3, 4 and 5 of a state vector
  with five elements (`threadloop.h:261`), a speed where a heading is meant.

## 7. Not modelled

Floating-point numerics (filters, controllers, quadratic programs, trajectory
generation, geometry, the simulator) are outside what TLC can enumerate; only
their data flow is modelled. NaN and infinite angles for the motor PLC are left out
with them. This holds for the open-space planner
(`HybridAStar.h`) as well, whose containers (`stlastar.h`, `fsa.h`) are third-party
code, and which the vessel program does not start. The CRC (`crc.h`) is a pure
function of its input; `DataLinks` takes a checksum as right or wrong. Remote
control and wind sensor are line parsers like those of the modelled links and are
not started. The recorder and the file readers are pure output and input. Modules
are mapped to the lines they translate; most of the lines in `src/` are vendored. Vendored code (`eigen`, `pyclustering`, `mtsdk`, the radar SDK,
`easylogging`, `json.hpp`, `gnuplot-iostream`, `Miniball`, `jc_voronoi`,
`mosek9`, the Siemens PLC library, everything under `third_party`) and the
older example programs are left aside.

## 8. Plan

Written so far, in the order of importance: `ThreadLoop`, `SpokeSweep`,
`TargetTracking`, `DataLinks` over `OrderRelay`, `GridLOS`, `MotorClient`,
`Telemetry`, and the proofs for all of them. To come:

1. Refinements of abstract specifications for the other links: `MotorClient` as
   an exchange of single requests and answers, `Telemetry` as one that answers
   each client once a snapshot.
2. `RoutePlanning`: the way points of a coordinate system, turned once.
3. The recorder's hand-over of a revolution, as a second poller of `SpokeSweep`.
