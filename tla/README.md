# Tianji Teleop: formal models

TLA+ models of the teleoperation package `src/tianji_teleop`: what a session may
do to two robot arms and two robot hands while operators, input sources, IK
producers, executors and the messages between them start, stop, fall silent and
overtake each other. TLC checks the models on small instances; TLAPS proves the
central safety properties for every value of the constants.

Paths below are relative to `src/tianji_teleop/tianji_teleop/` unless they start
with `docs/` or `tests/`.

## 1. The system

A session is a handful of processes connected by a Zenoh router. Every process
runs a periodic tick on its main thread; Zenoh delivers each subscription on
threads of its own.

    source ---- arm/{side}/target ----> arm IK producer --- arm/{side}/proposal --> coordinator
      |  \----- hand/{side}/target ---> hand executor                                   |
      |                                                                                 |
      +-- session/intent ------------------------------------------------------------> |
      | <------------- session/state, at_home, return_complete ------------------------ |
    executors <------- arm command (both sides), session state ------------------------ |
      +---------------- component status, arm state, hand state and status -----------> |

| Component | State it keeps | Operations | What is hard | What makes it correct |
|---|---|---|---|---|
| **Arm command coordinator** `coordination/arm_command_coordinator.py` | session phase (idle, teleop, returning, fault), two latches, last command and last return's start per side, the last status, arm state, proposal, hand status and hand state with the time received | one callback per subscribed topic, `handle_intent`, query replies, `tick` | every input may be stale, missing, out of order or from a replaced process; the verdict of a tick depends on the order of its tests; the end of a return compares floating-point numbers | the final command is continuous, within limits and homeward outside teleop; the arm moves only on current information; a fault is final; a return ends |
| **Session client** `sources/common/session_client.py` | per router and coordinator channel baselines, the last state and the two latches, the pending start, the request baseline | callbacks of three keys, replies of a query of each key, `request_start`/`request_return`, poll timeout, reconnect | three keys and their query replies are not ordered with each other; a refusal is published like a success | a source sends targets only in a teleop it asked for; a return is taken for complete only when that return is |
| **Live mocap source** `sources/mocap/live_node.py`, `motive.py` | phase (armed, start_pending, teleop, returning, fault), deadlines, newest frame | `_tick`, keyboard | deadlines against late answers | targets in teleop only; stale input ends teleop |
| **H5 replay source** `sources/mocap/h5.py`, `h5_replay_node.py`, `sources/common/replay_clock.py` | the same session phase with approach and ready, deadman, replay clock, cached and solved target, counts of stable ticks | tick, keyboard, solved poses, raw frames | releasing Enter against ticks; counting stability over sessions | the arm stands still while Enter is up; ready is earned anew in every session |
| **Target pipeline** `sources/common/target_*.py`, `freshness.py` | references of the wrist, conditioned position and velocity per side | initialise, map, condition, publish | two limits and a cut step interact | the target comes to rest where the wrist does |
| **Operator input** `sources/common/keyboard.py` | terminal mode, pending key | key events | terminal modes | a released key is noticed |
| **Protocol** `protocol/messages.py`, `topics.py` | none | encode, decode | validation only | a message that decodes is well formed |
| **Transport and router admission** `zenoh_util.py`, `sources/common/real_admission.py`, `connection_readiness.py`, `host_readiness.py` | router id, sessions | open, probe, close | admission before motion | processes of two routers do not mix |
| **Arm IK producer** `cpp src/producers/arm_ik_producer_node.cpp`, `src/control` | last target, input errors, final command, limiter and failure window per side | `on_target`, `on_command`, `tick`, `publish_status` | rejected targets; failure counting; a limiter that leads its own state | proposals inside what was promised; failing on ends teleop; an old error does not last |
| **Official IK worker** `cpp src/ik/tianji_official`, `src/tianji_official` | child process, socket, number of restarts | forward, solve, restart | late answers, worker death between any two steps | a call gets its own answer or an error |
| **Policy producer** `producers/policy` | runner, last arm state, session state, last error, observation builder | callbacks, tick | callbacks between any two steps of a tick; healthy is said before the action is judged | a policy that is rejected does not hold a session in teleop |
| **Marvin executor** `executors/marvin/{bridge,readiness,preflight,state}.py`, `hardware_safety.py`, `marvin_hardware.py` | phase, latched soft stop, safety lock, the newest command pair, session state, hardware controller, fault return | callbacks for session state, command and safety stop, connect and shutdown, `tick` | callbacks run while the tick does, without a lock | no command reaches the arm after a safety stop was acknowledged |
| **MuJoCo executor** `executors/mujoco/node.py` | the snapshot of the coordinator, pending commands, lock, simulated joints | query, replies, callbacks, `tick` | no lock; answers, messages, a retried query and the stop race with each other and the tick | at most the tick under way moves anything after a stop |
| **Wuji hand executors** `cpp src/wuji_hand2` (C++ bridge), `executors/wuji_hand2` (Python, dry run) | newest hand target or command, tracking flag, lock, measured state | callbacks, safety stop, control loop | a stop while a command is under way; target and state arrive in any order; expiry | tracks only in an authorised teleop; silent after a stop; otherwise opens to zero |
| **Recorder** `recording/recorder.py`, `session_h5.py` | open file, failure, closed | receive, flush, close, abort | threads append while the file is closed | a file that says complete is whole |
| **Replay of recordings** `recording/replay.py`, `replay_cli.py` | phase, pending intent, wall clock, next row | start, pause, resume, return, tick | pause against the tick | a pause takes no recorded time |
| **Calibration node** `diagnostics/mocap_calibration_node.py`, `mocap_motion.py` | phase (armed, start_pending, stepping, returning), exit after return, reference, offset of the target, clock of the circle | keys s, q, c and of the axes, Enter held, `_tick` | Enter released between ticks; a wish to leave while a return is under way | the target moves only when the operator moves it; a return ends at rest |
| **Diagnostics** `diagnostics` (the others) | none that outlives a run | offline replays and reports | - | - |
| **Launchers** `scripts/common.sh`, `run_session.sh` | run guard, records of process groups | acquire guard, start in order, watch, stop in reverse | killed or interrupted between two commands | no session beside the components of another; reverse order of stopping |
| **Validation harness** `scripts/validation` | evidence of one case, outcome | launch, danger stop, judge, end, record | evidence in rows that are late or lost | a pass of a stop case is true |

Interactions: the coordinator is the only authority for the session phase. Sources
*ask* for a phase through `session/intent` and learn the answer from three keys
the coordinator publishes one after the other (`session/state`, `at_home`,
`return_complete`) and answers queries for one by one. Producers turn targets
into proposals; the coordinator turns proposals into a final command for both
arms on every tick; executors obey the final command while their own view of the
session and of the hardware allows it, and report back the states and statuses
on which the coordinator bases its readiness.

## 2. The models

| Module | Models | Extends / uses |
|---|---|---|
| `ArmCommandCoordinator` | the coordinator: every callback, both accepted intents, the tick, time | - |
| `ArmCoordinatorProperties` | its invariants, step properties, liveness, and that it implements `SessionAuthority` | the above |
| `SessionAuthority` | the abstract promise of the coordinator: phase, two latches, and whether a command is away from Home | - |
| `SessionClient` | the client of a source: cache, query replies, requests, deadlines | - |
| `LiveSource` | the live source: keys, frames, tick | `SessionClient` |
| `SessionHandshake` | source and coordinator with the messages between them | `LiveSource`, an instance of `SessionAuthority` |
| `MocapCalibration` | the calibration node: keys, circle, tick; `MCSessionHandshake` composes it with the coordinator | `SessionClient` |
| `SessionHandshakeProperties` | what a source may conclude from what it hears | the above |
| `ReplaySource` | the H5 replay source: keys, deadman, approach, clock, return | - |
| `ReplaySourceProperties` | what its operator may rely on, whatever the coordinator says and when | `ReplaySource` |
| `RecordingReplay` | the replay of a recorded session and its command line | an instance of `SessionAuthority` |
| `TargetConditioner` | from the operator's wrist to the target, for a wrist that moves along a line | - |
| `ArmIkProducer`, `ArmIkSession` | the arm IK producer with limiter and failure window; between a source and the coordinator | - |
| `ArmIkWorker` | the IK worker process and its proxy | - |
| `PolicyProducer`, `PolicySession` | the policy producer; with the coordinator's verdict on it | - |
| `MarvinSession` | the SDK session of the Marvin arms with failing calls | - |
| `MarvinExecutor`, `MarvinExecutorProperties` | the executor: main thread step by step, callbacks at any moment; its promises about stops, failures and faults | `MarvinSession` |
| `HardwareSafety`, `HardwareSafetyProperties` | the safety controller and its trajectory Home, in numbers; what it lets through to the arms | - |
| `MujocoExecutor` | the MuJoCo executor: commands, stop and tick, on their threads | - |
| `HandBridge`, `HandBridgeProperties` | the C++ executor of a hand: callbacks, control loop, device; its promises | - |
| `HandExecutor` | the Python executor of a hand, without a lock | - |
| `SessionRecorder` | the recorder: threads that append, the main thread that closes | - |
| `RunGuard`, `RunGuardProperties` | the guard and the records of the launchers; its promises, with an observer of what escapes it | - |
| `RunCase` | one case of the validation harness with a danger stop | - |
| `*_proofs` | the proofs, one module per component | the properties module, `TLAPS` |
| `MC*` | instances for TLC, restricted environments, and the components that share a run, with their settings as constants of the module | the properties modules |

The composition goes through abstractions. `ArmCommandCoordinator` is proved to
implement `SessionAuthority` (`ImplementsAuthority`, with
`away <- ~CommandsAtHome`), and `SessionHandshake` and `RecordingReplay` compose
their sources with `SessionAuthority`, so that what they show holds with the real
coordinator behind it. `ReplaySource` needs no coordinator: it hears anything, at
any time, which is more than any coordinator says. In the same way `MarvinExecutor`
leaves the decision of the safety controller open (any outcome of `Decide`), and
`HardwareSafety` shows what that decision may be, whatever the executor hears.
Of the coordinator `ArmIkSession` and `PolicySession` contain what concerns a
producer: readiness for a start and `_check_teleop_health`.

Definitions whose comment begins with `[mutant]` are plausible mistakes: each is
the body of the definition that follows it with one thing wrong. No
specification uses them; exchanging a definition for its mutant must make the
run named in `PROJECT.json` fail, which shows that the property looks at the code.

### 2.1 The coordinator

Every callback and every tick of `arm_command_coordinator.py` takes the same
re-entrant lock, so each is one atomic action.

| Action | Code |
|---|---|
| `UpdateComponent`, `UpdateArmState`, `UpdateHandExecutorStatus`, `UpdateHandState`, `UpdateProposal` | `update_component` ... `update_proposal`: identity, sequence and domain checks, then store; a violation is a fault |
| `RejectPayload` | what `_payload` and the callbacks do with a message that does not decode |
| `StartIntent`, `ReturnIntent` | the authorised branches of `handle_intent`; a refused intent changes no state of the coordinator |
| `Tick` | `tick`: `_validate_proposals`, `_check_teleop_health`, the hand return timeout, `_command` of both sides, completion and latches, in this order |
| `Elapse` | one unit of the monotonic clock |

| Variable | Code |
|---|---|
| `state`, `atHome`, `returnComplete` | `_state`, `_at_home`, `_return_complete` |
| `teleopAge`, `returnElapsed` | now minus `_teleop_started_ns`, `_return_started_ns` |
| `safe`, `returnStart` | `_last_safe`, `_return_start` |
| `statuses`, `armState`, `proposals`, `handStatus`, `handState` | the dictionaries of the last messages with the time received |

Abstractions. (1) *Time*: a stored message carries its age instead of a time
stamp; ages stop at `StateTimeout + 1`, where no comparison changes any more. (2)
*Sequence numbers* are compared only with the last one of the same publisher, so
a message says whether it is `newer`. (3) *One joint per side*: joints are
limited and clipped one by one and share the fraction of a return; the model's
joint is the one with the longest way. (4) *Floating point*: `Fl` rounds an
integer to a multiple of a unit in the last place that doubles with each power
of two above `Precision`; with `Precision` above all angles arithmetic is exact.

### 2.2 Source and handshake

`history[n]` is the session state with sequence number `n`, with both latches at
that moment; the three messages of a publication are projections of it. States
that are only raised in a callback (`_enter_fault`) get a number but are first
published by the next tick (`published = FALSE`), though a query may see them.
`Deliver` hands a key's sample to the client: with `Ordered = FALSE` each key is
FIFO with loss, and keys overtake each other; with `Ordered = TRUE` nothing is
lost and the three messages come in the order of publication. Queries are
answered once each, at any time, with any current or earlier state, since an
answer may be overtaken. `ForeignCoordinator` is a message of another router or
instance; `HandleForeignIntent` is an intent of a source without authority, which
is refused but still republished with its own number. `LoseIntent` drops an
intent. Every process counts its intents from 1, so that number may be the very one
the source waits for; field `own` of an entry, which no message carries, says whose
intent gave it its number, and a tick or a fault keeps it (`RecordAgain`).
`GoesByOwn` says that the state the source goes by is an answer to one of its own
requests.

The source's key handler tests the phase before it takes the lock; `ReturnKey`
and `ObeyReturnKey` are the two halves. Whether the inputs of a tick are good
(frame age, mapping, capability) is a choice; a deadline is the number of clock
units left.

`MocapCalibration` is a second source over the same client and the same coordinator.
`StartKey`, `ReturnKey`, `QuitKey`, `CircleKey` and `AxisKey` are the branches of
`_on_key`; `Started`, `StartRefused`, `ReturnDone`, `AdvanceCircle` and `Waiting`
those of `_tick`. `offset` is the distance of the virtual target from the frozen
reference along the axis on which the circle rises (the others have keys of their
own that work alike); its unit is a way that one tick of the circle does not exceed.
`circle` is how far the clock of the circle has got along its `Path`: up to `Top`,
round through the reference, up to `Top` again. `held` is what `HoldToRunClock`
remembers: the time since the last tick counts when Enter was held then. Whether
Enter is held now, a key comes too soon (`_S_DEBOUNCE_S`) or a frame is fresh is a
choice of the model, the last two as a key that does nothing.

### 2.3 Marvin executor

The executor has no lock. `pc` walks the main thread through `connect`
(admission, open, prepare, enable, await, move Home, settle) and through the tick
(`tick`, `branch`, `write`, `choose`, `fetch`, `check`, `gate`, `batch`, `sent`),
one step per read or write of a shared attribute that a callback can change;
`OnSessionState`, `OnArmCommand`, `StopRequest`, `StopRobot` and `StopAck` are the
callbacks and interleave at every step. Every SDK call whose failure is swallowed
may fail (`Swallowed`), up to `MaxFailures` times. A command pair is known by the
sequence of the phase it belongs to, and phase and commands are published again and
again; `MaxLag` says how many phase changes a
coordinator never makes within `command_timeout_s`.

`HardwareSafety` is the controller `decide` with its trajectory, between the
feedback check (`Read`) and the send (`Send`, `SendLocal`, `SendNothing`) of one
tick. Fractions of a trajectory are cut towards its start, which bounds the
error of an output by one unit.

### 2.4 Wuji hand executors

The C++ executor of a hand, in both modes (`retarget`, `direct`), dry and with a
device. Callbacks hold a mutex and are atomic: `OnSessionState`, `OnInput`
(`on_target` or `on_command`), their rejections, and `LatchStop`, whose
acknowledgement `AckStop` is a step of its own because it comes after the
unlock. `pc` walks the control loop through `begin` (the loop takes its time),
`snapshot` (under the mutex), `retarget`, `shape` (limits and slew rate), `send`,
`call`, `measure` and `publish`. `WujiHand2Device::send` tests its command channel
and then uses it, with no lock: `BeginSend` and `SendSucceeds`, `SendFails`,
`SendCrashes`; a channel closed in between is undefined behaviour, of which the
model takes failure and the end of the process (the hand has been disabled and
disconnected by then). `fresh` is what the loop knows at its time `current`:
something that a callback stores after that is later, hence not fresh
(`ReceivedLate`). Inputs are accepted or rejected without their sequence numbers;
session states keep theirs, `PhaseAt` being what the coordinator publishes.
After SIGINT or a crash callbacks may still run in the model; they change
nothing a property speaks of.

`HandExecutor` is the Python executor. It has no lock: `OnInput` and `AcceptInput`
are the check of the phase and the store after it, and the tick looks at its
input twice (`TickLooks`, `TickFollows`); an input withdrawn in between is an
`AttributeError` that ends the process (`pc = "dead"`).

### 2.5 From the wrist to a proposal

`TargetConditioner`: `Initialize` and `MoveWrist` are `target_mapper.py`,
`Condition` is one call of `condition`, with the soft zone of the workspace (`Soft`)
as a constant; a unit of velocity is a unit of length in one call. The code limits
the *norms* of three-dimensional vectors (`_limited_norm`). The model is the case in
which they all lie on one line, a wrist that moves along a line through its
reference; off it the directions share the two limits, and nothing shown of the
model carries over.

`ArmIkProducer`: `OnTarget`, `RejectTarget`, `OnCommand`, `RejectCommand` store under
the mutex; the status of a rejection is published after it (`Complain`), and so
is the verdict of a tick (`PublishStatus`). A tick takes one of the `Outcomes` of
each side: the solver raises, rejects, answers nonsense or solves, and the limiter
moves within its `Reach` from where it is. `ArmIkSession` lets targets be late
(`MaxLate`), and starts and ends sessions as the coordinator does.

`PolicyProducer` has one step of `pc` per look at an attribute a callback can
change; `rejected` says whether the adapter will reject the next action.

`ArmIkWorker`: `call` walks the proxy through start, handshake, send, wait and
restart, the worker is a process with a queue each way.

### 2.6 The other sources

`ReplaySource`: one lock, so keys, messages and the tick are each an action.
`Update` is `HoldToRunClock.update`; the recorded path is a line, Home at 0 and
the pose at time e at `FrameZero + e`; `Reached` is `_target_is_stable` on the target
and the solution that answers it. `Keyboard`, `Break` and `Hand` are the operator and
the capability. Of the session client there is what it knows of its pending request:
the state heard last when it carries that request's number (`answer`), and the latches
that are true and newer than the request's baseline (`latched`); `HearState` and
`HearLatch` bring any state and any latch at any time, so that keys overtake each
other, samples are lost, and other sources' numbers equal the pending one.
`RecordingReplay` has a clock that passes between ticks (`Gap`), rows
up to `End`, and `replay_cli.py` around it; an observer counts the time in a pause.

### 2.7 MuJoCo, recorder, launchers, harness

`MujocoExecutor`: the tick looks at the lock (`TickBegins`), applies the last commands
of the arms and those of the hands (`TickApplies`) and counts them (`TickEnds`);
callbacks come between any two of these. The handlers of the snapshot's answers share
`_snapshot_seen`, `_snapshot_failed` and the attempt with the query and with each
other in unlocked steps; of them the model has only what they set, `_snapshot_ready`,
which may become true or false at any time (`Snapshot`).
`SessionRecorder`: a row is appended dataset by dataset (`Append`), while the main
thread undeclares, decides, commits and closes; SIGKILL is `Kill`.
`RunGuard`: `at` walks each launcher through its commands, and it may be killed
(`Killed`) or get a signal (`Exit`) at each; its components live on. The observer
`escaped` collects the process groups that two windows of the code let out of
every record (see 6). `RunCase`: a tick of an executor looks at its lock, sends and counts
(`LookAtLock`, `Command`, `Count`), the stop locks and acknowledges (`TakeStop`,
`Acknowledge`), and a row of its status may be captured between any two of these steps
or be lost; the harness sees rows and acknowledgements only. `Showing` are the
executors whose rows carry `safety_locked`.

## 3. What is checked

| Run | Instance | Shows |
|---|---|---|
| `arm_commands` | both sides, one active; two authorised instances of the arm producer and none for a third role; limits [1, 4], Home 2, proposals inside and outside; about 790 000 states | final commands within limits, steps bounded in teleop, homeward and no faster than allowed outside it, a session that starts afresh (no proposal of an earlier one in use, a silent side at Home), and the refinement of `SessionAuthority` |
| `arm_progress` | one arm with a hand, tick and clock fair; about 180 000 states | teleop moves on fresh inputs only, teleop ends when a component stays silent, a hand that never reports zero turns the return into a fault |
| `handshake` | a startup, unordered and lossy, with three sequence numbers and one request; and ordered sessions with two requests and foreign intents whose number equals that of the second, of the live source with five sequence numbers and of the calibration node with four; about 1.9 million states | memory is monotone whatever races with the query replies; no start before the three snapshots fit together; teleop only after the very request was handled, in a session of its own; a source that is armed again, or a calibration node that leaves after its return, finds the arms at rest if it goes by an answer to its own request; a calibration target moves only when its operator moves it |
| `marvin_stop` | three phases, two failures; about 2.2 million states | at most one batch after a stop, arms left enabled only if two SDK calls failed, no teleop command in a known fault |
| `hands` | the bridge: limits [0, 2], a retargeter that also answers beyond them, a session and its end, repeated and lost states; the Python executor: one step to either side of zero; about 730 000 states | commands inside the limits, a status that tracks only a held input, silence after an acknowledged stop, a bridge that opens when the coordinator falls silent, and a Python executor that comes to zero |
| `producers` | a wrist within 8, a workspace of 6, speed 4, acceleration 1; one arm with limits [0, 3]; a policy; about 200 000 states | the target settling; proposals inside; a solver or a policy that goes on failing ends teleop |
| `surroundings` | nine parts, each small: joints of range 2 and 1 and a way Home of 16, arms and hands of MuJoCo, a recording of two ticks, three questions to a worker, two launchers with three components, an executor in a stop case with two batches, two groups of two datasets; about 880 000 states | steps bounded, no way Home that turns back or is too fast; the promises of each part named in 1 |
| `arm_rounding` (finding) | one arm, angles up to 8 with a precision of 4 | `ReturnTerminates` fails: see 6 |
| `handshake_latch` (finding) | ordered, three requests | `ReturnGenuine` fails: see 6 |
| `marvin_ack` (finding) | no failures | `NoMotionAfterAck` fails: see 6 |
| `hand_expiry` (finding) | as `hands` | `ExpiredIsOld` fails: see 6 |
| `ik_recovers` (finding) | the arm IK producer in its session, one late target | `ProducerRecovers` fails: see 6 |

Components that share a run (`hands`, `producers`, `surroundings`) do not meet in it:
the variable `part` says which one is at work in a behaviour, the others stay at
their initial states, and the reachable states are the sum, not the product, of
theirs. Each property speaks of one part.

**Bounds, and why they are enough.** *Ages* need no more than timeout + 1 values. A
`StateTimeout` of 0 is a timeout shorter than the unit by which the model lets time
pass: a message is fresh until the first `Elapse` after it; every order of arrivals,
ticks and expiries remains, which is what the code can tell apart. The assumption
`BoundAssumption` makes `MaxElapsed` long enough for every way Home. *Angles*: with
limits [1, 4], Home 2 and steps of 1 there are commands on both sides of Home, at
both limits, more than one step away and beyond reach. *Two sides* show what active
and inactive sides do to each other; sides share nothing else. *Three instances* are
needed to have a replacement and a stranger. *Sequences*: five are a whole session
(start, return, complete) and a second request; six and three requests are a second
return, which the failure in `handshake_latch` needs; the calibration node gets
four, a session and its return, for every request of its second session meets the
same client. *Circle*: with a top of 2 the path has a way up, a turn, the reference,
a second turn and an end; a key step of 2 can leave the reference on either side and
come back to it. *Phases*: three are enough for a command pair of one phase to meet
the state of the next and for either to be overtaken. *Failures*: two is the number
`FailsSafe` speaks of. *Hands*: goals of 0, 2 and 3 with limits [0, 2] and steps of
2 and 1 give goals at both limits and beyond them, one slewed tick and two; timeouts
of 0 or 1 unit tell fresh from old; two published phases are a session and its end,
each of which may be lost or repeated. *Targets*: a workspace of 6 is as wide as the
braking way of speed 4, its greatest, so that the target can come to its goal at
full speed and pass it. *Foreign intents*: with requests 1 and 2 a foreign 2 may come
before, while and after the source waits for its own; the startup has none, as its
one request needs. *IK*: limits [0, 3] with steps
of 1 have an inside and two edges the limiter can pass; a grace of 1 tells the first
failure from the last. *Replay*: two stable ticks can be miscounted, two recorded
ticks can be cut short. *Worker*: three questions and one restart let a late answer
meet the next question and the one after. *Guard*: two launchers, one of which finds
what the other left; three components have an order and a middle. *Harness*: one
executor, whose lock, rows, acknowledgement and two batches come in any order; what
executors do to each other is nothing but a conjunction over them, and the theorem is
about any number. *Recorder*: two
groups of two datasets can be cut between datasets and between groups, three rows
have a last one and one before it.

`TidySpec` leaves out messages that come out of order or out of time, each of which
is the same step as `RejectPayload`; the set of reachable states is the same. Of a
hand executor it keeps three reports (at zero, tracking, neither): an unhealthy one
passes no more tests of the coordinator than "neither", and one that is at zero and
tracks no others than one that tracks. `CalmSpec` lets components and arm report
good news only (they may still fall silent). `ConnectedInit` starts after a startup
that the first scenario of `handshake` explores. In that scenario a client that has
heard of another coordinator hears nothing more (`StartupNext`): it asks for no start,
and that its memory stays in order is left to the proof. `ReturningNext` of `MCSurroundings`
is a long way Home of arms that follow, with ticks and frames in time.

`CHECK_DEADLOCK FALSE` is set where the program may end: the executors' processes
after `closed`, `done` and `dead`, the controller after its latched soft stop, the
sources after a quit, launchers, harness and recorder when they are done.

**Fairness.** `start()` of the coordinator and `run()` of the executors and producers
tick on a fixed period for ever, each tick finishing without waiting for a message:
weak fairness of the steps of a tick (of the bridge's loop too, whose calls of the
device return). Time passes: weak fairness of `Elapse` and the other clocks. A
callback that has begun ends (`AcceptInput`). The source calls the conditioner in
every tick (`Condition`). Strong fairness of `LoseProducer`: the coordinator ticks
while the producer's status goes from unhealthy to healthy and back; one of its
ticks falls between. It stands for two clocks that do not keep step, and without
it a solver that fails in every other tick could hide from every tick of the
coordinator. `ArmIkSession!FairSpec` adds that messages between source, producer
and coordinator are delivered (`SourceHears`, `CoordinatorCommands`, `Complain`): a
finding must not rest on their loss. Nothing is assumed of operators, sources,
policies or the network otherwise.

## 4. What is proved

For every value of the constants that satisfies the named assumptions. They say
that limits contain Home, that authorities are sets of instances, that settings
have the signs the configuration loaders insist on, and that the bounds of the
model are large enough. TLC evaluates all of them in the runs.

**Coordinator** (`ArmCoordinator_proofs`): all six properties of `arm_commands`, and
`TeleopMovesOnFreshInputs`. `SafeWithinLimits` and the rest are not inductive one by
one: that a silent side is at Home needs that a start happens with both commands at
Home, which needs that idle is reached only there, which needs that the latches are
truthful. `CommandInv` is their conjunction with the type invariant and
`InactiveStartAtHome`. The proof splits `Next` into the steps that store a message,
faults, returns, starts, the clock and the tick (`StepKinds`); only the tick moves
commands, and `TickCommands` says what it makes of them. `CommandsInvariant` is
`Spec => []CommandInv`; `SessionsStartAfresh` is a part of it. With it a side
without a fresh proposal does not move in teleop (`SilentSides`), and a tick that
stays in teleop has found every component in order (`TeleopTick`):
`TeleopMovesOnCurrentInputs`. From `CommandInv` and `InterpolateBetween` (a point of
the way lies between its ends), with `ExactArithmetic` (no angle in use is rounded), follow
`CommandsWithinLimits` and `TeleopStepsBounded`; `FaultsAreFinal` needs neither.

The three results on returns need more: the command of a return is the
interpolation *of this tick*, so a step compares two quotients with the same
divisor. `OnWay` says that in returning and fault every command is the point of its
way at the elapsed time of some earlier tick, with the clock of the return not
before it; `OnWayInvariant` is `Spec => []OnWay` under `ExactArithmetic`.
`DivMonotone` (a quotient grows with its numerator), `QuotientWithin` and
`QuotientNearer` carry it to positions: a later point of a way is nearer to Home
(`WayNearer`) and no further from the start than the speed allows (`WaySlow`,
`QuotientSlow`). `ReturnsGoHome` and `ReturnsAreSlow` follow; and so does
`AuthorityImplemented`, the refinement: the one thing `SessionAuthority` forbids that
is not visible in a guard is a command that leaves Home outside teleop.

**Handshake** (`SessionHandshake_proofs`). `HandshakeInv` ties what the client
remembers to `history`: every cached message is the message of its sequence
number (`CacheGenuine`), the replies were at most what is known now
(`SnapshotFits`) and the pending request is the last. `ClientInvStep` treats a
message of either origin once. `MemoryMonotone`, `TeleopGranted` and
`StartBehindSnapshot` are action properties under it. They hold for unordered,
lossy delivery and any number of requests. `TeleopGranted` needs more: a teleop entry
of the history that carries a number of the source belongs to a session that an
accepted start of the source began (`OwnSession`).

`ReturnsAtRest` (`OrderlyArmedAtRest`) is about ordered delivery, for the live
source and the calibration node alike. Its invariant, `OrderlyInv`, says what the
latch of a complete return is worth: the history mirrors the coordinator
(`Mirrored`), a return that was published complete rests while nothing is published
after it (`Rested`), the client knows of each key the last message delivered and has
missed nothing between the latch and the state (`InOrder`), requests wait in the
order they were made (`Queued`), the awaited return is the last of them
(`ReturnLast`), and a complete return next to the state that took the request says
that the arms are at rest, be it this return or the one before (`Returned`). Steps
are of three kinds: a source asks, the coordinator acts, a message is delivered.
`TargetIsOperated` (`OperatorMovesTarget`) rests on `CalibrationInv`: the target of
a loaded circle is on its path, no unit of which moves it by more than one
(`PathStep`).

**Hardware safety** (`HardwareSafety_proofs`). `SafetyInv` with the type
invariant is inductive: an output is a limited step, a lead over the feedback or
a sample of a way Home, and each lies between positions that are inside
(`PartOf`, `TowardBetween`, `SampleInside`, `FollowInside`). `StepBounded` is
proved step by step from it. `ReturnsAreSlow` is about the trajectory alone: two samples
of a way Home that are one period apart (`SampleStep`) differ by no more than the return
speed, because fractions are cut towards the start. `ReturnsGoHome` (`Homeward`) needs
that between two ticks the output is a point of the way that the time has not left
behind (`OnWay`): a later point is nearer to Home (`WayForward`, `SampleForward`), a tick
that hears of a start goes on with the way, and none but a rearming one ends it.

**Marvin executor** (`MarvinExecutor_proofs`): the three properties of
`marvin_stop`. Each proof goes through the steps of the main thread and the
callbacks one by one. `StopsSilence` needs that an accepted request has locked the
executor (`LockInv`) and that the main thread, once it has sent one batch after it,
has no way to another (`LateInv`). `FailuresAreSafe` needs when the robot may be
enabled at all (`AsleepInv`), what is connected (`ConnectedInv`), and that the
executor stops its session by itself only where the robot stops with it
(`OwnStopInv`); it holds for every number of failures. `FaultsGoHome` relates what
the coordinator has published to what the executor has seen and what it carries from
one step of a tick to the next (`KnownInv`, `HomewardInv`). Its hypothesis
`MaxLag <= 3` says that the coordinator does not make three changes of phase while a
command stays fresh (`command_timeout_s`, 0.15 s): else a pair of one return could
still be fresh after that return has ended, the operator has started a new session
and that session has met its fault. It holds for every number of phases.

**Hand bridge** (`HandBridge_proofs`). `Inv` ties what callbacks and loop share:
the output is inside (`OutputInside`, by `TowardInside`), tracking is allowed only
for a held input (`AllowedIsHeld`), and after a stop either the device is closed or
the loop has been locked since it began (`StoppedIsSilent`, which a stop that came
before the device was connected makes necessary). `CommandsInside`,
`StatusIsHeld` and `AckMeansSilence` follow. `LimitsAssumption` says that the open
hand, 0, is inside the limits: an output starts there.

**Producers** (`Producers_proofs`). `ProposalsStayInside`, for every number of arms:
the command a hold repeats is inside the limits, the limiter within what it
tolerates, and so is a proposal (`IkInv`), whatever the solver answers.

**Surroundings** (`Surroundings_proofs`). The parts of `MCSurroundings` stand side
by side, each an instance with its own variables and constants; a theorem about a
part says that it holds in `SurroundingsSpec`, for every value of that part's
constants, and its proof first leaves the others behind (`WorkerMoves` and the
like). `AnswersAreOwn`: at most one request or its answer is under way, and it is
that of the call that waits (`OneUnderWay`). `CompleteAreWhole`: the row under way
has filled the datasets before the next one (`InStep`), and a file says complete
only when nobody appends any more (`RowsInv`). `EvidenceHolds`: a counter is never more than one batch behind
(`CountedInv`), rows are never ahead of it and are compared with counters from before the
stop (`CaseInv`), and from an acknowledged stop on at most the batch of the tick under
way goes out (`Final`). `MujocoHasStopped`: a tick that begins after the stop does not
get past its lock. `PausesTakeNoTime`: what was
played and what the next tick would play are both covered by the time spent
replaying (`Timely`). `EnterIsHeld` and `ReadyWasEarned`, on the replay source: no more
drift than the interval of a release (`HoldInv`), and a solution not yet counted for
each tick that may count one (`EarnInv`).
`FleetsAreOne` and `StopsAreInReverse`: one launcher at a time works at the guard,
by the lock or as its owner (`TakenInv`); what lives and has not escaped is on
record, and a clean-up has it still to stop or could not (`RecordInv`); records are
in the order of launch and a clean-up's list of failures is in the reverse of it
(`OrderedInv`). For every number of launchers and components. `FarReturnsAreSlow`:
the long way Home, for every limit, step and duration.

**Only model-checked.** Liveness, which is beyond the prover:
`TeleopEndsWithoutInputs`, `HandReturnTerminates`, `Opens`, `HandComesToZero`,
`Settles`, `FailureEndsTeleop` and `RejectionEndsTeleop`. Every safety invariant and
every action property of a passing run is proved. What the runs `arm_rounding`,
`handshake_latch`, `marvin_ack`, `hand_expiry` and `ik_recovers` refute cannot be.
`arm_rounding` is also why some theorems about the coordinator assume
`ExactArithmetic`: where angles are rounded a command may pass a limit or a step by
a unit in the last place.

## 5. What is not modelled

In the parts above: `reconnect` and `wait_for_state` of the client, which no node
calls; `request_shutdown` and `close`; the mapping of frames to targets beyond the
wrist's position, previews and recorded hand joints; the layout of SDK calls; the
parsing of feedback and messages (a message is well formed or rejected);
rotations, ratios and poses; connecting, measuring and `at_zero` of the hand bridge,
whose delay is a property of the device; `rebind_authority` of the Python hand,
which nothing calls; the preflight of launchers over the tokens of other profiles;
manifests, attestations and metrics of the harness.

Left out whole: the IK solvers, physics and viewers (real arithmetic in
libraries); terminal and evdev input; the pre-flight of the Marvin arms, router
admission and the validation of single fields in `protocol/messages.py` (one shot or
stateless: their verdicts are choices of the models); the diagnostics other than the
calibration node, which run outside a session. Of `protocol/messages.py` there are the
messages themselves, as records of what their receivers look at, not the checks of their
fields. Of the calibration node, its window, its display and its poses are left out.

What could follow: an abstract executor that moves only on commands of the
current phase, implemented by Marvin, Wuji and MuJoCo; the preflight over two profiles.

## 6. Findings

1. `arm_rounding`: **a return may never end.** The last interpolated command is
   `x + 1.0 * (y - x)` (`arm_command_coordinator.py:737`) and is compared with Home
   for equality (line 774). For a start more than about 1 rad from Home the sum is
   often one unit in the last place off; every later tick computes the same value,
   and the session stays in returning. For the left arm's first joint, start
   1.9810854002810334 and Home 0.9599310886 give 0.9599310885999999.
2. `handshake_latch`: **a return may be taken for complete before it has begun.**
   `return_completion_fresh` compares the latches with what was seen when the
   return was requested, not with the state that accepted it. Latches (true, true)
   that the coordinator published in idle, and that arrive after the request,
   complete the new return as soon as its state arrives.
3. `marvin_ack`: **an acknowledged stop does not hold while the executor
   connects.** `soft_stop_once` does nothing before the session is connected
   (`marvin_hardware.py:446`), and `connect_and_prepare` forgets a stop (line 192);
   `connect` then moves the arms Home.
4. `hand_expiry`: **an input that has just arrived is discarded as expired.** The
   control loop of the hand takes its time before it waits for the mutex
   (`wuji_hand2_bridge_node.cpp:561`), and what a callback stores meanwhile is later
   than that. For feedback the same file takes the time afterwards and says why
   (lines 652-654).
5. `ik_recovers`: **a late target can end all later sessions.** A target that arrives
   more than its freshness late, or malformed, latches an error that only the next
   valid target clears (`arm_ik_producer_node.cpp:405`, 400). Sources send targets in
   teleop only, and a start needs a healthy producer: if it was the last target of
   a session, no session can start until the producer is restarted.

Observed while modelling, without a run of their own.

*Marvin.* `on_safety_stop` does not acknowledge when the executor has stopped by itself
before (`bridge.py:271`, against `docs/validation/05_fault_recovery.md:24`); in a fault
the local safety controller's own way Home can be sent in place of the coordinator's
commands (`bridge.py:450`, against the comment at line 422); a step Home that starts
within the padding but beyond the limits stops the arms (`bridge.py:525`).
*Coordinator.* The exemption of a starting session from the check of stale proposals is
never used, because a proposal older than the start has been discarded;
`proposal_timeout_s` is read and not used; without a hand a return has no deadline.
*Hand bridge.* A hand locked by stale feedback or by its limits stays enabled at its
last command (`wuji_hand2_bridge_node.cpp:611`, 671); a stop that comes before the
device is connected leaves it enabled (line 399); when sends fail for a while the
slewed output runs ahead and the next command that succeeds is more than one step
(line 625).
*Python hand.* `ProtocolEnvelope` is not imported, so a stop is never acknowledged
(`executors/wuji_hand2/node.py:380`); an input withdrawn between the two looks of a
tick ends the process; one late joint command or an expired state makes it unhealthy
for good, since nothing calls `rebind_authority`; an input accepted before a return
is stored after it.
*H5 source.* It does not follow the coordinator out of teleop by itself; after the
deadline of a return only quitting leaves its fault, and quitting with a coordinator
that has gone never ends; the first start after an error is refused because
`_last_error` stays; releasing Enter lets the target move one more unit.
*Calibration node.* Its return has no deadline: a request that is lost or refused
leaves it in returning, where q only notes the wish to leave. q in start_pending
leaves at once, although the start may still be granted. The debounce of s counts
from the request (`_phase_started`), not from the beginning of stepping as the
comment at `diagnostics/mocap_calibration_node.py:72` says.
*Session client.* An intent of another source that carries the number the source waits
for is refused by `arm_command_coordinator.py:626`-632, yet republishes the phase with
that number, which the client takes for the answer to its own request. So a source can
take over the teleop of a session before, and, with samples in order, be armed again
while the arms still move (`docs/validation/05_fault_recovery.md:11` expects a bounded
Home before `return_complete`). Both need an intent without authority on the wire;
`TeleopWasGranted` and `OrderlyArmedAtRest` exempt this case (`GoesByOwn`), and without
the exemption TLC finds it.
*Target conditioner.* A step as long as what is left replaces it even when it points the
other way, and then the limit of acceleration is not kept (line 202). The target passes
the bound of the workspace, though the class says that it approaches the bound
asymptotically (`sources/common/target_conditioner.py:111`): even on a line by its way
of braking, and by more when the goal moves sideways at full speed, since braking and
turning share the limit of acceleration.
*IK producer.* The verdict is published after the mutex is released, so a stale
"healthy" may follow a rejection for one tick.
*Policy.* Each tick says healthy before the action is judged; it publishes proposals
outside teleop too.
*MuJoCo.* The handlers of the snapshot look and write in separate steps without a lock.
A handler that has found the answers complete and good (`executors/mujoco/node.py:516`)
may set ready after another has refused an answer; an error that answers an old
attempt, past its look at the attempt (466) when the query asks again (523-529), counts
as an answer of the new one: ready without a good answer to each question. A message
stored between `current` being read and the answer being stored is rolled back,
although the comment at lines 493-495 says it must never be. A reply that overtakes an
older sample of its key makes the sample a rollback, and the executor unhealthy for good.
A tick past its check of the lock still applies after the acknowledgement; the executor
goes on moving while unhealthy.
*Recording replay.* After a complete run the command line never ends by itself; a start
dropped while the coordinator returns says armed with the arms still moving; a delayed
tick skips rows.
*Recorder.* A row cut short by the closing of the file stays in a file that says
complete, and the reader then refuses it; the process still ends with status 0.
*Launchers.* A signal between `setsid` and the registration
(`run_session.sh:414`-422), or a kill between emptying and rewriting the records
(`common.sh:176`), lets a process group out of every record; the guard is one per
profile, and the check for other profiles' components comes before the own ones are
alive (`run_session.sh:350`), so two launchers may both find the domain free.
*Harness.* It kills a launcher after 5 s, which may be in the middle of its clean-up; a
session ended for its duration has status 130 and cannot pass; a danger stop asked for
before all executors are ready is never published. The comment at `run_case.py:1196`-1197
says the counters "prove no motion"; they are captured in rows, and a batch that a tick
past its look at the lock sends after the acknowledged stop is in none of them, so that
complete evidence leaves room for one batch (`EvidenceIsTrue` says one and no more). The
rows of a hand executor carry neither `safety_locked` nor, beside each other, the fields
`_locked` looks for instead (`run_case.py:1179`-1185 against
`executors/wuji_hand2/node.py:484`-489 and `wuji_hand2_bridge_node.cpp:490`), so the
lockout of a session with a hand is never found, and `analyze_runs.py` refuses its pass.

## 7. Running

    tlc -workers 2 -config arm_commands.cfg MCArmCoordinator.tla
    tlapm ArmCoordinator_proofs.tla

`PROJECT.json` lists every run with its module, every property with a mutant that
violates it, the source lines of every definition, the hazards of the code with
the properties aimed at them, and the theorems.
