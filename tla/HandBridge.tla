----------------------------- MODULE HandBridge -----------------------------
(***************************************************************************)
(* The Wuji hand executor (src/wuji_hand2): Zenoh callbacks write the       *)
(* session phase, the input and the safety lock under a mutex; the control  *)
(* loop takes a snapshot under it and then works, sends and measures        *)
(* outside of it; the device delivers its feedback on a thread of its own.  *)
(*                                                                         *)
(* One joint, angles in an integer unit, 0 is the open hand.  The error     *)
(* text and the measured angle, which no step depends on, are left out.     *)
(***************************************************************************)
EXTENDS Integers

CONSTANTS
  Lower, Upper,      \* lower_limits_rad, upper_limits_rad
  Angles,            \* what commands and the retargeter may ask for
  TrackingStep,      \* tracking_slew_rate_rad_s / rate_hz
  CommandStep,       \* command_slew_rate_rad_s / rate_hz
  Freshness,         \* kFreshnessNs
  InputTimeout,      \* keypoint_timeout_s
  EnableTimeout,     \* enable_timeout_s
  PhaseAt            \* the phases the coordinator publishes, by sequence

ASSUME LimitsAssumption == Lower \in Int /\ Upper \in Int /\ Lower <= 0 /\ 0 <= Upper
ASSUME StepAssumption == TrackingStep \in Nat \ {0} /\ CommandStep \in Nat \ {0}
ASSUME AnglesAssumption == Angles \subseteq Int
ASSUME TimeAssumption == Freshness \in Nat /\ InputTimeout \in Nat /\ EnableTimeout \in Nat

Phases == {"idle", "teleop", "returning", "fault"}
Sequences == DOMAIN PhaseAt

ASSUME PhaseAssumption == Sequences \subseteq Nat \ {0} /\ PhaseAt \in [Sequences -> Phases]

VARIABLES
  mode, dry,      \* the command line: "retarget" or "direct", --dry-run
  \* Written by the callbacks, under the mutex.
  session,        \* session_state_
  sessionAge,     \* time since session_state_received_ns_
  lastSession,    \* last_session_sequence_
  held,           \* have_target_ or have_direct_
  direct,         \* direct_command_
  inputAge,       \* time since input_received_ns_
  locked,         \* safety_locked_
  allowed,        \* tracking_allowed_
  stop,           \* the safety stop: "none", "latched" or "acked"
  \* The device.
  open,           \* its command channel and its feedback
  frame,          \* the age of last_position_, None before the first
  newFrame,       \* states_serial_ is not measured_serial_
  commands,       \* commands_sent_, its parity
  \* Of the control loop.
  pc,             \* where it is
  fresh,          \* which of session state and input are fresh at `current`
  tracking, desired, output,
  failed,         \* the local `locked`
  measuredAge,    \* time since measured_received_ns_; old if not measured_valid_
  running         \* time since the loop began

setup == <<mode, dry>>
inbox == <<session, sessionAge, lastSession, held, direct, inputAge>>
device == <<open, frame, newFrame, commands>>
loop == <<pc, fresh, tracking, desired, output, failed, measuredAge>>
vars == <<setup, inbox, locked, allowed, stop, device, loop, running>>

None == -1
Old(timeout) == timeout + 1  \* ages are not told apart beyond their timeout

Inside(angle) == angle \in Lower .. Upper

-----------------------------------------------------------------------------
(* Callbacks.                                                              *)

\* [mutant] the stop leaves the device open
LatchStop_DeviceOpen ==
  /\ locked' = TRUE
  /\ stop' = "latched"
  /\ UNCHANGED <<setup, inbox, allowed, device, loop, running>>

\* on_safety_stop, up to the end of its lock.
LatchStop ==
  /\ locked' = TRUE
  /\ stop' = "latched"
  /\ open' = FALSE
  /\ UNCHANGED <<setup, inbox, allowed, frame, newFrame, commands, loop, running>>

AckStop ==
  /\ stop = "latched"
  /\ stop' = "acked"
  /\ UNCHANGED <<setup, inbox, locked, allowed, device, loop, running>>

\* A time taken by a callback while the loop waits for the mutex is later than
\* the time the loop took before it asked for the mutex, and so not fresh.
ReceivedLate(what) ==
  fresh' = IF pc = "snapshot" THEN [fresh EXCEPT ![what] = FALSE] ELSE fresh

OnSessionState(q) ==
  /\ q > lastSession
  /\ session' = PhaseAt[q]
  /\ sessionAge' = 0
  /\ lastSession' = q
  /\ ReceivedLate("session")
  /\ IF PhaseAt[q] \in {"returning", "fault"}
     THEN held' = FALSE /\ allowed' = FALSE
     ELSE UNCHANGED <<held, allowed>>
  /\ UNCHANGED <<setup, direct, inputAge, locked, stop, device, pc, tracking, desired,
                 output, failed, measuredAge, running>>

\* A state that is old, not newer than the last, or not the coordinator's.
RejectSessionState ==
  /\ allowed' = FALSE
  /\ UNCHANGED <<setup, inbox, locked, stop, device, loop, running>>

TakesInput == session = "teleop" /\ sessionAge <= Freshness

\* on_target or on_command, the one subscribed to; a command is inside the limits.
OnInput(angle) ==
  /\ TakesInput
  /\ mode = "direct" => Inside(angle)
  /\ direct' = IF mode = "direct" THEN angle ELSE direct
  /\ inputAge' = 0
  /\ held' = TRUE
  /\ ReceivedLate("input")
  /\ UNCHANGED <<setup, session, sessionAge, lastSession, locked, allowed, stop, device,
                 pc, tracking, desired, output, failed, measuredAge, running>>

\* An input that is old, not newer than the last, foreign, out of the limits, or
\* not in a fresh teleop.
RejectInput ==
  /\ held' = FALSE
  /\ allowed' = FALSE
  /\ UNCHANGED <<setup, session, sessionAge, lastSession, direct, inputAge, locked,
                 stop, device, loop, running>>

\* on_joint_states.
OnJointStates ==
  /\ open /\ ~dry
  /\ frame' = 0
  /\ newFrame' = TRUE
  /\ UNCHANGED <<setup, inbox, locked, allowed, stop, open, commands, loop, running>>

-----------------------------------------------------------------------------
(* The control loop, a tick.                                               *)

\* The time the loop works with is taken before it waits for the mutex.
BeginTick ==
  /\ pc = "begin"
  /\ pc' = "snapshot"
  /\ fresh' = [session |-> sessionAge <= Freshness, input |-> inputAge <= InputTimeout]
  /\ UNCHANGED <<setup, inbox, locked, allowed, stop, device, tracking, desired, output,
                 failed, measuredAge, running>>

Tracks == ~locked /\ session = "teleop" /\ fresh.session /\ fresh.input /\ held

\* [mutant] the hand keeps what it was last told
Snapshot_Keeps ==
  /\ pc = "snapshot"
  /\ failed' = locked
  /\ tracking' = Tracks
  /\ allowed' = Tracks
  /\ held' = (held /\ ~(session = "teleop" /\ ~(fresh.session /\ fresh.input)))
  /\ desired' = IF Tracks /\ mode = "direct" THEN direct ELSE desired
  /\ pc' = IF Tracks /\ mode = "retarget" THEN "retarget" ELSE "shape"
  /\ UNCHANGED <<setup, session, sessionAge, lastSession, direct, inputAge, locked, stop,
                 device, fresh, output, measuredAge, running>>

\* Under the mutex.  In a teleop that has expired, or with an input that has, the
\* input is discarded.
Snapshot ==
  /\ pc = "snapshot"
  /\ failed' = locked
  /\ tracking' = Tracks
  /\ allowed' = Tracks
  /\ held' = (held /\ ~(session = "teleop" /\ ~(fresh.session /\ fresh.input)))
  /\ desired' = IF Tracks /\ mode = "direct" THEN direct ELSE 0
  /\ pc' = IF Tracks /\ mode = "retarget" THEN "retarget" ELSE "shape"
  /\ UNCHANGED <<setup, session, sessionAge, lastSession, direct, inputAge, locked, stop,
                 device, fresh, output, measuredAge, running>>

\* retargeter->step.
Retarget ==
  /\ pc = "retarget"
  /\ pc' = "shape"
  /\ \/ /\ desired' \in Angles
        /\ UNCHANGED <<allowed, tracking>>
     \/ /\ allowed' = FALSE
        /\ tracking' = FALSE
        /\ UNCHANGED desired
  /\ UNCHANGED <<setup, inbox, locked, stop, device, fresh, output, failed, measuredAge, running>>

Toward(angle, goal, step) ==
  IF goal > angle + step THEN angle + step
  ELSE IF goal < angle - step THEN angle - step
  ELSE goal

\* [mutant] what the retargeter answers is not compared with the limits
Shape_Unchecked ==
  /\ pc = "shape"
  /\ output' = Toward(output, desired, IF tracking THEN TrackingStep ELSE CommandStep)
  /\ pc' = IF failed THEN "publish" ELSE "send"
  /\ UNCHANGED <<setup, inbox, locked, allowed, stop, device, fresh, tracking, desired,
                 failed, measuredAge, running>>

\* The limits and the slew rate.
Shape ==
  /\ pc = "shape"
  /\ IF Inside(desired)
     THEN UNCHANGED <<desired, locked, allowed, failed>>
     ELSE desired' = 0 /\ locked' = TRUE /\ allowed' = FALSE /\ failed' = TRUE
  /\ output' = Toward(output, desired', IF tracking THEN TrackingStep ELSE CommandStep)
  /\ pc' = IF failed' THEN "publish" ELSE "send"
  /\ UNCHANGED <<setup, inbox, stop, device, fresh, tracking, measuredAge, running>>

\* WujiHand2Device::send tests publisher_ without the mutex ...
BeginSend ==
  /\ pc = "send" /\ ~dry
  /\ pc' = IF open THEN "call" ELSE "measure"
  /\ allowed' = (allowed /\ open)
  /\ UNCHANGED <<setup, inbox, locked, stop, device, fresh, tracking, desired, output,
                 failed, measuredAge, running>>

SendSucceeds ==
  /\ pc = "call" /\ open
  /\ pc' = "measure"
  /\ commands' = 1 - commands
  /\ UNCHANGED <<setup, inbox, locked, allowed, stop, open, frame, newFrame, fresh,
                 tracking, desired, output, failed, measuredAge, running>>

SendFails ==
  /\ pc = "call"
  /\ pc' = "measure"
  /\ allowed' = FALSE
  /\ UNCHANGED <<setup, inbox, locked, stop, device, fresh, tracking, desired, output,
                 failed, measuredAge, running>>

\* ... and may use it after it was closed, when anything but a command to the
\* hand may happen.
SendCrashes ==
  /\ pc = "call" /\ ~open
  /\ pc' = "done"
  /\ UNCHANGED <<setup, inbox, locked, allowed, stop, device, fresh, tracking, desired,
                 output, failed, measuredAge, running>>

\* latest_states, and what the loop makes of it under the mutex.  Before the first
\* frame the loop waits until EnableTimeout.
Measure ==
  /\ pc = "measure"
  /\ pc' = "publish"
  /\ LET age == IF newFrame THEN frame ELSE measuredAge
         overdue == frame = None /\ running > EnableTimeout
         stale == frame # None /\ age > Freshness
     IN /\ measuredAge' = IF frame = None \/ stale THEN Old(Freshness) ELSE age
        /\ allowed' = (allowed /\ frame # None /\ ~stale)
        /\ locked' = (locked \/ overdue \/ stale)
        /\ failed' = (overdue \/ stale)
        /\ open' = (open /\ ~overdue)
  /\ newFrame' = FALSE
  /\ UNCHANGED <<setup, inbox, stop, frame, commands, fresh, tracking, desired, output, running>>

\* Without a device the hand is where it was told to be (as of the begin of the tick,
\* a difference in age no step depends on).
MeasureDry ==
  /\ pc = "send" /\ dry
  /\ pc' = "publish"
  /\ measuredAge' = 0
  /\ UNCHANGED <<setup, inbox, locked, allowed, stop, device, fresh, tracking, desired,
                 output, failed, running>>

\* [mutant] the status is written back from the loop's own copy
EndTick_WritesBack ==
  /\ pc = "publish"
  /\ pc' = "begin"
  /\ allowed' = (tracking /\ ~failed)
  /\ UNCHANGED <<setup, inbox, locked, stop, device, fresh, tracking, desired, output,
                 failed, measuredAge, running>>

\* publish_command and publish_status, which change nothing here.
EndTick ==
  /\ pc = "publish"
  /\ pc' = "begin"
  /\ UNCHANGED <<setup, inbox, locked, allowed, stop, device, fresh, tracking, desired,
                 output, failed, measuredAge, running>>

\* SIGINT: the loop ends before its next tick.
Quit ==
  /\ pc = "begin"
  /\ pc' = "done"
  /\ open' = FALSE
  /\ UNCHANGED <<setup, inbox, locked, allowed, stop, frame, newFrame, commands, fresh,
                 tracking, desired, output, failed, measuredAge, running>>

\* The tracking_allowed of publish_status.
StatusTracking ==
  /\ ~locked
  /\ measuredAge <= Freshness
  /\ allowed
  /\ session = "teleop"
  /\ sessionAge <= Freshness
  /\ inputAge <= InputTimeout

-----------------------------------------------------------------------------
Older(age, timeout) == IF age <= timeout THEN age + 1 ELSE age

Elapse ==
  /\ sessionAge' = Older(sessionAge, Freshness)
  /\ inputAge' = Older(inputAge, InputTimeout)
  /\ measuredAge' = Older(measuredAge, Freshness)
  /\ frame' = IF frame = None THEN None ELSE Older(frame, Freshness)
  /\ running' = Older(running, EnableTimeout)
  /\ UNCHANGED <<setup, session, lastSession, held, direct, locked, allowed, stop, open,
                 newFrame, commands, pc, fresh, tracking, desired, output, failed>>

\* The loop has begun; callbacks may have run before.  A stop that came before the
\* device was connected found nothing to close.
Init ==
  /\ mode \in {"retarget", "direct"}
  /\ dry \in BOOLEAN
  /\ session = "idle" /\ sessionAge = Old(Freshness) /\ lastSession = 0
  /\ held = FALSE /\ direct = 0 /\ inputAge = Old(InputTimeout)
  /\ locked \in BOOLEAN /\ allowed = FALSE
  /\ stop = IF locked THEN "acked" ELSE "none"
  /\ open = ~dry /\ frame = None /\ newFrame = FALSE /\ commands = 0
  /\ pc = "begin"
  /\ fresh = [session |-> FALSE, input |-> FALSE]
  /\ tracking = FALSE /\ desired = 0 /\ output = 0 /\ failed = FALSE
  /\ measuredAge = Old(Freshness)
  /\ running = 0

Send == BeginSend \/ SendSucceeds \/ SendFails \/ SendCrashes \/ MeasureDry
Tick == BeginTick \/ Snapshot \/ Retarget \/ Shape \/ Send \/ Measure \/ EndTick

Next ==
  \/ LatchStop \/ AckStop
  \/ \E q \in Sequences : OnSessionState(q)
  \/ RejectSessionState
  \/ \E angle \in Angles : OnInput(angle)
  \/ RejectInput
  \/ OnJointStates
  \/ Tick
  \/ Quit
  \/ Elapse

Spec == Init /\ [][Next]_vars

\* The loop runs at rate_hz, and time goes on.
FairSpec == Spec /\ WF_vars(Tick) /\ WF_vars(Elapse)
=============================================================================
