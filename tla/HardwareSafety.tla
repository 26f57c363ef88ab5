--------------------------- MODULE HardwareSafety ---------------------------
(***************************************************************************)
(* The hardware safety controller (hardware_safety.py) with the return     *)
(* trajectory it owns (home_trajectory.py), driven by the ticks of the     *)
(* Marvin executor (executors/marvin/bridge.py): a tick reads the feedback *)
(* and checks it, and then sends commands, or none.                        *)
(*                                                                         *)
(* One joint per arm, angles in an integer unit, times in units of the     *)
(* clock.  Fractions are cut towards the start of a movement.              *)
(***************************************************************************)
EXTENDS Integers

CONSTANTS
  Lower, Upper, Home,  \* per side: limits and safe position of the joint
  Padding,             \* feedback_hard_limit_padding_deg
  MaxStep,             \* maximum_output_step_deg
  MaxTracking,         \* maximum_tracking_error_deg
  ReturnSpeed,         \* return_max_speed_deg_s
  MinDuration,         \* return_minimum_duration_s
  LocalStep,           \* return_max_speed_deg_s / rate_hz
  HomeTolerance,       \* home_tolerance_deg
  StateTimeout,        \* state_timeout_s
  FeedbackTimeout,     \* feedback_timeout_s
  MaxAge,              \* bound on the age of a return trajectory
  Positions,           \* per side: what the feedback and the commands may be
  None                 \* no trajectory

Sides == {"left", "right"}

ASSUME LimitsAssumption ==
  /\ Lower \in [Sides -> Int] /\ Upper \in [Sides -> Int] /\ Home \in [Sides -> Int]
  /\ \A s \in Sides : Lower[s] <= Home[s] /\ Home[s] <= Upper[s]
  /\ Padding \in Nat
  /\ Positions \in [Sides -> SUBSET Int]

ASSUME SettingsAssumption ==
  /\ MaxStep \in Nat \ {0} /\ MaxTracking \in Nat /\ MaxTracking > MaxStep
  /\ ReturnSpeed \in Nat \ {0} /\ MinDuration \in Nat \ {0}
  /\ LocalStep \in Nat /\ HomeTolerance \in Nat \ {0}
  /\ StateTimeout \in Nat /\ FeedbackTimeout \in Nat /\ MaxAge \in Nat

VARIABLES
  lastOutput,   \* _last_output, and the bridge's _last_output_deg
  begun,        \* the latter is not None
  feedback,     \* _feedback, the joints
  frameAge,     \* per side, time since _feedback_frame_advanced_at
  teleopState,  \* _teleop_state; "none" until the coordinator was heard
  stateAge,     \* time since it was heard
  trajectory,   \* _return_trajectory
  stopped,      \* _soft_stop_latched, or _safety_locked of the bridge
  checked,      \* this tick has read its feedback and found nothing wrong
  action        \* the last decision

clock == <<frameAge, stateAge>>
vars == <<lastOutput, begun, feedback, clock, teleopState, trajectory, stopped, checked, action>>

Joints == [Sides -> Int]
Readings ==
  {joints \in [Sides -> Positions["left"] \cup Positions["right"]] :
     \A s \in Sides : joints[s] \in Positions[s]}
Trajectory == [start : Joints, age : Nat]

ASSUME NoneAssumption == None \notin Trajectory

Abs(n) == IF n < 0 THEN -n ELSE n
Least(m, n) == IF m < n THEN m ELSE n
Most(m, n) == IF m < n THEN n ELSE m
Clip(n, low, high) == Most(low, Least(n, high))

Near(x, y, tolerance) == \A s \in Sides : Abs(x[s] - y[s]) <= tolerance
Distance(x, y) == Most(Abs(x["left"] - y["left"]), Abs(x["right"] - y["right"]))

\* The part num / den of the way from m to n.
Toward(m, n, num, den) ==
  IF n >= m THEN m + ((n - m) * num) \div den ELSE m - ((m - n) * num) \div den

Padded(x) == \A s \in Sides : x[s] \in Lower[s] - Padding .. Upper[s] + Padding
InLimits(x) == \A s \in Sides : x[s] \in Lower[s] .. Upper[s]

-----------------------------------------------------------------------------
(* HomeTrajectory: smoothstep with a peak speed of ReturnSpeed.  Progress   *)
(* is Done / Whole.                                                         *)

\* [mutant] the peak of a smoothstep is taken for its mean
Whole_MeanSpeed(start) == Most(2 * ReturnSpeed * MinDuration, 2 * Distance(Home, start))

\* The peak of a smoothstep is 3/2 of its mean speed.
Whole(start) == Most(2 * ReturnSpeed * MinDuration, 3 * Distance(Home, start))

Done(start, age) == Least(2 * ReturnSpeed * age, Whole(start))

Complete(t) == Done(t.start, t.age) = Whole(t.start)

\* With p of q done, the blend is p * p * (3 - 2 * p / q) / (q * q).
Sample(t) ==
  LET p == Done(t.start, t.age)
      q == Whole(t.start)
  IN [s \in Sides |-> Toward(t.start[s], Home[s], p * p * (3 * q - 2 * p), q * q * q)]

-----------------------------------------------------------------------------
(* What the controller finds wrong.                                        *)

FrameStale(ages) == \E s \in Sides : ages[s] > FeedbackTimeout

\* _command_unavailable_reason.  The bridge hands over both commands with the
\* decision, so they are never missing, old or apart.
CommandUnavailable(target) ==
  \/ teleopState # "none" /\ stateAge > StateTimeout
  \/ teleopState = "idle" /\ ~Near(target, Home, HomeTolerance)

\* _can_rearm_at_home.
CanRearm(target) ==
  /\ teleopState = "idle"
  /\ Complete(trajectory)
  /\ Near(target, Home, HomeTolerance)
  /\ Near(feedback, Home, HomeTolerance)

SoftStop ==
  /\ stopped' = TRUE
  /\ action' = "soft_stop"
  /\ UNCHANGED <<lastOutput, trajectory>>

-----------------------------------------------------------------------------
(* decide.                                                                 *)

\* [mutant] the step is taken from the feedback
Limited_FromFeedback(target) ==
  LET delta == Distance(target, feedback)
  IN IF delta <= MaxStep
     THEN target
     ELSE [s \in Sides |-> Toward(feedback[s], target[s], MaxStep, delta)]

\* All joints slow down by the same factor, so that none steps further than
\* MaxStep.
Limited(target) ==
  LET delta == Distance(target, lastOutput)
  IN IF delta <= MaxStep
     THEN target
     ELSE [s \in Sides |-> Toward(lastOutput[s], target[s], MaxStep, delta)]

\* The output leads the feedback by no more than the tracking error allows the
\* next step.
Lead == MaxTracking - MaxStep
Led(output) == [s \in Sides |-> Clip(output[s], feedback[s] - Lead, feedback[s] + Lead)]

Follow(target) ==
  /\ lastOutput' = Led(Limited([s \in Sides |-> Clip(target[s], Lower[s], Upper[s])]))
  /\ action' = "send"
  /\ UNCHANGED <<trajectory, stopped>>

RearmAtHome ==
  /\ trajectory' = None
  /\ lastOutput' = Home
  /\ action' = "hold_home"
  /\ UNCHANGED stopped

\* _return_home, from where the arms are when it begins.
ReturnHome ==
  /\ trajectory' = IF trajectory = None THEN [start |-> feedback, age |-> 0] ELSE trajectory
  /\ lastOutput' = Sample(trajectory')
  /\ action' = IF Complete(trajectory') THEN "hold_home" ELSE "return_home"
  /\ UNCHANGED stopped

\* [mutant] a way Home is given up as soon as commands may be followed
Decide_Unlatched(target) ==
  IF FrameStale(frameAge) \/ ~Near(lastOutput, feedback, MaxTracking)
  THEN SoftStop
  ELSE IF CommandUnavailable(target)
  THEN ReturnHome
  ELSE IF trajectory = None \/ ~CanRearm(target)
  THEN Follow(target)
  ELSE RearmAtHome

Decide(target) ==
  IF FrameStale(frameAge) \/ ~Near(lastOutput, feedback, MaxTracking)
  THEN SoftStop
  ELSE IF CommandUnavailable(target)
  THEN ReturnHome
  ELSE IF trajectory = None
  THEN Follow(target)
  ELSE IF CanRearm(target)
  THEN RearmAtHome
  ELSE ReturnHome

-----------------------------------------------------------------------------
(* The ticks of the executor.                                              *)

\* read_feedback and _check_feedback: joints, whether the frame of each arm is
\* a new one, and whether the arms report neither errors nor a wrong state.  The
\* first tick takes the position of the arms for its last output.
Read(joints, advanced, healthy) ==
  /\ ~stopped /\ ~checked
  /\ feedback' = joints
  /\ frameAge' = [s \in Sides |-> IF advanced[s] \/ ~begun THEN 0 ELSE frameAge[s]]
  /\ lastOutput' = IF begun THEN lastOutput ELSE joints
  /\ begun' = TRUE
  /\ IF /\ healthy
        /\ Padded(joints)
        /\ Near(lastOutput', joints, MaxTracking)
        /\ ~FrameStale(frameAge')
     THEN checked' = TRUE /\ action' = "none" /\ UNCHANGED stopped
     ELSE stopped' = TRUE /\ action' = "soft_stop" /\ UNCHANGED checked
  /\ UNCHANGED <<teleopState, stateAge, trajectory>>

\* _send_commands.
Send(target) ==
  /\ checked
  /\ checked' = FALSE
  /\ IF InLimits(target) THEN Decide(target) ELSE SoftStop
  /\ UNCHANGED <<begun, feedback, clock, teleopState>>

\* _controlled_return without the coordinator: one step from where the arms are.
LocalTarget ==
  [s \in Sides |-> feedback[s] + Clip(Home[s] - feedback[s], -LocalStep, LocalStep)]

SendLocal == Send(LocalTarget)

\* A tick that sends nothing: a fault without fresh returning commands.
SendNothing ==
  /\ checked
  /\ checked' = FALSE
  /\ UNCHANGED <<lastOutput, begun, feedback, clock, teleopState, trajectory, stopped, action>>

\* What the controller is told of the coordinator's phase: a fault is returning.
TeleopPhase(s) == IF s = "fault" THEN "returning" ELSE s

\* A phase of the coordinator arrives, which the next tick hands over with its
\* feedback.
HearState(s) ==
  /\ ~stopped /\ ~checked
  /\ teleopState' = TeleopPhase(s)
  /\ stateAge' = 0
  /\ UNCHANGED <<lastOutput, begun, feedback, frameAge, trajectory, stopped, checked, action>>

Elapse ==
  /\ ~stopped
  /\ frameAge' = [s \in Sides |-> Least(frameAge[s] + 1, FeedbackTimeout + 1)]
  /\ stateAge' = Least(stateAge + 1, StateTimeout + 1)
  /\ trajectory' = IF trajectory = None THEN None
                   ELSE [trajectory EXCEPT !.age = Least(@ + 1, MaxAge)]
  /\ UNCHANGED <<lastOutput, begun, feedback, teleopState, stopped, checked, action>>

-----------------------------------------------------------------------------
Init ==
  /\ lastOutput = Home
  /\ begun = FALSE
  /\ feedback = Home
  /\ frameAge = [s \in Sides |-> 0]
  /\ teleopState = "none"
  /\ stateAge = 0
  /\ trajectory = None
  /\ stopped = FALSE
  /\ checked = FALSE
  /\ action = "none"

Next ==
  \/ \E joints \in Readings, advanced \in [Sides -> BOOLEAN], healthy \in BOOLEAN :
       Read(joints, advanced, healthy)
  \/ \E target \in Readings : Send(target)
  \/ SendLocal
  \/ SendNothing
  \/ \E s \in {"idle", "teleop", "returning", "fault"} : HearState(s)
  \/ Elapse

Spec == Init /\ [][Next]_vars
=============================================================================
