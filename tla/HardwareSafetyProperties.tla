---------------------- MODULE HardwareSafetyProperties ----------------------
(***************************************************************************)
(* What the hardware safety controller promises of the commands it lets     *)
(* through to the arms.                                                    *)
(***************************************************************************)
EXTENDS HardwareSafety

\* Type correctness: every variable of HardwareSafety has its type.
TypeOK ==
  /\ lastOutput \in Joints /\ feedback \in Joints
  /\ begun \in BOOLEAN /\ stopped \in BOOLEAN /\ checked \in BOOLEAN
  /\ frameAge \in [Sides -> 0 .. FeedbackTimeout + 1]
  /\ stateAge \in 0 .. StateTimeout + 1
  /\ teleopState \in {"none", "idle", "teleop", "returning"}
  /\ trajectory \in Trajectory \cup {None}
  /\ action \in {"none", "send", "hold_home", "return_home", "soft_stop"}

\* A tick that goes on has its feedback where the arms may be.
FeedbackInside == checked => begun /\ Padded(feedback) /\ Near(lastOutput, feedback, MaxTracking)

\* A way Home starts there.
ReturnsFromInside == trajectory # None => Padded(trajectory.start)

\* What the arms are told stays there: a limited step, a lead over the feedback and
\* a point of the way Home all lie between positions that are inside.
OutputsInside == ~stopped => Padded(lastOutput)

\* Until the arms are stopped, neither what they are told nor where a way Home
\* begins is outside the limits and their padding, though steps, leads and samples
\* are never compared with the limits themselves (decide, HomeTrajectory.sample).
SafetyInv == FeedbackInside /\ ReturnsFromInside /\ OutputsInside

\* While commands are followed, no joint steps further than MaxStep, though the
\* output is held near a feedback that may run away from it (decide).
StepBounded ==
  [][action' = "send" /\ checked /\ ~checked' => Near(lastOutput', lastOutput, MaxStep)]_vars

\* A way Home is never faster than ReturnSpeed, though its speed is nowhere limited but by
\* the duration it is given (HomeTrajectory).
ReturnSpeedBounded ==
  trajectory # None /\ trajectory.age < MaxAge =>
    Near(Sample([trajectory EXCEPT !.age = @ + 1]), Sample(trajectory), ReturnSpeed)

\* Whatever began a way Home (a state of the coordinator that is too old, above all), until
\* the arms have arrived there no tick tells a joint to go back, past Home or anywhere else:
\* not the tick that hears of a start in the meantime, nor the one that rearms, from
\* wherever the feedback has gone (decide, _return_home, _can_rearm_at_home).
Homeward ==
  [][trajectory # None /\ checked /\ ~checked' /\ ~stopped' =>
       \A s \in Sides : \/ lastOutput[s] <= lastOutput'[s] /\ lastOutput'[s] <= Home[s]
                        \/ Home[s] <= lastOutput'[s] /\ lastOutput'[s] <= lastOutput[s]]_vars
=============================================================================
