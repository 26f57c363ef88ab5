-------------------------- MODULE TargetConditioner --------------------------
(***************************************************************************)
(* How the wrist of the operator becomes a target of the inverse kinematics  *)
(* (sources/common/target_conditioner.py, target_mapper.py), relative to     *)
(* Home.  A unit of velocity is a unit of length in one call.                *)
(*                                                                           *)
(* The code limits the norms of three-dimensional vectors.  This is the case *)
(* in which all of them lie on one line: a wrist that moves along a line      *)
(* through its reference.  Off that line the directions share the limits,    *)
(* so that nothing shown here holds of the vectors.                          *)
(***************************************************************************)
EXTENDS Integers

CONSTANTS
  Reach,            \* bound: the wrist is within -Reach .. Reach of its reference
  Soft(_),          \* gain and soft zone: the exponential that approaches Radius
  Radius,           \* workspace_relative_radii_m
  MaxSpeed,         \* maximum_linear_speed_m_s
  MaxAcceleration   \* maximum_linear_acceleration_m_s2

Wrists == -Reach .. Reach

ASSUME ConditionerAssumption ==
  /\ Reach \in Nat /\ Radius \in Nat
  /\ MaxSpeed \in Nat \ {0} /\ MaxAcceleration \in Nat \ {0}
  /\ \A w \in Wrists : Soft(w) \in -Radius .. Radius

VARIABLES
  wrist,     \* where the operator's wrist is
  position,  \* _position
  velocity   \* _linear_velocity

conditionerVars == <<wrist, position, velocity>>

Abs(x) == IF x < 0 THEN -x ELSE x

\* _limited_norm.
LimitedNorm(x, maximum) == IF x > maximum THEN maximum ELSE IF x < -maximum THEN -maximum ELSE x

ConditionerInit == wrist = 0 /\ position = 0 /\ velocity = 0

\* EndEffectorTargetMapper.initialize: the wrist is at its reference again.
Initialize == wrist' = 0 /\ position' = 0 /\ velocity' = 0

\* Tracking may jump from anywhere to anywhere.
MoveWrist(w) == wrist' = w /\ UNCHANGED <<position, velocity>>

\* [mutant] The target is the wrist, whatever the workspace.
Remaining_Hard == wrist - position

Remaining == Soft(wrist) - position

\* Along the line; at an angle to the velocity the demand shares MaxAcceleration.
Gained ==
  velocity + LimitedNorm(LimitedNorm(Remaining, MaxSpeed) - velocity, MaxAcceleration)

\* A step at least as long as what is left, in whatever direction, becomes what is left.
LinearStep == IF Abs(Gained) >= Abs(Remaining) THEN Remaining ELSE Gained

\* TargetConditioner.condition.
Condition ==
  /\ position' = position + LinearStep
  /\ velocity' = LinearStep
  /\ UNCHANGED wrist

ConditionerNext == Initialize \/ Condition \/ \E w \in Wrists : MoveWrist(w)

-----------------------------------------------------------------------------
\* When a wrist that moves along a line comes to rest, the target comes to rest, where the
\* workspace wants it and not swinging about it, however fast it was (condition: the two
\* limits and the step that is cut to what is left).
Settles ==
  <>[][UNCHANGED wrist]_conditionerVars => <>[](position = Soft(wrist))
=============================================================================
