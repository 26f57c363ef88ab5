---------------------------- MODULE MCProducers ----------------------------
(***************************************************************************)
(* Small instances, for TLC, of what leads from the operator's wrist to    *)
(* proposals: the target pipeline, and the producers by inverse kinematics *)
(* and by a policy in their sessions.  In a behaviour one of them is at    *)
(* work and the others stay as they begin.                                 *)
(***************************************************************************)
EXTENDS TargetConditioner

CONSTANTS
  Absent,                                            \* no message, no target
  Arms, Lowest, Highest, IkTolerance, IkReach,       \* ArmIkSession
  IkMaxStep, Freshness, Grace, MaxLate,
  Stale, ProposalTimeout                             \* PolicySession

VARIABLES
  part,   \* the one at work
  \* Inverse kinematics.
  target, targetError, commandError, current, limiter, failing, proposal, verdict,
  complaints, ikStatus, session, publishes, late,
  \* Policy.
  runner, rejected, arm, hears, error, previous, observed, pc, status, sent,
  phase, proposals

ik == <<target, targetError, commandError, current, limiter, failing, proposal, verdict,
        complaints, ikStatus, session, publishes, late>>
policy == <<runner, rejected, arm, hears, error, previous, observed, pc, status, sent,
            phase, proposals>>

Ik == INSTANCE ArmIkSession WITH
  Sides <- Arms, Lower <- Lowest, Upper <- Highest, Tolerance <- IkTolerance,
  Reach <- IkReach, MaxStep <- IkMaxStep, None <- Absent, status <- ikStatus

Policy == INSTANCE PolicySession WITH
  None <- Absent,
  session <- hears

ASSUME ProducersAssumption == Ik!LimitsAssumption /\ Policy!StaleAssumption

\* A zone that saturates at Radius.
SoftZone(w) == LimitedNorm(w, Radius)

-----------------------------------------------------------------------------
ProducersInit ==
  /\ part \in {"target", "ik", "policy"}
  /\ ConditionerInit
  /\ Ik!Init
  /\ Policy!Init

ProducersNext ==
  /\ part' = part
  /\ \/ part = "target" /\ ConditionerNext /\ UNCHANGED <<ik, policy>>
     \/ part = "ik" /\ Ik!Next /\ UNCHANGED <<conditionerVars, policy>>
     \/ part = "policy" /\ Policy!Next /\ UNCHANGED <<conditionerVars, ik>>

IkKeeps == UNCHANGED <<session, publishes, late>>

\* The fairness of each, when it is at work.
ProducersFairness ==
  /\ WF_conditionerVars(part = "target" /\ Condition)
  /\ WF_ik(part = "ik" /\ Ik!Tick /\ IkKeeps)
  /\ WF_ik(part = "ik" /\ Ik!PublishStatus /\ IkKeeps)
  /\ WF_ik(part = "ik" /\ Ik!Clock)
  /\ SF_ik(part = "ik" /\ Ik!LoseProducer)
  /\ WF_policy(part = "policy" /\ Policy!Loop)
  /\ WF_policy(part = "policy" /\ Policy!Clock)
  /\ WF_policy(part = "policy" /\ Policy!CoordinatorTick)

ProducersSpec ==
  ProducersInit /\ [][ProducersNext]_<<part, conditionerVars, ik, policy>> /\ ProducersFairness

\* A proposal of the arm IK producer stays inside what its limiter tolerates, and a
\* hold inside the limits, whatever the solver answers (tick of the producer).
ProposalsInside == Ik!ProposalsInside

\* A solver that goes on failing ends teleop (ConsecutiveFailureWindow, reject).
FailureEndsTeleop == part = "ik" => Ik!FailureEndsTeleop

\* A policy whose actions are rejected ends teleop (tick of the policy producer).
RejectionEndsTeleop == part = "policy" => Policy!RejectionEndsTeleop
=============================================================================
