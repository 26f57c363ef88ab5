---------------------------- MODULE ArmIkProducer ---------------------------
(***************************************************************************)
(* The arm IK producer (src/producers/arm_ik_producer_node.cpp) with its    *)
(* trajectory limiter and failure window (src/control,                      *)
(* include/.../joint_trajectory_limiter.hpp).  Two subscriptions a side     *)
(* store what they receive under the mutex; the loop solves under the same *)
(* mutex and publishes its verdict after it.                                *)
(*                                                                         *)
(* A joint is an integer.  Where a solution lies is left open: the limiter *)
(* moves anywhere within its reach.  Messages carry their age; whether a    *)
(* message is acceptable in itself is a choice.                             *)
(***************************************************************************)
EXTENDS Integers

CONSTANTS
  Sides,
  Lower, Upper,  \* joint_limits_
  Tolerance,     \* validation_tolerance of the limiter
  Reach,         \* what the limiter moves in a tick
  MaxStep,       \* maximum_joint_step_rad
  Freshness,     \* kFreshnessNs
  Grace,         \* grace_ns_ of the failure window
  None

LimitsAssumption ==
  /\ {Lower, Upper} \subseteq Int /\ Lower <= 0 /\ 0 <= Upper
  /\ {Tolerance, Reach, MaxStep, Freshness, Grace} \subseteq Nat
  /\ None \notin Int

VARIABLES
  target,        \* age of targets_[side], None without one
  targetError,   \* target_input_errors_
  commandError,  \* command_input_errors_
  current,       \* current_, zero before the first command
  limiter,       \* position of the limiter, None before its first reset
  failing,       \* age of the failure window, None when it is closed
  proposal,      \* what a side published in this tick: where, and whether it holds
  verdict,       \* what the loop is about to publish, None between ticks
  complaints,    \* callbacks that have latched an error and not published it
  status         \* last status published

sideVars == <<target, targetError, commandError, current, limiter, failing, proposal>>
producerVars == <<sideVars, verdict, complaints, status>>

Keys == Sides \X {"target", "command"}
Healthy == [healthy |-> TRUE, degraded |-> FALSE]
Unhealthy == [healthy |-> FALSE, degraded |-> FALSE]

ProducerInit ==
  /\ target = [s \in Sides |-> None]
  /\ targetError = [s \in Sides |-> FALSE]
  /\ commandError = [s \in Sides |-> FALSE]
  /\ current = [s \in Sides |-> 0]
  /\ limiter = [s \in Sides |-> None]
  /\ failing = [s \in Sides |-> None]
  /\ proposal = [s \in Sides |-> None]
  /\ verdict = None
  /\ complaints = {}
  /\ status = Healthy

Inside(position) == Lower <= position /\ position <= Upper
Distance(a, b) == IF a < b THEN b - a ELSE a - b

\* JointTrajectoryLimiter7.valid_state, of a state at rest or within its speeds.
ValidState(position) == Lower - Tolerance <= position /\ position <= Upper + Tolerance

\* JointTrajectoryLimiter7.reset: refused for a state that is not valid.
ResetTo(s, position) == IF ValidState(position) THEN position ELSE limiter[s]

-----------------------------------------------------------------------------
(* Subscriptions.  Zenoh runs the callbacks of one key one after the other. *)

\* A target of the authorised source, newer than the last one and fresh.
OnTarget(s) ==
  /\ <<s, "target">> \notin complaints
  /\ target' = [target EXCEPT ![s] = 0]
  /\ targetError' = [targetError EXCEPT ![s] = FALSE]
  /\ UNCHANGED <<commandError, current, limiter, failing, proposal, verdict, complaints, status>>

\* Anything else: the target stored before stays.
RejectTarget(s) ==
  /\ <<s, "target">> \notin complaints
  /\ targetError' = [targetError EXCEPT ![s] = TRUE]
  /\ complaints' = complaints \cup {<<s, "target">>}
  /\ UNCHANGED <<target, commandError, current, limiter, failing, proposal, verdict, status>>

\* The limiter follows the final command outside teleop, and in teleop when it
\* has strayed from it by more than two steps.
Resynchronises(s, mode, joints) ==
  mode # "teleop" \/ limiter[s] = None \/ Distance(limiter[s], joints) > 2 * MaxStep

\* A final command inside the limits.
OnCommand(s, mode, joints) ==
  /\ <<s, "command">> \notin complaints
  /\ Inside(joints)
  /\ current' = [current EXCEPT ![s] = joints]
  /\ IF Resynchronises(s, mode, joints)
     THEN /\ limiter' = [limiter EXCEPT ![s] = ResetTo(s, joints)]
          /\ failing' = [failing EXCEPT ![s] = None]
     ELSE UNCHANGED <<limiter, failing>>
  /\ commandError' = [commandError EXCEPT ![s] = FALSE]
  /\ UNCHANGED <<target, targetError, proposal, verdict, complaints, status>>

RejectCommand(s) ==
  /\ <<s, "command">> \notin complaints
  /\ commandError' = [commandError EXCEPT ![s] = TRUE]
  /\ complaints' = complaints \cup {<<s, "command">>}
  /\ UNCHANGED <<target, targetError, current, limiter, failing, proposal, verdict, status>>

\* The status of a rejection is published after the mutex was released.
Complain(key) ==
  /\ key \in complaints
  /\ complaints' = complaints \ {key}
  /\ status' = Unhealthy
  /\ UNCHANGED <<sideVars, verdict>>

-----------------------------------------------------------------------------
(* The loop.                                                               *)

\* [mutant] every failure opens the window anew
Failed_Anew(s) == 0

\* ConsecutiveFailureWindow.failed: the window is open since the first failure.
Failed(s) == IF failing[s] = None THEN 0 ELSE failing[s]

\* What becomes of a side: a proposal, the limiter, the window, two verdicts.
Outcome(at, hold, trajectory, window, good, degraded) ==
  [proposal |-> [at |-> at, hold |-> hold], limiter |-> trajectory, failing |-> window,
   healthy |-> good, degraded |-> degraded]

\* reject: hold the final command.  A hard failure leaves the window alone and
\* is unhealthy at once, any other when the window has been open for the grace.
Rejection(s, hard) ==
  Outcome(current[s], TRUE, ResetTo(s, current[s]),
          IF hard THEN failing[s] ELSE Failed(s),
          ~hard /\ Failed(s) < Grace, TRUE)

\* [mutant] the end of the step is not compared with the limits
Limited_AnyState(s, position) ==
  IF limiter[s] = None THEN Rejection(s, TRUE)
  ELSE IF Distance(position, current[s]) > MaxStep THEN Rejection(s, FALSE)
  ELSE Outcome(position, FALSE, position, None, TRUE, FALSE)

\* A solution inside the limits, and the limiter's step towards it.
Limited(s, position) ==
  IF limiter[s] = None \/ ~ValidState(position) THEN Rejection(s, TRUE)
  ELSE IF Distance(position, current[s]) > MaxStep THEN Rejection(s, FALSE)
  ELSE Outcome(position, FALSE, position, None, TRUE, FALSE)

From(s) == IF limiter[s] = None THEN current[s] ELSE limiter[s]

\* The solver raises, rejects, returns what is no solution, or solves.
Outcomes(s) ==
  {Rejection(s, hard) : hard \in BOOLEAN}
    \cup {Limited(s, position) : position \in From(s) - Reach .. From(s) + Reach}

\* The forward kinematics of a hold may raise: no proposal then.
Unheld(outcome) == [outcome EXCEPT !.proposal = None, !.healthy = FALSE]

\* What a side without a fresh target keeps.
Idle(s) == [proposal |-> None, limiter |-> limiter[s], failing |-> failing[s],
            healthy |-> TRUE, degraded |-> FALSE]

SideOutcomes(s) ==
  IF target[s] = None \/ target[s] > Freshness
  THEN {Idle(s)}
  ELSE Outcomes(s) \cup {Unheld(o) : o \in {x \in Outcomes(s) : x.proposal.hold}}

\* tick, up to the release of the mutex.
Tick ==
  /\ verdict = None
  /\ \E done \in [Sides -> UNION {SideOutcomes(s) : s \in Sides}] :
       /\ \A s \in Sides : done[s] \in SideOutcomes(s)
       /\ proposal' = [s \in Sides |-> done[s].proposal]
       /\ limiter' = [s \in Sides |-> done[s].limiter]
       /\ failing' = [s \in Sides |-> done[s].failing]
       /\ verdict' = [healthy |-> \A s \in Sides :
                        ~targetError[s] /\ ~commandError[s] /\ done[s].healthy,
                      degraded |-> \E s \in Sides : done[s].degraded]
  /\ UNCHANGED <<target, targetError, commandError, current, complaints, status>>

PublishStatus ==
  /\ verdict # None
  /\ status' = verdict
  /\ verdict' = None
  /\ proposal' = [s \in Sides |-> None]
  /\ UNCHANGED <<target, targetError, commandError, current, limiter, failing, complaints>>

Subscriptions ==
  \E s \in Sides :
    \/ OnTarget(s) \/ RejectTarget(s) \/ RejectCommand(s)
    \/ \E mode \in {"idle", "teleop", "returning"}, joints \in Lower .. Upper :
         OnCommand(s, mode, joints)

\* The monotonic clock; ages beyond the last comparison are all alike.
Age(age, bound) == IF age = None \/ age > bound THEN age ELSE age + 1

Elapse ==
  /\ target' = [s \in Sides |-> Age(target[s], Freshness)]
  /\ failing' = [s \in Sides |-> Age(failing[s], Grace)]
  /\ UNCHANGED <<targetError, commandError, current, limiter, proposal, verdict, complaints, status>>
=============================================================================
