--------------------------- MODULE PolicyProducer ---------------------------
(***************************************************************************)
(* The policy producer (producers/policy/node.py, contracts.py): a runner   *)
(* turns the state of the arms into an action, the adapter an action into   *)
(* two proposals.  Callbacks run between any two steps of the tick, which    *)
(* holds no lock.  PolicySession puts it before the coordinator.             *)
(***************************************************************************)
EXTENDS Integers

CONSTANTS
  Stale,  \* stale_timeout_ns and velocity_interval_ns, in units of the clock
  None

StaleAssumption == Stale \in Nat /\ None \notin Int

VARIABLES
  runner,    \* the runner is loaded and healthy
  rejected,  \* its next actions leave the limits, the step or the real numbers
  arm,       \* _state: its age, whether it carries velocities, whether build
             \* has seen it; None without one
  session,   \* _session_state, "invalid" while _session_invalid, "none" before
  error,     \* _last_error
  previous,  \* age of the builder's _previous
  observed,  \* the builder has a last observation
  pc,        \* the tick: "begin", "session", "act", "adapt", "put"
  status,    \* last status published: ready, healthy
  sent       \* the proposals of this tick are on the wire

buildVars == <<previous, observed>>
policyVars == <<runner, rejected, arm, session, error, buildVars, pc, status, sent>>

PolicyInit ==
  /\ runner = TRUE /\ rejected = FALSE
  /\ arm = None /\ session = "none" /\ error = FALSE
  /\ previous = None /\ observed = FALSE
  /\ pc = "begin" /\ sent = FALSE
  /\ status = [ready |-> FALSE, healthy |-> TRUE]

Publish(ready, healthy) == status' = [ready |-> ready, healthy |-> healthy]

-----------------------------------------------------------------------------
(* Callbacks.                                                              *)

OnArmState(velocity) ==
  /\ arm' = [age |-> 0, velocity |-> velocity, seen |-> FALSE]
  /\ error' = FALSE
  /\ UNCHANGED <<runner, rejected, session, buildVars, pc, status, sent>>

\* A malformed or foreign state takes the last one away.
RejectArmState ==
  /\ arm' = None
  /\ error' = TRUE
  /\ UNCHANGED <<runner, rejected, session, buildVars, pc, status, sent>>

OnSessionState(phase) ==
  /\ session' = phase
  /\ error' = FALSE
  /\ UNCHANGED <<runner, rejected, arm, buildVars, pc, status, sent>>

RejectSessionState ==
  /\ session' = "invalid"
  /\ error' = TRUE
  /\ UNCHANGED <<runner, rejected, arm, buildVars, pc, status, sent>>

\* A target that is refused: the last one stays, and so does its sequence.
RejectArmTarget ==
  /\ error' = TRUE
  /\ UNCHANGED <<runner, rejected, arm, session, buildVars, pc, status, sent>>

-----------------------------------------------------------------------------
(* The tick.                                                               *)

\* ObservationBuilder.build: a fresh state, and the velocities it carries or
\* those between it and a previous one that is close enough.
HasVelocity ==
  \/ arm.velocity
  \/ previous # None /\ 0 < previous - arm.age /\ previous - arm.age <= Stale

Builds == arm.age <= Stale /\ ((arm.seen /\ observed) \/ HasVelocity)

Build ==
  /\ observed' = Builds
  /\ previous' = arm.age
  /\ arm' = [arm EXCEPT !.seen = TRUE]

\* The tests of tick up to the observation, each with the status it publishes.
Begin ==
  /\ pc = "begin"
  /\ sent' = FALSE
  /\ CASE session = "invalid" ->
            /\ Publish(FALSE, FALSE) /\ error' = TRUE
            /\ UNCHANGED <<arm, buildVars, pc>>
       [] session # "invalid" /\ ~runner ->
            /\ Publish(FALSE, FALSE) /\ error' = TRUE
            /\ UNCHANGED <<arm, buildVars, pc>>
       [] session # "invalid" /\ runner /\ arm = None ->
            /\ Publish(FALSE, ~error)
            /\ UNCHANGED <<arm, error, buildVars, pc>>
       [] OTHER ->
            /\ Build
            /\ IF Builds THEN pc' = "session" /\ UNCHANGED status
                         ELSE Publish(FALSE, ~error) /\ UNCHANGED pc
            /\ UNCHANGED error
  /\ UNCHANGED <<runner, rejected, session>>

\* The session is looked at again.  Outside teleop the status says so, and the
\* action is asked for all the same.
CheckSession ==
  /\ pc = "session"
  /\ CASE session = "invalid" -> Publish(FALSE, FALSE) /\ pc' = "begin" /\ UNCHANGED error
       [] session = "none" -> Publish(TRUE, ~error) /\ pc' = "begin" /\ UNCHANGED error
       [] session = "teleop" -> pc' = "act" /\ UNCHANGED <<status, error>>
       [] OTHER -> Publish(TRUE, TRUE) /\ error' = FALSE /\ pc' = "act"
  /\ UNCHANGED <<runner, rejected, arm, session, buildVars, sent>>

\* The runner answers, or raises and is unhealthy from then on.
Act ==
  /\ pc = "act"
  /\ \/ Publish(TRUE, TRUE) /\ pc' = "adapt" /\ UNCHANGED <<runner, error>>
     \/ Publish(FALSE, FALSE) /\ pc' = "begin" /\ runner' = FALSE /\ error' = TRUE
  /\ UNCHANGED <<rejected, arm, session, buildVars, sent>>

\* [mutant] a rejected action is replaced by a hold, and the tick goes on
Adapt_Holds ==
  /\ pc = "adapt"
  /\ pc' = "put" /\ error' = FALSE
  /\ UNCHANGED <<runner, rejected, arm, session, buildVars, status, sent>>

\* ActionAdapter.adapt: the shape, the limits, the step from the measured
\* position.  A rejection takes the word "healthy" of Act back.
Adapt ==
  /\ pc = "adapt"
  /\ IF rejected
     THEN Publish(FALSE, FALSE) /\ error' = TRUE /\ pc' = "begin"
     ELSE error' = FALSE /\ pc' = "put" /\ UNCHANGED status
  /\ UNCHANGED <<runner, rejected, arm, session, buildVars, sent>>

Put ==
  /\ pc = "put"
  /\ sent' = TRUE
  /\ pc' = "begin"
  /\ UNCHANGED <<runner, rejected, arm, session, error, buildVars, status>>

PolicyTick == Begin \/ CheckSession \/ Act \/ Adapt \/ Put

\* The policy begins or ceases to propose what the adapter accepts.
ChangePolicy ==
  /\ rejected' = ~rejected
  /\ UNCHANGED <<runner, arm, session, error, buildVars, pc, status, sent>>

Older(age) == IF age = None \/ age > 2 * Stale THEN age ELSE age + 1

PolicyClock ==
  /\ arm' = IF arm = None THEN arm ELSE [arm EXCEPT !.age = Older(@)]
  /\ previous' = Older(previous)
  /\ UNCHANGED <<runner, rejected, session, error, observed, pc, status, sent>>
=============================================================================
