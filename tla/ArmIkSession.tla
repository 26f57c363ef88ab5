----------------------------- MODULE ArmIkSession ---------------------------
(***************************************************************************)
(* The arm IK producer between a source, which publishes targets in teleop  *)
(* only, and the coordinator, which asks for a healthy producer before a    *)
(* start and in teleop (_domain_ready, _check_teleop_health).  A target may *)
(* be overtaken by its deadline on the way, MaxLate times.                  *)
(***************************************************************************)
EXTENDS ArmIkProducer

CONSTANT MaxLate

VARIABLES
  session,   \* phase the coordinator publishes
  publishes, \* the source's phase is teleop: it publishes targets
  late       \* targets rejected so far

sessionVars == <<producerVars, session, publishes, late>>

Init ==
  /\ ProducerInit
  /\ session = "idle" /\ publishes = FALSE /\ late = 0

\* The source hears of the phase.
SourceHears ==
  /\ publishes # (session = "teleop")
  /\ publishes' = (session = "teleop")
  /\ UNCHANGED <<producerVars, session, late>>

SourcePublishes ==
  /\ publishes
  /\ \E s \in Sides : OnTarget(s)
  /\ UNCHANGED <<session, publishes, late>>

TargetIsLate ==
  /\ publishes
  /\ late < MaxLate
  /\ \E s \in Sides : RejectTarget(s)
  /\ late' = late + 1
  /\ UNCHANGED <<session, publishes>>

CommandIsLate ==
  /\ late < MaxLate
  /\ \E s \in Sides : RejectCommand(s)
  /\ late' = late + 1
  /\ UNCHANGED <<session, publishes>>

\* Commands of every phase, inside the limits.
CoordinatorCommands ==
  /\ \E s \in Sides, joints \in Lower .. Upper : OnCommand(s, session, joints)
  /\ UNCHANGED <<session, publishes, late>>

Start ==
  /\ session = "idle" /\ status.healthy
  /\ session' = "teleop"
  /\ UNCHANGED <<producerVars, publishes, late>>

\* A return: the operator's, or because the producer is not healthy.
Return ==
  /\ session = "teleop"
  /\ session' = "returning"
  /\ UNCHANGED <<producerVars, publishes, late>>

LoseProducer == ~status.healthy /\ Return

ReturnEnds ==
  /\ session = "returning"
  /\ session' = "idle"
  /\ UNCHANGED <<producerVars, publishes, late>>

Loop == (Tick \/ PublishStatus \/ \E key \in Keys : Complain(key))
          /\ UNCHANGED <<session, publishes, late>>

Clock == Elapse /\ UNCHANGED <<session, publishes, late>>

Next ==
  \/ SourceHears \/ SourcePublishes \/ TargetIsLate \/ CommandIsLate
  \/ CoordinatorCommands \/ Start \/ Return \/ ReturnEnds
  \/ Loop \/ Clock

Spec == Init /\ [][Next]_sessionVars

Fairness ==
  /\ WF_sessionVars(Tick /\ UNCHANGED <<session, publishes, late>>)
  /\ WF_sessionVars(PublishStatus /\ UNCHANGED <<session, publishes, late>>)
  /\ \A key \in Keys : WF_sessionVars(Complain(key) /\ UNCHANGED <<session, publishes, late>>)
  /\ WF_sessionVars(SourceHears)
  /\ WF_sessionVars(CoordinatorCommands)
  /\ WF_sessionVars(Clock)
  /\ SF_sessionVars(LoseProducer)
  /\ WF_sessionVars(ReturnEnds)

FairSpec == Spec /\ Fairness

\* A proposal is never further outside the limits than the limiter tolerates,
\* and a hold is inside them: also before the first command, after a limiter
\* that strayed, and whatever the solver answers (tick, JointTrajectoryLimiter7).
ProposalsInside ==
  \A s \in Sides : proposal[s] # None =>
    IF proposal[s].hold THEN Inside(proposal[s].at) ELSE ValidState(proposal[s].at)

\* A solver that goes on failing in teleop ends it: the window that opens with
\* the first failure closes by a success, or teleop ends, or there is no fresh
\* target to fail on (ConsecutiveFailureWindow, reject).
FailureEndsTeleop ==
  \A s \in Sides :
    (session = "teleop" /\ failing[s] # None)
      ~> (failing[s] = None \/ session # "teleop" \/ target[s] > Freshness)

\* "fresh source/producer, a new intent after Home" is all a session needs after
\* its source was cut off (docs/validation/05_fault_recovery.md:33): an idle
\* session finds its producer healthy again (on_target, target_input_errors_).
ProducerRecovers == session = "idle" ~> status.healthy
=============================================================================
