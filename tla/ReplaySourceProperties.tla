---------------------- MODULE ReplaySourceProperties ------------------------
(***************************************************************************)
(* What the operator of the H5 replay source may rely on.  Two observers   *)
(* count what the node itself forgets.                                     *)
(***************************************************************************)
EXTENDS ReplaySource

VARIABLES
  drift,      \* units the target went since Enter was last down
  solutions   \* solutions of Pose(0) received since the start was asked for

observed == <<sourceVars, drift, solutions>>

Init == ReplayInit /\ drift = 0 /\ solutions = 0

Least(a, b) == IF a < b THEN a ELSE b

Observe ==
  /\ drift' = IF enter THEN 0
              ELSE IF target' # target /\ NoPose \notin {target, target'}
                   THEN Least(drift + 1, 2) ELSE drift
  /\ solutions' = IF phase = "start_pending" THEN 0
                  ELSE IF solved'.answers /\ solved' # solved /\ solved'.at = Pose(0)
                       THEN Least(solutions + 1, StableTicks) ELSE solutions

Next == ReplayNext /\ Observe

Spec == Init /\ [][Next]_observed

\* Once Enter is released the target moves by one unit at most, the one of the
\* interval in which it was released, in every phase and until it is pressed
\* again (_read_deadman, HoldToRunClock.update).
EnterHolds == drift <= 1

\* The recording is offered for replay only after as many solutions of its first
\* frame as there are stable ticks, all received in this session and none of them
\* counted twice (_target_is_stable).
ReadyIsEarned == phase = "ready" => solutions >= StableTicks /\ target = Pose(0)
=============================================================================
