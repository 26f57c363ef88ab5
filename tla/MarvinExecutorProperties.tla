---------------------- MODULE MarvinExecutorProperties ----------------------
(***************************************************************************)
(* What the Marvin executor promises of its stops, its failures and a      *)
(* fault.                                                                  *)
(***************************************************************************)
EXTENDS MarvinExecutor

\* However a stop request or the executor's own stop falls between the other
\* steps, at most one more batch is sent: to a session that was stopped, the one
\* that was past its check; and whether or not the robot obeys, by the ticks, the
\* one that was past the check of the lock (tick, _send_commands,
\* send_joint_targets).
StopSilences == late <= 1

\* When the connection fails and nobody asked for a stop meanwhile, the arms are
\* left enabled only if two calls of the SDK failed as well: the soft stop and the
\* way out of position mode cover for each other (connect, _release_hardware,
\* _release_after_prepare_failure).
FailsSafe == pc = "exit" /\ robot = "enabled" /\ stop = "none" => failures >= 2

BatchSent == pc = "batch" /\ pc' \in {"homeFeedback", "sent"}

\* A tick that knows of a fault never sends a command of teleop, whatever arrives
\* while it decides (_bounded_fault_return).
FaultHomeward == [][BatchSent /\ plan = "bounded" => carry # "teleop"]_vars

\* Once a stop is acknowledged, no motion command is begun.
NoMotionAfterAck == [][pc = "gate" /\ pc' = "batch" => stop # "acked"]_vars
=============================================================================
