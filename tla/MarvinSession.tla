---------------------------- MODULE MarvinSession ----------------------------
(***************************************************************************)
(* The joint control session of the Marvin arms (marvin_hardware.py) over  *)
(* the robot it talks to: which calls it lets through, and what it does    *)
(* when the SDK refuses one.                                               *)
(*                                                                         *)
(* A call of the SDK that the code does not check, or whose failure it     *)
(* swallows, succeeds or fails (ok); failures counts the latter.           *)
(***************************************************************************)
EXTENDS Naturals

CONSTANT MaxFailures   \* bound on the swallowed failures

ASSUME SessionAssumption == MaxFailures \in Nat

VARIABLES
  connected,    \* _connected
  softStopped,  \* _soft_stopped
  robot,        \* what the arms were last told: "idle", "enabled" or "stopped"
  failures      \* failures of the SDK that nobody hears of

session == <<connected, softStopped, robot, failures>>

SessionInit ==
  /\ connected = FALSE
  /\ softStopped = FALSE
  /\ robot = "idle"
  /\ failures = 0

Swallowed(n) ==
  /\ failures + n <= MaxFailures
  /\ failures' = failures + n

-----------------------------------------------------------------------------
(* connect_and_prepare.  Each step may raise; from Clear on that releases   *)
(* the session.                                                            *)

Connect ==
  /\ connected' = TRUE
  /\ UNCHANGED <<softStopped, robot, failures>>

Rearm ==
  /\ softStopped' = FALSE
  /\ UNCHANGED <<connected, robot, failures>>

\* The errors of both arms are cleared, that of a soft stop among them; then the
\* feedback is verified and the ratios are configured.
Clear ==
  /\ robot' = IF robot = "stopped" THEN "idle" ELSE robot
  /\ UNCHANGED <<connected, softStopped, failures>>

\* _enter_position_control_at_measured_pose.
Enable ==
  /\ robot' = "enabled"
  /\ UNCHANGED <<connected, softStopped, failures>>

-----------------------------------------------------------------------------
(* Stopping and letting go.                                                *)

\* soft_stop_once has something to do.
CanStop == connected /\ ~softStopped

\* The caller swallows the exception of a stop the SDK refuses.
SoftStopOnce(ok) ==
  IF ~CanStop
  THEN UNCHANGED session
  ELSE /\ Swallowed(IF ok THEN 0 ELSE 1)
       /\ softStopped' = ok
       /\ robot' = IF ok THEN "stopped" ELSE robot
       /\ UNCHANGED connected

\* [mutant] the session is only disabled
LetGo_Disable(stopFirst, stopOk, offOk) ==
  IF ~connected
  THEN UNCHANGED session
  ELSE /\ Swallowed(IF offOk THEN 0 ELSE 1)
       /\ robot' = IF robot = "enabled" /\ offOk THEN "idle" ELSE robot
       /\ connected' = FALSE
       /\ UNCHANGED softStopped

\* shutdown, with a soft stop before it or without, and
\* _release_after_prepare_failure, which stops first.  Whatever of it fails,
\* the robot is released.
LetGo(stopFirst, stopOk, offOk) ==
  LET stops == stopFirst /\ ~softStopped
  IN IF ~connected
     THEN UNCHANGED session
     ELSE /\ Swallowed((IF stops /\ ~stopOk THEN 1 ELSE 0) + (IF offOk THEN 0 ELSE 1))
          /\ robot' = CASE stops /\ stopOk -> "stopped"
                        [] robot = "enabled" /\ offOk -> "idle"
                        [] OTHER -> robot
          /\ softStopped' = (softStopped \/ (stops /\ stopOk))
          /\ connected' = FALSE

\* send_joint_targets refuses to start a batch; a batch that was begun before the
\* stop is not looked at again.
Refused == softStopped
=============================================================================
