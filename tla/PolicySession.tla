---------------------------- MODULE PolicySession ---------------------------
(***************************************************************************)
(* The policy producer and the coordinator: of the latter what ends teleop  *)
(* because of a producer (_check_teleop_health), on the last status and the *)
(* age of the last proposals.                                               *)
(***************************************************************************)
EXTENDS PolicyProducer

CONSTANT ProposalTimeout  \* how old a proposal may be in teleop

VARIABLES
  phase,      \* of the session, as the coordinator has it
  proposals   \* age of the last proposals since the start

all == <<policyVars, phase, proposals>>

Init == PolicyInit /\ phase = "idle" /\ proposals = 0

Keeps == UNCHANGED <<phase, proposals>>

Callback ==
  /\ \/ \E velocity \in BOOLEAN : OnArmState(velocity)
     \/ RejectArmState \/ RejectSessionState \/ RejectArmTarget
     \/ OnSessionState(phase)
  /\ Keeps

Loop ==
  /\ PolicyTick
  /\ proposals' = IF sent' /\ ~sent THEN 0 ELSE proposals
  /\ UNCHANGED phase

Policy == ChangePolicy /\ Keeps

Clock ==
  /\ PolicyClock
  /\ proposals' = IF proposals > ProposalTimeout THEN proposals ELSE proposals + 1
  /\ UNCHANGED phase

Start ==
  /\ phase = "idle" /\ status.ready /\ status.healthy
  /\ phase' = "teleop" /\ proposals' = 0
  /\ UNCHANGED policyVars

\* The tick of the coordinator in teleop and in the return.
CoordinatorTick ==
  /\ phase' = CASE phase = "teleop" /\ (~status.ready \/ ~status.healthy
                                          \/ proposals > ProposalTimeout) -> "returning"
                [] phase = "returning" -> "idle"
                [] OTHER -> phase
  /\ UNCHANGED <<policyVars, proposals>>

Next == Callback \/ Loop \/ Policy \/ Clock \/ Start \/ CoordinatorTick

Spec == Init /\ [][Next]_all

\* A policy whose actions are rejected for good does not keep a session in
\* teleop (docs/validation/02_simulation.md:68: an illegal action stops the
\* proposals, the coordinator returns), although each of its ticks says healthy
\* before it says unhealthy and the coordinator may look in between (tick).
RejectionEndsTeleop == <>[]rejected => []<>(phase # "teleop")
=============================================================================
