-------------------------- MODULE SessionAuthority --------------------------
(***************************************************************************)
(* The session phase and its two latches as the rest of the system may     *)
(* rely on them: what the arm command coordinator                          *)
(* (coordination/arm_command_coordinator.py) does to them, without saying  *)
(* why.  ArmCommandCoordinator implements it, SessionHandshake uses it.    *)
(***************************************************************************)
VARIABLES
  state,           \* SessionState.state
  atHome,          \* value of the at_home latch
  returnComplete,  \* value of the return_complete latch
  away             \* some final command is not at Home

authority == <<state, atHome, returnComplete, away>>

TypeInvariant ==
  /\ state \in {"idle", "teleop", "returning", "fault"}
  /\ atHome \in BOOLEAN
  /\ returnComplete \in BOOLEAN
  /\ away \in BOOLEAN

Init ==
  /\ state = "idle"
  /\ atHome = TRUE
  /\ returnComplete = FALSE
  /\ away = FALSE

\* A start is accepted in idle only, with every final command at Home.
AcceptStart ==
  /\ state = "idle"
  /\ ~away
  /\ state' = "teleop"
  /\ atHome' = FALSE
  /\ returnComplete' = FALSE
  /\ UNCHANGED away

\* A return is accepted in every phase but fault.
AcceptReturn ==
  /\ state # "fault"
  /\ state' = "returning"
  /\ returnComplete' = FALSE
  /\ UNCHANGED <<atHome, away>>

\* A message that is refused raises a fault.
RaiseFault ==
  /\ state # "fault"
  /\ state' = "fault"
  /\ returnComplete' = FALSE
  /\ UNCHANGED <<atHome, away>>

\* The phases a tick may move to before it computes the commands.
Successors ==
  [phase \in {"idle", "teleop", "returning", "fault"} |->
     CASE phase = "teleop" -> {"teleop", "returning", "fault"}
       [] phase = "returning" -> {"returning", "fault"}
       [] OTHER -> {phase}]

\* Only teleop takes a command away from Home: in idle it stays there, and a
\* return or a fault that has reached Home does not leave it again.  A return is
\* over only with both commands at Home.
Advance ==
  \E phase \in Successors[state], complete \in BOOLEAN :
    /\ away' \in BOOLEAN
    /\ away' => phase = "teleop" \/ (phase # "idle" /\ away)
    /\ complete => phase = "returning" /\ ~away'
    /\ atHome' = ~away'
    /\ state' = IF complete THEN "idle" ELSE phase
    /\ returnComplete' = (complete \/ (returnComplete /\ phase = state))

Next == AcceptStart \/ AcceptReturn \/ RaiseFault \/ Advance

Spec == Init /\ [][Next]_authority
=============================================================================
