-------------------------- MODULE MCArmCoordinator --------------------------
(***************************************************************************)
(* Small instances of the coordinator for TLC.                             *)
(***************************************************************************)
EXTENDS ArmCoordinatorProperties

\* One component per arm domain; with a hand, one hand producer more.
ArmDomains == {"source", "producer_arm", "executor_arm"}
ArmDomain == [d \in ArmDomains |-> {d}]
HandDomain == [d \in ArmDomains \cup {"producer_hand"} |-> {d}]

\* Every instance is authorised for every role ...
FullAuthority == [c \in Components |-> Instances]
FullHandAuthority == [h \in HandSides |-> Instances]
\* ... or only the arm producer may be replaced, and c is authorised for nothing.
TakeoverAuthority == [c \in Components |-> IF c = "producer_arm" THEN {"a", "b"} ELSE {"a"}]

\* Home at 2 within [1, 4], or at 3 within [0, 8].
LowerLimit == [s \in Sides |-> 1]
UpperLimit == [s \in Sides |-> 4]
HomeAngle == [s \in Sides |-> 2]
WideLower == [s \in Sides |-> 0]
WideUpper == [s \in Sides |-> 8]
WideHome == [s \in Sides |-> 3]

\* Proposals: for the left arm one within reach of Home and one beyond the limits;
\* for the right arm, which a session may leave out, one it must not follow.
Proposed == [s \in Sides |-> IF s = "left" THEN {0, 4} ELSE {4}]
ProposedNear == [s \in Sides |-> {3}]
ProposedWide == [s \in Sides |-> {4, 6, 8}]

-----------------------------------------------------------------------------
\* Next without the messages that come out of order or out of time: each of them
\* is the step RejectPayload.  reports is what components and arm may say of
\* themselves.  A hand executor says that it is at zero, or that it tracks, or
\* neither; to say that it is unhealthy passes no more tests than the last, and to
\* say both no others than that it tracks (HandAtZeroReady, HandTrackingFresh).
Messages(reports) ==
  \/ \E c \in Components, i \in Instances, ok \in reports : UpdateComponent(c, i, ok, TRUE)
  \/ \E i \in Instances, home \in reports : UpdateArmState(i, home, TRUE)
  \/ \E h \in HandSides, i \in Instances, zero, tracking \in BOOLEAN :
       ~(zero /\ tracking) /\ UpdateHandExecutorStatus(h, i, TRUE, zero, tracking, TRUE)
  \/ \E h \in HandSides, i \in Instances, zero \in BOOLEAN : UpdateHandState(h, i, zero, TRUE)
  \/ \E s \in Sides : \E c \in Domain["producer_arm"], i \in Instances, p \in Positions[s] :
       UpdateProposal(s, c, i, p, TRUE, TRUE)

Rest == StartIntent \/ ReturnIntent \/ Tick \/ Elapse

TidySpec == Init /\ [][Messages(BOOLEAN) \/ RejectPayload \/ Rest]_vars

\* A calmer environment for the larger instances: components and arm report only
\* good news (they may still fall silent) and nothing is rejected.
CalmSpec == Init /\ [][Messages({TRUE}) \/ Rest]_vars
FairCalmSpec == CalmSpec /\ WF_vars(Tick) /\ WF_vars(Elapse)
=============================================================================
