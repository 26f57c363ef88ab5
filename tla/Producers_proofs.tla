--------------------------- MODULE Producers_proofs ---------------------------
(***************************************************************************)
(* What TLAPS proves of the producers, for all arms, limits, tolerances    *)
(* and reaches.                                                            *)
(***************************************************************************)
EXTENDS MCProducers, TLAPS

all == <<part, conditionerVars, ik, policy>>

Tolerated == Lowest - IkTolerance .. Highest + IkTolerance

LEMMA IkMoves == [ProducersNext]_all => [Ik!Next]_ik
BY DEF ProducersNext, all

\* The final command a hold repeats is inside the limits, the limiter within what it
\* tolerates, and so is what was proposed.
IkInv ==
  /\ current \in [Arms -> Lowest .. Highest]
  /\ limiter \in [Arms -> Tolerated \cup {Absent}]
  /\ ProposalsInside

\* What may become of a side.
Sound(o) ==
  /\ o.limiter \in Tolerated \cup {Absent}
  /\ o.proposal # Absent =>
       IF o.proposal.hold THEN o.proposal.at \in Lowest .. Highest ELSE o.proposal.at \in Tolerated

LEMMA Bounds ==
  /\ Lowest \in Int /\ Highest \in Int /\ IkTolerance \in Nat /\ IkReach \in Nat /\ IkMaxStep \in Nat
  /\ Absent \notin Int /\ 0 \in Lowest .. Highest
  /\ Lowest .. Highest \subseteq Tolerated
BY ProducersAssumption DEF Ik!LimitsAssumption, Tolerated

\* A limiter that is reset goes to a state that it takes for valid, or stays.
LEMMA ResetInside ==
  ASSUME IkInv, NEW s \in Arms, NEW place \in Lowest .. Highest
  PROVE  Ik!ResetTo(s, place) \in Tolerated \cup {Absent}
BY Bounds DEF IkInv, Ik!ResetTo

LEMMA RejectionSound ==
  ASSUME IkInv, NEW s \in Arms, NEW hard \in BOOLEAN
  PROVE  Sound(Ik!Rejection(s, hard)) /\ Sound(Ik!Unheld(Ik!Rejection(s, hard)))
<1> DEFINE reset == Ik!ResetTo(s, current[s])
           window == IF hard THEN failing[s] ELSE Ik!Failed(s)
           good == ~hard /\ Ik!Failed(s) < Grace
           o == Ik!Rejection(s, hard)
<1>1. current[s] \in Lowest .. Highest
  BY DEF IkInv
<1>2. reset \in Tolerated \cup {Absent}
  BY <1>1, ResetInside
<1>3. o = [proposal |-> [at |-> current[s], hold |-> TRUE], limiter |-> reset, failing |-> window,
           healthy |-> good, degraded |-> TRUE]
  BY DEF Ik!Rejection, Ik!Outcome
<1>4. Ik!Unheld(o) = [o EXCEPT !.proposal = Absent, !.healthy = FALSE]
  BY DEF Ik!Unheld
<1> HIDE DEF reset, window, good, o
<1>5. Sound(o)
  BY <1>1, <1>2, <1>3 DEF Sound
<1>6. Ik!Unheld(o).proposal = Absent /\ Ik!Unheld(o).limiter = reset
  BY <1>3, <1>4
<1>7. Sound(Ik!Unheld(o))
  BY <1>2, <1>6 DEF Sound
<1> QED
  BY <1>5, <1>7 DEF o

LEMMA LimitedSound ==
  ASSUME IkInv, NEW s \in Arms, NEW place \in Int
  PROVE  /\ Sound(Ik!Limited(s, place))
         /\ Ik!Limited(s, place).proposal.hold => Sound(Ik!Unheld(Ik!Limited(s, place)))
<1>1. CASE limiter[s] = Absent \/ ~Ik!ValidState(place)
  <2>1. Ik!Limited(s, place) = Ik!Rejection(s, TRUE)
    BY <1>1 DEF Ik!Limited
  <2> QED
    BY <2>1, RejectionSound
<1>2. CASE ~(limiter[s] = Absent \/ ~Ik!ValidState(place))
  <2>1. CASE Ik!Distance(place, current[s]) > IkMaxStep
    <3>1. Ik!Limited(s, place) = Ik!Rejection(s, FALSE)
      BY <1>2, <2>1 DEF Ik!Limited
    <3> QED
      BY <3>1, RejectionSound
  <2>2. CASE ~(Ik!Distance(place, current[s]) > IkMaxStep)
    <3>1. Ik!Limited(s, place)
            = [proposal |-> [at |-> place, hold |-> FALSE], limiter |-> place,
               failing |-> Absent, healthy |-> TRUE, degraded |-> FALSE]
      BY <1>2, <2>2 DEF Ik!Limited, Ik!Outcome
    <3>2. place \in Tolerated
      BY <1>2, Bounds DEF Ik!ValidState, Tolerated
    <3> QED
      BY <3>1, <3>2 DEF Sound
  <2> QED
    BY <2>1, <2>2
<1> QED
  BY <1>1, <1>2

LEMMA SideSound ==
  ASSUME IkInv, NEW s \in Arms, NEW o \in Ik!SideOutcomes(s)
  PROVE  Sound(o)
<1>1. limiter[s] \in Tolerated \cup {Absent} /\ current[s] \in Int
  BY Bounds DEF IkInv
<1>2. \A place \in Ik!From(s) - IkReach .. Ik!From(s) + IkReach : place \in Int
  BY <1>1, Bounds DEF Ik!From, Tolerated
<1>3. CASE o = Ik!Idle(s)
  BY <1>1, <1>3 DEF Ik!Idle, Sound
<1>4. ASSUME NEW x \in Ik!Outcomes(s) PROVE Sound(x) /\ (x.proposal.hold => Sound(Ik!Unheld(x)))
  <2>1. \/ \E hard \in BOOLEAN : x = Ik!Rejection(s, hard)
        \/ \E place \in Int : x = Ik!Limited(s, place)
    BY <1>2 DEF Ik!Outcomes
  <2> QED
    BY <2>1, RejectionSound, LimitedSound
<1> QED
  BY <1>3, <1>4 DEF Ik!SideOutcomes

LEMMA IkInvStep == IkInv /\ [ProducersNext]_all => IkInv'
<1> SUFFICES ASSUME IkInv, [Ik!Next]_ik PROVE IkInv'
  BY IkMoves
<1>1. CASE UNCHANGED <<current, limiter, proposal>>
  BY <1>1 DEF IkInv, ProposalsInside, Ik!ProposalsInside
<1>2. ASSUME NEW s \in Arms, NEW mode, NEW joints \in Lowest .. Highest, Ik!OnCommand(s, mode, joints)
      PROVE  IkInv'
  <2>1. current' = [current EXCEPT ![s] = joints] /\ proposal' = proposal
    BY <1>2 DEF Ik!OnCommand
  <2>2. limiter' = limiter \/ limiter' = [limiter EXCEPT ![s] = Ik!ResetTo(s, joints)]
    BY <1>2 DEF Ik!OnCommand
  <2>3. Ik!ResetTo(s, joints) \in Tolerated \cup {Absent}
    BY ResetInside
  <2>4. limiter' \in [Arms -> Tolerated \cup {Absent}] /\ current' \in [Arms -> Lowest .. Highest]
    BY <2>1, <2>2, <2>3 DEF IkInv
  <2> QED
    BY <2>1, <2>4 DEF IkInv, ProposalsInside, Ik!ProposalsInside
<1>3. CASE Ik!Tick
  <2>1. PICK done : /\ \A s \in Arms : done[s] \in Ik!SideOutcomes(s)
                    /\ proposal' = [s \in Arms |-> done[s].proposal]
                    /\ limiter' = [s \in Arms |-> done[s].limiter]
                    /\ current' = current
    BY <1>3 DEF Ik!Tick
  <2>2. \A s \in Arms : Sound(done[s])
    BY <2>1, SideSound
  <2>3. limiter' \in [Arms -> Tolerated \cup {Absent}]
    BY <2>1, <2>2 DEF Sound
  <2>4. ASSUME NEW s \in Arms, proposal'[s] # Absent
        PROVE  IF proposal'[s].hold THEN Ik!Inside(proposal'[s].at) ELSE Ik!ValidState(proposal'[s].at)
    BY <2>1, <2>2, <2>4, Bounds DEF Sound, Ik!Inside, Ik!ValidState, Tolerated
  <2> QED
    BY <2>1, <2>3, <2>4 DEF IkInv, ProposalsInside, Ik!ProposalsInside
<1>4. CASE Ik!PublishStatus
  BY <1>4 DEF Ik!PublishStatus, IkInv, ProposalsInside, Ik!ProposalsInside
<1>5. \/ UNCHANGED <<current, limiter, proposal>>
      \/ \E s \in Arms, joints \in Lowest .. Highest : Ik!OnCommand(s, session, joints)
      \/ Ik!Tick \/ Ik!PublishStatus
  BY DEF Ik!Next, ik, Ik!SourceHears, Ik!SourcePublishes, Ik!OnTarget, Ik!TargetIsLate, Ik!RejectTarget,
         Ik!CommandIsLate, Ik!RejectCommand, Ik!CoordinatorCommands, Ik!Start, Ik!Return, Ik!ReturnEnds,
         Ik!Loop, Ik!Complain, Ik!Clock, Ik!Elapse, Ik!producerVars, Ik!sideVars
<1> QED
  BY <1>1, <1>2, <1>3, <1>4, <1>5

\* A proposal stays inside what the limiter tolerates and a hold inside the limits, whatever the
\* solver answers (tick of the arm IK producer, JointTrajectoryLimiter7).
THEOREM ProposalsStayInside == ProducersSpec => []ProposalsInside
<1>1. ProducersInit => IkInv
  BY Bounds DEF ProducersInit, Ik!Init, Ik!ProducerInit, IkInv, ProposalsInside, Ik!ProposalsInside
<1>2. IkInv => ProposalsInside
  BY DEF IkInv
<1> QED
  BY <1>1, <1>2, IkInvStep, PTL DEF ProducersSpec, all
=============================================================================
