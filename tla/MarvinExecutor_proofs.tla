------------------------ MODULE MarvinExecutor_proofs ------------------------
(***************************************************************************)
(* What TLAPS proves of the Marvin executor, for every number of phases and *)
(* of failures: its stops silence it, a failed connection leaves the arms   *)
(* disabled, and in a fault it goes Home.                                   *)
(***************************************************************************)
EXTENDS MarvinExecutorProperties, TLAPS

\* Until the session is enabled, and from then on until it is let go.
BeforeEnable == {"connect", "admission", "create", "open", "opened", "prepare", "enable"}
Connecting == {"opened", "prepare", "enable", "await", "release", "prepared"}
Ticking == {"settle", "settled", "tick", "branch", "write", "choose", "fetch", "check",
            "gate", "batch", "sent", "homeFeedback"}

-----------------------------------------------------------------------------
(* Stops.                                                                  *)

\* A request that was accepted has locked the executor, and unless the connection
\* is given up only a locked executor's session is stopped.
LockInv ==
  /\ stop \in {"locked", "stopped", "acked"} => locked
  /\ softStopped => locked \/ pc \in {"fail", "exit"}

\* After one late batch there is no way to another: a tick ends before it begins, and
\* the way Home is refused by the session.
LateInv ==
  /\ late \in {0, 1}
  /\ late = 1 =>
       /\ locked
       /\ \/ pc \in {"sent", "tick", "closed", "exit", "fail", "settle", "settled"}
          \/ pc \in {"homeFeedback", "gate"} /\ plan = "home" /\ softStopped

SilenceInv == LockInv /\ LateInv

LEMMA SilenceInvStep == SilenceInv /\ [Next]_vars => SilenceInv'
<1> SUFFICES ASSUME SilenceInv, [Next]_vars PROVE SilenceInv'
  OBVIOUS
<1> USE DEF SilenceInv, LockInv, LateInv, Outside, Goto
<1>1. CASE Begin
  BY <1>1 DEF Begin, session
<1>2. CASE Admission
  BY <1>2 DEF Admission, session
<1>3. CASE Create
  BY <1>3 DEF Create, session
<1>4. CASE Open
  BY <1>4 DEF Open, Step, Connect, session
<1>5. CASE Opened
  BY <1>5 DEF Opened, Rearm
<1>6. CASE Prepare
  BY <1>6 DEF Prepare, Step, Clear, session
<1>7. CASE EnterPosition
  BY <1>7 DEF EnterPosition, Step, Enable, session
<1>8. CASE AwaitState
  BY <1>8 DEF AwaitState, Step, session
<1>9. CASE Release
  BY <1>9 DEF Release, LetGo, Swallowed, session
<1>10. CASE Prepared
  BY <1>10 DEF Prepared, session
<1>11. CASE HomeFeedback
  BY <1>11 DEF HomeFeedback, SoftStopOnce, CanStop, Swallowed, session
<1>12. CASE Settle
  BY <1>12 DEF Settle, session
<1>13. CASE Settled
  BY <1>13 DEF Settled, session
<1>14. CASE Fail
  BY <1>14 DEF Fail, LetGo, Swallowed, session
<1>15. CASE Read
  BY <1>15 DEF Read, Trip, SoftStopOnce, CanStop, Swallowed, session
<1>16. CASE Branch
  BY <1>16 DEF Branch, session
<1>17. CASE Write
  BY <1>17 DEF Write, session
<1>18. CASE Choose
  BY <1>18 DEF Choose, session
<1>19. CASE Fetch
  BY <1>19 DEF Fetch, session
<1>20. CASE Check
  BY <1>20 DEF Check, Trip, Decide, SoftStopOnce, CanStop, Swallowed, session
<1>21. CASE Gate
  BY <1>21 DEF Gate, Raise, Refused, Trip, SoftStopOnce, CanStop, Swallowed, session
<1>22. CASE Batch
  BY <1>22 DEF Batch, Halted, Raise, Trip, SoftStopOnce, CanStop, Swallowed, session
<1>23. CASE Sent
  BY <1>23 DEF Sent, session
<1>24. CASE Interrupt
  BY <1>24 DEF Interrupt, LetGo, Swallowed, session
<1>25. CASE \E n \in 1 .. Len(published) : OnSessionState(n)
  BY <1>25 DEF OnSessionState, session, thread
<1>26. CASE \E s \in Sides, n \in 1 .. Len(published) : OnArmCommand(s, n)
  BY <1>26 DEF OnArmCommand, session, thread
<1>27. CASE StopRequest
  BY <1>27 DEF StopRequest, session, thread
<1>28. CASE StopRobot
  BY <1>28 DEF StopRobot, SoftStopOnce, CanStop, Swallowed, session, thread
<1>29. CASE StopAck
  BY <1>29 DEF StopAck, session, thread
<1>30. CASE Publish
  BY <1>30 DEF Publish, session, thread
<1>31. CASE Silence
  BY <1>31 DEF Silence, session, thread
<1>32. CASE UNCHANGED vars
  BY <1>32 DEF vars, session, thread
<1> QED
  BY <1>1, <1>2, <1>3, <1>4, <1>5, <1>6, <1>7, <1>8, <1>9, <1>10, <1>11, <1>12,
     <1>13, <1>14, <1>15, <1>16, <1>17, <1>18, <1>19, <1>20, <1>21, <1>22, <1>23,
     <1>24, <1>25, <1>26, <1>27, <1>28, <1>29, <1>30, <1>31, <1>32
  DEF Next, MainThread, Callbacks

\* However stops fall between the steps of the main thread, at most one batch is sent
\* after them.
THEOREM StopsSilence == Spec => []StopSilences
<1>1. Init => SilenceInv
  BY DEF Init, SessionInit, SilenceInv, LockInv, LateInv
<1>2. SilenceInv => StopSilences
  BY DEF SilenceInv, LateInv, StopSilences
<1> QED
  BY <1>1, <1>2, SilenceInvStep, PTL DEF Spec

-----------------------------------------------------------------------------
(* Failures.                                                               *)

\* Until it is enabled the robot is not.
AsleepInv == pc \in BeforeEnable => robot # "enabled"

\* What was opened stays connected until it is let go, which comes before the end.
ConnectedInv ==
  /\ pc \in Connecting \cup Ticking => connected
  /\ pc = "exit" /\ robot = "enabled" => ~connected

\* Nobody has asked for a stop: the session was stopped by the executor itself, and
\* the robot with it.
OwnStopInv == stop = "none" /\ softStopped => robot # "enabled" /\ pc \notin BeforeEnable

\* The arms of a session that was let go are enabled only if both calls failed.
GivenUpInv ==
  stop = "none" /\ pc \in {"fail", "exit"} /\ robot = "enabled" /\ ~connected => failures >= 2

ReleaseInv == failures \in Nat /\ AsleepInv /\ ConnectedInv /\ OwnStopInv /\ GivenUpInv

LEMMA SoftStopCounts ==
  ASSUME failures \in Nat, NEW ok \in BOOLEAN, SoftStopOnce(ok)
  PROVE  failures' \in Nat
BY DEF SoftStopOnce, CanStop, Swallowed, session

LEMMA LetGoCounts ==
  ASSUME failures \in Nat, NEW stopFirst \in BOOLEAN, NEW stopOk \in BOOLEAN,
         NEW offOk \in BOOLEAN, LetGo(stopFirst, stopOk, offOk)
  PROVE  failures' \in Nat
<1>1. failures' = failures \/ \E n \in Nat : Swallowed(n)
  BY DEF LetGo, session
<1> QED
  BY <1>1 DEF Swallowed

LEMMA ReleaseInvStep == ReleaseInv /\ [Next]_vars => ReleaseInv'
<1> SUFFICES ASSUME ReleaseInv, [Next]_vars PROVE ReleaseInv'
  OBVIOUS
<1> USE DEF ReleaseInv, AsleepInv, ConnectedInv, OwnStopInv, GivenUpInv, BeforeEnable,
      Connecting, Ticking, Outside, Goto
<1>1. CASE Begin
  BY <1>1 DEF Begin, session
<1>2. CASE Admission
  BY <1>2 DEF Admission, session
<1>3. CASE Create
  BY <1>3 DEF Create, session
<1>4. CASE Open
  BY <1>4 DEF Open, Step, Connect, session
<1>5. CASE Opened
  BY <1>5 DEF Opened, Rearm
<1>6. CASE Prepare
  <2>1. failures' \in Nat
    BY <1>6 DEF Prepare, Step, Clear, session
  <2>2. AsleepInv' /\ ConnectedInv'
    BY <1>6 DEF Prepare, Step, Clear, session
  <2>3. OwnStopInv'
    BY <1>6 DEF Prepare, Step, Clear, session
  <2>4. GivenUpInv'
    BY <1>6 DEF Prepare, Step, Clear, session
  <2> QED
    BY <2>1, <2>2, <2>3, <2>4
<1>7. CASE EnterPosition
  <2>1. failures' \in Nat
    BY <1>7 DEF EnterPosition, Step, Enable, session
  <2>2. AsleepInv' /\ ConnectedInv'
    BY <1>7 DEF EnterPosition, Step, Enable, session
  <2>3. OwnStopInv'
    BY <1>7 DEF EnterPosition, Step, Enable, session
  <2>4. GivenUpInv'
    BY <1>7 DEF EnterPosition, Step, Enable, session
  <2> QED
    BY <2>1, <2>2, <2>3, <2>4
<1>8. CASE AwaitState
  <2>1. failures' \in Nat
    BY <1>8 DEF AwaitState, Step, session
  <2>2. AsleepInv' /\ ConnectedInv'
    BY <1>8 DEF AwaitState, Step, session
  <2>3. OwnStopInv'
    BY <1>8 DEF AwaitState, Step, session
  <2>4. GivenUpInv'
    BY <1>8 DEF AwaitState, Step, session
  <2> QED
    BY <2>1, <2>2, <2>3, <2>4
<1>9. CASE Release
  BY <1>9 DEF Release, LetGo, Swallowed, session
<1>10. CASE Prepared
  BY <1>10 DEF Prepared, session
<1>11. CASE HomeFeedback
  <2>1. failures' \in Nat
    BY <1>11, SoftStopCounts DEF HomeFeedback, session
  <2>2. AsleepInv' /\ ConnectedInv'
    BY <1>11 DEF HomeFeedback, SoftStopOnce, CanStop, Swallowed, session
  <2>3. OwnStopInv'
    BY <1>11 DEF HomeFeedback, SoftStopOnce, CanStop, Swallowed, session
  <2>4. GivenUpInv'
    BY <1>11 DEF HomeFeedback, SoftStopOnce, CanStop, Swallowed, session
  <2> QED
    BY <2>1, <2>2, <2>3, <2>4
<1>12. CASE Settle
  BY <1>12 DEF Settle, session
<1>13. CASE Settled
  BY <1>13 DEF Settled, session
<1>14. CASE Fail
  BY <1>14 DEF Fail, LetGo, Swallowed, session
<1>15. CASE Read
  <2>1. failures' \in Nat
    BY <1>15, SoftStopCounts DEF Read, Trip, session
  <2>2. AsleepInv' /\ ConnectedInv'
    BY <1>15 DEF Read, Trip, SoftStopOnce, CanStop, Swallowed, session
  <2>3. OwnStopInv'
    BY <1>15 DEF Read, Trip, SoftStopOnce, CanStop, Swallowed, session
  <2>4. GivenUpInv'
    BY <1>15 DEF Read, Trip, SoftStopOnce, CanStop, Swallowed, session
  <2> QED
    BY <2>1, <2>2, <2>3, <2>4
<1>16. CASE Branch
  BY <1>16 DEF Branch, session
<1>17. CASE Write
  BY <1>17 DEF Write, session
<1>18. CASE Choose
  BY <1>18 DEF Choose, session
<1>19. CASE Fetch
  BY <1>19 DEF Fetch, session
<1>20. CASE Check
  <2>1. failures' \in Nat
    BY <1>20, SoftStopCounts DEF Check, Trip, Decide, session
  <2>2. AsleepInv' /\ ConnectedInv'
    BY <1>20 DEF Check, Trip, Decide, SoftStopOnce, CanStop, Swallowed, session
  <2>3. OwnStopInv'
    BY <1>20 DEF Check, Trip, Decide, SoftStopOnce, CanStop, Swallowed, session
  <2>4. GivenUpInv'
    BY <1>20 DEF Check, Trip, Decide, SoftStopOnce, CanStop, Swallowed, session
  <2> QED
    BY <2>1, <2>2, <2>3, <2>4
<1>21. CASE Gate
  BY <1>21 DEF Gate, Raise, Refused, Trip, SoftStopOnce, CanStop, Swallowed, session
<1>22. CASE Batch
  <2>1. failures' \in Nat
    BY <1>22, SoftStopCounts DEF Batch, Halted, Raise, Trip, session
  <2>2. AsleepInv' /\ ConnectedInv'
    BY <1>22 DEF Batch, Halted, Raise, Trip, SoftStopOnce, CanStop, Swallowed, session
  <2>3. OwnStopInv'
    BY <1>22 DEF Batch, Halted, Raise, Trip, SoftStopOnce, CanStop, Swallowed, session
  <2>4. GivenUpInv'
    BY <1>22 DEF Batch, Halted, Raise, Trip, SoftStopOnce, CanStop, Swallowed, session
  <2> QED
    BY <2>1, <2>2, <2>3, <2>4
<1>23. CASE Sent
  BY <1>23 DEF Sent, session
<1>24. CASE Interrupt
  BY <1>24 DEF Interrupt, LetGo, Swallowed, session
<1>25. CASE \E n \in 1 .. Len(published) : OnSessionState(n)
  BY <1>25 DEF OnSessionState, session, thread
<1>26. CASE \E s \in Sides, n \in 1 .. Len(published) : OnArmCommand(s, n)
  BY <1>26 DEF OnArmCommand, session, thread
<1>27. CASE StopRequest
  BY <1>27 DEF StopRequest, session, thread
<1>28. CASE StopRobot
  BY <1>28 DEF StopRobot, SoftStopOnce, CanStop, Swallowed, session, thread
<1>29. CASE StopAck
  BY <1>29 DEF StopAck, session, thread
<1>30. CASE Publish
  BY <1>30 DEF Publish, session, thread
<1>31. CASE Silence
  BY <1>31 DEF Silence, session, thread
<1>32. CASE UNCHANGED vars
  BY <1>32 DEF vars, session, thread
<1> QED
  BY <1>1, <1>2, <1>3, <1>4, <1>5, <1>6, <1>7, <1>8, <1>9, <1>10, <1>11, <1>12,
     <1>13, <1>14, <1>15, <1>16, <1>17, <1>18, <1>19, <1>20, <1>21, <1>22, <1>23,
     <1>24, <1>25, <1>26, <1>27, <1>28, <1>29, <1>30, <1>31, <1>32
  DEF Next, MainThread, Callbacks

\* A connection that fails, with nobody asking for a stop, leaves the arms enabled only
\* if two calls of the SDK failed as well (connect, _release_after_prepare_failure).
THEOREM FailuresAreSafe == Spec => []FailsSafe
<1>1. Init => ReleaseInv
  BY DEF Init, SessionInit, ReleaseInv, AsleepInv, ConnectedInv, OwnStopInv, GivenUpInv,
         BeforeEnable, Connecting, Ticking
<1>2. ReleaseInv => FailsSafe
  BY DEF ReleaseInv, ConnectedInv, GivenUpInv, FailsSafe
<1> QED
  BY <1>1, <1>2, ReleaseInvStep, PTL DEF Spec

-----------------------------------------------------------------------------
(* A fault.                                                                *)

InputsOK ==
  /\ published \in Seq(Phases) /\ Len(published) >= 1
  /\ stateSeen \in 0 .. Len(published)
  /\ commandSeen \in [Sides -> 0 .. Len(published)]

\* The coordinator goes from phase to phase as it may.
OrderInv ==
  \A n \in 1 .. Len(published) - 1 : published[n + 1] \in Follows[published[n]]

Faulted == published[Len(published)] = "fault"

\* Who returns because of a fault has heard of it, which no one does on the first way
\* Home, ...
KnownInv ==
  /\ pc = "homeFeedback" => plan = "home"
  /\ phase = "fault_return" => Faulted
  /\ pc \in {"write", "choose", "fetch", "check", "gate", "batch"} /\ plan = "bounded" => Faulted
  /\ plan = "fault_return" => Faulted

\* ... and no command of teleop follows those it has seen and decided to send.
HomewardInv ==
  plan = "bounded" =>
    /\ pc = "fetch" =>
         \A s \in Sides : \A n \in commandSeen[s] .. Len(published) :
           n > 0 => published[n] # "teleop"
    /\ pc \in {"check", "gate", "batch"} => carry # "teleop"

FaultInv == InputsOK /\ OrderInv /\ KnownInv /\ HomewardInv

\* Whatever is known to have been published, at most one phase is added to it, and none
\* to a fault.
LEMMA PublishedStep ==
  ASSUME InputsOK, [Next]_vars
  PROVE  \/ published' = published
         \/ \E p \in Follows[published[Len(published)]] : published' = Append(published, p)
<1>1. CASE Publish
  BY <1>1 DEF Publish
<1>2. CASE ~Publish
  BY <1>2 DEF Next, MainThread, Callbacks, vars, coordinator, Outside, Begin, Admission, Create,
     Open, Opened, Prepare, EnterPosition, AwaitState, Step, Release, Prepared, HomeFeedback,
     Settle, Settled, Fail, Read, Branch, Write, Choose, Fetch, Check, Gate, Batch, Sent,
     Interrupt, OnSessionState, OnArmCommand, StopRequest, StopRobot, StopAck, Silence
<1> QED
  BY <1>1, <1>2

LEMMA SeenStep ==
  ASSUME InputsOK, [Next]_vars
  PROVE  /\ stateSeen' = stateSeen \/ stateSeen' \in 1 .. Len(published)
         /\ \/ commandSeen' = commandSeen
            \/ \E s \in Sides, n \in 1 .. Len(published) :
                 n >= commandSeen[s] /\ commandSeen' = [commandSeen EXCEPT ![s] = n]
  BY DEF Next, MainThread, Callbacks, vars, inputs, Outside, Begin, Admission, Create,
     Open, Opened, Prepare, EnterPosition, AwaitState, Step, Release, Prepared, HomeFeedback,
     Settle, Settled, Fail, Read, Branch, Write, Choose, Fetch, Check, Gate, Batch, Sent,
     Interrupt, OnSessionState, OnArmCommand, StopRequest, StopRobot, StopAck, Silence, Publish

LEMMA InputsStep == InputsOK /\ OrderInv /\ [Next]_vars => InputsOK' /\ OrderInv'
<1> SUFFICES ASSUME InputsOK, OrderInv, [Next]_vars PROVE InputsOK' /\ OrderInv'
  OBVIOUS
<1> DEFINE last == published[Len(published)]
<1>1. last \in Phases /\ Follows[last] \subseteq Phases
  BY DEF InputsOK, Follows, Phases
<1>2. /\ published' \in Seq(Phases) /\ Len(published') >= Len(published)
      /\ OrderInv'
  <2>1. CASE published' = published
    BY <2>1 DEF InputsOK, OrderInv
  <2>2. ASSUME NEW p \in Follows[last], published' = Append(published, p)
        PROVE  /\ published' \in Seq(Phases) /\ Len(published') = Len(published) + 1
               /\ OrderInv'
    <3>1. published \in Seq(Phases) /\ p \in Phases
      BY <1>1, <2>2 DEF InputsOK
    <3>2. /\ Len(published') = Len(published) + 1
          /\ \A n \in 1 .. Len(published) : published'[n] = published[n]
          /\ published'[Len(published) + 1] = p
      BY <2>2, <3>1
    <3>3. ASSUME NEW n \in 1 .. Len(published') - 1
          PROVE  published'[n + 1] \in Follows[published'[n]]
      <4>1. CASE n = Len(published)
        BY <2>2, <3>1, <3>2, <4>1
      <4>2. CASE n # Len(published)
        <5>1. n \in 1 .. Len(published) - 1
          BY <3>1, <3>2, <4>2
        <5> QED
          BY <3>1, <3>2, <5>1 DEF OrderInv
      <4> QED
        BY <4>1, <4>2
    <3> QED
      BY <2>2, <3>1, <3>2, <3>3 DEF OrderInv
  <2> QED
    BY <2>1, <2>2, PublishedStep DEF InputsOK
<1>3. stateSeen' \in 0 .. Len(published') /\ commandSeen' \in [Sides -> 0 .. Len(published')]
  BY <1>2, SeenStep DEF InputsOK
<1> QED
  BY <1>2, <1>3 DEF InputsOK

\* Nothing follows a fault, ...
LEMMA FaultIsLast ==
  ASSUME InputsOK, OrderInv, NEW n \in 1 .. Len(published), published[n] = "fault"
  PROVE  Faulted
<1>1. CASE n = Len(published)
  BY <1>1 DEF Faulted
<1>2. CASE n # Len(published)
  <2>1. n \in 1 .. Len(published) - 1
    BY <1>2 DEF InputsOK
  <2>2. published[n + 1] \in Follows["fault"]
    BY <2>1 DEF OrderInv
  <2> QED
    BY <2>2 DEF Follows, Phases
<1> QED
  BY <1>1, <1>2

\* ... so that nothing is published in one.
LEMMA FaultStays ==
  ASSUME InputsOK, Faulted, [Next]_vars
  PROVE  published' = published /\ Faulted'
BY PublishedStep DEF Faulted, Follows, Phases

\* A message can only tell of a fault that has happened.
LEMMA HeardFault ==
  ASSUME InputsOK, OrderInv, SessionState = "fault"
  PROVE  Faulted
<1>1. stateSeen \in 1 .. Len(published) /\ published[stateSeen] = "fault"
  BY DEF InputsOK, SessionState
<1> QED
  BY <1>1, FaultIsLast

LEMMA KnownStep ==
  ASSUME FaultInv, [Next]_vars
  PROVE  KnownInv'
<1> USE DEF FaultInv, KnownInv, Outside, Goto
<1>1. Faulted => Faulted'
  BY FaultStays
<1>2. CASE Begin
  BY <1>1, <1>2 DEF Begin
<1>3. CASE Admission
  BY <1>1, <1>3 DEF Admission
<1>4. CASE Create
  BY <1>1, <1>4 DEF Create
<1>5. CASE Open \/ Prepare \/ EnterPosition \/ AwaitState
  BY <1>1, <1>5 DEF Open, Prepare, EnterPosition, AwaitState, Step
<1>6. CASE Opened
  BY <1>1, <1>6 DEF Opened
<1>7. CASE Release
  BY <1>1, <1>7 DEF Release
<1>8. CASE Prepared
  BY <1>1, <1>8 DEF Prepared
<1>9. CASE HomeFeedback
  BY <1>1, <1>9 DEF HomeFeedback
<1>10. CASE Settle
  BY <1>1, <1>10, HeardFault DEF Settle
<1>11. CASE Settled
  BY <1>1, <1>11 DEF Settled
<1>12. CASE Fail
  BY <1>1, <1>12 DEF Fail
<1>13. CASE Read
  BY <1>1, <1>13 DEF Read, Trip
<1>14. CASE Branch
  <2>1. SessionState \in Phases \cup {"none"}
    BY DEF SessionState, InputsOK
  <2>2. \/ plan' = "bounded" /\ phase = "fault_return"
        \/ plan' \notin {"bounded", "fault_return"}
    BY <1>14, <2>1, Zenon DEF Branch, Phases
  <2> QED
    BY <1>1, <1>14, <2>2 DEF Branch, coordinator
<1>15. CASE Write
  BY <1>1, <1>15 DEF Write
<1>16. CASE Choose
  BY <1>1, <1>16 DEF Choose
<1>17. CASE Fetch
  BY <1>1, <1>17 DEF Fetch
<1>18. CASE Check
  BY <1>1, <1>18 DEF Check, Trip
<1>19. CASE Gate
  BY <1>1, <1>19 DEF Gate, Raise, Trip
<1>20. CASE Batch
  BY <1>1, <1>20 DEF Batch, Raise, Trip
<1>21. CASE Sent
  BY <1>1, <1>21 DEF Sent
<1>22. CASE Interrupt
  BY <1>1, <1>22 DEF Interrupt
<1>23. ASSUME NEW n \in 1 .. Len(published), OnSessionState(n) PROVE KnownInv'
  <2>1. phase' = "fault_return" => phase = "fault_return" \/ published[n] = "fault"
    BY <1>23 DEF OnSessionState, PhaseAfter
  <2> QED
    BY <1>1, <1>23, <2>1, FaultIsLast DEF OnSessionState, thread
<1>24. ASSUME NEW s \in Sides, NEW n \in 1 .. Len(published), OnArmCommand(s, n)
       PROVE  KnownInv'
  BY <1>1, <1>24 DEF OnArmCommand, thread
<1>25. CASE StopRequest \/ StopRobot \/ StopAck
  BY <1>1, <1>25 DEF StopRequest, StopRobot, StopAck, thread
<1>26. CASE Publish \/ Silence \/ UNCHANGED vars
  BY <1>1, <1>26 DEF Publish, Silence, vars, thread
<1> QED
  BY <1>2, <1>3, <1>4, <1>5, <1>6, <1>7, <1>8, <1>9, <1>10, <1>11, <1>12, <1>13, <1>14, <1>15,
     <1>16, <1>17, <1>18, <1>19, <1>20, <1>21, <1>22, <1>23, <1>24, <1>25, <1>26
  DEF Next, MainThread, Callbacks

\* A fresh command that returns is at most two phases behind; between it and the fault
\* the coordinator can only have been idle.
LEMMA NoTeleopAhead ==
  ASSUME FaultInv, Faulted, MaxLag <= 3, PairReturning, NEW s \in Sides,
         NEW n \in commandSeen[s] .. Len(published)
  PROVE  published[n] # "teleop"
<1> DEFINE c == commandSeen[s]
           L == Len(published)
<1>1. L \in Nat /\ c \in 0 .. L /\ MaxLag \in Nat
  BY ExecutorAssumption DEF FaultInv, InputsOK
<1>2. CommandMode(s) = "returning" /\ c + MaxLag > L
  BY DEF PairReturning, PairFresh, OnTime
<1>3. c # 0 /\ published[c] \in {"returning", "fault"}
  BY <1>2 DEF CommandMode, Mode
<1>4. L = c \/ L = c + 1 \/ L = c + 2
  BY <1>1, <1>2
<1>5. n = L \/ n = c \/ (L = c + 2 /\ n = c + 1)
  BY <1>1, <1>4
<1>6. CASE L = c + 2 /\ n = c + 1
  <2>1. published[c + 1] \in Follows[published[c]]
    BY <1>1, <1>3, <1>6 DEF FaultInv, OrderInv
  <2> QED
    BY <1>3, <1>6, <2>1 DEF Follows, Phases
<1> QED
  BY <1>3, <1>5, <1>6 DEF Faulted

LEMMA HomewardStep ==
  ASSUME FaultInv, MaxLag <= 3, [Next]_vars
  PROVE  HomewardInv'
<1> USE DEF FaultInv, HomewardInv, Outside, Goto
<1>1. CASE Begin
  BY <1>1 DEF Begin
<1>2. CASE Admission
  BY <1>2 DEF Admission
<1>3. CASE Create
  BY <1>3 DEF Create
<1>4. CASE Open \/ Prepare \/ EnterPosition \/ AwaitState
  BY <1>4 DEF Open, Prepare, EnterPosition, AwaitState, Step
<1>5. CASE Opened
  BY <1>5 DEF Opened
<1>6. CASE Release
  BY <1>6 DEF Release
<1>7. CASE Prepared
  BY <1>7 DEF Prepared
<1>8. CASE HomeFeedback
  BY <1>8 DEF HomeFeedback, KnownInv
<1>9. CASE Settle
  BY <1>9 DEF Settle
<1>10. CASE Settled
  BY <1>10 DEF Settled
<1>11. CASE Fail
  BY <1>11 DEF Fail
<1>12. CASE Read
  BY <1>12 DEF Read, Trip
<1>13. CASE Branch
  BY <1>13 DEF Branch
<1>14. CASE Write
  BY <1>14 DEF Write
<1>15. CASE Choose
  <2>1. CASE plan = "bounded" /\ PairReturning
    BY <1>15, <2>1, NoTeleopAhead DEF Choose, KnownInv, coordinator, inputs
  <2>2. CASE ~(plan = "bounded" /\ PairReturning)
    BY <1>15, <2>2 DEF Choose
  <2> QED
    BY <2>1, <2>2
<1>16. CASE Fetch
  <2>1. plan = "bounded" => \A s \in Sides : CommandMode(s) # "teleop"
    <3>1. ASSUME plan = "bounded", NEW s \in Sides, CommandMode(s) = "teleop"
          PROVE  FALSE
      <4>1. commandSeen[s] \in 1 .. Len(published) /\ published[commandSeen[s]] = "teleop"
        BY <3>1 DEF CommandMode, Mode, InputsOK
      <4> QED
        BY <1>16, <3>1, <4>1 DEF Fetch
    <3> QED
      BY <3>1
  <2> QED
    BY <1>16, <2>1 DEF Fetch
<1>17. CASE Check
  BY <1>17 DEF Check, Decide, Trip
<1>18. CASE Gate
  BY <1>18 DEF Gate, Raise, Trip
<1>19. CASE Batch
  BY <1>19 DEF Batch, Raise, Trip
<1>20. CASE Sent
  BY <1>20 DEF Sent
<1>21. CASE Interrupt
  BY <1>21 DEF Interrupt
<1>22. ASSUME NEW n \in 1 .. Len(published), OnSessionState(n) PROVE HomewardInv'
  BY <1>22 DEF OnSessionState, coordinator, thread
<1>23. ASSUME NEW s \in Sides, NEW n \in 1 .. Len(published), OnArmCommand(s, n)
       PROVE  HomewardInv'
  BY <1>23 DEF OnArmCommand, coordinator, thread, InputsOK
<1>24. CASE StopRequest \/ StopRobot \/ StopAck
  BY <1>24 DEF StopRequest, StopRobot, StopAck, coordinator, inputs, thread
<1>25. CASE Publish
  BY <1>25, FaultStays DEF Publish, KnownInv, inputs, thread
<1>26. CASE Silence \/ UNCHANGED vars
  BY <1>26 DEF Silence, vars, coordinator, inputs, thread
<1> QED
  BY <1>1, <1>2, <1>3, <1>4, <1>5, <1>6, <1>7, <1>8, <1>9, <1>10, <1>11, <1>12, <1>13, <1>14,
     <1>15, <1>16, <1>17, <1>18, <1>19, <1>20, <1>21, <1>22, <1>23, <1>24, <1>25, <1>26
  DEF Next, MainThread, Callbacks

LEMMA FaultInvariant == MaxLag <= 3 => (Spec => []FaultInv)
<1> SUFFICES ASSUME MaxLag <= 3 PROVE Spec => []FaultInv
  OBVIOUS
<1>1. Init => FaultInv
  <2> SUFFICES ASSUME Init PROVE FaultInv
    OBVIOUS
  <2>1. PICK p \in Phases : published = <<p>>
    BY DEF Init
  <2> QED
    BY <2>1 DEF Init, FaultInv, InputsOK, OrderInv, KnownInv, HomewardInv
<1>2. FaultInv /\ [Next]_vars => FaultInv'
  BY InputsStep, KnownStep, HomewardStep DEF FaultInv
<1> QED
  BY <1>1, <1>2, PTL DEF Spec

\* If the coordinator never makes three changes of phase while a command stays fresh
\* (command_timeout_s), a tick that knows of a fault sends no command of teleop,
\* whatever arrives while it decides (_bounded_fault_return).
THEOREM FaultsGoHome == MaxLag <= 3 => (Spec => FaultHomeward)
<1> SUFFICES ASSUME MaxLag <= 3 PROVE Spec => FaultHomeward
  OBVIOUS
<1>1. FaultInv /\ [Next]_vars => [BatchSent /\ plan = "bounded" => carry # "teleop"]_vars
  BY DEF FaultInv, HomewardInv, BatchSent
<1> QED
  BY <1>1, FaultInvariant, PTL DEF Spec, FaultHomeward
=============================================================================
