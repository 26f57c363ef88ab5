------------------------------ MODULE MCHands ------------------------------
(***************************************************************************)
(* Small instances of the two hand executors for TLC: the Wuji hand bridge,  *)
(* and the executor in Python.  In a behaviour one of them is at work and    *)
(* the other stays as it begins.                                             *)
(***************************************************************************)
EXTENDS HandBridgeProperties, Sequences

CONSTANT Absent   \* no input yet

VARIABLES
  part,   \* the executor at work
  handMode, handSession, mail, handState, stateAge, input, handInputAge, accepting,
  healthy, handLocked, acked, handPosition, handPc

hand == <<handMode, handSession, mail, handState, stateAge, input, handInputAge, accepting,
          healthy, handLocked, acked, handPosition, handPc>>

Hand == INSTANCE HandExecutor WITH
  Far <- 1, Tolerance <- 1, Timeout <- 0, MaxMail <- 1, None <- Absent,
  mode <- handMode, session <- handSession, state <- handState, inputAge <- handInputAge,
  locked <- handLocked, position <- handPosition, pc <- handPc

ASSUME HandExecutorAssumption == Hand!HandAssumption

\* A session and its end.
Session == <<"teleop", "returning">>

\* The last is beyond the limits.
Wanted == {0, 2, 3}

-----------------------------------------------------------------------------
HandsInit ==
  /\ part \in {"bridge", "hand"}
  /\ Init /\ (part # "bridge" => mode = "direct" /\ dry /\ locked)
  /\ Hand!HandInit /\ (part # "hand" => handMode = "direct")

HandsNext ==
  /\ part' = part
  /\ \/ part = "bridge" /\ Next /\ UNCHANGED hand
     \/ part = "hand" /\ Hand!HandNext /\ UNCHANGED vars

\* The fairness of each, when it is at work.
HandsFairness ==
  /\ WF_vars(part = "bridge" /\ Tick) /\ WF_vars(part = "bridge" /\ Elapse)
  /\ WF_hand(part = "hand" /\ Hand!TickBegins) /\ WF_hand(part = "hand" /\ Hand!TickLooks)
  /\ WF_hand(part = "hand" /\ Hand!TickFollows) /\ WF_hand(part = "hand" /\ Hand!TickRests)
  /\ WF_hand(part = "hand" /\ Hand!HandClock) /\ WF_hand(part = "hand" /\ Hand!AcceptInput)

HandsSafeSpec == HandsInit /\ [][HandsNext]_<<part, vars, hand>>
HandsSpec == HandsSafeSpec /\ HandsFairness

\* The executor in Python brings its hand to zero when the session is over
\* (HandExecutor!ComesToZero; tick, _expire_to_return).
HandComesToZero == part = "hand" => Hand!ComesToZero
=============================================================================
