-------------------------- MODULE SessionHandshake --------------------------
(***************************************************************************)
(* A source and the coordinator: intents one way; session state and two    *)
(* latches the other, on three keys that are ordered each but not with     *)
(* each other (sources/common/session_client.py: `Zenoh does not order     *)
(* callbacks across independent keys').                                    *)
(*                                                                         *)
(* The coordinator is the session authority with its sequence: history     *)
(* lists every state it ever published or could be asked for, and the      *)
(* three messages of sequence n are the parts of history[n].  Field own is *)
(* not part of a message: it says whose intent gave the state its number,  *)
(* which no number tells, as every process counts its own intents from 1.  *)
(***************************************************************************)
EXTENDS LiveSource

CONSTANTS
  Ordered,      \* nothing is lost, and samples arrive in the order of publication
  ForeignSeqs,  \* sequence numbers of intents of sources that have no authority
  MaxSeq,       \* bound on the coordinator's sequence
  MaxIntents    \* bound on the source's requests

ASSUME HandshakeAssumption ==
  /\ Ordered \in BOOLEAN
  /\ ForeignSeqs \subseteq Nat
  /\ MaxSeq \in Nat
  /\ MaxIntents \in Nat

VARIABLES
  state, atHome, returnComplete, away,  \* the session authority
  history,     \* what the coordinator's sequence numbers stand for
  delivered    \* per key, the last sequence number delivered as a sample

Authority == INSTANCE SessionAuthority

authority == <<state, atHome, returnComplete, away>>
vars == <<source, authority, history, delivered>>

\* The message of sequence n on a key.
Message(k, n) ==
  CASE k = "state" -> [seq |-> n, state |-> history[n].state, intent |-> history[n].intent]
    [] k = "home" -> [seq |-> n, value |-> history[n].home]
    [] k = "complete" -> [seq |-> n, value |-> history[n].complete]

-----------------------------------------------------------------------------
(* The coordinator.                                                        *)

\* The current phase and latches get the next sequence number; own says whether the
\* intent is one of the source's requests, published whether they are sent or only
\* kept for a query.
Record(intent, own, published) ==
  /\ Len(history) < MaxSeq
  /\ history' = Append(history,
       [state |-> state', intent |-> intent, own |-> own, home |-> atHome',
        complete |-> returnComplete', published |-> published])
  /\ UNCHANGED delivered

\* A tick and a fault keep the number of the intent before.
RecordAgain(published) ==
  LET last == history[Len(history)] IN Record(last.intent, last.own, published)

CoordinatorTick ==
  /\ Authority!Advance
  /\ RecordAgain(TRUE)
  /\ UNCHANGED source

\* A callback that refuses a message; the next tick publishes the fault.
CoordinatorFault ==
  /\ Authority!RaiseFault
  /\ RecordAgain(FALSE)
  /\ UNCHANGED source

\* An intent that is refused is answered with the phase it leaves unchanged.
\* A start is refused for many reasons, a return only in a fault.
Refuse(intent, own) ==
  /\ UNCHANGED authority
  /\ Record(intent, own, TRUE)

HandleIntent ==
  /\ intents # <<>>
  /\ \/ /\ Head(intents).action = "start"
        /\ Authority!AcceptStart
        /\ Record(Head(intents).intent, TRUE, TRUE)
     \/ /\ Head(intents).action = "return"
        /\ Authority!AcceptReturn
        /\ Record(Head(intents).intent, TRUE, TRUE)
     \/ /\ Head(intents).action = "start" \/ state = "fault"
        /\ Refuse(Head(intents).intent, TRUE)
  /\ intents' = Tail(intents)
  /\ UNCHANGED <<client, node>>

HandleForeignIntent ==
  /\ \E i \in ForeignSeqs : Refuse(i, FALSE)
  /\ UNCHANGED source

-----------------------------------------------------------------------------
(* Delivery.                                                               *)

\* In order: the three messages of one publication before those of the next.
InTurn(k, n) ==
  /\ \A m \in delivered[k] + 1 .. n - 1 : ~history[m].published
  /\ CASE k = "state" -> delivered["complete"] = delivered["state"]
       [] k = "home" -> delivered["state"] = n
       [] k = "complete" -> delivered["home"] = n

Deliver(k, n) ==
  /\ history[n].published
  /\ Ordered => InTurn(k, n)
  /\ OnSample(k, Message(k, n))
  /\ delivered' = [delivered EXCEPT ![k] = n]
  /\ UNCHANGED <<node, intents, authority, history>>

\* A key is queried once; the answer is the current message of the key, and
\* may be overtaken by samples published after it.
AnswerQuery(k, n) ==
  /\ replies[k] = -1
  /\ OnReply(k, Message(k, n))
  /\ UNCHANGED <<node, intents, authority, history, delivered>>

ForeignCoordinator ==
  /\ OnForeign
  /\ UNCHANGED <<node, intents, authority, history, delivered>>

LoseIntent ==
  /\ ~Ordered
  /\ intents # <<>>
  /\ intents' = Tail(intents)
  /\ UNCHANGED <<client, node, authority, history, delivered>>

-----------------------------------------------------------------------------
Init ==
  /\ SourceInit
  /\ Authority!Init
  /\ history = <<[state |-> "idle", intent |-> 0, own |-> TRUE, home |-> TRUE,
                  complete |-> FALSE, published |-> FALSE]>>
  /\ delivered = [k \in Keys |-> 1]

SourceStep ==
  /\ \/ /\ lastIntent < MaxIntents
        /\ RequestStart \/ ObeyReturnKey \/ FrameTrouble \/ InputsLost
     \/ ReturnKey
     \/ QuitKey
     \/ Started
     \/ StartRefused
     \/ ReturnDone
     \/ ReturnOverdue
     \/ Waiting
     \/ NodeClock
  /\ UNCHANGED <<authority, history, delivered>>

Next ==
  \/ SourceStep
  \/ CoordinatorTick
  \/ CoordinatorFault
  \/ HandleIntent
  \/ HandleForeignIntent
  \/ \E k \in Keys : \E n \in delivered[k] + 1 .. Len(history) : Deliver(k, n)
  \/ \E k \in Keys : \E n \in 1 .. Len(history) : AnswerQuery(k, n)
  \/ ForeignCoordinator
  \/ LoseIntent

Spec == Init /\ [][Next]_vars
=============================================================================
