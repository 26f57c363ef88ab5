---------------------------- MODULE SessionClient ----------------------------
(***************************************************************************)
(* The session client of a source (sources/common/session_client.py): what *)
(* it believes about the coordinator's session state and its two latches,  *)
(* and the intent it waits for.  The three are published on keys of their  *)
(* own and queried one by one; every callback and every question of the    *)
(* source runs under the client's lock and is one action.                  *)
(*                                                                         *)
(* A deadline is the number of clock units left before it passes.          *)
(***************************************************************************)
EXTENDS Integers

CONSTANTS
  PendingTimeout,   \* timeout_s of a request
  SnapshotTimeout,  \* snapshot_timeout_s
  None              \* the absence of a message

ASSUME ClientAssumption == PendingTimeout \in Nat /\ SnapshotTimeout \in Nat

Keys == {"state", "home", "complete"}

\* A SessionState and a LatchedBool of the expected coordinator.
StateMessage == [seq : Nat, state : {"idle", "teleop", "returning", "fault"}, intent : Nat]
Latch == [seq : Nat, value : BOOLEAN]

ASSUME NoneAssumption == None \notin StateMessage \cup Latch

VARIABLES
  cache,         \* _state, _at_home, _return_complete
  sampleSeq,     \* _coordinator_origin_sequences of the subscriptions
  replies,       \* _query_sequences: sequence of a key's query reply, or -1
  snapshot,      \* _snapshot_event: the three replies fit together
  snapshotLeft,  \* time left for the replies
  timedOut,      \* _snapshot_timed_out
  invalid,       \* _invalid_coordinator
  pending,       \* _pending_action and _pending_intent_sequence
  pendingLeft,   \* time left for the answer to it
  baseline,      \* _intent_baselines of the pending intent
  lastIntent     \* last sequence allocated for an intent

query == <<replies, snapshot, snapshotLeft, timedOut>>
request == <<pending, pendingLeft, baseline, lastIntent>>
client == <<cache, sampleSeq, query, invalid, request>>

NoRequest == [action |-> "none", intent |-> 0]

ClientInit ==
  /\ cache = [k \in Keys |-> None]
  /\ sampleSeq = [k \in Keys |-> -1]
  /\ replies = [k \in Keys |-> -1]
  /\ snapshot = FALSE
  /\ snapshotLeft = SnapshotTimeout
  /\ timedOut = FALSE
  /\ invalid = FALSE
  /\ pending = NoRequest
  /\ pendingLeft = 0
  /\ baseline = [k \in Keys |-> -1]
  /\ lastIntent = 0

\* The sequence number last seen on a key, -1 before any.
Seen(k) == IF cache[k] = None THEN -1 ELSE cache[k].seq

-----------------------------------------------------------------------------
(* Messages of the coordinator.                                            *)

\* [mutant] the two origins of a key are not compared
Newest_OwnOrigin(k, m) == TRUE

\* A query reply and a sample of one key may overtake each other.
Newest(k, m) == m.seq >= Seen(k)

\* A published state that answers the pending start with another phase refuses
\* it.
Remember(k, m) ==
  /\ cache' = [cache EXCEPT ![k] = m]
  /\ IF /\ k = "state"
        /\ pending.action = "start" /\ m.intent = pending.intent
        /\ m.state # "teleop"
     THEN pending' = NoRequest /\ pendingLeft' = 0
     ELSE UNCHANGED <<pending, pendingLeft>>
  /\ UNCHANGED <<baseline, lastIntent>>

\* _on_state_payload and _on_latched_payload, whatever brought the message.
Consider(k, m, newer) ==
  IF newer /\ Newest(k, m)
  THEN Remember(k, m)
  ELSE UNCHANGED <<cache, request>>

OnSample(k, m) ==
  /\ Consider(k, m, m.seq > sampleSeq[k])
  /\ sampleSeq' = [sampleSeq EXCEPT ![k] = IF m.seq > @ THEN m.seq ELSE @]
  /\ UNCHANGED <<query, invalid>>

\* The snapshots taken one after the other are in the order of the queries.
SnapshotOrdered(seqs) ==
  seqs["state"] <= seqs["home"] /\ seqs["home"] <= seqs["complete"]

\* The one reply to the query of a key: it may be older than what a sample
\* brought, and still counts.
OnReply(k, m) ==
  /\ Consider(k, m, TRUE)
  /\ IF invalid
     THEN UNCHANGED <<replies, snapshot, invalid>>
     ELSE /\ replies' = [replies EXCEPT ![k] = m.seq]
          /\ IF \A j \in Keys : replies'[j] # -1
             THEN /\ snapshot' = SnapshotOrdered(replies')
                  /\ invalid' = ~SnapshotOrdered(replies')
             ELSE UNCHANGED <<snapshot, invalid>>
  /\ UNCHANGED <<sampleSeq, snapshotLeft, timedOut>>

\* A message of another router or of another coordinator instance, a query
\* answered with an error, or answered twice.
OnForeign ==
  /\ invalid' = TRUE
  /\ UNCHANGED <<cache, sampleSeq, query, request>>

-----------------------------------------------------------------------------
(* Requests and the questions a source asks.                               *)

\* [mutant] any teleop will do
StartAuthorized_AnyIntent ==
  /\ cache["state"] # None
  /\ cache["state"].state = "teleop"
  /\ pending.action = "start"
  /\ ~invalid

StartAuthorized ==
  /\ cache["state"] # None
  /\ cache["state"].state = "teleop"
  /\ pending.action = "start"
  /\ cache["state"].intent = pending.intent
  /\ ~invalid

ReturnAuthorized ==
  /\ pending.action = "return"
  /\ cache["state"] # None
  /\ cache["state"].intent = pending.intent
  /\ cache["state"].state \in {"returning", "idle"}

\* [mutant] the coordinator's word that it is returning is enough
ReturnCompletionFresh_StateOnly == ReturnAuthorized

ReturnCompletionFresh ==
  /\ ReturnAuthorized
  /\ \A k \in {"home", "complete"} :
       cache[k] # None /\ cache[k].value /\ cache[k].seq > baseline[k]

\* [mutant] a source need not wait for the replies
StartupReady_NoBarrier == ~timedOut /\ ~invalid

\* With the poll it starts with, which may notice that the replies are late.
StartupReady == snapshot /\ ~timedOut /\ ~invalid

\* _poll_timeout_locked.  The pending request is dropped when its time is over
\* and the last state is not an answer to it.
Answered ==
  /\ cache["state"] # None
  /\ cache["state"].intent = pending.intent
  /\ \/ pending.action = "start" /\ cache["state"].state = "teleop"
     \/ pending.action = "return" /\ cache["state"].state \in {"returning", "idle"}

PollDrops == pending.action # "none" /\ pendingLeft = 0 /\ ~Answered

NothingPending == pending.action = "none" \/ PollDrops

PollSnapshot == timedOut' = (timedOut \/ (~snapshot /\ snapshotLeft = 0))

Poll ==
  /\ PollSnapshot
  /\ pending' = IF PollDrops THEN NoRequest ELSE pending
  /\ UNCHANGED <<cache, sampleSeq, replies, snapshot, snapshotLeft, invalid,
                 pendingLeft, baseline, lastIntent>>

\* _request, with the poll it starts with.  The intent is published next.
Request(action) ==
  /\ PollSnapshot
  /\ lastIntent' = lastIntent + 1
  /\ pending' = [action |-> action, intent |-> lastIntent + 1]
  /\ pendingLeft' = PendingTimeout
  /\ baseline' = [k \in Keys |-> Seen(k)]
  /\ UNCHANGED <<cache, sampleSeq, replies, snapshot, snapshotLeft, invalid>>

Sooner(n) == IF n = 0 THEN 0 ELSE n - 1

ClientClock ==
  /\ snapshotLeft' = Sooner(snapshotLeft)
  /\ pendingLeft' = Sooner(pendingLeft)
  /\ UNCHANGED <<cache, sampleSeq, replies, snapshot, timedOut, invalid,
                 pending, baseline, lastIntent>>
=============================================================================
