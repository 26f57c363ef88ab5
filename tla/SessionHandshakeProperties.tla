--------------------- MODULE SessionHandshakeProperties ---------------------
(***************************************************************************)
(* What a source may conclude from what it hears of the coordinator.       *)
(***************************************************************************)
EXTENDS SessionHandshake

Entry == [state : {"idle", "teleop", "returning", "fault"}, intent : Nat,
          own : BOOLEAN, home : BOOLEAN, complete : BOOLEAN, published : BOOLEAN]
Actions == {"start", "return"}
SourcePhases == {"armed", "start_pending", "teleop", "returning", "fault", "closed"}

ClientTypeOK ==
  /\ cache \in [Keys -> StateMessage \cup Latch \cup {None}]
  /\ sampleSeq \in [Keys -> Nat \cup {-1}]
  /\ replies \in [Keys -> Nat \cup {-1}]
  /\ snapshot \in BOOLEAN
  /\ snapshotLeft \in 0 .. SnapshotTimeout
  /\ timedOut \in BOOLEAN
  /\ invalid \in BOOLEAN
  /\ pending \in [action : Actions \cup {"none"}, intent : Nat]
  /\ pendingLeft \in 0 .. PendingTimeout
  /\ baseline \in [Keys -> Nat \cup {-1}]
  /\ lastIntent \in Nat

\* Type correctness: every variable of SessionHandshake has its type.
TypeOK ==
  /\ ClientTypeOK
  /\ phase \in SourcePhases
  /\ returnLeft \in 0 .. ReturnTimeout
  /\ keyReturn \in BOOLEAN
  /\ intents \in Seq([action : Actions, intent : Nat])
  /\ Authority!TypeInvariant
  /\ history \in Seq(Entry) /\ history # <<>>
  /\ delivered \in [Keys -> Nat]

\* Everything the client remembers was the coordinator's at the sequence number
\* it came with (_on_state_payload, _on_latched_payload).
CacheGenuine ==
  \A k \in Keys : cache[k] # None =>
    /\ cache[k].seq \in 1 .. Len(history)
    /\ cache[k] = Message(k, cache[k].seq)

\* The reply to a query never makes the client know less than it says, and the
\* startup barrier is passed with three replies that fit together (_mark_query).
SnapshotFits ==
  /\ \A k \in Keys : replies[k] # -1 => Seen(k) >= replies[k]
  /\ snapshot => (\A k \in Keys : replies[k] # -1) /\ SnapshotOrdered(replies)

\* The pending request is the last one made.
PendingIsLast == pending.action # "none" => pending.intent = lastIntent

\* The inductive invariant behind the action properties below.
HandshakeInv == TypeOK /\ CacheGenuine /\ SnapshotFits /\ PendingIsLast

\* What a key told the client is never replaced by something older, however a
\* query reply, late or early, races with the samples (_accept_coordinator).
CacheMonotone == [][\A k \in Keys : Seen(k)' >= Seen(k)]_vars

\* A source asks for a start only when it knows all three keys at least as well
\* as their replies, which were taken in the order of the queries: it never
\* starts on a latch from before the state it has seen (startup_ready).
StartOnSnapshot ==
  [][phase = "armed" /\ phase' = "start_pending" =>
       /\ \A k \in Keys : replies[k] # -1 /\ Seen(k) >= replies[k]
       /\ replies["state"] <= replies["home"] /\ replies["home"] <= replies["complete"]]_vars

\* The state the source goes by got its number from one of the source's requests.
GoesByOwn == history[cache["state"].seq].own

\* Entry n belongs to a session that began, at m, when a start of the source was accepted.
OwnSession(n) ==
  \E m \in 2 .. n :
    /\ history[m - 1].state = "idle" /\ history[m].own
    /\ \A j \in m .. n : history[j].state = "teleop"

\* A source goes to teleop only once the coordinator has handled the very start it waits
\* for, and was then in a session of this source: it accepted that start, or refused it
\* with `start requires idle` because a session that an earlier start began was still
\* running; never on what is left of a session before, whatever is lost or late
\* (start_authorized).  The refusal of another source's intent of the same number
\* (arm_command_coordinator.py 626-632) is exempted: it may be that of a session before.
TeleopWasGranted ==
  [][phase # "teleop" /\ phase' = "teleop" /\ GoesByOwn =>
       \E n \in 1 .. Len(history) :
         /\ history[n].own /\ history[n].intent = lastIntent
         /\ OwnSession(n)]_vars

\* A source takes a return for complete when the coordinator has completed it,
\* and not on the latches of the return before (return_completion_fresh).
ReturnGenuine ==
  [][phase = "returning" /\ phase' = "armed" =>
       \E n \in 1 .. Len(history) :
         history[n].complete /\ history[n].intent = pending.intent]_vars
=============================================================================
