----------------------- MODULE SessionHandshake_proofs -----------------------
(***************************************************************************)
(* What a source may conclude, for every number of sequences and requests, *)
(* every timeout and every delivery the specification allows.              *)
(***************************************************************************)
EXTENDS MCSessionHandshake, TLAPS

SessionPhases == {"idle", "teleop", "returning", "fault"}

-----------------------------------------------------------------------------
(* Messages.                                                               *)

\* A message is a latch or a state, with the sequence number it was asked for.
LEMMA MessageType ==
  ASSUME history \in Seq(Entry), NEW k \in Keys, NEW n \in 1 .. Len(history)
  PROVE  /\ Message(k, n) \in StateMessage \cup Latch
         /\ Message(k, n) # None
         /\ Message(k, n).seq = n
         /\ k = "state" => /\ Message(k, n).state = history[n].state
                           /\ Message(k, n).intent = history[n].intent
                           /\ Message(k, n).intent \in Nat
<1>1. history[n] \in Entry
  OBVIOUS
<1>2. n \in Nat
  OBVIOUS
<1>3. CASE k = "state"
  <2>1. Message(k, n) = [seq |-> n, state |-> history[n].state, intent |-> history[n].intent]
    BY <1>3 DEF Message
  <2>2. Message(k, n) \in StateMessage
    BY <2>1, <1>1, <1>2 DEF StateMessage, Entry
  <2>. QED
    BY <2>1, <2>2, <1>1, <1>3, NoneAssumption DEF Entry
<1>4. CASE k = "home"
  <2>1. Message(k, n) = [seq |-> n, value |-> history[n].home]
    BY <1>4 DEF Message
  <2>2. Message(k, n) \in Latch
    BY <2>1, <1>1, <1>2 DEF Latch, Entry
  <2>. QED
    BY <2>1, <2>2, <1>4, NoneAssumption
<1>5. CASE k = "complete"
  <2>1. Message(k, n) = [seq |-> n, value |-> history[n].complete]
    BY <1>5 DEF Message
  <2>2. Message(k, n) \in Latch
    BY <2>1, <1>1, <1>2 DEF Latch, Entry
  <2>. QED
    BY <2>1, <2>2, <1>5, NoneAssumption
<1>. QED
  BY <1>3, <1>4, <1>5 DEF Keys

\* Messages of numbers in use do not change when the history grows.
HistoryStep == UNCHANGED history \/ \E e \in Entry : history' = Append(history, e)

LEMMA MessageStays ==
  ASSUME history \in Seq(Entry), HistoryStep
  PROVE  /\ history' \in Seq(Entry)
         /\ Len(history) <= Len(history')
         /\ \A n \in 1 .. Len(history) : history'[n] = history[n]
         /\ \A k \in Keys : \A n \in 1 .. Len(history) : Message(k, n)' = Message(k, n)
<1>1. /\ history' \in Seq(Entry)
      /\ Len(history) <= Len(history')
      /\ \A n \in 1 .. Len(history) : history'[n] = history[n]
  BY DEF HistoryStep
<1>. QED
  BY <1>1 DEF Message, Keys

-----------------------------------------------------------------------------
(* The steps, from the client's side.                                      *)

ClientStep ==
  \/ \E k \in Keys : \E n \in 1 .. Len(history) :
       OnSample(k, Message(k, n)) \/ OnReply(k, Message(k, n))
  \/ OnForeign
  \/ Poll
  \/ \E action \in Actions : Request(action)
  \/ ClientClock
  \/ UNCHANGED client

\* The coordinator's own step, which the client hears of later.
CoordinatorStep == CoordinatorTick \/ CoordinatorFault \/ HandleIntent \/ HandleForeignIntent

\* The phase and the latches keep their types.
LEMMA AuthorityType ==
  ASSUME Authority!TypeInvariant,
         Authority!AcceptStart \/ Authority!AcceptReturn \/ Authority!RaiseFault
           \/ Authority!Advance \/ UNCHANGED authority
  PROVE  Authority!TypeInvariant'
<1>1. ASSUME Authority!Advance PROVE Authority!TypeInvariant'
  <2>1. PICK p \in Authority!Successors[state], complete \in BOOLEAN :
          /\ away' \in BOOLEAN
          /\ complete => p = "returning" /\ ~away'
          /\ atHome' = ~away'
          /\ state' = IF complete THEN "idle" ELSE p
          /\ returnComplete' = (complete \/ (returnComplete /\ p = state))
    BY <1>1 DEF Authority!Advance
  <2>2. p \in SessionPhases
    BY <2>1 DEF Authority!Successors, Authority!TypeInvariant, SessionPhases
  <2>3. state' \in SessionPhases
    BY <2>1, <2>2 DEF SessionPhases
  <2>4. returnComplete' \in BOOLEAN /\ atHome' \in BOOLEAN /\ away' \in BOOLEAN
    BY <2>1
  <2>. QED
    BY <2>3, <2>4 DEF Authority!TypeInvariant, SessionPhases
<1>2. ASSUME Authority!AcceptStart \/ Authority!AcceptReturn \/ Authority!RaiseFault
               \/ UNCHANGED authority
      PROVE  Authority!TypeInvariant'
  BY <1>2 DEF Authority!TypeInvariant, Authority!AcceptStart, Authority!AcceptReturn,
     Authority!RaiseFault, authority
<1>. QED
  BY <1>1, <1>2

\* What a step of the coordinator does to everything else.
LEMMA CoordinatorStepEffect ==
  ASSUME TypeOK, CoordinatorStep
  PROVE  /\ Authority!TypeInvariant'
         /\ HistoryStep
         /\ UNCHANGED <<client, node, delivered>>
         /\ intents' \in Seq([action : Actions, intent : Nat])
<1>1. history[Len(history)].intent \in Nat /\ history[Len(history)].own \in BOOLEAN
  <2>1. Len(history) \in 1 .. Len(history) /\ history \in Seq(Entry)
    BY DEF TypeOK
  <2>2. history[Len(history)] \in Entry
    BY <2>1
  <2>. QED
    BY <2>2 DEF Entry
<1>2. ASSUME NEW i \in Nat, NEW o \in BOOLEAN, NEW b \in BOOLEAN, Record(i, o, b),
             Authority!TypeInvariant'
      PROVE  HistoryStep /\ UNCHANGED delivered
  BY <1>2 DEF Record, HistoryStep, Entry, Authority!TypeInvariant
<1>3. CASE CoordinatorTick
  <2>1. Authority!TypeInvariant'
    BY <1>3, AuthorityType DEF CoordinatorTick, TypeOK
  <2>. QED
    BY <1>1, <1>2, <1>3, <2>1 DEF CoordinatorTick, RecordAgain, TypeOK, source
<1>4. CASE CoordinatorFault
  <2>1. Authority!TypeInvariant'
    BY <1>4, AuthorityType DEF CoordinatorFault, TypeOK
  <2>. QED
    BY <1>1, <1>2, <1>4, <2>1 DEF CoordinatorFault, RecordAgain, TypeOK, source
<1>5. CASE HandleIntent
  <2>1. Head(intents).intent \in Nat /\ intents' \in Seq([action : Actions, intent : Nat])
    <3>. DEFINE Intents == [action : Actions, intent : Nat]
    <3>0. intents \in Seq(Intents) /\ intents # <<>>
      BY <1>5 DEF HandleIntent, TypeOK
    <3>. HIDE DEF Intents
    <3>1. Head(intents) \in Intents /\ Tail(intents) \in Seq(Intents)
      BY <3>0
    <3>2. Head(intents).intent \in Nat
      BY <3>1 DEF Intents
    <3>. QED
      BY <3>1, <3>2, <1>5 DEF HandleIntent, Intents
  <2>2. Record(Head(intents).intent, TRUE, TRUE)
    BY <1>5 DEF HandleIntent, Refuse
  <2>3. Authority!TypeInvariant'
    BY <1>5, AuthorityType DEF HandleIntent, Refuse, TypeOK
  <2>. QED
    BY <1>2, <1>5, <2>1, <2>2, <2>3 DEF HandleIntent
<1>6. CASE HandleForeignIntent
  <2>1. PICK i \in ForeignSeqs : Refuse(i, FALSE)
    BY <1>6 DEF HandleForeignIntent
  <2>2. i \in Nat /\ Record(i, FALSE, TRUE)
    BY <2>1, HandshakeAssumption DEF Refuse
  <2>3. Authority!TypeInvariant'
    BY <2>1, AuthorityType DEF Refuse, TypeOK
  <2>. QED
    BY <1>2, <1>6, <2>2, <2>3 DEF HandleForeignIntent, TypeOK, source
<1>. QED
  BY <1>3, <1>4, <1>5, <1>6 DEF CoordinatorStep

\* Every step is one of the client's or one of the coordinator's.
LEMMA StepKinds ==
  ASSUME TypeOK, [Next]_vars
  PROVE  HistoryStep /\ ClientStep
<1>1. CASE CoordinatorStep
  BY <1>1, CoordinatorStepEffect DEF ClientStep
<1>2. CASE SourceStep
  <2>1. HistoryStep
    BY <1>2 DEF SourceStep, HistoryStep
  <2>2. ClientStep
    BY <1>2 DEF SourceStep, ClientStep, RequestStart, ObeyReturnKey, FrameTrouble, InputsLost,
       RequestReturn, Publish, ReturnKey, QuitKey, Started, StartRefused, ReturnDone,
       ReturnOverdue, Waiting, Move, NodeClock, Actions
  <2>. QED
    BY <2>1, <2>2
<1>3. ASSUME NEW k \in Keys, NEW n \in delivered[k] + 1 .. Len(history), Deliver(k, n)
      PROVE  HistoryStep /\ ClientStep
  <2>1. n \in 1 .. Len(history)
    BY <1>3 DEF TypeOK
  <2>. QED
    BY <2>1, <1>3 DEF Deliver, HistoryStep, ClientStep
<1>4. ASSUME NEW k \in Keys, NEW n \in 1 .. Len(history), AnswerQuery(k, n)
      PROVE  HistoryStep /\ ClientStep
  BY <1>4 DEF AnswerQuery, HistoryStep, ClientStep
<1>5. CASE ForeignCoordinator
  BY <1>5 DEF ForeignCoordinator, HistoryStep, ClientStep
<1>6. CASE LoseIntent
  BY <1>6 DEF LoseIntent, HistoryStep, ClientStep
<1>7. CASE UNCHANGED vars
  BY <1>7 DEF vars, source, HistoryStep, ClientStep
<1>. QED
  BY <1>1, <1>2, <1>3, <1>4, <1>5, <1>6, <1>7 DEF Next, CoordinatorStep

-----------------------------------------------------------------------------
(* The client.                                                             *)

ClientInv == ClientTypeOK /\ CacheGenuine /\ SnapshotFits /\ PendingIsLast

\* Considering a genuine message keeps what is known genuine and never makes it
\* older.
LEMMA ConsiderGenuine ==
  ASSUME ClientInv, history \in Seq(Entry), NEW k \in Keys, NEW n \in 1 .. Len(history),
         NEW newer \in BOOLEAN, Consider(k, Message(k, n), newer)
  PROVE  /\ cache' \in [Keys -> StateMessage \cup Latch \cup {None}]
         /\ \A j \in Keys : cache[j]' # None =>
              cache[j]'.seq \in 1 .. Len(history) /\ cache[j]' = Message(j, cache[j]'.seq)
         /\ \A j \in Keys : Seen(j)' >= Seen(j)
         /\ newer => Seen(k)' >= n
         /\ pending' \in {pending, NoRequest}
         /\ pendingLeft' \in {pendingLeft, 0}
         /\ UNCHANGED <<baseline, lastIntent>>
<1>. DEFINE m == Message(k, n)
<1>0. m \in StateMessage \cup Latch /\ m # None /\ m.seq = n /\ n \in Nat
  BY MessageType
<1>1. \A j \in Keys : Seen(j) \in Int
  BY DEF ClientInv, CacheGenuine, Seen
<1>2. cache \in [Keys -> StateMessage \cup Latch \cup {None}]
  BY DEF ClientInv, ClientTypeOK
<1>3. CASE newer /\ Newest(k, m)
  <2>1. /\ cache' = [cache EXCEPT ![k] = m]
        /\ pending' \in {pending, NoRequest}
        /\ pendingLeft' \in {pendingLeft, 0}
        /\ UNCHANGED <<baseline, lastIntent>>
    BY <1>3 DEF Consider, Remember
  <2>2. cache[k]' = m /\ \A j \in Keys \ {k} : cache[j]' = cache[j]
    BY <2>1, <1>2
  <2>3. Seen(k)' = n /\ \A j \in Keys \ {k} : Seen(j)' = Seen(j)
    BY <2>2, <1>0 DEF Seen
  <2>4. n >= Seen(k)
    BY <1>3, <1>0 DEF Newest
  <2>5. cache[k]'.seq \in 1 .. Len(history) /\ cache[k]' = Message(k, cache[k]'.seq)
    BY <2>2, <1>0
  <2>6. cache' \in [Keys -> StateMessage \cup Latch \cup {None}]
    BY <2>1, <1>0, <1>2
  <2>7. \A j \in Keys : Seen(j)' >= Seen(j)
    BY <2>3, <2>4, <1>1
  <2>8. \A j \in Keys : cache[j]' # None =>
          cache[j]'.seq \in 1 .. Len(history) /\ cache[j]' = Message(j, cache[j]'.seq)
    BY <2>2, <2>5 DEF ClientInv, CacheGenuine
  <2>. QED
    BY <2>1, <2>3, <2>6, <2>7, <2>8, <1>0
<1>4. CASE ~(newer /\ Newest(k, m))
  <2>1. UNCHANGED <<cache, request>>
    BY <1>4 DEF Consider
  <2>2. \A j \in Keys : Seen(j)' = Seen(j)
    BY <2>1 DEF Seen
  <2>3. newer => Seen(k) >= n
    BY <1>4, <1>0, <1>1 DEF Newest
  <2>. QED
    BY <2>1, <2>2, <2>3, <1>1, <1>2 DEF request, ClientInv, CacheGenuine
<1>. QED
  BY <1>3, <1>4

\* Shared by the steps that leave the memory of the keys alone.
LEMMA CacheUnchanged ==
  ASSUME ClientInv, history \in Seq(Entry), HistoryStep, UNCHANGED cache
  PROVE  /\ CacheGenuine'
         /\ \A k \in Keys : Seen(k)' = Seen(k)
<1>1. \A k \in Keys : Seen(k)' = Seen(k)
  BY DEF Seen
<1>2. ASSUME NEW k \in Keys, cache[k] # None
      PROVE  cache[k].seq \in 1 .. Len(history') /\ cache[k] = Message(k, cache[k].seq)'
  <2>1. cache[k].seq \in 1 .. Len(history) /\ cache[k] = Message(k, cache[k].seq)
    BY <1>2 DEF ClientInv, CacheGenuine
  <2>2. \A n \in 1 .. Len(history) : Message(k, n)' = Message(k, n)
    BY MessageStays
  <2>3. Len(history) <= Len(history') /\ history' \in Seq(Entry)
    BY MessageStays
  <2>. QED
    BY <2>1, <2>2, <2>3
<1>. QED
  BY <1>1, <1>2 DEF CacheGenuine

\* Shared by the steps that deliver a message.
LEMMA CacheDelivered ==
  ASSUME history \in Seq(Entry), HistoryStep,
         \A j \in Keys : cache[j]' # None =>
           cache[j]'.seq \in 1 .. Len(history) /\ cache[j]' = Message(j, cache[j]'.seq)
  PROVE  CacheGenuine'
<1>1. ASSUME NEW k \in Keys, (cache[k] # None)'
      PROVE  (cache[k].seq \in 1 .. Len(history) /\ cache[k] = Message(k, cache[k].seq))'
  <2>1. PICK n \in 1 .. Len(history) : n = (cache[k].seq)' /\ cache[k]' = Message(k, n)
    BY <1>1
  <2>2. Message(k, n)' = Message(k, n)
    BY MessageStays
  <2>3. Message(k, cache[k].seq)' = Message(k, n)'
    BY <2>1 DEF Message, Keys
  <2>4. Len(history) <= Len(history') /\ history' \in Seq(Entry)
    BY MessageStays
  <2>. QED
    BY <2>1, <2>2, <2>3, <2>4
<1>. QED
  BY <1>1 DEF CacheGenuine

\* The client's invariant, and what a key has told it never gets older.
LEMMA ClientInvStep ==
  ASSUME ClientInv, history \in Seq(Entry), HistoryStep, ClientStep
  PROVE  ClientInv' /\ \A k \in Keys : Seen(k)' >= Seen(k)
<1>. USE ClientAssumption
<1>0. \A k \in Keys : Seen(k) \in Int /\ Seen(k) >= -1
  BY DEF ClientInv, CacheGenuine, Seen
<1>1. ASSUME NEW k \in Keys, NEW n \in 1 .. Len(history), OnSample(k, Message(k, n))
      PROVE  ClientInv' /\ \A j \in Keys : Seen(j)' >= Seen(j)
  <2>1. Message(k, n).seq = n /\ n \in Nat
    BY MessageType
  <2>2. (n > sampleSeq[k]) \in BOOLEAN
    OBVIOUS
  <2>3. Consider(k, Message(k, n), n > sampleSeq[k])
    BY <1>1, <2>1 DEF OnSample
  <2>4. /\ cache' \in [Keys -> StateMessage \cup Latch \cup {None}]
        /\ \A j \in Keys : cache[j]' # None =>
             cache[j]'.seq \in 1 .. Len(history) /\ cache[j]' = Message(j, cache[j]'.seq)
        /\ \A j \in Keys : Seen(j)' >= Seen(j)
        /\ pending' \in {pending, NoRequest}
        /\ pendingLeft' \in {pendingLeft, 0}
        /\ UNCHANGED <<baseline, lastIntent>>
    BY <2>2, <2>3, ConsiderGenuine
  <2>5. /\ sampleSeq' = [sampleSeq EXCEPT ![k] = IF n > @ THEN n ELSE @]
        /\ UNCHANGED <<query, invalid>>
    BY <1>1, <2>1 DEF OnSample
  <2>6. ClientTypeOK'
    BY <2>1, <2>4, <2>5 DEF ClientInv, ClientTypeOK, query, NoRequest
  <2>7. CacheGenuine'
    BY <2>4, CacheDelivered
  <2>8. SnapshotFits'
    <3>1. UNCHANGED <<replies, snapshot>>
      BY <2>5 DEF query
    <3>2. \A j \in Keys : Seen(j)' \in Int
      BY <2>7 DEF CacheGenuine, Seen
    <3>3. \A j \in Keys : replies[j] \in Int
      BY DEF ClientInv, ClientTypeOK
    <3>. QED
      BY <3>1, <3>2, <3>3, <2>4, <1>0 DEF ClientInv, SnapshotFits, SnapshotOrdered
  <2>9. PendingIsLast'
    BY <2>4 DEF ClientInv, PendingIsLast, NoRequest
  <2>. QED
    BY <2>4, <2>6, <2>7, <2>8, <2>9 DEF ClientInv
<1>2. ASSUME NEW k \in Keys, NEW n \in 1 .. Len(history), OnReply(k, Message(k, n))
      PROVE  ClientInv' /\ \A j \in Keys : Seen(j)' >= Seen(j)
  <2>1. Message(k, n).seq = n /\ n \in Nat
    BY MessageType
  <2>2. Consider(k, Message(k, n), TRUE)
    BY <1>2 DEF OnReply
  <2>4. /\ cache' \in [Keys -> StateMessage \cup Latch \cup {None}]
        /\ \A j \in Keys : cache[j]' # None =>
             cache[j]'.seq \in 1 .. Len(history) /\ cache[j]' = Message(j, cache[j]'.seq)
        /\ \A j \in Keys : Seen(j)' >= Seen(j)
        /\ Seen(k)' >= n
        /\ pending' \in {pending, NoRequest}
        /\ pendingLeft' \in {pendingLeft, 0}
        /\ UNCHANGED <<baseline, lastIntent>>
    BY <2>2, ConsiderGenuine
  <2>5. /\ UNCHANGED <<sampleSeq, snapshotLeft, timedOut>>
        /\ \/ UNCHANGED <<replies, snapshot, invalid>>
           \/ /\ replies' = [replies EXCEPT ![k] = n]
              /\ \/ /\ \A j \in Keys : replies[j]' # -1
                    /\ snapshot' = SnapshotOrdered(replies')
                    /\ invalid' = ~SnapshotOrdered(replies')
                 \/ /\ ~ \A j \in Keys : replies[j]' # -1
                    /\ UNCHANGED <<snapshot, invalid>>
    BY <1>2, <2>1 DEF OnReply
  <2>6. snapshot' \in BOOLEAN /\ invalid' \in BOOLEAN
    BY <2>5 DEF ClientInv, ClientTypeOK, SnapshotOrdered
  <2>7. ClientTypeOK'
    BY <2>1, <2>4, <2>5, <2>6 DEF ClientInv, ClientTypeOK, NoRequest
  <2>8. CacheGenuine'
    BY <2>4, CacheDelivered
  <2>9. SnapshotFits'
    <3>1. \A j \in Keys : Seen(j)' \in Int
      BY <2>8 DEF CacheGenuine, Seen
    <3>2. \A j \in Keys : replies[j] \in Int
      BY DEF ClientInv, ClientTypeOK
    <3>3. CASE UNCHANGED <<replies, snapshot>>
      BY <3>1, <3>2, <3>3, <2>4, <1>0 DEF ClientInv, SnapshotFits, SnapshotOrdered
    <3>4. CASE replies' = [replies EXCEPT ![k] = n]
      <4>1. replies[k]' = n /\ \A j \in Keys \ {k} : replies[j]' = replies[j]
        BY <3>4 DEF ClientInv, ClientTypeOK
      <4>2. \A j \in Keys : replies[j]' # -1 => Seen(j)' >= replies[j]'
        BY <4>1, <3>1, <3>2, <2>1, <2>4, <1>0 DEF ClientInv, SnapshotFits
      <4>3. ASSUME snapshot'
            PROVE  (\A j \in Keys : replies[j]' # -1) /\ SnapshotOrdered(replies')
        <5>1. CASE UNCHANGED <<replies, snapshot>>
          BY <4>3, <5>1 DEF ClientInv, SnapshotFits, SnapshotOrdered
        <5>2. CASE (\A j \in Keys : replies[j]' # -1) /\ snapshot' = SnapshotOrdered(replies')
          BY <4>3, <5>2
        <5>3. CASE (~ \A j \in Keys : replies[j]' # -1) /\ UNCHANGED snapshot
          <6>1. \A j \in Keys : replies[j] # -1
            BY <4>3, <5>3 DEF ClientInv, SnapshotFits
          <6>. QED
            BY <6>1, <5>3, <4>1, <2>1
        <5>. QED
          BY <5>1, <5>2, <5>3, <2>5
      <4>. QED
        BY <4>2, <4>3 DEF SnapshotFits
    <3>. QED
      BY <3>3, <3>4, <2>5
  <2>10. PendingIsLast'
    BY <2>4 DEF ClientInv, PendingIsLast, NoRequest
  <2>. QED
    BY <2>4, <2>7, <2>8, <2>9, <2>10 DEF ClientInv
<1>3. CASE UNCHANGED <<cache, replies, snapshot>> /\ ClientTypeOK' /\ PendingIsLast'
  <2>1. CacheGenuine' /\ \A k \in Keys : Seen(k)' = Seen(k)
    BY <1>3, CacheUnchanged
  <2>2. SnapshotFits'
    BY <1>3, <2>1 DEF ClientInv, SnapshotFits, SnapshotOrdered
  <2>. QED
    BY <1>0, <1>3, <2>1, <2>2 DEF ClientInv
<1>4. CASE OnForeign
  BY <1>3, <1>4 DEF OnForeign, query, request, ClientInv, ClientTypeOK, PendingIsLast
<1>5. CASE Poll
  <2>1. timedOut' \in BOOLEAN
    BY <1>5 DEF Poll, PollSnapshot, ClientInv, ClientTypeOK
  <2>2. pending' \in {pending, NoRequest}
    BY <1>5 DEF Poll
  <2>3. ClientTypeOK' /\ PendingIsLast'
    BY <1>5, <2>1, <2>2 DEF Poll, ClientInv, ClientTypeOK, PendingIsLast, NoRequest
  <2>. QED
    BY <1>3, <1>5, <2>3 DEF Poll
<1>6. ASSUME NEW action \in Actions, Request(action)
      PROVE  ClientInv' /\ \A k \in Keys : Seen(k)' >= Seen(k)
  <2>1. timedOut' \in BOOLEAN
    BY <1>6 DEF Request, PollSnapshot, ClientInv, ClientTypeOK
  <2>2. baseline' \in [Keys -> Nat \cup {-1}]
    BY <1>0, <1>6 DEF Request
  <2>3. ClientTypeOK' /\ PendingIsLast'
    BY <1>6, <2>1, <2>2 DEF Request, ClientInv, ClientTypeOK, PendingIsLast
  <2>. QED
    BY <1>3, <1>6, <2>3 DEF Request
<1>7. CASE ClientClock
  <2>1. snapshotLeft' \in 0 .. SnapshotTimeout /\ pendingLeft' \in 0 .. PendingTimeout
    BY <1>7 DEF ClientClock, Sooner, ClientInv, ClientTypeOK
  <2>2. ClientTypeOK' /\ PendingIsLast'
    BY <1>7, <2>1 DEF ClientClock, ClientInv, ClientTypeOK, PendingIsLast
  <2>. QED
    BY <1>3, <1>7, <2>2 DEF ClientClock
<1>8. CASE UNCHANGED client
  BY <1>3, <1>8 DEF client, query, request, ClientInv, ClientTypeOK, PendingIsLast
<1>. QED
  BY <1>1, <1>2, <1>4, <1>5, <1>6, <1>7, <1>8 DEF ClientStep

-----------------------------------------------------------------------------
(* The source and the whole.                                               *)

LEMMA SourceType ==
  ASSUME TypeOK, SourceStep
  PROVE  /\ phase' \in SourcePhases
         /\ returnLeft' \in 0 .. ReturnTimeout
         /\ keyReturn' \in BOOLEAN
         /\ intents' \in Seq([action : Actions, intent : Nat])
<1>. USE SourceAssumption DEF TypeOK
<1>0. lastIntent + 1 \in Nat
  BY DEF ClientTypeOK
<1>1. ASSUME NEW action \in Actions, Publish(action)
      PROVE  intents' \in Seq([action : Actions, intent : Nat])
  BY <1>0, <1>1 DEF Publish
<1>2. ASSUME RequestReturn
      PROVE  /\ intents' \in Seq([action : Actions, intent : Nat])
             /\ phase' \in SourcePhases
             /\ returnLeft' \in 0 .. ReturnTimeout
  BY <1>1, <1>2 DEF RequestReturn, SourcePhases, Actions
<1>3. CASE RequestStart
  BY <1>1, <1>3 DEF RequestStart, SourcePhases, Actions
<1>4. CASE ObeyReturnKey \/ FrameTrouble \/ InputsLost
  BY <1>2, <1>4 DEF ObeyReturnKey, FrameTrouble, InputsLost
<1>5. CASE ReturnKey
  BY <1>5 DEF ReturnKey
<1>8. CASE QuitKey
  <2>1. phase' \in SourcePhases /\ returnLeft' \in 0 .. ReturnTimeout
    BY <1>8 DEF QuitKey, SourcePhases
  <2>. QED
    BY <1>8, <2>1 DEF QuitKey
<1>6. CASE Started \/ StartRefused \/ ReturnDone \/ ReturnOverdue \/ Waiting
  BY <1>6 DEF Started, StartRefused, ReturnDone, ReturnOverdue, Waiting, Move, SourcePhases
<1>7. CASE NodeClock
  BY <1>7 DEF NodeClock, Sooner
<1>. QED
  BY <1>3, <1>4, <1>5, <1>6, <1>7, <1>8 DEF SourceStep

LEMMA HandshakeInvStep ==
  ASSUME HandshakeInv, [Next]_vars
  PROVE  HandshakeInv'
<1>0. TypeOK /\ history \in Seq(Entry) /\ ClientInv
  BY DEF HandshakeInv, TypeOK, ClientInv
<1>1. HistoryStep /\ ClientStep
  BY <1>0, StepKinds
<1>2. ClientInv'
  BY <1>0, <1>1, ClientInvStep
<1>3. history' \in Seq(Entry) /\ history' # <<>>
  <2>1. history' \in Seq(Entry) /\ Len(history) <= Len(history')
    BY <1>0, <1>1, MessageStays
  <2>2. Len(history) >= 1
    BY DEF HandshakeInv, TypeOK
  <2>. QED
    BY <2>1, <2>2, <1>0
<1>4. /\ phase' \in SourcePhases
      /\ returnLeft' \in 0 .. ReturnTimeout
      /\ keyReturn' \in BOOLEAN
      /\ intents' \in Seq([action : Actions, intent : Nat])
      /\ Authority!TypeInvariant'
      /\ delivered' \in [Keys -> Nat]
  <2>1. CASE CoordinatorStep
    BY <1>0, <2>1, CoordinatorStepEffect DEF TypeOK, node
  <2>2. CASE SourceStep
    <3>1. UNCHANGED <<authority, delivered>>
      BY <2>2 DEF SourceStep
    <3>2. Authority!TypeInvariant'
      BY <3>1, <1>0, AuthorityType DEF TypeOK
    <3>. QED
      BY <1>0, <2>2, <3>1, <3>2, SourceType DEF TypeOK
  <2>3. ASSUME NEW k \in Keys, NEW n \in delivered[k] + 1 .. Len(history), Deliver(k, n)
        PROVE  /\ UNCHANGED <<node, intents, authority>>
               /\ delivered' \in [Keys -> Nat]
    <3>1. n \in Nat
      BY <1>0 DEF TypeOK
    <3>. QED
      BY <3>1, <2>3, <1>0 DEF Deliver, TypeOK
  <2>4. CASE ~CoordinatorStep /\ ~SourceStep
    <3>1. UNCHANGED <<node, authority>> /\ delivered' \in [Keys -> Nat]
      BY <2>3, <2>4, <1>0 DEF Next, CoordinatorStep, vars, source, AnswerQuery, Deliver,
         ForeignCoordinator, LoseIntent, TypeOK
    <3>2. intents' \in {intents, Tail(intents)} /\ (intents' # intents => intents # <<>>)
      BY <2>3, <2>4 DEF Next, CoordinatorStep, vars, source, AnswerQuery, Deliver,
         ForeignCoordinator, LoseIntent
    <3>3. intents' \in Seq([action : Actions, intent : Nat])
      <4>. DEFINE Intents == [action : Actions, intent : Nat]
      <4>1. intents \in Seq(Intents)
        BY <1>0 DEF TypeOK
      <4>. HIDE DEF Intents
      <4>2. intents' \in Seq(Intents)
        BY <3>2, <4>1
      <4>. QED
        BY <4>2 DEF Intents
    <3>4. Authority!TypeInvariant'
      BY <3>1, <1>0, AuthorityType DEF TypeOK
    <3>. QED
      BY <3>1, <3>3, <3>4, <1>0 DEF node, TypeOK
  <2>. QED
    BY <2>1, <2>2, <2>4
<1>. QED
  BY <1>2, <1>3, <1>4 DEF HandshakeInv, TypeOK, ClientInv

LEMMA HandshakeInvInit == Init => HandshakeInv
<1>. SUFFICES ASSUME Init PROVE HandshakeInv
  OBVIOUS
<1>0. ClientInit /\ SourceInit
  BY DEF Init, SourceInit
<1>1. ClientTypeOK
  <2>1. /\ cache \in [Keys -> StateMessage \cup Latch \cup {None}]
        /\ sampleSeq \in [Keys -> Nat \cup {-1}]
        /\ replies \in [Keys -> Nat \cup {-1}]
        /\ baseline \in [Keys -> Nat \cup {-1}]
    BY <1>0 DEF ClientInit
  <2>2. pending \in [action : Actions \cup {"none"}, intent : Nat]
    <3>1. pending = [action |-> "none", intent |-> 0]
      BY <1>0 DEF ClientInit, NoRequest
    <3>. QED
      BY <3>1
  <2>3. snapshotLeft \in 0 .. SnapshotTimeout
    BY <1>0, ClientAssumption DEF ClientInit
  <2>4. pendingLeft \in 0 .. PendingTimeout
    BY <1>0, ClientAssumption DEF ClientInit
  <2>5. snapshot \in BOOLEAN /\ timedOut \in BOOLEAN /\ invalid \in BOOLEAN
    BY <1>0 DEF ClientInit
  <2>6. lastIntent \in Nat
    BY <1>0 DEF ClientInit
  <2>. QED
    BY <2>1, <2>2, <2>3, <2>4, <2>5, <2>6 DEF ClientTypeOK
<1>2. history \in Seq(Entry) /\ history # <<>>
  BY DEF Init, Entry
<1>3. TypeOK
  <2>1. Authority!TypeInvariant
    BY DEF Init, Authority!Init, Authority!TypeInvariant
  <2>2. intents \in Seq([action : Actions, intent : Nat])
    BY <1>0 DEF SourceInit
  <2>3. delivered \in [Keys -> Nat]
    BY DEF Init
  <2>4. phase \in SourcePhases
    BY <1>0 DEF SourceInit, SourcePhases
  <2>5. returnLeft \in 0 .. ReturnTimeout
    BY <1>0, SourceAssumption DEF SourceInit
  <2>6. keyReturn \in BOOLEAN
    BY <1>0 DEF SourceInit
  <2>. QED
    BY <1>1, <1>2, <2>1, <2>2, <2>3, <2>4, <2>5, <2>6 DEF TypeOK
<1>4. CacheGenuine /\ PendingIsLast
  BY DEF Init, SourceInit, ClientInit, CacheGenuine, PendingIsLast, NoRequest
<1>5. SnapshotFits
  BY DEF Init, SourceInit, ClientInit, SnapshotFits
<1>. QED
  BY <1>3, <1>4, <1>5 DEF HandshakeInv

-----------------------------------------------------------------------------
(* Theorems.                                                               *)

\* The inductive invariant: types, a genuine memory, a snapshot that fits and a
\* pending request that is the last one.
THEOREM HandshakeInvariant == Spec => []HandshakeInv
<1>1. HandshakeInv /\ [Next]_vars => HandshakeInv'
  BY HandshakeInvStep
<1>. QED
  BY HandshakeInvInit, <1>1, PTL DEF Spec

\* What the client remembers of a key was the coordinator's at that number.
THEOREM MemoryGenuine == Spec => []CacheGenuine
<1>1. HandshakeInv => CacheGenuine
  BY DEF HandshakeInv
<1>. QED
  BY HandshakeInvariant, <1>1, PTL

\* What a key told the client is never replaced by something older.
THEOREM MemoryMonotone == Spec => CacheMonotone
<1>1. HandshakeInv /\ [Next]_vars => [\A k \in Keys : Seen(k)' >= Seen(k)]_vars
  <2>. SUFFICES ASSUME HandshakeInv, [Next]_vars
                PROVE  \A k \in Keys : Seen(k)' >= Seen(k)
    OBVIOUS
  <2>1. TypeOK /\ history \in Seq(Entry) /\ ClientInv
    BY DEF HandshakeInv, TypeOK, ClientInv
  <2>. QED
    BY <2>1, StepKinds, ClientInvStep
<1>. QED
  BY HandshakeInvariant, <1>1, PTL DEF Spec, CacheMonotone

\* A source enters teleop only by a tick that found its start authorised.
LEMMA EnterTeleop ==
  ASSUME HandshakeInv, [Next]_vars, phase # "teleop", phase' = "teleop"
  PROVE  Started
<1>1. CASE SourceStep
  BY <1>1 DEF SourceStep, RequestStart, ObeyReturnKey, FrameTrouble, InputsLost, RequestReturn,
     ReturnKey, QuitKey, StartRefused, ReturnDone, ReturnOverdue, Waiting, Move, NodeClock
<1>2. CASE ~SourceStep
  <2>1. UNCHANGED phase
    BY <1>2 DEF Next, vars, source, node, CoordinatorTick, CoordinatorFault, HandleIntent,
       HandleForeignIntent, Deliver, AnswerQuery, ForeignCoordinator, LoseIntent
  <2>. QED
    BY <2>1
<1>. QED
  BY <1>1, <1>2

\* The history ends with the coordinator's phase, and every stretch of teleop in it is a
\* session of this source.
SessionInv ==
  /\ history[Len(history)].state = state
  /\ \A n \in 1 .. Len(history) : history[n].state = "teleop" => OwnSession(n)

\* The coordinator goes to teleop from idle alone, and for a request of the source.
LEMMA CoordinatorEntry ==
  ASSUME TypeOK, CoordinatorStep
  PROVE  \E e \in Entry :
           /\ history' = Append(history, e)
           /\ e.state = state'
           /\ state' = "teleop" => state = "teleop" \/ (state = "idle" /\ e.own)
<1>1. \E i \in Nat, o \in BOOLEAN, b \in BOOLEAN :
        /\ Record(i, o, b)
        /\ state' = "teleop" => state = "teleop" \/ (state = "idle" /\ o)
  <2>0. history[Len(history)].intent \in Nat /\ history[Len(history)].own \in BOOLEAN
    <3>1. Len(history) \in 1 .. Len(history) /\ history \in Seq(Entry)
      BY DEF TypeOK
    <3>2. history[Len(history)] \in Entry
      BY <3>1
    <3>. QED
      BY <3>2 DEF Entry
  <2>1. CASE CoordinatorTick
    <3>1. state' = "teleop" => state = "teleop"
      BY <2>1 DEF CoordinatorTick, Authority!Advance, Authority!Successors, TypeOK,
         Authority!TypeInvariant
    <3>. QED
      BY <2>0, <2>1, <3>1 DEF CoordinatorTick, RecordAgain
  <2>2. CASE CoordinatorFault
    <3>1. state' # "teleop"
      BY <2>2 DEF CoordinatorFault, Authority!RaiseFault
    <3>. QED
      BY <2>0, <2>2, <3>1 DEF CoordinatorFault, RecordAgain
  <2>3. CASE HandleIntent
    <3>1. Record(Head(intents).intent, TRUE, TRUE) /\ Head(intents).intent \in Nat
      <4>. DEFINE Intents == [action : Actions, intent : Nat]
      <4>1. intents \in Seq(Intents) /\ intents # <<>>
        BY <2>3 DEF HandleIntent, TypeOK
      <4>. HIDE DEF Intents
      <4>2. Head(intents) \in Intents
        BY <4>1
      <4>3. Head(intents).intent \in Nat
        BY <4>2 DEF Intents
      <4>. QED
        BY <2>3, <4>3 DEF HandleIntent, Refuse
    <3>2. state' = "teleop" => state \in {"teleop", "idle"}
      BY <2>3 DEF HandleIntent, Refuse, authority, Authority!AcceptStart, Authority!AcceptReturn
    <3>. QED
      BY <3>1, <3>2
  <2>4. CASE HandleForeignIntent
    <3>1. PICK i \in ForeignSeqs : Refuse(i, FALSE)
      BY <2>4 DEF HandleForeignIntent
    <3>2. i \in Nat /\ Record(i, FALSE, TRUE) /\ UNCHANGED state
      BY <3>1, HandshakeAssumption DEF Refuse, authority
    <3>. QED
      BY <3>2
  <2>. QED
    BY <2>1, <2>2, <2>3, <2>4 DEF CoordinatorStep
<1>2. PICK i \in Nat, o \in BOOLEAN, b \in BOOLEAN :
        /\ Record(i, o, b)
        /\ state' = "teleop" => state = "teleop" \/ (state = "idle" /\ o)
  BY <1>1
<1>. DEFINE e == [state |-> state', intent |-> i, own |-> o, home |-> atHome',
                  complete |-> returnComplete', published |-> b]
<1>3. e \in Entry
  BY CoordinatorStepEffect DEF Entry, Authority!TypeInvariant
<1>4. history' = Append(history, e) /\ e.state = state' /\ e.own = o
  BY <1>2 DEF Record
<1>. HIDE DEF e
<1>. QED
  BY <1>2, <1>3, <1>4

LEMMA SessionInvStep ==
  ASSUME HandshakeInv, SessionInv, [Next]_vars
  PROVE  SessionInv'
<1>1. CASE CoordinatorStep
  <2>1. PICK e \in Entry :
          /\ history' = Append(history, e)
          /\ e.state = state'
          /\ state' = "teleop" => state = "teleop" \/ (state = "idle" /\ e.own)
    BY <1>1, CoordinatorEntry DEF HandshakeInv
  <2>2. PICK N \in Nat \ {0} :
          /\ Len(history) = N /\ Len(history') = N + 1
          /\ history'[N + 1] = e
          /\ \A n \in 1 .. N : history'[n] = history[n]
    BY <2>1 DEF HandshakeInv, TypeOK
  <2>3. ASSUME NEW n \in 1 .. N, history[n].state = "teleop"
        PROVE  OwnSession(n)'
    <3>1. PICK m \in 2 .. n :
            /\ history[m - 1].state = "idle" /\ history[m].own
            /\ \A j \in m .. n : history[j].state = "teleop"
      BY <2>2, <2>3 DEF SessionInv, OwnSession
    <3>2. m - 1 \in 1 .. N /\ m \in 1 .. N /\ \A j \in m .. n : j \in 1 .. N
      BY <2>2
    <3>. QED
      BY <2>2, <3>1, <3>2 DEF OwnSession
  <2>4. ASSUME e.state = "teleop" PROVE OwnSession(N + 1)'
    <3>1. CASE state = "teleop"
      <4>1. history[N].state = "teleop" /\ N \in 1 .. N
        BY <2>2, <3>1 DEF SessionInv
      <4>2. PICK m \in 2 .. N :
              /\ history[m - 1].state = "idle" /\ history[m].own
              /\ \A j \in m .. N : history[j].state = "teleop"
        BY <2>2, <4>1 DEF SessionInv, OwnSession
      <4>3. m - 1 \in 1 .. N /\ m \in 1 .. N /\ \A j \in m .. N : j \in 1 .. N
        BY <2>2
      <4>4. history'[m - 1].state = "idle" /\ history'[m].own
        BY <2>2, <4>2, <4>3
      <4>5. \A j \in m .. N + 1 : history'[j].state = "teleop"
        BY <2>2, <2>4, <4>2, <4>3
      <4>6. m \in 2 .. N + 1
        BY <2>2
      <4>. QED
        BY <4>4, <4>5, <4>6 DEF OwnSession
    <3>2. CASE state = "idle" /\ e.own
      <4>1. history'[N].state = "idle" /\ N + 1 \in 2 .. N + 1 /\ (N + 1) - 1 = N
        BY <2>2, <3>2 DEF SessionInv
      <4>2. \A j \in N + 1 .. N + 1 : history'[j].state = "teleop"
        BY <2>2, <2>4
      <4>. QED
        BY <2>2, <3>2, <4>1, <4>2 DEF OwnSession
    <3>. QED
      BY <2>1, <2>4, <3>1, <3>2
  <2>5. ASSUME NEW n \in 1 .. Len(history'), history'[n].state = "teleop"
        PROVE  OwnSession(n)'
    <3>1. CASE n \in 1 .. N
      BY <2>2, <2>3, <2>5, <3>1
    <3>2. CASE n = N + 1
      BY <2>2, <2>4, <2>5, <3>2
    <3>. QED
      BY <2>2, <3>1, <3>2
  <2>. QED
    BY <2>1, <2>2, <2>5 DEF SessionInv
<1>2. CASE ~CoordinatorStep
  <2>1. UNCHANGED <<history, authority>>
    BY <1>2 DEF CoordinatorStep, Next, vars, SourceStep, Deliver, AnswerQuery,
       ForeignCoordinator, LoseIntent
  <2>. QED
    BY <2>1 DEF SessionInv, OwnSession, authority
<1>. QED
  BY <1>1, <1>2

\* A source goes to teleop only once the coordinator has handled the very start it waits for
\* and was then in a session of this source, whatever was lost, reordered or refused in
\* between; unless it goes by the refusal of another source's intent of the same number.
THEOREM TeleopGranted == Spec => TeleopWasGranted
<1>1. Init => SessionInv
  BY DEF Init, SessionInv, Authority!Init
<1>2. HandshakeInv /\ SessionInv /\ [Next]_vars => SessionInv'
  BY SessionInvStep
<1>3. ASSUME HandshakeInv, SessionInv, [Next]_vars, phase # "teleop", phase' = "teleop", GoesByOwn
      PROVE  \E n \in 1 .. Len(history) :
               /\ history[n].own /\ history[n].intent = lastIntent
               /\ OwnSession(n)
  <2>1. StartAuthorized
    BY <1>3, EnterTeleop DEF Started, Move
  <2>2. /\ cache["state"] # None
        /\ cache["state"].state = "teleop"
        /\ cache["state"].intent = lastIntent
    BY <2>1, <1>3 DEF StartAuthorized, HandshakeInv, PendingIsLast
  <2>. DEFINE n == cache["state"].seq
  <2>3. n \in 1 .. Len(history) /\ cache["state"] = Message("state", n)
    BY <2>2, <1>3 DEF HandshakeInv, CacheGenuine, Keys
  <2>4. /\ Message("state", n).state = history[n].state
        /\ Message("state", n).intent = history[n].intent
    BY <2>3, <1>3, MessageType DEF HandshakeInv, TypeOK, Keys
  <2>5. history[n].own
    BY <1>3 DEF GoesByOwn
  <2>6. OwnSession(n)
    BY <1>3, <2>2, <2>3, <2>4 DEF SessionInv
  <2>. QED
    BY <2>2, <2>3, <2>4, <2>5, <2>6
<1>4. HandshakeInv /\ SessionInv /\ [Next]_vars =>
        [phase # "teleop" /\ phase' = "teleop" /\ GoesByOwn =>
           \E n \in 1 .. Len(history) :
             /\ history[n].own /\ history[n].intent = lastIntent
             /\ OwnSession(n)]_vars
  BY <1>3
<1>. QED
  BY HandshakeInvariant, <1>1, <1>2, <1>4, PTL DEF Spec, TeleopWasGranted

\* A source asks for a start only behind the startup barrier.
THEOREM StartBehindSnapshot == Spec => StartOnSnapshot
<1>1. ASSUME HandshakeInv, [Next]_vars, phase = "armed", phase' = "start_pending"
      PROVE  /\ \A k \in Keys : replies[k] # -1 /\ Seen(k) >= replies[k]
             /\ replies["state"] <= replies["home"] /\ replies["home"] <= replies["complete"]
  <2>1. snapshot
    <3>1. CASE SourceStep
      BY <1>1, <3>1 DEF SourceStep, RequestStart, StartupReady, ObeyReturnKey, FrameTrouble,
         InputsLost, RequestReturn, ReturnKey, QuitKey, Started, StartRefused, ReturnDone,
         ReturnOverdue, Waiting, Move, NodeClock
    <3>2. CASE ~SourceStep
      <4>1. UNCHANGED phase
        BY <1>1, <3>2 DEF Next, vars, source, node, CoordinatorTick, CoordinatorFault,
           HandleIntent, HandleForeignIntent, Deliver, AnswerQuery, ForeignCoordinator, LoseIntent
      <4>. QED
        BY <4>1, <1>1
    <3>. QED
      BY <3>1, <3>2
  <2>. QED
    BY <2>1, <1>1 DEF HandshakeInv, SnapshotFits, SnapshotOrdered
<1>2. HandshakeInv /\ [Next]_vars =>
        [phase = "armed" /\ phase' = "start_pending" =>
           /\ \A k \in Keys : replies[k] # -1 /\ Seen(k) >= replies[k]
           /\ replies["state"] <= replies["home"] /\ replies["home"] <= replies["complete"]]_vars
  BY <1>1
<1>. QED
  BY HandshakeInvariant, <1>2, PTL DEF Spec, StartOnSnapshot

-----------------------------------------------------------------------------
(* A return in order.                                                      *)

Requests == [action : Actions, intent : Nat]

\* The last entry of the history is the coordinator's phase, and a return that is complete is
\* over, with the arms at Home.
Mirrored ==
  /\ history \in Seq(Entry) /\ history # <<>>
  /\ Authority!TypeInvariant
  /\ history[Len(history)].complete = returnComplete
  /\ returnComplete => state = "idle"
  /\ state = "idle" => ~away

\* A complete return stays at rest while nothing is published after it.
Rested ==
  \A c \in 1 .. Len(history) :
    history[c].complete /\ (\A m \in c + 1 .. Len(history) : ~history[m].published) => ~away

\* The client knows the last message delivered on each key, and between that of complete and
\* that of the state nothing was published.
InOrder ==
  /\ delivered \in [Keys -> Nat] /\ sampleSeq \in [Keys -> Nat \cup {-1}]
  /\ cache \in [Keys -> StateMessage \cup Latch]
  /\ \A k \in Keys : /\ delivered[k] \in 1 .. Len(history)
                     /\ sampleSeq[k] <= delivered[k]
                     /\ cache[k] = Message(k, delivered[k])
  /\ \A m \in delivered["complete"] + 1 .. delivered["state"] - 1 : ~history[m].published

\* Requests are handled in the order they are made, and none is lost: what was handled has an
\* earlier number than what waits.  Of the numbers of other sources nothing is known.
Queued ==
  /\ intents \in Seq(Requests) /\ lastIntent \in Nat
  /\ Len(intents) <= lastIntent
  /\ \A i \in 1 .. Len(intents) : intents[i].intent = lastIntent - Len(intents) + i
  /\ \A n \in 1 .. Len(history) :
       history[n].own => history[n].intent <= lastIntent - Len(intents)

\* The return that is waited for is the last request, and once it is handled teleop is over.
ReturnLast ==
  pending.action = "return" =>
    /\ pending.intent = lastIntent /\ lastIntent > 0
    /\ IF intents = <<>> THEN state # "teleop" ELSE intents[Len(intents)].action = "return"

\* Once it is handled, a complete return with nothing published between the two, be it this
\* one or the one before, says that the arms are at rest.
Returned ==
  pending.action = "return" =>
    \A s, c \in 1 .. Len(history) :
      /\ history[s].own /\ history[s].intent = pending.intent /\ history[c].complete
      /\ \A m \in c + 1 .. s - 1 : ~history[m].published
      => ~away

OrderlyInv == scenario # "startup" => Mirrored /\ Rested /\ InOrder /\ Queued /\ ReturnLast /\ Returned

LEMMA OrderlyMoves ==
  ASSUME scenario # "startup", [ScenariosNext]_every
  PROVE  scenario' = scenario /\ (OrderlyNext \/ CalibrationNext \/ UNCHANGED vars)
BY DEF ScenariosNext, OrderlyNext, every

\* What a step of the source does: it asks for something, or at most forgets what it asked for.
Asks(action) ==
  /\ lastIntent' = lastIntent + 1
  /\ pending' = [action |-> action, intent |-> lastIntent + 1]
  /\ intents' = Append(intents, [action |-> action, intent |-> lastIntent + 1])

Forgets == pending' \in {pending, NoRequest} /\ UNCHANGED <<lastIntent, intents>>

LEMMA OrderlySource ==
  ASSUME Orderly!SourceStep
  PROVE  /\ UNCHANGED <<authority, history, delivered, cache, sampleSeq>>
         /\ Forgets \/ \E action \in Actions : Asks(action)
<1>1. UNCHANGED <<authority, history, delivered>>
  BY DEF Orderly!SourceStep, Orderly!authority, authority
<1>2. ASSUME NEW action \in Actions, Orderly!Publish(action)
      PROVE  Asks(action) /\ UNCHANGED <<cache, sampleSeq>>
  BY <1>2 DEF Orderly!Publish, Orderly!Request, Asks
<1>3. ASSUME Orderly!Poll, UNCHANGED intents PROVE Forgets /\ UNCHANGED <<cache, sampleSeq>>
  BY <1>3 DEF Orderly!Poll, Orderly!NoRequest, NoRequest, Forgets
<1>4. ASSUME Orderly!RequestReturn PROVE Asks("return") /\ UNCHANGED <<cache, sampleSeq>>
  BY <1>2, <1>4 DEF Orderly!RequestReturn, Actions
<1>5. CASE Orderly!RequestStart
  BY <1>1, <1>2, <1>5 DEF Orderly!RequestStart, Actions
<1>6. CASE Orderly!ObeyReturnKey \/ Orderly!FrameTrouble \/ Orderly!InputsLost
  BY <1>1, <1>4, <1>6 DEF Orderly!ObeyReturnKey, Orderly!FrameTrouble, Orderly!InputsLost, Actions
<1>7. CASE Orderly!ReturnKey \/ Orderly!QuitKey
  BY <1>1, <1>7 DEF Orderly!ReturnKey, Orderly!QuitKey, Orderly!client, Orderly!request, Forgets
<1>8. CASE Orderly!Started \/ Orderly!StartRefused \/ Orderly!ReturnDone \/ Orderly!ReturnOverdue
             \/ Orderly!Waiting
  <2>1. Orderly!Poll /\ UNCHANGED intents
    BY <1>8 DEF Orderly!Started, Orderly!StartRefused, Orderly!ReturnDone, Orderly!ReturnOverdue,
       Orderly!Waiting, Orderly!Move
  <2>. QED
    BY <1>1, <1>3, <2>1
<1>9. CASE Orderly!NodeClock
  BY <1>1, <1>9 DEF Orderly!NodeClock, Orderly!ClientClock, Forgets
<1>. QED
  BY <1>5, <1>6, <1>7, <1>8, <1>9 DEF Orderly!SourceStep

LEMMA CalibrationSource ==
  ASSUME CalibrationNext
  PROVE  /\ UNCHANGED <<authority, history, delivered, cache, sampleSeq>>
         /\ Forgets \/ \E action \in Actions : Asks(action)
<1>1. UNCHANGED <<authority, history, delivered>>
  BY DEF CalibrationNext
<1>2. ASSUME NEW action \in Actions, Calibration!Ask(action)
      PROVE  Asks(action) /\ UNCHANGED <<cache, sampleSeq>>
  BY <1>2 DEF Calibration!Ask, Calibration!Request, Asks
<1>3. ASSUME Calibration!Poll, UNCHANGED intents PROVE Forgets /\ UNCHANGED <<cache, sampleSeq>>
  BY <1>3 DEF Calibration!Poll, Calibration!NoRequest, NoRequest, Forgets
<1>4. ASSUME UNCHANGED <<client, intents>> PROVE Forgets /\ UNCHANGED <<cache, sampleSeq>>
  BY <1>4 DEF client, request, Forgets
<1>5. CASE Calibration!StartKey
  BY <1>1, <1>2, <1>3, <1>5 DEF Calibration!StartKey, Actions
<1>6. ASSUME NEW exit, Calibration!BeginReturn(exit)
      PROVE  Asks("return") /\ UNCHANGED <<cache, sampleSeq>>
  BY <1>2, <1>6 DEF Calibration!BeginReturn, Actions
<1>7. CASE Calibration!ReturnKey
  BY <1>1, <1>6, <1>7 DEF Calibration!ReturnKey, Actions
<1>8. CASE Calibration!QuitKey
  BY <1>1, <1>4, <1>6, <1>8
  DEF Calibration!QuitKey, Calibration!client, Calibration!query, Calibration!request,
      client, query, request, Actions
<1>9. CASE Calibration!CircleKey \/ Calibration!AxisKey
  BY <1>1, <1>4, <1>9
  DEF Calibration!CircleKey, Calibration!AxisKey, Calibration!client, Calibration!query,
      Calibration!request, client, query, request
<1>10. CASE Calibration!Started \/ Calibration!StartRefused \/ Calibration!ReturnDone
              \/ Calibration!AdvanceCircle \/ Calibration!Waiting
  <2>1. Calibration!Poll /\ UNCHANGED intents
    BY <1>10 DEF Calibration!Started, Calibration!StartRefused, Calibration!ReturnDone,
       Calibration!AdvanceCircle, Calibration!Waiting
  <2>. QED
    BY <1>1, <1>3, <2>1
<1>11. CASE Calibration!Clock
  BY <1>1, <1>11 DEF Calibration!Clock, Calibration!ClientClock, Forgets
<1>. QED
  BY <1>5, <1>7, <1>8, <1>9, <1>10, <1>11 DEF CalibrationNext, Calibration!CalibrationStep

\* What the coordinator does to its phase, its latches and the arms.
AuthorityStep ==
  \/ Authority!AcceptStart \/ Authority!AcceptReturn \/ Authority!RaiseFault \/ Authority!Advance
  \/ UNCHANGED authority

\* The entry of the history it makes.
Records(e) ==
  /\ history' = Append(history, e) /\ e \in Entry
  /\ e.complete = returnComplete'

\* Its number is that of the last entry, and was given by the same source.
SameNumber(e) ==
  /\ e.intent = history[Len(history)].intent
  /\ history[Len(history)].own

\* Only a start in idle begins teleop, only teleop takes the arms from Home, and a return that
\* is complete is over.
LEMMA AuthorityRest ==
  ASSUME AuthorityStep, Authority!TypeInvariant, returnComplete => state = "idle",
         state = "idle" => ~away
  PROVE  /\ Authority!TypeInvariant'
         /\ returnComplete' => state' = "idle"
         /\ state' = "idle" => ~away'
         /\ state # "teleop" /\ ~Authority!AcceptStart => state' # "teleop" /\ (~away => ~away')
<1>1. Authority!TypeInvariant'
  BY AuthorityType DEF AuthorityStep
<1>2. CASE Authority!Advance
  <2>1. PICK p \in Authority!Successors[state], complete \in BOOLEAN :
          /\ away' \in BOOLEAN
          /\ away' => p = "teleop" \/ (p # "idle" /\ away)
          /\ complete => p = "returning" /\ ~away'
          /\ state' = IF complete THEN "idle" ELSE p
          /\ returnComplete' = (complete \/ (returnComplete /\ p = state))
    BY <1>2 DEF Authority!Advance
  <2>2. state # "teleop" => p # "teleop"
    BY <2>1 DEF Authority!Successors, Authority!TypeInvariant
  <2>. QED
    BY <1>1, <2>1, <2>2
<1>3. CASE ~Authority!Advance
  BY <1>1, <1>3 DEF AuthorityStep, Authority!AcceptStart, Authority!AcceptReturn, Authority!RaiseFault,
     authority
<1>. QED
  BY <1>2, <1>3

LEMMA OrderlyCoordinator ==
  ASSUME Mirrored, Queued,
         Orderly!CoordinatorTick \/ Orderly!CoordinatorFault \/ Orderly!HandleIntent
           \/ Orderly!HandleForeignIntent
  PROVE  /\ AuthorityStep
         /\ UNCHANGED <<delivered, cache, sampleSeq, pending, lastIntent>>
         /\ \E e \in Entry :
              /\ Records(e)
              /\ e.published \/ (~returnComplete' /\ UNCHANGED away)
              /\ \/ /\ UNCHANGED intents /\ ~Authority!AcceptStart
                    /\ e.own => SameNumber(e)
                 \/ /\ intents # <<>> /\ e.published /\ e.intent = Head(intents).intent
                    /\ intents' = Tail(intents)
                    /\ Head(intents).action = "return" =>
                         state' # "teleop" /\ UNCHANGED away
<1>0. /\ history \in Seq(Entry) /\ Len(history) \in Nat /\ Len(history) > 0
      /\ history[Len(history)] \in Entry
  BY DEF Mirrored
<1>1. ASSUME NEW i \in Nat, NEW o \in BOOLEAN, NEW b \in BOOLEAN, Orderly!Record(i, o, b),
             Authority!TypeInvariant'
      PROVE  \E e \in Entry : Records(e) /\ e.intent = i /\ e.own = o /\ e.published = b
  <2>. DEFINE e == [state |-> state', intent |-> i, own |-> o, home |-> atHome',
                    complete |-> returnComplete', published |-> b]
  <2>1. e \in Entry
    BY <1>1 DEF Entry, Authority!TypeInvariant
  <2>2. history' = Append(history, e)
    BY <1>1 DEF Orderly!Record
  <2>3. e.complete = returnComplete' /\ e.intent = i /\ e.own = o /\ e.published = b
    OBVIOUS
  <2>. HIDE DEF e
  <2>. QED
    BY <2>1, <2>2, <2>3 DEF Records
<1>2. PICK i \in Nat, o \in BOOLEAN :
        i = history[Len(history)].intent /\ o = history[Len(history)].own
  BY <1>0 DEF Entry
<1>3. CASE Orderly!CoordinatorTick
  <2>1. Authority!Advance
    BY <1>3 DEF Orderly!CoordinatorTick, Orderly!Authority!Advance, Orderly!Authority!Successors,
       Authority!Advance, Authority!Successors
  <2>2. AuthorityStep /\ Authority!TypeInvariant'
    BY <2>1, AuthorityRest DEF AuthorityStep, Mirrored
  <2>3. ~Authority!AcceptStart
    BY <2>1 DEF Authority!Advance, Authority!AcceptStart, Authority!Successors
  <2>4. Orderly!Record(i, o, TRUE)
    BY <1>2, <1>3 DEF Orderly!CoordinatorTick, Orderly!RecordAgain
  <2>5. UNCHANGED <<delivered, cache, sampleSeq, pending, lastIntent, intents>>
    BY <1>3 DEF Orderly!CoordinatorTick, Orderly!RecordAgain, Orderly!Record, Orderly!source,
       Orderly!client, Orderly!request
  <2>6. PICK e \in Entry : Records(e) /\ e.intent = i /\ e.own = o /\ e.published = TRUE
    BY <1>1, <2>2, <2>4
  <2>7. e.own => SameNumber(e)
    BY <1>2, <2>6 DEF SameNumber
  <2>. QED
    BY <2>2, <2>3, <2>5, <2>6, <2>7
<1>4. CASE Orderly!CoordinatorFault
  <2>1. Authority!RaiseFault
    BY <1>4 DEF Orderly!CoordinatorFault, Orderly!Authority!RaiseFault, Authority!RaiseFault
  <2>2. AuthorityStep /\ Authority!TypeInvariant'
    BY <2>1, AuthorityRest DEF AuthorityStep, Mirrored
  <2>3. ~Authority!AcceptStart /\ ~returnComplete' /\ UNCHANGED away
    BY <2>1 DEF Authority!RaiseFault, Authority!AcceptStart
  <2>4. Orderly!Record(i, o, FALSE)
    BY <1>2, <1>4 DEF Orderly!CoordinatorFault, Orderly!RecordAgain
  <2>5. UNCHANGED <<delivered, cache, sampleSeq, pending, lastIntent, intents>>
    BY <1>4 DEF Orderly!CoordinatorFault, Orderly!RecordAgain, Orderly!Record, Orderly!source,
       Orderly!client, Orderly!request
  <2>6. PICK e \in Entry : Records(e) /\ e.intent = i /\ e.own = o /\ e.published = FALSE
    BY <1>1, <2>2, <2>4
  <2>7. e.own => SameNumber(e)
    BY <1>2, <2>6 DEF SameNumber
  <2>. QED
    BY <2>2, <2>3, <2>5, <2>6, <2>7
<1>5. CASE Orderly!HandleIntent
  <2>1. intents # <<>> /\ intents' = Tail(intents) /\ Orderly!Record(Head(intents).intent, TRUE, TRUE)
    BY <1>5 DEF Orderly!HandleIntent, Orderly!Refuse
  <2>2. Head(intents) \in Requests
    <3>. HIDE DEF Requests
    <3>. QED
      BY <2>1 DEF Queued
  <2>3. Head(intents).intent \in Nat /\ Head(intents).action \in Actions
    BY <2>2 DEF Requests
  <2>4. \/ Authority!AcceptStart /\ Head(intents).action = "start"
        \/ Authority!AcceptReturn
        \/ UNCHANGED authority /\ (Head(intents).action = "start" \/ state = "fault")
    BY <1>5 DEF Orderly!HandleIntent, Orderly!Refuse, Orderly!Authority!AcceptStart,
       Orderly!Authority!AcceptReturn, Authority!AcceptStart, Authority!AcceptReturn,
       Orderly!authority, authority
  <2>5. AuthorityStep /\ Authority!TypeInvariant'
    BY <2>4, AuthorityRest DEF AuthorityStep, Mirrored
  <2>6. Head(intents).action = "return" => state' # "teleop" /\ UNCHANGED away
    BY <2>4 DEF Authority!AcceptReturn, authority
  <2>7. UNCHANGED <<delivered, cache, sampleSeq, pending, lastIntent>>
    BY <1>5 DEF Orderly!HandleIntent, Orderly!Refuse, Orderly!Record, Orderly!client, Orderly!request
  <2>. QED
    BY <1>1, <2>1, <2>3, <2>5, <2>6, <2>7
<1>6. CASE Orderly!HandleForeignIntent
  <2>1. PICK number \in OrderlyForeign : Orderly!Refuse(number, FALSE)
    BY <1>6 DEF Orderly!HandleForeignIntent
  <2>5. number \in Nat /\ Orderly!Record(number, FALSE, TRUE) /\ UNCHANGED authority
    BY <2>1, ForeignAssumption DEF Orderly!Refuse, Orderly!authority, authority
  <2>2. AuthorityStep /\ Authority!TypeInvariant'
    BY <2>5, AuthorityRest DEF AuthorityStep, Mirrored
  <2>3. ~Authority!AcceptStart
    BY <2>5 DEF authority, Authority!AcceptStart
  <2>4. UNCHANGED <<delivered, cache, sampleSeq, pending, lastIntent, intents>>
    BY <1>6 DEF Orderly!HandleForeignIntent, Orderly!Refuse, Orderly!Record, Orderly!source,
       Orderly!client, Orderly!request
  <2>. QED
    BY <1>1, <2>5, <2>2, <2>3, <2>4
<1>. QED
  BY <1>3, <1>4, <1>5, <1>6

\* A delivery is what the client knows next, and may end a start that is refused.
Delivers(k, n) ==
  /\ n \in delivered[k] + 1 .. Len(history)
  /\ \A m \in delivered[k] + 1 .. n - 1 : ~history[m].published
  /\ k = "state" => delivered["complete"] = delivered["state"]
  /\ delivered' = [delivered EXCEPT ![k] = n]
  /\ cache' = [cache EXCEPT ![k] = Message(k, n)]
  /\ sampleSeq' = [sampleSeq EXCEPT ![k] = n]
  /\ Forgets
  /\ UNCHANGED <<authority, history>>

LEMMA OrderlyDelivery ==
  ASSUME Mirrored, InOrder, NEW k \in Keys, NEW n \in delivered[k] + 1 .. Len(history),
         Orderly!Deliver(k, n)
  PROVE  Delivers(k, n)
<1>1. history \in Seq(Entry) /\ delivered[k] \in 1 .. Len(history) /\ n \in 1 .. Len(history)
  BY DEF Mirrored, InOrder
<1>2. /\ Message(k, n).seq = n /\ Message(k, delivered[k]).seq = delivered[k]
      /\ Message(k, delivered[k]) # None
  BY <1>1, MessageType
<1>3. Orderly!Message(k, n) = Message(k, n)
  BY DEF Orderly!Message, Message
<1>4. /\ Orderly!InTurn(k, n)
      /\ Orderly!OnSample(k, Message(k, n))
      /\ delivered' = [delivered EXCEPT ![k] = n]
      /\ UNCHANGED <<intents, authority, history>>
  BY <1>3 DEF Orderly!Deliver, Orderly!authority, authority
<1>5. Orderly!Newest(k, Message(k, n))
  BY <1>1, <1>2 DEF Orderly!Newest, Orderly!Seen, InOrder
<1>6. n > sampleSeq[k]
  BY <1>1 DEF InOrder
<1>7. Orderly!Remember(k, Message(k, n)) /\ sampleSeq' = [sampleSeq EXCEPT ![k] = n]
  BY <1>2, <1>4, <1>5, <1>6 DEF Orderly!OnSample, Orderly!Consider
<1>8. cache' = [cache EXCEPT ![k] = Message(k, n)] /\ pending' \in {pending, NoRequest}
      /\ UNCHANGED lastIntent
  BY <1>7 DEF Orderly!Remember, Orderly!NoRequest, NoRequest
<1>9. /\ \A m \in delivered[k] + 1 .. n - 1 : ~history[m].published
      /\ k = "state" => delivered["complete"] = delivered["state"]
  <2>1. \A m \in delivered[k] + 1 .. n - 1 : ~history[m].published
    BY <1>4 DEF Orderly!InTurn
  <2>2. ASSUME k = "state" PROVE delivered["complete"] = delivered["state"]
    BY <1>4, <2>2 DEF Orderly!InTurn
  <2>. QED
    BY <2>1, <2>2
<1>. QED
  BY <1>4, <1>7, <1>8, <1>9 DEF Delivers, Forgets

\* What the coordinator does, as far as the invariant is concerned.
Coordinates(e) ==
  /\ AuthorityStep
  /\ UNCHANGED <<delivered, cache, sampleSeq, pending, lastIntent>>
  /\ Records(e)
  /\ e.published \/ UNCHANGED away
  /\ \/ /\ UNCHANGED intents /\ ~Authority!AcceptStart
        /\ e.own => SameNumber(e)
     \/ /\ intents # <<>> /\ e.intent = Head(intents).intent
        /\ intents' = Tail(intents)
        /\ Head(intents).action = "return" => state' # "teleop" /\ UNCHANGED away

\* The three kinds of steps.
Asking ==
  /\ UNCHANGED <<authority, history, delivered, cache, sampleSeq>>
  /\ Forgets \/ \E action \in Actions : Asks(action)
Coordinating == \E e \in Entry : Coordinates(e)
Delivering == \E k \in Keys, n \in Nat : Delivers(k, n)

LEMMA OrderlyKinds ==
  ASSUME Mirrored, InOrder, Queued, OrderlyNext \/ CalibrationNext \/ UNCHANGED vars
  PROVE  Asking \/ Coordinating \/ Delivering
<1>1. ASSUME Orderly!CoordinatorTick \/ Orderly!CoordinatorFault \/ Orderly!HandleIntent
               \/ Orderly!HandleForeignIntent
      PROVE  Coordinating
  BY <1>1, OrderlyCoordinator DEF Coordinating, Coordinates
<1>2. ASSUME NEW k \in Keys, NEW n \in delivered[k] + 1 .. Len(history), Orderly!Deliver(k, n)
      PROVE  Delivering
  <2>1. n \in Nat
    BY DEF InOrder
  <2>. QED
    BY <1>2, <2>1, OrderlyDelivery DEF Delivering
<1>3. CASE Orderly!SourceStep
  BY <1>3, OrderlySource DEF Asking
<1>4. CASE UNCHANGED vars
  BY <1>4 DEF vars, source, client, request, Asking, Forgets
<1>5. CASE CalibrationNext
  BY <1>5, CalibrationSource DEF Asking
<1>. QED
  BY <1>1, <1>2, <1>3, <1>4, <1>5 DEF OrderlyNext, CoordinatorNext

\* The history and the phase.
LEMMA Append1 ==
  ASSUME history \in Seq(Entry), history # <<>>, NEW e \in Entry, Records(e)
  PROVE  /\ history' \in Seq(Entry) /\ history' # <<>> /\ Len(history) \in Nat \ {0}
         /\ Len(history') = Len(history) + 1
         /\ \A n \in 1 .. Len(history) : history'[n] = history[n]
         /\ history'[Len(history) + 1] = e
         /\ e.complete = returnComplete'
BY DEF Records

LEMMA IntentsAreNumbers ==
  ASSUME Mirrored
  PROVE  \A n \in 1 .. Len(history) : history[n].intent \in Nat
<1>1. \A n \in 1 .. Len(history) : history[n] \in Entry
  BY DEF Mirrored
<1>. QED
  BY <1>1 DEF Entry

LEMMA MirroredStep ==
  ASSUME Mirrored, Rested, Asking \/ Coordinating \/ Delivering
  PROVE  Mirrored' /\ Rested'
<1>1. CASE UNCHANGED <<authority, history>>
  BY <1>1 DEF authority, Mirrored, Rested, Authority!TypeInvariant
<1>2. ASSUME NEW e \in Entry, Coordinates(e) PROVE Mirrored' /\ Rested'
  <2>1. /\ history' \in Seq(Entry) /\ history' # <<>> /\ Len(history) \in Nat \ {0}
        /\ Len(history') = Len(history) + 1
        /\ \A n \in 1 .. Len(history) : history'[n] = history[n]
        /\ history'[Len(history) + 1] = e
        /\ e.complete = returnComplete'
    BY <1>2, Append1 DEF Mirrored, Coordinates
  <2>2. /\ Authority!TypeInvariant'
        /\ returnComplete' => state' = "idle"
        /\ state' = "idle" => ~away'
    BY <1>2, AuthorityRest DEF Mirrored, Coordinates
  <2>3. Mirrored'
    BY <2>1, <2>2 DEF Mirrored
  <2>4. ASSUME NEW c \in 1 .. Len(history'), history'[c].complete,
               \A m \in c + 1 .. Len(history') : ~history'[m].published
        PROVE  ~away'
    <3>1. CASE c = Len(history) + 1
      BY <3>1, <2>1, <2>2, <2>4
    <3>2. CASE c \in 1 .. Len(history)
      <4>1. UNCHANGED away
        BY <1>2, <3>2, <2>1, <2>4 DEF Coordinates
      <4>2. history[c].complete /\ \A m \in c + 1 .. Len(history) : ~history[m].published
        BY <3>2, <2>1, <2>4
      <4>. QED
        BY <3>2, <4>1, <4>2 DEF Rested
    <3>. QED
      BY <3>1, <3>2, <2>1
  <2>. QED
    BY <2>3, <2>4 DEF Rested
<1>. QED
  BY <1>1, <1>2 DEF Asking, Coordinating, Delivering, Delivers

LEMMA InOrderStep ==
  ASSUME Mirrored, InOrder, Asking \/ Coordinating \/ Delivering
  PROVE  InOrder'
<1>0. history \in Seq(Entry) /\ history # <<>>
  BY DEF Mirrored
<1>1. CASE Asking
  BY <1>1 DEF Asking, InOrder, Message, Keys
<1>2. ASSUME NEW e \in Entry, Coordinates(e) PROVE InOrder'
  <2>1. /\ history' \in Seq(Entry) /\ Len(history) \in Nat \ {0}
        /\ Len(history') = Len(history) + 1
        /\ \A n \in 1 .. Len(history) : history'[n] = history[n]
    BY <1>0, <1>2, Append1 DEF Coordinates
  <2>2. \A k \in Keys : \A n \in 1 .. Len(history) : Message(k, n)' = Message(k, n)
    BY <1>0, <1>2, MessageStays DEF Coordinates, Records, HistoryStep
  <2>3. UNCHANGED <<delivered, cache, sampleSeq>>
    BY <1>2 DEF Coordinates
  <2>4. ASSUME NEW k \in Keys
        PROVE  /\ delivered[k]' \in 1 .. Len(history')
               /\ sampleSeq[k]' <= delivered[k]'
               /\ cache[k]' = Message(k, delivered[k])'
    <3>1. delivered[k] \in 1 .. Len(history) /\ sampleSeq[k] <= delivered[k]
          /\ cache[k] = Message(k, delivered[k])
      BY DEF InOrder
    <3>2. Message(k, delivered[k])' = Message(k, delivered[k])
      BY <2>2, <2>3, <3>1 DEF Message, Keys
    <3>. QED
      BY <2>1, <2>3, <3>1, <3>2
  <2>5. \A m \in delivered'["complete"] + 1 .. delivered'["state"] - 1 : ~history'[m].published
    <3>1. delivered["complete"] \in 1 .. Len(history) /\ delivered["state"] \in 1 .. Len(history)
      BY DEF InOrder, Keys
    <3>2. \A m \in delivered["complete"] + 1 .. delivered["state"] - 1 :
            m \in 1 .. Len(history) /\ ~history[m].published
      BY <3>1 DEF InOrder
    <3>3. \A m \in delivered["complete"] + 1 .. delivered["state"] - 1 : ~history'[m].published
      BY <2>1, <3>2
    <3>. QED
      BY <2>3, <3>3
  <2>. QED
    BY <2>3, <2>4, <2>5 DEF InOrder
<1>3. ASSUME NEW k \in Keys, NEW n \in Nat, Delivers(k, n) PROVE InOrder'
  <2>1. delivered[k] \in 1 .. Len(history) /\ n \in 1 .. Len(history) /\ n > delivered[k]
        /\ UNCHANGED history
    BY <1>0, <1>3 DEF InOrder, Delivers
  <2>2. Message(k, n) \in StateMessage \cup Latch
    BY <1>0, <2>1, MessageType
  <2>3. /\ delivered' \in [Keys -> Nat] /\ sampleSeq' \in [Keys -> Nat \cup {-1}]
        /\ cache' \in [Keys -> StateMessage \cup Latch]
    BY <1>3, <2>1, <2>2 DEF InOrder, Delivers
  <2>4. ASSUME NEW j \in Keys
        PROVE  /\ delivered[j]' \in 1 .. Len(history')
               /\ sampleSeq[j]' <= delivered[j]'
               /\ cache[j]' = Message(j, delivered[j])'
    <3>1. CASE j = k
      <4>1. delivered[j]' = n /\ sampleSeq[j]' = n /\ cache[j]' = Message(k, n)
        BY <1>3, <3>1 DEF InOrder, Delivers
      <4>2. Message(j, delivered[j])' = Message(k, n)
        BY <2>1, <3>1, <4>1 DEF Message, Keys
      <4>. QED
        BY <2>1, <4>1, <4>2
    <3>2. CASE j # k
      <4>1. UNCHANGED <<delivered[j], sampleSeq[j], cache[j]>>
        BY <1>3, <3>2 DEF InOrder, Delivers
      <4>2. Message(j, delivered[j])' = Message(j, delivered[j])
        BY <2>1, <4>1 DEF Message, Keys
      <4>. QED
        BY <2>1, <4>1, <4>2 DEF InOrder
    <3>. QED
      BY <3>1, <3>2
  <2>5. \A m \in delivered'["complete"] + 1 .. delivered'["state"] - 1 : ~history[m].published
    <3>0. delivered["complete"] \in Nat /\ delivered["state"] \in Nat
      BY DEF InOrder, Keys
    <3>1. CASE k = "state"
      <4>1. delivered'["state"] = n /\ delivered'["complete"] = delivered["state"]
        BY <1>3, <3>1 DEF InOrder, Delivers, Keys
      <4>. QED
        BY <1>3, <3>1, <4>1 DEF Delivers
    <3>2. CASE k = "complete"
      <4>1. delivered'["state"] = delivered["state"] /\ delivered'["complete"] = n
        BY <1>3, <3>2 DEF InOrder, Delivers, Keys
      <4>. QED
        BY <2>1, <3>0, <3>2, <4>1 DEF InOrder
    <3>3. CASE k = "home"
      <4>1. delivered'["state"] = delivered["state"] /\ delivered'["complete"] = delivered["complete"]
        BY <1>3, <3>3 DEF InOrder, Delivers, Keys
      <4>. QED
        BY <4>1 DEF InOrder
    <3>. QED
      BY <3>1, <3>2, <3>3 DEF Keys
  <2>. QED
    BY <2>1, <2>3, <2>4, <2>5 DEF InOrder
<1>. QED
  BY <1>1, <1>2, <1>3 DEF Coordinating, Delivering

\* The requests.
LEMMA QueuedStep ==
  ASSUME Mirrored, Queued, Asking \/ Coordinating \/ Delivering
  PROVE  Queued'
<1>. DEFINE L == Len(intents)
<1>0. /\ intents \in Seq(Requests) /\ lastIntent \in Nat /\ L \in Nat /\ L <= lastIntent
      /\ \A i \in 1 .. L : intents[i].intent = lastIntent - L + i
      /\ \A n \in 1 .. Len(history) : history[n].own => history[n].intent <= lastIntent - L
  BY DEF Queued
<1>1. CASE UNCHANGED <<history, intents, lastIntent>>
  BY <1>1 DEF Queued
<1>2. ASSUME NEW action \in Actions, Asks(action), UNCHANGED history PROVE Queued'
  <2>. DEFINE r == [action |-> action, intent |-> lastIntent + 1]
  <2>1. r \in Requests /\ r.intent = lastIntent + 1
    BY <1>0 DEF Requests
  <2>2. intents' = Append(intents, r) /\ lastIntent' = lastIntent + 1
    BY <1>2 DEF Asks
  <2>. HIDE DEF r, Requests
  <2>3. /\ intents' \in Seq(Requests) /\ Len(intents') = L + 1
        /\ \A i \in 1 .. L : intents'[i] = intents[i]
        /\ intents'[L + 1] = r
    BY <1>0, <2>1, <2>2
  <2>4. \A i \in 1 .. L + 1 : intents'[i].intent = lastIntent' - (L + 1) + i
    <3>1. \A i \in 1 .. L : intents'[i].intent = lastIntent - L + i
      BY <1>0, <2>3
    <3>2. intents'[L + 1].intent = lastIntent + 1
      BY <2>1, <2>3
    <3>3. L \in Nat /\ lastIntent \in Nat
      BY <1>0
    <3>4. lastIntent' - (L + 1) = lastIntent - L
      BY <2>2, <3>3
    <3>5. ASSUME NEW i \in 1 .. L + 1
          PROVE  intents'[i].intent = lastIntent - L + i
      <4>1. CASE i \in 1 .. L
        BY <3>1, <4>1
      <4>2. CASE i = L + 1
        <5>1. lastIntent - L + (L + 1) = lastIntent + 1
          <6>. HIDE DEF L
          <6>. QED
            BY <3>3
        <5>. QED
          BY <3>2, <4>2, <5>1
      <4>3. i \in 1 .. L \/ i = L + 1
        <5>. HIDE DEF L
        <5>. QED
          BY <3>3
      <4>. QED
        BY <4>1, <4>2, <4>3
    <3>. QED
      BY <3>4, <3>5
  <2>5. lastIntent' - (L + 1) = lastIntent - L
    BY <1>0, <2>2
  <2>6. \A n \in 1 .. Len(history') :
          history'[n].own => history'[n].intent <= lastIntent' - (L + 1)
    BY <1>0, <1>2, <2>5
  <2>. QED
    BY <1>0, <2>2, <2>3, <2>4, <2>6 DEF Queued
<1>3. ASSUME NEW e \in Entry, Coordinates(e) PROVE Queued'
  <2>1. /\ Len(history') = Len(history) + 1 /\ Len(history) \in Nat \ {0}
        /\ \A n \in 1 .. Len(history) : history'[n] = history[n]
        /\ history'[Len(history) + 1] = e
    BY <1>3, Append1 DEF Mirrored, Coordinates
  <2>2. UNCHANGED lastIntent
    BY <1>3 DEF Coordinates
  <2>3. CASE UNCHANGED intents /\ (e.own => SameNumber(e))
    <3>1. e.own => e.intent <= lastIntent - L
      BY <1>0, <2>1, <2>3 DEF SameNumber
    <3>2. \A n \in 1 .. Len(history') : history'[n].own => history'[n].intent <= lastIntent - L
      BY <1>0, <2>1, <3>1
    <3>. QED
      BY <1>0, <2>2, <2>3, <3>2 DEF Queued
  <2>4. CASE intents # <<>> /\ intents' = Tail(intents) /\ e.intent = Head(intents).intent
    <3>. HIDE DEF Requests
    <3>1. /\ intents' \in Seq(Requests) /\ Len(intents') = L - 1 /\ L >= 1
          /\ \A i \in 1 .. L - 1 : intents'[i] = intents[i + 1]
          /\ Head(intents) = intents[1]
      BY <1>0, <2>4
    <3>2. e.intent = lastIntent - L + 1
      BY <1>0, <2>4, <3>1
    <3>3. ASSUME NEW i \in 1 .. L - 1
          PROVE  intents'[i].intent = lastIntent - (L - 1) + i
      <4>1. i + 1 \in 1 .. L /\ intents'[i] = intents[i + 1]
        BY <3>1
      <4>2. intents[i + 1].intent = lastIntent - L + (i + 1)
        BY <1>0, <4>1
      <4>. QED
        BY <1>0, <4>1, <4>2
    <3>4. \A n \in 1 .. Len(history') :
            history'[n].own => history'[n].intent <= lastIntent - (L - 1)
      <4>1. ASSUME NEW n \in 1 .. Len(history), history'[n].own
            PROVE  history'[n].intent <= lastIntent - (L - 1)
        <5>1. history[n].intent \in Nat
          BY IntentsAreNumbers
        <5>. QED
          BY <1>0, <2>1, <4>1, <5>1
      <4>. QED
        BY <1>0, <2>1, <3>2, <4>1
    <3>. QED
      BY <1>0, <2>2, <3>1, <3>3, <3>4 DEF Queued
  <2>. QED
    BY <1>3, <2>3, <2>4 DEF Coordinates
<1>. QED
  BY <1>1, <1>2, <1>3 DEF Asking, Coordinating, Delivering, Delivers, Forgets

LEMMA ReturnLastStep ==
  ASSUME Mirrored, Queued, ReturnLast, Asking \/ Coordinating \/ Delivering
  PROVE  ReturnLast'
<1>0. intents \in Seq(Requests) /\ lastIntent \in Nat
  BY DEF Queued
<1>1. CASE Forgets /\ UNCHANGED authority
  BY <1>1 DEF Forgets, authority, ReturnLast, NoRequest
<1>2. ASSUME NEW action \in Actions, Asks(action) PROVE ReturnLast'
  <2>. DEFINE r == [action |-> action, intent |-> lastIntent + 1]
  <2>1. r \in Requests /\ r.intent = lastIntent + 1 /\ r.action = action
    BY <1>0 DEF Requests
  <2>2. intents' = Append(intents, r) /\ pending' = r /\ lastIntent' = lastIntent + 1
    BY <1>2 DEF Asks
  <2>. HIDE DEF r, Requests
  <2>3. intents' # <<>> /\ intents'[Len(intents')] = r
    BY <1>0, <2>1, <2>2
  <2>. QED
    BY <1>0, <2>1, <2>2, <2>3 DEF ReturnLast
<1>3. ASSUME NEW e \in Entry, Coordinates(e), pending'.action = "return"
      PROVE  /\ pending'.intent = lastIntent' /\ lastIntent' > 0
             /\ IF intents' = <<>> THEN state' # "teleop"
                ELSE intents'[Len(intents')].action = "return"
  <2>1. /\ pending.action = "return" /\ UNCHANGED <<pending, lastIntent>>
        /\ pending.intent = lastIntent /\ lastIntent > 0
        /\ IF intents = <<>> THEN state # "teleop" ELSE intents[Len(intents)].action = "return"
    BY <1>3 DEF Coordinates, ReturnLast
  <2>2. CASE UNCHANGED intents /\ ~Authority!AcceptStart
    <3>1. state # "teleop" => state' # "teleop"
      BY <1>3, <2>2, AuthorityRest DEF Coordinates, Mirrored
    <3>. QED
      BY <2>1, <2>2, <3>1
  <2>3. CASE /\ intents # <<>> /\ intents' = Tail(intents)
             /\ Head(intents).action = "return" => state' # "teleop"
    <3>. HIDE DEF Requests
    <3>1. CASE Len(intents) = 1
      BY <1>0, <2>1, <2>3, <3>1
    <3>2. CASE Len(intents) # 1
      <4>1. /\ Len(intents) \in Nat /\ Len(intents) > 1 /\ Len(intents') = Len(intents) - 1
            /\ \A i \in 1 .. Len(intents) - 1 : intents'[i] = intents[i + 1]
        <5>1. intents # <<>> /\ intents' = Tail(intents)
          BY <2>3
        <5>2. Len(intents) \in Nat \ {0} /\ Len(intents') = Len(intents) - 1
          BY <1>0, <5>1
        <5>3. \A i \in 1 .. Len(intents) - 1 : intents'[i] = intents[i + 1]
          BY <1>0, <5>1
        <5>. QED
          BY <3>2, <5>2, <5>3
      <4>2. intents' # <<>> /\ intents'[Len(intents')] = intents[Len(intents)]
        BY <4>1
      <4>. QED
        BY <2>1, <2>3, <4>2
    <3>. QED
      BY <3>1, <3>2
  <2>. QED
    BY <1>3, <2>1, <2>2, <2>3 DEF Coordinates
<1>. QED
  BY <1>1, <1>2, <1>3 DEF Asking, Coordinating, Delivering, Delivers, ReturnLast

LEMMA ReturnedStep ==
  ASSUME Mirrored, Rested, Queued, ReturnLast, Returned, Asking \/ Coordinating \/ Delivering
  PROVE  Returned'
<1>. DEFINE L == Len(intents)
            N == Len(history)
<1>0. /\ intents \in Seq(Requests) /\ lastIntent \in Nat /\ L \in Nat /\ L <= lastIntent
      /\ \A i \in 1 .. L : intents[i].intent = lastIntent - L + i
      /\ \A n \in 1 .. N : history[n].own => history[n].intent <= lastIntent - L
  BY DEF Queued
<1>1. CASE Forgets /\ UNCHANGED <<authority, history>>
  BY <1>1 DEF Forgets, authority, Returned, NoRequest
<1>2. ASSUME NEW action \in Actions, Asks(action), UNCHANGED history PROVE Returned'
  <2>1. pending'.intent = lastIntent + 1
    BY <1>2 DEF Asks
  <2>2. \A n \in 1 .. N : history[n].own => history[n].intent # lastIntent + 1
    <3>1. \A n \in 1 .. N : history[n].intent \in Nat
      BY IntentsAreNumbers
    <3>. QED
      BY <1>0, <3>1
  <2>. QED
    BY <1>2, <2>1, <2>2 DEF Returned
<1>3. ASSUME NEW e \in Entry, Coordinates(e), pending'.action = "return",
             NEW s \in 1 .. Len(history'), NEW c \in 1 .. Len(history'),
             history'[s].own, history'[s].intent = pending'.intent, history'[c].complete,
             \A m \in c + 1 .. s - 1 : ~history'[m].published
      PROVE  ~away'
  <2>1. /\ Len(history') = N + 1 /\ N \in Nat \ {0}
        /\ \A n \in 1 .. N : history'[n] = history[n]
        /\ history'[N + 1] = e /\ e.complete = returnComplete'
    BY <1>3, Append1 DEF Mirrored, Coordinates
  <2>2. /\ pending.action = "return" /\ UNCHANGED <<pending, lastIntent>>
        /\ pending.intent = lastIntent /\ lastIntent > 0
        /\ IF intents = <<>> THEN state # "teleop" ELSE intents[L].action = "return"
    BY <1>3 DEF Coordinates, ReturnLast
  <2>3. /\ returnComplete' => state' = "idle"
        /\ state' = "idle" => ~away'
        /\ state # "teleop" /\ ~Authority!AcceptStart => (~away => ~away')
    BY <1>3, AuthorityRest DEF Mirrored, Coordinates
  <2>4. ASSUME NEW n \in 1 .. N, history[n].own, history[n].intent = lastIntent, ~away
        PROVE  ~away'
    <3>1. L = 0 /\ intents = <<>>
      <4>1. lastIntent <= lastIntent - L /\ L \in Nat /\ lastIntent \in Nat
        BY <1>0, <2>4
      <4>2. L = 0
        <5>. HIDE DEF L
        <5>. QED
          BY <4>1
      <4>. QED
        BY <1>0, <4>2
    <3>2. state # "teleop" /\ ~Authority!AcceptStart
      BY <1>3, <2>2, <3>1 DEF Coordinates
    <3>. QED
      BY <2>3, <2>4, <3>2
  <2>5. CASE c = N + 1
    BY <1>3, <2>1, <2>3, <2>5
  <2>6. CASE c \in 1 .. N /\ s \in 1 .. N
    <3>1. history[s].own /\ history[s].intent = pending.intent /\ history[c].complete
      BY <1>3, <2>1, <2>2, <2>6
    <3>2. \A m \in c + 1 .. s - 1 : m \in 1 .. N /\ ~history[m].published
      BY <1>3, <2>1, <2>6
    <3>3. ~away
      BY <2>2, <2>6, <3>1, <3>2 DEF Returned
    <3>. QED
      BY <2>2, <2>4, <2>6, <3>1, <3>3
  <2>7. CASE c \in 1 .. N /\ s = N + 1
    <3>1. history[c].complete /\ e.own /\ e.intent = lastIntent
      BY <1>3, <2>1, <2>2, <2>7
    <3>2. \A m \in c + 1 .. N : m \in 1 .. N /\ ~history[m].published
      BY <1>3, <2>1, <2>7
    <3>3. ~away
      BY <2>7, <3>1, <3>2 DEF Rested
    <3>4. CASE SameNumber(e)
      BY <2>1, <2>4, <3>1, <3>3, <3>4 DEF SameNumber
    <3>5. CASE /\ intents # <<>> /\ e.intent = Head(intents).intent
               /\ Head(intents).action = "return" => UNCHANGED away
      <4>1. L >= 1 /\ Head(intents) = intents[1] /\ intents[1].intent = lastIntent - L + 1
        BY <1>0, <3>5
      <4>2. L = 1
        <5>1. e.intent = lastIntent - L + 1
          BY <3>5, <4>1
        <5>2. lastIntent = lastIntent - L + 1
          BY <3>1, <5>1
        <5>3. lastIntent \in Nat /\ L \in Nat
          BY <1>0
        <5>. HIDE DEF L
        <5>. QED
          BY <5>2, <5>3
      <4>3. Head(intents).action = "return"
        BY <2>2, <3>5, <4>1, <4>2
      <4>. QED
        BY <3>3, <3>5, <4>3
    <3>. QED
      BY <1>3, <3>1, <3>4, <3>5 DEF Coordinates
  <2>. QED
    BY <2>1, <2>5, <2>6, <2>7
<1>4. ASSUME Coordinating PROVE Returned'
  BY <1>3, <1>4 DEF Coordinating, Returned
<1>. QED
  BY <1>1, <1>2, <1>4 DEF Asking, Delivering, Delivers

LEMMA OrderlyInit == ConnectedInit => OrderlyInv
<1>. SUFFICES ASSUME ConnectedInit PROVE OrderlyInv
  OBVIOUS
<1>. DEFINE e == [state |-> "idle", intent |-> 0, own |-> TRUE, home |-> TRUE,
                  complete |-> FALSE, published |-> FALSE]
<1>1. e \in Entry /\ e.intent = 0 /\ e.complete = FALSE
  BY DEF Entry
<1>2. history = <<e>>
  BY DEF ConnectedInit
<1>. HIDE DEF e
<1>3. history \in Seq(Entry) /\ Len(history) = 1 /\ history[1] = e /\ history # <<>>
  BY <1>1, <1>2
<1>4. Mirrored /\ Rested
  BY <1>1, <1>3 DEF ConnectedInit, Authority!Init, Authority!TypeInvariant, Mirrored, Rested
<1>5. InOrder
  <2>1. \A k \in Keys : Message(k, 1) \in StateMessage \cup Latch
    BY <1>3, MessageType
  <2>2. \A k \in Keys : cache[k] = Message(k, 1) /\ delivered[k] = 1 /\ sampleSeq[k] = -1
    BY DEF ConnectedInit
  <2>3. \A k \in Keys : Message(k, delivered[k]) = Message(k, 1)
    BY <2>2 DEF Message, Keys
  <2>4. /\ delivered \in [Keys -> Nat] /\ sampleSeq \in [Keys -> Nat \cup {-1}]
        /\ cache \in [Keys -> StateMessage \cup Latch]
    BY <2>1 DEF ConnectedInit
  <2>5. \A m \in delivered["complete"] + 1 .. delivered["state"] - 1 : ~history[m].published
    BY <2>2 DEF Keys
  <2>. QED
    BY <1>3, <2>2, <2>3, <2>4, <2>5 DEF InOrder
<1>6. Queued
  <2>1. intents = <<>> /\ lastIntent = 0
    BY DEF ConnectedInit
  <2>. QED
    BY <1>1, <1>3, <2>1 DEF Queued
<1>7. ReturnLast /\ Returned
  BY DEF ConnectedInit, NoRequest, ReturnLast, Returned
<1>. QED
  BY <1>4, <1>5, <1>6, <1>7 DEF OrderlyInv

LEMMA OrderlyStep ==
  ASSUME OrderlyInv, [ScenariosNext]_every
  PROVE  OrderlyInv'
<1>1. CASE scenario # "startup"
  <2>1. Mirrored /\ Rested /\ InOrder /\ Queued /\ ReturnLast /\ Returned
    BY <1>1 DEF OrderlyInv
  <2>2. Asking \/ Coordinating \/ Delivering
    BY <1>1, <2>1, OrderlyMoves, OrderlyKinds
  <2>. QED
    BY <2>1, <2>2, MirroredStep, InOrderStep, QueuedStep, ReturnLastStep, ReturnedStep
    DEF OrderlyInv
<1>2. CASE scenario = "startup"
  BY <1>2 DEF ScenariosNext, OrderlyInv, every
<1>. QED
  BY <1>1, <1>2

\* A source that takes its return for complete finds the arms at rest, when nothing is lost
\* and messages come in order: neither the completion of an earlier return, nor a phase that
\* was heard before its latches, makes it believe so too early (return_completion_fresh).  The
\* state it goes by is an answer to one of its requests: the refusal of another source's
\* intent of the same number may come before the return is handled.
THEOREM ReturnsAtRest == ScenariosSpec => OrderlyArmedAtRest
<1>1. ScenariosInit => OrderlyInv
  BY OrderlyInit DEF ScenariosInit, OrderlyInv
<1>2. OrderlyInv /\ [ScenariosNext]_every => OrderlyInv'
  BY OrderlyStep
<1>3. OrderlyInv /\ [ScenariosNext]_every
        => [scenario # "startup" /\ phase = "returning" /\ phase' \in {"armed", "closed"}
              => (GoesByOwn => ~away)]_every
  <2>. SUFFICES ASSUME OrderlyInv, [ScenariosNext]_every, scenario # "startup",
                       phase = "returning", phase' \in {"armed", "closed"}, GoesByOwn
                PROVE  ~away
    OBVIOUS
  <2>1. InOrder /\ Returned /\ Mirrored
    BY DEF OrderlyInv
  <2>2. /\ pending.action = "return"
        /\ cache["state"].intent = pending.intent
        /\ cache["complete"].value
    <3>1. CASE OrderlyNext
      <4>1. Orderly!SourceStep
        BY <3>1 DEF OrderlyNext, CoordinatorNext, Orderly!CoordinatorTick, Orderly!CoordinatorFault,
           Orderly!HandleIntent, Orderly!HandleForeignIntent, Orderly!Deliver, Orderly!Refuse,
           Orderly!source, Orderly!node
      <4>2. Orderly!ReturnDone
        BY <4>1 DEF Orderly!SourceStep, Orderly!RequestStart, Orderly!ObeyReturnKey,
           Orderly!FrameTrouble, Orderly!InputsLost, Orderly!RequestReturn, Orderly!Active,
           Orderly!ReturnKey, Orderly!QuitKey, Orderly!Started, Orderly!StartRefused,
           Orderly!ReturnDone, Orderly!ReturnOverdue, Orderly!Waiting, Orderly!Move,
           Orderly!NodeClock
      <4>. QED
        BY <4>2 DEF Orderly!ReturnDone, Orderly!Move, Orderly!ReturnCompletionFresh,
           Orderly!ReturnAuthorized
    <3>2. CASE CalibrationNext
      <4>1. Calibration!ReturnDone
        BY <3>2 DEF CalibrationNext, Calibration!CalibrationStep, Calibration!StartKey,
           Calibration!ReturnKey, Calibration!BeginReturn, Calibration!QuitKey,
           Calibration!CircleKey, Calibration!AxisKey, Calibration!Started,
           Calibration!StartRefused, Calibration!ReturnDone, Calibration!AdvanceCircle,
           Calibration!Waiting, Calibration!Clock, Calibration!node
      <4>. QED
        BY <4>1 DEF Calibration!ReturnDone, Calibration!ReturnCompletionFresh,
           Calibration!ReturnAuthorized
    <3>. QED
      BY <3>1, <3>2, OrderlyMoves DEF vars, source, node
  <2>. DEFINE s == delivered["state"]
              c == delivered["complete"]
  <2>4. /\ s \in 1 .. Len(history) /\ cache["state"] = Message("state", s)
        /\ c \in 1 .. Len(history) /\ cache["complete"] = Message("complete", c)
        /\ \A m \in c + 1 .. s - 1 : ~history[m].published
    BY <2>1 DEF InOrder, Keys
  <2>5. Message("state", s).intent = history[s].intent
    BY DEF Message
  <2>6. Message("complete", c).value = history[c].complete
    BY DEF Message
  <2>7. history[s].own
    <3>1. Message("state", s).seq = s
      BY DEF Message
    <3>. QED
      BY <2>4, <3>1 DEF GoesByOwn
  <2>. QED
    BY <2>1, <2>2, <2>4, <2>5, <2>6, <2>7 DEF Returned
<1>. QED
  BY <1>1, <1>2, <1>3, PTL DEF ScenariosSpec, OrderlyArmedAtRest

-----------------------------------------------------------------------------
(* The calibration node.                                                   *)

\* While the circle is loaded the target is on its path, and before stepping, or without the
\* node, the target is at the reference.
CalibrationInv ==
  /\ offset \in Int
  /\ circle # None => circle \in 0 .. 3 * Top - 1 /\ offset = Calibration!Path(circle)
  /\ scenario # "calibration" \/ phase \in {"armed", "start_pending"} =>
       offset = 0 /\ circle = None

\* The path begins at the reference, and no unit of it moves the target by more.
LEMMA PathStep ==
  ASSUME NEW way \in 0 .. 3 * Top - 1
  PROVE  /\ Calibration!Path(way) \in Int
         /\ Calibration!Path(0) = 0
         /\ Calibration!Path(way + 1) \in Int
         /\ Calibration!Size(Calibration!Path(way + 1) - Calibration!Path(way)) <= 1
         /\ Calibration!Size(Calibration!Path(way) - Calibration!Path(way)) <= 1
BY CalibrationAssumption DEF Calibration!CalibrationAssumption, Calibration!Path, Calibration!Size

\* What a step does to the target: nothing, let go of the circle, go back to the reference ...
TargetStays ==
  /\ UNCHANGED <<offset, circle>>
  /\ scenario # "calibration" \/ phase' = phase \/ phase = "start_pending" \/ phase' = "closed"
TargetLeft == phase' = "returning" /\ UNCHANGED offset /\ circle' = None
TargetAtReference == phase' # "stepping" /\ offset' = 0 /\ circle' = None

\* ... or, while stepping, begin the circle, follow a key, follow the circle.
Stepping == scenario = "calibration" /\ phase = "stepping" /\ phase' = "stepping"
CircleBegins == circle = None /\ offset = 0 /\ offset' = Calibration!Path(0) /\ circle' = 0
KeyMoves ==
  /\ circle = None /\ circle' = None
  /\ offset' \in {offset - KeyStep, offset + KeyStep}
CircleMoves ==
  /\ circle # None
  /\ \E step \in 0 .. 1 :
       /\ step = 1 => held
       /\ offset' = Calibration!Path(circle + step)
       /\ circle' = IF circle + step = 3 * Top THEN None ELSE circle + step

LEMMA CalibrationTarget ==
  ASSUME CalibrationInv, [ScenariosNext]_every
  PROVE  /\ UNCHANGED scenario
         /\ \/ TargetStays \/ TargetLeft \/ TargetAtReference
            \/ Stepping /\ (CircleBegins \/ KeyMoves \/ CircleMoves)
<1>1. CASE scenario # "calibration" \/ UNCHANGED every
  BY <1>1 DEF ScenariosNext, every, target, vars, source, node, TargetStays
<1>2. CASE scenario = "calibration" /\ CoordinatorNext /\ UNCHANGED <<target, scenario>>
  <2>1. UNCHANGED phase
    BY <1>2 DEF CoordinatorNext, Orderly!CoordinatorTick, Orderly!CoordinatorFault,
       Orderly!HandleIntent, Orderly!HandleForeignIntent, Orderly!Deliver, Orderly!Refuse,
       Orderly!source, Orderly!node
  <2>. QED
    BY <1>2, <2>1 DEF target, TargetStays
<1>3. CASE scenario = "calibration" /\ CalibrationNext /\ UNCHANGED scenario
  <2>1. CASE Calibration!StartKey
    BY <1>3, <2>1 DEF Calibration!StartKey, TargetAtReference
  <2>2. CASE Calibration!ReturnKey \/ Calibration!QuitKey
    BY <1>3, <2>2 DEF Calibration!ReturnKey, Calibration!QuitKey, Calibration!BeginReturn,
       TargetLeft, TargetStays
  <2>3. CASE Calibration!CircleKey
    BY <1>3, <2>3 DEF Calibration!CircleKey, CircleBegins, Stepping
  <2>4. CASE Calibration!AxisKey
    <3>1. /\ phase = "stepping" /\ UNCHANGED <<phase, circle>> /\ circle = None
          /\ \E step \in {-KeyStep, KeyStep} : offset' = offset + step
      BY <2>4 DEF Calibration!AxisKey, Calibration!AxisSteps
    <3>2. offset' \in {offset - KeyStep, offset + KeyStep}
      BY <3>1, CalibrationAssumption DEF Calibration!CalibrationAssumption, CalibrationInv
    <3>. QED
      BY <1>3, <3>1, <3>2 DEF KeyMoves, Stepping
  <2>5. CASE Calibration!Started \/ Calibration!StartRefused
    BY <1>3, <2>5 DEF Calibration!Started, Calibration!StartRefused, TargetStays
  <2>6. CASE Calibration!ReturnDone
    BY <1>3, <2>6 DEF Calibration!ReturnDone, TargetStays, TargetAtReference
  <2>7. CASE Calibration!AdvanceCircle
    <3>1. PICK step \in Calibration!TickSteps :
            /\ offset' = Calibration!Path(circle + step)
            /\ IF circle + step = Calibration!Whole
               THEN circle' = None
               ELSE circle' = circle + step
      BY <2>7 DEF Calibration!AdvanceCircle
    <3>2. step \in 0 .. 1 /\ (step = 1 => held)
      BY <3>1 DEF Calibration!TickSteps
    <3>3. phase = "stepping" /\ UNCHANGED phase /\ circle # None
      BY <2>7 DEF Calibration!AdvanceCircle
    <3>4. CircleMoves
      BY <3>1, <3>2, <3>3 DEF CircleMoves, Calibration!Whole
    <3>. QED
      BY <1>3, <3>3, <3>4 DEF Stepping
  <2>8. CASE Calibration!Waiting \/ Calibration!Clock
    BY <1>3, <2>8 DEF Calibration!Waiting, Calibration!Clock, Calibration!node, TargetStays
  <2>. QED
    BY <1>3, <2>1, <2>2, <2>3, <2>4, <2>5, <2>6, <2>7, <2>8
    DEF CalibrationNext, Calibration!CalibrationStep
<1>. QED
  BY <1>1, <1>2, <1>3 DEF ScenariosNext

\* Every way the circle moves the target keeps to the path.
LEMMA CircleStays ==
  ASSUME CalibrationInv, CircleMoves
  PROVE  /\ offset' \in Int
         /\ circle' # None => circle' \in 0 .. 3 * Top - 1 /\ offset' = Calibration!Path(circle')
         /\ offset' # offset => held /\ Calibration!Size(offset' - offset) <= 1
<1>1. PICK step \in 0 .. 1 :
        /\ step = 1 => held
        /\ offset' = Calibration!Path(circle + step)
        /\ circle' = IF circle + step = 3 * Top THEN None ELSE circle + step
  BY DEF CircleMoves
<1>2. circle \in 0 .. 3 * Top - 1 /\ offset = Calibration!Path(circle) /\ Top \in Nat
  BY CalibrationAssumption DEF CircleMoves, CalibrationInv, Calibration!CalibrationAssumption
<1>3. CASE step = 0
  BY <1>1, <1>2, <1>3 DEF CalibrationInv
<1>4. CASE step = 1
  BY <1>1, <1>2, <1>4, PathStep
<1>. QED
  BY <1>1, <1>3, <1>4

\* The operator alone moves the calibration node's target, from the reference on, by a step
\* of a key or by a tick of the circle for which Enter was held (_on_key, _advance_circle).
THEOREM TargetIsOperated == ScenariosSpec => OperatorMovesTarget
<1>1. ScenariosInit => CalibrationInv
  BY DEF ScenariosInit, Calibration!CalibrationInit, CalibrationInv
<1>2. ASSUME CalibrationInv, [ScenariosNext]_every
      PROVE  /\ CalibrationInv'
             /\ phase # "stepping" /\ phase' = "stepping" => offset' = 0 /\ circle' = None
             /\ phase = "stepping" /\ phase' = "stepping" /\ offset' # offset =>
                  IF circle = None
                  THEN circle' = None /\ Calibration!Size(offset' - offset) = KeyStep
                  ELSE held /\ Calibration!Size(offset' - offset) <= 1
  <2>0. /\ UNCHANGED scenario
        /\ Top \in Nat \ {0} /\ KeyStep \in Nat \ {0}
        /\ offset \in Int
    BY <1>2, CalibrationTarget, CalibrationAssumption
    DEF CalibrationInv, Calibration!CalibrationAssumption
  <2>1. CASE TargetStays
    BY <1>2, <2>0, <2>1 DEF TargetStays, CalibrationInv
  <2>2. CASE TargetLeft
    BY <1>2, <2>0, <2>2 DEF TargetLeft, CalibrationInv
  <2>3. CASE TargetAtReference
    BY <1>2, <2>0, <2>3 DEF TargetAtReference, CalibrationInv
  <2>4. CASE Stepping /\ CircleBegins
    <3>1. Calibration!Path(0) = 0 /\ 0 \in 0 .. 3 * Top - 1
      BY <2>0, PathStep
    <3>. QED
      BY <1>2, <2>0, <2>4, <3>1 DEF Stepping, CircleBegins, CalibrationInv
  <2>5. CASE Stepping /\ KeyMoves
    <3>1. offset' \in Int /\ Calibration!Size(offset' - offset) = KeyStep
      <4>1. CASE offset' = offset + KeyStep
        <5>1. offset' - offset = KeyStep
          BY <2>0, <4>1
        <5>. QED
          BY <2>0, <4>1, <5>1 DEF Calibration!Size
      <4>2. CASE offset' = offset - KeyStep
        <5>1. offset' - offset = -KeyStep /\ -KeyStep < 0 /\ -(-KeyStep) = KeyStep
          BY <2>0, <4>2
        <5>. QED
          BY <2>0, <4>2, <5>1 DEF Calibration!Size
      <4>. QED
        BY <2>5, <4>1, <4>2 DEF KeyMoves
    <3>. QED
      BY <1>2, <2>0, <2>5, <3>1 DEF Stepping, KeyMoves, CalibrationInv
  <2>6. CASE Stepping /\ CircleMoves
    <3>1. circle # None
      BY <2>6 DEF CircleMoves
    <3>. QED
      BY <1>2, <2>0, <2>6, <3>1, CircleStays DEF Stepping, CalibrationInv
  <2>. QED
    BY <1>2, <2>1, <2>2, <2>3, <2>4, <2>5, <2>6, CalibrationTarget
<1>3. CalibrationInv /\ [ScenariosNext]_every =>
        [/\ phase # "stepping" /\ phase' = "stepping" => offset' = 0 /\ circle' = None
         /\ phase = "stepping" /\ phase' = "stepping" /\ offset' # offset =>
              IF circle = None
              THEN circle' = None /\ Calibration!Size(offset' - offset) = KeyStep
              ELSE held /\ Calibration!Size(offset' - offset) <= 1]_every
  BY <1>2
<1>. QED
  BY <1>1, <1>2, <1>3, PTL DEF ScenariosSpec, OperatorMovesTarget
=============================================================================
