----------------------------- MODULE ArmIkWorker ----------------------------
(***************************************************************************)
(* The official IK runs in a process of its own                            *)
(* (src/ik/tianji_official/tianji_official_arm_ik_proxy.cpp,                *)
(* src/tianji_official/tianji_official_ik_worker.cpp): the producer asks    *)
(* over a socket, gives up after a timeout, and restarts the worker.  The   *)
(* worker may take any time, die, or fail to start.                         *)
(***************************************************************************)
EXTENDS Integers, Sequences

CONSTANTS
  RestartAttempts,  \* official_worker_restart_attempts
  MaxQuestions,     \* bound on the calls of solve and forward
  None

WorkerAssumption == RestartAttempts \in Nat /\ MaxQuestions \in Nat /\ None \notin Int

VARIABLES
  call,      \* where exchange (or the constructor) is
  question,  \* number of the call, 0 in the constructor
  attempt,   \* the loop's variable
  asked,     \* the request the proxy waits for, 0 for the handshake of a start
  answer,    \* what the last call returned, None when it raised
  requests,  \* in the socket, to the worker
  replies,   \* in the socket, to the proxy
  worker     \* "none", "loading", "ready", "solving" or "dead"

proxyVars == <<call, question, attempt, asked, answer>>
workerVars == <<call, question, attempt, asked, answer, requests, replies, worker>>

WorkerInit ==
  /\ call = "start" /\ question = 0 /\ attempt = 0 /\ asked = 0 /\ answer = None
  /\ requests = <<>> /\ replies = <<>> /\ worker = "none"

\* stop_worker: shutdown message, end of the socket, SIGTERM, SIGKILL, wait.
StopWorker == requests' = <<>> /\ replies' = <<>> /\ worker' = "none"

\* [mutant] the worker and its socket are kept after a timeout
StopAfterTimeout_Keeps == UNCHANGED <<requests, replies, worker>>

\* What a worker that was given up on leaves behind.
StopAfterTimeout == StopWorker

-----------------------------------------------------------------------------
(* The proxy.                                                              *)

\* An error leaves the call; one of the constructor ends the producer.
Raise == call' = (IF question = 0 THEN "ended" ELSE "idle") /\ answer' = None

\* exchange: under the proxy's mutex.  Without a socket the send fails like one
\* to a worker that is gone.
Ask ==
  /\ call = "idle" /\ question < MaxQuestions
  /\ question' = question + 1
  /\ attempt' = 0
  /\ call' = "send"
  /\ UNCHANGED <<asked, answer, requests, replies, worker>>

\* The socket is full of nothing else: one request is under way at a time.
Send ==
  /\ call = "send" /\ worker \notin {"none", "dead"}
  /\ requests' = Append(requests, question)
  /\ asked' = question
  /\ call' = "wait"
  /\ UNCHANGED <<question, attempt, answer, replies, worker>>

\* A transport error of exchange: restart and ask again while attempts are left.
TransportError ==
  /\ StopAfterTimeout
  /\ IF attempt >= RestartAttempts
     THEN Raise /\ UNCHANGED attempt
     ELSE call' = (IF worker' = "none" THEN "start" ELSE "send") /\ attempt' = attempt + 1
                                                                 /\ UNCHANGED answer
  /\ UNCHANGED <<question, asked>>

SendFails == call = "send" /\ worker \in {"none", "dead"} /\ TransportError

\* A response of the wait: the solution, or the error of the worker's solver,
\* which leaves the worker as it is.
Receive ==
  /\ call = "wait" /\ replies # <<>> /\ worker # "dead"
  /\ replies' = Tail(replies)
  /\ \/ answer' = Head(replies) /\ call' = "idle"
     \/ Raise
  /\ UNCHANGED <<question, attempt, asked, requests, worker>>

\* Timeout, hang-up, incomplete or foreign response.
WaitFails ==
  /\ call = "wait" /\ (replies = <<>> \/ worker = "dead")
  /\ TransportError

\* start_worker: a socket pair, a process, and one request as a handshake.
Start ==
  /\ call = "start"
  /\ \/ worker' = "loading" /\ requests' = <<0>> /\ replies' = <<>>
        /\ asked' = 0 /\ call' = "handshake" /\ UNCHANGED answer
     \/ Raise /\ UNCHANGED <<asked, requests, replies, worker>>
  /\ UNCHANGED <<question, attempt>>

Handshaken ==
  /\ call = "handshake" /\ replies # <<>> /\ worker # "dead"
  /\ replies' = Tail(replies)
  /\ call' = IF question = 0 THEN "idle" ELSE "send"
  /\ UNCHANGED <<question, attempt, asked, answer, requests, worker>>

\* A start that fails: the constructor tries again, exchange lets it out of the
\* handler that restarts, with no further attempt.
HandshakeFails ==
  /\ call = "handshake" /\ (replies = <<>> \/ worker = "dead")
  /\ StopWorker
  /\ IF question = 0 /\ attempt < RestartAttempts
     THEN attempt' = attempt + 1 /\ call' = "start" /\ UNCHANGED answer
     ELSE Raise /\ UNCHANGED attempt
  /\ UNCHANGED <<question, asked>>

\* An error in place of the handshake.
HandshakeRefused ==
  /\ call = "handshake" /\ replies # <<>> /\ worker # "dead"
  /\ StopWorker
  /\ Raise
  /\ UNCHANGED <<question, attempt, asked>>

Proxy == Ask \/ Send \/ SendFails \/ Receive \/ WaitFails \/ Start \/ Handshaken
           \/ HandshakeFails \/ HandshakeRefused

-----------------------------------------------------------------------------
(* The worker process.                                                     *)

\* The solver is loaded before the first request is read.
Load == worker = "loading" /\ worker' = "ready" /\ UNCHANGED <<proxyVars, requests, replies>>

Take ==
  /\ worker = "ready" /\ requests # <<>>
  /\ worker' = "solving"
  /\ UNCHANGED <<proxyVars, requests, replies>>

Reply ==
  /\ worker = "solving"
  /\ replies' = Append(replies, Head(requests))
  /\ requests' = Tail(requests)
  /\ worker' = "ready"
  /\ UNCHANGED proxyVars

\* Also a worker whose solver cannot be loaded.
Die ==
  /\ worker \in {"loading", "ready", "solving"}
  /\ worker' = "dead"
  /\ UNCHANGED <<proxyVars, requests, replies>>

WorkerNext == Proxy \/ Load \/ Take \/ Reply \/ Die

WorkerSpec == WorkerInit /\ [][WorkerNext]_workerVars

\* A call is answered with its own solution: not with the late answer to a
\* question given up on, nor with that of a handshake (exchange,
\* raw_exchange_unlocked, stop_worker_unlocked; responses carry no number).
AnswerIsOwn == call = "idle" /\ answer # None => answer = question
=============================================================================
