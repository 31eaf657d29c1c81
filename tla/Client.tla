------------------------------- MODULE Client -------------------------------
(***************************************************************************)
(* FireboltSDK::Transport::Client (include/gateway/client.h): requests     *)
(* that block on a condition variable, the responses the worker pool       *)
(* delivers, and the watchdog thread that gives up on old requests.        *)
(*                                                                         *)
(* A step is what a thread does between two points where another thread    *)
(* can be seen to interfere: taking a mutex, releasing it while another is *)
(* held, or an unsynchronised read.  Two mutexes are involved.             *)
(*   queue_mtx    is held, across a step, only by a worker inside Response *)
(*                that waits for the mutex of the Caller it found;         *)
(*   Caller::mtx  is held, across a step, only by a Request that saw ready *)
(*                and waits for queue_mtx to erase its entry.              *)
(* The message id identifies the Caller object made for it, because ids    *)
(* come from one counter and are not reused below 2^32 requests.           *)
(***************************************************************************)
EXTENDS Integers

CONSTANTS
    Threads,        \* threads that call Request
    Workers,        \* worker-pool threads that run Response
    Results,        \* values of a response's "result"
    Errors,         \* values of a response's "error.code"
    MaxId,          \* bound: number of requests
    MaxAnswers,     \* bound: responses the server sends to one request
    Threshold,      \* Config::watchdogThreshold_ms
    MaxClock,       \* bound: last instant of the clock
    Word            \* 2^64, the modulus of uint64_t

NoError    == "Error::None"
Timedout   == "Error::Timedout"
SendFailed == "Send failed"
NoOutcome  == "no outcome"
NoText     == ""
NoId       == 0
NoMessage  == [id |-> NoId, n |-> 0, body |-> NoText]

Ids      == 1..MaxId
Bodies   == Results \cup Errors
Messages == [id : Ids, n : 1..MaxAnswers, body : Bodies]
Codes    == Errors \cup {NoError, Timedout}
Outcomes == Bodies \cup {Timedout, SendFailed, NoOutcome}

ASSUME ClientAssumption ==
    /\ MaxId \in Nat /\ MaxAnswers \in Nat /\ Threshold \in Nat /\ MaxClock \in Nat
    /\ Word \in Nat /\ Word > MaxClock + Threshold
    /\ Results \cap Errors = {}
    /\ {NoError, Timedout, SendFailed, NoOutcome} \cap Bodies = {}
    /\ NoText \notin Bodies

VARIABLES
    seq,            \* CommunicationChannel::_sequence, the last id handed out
    clock,          \* steady_clock
    queue,          \* ids in Client::queue
    stamp,          \* Caller::timestamp
    response,       \* Caller::response
    error,          \* Caller::error
    ready,          \* Caller::ready
    step,           \* where each thread is in Request
    call,           \* the id of that call
    outcome,        \* what Request returned for each id
    sent,           \* ids whose message reached the server
    answers,        \* responses the server has sent
    net,            \* those not yet taken up by a worker
    job,            \* the response each worker is delivering, under queue_mtx
    dog,            \* where the watchdog thread is
    now,            \* the instant the watchdog sampled
    outdated,       \* the Callers the watchdog has taken off the queue
    running         \* Client::running

callers == <<stamp, response, error, ready>>
threads == <<step, call, outcome>>
server  == <<sent, answers, net>>
watch   == <<dog, now, outdated>>
vars    == <<seq, clock, queue, callers, threads, server, job, watch, running>>

Steps == {"idle", "insert", "send", "lock", "sleep", "erase", "read"}

TypeOK ==
    /\ seq \in 0..MaxId
    /\ clock \in 0..MaxClock
    /\ queue \subseteq Ids
    /\ stamp \in [Ids -> 0..MaxClock]
    /\ response \in [Ids -> Results \cup {NoText}]
    /\ error \in [Ids -> Codes]
    /\ ready \in [Ids -> BOOLEAN]
    /\ step \in [Threads -> Steps]
    /\ call \in [Threads -> Ids \cup {NoId}]
    /\ outcome \in [Ids -> Outcomes]
    /\ sent \subseteq Ids
    /\ answers \subseteq Messages
    /\ net \subseteq answers
    /\ job \in [Workers -> Messages \cup {NoMessage}]
    /\ dog \in {"loop", "scan", "expire", "done"}
    /\ now \in 0..MaxClock
    /\ outdated \subseteq Ids
    /\ running \in BOOLEAN

Init ==
    /\ seq = 0
    /\ clock = 0
    /\ queue = {}
    /\ stamp = [i \in Ids |-> 0]
    /\ response = [i \in Ids |-> NoText]
    /\ error = [i \in Ids |-> NoError]
    /\ ready = [i \in Ids |-> FALSE]
    /\ step = [t \in Threads |-> "idle"]
    /\ call = [t \in Threads |-> NoId]
    /\ outcome = [i \in Ids |-> NoOutcome]
    /\ sent = {}
    /\ answers = {}
    /\ net = {}
    /\ job = [w \in Workers |-> NoMessage]
    /\ dog = "loop"
    /\ now = 0
    /\ outdated = {}
    /\ running = TRUE

-----------------------------------------------------------------------------
(* The two mutexes. *)

QueueLocked == \E w \in Workers : job[w] # NoMessage

CallerLocked(i) == \E t \in Threads : step[t] = "erase" /\ call[t] = i

NotifyNobody(i) == UNCHANGED step                                (* mutant *)

(* notify_one on the Caller's condition variable: at most one thread waits. *)
Notify(i) ==
    step' = [t \in Threads |-> IF step[t] = "sleep" /\ call[t] = i THEN "lock" ELSE step[t]]

-----------------------------------------------------------------------------
(* Request *)

(* GetNextMessageID and make_shared<Caller>.  A call starts early enough    *)
(* for its deadline to fall within the bound of the clock.                  *)
Start(t) ==
    /\ step[t] = "idle"
    /\ running
    /\ seq < MaxId
    /\ clock + Threshold < MaxClock
    /\ seq' = seq + 1
    /\ stamp' = [stamp EXCEPT ![seq + 1] = clock]
    /\ call' = [call EXCEPT ![t] = seq + 1]
    /\ step' = [step EXCEPT ![t] = "insert"]
    /\ UNCHANGED <<clock, queue, response, error, ready, outcome, server, job, watch, running>>

Insert(t) ==
    /\ step[t] = "insert"
    /\ ~QueueLocked
    /\ queue' = queue \cup {call[t]}
    /\ step' = [step EXCEPT ![t] = "send"]
    /\ UNCHANGED <<seq, clock, callers, call, outcome, server, job, watch, running>>

(* Request returns o: the thread is free for its next call. *)
Return(t, o) ==
    /\ outcome' = [outcome EXCEPT ![call[t]] = o]
    /\ call' = [call EXCEPT ![t] = NoId]
    /\ step' = [step EXCEPT ![t] = "idle"]

SendOK(t) ==
    /\ step[t] = "send"
    /\ sent' = sent \cup {call[t]}
    /\ step' = [step EXCEPT ![t] = "lock"]
    /\ UNCHANGED <<seq, clock, queue, callers, call, outcome, answers, net, job, watch, running>>

(* Transport::Send reports an error: Request returns it and leaves its     *)
(* entry on the queue.                                                     *)
SendError(t) ==
    /\ step[t] = "send"
    /\ Return(t, SendFailed)
    /\ UNCHANGED <<seq, clock, queue, callers, server, job, watch, running>>

(* waiter.wait(lk, ready): take the Caller's mutex, then either keep it    *)
(* because the answer is there or release it and sleep.                    *)
LockCaller(t) ==
    /\ step[t] = "lock"
    /\ ~CallerLocked(call[t])
    /\ step' = [step EXCEPT ![t] = IF ready[call[t]] THEN "erase" ELSE "sleep"]
    /\ UNCHANGED <<seq, clock, queue, callers, call, outcome, server, job, watch, running>>

WakeWithoutRecheck(t) ==                                         (* mutant *)
    /\ step[t] = "sleep"
    /\ step' = [step EXCEPT ![t] = "erase"]
    /\ UNCHANGED <<seq, clock, queue, callers, call, outcome, server, job, watch, running>>

(* The predicate of waiter.wait is evaluated again after every wakeup. *)
SpuriousWakeup(t) ==
    /\ step[t] = "sleep"
    /\ step' = [step EXCEPT ![t] = "lock"]
    /\ UNCHANGED <<seq, clock, queue, callers, call, outcome, server, job, watch, running>>

EraseNothing(t) ==                                               (* mutant *)
    /\ step[t] = "erase"
    /\ step' = [step EXCEPT ![t] = "read"]
    /\ UNCHANGED <<seq, clock, queue, callers, call, outcome, server, job, watch, running>>

(* queue.erase under queue_mtx, with the Caller's mutex still held; both   *)
(* are released at the end of their blocks.                                *)
Erase(t) ==
    /\ step[t] = "erase"
    /\ ~QueueLocked
    /\ queue' = queue \ {call[t]}
    /\ step' = [step EXCEPT ![t] = "read"]
    /\ UNCHANGED <<seq, clock, callers, call, outcome, server, job, watch, running>>

ReplyWithoutError(i) == response[i]                              (* mutant *)

(* What Request hands to the application. *)
Reply(i) == IF error[i] = NoError THEN response[i] ELSE error[i]

(* The error, then the response, read with no mutex held.  No other thread *)
(* writes them in between, or the watchdog does and error decides.         *)
Read(t) ==
    /\ step[t] = "read"
    /\ Return(t, Reply(call[t]))
    /\ UNCHANGED <<seq, clock, queue, callers, server, job, watch, running>>

-----------------------------------------------------------------------------
(* Response, run by a worker for a message without a designator *)

FindCallerAnyway(w, m) ==                                        (* mutant *)
    /\ job[w] = NoMessage
    /\ ~QueueLocked
    /\ net' = net \ {m}
    /\ job' = [job EXCEPT ![w] = m]
    /\ UNCHANGED <<seq, clock, queue, callers, threads, sent, answers, watch, running>>

(* queue.at(id) finds the Caller: queue_mtx stays held. *)
FindCaller(w, m) ==
    /\ job[w] = NoMessage
    /\ m \in net
    /\ ~QueueLocked
    /\ m.id \in queue
    /\ net' = net \ {m}
    /\ job' = [job EXCEPT ![w] = m]
    /\ UNCHANGED <<seq, clock, queue, callers, threads, sent, answers, watch, running>>

(* queue.at(id) throws: "No receiver for message-id". *)
NoReceiver(w, m) ==
    /\ job[w] = NoMessage
    /\ m \in net
    /\ ~QueueLocked
    /\ m.id \notin queue
    /\ net' = net \ {m}
    /\ UNCHANGED <<seq, clock, queue, callers, threads, sent, answers, job, watch, running>>

(* With both mutexes: fill in the Caller, wake its thread, release. *)
Deliver(w) ==
    /\ job[w] # NoMessage
    /\ LET i == job[w].id
           b == job[w].body
       IN  /\ ~CallerLocked(i)
           /\ response' = IF b \in Errors THEN response ELSE [response EXCEPT ![i] = b]
           /\ error' = IF b \in Errors THEN [error EXCEPT ![i] = b] ELSE error
           /\ ready' = [ready EXCEPT ![i] = TRUE]
           /\ Notify(i)
    /\ job' = [job EXCEPT ![w] = NoMessage]
    /\ UNCHANGED <<seq, clock, queue, stamp, call, outcome, server, watch, running>>

-----------------------------------------------------------------------------
(* The watchdog thread *)

(* while (running) and now = steady_clock::now(), read before queue_mtx. *)
Sample ==
    /\ dog = "loop"
    /\ IF running THEN dog' = "scan" /\ now' = clock
                  ELSE dog' = "done" /\ now' = now
    /\ UNCHANGED <<seq, clock, queue, callers, threads, server, job, outdated, running>>

(* The signed count of milliseconds is converted to uint64_t by the        *)
(* comparison with watchdogThreshold_ms.                                   *)
ToUnsigned(d) == IF d >= 0 THEN d ELSE Word + d

OutdatedTooSoon(i) == ToUnsigned(now - stamp[i]) >= Threshold    (* mutant *)

Outdated(i) == ToUnsigned(now - stamp[i]) > Threshold

ScanKeeping ==                                                   (* mutant *)
    /\ dog = "scan"
    /\ ~QueueLocked
    /\ outdated' = {i \in queue : Outdated(i)}
    /\ dog' = "expire"
    /\ UNCHANGED <<seq, clock, queue, callers, threads, server, job, now, running>>

Scan ==
    /\ dog = "scan"
    /\ ~QueueLocked
    /\ outdated' = {i \in queue : Outdated(i)}
    /\ queue' = {i \in queue : ~Outdated(i)}
    /\ dog' = "expire"
    /\ UNCHANGED <<seq, clock, callers, threads, server, job, now, running>>

Expire(i) ==
    /\ dog = "expire"
    /\ i \in outdated
    /\ \A j \in outdated : i <= j
    /\ ~CallerLocked(i)
    /\ ready' = [ready EXCEPT ![i] = TRUE]
    /\ error' = [error EXCEPT ![i] = Timedout]
    /\ Notify(i)
    /\ outdated' = outdated \ {i}
    /\ UNCHANGED <<seq, clock, queue, stamp, response, call, outcome, server, job, dog, now, running>>

(* outdated.clear(), sleep_for(watchdogCycle_ms), back to the loop's head. *)
SleepCycle ==
    /\ dog = "expire"
    /\ outdated = {}
    /\ dog' = "loop"
    /\ UNCHANGED <<seq, clock, queue, callers, threads, server, job, now, outdated, running>>

(* ~Client: the watchdog is told to stop and joined. *)
Destroy ==
    /\ running
    /\ running' = FALSE
    /\ UNCHANGED <<seq, clock, queue, callers, threads, server, job, watch>>

-----------------------------------------------------------------------------
(* The environment: the clock and the server at the other end *)

Tick ==
    /\ clock < MaxClock
    /\ clock' = clock + 1
    /\ UNCHANGED <<seq, queue, callers, threads, server, job, watch, running>>

Answer(m) ==
    /\ m.id \in sent
    /\ \A a \in answers : a.id = m.id => a.n < m.n
    /\ answers' = answers \cup {m}
    /\ net' = net \cup {m}
    /\ UNCHANGED <<seq, clock, queue, callers, threads, sent, job, watch, running>>

Request(t) ==
    \/ Start(t) \/ Insert(t) \/ SendOK(t) \/ SendError(t)
    \/ LockCaller(t) \/ SpuriousWakeup(t) \/ Erase(t) \/ Read(t)

Response(w) ==
    \/ \E m \in net : FindCaller(w, m) \/ NoReceiver(w, m)
    \/ Deliver(w)

Watchdog == Sample \/ Scan \/ (\E i \in outdated : Expire(i)) \/ SleepCycle

Next ==
    \/ \E t \in Threads : Request(t)
    \/ \E w \in Workers : Response(w)
    \/ Watchdog
    \/ Destroy
    \/ Tick
    \/ \E m \in Messages : Answer(m)

SafeSpec == Init /\ [][Next]_vars

(* A thread that can run does run, and time passes; nothing is asked of    *)
(* the server or of spurious wakeups, and no call has to be started.       *)
Fairness ==
    /\ \A t \in Threads :
          /\ WF_vars(Insert(t))
          /\ WF_vars(SendOK(t) \/ SendError(t))
          /\ WF_vars(LockCaller(t))
          /\ WF_vars(Erase(t))
          /\ WF_vars(Read(t))
    /\ \A w \in Workers : WF_vars(Deliver(w))
    /\ WF_vars(Watchdog)
    /\ WF_vars(Tick)

Spec == SafeSpec /\ Fairness

-----------------------------------------------------------------------------
(* Properties *)

(* What Request hands to the application for an id is a body the server    *)
(* sent for that id: never another request's response, never the response *)
(* to an earlier, timed-out request of the same thread, never empty text.  *)
OwnAnswer ==
    \A i \in Ids : outcome[i] \notin {Timedout, SendFailed, NoOutcome} =>
        \E m \in answers : m.id = i /\ m.body = outcome[i]

(* A thread that sleeps on its condition variable can still be woken: its  *)
(* Caller has not been completed, and it is on the queue, where Response   *)
(* and the watchdog find it, or on the list the watchdog is working off.   *)
NoLostWakeup ==
    \A t \in Threads : step[t] = "sleep" =>
        /\ ~ready[call[t]]
        /\ call[t] \in queue \cup outdated

(* Request takes Caller::mtx before queue_mtx, Response the other way      *)
(* round; the two never wait for each other.                               *)
NoLockCycle ==
    ~ \E t \in Threads, w \in Workers :
        step[t] = "erase" /\ job[w] # NoMessage /\ job[w].id = call[t]

(* An entry does not outlive its request on the queue, unless the request  *)
(* could not be sent: a later response finds no Caller of a finished call. *)
NoStaleEntry ==
    \A i \in queue : outcome[i] \in {NoOutcome, SendFailed}

(* Once Request has returned, no answer is written to its Caller any more, *)
(* neither the response nor the error nor the flag of one, and what it     *)
(* returned does not change; only the watchdog still marks a Caller that   *)
(* it had taken off the queue before.                                      *)
LateAnswerIgnored ==
    [][\A i \in Ids : outcome[i] # NoOutcome =>
          /\ response'[i] = response[i] /\ outcome'[i] = outcome[i]
          /\ error'[i] # error[i] \/ ready'[i] # ready[i] => i \in outdated /\ error'[i] = Timedout]_vars

(* A request is given up when it has been waiting for more than            *)
(* watchdogThreshold_ms, or when it was made after the watchdog had looked *)
(* at the clock: no other one is, whatever the watchdog's cycle.           *)
TimeoutsAreDue ==
    [][\A i \in Ids : error[i] # Timedout /\ error'[i] = Timedout =>
          clock - stamp[i] > Threshold \/ stamp[i] > now]_vars

(* Every entry leaves the queue while the client runs, also that of a      *)
(* request that could not be sent and that nobody erases.                  *)
QueueDrains ==
    \A i \in Ids : i \in queue ~> (i \notin queue \/ ~running)

(* The client implements the abstract call of module Rpc. *)
Abstract == INSTANCE Rpc WITH
    used <- 1..seq,
    answered <- {<<m.id, m.body>> : m \in answers},
    open <- running

ImplementsRpc == Abstract!Spec

=============================================================================
