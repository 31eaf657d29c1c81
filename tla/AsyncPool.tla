----------------------------- MODULE AsyncPool -----------------------------
(***************************************************************************)
(* FireboltSDK::Transport::Async (Async.h, Async.cpp) on the worker pool   *)
(* (WorkerPool.h, Accessor.h).  Each Invoke puts a job into the pool; the  *)
(* job blocks its pool thread in a request, and the response to that       *)
(* request is a job of the same pool.  The request is a call of module     *)
(* Rpc: it ends with an answer the pool has delivered or with the          *)
(* watchdog's timeout.                                                     *)
(*                                                                         *)
(* IsActive, RemoveEntry and the first half of Invoke are one step each;   *)
(* Dispose holds _adminLock over several steps, in which the pool goes on. *)
(* Revoke takes a job off the pool's queue.  One that runs it leaves       *)
(* alone, or waits for, as the pool has it: both are modelled.             *)
(* RemoveEntry and Clear call it with _adminLock, which the job may need   *)
(* to go on.                                                               *)
(***************************************************************************)
EXTENDS Integers, Sequences, SequencesExt

CONSTANTS
    Methods,        \* method names
    UserCbs,        \* the usercb pointers of the application
    Threads,        \* application threads
    Workers,        \* threads of the pool
    MaxJobs,        \* bound: calls of Invoke
    QueueSize,      \* WorkerPoolConfig::QueueSize
    NoKey,          \* the key of a job that has not been made
    Deleter,        \* the thread that deletes the object
    Nobody          \* no thread

Keys  == Methods \X UserCbs
Jobs  == 1..MaxJobs
NoJob == 0
Items == {"job", "response"} \X Jobs

Phases == {"new", "request", "check", "callback", "remove", "over"}

ASSUME AsyncAssumption ==
    /\ MaxJobs \in Nat
    /\ QueueSize \in Nat \ {0}
    /\ NoKey \notin Keys
    /\ Threads \cap Workers = {}
    /\ {Deleter, Nobody} \cap (Threads \cup Workers) = {}
    /\ Deleter # Nobody

VARIABLES
    made,           \* jobs made so far
    key,            \* Job::_method and Job::_usercb
    methodMap,      \* Async::_methodMap: the job of each pair
    submitting,     \* the job each application thread has to submit
    pool,           \* the queue of the pool
    phase,          \* where each job is
    running,        \* the job each worker runs
    request,        \* what has become of the request of each job
    called,         \* jobs that have run their callback
    aborted,        \* jobs whose pair was aborted before they found its entry
    life,           \* the object lives, is being deleted, or is gone
    surprised,      \* jobs that ran or were being submitted while it was deleted
    waits,          \* Revoke waits for a job that runs; never changes
    holder,         \* who waits in Revoke, with _adminLock
    awaited         \* the job it waits for

async == <<made, key, methodMap, submitting, life, surprised>>
calls == <<request, called, aborted>>
lock  == <<waits, holder, awaited>>
vars  == <<async, pool, phase, running, calls, lock>>

TypeOK ==
    /\ made \in 0..MaxJobs
    /\ key \in [Jobs -> Keys \cup {NoKey}]
    /\ methodMap \in [Keys -> Jobs \cup {NoJob}]
    /\ submitting \in [Threads -> Jobs \cup {NoJob}]
    /\ pool \in Seq(Items) /\ Len(pool) <= QueueSize
    /\ phase \in [Jobs -> Phases]
    /\ running \in [Workers -> Jobs \cup {NoJob}]
    /\ request \in [Jobs -> {"none", "sent", "answered", "delivered", "result", "error"}]
    /\ called \subseteq Jobs
    /\ aborted \subseteq Jobs
    /\ life \in {"alive", "clearing", "gone"}
    /\ surprised \subseteq Jobs
    /\ waits \in BOOLEAN
    /\ holder \in Threads \cup Workers \cup {Deleter, Nobody}
    /\ awaited \in Jobs \cup {NoJob}

Init ==
    /\ made = 0
    /\ key = [j \in Jobs |-> NoKey]
    /\ methodMap = [k \in Keys |-> NoJob]
    /\ submitting = [t \in Threads |-> NoJob]
    /\ pool = <<>>
    /\ phase = [j \in Jobs |-> "new"]
    /\ running = [w \in Workers |-> NoJob]
    /\ request = [j \in Jobs |-> "none"]
    /\ called = {}
    /\ aborted = {}
    /\ life = "alive"
    /\ surprised = {}
    /\ waits \in BOOLEAN
    /\ holder = Nobody
    /\ awaited = NoJob

-----------------------------------------------------------------------------
Goto(j, p) == phase' = [phase EXCEPT ![j] = p]

SubmitAnyway(x) == pool' = Append(pool, x)                       (* mutant *)

(* A thread that submits to a full queue waits. *)
Submit(x) ==
    /\ Len(pool) < QueueSize
    /\ pool' = Append(pool, x)

Queued(j) == \E i \in DOMAIN pool : pool[i] = <<"job", j>>
Runs(j)   == \E w \in Workers : running[w] = j

(* A worker other than x runs the job: what a job revokes of its own it    *)
(* does not wait for.                                                      *)
RunsElsewhere(x, j) == \E w \in Workers \ {x} : running[w] = j

(* IWorkerPool::Revoke, called by x. *)
Revoke(x, j) ==
    /\ ~(waits /\ RunsElsewhere(x, j))
    /\ IF Queued(j)
       THEN \E i \in DOMAIN pool : pool[i] = <<"job", j>> /\ pool' = RemoveAt(pool, i)
       ELSE UNCHANGED pool

(* Nobody is inside Revoke. *)
Unlocked == holder = Nobody

Unlock == holder' = Nobody /\ awaited' = NoJob /\ UNCHANGED waits

(* Inside RemoveEntry or Clear x begins to wait in Revoke. *)
WaitFor(x, k) ==
    /\ Unlocked
    /\ waits /\ methodMap[k] # NoJob /\ RunsElsewhere(x, methodMap[k])
    /\ holder' = x
    /\ awaited' = methodMap[k]
    /\ UNCHANGED <<async, pool, phase, running, calls, waits>>

EraseMethod(k) ==                                                (* mutant *)
    methodMap' = [l \in Keys |-> IF l[1] = k[1] THEN NoJob ELSE methodMap[l]]

(* The entry of the pair, and the method's map with its last entry. *)
EraseEntry(k) == methodMap' = [methodMap EXCEPT ![k] = NoJob]

(* Async::RemoveEntry, called by x. *)
RemoveEntry(x, k) ==
    /\ Unlocked \/ (holder = x /\ awaited = methodMap[k])
    /\ IF methodMap[k] = NoJob
       THEN UNCHANGED <<pool, methodMap>>
       ELSE Revoke(x, methodMap[k]) /\ EraseEntry(k)
    /\ Unlock

-----------------------------------------------------------------------------
(* The application: Async::Invoke and Async::Abort *)

(* A second job for a pair that has an entry is not stored, but submitted  *)
(* like the first.                                                         *)
Invoke(t, k) ==
    /\ life = "alive" /\ Unlocked
    /\ submitting[t] = NoJob
    /\ made < MaxJobs
    /\ made' = made + 1
    /\ key' = [key EXCEPT ![made + 1] = k]
    /\ methodMap' = IF methodMap[k] = NoJob THEN [methodMap EXCEPT ![k] = made + 1] ELSE methodMap
    /\ submitting' = [submitting EXCEPT ![t] = made + 1]
    /\ UNCHANGED <<life, surprised, pool, phase, running, calls, lock>>

SubmitJob(t) ==
    /\ submitting[t] # NoJob
    /\ Submit(<<"job", submitting[t]>>)
    /\ submitting' = [submitting EXCEPT ![t] = NoJob]
    /\ UNCHANGED <<made, key, methodMap, life, surprised, phase, running, calls, lock>>

(* Jobs of the pair that have not run their callback and are not about to. *)
Pending(k) == {j \in Jobs : key[j] = k /\ phase[j] # "callback" /\ j \notin called}

AbortQueued(t, k) ==                                             (* mutant *)
    /\ life = "alive"
    /\ submitting[t] = NoJob
    /\ IF Queued(methodMap[k]) THEN RemoveEntry(t, k) ELSE Unlocked /\ UNCHANGED <<pool, methodMap, lock>>
    /\ aborted' = aborted \cup Pending(k)
    /\ UNCHANGED <<made, key, submitting, life, surprised, phase, running, request, called>>

Abort(t, k) ==
    /\ life = "alive"
    /\ submitting[t] = NoJob
    /\ RemoveEntry(t, k)
    /\ aborted' = aborted \cup Pending(k)
    /\ UNCHANGED <<made, key, submitting, life, surprised, phase, running, request, called>>

AbortWaits(t, k) ==
    /\ life = "alive"
    /\ submitting[t] = NoJob
    /\ WaitFor(t, k)

(* ~Async: Clear takes _adminLock and goes through the entries.  What      *)
(* asks for the lock from now on waits, and has no defined outcome then.   *)
Dispose ==
    /\ life = "alive" /\ Unlocked
    /\ life' = "clearing"
    /\ surprised' = {j \in Jobs : (\E t \in Threads : submitting[t] = j) \/ Runs(j)}
    /\ UNCHANGED <<made, key, methodMap, submitting, pool, phase, running, calls, lock>>

ClearOnly(k) ==                                                  (* mutant *)
    /\ life = "clearing"
    /\ methodMap[k] # NoJob
    /\ EraseEntry(k)
    /\ Unlock
    /\ UNCHANGED <<made, key, submitting, life, surprised, pool, phase, running, calls>>

(* The next round of its loop. *)
Clear(k) ==
    /\ life = "clearing"
    /\ methodMap[k] # NoJob
    /\ RemoveEntry(Deleter, k)
    /\ UNCHANGED <<made, key, submitting, life, surprised, phase, running, calls>>

ClearWaits(k) ==
    /\ life = "clearing"
    /\ WaitFor(Deleter, k)

(* Nobody waits for the jobs that the pool has taken meanwhile. *)
Delete ==
    /\ life = "clearing"
    /\ \A k \in Keys : methodMap[k] = NoJob
    /\ life' = "gone"
    /\ surprised' = surprised \cup {j \in Jobs : Runs(j)}
    /\ UNCHANGED <<made, key, methodMap, submitting, pool, phase, running, calls, lock>>

-----------------------------------------------------------------------------
(* A thread of the pool *)

Leave(w) == running' = [running EXCEPT ![w] = NoJob]

(* Job::Dispatch calls the lambda, which calls Gateway::Request. *)
TakeJob(w, j) ==
    /\ running[w] = NoJob
    /\ pool # <<>> /\ Head(pool) = <<"job", j>>
    /\ pool' = Tail(pool)
    /\ running' = [running EXCEPT ![w] = j]
    /\ Goto(j, "request")
    /\ request' = [request EXCEPT ![j] = "sent"]
    /\ UNCHANGED <<async, called, aborted, lock>>

(* CommunicationJob::Dispatch: the response wakes the thread of its        *)
(* request if that still waits.                                            *)
TakeResponse(w, j) ==
    /\ running[w] = NoJob
    /\ pool # <<>> /\ Head(pool) = <<"response", j>>
    /\ pool' = Tail(pool)
    /\ request' = IF request[j] = "answered" THEN [request EXCEPT ![j] = "delivered"] ELSE request
    /\ UNCHANGED <<async, phase, running, called, aborted, lock>>

(* The request ends with a result: the lambda goes on; with an error: the  *)
(* job is over and leaves its entry.                                       *)
Result(w) ==
    /\ running[w] # NoJob
    /\ LET j == running[w]
       IN  /\ phase[j] = "request"
           /\ request[j] = "delivered"
           /\ Goto(j, "check")
           /\ request' = [request EXCEPT ![j] = "result"]
    /\ UNCHANGED <<async, pool, running, called, aborted, lock>>

ErrorForEver(w) ==                                               (* mutant *)
    /\ running[w] # NoJob
    /\ LET j == running[w]
       IN  /\ phase[j] = "request"
           /\ request[j] = "delivered"
           /\ Goto(j, "over")
           /\ request' = [request EXCEPT ![j] = "error"]
    /\ Leave(w)
    /\ UNCHANGED <<async, pool, called, aborted, lock>>

(* An error of the remote, or the watchdog's timeout at any time. *)
Error(w) ==
    /\ running[w] # NoJob
    /\ LET j == running[w]
       IN  /\ phase[j] = "request"
           /\ Goto(j, "over")
           /\ request' = [request EXCEPT ![j] = "error"]
    /\ Leave(w)
    /\ UNCHANGED <<async, pool, called, aborted, lock>>

IsActiveUnlocked(w) ==                                           (* mutant *)
    /\ running[w] # NoJob
    /\ life = "alive"
    /\ LET j == running[w]
       IN  /\ phase[j] = "check"
           /\ IF methodMap[key[j]] # NoJob
              THEN Goto(j, "callback") /\ UNCHANGED running
              ELSE Goto(j, "over") /\ Leave(w)
    /\ UNCHANGED <<async, pool, calls, lock>>

(* Async::IsActive asks for the pair, not for the job. *)
IsActive(w) ==
    /\ running[w] # NoJob
    /\ life = "alive" /\ Unlocked
    /\ LET j == running[w]
       IN  /\ phase[j] = "check"
           /\ IF methodMap[key[j]] # NoJob
              THEN Goto(j, "callback") /\ UNCHANGED running
              ELSE Goto(j, "over") /\ Leave(w)
    /\ UNCHANGED <<async, pool, calls, lock>>

Callback(w) ==
    /\ running[w] # NoJob
    /\ phase[running[w]] = "callback"
    /\ called' = called \cup {running[w]}
    /\ Goto(running[w], "remove")
    /\ UNCHANGED <<async, pool, running, request, aborted, lock>>

FinishOnly(w) ==                                                 (* mutant *)
    /\ running[w] # NoJob
    /\ life = "alive"
    /\ phase[running[w]] = "remove"
    /\ Goto(running[w], "over")
    /\ Leave(w)
    /\ UNCHANGED <<async, pool, calls, lock>>

Finish(w) ==
    /\ running[w] # NoJob
    /\ life = "alive"
    /\ phase[running[w]] = "remove"
    /\ RemoveEntry(w, key[running[w]])
    /\ Goto(running[w], "over")
    /\ Leave(w)
    /\ UNCHANGED <<made, key, submitting, life, surprised, calls>>

FinishWaitsForAny(w) ==                                          (* mutant *)
    /\ running[w] # NoJob
    /\ life = "alive"
    /\ phase[running[w]] = "remove"
    /\ \E k \in Keys : k[1] = key[running[w]][1] /\ WaitFor(w, k)

FinishWaits(w) ==
    /\ running[w] # NoJob
    /\ life = "alive"
    /\ phase[running[w]] = "remove"
    /\ WaitFor(w, key[running[w]])

-----------------------------------------------------------------------------
(* The remote answers, and the socket's thread submits the response; or it *)
(* stays silent.                                                           *)
Answer(j) ==
    /\ request[j] = "sent"
    /\ Submit(<<"response", j>>)
    /\ request' = [request EXCEPT ![j] = "answered"]
    /\ UNCHANGED <<async, phase, running, called, aborted, lock>>

Work(w) ==
    \/ \E j \in 1..made : TakeJob(w, j) \/ TakeResponse(w, j)
    \/ Result(w) \/ Error(w) \/ IsActive(w) \/ Callback(w) \/ Finish(w) \/ FinishWaits(w)

Next ==
    \/ \E t \in Threads : SubmitJob(t) \/ \E k \in Keys : Invoke(t, k) \/ Abort(t, k) \/ AbortWaits(t, k)
    \/ Dispose \/ Delete \/ \E k \in Keys : Clear(k) \/ ClearWaits(k)
    \/ \E w \in Workers : Work(w)
    \/ \E j \in Jobs : Answer(j)

SafeSpec == Init /\ [][Next]_vars

(* The threads of the pool go on, an Invoke that has made its job submits  *)
(* it, an Abort that waits goes on when it can, and a Dispose ends.  The   *)
(* remote may stay silent; nobody has to call.                             *)
Fairness ==
    /\ \A t \in Threads : WF_vars(SubmitJob(t))
    /\ \A t \in Threads : WF_vars(holder = t /\ \E k \in Keys : Abort(t, k))
    /\ \A w \in Workers : WF_vars(Work(w))
    /\ WF_vars(Delete \/ \E k \in Keys : Clear(k) \/ ClearWaits(k))

Spec == SafeSpec /\ Fairness

-----------------------------------------------------------------------------
Submitted(j) == key[j] # NoKey /\ \A t \in Threads : submitting[t] # j

Revoked(j) == Submitted(j) /\ phase[j] = "new" /\ ~Queued(j)

UsedAgain(j) == \E i \in Jobs \ {j} : key[i] = key[j]

(* A callback never runs for an invocation that was aborted before its job *)
(* found its entry, even if the job was about to be submitted, waited in   *)
(* the pool or for its answer; unless the application has invoked the same *)
(* pair again after it, before the Abort or since, and the old job may     *)
(* take that entry for its own.                                            *)
AbortedStaysSilent ==
    \A j \in aborted \cap called : \E i \in Jobs : i > j /\ key[i] = key[j]

(* A job whose request has a result runs its callback, and no job is taken *)
(* off the pool, unless its own pair was aborted or used for another job,  *)
(* or all are disposed of: what is done for one pair never silences        *)
(* another.                                                                *)
ResultsAreReported ==
    \A j \in Jobs :
        Revoked(j) \/ (phase[j] = "over" /\ request[j] = "result" /\ j \notin called)
            => j \in aborted \/ UsedAgain(j) \/ life # "alive"

(* An entry stays after its job only if the request failed: the pair is    *)
(* then active for ever, and no later job of it is stored.                 *)
OnlyFailuresStay ==
    \A k \in Keys : LET j == methodMap[k]
                    IN  j # NoJob /\ phase[j] = "over" => request[j] = "error"

(* When the Async object is gone, no job is left that will use it, except  *)
(* one that ran or was being submitted while it was deleted, one that an   *)
(* Abort had looked for too early, and one whose pair was used for another *)
(* job.                                                                    *)
NothingOutlivesAsync ==
    life = "gone" =>
        \A j \in Jobs : Queued(j) \/ phase[j] \notin {"new", "over"} =>
            j \in surprised \cup aborted \/ UsedAgain(j)

Ended(j) == phase[j] = "over" \/ Revoked(j) \/ (life = "gone" /\ phase[j] \in {"check", "remove"})

(* A thread waits in Revoke, with _adminLock, for a job that waits for     *)
(* that lock.                                                              *)
Stuck == awaited # NoJob /\ phase[awaited] \in {"check", "remove"}

(* A thread that has begun to wait so never gets out, nor does the job.    *)
StuckForGood == [][Stuck => Stuck' /\ awaited' = awaited /\ holder' = holder]_vars

(* No job that ends waits in Revoke for a job of another pair, nor for one *)
(* whose pair was used only once: if the pool waits, it takes an Abort,    *)
(* the deletion of the object or a pair used again for Async to wait.      *)
OnlyOverlapWaits ==
    holder \in Workers => UsedAgain(awaited) /\ key[awaited] = key[running[holder]]

(* Every invocation comes to its end, or is revoked, although the jobs     *)
(* occupy the very threads that would deliver their answers, the pool's    *)
(* queue is full of them, and the remote may stay silent; unless it is     *)
(* left with no Async object to ask, or a Revoke that waits sticks.  There *)
(* are MaxJobs of them at most, so that there is always a moment to come   *)
(* when all are through.                                                   *)
JobsEnd == []<>(Stuck \/ \A j \in Jobs : key[j] # NoKey => Ended(j))
=============================================================================
