-------------------------- MODULE AsyncPoolProofs --------------------------
(***************************************************************************)
(* Abort silences every job of its pair, no job is lost that was not       *)
(* aborted, only failed requests leave their entry, and the deletion of    *)
(* the object leaves no job behind that did not run then: for any number   *)
(* of threads, of workers and of invocations, and any size of the pool's   *)
(* queue.                                                                  *)
(***************************************************************************)
EXTENDS AsyncPool, DataLemmas

(* Taking a job off the queue, or not finding it there. *)
LEMMA Revoking ==
  ASSUME TypeOK, NEW x, NEW j, Revoke(x, j)
  PROVE  pool' \in Seq(Items) /\ Len(pool') <= QueueSize
<1>1. CASE Queued(j)
  <2>1. PICK i \in DOMAIN pool : pool' = RemoveAt(pool, i)
    BY <1>1 DEF Revoke
  <2>2. pool' \in Seq(Items) /\ Len(pool') = Len(pool) - 1
    BY <2>1, Removal DEF TypeOK
  <2> QED
    BY <2>2, AsyncAssumption DEF TypeOK
<1>2. CASE ~Queued(j)
  BY <1>2 DEF Revoke, TypeOK
<1> QED
  BY <1>1, <1>2

(* What RemoveEntry does to the map and to the queue. *)
LEMMA Erasing ==
  ASSUME TypeOK, NEW x, NEW k, RemoveEntry(x, k)
  PROVE  /\ methodMap' \in [Keys -> Jobs \cup {NoJob}]
         /\ k \in Keys => methodMap'[k] = NoJob
         /\ \A l \in Keys : methodMap'[l] \in {methodMap[l], NoJob}
         /\ \A l \in Keys : l # k => methodMap'[l] = methodMap[l]
         /\ pool' \in Seq(Items) /\ Len(pool') <= QueueSize
<1>1. CASE methodMap[k] = NoJob
  BY <1>1 DEF TypeOK, RemoveEntry
<1>2. CASE methodMap[k] # NoJob
  <2>1. pool' \in Seq(Items) /\ Len(pool') <= QueueSize
    BY <1>2, Revoking DEF RemoveEntry
  <2> QED
    BY <1>2, <2>1 DEF TypeOK, RemoveEntry, EraseEntry
<1> QED
  BY <1>1, <1>2

LEMMA Submitting ==
  ASSUME TypeOK, NEW x \in Items, Submit(x)
  PROVE  pool' \in Seq(Items) /\ Len(pool') <= QueueSize
<1>1. pool' \in Seq(Items) /\ Len(pool') = Len(pool) + 1
  BY AppendProperties DEF TypeOK, Submit
<1> QED
  BY <1>1, AsyncAssumption DEF TypeOK, Submit

LEMMA TakingOff ==
  ASSUME TypeOK, pool # <<>>, pool' = Tail(pool)
  PROVE  pool' \in Seq(Items) /\ Len(pool') <= QueueSize
<1>1. pool' \in Seq(Items) /\ Len(pool') = Len(pool) - 1 /\ Len(pool) \in Nat
  BY HeadTailProperties, LenProperties DEF TypeOK
<1> QED
  BY <1>1, AsyncAssumption DEF TypeOK

LEMMA Typing == TypeOK /\ [Next]_vars => TypeOK'
<1> SUFFICES ASSUME TypeOK, [Next]_vars PROVE TypeOK'
  OBVIOUS
<1> USE DEF async, calls, lock, Unlock
<1>1. ASSUME NEW t \in Threads, NEW k \in Keys, Invoke(t, k) PROVE TypeOK'
  <2>1. made + 1 \in Jobs /\ made + 1 \in 0..MaxJobs
    BY <1>1, AsyncAssumption DEF Invoke, TypeOK, Jobs
  <2> QED
    BY <1>1, <2>1 DEF Invoke, TypeOK
<1>2. ASSUME NEW t \in Threads, SubmitJob(t) PROVE TypeOK'
  <2>1. <<"job", submitting[t]>> \in Items
    BY <1>2 DEF SubmitJob, TypeOK, Items
  <2>2. pool' \in Seq(Items) /\ Len(pool') <= QueueSize
    BY <1>2, <2>1, Submitting DEF SubmitJob
  <2> QED
    BY <1>2, <2>2 DEF SubmitJob, TypeOK
<1>3. ASSUME NEW t \in Threads, NEW k \in Keys, Abort(t, k) PROVE TypeOK'
  <2>1. /\ methodMap' \in [Keys -> Jobs \cup {NoJob}]
        /\ pool' \in Seq(Items) /\ Len(pool') <= QueueSize
    BY <1>3, Erasing DEF Abort
  <2> QED
    BY <1>3, <2>1 DEF Abort, RemoveEntry, Pending, TypeOK
<1>4. ASSUME NEW w \in Workers, NEW j \in 1..made, TakeJob(w, j) PROVE TypeOK'
  <2>1. j \in Jobs
    BY AsyncAssumption DEF TypeOK, Jobs
  <2>2. pool' \in Seq(Items) /\ Len(pool') <= QueueSize
    BY <1>4, TakingOff DEF TakeJob
  <2> QED
    BY <1>4, <2>1, <2>2 DEF TakeJob, Goto, TypeOK, Phases
<1>5. ASSUME NEW w \in Workers, NEW j \in 1..made, TakeResponse(w, j) PROVE TypeOK'
  <2>1. pool' \in Seq(Items) /\ Len(pool') <= QueueSize
    BY <1>5, TakingOff DEF TakeResponse
  <2> QED
    BY <1>5, <2>1 DEF TakeResponse, TypeOK
<1>6. ASSUME NEW w \in Workers, Result(w) PROVE TypeOK'
  BY <1>6 DEF Result, Goto, TypeOK, Phases
<1>7. ASSUME NEW w \in Workers, Error(w) PROVE TypeOK'
  BY <1>7 DEF Error, Leave, Goto, TypeOK, Phases
<1>8. ASSUME NEW w \in Workers, IsActive(w) PROVE TypeOK'
  BY <1>8 DEF IsActive, Leave, Goto, TypeOK, Phases
<1>9. ASSUME NEW w \in Workers, Callback(w) PROVE TypeOK'
  BY <1>9 DEF Callback, Goto, TypeOK, Phases
<1>10. ASSUME NEW w \in Workers, Finish(w) PROVE TypeOK'
  <2>1. /\ methodMap' \in [Keys -> Jobs \cup {NoJob}]
        /\ pool' \in Seq(Items) /\ Len(pool') <= QueueSize
    BY <1>10, Erasing DEF Finish
  <2> QED
    BY <1>10, <2>1 DEF Finish, RemoveEntry, Leave, Goto, TypeOK, Phases
<1>11. ASSUME NEW j \in Jobs, Answer(j) PROVE TypeOK'
  <2>1. pool' \in Seq(Items) /\ Len(pool') <= QueueSize
    BY <1>11, Submitting DEF Answer, Items
  <2> QED
    BY <1>11, <2>1 DEF Answer, TypeOK
<1>12. CASE Dispose \/ Delete
  BY <1>12 DEF Dispose, Delete, TypeOK
<1>13. ASSUME NEW k \in Keys, Clear(k) PROVE TypeOK'
  <2>1. /\ methodMap' \in [Keys -> Jobs \cup {NoJob}]
        /\ pool' \in Seq(Items) /\ Len(pool') <= QueueSize
    BY <1>13, Erasing DEF Clear
  <2> QED
    BY <1>13, <2>1 DEF Clear, RemoveEntry, TypeOK
<1>14. CASE UNCHANGED vars
  BY <1>14 DEF vars, TypeOK
<1>15. ASSUME NEW x \in Threads \cup Workers \cup {Deleter}, NEW k, WaitFor(x, k)
       PROVE  TypeOK'
  <2>1. methodMap[k] \in Jobs
    BY <1>15 DEF WaitFor, RunsElsewhere, TypeOK
  <2> QED
    BY <1>15, <2>1 DEF WaitFor, TypeOK
<1>16. ASSUME NEW k \in Keys, ClearWaits(k) \/ \E t \in Threads : AbortWaits(t, k)
       PROVE  TypeOK'
  BY <1>15, <1>16 DEF ClearWaits, AbortWaits
<1>17. ASSUME NEW w \in Workers, FinishWaits(w) PROVE TypeOK'
  BY <1>15, <1>17 DEF FinishWaits
<1> QED
  BY <1>1, <1>2, <1>3, <1>4, <1>5, <1>6, <1>7, <1>8, <1>9, <1>10, <1>11, <1>12,
     <1>13, <1>14, <1>16, <1>17 DEF Next, Work

(* A step in which nothing goes on but that somebody begins to wait. *)
Still == UNCHANGED <<async, pool, phase, running, calls>>

LEMMA Standing == (UNCHANGED vars => Still) /\ \A x, k : WaitFor(x, k) => Still
  BY DEF vars, Still, WaitFor

LEMMA Typed == Init => TypeOK
  BY AsyncAssumption DEF Init, TypeOK, Phases, Items

(* The state keeps its types; in particular the queue of the pool never    *)
(* holds more than it has room for, wherever it is shortened.              *)
THEOREM TypeCorrect == SafeSpec => []TypeOK
  BY Typed, Typing, PTL DEF SafeSpec

-----------------------------------------------------------------------------
Later(j) == \E i \in Jobs : i > j /\ key[i] = key[j]

(* Jobs are made one after the other. *)
Made == \A j \in Jobs : key[j] # NoKey <=> j <= made

(* The pair of an aborted job has no entry, or one of a later job. *)
Removed == \A j \in aborted : key[j] \in Keys /\ (methodMap[key[j]] = NoJob \/ Later(j))

(* An aborted job that goes on to its callback has a later one. *)
Silent == \A j \in aborted : (phase[j] = "callback" \/ j \in called) => Later(j)

IInv == TypeOK /\ Made /\ Removed /\ Silent

LEMMA Initially == Init => IInv
  BY Typed, AsyncAssumption DEF Init, IInv, Made, Removed, Silent, Jobs, Keys

(* A step that makes no job, adds no entry and aborts nothing. *)
LEMMA Going ==
  ASSUME IInv, TypeOK', UNCHANGED <<made, key, aborted>>,
         \A k \in Keys : methodMap'[k] \in {methodMap[k], NoJob},
         \A j \in aborted : (phase'[j] = "callback" \/ j \in called')
                              => (phase[j] = "callback" \/ j \in called \/ methodMap[key[j]] # NoJob)
  PROVE  IInv'
<1>1. \A j \in aborted : Later(j) => Later(j)'
  BY DEF Later
<1>2. Removed'
  BY <1>1 DEF IInv, Removed
<1>3. Silent'
  BY <1>1 DEF IInv, Removed, Silent
<1>4. Made'
  BY DEF IInv, Made
<1> QED
  BY <1>2, <1>3, <1>4 DEF IInv

(* The invariant is inductive: only Invoke adds an entry, and its job is   *)
(* later than every job that has been aborted.                             *)
LEMMA Inductive == IInv /\ [Next]_vars => IInv'
<1> SUFFICES ASSUME IInv, [Next]_vars PROVE IInv'
  OBVIOUS
<1>0. TypeOK /\ TypeOK'
  BY Typing DEF IInv
<1>1. ASSUME NEW t \in Threads, NEW k \in Keys, Invoke(t, k) PROVE IInv'
  <2>1. made + 1 \in Jobs /\ made \in Nat /\ MaxJobs \in Nat
    BY <1>1, AsyncAssumption DEF Invoke, IInv, TypeOK, Jobs
  <2>3. Made'
    BY <1>1, <2>1, AsyncAssumption DEF Invoke, IInv, TypeOK, Made, Jobs
  <2>4. \A j \in aborted : j <= made /\ key'[j] = key[j]
    BY <1>1, <2>1, AsyncAssumption DEF Invoke, IInv, TypeOK, Made, Removed, Jobs
  <2>5. \A j \in aborted : Later(j) => Later(j)'
    BY <1>1, <2>1, <2>4, AsyncAssumption DEF Invoke, IInv, TypeOK, Made, Removed,
       Later, Jobs
  <2>6. \A j \in aborted : key[j] = k => Later(j)'
    BY <1>1, <2>1, <2>4 DEF Invoke, IInv, TypeOK, Later, Jobs
  <2>7. Removed'
    BY <1>1, <2>4, <2>5, <2>6 DEF Invoke, IInv, TypeOK, Removed, calls
  <2>8. Silent'
    BY <1>1, <2>5 DEF Invoke, IInv, Silent, calls
  <2> QED
    BY <1>0, <2>3, <2>7, <2>8 DEF IInv
<1>2. ASSUME NEW t \in Threads, SubmitJob(t) PROVE IInv'
  BY <1>0, <1>2, Going DEF SubmitJob, calls, IInv, TypeOK
<1>3. ASSUME NEW t \in Threads, NEW k \in Keys, Abort(t, k) PROVE IInv'
  <2>2. \A j \in Jobs : Later(j) => Later(j)'
    BY <1>3 DEF Abort, Later
  <2>3. Removed'
    BY <1>3, <2>2, Erasing DEF Abort, Pending, IInv, TypeOK, Removed
  <2>4. Silent'
    BY <1>3, <2>2 DEF Abort, Pending, IInv, TypeOK, Silent
  <2> QED
    BY <1>0, <1>3, <2>3, <2>4 DEF Abort, IInv, Made
<1>4. ASSUME NEW w \in Workers, NEW j \in 1..made, TakeJob(w, j) PROVE IInv'
  BY <1>0, <1>4, Going, AsyncAssumption DEF TakeJob, Goto, async, IInv, TypeOK,
     Phases, Jobs
<1>5. ASSUME NEW w \in Workers, NEW j \in 1..made, TakeResponse(w, j) PROVE IInv'
  BY <1>0, <1>5, Going DEF TakeResponse, async, IInv, TypeOK
<1>6. ASSUME NEW w \in Workers, Result(w) PROVE IInv'
  BY <1>0, <1>6, Going DEF Result, Goto, async, IInv, TypeOK, Phases
<1>7. ASSUME NEW w \in Workers, Error(w) PROVE IInv'
  BY <1>0, <1>7, Going DEF Error, Leave, Goto, async, IInv, TypeOK, Phases
<1>8. ASSUME NEW w \in Workers, IsActive(w) PROVE IInv'
  BY <1>0, <1>8, Going DEF IsActive, Leave, Goto, async, calls, IInv, TypeOK, Phases
<1>9. ASSUME NEW w \in Workers, Callback(w) PROVE IInv'
  BY <1>0, <1>9, Going DEF Callback, Goto, async, IInv, TypeOK, Phases
<1>10. ASSUME NEW w \in Workers, Finish(w) PROVE IInv'
  <2>1. running[w] \in Jobs
    BY <1>10 DEF Finish, IInv, TypeOK
  <2> QED
    BY <1>0, <1>10, <2>1, Erasing, Going DEF Finish, Goto, calls, IInv, TypeOK
<1>11. ASSUME NEW j \in Jobs, Answer(j) PROVE IInv'
  BY <1>0, <1>11, Going DEF Answer, async, IInv, TypeOK
<1>12. CASE Dispose \/ Delete
  BY <1>0, <1>0, <1>12, Going DEF Dispose, Delete, calls
<1>13. ASSUME NEW k \in Keys, Clear(k) PROVE IInv'
  BY <1>0, <1>13, Erasing, Going DEF Clear, calls
<1>14. CASE Still
  BY <1>0, <1>14, Going DEF Still, async, calls, IInv, TypeOK
<1> QED
  BY <1>1, <1>2, <1>3, <1>4, <1>5, <1>6, <1>7, <1>8, <1>9, <1>10, <1>11, <1>12,
     <1>13, <1>14, Standing
  DEF Next, Work, AbortWaits, FinishWaits, ClearWaits

(* A job that was aborted before it found its entry runs its callback only *)
(* if the application has used its pair again (Async.h:96 asks for the     *)
(* pair, not for the job).                                                 *)
THEOREM AbortSilences == SafeSpec => []AbortedStaysSilent
<1>1. IInv => AbortedStaysSilent
  BY DEF IInv, Silent, AbortedStaysSilent, Later
<1> QED
  BY <1>1, Initially, Inductive, PTL DEF SafeSpec

-----------------------------------------------------------------------------
(* The entry of a pair is a job of that pair. *)
Entries == \A k \in Keys : methodMap[k] # NoJob => key[methodMap[k]] = k

(* A job that has not been made runs nowhere. *)
Fresh ==
    \A j \in Jobs : key[j] = NoKey => phase[j] = "new" /\ \A w \in Workers : running[w] # j

FInv == IInv /\ Entries /\ Fresh /\ OnlyFailuresStay

LEMMA FInitially == Init => FInv
  BY Initially, AsyncAssumption DEF Init, FInv, Entries, Fresh,
     OnlyFailuresStay, Keys, Jobs, NoJob

(* A step that adds no entry, and ends a job only with an error or where   *)
(* its pair has no entry any more.                                         *)
LEMMA Staying ==
  ASSUME FInv, IInv', UNCHANGED key,
         \A k \in Keys : methodMap'[k] \in {methodMap[k], NoJob},
         \A j \in Jobs : phase'[j] = "over" =>
             \/ phase[j] = "over" /\ (request[j] = "error" => request'[j] = "error")
             \/ request'[j] = "error"
             \/ methodMap'[key[j]] = NoJob,
         \A j \in Jobs : key[j] = NoKey =>
             phase'[j] = phase[j] /\ \A w \in Workers : running'[w] = j => running[w] = j
  PROVE  FInv'
<1>1. Entries'
  BY DEF FInv, Entries
<1>2. Fresh'
  BY AsyncAssumption DEF FInv, Fresh, Jobs, NoJob
<1>3. OnlyFailuresStay'
  BY <1>1 DEF FInv, IInv, TypeOK, Entries, OnlyFailuresStay
<1> QED
  BY <1>1, <1>2, <1>3 DEF FInv

(* A worker runs a job that has been made. *)
LEMMA Running ==
  ASSUME FInv, NEW w \in Workers, running[w] # NoJob
  PROVE  /\ running[w] \in Jobs
         /\ key[running[w]] \in Keys
         /\ \A j \in Jobs : key[j] = NoKey => j # running[w]
  BY DEF FInv, IInv, TypeOK, Fresh

LEMMA FInductive == FInv /\ [Next]_vars => FInv'
<1> SUFFICES ASSUME FInv, [Next]_vars PROVE FInv'
  OBVIOUS
<1>a. IInv'
  BY Inductive DEF FInv
<1>b. IInv /\ TypeOK /\ TypeOK'
  BY <1>a DEF FInv, IInv
<1>1. ASSUME NEW t \in Threads, NEW k \in Keys, Invoke(t, k) PROVE FInv'
  <2>1. made + 1 \in Jobs /\ key[made + 1] = NoKey
    BY <1>1, <1>b, AsyncAssumption DEF Invoke, IInv, TypeOK, Made, Jobs
  <2>2. Entries'
    BY <1>1, <1>b, <2>1, AsyncAssumption DEF Invoke, FInv, TypeOK, Entries
  <2>3. Fresh'
    BY <1>1, <1>b, <2>1, AsyncAssumption DEF Invoke, FInv, TypeOK, Fresh
  <2>4. OnlyFailuresStay'
    BY <1>1, <1>b, <2>1 DEF Invoke, FInv, TypeOK, Fresh, OnlyFailuresStay, calls
  <2> QED
    BY <1>a, <1>1, <1>b, <2>2, <2>3, <2>4 DEF Invoke, calls, FInv
<1>2. ASSUME NEW t \in Threads, SubmitJob(t) PROVE FInv'
  BY <1>2, <1>a, <1>b, Staying DEF SubmitJob, calls
<1>3. ASSUME NEW t \in Threads, NEW k \in Keys, Abort(t, k) PROVE FInv'
  BY <1>3, <1>a, <1>b, Erasing, Staying DEF Abort
<1>4. ASSUME NEW w \in Workers, NEW j \in 1..made, TakeJob(w, j) PROVE FInv'
  <2>1. j \in Jobs /\ key[j] # NoKey
    BY <1>b, AsyncAssumption DEF IInv, TypeOK, Made, Jobs
  <2> QED
    BY <1>4, <1>a, <1>b, <2>1, Staying DEF TakeJob, Goto, async, TypeOK
<1>5. ASSUME NEW w \in Workers, NEW j \in 1..made, TakeResponse(w, j) PROVE FInv'
  BY <1>5, <1>a, <1>b, Staying DEF TakeResponse, async, TypeOK
<1>6. ASSUME NEW w \in Workers, Result(w) PROVE FInv'
  BY <1>6, <1>a, <1>b, Running, Staying DEF Result, Goto, async, TypeOK
<1>7. ASSUME NEW w \in Workers, Error(w) PROVE FInv'
  <2>1. /\ running[w] \in Jobs /\ key[running[w]] \in Keys
        /\ \A j \in Jobs : key[j] = NoKey => j # running[w]
    BY <1>7, Running DEF Error
  <2> QED
    BY <1>7, <1>a, <1>b, <2>1, Staying, AsyncAssumption DEF Error, Leave, Goto, async,
       TypeOK, NoJob, Jobs
<1>8. ASSUME NEW w \in Workers, IsActive(w) PROVE FInv'
  <2>1. /\ running[w] \in Jobs /\ key[running[w]] \in Keys
        /\ \A j \in Jobs : key[j] = NoKey => j # running[w]
    BY <1>8, Running DEF IsActive
  <2> QED
    BY <1>8, <1>a, <1>b, <2>1, Staying, AsyncAssumption DEF IsActive, Leave, Goto,
       async, calls, TypeOK, NoJob, Jobs
<1>9. ASSUME NEW w \in Workers, Callback(w) PROVE FInv'
  BY <1>9, <1>a, <1>b, Running, Staying DEF Callback, Goto, async, TypeOK
<1>10. ASSUME NEW w \in Workers, Finish(w) PROVE FInv'
  <2>1. /\ running[w] \in Jobs /\ key[running[w]] \in Keys
        /\ \A j \in Jobs : key[j] = NoKey => j # running[w]
    BY <1>10, Running DEF Finish
  <2> QED
    BY <1>10, <1>a, <1>b, <2>1, Erasing, Staying, AsyncAssumption DEF Finish, Leave,
       Goto, calls, TypeOK, NoJob, Jobs
<1>11. ASSUME NEW j \in Jobs, Answer(j) PROVE FInv'
  BY <1>11, <1>a, <1>b, Staying DEF Answer, async, TypeOK
<1>12. CASE Dispose \/ Delete
  BY <1>12, <1>a, <1>b, Staying DEF Dispose, Delete, calls
<1>13. ASSUME NEW k \in Keys, Clear(k) PROVE FInv'
  BY <1>13, <1>a, <1>b, Erasing, Staying DEF Clear, calls
<1>14. CASE Still
  BY <1>14, <1>a, <1>b, Staying DEF Still, async, calls
<1> QED
  BY <1>1, <1>2, <1>3, <1>4, <1>5, <1>6, <1>7, <1>8, <1>9, <1>10, <1>11, <1>12,
     <1>13, <1>14, Standing
  DEF Next, Work, AbortWaits, FinishWaits, ClearWaits

(* Whatever is aborted, invoked again or disposed of, the entry of a job   *)
(* that is over is the entry of a job whose request failed (Async.h:96     *)
(* leaves it, and RemoveEntry is not reached).                             *)
THEOREM OnlyErrorsLeaveEntries == SafeSpec => []OnlyFailuresStay
<1>1. FInv => OnlyFailuresStay
  BY DEF FInv
<1> QED
  BY <1>1, FInitially, FInductive, PTL DEF SafeSpec

-----------------------------------------------------------------------------
(* Where a job can be: with the thread that made it, in the queue, with a  *)
(* worker, or over; and nowhere twice.                                     *)

InQueue(j)  == <<"job", j>> \in ToSet(pool)
Response(j) == <<"response", j>> \in ToSet(pool)

Queue ==
    /\ IsInjective(pool)
    /\ \A j \in Jobs : InQueue(j) => key[j] # NoKey /\ phase[j] = "new"
    /\ \A j \in Jobs : Response(j) => request[j] \notin {"none", "sent"}

Hands ==
    \A t \in Threads : submitting[t] # NoJob =>
        /\ key[submitting[t]] # NoKey /\ phase[submitting[t]] = "new"
        /\ ~InQueue(submitting[t])
        /\ \A u \in Threads : submitting[u] = submitting[t] => u = t

Working ==
    /\ \A w \in Workers : running[w] # NoJob =>
          /\ phase[running[w]] \notin {"new", "over"}
          /\ \A v \in Workers : running[v] = running[w] => v = w
    /\ \A j \in Jobs : phase[j] \notin {"new", "over"} => Runs(j)

(* What a job has done at each place. *)
Course ==
    \A j \in Jobs :
        /\ phase[j] = "new" => request[j] = "none"
        /\ j \in called => phase[j] \in {"remove", "over"}
        /\ phase[j] = "remove" => j \in called

PInv == FInv /\ Queue /\ Hands /\ Working /\ Course

LEMMA PlacesAtFirst == Init => PInv
  BY FInitially, AsyncAssumption
  DEF Init, PInv, Queue, Hands, Working, Course, InQueue, Response, IsInjective, ToSet

LEMMA RevokedAlone ==
  ASSUME TypeOK, Queue, NEW x, NEW j \in Jobs, Revoke(x, j)
  PROVE  IsInjective(pool') /\ ToSet(pool') = ToSet(pool) \ {<<"job", j>>}
<1>1. CASE Queued(j)
  <2>1. PICK i \in DOMAIN pool : pool[i] = <<"job", j>> /\ pool' = RemoveAt(pool, i)
    BY <1>1 DEF Revoke
  <2>2. pool \in Seq(Items) /\ IsInjective(pool)
    BY DEF TypeOK, Queue
  <2> QED
    BY <2>1, <2>2, Removing
<1>2. CASE ~Queued(j)
  <2>1. <<"job", j>> \notin ToSet(pool)
    BY <1>2 DEF Queued, ToSet
  <2> QED
    BY <1>2, <2>1 DEF Revoke, Queue
<1> QED
  BY <1>1, <1>2

LEMMA ErasedAlone ==
  ASSUME TypeOK, Queue, NEW x, NEW k \in Keys, RemoveEntry(x, k)
  PROVE  /\ IsInjective(pool')
         /\ \/ ToSet(pool') = ToSet(pool) \ {<<"job", methodMap[k]>>}
            \/ methodMap[k] = NoJob /\ pool' = pool
<1>1. CASE methodMap[k] = NoJob
  BY <1>1 DEF RemoveEntry, Queue
<1>2. CASE methodMap[k] # NoJob
  <2>1. methodMap[k] \in Jobs /\ Revoke(x, methodMap[k])
    BY <1>2 DEF TypeOK, RemoveEntry
  <2> QED
    BY <2>1, RevokedAlone
<1> QED
  BY <1>1, <1>2

(* Jobs may leave the queue. *)
LEMMA Fewer ==
  ASSUME PInv, FInv', UNCHANGED <<key, submitting, phase, running, request, called>>,
         IsInjective(pool'), ToSet(pool') \subseteq ToSet(pool)
  PROVE  PInv'
<1>1. Queue'
  BY DEF PInv, Queue, InQueue, Response
<1>2. Hands'
  BY DEF PInv, Hands, InQueue
<1>3. Working' /\ Course'
  BY DEF PInv, Working, Course, Runs
<1> QED
  BY <1>1, <1>2, <1>3 DEF PInv

(* A worker goes on with its job, or is done with it. *)
LEMMA Stepping ==
  ASSUME PInv, FInv', NEW w \in Workers, running[w] # NoJob,
         NEW p \in Phases \ {"new"}, phase' = [phase EXCEPT ![running[w]] = p],
         running' = IF p = "over" THEN [running EXCEPT ![w] = NoJob] ELSE running,
         UNCHANGED <<key, submitting>>,
         IsInjective(pool'), ToSet(pool') \subseteq ToSet(pool),
         NEW q \in {request[running[w]], "result", "error"},
         request' = [request EXCEPT ![running[w]] = q],
         called' = IF p = "remove" THEN called \cup {running[w]} ELSE called,
         running[w] \in called => p = "over"
  PROVE  PInv'
<1> DEFINE j == running[w]
<1>0. TypeOK /\ TypeOK' /\ j \in Jobs
  BY DEF PInv, FInv, IInv, TypeOK
<1>1. phase[j] \notin {"new", "over"} /\ phase'[j] = p /\ request'[j] = q
  BY <1>0 DEF PInv, Working, TypeOK
<1>2. \A i \in Jobs : i # j => phase'[i] = phase[i] /\ request'[i] = request[i]
  BY <1>0 DEF TypeOK
<1> HIDE DEF j
<1>3. Queue'
  <2>1. \A i \in Jobs : InQueue(i) => i # j
    BY <1>1 DEF PInv, Queue
  <2>2. ASSUME NEW i \in Jobs, InQueue(i)' PROVE key'[i] # NoKey /\ phase'[i] = "new"
    BY <1>2, <2>1, <2>2 DEF PInv, Queue, InQueue
  <2>3. ASSUME NEW i \in Jobs, Response(i)' PROVE request'[i] \notin {"none", "sent"}
    <3>1. request[i] \notin {"none", "sent"}
      BY <2>3 DEF PInv, Queue, Response
    <3> QED
      BY <1>1, <1>2, <3>1 DEF j
  <2> QED
    BY <2>2, <2>3 DEF Queue
<1>4. Hands'
  <2>1. \A t \in Threads : submitting[t] # NoJob => submitting[t] \in Jobs \ {j}
    BY <1>0, <1>1 DEF PInv, Hands, TypeOK
  <2> QED
    BY <1>2, <2>1 DEF PInv, Hands, InQueue
<1>5. Working'
  <2>1. ASSUME NEW v \in Workers, running'[v] # NoJob
        PROVE  /\ phase'[running'[v]] \notin {"new", "over"}
               /\ \A u \in Workers : running'[u] = running'[v] => u = v
    <3>1. running'[v] = running[v] /\ (p = "over" => v # w)
      BY <1>0, <2>1 DEF TypeOK
    <3>2. /\ running[v] \in Jobs /\ phase[running[v]] \notin {"new", "over"}
          /\ \A u \in Workers : running[u] = running[v] => u = v
      BY <1>0, <2>1, <3>1 DEF PInv, Working, TypeOK
    <3>3. phase'[running[v]] \notin {"new", "over"}
      <4>1. CASE v = w
        BY <1>1, <3>1, <4>1 DEF j
      <4>2. CASE v # w
        <5>1. running[v] # j
          BY <3>2, <4>2 DEF j
        <5> QED
          BY <1>2, <3>2, <5>1
      <4> QED
        BY <4>1, <4>2
    <3>4. \A u \in Workers : running'[u] = running[v] => running[u] = running[v]
      BY <1>0, <3>2, AsyncAssumption DEF TypeOK, Jobs, NoJob
    <3> QED
      BY <3>1, <3>2, <3>3, <3>4
  <2>2. ASSUME NEW i \in Jobs, phase'[i] \notin {"new", "over"} PROVE Runs(i)'
    <3>1. CASE i = j
      BY <1>1, <2>2, <3>1 DEF Runs, j
    <3>2. CASE i # j
      <4>1. PICK v \in Workers : running[v] = i
        BY <1>2, <2>2, <3>2 DEF PInv, Working, Runs
      <4>2. running'[v] = i
        BY <1>0, <3>2, <4>1 DEF TypeOK, j
      <4> QED
        BY <4>2 DEF Runs
    <3> QED
      BY <3>1, <3>2
  <2> QED
    BY <2>1, <2>2 DEF Working
<1>6. Course'
  <2> SUFFICES ASSUME NEW i \in Jobs
               PROVE  /\ phase'[i] = "new" => request'[i] = "none"
                      /\ i \in called' => phase'[i] \in {"remove", "over"}
                      /\ phase'[i] = "remove" => i \in called'
    BY DEF Course
  <2>1. CASE i = j
    BY <1>1, <2>1 DEF Phases, j
  <2>2. CASE i # j
    <3>1. i \in called' <=> i \in called
      BY <2>2 DEF j
    <3> QED
      BY <1>2, <2>2, <3>1 DEF PInv, Course
  <2> QED
    BY <2>1, <2>2
<1> QED
  BY <1>3, <1>4, <1>5, <1>6 DEF PInv

LEMMA PlacesInductive == PInv /\ [Next]_vars => PInv'
<1> SUFFICES ASSUME PInv, [Next]_vars PROVE PInv'
  OBVIOUS
<1>0. FInv /\ FInv' /\ TypeOK /\ TypeOK' /\ Queue /\ pool \in Seq(Items) /\ IsInjective(pool)
  BY FInductive DEF PInv, FInv, IInv, TypeOK, Queue
<1> USE DEF async, calls
<1>1. ASSUME NEW t \in Threads, NEW k \in Keys, Invoke(t, k) PROVE PInv'
  <2> DEFINE n == made + 1
  <2>1. n \in Jobs /\ key[n] = NoKey /\ k # NoKey /\ key' = [key EXCEPT ![n] = k]
    BY <1>0, <1>1, AsyncAssumption DEF Invoke, FInv, IInv, TypeOK, Made, Jobs
  <2>2. phase[n] = "new" /\ ~InQueue(n) /\ \A u \in Threads : submitting[u] # n
    BY <1>0, <2>1, AsyncAssumption DEF FInv, Fresh, PInv, Queue, Hands, Jobs, NoJob
  <2> HIDE DEF n
  <2>3. submitting' = [submitting EXCEPT ![t] = n] /\ UNCHANGED <<pool, phase, running, calls>>
    BY <1>1 DEF Invoke, n
  <2>4. Queue'
    BY <1>0, <2>1, <2>3 DEF Queue, InQueue, Response, TypeOK
  <2>5. Hands'
    <3>1. ASSUME NEW u \in Threads, u # t, submitting[u] # NoJob
          PROVE  /\ key'[submitting[u]] # NoKey /\ phase[submitting[u]] = "new"
                 /\ ~InQueue(submitting[u]) /\ submitting[u] # n
                 /\ \A v \in Threads : submitting[v] = submitting[u] => v = u
      BY <1>0, <2>1, <2>2, <3>1 DEF PInv, Hands, TypeOK
    <3>2. key'[n] # NoKey
      BY <1>0, <2>1 DEF TypeOK
    <3>3. \A u \in Threads : submitting'[u] = IF u = t THEN n ELSE submitting[u]
      BY <1>0, <2>3 DEF TypeOK
    <3> QED
      BY <2>2, <2>3, <3>1, <3>2, <3>3 DEF Hands, InQueue
  <2>6. Working' /\ Course'
    BY <2>3 DEF PInv, Working, Course, Runs
  <2> QED
    BY <1>0, <2>4, <2>5, <2>6 DEF PInv
<1>2. ASSUME NEW t \in Threads, SubmitJob(t) PROVE PInv'
  <2> DEFINE n == submitting[t]
  <2>1. /\ n \in Jobs /\ key[n] # NoKey /\ phase[n] = "new" /\ ~InQueue(n)
        /\ \A u \in Threads : submitting[u] = n => u = t
    BY <1>0, <1>2 DEF SubmitJob, PInv, Hands, TypeOK
  <2>2. /\ IsInjective(pool') /\ ToSet(pool') = ToSet(pool) \cup {<<"job", n>>}
    <3>1. <<"job", n>> \in Items /\ <<"job", n>> \notin ToSet(pool)
      BY <2>1 DEF Items, InQueue
    <3> QED
      BY <1>0, <1>2, <3>1, Appending DEF SubmitJob, Submit
  <2>3. submitting' = [submitting EXCEPT ![t] = NoJob]
        /\ UNCHANGED <<key, phase, running, request, called>>
    BY <1>2 DEF SubmitJob
  <2> HIDE DEF n
  <2>4. Queue'
    <3>1. \A j \in Jobs : InQueue(j)' => InQueue(j) \/ j = n
      BY <2>2 DEF InQueue
    <3>2. \A j \in Jobs : Response(j)' => Response(j)
      BY <2>2 DEF Response
    <3> QED
      BY <2>1, <2>2, <2>3, <3>1, <3>2 DEF PInv, Queue
  <2>5. Hands'
    <3>1. \A u \in Threads : submitting'[u] # NoJob => u # t /\ submitting'[u] = submitting[u]
      BY <1>0, <2>3 DEF TypeOK
    <3>2. \A u \in Threads : u # t => submitting[u] # n
      BY <2>1
    <3>3. \A j \in Jobs : j # n /\ ~InQueue(j) => ~InQueue(j)'
      BY <2>2 DEF InQueue
    <3> QED
      BY <1>0, <2>3, <3>1, <3>2, <3>3 DEF PInv, Hands, TypeOK
  <2>6. Working' /\ Course'
    BY <2>3 DEF PInv, Working, Course, Runs
  <2> QED
    BY <1>0, <2>4, <2>5, <2>6 DEF PInv
<1>3. ASSUME NEW t \in Threads, NEW k \in Keys, Abort(t, k) PROVE PInv'
  BY <1>0, <1>3, ErasedAlone, Fewer DEF Abort
<1>4. ASSUME NEW w \in Workers, NEW j \in 1..made, TakeJob(w, j) PROVE PInv'
  <2>1. /\ j \in Jobs /\ pool # <<>> /\ Head(pool) = <<"job", j>> /\ pool' = Tail(pool)
        /\ running[w] = NoJob /\ running' = [running EXCEPT ![w] = j]
        /\ phase' = [phase EXCEPT ![j] = "request"]
        /\ request' = [request EXCEPT ![j] = "sent"]
        /\ UNCHANGED <<key, submitting, called>>
    BY <1>0, <1>4, AsyncAssumption DEF TakeJob, Goto, TypeOK, Jobs
  <2>2. IsInjective(pool') /\ ToSet(pool') = ToSet(pool) \ {<<"job", j>>}
    BY <1>0, <2>1, Taking
  <2>3. <<"job", j>> \in ToSet(pool)
    <3>1. 1 \in DOMAIN pool /\ Head(pool) = pool[1]
      BY <1>0, <2>1, EmptySeq, LenProperties
    <3> QED
      BY <2>1, <3>1 DEF ToSet
  <2>4. key[j] # NoKey /\ phase[j] = "new" /\ request[j] = "none" /\ j \notin called
    BY <2>1, <2>3 DEF PInv, Queue, Course, InQueue
  <2>5. \A i \in Jobs : i # j => phase'[i] = phase[i] /\ request'[i] = request[i]
    BY <1>0, <2>1 DEF TypeOK
  <2>6. \A v \in Workers : running[v] # j
    BY <2>1, <2>4, AsyncAssumption DEF PInv, Working, Jobs, NoJob
  <2>7. phase'[j] = "request" /\ request'[j] = "sent"
    BY <1>0, <2>1 DEF TypeOK
  <2>8. Queue'
    <3>1. \A i \in Jobs : InQueue(i)' => InQueue(i) /\ i # j
      BY <2>2 DEF InQueue
    <3>2. \A i \in Jobs : Response(i)' => Response(i)
      BY <2>2 DEF Response
    <3>3. ~Response(j)
      BY <2>1, <2>4 DEF PInv, Queue
    <3>4. \A i \in Jobs : Response(i)' => i # j
      BY <3>2, <3>3
    <3> QED
      BY <2>1, <2>2, <2>5, <3>1, <3>2, <3>4 DEF PInv, Queue
  <2>9. Hands'
    <3>1. \A u \in Threads : submitting[u] # NoJob => submitting[u] \in Jobs \ {j}
      BY <1>0, <2>3 DEF PInv, Hands, InQueue, TypeOK
    <3>2. \A i \in Jobs : InQueue(i)' => InQueue(i)
      BY <2>2 DEF InQueue
    <3> QED
      BY <2>1, <2>5, <3>1, <3>2 DEF PInv, Hands
  <2>10. Working'
    <3>1. \A v \in Workers : running'[v] = IF v = w THEN j ELSE running[v]
      BY <1>0, <2>1 DEF TypeOK
    <3>2. ASSUME NEW v \in Workers, running'[v] # NoJob
          PROVE  /\ phase'[running'[v]] \notin {"new", "over"}
                 /\ \A u \in Workers : running'[u] = running'[v] => u = v
      <4>1. CASE v = w
        BY <2>6, <2>7, <3>1, <4>1
      <4>2. CASE v # w
        <5>1. running[v] \in Jobs \ {j} /\ running'[v] = running[v]
          BY <1>0, <2>6, <3>1, <3>2, <4>2 DEF TypeOK
        <5>2. phase[running[v]] \notin {"new", "over"}
              /\ \A u \in Workers : running[u] = running[v] => u = v
          BY <3>1, <3>2, <4>2 DEF PInv, Working
        <5> QED
          BY <2>5, <3>1, <5>1, <5>2
      <4> QED
        BY <4>1, <4>2
    <3>3. \A i \in Jobs : phase'[i] \notin {"new", "over"} => Runs(i)'
      <4>1. Runs(j)'
        BY <3>1 DEF Runs
      <4>2. \A i \in Jobs : i # j /\ Runs(i) => Runs(i)'
        BY <2>1, <3>1, AsyncAssumption DEF Runs, Jobs, NoJob
      <4> QED
        BY <2>5, <4>1, <4>2 DEF PInv, Working
    <3> QED
      BY <3>2, <3>3 DEF Working
  <2>11. Course'
    BY <2>1, <2>4, <2>5, <2>7 DEF PInv, Course
  <2> QED
    BY <1>0, <2>8, <2>9, <2>10, <2>11 DEF PInv
<1>5. ASSUME NEW w \in Workers, NEW j \in 1..made, TakeResponse(w, j) PROVE PInv'
  <2>1. /\ IsInjective(pool') /\ ToSet(pool') \subseteq ToSet(pool)
    BY <1>0, <1>5, Taking DEF TakeResponse
  <2>2. UNCHANGED <<key, submitting, phase, running, called>>
    BY <1>5 DEF TakeResponse
  <2>3. \A i \in Jobs : \/ request'[i] = request[i]
                       \/ (request[i] = "answered" /\ request'[i] = "delivered")
    BY <1>0, <1>5 DEF TakeResponse, TypeOK
  <2>4. Queue'
    BY <2>1, <2>2, <2>3 DEF PInv, Queue, InQueue, Response
  <2>5. Hands' /\ Working' /\ Course'
    BY <2>1, <2>2, <2>3 DEF PInv, Hands, Working, Course, InQueue, Runs
  <2> QED
    BY <1>0, <2>4, <2>5 DEF PInv
<1>a. ASSUME NEW w \in Workers, running[w] # NoJob
      PROVE  running[w] \in Jobs /\ request = [request EXCEPT ![running[w]] = request[running[w]]]
             /\ running = [running EXCEPT ![w] = running[w]]
  BY <1>0, <1>a DEF TypeOK
<1>b. ASSUME NEW w \in Workers, running[w] # NoJob, phase[running[w]] \in {"request", "check", "callback"}
      PROVE  running[w] \notin called
  BY <1>a, <1>b DEF PInv, Course
<1>6. ASSUME NEW w \in Workers, Result(w) PROVE PInv'
  <2>1. /\ running[w] # NoJob /\ phase[running[w]] = "request"
        /\ phase' = [phase EXCEPT ![running[w]] = "check"]
        /\ request' = [request EXCEPT ![running[w]] = "result"]
        /\ running' = running
        /\ UNCHANGED <<key, submitting, pool, called>>
    BY <1>6 DEF Result, Goto
  <2>2. running[w] \notin called
    BY <1>b, <2>1
  <2>3. "check" \in Phases \ {"new"} /\ "result" \in {request[running[w]], "result", "error"}
    BY DEF Phases
  <2>4. /\ running' = IF "check" = "over" THEN [running EXCEPT ![w] = NoJob] ELSE running
        /\ called' = IF "check" = "remove" THEN called \cup {running[w]} ELSE called
    BY <2>1
  <2> QED
    BY <1>0, <2>1, <2>2, <2>3, <2>4, Stepping
<1>7. ASSUME NEW w \in Workers, Error(w) PROVE PInv'
  <2>1. /\ running[w] # NoJob
        /\ phase' = [phase EXCEPT ![running[w]] = "over"]
        /\ request' = [request EXCEPT ![running[w]] = "error"]
        /\ running' = [running EXCEPT ![w] = NoJob]
        /\ UNCHANGED <<key, submitting, pool, called>>
    BY <1>7 DEF Error, Goto, Leave
  <2> QED
    BY <1>0, <2>1, Stepping DEF Phases
<1>8. ASSUME NEW w \in Workers, IsActive(w) PROVE PInv'
  <2>1. /\ running[w] # NoJob /\ phase[running[w]] = "check"
        /\ UNCHANGED <<key, submitting, pool, request, called>>
        /\ \/ phase' = [phase EXCEPT ![running[w]] = "callback"] /\ running' = running
           \/ phase' = [phase EXCEPT ![running[w]] = "over"]
              /\ running' = [running EXCEPT ![w] = NoJob]
    BY <1>8 DEF IsActive, Goto, Leave
  <2>2. running[w] \notin called
    BY <1>b, <2>1
  <2>3. request' = [request EXCEPT ![running[w]] = request[running[w]]]
    BY <1>a, <2>1
  <2>4. CASE phase' = [phase EXCEPT ![running[w]] = "callback"] /\ running' = running
    <3>1. "callback" \in Phases \ {"new"} /\ request[running[w]] \in {request[running[w]], "result", "error"}
      BY DEF Phases
    <3>2. /\ running' = IF "callback" = "over" THEN [running EXCEPT ![w] = NoJob] ELSE running
          /\ called' = IF "callback" = "remove" THEN called \cup {running[w]} ELSE called
      BY <2>1, <2>4
    <3> QED
      BY <1>0, <2>1, <2>2, <2>3, <2>4, <3>1, <3>2, Stepping
  <2>5. CASE phase' = [phase EXCEPT ![running[w]] = "over"]
             /\ running' = [running EXCEPT ![w] = NoJob]
    BY <1>0, <2>1, <2>2, <2>3, <2>5, Stepping DEF Phases
  <2> QED
    BY <2>1, <2>4, <2>5
<1>9. ASSUME NEW w \in Workers, Callback(w) PROVE PInv'
  BY <1>0, <1>9, <1>a, <1>b, Stepping DEF Callback, Goto, Phases
<1>10. ASSUME NEW w \in Workers, Finish(w) PROVE PInv'
  <2>1. key[running[w]] \in Keys
    BY <1>0, <1>10, Running DEF Finish
  <2>2. IsInjective(pool') /\ ToSet(pool') \subseteq ToSet(pool)
    BY <1>0, <1>10, <2>1, ErasedAlone DEF Finish
  <2> QED
    BY <1>0, <1>10, <1>a, <2>2, Stepping DEF Finish, Leave, Goto, Phases
<1>11. ASSUME NEW j \in Jobs, Answer(j) PROVE PInv'
  <2>1. <<"response", j>> \in Items /\ <<"response", j>> \notin ToSet(pool)
    BY <1>11 DEF Answer, Items, PInv, Queue, Response
  <2>2. IsInjective(pool') /\ ToSet(pool') = ToSet(pool) \cup {<<"response", j>>}
    BY <1>0, <1>11, <2>1, Appending DEF Answer, Submit
  <2>3. UNCHANGED <<key, submitting, phase, running, called>>
    BY <1>11 DEF Answer
  <2>4. /\ \A i \in Jobs : i # j => request'[i] = request[i]
        /\ request[j] = "sent" /\ request'[j] = "answered"
    BY <1>0, <1>11 DEF Answer, TypeOK
  <2>5. /\ \A i \in Jobs : InQueue(i)' <=> InQueue(i)
        /\ \A i \in Jobs : Response(i)' => Response(i) \/ i = j
    BY <2>2 DEF InQueue, Response
  <2>6. Queue'
    BY <2>2, <2>3, <2>4, <2>5 DEF PInv, Queue
  <2>7. Hands'
    BY <1>0, <2>3, <2>5 DEF PInv, Hands, TypeOK
  <2>8. Working' /\ Course'
    BY <2>3, <2>4 DEF PInv, Working, Course, Runs
  <2> QED
    BY <1>0, <2>6, <2>7, <2>8 DEF PInv
<1>12. CASE Dispose \/ Delete
  BY <1>0, <1>12, Fewer DEF Dispose, Delete
<1>13. ASSUME NEW k \in Keys, Clear(k) PROVE PInv'
  BY <1>0, <1>13, ErasedAlone, Fewer DEF Clear
<1>14. CASE Still
  BY <1>0, <1>14, Fewer DEF Still
<1> QED
  BY <1>1, <1>2, <1>3, <1>4, <1>5, <1>6, <1>7, <1>8, <1>9, <1>10, <1>11, <1>12,
     <1>13, <1>14, Standing
  DEF Next, Work, AbortWaits, FinishWaits, ClearWaits

(* As long as nothing else happens to its pair, a job that has not found   *)
(* its entry yet has one.                                                  *)
Own ==
    life = "alive" =>
        \A j \in Jobs \ aborted :
            key[j] # NoKey /\ phase[j] \in {"new", "request", "check"} /\ ~UsedAgain(j)
                => methodMap[key[j]] = j

(* The jobs that the deletion of the object need not stop. *)
Known(j) == j \in surprised \cup aborted \/ UsedAgain(j)

Deletion ==
    life # "alive" =>
        /\ \A t \in Threads : submitting[t] \in surprised \cup {NoJob}
        /\ \A j \in Jobs : InQueue(j) =>
              Known(j) \/ (life = "clearing" /\ methodMap[key[j]] = j)
        /\ life = "gone" => \A j \in Jobs : Runs(j) => Known(j)

RInv == PInv /\ Own /\ ResultsAreReported /\ Deletion

LEMMA AlwaysAtFirst == Init => RInv
<1> SUFFICES ASSUME Init PROVE RInv
  OBVIOUS
<1>1. PInv
  BY PlacesAtFirst
<1>2. Own /\ Deletion
  BY DEF Init, Own, Deletion
<1>3. ResultsAreReported
  BY DEF Init, ResultsAreReported, Revoked, Submitted
<1> QED
  BY <1>1, <1>2, <1>3 DEF RInv

(* A pair that is used again stays so. *)
LEMMA Again ==
  ASSUME IInv, NEW t \in Threads, NEW k \in Keys, Invoke(t, k),
         NEW j \in Jobs, key[j] # NoKey
  PROVE  /\ UsedAgain(j) => UsedAgain(j)'
         /\ key[j] = k => UsedAgain(j)'
         /\ key'[j] = key[j] /\ j # made + 1
<1>1. made + 1 \in Jobs /\ key[made + 1] = NoKey /\ key' = [key EXCEPT ![made + 1] = k]
  BY AsyncAssumption DEF Invoke, IInv, TypeOK, Made, Jobs
<1>2. \A i \in Jobs : key'[i] = IF i = made + 1 THEN k ELSE key[i]
  BY <1>1 DEF IInv, TypeOK
<1>3. j # made + 1
  BY <1>1
<1> QED
  BY <1>1, <1>2, <1>3 DEF UsedAgain

LEMMA OwnInductive == PInv /\ PInv' /\ Own /\ [Next]_vars => Own'
<1> SUFFICES ASSUME PInv, PInv', Own, [Next]_vars, life' = "alive",
                    NEW j \in Jobs, j \notin aborted', key'[j] # NoKey,
                    phase'[j] \in {"new", "request", "check"}, ~UsedAgain(j)'
             PROVE  methodMap'[key'[j]] = j
  BY DEF Own
<1> USE DEF async, calls
<1>0. IInv /\ TypeOK /\ TypeOK' /\ Entries
  BY DEF PInv, FInv, IInv
<1>a. ASSUME life = "alive", UNCHANGED <<key, methodMap>>, j \notin aborted,
             phase[j] \in {"new", "request", "check"}
      PROVE  methodMap'[key'[j]] = j
  BY <1>a DEF Own, UsedAgain
<1>1. ASSUME NEW t \in Threads, NEW k \in Keys, Invoke(t, k) PROVE methodMap'[key'[j]] = j
  <2>1. CASE key[j] = NoKey
    <3>1. /\ made + 1 \in Jobs /\ key[made + 1] = NoKey /\ key' = [key EXCEPT ![made + 1] = k]
      BY <1>0, <1>1, AsyncAssumption DEF Invoke, IInv, TypeOK, Made, Jobs
    <3>2. j = made + 1 /\ key'[j] = k
      BY <1>0, <2>1, <3>1 DEF TypeOK
    <3>3. methodMap[k] = NoJob
      <4>1. SUFFICES ASSUME methodMap[k] # NoJob PROVE FALSE
        OBVIOUS
      <4>2. methodMap[k] \in Jobs /\ key[methodMap[k]] = k /\ k # NoKey
        BY <1>0, <4>1, AsyncAssumption DEF TypeOK, Entries
      <4>3. methodMap[k] # j /\ key'[methodMap[k]] = k
        BY <1>0, <2>1, <3>1, <4>2 DEF TypeOK
      <4> QED
        BY <3>2, <4>2, <4>3 DEF UsedAgain
    <3> QED
      BY <1>0, <1>1, <3>2, <3>3 DEF Invoke, TypeOK
  <2>2. CASE key[j] # NoKey
    <3>1. /\ UsedAgain(j) => UsedAgain(j)'
          /\ key[j] = k => UsedAgain(j)'
          /\ key'[j] = key[j]
      BY <1>0, <1>1, <2>2, Again
    <3>2. life = "alive" /\ phase' = phase /\ aborted' = aborted
          /\ \A l \in Keys : l # k => methodMap'[l] = methodMap[l]
      BY <1>0, <1>1 DEF Invoke, TypeOK
    <3>3. key[j] \in Keys
      BY <1>0, <2>2 DEF TypeOK
    <3> QED
      BY <2>2, <3>1, <3>2, <3>3 DEF Own
  <2> QED
    BY <2>1, <2>2
<1>2. ASSUME NEW t \in Threads, SubmitJob(t) PROVE methodMap'[key'[j]] = j
  BY <1>2, <1>a DEF SubmitJob
<1>3. ASSUME NEW t \in Threads, NEW k \in Keys, Abort(t, k) PROVE methodMap'[key'[j]] = j
  <2>1. life = "alive" /\ phase' = phase /\ key' = key /\ j \notin aborted
        /\ j \notin Pending(k)
    BY <1>3 DEF Abort
  <2>2. key[j] # k
    BY <2>1 DEF Pending, PInv, Course
  <2>3. methodMap[key[j]] = j
    BY <2>1 DEF Own, UsedAgain
  <2>4. key[j] \in Keys
    BY <1>0, <2>1 DEF TypeOK
  <2> QED
    BY <1>0, <1>3, <2>1, <2>2, <2>3, <2>4, Erasing DEF Abort
<1>4. ASSUME NEW w \in Workers, NEW i \in 1..made, TakeJob(w, i) PROVE methodMap'[key'[j]] = j
  <2>1. i \in Jobs /\ <<"job", i>> \in ToSet(pool)
    <3>1. 1 \in DOMAIN pool /\ Head(pool) = pool[1]
      BY <1>0, <1>4, EmptySeq, LenProperties DEF TypeOK, TakeJob
    <3> QED
      BY <1>0, <1>4, <3>1, AsyncAssumption DEF TakeJob, ToSet, TypeOK, Jobs
  <2>2. phase[i] = "new"
    BY <2>1 DEF PInv, Queue, InQueue
  <2>3. phase[j] \in {"new", "request", "check"}
    BY <1>0, <1>4, <2>1, <2>2 DEF TakeJob, Goto, TypeOK
  <2> QED
    BY <1>4, <1>a, <2>3 DEF TakeJob
<1>5. ASSUME NEW w \in Workers, NEW i \in 1..made, TakeResponse(w, i) PROVE methodMap'[key'[j]] = j
  BY <1>5, <1>a DEF TakeResponse
<1>6. ASSUME NEW w \in Workers, Result(w) PROVE methodMap'[key'[j]] = j
  BY <1>0, <1>6, <1>a DEF Result, Goto, TypeOK
<1>7. ASSUME NEW w \in Workers, Error(w) PROVE methodMap'[key'[j]] = j
  BY <1>0, <1>7, <1>a DEF Error, Goto, TypeOK
<1>8. ASSUME NEW w \in Workers, IsActive(w) PROVE methodMap'[key'[j]] = j
  BY <1>0, <1>8, <1>a DEF IsActive, Goto, TypeOK
<1>9. ASSUME NEW w \in Workers, Callback(w) PROVE methodMap'[key'[j]] = j
  BY <1>0, <1>9, <1>a DEF Callback, Goto, TypeOK
<1>10. ASSUME NEW w \in Workers, Finish(w) PROVE methodMap'[key'[j]] = j
  <2>1. /\ running[w] \in Jobs /\ phase' = [phase EXCEPT ![running[w]] = "over"]
        /\ life = "alive" /\ key' = key /\ aborted' = aborted
        /\ RemoveEntry(w, key[running[w]])
    BY <1>0, <1>10 DEF Finish, Goto, TypeOK
  <2>2. j # running[w] /\ phase'[j] = phase[j]
    BY <1>0, <2>1 DEF TypeOK
  <2>3. key[j] # key[running[w]]
    BY <2>1, <2>2 DEF UsedAgain
  <2>4. methodMap[key[j]] = j
    BY <2>1, <2>2 DEF Own, UsedAgain
  <2>5. key[j] \in Keys
    BY <1>0, <2>1 DEF TypeOK
  <2> QED
    BY <1>0, <2>1, <2>3, <2>4, <2>5, Erasing
<1>11. ASSUME NEW i \in Jobs, Answer(i) PROVE methodMap'[key'[j]] = j
  BY <1>11, <1>a DEF Answer
<1>12. ~Dispose /\ ~Delete /\ \A k \in Keys : ~Clear(k)
  BY DEF Dispose, Delete, Clear
<1>13. CASE Still
  BY <1>13, <1>a DEF Still
<1> QED
  BY <1>1, <1>2, <1>3, <1>4, <1>5, <1>6, <1>7, <1>8, <1>9, <1>10, <1>11, <1>12,
     <1>13, Standing
  DEF Next, Work, AbortWaits, FinishWaits, ClearWaits

(* While the object is being deleted, and after.  Jobs leave the queue, a   *)
(* worker stays with its job or takes one off the queue.                   *)
LEMMA Deleting ==
  ASSUME PInv, Deletion, life # "alive", UNCHANGED <<key, life, surprised, aborted>>,
         \A t \in Threads : submitting'[t] \in {submitting[t], NoJob},
         \A j \in Jobs : InQueue(j)' =>
             \/ InQueue(j) /\ methodMap'[key[j]] = methodMap[key[j]]
             \/ j \in surprised,
         \A j \in Jobs : Runs(j)' => Runs(j) \/ InQueue(j)
  PROVE  Deletion'
<1>1. \A j \in Jobs : Known(j) => Known(j)'
  BY DEF Known, UsedAgain
<1>2. \A j \in surprised : Known(j)'
  BY DEF Known
<1>3. \A j \in Jobs : InQueue(j)' =>
          Known(j)' \/ (life' = "clearing" /\ methodMap'[key'[j]] = j)
  BY <1>1, <1>2 DEF Deletion
<1>4. life' = "gone" => \A j \in Jobs : Runs(j)' => Known(j)'
  BY <1>1 DEF Deletion
<1> QED
  BY <1>3, <1>4 DEF Deletion

LEMMA DeletionInductive == PInv /\ PInv' /\ Own /\ Deletion /\ [Next]_vars => Deletion'
<1> SUFFICES ASSUME PInv, PInv', Own, Deletion, [Next]_vars, life' # "alive"
             PROVE  Deletion'
  BY DEF Deletion
<1> USE DEF async, calls
<1>0. TypeOK /\ TypeOK' /\ Entries /\ pool \in Seq(Items) /\ IsInjective(pool) /\ Queue
  BY DEF PInv, FInv, IInv, TypeOK, Queue
<1>a. ASSUME life # "alive", UNCHANGED <<key, life, surprised, aborted, methodMap, submitting>>,
             ToSet(pool') \subseteq ToSet(pool),
             \A j \in Jobs : Runs(j)' => Runs(j)
      PROVE  Deletion'
  BY <1>a, Deleting DEF InQueue
<1>b. ASSUME NEW w \in Workers, running' = [running EXCEPT ![w] = NoJob]
      PROVE  \A j \in Jobs : Runs(j)' => Runs(j)
  BY <1>0, <1>b, AsyncAssumption DEF Runs, TypeOK, Jobs, NoJob
<1>1. \A t \in Threads : \A k \in Keys : ~Invoke(t, k) /\ ~Abort(t, k)
  BY DEF Invoke, Abort
<1>2. ASSUME NEW t \in Threads, SubmitJob(t) PROVE Deletion'
  <2>1. /\ life # "alive" /\ submitting[t] \in surprised /\ submitting[t] \in Jobs
        /\ UNCHANGED <<key, life, surprised, aborted, methodMap, running>>
        /\ submitting' = [submitting EXCEPT ![t] = NoJob]
    BY <1>0, <1>2 DEF SubmitJob, Deletion, TypeOK
  <2>2. <<"job", submitting[t]>> \in Items /\ <<"job", submitting[t]>> \notin ToSet(pool)
    BY <1>2, <2>1 DEF SubmitJob, Items, PInv, Hands, InQueue
  <2>3. ToSet(pool') = ToSet(pool) \cup {<<"job", submitting[t]>>}
    BY <1>0, <1>2, <2>2, Appending DEF SubmitJob, Submit
  <2>4. \A j \in Jobs : InQueue(j)' => InQueue(j) \/ j \in surprised
    BY <2>1, <2>3 DEF InQueue
  <2>5. \A u \in Threads : submitting'[u] \in {submitting[u], NoJob}
    BY <1>0, <2>1 DEF TypeOK
  <2> QED
    BY <2>1, <2>4, <2>5, Deleting DEF Runs
<1>3. ASSUME NEW w \in Workers, NEW i \in 1..made, TakeJob(w, i) PROVE Deletion'
  <2>1. i \in Jobs /\ <<"job", i>> \in ToSet(pool)
    <3>1. 1 \in DOMAIN pool /\ Head(pool) = pool[1]
      BY <1>0, <1>3, EmptySeq, LenProperties DEF TypeOK, TakeJob
    <3> QED
      BY <1>0, <1>3, <3>1, AsyncAssumption DEF TakeJob, ToSet, TypeOK, Jobs
  <2>2. ToSet(pool') \subseteq ToSet(pool)
    BY <1>0, <1>3, Taking DEF TakeJob
  <2>3. \A j \in Jobs : InQueue(j)' => InQueue(j)
    BY <2>2 DEF InQueue
  <2>4. \A j \in Jobs : Runs(j)' => Runs(j) \/ InQueue(j)
    BY <1>0, <1>3, <2>1 DEF TakeJob, Runs, InQueue, TypeOK
  <2>5. life # "alive" /\ UNCHANGED <<key, life, surprised, aborted, methodMap, submitting>>
    BY <1>3 DEF TakeJob
  <2> QED
    BY <2>3, <2>4, <2>5, Deleting
<1>4. ASSUME NEW w \in Workers, NEW i \in 1..made, TakeResponse(w, i) PROVE Deletion'
  <2>1. ToSet(pool') \subseteq ToSet(pool)
    BY <1>0, <1>4, Taking DEF TakeResponse
  <2> QED
    BY <1>4, <1>a, <2>1 DEF TakeResponse, Runs
<1>5. ASSUME NEW w \in Workers, Result(w) PROVE Deletion'
  BY <1>5, <1>a DEF Result, Runs
<1>6. ASSUME NEW w \in Workers, Error(w) PROVE Deletion'
  BY <1>6, <1>a, <1>b DEF Error, Leave
<1>7. ASSUME NEW w \in Workers, Callback(w) PROVE Deletion'
  BY <1>7, <1>a DEF Callback, Runs
<1>8. \A w \in Workers : ~IsActive(w) /\ ~Finish(w)
  BY DEF IsActive, Finish
<1>9. ASSUME NEW i \in Jobs, Answer(i) PROVE Deletion'
  <2>1. <<"response", i>> \in Items /\ <<"response", i>> \notin ToSet(pool)
    BY <1>9 DEF Answer, Items, PInv, Queue, Response
  <2>2. ToSet(pool') = ToSet(pool) \cup {<<"response", i>>}
    BY <1>0, <1>9, <2>1, Appending DEF Answer, Submit
  <2>3. \A j \in Jobs : InQueue(j)' => InQueue(j)
    BY <2>2 DEF InQueue
  <2> QED
    BY <1>9, <2>3, Deleting DEF Answer, Runs
<1>10. CASE Dispose
  <2>1. /\ life = "alive" /\ life' = "clearing" /\ UNCHANGED <<key, methodMap, submitting, pool, phase, aborted>>
        /\ surprised' = {j \in Jobs : (\E t \in Threads : submitting[t] = j) \/ Runs(j)}
    BY <1>10 DEF Dispose
  <2>2. \A t \in Threads : submitting'[t] \in surprised' \cup {NoJob}
    BY <1>0, <2>1 DEF TypeOK
  <2>3. ASSUME NEW j \in Jobs, InQueue(j)' PROVE Known(j)' \/ methodMap'[key'[j]] = j
    <3>1. InQueue(j) /\ key[j] # NoKey /\ phase[j] = "new"
      BY <2>1, <2>3 DEF PInv, Queue, InQueue
    <3> QED
      BY <2>1, <3>1 DEF Own, Known, UsedAgain
  <2> QED
    BY <2>1, <2>2, <2>3 DEF Deletion
<1>11. ASSUME NEW k \in Keys, Clear(k) PROVE Deletion'
  <2>1. /\ life = "clearing" /\ life' = life /\ methodMap[k] \in Jobs
        /\ UNCHANGED <<key, submitting, surprised, running, aborted>>
    BY <1>0, <1>11 DEF Clear, TypeOK
  <2>2. /\ ToSet(pool') = ToSet(pool) \ {<<"job", methodMap[k]>>}
        /\ \A l \in Keys : l # k => methodMap'[l] = methodMap[l]
    BY <1>0, <1>11, <2>1, ErasedAlone, Erasing, AsyncAssumption DEF Clear, Jobs, NoJob
  <2>3. \A j \in Jobs : Known(j) => Known(j)'
    BY <2>1 DEF Known, UsedAgain
  <2>4. ASSUME NEW j \in Jobs, InQueue(j)' PROVE Known(j)' \/ methodMap'[key'[j]] = j
    <3>1. InQueue(j) /\ j # methodMap[k]
      BY <2>2, <2>4 DEF InQueue
    <3>2. key[j] \in Keys
      BY <1>0, <3>1 DEF Queue, TypeOK
    <3>3. Known(j) \/ methodMap[key[j]] = j
      BY <2>1, <3>1 DEF Deletion
    <3> QED
      BY <2>1, <2>2, <2>3, <3>1, <3>2, <3>3
  <2>5. \A t \in Threads : submitting'[t] \in surprised' \cup {NoJob}
    BY <2>1 DEF Deletion
  <2> QED
    BY <2>1, <2>4, <2>5 DEF Deletion
<1>12. CASE Delete
  <2>1. /\ life = "clearing" /\ life' = "gone" /\ \A k \in Keys : methodMap[k] = NoJob
        /\ surprised' = surprised \cup {j \in Jobs : Runs(j)}
        /\ UNCHANGED <<key, methodMap, submitting, pool, running, aborted>>
    BY <1>12 DEF Delete
  <2>2. \A j \in Jobs : Known(j) => Known(j)'
    BY <2>1 DEF Known, UsedAgain
  <2>3. \A j \in Jobs : Runs(j)' => Known(j)'
    BY <2>1 DEF Known, Runs
  <2>4. ASSUME NEW j \in Jobs, InQueue(j)' PROVE Known(j)'
    <3>1. InQueue(j) /\ key[j] \in Keys
      BY <1>0, <2>1, <2>4 DEF Queue, TypeOK, InQueue
    <3>2. methodMap[key[j]] # j
      BY <2>1, <3>1, AsyncAssumption DEF Jobs, NoJob
    <3> QED
      BY <2>1, <2>2, <3>1, <3>2 DEF Deletion
  <2>5. \A t \in Threads : submitting'[t] \in surprised' \cup {NoJob}
    BY <2>1 DEF Deletion
  <2> QED
    BY <2>1, <2>3, <2>4, <2>5 DEF Deletion
<1>13. CASE Still
  BY <1>13, <1>a DEF Still, Runs
<1> QED
  BY <1>1, <1>2, <1>3, <1>4, <1>5, <1>6, <1>7, <1>8, <1>9, <1>10, <1>11, <1>12,
     <1>13, Standing
  DEF Next, Work, AbortWaits, FinishWaits, ClearWaits

(* What happens to other jobs loses none.  A job is lost if it is revoked, *)
(* or over without the callback its result asks for.                       *)
Lost(j) == Revoked(j) \/ (phase[j] = "over" /\ request[j] = "result" /\ j \notin called)

LEMMA NotLost ==
  ASSUME ResultsAreReported, life = "alive", UNCHANGED key, aborted \subseteq aborted',
         \A j \in Jobs : Lost(j)' => Lost(j) \/ j \in aborted' \/ UsedAgain(j)
  PROVE  ResultsAreReported'
  BY DEF ResultsAreReported, Lost, UsedAgain

(* The job of an entry that is removed. *)
LEMMA RemovedJob ==
  ASSUME PInv, NEW x, NEW k \in Keys, RemoveEntry(x, k), NEW j \in Jobs, Queued(j), ~Queued(j)'
  PROVE  key[j] = k /\ phase[j] = "new" /\ j \notin called
<1>1. Queued(j) <=> InQueue(j)
  BY DEF Queued, InQueue, ToSet
<1>2. Queued(j)' <=> InQueue(j)'
  BY DEF Queued, InQueue, ToSet
<1>3. methodMap[k] = j
  <2>1. ToSet(pool') = ToSet(pool) \ {<<"job", methodMap[k]>>} \/ pool' = pool
    BY ErasedAlone DEF PInv, FInv, IInv
  <2> QED
    BY <1>1, <1>2, <2>1 DEF InQueue
<1>4. key[j] = k
  BY <1>3, AsyncAssumption DEF PInv, FInv, Entries, Jobs, NoJob
<1> QED
  BY <1>1, <1>4 DEF PInv, Queue, Course

LEMMA ReportedInductive ==
  PInv /\ PInv' /\ Own /\ ResultsAreReported /\ [Next]_vars => ResultsAreReported'
<1> SUFFICES ASSUME PInv, PInv', Own, ResultsAreReported, [Next]_vars, life' = "alive"
             PROVE  ResultsAreReported'
  BY DEF ResultsAreReported
<1> USE DEF async, calls
<1>0. TypeOK /\ TypeOK' /\ Entries /\ pool \in Seq(Items) /\ IsInjective(pool)
      /\ Queue /\ Course /\ IInv
  BY DEF PInv, FInv, IInv, TypeOK, Queue
<1>q. \A j \in Jobs : (Queued(j) <=> InQueue(j)) /\ (Queued(j)' <=> InQueue(j)')
  BY DEF Queued, InQueue, ToSet
<1>a. ASSUME life = "alive", UNCHANGED <<key, submitting, aborted>>,
             \A j \in Jobs : phase'[j] = "new" => phase[j] = "new",
             \A j \in Jobs : Queued(j) /\ phase'[j] = "new" => Queued(j)',
             \A j \in Jobs : phase'[j] = "over" /\ request'[j] = "result" /\ j \notin called'
                => (phase[j] = "over" /\ request[j] = "result" /\ j \notin called) \/ UsedAgain(j)
                   \/ j \in aborted
      PROVE  ResultsAreReported'
  <2>1. \A j \in Jobs : Revoked(j)' => Revoked(j)
    BY <1>a DEF Revoked, Submitted
  <2> QED
    BY <1>a, <2>1, NotLost DEF Lost
<1>1. ASSUME NEW t \in Threads, NEW k \in Keys, Invoke(t, k) PROVE ResultsAreReported'
  <2>1. /\ made + 1 \in Jobs /\ key' = [key EXCEPT ![made + 1] = k]
        /\ submitting[t] = NoJob /\ submitting' = [submitting EXCEPT ![t] = made + 1]
        /\ life = "alive" /\ UNCHANGED <<pool, phase, request, called, aborted>>
    BY <1>0, <1>1, AsyncAssumption DEF Invoke, TypeOK, Jobs
  <2> SUFFICES ASSUME NEW j \in Jobs, Lost(j)' PROVE j \in aborted' \/ UsedAgain(j)'
    BY DEF ResultsAreReported, Lost
  <2>2. key[j] # NoKey
    <3>1. CASE Revoked(j)'
      <4>1. key'[j] # NoKey /\ submitting'[t] # j
        BY <3>1 DEF Revoked, Submitted
      <4>2. j # made + 1
        BY <1>0, <2>1, <4>1 DEF TypeOK
      <4> QED
        BY <1>0, <2>1, <4>1, <4>2 DEF TypeOK
    <3>2. CASE ~Revoked(j)'
      BY <2>1, <3>2 DEF Lost, PInv, FInv, Fresh
    <3> QED
      BY <3>1, <3>2
  <2>3. /\ UsedAgain(j) => UsedAgain(j)'
        /\ key'[j] = key[j] /\ j # made + 1
    BY <1>0, <1>1, <2>2, Again
  <2>4. Lost(j)
    <3>1. \A u \in Threads : submitting'[u] # j => submitting[u] # j
      BY <1>0, <2>1, AsyncAssumption DEF TypeOK, Jobs, NoJob
    <3> QED
      BY <2>1, <2>2, <3>1 DEF Lost, Revoked, Submitted, Queued
  <2> QED
    BY <2>1, <2>3, <2>4 DEF ResultsAreReported, Lost
<1>2. ASSUME NEW t \in Threads, SubmitJob(t) PROVE ResultsAreReported'
  <2>1. /\ submitting[t] \in Jobs /\ submitting' = [submitting EXCEPT ![t] = NoJob]
        /\ life = "alive" /\ UNCHANGED <<key, phase, request, called, aborted>>
    BY <1>0, <1>2 DEF SubmitJob, TypeOK
  <2>2. <<"job", submitting[t]>> \in Items /\ <<"job", submitting[t]>> \notin ToSet(pool)
    BY <1>2, <2>1 DEF SubmitJob, Items, PInv, Hands, InQueue
  <2>3. ToSet(pool') = ToSet(pool) \cup {<<"job", submitting[t]>>}
    BY <1>0, <1>2, <2>2, Appending DEF SubmitJob, Submit
  <2>4. \A j \in Jobs : InQueue(j)' <=> InQueue(j) \/ j = submitting[t]
    BY <2>3 DEF InQueue
  <2>5. \A u \in Threads : u # t => submitting'[u] = submitting[u]
    BY <1>0, <2>1 DEF TypeOK
  <2>6. \A j \in Jobs : Revoked(j)' => Revoked(j)
    BY <1>q, <2>1, <2>4, <2>5 DEF Revoked, Submitted
  <2> QED
    BY <2>1, <2>6, NotLost DEF Lost
<1>3. ASSUME NEW t \in Threads, NEW k \in Keys, Abort(t, k) PROVE ResultsAreReported'
  <2>1. /\ life = "alive" /\ UNCHANGED <<key, submitting, phase, request, called>>
        /\ RemoveEntry(t, k) /\ aborted' = aborted \cup Pending(k)
    BY <1>3 DEF Abort
  <2>2. ASSUME NEW j \in Jobs, Lost(j)' PROVE Lost(j) \/ j \in aborted'
    <3>1. CASE Queued(j) /\ ~Queued(j)'
      <4>1. key[j] = k /\ phase[j] = "new" /\ j \notin called
        BY <2>1, <3>1, RemovedJob
      <4> QED
        BY <2>1, <4>1 DEF Pending
    <3>2. CASE ~(Queued(j) /\ ~Queued(j)')
      BY <2>1, <2>2, <3>2 DEF Lost, Revoked, Submitted
    <3> QED
      BY <3>1, <3>2
  <2> QED
    BY <2>1, <2>2, NotLost
<1>4. ASSUME NEW w \in Workers, NEW i \in 1..made, TakeJob(w, i) PROVE ResultsAreReported'
  <2>1. /\ i \in Jobs /\ phase' = [phase EXCEPT ![i] = "request"]
        /\ ToSet(pool') = ToSet(pool) \ {<<"job", i>>}
    <3>1. pool # <<>> /\ Head(pool) = <<"job", i>> /\ pool' = Tail(pool)
      BY <1>4 DEF TakeJob
    <3>2. ToSet(pool') = ToSet(pool) \ {<<"job", i>>}
      BY <1>0, <3>1, Taking
    <3> QED
      BY <1>0, <1>4, <3>2, AsyncAssumption DEF TakeJob, Goto, TypeOK, Jobs
  <2>2. /\ phase'[i] = "request"
        /\ \A j \in Jobs : j # i => phase'[j] = phase[j] /\ request'[j] = request[j]
    BY <1>0, <1>4, <2>1 DEF TakeJob, TypeOK
  <2>3. \A j \in Jobs : InQueue(j) /\ j # i => InQueue(j)'
    BY <2>1 DEF InQueue
  <2>4. phase[i] = "new"
    <3>1. 1 \in DOMAIN pool /\ Head(pool) = pool[1]
      BY <1>0, <1>4, EmptySeq, LenProperties DEF TakeJob
    <3>2. InQueue(i)
      BY <1>4, <3>1 DEF TakeJob, InQueue, ToSet
    <3> QED
      BY <1>0, <2>1, <3>2 DEF Queue
  <2>5. life = "alive" /\ UNCHANGED <<key, submitting, called, aborted>>
    BY <1>4 DEF TakeJob
  <2> QED
    BY <1>a, <1>q, <2>2, <2>3, <2>4, <2>5
<1>5. ASSUME NEW w \in Workers, NEW i \in 1..made, TakeResponse(w, i) PROVE ResultsAreReported'
  <2>1. ToSet(pool') = ToSet(pool) \ {<<"response", i>>}
    BY <1>0, <1>5, Taking DEF TakeResponse
  <2>2. \A j \in Jobs : InQueue(j) => InQueue(j)'
    BY <2>1 DEF InQueue
  <2>3. \A j \in Jobs : request'[j] = "result" => request[j] = "result"
    BY <1>0, <1>5 DEF TakeResponse, TypeOK
  <2>4. life = "alive" /\ UNCHANGED <<key, submitting, phase, called, aborted>>
    BY <1>5 DEF TakeResponse
  <2> QED
    BY <1>a, <1>q, <2>2, <2>3, <2>4
<1>6. ASSUME NEW w \in Workers, Result(w) PROVE ResultsAreReported'
  BY <1>0, <1>6, <1>a DEF Result, Goto, TypeOK, Queued
<1>7. ASSUME NEW w \in Workers, Error(w) PROVE ResultsAreReported'
  BY <1>0, <1>7, <1>a DEF Error, Goto, TypeOK, Queued
<1>8. ASSUME NEW w \in Workers, IsActive(w) PROVE ResultsAreReported'
  <2>1. /\ running[w] \in Jobs /\ key[running[w]] \in Keys
    BY <1>8, Running DEF IsActive, PInv
  <2>2. /\ life = "alive" /\ phase[running[w]] = "check"
        /\ UNCHANGED <<key, submitting, pool, request, called, aborted>>
        /\ \/ phase' = [phase EXCEPT ![running[w]] = "callback"]
           \/ methodMap[key[running[w]]] = NoJob /\ phase' = [phase EXCEPT ![running[w]] = "over"]
    BY <1>8 DEF IsActive, Goto
  <2>3. phase' = [phase EXCEPT ![running[w]] = "over"]
           => UsedAgain(running[w]) \/ running[w] \in aborted
    <3>1. SUFFICES ASSUME phase' = [phase EXCEPT ![running[w]] = "over"],
                          ~UsedAgain(running[w]), running[w] \notin aborted
                   PROVE  FALSE
      OBVIOUS
    <3>2. phase'[running[w]] = "over"
      BY <1>0, <2>1, <3>1 DEF TypeOK
    <3>3. methodMap[key[running[w]]] = NoJob
      BY <1>0, <2>1, <2>2, <3>2 DEF TypeOK
    <3>4. key[running[w]] # NoKey
      BY <2>1, AsyncAssumption
    <3>5. methodMap[key[running[w]]] = running[w]
      BY <2>1, <2>2, <3>1, <3>4 DEF Own
    <3> QED
      BY <2>1, <3>3, <3>5, AsyncAssumption DEF Jobs, NoJob
  <2>4. \A j \in Jobs : j # running[w] => phase'[j] = phase[j]
    BY <1>0, <2>1, <2>2 DEF TypeOK
  <2>5. phase'[running[w]] # "new"
        /\ (phase'[running[w]] = "over" => UsedAgain(running[w]) \/ running[w] \in aborted)
    BY <1>0, <2>1, <2>2, <2>3 DEF TypeOK
  <2> QED
    BY <1>a, <2>2, <2>4, <2>5 DEF Queued
<1>9. ASSUME NEW w \in Workers, Callback(w) PROVE ResultsAreReported'
  BY <1>0, <1>9, <1>a DEF Callback, Goto, TypeOK, Queued
<1>10. ASSUME NEW w \in Workers, Finish(w) PROVE ResultsAreReported'
  <2>1. running[w] \in Jobs /\ key[running[w]] \in Keys
    BY <1>10, Running DEF Finish, PInv
  <2>2. /\ life = "alive" /\ phase[running[w]] = "remove" /\ RemoveEntry(w, key[running[w]])
        /\ phase' = [phase EXCEPT ![running[w]] = "over"]
        /\ UNCHANGED <<key, submitting, request, called, aborted>>
    BY <1>10 DEF Finish, Goto
  <2>3. running[w] \in called
    BY <1>0, <2>1, <2>2 DEF Course
  <2>4. ASSUME NEW j \in Jobs, Lost(j)' PROVE Lost(j) \/ UsedAgain(j)
    <3>1. j # running[w] /\ phase'[j] = phase[j]
      BY <1>0, <2>1, <2>2, <2>3, <2>4 DEF Lost, Revoked, TypeOK
    <3>2. CASE Queued(j) /\ ~Queued(j)'
      <4>1. key[j] = key[running[w]]
        BY <2>1, <2>2, <3>2, RemovedJob
      <4> QED
        BY <2>1, <3>1, <4>1 DEF UsedAgain
    <3>3. CASE ~(Queued(j) /\ ~Queued(j)')
      BY <2>2, <2>4, <3>1, <3>3 DEF Lost, Revoked, Submitted
    <3> QED
      BY <3>2, <3>3
  <2> QED
    BY <2>2, <2>4, NotLost
<1>11. ASSUME NEW i \in Jobs, Answer(i) PROVE ResultsAreReported'
  <2>1. <<"response", i>> \in Items /\ <<"response", i>> \notin ToSet(pool)
    BY <1>11 DEF Answer, Items, PInv, Queue, Response
  <2>2. ToSet(pool') = ToSet(pool) \cup {<<"response", i>>}
    BY <1>0, <1>11, <2>1, Appending DEF Answer, Submit
  <2>3. \A j \in Jobs : InQueue(j) => InQueue(j)'
    BY <2>2 DEF InQueue
  <2>4. \A j \in Jobs : request'[j] = "result" => request[j] = "result"
    BY <1>0, <1>11 DEF Answer, TypeOK
  <2>5. life = "alive" /\ UNCHANGED <<key, submitting, phase, called, aborted>>
    BY <1>11 DEF Answer
  <2> QED
    BY <1>a, <1>q, <2>3, <2>4, <2>5
<1>12. ~Dispose /\ ~Delete /\ \A k \in Keys : ~Clear(k)
  BY DEF Dispose, Delete, Clear
<1>13. CASE Still
  BY <1>13, <1>a DEF Still, Queued
<1> QED
  BY <1>1, <1>2, <1>3, <1>4, <1>5, <1>6, <1>7, <1>8, <1>9, <1>10, <1>11, <1>12,
     <1>13, Standing
  DEF Next, Work, AbortWaits, FinishWaits, ClearWaits

LEMMA AlwaysInductive == RInv /\ [Next]_vars => RInv'
  BY PlacesInductive, OwnInductive, ReportedInductive, DeletionInductive DEF RInv

(* A job is taken off the pool, or ends with a result and no callback,     *)
(* only if its own pair was aborted or used for another job (Async.h:135   *)
(* and Async.h:154 go by the pair), or the object is being deleted.        *)
THEOREM NothingIsLost == SafeSpec => []ResultsAreReported
<1>1. RInv => ResultsAreReported
  BY DEF RInv
<1> QED
  BY <1>1, AlwaysAtFirst, AlwaysInductive, PTL DEF SafeSpec

(* When ~Async has returned (Async.cpp:57), a job still queued or under    *)
(* way was under way or being submitted during the deletion, was aborted   *)
(* too early, or shares its pair.                                          *)
THEOREM NoneIsLeft == SafeSpec => []NothingOutlivesAsync
<1>1. RInv => NothingOutlivesAsync
  <2> SUFFICES ASSUME RInv, life = "gone", NEW j \in Jobs,
                      Queued(j) \/ phase[j] \notin {"new", "over"}
               PROVE  Known(j)
    BY DEF NothingOutlivesAsync, Known
  <2>1. CASE Queued(j)
    <3>1. InQueue(j)
      BY <2>1 DEF Queued, InQueue, ToSet
    <3> QED
      BY <3>1 DEF RInv, Deletion
  <2>2. CASE phase[j] \notin {"new", "over"}
    BY <2>2 DEF RInv, PInv, Working, Deletion
  <2> QED
    BY <2>1, <2>2
<1> QED
  BY <1>1, AlwaysAtFirst, AlwaysInductive, PTL DEF SafeSpec
-----------------------------------------------------------------------------
(* Who waits in Revoke does not run the job it waits for; a worker that    *)
(* waits has a job of the same pair to finish.                             *)
Waits ==
    /\ holder = Nobody => awaited = NoJob
    /\ holder # Nobody => waits /\ awaited \in Jobs
    /\ holder \in Workers =>
          /\ running[holder] \in Jobs \ {awaited}
          /\ phase[running[holder]] = "remove"
          /\ key[awaited] \in Keys
          /\ key[running[holder]] = key[awaited]

WInv == PInv /\ Waits

LEMMA NobodyWaits == Init => WInv
  BY PlacesAtFirst, AsyncAssumption DEF Init, WInv, Waits

(* A step that leaves alone who waits, and every job that has called back. *)
LEMMA Holding ==
  ASSUME WInv, UNCHANGED <<key, holder, awaited, waits>>,
         \A w \in Workers : running[w] # NoJob /\ phase[running[w]] = "remove" =>
             running'[w] = running[w] /\ phase'[running[w]] = "remove"
  PROVE  Waits'
  BY AsyncAssumption DEF WInv, Waits, Jobs, NoJob

LEMMA Letting ==
  ASSUME NEW x, NEW k, RemoveEntry(x, k) PROVE Waits'
  BY AsyncAssumption DEF RemoveEntry, Unlock, Waits

LEMMA WaitsInductive == WInv /\ [Next]_vars => WInv'
<1> SUFFICES ASSUME WInv, [Next]_vars PROVE Waits'
  BY PlacesInductive DEF WInv
<1> USE DEF async, calls, lock
<1>0. TypeOK /\ Queue /\ Working /\ Entries /\ PInv
  BY DEF WInv, PInv, FInv, IInv
<1>1. ASSUME NEW t \in Threads, NEW k \in Keys, Invoke(t, k) PROVE Waits'
  BY <1>1, AsyncAssumption DEF Invoke, Unlocked, WInv, Waits
<1>2. ASSUME NEW t \in Threads, SubmitJob(t) PROVE Waits'
  BY <1>2, Holding DEF SubmitJob
<1>3. ASSUME NEW t \in Threads, NEW k \in Keys, Abort(t, k) \/ AbortWaits(t, k) PROVE Waits'
  <2>1. CASE Abort(t, k)
    BY <2>1, Letting DEF Abort
  <2>2. CASE AbortWaits(t, k)
    BY <1>0, <2>2, AsyncAssumption DEF AbortWaits, WaitFor, Waits, TypeOK
  <2> QED
    BY <1>3, <2>1, <2>2
<1>4. ASSUME NEW w \in Workers, NEW j \in 1..made, TakeJob(w, j) PROVE Waits'
  <2>1. j \in Jobs /\ 1 \in DOMAIN pool /\ Head(pool) = pool[1]
    BY <1>0, <1>4, EmptySeq, LenProperties, AsyncAssumption DEF TypeOK, TakeJob, Jobs
  <2>2. phase[j] = "new"
    BY <1>0, <1>4, <2>1 DEF TakeJob, Queue, InQueue, ToSet
  <2> QED
    BY <1>0, <1>4, <2>1, <2>2, Holding DEF TakeJob, Goto, TypeOK
<1>5. ASSUME NEW w \in Workers, NEW j \in 1..made, TakeResponse(w, j) PROVE Waits'
  BY <1>5, Holding DEF TakeResponse
<1>6. ASSUME NEW w \in Workers, Result(w) PROVE Waits'
  BY <1>0, <1>6, Holding DEF Result, Goto, TypeOK
<1>7. ASSUME NEW w \in Workers, Error(w) PROVE Waits'
  BY <1>0, <1>7, Holding DEF Error, Leave, Goto, TypeOK
<1>8. ASSUME NEW w \in Workers, IsActive(w) PROVE Waits'
  BY <1>0, <1>8, Holding DEF IsActive, Leave, Goto, TypeOK
<1>9. ASSUME NEW w \in Workers, Callback(w) PROVE Waits'
  BY <1>0, <1>9, Holding DEF Callback, Goto, TypeOK
<1>10. ASSUME NEW w \in Workers, Finish(w) \/ FinishWaits(w) PROVE Waits'
  <2>1. CASE Finish(w)
    BY <2>1, Letting DEF Finish
  <2>2. CASE FinishWaits(w)
    <3> DEFINE j == methodMap[key[running[w]]]
    <3>1. /\ running[w] \in Jobs /\ key[running[w]] \in Keys
          /\ phase[running[w]] = "remove"
      BY <1>0, <2>2, Running DEF FinishWaits, PInv
    <3>2. /\ waits /\ j \in Jobs /\ RunsElsewhere(w, j)
          /\ holder' = w /\ awaited' = j /\ UNCHANGED <<waits, key, running, phase>>
      BY <1>0, <2>2, <3>1 DEF FinishWaits, WaitFor, TypeOK
    <3>3. key[j] = key[running[w]]
      BY <1>0, <3>1, <3>2, AsyncAssumption DEF Entries, Jobs, NoJob
    <3>4. running[w] # j
      BY <1>0, <3>1, <3>2, AsyncAssumption DEF RunsElsewhere, Working, Jobs, NoJob
    <3> HIDE DEF j
    <3> QED
      BY <3>1, <3>2, <3>3, <3>4, AsyncAssumption DEF Waits
  <2> QED
    BY <1>10, <2>1, <2>2
<1>11. ASSUME NEW j \in Jobs, Answer(j) PROVE Waits'
  BY <1>11, Holding DEF Answer
<1>12. CASE Dispose \/ Delete
  BY <1>12, Holding DEF Dispose, Delete
<1>13. ASSUME NEW k \in Keys, Clear(k) \/ ClearWaits(k) PROVE Waits'
  <2>1. CASE Clear(k)
    BY <2>1, Letting DEF Clear
  <2>2. CASE ClearWaits(k)
    BY <1>0, <2>2, AsyncAssumption DEF ClearWaits, WaitFor, Waits, TypeOK
  <2> QED
    BY <1>13, <2>1, <2>2
<1>14. CASE UNCHANGED vars
  BY <1>14, Holding DEF vars
<1> QED
  BY <1>1, <1>2, <1>3, <1>4, <1>5, <1>6, <1>7, <1>8, <1>9, <1>10, <1>11, <1>12,
     <1>13, <1>14 DEF Next, Work

(* A job on its way to its end waits in Revoke only for a job of its own   *)
(* pair that was invoked while it was under way (Async.h:101, :143).       *)
THEOREM WaitsNeedOverlap == SafeSpec => []OnlyOverlapWaits
<1>1. WInv => OnlyOverlapWaits
  BY AsyncAssumption DEF WInv, Waits, OnlyOverlapWaits, UsedAgain
<1> QED
  BY <1>1, NobodyWaits, WaitsInductive, PTL DEF SafeSpec

(* Who waits keeps waiting, as somebody else runs the job it waits for.    *)
LEMMA KeepsWaiting == WInv /\ Stuck => waits /\ RunsElsewhere(holder, awaited)
<1> SUFFICES ASSUME WInv, Stuck PROVE waits /\ RunsElsewhere(holder, awaited)
  OBVIOUS
<1>1. waits /\ awaited \in Jobs
  BY DEF WInv, Waits, Stuck
<1>2. PICK w \in Workers : running[w] = awaited
  BY <1>1 DEF WInv, PInv, Working, Runs, Stuck
<1>3. w # holder
  BY <1>2 DEF WInv, Waits
<1> QED
  BY <1>1, <1>2, <1>3 DEF RunsElsewhere

LEMMA NoWayOut ==
  WInv /\ Stuck /\ [Next]_vars => Stuck' /\ awaited' = awaited /\ holder' = holder
<1> SUFFICES ASSUME WInv, Stuck, [Next]_vars
             PROVE  Stuck' /\ awaited' = awaited /\ holder' = holder
  OBVIOUS
<1> USE DEF async, calls, lock
<1>0. TypeOK /\ Queue /\ Working /\ waits /\ awaited \in Jobs /\ RunsElsewhere(holder, awaited)
      /\ phase[awaited] \in {"check", "remove"} /\ holder # Nobody
  BY KeepsWaiting DEF WInv, PInv, FInv, IInv, Waits, Stuck
<1>a. ASSUME UNCHANGED <<awaited, holder>>, phase'[awaited] = phase[awaited]
      PROVE  Stuck' /\ awaited' = awaited /\ holder' = holder
  BY <1>a DEF Stuck
<1>b. \A x : \A k \in Keys : ~RemoveEntry(x, k) \/ x # holder
  BY <1>0, AsyncAssumption DEF RemoveEntry, Revoke, Unlocked, Jobs, NoJob
<1>c. \A x : \A k \in Keys : ~RemoveEntry(x, k)
  BY <1>0, <1>b DEF RemoveEntry, Unlocked
<1>1. \A t \in Threads : \A k \in Keys : ~Invoke(t, k) /\ ~Abort(t, k) /\ ~AbortWaits(t, k)
  BY <1>0, <1>c DEF Invoke, Abort, AbortWaits, WaitFor, Unlocked
<1>2. ~Dispose /\ \A k \in Keys : ~Clear(k) /\ ~ClearWaits(k)
  BY <1>0, <1>c DEF Dispose, Clear, ClearWaits, WaitFor, Unlocked
<1>3. \A w \in Workers : ~IsActive(w) /\ ~FinishWaits(w)
  BY <1>0 DEF IsActive, FinishWaits, WaitFor, Unlocked
<1>4. ASSUME NEW w \in Workers PROVE ~Finish(w)
  <2>1. Finish(w) => key[running[w]] \in Keys
    BY Running DEF Finish, WInv, PInv
  <2> QED
    BY <1>c, <2>1 DEF Finish
<1>5. ASSUME NEW w \in Workers, NEW j \in 1..made, TakeJob(w, j)
      PROVE  Stuck' /\ awaited' = awaited /\ holder' = holder
  <2>1. j \in Jobs /\ 1 \in DOMAIN pool /\ Head(pool) = pool[1]
    BY <1>0, <1>5, EmptySeq, LenProperties, AsyncAssumption DEF TypeOK, TakeJob, Jobs
  <2>2. phase[j] = "new"
    BY <1>0, <1>5, <2>1 DEF TakeJob, Queue, InQueue, ToSet
  <2> QED
    BY <1>0, <1>5, <1>a, <2>1, <2>2 DEF TakeJob, Goto, TypeOK
<1>6. ASSUME NEW w \in Workers, Result(w) \/ Error(w) \/ Callback(w)
      PROVE  Stuck' /\ awaited' = awaited /\ holder' = holder
  <2>1. phase[running[w]] \in {"request", "callback"} /\ UNCHANGED <<awaited, holder>>
    BY <1>6 DEF Result, Error, Callback
  <2>2. phase'[awaited] = phase[awaited]
    BY <1>0, <1>6, <2>1 DEF Result, Error, Callback, Goto, TypeOK
  <2> QED
    BY <1>a, <2>1, <2>2
<1>7. ASSUME \/ \E t \in Threads : SubmitJob(t)
             \/ \E w \in Workers : \E j \in 1..made : TakeResponse(w, j)
             \/ \E j \in Jobs : Answer(j)
             \/ Delete
             \/ UNCHANGED vars
      PROVE  Stuck' /\ awaited' = awaited /\ holder' = holder
  BY <1>7, <1>a DEF SubmitJob, TakeResponse, Answer, Delete, vars
<1> QED
  BY <1>1, <1>2, <1>3, <1>4, <1>5, <1>6, <1>7 DEF Next, Work

(* If the pool's Revoke waits, a thread that waits there with _adminLock   *)
(* for a job about to ask IsActive or RemoveEntry never comes back         *)
(* (Async.h:96, :101 and :143).                                            *)
THEOREM NeverUnstuck == SafeSpec => StuckForGood
<1>1. WInv /\ [Next]_vars => [Stuck => Stuck' /\ awaited' = awaited /\ holder' = holder]_vars
  BY NoWayOut
<1> QED
  BY <1>1, NobodyWaits, WaitsInductive, PTL DEF SafeSpec, StuckForGood
=============================================================================
