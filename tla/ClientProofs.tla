---------------------------- MODULE ClientProofs ----------------------------
(***************************************************************************)
(* Theorems about module Client, for any number of threads, workers,       *)
(* requests and answers.                                                   *)
(*                                                                         *)
(* The invariant is a conjunction of five parts.  Calls: which ids are in  *)
(* use and by whom.  Filled: what a Caller holds came from the server.     *)
(* Waiting: where a Caller is while its thread waits.  Queued: what can be *)
(* on the queue.  Single, which needs a server that answers an id once: a  *)
(* completed Caller that is still on the queue gets no second response.    *)
(***************************************************************************)
EXTENDS Client, TLAPS

Active(t) == step[t] # "idle"

Calls ==
    /\ \A t \in Threads : Active(t) <=> call[t] # NoId
    /\ \A t \in Threads : Active(t) => call[t] <= seq /\ outcome[call[t]] = NoOutcome
    /\ \A t, u \in Threads : Active(t) /\ call[t] = call[u] => t = u
    /\ \A t \in Threads : step[t] \in {"insert", "send"} => call[t] \notin sent
    /\ \A i \in sent : i <= seq /\ outcome[i] # SendFailed
    /\ \A i \in Ids : i > seq => i \notin queue \cup outdated /\ ~ready[i] /\ outcome[i] = NoOutcome

(* The answers a Caller may have been given. *)
Given(i, b) == \E m \in answers : m.id = i /\ m.body = b

Filled ==
    /\ \A i \in Ids : ready[i] => Given(i, Reply(i)) \/ error[i] = Timedout
    /\ \A i \in Ids : error[i] # NoError => ready[i]
    /\ \A i \in Ids : error[i] \in Errors => Given(i, error[i])
    /\ \A i \in Ids : outcome[i] \notin {NoOutcome, Timedout, SendFailed} => Given(i, outcome[i])
    /\ \A m \in answers : m.id \in sent

Waiting ==
    /\ \A t \in Threads : step[t] = "insert" => ~ready[call[t]] /\ call[t] \notin queue \cup outdated
    /\ \A t \in Threads : step[t] \in {"send", "lock", "sleep"} =>
          ready[call[t]] \/ call[t] \in queue \cup outdated
    /\ \A t \in Threads : step[t] = "sleep" => ~ready[call[t]]
    /\ \A t \in Threads : step[t] \in {"erase", "read"} => ready[call[t]]
    /\ \A t \in Threads : step[t] = "read" => call[t] \notin queue
    /\ dog # "expire" => outdated = {}

Queued ==
    /\ NoStaleEntry
    /\ \A w \in Workers : job[w] # NoMessage => job[w] \in answers /\ job[w].id \in queue
    /\ outdated \cap queue = {}

IInv == TypeOK /\ Calls /\ Filled /\ Waiting /\ Queued

Single ==
    /\ \A a, b \in answers : a.id = b.id => a = b
    /\ \A w \in Workers : job[w] # NoMessage => job[w] \notin net
    /\ \A v, w \in Workers : job[v] # NoMessage /\ job[w] # NoMessage => v = w
    /\ \A i \in queue : ready[i] =>
          /\ \E m \in answers : m.id = i
          /\ \A m \in net : m.id # i
          /\ \A w \in Workers : job[w].id # i

-----------------------------------------------------------------------------
(* The invariant is inductive. *)

(* The invariant holds when the client has been constructed. *)
LEMMA Initially == Init => IInv
<1> SUFFICES ASSUME Init PROVE IInv
  OBVIOUS
<1>1. TypeOK
  BY ClientAssumption DEF Init, TypeOK, Codes, Outcomes, Steps
<1>2. Calls /\ Waiting
  BY DEF Init, Calls, Waiting, Active
<1>3. Filled
  BY ClientAssumption DEF Init, Filled, Bodies
<1>4. Queued
  BY DEF Init, Queued, NoStaleEntry
<1> QED
  BY <1>1, <1>2, <1>3, <1>4 DEF IInv

(* Every step of a requesting thread, a worker, the watchdog, the clock    *)
(* and the server preserves it.                                            *)
LEMMA Inductive == IInv /\ [Next]_vars => IInv'
<1> SUFFICES ASSUME TypeOK, Calls, Filled, Waiting, Queued, [Next]_vars PROVE IInv'
  BY DEF IInv
<1> USE DEF callers, threads, server, watch
<1>a. \A t \in Threads : Active(t) => call[t] \in Ids
  BY DEF TypeOK, Calls
<1>b. \A m \in answers : m.id \in Ids /\ m.body \in Bodies
  BY DEF TypeOK, Messages
<1>c. \A w \in Workers : job[w] # NoMessage =>
        job[w] \in answers /\ job[w].id \in queue /\ job[w].id \in Ids /\ job[w].body \in Bodies
  BY <1>b DEF Queued
<1>d. \A t \in Threads : step[t] = "read" =>
        /\ Given(call[t], Reply(call[t])) \/ Reply(call[t]) = Timedout
        /\ Reply(call[t]) \in Bodies \cup {Timedout}
  <2> SUFFICES ASSUME NEW t \in Threads, step[t] = "read"
               PROVE  /\ Given(call[t], Reply(call[t])) \/ Reply(call[t]) = Timedout
                      /\ Reply(call[t]) \in Bodies \cup {Timedout}
    OBVIOUS
  <2>1. call[t] \in Ids /\ ready[call[t]]
    BY <1>a DEF Waiting, Active
  <2>2. Given(call[t], Reply(call[t])) \/ Reply(call[t]) = Timedout
    BY <2>1 DEF Filled, Reply, NoError, Timedout
  <2> QED
    BY <2>2, <1>b DEF Given
<1>1. ASSUME NEW t \in Threads, Start(t) PROVE IInv'
  <2>1. TypeOK'
    BY <1>1, ClientAssumption DEF Start, TypeOK, Ids, Steps
  <2>2. Calls'
    BY <1>1, ClientAssumption DEF Start, Calls, Active, TypeOK, NoId, Ids
  <2>3. Waiting'
    BY <1>1, ClientAssumption DEF Start, Waiting, Calls, TypeOK, Ids
  <2>4. Filled' /\ Queued'
    BY <1>1 DEF Start, Filled, Given, Reply, Queued, NoStaleEntry
  <2> QED BY <2>1, <2>2, <2>3, <2>4 DEF IInv
<1>2. ASSUME NEW t \in Threads, Insert(t) PROVE IInv'
  <2>1. TypeOK'
    BY <1>2, <1>a DEF Insert, TypeOK, Active, Steps
  <2>2. Calls'
    <3> QED BY <1>2 DEF Insert, TypeOK, Calls, Active, Ids
  <2>3. Waiting'
    BY <1>2 DEF Insert, Waiting, Calls, Active, TypeOK
  <2>4. Queued'
    BY <1>2 DEF Insert, Queued, NoStaleEntry, Waiting, Calls, Active
  <2>5. Filled'
    BY <1>2 DEF Insert, Filled, Given, Reply
  <2> QED BY <2>1, <2>2, <2>3, <2>4, <2>5 DEF IInv
<1>3. ASSUME NEW t \in Threads, SendOK(t) PROVE IInv'
  <2>1. TypeOK'
    BY <1>3, <1>a DEF SendOK, TypeOK, Active, Steps
  <2>2. Calls'
    BY <1>3, <1>a, ClientAssumption DEF SendOK, TypeOK, Calls, Active, NoOutcome,
       SendFailed, Ids, NoId
  <2>3. Filled'
    BY <1>3 DEF SendOK, Filled, Given, Reply
  <2>4. Waiting'
    BY <1>3 DEF SendOK, Waiting
  <2>5. Queued'
    BY <1>3 DEF SendOK, Queued, NoStaleEntry
  <2> QED BY <2>1, <2>2, <2>3, <2>4, <2>5 DEF IInv
<1>4. ASSUME NEW t \in Threads, SendError(t) PROVE IInv'
  <2>1. TypeOK'
    BY <1>4 DEF SendError, Return, TypeOK, Steps, Outcomes
  <2>2. Calls'
    BY <1>4 DEF SendError, Return, Calls, Active, TypeOK, Ids
  <2>3. Filled'
    BY <1>4 DEF SendError, Return, Filled, Given, Reply
  <2>4. Waiting'
    BY <1>4 DEF SendError, Return, Waiting, TypeOK
  <2>5. Queued'
    BY <1>4 DEF SendError, Return, Queued, NoStaleEntry
  <2> QED BY <2>1, <2>2, <2>3, <2>4, <2>5 DEF IInv
<1>5. ASSUME NEW t \in Threads, LockCaller(t) PROVE IInv'
  <2>1. TypeOK'
    BY <1>5 DEF LockCaller, TypeOK, Steps
  <2>2. Calls'
    BY <1>5 DEF LockCaller, Calls, Active
  <2>3. Waiting'
    BY <1>5 DEF LockCaller, Waiting
  <2>4. Filled' /\ Queued'
    BY <1>5 DEF LockCaller, Filled, Given, Reply, Queued, NoStaleEntry
  <2> QED BY <2>1, <2>2, <2>3, <2>4 DEF IInv
<1>6. ASSUME NEW t \in Threads, SpuriousWakeup(t) PROVE IInv'
  <2>1. TypeOK'
    BY <1>6 DEF SpuriousWakeup, TypeOK, Steps
  <2>2. Calls'
    BY <1>6 DEF SpuriousWakeup, Calls, Active
  <2>3. Waiting'
    BY <1>6 DEF SpuriousWakeup, Waiting
  <2>4. Filled' /\ Queued'
    BY <1>6 DEF SpuriousWakeup, Filled, Given, Reply, Queued, NoStaleEntry
  <2> QED BY <2>1, <2>2, <2>3, <2>4 DEF IInv
<1>7. ASSUME NEW t \in Threads, Erase(t) PROVE IInv'
  <2>1. TypeOK'
    BY <1>7 DEF Erase, TypeOK, Steps
  <2>2. Calls'
    BY <1>7 DEF Erase, Calls, Active
  <2>3. Waiting'
    BY <1>7 DEF Erase, Waiting
  <2>4. Queued'
    BY <1>7 DEF Erase, Queued, NoStaleEntry, QueueLocked
  <2>5. Filled'
    BY <1>7 DEF Erase, Filled, Given, Reply
  <2> QED BY <2>1, <2>2, <2>3, <2>4, <2>5 DEF IInv
<1>8. ASSUME NEW t \in Threads, Read(t) PROVE IInv'
  <2>1. TypeOK'
    <3>2. Reply(call[t]) \in Outcomes
      BY <1>8, <1>d DEF Read, Outcomes
    <3> QED BY <1>8, <3>2 DEF Read, Return, TypeOK, Steps
  <2>2. Calls'
    <3>2. Reply(call[t]) # SendFailed
      BY <1>8, <1>d, ClientAssumption DEF Read, Timedout, SendFailed
    <3> QED BY <1>8, <3>2 DEF Read, Return, TypeOK, Calls, Active, Ids
  <2>3. Filled'
    <3> QED BY <1>8, <1>d DEF Read, Return, Filled, Given, Reply
  <2>4. Waiting'
    BY <1>8 DEF Read, Return, Waiting, TypeOK
  <2>5. Queued'
    <3>1. call[t] \in Ids /\ call[t] \notin queue
      BY <1>8, <1>a DEF Read, Active, Waiting
    <3> QED BY <1>8, <3>1 DEF Read, Return, Queued, NoStaleEntry
  <2> QED BY <2>1, <2>2, <2>3, <2>4, <2>5 DEF IInv
<1>9. ASSUME NEW w \in Workers, NEW m \in net, FindCaller(w, m) PROVE IInv'
  <2>1. TypeOK'
    BY <1>9 DEF FindCaller, TypeOK
  <2>2. Queued'
    BY <1>9 DEF FindCaller, Queued, NoStaleEntry, TypeOK
  <2>3. Calls' /\ Filled' /\ Waiting'
    BY <1>9 DEF FindCaller, Calls, Active, Filled, Given, Reply, Waiting
  <2> QED BY <2>1, <2>2, <2>3 DEF IInv
<1>10. ASSUME NEW w \in Workers, NEW m \in net, NoReceiver(w, m) PROVE IInv'
  <2>1. TypeOK'
    BY <1>10 DEF NoReceiver, TypeOK
  <2>2. Calls' /\ Filled' /\ Waiting' /\ Queued'
    BY <1>10 DEF NoReceiver, Calls, Active, Filled, Given, Reply, Waiting, Queued,
       NoStaleEntry
  <2> QED BY <2>1, <2>2 DEF IInv
<1>11. ASSUME NEW w \in Workers, Deliver(w) PROVE IInv'
  <2>1. TypeOK'
    BY <1>11, <1>c DEF Deliver, Notify, TypeOK, Bodies, Codes, Steps
  <2>2. Calls'
    BY <1>11, <1>c DEF Deliver, Notify, Calls, Active
  <2>3. Filled'
    <3> QED BY <1>11, <1>c, ClientAssumption DEF Deliver, TypeOK, Filled, Given, Reply
  <2>4. Waiting'
    BY <1>11, <1>c DEF Deliver, Notify, Waiting
  <2>5. Queued'
    BY <1>11 DEF Deliver, Queued, NoStaleEntry
  <2> QED BY <2>1, <2>2, <2>3, <2>4, <2>5 DEF IInv
<1>12. CASE Sample
  <2>1. TypeOK'
    BY <1>12 DEF Sample, TypeOK
  <2>2. Waiting'
    BY <1>12 DEF Sample, Waiting
  <2>3. Calls' /\ Filled' /\ Queued'
    BY <1>12 DEF Sample, Calls, Active, Filled, Given, Reply, Queued, NoStaleEntry
  <2> QED BY <2>1, <2>2, <2>3 DEF IInv
<1>13. CASE Scan
  <2>1. TypeOK'
    BY <1>13 DEF Scan, TypeOK
  <2>2. Calls'
    BY <1>13 DEF Scan, Calls, Active
  <2>3. Waiting'
    BY <1>13 DEF Scan, Waiting
  <2>4. Queued'
    BY <1>13 DEF Scan, Queued, NoStaleEntry, QueueLocked
  <2>5. Filled'
    BY <1>13 DEF Scan, Filled, Given, Reply
  <2> QED BY <2>1, <2>2, <2>3, <2>4, <2>5 DEF IInv
<1>14. ASSUME NEW i \in outdated, Expire(i) PROVE IInv'
  <2>1. TypeOK'
    BY <1>14 DEF Expire, Notify, TypeOK, Codes, Steps
  <2>2. Calls'
    BY <1>14 DEF Expire, Notify, Calls, Active
  <2>3. Filled'
    BY <1>14, ClientAssumption DEF Expire, TypeOK, Filled, Given, Reply, Bodies
  <2>4. Waiting'
    BY <1>14 DEF Expire, Notify, Waiting, TypeOK
  <2>5. Queued'
    BY <1>14 DEF Expire, Queued, NoStaleEntry
  <2> QED BY <2>1, <2>2, <2>3, <2>4, <2>5 DEF IInv
<1>15. CASE SleepCycle
  <2>1. TypeOK'
    BY <1>15 DEF SleepCycle, TypeOK
  <2>2. Waiting'
    BY <1>15 DEF SleepCycle, Waiting
  <2>3. Calls' /\ Filled' /\ Queued'
    BY <1>15 DEF SleepCycle, Calls, Active, Filled, Given, Reply, Queued, NoStaleEntry
  <2> QED BY <2>1, <2>2, <2>3 DEF IInv
<1>16. CASE Destroy
  <2>1. TypeOK'
    BY <1>16 DEF Destroy, TypeOK
  <2>2. Calls' /\ Filled' /\ Waiting' /\ Queued'
    BY <1>16 DEF Destroy, Calls, Active, Filled, Given, Reply, Waiting, Queued,
       NoStaleEntry
  <2> QED BY <2>1, <2>2 DEF IInv
<1>17. CASE Tick
  <2>1. TypeOK'
    BY <1>17, ClientAssumption DEF Tick, TypeOK
  <2>2. Calls' /\ Filled' /\ Waiting' /\ Queued'
    BY <1>17 DEF Tick, Calls, Active, Filled, Given, Reply, Waiting, Queued,
       NoStaleEntry
  <2> QED BY <2>1, <2>2 DEF IInv
<1>18. ASSUME NEW m \in Messages, Answer(m) PROVE IInv'
  <2>1. TypeOK'
    BY <1>18 DEF Answer, TypeOK
  <2>2. Filled'
    BY <1>18 DEF Answer, Filled, Given, Reply
  <2>3. Queued'
    BY <1>18 DEF Answer, Queued, NoStaleEntry
  <2>4. Calls' /\ Waiting'
    BY <1>18 DEF Answer, Calls, Active, Waiting
  <2> QED BY <2>1, <2>2, <2>3, <2>4 DEF IInv
<1>19. CASE UNCHANGED vars
  BY <1>19 DEF vars, IInv, TypeOK, Calls, Filled, Waiting, Queued, Active, Given,
     Reply, NoStaleEntry
<1> QED
  BY <1>1, <1>2, <1>3, <1>4, <1>5, <1>6, <1>7, <1>8, <1>9, <1>10, <1>11, <1>12, <1>13,
     <1>14, <1>15, <1>16, <1>17, <1>18, <1>19 DEF Next, Request, Response, Watchdog

(* The invariant holds in every state of the client. *)
THEOREM Invariance == SafeSpec => []IInv
  BY Initially, Inductive, PTL DEF SafeSpec

-----------------------------------------------------------------------------
(* What follows from it. *)

(* The variables of the client keep their types; in particular what        *)
(* Request returns is a body, a timeout or a send error, never the empty   *)
(* response of a Caller that was not completed.                            *)
THEOREM TypeCorrect == SafeSpec => []TypeOK
<1>1. IInv => TypeOK
  BY DEF IInv
<1> QED
  BY <1>1, Invariance, PTL

(* What Request returns for an id is what the server sent for that id.     *)
THEOREM AnswersAreOwn == SafeSpec => []OwnAnswer
<1>1. IInv => OwnAnswer
  BY DEF IInv, Filled, Given, OwnAnswer
<1> QED
  BY <1>1, Invariance, PTL

(* A sleeping thread has not been answered and is where Response or the    *)
(* watchdog will find it.                                                  *)
THEOREM NoWakeupIsLost == SafeSpec => []NoLostWakeup
<1>1. IInv => NoLostWakeup
  BY DEF IInv, Waiting, NoLostWakeup
<1> QED
  BY <1>1, Invariance, PTL

(* The queue holds no Caller of a finished call, except of a failed send.  *)
THEOREM NoEntryIsStale == SafeSpec => []NoStaleEntry
<1>1. IInv => NoStaleEntry
  BY DEF IInv, Queued
<1> QED
  BY <1>1, Invariance, PTL

(* No step changes what a finished call returned, or writes an answer to   *)
(* its Caller, however often and however late the server answers; what is  *)
(* still written to one is the watchdog's timeout, for a Caller on its     *)
(* list.                                                                   *)
THEOREM LateAnswersAreIgnored == SafeSpec => LateAnswerIgnored
<1> DEFINE Kept(i) == /\ response'[i] = response[i] /\ outcome'[i] = outcome[i]
                      /\ error'[i] = error[i] /\ ready'[i] = ready[i]
           Late(i) == /\ response'[i] = response[i] /\ outcome'[i] = outcome[i]
                      /\ error'[i] # error[i] \/ ready'[i] # ready[i]
                            => i \in outdated /\ error'[i] = Timedout
<1>1. ASSUME IInv, Next, NEW i \in Ids, outcome[i] # NoOutcome
      PROVE  Late(i)
  <2> USE <1>1 DEF callers, threads, server, watch
  <2>1. ASSUME NEW t \in Threads, Request(t) PROVE Kept(i)
    <3>1. step[t] # "idle" => call[t] # i
      BY DEF IInv, Calls, Active
    <3> QED
      BY <2>1, <3>1 DEF Request, Start, Insert, SendOK, SendError, LockCaller,
         SpuriousWakeup, Erase, Read, Return, IInv, TypeOK
  <2>2. ASSUME NEW w \in Workers, Response(w) PROVE Kept(i)
    <3>1. job[w] # NoMessage => job[w].id # i
      BY DEF IInv, Queued, NoStaleEntry, Filled, Calls
    <3> QED
      BY <2>2, <3>1 DEF Response, FindCaller, NoReceiver, Deliver, IInv, TypeOK
  <2>3. CASE Sample \/ Scan \/ SleepCycle \/ Destroy \/ Tick \/ \E m \in Messages : Answer(m)
    <3>1. Kept(i)
      BY <2>3 DEF Sample, Scan, SleepCycle, Destroy, Tick, Answer
    <3> QED
      BY <3>1
  <2>4. ASSUME NEW j \in outdated, Expire(j) PROVE Late(i)
    <3>1. /\ UNCHANGED <<response, outcome>> /\ error \in [Ids -> Codes] /\ ready \in [Ids -> BOOLEAN]
          /\ error' = [error EXCEPT ![j] = Timedout] /\ ready' = [ready EXCEPT ![j] = TRUE]
      BY <2>4 DEF Expire, IInv, TypeOK
    <3>2. CASE i = j
      BY <2>4, <3>1, <3>2
    <3>3. CASE i # j
      BY <3>1, <3>3
    <3> QED
      BY <3>2, <3>3
  <2> QED
    BY <2>1, <2>2, <2>3, <2>4 DEF Next, Watchdog
<1>2. IInv /\ [Next]_vars => [\A i \in Ids : outcome[i] # NoOutcome => Late(i)]_vars
  BY <1>1
<1> QED
  BY <1>2, Invariance, PTL DEF SafeSpec, LateAnswerIgnored

-----------------------------------------------------------------------------
(* The two mutexes. *)

(* What the watchdog has taken off the queue was overdue when it looked at *)
(* the clock, or not yet made.                                             *)
Overdue ==
    /\ now <= clock
    /\ \A i \in outdated : now - stamp[i] > Threshold \/ stamp[i] > now

LEMMA OverdueKept ==
  ASSUME IInv, Overdue, [Next]_vars
  PROVE  Overdue'
<1> USE DEF callers, threads, server, watch
<1>0. /\ clock \in Nat /\ now \in Nat /\ Threshold \in Nat /\ Word \in Nat /\ stamp \in [Ids -> Nat]
      /\ Word > MaxClock + Threshold /\ MaxClock \in Nat /\ seq \in Nat
      /\ outdated \subseteq Ids /\ queue \subseteq Ids /\ \A i \in outdated : i <= seq
      /\ dog # "expire" => outdated = {}
  BY ClientAssumption DEF IInv, TypeOK, Calls, Waiting, Ids
<1>1. ASSUME NEW t \in Threads, Start(t) PROVE Overdue'
  BY <1>0, <1>1 DEF Start, Overdue, Ids
<1>2. CASE Sample
  BY <1>0, <1>2 DEF Sample, Overdue
<1>3. CASE Scan
  BY <1>0, <1>3 DEF Scan, Overdue, Outdated, ToUnsigned
<1>4. CASE Tick
  BY <1>0, <1>4 DEF Tick, Overdue
<1>5. CASE UNCHANGED <<now, clock, stamp>> /\ outdated' \subseteq outdated
  BY <1>5 DEF Overdue
<1> QED
  BY <1>1, <1>2, <1>3, <1>4, <1>5 DEF Next, Request, Insert, SendOK, SendError,
     LockCaller,
     SpuriousWakeup, Erase, Read, Return, Response, FindCaller, NoReceiver, Deliver, Watchdog,
     Expire, SleepCycle, Destroy, Answer, vars

(* The watchdog gives up no request before watchdogThreshold_ms, except    *)
(* one made after it had looked at the clock (client.h:73, 77).            *)
THEOREM NoTimeoutIsEarly == SafeSpec => TimeoutsAreDue
<1> DEFINE Due(i) == clock - stamp[i] > Threshold \/ stamp[i] > now
<1>1. ASSUME IInv, Overdue, Next, NEW i \in Ids, error[i] # Timedout, error'[i] = Timedout
      PROVE  Due(i)
  <2> USE DEF callers, threads, server, watch
  <2>0. /\ clock \in Nat /\ now \in Nat /\ Threshold \in Nat /\ stamp[i] \in Nat
        /\ error \in [Ids -> Codes] /\ outdated \subseteq Ids
    BY <1>1, ClientAssumption DEF IInv, TypeOK
  <2>1. ASSUME NEW w \in Workers, Deliver(w) PROVE FALSE
    BY <1>1, <2>0, <2>1, ClientAssumption DEF Deliver, Bodies
  <2>2. ASSUME NEW j \in outdated, Expire(j) PROVE Due(i)
    <3>1. j = i
      BY <1>1, <2>0, <2>2 DEF Expire
    <3> QED
      BY <1>1, <2>0, <3>1 DEF Overdue
  <2>3. CASE UNCHANGED error
    BY <1>1, <2>3
  <2> QED
    BY <1>1, <2>1, <2>2, <2>3 DEF Next, Request, Start, Insert, SendOK, SendError,
       LockCaller,
       SpuriousWakeup, Erase, Read, Return, Response, FindCaller, NoReceiver, Watchdog, Sample,
       Scan, SleepCycle, Destroy, Tick, Answer
<1>2. ASSUME IInv, Overdue, [Next]_vars PROVE [\A i \in Ids : error[i] # Timedout /\ error'[i] = Timedout => Due(i)]_vars
  BY <1>1, <1>2
<1>3. Init => Overdue
  BY DEF Init, Overdue
<1>4. IInv /\ Overdue /\ [Next]_vars => Overdue'
  BY OverdueKept
<1> QED
  BY <1>2, <1>3, <1>4, Invariance, PTL DEF SafeSpec, TimeoutsAreDue

(* Single is preserved when the server answers an id at most once.         *)
LEMMA SingleStep ==
  ASSUME MaxAnswers = 1, IInv, Single, [Next]_vars
  PROVE  Single'
<1> USE DEF callers, threads, server, watch
<1>1. ASSUME NEW t \in Threads, Request(t) PROVE Single'
  BY <1>1 DEF Request, Start, Insert, SendOK, SendError, LockCaller, SpuriousWakeup,
     Erase, Read, IInv, Waiting, Single
<1>2. ASSUME NEW w \in Workers, NEW m \in net, FindCaller(w, m) PROVE Single'
  BY <1>2 DEF FindCaller, QueueLocked, Single
<1>3. ASSUME NEW w \in Workers, NEW m \in net, NoReceiver(w, m) PROVE Single'
  BY <1>3 DEF NoReceiver, Single
<1>4. ASSUME NEW w \in Workers, Deliver(w) PROVE Single'
  BY <1>4 DEF Deliver, IInv, TypeOK, Queued, Single, NoMessage, NoId, Ids
<1>5. CASE Scan
  BY <1>5 DEF Scan, Single
<1>6. ASSUME NEW i \in outdated, Expire(i) PROVE Single'
  BY <1>6 DEF Expire, IInv, Queued, Single
<1>7. CASE Sample \/ SleepCycle \/ Destroy \/ Tick
  BY <1>7 DEF Sample, SleepCycle, Destroy, Tick, Single
<1>8. ASSUME NEW m \in Messages, Answer(m) PROVE Single'
  <2>1. \A a \in answers : a.id # m.id
    BY <1>8 DEF Answer, IInv, TypeOK, Messages
  <2> QED
    BY <1>8, <2>1 DEF Answer, IInv, Queued, Single
<1>9. CASE UNCHANGED vars
  BY <1>9 DEF vars, Single
<1> QED
  BY <1>1, <1>2, <1>3, <1>4, <1>5, <1>6, <1>7, <1>8, <1>9 DEF Next, Response, Watchdog

(* Request and Response never wait for each other's mutex, provided the    *)
(* server answers an id at most once (client.h:144, 171).                  *)
THEOREM LockOrder == ASSUME MaxAnswers = 1 PROVE SafeSpec => []NoLockCycle
<1>1. Init => Single
  BY DEF Init, Single
<1>2. IInv /\ Single /\ [Next]_vars => Single'
  BY SingleStep
<1>3. IInv /\ Single => NoLockCycle
  BY DEF IInv, Waiting, Queued, Single, NoLockCycle
<1> QED
  BY <1>1, <1>2, <1>3, Invariance, PTL DEF SafeSpec

-----------------------------------------------------------------------------
(* The client implements the abstract call of module Rpc. *)

(* Every state the client starts in is an initial state of Rpc, and every  *)
(* step of a thread, a worker or the watchdog is a step of Rpc or changes  *)
(* nothing an application or the server can see.                           *)
THEOREM Implements == SafeSpec => Abstract!SafeSpec
<1>1. Init => Abstract!Init
  BY DEF Init, Abstract!Init
<1>2. ASSUME IInv, [Next]_vars PROVE [Abstract!Next]_(Abstract!vars)
  <2> USE <1>2 DEF callers, threads, server, watch
  <2>1. ASSUME NEW t \in Threads, Start(t) PROVE Abstract!Begin(t)
    <3>1. seq \in Nat /\ seq + 1 \in Ids /\ call[t] = NoId
      BY <2>1, ClientAssumption DEF Start, IInv, TypeOK, Calls, Active, Ids
    <3>2. seq + 1 \in Ids \ (1..seq) /\ 1..(seq + 1) = (1..seq) \cup {seq + 1}
      BY <3>1
    <3> QED
      BY <2>1, <3>1, <3>2 DEF Start, Abstract!Begin
  <2>2. ASSUME NEW t \in Threads, NEW o \in Outcomes, Return(t, o), step[t] # "idle",
               o \in {Timedout, SendFailed} \/ Given(call[t], o),
               UNCHANGED <<seq, answers, running>>
        PROVE  Abstract!Finish(t)
    <3>1. call[t] # NoId
      BY <2>2 DEF IInv, Calls, Active
    <3>2. Given(call[t], o) => o \in Abstract!Bodies /\ <<call[t], o>> \in {<<m.id, m.body>> : m \in answers}
      BY DEF Given, IInv, TypeOK, Messages, Bodies, Abstract!Bodies
    <3> QED
      BY <2>2, <3>1, <3>2 DEF Return, Abstract!Finish
  <2>3. ASSUME NEW t \in Threads, SendError(t) PROVE Abstract!Finish(t)
    BY <2>2, <2>3 DEF SendError, Outcomes
  <2>4. ASSUME NEW t \in Threads, Read(t) PROVE Abstract!Finish(t)
    <3>1. call[t] \in Ids /\ ready[call[t]]
      BY <2>4 DEF Read, IInv, TypeOK, Calls, Waiting, Active
    <3>2. Given(call[t], Reply(call[t])) \/ Reply(call[t]) = Timedout
      BY <3>1 DEF IInv, Filled, Reply, NoError, Timedout
    <3>3. Reply(call[t]) \in Outcomes
      BY <3>2 DEF Given, IInv, TypeOK, Messages, Outcomes
    <3> QED
      BY <2>2, <2>4, <3>2, <3>3 DEF Read
  <2>5. ASSUME NEW m \in Messages, Answer(m) PROVE Abstract!Answer(m.id, m.body)
    <3>1. m.id \in 1..seq
      <4>1. m.id \in sent /\ m.id \in Ids /\ m.id <= seq
        BY <2>5 DEF Answer, IInv, TypeOK, Calls
      <4> QED
        BY <4>1 DEF Ids
    <3> QED
      BY <2>5, <3>1 DEF Answer, Abstract!Answer
  <2>6. CASE Destroy
    BY <2>6 DEF Destroy, Abstract!Close, Abstract!Next
  <2>7. ASSUME UNCHANGED <<seq, call, outcome, answers, running>> PROVE UNCHANGED Abstract!vars
    BY <2>7 DEF Abstract!vars
  <2>8. ASSUME NEW t \in Threads,
               \/ Insert(t) \/ SendOK(t) \/ LockCaller(t) \/ SpuriousWakeup(t) \/ Erase(t)
        PROVE  UNCHANGED Abstract!vars
    BY <2>7, <2>8 DEF Insert, SendOK, LockCaller, SpuriousWakeup, Erase
  <2>9. ASSUME NEW w \in Workers, Response(w) PROVE UNCHANGED Abstract!vars
    BY <2>7, <2>9 DEF Response, FindCaller, NoReceiver, Deliver
  <2>10. CASE Watchdog \/ Tick \/ UNCHANGED vars
    BY <2>7, <2>10 DEF Watchdog, Sample, Scan, Expire, SleepCycle, Tick, vars
  <2>11. \A m \in Messages : m.id \in Ids /\ m.body \in Abstract!Bodies
    BY DEF Messages, Bodies, Abstract!Bodies
  <2> QED
    BY <2>1, <2>3, <2>4, <2>5, <2>6, <2>8, <2>9, <2>10, <2>11 DEF Next, Request,
       Abstract!Next
<1> QED
  BY <1>1, <1>2, Invariance, PTL DEF SafeSpec, Abstract!SafeSpec

=============================================================================
