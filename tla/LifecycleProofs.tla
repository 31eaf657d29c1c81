-------------------------- MODULE LifecycleProofs --------------------------
(***************************************************************************)
(* The pointers to a Transport, and the calls that outlive it, over any    *)
(* number of connections, of threads and of message ids.                   *)
(***************************************************************************)
EXTENDS Lifecycle, TLAPS

(* Who points to what at each point of Connect and Disconnect. *)
Pointers ==
    /\ op \in {"replace", "create"} => made < MaxLives
    /\ op = "idle" =>
          IF made = 0
          THEN gateway = Unset /\ copy = Unset /\ current = Null /\ alive = {}
          ELSE gateway = current /\ copy = current /\ alive = {current} \ {Null} /\ alive \subseteq receivers
    /\ op \notin {"idle", "create"} => current # Null /\ alive = {current} /\ made # 0
    /\ op = "create" => alive = {}
    /\ op \in {"replace", "dispose", "forget"} => current \in receivers
    /\ op \in {"replace", "dispose", "forget", "tell", "receive"} => gateway = current
    /\ op \in {"replace", "dispose", "forget", "receive"} => copy = current
    /\ op \in {"untell", "destroy"} => gateway = Null
    /\ op = "destroy" => copy = Null
    /\ current <= made

(* A thread that has its id has a call. *)
Holding(t) == step[t] \in {"insert", "send", "asleep"}

Calling == \A t \in Threads : Holding(t) => call[t] \in Calls

TInv == TypeOK /\ Pointers /\ Calling

LEMMA Facts ==
  /\ Null = 0 /\ Unset = -1 /\ MaxLives \in Nat /\ MaxId \in Nat
  /\ \A k \in Lives : k \in Nat /\ k # Null /\ k # Unset
  /\ NoCall \notin Calls /\ Timedout \notin Calls /\ Request \notin Calls
  /\ \A k \in Lives, i \in Ids : [life |-> k, id |-> i] \in Calls
  BY LifecycleAssumption DEF Null, Unset, Lives, Calls

LEMMA TInitially == Init => TInv
<1> SUFFICES ASSUME Init PROVE TInv
  OBVIOUS
<1>1. TypeOK
  BY LifecycleAssumption, Facts, 0 \in 0..MaxLives, 0 \in 0..MaxId DEF Init, TypeOK
<1>2. Pointers /\ Calling
  BY Facts DEF Init, Pointers, Calling, Holding
<1> QED
  BY <1>1, <1>2 DEF TInv

LEMMA PointersKept == TInv /\ [Next]_vars => Pointers'
<1> SUFFICES ASSUME TInv, [Next]_vars PROVE Pointers'
  OBVIOUS
<1>0. made \in Nat /\ MaxLives \in Nat /\ alive \subseteq Lives /\ current \in Int /\ Pointers
  BY LifecycleAssumption DEF TInv, TypeOK, Lives, Null
<1>1. CASE Connect
  BY <1>0, <1>1, Facts DEF Connect, Pointers
<1>2. CASE Disconnect
  BY <1>0, <1>2, Facts DEF Disconnect, Pointers
<1>3. CASE Replace
  BY <1>0, <1>3, Facts DEF Replace, Pointers
<1>4. CASE Create
  BY <1>0, <1>4, Facts DEF Create, Pointers
<1>5. CASE ConfigureAsync
  BY <1>0, <1>5, Facts DEF ConfigureAsync, Pointers
<1>6. CASE Update
  BY <1>0, <1>6, Facts DEF Update, Pointers
<1>7. CASE SetTransport
  BY <1>0, <1>7, Facts DEF SetTransport, Pointers
<1>8. CASE SetTransportReceiver
  BY <1>0, <1>8, Facts DEF SetTransportReceiver, Pointers
<1>9. CASE DisposeAsync
  BY <1>0, <1>9, Facts DEF DisposeAsync, Pointers
<1>10. CASE Destroy
  BY <1>0, <1>10, Facts DEF Destroy, Pointers
<1>11. CASE UNCHANGED accessor
  BY <1>0, <1>11 DEF accessor, Pointers
<1> QED
  BY <1>1, <1>2, <1>3, <1>4, <1>5, <1>6, <1>7, <1>8, <1>9, <1>10, <1>11 DEF Next,
     Step, Accessor, Proceed, Work, vars,
     Begin, Test, GetNextMessageID, Insert, Send, SendFails, Wake, Expire, Answer, Ask, Receive, Response, SendResponse

LEMMA Typing == TInv /\ [Next]_vars => TypeOK' /\ Calling'
<1> SUFFICES ASSUME TInv, [Next]_vars PROVE TypeOK' /\ Calling'
  OBVIOUS
<1>0. TypeOK /\ Pointers /\ Calling
  BY DEF TInv
<1> USE LifecycleAssumption DEF TypeOK, traffic, accessor, client, threads, workers, Holding, Calling
<1>1. CASE Step /\ Record
  <2>0. overlap' \in BOOLEAN
    BY <1>0, <1>1 DEF Record
  <2>1. CASE Connect
    BY <1>0, <2>0, <2>1, Facts DEF Connect, Lives
  <2>2. CASE Disconnect
    BY <1>0, <2>0, <2>2, Facts DEF Disconnect, Lives
  <2>3. CASE Replace
    BY <1>0, <2>0, <2>3, Facts DEF Replace
  <2>4. CASE Create
    BY <1>0, <2>0, <2>4, Facts DEF Create, Lives, Pointers
  <2>5. CASE ConfigureAsync
    BY <1>0, <2>0, <2>5, Facts DEF ConfigureAsync
  <2>6. CASE Update
    BY <1>0, <2>0, <2>6, Facts DEF Update, Lives
  <2>7. CASE SetTransport
    BY <1>0, <2>0, <2>7, Facts DEF SetTransport, Lives
  <2>8. CASE SetTransportReceiver
    BY <1>0, <2>0, <2>8, Facts DEF SetTransportReceiver, Pointers
  <2>9. CASE DisposeAsync
    BY <1>0, <2>0, <2>9, Facts DEF DisposeAsync
  <2>10. CASE Destroy
    BY <1>0, <2>0, <2>10, Facts DEF Destroy, Lives
  <2>11. ASSUME NEW t \in Threads, Begin(t) PROVE TypeOK' /\ Calling'
    BY <1>0, <2>0, <2>11, Facts DEF Begin, Goto
  <2>12. ASSUME NEW t \in Threads, Test(t) PROVE TypeOK' /\ Calling'
    BY <1>0, <2>0, <2>12, Facts DEF Test, Goto
  <2>13. ASSUME NEW t \in Threads, GetNextMessageID(t) PROVE TypeOK' /\ Calling'
    <3>1. copy \in Lives /\ seq[copy] + 1 \in Ids /\ seq[copy] + 1 \in 0..MaxId
      BY <1>0, <2>13, Facts DEF GetNextMessageID, Ids, Lives
    <3>2. NextId(copy) = seq[copy] + 1 /\ [life |-> copy, id |-> seq[copy] + 1] \in Calls
      BY <3>1, Facts DEF NextId
    <3>3. TypeOK'
      BY <1>0, <2>0, <2>13, <3>1, <3>2 DEF GetNextMessageID, Goto
    <3>4. Calling'
      BY <1>0, <2>13, <3>1, <3>2 DEF GetNextMessageID, Goto
    <3> QED
      BY <3>3, <3>4
  <2>14. ASSUME NEW t \in Threads, Insert(t) PROVE TypeOK' /\ Calling'
    BY <1>0, <2>0, <2>14, Facts DEF Insert, Goto
  <2>15. ASSUME NEW t \in Threads, Send(t) PROVE TypeOK' /\ Calling'
    BY <1>0, <2>0, <2>15, Facts DEF Send, Goto, Messages
  <2>16. ASSUME NEW t \in Threads, SendFails(t) PROVE TypeOK' /\ Calling'
    BY <1>0, <2>0, <2>16, Facts DEF SendFails, Return, Goto
  <2>17. ASSUME NEW t \in Threads, Wake(t) PROVE TypeOK' /\ Calling'
    BY <1>0, <2>0, <2>17, Facts DEF Wake, Return, Goto
  <2>18. ASSUME NEW i \in Ids, Expire(i) PROVE TypeOK' /\ Calling'
    BY <1>0, <2>0, <2>18, Facts DEF Expire
  <2>19. ASSUME NEW m \in wire, Answer(m) PROVE TypeOK' /\ Calling'
    BY <1>0, <2>0, <2>19, Facts DEF Answer, Messages
  <2>20. ASSUME NEW k \in alive, Ask(k) PROVE TypeOK' /\ Calling'
    BY <1>0, <2>0, <2>20, Facts DEF Ask, Messages
  <2>21. ASSUME NEW w \in Workers, NEW m \in pool, Receive(w, m) PROVE TypeOK' /\ Calling'
    BY <1>0, <2>0, <2>21, Facts DEF Receive, Messages
  <2>22. ASSUME NEW w \in Workers, Response(w) PROVE TypeOK' /\ Calling'
    BY <1>0, <2>0, <2>22, Facts DEF Response
  <2>23. ASSUME NEW w \in Workers, SendResponse(w) PROVE TypeOK' /\ Calling'
    BY <1>0, <2>0, <2>23, Facts DEF SendResponse
  <2> QED
    BY <1>1, <2>1, <2>2, <2>3, <2>4, <2>5, <2>6, <2>7, <2>8, <2>9, <2>10, <2>11, <2>12, <2>13, <2>14, <2>15, <2>16, <2>17, <2>18, <2>19, <2>20, <2>21, <2>22, <2>23
       DEF Step, Accessor, Proceed, Work
<1>2. CASE UNCHANGED vars
  BY <1>0, <1>2 DEF vars
<1> QED
  BY <1>1, <1>2 DEF Next

LEMMA TInvHolds == SafeSpec => []TInv
<1>1. TInv /\ [Next]_vars => TInv'
  BY Typing, PointersKept DEF TInv
<1> QED
  BY <1>1, TInitially, PTL DEF SafeSpec

(* Every variable keeps its type (Accessor.h:167, gateway_impl.h:61).      *)
THEOREM TypeCorrect == SafeSpec => []TypeOK
<1>1. TInv => TypeOK
  BY DEF TInv
<1> QED
  BY <1>1, TInvHolds, PTL

(* Between Connect and Disconnect, however often they have been called,    *)
(* all pointers are to the one Transport there is (Accessor.h:117, 139;    *)
(* gateway_impl.h:79).                                                     *)
THEOREM AllAgree == SafeSpec => []PointersAgree
<1>1. TInv => PointersAgree
  BY DEF TInv, TypeOK, Pointers, PointersAgree
<1> QED
  BY <1>1, TInvHolds, PTL

-----------------------------------------------------------------------------
(* As long as nothing has met a Connect or Disconnect: nothing moves while *)
(* one runs or without a connection, and what moves is of the current one. *)
Quiet ==
    ~overlap =>
        /\ op # "idle" \/ (current = Null /\ made # 0) => ~Busy
        /\ \A m \in pool : m[1] = current
        /\ \A w \in Workers : serving[w] # Nothing => serving[w] = current /\ current # Null

LEMMA QuietInitially == Init => Quiet
  BY DEF Init, Quiet

LEMMA QuietKept == TInv /\ TInv' /\ Quiet /\ [Next]_vars => Quiet'
<1> SUFFICES ASSUME TInv, TInv', Quiet, [Next]_vars PROVE Quiet'
  OBVIOUS
<1>0. TypeOK /\ Pointers /\ TypeOK' /\ Pointers'
  BY DEF TInv
<1>1. CASE Step /\ Record
  <2> SUFFICES ASSUME ~overlap' PROVE Quiet'
    BY DEF Quiet
  <2>0. ~overlap /\ (op' # "idle" => ~Busy')
    BY <1>0, <1>1 DEF Record, TypeOK
  <2> USE DEF Quiet, TypeOK
  <2>1. CASE Connect
    BY <1>0, <2>0, <2>1, Facts DEF Connect, Pointers, Busy, Free, traffic, workers,
       threads
  <2>2. CASE Disconnect
    BY <1>0, <2>0, <2>2, Facts DEF Disconnect, Pointers, Busy, Free, traffic, workers,
       threads
  <2>3. CASE Replace
    BY <1>0, <2>0, <2>3, Facts DEF Replace, Pointers, Busy, Free, traffic, workers,
       threads
  <2>4. CASE Create
    BY <1>0, <2>0, <2>4, Facts DEF Create, Pointers, Busy, Free, traffic, workers,
       threads
  <2>5. CASE ConfigureAsync
    BY <1>0, <2>0, <2>5, Facts DEF ConfigureAsync, Pointers, Busy, Free, traffic,
       workers, threads
  <2>6. CASE Update
    BY <1>0, <2>0, <2>6, Facts DEF Update, Pointers, Busy, Free, traffic, workers,
       threads
  <2>7. CASE SetTransport
    BY <1>0, <2>0, <2>7, Facts DEF SetTransport, Pointers, Busy, Free, traffic,
       workers, threads
  <2>8. CASE SetTransportReceiver
    BY <1>0, <2>0, <2>8, Facts DEF SetTransportReceiver, Pointers, Busy, Free,
       traffic, workers, threads
  <2>9. CASE DisposeAsync
    BY <1>0, <2>0, <2>9, Facts DEF DisposeAsync, Pointers, Busy, Free, traffic,
       workers, threads
  <2>10. CASE Destroy
    BY <1>0, <2>0, <2>10, Facts DEF Destroy, Pointers, Busy, Free, traffic, workers,
       threads
  <2>11. ASSUME NEW t \in Threads, Begin(t) PROVE Quiet'
    BY <1>0, <2>0, <2>11, Facts DEF Begin, Goto, accessor, workers, threads, Pointers,
       Busy, Free
  <2>12. ASSUME NEW t \in Threads, Test(t) PROVE Quiet'
    BY <1>0, <2>0, <2>12, Facts DEF Test, Goto, accessor, workers, threads, Pointers,
       Busy, Free
  <2>13. ASSUME NEW t \in Threads, GetNextMessageID(t) PROVE Quiet'
    BY <1>0, <2>0, <2>13, Facts DEF GetNextMessageID, Goto, accessor, workers,
       threads, Pointers, Busy, Free
  <2>14. ASSUME NEW t \in Threads, Insert(t) PROVE Quiet'
    BY <1>0, <2>0, <2>14, Facts DEF Insert, Goto, accessor, workers, threads,
       Pointers, Busy, Free
  <2>15. ASSUME NEW t \in Threads, Send(t) PROVE Quiet'
    BY <1>0, <2>0, <2>15, Facts DEF Send, Goto, accessor, workers, threads, Pointers,
       Busy, Free
  <2>16. ASSUME NEW t \in Threads, SendFails(t) PROVE Quiet'
    BY <1>0, <2>0, <2>16, Facts DEF SendFails, Return, Goto, accessor, workers,
       threads, Pointers, Busy, Free
  <2>17. ASSUME NEW t \in Threads, Wake(t) PROVE Quiet'
    BY <1>0, <2>0, <2>17, Facts DEF Wake, Return, Goto, accessor, workers, threads,
       Pointers, Busy, Free
  <2>18. ASSUME NEW i \in Ids, Expire(i) PROVE Quiet'
    BY <1>0, <2>0, <2>18, Facts DEF Expire, accessor, workers, threads, Pointers,
       Busy, Free
  <2>19. ASSUME NEW m \in wire, Answer(m) PROVE Quiet'
    BY <1>0, <2>0, <2>19, Facts DEF Answer, accessor, workers, threads, Pointers,
       Busy, Free
  <2>20. ASSUME NEW k \in alive, Ask(k) PROVE Quiet'
    BY <1>0, <2>0, <2>20, Facts DEF Ask, accessor, workers, threads, Pointers, Busy,
       Free
  <2>21. ASSUME NEW w \in Workers, NEW m \in pool, Receive(w, m) PROVE Quiet'
    BY <1>0, <2>0, <2>21, Facts DEF Receive, accessor, workers, threads, Pointers,
       Busy, Free
  <2>22. ASSUME NEW w \in Workers, Response(w) PROVE Quiet'
    BY <1>0, <2>0, <2>22, Facts DEF Response, accessor, workers, threads, Pointers,
       Busy, Free
  <2>23. ASSUME NEW w \in Workers, SendResponse(w) PROVE Quiet'
    BY <1>0, <2>0, <2>23, Facts DEF SendResponse, accessor, workers, threads,
       Pointers, Busy, Free
  <2> QED
    BY <1>1, <2>1, <2>2, <2>3, <2>4, <2>5, <2>6, <2>7, <2>8, <2>9, <2>10, <2>11, <2>12, <2>13, <2>14, <2>15, <2>16, <2>17, <2>18, <2>19, <2>20, <2>21, <2>22, <2>23
       DEF Step, Accessor, Proceed, Work
<1>2. CASE UNCHANGED vars
  BY <1>2 DEF vars, accessor, traffic, threads, workers, Quiet, Busy, Free
<1> QED
  BY <1>1, <1>2 DEF Next

(* No Transport that does not exist is ever reached, unless a message or a *)
(* call met a Connect or Disconnect (Transport.h:76, client.h:128;         *)
(* server.h:159 for the pointer a provider was given).                     *)
THEOREM PointersAreSafe == SafeSpec => []SafeUnlessOverlap
<1>1. TInv /\ Quiet => SafeUnlessOverlap
  BY Facts DEF TInv, TypeOK, Pointers, Quiet, SafeUnlessOverlap, InDanger, Busy, Free,
     Messages
<1>2. SafeSpec => [](TInv /\ Quiet)
  <2>1. TInv /\ TInv' /\ Quiet /\ [Next]_vars => Quiet'
    BY QuietKept
  <2> QED
    BY <2>1, QuietInitially, TInvHolds, PTL DEF SafeSpec
<1> QED
  BY <1>1, <1>2, PTL

-----------------------------------------------------------------------------
(* Calls that have been sent and whose answer has not been handed over. *)
OnItsWay(c) ==
    \/ \E t \in Threads : step[t] = "send" /\ call[t] = c
    \/ \E m \in wire \cup pool : m[2] = c
    \/ \E w \in Workers : delivering[w] = c

(* An id is handed out once by each Transport. *)
Numbered ==
    /\ \A k \in Lives : k > made => seq[k] = 0
    /\ \A t \in Threads : Holding(t) => call[t].id <= seq[call[t].life]
    /\ \A t, u \in Threads : Holding(t) /\ Holding(u) /\ t # u => call[t] # call[u]
    /\ \A i \in Ids : queue[i] # NoCall => queue[i].id = i
    /\ \A c \in Calls : OnItsWay(c) => c.id <= seq[c.life]

LEMMA Call ==
  /\ \A c \in Calls : c.life \in Lives /\ c.id \in Ids /\ c.id \in Nat /\ c.id > 0
  /\ \A c, d \in Calls : c.life = d.life /\ c.id = d.id => c = d
  BY DEF Calls, Ids

LEMMA NumberedInitially == Init => Numbered
  BY Facts DEF Init, Numbered, Holding, OnItsWay

LEMMA NumberedKept == TInv /\ TInv' /\ Numbered /\ [Next]_vars => Numbered'
<1> SUFFICES ASSUME TInv, TInv', Numbered, [Next]_vars PROVE Numbered'
  OBVIOUS
<1>0. TypeOK /\ TypeOK' /\ Calling /\ Calling'
  BY DEF TInv
<1> USE DEF Numbered, TypeOK, Holding, Calling, OnItsWay
<1>1. CASE UNCHANGED traffic /\ made' >= made
  BY <1>0, <1>1, Facts DEF traffic, client, threads, workers
<1>2. ASSUME NEW t \in Threads, Begin(t) PROVE Numbered'
  BY <1>0, <1>2, Facts, Call DEF Begin, Goto, accessor, client, workers, threads
<1>3. ASSUME NEW t \in Threads, Test(t) PROVE Numbered'
  BY <1>0, <1>3, Facts, Call DEF Test, Goto, accessor, client, workers, threads
<1>4. ASSUME NEW t \in Threads, GetNextMessageID(t) PROVE Numbered'
  <2> DEFINE new == [life |-> copy, id |-> seq[copy] + 1]
  <2>1. copy \in Lives /\ copy <= made /\ made \in Nat /\ seq[copy] \in Nat
    BY <1>0, <1>4, Facts DEF TInv, GetNextMessageID, Pointers, Lives
  <2>2. seq' = [seq EXCEPT ![copy] = seq[copy] + 1] /\ UNCHANGED <<made, wire, pool, delivering, queue>>
    BY <1>4 DEF GetNextMessageID, accessor, client, workers
  <2>3. step' = [step EXCEPT ![t] = "insert"] /\ call' = [call EXCEPT ![t] = new] /\ step[t] = "next"
    BY <1>4 DEF GetNextMessageID, NextId, Goto
  <2>4. \A k \in Lives : seq[k] <= seq'[k] /\ seq[k] \in Nat /\ seq'[k] \in Nat
    <3>1. \A k \in Lives : seq[k] \in 0..MaxId /\ seq'[k] = IF k = copy THEN seq[k] + 1 ELSE seq[k]
      BY <1>0, <2>2
    <3> QED
      BY <3>1, Facts
  <2>5. \A k \in Lives : k > made' => seq'[k] = 0
    BY <1>0, <2>1, <2>2, Facts DEF Numbered
  <2>6. \A u \in Threads : Holding(u) => u # t /\ Holding(u)' /\ call'[u] = call[u] /\ call[u] # new
    <3> SUFFICES ASSUME NEW u \in Threads, Holding(u)
                 PROVE  u # t /\ Holding(u)' /\ call'[u] = call[u] /\ call[u] # new
      OBVIOUS
    <3>1. call[u].id <= seq[call[u].life] /\ call[u] \in Calls
      BY <1>0
    <3>2. call[u] # new
      BY <3>1, <2>1
    <3> QED
      BY <3>2, <2>3, <1>0
  <2>7. \A u \in Threads \ {t} : Holding(u)' => Holding(u)
    BY <2>3, <1>0
  <2>8. new.life = copy /\ new.id = seq'[copy] /\ call'[t] = new
    BY <2>1, <2>2, <2>3, <1>0
  <2>9. \A u \in Threads : Holding(u)' => call'[u].id <= seq'[call'[u].life]
    <3> SUFFICES ASSUME NEW u \in Threads, Holding(u)' PROVE call'[u].id <= seq'[call'[u].life]
      OBVIOUS
    <3>1. CASE u = t
      BY <3>1, <2>8, <2>1, <2>4
    <3>2. CASE u # t
      BY <3>2, <2>6, <2>7, <2>4, <1>0, Call
    <3> QED
      BY <3>1, <3>2
  <2>10. \A u, v \in Threads : Holding(u)' /\ Holding(v)' /\ u # v => call'[u] # call'[v]
    BY <2>6, <2>7, <2>8
  <2>11. \A c \in Calls : OnItsWay(c)' => OnItsWay(c)
    BY <2>2, <2>3, <1>0
  <2>12. \A c \in Calls : OnItsWay(c)' => c.id <= seq'[c.life]
    BY <2>11, <2>4, Call
  <2> QED
    BY <2>5, <2>9, <2>10, <2>12, <2>2
<1>5. ASSUME NEW t \in Threads, Insert(t) PROVE Numbered'
  BY <1>0, <1>5, Facts, Call DEF Insert, Goto, accessor, client, workers, threads
<1>6. ASSUME NEW t \in Threads, Send(t) PROVE Numbered'
  BY <1>0, <1>6, Facts, Call DEF Send, Goto, accessor, client, workers, threads
<1>7. ASSUME NEW t \in Threads, SendFails(t) PROVE Numbered'
  BY <1>0, <1>7, Facts, Call DEF SendFails, Return, Goto, accessor, client, workers,
     threads
<1>8. ASSUME NEW t \in Threads, Wake(t) PROVE Numbered'
  BY <1>0, <1>8, Facts, Call DEF Wake, Return, Goto, accessor, client, workers, threads
<1>9. ASSUME NEW i \in Ids, Expire(i) PROVE Numbered'
  BY <1>0, <1>9, Facts, Call DEF Expire, accessor, client, workers, threads
<1>10. ASSUME NEW m \in wire, Answer(m) PROVE Numbered'
  BY <1>0, <1>10, Facts, Call DEF Answer, accessor, client, workers, threads
<1>11. ASSUME NEW k \in alive, Ask(k) PROVE Numbered'
  BY <1>0, <1>11, Facts, Call DEF Ask, accessor, client, workers, threads
<1>12. ASSUME NEW w \in Workers, NEW m \in pool, Receive(w, m) PROVE Numbered'
  BY <1>0, <1>12, Facts, Call DEF Receive, accessor, client, workers, threads
<1>13. ASSUME NEW w \in Workers, Response(w) PROVE Numbered'
  BY <1>0, <1>13, Facts, Call DEF Response, accessor, client, workers, threads
<1>14. ASSUME NEW w \in Workers, SendResponse(w) PROVE Numbered'
  BY <1>0, <1>14, Facts, Call DEF SendResponse, accessor, client, workers, threads
<1>15. CASE UNCHANGED vars
  BY <1>0, <1>1, <1>15 DEF vars, accessor
<1> QED
  BY <1>0, <1>1, <1>2, <1>3, <1>4, <1>5, <1>6, <1>7, <1>8, <1>9, <1>10, <1>11, <1>12, <1>13, <1>14, <1>15
     DEF Next, Step, Accessor, Proceed, Work,
     Connect, Disconnect, Replace, Create, ConfigureAsync, Update, SetTransport, SetTransportReceiver, DisposeAsync, Destroy

LEMMA NumberedHolds == SafeSpec => [](TInv /\ Numbered)
<1>1. TInv /\ TInv' /\ Numbered /\ [Next]_vars => Numbered'
  BY NumberedKept
<1> QED
  BY <1>1, NumberedInitially, TInvHolds, PTL DEF SafeSpec
-----------------------------------------------------------------------------
(* Whoever waits for an answer is on the queue, or its id was reused. *)
Remembered ==
    \A t \in Threads : step[t] \in {"send", "asleep"} /\ reply[call[t]] = NoCall =>
        queue[call[t].id] = call[t] \/ Reused(call[t])

(* Two calls in progress under one id are of different connections. *)
LEMMA SameId ==
  ASSUME TInv, Numbered, NEW t \in Threads, NEW c \in Calls, Holding(t),
         call[t] # c, call[t].id = c.id
  PROVE  Reused(c)
<1>1. call[t] \in Calls /\ call[t].life # c.life /\ c.id <= seq[call[t].life]
  BY Call DEF TInv, Calling, Numbered
<1>2. call[t].life \in Lives /\ seq[call[t].life] \in 0..MaxId /\ c.id \in Nat
  BY <1>1, Call DEF TInv, TypeOK
<1> QED
  BY <1>1, <1>2, Facts DEF Reused

LEMMA ReusedStays ==
  ASSUME TInv, TInv', [Next]_vars, NEW c \in Calls, Reused(c)
  PROVE  Reused(c)'
<1>1. PICK k \in Lives \ {c.life} : seq[k] >= c.id
  BY DEF Reused
<1>2. seq[k] \in 0..MaxId /\ seq'[k] \in 0..MaxId /\ c.id \in Nat
  BY Call DEF TInv, TypeOK
<1>3. seq'[k] >= seq[k]
  <2>1. ASSUME NEW t \in Threads, GetNextMessageID(t) PROVE seq'[k] >= seq[k]
    BY <2>1, <1>2, Facts DEF GetNextMessageID, TInv, TypeOK
  <2>2. CASE UNCHANGED seq
    BY <2>2, <1>2, Facts
  <2> QED
    BY <2>1, <2>2 DEF Next, Step, Accessor, Proceed, Work, vars, traffic, client,
       threads, workers, accessor,
       Connect, Disconnect, Replace, Create, ConfigureAsync, Update, SetTransport, SetTransportReceiver, DisposeAsync, Destroy,
       Begin, Test, Insert, Send, SendFails, Wake, Expire, Answer, Ask, Receive, Response, SendResponse
<1> QED
  BY <1>1, <1>2, <1>3, Facts DEF Reused

LEMMA RememberedKept == TInv /\ TInv' /\ Numbered /\ Remembered /\ [Next]_vars => Remembered'
<1> SUFFICES ASSUME TInv, TInv', Numbered, Remembered, [Next]_vars,
                    NEW u \in Threads, NEW d, d = call'[u],
                    step'[u] \in {"send", "asleep"}, reply'[d] = NoCall
             PROVE  queue'[d.id] = d \/ Reused(d)'
  BY DEF Remembered, Reused
<1>0. TypeOK /\ TypeOK' /\ Calling /\ d \in Calls
  BY DEF TInv, Calling, Holding
<1>a. Reused(d) => Reused(d)'
  BY <1>0, ReusedStays
<1>b. d.id \in Ids
  BY <1>0, Call
<1>1. ASSUME NEW t \in Threads, Insert(t) PROVE queue'[d.id] = d \/ Reused(d)'
  <2>1. step'[u] = IF u = t THEN "send" ELSE step[u]
    BY <1>0, <1>1 DEF Insert, Goto, TypeOK
  <2>2. call' = call /\ reply' = reply
    BY <1>1 DEF Insert
  <2>3. queue'[d.id] = IF d.id = call[t].id THEN call[t] ELSE queue[d.id]
    BY <1>0, <1>1, <1>b DEF Insert, TypeOK
  <2>4. CASE d = call[t]
    BY <2>3, <2>4
  <2>5. CASE d # call[t] /\ d.id = call[t].id
    BY <2>5, <1>1, <1>0, SameId, <1>a DEF Insert, Holding
  <2>6. CASE d # call[t] /\ d.id # call[t].id
    BY <2>6, <2>1, <2>2, <2>3, <1>a DEF Remembered
  <2> QED
    BY <2>4, <2>5, <2>6
<1>2. ASSUME NEW t \in Threads, Wake(t) PROVE queue'[d.id] = d \/ Reused(d)'
  <2>1. u # t /\ step[u] = step'[u] /\ call[u] = d /\ reply[d] = NoCall
    BY <1>0, <1>2 DEF Wake, Return, Goto, TypeOK
  <2>2. queue'[d.id] = IF d.id = call[t].id THEN NoCall ELSE queue[d.id]
    BY <1>0, <1>2, <1>b DEF Wake, TypeOK
  <2>3. call[t] # d /\ Holding(t)
    BY <1>2, <2>1 DEF Wake, Holding
  <2>4. CASE d.id = call[t].id
    BY <2>3, <2>4, <1>0, SameId, <1>a
  <2>5. CASE d.id # call[t].id
    BY <2>5, <2>1, <2>2, <1>a DEF Remembered
  <2> QED
    BY <2>4, <2>5
<1>3. ASSUME NEW i \in Ids, Expire(i) PROVE queue'[d.id] = d \/ Reused(d)'
  <2>1. step[u] = step'[u] /\ call[u] = d
    BY <1>3 DEF Expire, threads
  <2>2. queue'[d.id] = IF d.id = i THEN NoCall ELSE queue[d.id]
    BY <1>0, <1>3, <1>b DEF Expire, TypeOK
  <2>3. queue[i] # d /\ reply[d] = NoCall
    BY <1>0, <1>3, LifecycleAssumption DEF Expire, TypeOK
  <2>4. Remembered
    OBVIOUS
  <2> QED
    BY <2>1, <2>2, <2>3, <2>4, <1>a DEF Remembered
<1>4. ASSUME NEW w \in Workers, Response(w) PROVE queue'[d.id] = d \/ Reused(d)'
  <2>1. step[u] = step'[u] /\ call[u] = d /\ queue' = queue
    BY <1>4 DEF Response, threads
  <2>2. reply[d] = NoCall
    BY <1>0, <1>4 DEF Response, TypeOK
  <2> QED
    BY <2>1, <2>2, <1>a DEF Remembered
<1>5. ASSUME NEW t \in Threads, GetNextMessageID(t) PROVE queue'[d.id] = d \/ Reused(d)'
  BY <1>5, <1>0, <1>a DEF GetNextMessageID, Goto, client, TypeOK, Remembered
<1>6. ASSUME NEW t \in Threads, Begin(t) \/ Test(t) \/ Send(t) PROVE queue'[d.id] = d \/ Reused(d)'
  BY <1>6, <1>0, <1>a DEF Begin, Test, Send, Goto, client, TypeOK, Remembered
<1>7. ASSUME NEW t \in Threads, SendFails(t) PROVE queue'[d.id] = d \/ Reused(d)'
  BY <1>7, <1>0, <1>a DEF SendFails, Return, Goto, client, TypeOK, Remembered
<1>8. CASE UNCHANGED <<client, threads>>
  BY <1>8, <1>a DEF client, threads, Remembered
<1> QED
  BY <1>1, <1>2, <1>3, <1>4, <1>5, <1>6, <1>7, <1>8 DEF Next, Step, Accessor, Proceed,
     Work, vars, traffic,
     Connect, Disconnect, Replace, Create, ConfigureAsync, Update, SetTransport, SetTransportReceiver, DisposeAsync, Destroy,
     Answer, Ask, Receive, SendResponse

LEMMA RememberedHolds == SafeSpec => []Remembered
<1>1. Init => Remembered
  BY DEF Init, Remembered
<1>2. TInv /\ TInv' /\ Numbered /\ Remembered /\ [Next]_vars => Remembered'
  BY RememberedKept
<1> QED
  BY <1>1, <1>2, NumberedHolds, PTL DEF SafeSpec

(* A sleeping call can be woken over any number of connections, until one  *)
(* of them hands out its id again (client.h:133, 146, 168).                *)
THEOREM SleepersRemembered == SafeSpec => []NobodyForgotten
<1>1. Remembered => NobodyForgotten
  BY DEF Remembered, NobodyForgotten
<1> QED
  BY <1>1, RememberedHolds, PTL

-----------------------------------------------------------------------------
(* As long as nothing has met a Connect or Disconnect: all that moves is   *)
(* of the current connection, and finds its own entry or none.             *)
Own ==
    ~overlap =>
        /\ \A m \in wire : m[2].life = m[1]
        /\ \A m \in pool : m[2] # Request => m[2].life = current
        /\ \A w \in Workers : delivering[w] # NoCall => delivering[w].life = current
        /\ \A t \in Threads : step[t] \in {"insert", "send"} => call[t].life = current
        /\ \A c \in Calls : c.life = current /\ OnItsWay(c) => queue[c.id] \in {c, NoCall}
        /\ \A c \in Calls : reply[c] \in Calls => reply[c] = c

LEMMA OwnInitially == Init => Own
  BY Facts DEF Init, Own, OnItsWay

(* A thread that uses the Transport uses the current one. *)
LEMMA Current ==
  ASSUME TInv, Quiet, ~overlap, NEW t \in Threads, step[t] \in {"next", "send"}, copy \in alive
  PROVE  copy = current /\ op = "idle"
<1>1. op = "idle"
  BY DEF Quiet, Busy
<1> QED
  BY <1>1 DEF TInv, Pointers

LEMMA OwnKept == TInv /\ TInv' /\ Quiet /\ Numbered /\ Numbered' /\ Own /\ [Next]_vars => Own'
<1> SUFFICES ASSUME TInv, TInv', Quiet, Numbered, Numbered', Own, [Next]_vars, ~overlap'
             PROVE  Own'
  BY DEF Own
<1>0. TypeOK /\ TypeOK' /\ Calling /\ Calling' /\ Pointers /\ Quiet /\ Numbered /\ Numbered'
  BY DEF TInv
<1>00. ~overlap
  BY <1>0 DEF Next, Record, vars, TypeOK
<1>000. Own
  OBVIOUS
<1>1. ASSUME Create \/ Destroy PROVE Own'
  <2>1. UNCHANGED traffic /\ op # "idle"
    BY <1>1 DEF Create, Destroy
  <2>2. pool = {} /\ \A w \in Workers : delivering[w] = NoCall
    BY <2>1, <1>0, <1>00 DEF Quiet, Busy, Free
  <2>3. \A t \in Threads : step[t] \notin {"insert", "send"}
    BY <2>1, <1>0, <1>00 DEF Quiet, Busy
  <2>4. \A c \in Calls : ~(c.life = current' /\ OnItsWay(c))
    <3> SUFFICES ASSUME NEW c \in Calls, c.life = current', OnItsWay(c) PROVE FALSE
      OBVIOUS
    <3>1. c.id <= seq[c.life] /\ c.id \in Nat /\ c.id > 0 /\ c.life \in Lives
      BY <1>0, Call DEF Numbered
    <3>2. CASE Create
      <4>1. c.life > made
        BY <3>2, <1>0 DEF Create, TypeOK
      <4> QED
        BY <4>1, <3>1, <1>0 DEF Numbered
    <3>3. CASE Destroy
      BY <3>3, <3>1, Facts DEF Destroy
    <3> QED
      BY <3>2, <3>3, <1>1
  <2> QED
    BY <2>1, <2>2, <2>3, <2>4, <1>00, <1>000 DEF Own, OnItsWay, traffic, client,
       threads, workers
<1>2. CASE UNCHANGED <<traffic, current>>
  BY <1>2, <1>00, <1>000 DEF Own, OnItsWay, traffic, client, threads, workers
<1>3. ASSUME NEW t \in Threads, Begin(t) \/ Test(t) PROVE Own'
  <2>1. UNCHANGED <<accessor, seq, client, call, wire, pool, workers>>
    BY <1>3 DEF Begin, Test
  <2>2. \A u \in Threads : step'[u] \in {"insert", "send"} => step'[u] = step[u]
    BY <1>3, <1>0 DEF Begin, Test, Goto, TypeOK
  <2>3. \A c \in Calls : OnItsWay(c)' => OnItsWay(c)
    BY <2>1, <2>2 DEF OnItsWay, workers
  <2> QED
    BY <2>1, <2>2, <2>3, <1>00, <1>000 DEF Own, accessor, client, workers
<1>4. ASSUME NEW t \in Threads, GetNextMessageID(t) PROVE Own'
  <2>1. UNCHANGED <<accessor, client, wire, pool, workers>> /\ copy = current
    BY <1>4, <1>0, <1>00, Current DEF GetNextMessageID
  <2>2. \A u \in Threads : step'[u] \in {"insert", "send"} =>
           IF u = t THEN call'[u].life = current ELSE step'[u] = step[u] /\ call'[u] = call[u]
    BY <1>4, <1>0, <2>1 DEF GetNextMessageID, Goto, TypeOK
  <2>3. \A u \in Threads : step'[u] = "send" => step[u] = "send" /\ call'[u] = call[u]
    BY <1>4, <1>0 DEF GetNextMessageID, Goto, TypeOK
  <2>4. \A c \in Calls : OnItsWay(c)' => OnItsWay(c)
    BY <2>1, <2>3 DEF OnItsWay, workers
  <2> QED
    BY <2>1, <2>2, <2>4, <1>00, <1>000 DEF Own, accessor, client, workers
<1>5. ASSUME NEW t \in Threads, Insert(t) PROVE Own'
  <2>1. UNCHANGED <<accessor, reply, call, wire, pool, workers>> /\ step[t] = "insert"
    BY <1>5 DEF Insert
  <2>2. step' = [step EXCEPT ![t] = "send"] /\ queue' = [queue EXCEPT ![call[t].id] = call[t]]
    BY <1>5 DEF Insert, Goto
  <2>3. call[t] \in Calls /\ call[t].life = current
    BY <2>1, <1>0, <1>00, <1>000 DEF Own, Calling, Holding
  <2>4. \A c \in Calls : OnItsWay(c)' => OnItsWay(c) \/ c = call[t]
    BY <2>1, <2>2, <1>0 DEF OnItsWay, workers, TypeOK
  <2>5. ASSUME NEW c \in Calls, c.life = current', OnItsWay(c)' PROVE queue'[c.id] \in {c, NoCall}
    <3>1. CASE c.id = call[t].id
      <4>1. c = call[t]
        BY <3>1, <2>3, <2>1, <2>5, Call DEF accessor
      <4>2. queue'[call[t].id] = call[t]
        BY <2>2, <2>3, <1>0, Call DEF TypeOK
      <4> QED
        BY <4>1, <4>2
    <3>2. CASE c.id # call[t].id
      <4>1. queue'[c.id] = queue[c.id]
        BY <3>2, <2>2, <1>0, Call DEF TypeOK
      <4>2. OnItsWay(c) /\ c.life = current
        BY <3>2, <2>1, <2>4, <2>5 DEF accessor
      <4> QED
        BY <4>1, <4>2, <1>00, <1>000 DEF Own
    <3> QED
      BY <3>1, <3>2
  <2>6. \A u \in Threads : step'[u] \in {"insert", "send"} => step[u] \in {"insert", "send"}
    BY <2>1, <2>2, <1>0 DEF TypeOK
  <2> QED
    BY <2>1, <2>5, <2>6, <1>00, <1>000 DEF Own, accessor, workers
<1>6. ASSUME NEW t \in Threads, Send(t) PROVE Own'
  <2>1. UNCHANGED <<accessor, client, call, pool, workers>> /\ copy = current /\ step[t] = "send"
    BY <1>6, <1>0, <1>00, Current DEF Send
  <2>2. wire' = wire \cup {<<current, call[t]>>} /\ step' = [step EXCEPT ![t] = "asleep"]
    BY <1>6, <2>1 DEF Send, Goto
  <2>3. call[t].life = current
    BY <2>1, <1>00, <1>000 DEF Own
  <2>4. \A u \in Threads : step'[u] \in {"insert", "send"} => step'[u] = step[u]
    BY <2>2, <1>0 DEF TypeOK
  <2>5. \A c \in Calls : OnItsWay(c)' => OnItsWay(c)
    BY <2>1, <2>2, <2>4 DEF OnItsWay, workers
  <2> QED
    BY <2>1, <2>2, <2>3, <2>4, <2>5, <1>00, <1>000 DEF Own, accessor, client, workers
<1>7. ASSUME NEW t \in Threads, SendFails(t) \/ Wake(t) PROVE Own'
  <2>1. UNCHANGED <<accessor, reply, wire, pool, workers>>
    BY <1>7 DEF SendFails, Wake, client
  <2>2. \A u \in Threads : step'[u] \in {"insert", "send"} => step'[u] = step[u] /\ call'[u] = call[u]
    BY <1>7, <1>0 DEF SendFails, Wake, Return, Goto, TypeOK
  <2>3. \A i \in Ids : queue'[i] \in {queue[i], NoCall}
    BY <1>7, <1>0 DEF SendFails, Wake, client, TypeOK
  <2>4. \A c \in Calls : OnItsWay(c)' => OnItsWay(c)
    BY <2>1, <2>2 DEF OnItsWay, workers
  <2> QED
    BY <2>1, <2>2, <2>3, <2>4, <1>00, <1>000, Call DEF Own, accessor, workers
<1>8. ASSUME NEW i \in Ids, Expire(i) PROVE Own'
  <2>1. UNCHANGED <<accessor, threads, wire, pool, workers>>
    BY <1>8 DEF Expire
  <2>2. \A k \in Ids : queue'[k] \in {queue[k], NoCall}
    BY <1>8, <1>0 DEF Expire, TypeOK
  <2>3. \A c \in Calls : reply'[c] \in {reply[c], Timedout}
    BY <1>8, <1>0 DEF Expire, TypeOK
  <2>4. \A c \in Calls : OnItsWay(c)' => OnItsWay(c)
    BY <2>1 DEF OnItsWay, workers, threads
  <2> QED
    BY <2>1, <2>2, <2>3, <2>4, <1>00, <1>000, Call, Facts DEF Own, accessor, workers,
       threads
<1>9. ASSUME NEW m \in wire, Answer(m) PROVE Own'
  <2>1. UNCHANGED <<accessor, client, threads, workers>> /\ wire' = wire \ {m} /\ pool' = pool \cup {m} /\ m[1] \in alive
    BY <1>9 DEF Answer
  <2>2. m[1] = current
    BY <2>1, <1>0, <1>9 DEF Pointers
  <2>3. \A c \in Calls : OnItsWay(c)' => OnItsWay(c)
    BY <2>1 DEF OnItsWay, workers, threads
  <2> QED
    BY <2>1, <2>2, <2>3, <1>00, <1>000 DEF Own, accessor, workers, threads, client
<1>10. ASSUME NEW k \in alive, Ask(k) PROVE Own'
  <2>1. UNCHANGED <<accessor, client, threads, wire, workers>> /\ pool' = pool \cup {<<k, Request>>}
    BY <1>10 DEF Ask
  <2>2. \A c \in Calls : OnItsWay(c)' => OnItsWay(c)
    BY <2>1, Facts DEF OnItsWay, workers, threads
  <2> QED
    BY <2>1, <2>2, <1>00, <1>000 DEF Own, accessor, workers, threads, client
<1>11. ASSUME NEW w \in Workers, NEW m \in pool, Receive(w, m) PROVE Own'
  <2>1. UNCHANGED <<accessor, client, threads, wire>> /\ pool' = pool \ {m}
    BY <1>11 DEF Receive
  <2>2. \A v \in Workers : delivering'[v] \in {delivering[v]} \cup ({m[2]} \ {Request})
    BY <1>11, <1>0 DEF Receive, TypeOK
  <2>3. \A c \in Calls : OnItsWay(c)' => OnItsWay(c)
    BY <2>1, <2>2, <1>11 DEF OnItsWay, threads
  <2> QED
    BY <2>1, <2>2, <2>3, <1>00, <1>000 DEF Own, accessor, threads, client
<1>12. ASSUME NEW w \in Workers, Response(w) PROVE Own'
  <2> DEFINE d == delivering[w]
  <2>1. UNCHANGED <<accessor, queue, threads, wire, pool>> /\ d # NoCall
    BY <1>12 DEF Response
  <2>2. d \in Calls /\ d.life = current /\ OnItsWay(d)
    BY <2>1, <1>0, <1>00, <1>000 DEF Own, OnItsWay, TypeOK
  <2>3. queue[d.id] \in {d, NoCall}
    BY <2>2, <1>00, <1>000 DEF Own
  <2>4. \A c \in Calls : reply'[c] = reply[c] \/ (c = d /\ reply'[c] = d)
    BY <2>3, <2>2, <1>0, <1>12 DEF Response, TypeOK
  <2>5. \A v \in Workers : delivering'[v] \in {delivering[v], NoCall}
    BY <1>12, <1>0 DEF Response, TypeOK
  <2>6. \A c \in Calls : OnItsWay(c)' => OnItsWay(c)
    BY <2>1, <2>5, Facts DEF OnItsWay, threads
  <2> QED
    BY <2>1, <2>4, <2>5, <2>6, <1>00, <1>000 DEF Own, accessor, threads
<1>13. ASSUME NEW w \in Workers, SendResponse(w) PROVE Own'
  BY <1>13, <1>00, <1>000 DEF SendResponse, Own, OnItsWay, accessor, client, threads
<1> QED
  BY <1>1, <1>2, <1>3, <1>4, <1>5, <1>6, <1>7, <1>8, <1>9, <1>10, <1>11, <1>12, <1>13
     DEF Next, Step, Accessor, Proceed, Work, vars, accessor,
     Connect, Disconnect, Replace, ConfigureAsync, Update, SetTransport, SetTransportReceiver, DisposeAsync

(* A call gets its own answer, although every connection uses the same     *)
(* ids, unless a message or a call met a Connect or Disconnect             *)
(* (Transport.h:279, client.h:165).                                        *)
THEOREM OwnAnswers == SafeSpec => []OwnAnswer
<1>1. Own => OwnAnswer
  BY DEF Own, OwnAnswer
<1>2. TInv /\ TInv' /\ Quiet /\ [Next]_vars => Quiet'
  BY QuietKept
<1>3. TInv /\ TInv' /\ Quiet /\ Numbered /\ Numbered' /\ Own /\ [Next]_vars => Own'
  BY OwnKept
<1> QED
  BY <1>1, <1>2, <1>3, QuietInitially, OwnInitially, NumberedHolds, PTL DEF SafeSpec
=============================================================================
