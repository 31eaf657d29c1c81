-------------------------- MODULE TransportProofs --------------------------
(***************************************************************************)
(* Theorems about module Transport, for any number of threads, workers and *)
(* ids and any wait time.  The invariant relates Transport::_connected,    *)
(* which Opened and Closed test, to the socket and to what the listener    *)
(* was told last; the two differ while a StateChange is due and after the  *)
(* ConnectionJob has reported on a link that is no longer open.            *)
(***************************************************************************)
EXTENDS Transport, TLAPS

News == [connected : BOOLEAN, error : {"None", "Timedout"}]

Types ==
    /\ link \in {"connecting", "open", "suspended", "closed"}
    /\ change \in BOOLEAN
    /\ closing \in BOOLEAN
    /\ life \in {"register", "submit", "up", "revoke", "unregister", "gone"}
    /\ registered \in BOOLEAN
    /\ connected \in BOOLEAN
    /\ status \in {"NotConnected", "None"}
    /\ heard \in Seq(News)
    /\ job \in {"none", "queued", "wait", "decide", "notify", "done"}
    /\ waiting \in Nat

(* The Transport is an observer between its constructor and destructor,    *)
(* and the ConnectionJob is made in the former.                            *)
Life ==
    /\ registered <=> life \in {"submit", "up", "revoke", "unregister"}
    /\ life \in {"register", "submit"} => job = "none"
    /\ life = "register" => ~connected /\ heard = <<>>

(* Closed is called for a link that has ended, of an observer that cannot  *)
(* leave meanwhile; and the job reports only on a link that has been open  *)
(* and is not any more.                                                    *)
Past ==
    /\ closing => change /\ registered /\ link = "closed"
    /\ change => link \in {"open", "closed"}
    /\ connected => status = "None"
    /\ link = "connecting" => ~change /\ ~connected /\ status = "NotConnected"
    /\ job = "decide" /\ waiting > 0 => link # "connecting"
    /\ job = "notify" => link \in {"suspended", "closed"}

Agreement ==
    /\ IsConnected => connected
    /\ connected /\ IsOpen => IsConnected
    /\ registered /\ ~change /\ IsOpen => connected
    /\ registered /\ ~change /\ link = "closed" => ~connected

(* Nobody has been told that this link is up. *)
Untold == \A k \in DOMAIN heard : ~heard[k].connected

Once ==
    /\ ConnectedOnce
    /\ ~connected /\ link # "closed" => Untold

IInv == Types /\ Life /\ Past /\ Agreement /\ Once

link_vars == <<socket, life, observer, connector>>

-----------------------------------------------------------------------------
(* What one call of the listener adds to what it has heard. *)
LEMMA Telling ==
    ASSUME heard \in Seq(News), NEW c \in BOOLEAN, NEW e \in {"None", "Timedout"}, Listener(c, e)
    PROVE  /\ heard' \in Seq(News)
           /\ DOMAIN heard' = DOMAIN heard \cup {Len(heard) + 1}
           /\ \A k \in DOMAIN heard : heard'[k] = heard[k]
           /\ heard'[Len(heard) + 1].connected = c
           /\ IsConnected' = c
<1> DEFINE r == [connected |-> c, error |-> e]
<1>1. r \in News /\ r.connected = c
  BY DEF News
<1>2. heard' = Append(heard, r)
  BY DEF Listener
<1> HIDE DEF r
<1>3. heard' \in Seq(News) /\ Len(heard') = Len(heard) + 1
  BY <1>1, <1>2
<1>4. /\ DOMAIN heard' = DOMAIN heard \cup {Len(heard) + 1}
      /\ \A k \in DOMAIN heard : heard'[k] = heard[k]
      /\ heard'[Len(heard) + 1] = r
  BY <1>1, <1>2
<1>6. IsConnected' = c
  BY <1>1, <1>3, <1>4 DEF IsConnected
<1> QED
  BY <1>1, <1>3, <1>4, <1>6

(* Opened tells the listener that the link is up only if nobody has. *)
LEMMA OpenedOnce ==
    ASSUME IInv, link = "open", Opened
    PROVE  /\ status' = "None" /\ connected' = TRUE /\ heard' \in Seq(News)
           /\ IsConnected' /\ ConnectedOnce'
<1>1. CASE connected
  <2>1. UNCHANGED <<connected, heard>> /\ status' = "None"
    BY <1>1 DEF Opened
  <2> QED
    BY <1>1, <2>1 DEF IInv, Types, Agreement, Once, IsOpen, IsConnected, ConnectedOnce
<1>2. CASE ~connected
  <2>1. status' = "None" /\ connected' = TRUE /\ Listener(TRUE, "None")
    BY <1>2 DEF Opened
  <2>2. heard \in Seq(News) /\ Untold
    BY <1>2 DEF IInv, Types, Once
  <2>3. /\ heard' \in Seq(News)
        /\ DOMAIN heard' = DOMAIN heard \cup {Len(heard) + 1}
        /\ \A k \in DOMAIN heard : heard'[k] = heard[k]
        /\ IsConnected' = TRUE
    BY <2>1, <2>2, Telling
  <2>4. ConnectedOnce'
    BY <2>2, <2>3 DEF Untold, ConnectedOnce
  <2> QED
    BY <2>1, <2>3, <2>4
<1> QED
  BY <1>1, <1>2

(* Bad news never adds to what the listener was told of a link that is up. *)
LEMMA BadNews ==
    ASSUME heard \in Seq(News), NEW e \in {"None", "Timedout"}, Listener(FALSE, e), ConnectedOnce
    PROVE  /\ heard' \in Seq(News) /\ ~IsConnected'
           /\ ConnectedOnce'
           /\ Untold => Untold'
<1>1. /\ heard' \in Seq(News)
      /\ DOMAIN heard' = DOMAIN heard \cup {Len(heard) + 1}
      /\ \A k \in DOMAIN heard : heard'[k] = heard[k]
      /\ heard'[Len(heard) + 1].connected = FALSE
      /\ IsConnected' = FALSE
  BY Telling
<1>2. ConnectedOnce'
  BY <1>1 DEF ConnectedOnce
<1>3. Untold => Untold'
  BY <1>1 DEF Untold
<1> QED
  BY <1>1, <1>2, <1>3

-----------------------------------------------------------------------------
(* Nobody has registered, and nothing has been told. *)
LEMMA Initially == Init => IInv
<1> SUFFICES ASSUME Init PROVE IInv
  OBVIOUS
<1>1. Types
  <2>1. <<>> \in Seq(News)
    OBVIOUS
  <2> QED
    BY <2>1, TransportAssumption DEF Init, Types
<1>2. Life /\ Past
  BY DEF Init, Life, Past
<1>3. DOMAIN heard = {} /\ ~IsConnected
  BY DEF Init, IsConnected
<1>4. Agreement
  BY <1>3 DEF Init, Agreement
<1>5. Once
  BY DEF Init, Once, ConnectedOnce, Untold
<1> QED
  BY <1>1, <1>2, <1>4, <1>5 DEF IInv

(* Calls, and the requests of the remote, leave the link alone. *)
LEMMA LinkUnchanged == IInv /\ UNCHANGED link_vars => IInv'
<1> SUFFICES ASSUME IInv, UNCHANGED link_vars PROVE IInv'
  OBVIOUS
<1>1. UNCHANGED <<link, change, closing, life, registered, connected, status, heard, job, waiting>>
  BY DEF link_vars, socket, observer, connector
<1>2. IsConnected' = IsConnected /\ IsOpen' = IsOpen
  BY <1>1 DEF IsConnected, IsOpen
<1>3. Types' /\ Life' /\ Past'
  BY <1>1 DEF IInv, Types, Life, Past
<1>4. Agreement'
  BY <1>1, <1>2 DEF IInv, Agreement
<1>5. Once'
  BY <1>1 DEF IInv, Once, ConnectedOnce, Untold
<1> QED
  BY <1>3, <1>4, <1>5 DEF IInv

(* Every step of the Transport and of its socket keeps the invariant. *)
LEMMA Inductive == IInv /\ [Next]_vars => IInv'
<1> SUFFICES ASSUME IInv, [Next]_vars PROVE IInv'
  OBVIOUS
<1> USE DEF IInv
<1>1. CASE Connects
  <2>2. Types' /\ Life' /\ Past'
    BY <1>1 DEF Connects, Types, Life, Past, observer, connector
  <2>3. Agreement'
    BY <1>1 DEF Connects, Past, Agreement, IsConnected, observer
  <2>4. Once'
    BY <1>1 DEF Connects, Once, Untold, ConnectedOnce, observer
  <2> QED
    BY <2>2, <2>3, <2>4
<1>2. CASE Suspends
  <2>2. Types' /\ Life' /\ Past'
    BY <1>2 DEF Suspends, Types, Life, Past, observer, connector
  <2>3. Agreement'
    BY <1>2 DEF Suspends, Agreement, IsConnected, observer
  <2>4. Once'
    BY <1>2 DEF Suspends, Once, Untold, ConnectedOnce, IsOpen, observer
  <2> QED
    BY <2>2, <2>3, <2>4
<1>3. CASE Closes
  <2>2. Types' /\ Life' /\ Past'
    BY <1>3 DEF Closes, Types, Life, Past, observer, connector
  <2>3. Agreement'
    BY <1>3 DEF Closes, Agreement, IsOpen, IsConnected, observer
  <2>4. Once'
    BY <1>3 DEF Closes, Once, ConnectedOnce, observer
  <2> QED
    BY <2>2, <2>3, <2>4
<1>4. CASE Disconnect
  <2>2. Types' /\ Life' /\ Past'
    BY <1>4 DEF Disconnect, Types, Life, Past, socket, observer, connector
  <2>3. Agreement'
    BY <1>4 DEF Disconnect, Agreement, IsOpen, IsConnected, socket, observer
  <2>4. Once'
    BY <1>4 DEF Disconnect, Once, Untold, ConnectedOnce, socket, observer
  <2> QED
    BY <2>2, <2>3, <2>4
<1>5. CASE SubmitJob
  <2>2. Types' /\ Life' /\ Past'
    BY <1>5 DEF SubmitJob, Types, Life, Past, socket, observer
  <2>3. Agreement'
    BY <1>5 DEF SubmitJob, Agreement, IsOpen, IsConnected, socket, observer
  <2>4. Once'
    BY <1>5 DEF SubmitJob, Once, Untold, ConnectedOnce, socket, observer
  <2> QED
    BY <2>2, <2>3, <2>4
<1>6. CASE StartJob
  <2>2. Types' /\ Life' /\ Past'
    BY <1>6 DEF StartJob, Types, Life, Past, socket, observer
  <2>3. Agreement'
    BY <1>6 DEF StartJob, Agreement, IsOpen, IsConnected, socket, observer
  <2>4. Once'
    BY <1>6 DEF StartJob, Once, Untold, ConnectedOnce, socket, observer
  <2> QED
    BY <2>2, <2>3, <2>4
<1>7. CASE SleepSlot
  <2>2. Types' /\ Life' /\ Past'
    BY <1>7 DEF SleepSlot, Types, Life, Past, MustWait, socket, observer
  <2>3. Agreement'
    BY <1>7 DEF SleepSlot, Agreement, IsOpen, IsConnected, socket, observer
  <2>4. Once'
    BY <1>7 DEF SleepSlot, Once, Untold, ConnectedOnce, socket, observer
  <2> QED
    BY <2>2, <2>3, <2>4
<1>8. CASE WaitEnds
  <2>2. Types' /\ Life' /\ Past'
    BY <1>8 DEF WaitEnds, Types, Life, Past, IsOpen, MustWait, socket, observer
  <2>3. Agreement'
    BY <1>8 DEF WaitEnds, Agreement, IsOpen, IsConnected, socket, observer
  <2>4. Once'
    BY <1>8 DEF WaitEnds, Once, Untold, ConnectedOnce, socket, observer
  <2> QED
    BY <2>2, <2>3, <2>4
<1>9. CASE LinkReady
  <2>2. Types' /\ Life' /\ Past'
    BY <1>9 DEF LinkReady, Types, Life, Past, IsOpen, socket, observer
  <2>3. Agreement'
    BY <1>9 DEF LinkReady, Agreement, IsOpen, IsConnected, socket, observer
  <2>4. Once'
    BY <1>9 DEF LinkReady, Once, Untold, ConnectedOnce, socket, observer
  <2> QED
    BY <2>2, <2>3, <2>4
<1>10. CASE RevokeJob
  <2>2. Types' /\ Life' /\ Past'
    BY <1>10 DEF RevokeJob, Types, Life, Past, socket, observer
  <2>3. Agreement'
    BY <1>10 DEF RevokeJob, Agreement, IsOpen, IsConnected, socket, observer
  <2>4. Once'
    BY <1>10 DEF RevokeJob, Once, Untold, ConnectedOnce, socket, observer
  <2> QED
    BY <2>2, <2>3, <2>4
<1>11. CASE Unregister
  <2>2. Types' /\ Life' /\ Past'
    BY <1>11 DEF Unregister, Types, Life, Past, connector
  <2>3. Agreement'
    BY <1>11 DEF Unregister, Agreement, IsOpen, IsConnected
  <2>4. Once'
    BY <1>11 DEF Unregister, Once, ConnectedOnce
  <2> QED
    BY <2>2, <2>3, <2>4
<1>12. CASE NotifyStatus
  <2>1. /\ Listener(FALSE, "Timedout") /\ job = "notify" /\ job' = "done"
        /\ UNCHANGED <<link, change, closing, life, registered, connected, status, waiting>>
    BY <1>12 DEF NotifyStatus, socket
  <2>2. /\ heard' \in Seq(News) /\ ~IsConnected'
        /\ ConnectedOnce'
        /\ Untold => Untold'
    BY <2>1, BadNews DEF Types, Once
  <2>3. Types' /\ Life' /\ Past'
    BY <2>1, <2>2 DEF Types, Life, Past
  <2>4. Agreement'
    BY <2>1, <2>2 DEF Past, Agreement, IsOpen
  <2>5. Once'
    BY <2>1, <2>2 DEF Once
  <2> QED
    BY <2>3, <2>4, <2>5
<1>13. CASE Register
  <2>1. /\ life = "register" /\ life' = "submit" /\ registered' = TRUE
        /\ ~closing /\ UNCHANGED <<link, change, closing, job, waiting>>
    BY <1>13 DEF Register, socket, connector
  <2>2. CASE IsOpen
    <3>1. /\ status' = "None" /\ connected' = TRUE /\ heard' \in Seq(News)
          /\ IsConnected' /\ ConnectedOnce'
      BY <1>13, <2>2, OpenedOnce DEF Register, IsOpen
    <3> QED
      BY <2>1, <2>2, <3>1 DEF Types, Life, Past, Agreement, Once, IsOpen
  <2>3. CASE ~IsOpen
    <3>1. UNCHANGED <<connected, status, heard>>
      BY <1>13, <2>3 DEF Register
    <3>2. IsConnected' = IsConnected
      BY <3>1 DEF IsConnected
    <3> QED
      BY <2>1, <2>3, <3>1, <3>2 DEF Types, Life, Past, Agreement, Once, Untold,
         ConnectedOnce, IsOpen
  <2> QED
    BY <2>2, <2>3
<1>14. CASE StateChange
  <2>1. change /\ ~closing /\ UNCHANGED <<link, life, registered, job, waiting>>
    BY <1>14 DEF StateChange, connector
  <2>2. CASE registered /\ IsOpen /\ Opened /\ change' = FALSE /\ UNCHANGED closing
    <3>1. /\ status' = "None" /\ connected' = TRUE /\ heard' \in Seq(News)
          /\ IsConnected' /\ ConnectedOnce'
      BY <2>2, OpenedOnce DEF IsOpen
    <3> QED
      BY <2>1, <2>2, <3>1 DEF Types, Life, Past, Agreement, Once, IsOpen
  <2>3. CASE /\ registered /\ ~IsOpen /\ closing' = TRUE
             /\ UNCHANGED <<change, connected, status, heard>>
    <3>1. link = "closed"
      BY <2>1, <2>3 DEF Past, IsOpen
    <3>2. IsConnected' = IsConnected
      BY <2>3 DEF IsConnected
    <3> QED
      BY <2>1, <2>3, <3>1, <3>2 DEF Types, Life, Past, Agreement, Once, Untold,
         ConnectedOnce, IsOpen
  <2>4. CASE ~registered /\ change' = FALSE /\ UNCHANGED <<closing, connected, status, heard>>
    <3>1. IsConnected' = IsConnected
      BY <2>4 DEF IsConnected
    <3> QED
      BY <2>1, <2>4, <3>1 DEF Types, Life, Past, Agreement, Once, Untold,
         ConnectedOnce, IsOpen
  <2> QED
    BY <1>14, <2>2, <2>3, <2>4 DEF StateChange
<1>15. CASE Closed
  <2>1. /\ closing /\ closing' = FALSE /\ change' = FALSE
        /\ UNCHANGED <<link, life, registered, status, job, waiting>>
    BY <1>15 DEF Closed, connector
  <2>2. link = "closed" /\ registered
    BY <2>1 DEF Past
  <2>3. CASE connected
    <3>1. connected' = FALSE /\ Listener(FALSE, status)
      BY <1>15, <2>3 DEF Closed
    <3>2. status = "None"
      BY <2>3 DEF Past
    <3>3. heard' \in Seq(News) /\ ~IsConnected' /\ ConnectedOnce'
      BY <3>1, <3>2, BadNews DEF Types, Once
    <3> QED
      BY <2>1, <2>2, <3>1, <3>3 DEF Types, Life, Past, Agreement, Once, IsOpen
  <2>4. CASE ~connected
    <3>1. UNCHANGED <<connected, heard>>
      BY <1>15, <2>4 DEF Closed
    <3>2. IsConnected' = IsConnected
      BY <3>1 DEF IsConnected
    <3> QED
      BY <2>1, <2>2, <2>4, <3>1, <3>2 DEF Types, Life, Past, Agreement, Once,
         ConnectedOnce, IsOpen
  <2> QED
    BY <2>3, <2>4
<1>16. CASE RevokeReturns
  <2>2. Types' /\ Life' /\ Past'
    BY <1>16 DEF RevokeReturns, Types, Life, Past, socket, observer, connector
  <2>3. Agreement'
    BY <1>16 DEF RevokeReturns, Agreement, IsOpen, IsConnected, socket, observer
  <2>4. Once'
    BY <1>16 DEF RevokeReturns, Once, Untold, ConnectedOnce, socket, observer
  <2> QED
    BY <2>2, <2>3, <2>4
<1>17. ASSUME NEW t \in Threads, Start(t) \/ Proceed(t)
      PROVE  IInv'
  BY <1>17, LinkUnchanged DEF Start, Proceed, Check, Insert, Collide, link_vars
<1>18. ASSUME NEW w \in Workers, Work(w)
      PROVE  IInv'
  BY <1>18, LinkUnchanged DEF Work, Dispatch, SendResponse, link_vars
<1>19. ASSUME NEW i \in RemoteIds, Inbound(i)
      PROVE  IInv'
  BY <1>19, LinkUnchanged DEF Inbound, link_vars
<1>20. CASE UNCHANGED vars
  BY <1>20, LinkUnchanged DEF vars, link_vars
<1> QED
  BY <1>1, <1>2, <1>3, <1>4, <1>5, <1>6, <1>7, <1>8, <1>9, <1>10, <1>11, <1>12,
     <1>13, <1>14, <1>15, <1>16, <1>17, <1>18, <1>19, <1>20
     DEF Next, Environment, Connector, Accessor

-----------------------------------------------------------------------------
(* The invariant holds in every reachable state. *)
LEMMA Invariance == SafeSpec => []IInv
<1>1. Init => IInv
  BY Initially
<1>2. IInv /\ [Next]_vars => IInv'
  BY Inductive
<1> QED
  BY <1>1, <1>2, PTL DEF SafeSpec

(* Between two changes of the link what the listener was told last agrees  *)
(* with the socket: Register does not miss a link that is already open,    *)
(* and the ConnectionJob's report never hides one.                         *)
THEOREM ListenerAgrees == SafeSpec => []ListenerKnowsLink
<1>1. IInv => ListenerKnowsLink
  BY DEF IInv, Types, Past, Agreement, ListenerKnowsLink, IsOpen, IsSuspended
<1> QED
  BY <1>1, Invariance, PTL

(* The listener hears of one link at most once that it is up. *)
THEOREM ToldOnce == SafeSpec => []ConnectedOnce
<1>1. IInv => ConnectedOnce
  BY DEF IInv, Once
<1> QED
  BY <1>1, Invariance, PTL

-----------------------------------------------------------------------------
(***************************************************************************)
(* The queue of pending ids, which the calls of the client and the         *)
(* requests of the remote share.                                           *)
(***************************************************************************)

Steps == {"idle", "check", "insert"}

(* The types of what belongs to the calls and requests. *)
QueueTypes ==
    /\ waiting \in 0..WaitSlices
    /\ seq \in 0..MaxId
    /\ pendingQueue \subseteq Ids
    /\ adminLock \in Threads \cup {NoThread}
    /\ step \in [Threads -> Steps]
    /\ call \in [Threads -> LocalIds \cup {NoId}]
    /\ inbound \subseteq arrived
    /\ arrived \subseteq RemoteIds
    /\ answering \in [Workers -> RemoteIds \cup {NoId}]

(* Every call has an id of its own that Sequence has handed out, which is  *)
(* pending before its message is inserted only if the remote uses it too.  *)
Calls ==
    /\ \A t \in Threads : step[t] # "idle" => call[t] \in 1..seq
    /\ \A t, u \in Threads : step[t] # "idle" /\ step[u] # "idle" /\ call[t] = call[u] => t = u
    /\ \A t \in Threads : step[t] # "idle" /\ call[t] \in pendingQueue => call[t] \in arrived

(* Every request of the remote is in one place, and its id is pending      *)
(* before it is answered only if the client uses it too.                   *)
Requests ==
    /\ \A w \in Workers : answering[w] # NoId => answering[w] \in arrived \ inbound
    /\ \A v, w \in Workers : answering[v] # NoId /\ answering[v] = answering[w] => v = w
    /\ \A i \in pendingQueue :
          i \in 1..seq \/ (i \in arrived \ inbound /\ \A w \in Workers : answering[w] # i)

QInv == QueueTypes /\ Calls /\ Requests

-----------------------------------------------------------------------------
(* What the constants are. *)
LEMMA Numbers ==
  /\ MaxId \in Nat /\ WaitSlices \in Nat /\ NoId = 0
  /\ \A i \in RemoteIds : i \in Nat /\ i # NoId
  /\ LocalIds = 1..MaxId /\ Ids = LocalIds \cup RemoteIds
  BY TransportAssumption DEF NoId, LocalIds, Ids

(* Nothing is pending at first. *)
LEMMA QInitially == Init => QInv
<1> SUFFICES ASSUME Init PROVE QInv
  OBVIOUS
<1>1. QueueTypes
  BY Numbers DEF Init, QueueTypes, Steps
<1>2. Calls /\ Requests
  BY DEF Init, Calls, Requests
<1> QED
  BY <1>1, <1>2 DEF QInv

(* What happens to the link, in the constructor and in the ConnectionJob   *)
(* leaves calls and requests alone.                                        *)
LEMMA QueueUnchanged ==
  ASSUME QInv, UNCHANGED <<seq, queue, threads, requests>>, waiting' \in 0..WaitSlices
  PROVE  QInv'
<1>1. UNCHANGED <<seq, pendingQueue, adminLock, step, call, inbound, arrived, answering>>
  BY DEF queue, threads, requests
<1>2. QueueTypes'
  BY <1>1 DEF QInv, QueueTypes
<1>3. Calls' /\ Requests'
  BY <1>1 DEF QInv, Calls, Requests
<1> QED
  BY <1>2, <1>3 DEF QInv

(* An empty queue meets no id. *)
LEMMA QueueAborted ==
  ASSUME QInv, AbortAll, UNCHANGED <<seq, adminLock, threads, requests, waiting>>
  PROVE  QInv'
<1>1. UNCHANGED <<seq, adminLock, step, call, inbound, arrived, answering, waiting>>
      /\ pendingQueue' = {}
  BY DEF threads, requests, AbortAll
<1>2. QueueTypes'
  BY <1>1 DEF QInv, QueueTypes
<1>3. Calls' /\ Requests'
  BY <1>1 DEF QInv, Calls, Requests
<1> QED
  BY <1>2, <1>3 DEF QInv

(* Every step of the Transport, its calls and its requests keeps these. *)
LEMMA QInductive == QInv /\ [Next]_vars => QInv'
<1> SUFFICES ASSUME QInv, [Next]_vars PROVE QInv'
  OBVIOUS
<1>0. QueueTypes /\ Calls /\ Requests
  BY DEF QInv
<1>1. CASE Connects \/ Suspends \/ Closes \/ Disconnect \/ RevokeReturns \/ Register \/ SubmitJob
           \/ RevokeJob \/ StartJob \/ WaitEnds \/ LinkReady \/ NotifyStatus \/ StateChange
  <2>1. UNCHANGED <<seq, queue, threads, requests, waiting>>
    BY <1>1 DEF Connects, Suspends, Closes, Disconnect, RevokeReturns, Register, SubmitJob,
       RevokeJob, StartJob, WaitEnds, LinkReady, NotifyStatus, StateChange, connector
  <2> QED
    BY <1>0, <2>1, QueueUnchanged DEF QueueTypes
<1>2. CASE SleepSlot
  <2>1. waiting' \in 0..WaitSlices
    BY <1>0, <1>2, Numbers DEF SleepSlot, MustWait, QueueTypes
  <2> QED
    BY <1>2, <2>1, QueueUnchanged DEF SleepSlot
<1>3. CASE Closed
  BY <1>3, QueueAborted DEF Closed, connector
<1>4. CASE Unregister
  BY <1>4, QueueAborted DEF Unregister, connector
<1>5. ASSUME NEW t \in Threads, Start(t) PROVE QInv'
  <2>1. /\ step[t] = "idle" /\ seq < MaxId /\ seq' = seq + 1
        /\ call' = [call EXCEPT ![t] = seq + 1]
        /\ step' = [step EXCEPT ![t] = "check"]
        /\ UNCHANGED <<waiting, pendingQueue, adminLock, inbound, arrived, answering>>
    BY <1>5 DEF Start, Sequence, Goto, connector, queue, requests
  <2>2. seq \in Nat /\ seq + 1 \in LocalIds /\ \A i \in 1..seq : i \in 1..(seq + 1) /\ i # seq + 1
    BY <1>0, <2>1, Numbers DEF QueueTypes
  <2>3. QueueTypes'
    BY <1>0, <2>1, <2>2, Numbers DEF QueueTypes, Steps
  <2>4. Calls'
    <3>1. \A u \in Threads : step'[u] # "idle" => call'[u] \in 1..seq'
      BY <1>0, <2>1, <2>2 DEF QueueTypes, Calls
    <3>2. \A u, v \in Threads : step'[u] # "idle" /\ step'[v] # "idle" /\ call'[u] = call'[v] => u = v
      BY <1>0, <2>1, <2>2 DEF QueueTypes, Calls
    <3>3. seq + 1 \in pendingQueue => seq + 1 \in arrived
      BY <1>0, <2>2 DEF Requests
    <3> QED
      BY <1>0, <2>1, <3>1, <3>2, <3>3 DEF QueueTypes, Calls
  <2>5. Requests'
    BY <1>0, <2>1, <2>2 DEF Requests
  <2> QED
    BY <2>3, <2>4, <2>5 DEF QInv
<1>6. ASSUME NEW t \in Threads, Check(t) \/ Collide(t) PROVE QInv'
  <2>1. PICK s \in {"idle", "insert"} :
          /\ step[t] # "idle" /\ step' = [step EXCEPT ![t] = s]
          /\ adminLock' \in {adminLock, t}
          /\ UNCHANGED <<waiting, seq, pendingQueue, call, inbound, arrived, answering>>
    BY <1>6 DEF Check, Collide, Goto, connector, queue, requests
  <2>2. QueueTypes'
    BY <1>0, <2>1 DEF QueueTypes, Steps
  <2>3. Calls'
    BY <1>0, <2>1 DEF QueueTypes, Calls
  <2>4. Requests'
    BY <1>0, <2>1 DEF Requests
  <2> QED
    BY <2>2, <2>3, <2>4 DEF QInv
<1>7. ASSUME NEW t \in Threads, Insert(t) PROVE QInv'
  <2>1. /\ step[t] = "insert" /\ step' = [step EXCEPT ![t] = "idle"]
        /\ pendingQueue' = pendingQueue \cup {call[t]}
        /\ UNCHANGED <<waiting, seq, adminLock, call, inbound, arrived, answering>>
    BY <1>7 DEF Insert, Goto, connector, requests
  <2>2. call[t] \in 1..seq /\ call[t] \in Ids
    <3>1. call[t] \in 1..seq
      BY <1>0, <2>1 DEF Calls
    <3> QED
      BY <1>0, <3>1, Numbers DEF QueueTypes
  <2>3. QueueTypes'
    BY <1>0, <2>1, <2>2 DEF QueueTypes, Steps
  <2>4. Calls'
    BY <1>0, <2>1, <2>2 DEF QueueTypes, Calls
  <2>5. Requests'
    BY <1>0, <2>1, <2>2 DEF Requests
  <2> QED
    BY <2>3, <2>4, <2>5 DEF QInv
<1>8. ASSUME NEW i \in RemoteIds, Inbound(i) PROVE QInv'
  <2>1. /\ i \notin arrived /\ arrived' = arrived \cup {i} /\ inbound' = inbound \cup {i}
        /\ UNCHANGED <<waiting, seq, pendingQueue, adminLock, step, call, answering>>
    BY <1>8 DEF Inbound, connector, queue, threads
  <2>2. QueueTypes'
    BY <1>0, <2>1 DEF QueueTypes
  <2>3. Calls'
    BY <1>0, <2>1 DEF Calls
  <2>4. Requests'
    BY <1>0, <2>1 DEF Requests
  <2> QED
    BY <2>2, <2>3, <2>4 DEF QInv
<1>9. ASSUME NEW w \in Workers, NEW i \in RemoteIds, Dispatch(w, i) PROVE QInv'
  <2>1. /\ answering[w] = NoId /\ i \in inbound /\ inbound' = inbound \ {i}
        /\ answering' = [answering EXCEPT ![w] = i] \/ answering' = answering
        /\ UNCHANGED <<waiting, seq, pendingQueue, adminLock, step, call, arrived>>
    BY <1>9 DEF Dispatch, connector, queue, threads
  <2>2. QueueTypes'
    BY <1>0, <2>1 DEF QueueTypes
  <2>3. Calls'
    BY <1>0, <2>1 DEF Calls
  <2>4. Requests'
    <3>1. i \in arrived /\ i # NoId
      BY <1>0, <2>1, Numbers DEF QueueTypes
    <3>2. \A v \in Workers : answering[v] # i
      BY <1>0, <2>1, <3>1 DEF Requests
    <3>3. \A v \in Workers : answering'[v] # NoId => answering'[v] \in arrived' \ inbound'
      BY <1>0, <2>1, <3>1, <3>2 DEF QueueTypes, Requests
    <3>4. \A u, v \in Workers : answering'[u] # NoId /\ answering'[u] = answering'[v] => u = v
      BY <1>0, <2>1, <3>1, <3>2 DEF QueueTypes, Requests
    <3>5. \A j \in pendingQueue' :
             j \in 1..seq' \/ (j \in arrived' \ inbound' /\ \A v \in Workers : answering'[v] # j)
      BY <1>0, <2>1, <3>1, <3>2 DEF QueueTypes, Requests
    <3> QED
      BY <3>3, <3>4, <3>5 DEF Requests
  <2> QED
    BY <2>2, <2>3, <2>4 DEF QInv
<1>10. ASSUME NEW w \in Workers, SendResponse(w) PROVE QInv'
  <2>1. /\ answering[w] # NoId /\ answering' = [answering EXCEPT ![w] = NoId]
        /\ pendingQueue' = pendingQueue \cup {answering[w]}
        /\ UNCHANGED <<waiting, seq, adminLock, step, call, inbound, arrived>>
    BY <1>10 DEF SendResponse, connector, threads
  <2>2. answering[w] \in RemoteIds /\ answering[w] \in arrived \ inbound
    BY <1>0, <2>1 DEF QueueTypes, Requests
  <2>3. QueueTypes'
    BY <1>0, <2>1, <2>2, Numbers DEF QueueTypes
  <2>4. Calls'
    BY <1>0, <2>1, <2>2 DEF Calls
  <2>5. Requests'
    <3>1. \A v \in Workers \ {w} : answering[v] # answering[w]
      BY <1>0, <2>1 DEF Requests
    <3>2. \A v \in Workers : answering'[v] # NoId => answering'[v] \in arrived' \ inbound'
      BY <1>0, <2>1 DEF QueueTypes, Requests
    <3>3. \A u, v \in Workers : answering'[u] # NoId /\ answering'[u] = answering'[v] => u = v
      BY <1>0, <2>1 DEF QueueTypes, Requests
    <3>4. \A j \in pendingQueue' :
             j \in 1..seq' \/ (j \in arrived' \ inbound' /\ \A v \in Workers : answering'[v] # j)
      <4>1. \A v \in Workers : answering'[v] # answering[w]
        BY <1>0, <2>1, <2>2, <3>1, Numbers DEF QueueTypes
      <4>2. ASSUME NEW j \in pendingQueue
            PROVE  j \in 1..seq \/ (j \in arrived \ inbound /\ \A v \in Workers : answering'[v] # j)
        <5>1. CASE j \in 1..seq
          BY <5>1
        <5>2. CASE j \notin 1..seq
          <6>1. j \in arrived \ inbound /\ \A v \in Workers : answering[v] # j
            BY <1>0, <5>2 DEF Requests
          <6>2. j # NoId
            BY <1>0, Numbers DEF QueueTypes
          <6> QED
            BY <1>0, <2>1, <6>1, <6>2 DEF QueueTypes
        <5> QED
          BY <5>1, <5>2
      <4> QED
        BY <2>1, <2>2, <4>1, <4>2
    <3> QED
      BY <3>2, <3>3, <3>4 DEF Requests
  <2> QED
    BY <2>3, <2>4, <2>5 DEF QInv
<1>11. CASE UNCHANGED vars
  <2>1. UNCHANGED <<waiting, seq, queue, threads, requests>>
    BY <1>11 DEF vars, connector
  <2> QED
    BY <1>0, <2>1, QueueUnchanged DEF QueueTypes
<1> QED
  BY <1>1, <1>2, <1>3, <1>4, <1>5, <1>6, <1>7, <1>8, <1>9, <1>10, <1>11
     DEF Next, Environment, Connector, Accessor, Proceed, Work

(* Both invariants hold in every reachable state. *)
LEMMA QInvariance == SafeSpec => [](IInv /\ QInv)
<1>1. Init => QInv
  BY QInitially
<1>2. QInv /\ [Next]_vars => QInv'
  BY QInductive
<1> QED
  BY <1>1, <1>2, Invariance, PTL DEF SafeSpec

-----------------------------------------------------------------------------
(* The variables of Transport.h and CommunicationChannel.h keep their      *)
(* types, for any number of threads, workers and ids and any wait time.    *)
THEOREM TypeCorrect == SafeSpec => []TypeOK
<1>1. IInv /\ QInv => TypeOK
  BY DEF IInv, Types, News, QInv, QueueTypes, Steps, TypeOK
<1> QED
  BY <1>1, QInvariance, PTL

(* If the remote never gives a request an id that Sequence hands out, no   *)
(* id is in _pendingQueue already when Send or SendResponse inserts it,    *)
(* however many entries stay behind and whatever the link does: the        *)
(* ASSERTs of both hold, and Send never keeps _adminLock.                  *)
THEOREM SeparateIdsAreNew ==
    ASSUME RemoteIds \cap LocalIds = {}
    PROVE  SafeSpec => InsertedIdsAreNew
<1> DEFINE Calling ==
      \A t \in Threads : step[t] = "insert" /\ step'[t] # "insert" => call[t] \notin pendingQueue
<1> DEFINE Answering ==
      \A w \in Workers :
         answering[w] # NoId /\ answering'[w] = NoId => answering[w] \notin pendingQueue
<1>1. QInv => Calling
  <2> SUFFICES ASSUME QInv, NEW t \in Threads, step[t] = "insert", call[t] \in pendingQueue
               PROVE  FALSE
    OBVIOUS
  <2>1. call[t] \in 1..seq /\ call[t] \in arrived
    BY DEF QInv, Calls
  <2> QED
    BY <2>1, Numbers DEF QInv, QueueTypes
<1>2. QInv => Answering
  <2> SUFFICES ASSUME QInv, NEW w \in Workers, answering[w] # NoId, answering[w] \in pendingQueue
               PROVE  FALSE
    OBVIOUS
  <2>1. answering[w] \in 1..seq /\ answering[w] \in RemoteIds
    BY DEF QInv, Requests, QueueTypes
  <2> QED
    BY <2>1, Numbers DEF QInv, QueueTypes
<1>3. QInv /\ [Next]_vars => [Calling /\ Answering]_vars
  BY <1>1, <1>2
<1> QED
  BY <1>3, QInvariance, PTL DEF SafeSpec, InsertedIdsAreNew
=============================================================================
