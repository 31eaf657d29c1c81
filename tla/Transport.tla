----------------------------- MODULE Transport -----------------------------
(***************************************************************************)
(* FireboltSDK::Transport::Transport (Transport.h) on its                  *)
(* CommunicationChannel (CommunicationChannel.h): the life of the link,    *)
(* what the connection listener hears of it, the queue of pending ids,     *)
(* and the destruction of the Transport.                                   *)
(*                                                                         *)
(* The socket is a thread of its own: it changes the state of the link,    *)
(* then calls StateChange.  Transport::_adminLock is held across steps     *)
(* once Send has failed to insert; CommunicationChannel::_adminLock only   *)
(* while Closed, which StateChange calls under it, waits for the former.   *)
(* Register, Unregister and Inbound are one step each.  Both locks are     *)
(* recursive.                                                              *)
(***************************************************************************)
EXTENDS Integers, Sequences

CONSTANTS
    Threads,        \* application threads
    Workers,        \* worker-pool threads running a CommunicationJob
    MaxId,          \* bound: ids CommunicationChannel::Sequence hands out
    RemoteIds,      \* ids the remote gives to its own requests, one each
    WaitSlices,     \* Transport::_waitTime in slices of SLEEPSLOT_TIME
    Infinite,       \* the _waitTime that is never used up
    May,            \* what the environment may do: "drop" the link,
                    \* "disconnect", "return" from the Revoke of a running job
    NoThread        \* no owner of _adminLock

NoId     == 0
LocalIds == 1..MaxId
Ids      == LocalIds \cup RemoteIds

ASSUME TransportAssumption ==
    /\ MaxId \in Nat /\ WaitSlices \in Nat /\ Infinite \in Nat
    /\ RemoteIds \subseteq Nat \ {NoId}
    /\ NoThread \notin Threads \cup Workers

VARIABLES
    link,           \* the socket: IsOpen is "open", IsSuspended is "suspended"
    change,         \* the socket's thread has to call, or is in, StateChange
    closing,        \* it is before Closed, with the channel's _adminLock
    life,           \* where Connect or Disconnect is with this Transport
    registered,     \* the Transport is in CommunicationChannel::_observers
    connected,      \* Transport::_connected
    status,         \* Transport::_status
    heard,          \* the calls of Accessor::ConnectionChanged so far
    job,            \* where the ConnectionJob is
    waiting,        \* the slices it has left
    seq,            \* CommunicationChannel::_sequence
    pendingQueue,   \* ids in Transport::_pendingQueue
    adminLock,      \* the thread that keeps Transport::_adminLock
    step,           \* where each thread is in Client::Request and Send
    call,           \* the id of that call
    inbound,        \* CommunicationJobs waiting for a worker
    arrived,        \* requests the remote has made
    answering       \* the request each worker answers

socket    == <<link, change, closing>>
observer  == <<registered, connected, status, heard>>
connector == <<job, waiting>>
queue     == <<pendingQueue, adminLock>>
threads   == <<step, call>>
requests  == <<inbound, arrived, answering>>
vars      == <<socket, life, observer, connector, seq, queue, threads, requests>>

TypeOK ==
    /\ link \in {"connecting", "open", "suspended", "closed"}
    /\ change \in BOOLEAN
    /\ closing \in BOOLEAN
    /\ life \in {"register", "submit", "up", "revoke", "unregister", "gone"}
    /\ registered \in BOOLEAN
    /\ connected \in BOOLEAN
    /\ status \in {"NotConnected", "None"}
    /\ heard \in Seq([connected : BOOLEAN, error : {"None", "Timedout"}])
    /\ job \in {"none", "queued", "wait", "decide", "notify", "done"}
    /\ waiting \in 0..WaitSlices
    /\ seq \in 0..MaxId
    /\ pendingQueue \subseteq Ids
    /\ adminLock \in Threads \cup {NoThread}
    /\ step \in [Threads -> {"idle", "check", "insert"}]
    /\ call \in [Threads -> LocalIds \cup {NoId}]
    /\ inbound \subseteq arrived
    /\ arrived \subseteq RemoteIds
    /\ answering \in [Workers -> RemoteIds \cup {NoId}]

Init ==
    /\ link = "connecting"
    /\ change = FALSE
    /\ closing = FALSE
    /\ life = "register"
    /\ registered = FALSE
    /\ connected = FALSE
    /\ status = "NotConnected"
    /\ heard = <<>>
    /\ job = "none"
    /\ waiting = WaitSlices
    /\ seq = 0
    /\ pendingQueue = {}
    /\ adminLock = NoThread
    /\ step = [t \in Threads |-> "idle"]
    /\ call = [t \in Threads |-> NoId]
    /\ inbound = {}
    /\ arrived = {}
    /\ answering = [w \in Workers |-> NoId]

-----------------------------------------------------------------------------
IsOpen      == link = "open"
IsSuspended == link = "suspended"

(* _adminLock can be taken by x. *)
Free(x) == adminLock \in {NoThread, x}

(* Accessor::ConnectionChanged, the Transport's _listener. *)
Listener(c, e) == heard' = Append(heard, [connected |-> c, error |-> e])

(* Accessor::_connected *)
IsConnected == heard # <<>> /\ heard[Len(heard)].connected

OpenedAgain ==                                                   (* mutant *)
    /\ status' = "None"
    /\ connected' = TRUE
    /\ Listener(TRUE, "None")

Opened ==
    /\ status' = "None"
    /\ IF connected
       THEN UNCHANGED <<connected, heard>>
       ELSE connected' = TRUE /\ Listener(TRUE, "None")

(* Nobody waits at an entry for its abort. *)
AbortAll == pendingQueue' = {}

-----------------------------------------------------------------------------
(* The socket's thread. *)

Connects ==
    /\ link = "connecting"
    /\ link' = "open"
    /\ change' = TRUE
    /\ UNCHANGED <<closing, life, observer, connector, seq, queue, threads, requests>>

Suspends ==
    /\ "drop" \in May
    /\ IsOpen /\ ~change
    /\ link' = "suspended"
    /\ UNCHANGED <<change, closing, life, observer, connector, seq, queue, threads, requests>>

(* The connection is refused, or ends. *)
Closes ==
    /\ "drop" \in May
    /\ link # "closed" /\ ~change
    /\ link' = "closed"
    /\ change' = TRUE
    /\ UNCHANGED <<closing, life, observer, connector, seq, queue, threads, requests>>

(* The channel calls its observer, if it still has one. *)
StateChange ==
    /\ change /\ ~closing
    /\ \/ /\ registered /\ IsOpen
          /\ Opened
          /\ change' = FALSE /\ UNCHANGED closing
       \/ /\ registered /\ ~IsOpen
          /\ closing' = TRUE
          /\ UNCHANGED <<change, connected, status, heard>>
       \/ /\ ~registered
          /\ change' = FALSE
          /\ UNCHANGED <<closing, connected, status, heard>>
    /\ UNCHANGED <<link, life, registered, connector, seq, queue, threads, requests>>

Closed ==
    /\ closing
    /\ Free(NoThread)
    /\ AbortAll
    /\ IF connected
       THEN connected' = FALSE /\ Listener(FALSE, status)
       ELSE UNCHANGED <<connected, heard>>
    /\ closing' = FALSE /\ change' = FALSE
    /\ UNCHANGED <<link, life, registered, status, connector, seq, adminLock, threads, requests>>

-----------------------------------------------------------------------------
(* Transport::Transport, on the thread of Accessor::Connect. *)

RegisterOnly ==                                                  (* mutant *)
    /\ life = "register" /\ ~closing
    /\ life' = "submit"
    /\ registered' = TRUE
    /\ UNCHANGED <<socket, connected, status, heard, connector, seq, queue, threads, requests>>

Register ==
    /\ life = "register" /\ ~closing
    /\ life' = "submit"
    /\ registered' = TRUE
    /\ IF IsOpen THEN Opened ELSE UNCHANGED <<connected, status, heard>>
    /\ UNCHANGED <<socket, connector, seq, queue, threads, requests>>

(* The ConnectionJob is submitted; Gateway::TransportUpdated follows. *)
SubmitJob ==
    /\ life = "submit"
    /\ life' = "up"
    /\ job' = "queued"
    /\ UNCHANGED <<socket, observer, waiting, seq, queue, threads, requests>>

-----------------------------------------------------------------------------
(* ConnectionJob::Dispatch: WaitForLinkReady, NotifyStatus.  What a job    *)
(* does that is left running when its Transport is gone is undefined, and  *)
(* it takes no step here.                                                  *)

StartJob ==
    /\ job = "queued"
    /\ job' = "wait"
    /\ UNCHANGED <<socket, life, observer, waiting, seq, queue, threads, requests>>

MustWait == waiting > 0 /\ ~IsOpen /\ status = "NotConnected"

SleepSlot ==
    /\ life # "gone" /\ job = "wait"
    /\ MustWait
    /\ waiting' = IF waiting = Infinite THEN waiting ELSE waiting - 1
    /\ UNCHANGED <<socket, life, observer, job, seq, queue, threads, requests>>

WaitEnds ==
    /\ life # "gone" /\ job = "wait"
    /\ ~MustWait
    /\ job' = "decide"
    /\ UNCHANGED <<socket, life, observer, waiting, seq, queue, threads, requests>>

LinkReady ==
    /\ life # "gone" /\ job = "decide"
    /\ job' = IF waiting = 0 \/ IsOpen THEN "done" ELSE "notify"
    /\ UNCHANGED <<socket, life, observer, waiting, seq, queue, threads, requests>>

NotifyStatus ==
    /\ life # "gone" /\ job = "notify"
    /\ job' = "done"
    /\ Listener(FALSE, "Timedout")
    /\ UNCHANGED <<socket, life, registered, connected, status, waiting, seq, queue, threads, requests>>

-----------------------------------------------------------------------------
(* Client::Request and Send.  What the caller does once the message is     *)
(* submitted does not concern the Transport.                               *)

Goto(t, s) == step' = [step EXCEPT ![t] = s]

SequenceAfter == seq                                             (* mutant *)

(* ++_sequence *)
Sequence == seq + 1

(* GetNextMessageID *)
Start(t) ==
    /\ life = "up"
    /\ step[t] = "idle"
    /\ seq < MaxId
    /\ seq' = Sequence
    /\ call' = [call EXCEPT ![t] = Sequence]
    /\ Goto(t, "check")
    /\ UNCHANGED <<socket, life, observer, connector, queue, requests>>

(* A suspended channel takes no message. *)
Check(t) ==
    /\ step[t] = "check"
    /\ Goto(t, IF IsSuspended THEN "idle" ELSE "insert")
    /\ UNCHANGED <<socket, life, observer, connector, seq, queue, call, requests>>

InsertKeepingLock(t) ==                                          (* mutant *)
    /\ step[t] = "insert"
    /\ Free(t)
    /\ call[t] \notin pendingQueue
    /\ pendingQueue' = pendingQueue \cup {call[t]}
    /\ adminLock' = t
    /\ Goto(t, "idle")
    /\ UNCHANGED <<socket, life, observer, connector, seq, call, requests>>

(* The id is new: the lock is released and the message submitted. *)
Insert(t) ==
    /\ step[t] = "insert"
    /\ Free(t)
    /\ call[t] \notin pendingQueue
    /\ pendingQueue' = pendingQueue \cup {call[t]}
    /\ Goto(t, "idle")
    /\ UNCHANGED <<socket, life, observer, connector, seq, adminLock, call, requests>>

(* The id is taken: Send returns ERROR_ASYNC_FAILED and keeps the lock. *)
Collide(t) ==
    /\ step[t] = "insert"
    /\ Free(t)
    /\ call[t] \in pendingQueue
    /\ adminLock' = t
    /\ Goto(t, "idle")
    /\ UNCHANGED <<socket, life, observer, connector, seq, pendingQueue, call, requests>>

-----------------------------------------------------------------------------
(* Requests of the remote. *)

(* CommunicationChannel::Inbound and Transport::Submit.  A request that    *)
(* arrives before SetTransportReceiver finds an uninitialised pointer; it  *)
(* is left out.                                                            *)
Inbound(i) ==
    /\ IsOpen /\ ~change /\ registered /\ life = "up"
    /\ i \notin arrived
    /\ arrived' = arrived \cup {i}
    /\ inbound' = inbound \cup {i}
    /\ UNCHANGED <<socket, life, observer, connector, seq, queue, threads, answering>>

(* CommunicationJob::Dispatch, Receive, Server::Request: a provider is     *)
(* found or not; SendResponse looks whether the channel is suspended.      *)
Dispatch(w, i) ==
    /\ answering[w] = NoId
    /\ i \in inbound
    /\ inbound' = inbound \ {i}
    /\ \/ ~IsSuspended /\ answering' = [answering EXCEPT ![w] = i]
       \/ UNCHANGED answering
    /\ UNCHANGED <<socket, life, observer, connector, seq, queue, threads, arrived>>

(* Whether the id is new or not the lock is released; the answer to an id  *)
(* that is taken is dropped.                                               *)
SendResponse(w) ==
    /\ answering[w] # NoId
    /\ Free(w)
    /\ pendingQueue' = pendingQueue \cup {answering[w]}
    /\ answering' = [answering EXCEPT ![w] = NoId]
    /\ UNCHANGED <<socket, life, observer, connector, seq, adminLock, threads, inbound, arrived>>

-----------------------------------------------------------------------------
(* Transport::~Transport, on the thread of Accessor::Disconnect.  The      *)
(* application has no call under way and the pool no CommunicationJob:     *)
(* neither is waited for.                                                  *)

Disconnect ==
    /\ "disconnect" \in May
    /\ life = "up"
    /\ \A t \in Threads : step[t] = "idle"
    /\ inbound = {} /\ \A w \in Workers : answering[w] = NoId
    /\ life' = "revoke"
    /\ UNCHANGED <<socket, observer, connector, seq, queue, threads, requests>>

(* IWorkerPool::Revoke takes a queued job off, and waits for a running one *)
RevokeJob ==
    /\ life = "revoke"
    /\ job \in {"queued", "done"}
    /\ life' = "unregister"
    /\ job' = "done"
    /\ UNCHANGED <<socket, observer, waiting, seq, queue, threads, requests>>

(* or, in a pool of the other kind, leaves it running. *)
RevokeReturns ==
    /\ "return" \in May
    /\ life = "revoke"
    /\ job \in {"wait", "decide", "notify"}
    /\ life' = "unregister"
    /\ UNCHANGED <<socket, observer, connector, seq, queue, threads, requests>>

(* The last reference to the channel goes too, and closes it. *)
Unregister ==
    /\ life = "unregister" /\ ~closing
    /\ life' = "gone"
    /\ registered' = FALSE
    /\ AbortAll
    /\ link' = "closed"
    /\ change' = (change \/ link # "closed")
    /\ UNCHANGED <<closing, connected, status, heard, connector, seq, adminLock, threads, requests>>

-----------------------------------------------------------------------------
Environment == Connects \/ Suspends \/ Closes \/ Disconnect \/ RevokeReturns \/ \E i \in RemoteIds : Inbound(i)
Connector   == StartJob \/ SleepSlot \/ WaitEnds \/ LinkReady \/ NotifyStatus
Accessor    == Register \/ SubmitJob \/ RevokeJob \/ Unregister
Proceed(t)  == Check(t) \/ Insert(t) \/ Collide(t)
Work(w)     == SendResponse(w) \/ \E i \in RemoteIds : Dispatch(w, i)

Next ==
    \/ Environment
    \/ StateChange \/ Closed
    \/ Connector
    \/ Accessor
    \/ \E t \in Threads : Start(t) \/ Proceed(t)
    \/ \E w \in Workers : Work(w)

SafeSpec == Init /\ [][Next]_vars

Spec ==
    /\ SafeSpec
    /\ WF_vars(StateChange \/ Closed)
    /\ WF_vars(Connector)
    /\ WF_vars(Accessor)
    /\ \A t \in Threads : WF_vars(Proceed(t))
    /\ \A w \in Workers : WF_vars(Work(w))

-----------------------------------------------------------------------------
(* What the link, its listener and the queue of ids promise. *)

(* Between two changes of the link Accessor::IsConnected agrees with the   *)
(* socket, whichever of Register and StateChange saw it open, and whatever *)
(* the ConnectionJob reports.                                              *)
ListenerKnowsLink ==
    registered /\ ~change /\ ~IsSuspended => (IsConnected <=> IsOpen)

(* The listener is told of one link at most once that it is up, although   *)
(* Register and StateChange may both find it open.                         *)
ConnectedOnce ==
    \A j, k \in DOMAIN heard : heard[j].connected /\ heard[k].connected => j = k

(* An id that is inserted into _pendingQueue is never there already: Send  *)
(* and SendResponse ASSERT it.  The client's ids and those the remote      *)
(* gives to its own requests share the map, and entries stay.              *)
InsertedIdsAreNew ==
    [][/\ \A t \in Threads : step[t] = "insert" /\ step'[t] # "insert" => call[t] \notin pendingQueue
       /\ \A w \in Workers : answering[w] # NoId /\ answering'[w] = NoId
                             => answering[w] \notin pendingQueue]_vars

(* Both sides have used an id. *)
IdsMeet == \E i \in arrived : i <= seq

(* As long as the two sides use different ids, sends end and requests of   *)
(* the remote are dealt with: no thread keeps _adminLock, also when the    *)
(* link drops.  Disconnect ends, whether the pool waits for the            *)
(* ConnectionJob or not, unless an id was taken, Send kept the lock, and   *)
(* the socket's thread waits for it with the channel's lock.               *)
OperationsEnd ==
    /\ \A t \in Threads : step[t] # "idle" ~> step[t] = "idle" \/ IdsMeet
    /\ \A w \in Workers : answering[w] # NoId ~> answering[w] = NoId \/ IdsMeet
    /\ life = "revoke" ~> life = "gone" \/ (IdsMeet /\ closing)

(* An application that waits for its connection hears of it within the     *)
(* wait time, good or bad.                                                 *)
SilenceIsReported == life = "up" ~> heard # <<>> \/ life # "up"
=============================================================================
