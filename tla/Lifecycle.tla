----------------------------- MODULE Lifecycle -----------------------------
(***************************************************************************)
(* Connect and Disconnect, again and again, while the application calls    *)
(* methods and the pool delivers messages: who holds which pointer to a    *)
(* FireboltSDK::Transport::Transport (Accessor.h, Accessor.cpp,            *)
(* gateway_impl.h, Gateway.cpp, Async.cpp), and what becomes of the calls  *)
(* whose connection is gone (client.h).                                    *)
(*                                                                         *)
(* Every Transport comes with a new CommunicationChannel, whose message    *)
(* ids start again from 1, while Client::queue outlives them all.  No lock *)
(* protects the pointers: a step is at most one access to one of them.  A  *)
(* step through a pointer to a Transport that is not there has no defined  *)
(* outcome and is not taken; InDanger says that one is due.                *)
(***************************************************************************)
EXTENDS Integers

CONSTANTS
    Threads,        \* application threads that issue requests
    Workers,        \* threads of the pool
    MaxLives,       \* bound: Transports made
    MaxId,          \* bound: message ids of one channel
    NoCall,         \* no call
    Timedout,       \* Firebolt::Error::Timedout of the watchdog
    Request,        \* a request of the remote, as opposed to an answer
    Nothing         \* no request being served

Null     == 0
Unset    == -1      \* an indeterminate pointer
Lives    == 1..MaxLives
Ids      == 1..MaxId
Calls    == [life : Lives, id : Ids]
Messages == Lives \X (Calls \cup {Request})

ASSUME LifecycleAssumption ==
    /\ MaxLives \in Nat /\ MaxId \in Nat
    /\ {NoCall, Timedout, Request} \cap Calls = {}
    /\ NoCall # Timedout
    /\ Nothing \notin Int

VARIABLES
    op,             \* where Accessor::Connect or Disconnect is
    made,           \* Transports made so far
    current,        \* Accessor::_transport
    alive,          \* Transports that exist
    receivers,      \* those whose _transportReceiver is set
    async,          \* Async::_singleton, behind the pointer Instance keeps
    gateway,        \* GatewayImpl::transport
    copy,           \* Client::transport
    seq,            \* CommunicationChannel::_sequence of each Transport
    queue,          \* Client::queue
    reply,          \* what each call's Caller was completed with
    step,           \* where each thread is in Gateway::Request
    call,           \* its call
    wire,           \* calls the remote has not answered, with their Transport
    pool,           \* CommunicationJobs: messages, with their Transport
    delivering,     \* the answer each worker is about to hand to its Caller
    serving,        \* the Transport for the answer of the provider it runs
    overlap         \* history: messages or calls met a Connect or Disconnect

client   == <<queue, reply>>
threads  == <<step, call>>
workers  == <<delivering, serving>>
traffic  == <<seq, client, threads, wire, pool, workers>>
accessor == <<op, made, current, alive, receivers, async, gateway, copy>>
vars     == <<accessor, traffic, overlap>>

TypeOK ==
    /\ op \in {"idle", "replace", "create", "configure", "update", "tell",
               "receive", "dispose", "forget", "untell", "destroy"}
    /\ made \in 0..MaxLives
    /\ current \in Lives \cup {Null}
    /\ alive \subseteq Lives /\ receivers \subseteq Lives
    /\ async \in {"none", "alive", "deleted"}
    /\ {gateway, copy} \subseteq Lives \cup {Null, Unset}
    /\ seq \in [Lives -> 0..MaxId]
    /\ queue \in [Ids -> Calls \cup {NoCall}]
    /\ reply \in [Calls -> Calls \cup {NoCall, Timedout}]
    /\ step \in [Threads -> {"idle", "test", "next", "insert", "send", "asleep"}]
    /\ call \in [Threads -> Calls \cup {NoCall}]
    /\ wire \subseteq Lives \X Calls
    /\ pool \subseteq Messages
    /\ delivering \in [Workers -> Calls \cup {NoCall}]
    /\ serving \in [Workers -> Lives \cup {Null, Unset, Nothing}]
    /\ overlap \in BOOLEAN

(* Accessor::Accessor; GatewayImpl leaves its pointers unset. *)
Init ==
    /\ op = "idle" /\ made = 0 /\ current = Null
    /\ alive = {} /\ receivers = {} /\ async = "none"
    /\ gateway = Unset /\ copy = Unset
    /\ seq = [k \in Lives |-> 0]
    /\ queue = [i \in Ids |-> NoCall]
    /\ reply = [c \in Calls |-> NoCall]
    /\ step = [t \in Threads |-> "idle"]
    /\ call = [t \in Threads |-> NoCall]
    /\ wire = {} /\ pool = {}
    /\ delivering = [w \in Workers |-> NoCall]
    /\ serving = [w \in Workers |-> Nothing]
    /\ overlap = FALSE

-----------------------------------------------------------------------------
(* Accessor::Connect *)

Connect ==
    /\ op = "idle"
    /\ made < MaxLives
    /\ op' = IF current = Null THEN "create" ELSE "replace"
    /\ UNCHANGED <<made, current, alive, receivers, async, gateway, copy, traffic>>

(* CreateTransport deletes the Transport of an earlier Connect; the        *)
(* gateway goes on pointing to it.                                         *)
Replace ==
    /\ op = "replace"
    /\ alive' = alive \ {current}
    /\ op' = "create"
    /\ UNCHANGED <<made, current, receivers, async, gateway, copy, traffic>>

(* A new Transport, its receiver not initialised, on a channel of its own: *)
(* the map of channels has let go of the old one.                          *)
Create ==
    /\ op = "create"
    /\ made' = made + 1
    /\ current' = made + 1
    /\ alive' = alive \cup {made + 1}
    /\ op' = "configure"
    /\ UNCHANGED <<receivers, async, gateway, copy, traffic>>

(* Async::Instance makes its object the first time only. *)
ConfigureAsync ==
    /\ op = "configure"
    /\ async' = IF async = "none" THEN "alive" ELSE async
    /\ op' = "update"
    /\ UNCHANGED <<made, current, alive, receivers, gateway, copy, traffic>>

(* Gateway::TransportUpdated writes two pointers, and to the Transport.     *)
Update ==
    /\ op \in {"update", "forget"}
    /\ gateway' = IF op = "update" THEN current ELSE Null
    /\ op' = IF op = "update" THEN "tell" ELSE "untell"
    /\ UNCHANGED <<made, current, alive, receivers, async, copy, traffic>>

SetTransportOnly ==                                              (* mutant *)
    /\ op \in {"tell", "untell"}
    /\ copy' = IF op = "tell" THEN gateway ELSE copy
    /\ op' = IF op = "tell" THEN "receive" ELSE "destroy"
    /\ UNCHANGED <<made, current, alive, receivers, async, gateway, traffic>>

SetTransport ==
    /\ op \in {"tell", "untell"}
    /\ copy' = gateway
    /\ op' = IF op = "tell" THEN "receive" ELSE "destroy"
    /\ UNCHANGED <<made, current, alive, receivers, async, gateway, traffic>>

SetReceiverNowhere ==                                            (* mutant *)
    /\ op = "receive"
    /\ op' = "idle"
    /\ UNCHANGED <<made, current, alive, receivers, async, gateway, copy, traffic>>

SetTransportReceiver ==
    /\ op = "receive"
    /\ receivers' = receivers \cup {current}
    /\ op' = "idle"
    /\ UNCHANGED <<made, current, alive, async, gateway, copy, traffic>>

-----------------------------------------------------------------------------
(* Accessor::Disconnect *)

Disconnect ==
    /\ op = "idle"
    /\ current # Null
    /\ op' = "dispose"
    /\ UNCHANGED <<made, current, alive, receivers, async, gateway, copy, traffic>>

DisposeAsync ==
    /\ op = "dispose"
    /\ async' = "deleted"
    /\ op' = "forget"
    /\ UNCHANGED <<made, current, alive, receivers, gateway, copy, traffic>>

(* DestroyTransport.  Messages in the pool are not waited for. *)
Destroy ==
    /\ op = "destroy"
    /\ alive' = alive \ {current}
    /\ current' = Null
    /\ op' = "idle"
    /\ UNCHANGED <<made, receivers, async, gateway, copy, traffic>>

-----------------------------------------------------------------------------
(* Gateway::Request on an application thread *)

Goto(t, s) == step' = [step EXCEPT ![t] = s]

(* GatewayImpl tests its pointer and Client its own; an unset one may be   *)
(* anything.  A null one ends the call with NotConnected.                  *)
Begin(t) ==
    /\ step[t] = "idle"
    /\ gateway # Null
    /\ Goto(t, "test")
    /\ UNCHANGED <<accessor, seq, client, call, wire, pool, workers>>

Test(t) ==
    /\ step[t] = "test"
    /\ Goto(t, IF copy = Null THEN "idle" ELSE "next")
    /\ UNCHANGED <<accessor, seq, client, call, wire, pool, workers>>

(* The pointer is read again.  The new id follows the last one. *)
NextIdAfter(k) == seq[k]                                         (* mutant *)

NextId(k) == seq[k] + 1

GetNextMessageID(t) ==
    /\ step[t] = "next"
    /\ copy \in alive
    /\ seq[copy] < MaxId
    /\ seq' = [seq EXCEPT ![copy] = seq[copy] + 1]
    /\ call' = [call EXCEPT ![t] = [life |-> copy, id |-> NextId(copy)]]
    /\ Goto(t, "insert")
    /\ UNCHANGED <<accessor, client, wire, pool, workers>>

InsertNothing(t) ==                                              (* mutant *)
    /\ step[t] = "insert"
    /\ Goto(t, "send")
    /\ UNCHANGED <<accessor, seq, client, call, wire, pool, workers>>

InsertIfAbsent(t) ==                                             (* mutant *)
    /\ step[t] = "insert"
    /\ queue' = [queue EXCEPT ![call[t].id] = IF @ = NoCall THEN call[t] ELSE @]
    /\ Goto(t, "send")
    /\ UNCHANGED <<accessor, seq, reply, call, wire, pool, workers>>

(* queue[id] = c replaces what an earlier connection left there. *)
Insert(t) ==
    /\ step[t] = "insert"
    /\ queue' = [queue EXCEPT ![call[t].id] = call[t]]
    /\ Goto(t, "send")
    /\ UNCHANGED <<accessor, seq, reply, call, wire, pool, workers>>

(* And again: the message may go over a later connection than its id.      *)
Send(t) ==
    /\ step[t] = "send"
    /\ copy \in alive
    /\ wire' = wire \cup {<<copy, call[t]>>}
    /\ Goto(t, "asleep")
    /\ UNCHANGED <<accessor, seq, client, call, pool, workers>>

Return(t) ==
    /\ Goto(t, "idle")
    /\ call' = [call EXCEPT ![t] = NoCall]

SendFails(t) ==
    /\ step[t] = "send"
    /\ copy \in alive
    /\ Return(t)
    /\ UNCHANGED <<accessor, seq, client, wire, pool, workers>>

(* The Caller is ready: the entry of its id is erased, whosever it is. *)
Wake(t) ==
    /\ step[t] = "asleep"
    /\ reply[call[t]] # NoCall
    /\ queue' = [queue EXCEPT ![call[t].id] = NoCall]
    /\ Return(t)
    /\ UNCHANGED <<accessor, seq, reply, wire, pool, workers>>

-----------------------------------------------------------------------------
ExpireSilently(i) ==                                             (* mutant *)
    /\ queue[i] # NoCall
    /\ queue' = [queue EXCEPT ![i] = NoCall]
    /\ UNCHANGED <<accessor, seq, reply, threads, wire, pool, workers>>

(* Client's watchdog gives up on the entry of an id. *)
Expire(i) ==
    /\ queue[i] # NoCall
    /\ reply' = [reply EXCEPT ![queue[i]] = Timedout]
    /\ queue' = [queue EXCEPT ![i] = NoCall]
    /\ UNCHANGED <<accessor, seq, threads, wire, pool, workers>>

(* The remote answers a call, or makes a request of its own: the message   *)
(* becomes a CommunicationJob with the address of its Transport.           *)
Answer(m) ==
    /\ m \in wire
    /\ m[1] \in alive
    /\ wire' = wire \ {m}
    /\ pool' = pool \cup {m}
    /\ UNCHANGED <<accessor, seq, client, threads, workers>>

Ask(k) ==
    /\ k \in alive
    /\ pool' = pool \cup {<<k, Request>>}
    /\ UNCHANGED <<accessor, seq, client, threads, wire, workers>>

-----------------------------------------------------------------------------
(* A thread of the pool *)

Free(w) == delivering[w] = NoCall /\ serving[w] = Nothing

(* CommunicationJob::Dispatch, Transport::Inbound and GatewayImpl::Receive, *)
(* which gives a provider the gateway's pointer of that moment.            *)
Receive(w, m) ==
    /\ Free(w)
    /\ m \in pool
    /\ m[1] \in alive \cap receivers
    /\ pool' = pool \ {m}
    /\ IF m[2] = Request
       THEN serving' = [serving EXCEPT ![w] = gateway] /\ UNCHANGED delivering
       ELSE delivering' = [delivering EXCEPT ![w] = m[2]] /\ UNCHANGED serving
    /\ UNCHANGED <<accessor, seq, client, threads, wire>>

(* Client::Response: the Caller under the message's id, if there is one. *)
Response(w) ==
    /\ delivering[w] # NoCall
    /\ LET c == queue[delivering[w].id]
       IN  reply' = IF c = NoCall THEN reply ELSE [reply EXCEPT ![c] = delivering[w]]
    /\ delivering' = [delivering EXCEPT ![w] = NoCall]
    /\ UNCHANGED <<accessor, seq, queue, threads, wire, pool, serving>>

(* The provider has run: transport->SendResponse. *)
SendResponse(w) ==
    /\ serving[w] \in alive
    /\ serving' = [serving EXCEPT ![w] = Nothing]
    /\ UNCHANGED <<accessor, seq, client, threads, wire, pool, delivering>>

-----------------------------------------------------------------------------
Proceed(t) == Test(t) \/ GetNextMessageID(t) \/ Insert(t) \/ Send(t) \/ SendFails(t) \/ Wake(t)
Work(w)    == Response(w) \/ SendResponse(w) \/ \E m \in pool : Receive(w, m)
Accessor   ==
    Replace \/ Create \/ ConfigureAsync \/ Update \/ SetTransport
    \/ SetTransportReceiver \/ DisposeAsync \/ Destroy

Step ==
    \/ Connect \/ Disconnect \/ Accessor
    \/ \E t \in Threads : Begin(t) \/ Proceed(t)
    \/ \E i \in Ids : Expire(i)
    \/ \E m \in wire : Answer(m)
    \/ \E k \in alive : Ask(k)
    \/ \E w \in Workers : Work(w)

(* A call on its way to its Transport, or a message of one. *)
Busy ==
    \/ \E t \in Threads : step[t] \in {"test", "next", "insert", "send"}
    \/ pool # {}
    \/ \E w \in Workers : ~Free(w)

Record == overlap' = (overlap \/ (op' # "idle" /\ Busy'))

Next == Step /\ Record

SafeSpec == Init /\ [][Next]_vars

(* Connect, Disconnect and calls go on once begun, the watchdog finds what *)
(* is on the queue, the pool works.  The remote may stay silent.           *)
Spec ==
    /\ SafeSpec
    /\ WF_vars(Accessor /\ Record)
    /\ \A t \in Threads : WF_vars(Proceed(t) /\ Record)
    /\ \A i \in Ids : WF_vars(Expire(i) /\ Record)
    /\ \A w \in Workers : WF_vars(Work(w) /\ Record)

-----------------------------------------------------------------------------
(* Between Connect and Disconnect all agree on the one Transport there is: *)
(* Accessor's pointer, GatewayImpl's, Client's, and the Transport's back.   *)
PointersAgree ==
    op = "idle" /\ made > 0 =>
        /\ gateway = current /\ copy = current
        /\ alive = {current} \ {Null}
        /\ alive \subseteq receivers

(* A step is due that reads through a pointer to no Transport. *)
InDanger ==
    \/ \E t \in Threads : step[t] \in {"next", "send"} /\ copy \notin alive
    \/ \E m \in pool : m[1] \notin alive \cap receivers
    \/ \E w \in Workers : serving[w] # Nothing /\ serving[w] \notin alive

(* Once connected, nobody ever reaches a Transport that does not exist,    *)
(* unless a message was in the pool or a call on its way to be sent while  *)
(* Connect or Disconnect ran.  Calls that sleep then are safe, over any    *)
(* number of connections.                                                  *)
SafeUnlessOverlap == InDanger => overlap \/ copy = Unset

(* A call is completed with its own answer, although every connection uses *)
(* the same ids; unless messages met a Connect or Disconnect.              *)
OwnAnswer == \A c \in Calls : reply[c] \in Calls => reply[c] = c \/ overlap

(* Another connection has handed out the id of the call. *)
Reused(c) == \E k \in Lives \ {c.life} : seq[k] >= c.id

(* A caller that sleeps can still be woken, also when its connection is    *)
(* gone: it is on the queue, unless another connection, earlier or later,  *)
(* uses its id too.                                                        *)
NobodyForgotten ==
    \A t \in Threads : step[t] = "asleep" /\ reply[call[t]] = NoCall =>
        queue[call[t].id] = call[t] \/ Reused(call[t])

(* And it is woken, whatever becomes of its connection; with the same      *)
(* exception.                                                              *)
SleepersWake ==
    \A c \in Calls :
        (\E t \in Threads : step[t] = "asleep" /\ call[t] = c)
            ~> Reused(c) \/ ~ \E t \in Threads : call[t] = c

(* Async::Dispose finds the singleton: its ASSERT. *)
AsyncIsThere == op = "dispose" => async = "alive"
=============================================================================
