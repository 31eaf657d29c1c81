# A TLA+ model of the Firebolt native transport

The library lets an application talk JSON-RPC to a Firebolt server over one
WebSocket: it calls methods, subscribes to events and provides methods of its
own. The code is small, its interleavings are not: application threads block in
requests, three pool threads deliver what arrives, a watchdog thread gives up on
old requests, a socket thread opens and closes the link, and they meet in eight
mutexes and two unlocked pointers. This directory holds TLA+ modules of the
components where that matters, TLC configurations that check them on small
instances, and TLAPS proofs of all their safety properties for every size.

Paths below are relative to the repository.

## 1. The system

| component | state | operations | called by |
|---|---|---|---|
| `Client` (`include/gateway/client.h`) | `queue` of `Caller`s under `queue_mtx`; in each `Caller` a response, an error and `ready` under its own `mtx` | `Request`, `Response`, the watchdog's loop, the destructor | application and pool threads; pool threads; its own thread |
| `Server`, events (`include/gateway/server.h`) | `eventMap`: event name to callback and `SubscriptionData*`, under `eventMap_mtx` | `Subscribe`, `Unsubscribe`, `Notify` | `GatewayImpl`; pool threads |
| `Server`, providers (same file) | `providers`: interface to methods, under `providers_mtx` | `RegisterProviderInterface`, `UnregisterProviderInterface`, `Request` | application; pool threads |
| `GatewayImpl`, `Gateway` (`include/gateway/gateway_impl.h`, `src/Gateway.cpp`) | the transport pointer, no lock | `Request`, `Subscribe`, `Unsubscribe`, `Receive`, `TransportUpdated` | everybody |
| `SubscriptionHelper` (`include/helpers.h`, `src/helpers.cpp`) | `subscriptions_`, `currentId_`, under `mutex_` (not in `unsubscribeAll`) | `subscribe`, `unsubscribe`, `unsubscribeAll`; callbacks | application; `Notify` |
| `Transport` (`include/Transport.h`) | `_pendingQueue` under `_adminLock`; `_connected`, `_status` unlocked | `Send`, `SendResponse`, `GetNextMessageID`, `Opened`, `Closed`, `ConnectionJob`, constructor and destructor | `Client`, `Server`; the channel; a pool thread; `Accessor` |
| `CommunicationChannel` (`include/CommunicationChannel.h`) | `_observers` under its `_adminLock`; `_sequence` atomic | `Register`, `Unregister`, `StateChange`, `Inbound`, `Sequence`, `Submit` | `Transport`; the socket's thread |
| `Accessor` (`include/Accessor.h`, `src/Accessor/Accessor.cpp`) | `_transport`, `_connected`, the listener, the worker pool | `Connect`, `Disconnect`, `ConnectionChanged`, `Instance`, `Dispose` | application; `Transport` |
| `Async` (`include/Async.h`, `src/Async/Async.cpp`) | `_methodMap` under `_adminLock` | `Invoke`, `Abort`, the job, `Clear` | application; pool threads |
| worker pool (`include/WorkerPool.h`) | a queue of 8 jobs, 3 threads | submit, revoke, dispatch | all of the above |
| `Event`, `Properties`, `Parameters`, `get`/`set`/`invoke` | none beyond a singleton | pass through to `Gateway` | application |
| `Logger`, types, errors, JSON engine of the tests | none that matters here | formatting, conversion, a mock | |

How they interact. A request goes `Gateway` -> `GatewayImpl` -> `Client::Request`
-> `Transport::Send` -> channel, and its thread sleeps on the `Caller`. A message
comes socket -> `CommunicationChannel::Inbound` -> a `CommunicationJob` in the
pool -> `GatewayImpl::Receive`, which hands a response to `Client::Response`, an
event to `Server::Notify` (the callback runs under `eventMap_mtx`), a request of
the remote to `Server::Request` (the provider runs under `providers_mtx`), whose
answer goes back through `Transport::SendResponse`. The link's changes go socket
-> `StateChange` -> `Opened`/`Closed` -> `Accessor::ConnectionChanged` -> the
application's listener.

What makes it hard:

* the two mutexes of a request are taken in opposite orders by the caller and by
  the worker that delivers the response;
* the watchdog times a request out while its response is being delivered;
* the event map holds raw addresses of data the helpers own and erase, keyed by
  a name that several helpers share;
* a subscription is two facts, one here and one at the remote, changed one after
  the other by requests that may fail, be declined or be answered too late;
* the link may change at any point of the constructor, of the `ConnectionJob` and
  of the destructor of the `Transport`;
* ids of the client and of the remote meet in one map;
* connections come and go: no lock protects the pointers to a `Transport`, and
  message ids start again with each, while `Client::queue` outlives them all;
* jobs of `Async` hold the pool threads that would deliver their answers, and are
  revoked by threads that hold a lock the jobs need.

`PROJECT.json` lists each such place with its line.

What makes each component correct: a request ends once, with its own answer, and
not before its time (`Client`); callbacks and the event map refer to living
subscriptions, and nobody removes somebody else's (`Subscription`); the listener's
view is the socket's, no id is pending twice, and calls, answers and `Disconnect`
end (`Transport`); between connections all pointers agree, and a call survives its
connection (`Lifecycle`); a provider runs for the requests made to it and not after
it is unregistered (`Providers`); an asynchronous call whose pair is aborted in time
stays silent, and no other does (`AsyncPool`); names computed in different places
are the same, and arguments, results and errors arrive as they were given
(`Algorithms`).

## 2. The modules

| module | models | abstracts |
|---|---|---|
| `Rpc` | the promise of a call: fresh id, one end, an answer given to that id or a timeout or send error; open calls end | everything inside |
| `Client` | `gateway/client.h` | JSON, the map behind `queue` |
| `Subscription` | `SubscriptionHelper`, `GatewayImpl::Subscribe/Unsubscribe`, the event map | the request itself, which is a call of `Rpc` |
| `Transport` | one connection: `Transport.h`, `CommunicationChannel.h`, what `Accessor` does with one `Transport` | messages, conversion, what a caller does after `Send`, the contents of an entry |
| `Lifecycle` | many connections: `Accessor`, `GatewayImpl`'s and `Client`'s pointers, `Async::Instance`, with `Client::Request`, `Client::Response` and the dispatch of messages over them | the link, `Client`'s mutexes, the watchdog's clock |
| `AsyncPool` | `Async.h`, `Async.cpp` on a pool with a bounded queue | the request, which is a call of `Rpc`; the lock, which only the deletion of the object, and a `Revoke` that waits, hold for more than a step |
| `Providers` | the provider half of `gateway/server.h` | names, of which it keeps whether they begin with "on"; the sending of the answer |
| `EventNames` | the four computations of names in `Properties.h` and `gateway/server.h` | letters other than the six that matter |
| `Calls` | `Parameters`, `get`, `set`, `invoke`, the conversion of errors on the way | JSON text: a value, or something that does not parse |
| `Algorithms` | nothing of its own: all small inputs of the two above | |
| `MCSubscription` | symmetry for TLC | |
| `ClientProofs`, `SubscriptionProofs`, `TransportProofs`, `LifecycleProofs`, `AsyncPoolProofs`, `ProvidersProofs`, `AlgorithmsProofs` | theorems | |
| `DataLemmas` | facts about numbers and sequences that several of them need | |

Operators marked `(* mutant *)` are not part of the specifications: each is a
faulty variant of the operator behind it, kept to show that the properties can
fail (`PROJECT.json`, "mutants").

### Client

A step is what a thread does between two points where another thread can be seen
to interfere. `Start`, `Insert`, `SendOK`/`SendError`, `LockCaller` (with the wait
on the condition variable, `SpuriousWakeup` included), `Erase` and `Read` are the
blocks of `Request` in their order. `FindCaller`, `NoReceiver` and `Deliver` are
`Response`, `Sample`, `Scan`, `Expire` and `SleepCycle` the watchdog's loop. A
mutex has no variable: `queue_mtx` is held across a step only by a worker between
`FindCaller` and `Deliver`, a `Caller`'s `mtx` only by a thread before `Erase`
(`QueueLocked`, `CallerLocked`). `error` and `response` are read with no mutex
held, as in the code. `now` is sampled before `queue_mtx` is taken, and ages are
converted to unsigned modulo `Word`.

### Subscription

One helper runs one operation at a time. `Join` and `CannotJoin` are
`Server::Subscribe`, `Ask` to `AskedInVain` the request, `Undo` the cleanup on
failure; `Leave` to `Ceased` are `Unsubscribe`; `Round` and `Clear` the loop of
`unsubscribeAll`. `pc` says which; `cur` is the id of the operation. The event map
maps an event to the pair (helper, id) whose address it holds. A callback is a
value of `callback`, and while there is one `eventMap_mtx` is taken. A request to
the remote is a message of `sent`, processed in order, late, or after its caller
has given up, which is what a timeout means. `Asked` accepts an answer that does
not say "listening", as the comparison written for an assignment in
`gateway_impl.h:129` does.

### Transport

`link` and `change` are the socket: its state, and whether its thread is about to
call `StateChange`. `life` follows `Connect` and `Disconnect`: the constructor's
`Register` and `SubmitJob`, the destructor's `RevokeJob` and `Unregister`. `heard`
is what the listener has been told; `Accessor::_connected` is its last element.
`StartJob` to `NotifyStatus` are the `ConnectionJob`, which reads the link twice
and `_status` once without a lock. `Start` is `GetNextMessageID`, `Check` to
`Collide` are `Send`: `Collide` is the branch that returns with `_adminLock` locked.
`Dispatch` and `SendResponse` are what a worker does with a request of the remote.

The channel's `_adminLock` is held across a step in one place: `StateChange` calls
`Closed` under it, and `Closed` waits for `Transport::_adminLock`. `closing` says that
the socket's thread is there; `Register` and `Unregister`, which take the channel's
lock, have no step meanwhile. A lock that `Collide` leaves behind therefore reaches
`Disconnect` too, once the link drops: `Closed` waits for ever, and `~Transport` with
it.

`Transport::Invoke`, `InvokeAsync` and `WaitForResponse` are not modelled, because
`Client::Request` calls `Send` and waits on its own `Caller`; only in builds with
`UNIT_TEST` it calls `Invoke`, and that one answers from a file and does not wait. So
nobody waits at an entry of `_pendingQueue`, and `Closed` and the destructor have
nobody to wake; the queue is a set of ids.

### Lifecycle

`op` follows `Accessor::Connect` (`Replace`, the deletion of an earlier `Transport`;
`Create`; `ConfigureAsync`; `Update`, `SetTransport` and `SetTransportReceiver`, the
three writes of `TransportUpdated`) and `Disconnect` (`DisposeAsync`, the same writes
with a null pointer, `Destroy`). There is no lock, so each access to a pointer is a
step: a thread tests `Client::transport` (`Test`), reads it for an id
(`GetNextMessageID`) and again to send (`Send`). `wire`, `pool`, `delivering` and
`serving` are where a message can be, each with the `Transport` it holds on to. A step
through a pointer to what is not there has no defined outcome: it is not taken, and
`InDanger` says that one is due. `overlap` is a history variable: something was under
way while `Connect` or `Disconnect` ran.

What it shows of the code. Ids restart with every connection while `queue` stays, so
that a call of an earlier connection that still sleeps is overwritten by the call of
the same id of the next (nobody can wake it any more), or wakes by its timeout and
erases the entry of the newer one. `NobodyForgotten` and `SleepersWake` say that
nothing else can happen to it. A second `Connect` deletes the `Transport` while
gateway and client point to it. `Async::Instance` returns the object `Disconnect` has
deleted. `SafeUnlessOverlap` says that this is all as long as the application is
quiet, calls that sleep excepted, while it connects and disconnects.

### EventNames, Calls, Algorithms

A state of `Algorithms` is one input. `NamesAgree` compares the key under which a
subscription is stored, the name of a property's event, the key of a notification,
and the interface and method of a provider, with one rule: the spelling of the
remote, first letter behind the dot small. A provider name without a dot, "foo", is
registered as interface "foo" with method "foo", and served as "foo.foo".
`CallsAreFaithful` follows arguments out and results in. A result that does not parse
and an error whose code is 0 read as a success with the default value; a call that
could not be sent ends with `ERROR_ASYNC_FAILED` of WPEFramework, which is cast and
reads as `NotConnected`.

### AsyncPool

`Invoke` makes a job and its entry in `methodMap` under the lock; `SubmitJob` puts it on
the pool after the lock is gone. A worker that takes a job (`TakeJob`) is not free
before the job ends: `Result` or `Error` of its request, `IsActive`, `Callback`,
`Finish`. The answer to the request is an item of the same queue (`Answer`,
`TakeResponse`), so it needs a place there and a free worker; otherwise the watchdog
ends the request (`Error`, possible at any time). `methodMap` maps a pair (method,
usercb) to a job: `IsActive` and `RemoveEntry` ask for the pair, as in the code, and may
meet another job's entry. `Revoke` takes a job out of its place in the queue. It is
called under `_adminLock`, and what it does about a job that another thread runs is the
pool's choice (`waits`): it returns, or waits until the job is over. In a pool of the
second kind `Abort`, `Finish` and `Clear` begin to wait (`AbortWaits`, `FinishWaits`,
`ClearWaits`), `holder` has the lock, and `IsActive`, `RemoveEntry`, `Invoke` and
`Dispose` of everybody else have no step. A job that comes to `IsActive` or
`RemoveEntry` then waits for the thread that waits for it: `Stuck`. A job that revokes
itself, in the `RemoveEntry` at its end, is not waited for. `life` follows what
`Disconnect` does to the object: `Dispose` takes the lock, each `Clear` revokes one
entry's job and erases the entry, `Delete` ends the object. The pool goes on meanwhile,
and may take a job the loop has not come to. Nobody waits for jobs
that are being submitted, nor, in a pool of the first kind, for those that run
(`surprised`); what they ask of the object from `Dispose` on is not taken: they wait for
a lock that is about to be destroyed, or use what is gone.

### Providers

`providers` maps an interface to the list of its methods. `Register` appends to it
what is not there, with the "on" taken off the name; `Unregister` removes the method
of exactly the name and usercb it is given. `Ignore` and `Serve` are `Server::Request`
up to the call of the method, `Answer` its end. While a worker serves, it holds
`providers_mtx` (`Unlocked`), so that nobody registers. `offered` is what the
application has registered and not taken back, for the properties.

### Assumptions about the surroundings

Assumed of the application in `Transport`, because nothing in the code protects it: it
calls `Disconnect` when it has no call under way and no message waits in the pool
(`Lifecycle` drops this assumption), and its listener does not call back into the SDK.

Nothing is assumed of the pool's `Revoke` but that it takes a queued job off the queue.
Its code is not in this repository. Whether it waits for a job that runs makes a
difference to both of its callers, and each module has both kinds. The destructor of
`Transport` needs one that waits: otherwise the `ConnectionJob` goes on with a pointer to
what is gone (`RevokeReturns`; the job takes no step from then on, because what it would
do is undefined). `Async` needs one that returns: otherwise it may wait for itself
(`Stuck`). No single `Revoke` suits both. What holds for either kind is what the
properties say.

The modules are not composed. `Client` assumes that `Send` returns, with success or an
error, and its liveness rests on it. `Transport` shows when that is so
(`OperationsEnd`): as long as the two sides use different ids. The same goes for
`Providers`, where the answer of a method is sent with `providers_mtx` held, and would
stay there.

## 3. The runs

| run | instance | shows |
|---|---|---|
| `client` | 2 threads, 2 workers, 2 ids, at most one answer each, clock 0..2, threshold 0 | `OwnAnswer`, `NoLostWakeup`, `NoLockCycle`, `NoStaleEntry`, `LateAnswerIgnored`, `TimeoutsAreDue`, `QueueDrains`, and `ImplementsRpc`, liveness included: every request returns |
| `subscription` | 2 helpers, 2 events, 1 worker | `NoDanglingCallback`, `NoSubscriptionLost` |
| `subscription_live` | 1 helper, 2 events, 2 workers | `SubscribersAreServed`, `OperationsEnd` |
| `subscription_declined` | the remote may decline | `SubscribersAreServed` fails |
| `transport` | 2 threads, 2 workers, 2 ids, two requests of the remote, one with id 2; the link may drop, the application disconnect, `Revoke` wait or return | `ListenerKnowsLink`, `ConnectedOnce`, `OperationsEnd` |
| `transport_taken` | 1 thread, 1 worker, both sides use id 1 | `InsertedIdsAreNew` fails |
| `transport_silent` | the link does not open | `SilenceIsReported` fails |
| `lifecycle` | 2 connections, replaced or disconnected, 2 threads, 1 worker, 1 id | `PointersAgree`, `SafeUnlessOverlap`, `OwnAnswer`, `NobodyForgotten`, `SleepersWake` |
| `lifecycle_again` | 2 connections, 1 thread | `AsyncIsThere` fails |
| `async` | 3 invocations by 2 threads, 2 pairs of one method, 2 workers, a queue of 1, `Revoke` waits or returns | `AbortedStaysSilent`, `ResultsAreReported`, `OnlyFailuresStay`, `NothingOutlivesAsync`, `StuckForGood`, `OnlyOverlapWaits`, `JobsEnd` |
| `providers` | 1 interface, 2 names in 2 spellings, 2 usercbs, 2 workers, 2 requests | `SilentAfterUnregister`, `RegistrationsAreKept`, `FirstServes`, `RequestsEnd` |
| `algorithms` | names of up to 4 letters; 2 parameter names, 2 values, 3 additions, every ending of a call | `NamesAgree`, `CallsAreFaithful` |

The bounds. Two callers and two workers are the smallest instance in which two
responses, or a response and the watchdog, meet over one `Caller` while another one
holds `queue_mtx`; a second id gives a thread an earlier call whose late answer may
disturb the next. The watchdog asks for an age above the threshold, so with a threshold
of 0 three instants hold a request that is in time, one that is late, and one that was
stamped after the watchdog's sample; a larger threshold only needs more of them. Two
helpers and two events are enough for every way two subscriptions can be in each other's
place in the event map; two ids per helper let a finished subscription be followed by
another. One `Transport` sees its link open and close once, so the socket has no bound;
two threads, two workers and ids of the remote of which one is the client's and one is
not are enough for ids to meet or not, in either order, and for one thread to keep a
lock that threads, workers and the socket need. Two connections are the shortest life
with a stale pointer, and with one id each the second always uses the first one's again;
with two threads a sleeping call of the first meets a running one of the second. Names
of four letters hold an interface, a dot and "on" or "on" with a letter behind it. Three
invocations on two workers are one more than the pool can run, and enough for a pair to
be aborted and used again while its old job runs; the queue of one is full with a job or
an answer, so that threads, and the answers of running jobs, wait for room. (A queue of
two has 2.8 million states and satisfies the invariants too.) A second thread may abort
a pair while the first has a job of it to submit. What the properties say of larger
instances is what the proofs are for.

Deadlock is not checked: every instance stops when its bounded ids and clock are
used up. That nothing stops before is what the liveness properties say.

Fairness. In `Client` each thread is scheduled (weak fairness of its own steps, `Insert`
and `Erase` included: `queue_mtx` is only ever held for one more step) and time passes;
nothing is asked of the server, nor of `SendOK` over `SendError`. In `Subscription` a
helper gets `eventMap_mtx` although callbacks take it again and again (strong fairness:
mutexes of the platform do not starve a waiting thread) and callbacks return; the remote
may be silent. In `Transport` the socket's thread, the job, the workers and the
application's calls go on once they have begun; nobody has to begin, and the link need
not open. In `Lifecycle` `Connect`, `Disconnect` and calls go on once begun, the
watchdog finds every entry and the worker works; a thread that reads through a dangling
pointer stops there. In `AsyncPool` the threads of the pool go on, the watchdog's
timeout included, an `Invoke` submits its job, an `Abort` that waits goes on when it
can, and so does the deletion of the object; the remote may be silent. In `Providers`
what has arrived is handled and methods return.

### The runs that fail

They check what the code itself, or a comment in it, says.

* `subscription_declined`: `status == Firebolt::Error::General;`.
* `transport_silent`: a wait time that is used up counts as success.
* `transport_taken`: `ASSERT(newElement.second == true)`, in `Send` and in
  `SendResponse`. The ids the remote gives to its requests enter the same map as the
  client's and stay there; when both sides count from 1 they meet at once. Without
  assertions `Send` returns with `_adminLock` locked, or the remote gets no answer.
  `SeparateIdsAreNew` proves that ids used by both sides are the only cause, and
  `OperationsEnd` says that without them the lock is not left behind.
* `lifecycle_again`: the second `Disconnect` of an application runs into the assertion
  of `Async::Dispose`, because `Async::Instance` makes its object once only.

Trouble that has no failing run, because a property that holds describes it, or no
text in the repository contradicts it:

* A request stamped after the watchdog's sample has a negative age, which the
  comparison with an unsigned threshold makes huge: it is given up at once.
  `TimeoutsAreDue` says that no other request is given up too early.
* If the pool's `Revoke` waits for a job that runs, `Async` deadlocks: an `Abort`, or
  the deletion of the object, that meets a running job before its `IsActive` or
  `RemoveEntry` waits for it with the lock it needs (`Async.h:143`, `Async.cpp:65`).
  `StuckForGood` says that nobody gets out, `OnlyOverlapWaits` that the end of a job does
  so only to a later one of its own pair, `JobsEnd` that nothing else stops a job. If it
  returns, the `ConnectionJob` may outlive its `Transport`. No text in the repository says
  which it does.
* An id that is taken and a link that drops make `Disconnect` hang: `Send` keeps
  `Transport::_adminLock`, `Closed` waits for it with the channel's, `~Transport` for the
  channel's. `OperationsEnd` says that this is the only way.
* A second answer to one id, which the protocol forbids and the code does not
  check, makes the caller, holding its `Caller`, wait for `queue_mtx`, and the worker,
  holding `queue_mtx`, wait for the `Caller` (set `MaxAnswers = 2` in `Client.cfg`);
  a server that answers once never gets there, as `LockOrder` proves.
* The listener can be told "disconnected" twice, the second time as a timeout
  (`Transport.h:305`, `Accessor.cpp:97`). `IsConnected` stays true after `Disconnect`:
  the destructor leaves the channel before the link closes.
* `_pendingQueue`, which `Transport.h:460` calls the RPC commands in progress, keeps the
  ids of answers and of finished requests until the connection closes.
* Subscriptions stay in `eventMap` over a reconnect, though the new remote has never
  heard of them.

## 4. The proofs

All theorems are about `SafeSpec` (`Spec` in `Algorithms`, which has no fairness), for
any finite or infinite sets of threads, workers, helpers, events and ids, from the
assumptions on the constants that each module names (`ClientAssumption`,
`SubscriptionAssumption`, `TransportAssumption`, `LifecycleAssumption`,
`AsyncAssumption`, `ProvidersAssumption`, `CallsAssumption`, `AlgorithmsAssumption`).
These say that bounds are numbers and that what stands for "nothing" is not one of the
things, and that application threads, pool threads and the deleting thread are
different; `CallsAssumption` also that the error codes of WPEFramework which the client
tests for differ, as they do there. Every invariant and every
action property of a passing run is a theorem. One theorem, `SeparateIdsAreNew`, has an
assumption of its own.

`ClientProofs`. The invariant is `TypeOK` and four parts. `Calls`: active threads have
distinct ids, not above `seq`, not ended. `Filled`: a ready `Caller` holds something the
server sent for its id, or a timeout. `Waiting`: where a `Caller` is while its thread
waits: before it sleeps it is ready, or on the queue, or on the watchdog's list.
`Queued`: what is on the queue has not ended, and a response being delivered is for
something on the queue. `OwnAnswer` needs `Filled`, which needs `Waiting` (only a ready
`Caller` is read); `NoLostWakeup` is a part of `Waiting`; `LateAnswerIgnored` is a
consequence for single steps: a response needs an entry and `NoStaleEntry` says there is
none, so that only `Expire` still writes to the `Caller` of a finished call, which the
watchdog had put on its list before it finished. `LockOrder` needs one more invariant,
`Single`, and one answer per id. `NoTimeoutIsEarly` needs that whatever is on the
watchdog's list was outdated when it was put there (`OverdueKept`). `Implements` maps
every step to a step of `Rpc` or to a stutter.

`SubscriptionProofs`. The invariant says exactly which subscriptions are in the event
map: `Registered`, every one a helper keeps except those its operation has not yet
joined or has left (`Out`); `Owned`, what is there belongs to its event; `Running`, a
callback's entry is still there, because nobody changes the event map while a callback
runs. `NoSubscriptionLost` is the part of `Registered` for helpers at rest: the erasing
by name never hits another helper's entry, since a helper that erases has one itself or
the event has none. `TypeOK` needs `RemoteTypes`: whoever a request was sent for is a
helper, or nobody any more. `SubscribersAreServed` is proved for a remote that does not
decline and one helper, the case its run checks. `Waiting`: the request that somebody
waits for is the last one sent, and when it has been complied with, all before it have;
`Free`: who tells the remote to stop is not subscribed; `Kept`, which is the property
without its "when nothing is under way": the remote sends the event of a subscription
nobody is still asking about, and no message on its way will change that. With a remote
that may decline it is false, which `subscription_declined` shows; with several helpers
it is false too, because the request to stop of one that has left may be sent behind the
request of one that has joined since.

`TransportProofs`. `_connected` is what `Opened` and `Closed` test, not what the
listener was told; the two differ after a `NotifyStatus`. `Agreement` relates both
to the socket, and needs `Past`: the job reports only on a link that was open and
is not any more, so that its report of a bad link never hides a good one.

Its second half does the queue of ids. The invariant `QInv` has three parts:
`QueueTypes`; `Calls`, calls have distinct ids not above `seq`, and one that is not
inserted yet is pending only if the remote has used its number; `Requests`, a request of
the remote is in one place, and a pending id is one that was given out or one of an
answered request. `SeparateIdsAreNew` assumes that the remote uses no id of `Sequence`'s;
then `Calls` and `Requests` leave no way for an id to be pending before it is inserted.
Without that assumption the property is false, which `transport_taken` shows.

`LifecycleProofs`. Five invariants, each built on the ones before. `Pointers` says for
every value of `op` which pointers are set and which `Transport`s exist: the only
moments at which they differ are inside `Connect` and `Disconnect`. `Quiet` adds that
without an overlap no message, thread or worker is in between then, hence
`SafeUnlessOverlap`. `Numbered`: active calls are different, their ids not above the
sequence of their connection, and none is used twice. `Remembered`: a call that waits
is on the queue, or its id has been handed out again: another call's `Insert` and
`Wake` touch no other id, and another life's are `Reused`. `Own`: without an overlap a
message in the pool, on the wire or with a worker belongs to the current connection,
and what it finds under its id is its own call or none.

`AsyncPoolProofs`. The invariant follows an aborted job: `Removed`, its pair has no
entry or one of a later job, because only `Invoke` adds entries and its job is later
than all there are; `Silent`, what it finds in `IsActive` therefore makes it run its
callback only if there is a later job. For `OnlyErrorsLeaveEntries` an entry's job is
followed to its end: through `Finish` it takes the entry with it, through `IsActive`
it ends only if there is none. `ResultsAreReported` and `NothingOutlivesAsync` are about
jobs that vanish or remain, and need to know where each one is: `Queue`, `Hands` and
`Working` say that it is in the hands of one thread, at one place of the queue, with
one worker, or over; `Course` what it has done until then. `Own`: as long as its pair
was neither aborted nor used again, a job that has not come to `IsActive` yet has the
entry, so that what is done for other pairs does not touch it, and its own `IsActive`
finds it. `Deletion`: while the object is being deleted, a queued job is excused or
still has its entry, which the loop will come to; when it is gone, what runs is excused.
`Waits` is about a `Revoke` that waits: who waits does not run the job it waits for, and
if it is a worker, its own job has the same pair and is at its end. By `Working` somebody
else runs the awaited job, so the waiting thread has no step, and if that job has come to
ask for the lock, neither has it (`NeverUnstuck`).

`ProvidersProofs`. The lists hold exactly what is offered (`Ledger`); what runs is
offered when it begins (`FirstIsProvided`: the first method of a name exists, by
well-foundedness of the natural numbers) and stays so, because nothing is registered or
taken back meanwhile. `Appending` and `Removing` of `DataLemmas` are the lemmas about
lists. For `FirstServes` the first method of a name is the one of least index (`Least`):
what is appended comes behind it (`BehindTheFirst`), and what is removed is another one,
which moves it by one place at most (`AroundTheFirst`).

`AlgorithmsProofs`. Names: a name with a dot is what is before its first dot, the dot
and what is behind (`Divided`, `Dotted`), and each of the four computations changes at
most the letter behind the dot or an "on" there, so that it can be followed letter by
letter without a bound on the length. Calls: `Parameters` is a recursive function over
the additions. Its equations (`ObjectsExist`) and that the last value given to a name is
what it holds (`LastAdditionWins`) are inductions over their number. They are done
without the library's induction theorem, whose parameter is a predicate: the numbers at
which the claim fails are a set, `Smallest` of `DataLemmas` gives its least member, and
that one cannot be the first. `OutcomeTold` goes through the endings of a call.

Only model-checked: everything under fairness, because the prover has no liveness:
`QueueDrains`, `OperationsEnd` of `Subscription` and of `Transport`, `JobsEnd`,
`RequestsEnd`, `SleepersWake` and the liveness half of `ImplementsRpc`; and the runs
that fail.

## 5. What is not modelled

* `Transport::InvokeAsync`, `WaitForResponse`, `Abort`, `Timed`, `IsEvent`, `Revoke`,
  `CommunicationChannel::Trigger`: no build reaches them, nor the `Transport::Invoke` of
  builds without `UNIT_TEST`.
  Asynchronous entries of `_pendingQueue`: nothing makes them.
* What a `ConnectionJob` does that outlives its `Transport`, in a pool whose `Revoke`
  returns at once.
* A callback, provider or listener that calls back into the SDK. By the code alone
  a callback that subscribes waits for the mutex its own thread holds.
* `unsubscribeAll` of a helper while another thread uses the same helper: it walks
  the map without the mutex, a data race with no set of outcomes to choose from.
* What a step through a dangling pointer does: `Lifecycle` says when one is due.
* Several clients of one channel. Channels are shared under a key of host and path
  only, but `Accessor` has one `Transport` at a time and the map lets go of its channel.
* Two first calls of `Gateway::Instance` at once, which would make two gateways:
  `Connect`, which an application calls first, makes it.
* `Accessor`'s configuration, the start and stop of the worker pool; `Dispose` of
  `Accessor`, `Gateway` and `Event`, which nothing calls.
* A `Caller` asleep when the process destroys the gateway: nobody wakes it.
* Logging, JSON conversion, the unit-test build, build files.

## 6. State and plan

Done: all modules of section 2, their runs, and the theorems of section 4.

What a continuation would add: a composition of `Client` with `Transport` that
discharges the steps `SendOK` and `SendError`, of which each module now models its
side: a client whose `Send` may not return, because a lock was left behind.
