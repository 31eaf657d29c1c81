---------------------------- MODULE Subscription ----------------------------
(***************************************************************************)
(* Event subscriptions: the SubscriptionHelpers of the application         *)
(* (helpers.h, helpers.cpp), GatewayImpl::Subscribe and Unsubscribe        *)
(* (gateway_impl.h), the event map of Server (server.h) and the            *)
(* notifications the worker pool delivers to the callbacks.                *)
(*                                                                         *)
(* Each helper runs one operation at a time, under its mutex_.  The event  *)
(* map holds, per event, the address of a SubscriptionData in the map of a *)
(* helper; a callback runs with eventMap_mtx held.  A request to the other *)
(* end is a call of module Rpc: it is sent or not, the remote may process  *)
(* it at any later time, in the order of sending, and the caller may give  *)
(* up before or after that.                                                *)
(***************************************************************************)
EXTENDS Integers, Sequences

CONSTANTS
    Helpers,        \* SubscriptionHelper objects
    Events,         \* event names
    Workers,        \* worker-pool threads
    MaxId,          \* bound: subscription ids a helper hands out
    MaxSent,        \* bound: requests under way to the remote
    MaxNotes,       \* bound: notifications of one event under way
    MayDecline,     \* the remote may answer a request without complying
    NoEvent,        \* no SubscriptionData under an id
    NoHelper        \* the sender of a request nobody waits for

Ids     == 0..MaxId
NoSub   == <<NoHelper, 0>>
Subs    == Helpers \X Ids
Answers == {"none", "done", "declined", "error"}

ASSUME SubscriptionAssumption ==
    /\ MaxId \in Nat /\ MaxSent \in Nat /\ MaxNotes \in Nat
    /\ MayDecline \in BOOLEAN
    /\ NoEvent \notin Events
    /\ NoHelper \notin Helpers

VARIABLES
    subscriptions,  \* SubscriptionHelper::subscriptions_: the event under each id
    currentId,      \* SubscriptionHelper::currentId_
    pc,             \* where each helper is in its operation
    cur,            \* the id that operation is about
    todo,           \* ids unsubscribeAll has left to do
    clearing,       \* the operation is unsubscribeAll
    eventMap,       \* Server::eventMap: the subscription of each event
    callback,       \* the subscription whose callback a worker runs
    sent,           \* requests on their way to the remote
    answer,         \* the answer to the request a helper waits for
    listening,      \* events the remote has been told to send
    notes           \* notifications on their way, per event

helper == <<subscriptions, currentId, pc, cur, todo, clearing>>
remote == <<sent, answer, listening, notes>>
vars   == <<helper, eventMap, callback, remote>>

Steps == {"idle", "join", "ask", "asked", "undo", "leave", "cease", "ceased", "next"}

TypeOK ==
    /\ subscriptions \in [Helpers -> [Ids -> Events \cup {NoEvent}]]
    /\ currentId \in [Helpers -> Ids \cup {MaxId + 1}]
    /\ pc \in [Helpers -> Steps]
    /\ cur \in [Helpers -> Ids]
    /\ todo \in [Helpers -> SUBSET Ids]
    /\ clearing \in [Helpers -> BOOLEAN]
    /\ eventMap \in [Events -> Subs \cup {NoSub}]
    /\ callback \in [Workers -> Subs \cup {NoSub}]
    /\ sent \in Seq([event : Events, listen : BOOLEAN, from : Helpers \cup {NoHelper}])
    /\ answer \in [Helpers -> Answers]
    /\ listening \subseteq Events
    /\ notes \in [Events -> 0..MaxNotes]

Init ==
    /\ subscriptions = [h \in Helpers |-> [i \in Ids |-> NoEvent]]
    /\ currentId = [h \in Helpers |-> 0]
    /\ pc = [h \in Helpers |-> "idle"]
    /\ cur = [h \in Helpers |-> 0]
    /\ todo = [h \in Helpers |-> {}]
    /\ clearing = [h \in Helpers |-> FALSE]
    /\ eventMap = [e \in Events |-> NoSub]
    /\ callback = [w \in Workers |-> NoSub]
    /\ sent = <<>>
    /\ answer = [h \in Helpers |-> "none"]
    /\ listening = {}
    /\ notes = [e \in Events |-> 0]

-----------------------------------------------------------------------------
NeverLocked == FALSE                                             (* mutant *)

(* eventMap_mtx is held while a callback runs. *)
EventMapLocked == \E w \in Workers : callback[w] # NoSub

Live(h)    == {i \in Ids : subscriptions[h][i] # NoEvent}
Event(h)   == subscriptions[h][cur[h]]
Goto(h, s) == pc' = [pc EXCEPT ![h] = s]
Forget(h)  == subscriptions' = [subscriptions EXCEPT ![h][cur[h]] = NoEvent]

(* Client::Request: the message goes out and its caller waits.             *)
Send(h, l) ==
    /\ Len(sent) < MaxSent
    /\ sent' = Append(sent, [event |-> Event(h), listen |-> l, from |-> h])
    /\ answer' = [answer EXCEPT ![h] = "none"]

(* The watchdog ends the call of h: its request may still be under way.    *)
Abandon(h) ==
    sent' = [k \in DOMAIN sent |->
                IF sent[k].from = h THEN [sent[k] EXCEPT !.from = NoHelper] ELSE sent[k]]

-----------------------------------------------------------------------------
(* SubscriptionHelper::subscribe *)

Subscribe(h, e) ==
    /\ pc[h] = "idle"
    /\ currentId[h] \in Ids
    /\ subscriptions' = [subscriptions EXCEPT ![h][currentId[h]] = e]
    /\ cur' = [cur EXCEPT ![h] = currentId[h]]
    /\ Goto(h, "join")
    /\ UNCHANGED <<currentId, todo, clearing, eventMap, callback, remote>>

JoinAnyway(h) ==                                                 (* mutant *)
    /\ pc[h] = "join"
    /\ ~EventMapLocked
    /\ eventMap' = [eventMap EXCEPT ![Event(h)] = <<h, cur[h]>>]
    /\ Goto(h, "ask")
    /\ UNCHANGED <<subscriptions, currentId, cur, todo, clearing, callback, remote>>

(* Server::Subscribe takes a free event. *)
Join(h) ==
    /\ pc[h] = "join"
    /\ ~EventMapLocked
    /\ eventMap[Event(h)] = NoSub
    /\ eventMap' = [eventMap EXCEPT ![Event(h)] = <<h, cur[h]>>]
    /\ Goto(h, "ask")
    /\ UNCHANGED <<subscriptions, currentId, cur, todo, clearing, callback, remote>>

(* There is no transport, or Server::Subscribe finds the event taken:      *)
(* subscribe returns the error.                                            *)
CannotJoin(h) ==
    /\ pc[h] = "join"
    /\ Forget(h)
    /\ Goto(h, "idle")
    /\ UNCHANGED <<currentId, cur, todo, clearing, eventMap, callback, remote>>

Ask(h) ==
    /\ pc[h] = "ask"
    /\ Send(h, TRUE)
    /\ Goto(h, "asked")
    /\ UNCHANGED <<subscriptions, currentId, cur, todo, clearing, eventMap, callback, listening, notes>>

CannotAsk(h) ==
    /\ pc[h] = "ask"
    /\ Goto(h, "undo")
    /\ UNCHANGED <<subscriptions, currentId, cur, todo, clearing, eventMap, callback, remote>>

(* Any answer but an error is success: the assignment of Error::General    *)
(* when the answer does not say "listening" is written as a comparison.    *)
Asked(h) ==
    /\ pc[h] = "asked"
    /\ answer[h] \in {"done", "declined"}
    /\ currentId' = [currentId EXCEPT ![h] = @ + 1]
    /\ Goto(h, "idle")
    /\ UNCHANGED <<subscriptions, cur, todo, clearing, eventMap, callback, remote>>

AskedForEver(h) ==                                               (* mutant *)
    /\ pc[h] = "asked"
    /\ answer[h] = "error"
    /\ Goto(h, "undo")
    /\ UNCHANGED <<subscriptions, currentId, cur, todo, clearing, eventMap, callback, remote>>

(* An error, or no answer before the watchdog's timeout. *)
AskedInVain(h) ==
    /\ pc[h] = "asked"
    /\ answer[h] \in {"none", "error"}
    /\ Abandon(h)
    /\ Goto(h, "undo")
    /\ UNCHANGED <<subscriptions, currentId, cur, todo, clearing, eventMap, callback, answer, listening, notes>>

UndoHalf(h) ==                                                   (* mutant *)
    /\ pc[h] = "undo"
    /\ Forget(h)
    /\ Goto(h, "idle")
    /\ UNCHANGED <<currentId, cur, todo, clearing, eventMap, callback, remote>>

(* Server::Unsubscribe by the event's name, then the helper's own entry.   *)
Undo(h) ==
    /\ pc[h] = "undo"
    /\ ~EventMapLocked
    /\ eventMap' = [eventMap EXCEPT ![Event(h)] = NoSub]
    /\ Forget(h)
    /\ Goto(h, "idle")
    /\ UNCHANGED <<currentId, cur, todo, clearing, callback, remote>>

-----------------------------------------------------------------------------
(* SubscriptionHelper::unsubscribe and unsubscribeAll *)

Unsubscribe(h, i) ==
    /\ pc[h] = "idle"
    /\ i \in Live(h)
    /\ cur' = [cur EXCEPT ![h] = i]
    /\ Goto(h, "leave")
    /\ UNCHANGED <<subscriptions, currentId, todo, clearing, eventMap, callback, remote>>

UnsubscribeAll(h) ==
    /\ pc[h] = "idle"
    /\ todo' = [todo EXCEPT ![h] = Live(h)]
    /\ clearing' = [clearing EXCEPT ![h] = TRUE]
    /\ Goto(h, "next")
    /\ UNCHANGED <<subscriptions, currentId, cur, eventMap, callback, remote>>

(* The next round of its loop, and the clear() behind it. *)
Round(h) ==
    /\ pc[h] = "next"
    /\ \E i \in todo[h] :
          /\ \A j \in todo[h] : i <= j
          /\ cur' = [cur EXCEPT ![h] = i]
          /\ todo' = [todo EXCEPT ![h] = @ \ {i}]
    /\ Goto(h, "leave")
    /\ UNCHANGED <<subscriptions, currentId, clearing, eventMap, callback, remote>>

Clear(h) ==
    /\ pc[h] = "next"
    /\ todo[h] = {}
    /\ subscriptions' = [subscriptions EXCEPT ![h] = [i \in Ids |-> NoEvent]]
    /\ clearing' = [clearing EXCEPT ![h] = FALSE]
    /\ Goto(h, "idle")
    /\ UNCHANGED <<currentId, cur, todo, eventMap, callback, remote>>

(* Event::Unsubscribe returns: unsubscribe erases its entry and returns    *)
(* the status, unsubscribeAll goes on and keeps the entries.               *)
Unsubscribed(h) ==
    IF clearing[h] THEN Goto(h, "next") /\ UNCHANGED subscriptions
                   ELSE Goto(h, "idle") /\ Forget(h)

(* Server::Unsubscribe by the event's name, whoever is subscribed to it.   *)
Leave(h) ==
    /\ pc[h] = "leave"
    /\ ~EventMapLocked
    /\ eventMap' = [eventMap EXCEPT ![Event(h)] = NoSub]
    /\ IF eventMap[Event(h)] = NoSub THEN Unsubscribed(h)
                                     ELSE Goto(h, "cease") /\ UNCHANGED subscriptions
    /\ UNCHANGED <<currentId, cur, todo, clearing, callback, remote>>

Cease(h) ==
    /\ pc[h] = "cease"
    /\ Send(h, FALSE)
    /\ Goto(h, "ceased")
    /\ UNCHANGED <<subscriptions, currentId, cur, todo, clearing, eventMap, callback, listening, notes>>

CannotCease(h) ==
    /\ pc[h] = "cease"
    /\ Unsubscribed(h)
    /\ UNCHANGED <<currentId, cur, todo, clearing, eventMap, callback, remote>>

(* Whatever the answer, or without one. *)
Ceased(h) ==
    /\ pc[h] = "ceased"
    /\ Abandon(h)
    /\ Unsubscribed(h)
    /\ UNCHANGED <<currentId, cur, todo, clearing, eventMap, callback, answer, listening, notes>>

-----------------------------------------------------------------------------
(* Server::Notify, run by a worker; the callback may run at any length. *)

NotifyUnasked(w, e) ==                                           (* mutant *)
    /\ callback[w] = NoSub
    /\ ~EventMapLocked
    /\ notes' = [notes EXCEPT ![e] = @ - 1]
    /\ callback' = [callback EXCEPT ![w] = eventMap[e]]
    /\ UNCHANGED <<helper, eventMap, sent, answer, listening>>

Notify(w, e) ==
    /\ callback[w] = NoSub
    /\ notes[e] > 0
    /\ ~EventMapLocked
    /\ notes' = [notes EXCEPT ![e] = @ - 1]
    /\ callback' = [callback EXCEPT ![w] = eventMap[e]]
    /\ UNCHANGED <<helper, eventMap, sent, answer, listening>>

CallbackReturns(w) ==
    /\ callback[w] # NoSub
    /\ callback' = [callback EXCEPT ![w] = NoSub]
    /\ UNCHANGED <<helper, eventMap, remote>>

-----------------------------------------------------------------------------
(* The remote *)

Reply(h, a) == answer' = IF h = NoHelper THEN answer ELSE [answer EXCEPT ![h] = a]

Comply ==
    /\ sent # <<>>
    /\ LET r == Head(sent)
       IN  /\ listening' = IF r.listen THEN listening \cup {r.event} ELSE listening \ {r.event}
           /\ Reply(r.from, "done")
    /\ sent' = Tail(sent)
    /\ UNCHANGED <<helper, eventMap, callback, notes>>

Decline ==
    /\ sent # <<>>
    /\ \E a \in (IF MayDecline THEN {"declined", "error"} ELSE {"error"}) : Reply(Head(sent).from, a)
    /\ sent' = Tail(sent)
    /\ UNCHANGED <<helper, eventMap, callback, listening, notes>>

Emit(e) ==
    /\ e \in listening
    /\ notes[e] < MaxNotes
    /\ notes' = [notes EXCEPT ![e] = @ + 1]
    /\ UNCHANGED <<helper, eventMap, callback, sent, answer, listening>>

-----------------------------------------------------------------------------
Continue(h) ==
    \/ Join(h) \/ CannotJoin(h) \/ Ask(h) \/ CannotAsk(h)
    \/ Asked(h) \/ AskedInVain(h) \/ Undo(h)
    \/ Round(h) \/ Clear(h) \/ Leave(h)
    \/ Cease(h) \/ CannotCease(h) \/ Ceased(h)

Next ==
    \/ \E h \in Helpers :
          \/ \E e \in Events : Subscribe(h, e)
          \/ \E i \in Ids : Unsubscribe(h, i)
          \/ UnsubscribeAll(h)
          \/ Continue(h)
    \/ \E w \in Workers :
          \/ \E e \in Events : Notify(w, e)
          \/ CallbackReturns(w)
    \/ Comply \/ Decline
    \/ \E e \in Events : Emit(e)

SafeSpec == Init /\ [][Next]_vars

(* Threads run, eventMap_mtx is granted to a thread that keeps asking for  *)
(* it, and callbacks return.                                               *)
Fairness ==
    /\ \A h \in Helpers : SF_vars(Continue(h))
    /\ \A w \in Workers : WF_vars(CallbackReturns(w))

Spec == SafeSpec /\ Fairness

-----------------------------------------------------------------------------
(* Properties *)

(* The addresses in the event map, and the one a running callback was      *)
(* given, point to SubscriptionData that its helper still keeps: in        *)
(* particular no callback runs, or will run, for a subscription after      *)
(* unsubscribe or unsubscribeAll has returned.                             *)
NoDanglingCallback ==
    /\ \A e \in Events, h \in Helpers, i \in Ids :
          eventMap[e] = <<h, i>> => subscriptions[h][i] = e
    /\ \A w \in Workers, h \in Helpers, i \in Ids :
          callback[w] = <<h, i>> => i \in Live(h)

(* A subscription that was reported as made, and is not being ended, is    *)
(* the one in the event map, although failed and finished subscriptions of *)
(* other helpers are removed from there by the event's name alone.         *)
NoSubscriptionLost ==
    \A h \in Helpers : pc[h] = "idle" =>
        \A i \in Live(h) : eventMap[subscriptions[h][i]] = <<h, i>>

Quiet == sent = <<>> /\ \A h \in Helpers : pc[h] = "idle"

(* When nothing is under way, the remote sends the events that somebody is *)
(* subscribed to.                                                          *)
SubscribersAreServed ==
    Quiet => \A e \in Events : eventMap[e] # NoSub => e \in listening

(* Subscribing and unsubscribing end, also when the remote is silent.      *)
OperationsEnd ==
    \A h \in Helpers : pc[h] # "idle" ~> pc[h] = "idle"

=============================================================================
