------------------------- MODULE SubscriptionProofs -------------------------
(***************************************************************************)
(* Theorems about module Subscription, for any number of helpers, events   *)
(* and workers.  The invariant says exactly which of a helper's            *)
(* subscriptions are in the event map: all those it keeps, except the ones *)
(* its current operation has not yet put there or has taken out.           *)
(***************************************************************************)
EXTENDS Subscription, DataLemmas

HelperTypes ==
    /\ subscriptions \in [Helpers -> [Ids -> Events \cup {NoEvent}]]
    /\ currentId \in [Helpers -> Ids \cup {MaxId + 1}]
    /\ pc \in [Helpers -> Steps]
    /\ cur \in [Helpers -> Ids]
    /\ todo \in [Helpers -> SUBSET Ids]
    /\ clearing \in [Helpers -> BOOLEAN]
    /\ eventMap \in [Events -> Subs \cup {NoSub}]
    /\ callback \in [Workers -> Subs \cup {NoSub}]

Subscribing == {"join", "ask", "asked", "undo"}
Ending      == {"leave", "cease", "ceased"}

(* Where a helper can be in its operation. *)
Places ==
    \A h \in Helpers :
        /\ pc[h] \in Subscribing \cup Ending => cur[h] \in Live(h)
        /\ pc[h] \in Subscribing => cur[h] = currentId[h]
        /\ \A i \in Live(h) : i < currentId[h] \/ (pc[h] \in Subscribing /\ i = cur[h])
        /\ todo[h] \subseteq Live(h)
        /\ clearing[h] => pc[h] \in Ending \cup {"next"}
        /\ ~clearing[h] => todo[h] = {} /\ pc[h] # "next"
        /\ pc[h] \in Ending => cur[h] \notin todo[h]

(* Subscriptions of h that are not, or no longer, in the event map. *)
Out(h, i) ==
    IF clearing[h] THEN i \notin todo[h] /\ ~(pc[h] = "leave" /\ i = cur[h])
                   ELSE pc[h] \in {"join", "cease", "ceased"} /\ i = cur[h]

Registered ==
    \A h \in Helpers : \A i \in Live(h) :
        ~Out(h, i) <=> eventMap[subscriptions[h][i]] = <<h, i>>

Owned ==
    \A e \in Events, h \in Helpers, i \in Ids :
        eventMap[e] = <<h, i>> => subscriptions[h][i] = e

(* While a callback runs, the entry it was found under stays. *)
Running ==
    \A w \in Workers, h \in Helpers, i \in Ids :
        callback[w] = <<h, i>> => \E e \in Events : eventMap[e] = <<h, i>>

IInv == HelperTypes /\ Places /\ Registered /\ Owned /\ Running

-----------------------------------------------------------------------------
(* Nobody has subscribed to anything yet. *)
LEMMA Initially == Init => IInv
<1> SUFFICES ASSUME Init PROVE IInv
  OBVIOUS
<1>1. HelperTypes
  BY SubscriptionAssumption DEF Init, HelperTypes, Ids, Steps
<1>2. Places /\ Registered
  BY DEF Init, Places, Registered, Live, Subscribing, Ending
<1>3. Owned /\ Running
  BY SubscriptionAssumption DEF Init, Owned, Running, NoSub
<1> QED
  BY <1>1, <1>2, <1>3 DEF IInv

(* Every step of a helper, a worker and the remote preserves it. *)
LEMMA Inductive == IInv /\ [Next]_vars => IInv'
<1> SUFFICES ASSUME HelperTypes, Places, Registered, Owned, Running, [Next]_vars PROVE IInv'
  BY DEF IInv
<1> USE DEF helper, remote
<1>1. ASSUME NEW h \in Helpers, NEW e \in Events, Subscribe(h, e) PROVE IInv'
  <2>a. currentId[h] \notin Live(h)
    <3>1. currentId[h] \in Int
      BY <1>1 DEF Subscribe, Ids
    <3>2. \A j \in Live(h) : j < currentId[h]
      BY <1>1 DEF Subscribe, Places, Subscribing
    <3> QED
      BY <3>1, <3>2
  <2>b. \A d \in Events : eventMap[d] # <<h, currentId[h]>>
    BY <1>1, <2>a, SubscriptionAssumption DEF Subscribe, Owned, Live
  <2>1. HelperTypes'
    BY <1>1 DEF Subscribe, HelperTypes, Steps, Goto
  <2>2. Places'
    BY <1>1, SubscriptionAssumption DEF Subscribe, HelperTypes, Places, Live,
       Subscribing, Ending, Goto
  <2>3. Registered'
    BY <1>1, <2>a, <2>b DEF Subscribe, HelperTypes, Places, Registered, Out, Live,
       Subscribing, Goto
  <2>4. Owned'
    BY <1>1, <2>b DEF Subscribe, Owned
  <2>5. Running'
    BY <1>1 DEF Subscribe, Running
  <2> QED
    BY <2>1, <2>2, <2>3, <2>4, <2>5 DEF IInv
<1>2. ASSUME NEW h \in Helpers, Join(h) PROVE IInv'
  <2>a. cur[h] \in Ids /\ Event(h) \in Events /\ ~clearing[h]
    BY <1>2 DEF Join, HelperTypes, Places, Live, Event, Subscribing, Ending
  <2>1. HelperTypes'
    BY <1>2 DEF Join, HelperTypes, Subs, Steps, Goto
  <2>2. Places'
    BY <1>2 DEF Join, Places, Live, Subscribing, Ending, Goto
  <2>3. Registered'
    <3>1. ASSUME NEW g \in Helpers, g # h, NEW i \in Live(g)'
          PROVE  ~Out(g, i)' <=> eventMap'[subscriptions'[g][i]] = <<g, i>>
      <4>1. (Out(g, i)' <=> Out(g, i)) /\ i \in Live(g)
        BY <1>2, <3>1 DEF Join, HelperTypes, Out, Live, Goto
      <4>2. ~Out(g, i) <=> eventMap[subscriptions[g][i]] = <<g, i>>
        BY <4>1 DEF Registered
      <4>3. subscriptions[g][i] \in Events /\ i \in Ids
        BY <4>1 DEF HelperTypes, Live
      <4>4. <<g, i>> # <<h, cur[h]>> /\ <<g, i>> # NoSub
        BY <3>1, <4>3, SubscriptionAssumption DEF NoSub
      <4> QED
        BY <1>2, <2>a, <4>1, <4>2, <4>3, <4>4 DEF Join, HelperTypes
    <3>2. ASSUME NEW i \in Live(h)'
          PROVE  ~Out(h, i)' <=> eventMap'[subscriptions'[h][i]] = <<h, i>>
      BY <1>2, <2>a, <3>2, SubscriptionAssumption DEF Join, HelperTypes, Registered,
         Out,
         Live, Event, Goto, NoSub
    <3> QED
      BY <3>1, <3>2 DEF Registered
  <2>4. Owned'
    BY <1>2 DEF Join, Owned, Event
  <2>5. Running'
    BY <1>2, SubscriptionAssumption DEF Join, Running, NoSub
  <2> QED
    BY <2>1, <2>2, <2>3, <2>4, <2>5 DEF IInv
<1>3. ASSUME NEW h \in Helpers, CannotJoin(h) PROVE IInv'
  <2>a. cur[h] \in Live(h) /\ Out(h, cur[h]) /\ ~clearing[h]
    BY <1>3 DEF CannotJoin, Places, Out, Subscribing, Ending
  <2>b. \A e \in Events : eventMap[e] # <<h, cur[h]>>
    BY <2>a DEF Registered, Owned, Live
  <2>1. HelperTypes'
    BY <1>3 DEF CannotJoin, Forget, HelperTypes, Steps, Goto
  <2>2. Places'
    BY <1>3, SubscriptionAssumption DEF CannotJoin, Forget, HelperTypes, Places, Live,
       Subscribing, Ending, Goto
  <2>3. Registered'
    <3> SUFFICES ASSUME NEW g \in Helpers, NEW i \in Live(g)'
                 PROVE  ~Out(g, i)' <=> eventMap[subscriptions'[g][i]] = <<g, i>>
      BY <1>3 DEF CannotJoin, Registered
    <3>1. i \in Live(g) /\ (g # h \/ i # cur[h]) /\ subscriptions'[g][i] =
       subscriptions[g][i]
      BY <1>3 DEF CannotJoin, Forget, HelperTypes, Live
    <3>2. Out(g, i)' <=> Out(g, i)
      BY <1>3, <3>1 DEF CannotJoin, Out, Goto
    <3> QED
      BY <3>1, <3>2 DEF Registered
  <2>4. Owned'
    BY <1>3, <2>b DEF CannotJoin, Forget, Owned
  <2>5. Running'
    BY <1>3 DEF CannotJoin, Running
  <2> QED
    BY <2>1, <2>2, <2>3, <2>4, <2>5 DEF IInv
<1>4. ASSUME NEW h \in Helpers, Ask(h) PROVE IInv'
  <2>1. HelperTypes'
    BY <1>4 DEF Ask, HelperTypes, Steps, Goto
  <2>2. Places'
    BY <1>4 DEF Ask, Places, Live, Subscribing, Ending, Goto
  <2>3. Registered'
    BY <1>4 DEF Ask, Registered, Out, Live, Goto
  <2>4. Owned' /\ Running'
    BY <1>4 DEF Ask, Owned, Running
  <2> QED
    BY <2>1, <2>2, <2>3, <2>4 DEF IInv
<1>5. ASSUME NEW h \in Helpers, CannotAsk(h) PROVE IInv'
  <2>1. HelperTypes'
    BY <1>5 DEF CannotAsk, HelperTypes, Steps, Goto
  <2>2. Places'
    BY <1>5 DEF CannotAsk, Places, Live, Subscribing, Ending, Goto
  <2>3. Registered'
    BY <1>5 DEF CannotAsk, Registered, Out, Live, Goto
  <2>4. Owned' /\ Running'
    BY <1>5 DEF CannotAsk, Owned, Running
  <2> QED
    BY <2>1, <2>2, <2>3, <2>4 DEF IInv
<1>6. ASSUME NEW h \in Helpers, Asked(h) PROVE IInv'
  <2>1. HelperTypes'
    BY <1>6, SubscriptionAssumption DEF Asked, HelperTypes, Places, Subscribing,
       Steps, Goto, Ids
  <2>2. Places'
    BY <1>6 DEF Asked, HelperTypes, Places, Live, Subscribing, Ending, Goto, Ids
  <2>3. Registered'
    BY <1>6 DEF Asked, Registered, Out, Live, Goto
  <2>4. Owned' /\ Running'
    BY <1>6 DEF Asked, Owned, Running
  <2> QED
    BY <2>1, <2>2, <2>3, <2>4 DEF IInv
<1>7. ASSUME NEW h \in Helpers, AskedInVain(h) PROVE IInv'
  <2>1. HelperTypes'
    BY <1>7 DEF AskedInVain, HelperTypes, Steps, Goto
  <2>2. Places'
    BY <1>7 DEF AskedInVain, Places, Live, Subscribing, Ending, Goto
  <2>3. Registered'
    BY <1>7 DEF AskedInVain, Registered, Out, Live, Goto
  <2>4. Owned' /\ Running'
    BY <1>7 DEF AskedInVain, Owned, Running
  <2> QED
    BY <2>1, <2>2, <2>3, <2>4 DEF IInv
<1>8. ASSUME NEW h \in Helpers, Undo(h) PROVE IInv'
  <2>a. cur[h] \in Live(h) /\ ~Out(h, cur[h]) /\ ~clearing[h]
    BY <1>8 DEF Undo, Places, Out, Subscribing, Ending
  <2>b. Event(h) \in Events /\ eventMap[Event(h)] = <<h, cur[h]>>
    BY <2>a DEF HelperTypes, Registered, Live, Event
  <2>1. HelperTypes'
    BY <1>8 DEF Undo, Forget, HelperTypes, Steps, Goto
  <2>2. Places'
    BY <1>8, SubscriptionAssumption DEF Undo, Forget, HelperTypes, Places, Live,
       Subscribing, Ending, Goto
  <2>3. Registered'
    <3> SUFFICES ASSUME NEW g \in Helpers, NEW i \in Live(g)'
                 PROVE  ~Out(g, i)' <=> eventMap'[subscriptions'[g][i]] = <<g, i>>
      BY DEF Registered
    <3>1. i \in Live(g) /\ (g # h \/ i # cur[h]) /\ subscriptions'[g][i] =
       subscriptions[g][i]
      BY <1>8 DEF Undo, Forget, HelperTypes, Live
    <3>2. Out(g, i)' <=> Out(g, i)
      BY <1>8 DEF Undo, Out, Goto
    <3>3. eventMap'[subscriptions[g][i]] = <<g, i>> <=> eventMap[subscriptions[g][i]] = <<g,
       i>>
      BY <1>8, <2>b, <3>1, SubscriptionAssumption DEF Undo, NoSub
    <3> QED
      BY <3>1, <3>2, <3>3 DEF Registered
  <2>4. Owned'
    BY <1>8, SubscriptionAssumption DEF Undo, Forget, HelperTypes, Owned, Event, NoSub
  <2>5. Running'
    BY <1>8, SubscriptionAssumption DEF Undo, Running, EventMapLocked
  <2> QED
    BY <2>1, <2>2, <2>3, <2>4, <2>5 DEF IInv
<1>9. ASSUME NEW h \in Helpers, NEW i \in Ids, Unsubscribe(h, i) PROVE IInv'
  <2>1. HelperTypes'
    BY <1>9 DEF Unsubscribe, HelperTypes, Steps, Goto
  <2>2. Places'
    BY <1>9 DEF Unsubscribe, HelperTypes, Places, Live, Subscribing, Ending, Goto
  <2>3. Registered'
    BY <1>9 DEF Unsubscribe, Places, Registered, Out, Live, Ending, Goto
  <2>4. Owned' /\ Running'
    BY <1>9 DEF Unsubscribe, Owned, Running
  <2> QED
    BY <2>1, <2>2, <2>3, <2>4 DEF IInv
<1>10. ASSUME NEW h \in Helpers, UnsubscribeAll(h) PROVE IInv'
  <2>1. HelperTypes'
    BY <1>10 DEF UnsubscribeAll, HelperTypes, Live, Steps, Goto
  <2>2. Places'
    BY <1>10 DEF UnsubscribeAll, HelperTypes, Places, Live, Subscribing, Ending, Goto
  <2>3. Registered'
    BY <1>10 DEF UnsubscribeAll, HelperTypes, Places, Registered, Out, Live, Ending,
       Goto
  <2>4. Owned' /\ Running'
    BY <1>10 DEF UnsubscribeAll, Owned, Running
  <2> QED
    BY <2>1, <2>2, <2>3, <2>4 DEF IInv
<1>11. ASSUME NEW h \in Helpers, Round(h) PROVE IInv'
  <2>1. HelperTypes'
    BY <1>11 DEF Round, HelperTypes, Steps, Goto
  <2>2. Places'
    BY <1>11 DEF Round, HelperTypes, Places, Live, Subscribing, Ending, Goto
  <2>3. Registered'
    BY <1>11 DEF Round, HelperTypes, Registered, Out, Live, Goto
  <2>4. Owned' /\ Running'
    BY <1>11 DEF Round, Owned, Running
  <2> QED
    BY <2>1, <2>2, <2>3, <2>4 DEF IInv
<1>12. ASSUME NEW h \in Helpers, Clear(h) PROVE IInv'
  <2>1. HelperTypes'
    BY <1>12 DEF Clear, HelperTypes, Steps, Goto
  <2>2. Places'
    BY <1>12 DEF Clear, HelperTypes, Places, Live, Subscribing, Ending, Goto
  <2>3. Registered'
    BY <1>12 DEF Clear, HelperTypes, Registered, Out, Live, Goto
  <2>4. Owned'
    <3>1. \A e \in Events, i \in Ids : eventMap[e] # <<h, i>>
      BY <1>12, SubscriptionAssumption DEF Clear, Places, Registered, Owned, Out, Live
    <3> QED
      BY <1>12, <3>1 DEF Clear, Owned
  <2>5. Running'
    BY <1>12 DEF Clear, Running
  <2> QED
    BY <2>1, <2>2, <2>3, <2>4, <2>5 DEF IInv
<1>13. ASSUME NEW h \in Helpers, Leave(h) PROVE IInv'
  <2>c. cur[h] \in Live(h) /\ ~Out(h, cur[h])
    BY <1>13 DEF Leave, Places, Out, Ending
  <2>a. Event(h) \in Events /\ eventMap[Event(h)] = <<h, cur[h]>>
    BY <2>c DEF HelperTypes, Registered, Live, Event
  <2>b. Goto(h, "cease") /\ UNCHANGED subscriptions
    BY <1>13, <2>a, SubscriptionAssumption DEF Leave, NoSub
  <2>1. HelperTypes'
    BY <1>13, <2>b DEF Leave, HelperTypes, Steps, Goto
  <2>2. Places'
    BY <1>13, <2>b DEF Leave, Places, Live, Subscribing, Ending, Goto
  <2>3. Registered'
    <3> SUFFICES ASSUME NEW g \in Helpers, NEW i \in Live(g)
                 PROVE  ~Out(g, i)' <=> eventMap'[subscriptions[g][i]] = <<g, i>>
      BY <2>b DEF Registered, Live
    <3>1. CASE g = h /\ i = cur[h]
      BY <1>13, <2>a, <3>1, SubscriptionAssumption DEF Leave, HelperTypes, Places,
         Out, Event, Goto, NoSub
    <3>2. CASE g # h \/ i # cur[h]
      <4>1. Out(g, i)' <=> Out(g, i)
        BY <1>13, <2>b, <3>2 DEF Leave, Out, Goto
      <4>2. eventMap'[subscriptions[g][i]] = <<g, i>> <=> eventMap[subscriptions[g][i]] =
         <<g, i>>
        BY <1>13, <2>a, <3>2, SubscriptionAssumption DEF Leave, NoSub
      <4> QED
        BY <4>1, <4>2 DEF Registered
    <3> QED
      BY <3>1, <3>2
  <2>4. Owned'
    BY <1>13, <2>b, SubscriptionAssumption DEF Leave, Owned, NoSub
  <2>5. Running'
    BY <1>13, SubscriptionAssumption DEF Leave, Running, EventMapLocked
  <2> QED
    BY <2>1, <2>2, <2>3, <2>4, <2>5 DEF IInv
<1>14. ASSUME NEW h \in Helpers, Cease(h) PROVE IInv'
  <2>1. HelperTypes'
    BY <1>14 DEF Cease, HelperTypes, Steps, Goto
  <2>2. Places'
    BY <1>14 DEF Cease, Places, Live, Subscribing, Ending, Goto
  <2>3. Registered'
    BY <1>14 DEF Cease, Registered, Out, Live, Goto
  <2>4. Owned' /\ Running'
    BY <1>14 DEF Cease, Owned, Running
  <2> QED
    BY <2>1, <2>2, <2>3, <2>4 DEF IInv
<1>15. ASSUME NEW h \in Helpers, CannotCease(h) PROVE IInv'
  <2>a. cur[h] \in Live(h) /\ Out(h, cur[h])
    BY <1>15 DEF CannotCease, Places, Out, Ending
  <2>b. \A e \in Events : eventMap[e] # <<h, cur[h]>>
    BY <2>a DEF Registered, Owned, Live
  <2>c. \/ clearing[h] /\ Goto(h, "next") /\ UNCHANGED subscriptions
        \/ ~clearing[h] /\ Goto(h, "idle") /\ Forget(h)
    BY <1>15 DEF CannotCease, Unsubscribed
  <2>1. HelperTypes'
    <3>1. subscriptions' \in [Helpers -> [Ids -> Events \cup {NoEvent}]]
      BY <2>c DEF HelperTypes, Forget
    <3>2. pc' \in [Helpers -> Steps]
      BY <2>c DEF HelperTypes, Goto, Steps
    <3> QED
      BY <1>15, <3>1, <3>2 DEF CannotCease, HelperTypes
  <2>2. Places'
    BY <1>15, <2>c DEF CannotCease, Forget, HelperTypes, Places, Live, Subscribing,
       Ending, Goto
  <2>3. Registered'
    BY <1>15, <2>c DEF CannotCease, Forget, HelperTypes, Registered, Out, Live, Goto
  <2>4. Owned'
    BY <1>15, <2>b, <2>c DEF CannotCease, Forget, HelperTypes, Owned
  <2>5. Running'
    BY <1>15 DEF CannotCease, Running
  <2> QED
    BY <2>1, <2>2, <2>3, <2>4, <2>5 DEF IInv
<1>16. ASSUME NEW h \in Helpers, Ceased(h) PROVE IInv'
  <2>a. cur[h] \in Live(h) /\ Out(h, cur[h])
    BY <1>16 DEF Ceased, Places, Out, Ending
  <2>b. \A e \in Events : eventMap[e] # <<h, cur[h]>>
    BY <2>a DEF Registered, Owned, Live
  <2>c. \/ clearing[h] /\ Goto(h, "next") /\ UNCHANGED subscriptions
        \/ ~clearing[h] /\ Goto(h, "idle") /\ Forget(h)
    BY <1>16 DEF Ceased, Unsubscribed
  <2>1. HelperTypes'
    <3>1. subscriptions' \in [Helpers -> [Ids -> Events \cup {NoEvent}]]
      BY <2>c DEF HelperTypes, Forget
    <3>2. pc' \in [Helpers -> Steps]
      BY <2>c DEF HelperTypes, Goto, Steps
    <3> QED
      BY <1>16, <3>1, <3>2 DEF Ceased, HelperTypes
  <2>2. Places'
    BY <1>16, <2>c DEF Ceased, Forget, HelperTypes, Places, Live, Subscribing, Ending,
       Goto
  <2>3. Registered'
    <3>1. CASE clearing[h] /\ Goto(h, "next") /\ UNCHANGED subscriptions
      BY <1>16, <2>a, <3>1 DEF Ceased, HelperTypes, Registered, Out, Live, Goto
    <3>2. CASE ~clearing[h] /\ Goto(h, "idle") /\ Forget(h)
      BY <1>16, <2>a, <3>2 DEF Ceased, Forget, HelperTypes, Places, Registered, Out,
         Live, Goto
    <3> QED
      BY <2>c, <3>1, <3>2
  <2>4. Owned'
    BY <1>16, <2>b, <2>c DEF Ceased, Forget, HelperTypes, Owned
  <2>5. Running'
    BY <1>16 DEF Ceased, Running
  <2> QED
    BY <2>1, <2>2, <2>3, <2>4, <2>5 DEF IInv
<1>17. ASSUME NEW w \in Workers, NEW e \in Events, Notify(w, e) PROVE IInv'
  <2>1. HelperTypes'
    BY <1>17 DEF Notify, HelperTypes
  <2>2. Running'
    BY <1>17 DEF Notify, Running
  <2>3. Places' /\ Registered' /\ Owned'
    BY <1>17 DEF Notify, Places, Live, Registered, Out, Live, Owned
  <2> QED
    BY <2>1, <2>2, <2>3 DEF IInv
<1>18. ASSUME NEW w \in Workers, CallbackReturns(w) PROVE IInv'
  <2>1. HelperTypes'
    BY <1>18 DEF CallbackReturns, HelperTypes
  <2>2. Running'
    <3>2. \A h \in Helpers, i \in Ids : callback'[w] # <<h, i>>
      BY <1>18, SubscriptionAssumption DEF CallbackReturns, HelperTypes, NoSub
    <3> QED
      BY <1>18, <3>2 DEF CallbackReturns, Running
  <2>3. Places' /\ Registered' /\ Owned'
    BY <1>18 DEF CallbackReturns, Places, Live, Registered, Out, Live, Owned
  <2> QED
    BY <2>1, <2>2, <2>3 DEF IInv
<1>19. CASE Comply \/ Decline \/ (\E e \in Events : Emit(e)) \/ UNCHANGED vars
  <2>1. UNCHANGED <<helper, eventMap, callback>>
    BY <1>19 DEF Comply, Decline, Emit, vars
  <2>2. HelperTypes' /\ Places'
    BY <2>1 DEF HelperTypes, Places, Live
  <2>3. Registered' /\ Owned' /\ Running'
    BY <2>1 DEF Registered, Owned, Running, Live, Out
  <2> QED
    BY <2>2, <2>3 DEF IInv
<1> QED
  BY <1>1, <1>2, <1>3, <1>4, <1>5, <1>6, <1>7, <1>8, <1>9, <1>10, <1>11, <1>12, <1>13,
     <1>14, <1>15, <1>16, <1>17, <1>18, <1>19 DEF Next, Continue

(* The invariant holds in every state. *)
THEOREM Invariance == SafeSpec => []IInv
  BY Initially, Inductive, PTL DEF SafeSpec

-----------------------------------------------------------------------------
(* What follows from it. *)

(* No address in the event map or in a running callback dangles.           *)
THEOREM CallbacksAreAlive == SafeSpec => []NoDanglingCallback
<1>1. IInv => NoDanglingCallback
  BY SubscriptionAssumption DEF IInv, Owned, Running, Live, NoDanglingCallback
<1> QED
  BY <1>1, Invariance, PTL

(* A subscription that was reported as made stays in the event map until   *)
(* its own helper ends it.                                                 *)
THEOREM SubscriptionsAreKept == SafeSpec => []NoSubscriptionLost
<1>1. IInv => NoSubscriptionLost
  BY DEF IInv, Places, Registered, Out, Ending, NoSubscriptionLost
<1> QED
  BY <1>1, Invariance, PTL

-----------------------------------------------------------------------------
(* The requests on their way, and what the remote knows. *)

Requests == [event : Events, listen : BOOLEAN, from : Helpers \cup {NoHelper}]

RemoteTypes ==
    /\ sent \in Seq(Requests)
    /\ answer \in [Helpers -> Answers]
    /\ listening \subseteq Events
    /\ notes \in [Events -> 0..MaxNotes]

(* What Client::Request and its end do to the requests under way. *)
LEMMA Sending ==
  ASSUME IInv, RemoteTypes, NEW h \in Helpers, pc[h] \in Subscribing \cup Ending,
         NEW l \in BOOLEAN, Send(h, l)
  PROVE  /\ sent' \in Seq(Requests) /\ Len(sent') = Len(sent) + 1
         /\ \A k \in 1..Len(sent) : sent'[k] = sent[k]
         /\ sent'[Len(sent')] = [event |-> Event(h), listen |-> l, from |-> h]
         /\ answer' \in [Helpers -> Answers]
<1>1. Event(h) \in Events
  BY DEF IInv, HelperTypes, Places, Live, Event
<1>2. [event |-> Event(h), listen |-> l, from |-> h] \in Requests
  BY <1>1 DEF Requests
<1> QED
  BY <1>2, AppendProperties DEF Send, RemoteTypes, Answers

LEMMA Abandoning ==
  ASSUME RemoteTypes, NEW h \in Helpers, Abandon(h)
  PROVE  /\ sent' \in Seq(Requests) /\ Len(sent') = Len(sent)
         /\ \A k \in 1..Len(sent) :
               /\ sent'[k].event = sent[k].event /\ sent'[k].listen = sent[k].listen
               /\ sent'[k].from = IF sent[k].from = h THEN NoHelper ELSE sent[k].from
<1> DEFINE n == Len(sent)
<1>1. n \in Nat /\ DOMAIN sent = 1..n /\ \A k \in 1..n : sent[k] \in Requests
  BY DEF RemoteTypes
<1>2. sent' = [k \in 1..n |-> IF sent[k].from = h THEN [sent[k] EXCEPT !.from = NoHelper]
                                                  ELSE sent[k]]
  BY <1>1 DEF Abandon
<1> HIDE DEF n
<1>3. \A k \in 1..n : sent'[k] = IF sent[k].from = h THEN [sent[k] EXCEPT !.from = NoHelper]
                                                     ELSE sent[k]
  BY <1>2
<1>4. ASSUME NEW k \in 1..n
      PROVE  /\ sent'[k] \in Requests
             /\ sent'[k].event = sent[k].event /\ sent'[k].listen = sent[k].listen
             /\ sent'[k].from = IF sent[k].from = h THEN NoHelper ELSE sent[k].from
  <2>1. sent[k] \in Requests
    BY <1>1
  <2> QED
    BY <1>3, <2>1 DEF Requests
<1>5. sent' \in [1..n -> Requests]
  BY <1>2, <1>4
<1>6. sent' \in Seq(Requests) /\ Len(sent') = n
  BY <1>1, <1>5, SeqDef, LenProperties
<1> QED
  BY <1>4, <1>6 DEF n

(* The remote takes the oldest request. *)
LEMMA Receiving ==
  ASSUME RemoteTypes, sent # <<>>
  PROVE  /\ Head(sent) = sent[1] /\ sent[1] \in Requests /\ Len(sent) >= 1
         /\ Tail(sent) \in Seq(Requests) /\ Len(Tail(sent)) = Len(sent) - 1
         /\ \A k \in 1..Len(sent) - 1 : Tail(sent)[k] = sent[k + 1]
<1>1. sent \in Seq(Requests) /\ Len(sent) >= 1 /\ Len(sent) \in Nat
  BY EmptySeq, LenProperties DEF RemoteTypes
<1>2. sent[1] \in Requests
  BY <1>1
<1> QED
  BY <1>1, <1>2, HeadTailProperties

LEMMA RemoteTyping == IInv /\ RemoteTypes /\ [Next]_vars => RemoteTypes'
<1> SUFFICES ASSUME IInv, RemoteTypes, [Next]_vars PROVE RemoteTypes'
  OBVIOUS
<1>1. ASSUME NEW h \in Helpers, Ask(h) \/ Cease(h) PROVE RemoteTypes'
  <2>1. CASE Ask(h)
    <3>1. Send(h, TRUE) /\ pc[h] \in Subscribing /\ UNCHANGED <<listening, notes>>
      BY <2>1 DEF Ask, Subscribing
    <3> QED
      BY <3>1, Sending DEF RemoteTypes
  <2>2. CASE Cease(h)
    <3>1. Send(h, FALSE) /\ pc[h] \in Ending /\ UNCHANGED <<listening, notes>>
      BY <2>2 DEF Cease, Ending
    <3> QED
      BY <3>1, Sending DEF RemoteTypes
  <2> QED
    BY <1>1, <2>1, <2>2
<1>2. ASSUME NEW h \in Helpers, AskedInVain(h) \/ Ceased(h) PROVE RemoteTypes'
  <2>1. Abandon(h) /\ UNCHANGED <<answer, listening, notes>>
    BY <1>2 DEF AskedInVain, Ceased
  <2> QED
    BY <2>1, Abandoning DEF RemoteTypes
<1>3. ASSUME NEW w \in Workers, NEW e \in Events, Notify(w, e) PROVE RemoteTypes'
  BY <1>3, SubscriptionAssumption DEF Notify, RemoteTypes
<1>4. CASE Comply
  <2>1. Tail(sent) \in Seq(Requests) /\ Head(sent) \in Requests
    BY <1>4, Receiving DEF Comply
  <2> QED
    BY <1>4, <2>1 DEF Comply, Reply, RemoteTypes, Requests, Answers
<1>5. CASE Decline
  <2>1. Tail(sent) \in Seq(Requests) /\ Head(sent) \in Requests
    BY <1>5, Receiving DEF Decline
  <2> QED
    BY <1>5, <2>1 DEF Decline, Reply, RemoteTypes, Requests, Answers
<1>6. ASSUME NEW e \in Events, Emit(e) PROVE RemoteTypes'
  BY <1>6, SubscriptionAssumption DEF Emit, RemoteTypes
<1>7. CASE UNCHANGED remote
  BY <1>7 DEF remote, RemoteTypes
<1>8. ASSUME NEW h \in Helpers,
             \/ \E e \in Events : Subscribe(h, e)
             \/ \E i \in Ids : Unsubscribe(h, i)
             \/ UnsubscribeAll(h) \/ Join(h) \/ CannotJoin(h) \/ CannotAsk(h) \/ Asked(h)
             \/ Undo(h) \/ Round(h) \/ Clear(h) \/ Leave(h) \/ CannotCease(h)
      PROVE  UNCHANGED remote
  BY <1>8 DEF Subscribe, Unsubscribe, UnsubscribeAll, Join, CannotJoin, CannotAsk,
     Asked,
     Undo, Round, Clear, Leave, CannotCease
<1>9. ASSUME NEW w \in Workers, CallbackReturns(w) PROVE UNCHANGED remote
  BY <1>9 DEF CallbackReturns
<1> QED
  BY <1>1, <1>2, <1>3, <1>4, <1>5, <1>6, <1>7, <1>8, <1>9 DEF Next, Continue, vars

LEMMA RemoteTyped == Init => RemoteTypes
<1> SUFFICES ASSUME Init PROVE RemoteTypes
  OBVIOUS
<1>1. sent \in Seq(Requests)
  BY DEF Init
<1> QED
  BY <1>1, SubscriptionAssumption DEF Init, RemoteTypes, Answers

(* The state keeps its types, for any numbers of helpers, events, workers, *)
(* and requests under way.                                                 *)
THEOREM TypeCorrect == SafeSpec => []TypeOK
<1>1. IInv /\ RemoteTypes => TypeOK
  BY DEF IInv, HelperTypes, RemoteTypes, TypeOK, Requests
<1> QED
  BY <1>1, Initially, Inductive, RemoteTyped, RemoteTyping, PTL DEF SafeSpec

-----------------------------------------------------------------------------
(* A single helper and a remote that complies or answers with an error.    *)

(* The helper has not yet heard whether the remote will send the event.    *)
Asking(h, e) == pc[h] \in {"ask", "asked", "undo"} /\ Event(h) = e

(* The request somebody waits for is the last one that was sent, and when  *)
(* the remote has complied with it no older one is left.                   *)
Waits(h) ==
    /\ \A k \in DOMAIN sent : sent[k].from = h =>
          /\ k = Len(sent) /\ answer[h] = "none"
          /\ pc[h] \in {"asked", "ceased"}
          /\ sent[k].event = Event(h) /\ sent[k].listen = (pc[h] = "asked")
    /\ answer[h] # "declined"
    /\ pc[h] = "asked" /\ answer[h] = "done" => sent = <<>> /\ Event(h) \in listening

Waiting == \A h \in Helpers : Waits(h)

(* While the helper tells the remote to stop, it is not subscribed.        *)
Free == \A h \in Helpers : pc[h] \in {"cease", "ceased"} => eventMap[Event(h)] = NoSub

(* The remote sends the event of a subscription, and no request under way  *)
(* will change that.                                                       *)
Kept ==
    \A e \in Events :
        eventMap[e] # NoSub /\ (\A h \in Helpers : ~Asking(h, e)) =>
            e \in listening /\ \A k \in DOMAIN sent : sent[k].event # e

SInv == IInv /\ RemoteTypes /\ Waiting /\ Free /\ Kept

LEMMA ServedAtFirst == Init => SInv
<1> SUFFICES ASSUME Init PROVE SInv
  OBVIOUS
<1>1. IInv /\ RemoteTypes
  BY Initially, RemoteTyped
<1>2. Waiting /\ Free /\ Kept
  BY DEF Init, Waiting, Waits, Free, Kept
<1> QED
  BY <1>1, <1>2 DEF SInv

(* Nothing is sent, answered or subscribed to, and the helper does not     *)
(* leave the places where it asks.                                         *)
LEMMA Unheard ==
  ASSUME SInv, IInv', RemoteTypes', UNCHANGED <<sent, answer, listening>>, NEW h \in Helpers,
         \A g \in Helpers : g = h,
         pc'[h] \notin {"asked", "ceased"},
         \A k \in DOMAIN sent : sent[k].from # h,
         pc'[h] = "cease" => eventMap'[Event(h)'] = NoSub,
         \A e \in Events : eventMap'[e] # NoSub /\ ~Asking(h, e)'
                             => eventMap[e] # NoSub /\ ~Asking(h, e)
  PROVE  SInv'
<1>1. Waiting'
  BY DEF SInv, Waiting, Waits
<1>2. Free'
  BY DEF Free
<1>3. Kept'
  BY DEF SInv, Kept
<1> QED
  BY <1>1, <1>2, <1>3 DEF SInv

(* The remote takes a request that h has given up. *)
LEMMA Older ==
  ASSUME RemoteTypes, Waiting, sent # <<>>, sent' = Tail(sent), UNCHANGED <<subscriptions, cur, pc>>,
         NEW h \in Helpers, sent[1].from # h, answer'[h] = answer[h]
  PROVE  Waits(h)'
<1>1. /\ Len(sent) >= 1 /\ Len(sent') = Len(sent) - 1 /\ Len(sent) \in Nat
      /\ DOMAIN sent = 1..Len(sent) /\ DOMAIN sent' = 1..Len(sent')
      /\ \A k \in 1..Len(sent') : sent'[k] = sent[k + 1]
  BY Receiving, LenProperties DEF RemoteTypes
<1>2. ~(pc[h] = "asked" /\ answer[h] = "done")
  BY DEF Waiting, Waits
<1>3. ASSUME NEW k \in DOMAIN sent', sent'[k].from = h
      PROVE  /\ k = Len(sent') /\ answer[h] = "none"
             /\ pc[h] \in {"asked", "ceased"}
             /\ sent'[k].event = Event(h) /\ sent'[k].listen = (pc[h] = "asked")
  <2>1. k + 1 \in DOMAIN sent /\ sent'[k] = sent[k + 1] /\ k \in Nat
    BY <1>1, <1>3
  <2>2. k + 1 = Len(sent)
    BY <1>3, <2>1 DEF Waiting, Waits
  <2> QED
    BY <1>1, <1>3, <2>1, <2>2 DEF Waiting, Waits
<1> QED
  BY <1>2, <1>3 DEF Waiting, Waits, Event

LEMMA ServedInductive ==
  ASSUME ~MayDecline, \A g, h \in Helpers : g = h
  PROVE  SInv /\ [Next]_vars => SInv'
<1> SUFFICES ASSUME SInv, [Next]_vars PROVE SInv'
  OBVIOUS
<1>0. IInv /\ IInv' /\ RemoteTypes /\ RemoteTypes' /\ Waiting /\ Free /\ Kept
  BY Inductive, RemoteTyping DEF SInv
<1>n. DOMAIN sent = 1..Len(sent) /\ Len(sent) \in Nat /\ DOMAIN sent' = 1..Len(sent')
  BY <1>0, LenProperties DEF RemoteTypes
<1>w. ASSUME NEW h \in Helpers, pc[h] \notin {"asked", "ceased"}
      PROVE  \A k \in DOMAIN sent : sent[k].from # h
  BY <1>0, <1>w DEF Waiting, Waits
<1>p. ASSUME NEW h \in Helpers, NEW s, Goto(h, s) PROVE pc'[h] = s
  BY <1>0, <1>p DEF IInv, HelperTypes, Goto
<1> USE DEF helper, remote
<1>1. ASSUME NEW h \in Helpers, NEW e \in Events, Subscribe(h, e) PROVE SInv'
  <2>1. pc[h] = "idle" /\ pc'[h] = "join" /\ UNCHANGED <<eventMap, remote>>
    BY <1>1, <1>p DEF Subscribe
  <2> QED
    BY <1>0, <1>w, <2>1, Unheard DEF Asking
<1>2. ASSUME NEW h \in Helpers, Join(h) PROVE SInv'
  <2>1. /\ pc[h] = "join" /\ pc'[h] = "ask" /\ Event(h)' = Event(h) /\ UNCHANGED remote
        /\ \A e \in Events : e # Event(h) => eventMap'[e] = eventMap[e]
    BY <1>0, <1>2, <1>p DEF Join, Event, IInv, HelperTypes
  <2> QED
    BY <1>0, <1>w, <2>1, Unheard DEF Asking
<1>3. ASSUME NEW h \in Helpers, CannotJoin(h) PROVE SInv'
  <2>1. pc[h] = "join" /\ pc'[h] = "idle" /\ UNCHANGED <<eventMap, remote>>
    BY <1>3, <1>p DEF CannotJoin
  <2> QED
    BY <1>0, <1>w, <2>1, Unheard DEF Asking
<1>4. ASSUME NEW h \in Helpers, CannotAsk(h) PROVE SInv'
  <2>1. pc[h] = "ask" /\ pc'[h] = "undo" /\ Event(h)' = Event(h) /\ UNCHANGED <<eventMap, remote>>
    BY <1>4, <1>p DEF CannotAsk, Event
  <2> QED
    BY <1>0, <1>w, <2>1, Unheard DEF Asking
<1>5. ASSUME NEW h \in Helpers, Undo(h) PROVE SInv'
  <2>1. /\ pc[h] = "undo" /\ pc'[h] = "idle" /\ UNCHANGED remote
        /\ Event(h) \in Events /\ eventMap' = [eventMap EXCEPT ![Event(h)] = NoSub]
    BY <1>0, <1>5, <1>p DEF Undo, IInv, HelperTypes, Places, Live, Event, Subscribing
  <2>2. \A e \in Events : eventMap'[e] = IF e = Event(h) THEN NoSub ELSE eventMap[e]
    BY <1>0, <2>1 DEF IInv, HelperTypes
  <2> QED
    BY <1>0, <1>w, <2>1, <2>2, Unheard DEF Asking
<1>6. ASSUME NEW h \in Helpers,
             UnsubscribeAll(h) \/ Round(h) \/ Clear(h) \/ \E i \in Ids : Unsubscribe(h, i)
      PROVE  SInv'
  <2>1. /\ pc[h] \in {"idle", "next"} /\ pc'[h] \in {"leave", "idle", "next"}
        /\ UNCHANGED <<eventMap, remote>>
    BY <1>6, <1>p DEF UnsubscribeAll, Round, Clear, Unsubscribe
  <2> QED
    BY <1>0, <1>w, <2>1, Unheard DEF Asking
<1>7. ASSUME NEW h \in Helpers, Leave(h) PROVE SInv'
  <2>1. /\ pc[h] = "leave" /\ UNCHANGED remote
        /\ Event(h) \in Events /\ eventMap' = [eventMap EXCEPT ![Event(h)] = NoSub]
    BY <1>0, <1>7 DEF Leave, IInv, HelperTypes, Places, Live, Event, Ending
  <2>2. \/ pc'[h] \in {"next", "idle"}
        \/ pc'[h] = "cease" /\ Event(h)' = Event(h)
    BY <1>7, <1>p DEF Leave, Unsubscribed, Event
  <2>3. \A e \in Events : eventMap'[e] = IF e = Event(h) THEN NoSub ELSE eventMap[e]
    BY <1>0, <2>1 DEF IInv, HelperTypes
  <2> QED
    BY <1>0, <1>w, <2>1, <2>2, <2>3, Unheard DEF Asking
<1>8. ASSUME NEW h \in Helpers, CannotCease(h) PROVE SInv'
  <2>1. /\ pc[h] = "cease" /\ pc'[h] \in {"next", "idle"} /\ UNCHANGED <<eventMap, remote>>
    BY <1>8, <1>p DEF CannotCease, Unsubscribed
  <2> QED
    BY <1>0, <1>w, <2>1, Unheard DEF Asking
<1>9. ASSUME NEW h \in Helpers, Asked(h) PROVE SInv'
  <2>1. /\ pc[h] = "asked" /\ answer[h] = "done" /\ pc'[h] = "idle"
        /\ Event(h)' = Event(h) /\ UNCHANGED <<eventMap, remote>>
    BY <1>0, <1>9, <1>p DEF Asked, Waiting, Waits, Event
  <2>2. sent = <<>> /\ Event(h) \in listening
    BY <1>0, <2>1 DEF Waiting, Waits
  <2>3. Waiting' /\ Free'
    BY <1>0, <2>1, <2>2 DEF Waiting, Waits, Free
  <2>4. Kept'
    BY <1>0, <2>1, <2>2 DEF Kept, Asking
  <2> QED
    BY <1>0, <2>3, <2>4 DEF SInv
<1>10. ASSUME NEW h \in Helpers, Ask(h) \/ Cease(h) PROVE SInv'
  <2>1. PICK l \in BOOLEAN :
          /\ Send(h, l) /\ UNCHANGED <<eventMap, listening>> /\ Event(h)' = Event(h)
          /\ \/ l = TRUE /\ pc[h] = "ask" /\ pc'[h] = "asked"
             \/ l = FALSE /\ pc[h] = "cease" /\ pc'[h] = "ceased"
    BY <1>10, <1>p DEF Ask, Cease, Event
  <2>2. /\ Len(sent') = Len(sent) + 1 /\ \A k \in 1..Len(sent) : sent'[k] = sent[k]
        /\ sent'[Len(sent')] = [event |-> Event(h), listen |-> l, from |-> h]
    BY <1>0, <2>1, Sending DEF Subscribing, Ending
  <2>3. answer'[h] = "none"
    BY <1>0, <2>1 DEF Send, RemoteTypes
  <2>4. \A k \in DOMAIN sent : sent[k].from # h
    BY <1>w, <2>1
  <2>5. Waiting'
    BY <1>n, <2>1, <2>2, <2>3, <2>4 DEF Waiting, Waits
  <2>6. Free'
    BY <1>0, <2>1 DEF Free
  <2>7. Kept'
    <3> SUFFICES ASSUME NEW e \in Events, eventMap'[e] # NoSub, ~Asking(h, e)'
                 PROVE  e \in listening' /\ \A k \in DOMAIN sent' : sent'[k].event # e
      BY DEF Kept
    <3>1. e # Event(h)
      BY <1>0, <2>1 DEF Asking, Free
    <3>2. e \in listening /\ \A k \in DOMAIN sent : sent[k].event # e
      BY <1>0, <2>1, <3>1 DEF Kept, Asking
    <3> QED
      BY <1>n, <2>1, <2>2, <3>1, <3>2
  <2> QED
    BY <1>0, <2>5, <2>6, <2>7 DEF SInv
<1>11. ASSUME NEW h \in Helpers, AskedInVain(h) \/ Ceased(h) PROVE SInv'
  <2>1. /\ Abandon(h) /\ UNCHANGED <<eventMap, answer, listening>>
        /\ \/ pc[h] = "asked" /\ pc'[h] = "undo" /\ Event(h)' = Event(h)
           \/ pc[h] = "ceased" /\ pc'[h] \in {"next", "idle"}
    BY <1>11, <1>p DEF AskedInVain, Ceased, Unsubscribed, Event
  <2>2. /\ Len(sent') = Len(sent)
        /\ \A k \in 1..Len(sent) : sent'[k].event = sent[k].event /\ sent'[k].from # h
    <3>1. NoHelper # h
      BY SubscriptionAssumption
    <3> QED
      BY <1>0, <2>1, <3>1, Abandoning
  <2>3. Waiting'
    BY <1>0, <1>n, <2>1, <2>2 DEF Waiting, Waits
  <2>4. Free'
    BY <2>1 DEF Free
  <2>5. Kept'
    BY <1>0, <1>n, <2>1, <2>2 DEF Kept, Asking
  <2> QED
    BY <1>0, <2>3, <2>4, <2>5 DEF SInv
<1>12. CASE Comply
  <2>1. /\ sent # <<>> /\ sent' = Tail(sent) /\ Head(sent) = sent[1] /\ sent[1] \in Requests
        /\ Len(sent) >= 1 /\ Len(sent') = Len(sent) - 1
        /\ \A k \in 1..Len(sent) - 1 : sent'[k] = sent[k + 1]
        /\ UNCHANGED <<helper, eventMap>>
    BY <1>0, <1>12, Receiving DEF Comply
  <2>2. /\ listening' = IF sent[1].listen THEN listening \cup {sent[1].event}
                                          ELSE listening \ {sent[1].event}
        /\ answer' = IF sent[1].from = NoHelper THEN answer
                                                ELSE [answer EXCEPT ![sent[1].from] = "done"]
    BY <1>12, <2>1 DEF Comply, Reply
  <2>3. ASSUME NEW h \in Helpers PROVE Waits(h)'
    <3>1. CASE sent[1].from = h
      <4>1. Len(sent) = 1 /\ sent[1].event = Event(h) /\ (pc[h] = "asked" => sent[1].listen)
        <5>1. 1 \in DOMAIN sent
          BY <1>n, <2>1
        <5>2. 1 = Len(sent) /\ sent[1].event = Event(h)
          BY <1>0, <3>1, <5>1 DEF Waiting, Waits
        <5>3. sent[1].listen = (pc[h] = "asked")
          BY <1>0, <3>1, <5>1 DEF Waiting, Waits
        <5> QED
          BY <5>2, <5>3, Zenon
      <4>2. Len(sent') = 0 /\ sent' = <<>>
        BY <1>0, <2>1, <4>1, EmptySeq DEF RemoteTypes
      <4>3. answer'[h] = "done"
        BY <1>0, <2>2, <3>1, SubscriptionAssumption DEF RemoteTypes
      <4> QED
        BY <1>n, <2>1, <2>2, <4>1, <4>2, <4>3 DEF Waits, Event
    <3>2. CASE sent[1].from # h
      BY <1>0, <2>1, <2>2, <3>2, Older DEF Requests
    <3> QED
      BY <3>1, <3>2
  <2>4. Free'
    BY <1>0, <2>1 DEF Free, Event
  <2>5. Kept'
    <3> SUFFICES ASSUME NEW e \in Events, eventMap[e] # NoSub, \A h \in Helpers : ~Asking(h, e)
                 PROVE  e \in listening' /\ \A k \in DOMAIN sent' : sent'[k].event # e
      BY <2>1 DEF Kept, Asking, Event
    <3>1. e \in listening /\ \A k \in DOMAIN sent : sent[k].event # e
      BY <1>0 DEF Kept
    <3> QED
      BY <1>n, <2>1, <2>2, <3>1
  <2> QED
    BY <1>0, <2>3, <2>4, <2>5 DEF SInv, Waiting
<1>13. CASE Decline
  <2>1. /\ sent # <<>> /\ sent' = Tail(sent) /\ Head(sent) = sent[1] /\ sent[1] \in Requests
        /\ Len(sent) >= 1 /\ Len(sent') = Len(sent) - 1
        /\ \A k \in 1..Len(sent) - 1 : sent'[k] = sent[k + 1]
        /\ UNCHANGED <<helper, eventMap, listening>>
    BY <1>0, <1>13, Receiving DEF Decline
  <2>2. answer' = IF sent[1].from = NoHelper THEN answer
                                             ELSE [answer EXCEPT ![sent[1].from] = "error"]
    BY <1>13, <2>1 DEF Decline, Reply
  <2>3. ASSUME NEW h \in Helpers PROVE Waits(h)'
    <3>1. CASE sent[1].from = h
      <4>1. Len(sent') = 0
        BY <1>0, <1>n, <2>1, <3>1 DEF Waiting, Waits
      <4>2. answer'[h] = "error"
        BY <1>0, <2>2, <3>1, SubscriptionAssumption DEF RemoteTypes
      <4> QED
        BY <1>n, <4>1, <4>2 DEF Waits
    <3>2. CASE sent[1].from # h
      BY <1>0, <2>1, <2>2, <3>2, Older DEF Requests
    <3> QED
      BY <3>1, <3>2
  <2>4. Free'
    BY <1>0, <2>1 DEF Free, Event
  <2>5. Kept'
    <3> SUFFICES ASSUME NEW e \in Events, eventMap[e] # NoSub, \A h \in Helpers : ~Asking(h, e)
                 PROVE  e \in listening /\ \A k \in DOMAIN sent' : sent'[k].event # e
      BY <2>1 DEF Kept, Asking, Event
    <3>1. e \in listening /\ \A k \in DOMAIN sent : sent[k].event # e
      BY <1>0 DEF Kept
    <3> QED
      BY <1>n, <2>1, <3>1
  <2> QED
    BY <1>0, <2>3, <2>4, <2>5 DEF SInv, Waiting
<1>14. ASSUME UNCHANGED <<helper, eventMap, sent, answer, listening>> PROVE SInv'
  <2>1. Waiting' /\ Free' /\ Kept'
    BY <1>0, <1>14 DEF Waiting, Waits, Free, Kept, Asking, Event
  <2> QED
    BY <1>0, <2>1 DEF SInv
<1>15. \A w \in Workers, e \in Events :
         Notify(w, e) => UNCHANGED <<helper, eventMap, sent, answer, listening>>
  BY DEF Notify
<1>16. UNCHANGED vars => UNCHANGED <<helper, eventMap, sent, answer, listening>>
  BY DEF vars
<1>17. \A w \in Workers : CallbackReturns(w) => UNCHANGED <<helper, eventMap, sent, answer, listening>>
  BY DEF CallbackReturns
<1>18. \A e \in Events : Emit(e) => UNCHANGED <<helper, eventMap, sent, answer, listening>>
  BY DEF Emit
<1> QED
  BY <1>1, <1>2, <1>3, <1>4, <1>5, <1>6, <1>7, <1>8, <1>9, <1>10, <1>11, <1>12, <1>13,
     <1>14, <1>15, <1>16, <1>17, <1>18 DEF Next, Continue

(* When one helper has nothing under way, the remote sends every event it  *)
(* is subscribed to (helpers.cpp:31, gateway_impl.h:118), however many     *)
(* requests were given up before, if the remote does what it says.         *)
THEOREM OneHelperIsServed ==
  ASSUME ~MayDecline, \A g, h \in Helpers : g = h
  PROVE  SafeSpec => []SubscribersAreServed
<1>1. SInv => SubscribersAreServed
  BY DEF SInv, Kept, Asking, SubscribersAreServed, Quiet
<1>2. SInv /\ [Next]_vars => SInv'
  BY ServedInductive
<1> QED
  BY <1>1, <1>2, ServedAtFirst, PTL DEF SafeSpec

=============================================================================
