-------------------------------- MODULE Rpc ---------------------------------
(***************************************************************************)
(* What the gateway promises to a thread that calls Gateway::Request, with *)
(* the queue, the mutexes and the watchdog of gateway/client.h left out:   *)
(* a call is given a fresh message id, and it ends once, with an answer    *)
(* the server gave to that very id, with a timeout, or because the message *)
(* could not be sent.  While the gateway is open every call ends.          *)
(***************************************************************************)
EXTENDS Naturals

CONSTANTS
    Threads,        \* application and worker-pool threads that issue requests
    Ids,            \* message ids
    Results,        \* JSON results a server may send
    Errors,         \* JSON-RPC error codes a server may send
    NoId,           \* the id of a thread that has no call in progress
    NoOutcome,      \* the outcome of a call that has not ended
    Timedout,       \* Firebolt::Error::Timedout, given up by the client
    SendFailed      \* the error of Transport::Send

Bodies == Results \cup Errors

VARIABLES
    used,           \* ids handed out so far
    call,           \* the id of the call each thread is in
    outcome,        \* what Request returned for each id
    answered,       \* pairs <<id, body>> the server has sent
    open            \* the gateway has not been disposed of

vars == <<used, call, outcome, answered, open>>

Init ==
    /\ used = {}
    /\ call = [t \in Threads |-> NoId]
    /\ outcome = [i \in Ids |-> NoOutcome]
    /\ answered = {}
    /\ open = TRUE

Begin(t) ==
    /\ open
    /\ call[t] = NoId
    /\ \E i \in Ids \ used :
          /\ used' = used \cup {i}
          /\ call' = [call EXCEPT ![t] = i]
    /\ UNCHANGED <<outcome, answered, open>>

Answer(i, b) ==
    /\ i \in used
    /\ answered' = answered \cup {<<i, b>>}
    /\ UNCHANGED <<used, call, outcome, open>>

Finish(t) ==
    /\ call[t] # NoId
    /\ \E o \in {b \in Bodies : <<call[t], b>> \in answered} \cup {Timedout, SendFailed} :
          outcome' = [outcome EXCEPT ![call[t]] = o]
    /\ call' = [call EXCEPT ![t] = NoId]
    /\ UNCHANGED <<used, answered, open>>

Close ==
    /\ open
    /\ open' = FALSE
    /\ UNCHANGED <<used, call, outcome, answered>>

Next ==
    \/ \E t \in Threads : Begin(t) \/ Finish(t)
    \/ \E i \in Ids, b \in Bodies : Answer(i, b)
    \/ Close

SafeSpec == Init /\ [][Next]_vars

Spec == SafeSpec /\ \A t \in Threads : WF_vars(open /\ Finish(t))

=============================================================================
