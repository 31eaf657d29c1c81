----------------------------- MODULE Providers -----------------------------
(***************************************************************************)
(* The methods the application provides to the remote: the provider half   *)
(* of FireboltSDK::Transport::Server (gateway/server.h).                   *)
(*                                                                         *)
(* Server::Request holds providers_mtx while the application's method runs *)
(* and its answer is sent, so that the mutex is held across a step exactly *)
(* by a worker that serves a request.  Threads that register are blocked   *)
(* meanwhile.  A method does not call back into the SDK.                   *)
(***************************************************************************)
EXTENDS Integers, Sequences, SequencesExt

CONSTANTS
    Interfaces,     \* what stands before the dot of a method's name
    Bases,          \* what stands behind it, without "on", in lower case
    UserCbs,        \* the usercb pointers of the application
    Workers,        \* threads of the pool
    Requests,       \* requests of the remote
    Nothing         \* no request, no method

(* Bases are spelled "x" or "onX".  Request and Unregister take a name as  *)
(* it is, Register takes the "on" off.                                     *)
Names   == {"", "on"} \X Bases
Methods == Names \X UserCbs
Targets == Interfaces \X Names

ASSUME ProvidersAssumption == Nothing \notin Requests \cup Methods

VARIABLES
    providers,      \* the methods of each interface, in their order
    target,         \* interface and method each request asks for
    request,        \* what has become of each request
    serving,        \* the request each worker serves
    server,         \* the method that serves or has served each request
    offered         \* registrations the application has not taken back

wire == <<target, request, server>>
vars == <<providers, wire, serving, offered>>

TypeOK ==
    /\ providers \in [Interfaces -> Seq(Methods)]
    /\ \A i \in Interfaces : IsInjective(providers[i])
    /\ target \in [Requests -> Targets \cup {Nothing}]
    /\ request \in [Requests -> {"unsent", "waiting", "served", "answered", "ignored"}]
    /\ serving \in [Workers -> Requests \cup {Nothing}]
    /\ server \in [Requests -> Methods \cup {Nothing}]
    /\ offered \subseteq Interfaces \X Methods

Init ==
    /\ providers = [i \in Interfaces |-> <<>>]
    /\ target = [r \in Requests |-> Nothing]
    /\ request = [r \in Requests |-> "unsent"]
    /\ serving = [w \in Workers |-> Nothing]
    /\ server = [r \in Requests |-> Nothing]
    /\ offered = {}

-----------------------------------------------------------------------------
AlwaysUnlocked == TRUE                                           (* mutant *)

Unlocked == \A w \in Workers : serving[w] = Nothing

Normal(n) == <<"", n[2]>>

Provided(i) == ToSet(providers[i])

(* Where interface i has a method of name n; the first of these methods. *)
Named(i, n) == {k \in DOMAIN providers[i] : providers[i][k][1] = n}
First(i, n) == providers[i][CHOOSE k \in Named(i, n) : \A l \in Named(i, n) : k <= l]

RegisterTwice(i, n, u) ==                                        (* mutant *)
    /\ Unlocked
    /\ LET m == <<Normal(n), u>>
       IN  /\ providers' = [providers EXCEPT ![i] = Append(@, m)]
           /\ offered' = offered \cup {<<i, m>>}
    /\ UNCHANGED <<wire, serving>>

RegisterFirst(i, n, u) ==                                        (* mutant *)
    /\ Unlocked
    /\ LET m == <<Normal(n), u>>
       IN  /\ providers' = IF m \in Provided(i) THEN providers
                           ELSE [providers EXCEPT ![i] = <<m>> \o @]
           /\ offered' = offered \cup {<<i, m>>}
    /\ UNCHANGED <<wire, serving>>

(* Server::RegisterProviderInterface *)
Register(i, n, u) ==
    /\ Unlocked
    /\ LET m == <<Normal(n), u>>
       IN  /\ providers' = IF m \in Provided(i) THEN providers
                           ELSE [providers EXCEPT ![i] = Append(@, m)]
           /\ offered' = offered \cup {<<i, m>>}
    /\ UNCHANGED <<wire, serving>>

UnregisterName(i, n, u) ==                                       (* mutant *)
    /\ Unlocked
    /\ providers' = [providers EXCEPT ![i] = SelectSeq(@, LAMBDA m : m[1] # n)]
    /\ offered' = offered \ {<<i, <<n, u>>>>}
    /\ UNCHANGED <<wire, serving>>

(* Server::UnregisterProviderInterface *)
Unregister(i, n, u) ==
    /\ Unlocked
    /\ \/ \E k \in DOMAIN providers[i] :
            /\ providers[i][k] = <<n, u>>
            /\ providers' = [providers EXCEPT ![i] = RemoveAt(@, k)]
       \/ <<n, u>> \notin Provided(i) /\ UNCHANGED providers
    /\ offered' = offered \ {<<i, <<n, u>>>>}
    /\ UNCHANGED <<wire, serving>>

(* Server::Request, up to the call of the method: the first one of that    *)
(* name.  A request for a method nobody provides gets no answer.           *)
Ignore(r) ==
    /\ Unlocked
    /\ request[r] = "waiting"
    /\ Named(target[r][1], target[r][2]) = {}
    /\ request' = [request EXCEPT ![r] = "ignored"]
    /\ UNCHANGED <<providers, target, server, serving, offered>>

Serve(w, r) ==
    /\ Unlocked
    /\ request[r] = "waiting"
    /\ Named(target[r][1], target[r][2]) # {}
    /\ server' = [server EXCEPT ![r] = First(target[r][1], target[r][2])]
    /\ request' = [request EXCEPT ![r] = "served"]
    /\ serving' = [serving EXCEPT ![w] = r]
    /\ UNCHANGED <<providers, target, offered>>

AnswerKeepingLock(w) ==                                          (* mutant *)
    /\ serving[w] # Nothing
    /\ request' = [request EXCEPT ![serving[w]] = "answered"]
    /\ UNCHANGED <<providers, target, server, serving, offered>>

(* The method returns and its result goes to Transport::SendResponse. *)
Answer(w) ==
    /\ serving[w] # Nothing
    /\ request' = [request EXCEPT ![serving[w]] = "answered"]
    /\ serving' = [serving EXCEPT ![w] = Nothing]
    /\ UNCHANGED <<providers, target, server, offered>>

(* The remote. *)
Ask(r, t) ==
    /\ request[r] = "unsent"
    /\ request' = [request EXCEPT ![r] = "waiting"]
    /\ target' = [target EXCEPT ![r] = t]
    /\ UNCHANGED <<providers, server, serving, offered>>

Handle(r) == Ignore(r) \/ \E w \in Workers : Serve(w, r)

Next ==
    \/ \E i \in Interfaces, n \in Names, u \in UserCbs : Register(i, n, u) \/ Unregister(i, n, u)
    \/ \E r \in Requests : Handle(r) \/ \E t \in Targets : Ask(r, t)
    \/ \E w \in Workers : Answer(w)

SafeSpec == Init /\ [][Next]_vars

(* The pool handles what has arrived, methods return. *)
Spec ==
    /\ SafeSpec
    /\ \A r \in Requests : WF_vars(Handle(r))
    /\ \A w \in Workers : WF_vars(Answer(w))

-----------------------------------------------------------------------------
(* What the application has registered and not taken back stays there:     *)
(* nobody's unregistering removes somebody else's method, of the same name *)
(* or with the same usercb (server.h:215).                                 *)
RegistrationsAreKept == \A x \in offered : x[2] \in Provided(x[1])

(* A method never runs once Unregister has taken it back: the application  *)
(* may free what usercb points to (server.h:148, 158, 212).                *)
SilentAfterUnregister ==
    \A w \in Workers : serving[w] # Nothing =>
        LET r == serving[w] IN <<target[r][1], server[r]>> \in offered

(* Who serves a name serves it until he takes it back: a later             *)
(* registration of the name under another usercb waits behind him.         *)
FirstServes ==
    [][\A i \in Interfaces, n \in Names :
         LET first == First(i, n)
         IN  Named(i, n) # {} /\ <<i, first>> \in offered'
               => Named(i, n)' # {} /\ First(i, n)' = first]_vars

(* Every request is served and answered, or nobody provides its method,    *)
(* although methods of the application hold providers_mtx while they run.  *)
RequestsEnd ==
    \A r \in Requests : request[r] = "waiting" ~> request[r] \in {"answered", "ignored"}
=============================================================================
