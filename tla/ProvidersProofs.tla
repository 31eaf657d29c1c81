-------------------------- MODULE ProvidersProofs --------------------------
(***************************************************************************)
(* What is registered is what the application has registered, and a method *)
(* runs only while it is, for any numbers of interfaces, methods, workers  *)
(* and requests.                                                           *)
(***************************************************************************)
EXTENDS Providers, DataLemmas

LEMMA FirstIsProvided ==
  ASSUME TypeOK, NEW i \in Interfaces, NEW n, Named(i, n) # {}
  PROVE  First(i, n) \in Provided(i) /\ First(i, n) \in Methods
<1>1. providers[i] \in Seq(Methods) /\ Named(i, n) \subseteq Nat
  BY DEF TypeOK, Named
<1>2. \E k \in Named(i, n) : \A l \in Named(i, n) : k <= l
  BY <1>1, Smallest
<1>3. First(i, n) \in {providers[i][k] : k \in Named(i, n)}
  BY <1>2 DEF First
<1> QED
  BY <1>1, <1>3 DEF Named, Provided, ToSet

-----------------------------------------------------------------------------
(* The code's list of an interface holds exactly what is offered. *)
Ledger == \A i \in Interfaces, m \in Methods : <<i, m>> \in offered <=> m \in Provided(i)

(* A request that is served has been asked. *)
Asked ==
    /\ \A r \in Requests : request[r] # "unsent" => target[r] \in Targets
    /\ \A w \in Workers : serving[w] # Nothing => request[serving[w]] \notin {"unsent", "waiting"}

IInv == TypeOK /\ Ledger /\ Asked /\ SilentAfterUnregister

LEMMA Initially == Init => IInv
<1> SUFFICES ASSUME Init PROVE IInv
  OBVIOUS
<1>1. TypeOK
  BY DEF Init, TypeOK, IsInjective
<1>2. Ledger
  BY DEF Init, Ledger, Provided, ToSet
<1>3. Asked /\ SilentAfterUnregister
  BY ProvidersAssumption DEF Init, Asked, SilentAfterUnregister
<1> QED
  BY <1>1, <1>2, <1>3 DEF IInv

(* Nothing is served while the lists change. *)
LEMMA Inductive == IInv /\ [Next]_vars => IInv'
<1> SUFFICES ASSUME IInv, [Next]_vars PROVE IInv'
  OBVIOUS
<1> USE DEF IInv
<1>1. ASSUME NEW i \in Interfaces, NEW n \in Names, NEW u \in UserCbs, Register(i, n, u) PROVE IInv'
  <2>1. PICK m \in Methods : m = <<Normal(n), u>>
    BY DEF Methods, Names, Normal
  <2>2. /\ providers'[i] \in Seq(Methods) /\ IsInjective(providers'[i])
        /\ ToSet(providers'[i]) = ToSet(providers[i]) \cup {m}
        /\ \A j \in Interfaces \ {i} : providers'[j] = providers[j]
        /\ providers' \in [Interfaces -> Seq(Methods)]
    <3>1. CASE m \in Provided(i)
      BY <1>1, <2>1, <3>1 DEF Register, TypeOK, Provided
    <3>2. CASE m \notin Provided(i)
      <4>1. providers' = [providers EXCEPT ![i] = Append(@, m)]
        BY <1>1, <2>1, <3>2 DEF Register
      <4>2. providers[i] \in Seq(Methods) /\ IsInjective(providers[i]) /\ m \notin ToSet(providers[i])
        BY <3>2 DEF TypeOK, Provided
      <4> QED
        BY <4>1, <4>2, Appending DEF TypeOK
    <3> QED
      BY <3>1, <3>2
  <2>3. offered' = offered \cup {<<i, m>>}
    BY <1>1, <2>1 DEF Register
  <2>4. TypeOK'
    <3>1. offered' \subseteq Interfaces \X Methods
      <4>1. offered \subseteq Interfaces \X Methods /\ <<i, m>> \in Interfaces \X Methods
        BY DEF TypeOK
      <4> QED
        BY <2>3, <4>1
    <3> QED
      BY <1>1, <2>2, <3>1 DEF Register, TypeOK, wire
  <2>5. Ledger'
    <3> SUFFICES ASSUME NEW j \in Interfaces, NEW x \in Methods
                 PROVE  <<j, x>> \in offered' <=> x \in ToSet(providers'[j])
      BY DEF Ledger, Provided
    <3>1. <<j, x>> \in offered' <=> <<j, x>> \in offered \/ (j = i /\ x = m)
      BY <2>3
    <3>2. <<j, x>> \in offered <=> x \in ToSet(providers[j])
      BY DEF Ledger, Provided
    <3> QED
      BY <2>2, <3>1, <3>2
  <2>6. Asked' /\ SilentAfterUnregister'
    BY <1>1 DEF Register, Unlocked, Asked, SilentAfterUnregister, wire
  <2> QED
    BY <2>4, <2>5, <2>6
<1>2. ASSUME NEW i \in Interfaces, NEW n \in Names, NEW u \in UserCbs, Unregister(i, n, u) PROVE IInv'
  <2>1. PICK m \in Methods : m = <<n, u>>
    BY DEF Methods
  <2>2. /\ providers'[i] \in Seq(Methods) /\ IsInjective(providers'[i])
        /\ ToSet(providers'[i]) = ToSet(providers[i]) \ {m}
        /\ \A j \in Interfaces \ {i} : providers'[j] = providers[j]
        /\ providers' \in [Interfaces -> Seq(Methods)]
    <3>1. providers[i] \in Seq(Methods) /\ IsInjective(providers[i])
      BY DEF TypeOK
    <3>2. CASE m \notin Provided(i) /\ UNCHANGED providers
      BY <3>1, <3>2 DEF TypeOK, Provided
    <3>3. ASSUME NEW k \in DOMAIN providers[i], providers[i][k] = m,
                 providers' = [providers EXCEPT ![i] = RemoveAt(@, k)]
          PROVE  <2>2!:
      BY <3>1, <3>3, Removing DEF TypeOK
    <3> QED
      BY <1>2, <2>1, <3>2, <3>3 DEF Unregister
  <2>3. offered' = offered \ {<<i, m>>}
    BY <1>2, <2>1 DEF Unregister
  <2>4. TypeOK'
    BY <1>2, <2>2, <2>3 DEF Unregister, TypeOK, wire
  <2>5. Ledger'
    BY <2>1, <2>2, <2>3 DEF Ledger, Provided
  <2>6. Asked' /\ SilentAfterUnregister'
    BY <1>2 DEF Unregister, Unlocked, Asked, SilentAfterUnregister, wire
  <2> QED
    BY <2>4, <2>5, <2>6
<1>3. ASSUME NEW r \in Requests, Ignore(r) PROVE IInv'
  BY <1>3 DEF Ignore, Unlocked, TypeOK, Ledger, Provided, Asked, SilentAfterUnregister
<1>4. ASSUME NEW w \in Workers, NEW r \in Requests, Serve(w, r) PROVE IInv'
  <2>1. target[r] \in Targets
    BY <1>4 DEF Serve, Asked
  <2>2. /\ target[r][1] \in Interfaces
        /\ First(target[r][1], target[r][2]) \in Provided(target[r][1])
        /\ First(target[r][1], target[r][2]) \in Methods
    BY <1>4, <2>1, FirstIsProvided DEF Serve, Targets
  <2>3. TypeOK'
    BY <1>4, <2>2 DEF Serve, TypeOK
  <2>4. Ledger'
    BY <1>4 DEF Serve, Ledger, Provided
  <2>5. Asked'
    BY <1>4, <2>1 DEF Serve, Unlocked, TypeOK, Asked
  <2>6. SilentAfterUnregister'
    BY <1>4, <2>2 DEF Serve, Unlocked, TypeOK, Ledger, SilentAfterUnregister
  <2> QED
    BY <2>3, <2>4, <2>5, <2>6
<1>5. ASSUME NEW w \in Workers, Answer(w) PROVE IInv'
  BY <1>5 DEF Answer, TypeOK, Ledger, Provided, Asked, SilentAfterUnregister
<1>6. ASSUME NEW r \in Requests, NEW t \in Targets, Ask(r, t) PROVE IInv'
  BY <1>6 DEF Ask, TypeOK, Ledger, Provided, Asked, SilentAfterUnregister
<1>7. CASE UNCHANGED vars
  BY <1>7 DEF vars, wire, TypeOK, Ledger, Provided, Asked, SilentAfterUnregister
<1> QED
  BY <1>1, <1>2, <1>3, <1>4, <1>5, <1>6, <1>7 DEF Next, Handle

LEMMA Invariant == SafeSpec => []IInv
  BY Initially, Inductive, PTL DEF SafeSpec

(* Every variable keeps its type; no method is twice in a list. *)
THEOREM Typed == SafeSpec => []TypeOK
<1>1. IInv => TypeOK
  BY DEF IInv
<1> QED
  BY <1>1, Invariant, PTL

(* Unregister removes what it is asked to and nothing else (server.h:215), *)
(* so that every registration not taken back is still in its list.         *)
THEOREM NothingIsLost == SafeSpec => []RegistrationsAreKept
<1>1. IInv => RegistrationsAreKept
  BY DEF IInv, TypeOK, Ledger, RegistrationsAreKept
<1> QED
  BY <1>1, Invariant, PTL

(* Request holds providers_mtx over the call (server.h:148, 158), so that  *)
(* no method runs once Unregister has returned.                            *)
THEOREM UnregisteredIsSilent == SafeSpec => []SilentAfterUnregister
<1>1. IInv => SilentAfterUnregister
  BY DEF IInv
<1> QED
  BY <1>1, Invariant, PTL
-----------------------------------------------------------------------------
(* The first method of a name is the one with the least index, now and in  *)
(* the next state.                                                         *)
Least(i, n, k) == k \in Named(i, n) /\ \A l \in Named(i, n) : k <= l

(* x is what the first method of the name is after the step.                *)
StillFirst(i, n, x) == \E j : Least(i, n, j)' /\ providers'[i][j] = x

LEMMA FirstIsLeast ==
  ASSUME TypeOK, NEW i \in Interfaces, NEW n, NEW k, Least(i, n, k)
  PROVE  First(i, n) = providers[i][k]
<1>1. Named(i, n) \subseteq Nat
  BY DEF TypeOK, Named
<1>2. \A j \in Named(i, n) : (\A l \in Named(i, n) : j <= l) => j = k
  BY <1>1 DEF Least
<1> QED
  BY <1>2 DEF First, Least

LEMMA FirstIsLeastNext ==
  ASSUME TypeOK', NEW i \in Interfaces, NEW n, NEW k, Least(i, n, k)'
  PROVE  First(i, n)' = providers'[i][k] /\ Named(i, n)' # {}
<1>1. Named(i, n)' \subseteq Nat
  BY DEF TypeOK, Named
<1>2. \A j \in Named(i, n)' : (\A l \in Named(i, n)' : j <= l) => j = k
  BY <1>1 DEF Least
<1> QED
  BY <1>2 DEF First, Least

(* A method added behind the others, or removed, moves no method of the    *)
(* name before the first one.                                              *)
LEMMA BehindTheFirst ==
  ASSUME TypeOK, NEW i \in Interfaces, NEW n, NEW k, Least(i, n, k), NEW m \in Methods,
         providers' = [providers EXCEPT ![i] = Append(@, m)]
  PROVE  Least(i, n, k)' /\ providers'[i][k] = providers[i][k]
<1> DEFINE s == providers[i]
           t == providers'[i]
<1>1. s \in Seq(Methods) /\ t = Append(s, m)
  BY DEF TypeOK
<1>2. /\ Len(s) \in Nat /\ DOMAIN s = 1..Len(s) /\ DOMAIN t = 1..Len(s) + 1
      /\ \A l \in 1..Len(s) : t[l] = s[l]
  BY <1>1, AppendProperties
<1>3. k \in 1..Len(s) /\ s[k][1] = n /\ \A l \in 1..Len(s) : s[l][1] = n => k <= l
  BY <1>2 DEF Least, Named
<1> HIDE DEF s, t
<1>4. k \in 1..Len(s) + 1 /\ t[k] = s[k]
  BY <1>2, <1>3
<1>5. \A l \in 1..Len(s) + 1 : t[l][1] = n => k <= l
  BY <1>2, <1>3
<1> QED
  BY <1>2, <1>3, <1>4, <1>5 DEF Least, Named, s, t

LEMMA AroundTheFirst ==
  ASSUME TypeOK, NEW i \in Interfaces, NEW n, NEW k, Least(i, n, k),
         NEW q \in DOMAIN providers[i], q # k,
         providers' = [providers EXCEPT ![i] = RemoveAt(@, q)]
  PROVE  StillFirst(i, n, providers[i][k])
<1> DEFINE s == providers[i]
           t == providers'[i]
           c == Len(s)
<1>1. s \in Seq(Methods) /\ t = RemoveAt(s, q) /\ DOMAIN s = 1..c /\ c \in Nat /\ q \in 1..c
  BY DEF TypeOK
<1>2. /\ t \in Seq(Methods) /\ Len(t) = c - 1
      /\ \A l \in 1..c - 1 : t[l] = IF l < q THEN s[l] ELSE s[l + 1]
  BY <1>1, Removal
<1>3. DOMAIN t = 1..c - 1
  BY <1>2
<1>4. k \in 1..c /\ s[k][1] = n /\ \A l \in 1..c : s[l][1] = n => k <= l
  BY <1>1 DEF Least, Named
<1> HIDE DEF s, t, c
<1>5. CASE k < q
  <2>1. k \in 1..c - 1 /\ t[k] = s[k]
    BY <1>1, <1>2, <1>4, <1>5
  <2>2. ASSUME NEW l \in 1..c - 1, t[l][1] = n PROVE k <= l
    <3>1. CASE l < q
      BY <1>1, <1>2, <1>4, <2>2, <3>1
    <3>2. CASE ~(l < q)
      BY <1>1, <1>4, <1>5, <3>2
    <3> QED
      BY <3>1, <3>2
  <2>3. Least(i, n, k)'
    BY <1>3, <1>4, <2>1, <2>2 DEF Least, Named, t
  <2> QED
    BY <2>1, <2>3 DEF s, t, StillFirst
<1>6. CASE q < k
  <2>1. k - 1 \in 1..c - 1 /\ t[k - 1] = s[k]
    <3>1. k - 1 \in 1..c - 1 /\ ~(k - 1 < q) /\ (k - 1) + 1 = k
      BY <1>1, <1>4, <1>6
    <3> QED
      BY <1>2, <3>1
  <2>2. ASSUME NEW l \in 1..c - 1, t[l][1] = n PROVE k - 1 <= l
    <3>1. CASE l < q
      <4>1. l \in 1..c /\ s[l][1] = n
        BY <1>1, <1>2, <2>2, <3>1
      <4> QED
        BY <1>1, <1>4, <4>1
    <3>2. CASE ~(l < q)
      <4>1. l + 1 \in 1..c /\ s[l + 1][1] = n
        BY <1>1, <1>2, <2>2, <3>2
      <4> QED
        BY <1>1, <1>4, <4>1
    <3> QED
      BY <3>1, <3>2
  <2>3. Least(i, n, k - 1)'
    BY <1>3, <1>4, <2>1, <2>2 DEF Least, Named, t
  <2> QED
    BY <2>1, <2>3 DEF s, t, StillFirst
<1> QED
  BY <1>1, <1>4, <1>5, <1>6

(* Who serves a name is not pushed aside by later registrations, nor by    *)
(* what others take back (server.h:148, 185, 215).                         *)
THEOREM FirstComeFirstServed == SafeSpec => FirstServes
<1> DEFINE Stays(i, n) ==
      Named(i, n) # {} /\ <<i, First(i, n)>> \in offered'
        => Named(i, n)' # {} /\ First(i, n)' = First(i, n)
<1>1. ASSUME IInv, IInv', Next, NEW i \in Interfaces, NEW n \in Names,
             Named(i, n) # {}, <<i, First(i, n)>> \in offered'
      PROVE  Named(i, n)' # {} /\ First(i, n)' = First(i, n)
  <2>0. TypeOK /\ TypeOK'
    BY <1>1 DEF IInv
  <2>1. PICK k \in Named(i, n) : Least(i, n, k)
    <3>1. Named(i, n) \subseteq Nat
      BY <2>0 DEF TypeOK, Named
    <3> QED
      BY <1>1, <3>1, Smallest DEF Least
  <2>2. First(i, n) = providers[i][k]
    BY <2>0, <2>1, FirstIsLeast
  <2>3. SUFFICES StillFirst(i, n, providers[i][k])
    BY <2>0, <2>2, FirstIsLeastNext DEF StillFirst
  <2>4. CASE providers'[i] = providers[i]
    BY <2>1, <2>4 DEF Least, Named, StillFirst
  <2>5. ASSUME NEW j \in Interfaces, NEW l \in Names, NEW u \in UserCbs, Register(j, l, u)
        PROVE  StillFirst(i, n, providers[i][k])
    <3>1. <<Normal(l), u>> \in Methods
      BY DEF Methods, Names, Normal
    <3>2. CASE j # i
      BY <2>0, <2>4, <2>5, <3>2 DEF Register, TypeOK
    <3>3. CASE j = i /\ providers' = [providers EXCEPT ![i] = Append(@, <<Normal(l), u>>)]
      BY <2>0, <2>1, <3>1, <3>3, BehindTheFirst DEF StillFirst
    <3> QED
      BY <2>4, <2>5, <3>2, <3>3 DEF Register
  <2>6. ASSUME NEW j \in Interfaces, NEW l \in Names, NEW u \in UserCbs, Unregister(j, l, u)
        PROVE  StillFirst(i, n, providers[i][k])
    <3>1. CASE j # i
      BY <2>0, <2>4, <2>6, <3>1 DEF Unregister, TypeOK
    <3>2. CASE UNCHANGED providers
      BY <2>4, <3>2
    <3>3. ASSUME j = i, NEW q \in DOMAIN providers[i], providers[i][q] = <<l, u>>,
                 providers' = [providers EXCEPT ![i] = RemoveAt(@, q)]
          PROVE  StillFirst(i, n, providers[i][k])
      <4>1. providers[i][k] # <<l, u>>
        BY <1>1, <2>2, <2>6, <3>3 DEF Unregister
      <4>2. q # k
        BY <3>3, <4>1
      <4>3. Least(i, n, k) /\ providers' = [providers EXCEPT ![i] = RemoveAt(@, q)]
        BY <2>1, <3>3
      <4> QED
        BY <2>0, <4>2, <4>3, AroundTheFirst
    <3> QED
      BY <2>6, <3>1, <3>2, <3>3 DEF Unregister
  <2>7. CASE UNCHANGED providers
    BY <2>4, <2>7
  <2> QED
    BY <1>1, <2>5, <2>6, <2>7 DEF Next, Handle, Ignore, Serve, Answer, Ask
<1>2. IInv /\ IInv' /\ [Next]_vars => [\A i \in Interfaces, n \in Names : Stays(i, n)]_vars
  BY <1>1
<1> QED
  BY <1>2, Invariant, PTL DEF SafeSpec, FirstServes
=============================================================================
