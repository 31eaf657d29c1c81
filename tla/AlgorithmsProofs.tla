-------------------------- MODULE AlgorithmsProofs --------------------------
(***************************************************************************)
(* The names of events and providers agree, and what goes through a call   *)
(* arrives: for names of any length and any number of additions to a       *)
(* Parameters.                                                             *)
(***************************************************************************)
EXTENDS Algorithms, DataLemmas

Symbols == Letters \cup {"N", "changed", "Changed"}

(* A pair of cases is found by either of its letters. *)
LEMMA CasesOfALetter ==
  /\ \A p \in Cases : Upper(p[1]) = p[2] /\ Lower(p[2]) = p[1] /\ Lower(p[1]) = p[1]
  /\ \A c : (\A p \in Cases : c # p[2]) => Lower(c) = c
  /\ \A c : (\A p \in Cases : c # p[1]) => Upper(c) = c
<1>1. \A p, q \in Cases : (p[1] = q[1] \/ p[2] = q[2]) => p = q
  BY DEF Cases
<1>2. \A p, q \in Cases : p[1] # q[2]
  BY DEF Cases
<1>3. ASSUME NEW p \in Cases PROVE Upper(p[1]) = p[2] /\ Lower(p[2]) = p[1] /\ Lower(p[1]) = p[1]
  <2>1. (CHOOSE q \in Cases : q[1] = p[1]) = p /\ (CHOOSE q \in Cases : q[2] = p[2]) = p
    BY <1>1
  <2> QED
    BY <1>2, <2>1 DEF Upper, Lower
<1> QED
  BY <1>3 DEF Upper, Lower

LEMMA LowerOfUpper ==
  ASSUME NEW c \in Symbols
  PROVE  Lower(Upper(c)) = Lower(c) /\ Upper(c) \in Symbols /\ Lower(c) \in Symbols
<1>1. \A p \in Cases : p[1] \in Symbols /\ p[2] \in Symbols
  BY DEF Cases, Symbols, Letters
<1>2. CASE \E p \in Cases : p[1] = c
  BY <1>1, <1>2, CasesOfALetter
<1>3. CASE \E p \in Cases : p[2] = c
  <2>1. Upper(c) = c
    BY <1>3, CasesOfALetter DEF Cases
  <2> QED
    BY <1>1, <1>3, <2>1, CasesOfALetter
<1>4. CASE \A p \in Cases : p[1] # c /\ p[2] # c
  BY <1>4, CasesOfALetter
<1> QED
  BY <1>2, <1>3, <1>4

-----------------------------------------------------------------------------
(* The first dot of a name is found, and divides it. *)
LEMMA Divided ==
  ASSUME NEW s \in Seq(Symbols), HasDot(s)
  PROVE  /\ Before(s) \in Seq(Symbols) /\ ~HasDot(Before(s))
         /\ After(s) \in Seq(Symbols)
         /\ s = Before(s) \o <<".">> \o After(s)
<1> DEFINE n == Len(s)
           d == Dot(s)
<1>1. n \in Nat /\ DOMAIN s = 1..n /\ \A i \in 1..n : s[i] \in Symbols
  BY LenProperties, ElementOfSeq
<1>2. d \in 1..n /\ s[d] = "." /\ \A j \in 1..(d - 1) : s[j] # "."
  <2>1. PICK i \in {j \in 1..n : s[j] = "."} : \A j \in {l \in 1..n : s[l] = "."} : i <= j
    <3>1. {j \in 1..n : s[j] = "."} # {} /\ {j \in 1..n : s[j] = "."} \subseteq Nat
      BY <1>1 DEF HasDot
    <3> QED
      BY <3>1, Smallest
  <2>2. i \in DOMAIN s /\ s[i] = "." /\ \A j \in 1..(i - 1) : s[j] # "."
    BY <1>1, <2>1
  <2> QED
    BY <1>1, <2>2 DEF Dot
<1> HIDE DEF d
<1>3. /\ Before(s) = SubSeq(s, 1, d - 1) /\ After(s) = SubSeq(s, d + 1, n)
  BY DEF Before, After, d
<1>4. /\ Before(s) \in Seq(Symbols) /\ Len(Before(s)) = d - 1
      /\ \A i \in 1..d - 1 : Before(s)[i] = s[i]
  BY <1>1, <1>2, <1>3, SubSeqProperties
<1>5. After(s) \in Seq(Symbols)
  BY <1>1, <1>2, <1>3, SubSeqProperties
<1>6. ~HasDot(Before(s))
  BY <1>2, <1>4, LenProperties DEF HasDot
<1>7. s = Before(s) \o <<".">> \o After(s)
  <2>1. SubSeq(s, 1, d) = Before(s) \o <<".">>
    <3>1. d \in 1..d /\ d \in 1..n /\ 1 \in 1..n
      BY <1>1, <1>2
    <3> QED
      BY <1>2, <1>3, <3>1, SubSeqRecursiveSecond
  <2>2. SubSeq(s, 1, d) \o SubSeq(s, d + 1, n) = SubSeq(s, 1, n)
    <3>1. 1 \in 1..n + 1 /\ d \in 1 - 1..n /\ n \in d..n
      BY <1>1, <1>2
    <3> QED
      BY <3>1, ConcatAdjacentSubSeq
  <2>3. SubSeq(s, 1, n) = s
    BY SubSeqFull
  <2> QED
    BY <1>3, <2>1, <2>2, <2>3
<1> QED
  BY <1>4, <1>5, <1>6, <1>7

(* A name put together around a dot falls into the same parts. *)
LEMMA Dotted ==
  ASSUME NEW b \in Seq(Symbols), ~HasDot(b), NEW a \in Seq(Symbols)
  PROVE  LET s == b \o <<".">> \o a
         IN  /\ s \in Seq(Symbols) /\ HasDot(s)
             /\ Before(s) = b /\ After(s) = a
<1> DEFINE c == b \o <<".">>
           s == c \o a
           m == Len(b)
<1>1. "." \in Symbols /\ <<".">> \in Seq(Symbols) /\ Len(<<".">>) = 1 /\ <<".">>[1] = "."
  BY DEF Symbols, Letters
<1>2. /\ m \in Nat /\ Len(a) \in Nat /\ DOMAIN b = 1..m
  BY LenProperties
<1>3. /\ c \in Seq(Symbols) /\ Len(c) = m + 1
      /\ \A i \in 1..m + 1 : c[i] = IF i <= m THEN b[i] ELSE "."
  <2>1. /\ c \in Seq(Symbols) /\ Len(c) = m + 1
        /\ \A i \in 1..m + 1 : c[i] = IF i <= m THEN b[i] ELSE <<".">>[i - m]
    BY <1>1, ConcatProperties
  <2>2. \A i \in 1..m + 1 : ~(i <= m) => i - m = 1
    BY <1>2
  <2> QED
    BY <1>1, <2>1, <2>2
<1>4. SubSeq(c, 1, m) = b
  BY <1>1, Cutting
<1> HIDE DEF c
<1>5. /\ s \in Seq(Symbols) /\ Len(s) = m + 1 + Len(a)
      /\ \A i \in 1..m + 1 + Len(a) : s[i] = IF i <= m + 1 THEN c[i] ELSE a[i - (m + 1)]
      /\ SubSeq(s, 1, m + 1) = c
      /\ SubSeq(s, m + 2, m + 1 + Len(a)) = a
  <2>1. /\ s \in Seq(Symbols) /\ Len(s) = m + 1 + Len(a)
        /\ \A i \in 1..m + 1 + Len(a) : s[i] = IF i <= m + 1 THEN c[i] ELSE a[i - (m + 1)]
    <3>1. /\ s \in Seq(Symbols) /\ Len(s) = Len(c) + Len(a)
          /\ \A i \in 1..Len(c) + Len(a) : s[i] = IF i <= Len(c) THEN c[i] ELSE a[i - Len(c)]
      BY <1>3, ConcatProperties
    <3> QED
      BY <1>3, <3>1
  <2>2. /\ SubSeq(s, 1, m + 1) = c
        /\ SubSeq(s, (m + 1) + 1, (m + 1) + Len(a)) = a
    BY <1>3, Cutting
  <2>3. (m + 1) + 1 = m + 2
    BY <1>2
  <2> QED
    BY <2>1, <2>2, <2>3
<1>6. DOMAIN s = 1..m + 1 + Len(a)
  BY <1>5, LenProperties
<1> HIDE DEF s
<1>7. m + 1 \in DOMAIN s /\ s[m + 1] = "." /\ \A j \in 1..m : s[j] # "."
  <2>1. \A j \in 1..m : s[j] = b[j]
    BY <1>2, <1>3, <1>5
  <2>2. \A j \in 1..m : b[j] # "."
    BY <1>2 DEF HasDot
  <2> QED
    BY <1>2, <1>3, <1>5, <1>6, <2>1, <2>2
<1>8. HasDot(s)
  BY <1>7 DEF HasDot
<1>9. Dot(s) = m + 1
  <2>1. /\ Dot(s) \in DOMAIN s /\ s[Dot(s)] = "."
        /\ \A j \in 1..(Dot(s) - 1) : s[j] # "."
    <3>1. \A j \in 1..((m + 1) - 1) : s[j] # "."
      BY <1>2, <1>7
    <3> QED
      BY <1>7, <3>1 DEF Dot
  <2>2. ~(Dot(s) <= m)
    BY <1>2, <1>6, <1>7, <2>1
  <2>3. ~(m + 1 <= Dot(s) - 1)
    BY <1>2, <1>6, <1>7, <2>1
  <2> QED
    BY <1>2, <1>6, <2>1, <2>2, <2>3
<1>10. Before(s) = b
  <2>1. SubSeq(s, 1, m) = SubSeq(SubSeq(s, 1, m + 1), 1, m)
    <3>1. CASE m = 0
      BY <3>1, SubSeqEmpty
    <3>2. CASE m # 0
      <4>1. /\ 1 \in 1..Len(s) /\ m + 1 \in 1..Len(s)
            /\ 1 \in 1..(m + 1) - 1 + 1 /\ m \in 1..(m + 1) - 1 + 1
        BY <1>2, <1>5, <3>2
      <4>2. SubSeq(SubSeq(s, 1, m + 1), 1, m) = SubSeq(s, 1 + 1 - 1, 1 + m - 1)
        BY <1>5, <4>1, SubSeqOfSubSeq
      <4> QED
        BY <1>2, <4>2
    <3> QED
      BY <3>1, <3>2
  <2> QED
    BY <1>2, <1>4, <1>5, <1>9, <2>1 DEF Before
<1>11. After(s) = a
  BY <1>2, <1>5, <1>9 DEF After
<1> QED
  BY <1>5, <1>8, <1>10, <1>11 DEF s, c

-----------------------------------------------------------------------------
LEMMA Renamed ==
  ASSUME NEW a \in Seq(Symbols)
  PROVE  Capital(a) \in Seq(Symbols) /\ Small(a) \in Seq(Symbols) /\ WithoutOn(a) \in Seq(Symbols)
<1>1. ASSUME NEW t \in Seq(Symbols) PROVE Capital(t) \in Seq(Symbols) /\ Small(t) \in Seq(Symbols)
  <2>1. CASE t = <<>>
    BY <1>1, <2>1 DEF Capital, Small
  <2>2. CASE t # <<>>
    <3>1. Head(t) \in Symbols /\ Tail(t) \in Seq(Symbols)
      BY <1>1, <2>2, HeadTailProperties
    <3>2. Upper(Head(t)) \in Symbols /\ Lower(Head(t)) \in Symbols
      BY <3>1, LowerOfUpper
    <3> QED
      BY <2>2, <3>1, <3>2, Fronting DEF Capital, Small
  <2> QED
    BY <2>1, <2>2
<1>2. SubSeq(a, 3, Len(a)) \in Seq(Symbols)
  <2>1. Len(a) \in Int /\ \A i \in 3..Len(a) : a[i] \in Symbols
    BY LenProperties, ElementOfSeq
  <2> QED
    BY <2>1, SubSeqProperties
<1> QED
  BY <1>1, <1>2 DEF WithoutOn

LEMMA Concatenating ==
  ASSUME NEW s \in Seq(Symbols), NEW t \in Seq(Symbols)
  PROVE  s \o t \in Seq(Symbols) /\ Len(s \o t) = Len(s) + Len(t)
  BY ConcatProperties

LEMMA Associating ==
  ASSUME NEW s \in Seq(Symbols), NEW t \in Seq(Symbols), NEW u \in Seq(Symbols)
  PROVE  (s \o t) \o u = s \o (t \o u)
  BY ConcatAssociative

(* The same of names put together, for terms that the provers would take   *)
(* apart.                                                                  *)
Spelt(s)   == s \in Seq(Symbols)
Join(s, t) == s \o t

LEMMA Joining ==
  /\ \A s, t : Spelt(s) /\ Spelt(t) => Spelt(Join(s, t))
  /\ \A s, t, u : Spelt(s) /\ Spelt(t) /\ Spelt(u) => Join(Join(s, t), u) = Join(s, Join(t, u))
<1>1. ASSUME NEW s, NEW t, Spelt(s), Spelt(t) PROVE Spelt(Join(s, t))
  BY <1>1, Concatenating DEF Spelt, Join
<1>2. ASSUME NEW s, NEW t, NEW u, Spelt(s), Spelt(t), Spelt(u)
      PROVE  Join(Join(s, t), u) = Join(s, Join(t, u))
  BY <1>2, Associating DEF Spelt, Join
<1> QED
  BY <1>1, <1>2

LEMMA Regrouping ==
  ASSUME NEW b, NEW d, NEW o, NEW s, NEW t,
         Spelt(b), Spelt(d), Spelt(o), Spelt(s), Spelt(t)
  PROVE  Join(Join(Join(b, Join(d, o)), s), t) = Join(Join(b, d), Join(o, Join(s, t)))
<1>1. Join(b, Join(d, o)) = Join(Join(b, d), o) /\ Spelt(Join(b, d)) /\ Spelt(Join(o, s))
  BY Joining
<1>2. Join(Join(Join(b, d), o), s) = Join(Join(b, d), Join(o, s))
  BY <1>1, Joining
<1>3. Join(Join(Join(b, d), Join(o, s)), t) = Join(Join(b, d), Join(Join(o, s), t))
  BY <1>1, Joining
<1>4. Join(Join(o, s), t) = Join(o, Join(s, t))
  BY Joining
<1> QED
  BY <1>1, <1>2, <1>3, <1>4

(* The small letter behind "on" is the property's own. *)
LEMMA NotifiedAsSpelt ==
  ASSUME NEW p \in Seq(Symbols)
  PROVE  PropertyIsNotified(p)
<1> SUFFICES ASSUME HasDot(p), After(p) # <<>>
             PROVE  Key(EventName(p)) = OfTheRemote(p) \o <<"Changed">>
  BY DEF PropertyIsNotified
<1> DEFINE b == Before(p)
           a == After(p)
           dot == <<".">>
           on == <<"o", "n">>
           changed == <<"Changed">>
           rest == Tail(a) \o changed
           whole == on \o (Capital(a) \o changed)
<1>1. /\ b \in Seq(Symbols) /\ ~HasDot(b) /\ a \in Seq(Symbols)
  BY Divided
<1>2. /\ dot \in Seq(Symbols) /\ on \in Seq(Symbols) /\ changed \in Seq(Symbols)
      /\ <<".", "o", "n">> = dot \o on
  <2>1. "." \in Symbols /\ "o" \in Symbols /\ "n" \in Symbols /\ "Changed" \in Symbols
    BY DEF Symbols, Letters
  <2>2. dot \in Seq(Symbols) /\ on \in Seq(Symbols) /\ changed \in Seq(Symbols)
    BY <2>1
  <2>3. <<".", "o", "n">> = dot \o on
    OBVIOUS
  <2> QED
    BY <2>2, <2>3
<1>3. /\ Head(a) \in Symbols /\ Tail(a) \in Seq(Symbols)
      /\ Upper(Head(a)) \in Symbols /\ Lower(Head(a)) \in Symbols
      /\ Lower(Upper(Head(a))) = Lower(Head(a))
  BY <1>1, HeadTailProperties, LowerOfUpper
<1>4. /\ Capital(a) = <<Upper(Head(a))>> \o Tail(a) /\ Capital(a) \in Seq(Symbols)
      /\ Small(a) = <<Lower(Head(a))>> \o Tail(a) /\ Small(a) \in Seq(Symbols)
  BY <1>1, Renamed DEF Capital, Small
<1>5. EventName(p) = b \o <<".", "o", "n">> \o Capital(a) \o changed
  BY DEF EventName
<1> HIDE DEF a, b, dot, on, changed
<1>6. /\ rest \in Seq(Symbols)
      /\ Capital(a) \o changed = <<Upper(Head(a))>> \o rest
      /\ Small(a) \o changed = <<Lower(Head(a))>> \o rest
  <2>1. <<Upper(Head(a))>> \in Seq(Symbols) /\ <<Lower(Head(a))>> \in Seq(Symbols)
    BY <1>3
  <2>2. rest \in Seq(Symbols)
    BY <1>2, <1>3, Concatenating, Zenon DEF rest
  <2>3. ASSUME NEW s \in Seq(Symbols) PROVE (s \o Tail(a)) \o changed = s \o rest
    BY <1>2, <1>3, Associating, Zenon DEF rest
  <2> QED
    BY <1>3, <1>4, <2>1, <2>2, <2>3, Zenon
<1> HIDE DEF rest
<1>7. Capital(a) \o changed \in Seq(Symbols) /\ Small(Capital(a) \o changed) = Small(a) \o changed
  BY <1>3, <1>6, Fronting DEF Small
<1>8. EventName(p) = b \o dot \o whole /\ whole \in Seq(Symbols)
  <2>1. ((b \o (dot \o on)) \o Capital(a)) \o changed
          = (b \o dot) \o (on \o (Capital(a) \o changed))
    <3>1. Spelt(b) /\ Spelt(dot) /\ Spelt(on) /\ Spelt(Capital(a)) /\ Spelt(changed)
      BY <1>1, <1>2, <1>4 DEF Spelt
    <3>2. Join(Join(Join(b, Join(dot, on)), Capital(a)), changed)
            = Join(Join(b, dot), Join(on, Join(Capital(a), changed)))
      BY <3>1, Regrouping
    <3> QED
      BY <3>2, Zenon DEF Join
  <2>2. whole \in Seq(Symbols)
    BY <1>2, <1>7, Concatenating, Zenon DEF whole
  <2> QED
    BY <1>2, <1>5, <2>1, <2>2, Zenon DEF whole
<1>9. StartsWithOn(whole) /\ SubSeq(whole, 3, Len(whole)) = Capital(a) \o changed
  <2>1. Len(on) = 2
    BY DEF on
  <2>2. Len(Capital(a) \o changed) \in Nat \ {0}
    BY <1>3, <1>6, <1>7, Fronting, EmptySeq
  <2>3. Len(whole) = 2 + Len(Capital(a) \o changed)
    <3>1. Len(whole) = Len(on) + Len(Capital(a) \o changed)
      BY <1>2, <1>7, Concatenating, Zenon DEF whole
    <3> QED
      BY <2>1, <3>1
  <2>4. /\ SubSeq(whole, 1, Len(on)) = on
        /\ SubSeq(whole, Len(on) + 1, Len(on) + Len(Capital(a) \o changed)) = Capital(a) \o changed
    BY <1>2, <1>7, Cutting
  <2> QED
    BY <2>1, <2>2, <2>3, <2>4 DEF StartsWithOn, on
<1> HIDE DEF whole
<1>10. WithoutOn(whole) = Small(a) \o changed
  BY <1>7, <1>9 DEF WithoutOn
<1>11. HasDot(EventName(p)) /\ Before(EventName(p)) = b /\ After(EventName(p)) = whole
  BY <1>1, <1>8, Dotted DEF dot
<1>12. Key(EventName(p)) = b \o dot \o (Small(a) \o changed)
  BY <1>10, <1>11 DEF Key, dot
<1>13. b \o dot \o (Small(a) \o changed) = (b \o dot \o Small(a)) \o changed
  <2>1. b \o dot \in Seq(Symbols)
    BY <1>1, <1>2, Concatenating, Zenon
  <2> DEFINE front == b \o dot
  <2>2. front \in Seq(Symbols)
    BY <2>1
  <2> HIDE DEF front
  <2>3. front \o (Small(a) \o changed) = (front \o Small(a)) \o changed
    BY <1>2, <1>4, <2>2, Associating, Zenon
  <2> QED
    BY <2>3 DEF front
<1> QED
  BY <1>12, <1>13 DEF OfTheRemote, a, b, dot, changed

(* The parts that a provider is stored under are those of one name. *)
LEMMA ServedAsSpelt ==
  ASSUME NEW n \in Seq(Symbols), NEW r \in Seq(Symbols)
  PROVE  Serves(n, r) <=> IF HasDot(n) THEN r = Key(n)
                          ELSE r = n \o <<".">> \o WithoutOn(n)
<1>1. ASSUME NEW b \in Seq(Symbols), ~HasDot(b), NEW a \in Seq(Symbols)
      PROVE  (HasDot(r) /\ Before(r) = b /\ After(r) = a) <=> r = b \o <<".">> \o a
  <2>1. CASE HasDot(r) /\ Before(r) = b /\ After(r) = a
    BY <2>1, Divided, Zenon
  <2>2. CASE r = b \o <<".">> \o a
    <3>1. HasDot(b \o <<".">> \o a) /\ Before(b \o <<".">> \o a) = b
          /\ After(b \o <<".">> \o a) = a
      BY <1>1, Dotted, Zenon
    <3> QED
      BY <2>2, <3>1, Zenon
  <2> QED
    BY <2>1, <2>2, Zenon
<1>2. CASE HasDot(n)
  <2>1. /\ Before(n) \in Seq(Symbols) /\ ~HasDot(Before(n))
        /\ WithoutOn(After(n)) \in Seq(Symbols)
    BY <1>2, Divided, Renamed
  <2>2. Serves(n, r) <=> HasDot(r) /\ Before(r) = Before(n) /\ After(r) = WithoutOn(After(n))
    BY <1>2 DEF Serves, Registered
  <2> QED
    BY <1>1, <1>2, <2>1, <2>2 DEF Key
<1>3. CASE ~HasDot(n)
  <2>1. WithoutOn(n) \in Seq(Symbols)
    BY Renamed
  <2>2. Serves(n, r) <=> HasDot(r) /\ Before(r) = n /\ After(r) = WithoutOn(n)
    BY <1>3 DEF Serves, Registered
  <2> QED
    BY <1>1, <1>3, <2>1, <2>2
<1> QED
  BY <1>2, <1>3

LEMMA NamesOfInputs == \A i \in EventInputs : i.name \in Seq(Symbols)
<1> SUFFICES ASSUME NEW k \in 1..MaxLetters, NEW n \in [1..k -> Letters]
             PROVE  n \in Seq(Symbols)
  BY DEF EventInputs
<1>1. k \in Nat
  BY AlgorithmsAssumption
<1>2. n \in [1..k -> Symbols]
  BY DEF Symbols
<1> QED
  BY <1>1, <1>2, SeqDef

(* The notification of a property, and the requests for a provider's       *)
(* method, carry the name that the application used as the remote spells   *)
(* it (Properties.h:67, server.h:73, 142, 170), however long it is.        *)
THEOREM NamesAlwaysAgree == Spec => []NamesAgree
<1>1. NamesAgree
  BY NamesOfInputs, NotifiedAsSpelt, ServedAsSpelt DEF NamesAgree, ServedAsNotified
<1> QED
  BY <1>1, PTL

-----------------------------------------------------------------------------
(* The JSON object after each addition: what the recursive definition in   *)
(* Parameters says, and that there is such a function.                     *)

Objects == [Names -> Values \cup {NoValue}]
Empty   == [n \in Names |-> NoValue]

Step(s, f, i) == IF i = 0 THEN Empty ELSE Add(f[i - 1], s[i])

LEMMA AddedObject ==
  ASSUME NEW object \in Objects, NEW a \in Additions
  PROVE  /\ Add(object, a) \in Objects
         /\ \A n \in Names : Add(object, a)[n] =
               IF a.name = n /\ a.value # NoValue THEN a.value ELSE object[n]
  BY DEF Objects, Additions, Add

LEMMA ObjectsExist ==
  ASSUME NEW s \in Seq(Additions), NEW k \in 0..Len(s)
  PROVE  \E f : f = [i \in 0..k |-> Step(s, f, i)]
<1> DEFINE Bad == {l \in 0..Len(s) : ~ \E f : f = [i \in 0..l |-> Step(s, f, i)]}
<1>0. Len(s) \in Nat
  BY LenProperties
<1> SUFFICES ASSUME Bad # {} PROVE FALSE
  BY DEF Bad
<1>1. Bad \subseteq Nat
  BY <1>0
<1>2. PICK l \in Bad : \A m \in Bad : l <= m
  BY <1>1, Smallest
<1>3. CASE l = 0
  <2> DEFINE f == [i \in 0..0 |-> Empty]
  <2>1. f = [i \in 0..0 |-> Step(s, f, i)]
    BY DEF Step
  <2> QED
    BY <1>2, <1>3, <2>1
<1>4. CASE l # 0
  <2>1. l \in Nat /\ l - 1 \in 0..Len(s) /\ l - 1 \notin Bad
    BY <1>0, <1>2, <1>4
  <2>2. PICK f : f = [i \in 0..l - 1 |-> Step(s, f, i)]
    BY <2>1
  <2> DEFINE g == [i \in 0..l |-> IF i = l THEN Add(f[l - 1], s[l]) ELSE f[i]]
  <2>3. ASSUME NEW i \in 0..l PROVE g[i] = Step(s, g, i)
    <3>1. CASE i = l
      <4>1. g[i - 1] = f[l - 1] /\ g[i] = Add(f[l - 1], s[l])
        BY <2>1, <3>1, <1>4
      <4> QED
        BY <1>4, <3>1, <4>1 DEF Step
    <3>2. CASE i # l
      <4>1. i \in 0..l - 1 /\ g[i] = f[i] /\ (i # 0 => g[i - 1] = f[i - 1])
        BY <2>1, <2>3, <3>2
      <4>2. f[i] = Step(s, f, i)
        BY <2>2, <4>1
      <4> QED
        BY <4>1, <4>2 DEF Step
    <3> QED
      BY <3>1, <3>2
  <2>4. g = [i \in 0..l |-> Step(s, g, i)]
    <3>1. g = [i \in 0..l |-> g[i]]
      OBVIOUS
    <3> HIDE DEF g
    <3> QED
      BY <2>3, <3>1
  <2> HIDE DEF g
  <2> QED
    BY <1>2, <2>4
<1> QED
  BY <1>3, <1>4

LEMMA ParametersDefined ==
  ASSUME NEW s \in Seq(Additions)
  PROVE  \E f : /\ Parameters(s) = f[Len(s)] /\ f[0] = Empty
                /\ \A i \in 1..Len(s) : f[i] = Add(f[i - 1], s[i])
<1> DEFINE F == CHOOSE f : f = [i \in 0..Len(s) |-> IF i = 0 THEN [n \in Names |-> NoValue]
                                                    ELSE Add(f[i - 1], s[i])]
<1>1. Parameters(s) = F[Len(s)]
  BY DEF Parameters
<1>2. \E f : f = [i \in 0..Len(s) |-> IF i = 0 THEN [n \in Names |-> NoValue]
                                      ELSE Add(f[i - 1], s[i])]
  <2>1. Len(s) \in 0..Len(s)
    BY LenProperties
  <2> QED
    BY <2>1, ObjectsExist DEF Step, Empty
<1>3. F = [i \in 0..Len(s) |-> IF i = 0 THEN [n \in Names |-> NoValue]
                               ELSE Add(F[i - 1], s[i])]
  BY <1>2
<1> HIDE DEF F
<1>4. Len(s) \in Nat
  BY LenProperties
<1>5. F[0] = Empty
  BY <1>3, <1>4 DEF Empty
<1>6. \A i \in 1..Len(s) : F[i] = Add(F[i - 1], s[i])
  BY <1>3, <1>4
<1> QED
  BY <1>1, <1>5, <1>6

(* The addition j gives n a value, and none after it up to i does. *)
Gives(s, n, j)   == s[j].name = n /\ s[j].value # NoValue
LastGiven(s, n, j, i) == Gives(s, n, j) /\ \A l \in 1..i : Gives(s, n, l) => l <= j

LEMMA LastAdditionWins ==
  ASSUME NEW s \in Seq(Additions), NEW n \in Names
  PROVE  ArgumentArrives(s, n)
<1>1. PICK f : /\ Parameters(s) = f[Len(s)] /\ f[0] = Empty
               /\ \A i \in 1..Len(s) : f[i] = Add(f[i - 1], s[i])
  BY ParametersDefined
<1>2. Len(s) \in Nat /\ DOMAIN s = 1..Len(s) /\ \A i \in 1..Len(s) : s[i] \in Additions
  BY LenProperties, ElementOfSeq
<1> DEFINE Right(i) == /\ f[i] \in Objects
                       /\ (\A j \in 1..i : ~Gives(s, n, j)) => f[i][n] = NoValue
                       /\ \A j \in 1..i : LastGiven(s, n, j, i) => f[i][n] = s[j].value
           Bad == {i \in 0..Len(s) : ~Right(i)}
<1>3. Bad = {}
  <2> SUFFICES ASSUME Bad # {} PROVE FALSE
    OBVIOUS
  <2>1. Bad \subseteq Nat
    BY <1>2
  <2>2. PICK i \in Bad : \A m \in Bad : i <= m
    BY <2>1, Smallest
  <2>3. CASE i = 0
    <3>1. Empty \in Objects /\ Empty[n] = NoValue
      BY DEF Empty, Objects
    <3>2. Right(i)
      BY <1>1, <2>3, <3>1
    <3> QED
      BY <2>2, <3>2
  <2>4. CASE i # 0
    <3>1. i \in 1..Len(s) /\ i - 1 \in 0..Len(s) /\ ~(i <= i - 1)
      BY <1>2, <2>2, <2>4
    <3>2. Right(i - 1)
      BY <2>2, <3>1
    <3>3. /\ f[i] \in Objects
          /\ f[i][n] = IF Gives(s, n, i) THEN s[i].value ELSE f[i - 1][n]
      <4>1. f[i] = Add(f[i - 1], s[i]) /\ f[i - 1] \in Objects /\ s[i] \in Additions
        BY <1>1, <1>2, <3>1, <3>2
      <4>2. /\ Add(f[i - 1], s[i]) \in Objects
            /\ Add(f[i - 1], s[i])[n] =
                 IF s[i].name = n /\ s[i].value # NoValue THEN s[i].value ELSE f[i - 1][n]
        BY <4>1, AddedObject
      <4> QED
        BY <4>1, <4>2 DEF Gives
    <3>4. \A j : j \in 1..i <=> j \in 1..i - 1 \/ j = i
      BY <3>1
    <3>5. (\A j \in 1..i : ~Gives(s, n, j)) => f[i][n] = NoValue
      BY <3>2, <3>3, <3>4
    <3>6. ASSUME NEW j \in 1..i, LastGiven(s, n, j, i) PROVE f[i][n] = s[j].value
      <4>1. CASE j = i
        BY <3>3, <3>6, <4>1 DEF LastGiven
      <4>2. CASE j # i
        <5>1. ~(i <= j) /\ j \in 1..i - 1 /\ i \in 1..i
          BY <3>1, <3>4, <4>2
        <5>2. ~Gives(s, n, i)
          BY <3>6, <5>1 DEF LastGiven
        <5>3. LastGiven(s, n, j, i - 1)
          BY <3>4, <3>6 DEF LastGiven
        <5> QED
          BY <3>2, <3>3, <5>1, <5>2, <5>3
      <4> QED
        BY <4>1, <4>2
    <3>7. Right(i)
      BY <3>3, <3>5, <3>6
    <3> QED
      BY <2>2, <3>7
  <2> QED
    BY <2>3, <2>4
<1>4. Right(Len(s))
  BY <1>2, <1>3
<1> DEFINE given == {i \in DOMAIN s : s[i].name = n /\ s[i].value # NoValue}
<1>5. CASE given = {}
  <2>1. \A j \in 1..Len(s) : ~Gives(s, n, j)
    BY <1>2, <1>5 DEF Gives
  <2> QED
    BY <1>1, <1>4, <1>5, <2>1 DEF ArgumentArrives
<1>6. CASE given # {}
  <2> DEFINE last == CHOOSE i \in given : \A j \in given : j <= i
             behind == {Len(s) - i : i \in given}
  <2>1. \E i \in given : \A j \in given : j <= i
    <3>1. behind \subseteq Nat /\ behind # {}
      BY <1>2, <1>6
    <3>2. PICK k \in behind : \A m \in behind : k <= m
      BY <3>1, Smallest
    <3>3. PICK i \in given : k = Len(s) - i
      BY <3>2
    <3>4. ASSUME NEW j \in given PROVE j <= i
      <4>1. Len(s) - i <= Len(s) - j
        BY <3>2, <3>3
      <4>2. i \in 1..Len(s) /\ j \in 1..Len(s)
        BY <1>2
      <4> QED
        BY <1>2, <4>1, <4>2
    <3> QED
      BY <3>4
  <2>2. last \in given /\ \A j \in given : j <= last
    BY <2>1
  <2> HIDE DEF last
  <2>3. last \in 1..Len(s) /\ LastGiven(s, n, last, Len(s))
    BY <1>2, <2>2 DEF LastGiven, Gives
  <2>4. Parameters(s)[n] = s[last].value
    BY <1>1, <1>4, <2>3
  <2> QED
    BY <1>6, <2>4 DEF ArgumentArrives, last
<1> QED
  BY <1>5, <1>6

-----------------------------------------------------------------------------
(* What the application is told, for each way a call can end. *)

LEMMA CodesDiffer ==
  /\ FireboltErrorValue(CoreNone) = None
  /\ FireboltErrorValue(CoreAsyncFailed) = CoreAsyncFailed
  /\ CoreAsyncFailed # None /\ CoreAsyncFailed # Timedout
  BY CallsAssumption DEF FireboltErrorValue

LEMMA OutcomeTold ==
  ASSUME NEW ending \in Endings
  PROVE  OutcomeArrives(ending)
<1> USE CallsAssumption DEF None, General, Timedout, NotConnected, InvalidRequest
<1>1. ASSUME ending.kind = "unconnected" PROVE OutcomeArrives(ending)
  BY <1>1 DEF OutcomeArrives, Get, Set, Call, Result
<1>2. ASSUME ending.kind \in {"suspended", "taken"} PROVE OutcomeArrives(ending)
  <2>1. Send(ending) = CoreAsyncFailed
    BY <1>2, CodesDiffer DEF Send
  <2> QED
    BY <1>2, <2>1, CodesDiffer DEF OutcomeArrives, Get, Set, Call, Result
<1>a. ASSUME ending.kind \in {"silent", "result", "error"} PROVE Send(ending) = None
  BY <1>a, CodesDiffer DEF Send
<1>3. ASSUME ending.kind = "silent" PROVE OutcomeArrives(ending)
  <2>1. Caller(ending) = [response |-> NoValue, error |-> Timedout]
    BY <1>3 DEF Caller
  <2> QED
    BY <1>3, <1>a, <2>1 DEF OutcomeArrives, Get, Set, Call, Result
<1>4. ASSUME ending.kind = "result" PROVE OutcomeArrives(ending)
  <2>1. Caller(ending) = [response |-> ending.text, error |-> None]
    BY <1>4 DEF Caller
  <2>2. ending.text \in Values \cup {Garbage}
    BY <1>4 DEF Endings
  <2>3. Parsed(ending.text) # NoValue
        /\ (Parsed(ending.text) \in Values <=> ending.text = Parsed(ending.text))
    BY <2>2 DEF Parsed
  <2> QED
    BY <1>4, <1>a, <2>1, <2>3 DEF OutcomeArrives, Get, Set, Call, Result
<1>5. ASSUME ending.kind = "error" PROVE OutcomeArrives(ending)
  <2>1. Caller(ending) = [response |-> NoValue, error |-> ending.code]
    BY <1>5 DEF Caller
  <2>2. Parsed(NoValue) = Default /\ Default # NoValue /\ Default \notin Values /\ NoValue \notin Values
    BY DEF Parsed
  <2> QED
    BY <1>5, <1>a, <2>1, <2>2 DEF OutcomeArrives, Get, Set, Call, Result
<1> QED
  BY <1>1, <1>2, <1>3, <1>4, <1>5 DEF Endings

(* The last value given to a parameter is the one that is sent             *)
(* (helpers.h:48), whatever is added before and after it; and what a call  *)
(* returns is the remote's result or error, or says that it was not sent   *)
(* or not answered (client.h:148, 173), whatever codes Thunder uses.       *)
THEOREM CallsAlwaysFaithful == Spec => []CallsAreFaithful
<1>1. CallsAreFaithful
  <2> SUFFICES ASSUME input \in CallInputs
               PROVE  (\A n \in Names : ArgumentArrives(input.additions, n)) /\ OutcomeArrives(input.ending)
    BY DEF CallsAreFaithful
  <2>1. input.ending \in Endings
    BY DEF CallInputs
  <2>2. PICK k \in 0..MaxAdditions : input.additions \in [1..k -> Additions]
    BY DEF CallInputs
  <2>3. input.additions \in Seq(Additions)
    BY <2>2, AlgorithmsAssumption, SeqDef
  <2> QED
    BY <2>1, <2>3, LastAdditionWins, OutcomeTold
<1> QED
  BY <1>1, PTL

=============================================================================
