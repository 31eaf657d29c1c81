----------------------------- MODULE EventNames -----------------------------
(***************************************************************************)
(* The names of events and of provider methods, which the code computes in *)
(* four places and compares as strings: Properties::EventName, and in the  *)
(* Server getKeyFromEvent, RegisterProviderInterface and Request.          *)
(*                                                                         *)
(* A name is a sequence of letters; "Changed" counts as one letter with a  *)
(* lower case of its own.                                                  *)
(***************************************************************************)
EXTENDS Integers, Sequences

Letters == {"o", "O", "x", "X", "n", "."}

Cases == {<<"o", "O">>, <<"x", "X">>, <<"n", "N">>, <<"changed", "Changed">>}

(* std::tolower and std::toupper *)
Lower(c) == IF \E p \in Cases : p[2] = c THEN (CHOOSE p \in Cases : p[2] = c)[1] ELSE c
Upper(c) == IF \E p \in Cases : p[1] = c THEN (CHOOSE p \in Cases : p[1] = c)[2] ELSE c

(* The first dot of a name, if it has one. *)
HasDot(s) == \E i \in DOMAIN s : s[i] = "."
Dot(s)    == CHOOSE i \in DOMAIN s : s[i] = "." /\ \A j \in 1..(i - 1) : s[j] # "."

Before(s) == SubSeq(s, 1, Dot(s) - 1)
After(s)  == SubSeq(s, Dot(s) + 1, Len(s))

(* The first letter in upper or in lower case; there may be none. *)
Capital(s) == IF s = <<>> THEN s ELSE <<Upper(Head(s))>> \o Tail(s)
Small(s)   == IF s = <<>> THEN s ELSE <<Lower(Head(s))>> \o Tail(s)

(* Properties::EventName *)
EventName(property) ==
    IF HasDot(property)
    THEN Before(property) \o <<".", "o", "n">> \o Capital(After(property)) \o <<"Changed">>
    ELSE property

StartsWithOn(s) == Len(s) > 2 /\ SubSeq(s, 1, 2) = <<"o", "n">>

WithoutOnAsIs(s) == IF StartsWithOn(s) THEN SubSeq(s, 3, Len(s)) ELSE s   (* mutant *)

(* What both getKeyFromEvent and RegisterProviderInterface do behind the dot. *)
WithoutOn(s) == IF StartsWithOn(s) THEN Small(SubSeq(s, 3, Len(s))) ELSE s

(* Server::getKeyFromEvent *)
Key(event) ==
    IF HasDot(event)
    THEN Before(event) \o <<".">> \o WithoutOn(After(event))
    ELSE event

(* The interface and the method under which Server::RegisterProviderInterface *)
(* stores a method: without a dot, find's npos makes both of the whole name.  *)
Registered(name) ==
    IF HasDot(name)
    THEN <<Before(name), WithoutOn(After(name))>>
    ELSE <<name, WithoutOn(name)>>

(* Server::Request finds it: the name is taken as it comes. *)
Serves(name, requested) ==
    HasDot(requested) /\ Registered(name) = <<Before(requested), After(requested)>>
=============================================================================
