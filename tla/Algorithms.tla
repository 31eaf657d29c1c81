----------------------------- MODULE Algorithms -----------------------------
(* The pure parts of the code over all small inputs: a state is an input.  *)
EXTENDS EventNames, Calls

CONSTANTS
    MaxLetters,     \* bound: letters of a name
    MaxAdditions,   \* bound: additions to one Parameters
    NoInput         \* before an input has been chosen

ASSUME AlgorithmsAssumption == MaxLetters \in Nat /\ MaxAdditions \in Nat

VARIABLE input

EventInputs ==
    {[name |-> n] : n \in UNION {[1..k -> Letters] : k \in 1..MaxLetters}}

CallInputs ==
    [additions : UNION {[1..k -> Additions] : k \in 0..MaxAdditions}, ending : Endings]

Init == input = NoInput

ChooseName == input = NoInput /\ input' \in EventInputs
ChooseCall == input = NoInput /\ input' \in CallInputs

Next == ChooseName \/ ChooseCall

Spec == Init /\ [][Next]_input

-----------------------------------------------------------------------------
(* A name as the remote spells it: the first letter behind the dot small.  *)
OfTheRemote(property) == Before(property) \o <<".">> \o Small(After(property))

(* The notification that reaches the subscriber of a property is the       *)
(* property's name and "Changed".                                          *)
PropertyIsNotified(p) ==
    HasDot(p) /\ After(p) # <<>> =>
        Key(EventName(p)) = OfTheRemote(p) \o <<"Changed">>

(* A provider method is served under the name that an event of the same    *)
(* name is notified under, and under no other; a name without a dot under  *)
(* none that begins with something else.                                   *)
ServedAsNotified(n) ==
    \A r \in {i.name : i \in EventInputs} :
        Serves(n, r) <=> IF HasDot(n) THEN r = Key(n)
                         ELSE r = n \o <<".">> \o WithoutOn(n)

(* The four places that compute names agree (Properties.h:67,              *)
(* server.h:73, 142, 170): whoever subscribes or provides by a name hears  *)
(* the remote's spelling of that name.                                     *)
NamesAgree ==
    input \in EventInputs => PropertyIsNotified(input.name) /\ ServedAsNotified(input.name)

(* The last addition of a name that had a value is the one that is sent.   *)
ArgumentArrives(s, n) ==
    LET given == {i \in DOMAIN s : s[i].name = n /\ s[i].value # NoValue}
    IN  Parameters(s)[n] =
          IF given = {} THEN NoValue
          ELSE s[CHOOSE i \in given : \A j \in given : j <= i].value

(* A call succeeds exactly if the remote sent a result, or an error with   *)
(* the code of success; its value is the remote's, or the default if there *)
(* was none to parse; its error is the remote's code, or a reason of the   *)
(* client's own.  One that was not sent looks neither like a success nor   *)
(* like a timeout.                                                         *)
OutcomeArrives(ending) ==
    LET outcome  == Get(ending)
        succeeds == ending.kind = "result" \/ (ending.kind = "error" /\ ending.code = None)
    IN  /\ succeeds <=> outcome.error = None
        /\ succeeds <=> outcome.value # NoValue
        /\ outcome.value \in Values <=> ending.kind = "result" /\ ending.text = outcome.value
        /\ ending.kind = "error" => outcome.error = ending.code
        /\ ending.kind \in {"unconnected", "suspended", "taken"} => outcome.error # Timedout
        /\ Set(ending).error = outcome.error

(* What the application gives to a call arrives, and what it is told is    *)
(* what happened (helpers.h:48, 90; client.h:148, 173).                    *)
CallsAreFaithful ==
    input \in CallInputs =>
        /\ \A n \in Names : ArgumentArrives(input.additions, n)
        /\ OutcomeArrives(input.ending)
=============================================================================
