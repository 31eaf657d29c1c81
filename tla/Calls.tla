------------------------------- MODULE Calls -------------------------------
(***************************************************************************)
(* What becomes of the arguments and of the outcome of one call through    *)
(* Firebolt::Helpers (helpers.h, helpers.cpp): Parameters on the way to    *)
(* the remote; Client::Response, Client::Request, Properties, and get, set *)
(* and invoke on the way back to a Firebolt::Result.                       *)
(***************************************************************************)
EXTENDS Integers, Sequences

CONSTANTS
    Names,          \* parameter names
    Values,         \* values that parse as what the caller asks for
    Default,        \* what a JSON object holds before it is parsed
    Garbage,        \* a result of the remote that does not parse
    NoValue,        \* std::nullopt, and the value of Result<void>
    CoreNone, CoreGeneral, CoreUnavailable, CoreTimedout, CoreAsyncFailed
                    \* error codes of WPEFramework::Core

(* Firebolt::Error (error.h) *)
None           == 0
General        == 1
Timedout       == 2
NotConnected   == 3
InvalidRequest == -32600

(* How a call may end: there is no Transport, the channel is suspended or  *)
(* the id taken, the watchdog gives up on it, the remote sends a result or *)
(* an error with a code of its choice.                                     *)
Codes   == {None, General, Timedout, InvalidRequest}
Endings ==
    [kind : {"unconnected", "suspended", "taken", "silent"}]
    \cup [kind : {"result"}, text : Values \cup {Garbage}]
    \cup [kind : {"error"}, code : Codes]

ASSUME CallsAssumption ==
    /\ Default \notin Values \cup {Garbage, NoValue}
    /\ NoValue \notin Values \cup {Garbage}
    /\ CoreNone \notin {CoreGeneral, CoreUnavailable, CoreTimedout}
    /\ CoreAsyncFailed \in Int \ {CoreNone, CoreGeneral, CoreUnavailable, CoreTimedout,
                                  None, Timedout}

-----------------------------------------------------------------------------
(* Parameters: the operations add(name, value), with a value or with an    *)
(* empty std::optional, one after the other, give a JSON object.           *)

Additions == [name : Names, value : Values \cup {NoValue}]

AddAbsent(object, a) == [object EXCEPT ![a.name] = a.value]      (* mutant *)

Add(object, a) ==
    IF a.value = NoValue THEN object ELSE [object EXCEPT ![a.name] = a.value]

(* Parameters::operator() after the additions of s. *)
Parameters(s) ==
    LET object[i \in 0..Len(s)] ==
          IF i = 0 THEN [n \in Names |-> NoValue] ELSE Add(object[i - 1], s[i])
    IN  object[Len(s)]

-----------------------------------------------------------------------------
(* JsonType::FromString and Value: text that does not parse, or none at    *)
(* all, leaves the default and is not reported.                            *)
Parsed(text) == IF text \in Values THEN text ELSE Default

(* Transport::FireboltErrorValue: a code it does not know stays the number *)
(* it was.                                                                 *)
FireboltErrorValue(error) ==
    CASE error = CoreNone                          -> None
      [] error \in {CoreGeneral, CoreUnavailable} -> General
      [] error = CoreTimedout                      -> Timedout
      [] OTHER                                     -> error

(* Transport::Send *)
Send(ending) ==
    FireboltErrorValue(IF ending.kind \in {"suspended", "taken"} THEN CoreAsyncFailed ELSE CoreNone)

(* Client::Response, and the watchdog: what the Caller holds. *)
Caller(ending) ==
    CASE ending.kind = "result" -> [response |-> ending.text, error |-> None]
      [] ending.kind = "error"  -> [response |-> NoValue, error |-> ending.code]
      [] ending.kind = "silent" -> [response |-> NoValue, error |-> Timedout]

(* Client::Request: the status, and the JSON object it has filled. *)
Call(ending) ==
    LET failed(status) == [status |-> status, json |-> Default]
    IN  IF ending.kind = "unconnected" THEN failed(NotConnected)
        ELSE IF Send(ending) # None THEN failed(Send(ending))
        ELSE IF Caller(ending).error # None THEN failed(Caller(ending).error)
        ELSE [status |-> None, json |-> Parsed(Caller(ending).response)]

(* Result<T> and Result<void> *)
Result(value, error) == [value |-> value, error |-> error]

(* get and invoke *)
Get(ending) ==
    LET call == Call(ending)
    IN  IF call.status = None THEN Result(call.json, None) ELSE Result(NoValue, call.status)

(* set, and invoke without a result *)
Set(ending) == Result(NoValue, Call(ending).status)
=============================================================================
