----------------------------- MODULE Transport ------------------------------
(***************************************************************************)
(* One send of a sink (notifiers/base.py, console.py, slack.py, webhook.py,*)
(* email.py): who gets the batch, and what _deliver is told.               *)
(***************************************************************************)
EXTENDS Notifiers, Sequences

CONSTANTS
    Readers,   \* who reads what the sinks deliver
    SinkOf,    \* the sink each of them reads; only email has several readers
    Type       \* the type of each sink

ASSUME TransportAssumption ==
    /\ SinkOf \in [Readers -> Sinks]
    /\ Type \in [Sinks -> {"console", "slack", "webhook", "email"}]
    /\ \A q, r \in Readers : SinkOf[q] = SinkOf[r] /\ q # r => Type[SinkOf[q]] = "email"

Audience(s) == {r \in Readers : SinkOf[r] = s}

(* _deliver of each type: the calls it makes in their order.  Leaving the   *)
(* `with` block of an email says goodbye to the server.                     *)
Calls(type) ==
    CASE type = "console"             -> <<"print">>
      [] type \in {"slack", "webhook"} -> <<"urlopen", "read">>
      [] type = "email"               -> <<"connect", "starttls", "login",
                                           "send_message", "quit">>

(* The call by which the destination takes the batch. *)
Handover(type) ==
    CHOOSE i \in DOMAIN Calls(type) :
        Calls(type)[i] \in {"print", "urlopen", "send_message"}

(* Who gets a batch that is taken.  send_message raises only when every     *)
(* recipient is refused.                                                    *)
Accepted(s) ==
    IF Type[s] = "email" THEN (SUBSET Audience(s)) \ {{}} ELSE {Audience(s)}

(* Who may have got the batch when call i raises: the answer to a handover  *)
(* can be lost.  A console that fails in the middle of a batch counts as    *)
(* having shown it or not.                                                  *)
GotBefore(s, i) ==
    (IF i <= Handover(Type[s]) THEN {{}} ELSE {})
    \cup (IF i >= Handover(Type[s]) THEN Accepted(s) ELSE {})

(* send: TRUE unless a call raises.  RemoteNotifier turns the errors of its *)
(* transport into FALSE, and _deliver does so with every other exception.   *)
Sends(s) ==
    {[got |-> A, returned |-> TRUE] : A \in Accepted(s)}
    \cup UNION {{[got |-> A, returned |-> FALSE] : A \in GotBefore(s, i)} :
                    i \in DOMAIN Calls(Type[s])}

(* The filters in front: nothing kept means the sink is not called.         *)
SendsOf(s, batch) ==
    IF Kept(s, batch) = {} THEN {[got |-> {}, returned |-> TRUE]} ELSE Sends(s)
=============================================================================
