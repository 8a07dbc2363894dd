--------------------------- MODULE ClientContract ---------------------------
(***************************************************************************)
(* What an application may rely on when it uses MQTT::Client: when the     *)
(* answer of isConnected() can change, and what the return code of a call  *)
(* says about it.  MQTTClient implements this module, Controller uses it.  *)
(***************************************************************************)

VARIABLES
    open,       \* isConnected()
    op,         \* the call that is running
    outcome     \* what the last call returned, until the next one begins

clientVars == <<open, op, outcome>>

\* Calls that need a session
Requests == {"subscribe", "unsubscribe", "publish"}
Ops      == Requests \cup {"connect", "yield", "disconnect"}

NoOutcome == [op |-> "none", rc |-> "none"]
Outcomes  == [op : Ops, rc : {"SUCCESS", "FAILURE"}] \cup {NoOutcome}

ClientTypeOK ==
    /\ open \in BOOLEAN
    /\ op \in Ops \cup {"none"}
    /\ outcome \in Outcomes

ClientInit ==
    /\ open = FALSE
    /\ op = "none"
    /\ outcome = NoOutcome

\* Mutant: a request that fails leaves the session open.
AfterCall_KeepsOpen(o, rc) == IF o = "connect" THEN rc = "SUCCESS" ELSE open

\* isConnected() once call o has returned rc: only connect() opens a session,
\* and any other call that fails has closed it.
AfterCall(o, rc) ==
    IF o = "connect" THEN rc = "SUCCESS"
                     ELSE open /\ rc = "SUCCESS" /\ o # "disconnect"

\* The application connects only a client that is not connected.
MayCall(o) == op = "none" /\ (o = "connect" => ~open)

\* A call begins; a request does so only within a session.
Begin(o) ==
    /\ MayCall(o)
    /\ o \in Requests => open
    /\ op' = o
    /\ outcome' = NoOutcome
    /\ UNCHANGED open

\* The session may end while a call is running, never between two calls.
Drop ==
    /\ op # "none" /\ open
    /\ open' = FALSE
    /\ UNCHANGED <<op, outcome>>

Ends(o, rc) ==
    /\ op' = "none"
    /\ outcome' = [op |-> o, rc |-> rc]
    /\ open' = AfterCall(o, rc)

\* The running call returns.
End(o, rc) == op = o /\ Ends(o, rc)

\* A call returns without waiting for the broker; a request that finds no
\* session cannot succeed.
AtOnce(o, rc) ==
    /\ MayCall(o)
    /\ o \in Requests /\ rc = "SUCCESS" => open
    /\ o = "connect" => rc = "FAILURE"
    /\ Ends(o, rc)

\* publish() refuses a message that does not fit in its buffer.
Refuse ==
    /\ op = "none"
    /\ outcome' = [op |-> "publish", rc |-> "FAILURE"]
    /\ UNCHANGED <<open, op>>

Returns == \E o \in Ops, rc \in {"SUCCESS", "FAILURE"} : End(o, rc)

ClientNext ==
    \/ \E o \in Ops : Begin(o)
    \/ \E o \in Ops, rc \in {"SUCCESS", "FAILURE"} : AtOnce(o, rc)
    \/ Drop \/ Returns \/ Refuse

ClientSpec     == ClientInit /\ [][ClientNext]_clientVars
\* Every call returns.
ClientFairSpec == ClientSpec /\ WF_clientVars(Returns)
=============================================================================
