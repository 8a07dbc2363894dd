------------------------ MODULE MQTTClientRefinement ------------------------
(* The client implements the contract its application relies on.           *)
EXTENDS MQTTClient

\* A resend of the stored publish is a part of connect().
PublicOp(o) == IF o = "resend" THEN "connect" ELSE o

Client == INSTANCE ClientContract
          WITH open    <- isconnected,
               op      <- PublicOp(call.op),
               outcome <- [op |-> PublicOp(result.op), rc |-> result.rc]

\* Why it does: a call is running exactly when one was begun, none connects a
\* client that is connected already, and a cycle that failed closed the session.
RunningIsCalled   == phase = "idle" <=> call.op = "none"
ConnectsWhenClosed == call.op \in {"connect", "resend"} => ~isconnected
FailedCycleCloses == rc = "FAILURE" => ~isconnected
ContractInv == RunningIsCalled /\ ConnectsWhenClosed /\ FailedCycleCloses

\* isConnected() changes, and calls return, only as the contract says: no
\* sequence of losses, refusals and late packets makes a call fail with the
\* session open, or opens one other than by connect().
ImplementsContract == Client!ClientSpec

\* The same with the promise that every call returns.
ImplementsFairContract == Client!ClientFairSpec
=============================================================================
