--------------------------- MODULE MCController ---------------------------
(* Model values for the runs of Controller. *)
EXTENDS Controller

AllTimers  == {"30sec", "15sec", "1sec"}
\* One ticker whose flag is served before the inputs and the outputs, and one
\* that raises the flags of both
TwoTimers  == {"30sec", "15sec"}
SlowTimers == {"30sec", "1sec"}
\* A command for an output that exists and one that does not
SmallNumbers == {0, 1}
=============================================================================
