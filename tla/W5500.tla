------------------------------- MODULE W5500 -------------------------------
(***************************************************************************)
(* The W5500 chip as its driver, W5500.cpp, sees it, and the parts of the  *)
(* driver that every socket uses.  The firmware has one thread, so at most *)
(* one call polls the chip at a time; the chip and the peers move between  *)
(* any two polls.                                                          *)
(***************************************************************************)
EXTENDS Integers, Sequences

CONSTANTS
    MAX_SOCK_NUM,       \* sockets of the chip
    RxLimit,            \* bound: what a socket's receive buffer holds
    MaxWait,            \* bound: no timeout is longer, in ticks
    Addresses,          \* IP addresses
    NoAddress           \* 0.0.0.0

ASSUME ChipAssumption ==
    /\ MAX_SOCK_NUM \in Nat \ {0} /\ RxLimit \in Nat \ {0} /\ MaxWait \in Nat
    /\ NoAddress \notin Addresses

VARIABLES
    Sn_SR,      \* status register of each socket
    buffer,     \* receive buffer of each socket: bytes, or datagrams
    SIPR,       \* the chip's own IP address
    call,       \* the call the thread is in
    elapsed     \* the Timer of its wait loop, in ticks

chip == <<Sn_SR, buffer, SIPR>>

Sockets  == 0..(MAX_SOCK_NUM - 1)
NoSocket == -1
Status   == {"CLOSED", "SYNSENT", "ESTABLISHED", "CLOSE_WAIT", "UDP"}
Calls    == {"none", "connect", "read", "write", "send", "setup"}

\* What is in the buffers is for their users to say.
ChipTypeOK ==
    /\ Sn_SR \in [Sockets -> Status]
    /\ SIPR \in Addresses \cup {NoAddress}
    /\ call \in Calls /\ elapsed \in 0..(MaxWait + 1)

ChipInit ==
    /\ Sn_SR = [s \in Sockets |-> "CLOSED"] /\ buffer = [s \in Sockets |-> <<>>]
    /\ SIPR = NoAddress
    /\ call = "none" /\ elapsed = 0

-----------------------------------------------------------------------------
(* The driver.                                                             *)

IsConnected(s) == s # NoSocket /\ Sn_SR[s] \in {"ESTABLISHED", "CLOSE_WAIT"}

\* new_socket(): the first socket that is closed
NewSocket ==
    LET free == {s \in Sockets : Sn_SR[s] = "CLOSED"}
    IN  IF free = {} THEN NoSocket ELSE CHOOSE s \in free : \A t \in free : s <= t

\* OPEN, or CLOSE: the socket has a new status and an empty buffer.
Sets(s, status) ==
    /\ Sn_SR' = [Sn_SR EXCEPT ![s] = status]
    /\ buffer' = [buffer EXCEPT ![s] = <<>>]

\* close() does nothing to a socket that is closed, or to none.
Closes(s) ==
    IF s = NoSocket THEN UNCHANGED <<Sn_SR, buffer>> ELSE
    IF Sn_SR[s] = "CLOSED" THEN UNCHANGED <<Sn_SR, buffer>> ELSE Sets(s, "CLOSED")

\* The timeout test of the wait loops: -1 waits for ever.
Expired(wait) == wait # -1 /\ elapsed > wait

\* A tick of the timers
Elapses == elapsed' = IF elapsed <= MaxWait THEN elapsed + 1 ELSE elapsed

-----------------------------------------------------------------------------
(* The chip and the peers of its sockets.                                  *)

Becomes(s, old, new) ==
    /\ Sn_SR[s] \in old
    /\ Sn_SR' = [Sn_SR EXCEPT ![s] = new]
    /\ UNCHANGED <<buffer, SIPR, call, elapsed>>

\* A SYN is answered; the peer closes its side; the connection is refused,
\* reset, or given up by the chip.
Answered(s) == Becomes(s, {"SYNSENT"}, "ESTABLISHED")
Finished(s) == Becomes(s, {"ESTABLISHED"}, "CLOSE_WAIT")
Broken(s)   == Becomes(s, {"SYNSENT", "ESTABLISHED", "CLOSE_WAIT"}, "CLOSED")

Arrives(s, d) ==
    /\ Len(buffer[s]) < RxLimit
    /\ buffer' = [buffer EXCEPT ![s] = Append(@, d)]
    /\ UNCHANGED <<Sn_SR, SIPR, call, elapsed>>

=============================================================================
