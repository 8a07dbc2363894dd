----------------------------- MODULE TCPSocket -----------------------------
(***************************************************************************)
(* TCPSocketConnection, the socket under the MQTT client: connect(),       *)
(* receive() and send() as MQTTNetwork forwards to them, with the wait     *)
(* loops of the driver and its send().                                     *)
(***************************************************************************)
EXTENDS W5500

CONSTANTS
    WriteTimeout        \* Socket::_timeout, in ticks

ASSUME SocketAssumption == WriteTimeout \in 0..MaxWait

VARIABLES
    fd,             \* _sock_fd
    blocking,       \* _blocking
    timeout, len,   \* of the running call
    rc,             \* what the last call returned, until the next one begins
    sendOk          \* INT_SEND_OK in Sn_IR

socket  == <<fd, blocking, timeout, len, rc>>
tcpVars == <<socket, sendOk>>

TcpTypeOK ==
    /\ fd \in Sockets \cup {NoSocket} /\ blocking \in BOOLEAN
    /\ timeout \in -1..MaxWait /\ len \in Nat
    /\ rc \in Nat \cup {-1}
    /\ sendOk \in BOOLEAN

TcpInit ==
    /\ fd = NoSocket /\ blocking = TRUE
    /\ timeout = 0 /\ len = 0 /\ rc = 0
    /\ sendOk = FALSE

\* The wait_time_ms of receive() and send()
Limit == IF blocking THEN -1 ELSE timeout

Starts(c, n, t) ==
    /\ call' = c /\ len' = n /\ timeout' = t /\ elapsed' = 0 /\ rc' = 0
    /\ UNCHANGED <<fd, blocking>>

Returns(r) ==
    /\ call' = "none" /\ rc' = r
    /\ elapsed' = 0 /\ timeout' = 0 /\ len' = 0

-----------------------------------------------------------------------------
(* connect(): the socket is opened, whatever it was doing.                 *)

Connect(t) ==
    /\ call = "none"
    /\ LET s == IF fd = NoSocket THEN NewSocket ELSE fd
       IN  IF s = NoSocket
           THEN Returns(-1) /\ UNCHANGED <<fd, blocking, chip>>
           ELSE /\ fd' = s /\ Sets(s, "SYNSENT")
                /\ call' = "connect" /\ timeout' = t /\ elapsed' = 0 /\ rc' = 0
                /\ UNCHANGED <<blocking, len, SIPR>>
    /\ UNCHANGED sendOk

\* The mode is set only now: a socket whose first connect() fails stays blocking.
ConnectSucceeds ==
    /\ call = "connect" /\ IsConnected(fd)
    /\ blocking' = FALSE
    /\ Returns(0)
    /\ UNCHANGED <<fd, chip, sendOk>>

\* Mutant: the time is not looked at.
ConnectTimesOut_Never == FALSE /\ UNCHANGED <<chip, call, elapsed, tcpVars>>

\* The socket is left as it is, its SYN still being sent again.
ConnectTimesOut ==
    /\ call = "connect" /\ ~IsConnected(fd) /\ elapsed > timeout
    /\ Returns(-1)
    /\ UNCHANGED <<fd, blocking, chip, sendOk>>

-----------------------------------------------------------------------------
(* receive() and send() wait only on a connected socket.                   *)

Waits(c, n, t) ==
    /\ call = "none"
    /\ IF IsConnected(fd) THEN Starts(c, n, t)
                          ELSE Returns(-1) /\ UNCHANGED <<fd, blocking>>
    /\ UNCHANGED chip

Read(n, t) == Waits("read", n, t) /\ UNCHANGED sendOk
Write(n)   == Waits("write", n, WriteTimeout) /\ UNCHANGED sendOk

\* At most len bytes, however many there are
ReadGets ==
    /\ call = "read" /\ buffer[fd] # <<>>
    /\ LET n == IF Len(buffer[fd]) > len THEN len ELSE Len(buffer[fd])
       IN  /\ buffer' = [buffer EXCEPT ![fd] = SubSeq(@, n + 1, Len(@))]
           /\ Returns(n)
    /\ UNCHANGED <<fd, blocking, Sn_SR, SIPR, sendOk>>

ReadTimesOut ==
    /\ call = "read" /\ buffer[fd] = <<>> /\ Expired(Limit)
    /\ Returns(0)
    /\ UNCHANGED <<fd, blocking, chip, sendOk>>

\* A poll that finds room hands the chip as much as fits.
WriteReady ==
    /\ call = "write"
    /\ call' = "send" /\ len' \in 1..len /\ elapsed' = 0 /\ timeout' = 0
    /\ UNCHANGED <<fd, blocking, rc, chip, sendOk>>

WriteTimesOut ==
    /\ call = "write" /\ Expired(Limit)
    /\ Returns(-1)
    /\ UNCHANGED <<fd, blocking, chip, sendOk>>

\* The driver's send() returns when the chip has sent, or the socket is closed.
Sent ==
    /\ call = "send" /\ sendOk
    /\ sendOk' = FALSE
    /\ Returns(len)
    /\ UNCHANGED <<fd, blocking, chip>>

SendBroken ==
    /\ call = "send" /\ ~sendOk /\ Sn_SR[fd] = "CLOSED"
    /\ Returns(0)
    /\ UNCHANGED <<fd, blocking, chip, sendOk>>

TcpSteps ==
    \/ ConnectSucceeds \/ ConnectTimesOut
    \/ ReadGets \/ ReadTimesOut
    \/ WriteReady \/ WriteTimesOut \/ Sent \/ SendBroken

-----------------------------------------------------------------------------
(* The chip's side of sending.                                             *)

SendCompletes ==
    /\ call = "send" /\ Sn_SR[fd] # "CLOSED" /\ ~sendOk
    /\ sendOk' = TRUE
    /\ UNCHANGED <<chip, call, elapsed, socket>>

=============================================================================
