------------------------------ MODULE Network ------------------------------
(***************************************************************************)
(* The two users of the chip: the broker's TCP socket, which lives as long *)
(* as the program, and the DHCP client's UDP socket, made and deleted by   *)
(* every networking_init().  The application sets the network up when it   *)
(* has none, connects when it has one, and reads and writes at any time,   *)
(* as Controller does.                                                     *)
(***************************************************************************)
EXTENDS TCPSocket, DHCPClient

CONSTANTS
    ConnectTimeouts, ReadTimeouts, Lengths

ASSUME NetworkAssumption ==
    /\ ConnectTimeouts \subseteq 0..MaxWait /\ ReadTimeouts \subseteq -1..MaxWait
    /\ Lengths \subseteq Nat \ {0}
    /\ MAX_SOCK_NUM > 1     \* eight, in the W5500

vars == <<chip, call, elapsed, tcpVars, dhcpVars>>

\* A byte of the TCP stream; its value does not matter.
Byte == [type |-> "BYTE"]
Data == Messages \cup {LongDatagram, Byte}

TypeOK ==
    /\ ChipTypeOK /\ TcpTypeOK /\ DhcpTypeOK
    /\ buffer \in [Sockets -> Seq(Data)]
    /\ \A s \in Sockets : Len(buffer[s]) <= RxLimit

Init == ChipInit /\ TcpInit /\ DhcpInit

-----------------------------------------------------------------------------
Reads  == \E n \in Lengths, t \in ReadTimeouts : Read(n, t)
Writes == \E n \in Lengths : Write(n)

Application ==
    \/ Setup /\ rc' = 0 /\ UNCHANGED <<fd, blocking, timeout, len, sendOk>>
    \/ Resets /\ UNCHANGED tcpVars
    \/ connected_net /\ (\E t \in ConnectTimeouts : Connect(t)) /\ UNCHANGED dhcpVars
    \/ (Reads \/ Writes) /\ UNCHANGED dhcpVars

Program ==
    \/ TcpSteps /\ UNCHANGED dhcpVars
    \/ DhcpSteps /\ UNCHANGED tcpVars

\* What happens to the TCP socket while nobody looks at it is left for later: its
\* status changes outside of a setup, which looks at no other socket once it has
\* its own, and bytes arrive when a read waits for them.
Peer ==
    /\ call # "setup"
    /\ \/ \E s \in Sockets : Answered(s) \/ Finished(s) \/ Broken(s)
       \/ call = "read" /\ IsConnected(fd) /\ Arrives(fd, Byte)
    /\ UNCHANGED <<tcpVars, dhcpVars>>

\* The chip sends what it was given, if the connection does not break before.
ChipSends == SendCompletes /\ UNCHANGED dhcpVars

\* It does one or the other.
SendEnds ==
    \/ ChipSends
    \/ call = "send" /\ Broken(fd) /\ UNCHANGED <<tcpVars, dhcpVars>>

DhcpServers ==
    \/ \E s \in Servers : ServerOffers(s) \/ ServerAnswers(s)
    \/ Delivers

Tick ==
    /\ call \notin {"none", "send"}
    /\ Elapses /\ IntervalElapses
    /\ UNCHANGED <<chip, call, tcpVars, seq, udp, xid, offered, outcome, m_retry,
                   noise, wire>>

Next ==
    \/ Application \/ Program
    \/ Peer \/ ChipSends
    \/ DhcpServers /\ UNCHANGED tcpVars
    \/ Tick

Spec == Init /\ [][Next]_vars

FairSpec == Spec /\ WF_vars(Program) /\ WF_vars(Tick) /\ WF_vars(SendEnds)

-----------------------------------------------------------------------------
\* The two users never share a socket: between two setups only the TCP object's
\* socket is open, and no TCP call finds its number taken over by DHCP, although
\* the number of a broken connection is handed out again.
SocketsOwned ==
    /\ call # "setup" => \A s \in Sockets \ {fd} : Sn_SR[s] = "CLOSED"
    /\ call # "setup" /\ fd # NoSocket => Sn_SR[fd] # "UDP"
    /\ call = "setup" => udp # NoSocket

\* A server confirmed the address in the exchange of the last DISCOVER.
Acked(a) == \E s \in Servers : [type |-> "ACK", xid |-> xid, addr |-> a, server |-> s] \in wire

\* The chip uses an address only if a server acknowledged it in the exchange of
\* the last DISCOVER, whatever late or refusing answers came in between.
AddressAcked ==
    SIPR # NoAddress => Acked(SIPR)

\* Why: setup() starts as many exchanges as it has retries left, takes a socket
\* that nobody else has open, and is told to stop only by the last retry or by an
\* ACK of its own exchange, whose address it keeps.
RetryInv ==
    /\ call # "setup" => m_retry = 0
    /\ call = "setup" /\ seq # "done" =>
        /\ m_retry < MaxRetries
        /\ xid + MaxRetries <= MaxXid + m_retry + (IF seq = "discover" THEN 0 ELSE 1)
SocketsInv ==
    /\ \A s \in Sockets \ {fd, udp} : Sn_SR[s] = "CLOSED"
    /\ fd \in Sockets \ {udp} => Sn_SR[fd] # "UDP"
    /\ IF call = "setup" THEN udp # NoSocket ELSE udp = NoSocket
    /\ call \notin {"none", "setup"} => fd # NoSocket
LeaseInv ==
    /\ \/ call = "setup" /\ SIPR = NoAddress /\ seq # "off"
       \/ call # "setup" /\ ~exit_flag /\ err = 0 /\ seq = "off"
    /\ seq \in {"discover", "receive"} => ~exit_flag
    /\ seq = "done" => exit_flag
    /\ exit_flag /\ err = 0 => Acked(yiaddr)
    /\ SIPR # NoAddress => Acked(SIPR)
    /\ call = "setup" => buffer[udp] \in Seq(wire \cup {LongDatagram})
    /\ \A m \in wire : m.type = "ACK" => m.server \in Servers
NetInv == RetryInv /\ SocketsInv /\ LeaseInv

\* Every call returns, but a wait that was asked to have no limit.
Bounded == call \in {"read", "write"} => Limit # -1
CallsEnd == call # "none" /\ Bounded ~> call = "none"

\* "the time to wait, in milliseconds" (MQTTClient.h): a read that was given a
\* time returns.
ReadTimesHold == call = "read" /\ timeout >= 0 ~> call = "none"

=============================================================================
