----------------------------- MODULE DHCPClient -----------------------------
(***************************************************************************)
(* DHCPClient::setup() and EthernetInterface::connect() around it: one     *)
(* DISCOVER per interval, a REQUEST for every OFFER, success on an ACK.    *)
(* Servers and the network are external: datagrams are lost, duplicated,   *)
(* delayed beyond the setup they belong to, and delivered in any order.    *)
(***************************************************************************)
EXTENDS W5500

CONSTANTS
    Servers, Pool,      \* the servers, and the addresses each may offer
    NoServer,
    RecvTimeout,        \* Socket::_timeout, in ticks
    Interval,           \* interval_ms, in ticks
    MaxRetries,         \* timeout_ms / interval_ms
    MaxXid              \* bound: transaction ids used

ASSUME DhcpAssumption ==
    /\ Pool \in [Servers -> SUBSET Addresses] /\ NoServer \notin Servers
    /\ RecvTimeout \in 0..MaxWait /\ Interval \in Nat
    /\ MaxRetries \in Nat \ {0} /\ MaxXid \in Nat

VARIABLES
    seq,                \* where setup() is
    udp,                \* socket number of m_udp
    xid, yiaddr, siaddr, exit_flag, err,
    m_retry,
    interval,           \* m_interval, in ticks
    noise,              \* receiveFrom() does not read at the start of a datagram
    connected_net,      \* of main(): what networking_init() returned
    wire                \* every DHCP message ever sent

offered  == <<yiaddr, siaddr>>
outcome  == <<exit_flag, err, connected_net>>
dhcpVars == <<seq, udp, xid, offered, outcome, m_retry, interval, noise, wire>>

Requests == {"DISCOVER", "REQUEST"}
Answers  == {"OFFER", "ACK", "NAK"}
Messages == [type : Requests \cup Answers, xid : 1..MaxXid,
             addr : Addresses \cup {NoAddress}, server : Servers \cup {NoServer}]
LongDatagram == [type |-> "LONG", xid |-> 0, addr |-> NoAddress, server |-> NoServer]
Message(t, a, s) == [type |-> t, xid |-> xid, addr |-> a, server |-> s]

DhcpTypeOK ==
    /\ seq \in {"off", "discover", "receive", "check", "done"}
    /\ udp \in Sockets \cup {NoSocket}
    /\ xid \in 0..MaxXid
    /\ yiaddr \in Addresses \cup {NoAddress}
    /\ siaddr \in Servers \cup {NoServer}
    /\ connected_net \in BOOLEAN /\ exit_flag \in BOOLEAN /\ err \in {0, -1} /\ noise \in BOOLEAN
    /\ m_retry \in 0..MaxRetries /\ interval \in 0..(Interval + 1)
    /\ wire \subseteq Messages

DhcpInit ==
    /\ seq = "off" /\ udp = NoSocket
    /\ yiaddr = NoAddress /\ siaddr = NoServer
    /\ exit_flag = FALSE /\ err = 0 /\ noise = FALSE
    /\ m_retry = 0 /\ interval = 0
    /\ xid = 0 /\ connected_net = FALSE /\ wire = {}

-----------------------------------------------------------------------------
(* setup()                                                                 *)

\* A socket is opened, and the chip is left without an address.
Setup ==
    /\ call = "none" /\ ~connected_net /\ xid + MaxRetries <= MaxXid
    /\ call' = "setup" /\ seq' = "discover" /\ SIPR' = NoAddress
    /\ udp' = NewSocket
    /\ IF udp' = NoSocket THEN UNCHANGED <<Sn_SR, buffer>> ELSE Sets(udp', "UDP")
    /\ UNCHANGED <<elapsed, xid, offered, outcome, m_retry, interval, noise, wire>>

\* A new id for every DISCOVER.  A datagram that is not sent is one that is lost.
Discover ==
    /\ call = "setup" /\ seq = "discover"
    /\ xid' = xid + 1
    /\ wire' = wire \cup {[type |-> "DISCOVER", xid |-> xid', addr |-> NoAddress, server |-> NoServer]}
    /\ interval' = 0 /\ elapsed' = 0 /\ seq' = "receive"
    /\ UNCHANGED <<chip, call, udp, offered, outcome, m_retry, noise>>

\* Mutant: any answer will do.
Verify_AnyXid(m) == m.type \in Answers

Verify(m) == m.type \in Answers /\ m.xid = xid

\* offer() keeps what the packet says, whatever its type; then callback().
Takes(m) ==
    /\ yiaddr' = m.addr /\ siaddr' = m.server
    /\ wire' = IF m.type = "OFFER" THEN wire \cup {Message("REQUEST", yiaddr', siaddr')} ELSE wire
    /\ exit_flag' = (m.type = "ACK")

\* receiveFrom() returns a datagram.
Receive ==
    /\ call = "setup" /\ seq = "receive" /\ udp # NoSocket /\ ~noise
    /\ buffer[udp] # <<>> /\ Head(buffer[udp]) # LongDatagram
    /\ buffer' = [buffer EXCEPT ![udp] = Tail(@)]
    /\ IF Verify(Head(buffer[udp])) THEN Takes(Head(buffer[udp]))
                                    ELSE UNCHANGED <<offered, exit_flag, wire>>
    /\ seq' = "check"
    /\ UNCHANGED <<Sn_SR, SIPR, call, elapsed, udp, xid, err, connected_net, m_retry, interval, noise>>

\* One that does not fit in m_buf is refused after its header was read: the rest
\* stays, and what is read from then on is not what it is taken for ...
ReceiveTooLong ==
    /\ call = "setup" /\ seq = "receive" /\ udp # NoSocket /\ ~noise
    /\ buffer[udp] # <<>> /\ Head(buffer[udp]) = LongDatagram
    /\ noise' = TRUE /\ seq' = "check"
    /\ UNCHANGED <<chip, call, elapsed, udp, xid, offered, outcome, m_retry, interval, wire>>

\* ... until a read happens to end where the buffer does.
ReceiveNoise ==
    /\ call = "setup" /\ seq = "receive" /\ udp # NoSocket /\ noise
    /\ \E n \in 0..Len(buffer[udp]) :
        /\ buffer' = [buffer EXCEPT ![udp] = SubSeq(@, n + 1, Len(@))]
        /\ noise' \in (IF n < Len(buffer[udp]) THEN {TRUE} ELSE BOOLEAN)
    /\ seq' = "check"
    /\ UNCHANGED <<Sn_SR, SIPR, call, elapsed, udp, xid, offered, outcome, m_retry, interval, wire>>

ReceiveNothing ==
    /\ call = "setup" /\ seq = "receive"
    /\ \/ udp = NoSocket
       \/ buffer[udp] = <<>> /\ Expired(RecvTimeout)
    /\ seq' = "check"
    /\ UNCHANGED <<chip, call, elapsed, udp, xid, offered, outcome, m_retry, interval, noise, wire>>

\* Mutant: one more.
OutOfRetries_OneMore == m_retry + 1 > MaxRetries

OutOfRetries == m_retry + 1 >= MaxRetries

\* When the interval is over, the last retry makes setup() fail, even if the ACK
\* came in this pass.
Check ==
    /\ call = "setup" /\ seq = "check"
    /\ LET over == interval > Interval
           last == over /\ OutOfRetries
       IN  /\ m_retry' = IF over THEN m_retry + 1 ELSE m_retry
           /\ err' = IF last THEN -1 ELSE err
           /\ seq' = IF last \/ exit_flag THEN "done"
                     ELSE IF over THEN "discover" ELSE "receive"
           /\ exit_flag' = (exit_flag \/ last)
    /\ elapsed' = 0
    /\ UNCHANGED <<chip, call, udp, xid, offered, connected_net, interval, noise, wire>>

\* Mutant: m_udp is not deleted.
Closing_Leaks(s) == UNCHANGED <<Sn_SR, buffer>>

Closing(s) == Closes(s)

\* m_udp is deleted, and setup()'s variables with it; EthernetInterface::connect()
\* gives the chip the address.
Finish ==
    /\ call = "setup" /\ seq = "done"
    /\ Closing(udp)
    /\ connected_net' = (err = 0)
    /\ SIPR' = IF err = 0 THEN yiaddr ELSE SIPR
    /\ call' = "none" /\ elapsed' = 0
    /\ seq' = "off" /\ udp' = NoSocket
    /\ yiaddr' = NoAddress /\ siaddr' = NoServer
    /\ exit_flag' = FALSE /\ err' = 0 /\ noise' = FALSE
    /\ m_retry' = 0 /\ interval' = 0
    /\ UNCHANGED <<xid, wire>>

DhcpSteps ==
    \/ Discover
    \/ Receive \/ ReceiveTooLong \/ ReceiveNoise \/ ReceiveNothing
    \/ Check \/ Finish

\* main() wants the network set up again, after too many failures.
Resets ==
    /\ call = "none" /\ connected_net' = FALSE
    /\ UNCHANGED <<chip, call, elapsed, seq, udp, xid, offered, exit_flag, err,
                   m_retry, interval, noise, wire>>

IntervalElapses ==
    interval' = IF call = "setup" /\ interval <= Interval THEN interval + 1 ELSE interval

-----------------------------------------------------------------------------
(* The servers and the network, while setup() waits: it looks at nothing    *)
(* they do in between.  A server's late answer to an older id is one it     *)
(* gave in time and the network delays.                                    *)

Waiting == call = "setup" /\ seq = "receive"

Says(m) ==
    /\ Waiting
    /\ wire' = wire \cup {m}
    /\ UNCHANGED <<chip, call, elapsed, seq, udp, xid, offered, outcome, m_retry, interval, noise>>

\* A server offers one address in answer to a DISCOVER ...
ServerOffers(s) ==
    \E m \in wire, a \in Pool[s] :
        /\ m.type = "DISCOVER" /\ m.xid = xid
        /\ ~\E o \in wire : o.type = "OFFER" /\ o.xid = m.xid /\ o.server = s
        /\ Says([m EXCEPT !.type = "OFFER", !.addr = a, !.server = s])

\* ... and confirms or refuses it when the client asks for it.
ServerAnswers(s) ==
    \E m \in wire : \E a \in {[type |-> "ACK", addr |-> m.addr], [type |-> "NAK", addr |-> NoAddress]} :
        /\ m.type = "REQUEST" /\ m.xid = xid /\ m.server = s
        /\ ~\E o \in wire : o.type \in {"ACK", "NAK"} /\ o.xid = m.xid /\ o.server = s
        /\ Says([m EXCEPT !.type = a.type, !.addr = a.addr])

Delivers ==
    /\ Waiting /\ udp # NoSocket
    /\ \E d \in {m \in wire : m.type \in Answers} \cup {LongDatagram} : Arrives(udp, d)
    /\ UNCHANGED dhcpVars

=============================================================================
