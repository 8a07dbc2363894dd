--------------------------- MODULE NetworkProofs ---------------------------
(***************************************************************************)
(* The sockets and the address of the chip, for any number of sockets,     *)
(* servers, addresses, retries and transaction ids, and whatever the       *)
(* network does with the datagrams.                                        *)
(***************************************************************************)
EXTENDS Network, SequenceTheorems, TLAPS

IInv == TypeOK /\ NetInv

-----------------------------------------------------------------------------
(* What the two users leave alone.                                         *)

TcpStep ==
    \/ (\E t \in ConnectTimeouts : Connect(t)) /\ UNCHANGED dhcpVars
    \/ (Reads \/ Writes) /\ UNCHANGED dhcpVars
    \/ TcpSteps /\ UNCHANGED dhcpVars
    \/ Peer
    \/ ChipSends

\* No step of the TCP socket, of its peer or of the chip's sending touches what
\* setup() works with.
LEMMA TcpFrame ==
    ASSUME TcpStep
    PROVE  call # "setup" /\ call' # "setup" /\ UNCHANGED <<dhcpVars, SIPR>>
<1>1. ASSUME NEW t, Connect(t) PROVE call # "setup" /\ call' # "setup" /\ SIPR' = SIPR
  BY <1>1 DEF Connect, Returns, chip
<1>2. ASSUME Reads \/ Writes PROVE call # "setup" /\ call' # "setup" /\ SIPR' = SIPR
  BY <1>2 DEF Reads, Writes, Read, Write, Waits, Starts, Returns, chip
<1>3. ASSUME TcpSteps PROVE call # "setup" /\ call' # "setup" /\ SIPR' = SIPR
  BY <1>3 DEF TcpSteps, ConnectSucceeds, ConnectTimesOut, ReadGets, ReadTimesOut,
       WriteReady, WriteTimesOut, Sent, SendBroken, Returns, chip
<1>4. ASSUME Peer PROVE call # "setup" /\ call' # "setup" /\ UNCHANGED <<dhcpVars, SIPR>>
  BY <1>4 DEF Peer, Answered, Finished, Broken, Becomes, Arrives
<1>5. ASSUME ChipSends PROVE call # "setup" /\ call' # "setup" /\ UNCHANGED <<dhcpVars, SIPR>>
  BY <1>5 DEF ChipSends, SendCompletes, chip
<1> QED BY <1>1, <1>2, <1>3, <1>4, <1>5 DEF TcpStep

\* Every step is one of the TCP side, of setup(), of the servers, or of the timers.
LEMMA Steps ==
    ASSUME Next
    PROVE  \/ TcpStep
           \/ Setup /\ rc' = 0 /\ UNCHANGED <<fd, blocking, timeout, len, sendOk>>
           \/ Resets /\ UNCHANGED tcpVars
           \/ DhcpSteps /\ UNCHANGED tcpVars
           \/ DhcpServers /\ UNCHANGED tcpVars
           \/ Tick
  BY DEF Next, Application, Program, TcpStep

\* What a server says is a message, under its own name.
LEMMA Said ==
    ASSUME TypeOK, NEW s \in Servers, ServerOffers(s) \/ ServerAnswers(s)
    PROVE  \E m \in Messages : m.server = s /\ Says(m)
<1>0. wire \subseteq Messages
  BY DEF TypeOK, DhcpTypeOK
<1>1. ASSUME NEW m \in wire, NEW t \in Answers, NEW a \in Addresses \cup {NoAddress},
             Says([m EXCEPT !.type = t, !.addr = a, !.server = s])
      PROVE  \E o \in Messages : o.server = s /\ Says(o)
  <2> DEFINE o == [m EXCEPT !.type = t, !.addr = a, !.server = s]
  <2>1. m \in Messages
    BY <1>0
  <2>2. o \in Messages /\ o.server = s
    BY <2>1 DEF Messages
  <2> QED BY <1>1, <2>2
<1>2. CASE ServerOffers(s)
  <2>1. PICK m \in wire, a \in Pool[s] :
          Says([m EXCEPT !.type = "OFFER", !.addr = a, !.server = s])
    BY <1>2 DEF ServerOffers
  <2>2. a \in Addresses
    BY DhcpAssumption
  <2> QED BY <1>1, <2>1, <2>2 DEF Answers
<1>3. CASE ServerAnswers(s)
  <2>0. PICK m \in wire :
          \E a \in {[type |-> "ACK", addr |-> m.addr], [type |-> "NAK", addr |-> NoAddress]} :
            m.server = s /\ Says([m EXCEPT !.type = a.type, !.addr = a.addr])
    BY <1>3 DEF ServerAnswers
  <2>1. PICK a \in {[type |-> "ACK", addr |-> m.addr], [type |-> "NAK", addr |-> NoAddress]} :
          m.server = s /\ Says([m EXCEPT !.type = a.type, !.addr = a.addr])
    BY <2>0
  <2>2. m \in Messages
    BY <1>0
  <2>3. a.type \in Answers /\ a.addr \in Addresses \cup {NoAddress}
    BY <2>2 DEF Answers, Messages
  <2> DEFINE o == [m EXCEPT !.type = a.type, !.addr = a.addr]
  <2>4. o \in Messages /\ o.server = s
    BY <2>1, <2>2, <2>3 DEF Messages
  <2> QED BY <2>1, <2>4
<1> QED BY <1>2, <1>3

-----------------------------------------------------------------------------
(* Retries.                                                                *)

\* Every DISCOVER of setup() uses up a retry and a transaction id.
LEMMA RetryKept ==
    ASSUME TypeOK, RetryInv, [Next]_vars
    PROVE  RetryInv'
<1> USE DhcpAssumption DEF RetryInv
<1>0. m_retry \in Nat /\ xid \in Nat
  BY DEF TypeOK, DhcpTypeOK
<1>1. CASE TcpStep
  BY <1>1, TcpFrame DEF dhcpVars
<1>2. CASE Setup
  BY <1>2, <1>0 DEF Setup
<1>3. CASE Resets
  BY <1>3 DEF Resets
<1>4. ASSUME DhcpSteps PROVE RetryInv'
  <2>1. CASE Discover
    BY <2>1, <1>0 DEF Discover
  <2>2. CASE Receive \/ ReceiveTooLong \/ ReceiveNoise \/ ReceiveNothing
    BY <2>2, <1>0 DEF Receive, ReceiveTooLong, ReceiveNoise, ReceiveNothing
  <2>3. CASE Check
    BY <2>3, <1>0 DEF Check, OutOfRetries
  <2>4. CASE Finish
    BY <2>4 DEF Finish
  <2> QED BY <1>4, <2>1, <2>2, <2>3, <2>4 DEF DhcpSteps
<1>5. CASE DhcpServers
  BY <1>5 DEF DhcpServers, ServerOffers, ServerAnswers, Says, Delivers, Arrives, dhcpVars
<1>6. CASE Tick \/ UNCHANGED vars
  BY <1>6 DEF Tick, vars, dhcpVars
<1> QED BY <1>1, <1>2, <1>3, <1>4, <1>5, <1>6, Steps

-----------------------------------------------------------------------------
(* Sockets.                                                                *)

\* With two sockets or more, and nobody but the TCP object using one, setup()
\* and connect() get a socket, and one that is closed.
LEMMA SocketFree ==
    ASSUME NEW f, \A s \in Sockets \ {f} : Sn_SR[s] = "CLOSED"
    PROVE  NewSocket \in Sockets /\ Sn_SR[NewSocket] = "CLOSED"
<1> DEFINE free == {s \in Sockets : Sn_SR[s] = "CLOSED"}
<1>1. 0 \in Sockets /\ 1 \in Sockets
  BY ChipAssumption, NetworkAssumption DEF Sockets
<1>2. \E s \in free : \A t \in free : s <= t
  <2>1. CASE 0 \in free
    BY <2>1, ChipAssumption DEF Sockets
  <2>2. CASE 0 \notin free
    <3>1. 1 \in free
      BY <1>1, <2>2
    <3> QED BY <2>2, <3>1, ChipAssumption DEF Sockets
  <2> QED BY <2>1, <2>2
<1>3. NewSocket = CHOOSE s \in free : \A t \in free : s <= t
  BY <1>2 DEF NewSocket
<1>4. NewSocket \in free
  BY <1>2, <1>3
<1> QED BY <1>4

\* A socket is opened only for its one user, and the DHCP client's is closed at
\* the end of setup().
LEMMA SocketsKept ==
    ASSUME TypeOK, SocketsInv, [Next]_vars
    PROVE  SocketsInv'
<1> USE DEF SocketsInv
<1>0. /\ Sn_SR \in [Sockets -> Status] /\ NoSocket \notin Sockets
      /\ fd \in Sockets \cup {NoSocket} /\ udp \in Sockets \cup {NoSocket}
  BY ChipAssumption DEF TypeOK, ChipTypeOK, TcpTypeOK, DhcpTypeOK, Sockets, NoSocket
<1>1. CASE TcpStep
  <2>1. call # "setup" /\ call' # "setup" /\ udp = NoSocket /\ udp' = udp
    BY <1>1, TcpFrame DEF dhcpVars
  <2>2. ASSUME NEW t, Connect(t) PROVE SocketsInv'
    <3>0. \A s \in Sockets \ {fd} : Sn_SR[s] = "CLOSED"
      BY <1>0, <2>1
    <3>1. NewSocket \in Sockets /\ Sn_SR[NewSocket] = "CLOSED"
      BY <3>0, SocketFree
    <3>2. fd' \in Sockets /\ Sn_SR' = [Sn_SR EXCEPT ![fd'] = "SYNSENT"]
      BY <1>0, <2>2, <3>1 DEF Connect, Sets
    <3>3. fd \in Sockets => fd' = fd
      BY <1>0, <2>2, <3>1 DEF Connect, NoSocket
    <3> QED BY <1>0, <2>1, <3>2, <3>3
  <2>3. CASE Reads \/ Writes \/ TcpSteps \/ ChipSends
    <3>1. /\ UNCHANGED <<fd, Sn_SR>>
          /\ call' = "none" \/ fd # NoSocket
      <4>1. CASE Reads \/ Writes
        BY <4>1 DEF Reads, Writes, Read, Write, Waits, Starts, Returns, IsConnected, chip
      <4>2. CASE TcpSteps \/ ChipSends
        BY <2>1, <4>2 DEF TcpSteps, ConnectSucceeds, ConnectTimesOut, ReadGets, ReadTimesOut,
             WriteReady, WriteTimesOut, Sent, SendBroken, Returns, ChipSends, SendCompletes,
             chip, socket
      <4> QED BY <2>3, <4>1, <4>2
    <3> QED BY <2>1, <3>1
  <2>4. CASE Peer
    <3>1. fd' = fd /\ call' = call
      BY <2>4 DEF Peer, Answered, Finished, Broken, Becomes, Arrives, tcpVars, socket
    <3>2. \/ Sn_SR' = Sn_SR
          \/ \E s \in Sockets, new \in Status \ {"UDP"} :
                Sn_SR[s] # "CLOSED" /\ Sn_SR' = [Sn_SR EXCEPT ![s] = new]
      BY <2>4 DEF Peer, Answered, Finished, Broken, Becomes, Arrives, Status
    <3> QED BY <1>0, <2>1, <3>1, <3>2
  <2> QED BY <1>1, <2>2, <2>3, <2>4 DEF TcpStep
<1>2. CASE Setup /\ rc' = 0 /\ UNCHANGED <<fd, blocking, timeout, len, sendOk>>
  <2>0. udp = NoSocket /\ \A s \in Sockets \ {fd} : Sn_SR[s] = "CLOSED"
    BY <1>0, <1>2 DEF Setup
  <2>1. NewSocket \in Sockets /\ Sn_SR[NewSocket] = "CLOSED"
    BY <2>0, SocketFree
  <2>2. udp' \in Sockets /\ udp' = NewSocket /\ Sn_SR' = [Sn_SR EXCEPT ![udp'] = "UDP"]
    BY <1>0, <1>2, <2>0, <2>1 DEF Setup, Sets
  <2> QED BY <1>0, <1>2, <2>0, <2>1, <2>2 DEF Setup
<1>3. CASE Resets /\ UNCHANGED tcpVars
  BY <1>3 DEF Resets, chip, tcpVars, socket
<1>4. CASE DhcpSteps /\ UNCHANGED tcpVars
  <2>1. fd' = fd
    BY <1>4 DEF tcpVars, socket
  <2>2. CASE Finish
    <3>1. udp \in Sockets
      BY <1>0, <2>2 DEF Finish
    <3>2. Sn_SR' = [Sn_SR EXCEPT ![udp] = "CLOSED"]
      BY <1>0, <2>2, <3>1 DEF Finish, Closing, Closes, Sets
    <3> QED BY <1>0, <2>1, <2>2, <3>1, <3>2 DEF Finish
  <2>3. CASE ~Finish
    <3>1. UNCHANGED <<Sn_SR, udp, call>>
      BY <1>4, <2>3 DEF DhcpSteps, Discover, Receive, ReceiveTooLong, ReceiveNoise,
           ReceiveNothing, Check, chip
    <3> QED BY <2>1, <3>1
  <2> QED BY <2>2, <2>3
<1>5. CASE DhcpServers /\ UNCHANGED tcpVars
  BY <1>5 DEF DhcpServers, ServerOffers, ServerAnswers, Says, Delivers, Arrives, chip,
       dhcpVars, tcpVars, socket
<1>6. CASE Tick \/ UNCHANGED vars
  BY <1>6 DEF Tick, vars, chip, tcpVars, socket, dhcpVars
<1> QED BY <1>1, <1>2, <1>3, <1>4, <1>5, <1>6, Steps

-----------------------------------------------------------------------------
(* The address.                                                            *)

\* A datagram that passes verify() was sent, in this exchange.
LEMMA Accepted ==
    ASSUME TypeOK, LeaseInv, call = "setup", buffer[udp] # <<>>,
           Head(buffer[udp]) # LongDatagram, Verify(Head(buffer[udp])),
           Head(buffer[udp]).type = "ACK"
    PROVE  Acked(Head(buffer[udp]).addr)
<1> DEFINE m == Head(buffer[udp])
<1>1. m \in wire
  BY DEF LeaseInv
<1>2. m \in Messages /\ m.server \in Servers /\ m.xid = xid
  BY <1>1 DEF LeaseInv, TypeOK, DhcpTypeOK, Verify
<1>3. m = [type |-> "ACK", xid |-> xid, addr |-> m.addr, server |-> m.server]
  BY <1>2 DEF Messages
<1> QED BY <1>1, <1>2, <1>3 DEF Acked

\* What an action of setup() or of the servers has to leave for the lease: the
\* loop's flags with the exchange they are about, and a queue of sent datagrams.
LEMMA LeaseStep ==
    ASSUME LeaseInv, call = "setup", call' = "setup", SIPR' = SIPR, seq' # "off",
           \A m \in wire' : m.type = "ACK" => m.server \in Servers,
           buffer'[udp'] \in Seq(wire' \cup {LongDatagram}),
           seq' \in {"discover", "receive"} => ~exit_flag',
           seq' = "done" => exit_flag',
           exit_flag' /\ err' = 0 => Acked(yiaddr)'
    PROVE  LeaseInv'
  BY DEF LeaseInv

\* setup() leaves its loop with the address of an ACK or with an error, and only
\* then has the chip an address.
LEMMA LeaseKept ==
    ASSUME TypeOK, SocketsInv, LeaseInv, [Next]_vars
    PROVE  LeaseInv'
<1> DEFINE Sane == \A m \in wire : m.type = "ACK" => m.server \in Servers
           Queue == buffer[udp] \in Seq(wire \cup {LongDatagram})
<1>0. /\ wire \subseteq Messages
      /\ buffer \in [Sockets -> Seq(Data)]
      /\ call = "setup" => udp \in Sockets
  BY DEF TypeOK, DhcpTypeOK, SocketsInv
<1>1. CASE TcpStep
  <2>1. /\ call # "setup" /\ call' # "setup"
        /\ UNCHANGED <<seq, xid, yiaddr, exit_flag, err, wire, SIPR>>
    BY <1>1, TcpFrame DEF dhcpVars, offered, outcome
  <2> QED BY <2>1 DEF LeaseInv, Acked
<1>2. CASE Setup
  <2>1. /\ call # "setup" /\ call' = "setup" /\ seq' = "discover" /\ SIPR' = NoAddress
        /\ UNCHANGED <<xid, yiaddr, exit_flag, err, wire>> /\ udp' = NewSocket
    BY <1>2 DEF Setup, offered, outcome
  <2>2. udp' \in Sockets
    <3>1. \A s \in Sockets \ {fd} : Sn_SR[s] = "CLOSED"
      BY <2>1, ChipAssumption DEF SocketsInv, Sockets, NoSocket
    <3> QED BY <2>1, <3>1, SocketFree
  <2>3. buffer'[udp'] = <<>>
    BY <1>0, <1>2, <2>2, ChipAssumption DEF Setup, Sets, Sockets, NoSocket
  <2> QED BY <2>1, <2>3 DEF LeaseInv, Acked
<1>3. CASE Resets
  <2>1. call # "setup" /\ UNCHANGED <<call, seq, xid, yiaddr, exit_flag, err, wire, SIPR>>
    BY <1>3 DEF Resets, offered, chip
  <2> QED BY <2>1 DEF LeaseInv, Acked
<1>4. ASSUME DhcpSteps PROVE LeaseInv'
  <2>0. call = "setup" /\ udp \in Sockets /\ Queue /\ Sane
    BY <1>0, <1>4 DEF DhcpSteps, Discover, Receive, ReceiveTooLong, ReceiveNoise,
         ReceiveNothing, Check, Finish, LeaseInv
  <2>1. CASE Discover
    <3>1. /\ call' = "setup" /\ SIPR' = SIPR /\ seq' = "receive" /\ udp' = udp /\ buffer' = buffer
          /\ ~exit_flag'
      BY <2>1 DEF Discover, chip, outcome, LeaseInv
    <3>2. wire \subseteq wire' /\ \A m \in wire' : m.type = "ACK" => m \in wire
      BY <2>1 DEF Discover
    <3>3. Queue'
      BY <2>0, <3>1, <3>2, SeqMonotonic
    <3> QED BY <2>0, <3>1, <3>2, <3>3, LeaseStep
  <2>2. CASE Receive
    <3> DEFINE m == Head(buffer[udp])
    <3>1. /\ call' = "setup" /\ SIPR' = SIPR /\ seq = "receive" /\ seq' = "check" /\ udp' = udp
          /\ buffer[udp] # <<>> /\ m # LongDatagram /\ xid' = xid
      BY <2>2 DEF Receive
    <3>2. buffer'[udp] = Tail(buffer[udp])
      BY <1>0, <2>0, <2>2 DEF Receive
    <3>3. wire \subseteq wire' /\ \A o \in wire' : o.type = "ACK" => o \in wire
      BY <2>2 DEF Receive, Takes, Message
    <3>4. Queue'
      <4>1. Tail(buffer[udp]) \in Seq(wire \cup {LongDatagram})
        BY <2>0, <3>1, HeadTailProperties
      <4> QED BY <3>1, <3>2, <3>3, <4>1, SeqMonotonic
    <3>5. exit_flag' => Acked(yiaddr)'
      <4>1. CASE ~Verify(m)
        <5>1. exit_flag' = exit_flag
          BY <2>2, <4>1 DEF Receive
        <5>2. ~exit_flag
          BY <3>1 DEF LeaseInv
        <5> QED BY <5>1, <5>2
      <4>2. CASE Verify(m)
        <5>1. yiaddr' = m.addr /\ exit_flag' = (m.type = "ACK")
          BY <2>2, <4>2 DEF Receive, Takes
        <5>2. m.type = "ACK" => Acked(m.addr)
          BY <2>0, <3>1, <4>2, Accepted
        <5> QED BY <3>1, <3>3, <5>1, <5>2 DEF Acked
      <4> QED BY <4>1, <4>2
    <3> QED BY <2>0, <3>1, <3>3, <3>4, <3>5, LeaseStep
  <2>3. CASE ReceiveTooLong \/ ReceiveNothing
    <3>1. /\ call' = "setup" /\ SIPR' = SIPR /\ seq' = "check"
          /\ UNCHANGED <<udp, buffer, wire, exit_flag, err, xid, yiaddr>>
      BY <2>3 DEF ReceiveTooLong, ReceiveNothing, chip, outcome, offered
    <3>2. exit_flag' /\ err' = 0 => Acked(yiaddr)'
      BY <3>1 DEF LeaseInv, Acked
    <3> QED BY <2>0, <3>1, <3>2, LeaseStep
  <2>4. CASE ReceiveNoise
    <3>1. /\ call' = "setup" /\ SIPR' = SIPR /\ seq' = "check"
          /\ UNCHANGED <<udp, wire, exit_flag, err, xid, yiaddr>>
      BY <2>4 DEF ReceiveNoise, outcome, offered
    <3>2. PICK n \in 0..Len(buffer[udp]) :
            buffer'[udp] = SubSeq(buffer[udp], n + 1, Len(buffer[udp]))
      BY <1>0, <2>0, <2>4 DEF ReceiveNoise
    <3>3. Queue'
      <4>1. Len(buffer[udp]) \in Nat
        BY <2>0, LenProperties
      <4> QED BY <2>0, <3>1, <3>2, <4>1, SubSeqProperties
    <3>4. exit_flag' /\ err' = 0 => Acked(yiaddr)'
      BY <3>1 DEF LeaseInv, Acked
    <3> QED BY <2>0, <3>1, <3>3, <3>4, LeaseStep
  <2>5. CASE Check
    <3>1. /\ call' = "setup" /\ SIPR' = SIPR /\ UNCHANGED <<udp, buffer, wire, xid, yiaddr>>
      BY <2>5 DEF Check, chip, offered
    <3> DEFINE last == interval > Interval /\ OutOfRetries
    <3>2. CASE last
      <4>1. seq' = "done" /\ err' = -1 /\ exit_flag'
        BY <2>5, <3>2 DEF Check
      <4> QED BY <2>0, <3>1, <4>1, LeaseStep
    <3>3. CASE ~last /\ exit_flag
      <4>1. seq' = "done" /\ err' = err /\ exit_flag'
        BY <2>5, <3>3 DEF Check
      <4>2. err = 0 => Acked(yiaddr)'
        BY <3>1, <3>3 DEF LeaseInv, Acked
      <4> QED BY <2>0, <3>1, <4>1, <4>2, LeaseStep
    <3>4. CASE ~last /\ ~exit_flag
      <4>1. seq' \in {"discover", "receive"} /\ ~exit_flag'
        BY <2>5, <3>4 DEF Check
      <4> QED BY <2>0, <3>1, <4>1, LeaseStep
    <3> QED BY <3>2, <3>3, <3>4
  <2>6. CASE Finish
    <3>1. /\ call' # "setup" /\ ~exit_flag' /\ err' = 0 /\ seq' = "off"
          /\ SIPR' = (IF err = 0 THEN yiaddr ELSE SIPR) /\ seq = "done"
          /\ UNCHANGED <<xid, wire>>
      BY <2>6 DEF Finish
    <3>2. SIPR' # NoAddress => Acked(SIPR')
      BY <2>0, <3>1 DEF LeaseInv
    <3> QED BY <2>0, <3>1, <3>2 DEF LeaseInv, Acked
  <2> QED BY <1>4, <2>1, <2>2, <2>3, <2>4, <2>5, <2>6 DEF DhcpSteps
<1>5. CASE DhcpServers
  <2>1. /\ call = "setup" /\ call' = "setup" /\ seq = "receive" /\ udp \in Sockets
        /\ UNCHANGED <<SIPR, seq, udp, xid, exit_flag, err, yiaddr>>
    BY <1>0, <1>5 DEF DhcpServers, ServerOffers, ServerAnswers, Says, Delivers, Arrives,
         Waiting, chip, dhcpVars, offered, outcome
  <2>2. Queue /\ Sane /\ ~exit_flag
    BY <2>1 DEF LeaseInv
  <2>3. ASSUME NEW s \in Servers, ServerOffers(s) \/ ServerAnswers(s)
        PROVE  LeaseInv'
    <3>1. PICK m \in Messages : m.server = s /\ Says(m)
      BY <2>3, Said
    <3>2. wire' = wire \cup {m} /\ buffer' = buffer
      BY <3>1 DEF Says, chip
    <3>3. Queue'
      BY <2>1, <2>2, <3>2, SeqMonotonic
    <3> QED BY <2>1, <2>2, <3>1, <3>2, <3>3, LeaseStep
  <2>4. CASE Delivers
    <3>1. PICK d \in wire \cup {LongDatagram} : Arrives(udp, d)
      BY <2>4 DEF Delivers
    <3>2. buffer'[udp] = Append(buffer[udp], d) /\ wire' = wire
      BY <1>0, <2>1, <2>4, <3>1 DEF Delivers, Arrives, dhcpVars
    <3>3. Queue'
      BY <2>1, <2>2, <3>1, <3>2, AppendProperties
    <3> QED BY <2>1, <2>2, <3>2, <3>3, LeaseStep
  <2> QED BY <1>5, <2>3, <2>4 DEF DhcpServers
<1>6. CASE Tick \/ UNCHANGED vars
  <2>1. UNCHANGED <<seq, xid, yiaddr, exit_flag, err, wire, SIPR, call, udp, buffer>>
    BY <1>6 DEF Tick, vars, chip, dhcpVars, offered, outcome
  <2> QED BY <2>1 DEF LeaseInv, Acked
<1> QED BY <1>1, <1>2, <1>3, <1>4, <1>5, <1>6, Steps
-----------------------------------------------------------------------------
(* Types.                                                                  *)

BufferOK == buffer \in [Sockets -> Seq(Data)] /\ \A s \in Sockets : Len(buffer[s]) <= RxLimit

\* A buffer may lose its front or everything, and gain one datagram if it has room.
LEMMA BufferKept ==
    ASSUME BufferOK,
           \/ buffer' = buffer
           \/ \E s : buffer' = [buffer EXCEPT ![s] = <<>>]
           \/ \E s : buffer[s] # <<>> /\ buffer' = [buffer EXCEPT ![s] = Tail(@)]
           \/ \E s : \E n \in Nat : buffer' = [buffer EXCEPT ![s] = SubSeq(@, n + 1, Len(@))]
           \/ \E s : \E d \in Data : Len(buffer[s]) < RxLimit /\ buffer' = [buffer EXCEPT ![s] = Append(@, d)]
    PROVE  BufferOK'
<1> SUFFICES ASSUME NEW s, NEW q, s \in Sockets => q \in Seq(Data) /\ Len(q) <= RxLimit,
                    buffer' = [buffer EXCEPT ![s] = q]
             PROVE  BufferOK'
  <2>1. ASSUME NEW s \in Sockets, NEW n \in Nat
        PROVE  LET q == SubSeq(buffer[s], n + 1, Len(buffer[s]))
               IN  q \in Seq(Data) /\ Len(q) <= RxLimit
    <3>1. buffer[s] \in Seq(Data) /\ Len(buffer[s]) \in Nat /\ Len(buffer[s]) <= RxLimit
      BY DEF BufferOK
    <3>2. \A i \in (n + 1)..Len(buffer[s]) : buffer[s][i] \in Data
      BY <3>1
    <3>3. /\ SubSeq(buffer[s], n + 1, Len(buffer[s])) \in Seq(Data)
          /\ Len(SubSeq(buffer[s], n + 1, Len(buffer[s]))) =
               IF n + 1 <= Len(buffer[s]) THEN Len(buffer[s]) - (n + 1) + 1 ELSE 0
      BY <3>1, <3>2, SubSeqProperties
    <3> QED BY <3>1, <3>3, ChipAssumption
  <2>2. ASSUME NEW s \in Sockets, buffer[s] # <<>>
        PROVE  Tail(buffer[s]) \in Seq(Data) /\ Len(Tail(buffer[s])) <= RxLimit
    BY <2>2, HeadTailProperties, ChipAssumption DEF BufferOK
  <2>3. ASSUME NEW s \in Sockets, NEW d \in Data, Len(buffer[s]) < RxLimit
        PROVE  Append(buffer[s], d) \in Seq(Data) /\ Len(Append(buffer[s], d)) <= RxLimit
    BY <2>3, AppendProperties, ChipAssumption DEF BufferOK
  <2>4. <<>> \in Seq(Data) /\ Len(<<>>) <= RxLimit
    BY ChipAssumption
  <2>5. CASE buffer' = buffer
    BY <2>5 DEF BufferOK
  <2>6. CASE \E s : buffer' = [buffer EXCEPT ![s] = <<>>]
    BY <2>6, <2>4
  <2>7. CASE \E s : buffer[s] # <<>> /\ buffer' = [buffer EXCEPT ![s] = Tail(@)]
    BY <2>7, <2>2
  <2>8. CASE \E s : \E n \in Nat : buffer' = [buffer EXCEPT ![s] = SubSeq(@, n + 1, Len(@))]
    BY <2>8, <2>1
  <2>9. CASE \E s : \E d \in Data : Len(buffer[s]) < RxLimit /\ buffer' = [buffer EXCEPT ![s] = Append(@, d)]
    BY <2>9, <2>3
  <2> QED BY <2>5, <2>6, <2>7, <2>8, <2>9
<1> QED BY DEF BufferOK

LEMMA TcpTypesKept ==
    ASSUME TypeOK, SocketsInv, TcpStep
    PROVE  TypeOK'
<1>0. ChipTypeOK /\ TcpTypeOK /\ DhcpTypeOK /\ BufferOK
  BY DEF TypeOK, BufferOK
<1>1. DhcpTypeOK'
  BY <1>0, TcpFrame DEF DhcpTypeOK, dhcpVars, offered, outcome
<1>2. ASSUME NEW t \in ConnectTimeouts, Connect(t) PROVE TypeOK'
  <2>0. call # "setup" /\ udp = NoSocket
    BY <1>2 DEF Connect, SocketsInv
  <2>1. NewSocket \in Sockets
    <3>1. \A s \in Sockets \ {fd} : Sn_SR[s] = "CLOSED"
      BY <2>0, ChipAssumption DEF SocketsInv, Sockets, NoSocket
    <3> QED BY <3>1, SocketFree
  <2>2. /\ fd' \in Sockets /\ Sets(fd', "SYNSENT") /\ SIPR' = SIPR
        /\ call' = "connect" /\ timeout' = t /\ elapsed' = 0 /\ rc' = 0
        /\ UNCHANGED <<blocking, len, sendOk>>
    BY <1>0, <1>2, <2>1, ChipAssumption DEF Connect, TcpTypeOK, Sockets, NoSocket
  <2>3. ChipTypeOK'
    BY <1>0, <2>2, ChipAssumption DEF ChipTypeOK, Sets, Status, Calls
  <2>4. TcpTypeOK'
    BY <1>0, <2>2, NetworkAssumption, ChipAssumption DEF TcpTypeOK
  <2>5. BufferOK'
    BY <1>0, <2>2, BufferKept DEF Sets
  <2> QED BY <1>1, <2>3, <2>4, <2>5 DEF TypeOK, BufferOK
<1>3. CASE (Reads \/ Writes) /\ UNCHANGED dhcpVars
  <2>1. PICK n \in Nat, t \in -1..MaxWait, c \in {"read", "write"} : Waits(c, n, t) /\ UNCHANGED sendOk
    BY <1>3, NetworkAssumption, SocketAssumption, ChipAssumption DEF Reads, Writes, Read, Write
  <2>2. ChipTypeOK' /\ BufferOK'
    BY <1>0, <2>1, ChipAssumption DEF Waits, Starts, Returns, chip, ChipTypeOK, BufferOK, Calls
  <2>3. TcpTypeOK'
    BY <1>0, <2>1, ChipAssumption DEF Waits, Starts, Returns, TcpTypeOK
  <2> QED BY <1>1, <2>2, <2>3 DEF TypeOK, BufferOK
<1>4. CASE TcpSteps
  <2>0. fd \in Sockets \cup {NoSocket} /\ buffer \in [Sockets -> Seq(Data)] /\ len \in Nat
    BY <1>0 DEF TcpTypeOK, BufferOK
  <2>1. CASE ReadGets
    <3>0. PICK n : /\ n = IF Len(buffer[fd]) > len THEN len ELSE Len(buffer[fd])
                   /\ buffer' = [buffer EXCEPT ![fd] = SubSeq(@, n + 1, Len(@))]
                   /\ Returns(n) /\ UNCHANGED <<fd, blocking, Sn_SR, SIPR, sendOk>>
      BY <2>1 DEF ReadGets
    <3>1. fd \in Sockets
      BY <2>0, <2>1 DEF ReadGets, SocketsInv
    <3>2. n \in Nat
      <4>1. Len(buffer[fd]) \in Nat
        BY <2>0, <3>1, LenProperties
      <4> QED BY <2>0, <3>0, <4>1
    <3>3. BufferOK'
      <4>1. \E s : \E k \in Nat : buffer' = [buffer EXCEPT ![s] = SubSeq(@, k + 1, Len(@))]
        BY <3>0, <3>2
      <4> QED BY <1>0, <4>1, BufferKept
    <3>4. ChipTypeOK' /\ TcpTypeOK'
      BY <1>0, <3>0, <3>2, ChipAssumption DEF Returns, ChipTypeOK, TcpTypeOK, Calls
    <3> QED BY <1>1, <3>3, <3>4 DEF TypeOK, BufferOK
  <2>2. CASE WriteReady
    BY <1>0, <1>1, <2>2, ChipAssumption
       DEF WriteReady, chip, ChipTypeOK, TcpTypeOK, BufferOK, TypeOK, Calls
  <2>3. CASE ConnectSucceeds \/ ConnectTimesOut \/ ReadTimesOut \/ WriteTimesOut \/ Sent \/ SendBroken
    <3>1. PICK r \in Nat \cup {-1} : Returns(r)
      BY <2>0, <2>3 DEF ConnectSucceeds, ConnectTimesOut, ReadTimesOut, WriteTimesOut, Sent, SendBroken
    <3>2. UNCHANGED <<Sn_SR, buffer, SIPR, fd>> /\ blocking' \in BOOLEAN /\ sendOk' \in BOOLEAN
      BY <1>0, <2>3 DEF ConnectSucceeds, ConnectTimesOut, ReadTimesOut, WriteTimesOut, Sent,
           SendBroken, chip, TcpTypeOK
    <3>3. ChipTypeOK' /\ BufferOK'
      BY <1>0, <3>1, <3>2, ChipAssumption DEF Returns, ChipTypeOK, BufferOK, Calls
    <3>4. TcpTypeOK'
      BY <1>0, <3>1, <3>2, ChipAssumption DEF Returns, TcpTypeOK
    <3> QED BY <1>1, <3>3, <3>4 DEF TypeOK, BufferOK
  <2> QED BY <1>4, <2>1, <2>2, <2>3 DEF TcpSteps
<1>5. CASE Peer
  <2>1. UNCHANGED <<SIPR, call, elapsed, tcpVars>>
    BY <1>5 DEF Peer, Answered, Finished, Broken, Becomes, Arrives
  <2>2. Sn_SR' \in [Sockets -> Status]
    <3>1. \/ Sn_SR' = Sn_SR
          \/ \E s \in Sockets, new \in Status : Sn_SR' = [Sn_SR EXCEPT ![s] = new]
      BY <1>5 DEF Peer, Answered, Finished, Broken, Becomes, Arrives, Status
    <3> QED BY <1>0, <3>1 DEF ChipTypeOK
  <2>3. BufferOK'
    <3>1. \/ buffer' = buffer
          \/ Len(buffer[fd]) < RxLimit /\ buffer' = [buffer EXCEPT ![fd] = Append(@, Byte)]
      BY <1>5 DEF Peer, Answered, Finished, Broken, Becomes, Arrives
    <3>2. Byte \in Data
      BY DEF Data
    <3>3. CASE buffer' = buffer
      BY <1>0, <3>3, BufferKept
    <3>4. CASE Len(buffer[fd]) < RxLimit /\ buffer' = [buffer EXCEPT ![fd] = Append(@, Byte)]
      <4>1. \E s : \E d \in Data : Len(buffer[s]) < RxLimit /\ buffer' = [buffer EXCEPT ![s] = Append(@, d)]
        BY <3>2, <3>4
      <4> QED BY <1>0, <4>1, BufferKept
    <3> QED BY <3>1, <3>3, <3>4
  <2>4. ChipTypeOK' /\ TcpTypeOK'
    BY <1>0, <2>1, <2>2 DEF ChipTypeOK, TcpTypeOK, tcpVars, socket
  <2> QED BY <1>1, <2>3, <2>4 DEF TypeOK, BufferOK
<1>6. CASE ChipSends
  BY <1>0, <1>1, <1>6 DEF ChipSends, SendCompletes, chip, socket, ChipTypeOK, TcpTypeOK, BufferOK, TypeOK
<1> QED BY <1>2, <1>3, <1>4, <1>5, <1>6 DEF TcpStep

LEMMA SetupTypesKept ==
    ASSUME IInv, DhcpSteps, UNCHANGED tcpVars
    PROVE  TypeOK'
<1>0. ChipTypeOK /\ TcpTypeOK /\ DhcpTypeOK /\ BufferOK /\ m_retry \in Nat /\ xid \in Nat
  BY DEF IInv, TypeOK, BufferOK, DhcpTypeOK
<1>1. TcpTypeOK'
  BY <1>0 DEF TcpTypeOK, tcpVars, socket
<1>2. CASE Discover
  <2>1. ChipTypeOK' /\ BufferOK'
    BY <1>0, <1>2, ChipAssumption DEF Discover, chip, ChipTypeOK, BufferOK
  <2>2. xid' = xid + 1 /\ xid' \in 1..MaxXid
    BY <1>0, <1>2, DhcpAssumption DEF Discover, IInv, NetInv, RetryInv
  <2>3. wire' \subseteq Messages
    BY <1>0, <1>2, <2>2 DEF Discover, DhcpTypeOK, Messages, Requests
  <2>4. DhcpTypeOK'
    BY <1>0, <1>2, <2>2, <2>3, DhcpAssumption DEF Discover, DhcpTypeOK, offered, outcome
  <2> QED BY <1>1, <2>1, <2>4 DEF TypeOK, BufferOK
<1>3. CASE Receive
  <2> DEFINE m == Head(buffer[udp])
  <2>1. BufferOK'
    <3>1. \E s : buffer[s] # <<>> /\ buffer' = [buffer EXCEPT ![s] = Tail(@)]
      BY <1>3 DEF Receive
    <3> QED BY <1>0, <3>1, BufferKept
  <2>2. ChipTypeOK'
    BY <1>0, <1>3 DEF Receive, ChipTypeOK
  <2>3. ASSUME Verify(m)
        PROVE  /\ yiaddr' \in Addresses \cup {NoAddress} /\ siaddr' \in Servers \cup {NoServer}
               /\ exit_flag' \in BOOLEAN /\ wire' \subseteq Messages
    <3>1. m \in Messages
      <4>1. buffer[udp] \in Seq(wire \cup {LongDatagram}) /\ buffer[udp] # <<>> /\ m # LongDatagram
        BY <1>3 DEF Receive, IInv, NetInv, LeaseInv
      <4>2. m \in wire
        BY <4>1, HeadTailProperties
      <4> QED BY <1>0, <4>2 DEF DhcpTypeOK
    <3>2. xid \in 1..MaxXid
      BY <2>3, <3>1 DEF Verify, Messages
    <3>3. /\ yiaddr' = m.addr /\ siaddr' = m.server /\ exit_flag' = (m.type = "ACK")
          /\ wire' = IF m.type = "OFFER" THEN wire \cup {Message("REQUEST", m.addr, m.server)} ELSE wire
      BY <1>3, <2>3 DEF Receive, Takes
    <3>4. m.addr \in Addresses \cup {NoAddress} /\ m.server \in Servers \cup {NoServer}
      BY <3>1 DEF Messages
    <3>5. Message("REQUEST", m.addr, m.server) \in Messages
      BY <3>2, <3>4 DEF Message, Messages, Requests
    <3> QED BY <1>0, <3>3, <3>4, <3>5 DEF DhcpTypeOK
  <2>4. DhcpTypeOK'
    BY <1>0, <1>3, <2>3 DEF Receive, DhcpTypeOK, offered
  <2> QED BY <1>1, <2>1, <2>2, <2>4 DEF TypeOK, BufferOK
<1>4. CASE ReceiveTooLong \/ ReceiveNothing
  BY <1>0, <1>1, <1>4 DEF ReceiveTooLong, ReceiveNothing, chip, offered, outcome, ChipTypeOK,
       DhcpTypeOK, BufferOK, TypeOK
<1>5. CASE ReceiveNoise
  <2>1. udp \in Sockets /\ Len(buffer[udp]) \in Nat
    BY <1>0, <1>5, LenProperties DEF ReceiveNoise, DhcpTypeOK, BufferOK
  <2>2. BufferOK'
    <3>0. PICK n \in 0..Len(buffer[udp]) : buffer' = [buffer EXCEPT ![udp] = SubSeq(@, n + 1, Len(@))]
      BY <1>5 DEF ReceiveNoise
    <3>1. \E s : \E k \in Nat : buffer' = [buffer EXCEPT ![s] = SubSeq(@, k + 1, Len(@))]
      <4>1. n \in Nat
        BY <2>1
      <4> QED BY <3>0, <4>1
    <3> QED BY <1>0, <3>1, BufferKept
  <2>3. noise' \in BOOLEAN
    BY <1>5 DEF ReceiveNoise
  <2> QED BY <1>0, <1>1, <1>5, <2>2, <2>3
      DEF ReceiveNoise, offered, outcome, ChipTypeOK, DhcpTypeOK, TypeOK, BufferOK
<1>6. CASE Check
  <2>1. ChipTypeOK' /\ BufferOK'
    BY <1>0, <1>6, ChipAssumption DEF Check, chip, ChipTypeOK, BufferOK
  <2>2. m_retry' \in 0..MaxRetries
    BY <1>0, <1>6, DhcpAssumption DEF Check, IInv, NetInv, RetryInv
  <2>3. /\ exit_flag' \in BOOLEAN /\ err' \in {0, -1}
        /\ seq' \in {"off", "discover", "receive", "check", "done"}
    BY <1>0, <1>6 DEF Check, DhcpTypeOK
  <2> QED BY <1>0, <1>1, <1>6, <2>1, <2>2, <2>3 DEF Check, offered, DhcpTypeOK, TypeOK, BufferOK
<1>7. CASE Finish
  <2>1. BufferOK' /\ Sn_SR' \in [Sockets -> Status]
    <3>1. \/ UNCHANGED <<Sn_SR, buffer>>
          \/ Sn_SR' = [Sn_SR EXCEPT ![udp] = "CLOSED"] /\ buffer' = [buffer EXCEPT ![udp] = <<>>]
      BY <1>7 DEF Finish, Closing, Closes, Sets
    <3>2. buffer' = buffer \/ \E s : buffer' = [buffer EXCEPT ![s] = <<>>]
      BY <3>1
    <3>3. BufferOK'
      BY <1>0, <3>2, BufferKept
    <3> QED BY <1>0, <3>1, <3>3 DEF ChipTypeOK, Status
  <2>2. ChipTypeOK'
    BY <1>0, <1>7, <2>1, ChipAssumption DEF Finish, ChipTypeOK, DhcpTypeOK, Calls
  <2>3. DhcpTypeOK'
    <3>1. connected_net' \in BOOLEAN
      BY <1>7 DEF Finish
    <3>2. /\ exit_flag' = FALSE /\ noise' = FALSE /\ err' = 0 /\ seq' = "off"
          /\ udp' = NoSocket /\ yiaddr' = NoAddress /\ siaddr' = NoServer
          /\ m_retry' = 0 /\ interval' = 0 /\ UNCHANGED <<xid, wire>>
      BY <1>7 DEF Finish
    <3>3. 0 \in 0..MaxRetries /\ 0 \in 0..(Interval + 1)
      BY DhcpAssumption
    <3>4. exit_flag' \in BOOLEAN /\ noise' \in BOOLEAN
      BY <3>2
    <3> QED BY <1>0, <3>1, <3>2, <3>3, <3>4 DEF DhcpTypeOK
  <2> QED BY <1>1, <2>1, <2>2, <2>3 DEF TypeOK, BufferOK
<1> QED BY <1>2, <1>3, <1>4, <1>5, <1>6, <1>7 DEF DhcpSteps

LEMMA TypesKept ==
    ASSUME IInv, [Next]_vars
    PROVE  TypeOK'
<1>0. ChipTypeOK /\ TcpTypeOK /\ DhcpTypeOK /\ BufferOK
  BY DEF IInv, TypeOK, BufferOK
<1>1. CASE TcpStep
  BY <1>1, TcpTypesKept DEF IInv, NetInv
<1>2. CASE Setup /\ rc' = 0 /\ UNCHANGED <<fd, blocking, timeout, len, sendOk>>
  <2>1. NewSocket \in Sockets
    <3>1. \A s \in Sockets \ {fd} : Sn_SR[s] = "CLOSED"
      BY <1>2, ChipAssumption DEF Setup, IInv, NetInv, SocketsInv, Sockets, NoSocket
    <3> QED BY <3>1, SocketFree
  <2>2. udp' = NewSocket /\ Sn_SR' = [Sn_SR EXCEPT ![NewSocket] = "UDP"]
        /\ buffer' = [buffer EXCEPT ![NewSocket] = <<>>]
    BY <1>2, <2>1, ChipAssumption DEF Setup, Sets, Sockets, NoSocket
  <2>3. BufferOK'
    <3>1. \E s : buffer' = [buffer EXCEPT ![s] = <<>>]
      BY <2>2
    <3> QED BY <1>0, <3>1, BufferKept
  <2>4. ChipTypeOK'
    BY <1>0, <1>2, <2>2 DEF Setup, ChipTypeOK, Status, Calls
  <2>5. TcpTypeOK'
    BY <1>0, <1>2 DEF TcpTypeOK
  <2>6. DhcpTypeOK'
    BY <1>0, <1>2, <2>1, <2>2 DEF Setup, DhcpTypeOK, offered, outcome
  <2> QED BY <2>3, <2>4, <2>5, <2>6 DEF TypeOK, BufferOK
<1>3. CASE Resets /\ UNCHANGED tcpVars
  <2>1. ChipTypeOK' /\ BufferOK'
    BY <1>0, <1>3 DEF Resets, chip, ChipTypeOK, BufferOK
  <2>2. TcpTypeOK'
    BY <1>0, <1>3 DEF TcpTypeOK, tcpVars, socket
  <2>3. DhcpTypeOK'
    BY <1>0, <1>3 DEF Resets, offered, DhcpTypeOK
  <2> QED BY <2>1, <2>2, <2>3 DEF TypeOK, BufferOK
<1>4. CASE DhcpSteps /\ UNCHANGED tcpVars
  BY <1>4, SetupTypesKept
<1>5. CASE DhcpServers /\ UNCHANGED tcpVars
  <2>1. TcpTypeOK'
    BY <1>0, <1>5 DEF TcpTypeOK, tcpVars, socket
  <2>2. ASSUME NEW s \in Servers, ServerOffers(s) \/ ServerAnswers(s)
        PROVE  TypeOK'
    <3>1. PICK m \in Messages : m.server = s /\ Says(m)
      BY <2>2, Said DEF IInv
    <3> QED BY <1>0, <2>1, <3>1
        DEF Says, chip, offered, outcome, ChipTypeOK, DhcpTypeOK, BufferOK, TypeOK
  <2>3. CASE Delivers
    <3>1. PICK d \in {m \in wire : m.type \in Answers} \cup {LongDatagram} : Arrives(udp, d)
      BY <2>3 DEF Delivers
    <3>2. d \in Data
      BY <1>0, <3>1 DEF Data, DhcpTypeOK
    <3>3. \E s : \E e \in Data : Len(buffer[s]) < RxLimit /\ buffer' = [buffer EXCEPT ![s] = Append(@, e)]
      BY <3>1, <3>2 DEF Arrives
    <3>4. BufferOK'
      BY <1>0, <3>3, BufferKept
    <3>5. ChipTypeOK' /\ DhcpTypeOK'
      BY <1>0, <2>3, <3>1 DEF Delivers, Arrives, ChipTypeOK, DhcpTypeOK, dhcpVars, offered, outcome
    <3> QED BY <2>1, <3>4, <3>5 DEF TypeOK, BufferOK
  <2> QED BY <1>5, <2>2, <2>3 DEF DhcpServers
<1>6. CASE Tick
  <2>1. elapsed' \in 0..(MaxWait + 1)
    BY <1>0, <1>6, ChipAssumption DEF Tick, Elapses, ChipTypeOK
  <2>2. interval' \in 0..(Interval + 1)
    BY <1>0, <1>6, DhcpAssumption DEF Tick, IntervalElapses, DhcpTypeOK
  <2> QED BY <1>0, <1>6, <2>1, <2>2 DEF Tick, chip, offered, outcome, tcpVars, socket,
           ChipTypeOK, TcpTypeOK, DhcpTypeOK, BufferOK, TypeOK
<1>7. CASE UNCHANGED vars
  BY <1>0, <1>7 DEF vars, chip, offered, outcome, tcpVars, dhcpVars, socket,
       ChipTypeOK, TcpTypeOK, DhcpTypeOK, BufferOK, TypeOK
<1> QED BY <1>1, <1>2, <1>3, <1>4, <1>5, <1>6, <1>7, Steps

-----------------------------------------------------------------------------
(* The theorems.                                                           *)

LEMMA Initially ==
    ASSUME Init
    PROVE  IInv
<1>1. TypeOK
  <2>1. \A s \in Sockets : <<>> \in Seq(Data) /\ Len(<<>>) <= RxLimit
    BY ChipAssumption
  <2>2. BufferOK
    BY <2>1 DEF Init, ChipInit, BufferOK
  <2>3. ChipTypeOK
    BY ChipAssumption DEF Init, ChipInit, ChipTypeOK, Status, Calls
  <2>4. TcpTypeOK
    <3>1. 0 \in -1..MaxWait /\ 0 \in Nat
      BY ChipAssumption
    <3>2. blocking \in BOOLEAN /\ sendOk \in BOOLEAN
      BY DEF Init, TcpInit
    <3> QED BY <3>1, <3>2 DEF Init, TcpInit, TcpTypeOK
  <2>5. DhcpTypeOK
    <3>1. 0 \in 0..MaxXid /\ 0 \in 0..MaxRetries /\ 0 \in 0..(Interval + 1)
      BY DhcpAssumption
    <3>2. connected_net \in BOOLEAN /\ exit_flag \in BOOLEAN /\ noise \in BOOLEAN
      BY DEF Init, DhcpInit
    <3> QED BY <3>1, <3>2 DEF Init, DhcpInit, DhcpTypeOK
  <2> QED BY <2>2, <2>3, <2>4, <2>5 DEF TypeOK, BufferOK
<1>2. NetInv
  BY DEF Init, ChipInit, TcpInit, DhcpInit, NetInv, RetryInv, SocketsInv, LeaseInv
<1> QED BY <1>1, <1>2 DEF IInv

\* The inductive invariant of the chip's two users: retries against transaction
\* ids, who has which socket open, and which exchange the lease comes from.
THEOREM NetworkInvariant == Spec => [](TypeOK /\ NetInv)
<1>1. IInv /\ [Next]_vars => IInv'
  BY TypesKept, RetryKept, SocketsKept, LeaseKept DEF IInv, NetInv
<1>2. Spec => []IInv
  BY <1>1, Initially, PTL DEF Spec
<1> QED BY <1>2, PTL DEF IInv

\* Every state of sockets and DHCP exchange is well typed; in particular a
\* setup() never makes more exchanges than its timeout allows.
THEOREM NetworkTypes == Spec => []TypeOK
  BY NetworkInvariant, PTL

\* new_socket() never hands a number that one user has open to the other.
THEOREM SocketsAreOwned == Spec => []SocketsOwned
<1>1. TypeOK /\ NetInv => SocketsOwned
  BY ChipAssumption DEF TypeOK, TcpTypeOK, NetInv, SocketsInv, SocketsOwned, Sockets, NoSocket
<1> QED BY <1>1, NetworkInvariant, PTL

\* The chip's address was acknowledged in the last exchange, for any servers and
\* whatever becomes of the datagrams.
THEOREM AddressIsAcked == Spec => []AddressAcked
<1>1. TypeOK /\ NetInv => AddressAcked
  BY DEF NetInv, LeaseInv, AddressAcked
<1> QED BY <1>1, NetworkInvariant, PTL

====
