----------------------------- MODULE MQTTClient -----------------------------
(***************************************************************************)
(* The blocking, single-threaded MQTT client of MQTT/MQTTClient.h, built   *)
(* with QoS 1 and without QoS 2, together with its environment: the TCP    *)
(* connection, a broker that follows MQTT 3.1.1, and the passing of time.  *)
(*                                                                         *)
(* One public call runs at a time (`call').  A call sends its packet and   *)
(* then repeats cycle() until the answer it waits for arrives, its timer   *)
(* expires or a cycle fails.  One pass through that loop is three phases:  *)
(*   "loop"       the condition of waitfor() or yield() is evaluated,      *)
(*   "read"       cycle() is inside readPacket(),                          *)
(*   "keepalive"  cycle() is about to call keepalive().                    *)
(* The environment moves between any two of them.                          *)
(*                                                                         *)
(* Timers count the ticks left and stay at 0 once expired.  A packet is a  *)
(* record; its bytes are abstracted, except that a packet may arrive in    *)
(* pieces (SplitReads): a read then loses some of its bytes and leaves the *)
(* others, which the next read takes for the beginning of a packet.        *)
(***************************************************************************)
EXTENDS Integers, Sequences

CONSTANTS
    Filters,            \* topic filters the application subscribes to
    AppCalls,           \* the public calls the application makes
    NoFilter,           \* an empty slot of messageHandlers, or no topic
    MaxHandlers,        \* MAX_MESSAGE_HANDLERS
    MaxPacketId,        \* PacketId::MAX_PACKET_ID
    CleanSession,       \* options.cleansession, the same in every connect
    KeepAliveInterval,  \* options.keepAliveInterval, in ticks; 0 is "off"
    CommandTimeout,     \* command_timeout_ms, in ticks
    YieldTime,          \* the argument of yield(), in ticks
    NetCapacity,        \* packets that fit in each direction of the network
    SplitReads          \* may a read return only a part of a packet?

ASSUME ClientAssumption ==
    /\ NoFilter \notin Filters \cup {"ok", "refused", "short"}
    /\ AppCalls \subseteq {"connect", "subscribe", "unsubscribe", "publish",
                            "publish0", "yield", "disconnect"}
    /\ MaxHandlers \in Nat \ {0}
    /\ MaxPacketId \in Nat \ {0}
    /\ CleanSession \in BOOLEAN
    /\ KeepAliveInterval \in Nat
    /\ CommandTimeout \in Nat \ {0}
    /\ YieldTime \in Nat \ {0}
    /\ NetCapacity \in Nat \ {0}
    /\ SplitReads \in BOOLEAN

VARIABLES
    isconnected, pingOutstanding, handlers, inflight,   \* the session
    nextId,                                             \* packetid.next
    timer, lastSent, lastReceived, pingSent,            \* ticks left
    phase, call, rc, readbuf,                           \* the running call
    result,                                             \* what the last call returned,
                                                        \* until the next call begins
    link, toBroker, toClient,                           \* the TCP connection
    cut,                                                \* history: has a packet of this
                                                        \* connection been cut short?
    bSession, bSubs, received                           \* the broker

session == <<isconnected, pingOutstanding, handlers, inflight>>
timers  == <<timer, lastSent, lastReceived, pingSent>>
running == <<phase, call, rc, readbuf, result>>
network == <<link, toBroker, toClient, cut>>
broker  == <<bSession, bSubs, received>>
vars    == <<session, nextId, timers, running, network, broker>>

-----------------------------------------------------------------------------
(* Packets and calls.                                                      *)

Slots   == 1..MaxHandlers
Ids     == 0..MaxPacketId
\* "ok" and "refused" are the codes of CONNACK and SUBACK; "short" marks what
\* was read of a packet that was cut: its contents may be anything.
Codes   == {"ok", "refused", "short"}
ToBrokerTypes == {"CONNECT", "PUBLISH", "SUBSCRIBE", "UNSUBSCRIBE",
                  "PUBACK", "PINGREQ", "DISCONNECT"}
AckTypes      == {"CONNACK", "PUBACK", "SUBACK", "PINGRESP"}
\* The rest of a packet whose beginning has been read already: JUNK, or ZEROS
\* when none of its bytes has a packet type in its upper half.
Rests         == {"JUNK", "ZEROS"}
\* What the client reads; CONNECT stands for every type that cycle() does not
\* name and no call waits for.
ReadTypes     == AckTypes \cup {"UNSUBACK", "PUBLISH", "CONNECT"}
ToClientTypes == ReadTypes \cup Rests

\* A PUBLISH with id 0 has QoS 0, any other id QoS 1.
Packet(t, i, a) == [type |-> t, id |-> i, arg |-> a]
PacketsToBroker ==
    [type : {"SUBSCRIBE", "UNSUBSCRIBE"}, id : Ids, arg : Filters]
    \cup [type : {"CONNECT", "PUBLISH", "PUBACK", "PINGREQ", "DISCONNECT"},
          id : Ids, arg : {NoFilter}]
PacketsToClient ==
    [type : ToClientTypes, id : Ids, arg : Filters \cup {NoFilter} \cup Codes]
NoPacket == Packet("none", 0, NoFilter)
Junk     == Packet("JUNK", 0, NoFilter)
Zeros    == Packet("ZEROS", 0, NoFilter)

Waiting == {"connect", "resend", "subscribe", "unsubscribe", "publish"}
Calls   == Waiting \cup {"yield", "disconnect"}

\* The packet type each call hands to waitfor().
Awaited(op) ==
    CASE op = "connect"     -> "CONNACK"
      [] op = "subscribe"   -> "SUBACK"
      [] op = "unsubscribe" -> "UNSUBACK"
      [] OTHER              -> "PUBACK"

NoCall == [op |-> "none", topic |-> NoFilter, id |-> 0, failed |-> FALSE]

NoResult == [op |-> "none", id |-> 0, failed |-> FALSE, rc |-> "none"]

\* What readPacket() or cycle() returned.  "CONNECT" is the value 1 that
\* readPacket() returns when a packet could not be read to its end.
ReturnCodes == {"none", "FAILURE"} \cup ReadTypes

CallRecords   == [op : Calls \cup {"none"}, topic : Filters \cup {NoFilter},
                  id : Ids, failed : BOOLEAN]
ResultRecords == [op : Calls \cup {"none"}, id : Ids, failed : BOOLEAN,
                  rc : {"none", "SUCCESS", "FAILURE"}]

SessionTypeOK ==
    /\ isconnected \in BOOLEAN
    /\ pingOutstanding \in BOOLEAN
    /\ handlers \in [Slots -> Filters \cup {NoFilter}]
    /\ inflight \in Ids

TimersTypeOK ==
    timer \in Nat /\ lastSent \in Nat /\ lastReceived \in Nat /\ pingSent \in Nat

RunningTypeOK ==
    /\ phase \in {"idle", "loop", "read", "keepalive"}
    /\ call \in CallRecords
    /\ rc \in ReturnCodes
    /\ readbuf \in PacketsToClient \cup {NoPacket}
    /\ result \in ResultRecords

NetworkTypeOK ==
    /\ link \in {"down", "fresh", "up", "stalled"}
    /\ toBroker \in Seq(PacketsToBroker)
    /\ toClient \in Seq(PacketsToClient)
    /\ cut \in BOOLEAN

BrokerTypeOK ==
    /\ bSession \in {"none", "open", "refused", "closed"}
    /\ bSubs \subseteq Filters
    /\ received \subseteq Ids

TypeOK ==
    /\ SessionTypeOK
    /\ nextId \in Ids
    /\ TimersTypeOK /\ RunningTypeOK /\ NetworkTypeOK /\ BrokerTypeOK

Init ==
    /\ isconnected = FALSE /\ pingOutstanding = FALSE
    /\ handlers = [s \in Slots |-> NoFilter]
    /\ inflight = 0 /\ nextId = 0
    /\ timer = 0 /\ lastSent = 0 /\ lastReceived = 0 /\ pingSent = 0
    /\ phase = "idle" /\ call = NoCall /\ rc = "none" /\ readbuf = NoPacket
    /\ result = NoResult
    /\ link = "down" /\ toBroker = <<>> /\ toClient = <<>> /\ cut = FALSE
    /\ bSession = "none" /\ bSubs = {} /\ received = {}

-----------------------------------------------------------------------------
(* The pieces the operations are made of.                                  *)

Registered == {handlers[s] : s \in Slots} \ {NoFilter}

\* Mutant: the handlers of a clean session survive its end.
CloseSession_KeepsHandlers ==
    /\ isconnected' = FALSE
    /\ pingOutstanding' = FALSE
    /\ inflight' = IF CleanSession THEN 0 ELSE inflight
    /\ UNCHANGED handlers

\* closeSession() and the cleanSession() it calls
CloseSession ==
    /\ isconnected' = FALSE
    /\ pingOutstanding' = FALSE
    /\ handlers' = IF CleanSession THEN [s \in Slots |-> NoFilter] ELSE handlers
    /\ inflight' = IF CleanSession THEN 0 ELSE inflight

\* Mutant: packet ids do not wrap.
GetNext_NoWrap == nextId + 1

\* PacketId::getNext()
GetNext == IF nextId = MaxPacketId THEN 1 ELSE nextId + 1

\* Can ipstack.write() take a packet: the connection is up and the transmit
\* buffer has room.  A stalled connection still buffers what is written.
CanSend == link # "down" /\ Len(toBroker) < NetCapacity

\* sendPacket(), when it succeeds
Send(p) ==
    /\ CanSend
    /\ toBroker' = Append(toBroker, p)
    /\ lastSent' = KeepAliveInterval

\* Entry of a call: its timer is started and its loop entered.
Begin(op, topic, id, ticks) ==
    /\ phase' = IF op = "yield" THEN "read" ELSE "loop"
    /\ call' = [op |-> op, topic |-> topic, id |-> id, failed |-> FALSE]
    /\ rc' = "none" /\ readbuf' = NoPacket
    /\ timer' = ticks
    /\ result' = NoResult

\* Return of the running call c with code r.
Return(c, r) ==
    /\ phase' = "idle" /\ call' = NoCall
    /\ rc' = "none" /\ readbuf' = NoPacket /\ timer' = 0
    /\ result' = [op |-> c.op, id |-> c.id, failed |-> c.failed, rc |-> r]

\* Return of a call that never reached its loop.
ReturnAtOnce(op, id, r) == Return([NoCall EXCEPT !.op = op, !.id = id], r)

\* setMessageHandler(): the slot of filter f, else the first empty one
HasSlot(f) == \E s \in Slots : handlers[s] \in {f, NoFilter}
IsSlot(s, f) ==
    LET wanted == IF f \in Registered THEN f ELSE NoFilter
    IN  handlers[s] = wanted /\ \A t \in 1..(s - 1) : handlers[t] # wanted
PutInSlot(f, handler) ==
    \E s \in Slots : IsSlot(s, f) /\ handlers' = [handlers EXCEPT ![s] = handler]
SetMessageHandler(f)    == PutInSlot(f, f)
RemoveMessageHandler(f) ==
    IF f \in Registered THEN PutInSlot(f, NoFilter) ELSE UNCHANGED handlers

-----------------------------------------------------------------------------
(* Public calls: what each does before its first wait.                     *)

\* Mutant: a request that cannot be sent, or is not answered, leaves the
\* session open.
RequestFails_KeepsSession(c) ==
    /\ UNCHANGED session
    /\ Return(c, "FAILURE")

\* The exit path of subscribe(), unsubscribe() and publish().
RequestFails(c) ==
    /\ CloseSession
    /\ Return(c, "FAILURE")

\* connect(), called once the network object is connected; the connection
\* may have been lost again since.
Connect ==
    /\ phase = "idle" /\ ~isconnected /\ link \in {"fresh", "down"}
    /\ \/ /\ Send(Packet("CONNECT", 0, NoFilter))
          /\ lastReceived' = KeepAliveInterval
          /\ link' = "up" /\ cut' = FALSE
          /\ Begin("connect", NoFilter, 0, CommandTimeout)
       \/ /\ ~CanSend
          /\ ReturnAtOnce("connect", 0, "FAILURE")
          /\ UNCHANGED <<link, cut, toBroker, lastSent, lastReceived>>
    /\ UNCHANGED <<session, nextId, pingSent, toClient, broker>>

\* subscribe() and unsubscribe() up to their waitfor()
Request(op, type, f) ==
    /\ phase = "idle"
    /\ \/ /\ isconnected
          /\ nextId' = GetNext
          /\ Send(Packet(type, GetNext, f))
          /\ Begin(op, f, GetNext, CommandTimeout)
          /\ UNCHANGED session
       \/ /\ isconnected => ~CanSend
          /\ nextId' = IF isconnected THEN GetNext ELSE nextId
          /\ RequestFails([NoCall EXCEPT !.op = op, !.topic = f])
          /\ UNCHANGED <<toBroker, lastSent>>
    /\ UNCHANGED <<lastReceived, pingSent, link, toClient, cut, broker>>

Subscribe(f)   == Request("subscribe", "SUBSCRIBE", f)
Unsubscribe(f) == Request("unsubscribe", "UNSUBSCRIBE", f)

\* Mutant: publish() does not ask whether the client is connected.
MayPublish_Always == link # "down"

\* publish(): the test of isconnected
MayPublish == isconnected

\* publish() up to its waitfor(); QoS 0 is not answered.  A message longer
\* than the buffer is refused without touching the session.
Publish(qos) ==
    LET id == IF qos = 1 THEN GetNext ELSE 0
        keep == IF CleanSession THEN inflight ELSE id
    IN
    /\ phase = "idle" /\ link # "fresh"
    /\ nextId' = IF MayPublish /\ qos = 1 THEN GetNext ELSE nextId
    /\ received' = IF MayPublish /\ qos = 1 THEN received \ {id} ELSE received
    /\ \/ /\ MayPublish
          /\ inflight' = keep
          /\ Send(Packet("PUBLISH", id, NoFilter))
          /\ IF qos = 1 THEN Begin("publish", NoFilter, id, CommandTimeout)
                        ELSE ReturnAtOnce("publish", id, "SUCCESS")
          /\ UNCHANGED <<isconnected, pingOutstanding, handlers>>
       \/ /\ MayPublish /\ ~CanSend
          /\ isconnected' = FALSE /\ pingOutstanding' = FALSE
          /\ handlers' = IF CleanSession THEN [s \in Slots |-> NoFilter] ELSE handlers
          /\ inflight' = IF CleanSession THEN 0 ELSE keep
          /\ ReturnAtOnce("publish", id, "FAILURE")
          /\ UNCHANGED <<toBroker, lastSent>>
       \/ /\ ReturnAtOnce("publish", id, "FAILURE")
          /\ UNCHANGED <<session, toBroker, lastSent>>
    /\ UNCHANGED <<lastReceived, pingSent, link, toClient, cut, bSession, bSubs>>

\* yield() up to its first cycle: the timer was started just before, so the
\* loop is entered
Yield ==
    /\ phase = "idle" /\ link # "fresh"
    /\ Begin("yield", NoFilter, 0, YieldTime)
    /\ UNCHANGED <<session, nextId, lastSent, lastReceived, pingSent, network, broker>>

\* disconnect(): the session ends whether or not the packet could be sent.
Disconnect ==
    /\ phase = "idle" /\ link # "fresh"
    /\ CloseSession
    /\ \/ /\ Send(Packet("DISCONNECT", 0, NoFilter))
          /\ ReturnAtOnce("disconnect", 0, "SUCCESS")
       \/ /\ ~CanSend
          /\ ReturnAtOnce("disconnect", 0, "FAILURE")
          /\ UNCHANGED <<toBroker, lastSent>>
    /\ UNCHANGED <<nextId, lastReceived, pingSent, link, toClient, cut, broker>>

-----------------------------------------------------------------------------
(* cycle(): one packet off the wire.                                       *)

Readable == link \in {"fresh", "up"} /\ toClient # <<>>
Rest     == Tail(toClient)

\* Mutant: only a negative rc ends the session, not the 1 of a read that failed.
CycleFails_OnlyNegative(r, c) ==
    /\ phase' = "loop" /\ rc' = r /\ call' = c
    /\ IF isconnected /\ r = "FAILURE" THEN CloseSession ELSE UNCHANGED session

\* cycle() reaching `exit' with rc # SUCCESS, for the call c
CycleFails(r, c) ==
    /\ phase' = "loop" /\ rc' = r /\ call' = c
    /\ IF isconnected THEN CloseSession ELSE UNCHANGED session

\* readPacket(): the timer ran out before anything arrived.
ReadNothing ==
    /\ phase = "read" /\ timer = 0 /\ link # "down" /\ ~Readable
    /\ phase' = "keepalive" /\ rc' = "none"
    /\ UNCHANGED <<session, nextId, timers, call, readbuf, result, network, broker>>

\* readPacket(): ipstack.read() fails because the connection is gone.
ReadError ==
    /\ phase = "read" /\ link = "down"
    /\ CycleFails("FAILURE", [call EXCEPT !.failed = TRUE])
    /\ UNCHANGED <<nextId, timers, readbuf, result, network, broker>>

\* What is left of packet p when its first bytes have been read.  A PINGRESP goes
\* on with its length 0, a CONNACK with its length 2, a flag and a code up to 5.
Leftover(p) == IF p.type \in {"CONNACK", "PINGRESP", "ZEROS"} THEN Zeros ELSE Junk

\* A read that goes wrong ends somewhere in the first n packets of the stream.
Swallow(n) ==
    /\ \E k \in 1..n :
          LET beyond == SubSeq(toClient, k + 1, Len(toClient))
          IN  toClient' \in {beyond, <<Leftover(toClient[k])>> \o beyond}
    /\ cut' = TRUE

\* readPacket(): the rest of a packet did not arrive in one piece or in time, or
\* common() asked for more than was left of it.  readPacket() returns 1, the
\* length of its first read.  A PINGRESP has no rest to read.
ReadPartial ==
    /\ phase = "read" /\ Readable
    /\ \/ SplitReads /\ Head(toClient).type # "PINGRESP"
       \/ Head(toClient).type \in Rests
    /\ Swallow(Len(toClient))
    /\ CycleFails("CONNECT", [call EXCEPT !.failed = TRUE])
    /\ UNCHANGED <<nextId, timers, readbuf, result, link, toBroker, broker>>

\* readPacket(): a PUBLISH that does not fit in readbuf, or a rest that begins
\* like one (BUFFER_OVERFLOW)
ReadOversized ==
    /\ phase = "read" /\ Readable
    /\ \/ /\ Head(toClient).type = "PUBLISH"
          /\ toClient' = <<Junk>> \o Rest /\ cut' = TRUE
       \/ Head(toClient).type \in Rests /\ Swallow(Len(toClient))
    /\ CycleFails("FAILURE", [call EXCEPT !.failed = TRUE])
    /\ UNCHANGED <<nextId, timers, readbuf, result, link, toBroker, broker>>

\* Packets of which no more is known than how they begin: a PUBLISH has its QoS
\* in the header, a CONNACK or SUBACK may hold a code that refuses.
Garbage ==
    {Packet(t, 0, "short") : t \in ReadTypes}
    \cup {Packet("PUBLISH", 1, "short")}
    \cup {Packet(t, 0, "refused") : t \in {"CONNACK", "SUBACK"}}
SameHeader(p, q) == p.type = q.type /\ (p.type = "PUBLISH" => (p.id = 0) = (q.id = 0))

\* What readPacket() may make of h other than h itself.  A packet that is cut keeps
\* its header: decodePacket() leaves the length 0, or too small, when it does not
\* arrive, and nobody looks at its result; and common() reads a second piece over
\* the first.  The first byte of a rest is a header like any other.
MadeOf(h) ==
    CASE h.type = "ZEROS" -> {NoPacket}
      [] h.type = "JUNK"  -> {NoPacket} \cup Garbage
      [] OTHER            -> IF SplitReads THEN {p \in Garbage : SameHeader(p, h)} ELSE {}

Readings == {Head(toClient)} \cup MadeOf(Head(toClient))

\* readPacket() succeeds: p is in readbuf, and what it returns is its type.
Consume(p) ==
    /\ readbuf' = p
    /\ lastReceived' = KeepAliveInterval
    /\ \/ p = Head(toClient) /\ p.type \notin Rests /\ toClient' = Rest /\ UNCHANGED cut
       \/ /\ p \in MadeOf(Head(toClient))
          /\ Swallow(IF Head(toClient).type \in Rests THEN Len(toClient) ELSE 1)

\* cycle(), cases CONNACK, PUBACK, SUBACK and PINGRESP, and case 0: a rest may
\* begin with the type that stands for "timed out"
ReadAck ==
    /\ phase = "read" /\ Readable
    /\ \E p \in Readings :
        /\ p.type \in AckTypes \cup {"none"}
        /\ Consume(p) /\ rc' = p.type
        /\ pingOutstanding' = (pingOutstanding /\ p.type # "PINGRESP")
    /\ phase' = "keepalive"
    /\ UNCHANGED <<isconnected, handlers, inflight, nextId, timer, lastSent, pingSent,
                   call, result, link, toBroker, broker>>

\* cycle(), case PUBLISH: the message goes to the handlers of its topic and,
\* with QoS 1, is acknowledged; so is one that a rest says has QoS 2.  The id
\* in the acknowledgement, which no broker of this model uses, is left out.
ReadPublish ==
    /\ phase = "read" /\ Readable
    /\ \E p \in Readings :
        /\ p.type = "PUBLISH"
        /\ Consume(p)
        /\ \/ p.id = 0 /\ UNCHANGED <<lastSent, toBroker>>
           \/ p.id # 0 /\ Send(Packet("PUBACK", 0, NoFilter))
    /\ phase' = "keepalive" /\ rc' = "PUBLISH"
    /\ UNCHANGED <<session, nextId, timer, pingSent, call, result, link, broker>>

\* cycle(), case PUBLISH: MQTTDeserialize_publish() does not return 1, and cycle()
\* is left with rc still SUCCESS.
ReadPublishIllFormed ==
    /\ phase = "read" /\ Readable
    /\ \E p \in MadeOf(Head(toClient)) : p.type = "PUBLISH" /\ Consume(p)
    /\ phase' = "loop" /\ rc' = "PUBLISH"
    /\ UNCHANGED <<session, nextId, timer, lastSent, pingSent, call, result,
                   link, toBroker, broker>>

\* cycle(), case PUBLISH: the acknowledgement cannot be sent, or a rest asks for
\* the QoS 3, for which there is none.
ReadPublishAckFails ==
    /\ phase = "read" /\ Readable
    /\ \E p \in Readings :
        /\ p.type = "PUBLISH" /\ p.id # 0
        /\ ~CanSend \/ Head(toClient).type = "JUNK"
        /\ Consume(p)
    /\ CycleFails("FAILURE", call)
    /\ UNCHANGED <<nextId, timer, lastSent, pingSent, result, link, toBroker, broker>>

\* cycle(), the default case: with QoS 2 left out, UNSUBACK is the one packet
\* of a broker that no case names.
ReadUnexpected ==
    /\ phase = "read" /\ Readable
    /\ \E p \in Readings :
        /\ p.type \in {"UNSUBACK", "CONNECT"}
        /\ Consume(p)
        /\ CycleFails(p.type, call)
    /\ UNCHANGED <<nextId, timer, lastSent, pingSent, result, link, toBroker, broker>>

-----------------------------------------------------------------------------
(* keepalive(), the last step of a cycle.                                  *)

\* Mutant: traffic in one direction is enough to put the ping off.
PingDue_BothSilent == lastSent = 0 /\ lastReceived = 0

PingDue  == lastSent = 0 \/ lastReceived = 0
PingLost == pingOutstanding /\ pingSent = 0

\* Nothing to do: keepalive is off, a ping is under way, or none is due.
KeepaliveQuiet ==
    /\ phase = "keepalive"
    /\ KeepAliveInterval > 0 => IF pingOutstanding THEN ~PingLost ELSE ~PingDue
    /\ phase' = "loop"
    /\ UNCHANGED <<session, nextId, timers, call, rc, readbuf, result, network, broker>>

KeepalivePings ==
    /\ phase = "keepalive" /\ KeepAliveInterval > 0 /\ ~pingOutstanding /\ PingDue
    /\ Send(Packet("PINGREQ", 0, NoFilter))
    /\ pingOutstanding' = TRUE /\ pingSent' = KeepAliveInterval
    /\ phase' = "loop"
    /\ UNCHANGED <<isconnected, handlers, inflight, nextId, timer, lastReceived,
                   call, rc, readbuf, result, link, toClient, cut, broker>>

\* The outstanding ping was not answered in time, or a due one cannot be sent.
KeepaliveFails ==
    /\ phase = "keepalive" /\ KeepAliveInterval > 0
    /\ IF pingOutstanding THEN PingLost ELSE PingDue /\ ~CanSend
    /\ CycleFails("FAILURE", call)
    /\ UNCHANGED <<nextId, timers, readbuf, result, network, broker>>

-----------------------------------------------------------------------------
(* The loops of waitfor() and yield(), and what each call does after them. *)

\* Mutant: waitfor() goes on until an answer arrives.
OutOfTime_Never == FALSE

\* The loop's timer.expired()
OutOfTime == timer = 0

Answered  == call.op # "yield" /\ rc = Awaited(call.op)
GivesUp   == ~Answered /\ (rc = "FAILURE" \/ OutOfTime)

\* One more cycle
LoopAgain ==
    /\ phase = "loop" /\ ~Answered /\ ~GivesUp
    /\ phase' = "read" /\ rc' = "none" /\ readbuf' = NoPacket
    /\ UNCHANGED <<session, nextId, timers, call, result, network, broker>>

YieldDone ==
    /\ phase = "loop" /\ call.op = "yield" /\ GivesUp
    /\ Return(call, IF rc = "FAILURE" THEN "FAILURE" ELSE "SUCCESS")
    /\ UNCHANGED <<session, nextId, lastSent, lastReceived, pingSent, network, broker>>

\* Mutant: connect() does not look at the return code of the CONNACK.
Accepted_AnyCode == Answered

\* The CONNACK arrived and says 0; connect() assumes 0 of one that is short,
\* because MQTTDeserialize_connack() returns 1 for it.
Accepted == Answered /\ readbuf.arg # "refused"

\* connect(), after waitfor(CONNACK), when no publish is to be sent again
ConnectDone ==
    /\ phase = "loop" /\ call.op = "connect" /\ (Answered \/ GivesUp) /\ inflight = 0
    /\ isconnected' = Accepted
    /\ pingOutstanding' = (pingOutstanding /\ ~Accepted)
    /\ Return(call, IF Accepted THEN "SUCCESS" ELSE "FAILURE")
    /\ UNCHANGED <<handlers, inflight, nextId, lastSent, lastReceived, pingSent,
                   network, broker>>

\* connect(), after waitfor(CONNACK): the last publish was never acknowledged
\* and is sent again, whatever the CONNACK said or whether there was one.
ConnectResends ==
    /\ phase = "loop" /\ call.op = "connect" /\ (Answered \/ GivesUp) /\ inflight # 0
    /\ \/ /\ Send(Packet("PUBLISH", inflight, NoFilter))
          /\ call' = [call EXCEPT !.op = "resend", !.id = inflight]
          /\ rc' = "none" /\ readbuf' = NoPacket
          /\ UNCHANGED <<session, phase, timer, result>>
       \/ /\ ~CanSend
          /\ RequestFails(call)
          /\ UNCHANGED <<lastSent, toBroker>>
    /\ UNCHANGED <<nextId, lastReceived, pingSent, link, toClient, cut, broker>>

\* The packet id of what is in readbuf: MQTTDeserialize_ack() returns 1 for a
\* short packet without setting it.
ReadbufIds(p) == IF p.arg = "short" THEN Ids ELSE {p.id}

\* publish(len), after waitfor(PUBACK): the id of the PUBACK only decides
\* whether the stored publish is forgotten.
Acknowledged ==
    /\ Answered
    /\ \E id \in ReadbufIds(readbuf) : inflight' = IF inflight = id THEN 0 ELSE inflight

PublishDone ==
    /\ phase = "loop" /\ call.op = "publish"
    /\ \/ /\ Acknowledged
          /\ Return(call, "SUCCESS")
          /\ UNCHANGED <<isconnected, pingOutstanding, handlers>>
       \/ GivesUp /\ RequestFails(call)
    /\ UNCHANGED <<nextId, lastSent, lastReceived, pingSent, network, broker>>

\* publish(len) returning into connect()
ResendDone ==
    /\ phase = "loop" /\ call.op = "resend"
    /\ \/ /\ Acknowledged
          /\ isconnected' = TRUE /\ pingOutstanding' = FALSE
          /\ Return(call, "SUCCESS")
          /\ UNCHANGED handlers
       \/ GivesUp /\ RequestFails(call)
    /\ UNCHANGED <<nextId, lastSent, lastReceived, pingSent, network, broker>>

\* subscribe(), after waitfor(SUBACK): a refusal installs no handler and still
\* returns SUCCESS, a short SUBACK counts as granted.
SubscribeDone ==
    /\ phase = "loop" /\ call.op = "subscribe"
    /\ \/ /\ Answered /\ readbuf.arg # "refused" /\ HasSlot(call.topic)
          /\ SetMessageHandler(call.topic)
          /\ Return(call, "SUCCESS")
          /\ UNCHANGED <<isconnected, pingOutstanding, inflight>>
       \/ /\ Answered /\ readbuf.arg = "refused"
          /\ Return(call, "SUCCESS")
          /\ UNCHANGED session
       \/ /\ GivesUp \/ (Answered /\ readbuf.arg # "refused" /\ ~HasSlot(call.topic))
          /\ RequestFails(call)
    /\ UNCHANGED <<nextId, lastSent, lastReceived, pingSent, network, broker>>

\* unsubscribe(), after waitfor(UNSUBACK)
UnsubscribeDone ==
    /\ phase = "loop" /\ call.op = "unsubscribe"
    /\ \/ /\ Answered
          /\ RemoveMessageHandler(call.topic)
          /\ Return(call, "SUCCESS")
          /\ UNCHANGED <<isconnected, pingOutstanding, inflight>>
       \/ GivesUp /\ RequestFails(call)
    /\ UNCHANGED <<nextId, lastSent, lastReceived, pingSent, network, broker>>

-----------------------------------------------------------------------------
(* The environment: time, the TCP connection and the broker.               *)

OneLess(n) == IF n > 0 THEN n - 1 ELSE 0

Tick ==
    /\ timer' = OneLess(timer) /\ lastSent' = OneLess(lastSent)
    /\ lastReceived' = OneLess(lastReceived) /\ pingSent' = OneLess(pingSent)
    /\ UNCHANGED <<session, nextId, running, network, broker>>

\* The application connects the network object, always before connect() and
\* only for a client that is not connected (mqtt_init() in main.cpp).
Reconnect ==
    /\ phase = "idle" /\ ~isconnected /\ link # "fresh"
    /\ link' = "fresh" /\ toBroker' = <<>> /\ toClient' = <<>>
    /\ bSession' = "none"
    /\ UNCHANGED <<session, nextId, timers, running, cut, bSubs, received>>

LinkDown ==
    /\ link # "down"
    /\ link' = "down" /\ toBroker' = <<>> /\ toClient' = <<>>
    /\ UNCHANGED <<session, nextId, timers, running, cut, broker>>

\* The broker hangs: its TCP stack still takes what is sent to it.
LinkStalls ==
    /\ link = "up"
    /\ link' = "stalled"
    /\ UNCHANGED <<session, nextId, timers, running, toBroker, toClient, cut, broker>>

StalledDrains ==
    /\ link = "stalled" /\ toBroker # <<>>
    /\ toBroker' = Tail(toBroker)
    /\ UNCHANGED <<session, nextId, timers, running, link, toClient, cut, broker>>

\* The broker takes a packet of one of the types and answers with `answer'.
Takes(types) ==
    /\ link = "up" /\ toBroker # <<>> /\ Head(toBroker).type \in types
    /\ toBroker' = Tail(toBroker)
    /\ UNCHANGED <<session, nextId, timers, running, link, cut>>
Answers(answer) ==
    /\ Len(toClient) < NetCapacity
    /\ toClient' = Append(toClient, answer)

BrokerConnect ==
    /\ Takes({"CONNECT"}) /\ bSession = "none"
    /\ \/ /\ Answers(Packet("CONNACK", 0, "ok"))
          /\ bSession' = "open"
          /\ bSubs' = IF CleanSession THEN {} ELSE bSubs
       \/ /\ Answers(Packet("CONNACK", 0, "refused"))
          /\ bSession' = "refused" /\ UNCHANGED bSubs
    /\ UNCHANGED received

BrokerReceivesPublish ==
    /\ Takes({"PUBLISH"}) /\ bSession = "open"
    /\ IF Head(toBroker).id = 0
       THEN UNCHANGED <<toClient, received>>
       ELSE /\ Answers(Packet("PUBACK", Head(toBroker).id, NoFilter))
            /\ received' = received \cup {Head(toBroker).id}
    /\ UNCHANGED <<bSession, bSubs>>

BrokerSubscribe ==
    /\ Takes({"SUBSCRIBE"}) /\ bSession = "open"
    /\ \/ /\ Answers(Packet("SUBACK", Head(toBroker).id, "ok"))
          /\ bSubs' = bSubs \cup {Head(toBroker).arg}
       \/ /\ Answers(Packet("SUBACK", Head(toBroker).id, "refused"))
          /\ UNCHANGED bSubs
    /\ UNCHANGED <<bSession, received>>

BrokerUnsubscribe ==
    /\ Takes({"UNSUBSCRIBE"}) /\ bSession = "open"
    /\ Answers(Packet("UNSUBACK", Head(toBroker).id, NoFilter))
    /\ bSubs' = bSubs \ {Head(toBroker).arg}
    /\ UNCHANGED <<bSession, received>>

BrokerPing ==
    /\ Takes({"PINGREQ"}) /\ bSession = "open"
    /\ Answers(Packet("PINGRESP", 0, NoFilter))
    /\ UNCHANGED broker

BrokerPuback ==
    /\ Takes({"PUBACK"}) /\ bSession = "open"
    /\ UNCHANGED <<toClient, broker>>

BrokerDisconnect ==
    /\ Takes({"DISCONNECT"}) /\ bSession = "open"
    /\ bSession' = "closed"
    /\ UNCHANGED <<toClient, bSubs, received>>

\* Whatever comes outside a session, and a CONNECT within one, is dropped.
BrokerIgnores ==
    /\ Takes(ToBrokerTypes)
    /\ bSession \notin {"open", "none"} \/ ((bSession = "open") = (Head(toBroker).type = "CONNECT"))
    /\ UNCHANGED <<toClient, broker>>

\* A message for a subscribed topic, with QoS 0 or QoS 1
BrokerDelivers ==
    /\ link = "up" /\ bSession = "open"
    /\ \E f \in bSubs, id \in {0, 1} : Answers(Packet("PUBLISH", id, f))
    /\ UNCHANGED <<session, nextId, timers, running, link, toBroker, cut, broker>>

-----------------------------------------------------------------------------
Calling ==
    \/ "connect" \in AppCalls /\ Connect
    \/ "yield" \in AppCalls /\ Yield
    \/ "disconnect" \in AppCalls /\ Disconnect
    \/ "subscribe" \in AppCalls /\ \E f \in Filters : Subscribe(f)
    \/ "unsubscribe" \in AppCalls /\ \E f \in Filters : Unsubscribe(f)
    \/ "publish" \in AppCalls /\ Publish(1)
    \/ "publish0" \in AppCalls /\ Publish(0)

Reading ==
    \/ ReadNothing \/ ReadError \/ ReadPartial \/ ReadOversized \/ ReadAck
    \/ ReadPublish \/ ReadPublishIllFormed \/ ReadPublishAckFails \/ ReadUnexpected

Keepalive == KeepaliveQuiet \/ KeepalivePings \/ KeepaliveFails

Looping ==
    \/ LoopAgain \/ YieldDone \/ ConnectDone \/ ConnectResends \/ PublishDone
    \/ ResendDone \/ SubscribeDone \/ UnsubscribeDone

\* A running call goes on.
CallStep == Reading \/ Keepalive \/ Looping

Network == Reconnect \/ LinkDown \/ LinkStalls \/ StalledDrains

Broker ==
    \/ BrokerConnect \/ BrokerReceivesPublish \/ BrokerSubscribe \/ BrokerUnsubscribe
    \/ BrokerPing \/ BrokerPuback \/ BrokerDisconnect \/ BrokerIgnores \/ BrokerDelivers

Next == Calling \/ CallStep \/ Tick \/ Network \/ Broker

Spec == Init /\ [][Next]_vars

\* The client is the program's only thread and never waits but in a read with
\* a timeout; time passes; main() calls yield() in every turn of its loop.
FairSpec ==
    /\ Spec
    /\ WF_vars(CallStep)
    /\ WF_vars(Tick)
    /\ SF_vars(Yield)

-----------------------------------------------------------------------------
(* Safety.                                                                 *)

\* A client that says it is connected has, at the other end of the connection
\* it is using, a broker that accepted its CONNECT: a refused or late CONNACK,
\* a resent publish or a disconnect() never leaves the two sides disagreeing.
SessionAgreement == isconnected /\ link # "down" => bSession = "open"

\* The packets in a stream, and those that show that the broker accepted the
\* client: only then does it send them.
Contents(s) == {s[k] : k \in 1..Len(s)}
ProvesSession(p) ==
    \/ p.type = "CONNACK" /\ p.arg # "refused"
    \/ p.type = "PUBACK"

\* Why SessionAgreement holds while no packet of the connection has been cut short,
\* conjunct by conjunct: a new connection carries nothing; a call that has returned
\* left nothing behind, and one that runs has neither a result nor, in a read, an
\* answer yet; no DISCONNECT is under way where the client is, or is becoming,
\* connected; what the client reads or has read as proof of a session was sent by a
\* broker that had opened one on this very connection; and the first packet that
\* connect() reads is the CONNACK.
FreshIsEmpty ==
    link = "fresh" => /\ phase = "idle" /\ ~isconnected
                      /\ toBroker = <<>> /\ toClient = <<>> /\ bSession = "none"
IdleIsClean == phase = "idle" => call = NoCall /\ rc = "none" /\ readbuf = NoPacket
RunIsClean  == /\ phase = "read" => rc = "none"
               /\ phase # "idle" => result = NoResult
NotLeaving ==
    link # "down" /\ (isconnected \/ call.op \in {"connect", "resend"})
        => bSession # "closed" /\ \A p \in Contents(toBroker) : p.type # "DISCONNECT"
ProofsAreGenuine ==
    link # "down" => \A p \in Contents(toClient) \cup {readbuf} :
                        ProvesSession(p) => bSession \in {"open", "closed"}
ReadbufMatches == rc \in {"CONNACK", "PUBACK"} => readbuf.type = rc
Greeted ==
    call.op = "connect" /\ rc \notin {"CONNACK", "FAILURE"} /\ link # "down" =>
        \/ bSession = "none" /\ toClient = <<>>
        \/ toClient # <<>> /\ Head(toClient).type = "CONNACK"

\* A rest is found only on a connection of which a packet has been cut.  Where packets
\* do not come in pieces that is one too long for readbuf, and it ends the session:
\* a call that waits for an answer fails and reads nothing of the rest.
RestsAreCuts == (\E p \in Contents(toClient) : p.type \in Rests) => cut
CutIsClosed ==
    ~SplitReads /\ cut =>
        /\ ~isconnected
        /\ call.op \in Waiting => rc = "FAILURE" /\ call.op # "connect"
        /\ result.op = "publish" => result.rc = "FAILURE"

SessionInv ==
    /\ FreshIsEmpty /\ IdleIsClean /\ RunIsClean /\ RestsAreCuts /\ CutIsClosed
    /\ ~cut => SessionAgreement /\ NotLeaving /\ ProofsAreGenuine
               /\ ReadbufMatches /\ Greeted

\* Between two calls of a connected client, every subscription the broker
\* holds for a clean session has a handler in messageHandlers: a subscribe()
\* that failed half way cannot leave messages coming that nobody takes.
NoOrphanSubscription ==
    CleanSession /\ isconnected /\ phase = "idle" /\ link = "up" /\ bSession = "open"
        => bSubs \subseteq Registered

\* When no packet is ever split, the handlers and the broker's subscriptions
\* are the same set, so none survives a lost session or an unsubscribe().
SubscriptionAgreement ==
    CleanSession /\ isconnected /\ phase = "idle" /\ link = "up" => bSubs = Registered

\* publish() with QoS 1 returns SUCCESS only when the broker received that
\* very message, although the id of the PUBACK is not compared with it.
PublishAcknowledged ==
    result.op = "publish" /\ result.rc = "SUCCESS" /\ result.id # 0
        => result.id \in received

\* "on failure, this means the client has disconnected": yield() never fails
\* and leaves the session open.
YieldFailureCloses == result.op = "yield" /\ result.rc = "FAILURE" => ~isconnected

\* "If any read fails in this method, then we should disconnect": whatever the rest of
\* a packet is taken for after a read that failed, and even if the call goes on to
\* find its answer there, the session that was open is over, for the rest of the call
\* and until connect() is called.
ReadFailureCloses ==
    /\ call.failed => ~isconnected
    /\ result.failed /\ result.op \notin {"connect", "resend"} => ~isconnected

\* Where packets of a type are in a stream; a PUBLISH that asks for no answer is
\* none.  A request is answered at most once, so at most one of it and its answer
\* is under way.
Places(s, type) ==
    {k \in 1..Len(s) : s[k].type = type /\ (type = "PUBLISH" => s[k].id # 0)}
AtMostOne(places) == \A j, k \in places : j = k
NoneUnderWay(request, answer) ==
    Places(toBroker, request) = {} /\ Places(toClient, answer) = {}
OneUnderWay(request, answer) ==
    /\ AtMostOne(Places(toBroker, request)) /\ AtMostOne(Places(toClient, answer))
    /\ Places(toBroker, request) = {} \/ Places(toClient, answer) = {}
    /\ rc = answer => NoneUnderWay(request, answer)

\* Why an answer need not be compared with the request: while the client is, or is
\* becoming, connected, no request is under way but that of the call that runs.  A
\* call that gave up closed the session, and a new connection carries nothing.
Opening == call.op \in {"connect", "resend"}
Exchange(request, answer, ops) ==
    /\ call.op \in ops => OneUnderWay(request, answer)
    /\ call.op \notin ops /\ (isconnected \/ Opening) => NoneUnderWay(request, answer)

\* So the answer shows what the broker did with this very request: it has received
\* the message, and has no subscription without a handler but the one asked for,
\* nor that if it refused.
Writing == call.op \in {"publish", "resend"}
PublishTracked ==
    Writing =>
        /\ \A k \in Places(toBroker, "PUBLISH") : toBroker[k].id = call.id
        /\ \A k \in Places(toClient, "PUBACK") :
              toClient[k] = Packet("PUBACK", call.id, NoFilter)
        /\ rc = "PUBACK" \/ Places(toClient, "PUBACK") # {} => call.id \in received
Refused ==
    \/ rc = "SUBACK" /\ readbuf.arg = "refused"
    \/ \E k \in Places(toClient, "SUBACK") : toClient[k].arg = "refused"
Asked == IF call.op = "subscribe" THEN {call.topic} ELSE {}
SubscribeTracked ==
    CleanSession =>
        /\ Opening /\ bSession = "open" => bSubs = {}
        /\ isconnected /\ bSession = "open" => bSubs \subseteq Registered \cup Asked
        /\ isconnected /\ call.op = "subscribe" =>
            /\ \A k \in Places(toBroker, "SUBSCRIBE") : toBroker[k].arg = call.topic
            /\ bSession = "open" /\ (Places(toBroker, "SUBSCRIBE") # {} \/ Refused)
                  => bSubs \subseteq Registered

\* A failed cycle has closed the session, and so has one that read an UNSUBACK;
\* connect() runs only without one.
SessionsEnd ==
    /\ rc \in {"FAILURE", "UNSUBACK", "CONNECT"} => ~isconnected
    /\ rc = "FAILURE" => phase = "loop"
    /\ Opening => ~isconnected

\* What is stored in pubbuf is the message under way, and nothing when a connected
\* client is not sending one.
InflightKnown ==
    IF CleanSession
    THEN inflight = 0
    ELSE /\ Writing => /\ inflight = call.id
                       /\ rc = "PUBACK" => readbuf = Packet("PUBACK", call.id, NoFilter)
         /\ isconnected /\ ~Writing => inflight = 0

\* Why a handler without a subscription cannot stay either: without a session there
\* are no handlers, and subscribe() is about to fail; a handler is installed only for
\* a subscription that was granted; and while the session lasts nothing but a running
\* unsubscribe(), whose answer ends the session, takes a subscription away.
Granted ==
    \/ rc = "SUBACK" /\ readbuf.arg # "refused"
    \/ \E k \in Places(toClient, "SUBACK") : toClient[k].arg # "refused"
ClosedHasNone == ~isconnected => Registered = {} /\ (call.op = "subscribe" => rc = "FAILURE")
HandlersGranted ==
    isconnected /\ link # "down" =>
        /\ call.op # "unsubscribe" => Registered \subseteq bSubs
        /\ call.op = "subscribe" /\ Granted => call.topic \in bSubs
HandlersHeld == CleanSession /\ ~SplitReads => ClosedHasNone /\ HandlersGranted

AnswersInv ==
    /\ SessionsEnd /\ HandlersHeld
    /\ ~cut =>
        /\ Exchange("PUBLISH", "PUBACK", {"publish", "resend"})
        /\ Exchange("SUBSCRIBE", "SUBACK", {"subscribe"})
        /\ Exchange("UNSUBSCRIBE", "UNSUBACK", {"unsubscribe"})
        /\ PublishTracked /\ SubscribeTracked /\ InflightKnown

\* However packets are cut and sessions are kept: as long as no packet of the
\* connection has been cut, the client agrees with its broker on the session, no
\* answer is taken for another one's, and what a call's result tells the application
\* is so.  A packet that is cut, or too long, takes that away until connect() is called
\* on a new connection and no longer, and the read that failed ends the session.
ClientInv ==
    /\ SessionInv /\ AnswersInv
    /\ ~(SplitReads /\ cut) => NoOrphanSubscription /\ PublishAcknowledged
    /\ YieldFailureCloses /\ ReadFailureCloses

\* A message stored in pubbuf is forgotten or overwritten only once the broker
\* has it, over any number of failed calls, lost connections and reconnects.
InflightKept == [][inflight # 0 /\ inflight' # inflight => inflight \in received]_vars

-----------------------------------------------------------------------------
(* Liveness.                                                               *)

\* A connected client finds out that its broker went silent, even while it
\* keeps publishing with QoS 0, through the keepalive exchange.
SilenceDetected ==
    KeepAliveInterval > 0 => (isconnected /\ link = "stalled" ~> ~isconnected)
=============================================================================
