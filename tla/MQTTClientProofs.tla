-------------------------- MODULE MQTTClientProofs --------------------------
(* Theorems about MQTTClient, for every value of its constants: its types, *)
(* its session, the contract that it keeps, and what the answers to its    *)
(* requests show.                                                          *)
EXTENDS MQTTClientRefinement, TLAPS

USE ClientAssumption DEF ClientAssumption

-----------------------------------------------------------------------------
(* Type correctness: what each piece of an action does to its group of     *)
(* variables, then one lemma per group of actions.                         *)

LEMMA ZeroId == 0 \in Ids
BY DEF Ids

\* getNext() stays in the range of packet ids and is never 0.
LEMMA GetNextType == nextId \in Ids => GetNext \in Ids /\ GetNext # 0
BY DEF GetNext, Ids

\* Ending the session keeps the types of its fields.
LEMMA CloseSessionType == SessionTypeOK /\ CloseSession => SessionTypeOK'
<1> SUFFICES ASSUME SessionTypeOK, CloseSession PROVE SessionTypeOK'
    OBVIOUS
<1>1. handlers' \in [Slots -> Filters \cup {NoFilter}]
    <2>1. [s \in Slots |-> NoFilter] \in [Slots -> Filters \cup {NoFilter}]
        OBVIOUS
    <2>2. QED
        BY <2>1 DEF SessionTypeOK, CloseSession
<1>2. inflight' \in Ids
    BY ZeroId DEF SessionTypeOK, CloseSession
<1>3. QED
    BY <1>1, <1>2 DEF SessionTypeOK, CloseSession

LEMMA SessionSame == SessionTypeOK /\ UNCHANGED session => SessionTypeOK'
BY DEF SessionTypeOK, session

LEMMA RunningSame == RunningTypeOK /\ UNCHANGED running => RunningTypeOK'
BY DEF RunningTypeOK, running

LEMMA TimersSame == TimersTypeOK /\ UNCHANGED timers => TimersTypeOK'
BY DEF TimersTypeOK, timers

LEMMA NetworkSame == NetworkTypeOK /\ UNCHANGED network => NetworkTypeOK'
BY DEF NetworkTypeOK, network

LEMMA BrokerSame == BrokerTypeOK /\ UNCHANGED broker => BrokerTypeOK'
BY DEF BrokerTypeOK, broker

\* Entering and leaving a call keep the types of the running call.
LEMMA BeginType ==
    ASSUME NEW op \in Calls, NEW f \in Filters \cup {NoFilter}, NEW i \in Ids,
           NEW ticks \in Nat, Begin(op, f, i, ticks)
    PROVE  RunningTypeOK' /\ timer' \in Nat
BY DEF Begin, RunningTypeOK, CallRecords, ResultRecords, ReturnCodes, NoPacket, NoResult, Ids

LEMMA ReturnType ==
    ASSUME NEW c \in CallRecords, NEW r \in {"SUCCESS", "FAILURE"}, Return(c, r)
    PROVE  RunningTypeOK' /\ timer' \in Nat
BY DEF Return, RunningTypeOK, CallRecords, ResultRecords, ReturnCodes, NoPacket, NoCall, Ids

LEMMA ReturnAtOnceType ==
    ASSUME NEW op \in Calls, NEW i \in Ids, NEW r \in {"SUCCESS", "FAILURE"},
           ReturnAtOnce(op, i, r)
    PROVE  RunningTypeOK' /\ timer' \in Nat
<1>1. [NoCall EXCEPT !.op = op, !.id = i] \in CallRecords
    BY DEF NoCall, CallRecords, Ids
<1>2. QED
    BY <1>1, ReturnType DEF ReturnAtOnce

LEMMA CycleFailsType ==
    ASSUME RunningTypeOK, SessionTypeOK, NEW r \in ReturnCodes, NEW c \in CallRecords,
           CycleFails(r, c), readbuf' \in PacketsToClient \cup {NoPacket},
           UNCHANGED result
    PROVE  RunningTypeOK' /\ SessionTypeOK'
<1>1. SessionTypeOK'
    BY CloseSessionType, SessionSame DEF CycleFails
<1>2. QED
    BY <1>1 DEF CycleFails, RunningTypeOK

\* A packet that is sent is one more packet in the stream to the broker, an
\* answer one more in the stream to the client.
LEMMA SendType ==
    ASSUME NetworkTypeOK, NEW p \in PacketsToBroker, Send(p)
    PROVE  toBroker' \in Seq(PacketsToBroker) /\ lastSent' \in Nat
BY DEF NetworkTypeOK, Send

LEMMA AnswersType ==
    ASSUME NetworkTypeOK, NEW p \in PacketsToClient, Answers(p)
    PROVE  toClient' \in Seq(PacketsToClient)
BY DEF NetworkTypeOK, Answers

LEMMA InitType == Init => TypeOK
<1> SUFFICES ASSUME Init PROVE TypeOK
    OBVIOUS
<1>1. SessionTypeOK /\ nextId \in Ids
    BY ZeroId DEF Init, SessionTypeOK
<1>2. TimersTypeOK /\ BrokerTypeOK
    BY DEF Init, TimersTypeOK, BrokerTypeOK
<1>4. NetworkTypeOK
    <2>1. <<>> \in Seq(PacketsToBroker)
        OBVIOUS
    <2>2. <<>> \in Seq(PacketsToClient)
        OBVIOUS
    <2>3. QED
        BY <2>1, <2>2 DEF Init, NetworkTypeOK
<1>3. RunningTypeOK
    BY ZeroId DEF Init, RunningTypeOK, CallRecords, ResultRecords, NoCall, NoResult, ReturnCodes
<1>5. QED
    BY <1>1, <1>2, <1>3, <1>4 DEF TypeOK

LEMMA ConnectType == TypeOK /\ Connect => TypeOK'
<1> SUFFICES ASSUME TypeOK, Connect PROVE TypeOK'
    OBVIOUS
<1> USE DEF TypeOK
<1>1. Packet("CONNECT", 0, NoFilter) \in PacketsToBroker
    BY ZeroId DEF Packet, PacketsToBroker
<1>2. SessionTypeOK' /\ nextId' \in Ids /\ BrokerTypeOK'
    BY SessionSame, BrokerSame DEF Connect
<1>3. CASE /\ Send(Packet("CONNECT", 0, NoFilter)) 
           /\ lastReceived' = KeepAliveInterval
           /\ link' = "up" /\ cut' = FALSE
           /\ Begin("connect", NoFilter, 0, CommandTimeout)
    <2>1. NetworkTypeOK' /\ lastSent' \in Nat
        BY <1>1, <1>3, SendType DEF Connect, NetworkTypeOK
    <2>2. RunningTypeOK' /\ timer' \in Nat
        BY <1>3, BeginType DEF Calls, Waiting, Ids
    <2>3. QED
        BY <1>2, <1>3, <2>1, <2>2 DEF Connect, TimersTypeOK
<1>4. CASE ReturnAtOnce("connect", 0, "FAILURE") /\ UNCHANGED <<link, cut, toBroker, lastSent, lastReceived>>
    <2>1. RunningTypeOK' /\ timer' \in Nat
        BY <1>4, ReturnAtOnceType DEF Calls, Waiting, Ids
    <2>2. QED
        BY <1>2, <1>4, <2>1 DEF Connect, TimersTypeOK, NetworkTypeOK
<1>5. QED
    BY <1>3, <1>4 DEF Connect

LEMMA RequestType ==
    ASSUME TypeOK, NEW op \in {"subscribe", "unsubscribe"},
           NEW type \in {"SUBSCRIBE", "UNSUBSCRIBE"}, NEW f \in Filters, Request(op, type, f)
    PROVE  TypeOK'
<1> USE DEF TypeOK
<1>1. nextId' \in Ids
    BY GetNextType DEF Request
<1>2. BrokerTypeOK'
    BY BrokerSame DEF Request
<1>3. CASE /\ Send(Packet(type, GetNext, f))
           /\ Begin(op, f, GetNext, CommandTimeout)
           /\ UNCHANGED session
    <2>1. Packet(type, GetNext, f) \in PacketsToBroker
        BY GetNextType DEF Packet, PacketsToBroker
    <2>2. NetworkTypeOK' /\ lastSent' \in Nat
        BY <1>3, <2>1, SendType DEF Request, NetworkTypeOK
    <2>3. RunningTypeOK' /\ timer' \in Nat
        BY <1>3, BeginType, GetNextType DEF Calls, Waiting
    <2>4. QED
        BY <1>1, <1>2, <1>3, <2>2, <2>3, SessionSame DEF Request, TimersTypeOK
<1>4. CASE /\ RequestFails([NoCall EXCEPT !.op = op, !.topic = f])
           /\ UNCHANGED <<toBroker, lastSent>>
    <2>1. [NoCall EXCEPT !.op = op, !.topic = f] \in CallRecords
        BY ZeroId DEF NoCall, CallRecords, Calls, Waiting
    <2>2. RunningTypeOK' /\ timer' \in Nat
        BY <1>4, <2>1, ReturnType DEF RequestFails
    <2>3. SessionTypeOK'
        BY <1>4, CloseSessionType DEF RequestFails
    <2>4. QED
        BY <1>1, <1>2, <1>4, <2>2, <2>3 DEF Request, TimersTypeOK, NetworkTypeOK
<1>5. QED
    BY <1>3, <1>4 DEF Request

LEMMA PublishType ==
    ASSUME TypeOK, NEW qos \in {0, 1}, Publish(qos)
    PROVE  TypeOK'
<1> DEFINE id   == IF qos = 1 THEN GetNext ELSE 0
           keep == IF CleanSession THEN inflight ELSE id
<1> USE DEF TypeOK
<1>1. id \in Ids /\ keep \in Ids /\ nextId' \in Ids
    BY GetNextType, ZeroId DEF Publish, SessionTypeOK
<1>2. BrokerTypeOK'
    BY DEF Publish, BrokerTypeOK
<1>3. SessionTypeOK'
    <2>1. CASE MayPublish /\ inflight' = keep /\ UNCHANGED <<isconnected, pingOutstanding, handlers>>
        BY <1>1, <2>1 DEF SessionTypeOK
    <2>2. CASE /\ isconnected' = FALSE /\ pingOutstanding' = FALSE
               /\ handlers' = IF CleanSession THEN [s \in Slots |-> NoFilter] ELSE handlers
               /\ inflight' = IF CleanSession THEN 0 ELSE keep
        <3>1. [s \in Slots |-> NoFilter] \in [Slots -> Filters \cup {NoFilter}]
            OBVIOUS
        <3>2. QED
            BY <1>1, <2>2, <3>1, ZeroId DEF SessionTypeOK
    <2>3. CASE UNCHANGED session
        BY <2>3, SessionSame
    <2>4. QED
        BY <2>1, <2>2, <2>3 DEF Publish
<1>4. /\ RunningTypeOK' /\ timer' \in Nat
      /\ toBroker' \in Seq(PacketsToBroker) /\ lastSent' \in Nat
    <2>1. CASE /\ Send(Packet("PUBLISH", id, NoFilter))
               /\ IF qos = 1 THEN Begin("publish", NoFilter, id, CommandTimeout)
                             ELSE ReturnAtOnce("publish", id, "SUCCESS")
        <3>1. Packet("PUBLISH", id, NoFilter) \in PacketsToBroker
            BY <1>1 DEF Packet, PacketsToBroker
        <3>2. toBroker' \in Seq(PacketsToBroker) /\ lastSent' \in Nat
            BY <2>1, <3>1, SendType
        <3>3. RunningTypeOK' /\ timer' \in Nat
            BY <1>1, <2>1, BeginType, ReturnAtOnceType DEF Calls, Waiting
        <3>4. QED
            BY <3>2, <3>3
    <2>2. CASE ReturnAtOnce("publish", id, "FAILURE") /\ UNCHANGED <<toBroker, lastSent>>
        <3>1. RunningTypeOK' /\ timer' \in Nat
            BY <1>1, <2>2, ReturnAtOnceType DEF Calls, Waiting
        <3>2. QED
            BY <2>2, <3>1 DEF NetworkTypeOK, TimersTypeOK
    <2>3. QED
        BY <2>1, <2>2 DEF Publish
<1>5. QED
    BY <1>1, <1>2, <1>3, <1>4 DEF Publish, NetworkTypeOK, TimersTypeOK

LEMMA YieldType == TypeOK /\ Yield => TypeOK'
<1> SUFFICES ASSUME TypeOK, Yield PROVE TypeOK'
    OBVIOUS
<1> USE DEF TypeOK
<1>1. RunningTypeOK' /\ timer' \in Nat
    BY BeginType, ZeroId DEF Yield, Calls
<1>2. QED
    BY <1>1, SessionSame, NetworkSame, BrokerSame DEF Yield, TimersTypeOK

LEMMA DisconnectType == TypeOK /\ Disconnect => TypeOK'
<1> SUFFICES ASSUME TypeOK, Disconnect PROVE TypeOK'
    OBVIOUS
<1> USE DEF TypeOK
<1>1. RunningTypeOK' /\ timer' \in Nat
    BY ReturnAtOnceType, ZeroId DEF Disconnect, Calls
<1>2. toBroker' \in Seq(PacketsToBroker) /\ lastSent' \in Nat
    <2>1. Packet("DISCONNECT", 0, NoFilter) \in PacketsToBroker
        BY ZeroId DEF Packet, PacketsToBroker
    <2>2. QED
        BY <2>1, SendType DEF Disconnect, NetworkTypeOK, TimersTypeOK
<1>3. SessionTypeOK'
    BY CloseSessionType DEF Disconnect
<1>4. QED
    BY <1>1, <1>2, <1>3, BrokerSame DEF Disconnect, TimersTypeOK, NetworkTypeOK

\* The public calls, up to their first wait, keep the types.
LEMMA CallingType == TypeOK /\ Calling => TypeOK'
<1> SUFFICES ASSUME TypeOK, Calling PROVE TypeOK'
    OBVIOUS
<1>1. ASSUME NEW f \in Filters, Subscribe(f) PROVE TypeOK'
    BY <1>1, RequestType DEF Subscribe
<1>2. ASSUME NEW f \in Filters, Unsubscribe(f) PROVE TypeOK'
    BY <1>2, RequestType DEF Unsubscribe
<1>3. QED
    BY <1>1, <1>2, ConnectType, YieldType, DisconnectType, PublishType DEF Calling

-----------------------------------------------------------------------------
(* Type correctness of cycle().                                            *)

LEMMA StreamType ==
    ASSUME NetworkTypeOK, Readable
    PROVE  /\ Head(toClient) \in PacketsToClient
           /\ Rest \in Seq(PacketsToClient)
           /\ Len(toClient) \in Nat \ {0}
BY DEF NetworkTypeOK, Readable, Rest

\* What may be read of a packet is a packet, or has no type.
LEMMA GarbageType == Garbage \subseteq PacketsToClient
<1>1. 0 \in Ids /\ 1 \in Ids /\ ReadTypes \subseteq ToClientTypes
      /\ {"CONNACK", "SUBACK", "PUBLISH"} \subseteq ToClientTypes
      /\ {"short", "refused"} \subseteq Codes
    BY DEF Ids, ToClientTypes, ReadTypes, AckTypes, Codes
<1>2. ASSUME NEW t \in ToClientTypes, NEW i \in Ids, NEW a \in Codes
      PROVE  Packet(t, i, a) \in PacketsToClient
    BY DEF Packet, PacketsToClient
<1>3. QED
    BY <1>1, <1>2 DEF Garbage

LEMMA MadeOfType ==
    ASSUME NEW h, NEW p \in MadeOf(h)
    PROVE  p \in PacketsToClient \cup {NoPacket}
BY GarbageType DEF MadeOf

LEMMA ReadingsType ==
    ASSUME NetworkTypeOK, Readable, NEW p \in Readings
    PROVE  p \in PacketsToClient \cup {NoPacket}
BY StreamType, MadeOfType DEF Readings

\* A read that goes wrong leaves the end of the stream, and perhaps a rest before it.
LEMMA SwallowType ==
    ASSUME NetworkTypeOK, NEW n \in Nat, n \leq Len(toClient), Swallow(n)
    PROVE  toClient' \in Seq(PacketsToClient) /\ cut' \in BOOLEAN
<1>1. PICK k \in 1..n :
          toClient' \in {SubSeq(toClient, k + 1, Len(toClient)),
                        <<Leftover(toClient[k])>> \o SubSeq(toClient, k + 1, Len(toClient))}
    BY DEF Swallow
<1>2. SubSeq(toClient, k + 1, Len(toClient)) \in Seq(PacketsToClient)
    <2>1. toClient \in Seq(PacketsToClient)
        BY DEF NetworkTypeOK
    <2>2. \A i \in (k + 1)..Len(toClient) : toClient[i] \in PacketsToClient
        BY <2>1
    <2>3. QED
        BY <2>1, <2>2
<1>3. Leftover(toClient[k]) \in PacketsToClient
    BY ZeroId DEF Leftover, Zeros, Junk, Packet, PacketsToClient, ToClientTypes, Rests
<1>4. <<Leftover(toClient[k])>> \o SubSeq(toClient, k + 1, Len(toClient)) \in Seq(PacketsToClient)
    <2> DEFINE left == Leftover(toClient[k])
               more == SubSeq(toClient, k + 1, Len(toClient))
    <2>1. left \in PacketsToClient /\ more \in Seq(PacketsToClient)
        BY <1>2, <1>3
    <2> HIDE DEF left, more
    <2>2. <<left>> \o more \in Seq(PacketsToClient)
        BY <2>1
    <2>3. QED
        BY <2>2 DEF left, more
<1>5. QED
    BY <1>1, <1>2, <1>4 DEF Swallow

LEMMA ConsumeType ==
    ASSUME NetworkTypeOK, Readable, NEW p \in Readings, Consume(p)
    PROVE  /\ lastReceived' \in Nat
           /\ toClient' \in Seq(PacketsToClient)
           /\ cut' \in BOOLEAN
           /\ readbuf' \in PacketsToClient \cup {NoPacket}
<1>1. CASE toClient' = Rest /\ UNCHANGED cut
    BY <1>1, StreamType, ReadingsType DEF Consume, NetworkTypeOK
<1>2. CASE Swallow(IF Head(toClient).type \in Rests THEN Len(toClient) ELSE 1)
    <2>1. PICK n \in Nat : n \leq Len(toClient) /\ Swallow(n)
        BY <1>2, StreamType
    <2>2. QED
        BY <2>1, SwallowType, ReadingsType DEF Consume
<1>3. QED
    BY <1>1, <1>2 DEF Consume

\* A cycle that fails in readPacket(): only the stream loses its head.
LEMMA FailedReadType ==
    ASSUME TypeOK, NEW r \in ReturnCodes, NEW c \in CallRecords, CycleFails(r, c),
           UNCHANGED <<nextId, timers, readbuf, result, link, toBroker, broker>>,
           toClient' \in Seq(PacketsToClient), cut' \in BOOLEAN
    PROVE  TypeOK'
<1>1. RunningTypeOK' /\ SessionTypeOK'
    BY CycleFailsType DEF TypeOK, RunningTypeOK
<1>2. QED
    BY <1>1, TimersSame, BrokerSame DEF TypeOK, NetworkTypeOK

LEMMA FailedCallType == call \in CallRecords => [call EXCEPT !.failed = TRUE] \in CallRecords
BY DEF CallRecords

LEMMA ReadingType == TypeOK /\ Reading => TypeOK'
<1> SUFFICES ASSUME TypeOK, Reading PROVE TypeOK'
    OBVIOUS
<1> USE DEF TypeOK
<1>1. CASE ReadNothing
    BY <1>1, SessionSame, TimersSame, NetworkSame, BrokerSame
       DEF ReadNothing, RunningTypeOK, ReturnCodes
<1>2. CASE ReadError
    BY <1>2, FailedReadType, FailedCallType
       DEF ReadError, RunningTypeOK, NetworkTypeOK, network, ReturnCodes
<1>3. CASE ReadPartial
    <2>1. toClient' \in Seq(PacketsToClient) /\ cut' \in BOOLEAN
        BY <1>3, StreamType, SwallowType DEF ReadPartial
    <2>2. "CONNECT" \in ReturnCodes
        BY DEF ReturnCodes, ReadTypes
    <2>3. QED
        BY <1>3, <2>1, <2>2, FailedReadType, FailedCallType DEF ReadPartial, RunningTypeOK
<1>4. CASE ReadOversized
    <2>1. CASE toClient' = <<Junk>> \o Rest /\ cut' = TRUE
        <3>1. Junk \in PacketsToClient /\ Rest \in Seq(PacketsToClient)
            BY <1>4, ZeroId, StreamType
               DEF ReadOversized, Junk, Packet, PacketsToClient, ToClientTypes, Rests
        <3>2. toClient' \in Seq(PacketsToClient) /\ cut' \in BOOLEAN
            BY <2>1, <3>1
        <3>3. QED
            BY <1>4, <3>2, FailedReadType, FailedCallType
               DEF ReadOversized, RunningTypeOK, ReturnCodes
    <2>2. CASE Swallow(Len(toClient))
        <3>1. toClient' \in Seq(PacketsToClient) /\ cut' \in BOOLEAN
            BY <1>4, <2>2, StreamType, SwallowType DEF ReadOversized
        <3>2. QED
            BY <1>4, <3>1, FailedReadType, FailedCallType
               DEF ReadOversized, RunningTypeOK, ReturnCodes
    <2>3. QED
        BY <1>4, <2>1, <2>2 DEF ReadOversized
<1>5. CASE ReadAck
    <2>1. PICK p \in Readings : /\ p.type \in AckTypes \cup {"none"}
                               /\ Consume(p) /\ rc' = p.type
        BY <1>5 DEF ReadAck
    <2>2. /\ lastReceived' \in Nat /\ cut' \in BOOLEAN
          /\ toClient' \in Seq(PacketsToClient)
          /\ readbuf' \in PacketsToClient \cup {NoPacket}
        BY <1>5, <2>1, ConsumeType DEF ReadAck
    <2>3. pingOutstanding' \in BOOLEAN /\ rc' \in ReturnCodes
        BY <1>5, <2>1 DEF ReadAck, ReturnCodes, ReadTypes, SessionTypeOK
    <2>4. QED
        BY <1>5, <2>2, <2>3, BrokerSame
           DEF ReadAck, RunningTypeOK, SessionTypeOK, NetworkTypeOK, TimersTypeOK
<1>6. CASE ReadPublish
    <2>1. PICK p \in Readings : Consume(p)
        BY <1>6 DEF ReadPublish
    <2>2. /\ lastReceived' \in Nat /\ cut' \in BOOLEAN
          /\ toClient' \in Seq(PacketsToClient)
          /\ readbuf' \in PacketsToClient \cup {NoPacket}
        BY <1>6, <2>1, ConsumeType DEF ReadPublish
    <2>3. toBroker' \in Seq(PacketsToBroker) /\ lastSent' \in Nat
        <3>1. CASE UNCHANGED <<lastSent, toBroker>>
            BY <3>1 DEF NetworkTypeOK, TimersTypeOK
        <3>2. CASE Send(Packet("PUBACK", 0, NoFilter))
            <4>1. Packet("PUBACK", 0, NoFilter) \in PacketsToBroker
                BY ZeroId DEF Packet, PacketsToBroker
            <4>2. QED
                BY <3>2, <4>1, SendType
        <3>3. QED
            BY <1>6, <3>1, <3>2 DEF ReadPublish
    <2>4. SessionTypeOK'
        BY <1>6, SessionSame DEF ReadPublish
    <2>5. QED
        BY <1>6, <2>2, <2>3, <2>4, BrokerSame
           DEF ReadPublish, RunningTypeOK, NetworkTypeOK, TimersTypeOK, ReturnCodes, ReadTypes
<1>7. CASE ReadPublishIllFormed
    <2>1. PICK p \in Readings : Consume(p)
        BY <1>7 DEF ReadPublishIllFormed, Readings
    <2>2. /\ lastReceived' \in Nat /\ cut' \in BOOLEAN
          /\ toClient' \in Seq(PacketsToClient)
          /\ readbuf' \in PacketsToClient \cup {NoPacket}
        BY <1>7, <2>1, ConsumeType DEF ReadPublishIllFormed
    <2>3. SessionTypeOK'
        BY <1>7, SessionSame DEF ReadPublishIllFormed
    <2>4. QED
        BY <1>7, <2>2, <2>3, BrokerSame
           DEF ReadPublishIllFormed, RunningTypeOK, NetworkTypeOK, TimersTypeOK,
               ReturnCodes, ReadTypes
<1>8. ASSUME NEW r \in ReturnCodes, NEW p \in Readings, Readable, Consume(p),
             CycleFails(r, call),
             UNCHANGED <<nextId, timer, lastSent, pingSent, result, link, toBroker, broker>>
      PROVE  TypeOK'
    <2>1. /\ lastReceived' \in Nat /\ cut' \in BOOLEAN
          /\ toClient' \in Seq(PacketsToClient)
          /\ readbuf' \in PacketsToClient \cup {NoPacket}
        BY <1>8, ConsumeType
    <2>2. RunningTypeOK' /\ SessionTypeOK'
        BY <1>8, <2>1, CycleFailsType DEF RunningTypeOK
    <2>3. QED
        BY <1>8, <2>1, <2>2, BrokerSame DEF NetworkTypeOK, TimersTypeOK
<1>9. CASE ReadPublishAckFails
    BY <1>8, <1>9 DEF ReadPublishAckFails, ReturnCodes
<1>10. CASE ReadUnexpected
    <2>1. PICK p \in Readings : /\ p.type \in {"UNSUBACK", "CONNECT"}
                               /\ Consume(p) /\ CycleFails(p.type, call)
        BY <1>10 DEF ReadUnexpected
    <2>2. p.type \in ReturnCodes
        BY <2>1 DEF ReturnCodes, ReadTypes
    <2>3. QED
        BY <1>8, <1>10, <2>1, <2>2 DEF ReadUnexpected
<1>11. QED
    BY <1>1, <1>2, <1>3, <1>4, <1>5, <1>6, <1>7, <1>9, <1>10 DEF Reading

LEMMA KeepaliveType == TypeOK /\ Keepalive => TypeOK'
<1> SUFFICES ASSUME TypeOK, Keepalive PROVE TypeOK'
    OBVIOUS
<1> USE DEF TypeOK
<1>1. CASE KeepaliveQuiet
    BY <1>1, SessionSame, TimersSame, NetworkSame, BrokerSame DEF KeepaliveQuiet, RunningTypeOK
<1>2. CASE KeepalivePings
    <2>1. Packet("PINGREQ", 0, NoFilter) \in PacketsToBroker
        BY ZeroId DEF Packet, PacketsToBroker
    <2>2. toBroker' \in Seq(PacketsToBroker) /\ lastSent' \in Nat
        BY <1>2, <2>1, SendType DEF KeepalivePings
    <2>3. QED
        BY <1>2, <2>2, BrokerSame
           DEF KeepalivePings, SessionTypeOK, RunningTypeOK, NetworkTypeOK, TimersTypeOK
<1>3. CASE KeepaliveFails
    BY <1>3, FailedReadType DEF KeepaliveFails, RunningTypeOK, NetworkTypeOK, network, ReturnCodes
<1>4. QED
    BY <1>1, <1>2, <1>3 DEF Keepalive

-----------------------------------------------------------------------------
(* Type correctness of the ends of the calls and of the environment.       *)

LEMMA HandlersType ==
    ASSUME SessionTypeOK, NEW f \in Filters \cup {NoFilter},
           SetMessageHandler(f) \/ RemoveMessageHandler(f)
    PROVE  handlers' \in [Slots -> Filters \cup {NoFilter}]
<1>1. \A s \in Slots : [handlers EXCEPT ![s] = f] \in [Slots -> Filters \cup {NoFilter}]
    BY DEF SessionTypeOK
<1>2. \A s \in Slots : [handlers EXCEPT ![s] = NoFilter] \in [Slots -> Filters \cup {NoFilter}]
    BY DEF SessionTypeOK
<1>3. QED
    BY <1>1, <1>2 DEF SetMessageHandler, RemoveMessageHandler, PutInSlot, SessionTypeOK

LEMMA ReturnRunningType ==
    ASSUME RunningTypeOK, NEW r \in {"SUCCESS", "FAILURE"}, Return(call, r)
    PROVE  RunningTypeOK' /\ timer' \in Nat
BY ReturnType DEF RunningTypeOK

LEMMA AcknowledgedType ==
    ASSUME SessionTypeOK, Acknowledged
    PROVE  inflight' \in Ids
BY ZeroId DEF Acknowledged, SessionTypeOK

LEMMA LoopingType == TypeOK /\ Looping => TypeOK'
<1> SUFFICES ASSUME TypeOK, Looping PROVE TypeOK'
    OBVIOUS
<1> USE DEF TypeOK
<1>1. CASE LoopAgain
    BY <1>1, SessionSame, TimersSame, NetworkSame, BrokerSame
       DEF LoopAgain, RunningTypeOK, ReturnCodes
<1>2. CASE YieldDone
    <2>1. RunningTypeOK' /\ timer' \in Nat
        BY <1>2, ReturnRunningType DEF YieldDone
    <2>2. QED
        BY <1>2, <2>1, SessionSame, NetworkSame, BrokerSame DEF YieldDone, TimersTypeOK
<1>3. CASE ConnectDone
    <2>1. RunningTypeOK' /\ timer' \in Nat
        BY <1>3, ReturnRunningType DEF ConnectDone
    <2>2. SessionTypeOK'
        BY <1>3 DEF ConnectDone, SessionTypeOK, Accepted, Answered
    <2>3. QED
        BY <1>3, <2>1, <2>2, NetworkSame, BrokerSame DEF ConnectDone, TimersTypeOK
<1>4. CASE ConnectResends
    <2>1. CASE /\ Send(Packet("PUBLISH", inflight, NoFilter))
               /\ call' = [call EXCEPT !.op = "resend", !.id = inflight]
               /\ rc' = "none" /\ readbuf' = NoPacket
               /\ UNCHANGED <<session, phase, timer, result>>
        <3>1. Packet("PUBLISH", inflight, NoFilter) \in PacketsToBroker
            BY DEF SessionTypeOK, Packet, PacketsToBroker
        <3>2. toBroker' \in Seq(PacketsToBroker) /\ lastSent' \in Nat
            BY <2>1, <3>1, SendType
        <3>3. call' \in CallRecords
            BY <2>1 DEF RunningTypeOK, SessionTypeOK, CallRecords, Calls, Waiting
        <3>4. QED
            BY <1>4, <2>1, <3>2, <3>3, SessionSame, BrokerSame
               DEF ConnectResends, RunningTypeOK, NetworkTypeOK, TimersTypeOK, ReturnCodes
    <2>2. CASE RequestFails(call) /\ UNCHANGED <<lastSent, toBroker>>
        <3>1. RunningTypeOK' /\ timer' \in Nat /\ SessionTypeOK'
            BY <2>2, ReturnRunningType, CloseSessionType DEF RequestFails
        <3>2. QED
            BY <1>4, <2>2, <3>1, BrokerSame DEF ConnectResends, NetworkTypeOK, TimersTypeOK
    <2>3. QED
        BY <1>4, <2>1, <2>2 DEF ConnectResends
<1>5. ASSUME RequestFails(call) \/ \/ Return(call, "SUCCESS") /\ SessionTypeOK',
             UNCHANGED <<nextId, lastSent, lastReceived, pingSent, network, broker>>
      PROVE  TypeOK'
    <2>1. RunningTypeOK' /\ timer' \in Nat /\ SessionTypeOK'
        BY <1>5, ReturnRunningType, CloseSessionType DEF RequestFails
    <2>2. QED
        BY <1>5, <2>1, NetworkSame, BrokerSame DEF TimersTypeOK
<1>6. CASE PublishDone
    BY <1>5, <1>6, AcknowledgedType DEF PublishDone, SessionTypeOK
<1>7. CASE ResendDone
    BY <1>5, <1>7, AcknowledgedType DEF ResendDone, SessionTypeOK
<1>8. CASE SubscribeDone
    <2>1. call.topic \in Filters \cup {NoFilter}
        BY DEF RunningTypeOK, CallRecords
    <2>2. QED
        BY <1>5, <1>8, <2>1, HandlersType, SessionSame DEF SubscribeDone, SessionTypeOK
<1>9. CASE UnsubscribeDone
    <2>1. call.topic \in Filters \cup {NoFilter}
        BY DEF RunningTypeOK, CallRecords
    <2>2. QED
        BY <1>5, <1>9, <2>1, HandlersType DEF UnsubscribeDone, SessionTypeOK
<1>10. QED
    BY <1>1, <1>2, <1>3, <1>4, <1>6, <1>7, <1>8, <1>9 DEF Looping

LEMMA TickType == TypeOK /\ Tick => TypeOK'
BY SessionSame, RunningSame, NetworkSame, BrokerSame DEF TypeOK, Tick, TimersTypeOK, OneLess

LEMMA NetworkType == TypeOK /\ Network => TypeOK'
<1> SUFFICES ASSUME TypeOK, Network PROVE TypeOK'
    OBVIOUS
<1> USE DEF TypeOK
<1>1. nextId' \in Ids /\ SessionTypeOK' /\ TimersTypeOK' /\ RunningTypeOK'
    BY SessionSame, TimersSame, RunningSame
       DEF Network, Reconnect, LinkDown, LinkStalls, StalledDrains
<1>2. BrokerTypeOK'
    BY DEF Network, Reconnect, LinkDown, LinkStalls, StalledDrains, broker, BrokerTypeOK
<1>3. NetworkTypeOK'
    <2>1. CASE Reconnect
        BY <2>1 DEF Reconnect, NetworkTypeOK
    <2>2. CASE LinkDown
        BY <2>2 DEF LinkDown, NetworkTypeOK
    <2>3. CASE LinkStalls
        BY <2>3 DEF LinkStalls, NetworkTypeOK
    <2>4. CASE StalledDrains
        BY <2>4 DEF StalledDrains, NetworkTypeOK
    <2>5. QED
        BY <2>1, <2>2, <2>3, <2>4 DEF Network
<1>4. QED
    BY <1>1, <1>2, <1>3

\* What the broker takes from its stream is a packet of one of the types, and
\* nothing on the client's side changes.
LEMMA TakesType ==
    ASSUME TypeOK, NEW types, Takes(types)
    PROVE  /\ Head(toBroker) \in PacketsToBroker
           /\ toBroker' \in Seq(PacketsToBroker)
           /\ nextId' \in Ids /\ SessionTypeOK' /\ TimersTypeOK' /\ RunningTypeOK'
           /\ link' \in {"down", "fresh", "up", "stalled"} /\ cut' \in BOOLEAN
<1>1. nextId' \in Ids /\ SessionTypeOK' /\ TimersTypeOK' /\ RunningTypeOK'
    BY SessionSame, TimersSame, RunningSame DEF Takes, TypeOK
<1>2. QED
    BY <1>1 DEF Takes, TypeOK, NetworkTypeOK

LEMMA BrokerType == TypeOK /\ Broker => TypeOK'
<1> SUFFICES ASSUME TypeOK, Broker PROVE TypeOK'
    OBVIOUS
<1> USE DEF TypeOK
<1>1. ASSUME NEW types, Takes(types), BrokerTypeOK',
             \/ UNCHANGED toClient
             \/ \E p \in PacketsToClient : Answers(p)
      PROVE  TypeOK'
    <2>1. toClient' \in Seq(PacketsToClient)
        BY <1>1, AnswersType DEF NetworkTypeOK
    <2>2. QED
        BY <1>1, <2>1, TakesType DEF NetworkTypeOK
<1>2. ASSUME NEW t \in ToClientTypes, NEW i \in Ids, NEW a \in Filters \cup {NoFilter} \cup Codes
      PROVE  Packet(t, i, a) \in PacketsToClient
    BY DEF Packet, PacketsToClient
<1>3. ASSUME NEW types, Takes(types) PROVE Head(toBroker).id \in Ids
    BY <1>3, TakesType DEF PacketsToBroker
<1>4. CASE BrokerConnect
    <2>1. /\ Packet("CONNACK", 0, "ok") \in PacketsToClient
          /\ Packet("CONNACK", 0, "refused") \in PacketsToClient
        BY <1>2, ZeroId DEF ToClientTypes, ReadTypes, AckTypes, Codes
    <2>2. BrokerTypeOK'
        BY <1>4 DEF BrokerConnect, BrokerTypeOK
    <2>3. QED
        BY <1>1, <1>4, <2>1, <2>2 DEF BrokerConnect
<1>5. CASE BrokerReceivesPublish
    <2>1. Packet("PUBACK", Head(toBroker).id, NoFilter) \in PacketsToClient
        BY <1>2, <1>3, <1>5 DEF BrokerReceivesPublish, ToClientTypes, ReadTypes, AckTypes
    <2>2. BrokerTypeOK'
        BY <1>3, <1>5 DEF BrokerReceivesPublish, BrokerTypeOK
    <2>3. QED
        BY <1>1, <1>5, <2>1, <2>2 DEF BrokerReceivesPublish
<1>6. CASE BrokerSubscribe
    <2>1. /\ Packet("SUBACK", Head(toBroker).id, "ok") \in PacketsToClient
          /\ Packet("SUBACK", Head(toBroker).id, "refused") \in PacketsToClient
        BY <1>2, <1>3, <1>6 DEF BrokerSubscribe, ToClientTypes, ReadTypes, AckTypes, Codes
    <2>2. Head(toBroker).arg \in Filters
        <3>1. Head(toBroker) \in PacketsToBroker /\ Head(toBroker).type = "SUBSCRIBE"
            BY <1>6, TakesType DEF BrokerSubscribe, Takes
        <3>2. QED
            BY <3>1 DEF PacketsToBroker
    <2>3. BrokerTypeOK'
        BY <1>6, <2>2 DEF BrokerSubscribe, BrokerTypeOK
    <2>4. QED
        BY <1>1, <1>6, <2>1, <2>3 DEF BrokerSubscribe
<1>7. CASE BrokerUnsubscribe
    <2>1. Packet("UNSUBACK", Head(toBroker).id, NoFilter) \in PacketsToClient
        BY <1>2, <1>3, <1>7 DEF BrokerUnsubscribe, ToClientTypes, ReadTypes
    <2>2. BrokerTypeOK'
        BY <1>7 DEF BrokerUnsubscribe, BrokerTypeOK
    <2>3. QED
        BY <1>1, <1>7, <2>1, <2>2 DEF BrokerUnsubscribe
<1>8. CASE BrokerPing
    <2>1. Packet("PINGRESP", 0, NoFilter) \in PacketsToClient
        BY <1>2, ZeroId DEF ToClientTypes, ReadTypes, AckTypes
    <2>2. QED
        BY <1>1, <1>8, <2>1, BrokerSame DEF BrokerPing
<1>9. CASE BrokerPuback
    BY <1>1, <1>9, BrokerSame DEF BrokerPuback
<1>10. CASE BrokerDisconnect
    <2>1. BrokerTypeOK'
        BY <1>10 DEF BrokerDisconnect, BrokerTypeOK
    <2>2. QED
        BY <1>1, <1>10, <2>1 DEF BrokerDisconnect
<1>11. CASE BrokerIgnores
    BY <1>1, <1>11, BrokerSame DEF BrokerIgnores
<1>12. CASE BrokerDelivers
    <2>1. PICK f \in bSubs, id \in {0, 1} : Answers(Packet("PUBLISH", id, f))
        BY <1>12 DEF BrokerDelivers
    <2>2. Packet("PUBLISH", id, f) \in PacketsToClient
        <3>1. id \in Ids /\ f \in Filters
            BY DEF BrokerTypeOK, Ids
        <3>2. QED
            BY <1>2, <3>1 DEF ToClientTypes, ReadTypes
    <2>3. toClient' \in Seq(PacketsToClient)
        BY <2>1, <2>2, AnswersType
    <2>4. QED
        BY <1>12, <2>3, SessionSame, TimersSame, RunningSame, BrokerSame
           DEF BrokerDelivers, NetworkTypeOK
<1>13. QED
    BY <1>4, <1>5, <1>6, <1>7, <1>8, <1>9, <1>10, <1>11, <1>12 DEF Broker

LEMMA VarsSame == UNCHANGED vars => UNCHANGED <<session, nextId, timers, running, network, broker>>
BY DEF vars

\* Every step keeps the types.
LEMMA StepType == TypeOK /\ [Next]_vars => TypeOK'
<1> SUFFICES ASSUME TypeOK, [Next]_vars PROVE TypeOK'
    OBVIOUS
<1>1. CASE Next
    BY <1>1, CallingType, ReadingType, KeepaliveType, LoopingType, TickType, NetworkType, BrokerType
       DEF Next, CallStep
<1>2. CASE UNCHANGED vars
    BY <1>2, VarsSame, SessionSame, TimersSame, RunningSame, NetworkSame, BrokerSame DEF TypeOK
<1>3. QED
    BY <1>1, <1>2

\* The client's fields, the packets in flight and the broker's state have
\* their types in every reachable state.
THEOREM TypeCorrect == Spec => []TypeOK
BY InitType, StepType, PTL DEF Spec

-----------------------------------------------------------------------------
(* What a new connection, an idle client and the end of a session are like. *)

EndsInv == /\ FreshIsEmpty /\ IdleIsClean /\ RunIsClean /\ SessionsEnd
           /\ YieldFailureCloses /\ ReadFailureCloses

LEMMA CallValues ==
    ASSUME call \in CallRecords
    PROVE  /\ [call EXCEPT !.failed = TRUE].op = call.op
           /\ [call EXCEPT !.failed = TRUE].id = call.id
           /\ [call EXCEPT !.failed = TRUE].topic = call.topic
           /\ NoCall.op = "none" /\ NoCall.topic = NoFilter /\ NoCall.failed = FALSE
BY DEF CallRecords, NoCall

\* A call that returns at once, with any code but a failed yield() that stays.
LEMMA AtOnceEnds ==
    ASSUME EndsInv, phase = "idle", NEW c, c.op # "yield", ~c.failed, NEW r, Return(c, r),
           isconnected' => isconnected, link' = link,
           link = "fresh" => UNCHANGED <<toBroker, toClient, bSession>>
    PROVE  EndsInv'
BY DEF EndsInv, Return, FreshIsEmpty, IdleIsClean, RunIsClean, SessionsEnd, Opening,
       YieldFailureCloses, ReadFailureCloses, NoCall

LEMMA CallingEnds ==
    ASSUME TypeOK, EndsInv, Calling
    PROVE  EndsInv'
<1> USE DEF EndsInv, FreshIsEmpty, IdleIsClean, RunIsClean, SessionsEnd, Opening,
            YieldFailureCloses, ReadFailureCloses
<1>1. CASE Connect
    <2>1. CASE Begin("connect", NoFilter, 0, CommandTimeout) /\ link' = "up"
        BY <1>1, <2>1 DEF Connect, Begin, session, NoResult
    <2>2. CASE ReturnAtOnce("connect", 0, "FAILURE") /\ UNCHANGED <<link, toBroker>>
        BY <1>1, <2>2, AtOnceEnds DEF Connect, ReturnAtOnce, session, broker, NoCall
    <2>3. QED
        BY <1>1, <2>1, <2>2 DEF Connect
<1>2. ASSUME NEW o \in {"subscribe", "unsubscribe"}, NEW type, NEW f \in Filters,
             Request(o, type, f)
      PROVE  EndsInv'
    <2>1. CASE isconnected /\ Begin(o, f, GetNext, CommandTimeout) /\ UNCHANGED session
        BY <1>2, <2>1 DEF Request, Begin, session, NoResult
    <2>2. CASE /\ RequestFails([NoCall EXCEPT !.op = o, !.topic = f])
               /\ UNCHANGED <<toBroker, lastSent>>
        BY <1>2, <2>2, AtOnceEnds
           DEF Request, RequestFails, CloseSession, broker, NoCall
    <2>3. QED
        BY <1>2, <2>1, <2>2 DEF Request
<1>3. ASSUME NEW qos \in {0, 1}, Publish(qos)
      PROVE  EndsInv'
    <2> DEFINE id == IF qos = 1 THEN GetNext ELSE 0
    <2>1. /\ phase = "idle" /\ link # "fresh" /\ UNCHANGED <<link, toClient, bSession>>
          /\ isconnected' => isconnected
        BY <1>3 DEF Publish, session
    <2>2. CASE Begin("publish", NoFilter, id, CommandTimeout)
        BY <2>1, <2>2 DEF Begin, NoResult
    <2>3. ASSUME NEW r, ReturnAtOnce("publish", id, r)
          PROVE  EndsInv'
        BY <2>1, <2>3, AtOnceEnds DEF ReturnAtOnce, NoCall
    <2>4. QED
        BY <1>3, <2>2, <2>3 DEF Publish
<1>4. CASE Yield
    BY <1>4 DEF Yield, Begin, session, network, NoResult
<1>5. CASE Disconnect
    <2>1. PICK r : ReturnAtOnce("disconnect", 0, r)
        BY <1>5 DEF Disconnect
    <2>2. QED
        BY <1>5, <2>1, AtOnceEnds DEF Disconnect, CloseSession, ReturnAtOnce, NoCall
<1>6. QED
    BY <1>1, <1>2, <1>3, <1>4, <1>5 DEF Calling, Subscribe, Unsubscribe

\* A call goes on: only a session that ended has failed.
LEMMA RunningEnds ==
    ASSUME EndsInv, phase # "idle", phase' # "idle", link' = link, result' = result,
           call'.op = call.op \/ (call.op = "connect" /\ call'.op = "resend"),
           isconnected' => isconnected, call'.failed => call.failed \/ ~isconnected',
           rc' \in {"FAILURE", "UNSUBACK", "CONNECT"} => ~isconnected',
           rc' = "FAILURE" => phase' = "loop", phase' = "read" => rc' = "none"
    PROVE  EndsInv'
BY DEF EndsInv, FreshIsEmpty, IdleIsClean, RunIsClean, SessionsEnd, Opening,
       YieldFailureCloses, ReadFailureCloses

LEMMA CycleFailsEnds ==
    ASSUME TypeOK, EndsInv, NEW r, NEW c, CycleFails(r, c), c.op = call.op,
           phase # "idle", link' = link, result' = result
    PROVE  EndsInv'
<1>1. phase' = "loop" /\ call' = c /\ isconnected' = FALSE
    BY DEF CycleFails, CloseSession, session, TypeOK, SessionTypeOK
<1>2. QED
    BY <1>1, RunningEnds

LEMMA CycleEnds ==
    ASSUME TypeOK, EndsInv, Reading \/ Keepalive
    PROVE  EndsInv'
<1>1. [call EXCEPT !.failed = TRUE].op = call.op
    BY CallValues DEF TypeOK, RunningTypeOK
<1>2. CASE ReadNothing
    BY <1>2, RunningEnds DEF ReadNothing, session, network
<1>3. CASE ReadError \/ ReadPartial \/ ReadOversized
    <2>1. PICK r : CycleFails(r, [call EXCEPT !.failed = TRUE])
        BY <1>3 DEF ReadError, ReadPartial, ReadOversized
    <2>2. phase = "read" /\ link' = link /\ result' = result
        BY <1>3 DEF ReadError, ReadPartial, ReadOversized, network
    <2>3. QED
        BY <1>1, <2>1, <2>2, CycleFailsEnds
<1>4. CASE ReadAck
    <2>1. rc' \in AckTypes \cup {"none"}
        BY <1>4 DEF ReadAck
    <2>2. QED
        BY <1>4, <2>1, RunningEnds DEF ReadAck, AckTypes
<1>5. CASE ReadPublish \/ ReadPublishIllFormed
    BY <1>5, RunningEnds DEF ReadPublish, ReadPublishIllFormed, session
<1>6. CASE ReadPublishAckFails \/ ReadUnexpected \/ KeepaliveFails
    <2>1. PICK r : CycleFails(r, call)
        BY <1>6 DEF ReadPublishAckFails, ReadUnexpected, KeepaliveFails
    <2>2. phase # "idle" /\ link' = link /\ result' = result
        BY <1>6 DEF ReadPublishAckFails, ReadUnexpected, KeepaliveFails, network
    <2>3. QED
        BY <2>1, <2>2, CycleFailsEnds
<1>7. CASE KeepaliveQuiet
    BY <1>7, RunningEnds DEF KeepaliveQuiet, session, network, EndsInv, SessionsEnd
<1>8. CASE KeepalivePings
    BY <1>8, RunningEnds DEF KeepalivePings, EndsInv, SessionsEnd
<1>9. QED
    BY <1>2, <1>3, <1>4, <1>5, <1>6, <1>7, <1>8 DEF Reading, Keepalive

\* A call returns: a yield() fails only without a session.
LEMMA ReturnEnds ==
    ASSUME EndsInv, phase # "idle", NEW r, Return(call, r), link' = link,
           isconnected' => isconnected \/ call.op \in {"connect", "resend"},
           call.op = "yield" => (r = "FAILURE" => ~isconnected')
    PROVE  EndsInv'
BY DEF EndsInv, Return, FreshIsEmpty, IdleIsClean, RunIsClean, SessionsEnd, Opening,
       YieldFailureCloses, ReadFailureCloses, NoCall

LEMMA LoopingEnds ==
    ASSUME TypeOK, EndsInv, Looping
    PROVE  EndsInv'
<1>1. phase = "loop" /\ link' = link
    BY DEF Looping, LoopAgain, YieldDone, ConnectDone, ConnectResends, PublishDone, ResendDone,
           SubscribeDone, UnsubscribeDone, network
<1>2. CASE LoopAgain
    BY <1>1, <1>2, RunningEnds DEF LoopAgain, session
<1>3. CASE YieldDone
    <2>1. rc = "FAILURE" => ~isconnected'
        BY <1>3 DEF YieldDone, session, EndsInv, SessionsEnd
    <2>2. QED
        BY <1>1, <1>3, <2>1, ReturnEnds DEF YieldDone, session
<1>4. CASE ConnectResends
    <2>1. CASE RequestFails(call)
        BY <1>1, <1>4, <2>1, ReturnEnds DEF RequestFails, CloseSession, ConnectResends
    <2>2. CASE /\ call' = [call EXCEPT !.op = "resend", !.id = inflight]
               /\ rc' = "none" /\ UNCHANGED <<session, phase, result>>
        <3>1. call'.op = "resend" /\ call.op = "connect" /\ call'.failed = call.failed
            BY <1>4, <2>2 DEF ConnectResends, TypeOK, RunningTypeOK, CallRecords
        <3>2. QED
            BY <1>1, <2>2, <3>1, RunningEnds DEF session
    <2>3. QED
        BY <1>4, <2>1, <2>2 DEF ConnectResends
<1>5. CASE ConnectDone \/ PublishDone \/ ResendDone \/ SubscribeDone \/ UnsubscribeDone
    <2>1. call.op # "yield" /\ \E r : Return(call, r)
        BY <1>5 DEF ConnectDone, PublishDone, ResendDone, SubscribeDone, UnsubscribeDone,
                    RequestFails
    <2>2. isconnected' => isconnected \/ call.op \in {"connect", "resend"}
        BY <1>5 DEF ConnectDone, PublishDone, ResendDone, SubscribeDone, UnsubscribeDone,
                    RequestFails, CloseSession, session
    <2>3. QED
        BY <1>1, <2>1, <2>2, ReturnEnds
<1>6. QED
    BY <1>2, <1>3, <1>4, <1>5 DEF Looping

LEMMA EndsStep ==
    ASSUME TypeOK, EndsInv, [Next]_vars
    PROVE  EndsInv'
<1> USE DEF EndsInv, FreshIsEmpty, IdleIsClean, RunIsClean, SessionsEnd, Opening,
            YieldFailureCloses, ReadFailureCloses
<1>1. CASE Calling
    BY <1>1, CallingEnds
<1>2. CASE CallStep
    BY <1>2, CycleEnds, LoopingEnds DEF CallStep
<1>3. CASE Tick
    BY <1>3 DEF Tick, session, running, network, broker
<1>4. CASE Network
    BY <1>4 DEF Network, Reconnect, LinkDown, LinkStalls, StalledDrains, session, running, broker
<1>5. CASE Broker
    <2>1. link = "up" /\ UNCHANGED <<session, running, link>>
        BY <1>5 DEF Broker, BrokerConnect, BrokerReceivesPublish, BrokerSubscribe,
               BrokerUnsubscribe, BrokerPing, BrokerPuback, BrokerDisconnect, BrokerIgnores,
               BrokerDelivers, Takes
    <2>2. QED
        BY <2>1 DEF session, running
<1>6. CASE UNCHANGED vars
    BY <1>6 DEF vars, session, running, network, broker
<1>7. QED
    BY <1>1, <1>2, <1>3, <1>4, <1>5, <1>6 DEF Next

LEMMA EndsHold == Spec => []EndsInv
<1>1. Init => EndsInv
    BY DEF Init, EndsInv, FreshIsEmpty, IdleIsClean, RunIsClean, SessionsEnd, Opening,
           YieldFailureCloses, ReadFailureCloses, NoCall, NoResult
<1>2. TypeOK /\ EndsInv /\ [Next]_vars => EndsInv'
    BY EndsStep
<1>3. QED
    BY <1>1, <1>2, TypeCorrect, PTL DEF Spec

-----------------------------------------------------------------------------
(* A connected client and its broker agree that there is a session, as     *)
(* long as no packet of the connection has been cut: first what sending,   *)
(* answering and reading do to the contents of a stream.                   *)

LEMMA ContentsAppend ==
    ASSUME NEW S, NEW s \in Seq(S), NEW e \in S
    PROVE  Contents(Append(s, e)) = Contents(s) \cup {e}
<1>1. Contents(Append(s, e)) \subseteq Contents(s) \cup {e}
    BY DEF Contents
<1>2. Contents(s) \subseteq Contents(Append(s, e))
    <2>1. ASSUME NEW k \in 1..Len(s) PROVE s[k] \in Contents(Append(s, e))
        <3>1. k \in 1..Len(Append(s, e)) /\ Append(s, e)[k] = s[k]
            OBVIOUS
        <3>2. QED
            BY <3>1 DEF Contents
    <2>2. QED
        BY <2>1 DEF Contents
<1>3. e \in Contents(Append(s, e))
    <2>1. Len(s) + 1 \in 1..Len(Append(s, e)) /\ Append(s, e)[Len(s) + 1] = e
        OBVIOUS
    <2>2. QED
        BY <2>1 DEF Contents
<1>4. QED
    BY <1>1, <1>2, <1>3

LEMMA ContentsTail ==
    ASSUME NEW S, NEW s \in Seq(S), s # <<>>
    PROVE  Contents(Tail(s)) \subseteq Contents(s) /\ Head(s) \in Contents(s)
<1>1. ASSUME NEW k \in 1..Len(Tail(s)) PROVE Tail(s)[k] \in Contents(s)
    <2>1. k + 1 \in 1..Len(s) /\ Tail(s)[k] = s[k + 1]
        OBVIOUS
    <2>2. QED
        BY <2>1 DEF Contents
<1>2. 1 \in 1..Len(s) /\ Head(s) = s[1]
    OBVIOUS
<1>3. QED
    BY <1>1, <1>2 DEF Contents

LEMMA ContentsEmpty == Contents(<<>>) = {}
BY DEF Contents

\* A packet that is sent is the only one that is new in the stream.
LEMMA SendContents ==
    ASSUME NetworkTypeOK, NEW p \in PacketsToBroker, Send(p)
    PROVE  Contents(toBroker') = Contents(toBroker) \cup {p}
BY ContentsAppend DEF Send, NetworkTypeOK

LEMMA AnswersContents ==
    ASSUME NetworkTypeOK, NEW p \in PacketsToClient, Answers(p)
    PROVE  Contents(toClient') = Contents(toClient) \cup {p}
BY ContentsAppend DEF Answers, NetworkTypeOK

\* The first packet stays the first, whatever is appended.
LEMMA AnswersHead ==
    ASSUME NetworkTypeOK, NEW p \in PacketsToClient, Answers(p)
    PROVE  /\ toClient' # <<>>
           /\ toClient = <<>> => Head(toClient') = p
           /\ toClient # <<>> => Head(toClient') = Head(toClient)
<1>1. toClient \in Seq(PacketsToClient) /\ toClient' = Append(toClient, p)
    BY DEF NetworkTypeOK, Answers
<1>2. QED
    BY <1>1

LEMMA NothingProves == ~ProvesSession(NoPacket)
BY DEF ProvesSession, NoPacket, Packet

\* Reading takes packets away.
LEMMA ReadContents ==
    ASSUME NetworkTypeOK, Readable
    PROVE  /\ Contents(Rest) \subseteq Contents(toClient)
           /\ Head(toClient) \in Contents(toClient)
<1>1. toClient \in Seq(PacketsToClient) /\ toClient # <<>>
    BY DEF NetworkTypeOK, Readable
<1>2. QED
    BY <1>1, ContentsTail DEF Rest

\* What holds while no packet of the connection has been cut.  No broker sends a
\* CONNECT.
NotSent == Rests \cup {"CONNECT"}
NoRests == \A p \in Contents(toClient) : p.type \notin NotSent
Parts == /\ SessionAgreement /\ NotLeaving /\ ProofsAreGenuine /\ ReadbufMatches
         /\ Greeted /\ NoRests

LEMMA PartsInit == Init => Parts
BY ContentsEmpty, NothingProves
   DEF Init, Parts, SessionAgreement, NotLeaving, ProofsAreGenuine, ReadbufMatches, Greeted,
       NoRests, NoCall, NoPacket, Packet

\* A new connection starts anew, whatever happened on the last one.
LEMMA PartsConnect ==
    ASSUME TypeOK, EndsInv, ~cut => Parts, Connect, ~cut'
    PROVE  Parts'
<1> USE DEF TypeOK, Parts
<1>1. CASE /\ Send(Packet("CONNECT", 0, NoFilter))
           /\ link' = "up"
           /\ Begin("connect", NoFilter, 0, CommandTimeout)
    <2>1. Packet("CONNECT", 0, NoFilter) \in PacketsToBroker
        BY ZeroId DEF Packet, PacketsToBroker
    <2>2. Contents(toBroker') = Contents(toBroker) \cup {Packet("CONNECT", 0, NoFilter)}
        BY <1>1, <2>1, SendContents
    <2>3. link = "fresh" /\ toBroker = <<>> /\ toClient = <<>> /\ bSession = "none"
        BY <1>1 DEF Connect, Send, CanSend, EndsInv, FreshIsEmpty
    <2>4. Contents(toBroker) = {} /\ Contents(toClient') = {}
        BY <2>3, ContentsEmpty DEF Connect
    <2>5. QED
        BY <1>1, <2>2, <2>3, <2>4, NothingProves
           DEF Connect, Begin, session, broker, Packet, SessionAgreement,
               NotLeaving, ProofsAreGenuine, ReadbufMatches, Greeted, NoRests
<1>2. CASE /\ ReturnAtOnce("connect", 0, "FAILURE")
           /\ UNCHANGED <<link, cut, toBroker>>
    BY <1>2 DEF Connect, ReturnAtOnce, Return, session, broker, SessionAgreement,
           NotLeaving, ProofsAreGenuine, ReadbufMatches, Greeted, NoRests, NoCall, EndsInv, IdleIsClean
<1>3. QED
    BY <1>1, <1>2 DEF Connect

\* A call that begins or returns at once without a packet that matters here:
\* the session either stays or ends, and the streams change by one packet that
\* is neither a DISCONNECT nor a proof of a session.
LEMMA PartsCall ==
    ASSUME TypeOK, Parts, phase = "idle",
           isconnected' => isconnected,
           \/ UNCHANGED toBroker
           \/ \E p : Contents(toBroker') = Contents(toBroker) \cup {p} /\ p.type # "DISCONNECT",
           UNCHANGED <<link, toClient, bSession>>,
           call' = NoCall \/ call'.op \notin {"connect", "resend"},
           rc' = "none", readbuf' = NoPacket
    PROVE  Parts'
<1> USE DEF TypeOK, Parts
<1>1. call'.op \notin {"connect", "resend"}
    BY DEF NoCall
<1>2. SessionAgreement' /\ ReadbufMatches' /\ Greeted' /\ NoRests'
    BY <1>1 DEF SessionAgreement, ReadbufMatches, Greeted, NoRests
<1>3. ProofsAreGenuine'
    BY NothingProves DEF ProofsAreGenuine
<1>4. NotLeaving'
    BY <1>1 DEF NotLeaving
<1>5. QED
    BY <1>2, <1>3, <1>4

LEMMA PartsRequest ==
    ASSUME TypeOK, Parts, NEW op \in {"subscribe", "unsubscribe"},
           NEW type \in {"SUBSCRIBE", "UNSUBSCRIBE"}, NEW f \in Filters, Request(op, type, f)
    PROVE  Parts'
<1> USE DEF TypeOK
<1>1. CASE /\ isconnected
           /\ Send(Packet(type, GetNext, f))
           /\ Begin(op, f, GetNext, CommandTimeout)
           /\ UNCHANGED session
    <2>1. Packet(type, GetNext, f) \in PacketsToBroker
        BY GetNextType DEF Packet, PacketsToBroker
    <2>2. Contents(toBroker') = Contents(toBroker) \cup {Packet(type, GetNext, f)}
        BY <1>1, <2>1, SendContents
    <2>3. Packet(type, GetNext, f).type # "DISCONNECT"
        BY DEF Packet
    <2>4. QED
        BY <1>1, <2>2, <2>3, PartsCall DEF Request, Begin, session, broker
<1>2. CASE /\ RequestFails([NoCall EXCEPT !.op = op, !.topic = f])
           /\ UNCHANGED <<toBroker, lastSent>>
    <2>1. /\ isconnected' = FALSE /\ phase' = "idle" /\ call' = NoCall
          /\ rc' = "none" /\ readbuf' = NoPacket
        BY <1>2 DEF RequestFails, CloseSession, Return
    <2>2. QED
        BY <1>2, <2>1, PartsCall DEF Request, broker
<1>3. QED
    BY <1>1, <1>2 DEF Request

LEMMA PartsPublish ==
    ASSUME TypeOK, Parts, NEW qos \in {0, 1}, Publish(qos)
    PROVE  Parts'
<1> DEFINE id == IF qos = 1 THEN GetNext ELSE 0
<1> USE DEF TypeOK
<1>1. id \in Ids
    BY GetNextType, ZeroId
<1>2. CASE /\ Send(Packet("PUBLISH", id, NoFilter))
           /\ IF qos = 1 THEN Begin("publish", NoFilter, id, CommandTimeout)
                         ELSE ReturnAtOnce("publish", id, "SUCCESS")
           /\ UNCHANGED <<isconnected, pingOutstanding, handlers>>
    <2>1. Packet("PUBLISH", id, NoFilter) \in PacketsToBroker
        BY <1>1 DEF Packet, PacketsToBroker
    <2>2. Contents(toBroker') = Contents(toBroker) \cup {Packet("PUBLISH", id, NoFilter)}
        BY <1>2, <2>1, SendContents
    <2>3. Packet("PUBLISH", id, NoFilter).type # "DISCONNECT"
        BY DEF Packet
    <2>4. /\ call' = NoCall \/ call'.op \notin {"connect", "resend"}
          /\ rc' = "none" /\ readbuf' = NoPacket
        BY <1>2 DEF Begin, ReturnAtOnce, Return
    <2>5. QED
        BY <1>2, <2>2, <2>3, <2>4, PartsCall DEF Publish
<1>3. CASE /\ ReturnAtOnce("publish", id, "FAILURE")
           /\ isconnected' \in {isconnected, FALSE}
           /\ UNCHANGED <<toBroker, lastSent>>
    <2>1. phase' = "idle" /\ call' = NoCall /\ rc' = "none" /\ readbuf' = NoPacket
        BY <1>3 DEF ReturnAtOnce, Return
    <2>2. isconnected' => isconnected
        BY <1>3 DEF SessionTypeOK
    <2>3. /\ phase = "idle" /\ link # "fresh"
          /\ UNCHANGED <<link, toClient, bSession>>
          /\ UNCHANGED toBroker
        BY <1>3 DEF Publish
    <2>4. QED
        BY <2>1, <2>2, <2>3, PartsCall
<1>4. CASE /\ MayPublish
           /\ inflight' = (IF CleanSession THEN inflight ELSE id)
           /\ Send(Packet("PUBLISH", id, NoFilter))
           /\ IF qos = 1 THEN Begin("publish", NoFilter, id, CommandTimeout)
                         ELSE ReturnAtOnce("publish", id, "SUCCESS")
           /\ UNCHANGED <<isconnected, pingOutstanding, handlers>>
    BY <1>2, <1>4
<1>5. CASE /\ MayPublish /\ ~CanSend
           /\ isconnected' = FALSE
           /\ ReturnAtOnce("publish", id, "FAILURE")
           /\ UNCHANGED <<toBroker, lastSent>>
    BY <1>3, <1>5
<1>6. CASE /\ ReturnAtOnce("publish", id, "FAILURE")
           /\ UNCHANGED <<session, toBroker, lastSent>>
    BY <1>3, <1>6 DEF session
<1>7. QED
    BY <1>4, <1>5, <1>6 DEF Publish

LEMMA PartsYield == ASSUME TypeOK, Parts, Yield PROVE Parts'
BY PartsCall DEF Yield, Begin, session, network, broker

LEMMA PartsDisconnect == ASSUME TypeOK, Parts, Disconnect PROVE Parts'
<1>1. /\ isconnected' = FALSE /\ call' = NoCall /\ rc' = "none" /\ readbuf' = NoPacket
    BY DEF Disconnect, CloseSession, ReturnAtOnce, Return
<1>2. QED
    BY <1>1, NothingProves
       DEF Disconnect, Parts, broker, SessionAgreement, NotLeaving, ProofsAreGenuine,
           ReadbufMatches, Greeted, NoRests, NoCall

-----------------------------------------------------------------------------
(* cycle()                                                                 *)

\* A step of a running call that leaves it running: the session stays or
\* ends, nothing that proves a session appears from nowhere, and connect() reads
\* nothing before its CONNACK.
LEMMA PartsRunning ==
    ASSUME TypeOK, Parts,
           isconnected' => isconnected,
           call'.op = call.op,
           Contents(toClient') \subseteq Contents(toClient),
           readbuf' \in Contents(toClient) \cup {readbuf, NoPacket},
           rc' \in {"CONNACK", "PUBACK"} => readbuf'.type = rc',
           call.op = "connect" => \/ rc' \in {"CONNACK", "FAILURE"} \/ link = "down"
                                  \/ rc \notin {"CONNACK", "FAILURE"} /\ UNCHANGED toClient,
           \/ UNCHANGED toBroker
           \/ \E p : Contents(toBroker') = Contents(toBroker) \cup {p} /\ p.type # "DISCONNECT",
           UNCHANGED <<link, bSession>>
    PROVE  Parts'
<1> USE DEF Parts
<1>1. SessionAgreement' /\ ReadbufMatches' /\ NoRests'
    BY DEF SessionAgreement, ReadbufMatches, NoRests
<1>2. ProofsAreGenuine'
    BY NothingProves DEF ProofsAreGenuine
<1>3. NotLeaving'
    BY DEF NotLeaving
<1>4. Greeted'
    BY DEF Greeted
<1>5. QED
    BY <1>1, <1>2, <1>3, <1>4

LEMMA CycleFailsParts ==
    ASSUME NEW r, NEW c, CycleFails(r, c), TypeOK
    PROVE  /\ phase' = "loop" /\ rc' = r /\ call' = c
           /\ isconnected' => isconnected
BY DEF CycleFails, CloseSession, session

LEMMA FailedReadParts ==
    ASSUME TypeOK, NEW r, CycleFails(r, [call EXCEPT !.failed = TRUE])
    PROVE  /\ phase' = "loop" /\ rc' = r /\ call'.op = call.op
           /\ isconnected' => isconnected
BY CycleFailsParts DEF TypeOK, RunningTypeOK, CallRecords

\* A packet that is not cut is read as it is.
LEMMA ConsumeWhole ==
    ASSUME NEW p, Consume(p), ~cut'
    PROVE  /\ p = Head(toClient) /\ p.type \notin Rests
           /\ readbuf' = p /\ toClient' = Rest /\ UNCHANGED cut
BY DEF Consume, Swallow

ReadsWhole ==
    /\ Readable /\ phase = "read"
    /\ readbuf' = Head(toClient) /\ toClient' = Rest /\ UNCHANGED <<link, cut>>

LEMMA WholeRead ==
    ASSUME \/ ReadAck \/ ReadPublish \/ ReadPublishIllFormed \/ ReadPublishAckFails
           \/ ReadUnexpected,
           ~cut'
    PROVE  ReadsWhole /\ (rc' = "FAILURE" \/ rc' = readbuf'.type)
<1>1. CASE ReadAck
    BY <1>1, ConsumeWhole DEF ReadAck, ReadsWhole
<1>2. CASE ReadPublish
    BY <1>2, ConsumeWhole DEF ReadPublish, ReadsWhole
<1>3. CASE ReadPublishIllFormed
    BY <1>3, ConsumeWhole DEF ReadPublishIllFormed, ReadsWhole
<1>4. CASE ReadPublishAckFails
    BY <1>4, ConsumeWhole DEF ReadPublishAckFails, CycleFails, ReadsWhole
<1>5. CASE ReadUnexpected
    BY <1>5, ConsumeWhole DEF ReadUnexpected, CycleFails, ReadsWhole
<1>6. QED
    BY <1>1, <1>2, <1>3, <1>4, <1>5

LEMMA PartialIsCut == ReadPartial \/ ReadOversized => cut'
BY DEF ReadPartial, ReadOversized, Swallow

\* What a whole read does, but for the session and the stream to the broker.
LEMMA WholeReadParts ==
    ASSUME TypeOK, EndsInv, Parts, ReadsWhole, rc' = "FAILURE" \/ rc' = readbuf'.type,
           isconnected' => isconnected, call' = call,
           \/ UNCHANGED toBroker
           \/ \E p : Contents(toBroker') = Contents(toBroker) \cup {p} /\ p.type # "DISCONNECT",
           UNCHANGED bSession
    PROVE  Parts'
<1>1. Contents(toClient') \subseteq Contents(toClient) /\ readbuf' \in Contents(toClient)
    BY ReadContents DEF ReadsWhole, TypeOK
<1>2. call.op = "connect" => Head(toClient).type = "CONNACK"
    BY DEF ReadsWhole, Readable, Parts, Greeted, EndsInv, RunIsClean
<1>3. QED
    BY <1>1, <1>2, PartsRunning DEF ReadsWhole

LEMMA PartsReading ==
    ASSUME TypeOK, EndsInv, Parts, Reading, ~cut'
    PROVE  Parts'
<1>1. CASE ReadNothing
    BY <1>1, PartsRunning DEF ReadNothing, session, network, broker, EndsInv, RunIsClean
<1>2. CASE ReadError
    <2>1. /\ phase' = "loop" /\ rc' = "FAILURE" /\ call'.op = call.op
          /\ isconnected' => isconnected
        BY <1>2, FailedReadParts DEF ReadError
    <2>2. QED
        BY <1>2, <2>1, PartsRunning DEF ReadError, network, broker
<1>3. ASSUME ReadAck \/ ReadPublishIllFormed \/ ReadPublishAckFails \/ ReadUnexpected
      PROVE  Parts'
    <2>1. UNCHANGED <<toBroker, bSession, call>>
        BY <1>3 DEF ReadAck, ReadPublishIllFormed, ReadPublishAckFails, ReadUnexpected, CycleFails,
                    broker
    <2>2. isconnected' => isconnected
        BY <1>3, CycleFailsParts
           DEF ReadAck, ReadPublishIllFormed, ReadPublishAckFails, ReadUnexpected, session
    <2>3. QED
        BY <1>3, <2>1, <2>2, WholeRead, WholeReadParts
<1>4. CASE ReadPublish
    <2>1. \/ UNCHANGED toBroker
          \/ \E p : Contents(toBroker') = Contents(toBroker) \cup {p} /\ p.type # "DISCONNECT"
        <3>1. CASE Send(Packet("PUBACK", 0, NoFilter))
            <4>1. Packet("PUBACK", 0, NoFilter) \in PacketsToBroker
                BY ZeroId DEF Packet, PacketsToBroker
            <4>2. Packet("PUBACK", 0, NoFilter).type # "DISCONNECT"
                BY DEF Packet
            <4>3. QED
                BY <3>1, <4>1, <4>2, SendContents DEF TypeOK
        <3>2. QED
            BY <1>4, <3>1 DEF ReadPublish
    <2>2. UNCHANGED <<isconnected, call, bSession>>
        BY <1>4 DEF ReadPublish, session, broker
    <2>3. QED
        BY <1>4, <2>1, <2>2, WholeRead, WholeReadParts
<1>5. QED
    BY <1>1, <1>2, <1>3, <1>4, PartialIsCut DEF Reading

LEMMA PartsKeepalive ==
    ASSUME TypeOK, EndsInv, Parts, Keepalive
    PROVE  Parts'
<1> USE DEF TypeOK
<1>1. CASE KeepaliveQuiet
    BY <1>1, PartsRunning DEF KeepaliveQuiet, session, network, broker, Parts, ReadbufMatches
<1>2. CASE KeepalivePings
    <2>1. Packet("PINGREQ", 0, NoFilter) \in PacketsToBroker
        BY ZeroId DEF Packet, PacketsToBroker
    <2>2. Contents(toBroker') = Contents(toBroker) \cup {Packet("PINGREQ", 0, NoFilter)}
        BY <1>2, <2>1, SendContents DEF KeepalivePings
    <2>3. Packet("PINGREQ", 0, NoFilter).type # "DISCONNECT"
        BY DEF Packet
    <2>4. QED
        BY <1>2, <2>2, <2>3, PartsRunning DEF KeepalivePings, broker, Parts, ReadbufMatches
<1>3. CASE KeepaliveFails
    BY <1>3, CycleFailsParts, PartsRunning DEF KeepaliveFails, network, broker
<1>4. QED
    BY <1>1, <1>2, <1>3 DEF Keepalive

-----------------------------------------------------------------------------
(* The ends of the calls                                                   *)

\* A call that returns: only connect() can have opened the session.
LEMMA PartsReturn ==
    ASSUME Parts, call' = NoCall,
           rc' = "none", readbuf' = NoPacket,
           isconnected' => \/ isconnected
                           \/ /\ call.op \in {"connect", "resend"}
                              /\ link # "down" => bSession = "open",
           UNCHANGED <<link, toBroker, toClient, bSession>>
    PROVE  Parts'
<1> USE DEF Parts
<1>1. SessionAgreement' /\ ReadbufMatches' /\ Greeted' /\ NoRests'
    BY DEF SessionAgreement, ReadbufMatches, Greeted, NoRests, NoCall
<1>2. ProofsAreGenuine'
    BY NothingProves DEF ProofsAreGenuine
<1>3. NotLeaving'
    BY DEF NotLeaving, NoCall
<1>4. QED
    BY <1>1, <1>2, <1>3

\* What connect() takes for an answer was sent by a broker that still has
\* the session open.
LEMMA AcceptedIsOpen ==
    ASSUME Parts, call.op \in {"connect", "resend"}, link # "down",
           \/ rc = "CONNACK" /\ readbuf.arg # "refused"
           \/ rc = "PUBACK"
    PROVE  bSession = "open"
<1>1. ProvesSession(readbuf)
    BY DEF Parts, ReadbufMatches, ProvesSession
<1>2. bSession \in {"open", "closed"}
    BY <1>1 DEF Parts, ProofsAreGenuine
<1>3. bSession # "closed"
    BY DEF Parts, NotLeaving
<1>4. QED
    BY <1>2, <1>3

LEMMA PartsConnectResends ==
    ASSUME TypeOK, Parts, ConnectResends
    PROVE  Parts'
<1> USE DEF TypeOK
<1>1. CASE /\ Send(Packet("PUBLISH", inflight, NoFilter))
           /\ call' = [call EXCEPT !.op = "resend", !.id = inflight]
           /\ rc' = "none" /\ readbuf' = NoPacket
           /\ UNCHANGED <<session, phase, timer, result>>
    <2>1. Packet("PUBLISH", inflight, NoFilter) \in PacketsToBroker
        BY DEF Packet, PacketsToBroker, SessionTypeOK
    <2>2. Contents(toBroker') = Contents(toBroker) \cup {Packet("PUBLISH", inflight, NoFilter)}
        BY <1>1, <2>1, SendContents
    <2>3. Packet("PUBLISH", inflight, NoFilter).type # "DISCONNECT"
        BY DEF Packet
    <2>4. /\ phase # "idle" /\ phase' = phase /\ call.op = "connect" /\ call'.op = "resend"
          /\ UNCHANGED <<isconnected, link, toClient, bSession>>
          /\ rc' = "none" /\ readbuf' = NoPacket
        BY <1>1 DEF ConnectResends, session, broker, RunningTypeOK, CallRecords
    <2>5. SessionAgreement' /\ ReadbufMatches' /\ Greeted' /\ NoRests'
        BY <2>4 DEF Parts, SessionAgreement, ReadbufMatches, Greeted, NoRests
    <2>6. ProofsAreGenuine'
        BY <2>4, NothingProves DEF Parts, ProofsAreGenuine
    <2>7. NotLeaving'
        BY <2>2, <2>3, <2>4 DEF Parts, NotLeaving
    <2>8. QED
        BY <2>5, <2>6, <2>7 DEF Parts
<1>2. CASE /\ RequestFails(call)
           /\ UNCHANGED <<lastSent, toBroker>>
    <2>1. /\ phase' = "idle" /\ call' = NoCall /\ rc' = "none" /\ readbuf' = NoPacket
          /\ ~isconnected'
        BY <1>2 DEF RequestFails, CloseSession, Return
    <2>2. phase # "idle" /\ UNCHANGED <<link, toBroker, toClient, bSession>>
        BY <1>2 DEF ConnectResends, broker
    <2>3. QED
        BY <2>1, <2>2, PartsReturn
<1>3. QED
    BY <1>1, <1>2 DEF ConnectResends

LEMMA PartsLooping ==
    ASSUME TypeOK, Parts, Looping
    PROVE  Parts'
<1>1. CASE LoopAgain
    BY <1>1, PartsRunning
       DEF LoopAgain, session, network, broker, Answered, GivesUp, Awaited
<1>2. CASE YieldDone
    BY <1>2, PartsReturn DEF YieldDone, Return, session, network, broker
<1>3. CASE ConnectDone
    <2>1. isconnected' /\ link # "down" => bSession = "open"
        BY <1>3, AcceptedIsOpen DEF ConnectDone, Accepted, Answered, Awaited
    <2>2. QED
        BY <1>3, <2>1, PartsReturn DEF ConnectDone, Return, network, broker
<1>4. CASE ConnectResends
    BY <1>4, PartsConnectResends
<1>5. CASE PublishDone
    BY <1>5, PartsReturn DEF PublishDone, Return, RequestFails, CloseSession, network, broker
<1>6. CASE ResendDone
    <2>1. isconnected' => Answered
        BY <1>6 DEF ResendDone, Acknowledged, RequestFails, CloseSession
    <2>2. isconnected' /\ link # "down" => bSession = "open"
        BY <1>6, <2>1, AcceptedIsOpen DEF ResendDone, Answered, Awaited
    <2>3. QED
        BY <1>6, <2>2, PartsReturn
           DEF ResendDone, Return, RequestFails, CloseSession, network, broker
<1>7. CASE SubscribeDone
    BY <1>7, PartsReturn
       DEF SubscribeDone, Return, RequestFails, CloseSession, session, network, broker
<1>8. CASE UnsubscribeDone
    BY <1>8, PartsReturn DEF UnsubscribeDone, Return, RequestFails, CloseSession, network, broker
<1>9. QED
    BY <1>1, <1>2, <1>3, <1>4, <1>5, <1>6, <1>7, <1>8 DEF Looping

-----------------------------------------------------------------------------
(* The environment                                                         *)

LEMMA PartsTick == ASSUME Parts, Tick PROVE Parts'
BY DEF Tick, session, running, network, broker, Parts, SessionAgreement, NotLeaving,
       ProofsAreGenuine, ReadbufMatches, Greeted, NoRests, Contents

LEMMA PartsNetwork ==
    ASSUME TypeOK, EndsInv, Parts, Network
    PROVE  Parts'
<1> USE DEF Parts, SessionAgreement, NotLeaving, ProofsAreGenuine, ReadbufMatches, Greeted,
            NoRests
<1>1. CASE Reconnect
    BY <1>1, ContentsEmpty, NothingProves
       DEF Reconnect, session, running, NoCall, EndsInv, IdleIsClean
<1>2. CASE LinkDown
    BY <1>2, ContentsEmpty DEF LinkDown, session, running, broker
<1>3. CASE LinkStalls
    BY <1>3 DEF LinkStalls, session, running, broker
<1>4. CASE StalledDrains
    <2>1. Contents(toBroker') \subseteq Contents(toBroker)
        BY <1>4, ContentsTail DEF StalledDrains, TypeOK, NetworkTypeOK
    <2>2. QED
        BY <1>4, <2>1 DEF StalledDrains, session, running, broker
<1>5. QED
    BY <1>1, <1>2, <1>3, <1>4 DEF Network

\* The broker takes packets, answers, opens a session on a new connection and
\* closes one after a DISCONNECT.
LEMMA PartsBroker ==
    ASSUME Parts, link = "up",
           UNCHANGED <<isconnected, phase, call, rc, readbuf, link>>,
           Contents(toBroker') \subseteq Contents(toBroker),
           \/ UNCHANGED toClient
           \/ \E p : /\ Contents(toClient') = Contents(toClient) \cup {p}
                     /\ ProvesSession(p) => bSession' = "open"
                     /\ p.type \notin NotSent
                     /\ toClient' # <<>>
                     /\ toClient = <<>> => Head(toClient') = p
                     /\ toClient # <<>> => Head(toClient') = Head(toClient)
                     /\ bSession = "none" => p.type = "CONNACK",
           \/ UNCHANGED bSession
           \/ bSession = "none" /\ bSession' \in {"open", "refused"} /\ toClient' # toClient
           \/ /\ bSession = "open" /\ bSession' = "closed"
              /\ \E p \in Contents(toBroker) : p.type = "DISCONNECT"
    PROVE  Parts'
<1> USE DEF Parts
<1>1. SessionAgreement'
    BY DEF SessionAgreement, NotLeaving
<1>2. Greeted' /\ ReadbufMatches' /\ NoRests'
    BY DEF Greeted, ReadbufMatches, NoRests
<1>3. NotLeaving'
    BY DEF NotLeaving
<1>4. ProofsAreGenuine'
    BY DEF ProofsAreGenuine
<1>5. QED
    BY <1>1, <1>2, <1>3, <1>4

LEMMA TakesParts ==
    ASSUME TypeOK, NEW types, Takes(types)
    PROVE  /\ link = "up" /\ UNCHANGED <<isconnected, phase, call, rc, readbuf, link>>
           /\ Contents(toBroker') \subseteq Contents(toBroker)
           /\ Head(toBroker) \in Contents(toBroker) /\ Head(toBroker).type \in types
BY ContentsTail DEF Takes, session, running, TypeOK, NetworkTypeOK

LEMMA HeadId ==
    ASSUME TypeOK, NEW types, Takes(types)
    PROVE  Head(toBroker).id \in Ids
BY TakesType DEF PacketsToBroker

\* An answer of the broker.
LEMMA AnswersParts ==
    ASSUME NetworkTypeOK, NEW p \in PacketsToClient, Answers(p), p.type \notin NotSent
    PROVE  /\ Contents(toClient') = Contents(toClient) \cup {p}
           /\ p.type \notin NotSent /\ toClient' # <<>>
           /\ toClient = <<>> => Head(toClient') = p
           /\ toClient # <<>> => Head(toClient') = Head(toClient)
           /\ toClient' # toClient
<1>1. toClient' # toClient
    BY DEF NetworkTypeOK, Answers
<1>2. QED
    BY <1>1, AnswersContents, AnswersHead

LEMMA PartsBrokerSteps ==
    ASSUME TypeOK, Parts, Broker
    PROVE  Parts'
<1> USE DEF TypeOK
<1>1. CASE BrokerConnect
    <2>1. ASSUME NEW code \in {"ok", "refused"}, Answers(Packet("CONNACK", 0, code)),
                 code = "ok" => bSession' = "open", bSession' \in {"open", "refused"}
          PROVE  Parts'
        <3> DEFINE p == Packet("CONNACK", 0, code)
        <3>1. p \in PacketsToClient /\ p.type = "CONNACK" /\ p.type \notin NotSent
            BY ZeroId DEF Packet, PacketsToClient, ToClientTypes, ReadTypes, AckTypes, Codes,
                          Rests, NotSent
        <3>2. ProvesSession(p) => bSession' = "open"
            BY <2>1 DEF ProvesSession, Packet
        <3>3. Answers(p)
            BY <2>1
        <3> HIDE DEF p
        <3>4. QED
            BY <1>1, <2>1, <3>1, <3>2, <3>3, AnswersParts, TakesParts, PartsBroker DEF BrokerConnect
    <2>2. QED
        BY <1>1, <2>1 DEF BrokerConnect
<1>2. ASSUME NEW p \in PacketsToClient, p.type \notin NotSent, Answers(p), link = "up",
             UNCHANGED <<isconnected, phase, call, rc, readbuf, link>>,
             Contents(toBroker') \subseteq Contents(toBroker),
             bSession = "open", UNCHANGED bSession
      PROVE  Parts'
    BY <1>2, AnswersParts, PartsBroker
<1>3. ASSUME NEW t \in {"PUBACK", "SUBACK", "UNSUBACK", "PINGRESP", "PUBLISH"}, NEW i \in Ids,
             NEW a \in Filters \cup {NoFilter} \cup Codes
      PROVE  Packet(t, i, a) \in PacketsToClient /\ Packet(t, i, a).type \notin NotSent
    BY DEF Packet, PacketsToClient, ToClientTypes, ReadTypes, AckTypes, Rests, NotSent
<1>4. CASE BrokerReceivesPublish
    <2>1. Packet("PUBACK", Head(toBroker).id, NoFilter) \in PacketsToClient
          /\ Packet("PUBACK", Head(toBroker).id, NoFilter).type \notin NotSent
        BY <1>3, <1>4, HeadId DEF BrokerReceivesPublish
    <2>2. CASE UNCHANGED toClient
        BY <1>4, <2>2, TakesParts, PartsBroker DEF BrokerReceivesPublish
    <2>3. CASE Answers(Packet("PUBACK", Head(toBroker).id, NoFilter))
        BY <1>2, <1>4, <2>1, <2>3, TakesParts DEF BrokerReceivesPublish
    <2>4. QED
        BY <1>4, <2>2, <2>3 DEF BrokerReceivesPublish
<1>5. CASE BrokerSubscribe
    <2>1. PICK code \in {"ok", "refused"} : Answers(Packet("SUBACK", Head(toBroker).id, code))
        BY <1>5 DEF BrokerSubscribe
    <2>2. Packet("SUBACK", Head(toBroker).id, code) \in PacketsToClient
          /\ Packet("SUBACK", Head(toBroker).id, code).type \notin NotSent
        BY <1>3, <1>5, HeadId DEF BrokerSubscribe, Codes
    <2>3. QED
        BY <1>2, <1>5, <2>1, <2>2, TakesParts DEF BrokerSubscribe
<1>6. CASE BrokerUnsubscribe
    <2>1. Packet("UNSUBACK", Head(toBroker).id, NoFilter) \in PacketsToClient
          /\ Packet("UNSUBACK", Head(toBroker).id, NoFilter).type \notin NotSent
        BY <1>3, <1>6, HeadId DEF BrokerUnsubscribe
    <2>2. QED
        BY <1>2, <1>6, <2>1, TakesParts DEF BrokerUnsubscribe
<1>7. CASE BrokerPing
    <2>1. Packet("PINGRESP", 0, NoFilter) \in PacketsToClient
          /\ Packet("PINGRESP", 0, NoFilter).type \notin NotSent
        BY <1>3, ZeroId
    <2>2. QED
        BY <1>2, <1>7, <2>1, TakesParts DEF BrokerPing, broker
<1>8. CASE BrokerPuback
    BY <1>8, TakesParts, PartsBroker DEF BrokerPuback, broker
<1>9. CASE BrokerDisconnect
    BY <1>9, TakesParts, PartsBroker DEF BrokerDisconnect
<1>10. CASE BrokerIgnores
    BY <1>10, TakesParts, PartsBroker DEF BrokerIgnores, broker
<1>11. CASE BrokerDelivers
    <2>1. PICK f \in bSubs, id \in {0, 1} : Answers(Packet("PUBLISH", id, f))
        BY <1>11 DEF BrokerDelivers
    <2>2. id \in Ids /\ f \in Filters
        BY DEF BrokerTypeOK, Ids
    <2>3. Packet("PUBLISH", id, f) \in PacketsToClient
          /\ Packet("PUBLISH", id, f).type \notin NotSent
        BY <1>3, <2>2
    <2>4. QED
        BY <1>2, <1>11, <2>1, <2>3 DEF BrokerDelivers, session, running, broker
<1>12. QED
    BY <1>1, <1>4, <1>5, <1>6, <1>7, <1>8, <1>9, <1>10, <1>11 DEF Broker

-----------------------------------------------------------------------------
\* Only connect() takes back that a packet of the connection has been cut.
LEMMA CutStays ==
    ASSUME [Next]_vars, ~cut'
    PROVE  ~cut \/ Connect
<1>1. CASE Calling
    BY <1>1 DEF Calling, Subscribe, Unsubscribe, Request, Publish, Yield, Disconnect, network
<1>2. CASE Reading
    <2>1. CASE ReadNothing \/ ReadError
        BY <2>1 DEF ReadNothing, ReadError, network
    <2>2. QED
        BY <1>2, <2>1, WholeRead, PartialIsCut DEF Reading, ReadsWhole
<1>3. CASE Keepalive \/ Looping
    BY <1>3 DEF Keepalive, KeepaliveQuiet, KeepalivePings, KeepaliveFails, Looping, LoopAgain,
           YieldDone, ConnectDone, ConnectResends, PublishDone, ResendDone, SubscribeDone,
           UnsubscribeDone, network
<1>4. CASE Tick \/ Network
    BY <1>4 DEF Tick, Network, Reconnect, LinkDown, LinkStalls, StalledDrains, network
<1>5. CASE Broker
    BY <1>5 DEF Broker, BrokerConnect, BrokerReceivesPublish, BrokerSubscribe,
           BrokerUnsubscribe, BrokerPing, BrokerPuback, BrokerDisconnect, BrokerIgnores,
           BrokerDelivers, Takes
<1>6. CASE UNCHANGED vars
    BY <1>6 DEF vars, network
<1>7. QED
    BY <1>1, <1>2, <1>3, <1>4, <1>5, <1>6 DEF Next, CallStep

LEMMA PartsStep ==
    ASSUME TypeOK, EndsInv, ~cut => Parts, [Next]_vars, ~cut'
    PROVE  Parts'
<1>1. CASE Connect
    BY <1>1, PartsConnect
<1>2. SUFFICES ASSUME Parts PROVE Parts'
    BY <1>1, CutStays
<1>3. CASE Calling
    BY <1>1, <1>2, <1>3, PartsYield, PartsDisconnect, PartsRequest, PartsPublish
       DEF Calling, Subscribe, Unsubscribe
<1>4. CASE CallStep
    BY <1>2, <1>4, PartsReading, PartsKeepalive, PartsLooping DEF CallStep
<1>5. CASE Tick
    BY <1>2, <1>5, PartsTick
<1>6. CASE Network
    BY <1>2, <1>6, PartsNetwork
<1>7. CASE Broker
    BY <1>2, <1>7, PartsBrokerSteps
<1>8. CASE UNCHANGED vars
    BY <1>2, <1>8 DEF vars, session, running, network, broker, Parts, SessionAgreement,
           NotLeaving, ProofsAreGenuine, ReadbufMatches, Greeted, NoRests, Contents
<1>9. QED
    BY <1>3, <1>4, <1>5, <1>6, <1>7, <1>8 DEF Next

-----------------------------------------------------------------------------
(* Where packets do not come in pieces, one that is cut ends the session.  *)

\* Only a PUBLISH that does not fit is cut then, and connect() does not read it.
LEMMA CutCloses ==
    ASSUME TypeOK, EndsInv, Parts, ~SplitReads, Reading, ~cut, cut'
    PROVE  /\ ~isconnected' /\ rc' = "FAILURE" /\ call'.op = call.op /\ call.op # "connect"
           /\ result' = NoResult
<1>1. phase = "read" /\ rc = "none" /\ result' = result /\ result = NoResult
    BY DEF Reading, ReadNothing, ReadError, ReadPartial, ReadOversized, ReadAck, ReadPublish,
           ReadPublishIllFormed, ReadPublishAckFails, ReadUnexpected, EndsInv, RunIsClean
<1>2. Readable => Head(toClient).type \notin Rests
    BY ReadContents DEF Parts, NoRests, NotSent, TypeOK
<1>3. Readable => MadeOf(Head(toClient)) = {}
    BY <1>2 DEF MadeOf, Rests
<1>4. ASSUME Readable, NEW p \in Readings, Consume(p)
      PROVE  UNCHANGED cut
    BY <1>2, <1>3, <1>4 DEF Consume
<1>5. ReadOversized /\ Head(toClient).type = "PUBLISH"
    <2>1. ~(ReadNothing \/ ReadError)
        BY DEF ReadNothing, ReadError, network
    <2>2. ~ReadPartial
        BY <1>2 DEF ReadPartial
    <2>3. ~(ReadAck \/ ReadPublish \/ ReadPublishAckFails \/ ReadUnexpected)
        BY <1>4 DEF ReadAck, ReadPublish, ReadPublishAckFails, ReadUnexpected
    <2>4. ~ReadPublishIllFormed
        BY <1>4 DEF ReadPublishIllFormed, Readings
    <2>5. QED
        BY <1>2, <2>1, <2>2, <2>3, <2>4 DEF Reading, ReadOversized
<1>6. call.op # "connect"
    BY <1>1, <1>5 DEF ReadOversized, Readable, Parts, Greeted
<1>7. call'.op = call.op /\ rc' = "FAILURE"
    BY <1>5, FailedReadParts DEF ReadOversized
<1>8. ~isconnected'
    BY <1>5 DEF ReadOversized, CycleFails, CloseSession, session
<1>9. QED
    BY <1>1, <1>6, <1>7, <1>8

\* Then every call fails, but for connect() on a new connection.
LEMMA CutIsClosedCalling ==
    ASSUME TypeOK, EndsInv, CutIsClosed, ~SplitReads, cut, Calling, cut'
    PROVE  CutIsClosed'
<1> USE DEF CutIsClosed
<1>1. CASE Connect
    BY <1>1 DEF Connect, ReturnAtOnce, Return, session, NoCall, Waiting
<1>2. CASE Yield
    BY <1>2 DEF Yield, Begin, session, NoResult, Waiting
<1>3. CASE Disconnect
    BY <1>3 DEF Disconnect, CloseSession, ReturnAtOnce, Return, NoCall, Waiting
<1>4. ASSUME NEW o \in {"subscribe", "unsubscribe"}, NEW type, NEW f, Request(o, type, f)
      PROVE  CutIsClosed'
    BY <1>4 DEF Request, RequestFails, CloseSession, Return, NoCall, Waiting
<1>5. ASSUME NEW qos, Publish(qos)
      PROVE  CutIsClosed'
    BY <1>5 DEF Publish, MayPublish, ReturnAtOnce, Return, session, NoCall, Waiting
<1>6. QED
    BY <1>1, <1>2, <1>3, <1>4, <1>5 DEF Calling, Subscribe, Unsubscribe

LEMMA CutIsClosedStep ==
    ASSUME TypeOK, EndsInv, ~cut => Parts, CutIsClosed, [Next]_vars
    PROVE  CutIsClosed'
<1>1. SUFFICES ASSUME ~SplitReads, cut' PROVE CutIsClosed'
    BY DEF CutIsClosed
<1> USE DEF CutIsClosed
<1>2. cut \/ Reading
    BY <1>1 DEF Next, CallStep, Calling, Connect, Subscribe, Unsubscribe, Request, Publish, Yield,
           Disconnect, Keepalive, KeepaliveQuiet, KeepalivePings, KeepaliveFails, Looping,
           LoopAgain, YieldDone, ConnectDone, ConnectResends, PublishDone, ResendDone,
           SubscribeDone, UnsubscribeDone, Tick, Network, Reconnect, LinkDown, LinkStalls,
           StalledDrains, Broker, BrokerConnect, BrokerReceivesPublish, BrokerSubscribe,
           BrokerUnsubscribe, BrokerPing, BrokerPuback, BrokerDisconnect, BrokerIgnores,
           BrokerDelivers, Takes, network, vars
<1>3. CASE ~cut
    BY <1>1, <1>2, <1>3, CutCloses DEF NoResult
<1>4. CASE cut /\ Calling
    BY <1>1, <1>4, CutIsClosedCalling
<1>5. CASE cut /\ (Reading \/ Keepalive)
    <2>1. rc # "FAILURE"
        BY <1>5 DEF Reading, ReadNothing, ReadError, ReadPartial, ReadOversized, ReadAck,
               ReadPublish, ReadPublishIllFormed, ReadPublishAckFails, ReadUnexpected, Keepalive,
               KeepaliveQuiet, KeepalivePings, KeepaliveFails, EndsInv, RunIsClean, SessionsEnd
    <2>2. call.op \notin Waiting
        BY <1>1, <1>5, <2>1
    <2>3. ASSUME NEW r, NEW c, CycleFails(r, c) PROVE ~isconnected'
        BY <1>1, <1>5, <2>3, CycleFailsParts
    <2>4. call'.op = call.op
        BY <1>5, CallValues
           DEF Reading, ReadNothing, ReadError, ReadPartial, ReadOversized, ReadAck,
               ReadPublish, ReadPublishIllFormed, ReadPublishAckFails, ReadUnexpected, Keepalive,
               KeepaliveQuiet, KeepalivePings, KeepaliveFails, CycleFails, TypeOK, RunningTypeOK
    <2>5. result' = result /\ ~isconnected'
        BY <1>1, <1>5, <2>3
           DEF Reading, ReadNothing, ReadError, ReadPartial, ReadOversized, ReadAck,
               ReadPublish, ReadPublishIllFormed, ReadPublishAckFails, ReadUnexpected, Keepalive,
               KeepaliveQuiet, KeepalivePings, KeepaliveFails, session
    <2>6. QED
        BY <1>1, <1>5, <2>2, <2>4, <2>5
<1>6. CASE cut /\ Looping
    <2>1. CASE LoopAgain
        <3>1. call.op \notin Waiting
            BY <1>1, <1>6, <2>1 DEF LoopAgain, GivesUp
        <3>2. QED
            BY <1>1, <1>6, <2>1, <3>1 DEF LoopAgain, session
    <2>2. CASE YieldDone
        BY <1>1, <1>6, <2>2 DEF YieldDone, Return, session, NoCall, Waiting
    <2>3. CASE ConnectDone \/ ConnectResends
        BY <1>1, <1>6, <2>3 DEF ConnectDone, ConnectResends, Waiting
    <2>4. CASE PublishDone \/ ResendDone \/ SubscribeDone \/ UnsubscribeDone
        <3>1. ~Answered
            BY <1>1, <1>6, <2>4
               DEF PublishDone, ResendDone, SubscribeDone, UnsubscribeDone, Waiting, Answered,
                   Awaited
        <3>2. RequestFails(call)
            BY <2>4, <3>1
               DEF PublishDone, ResendDone, SubscribeDone, UnsubscribeDone, Acknowledged
        <3>3. QED
            BY <3>2 DEF RequestFails, CloseSession, Return, NoCall, Waiting
    <2>5. QED
        BY <1>6, <2>1, <2>2, <2>3, <2>4 DEF Looping
<1>7. CASE cut /\ (Tick \/ Network \/ Broker \/ UNCHANGED vars)
    <2>1. UNCHANGED <<isconnected, call, rc, result>>
        BY <1>7 DEF Tick, Network, Reconnect, LinkDown, LinkStalls,
           StalledDrains, Broker, BrokerConnect, BrokerReceivesPublish, BrokerSubscribe,
           BrokerUnsubscribe, BrokerPing, BrokerPuback, BrokerDisconnect, BrokerIgnores,
           BrokerDelivers, Takes, session, running, vars
    <2>2. QED
        BY <1>1, <1>7, <2>1
<1>8. QED
    BY <1>3, <1>4, <1>5, <1>6, <1>7 DEF Next, CallStep

PartsInv == (~cut => Parts) /\ CutIsClosed

LEMMA PartsHold == Spec => []PartsInv
<1>1. Init => PartsInv
    BY PartsInit DEF PartsInv, CutIsClosed, Init
<1>2. TypeOK /\ EndsInv /\ PartsInv /\ [Next]_vars => PartsInv'
    BY PartsStep, CutIsClosedStep DEF PartsInv
<1>3. QED
    BY <1>1, <1>2, TypeCorrect, EndsHold, PTL DEF Spec

\* The inductive invariant: as long as no packet of the connection has been cut, all
\* that SessionInv says of the client, the connection and the broker holds in every
\* state; a rest is found only after a cut, and where packets do not come in pieces
\* a cut ends the session.
THEOREM SessionInvariant == Spec => []SessionInv
<1>1. EndsInv /\ PartsInv => SessionInv
    BY DEF SessionInv, EndsInv, PartsInv, Parts, NoRests, NotSent, RestsAreCuts
<1>2. QED
    BY <1>1, EndsHold, PartsHold, PTL

\* While no packet is split, a client that says it is connected has a broker
\* that accepted its CONNECT at the other end of its connection.
THEOREM SessionAgreed == ASSUME ~SplitReads PROVE Spec => []SessionAgreement
<1>1. SessionInv => SessionAgreement
    BY DEF SessionInv, CutIsClosed, SessionAgreement
<1>2. QED
    BY <1>1, SessionInvariant, PTL

-----------------------------------------------------------------------------
(* MQTTClient implements ClientContract, whatever the broker, the network  *)
(* and the clock do and also when packets are split.  Every step has one   *)
(* of a few shapes, and each shape is a step of the contract or none.      *)

Rcs == {"SUCCESS", "FAILURE"}

-----------------------------------------------------------------------------
(* The shapes of a step.                                                   *)

BeginsCall(o) ==
    /\ phase = "idle" /\ phase' # "idle"
    /\ call'.op = o /\ rc' = "none" /\ result' = NoResult
    /\ isconnected' = isconnected
    /\ o \in Client!Requests => isconnected
    /\ o = "connect" => ~isconnected

ReturnsAtOnce(o, r) ==
    /\ phase = "idle" /\ phase' = "idle"
    /\ call' = NoCall /\ rc' = "none" /\ result'.op = o /\ result'.rc = r
    /\ o \in Client!Requests /\ r = "SUCCESS" => isconnected
    /\ o = "connect" => r = "FAILURE" /\ ~isconnected
    /\ isconnected' = Client!AfterCall(o, r)

RefusesPublish ==
    /\ phase = "idle" /\ phase' = "idle"
    /\ call' = NoCall /\ rc' = "none" /\ result'.op = "publish" /\ result'.rc = "FAILURE"
    /\ isconnected' = isconnected

GoesOn ==
    /\ phase # "idle" /\ phase' # "idle" /\ result' = result
    /\ call'.op = call.op \/ (call.op = "connect" /\ call'.op = "resend")
    /\ isconnected' = isconnected \/ isconnected' = FALSE
    /\ rc' = "FAILURE" => ~isconnected'

EndsCall(r) ==
    /\ phase # "idle" /\ phase' = "idle"
    /\ call' = NoCall /\ rc' = "none" /\ result'.op = call.op /\ result'.rc = r
    /\ isconnected' = Client!AfterCall(PublicOp(call.op), r)

Aside == UNCHANGED <<phase, call, rc, result, isconnected>>

Shaped ==
    \/ \E o \in Client!Ops : BeginsCall(o)
    \/ \E o \in Client!Ops, r \in Rcs : ReturnsAtOnce(o, r)
    \/ RefusesPublish
    \/ GoesOn
    \/ \E r \in Rcs : EndsCall(r)
    \/ Aside

-----------------------------------------------------------------------------
(* Every step has a shape.                                                 *)

LEMMA CallFields ==
    ASSUME call \in CallRecords
    PROVE  /\ [call EXCEPT !.failed = TRUE].op = call.op
           /\ NoCall.op = "none"
           /\ \A o : [NoCall EXCEPT !.op = o].op = o
BY DEF CallRecords, NoCall

\* The exit path of a request returns a failure and ends the session.
LEMMA FailureShape ==
    ASSUME NEW c, RequestFails(c)
    PROVE  /\ phase' = "idle" /\ call' = NoCall /\ rc' = "none"
           /\ result'.op = c.op /\ result'.rc = "FAILURE" /\ isconnected' = FALSE
BY DEF RequestFails, Return, CloseSession

\* A cycle that fails leaves no session and goes back to its loop.
LEMMA CycleFailsShape ==
    ASSUME TypeOK, phase # "idle", NEW r, NEW c, c.op = call.op, CycleFails(r, c),
           result' = result
    PROVE  GoesOn
BY DEF CycleFails, CloseSession, GoesOn, TypeOK, SessionTypeOK, session

LEMMA AtOnceShape ==
    ASSUME NEW o, NEW id, NEW r, ReturnAtOnce(o, id, r)
    PROVE  /\ phase' = "idle" /\ call' = NoCall /\ rc' = "none"
           /\ result'.op = o /\ result'.rc = r
BY DEF ReturnAtOnce, Return, NoCall

LEMMA CallingShape ==
    ASSUME TypeOK, ContractInv, Calling
    PROVE  Shaped
<1> USE DEF Rcs, Client!Ops, Client!Requests
<1>1. CASE Connect
    <2>1. CASE Begin("connect", NoFilter, 0, CommandTimeout)
        <3>1. BeginsCall("connect")
            BY <1>1, <2>1 DEF Connect, Begin, BeginsCall, session
        <3>2. QED
            BY <3>1 DEF Shaped
    <2>2. CASE ReturnAtOnce("connect", 0, "FAILURE")
        <3>1. isconnected' = FALSE /\ ~isconnected /\ phase = "idle"
            BY <1>1 DEF Connect, session, TypeOK, SessionTypeOK
        <3>2. ReturnsAtOnce("connect", "FAILURE")
            BY <2>2, <3>1, AtOnceShape DEF ReturnsAtOnce, Client!AfterCall
        <3>3. QED
            BY <3>2 DEF Shaped
    <2>3. QED
        BY <1>1, <2>1, <2>2 DEF Connect
<1>2. ASSUME NEW o \in {"subscribe", "unsubscribe"}, NEW type, NEW f \in Filters,
             Request(o, type, f)
      PROVE  Shaped
    <2>1. CASE isconnected /\ Begin(o, f, GetNext, CommandTimeout) /\ UNCHANGED session
        <3>1. BeginsCall(o)
            BY <1>2, <2>1 DEF Request, Begin, BeginsCall, session
        <3>2. QED
            BY <3>1 DEF Shaped
    <2>2. CASE RequestFails([NoCall EXCEPT !.op = o, !.topic = f])
        <3>1. [NoCall EXCEPT !.op = o, !.topic = f].op = o
            BY DEF NoCall
        <3>2. ReturnsAtOnce(o, "FAILURE")
            BY <1>2, <2>2, <3>1, FailureShape DEF Request, ReturnsAtOnce, Client!AfterCall
        <3>3. QED
            BY <3>2 DEF Shaped
    <2>3. QED
        BY <1>2, <2>1, <2>2 DEF Request
<1>3. ASSUME NEW qos \in {0, 1}, Publish(qos)
      PROVE  Shaped
    <2> DEFINE id == IF qos = 1 THEN GetNext ELSE 0
    <2>0. phase = "idle"
        BY <1>3 DEF Publish
    <2>1. CASE isconnected /\ isconnected' = isconnected
               /\ Begin("publish", NoFilter, id, CommandTimeout)
        <3>1. BeginsCall("publish")
            BY <2>0, <2>1 DEF Begin, BeginsCall
        <3>2. QED
            BY <3>1 DEF Shaped
    <2>2. CASE isconnected /\ isconnected' = isconnected
               /\ ReturnAtOnce("publish", id, "SUCCESS")
        <3>1. ReturnsAtOnce("publish", "SUCCESS")
            BY <2>0, <2>2, AtOnceShape DEF ReturnsAtOnce, Client!AfterCall, TypeOK, SessionTypeOK
        <3>2. QED
            BY <3>1 DEF Shaped
    <2>3. CASE isconnected' = FALSE /\ ReturnAtOnce("publish", id, "FAILURE")
        <3>1. ReturnsAtOnce("publish", "FAILURE")
            BY <2>0, <2>3, AtOnceShape DEF ReturnsAtOnce, Client!AfterCall
        <3>2. QED
            BY <3>1 DEF Shaped
    <2>4. CASE isconnected' = isconnected /\ ReturnAtOnce("publish", id, "FAILURE")
        BY <2>0, <2>4, AtOnceShape DEF RefusesPublish, Shaped
    <2>5. QED
        BY <1>3, <2>1, <2>2, <2>3, <2>4 DEF Publish, MayPublish, session
<1>4. CASE Yield
    <2>1. BeginsCall("yield")
        BY <1>4 DEF Yield, Begin, BeginsCall, session
    <2>2. QED
        BY <2>1 DEF Shaped
<1>5. CASE Disconnect
    <2>1. PICK r \in Rcs : ReturnAtOnce("disconnect", 0, r)
        BY <1>5 DEF Disconnect
    <2>2. ReturnsAtOnce("disconnect", r)
        BY <1>5, <2>1, AtOnceShape DEF Disconnect, CloseSession, ReturnsAtOnce, Client!AfterCall
    <2>3. QED
        BY <2>2 DEF Shaped
<1>6. QED
    BY <1>1, <1>2, <1>3, <1>4, <1>5 DEF Calling, Subscribe, Unsubscribe

LEMMA ReadingShape ==
    ASSUME TypeOK, ContractInv, Reading \/ Keepalive
    PROVE  GoesOn
<1>1. [call EXCEPT !.failed = TRUE].op = call.op
    BY CallFields DEF TypeOK, RunningTypeOK
<1>2. CASE ReadNothing
    BY <1>2 DEF ReadNothing, GoesOn, session
<1>3. CASE ReadError \/ ReadPartial \/ ReadOversized
    <2>1. PICK r : CycleFails(r, [call EXCEPT !.failed = TRUE])
        BY <1>3 DEF ReadError, ReadPartial, ReadOversized
    <2>2. phase = "read" /\ result' = result
        BY <1>3 DEF ReadError, ReadPartial, ReadOversized
    <2>3. QED
        BY <1>1, <2>1, <2>2, CycleFailsShape
<1>4. CASE ReadAck
    <2>1. rc' \in AckTypes \cup {"none"}
        BY <1>4 DEF ReadAck
    <2>2. QED
        BY <1>4, <2>1 DEF ReadAck, GoesOn, AckTypes
<1>5. CASE ReadPublish \/ ReadPublishIllFormed
    BY <1>5 DEF ReadPublish, ReadPublishIllFormed, GoesOn, session
<1>6. CASE ReadPublishAckFails \/ ReadUnexpected \/ KeepaliveFails
    <2>1. PICK r : CycleFails(r, call)
        BY <1>6 DEF ReadPublishAckFails, ReadUnexpected, KeepaliveFails
    <2>2. phase # "idle" /\ result' = result
        BY <1>6 DEF ReadPublishAckFails, ReadUnexpected, KeepaliveFails
    <2>3. QED
        BY <2>1, <2>2, CycleFailsShape
<1>7. CASE KeepaliveQuiet
    BY <1>7 DEF KeepaliveQuiet, GoesOn, session, ContractInv, FailedCycleCloses
<1>8. CASE KeepalivePings
    BY <1>8 DEF KeepalivePings, GoesOn, ContractInv, FailedCycleCloses
<1>9. QED
    BY <1>2, <1>3, <1>4, <1>5, <1>6, <1>7, <1>8 DEF Reading, Keepalive

\* A call whose loop is over returns with the code r.
LEMMA EndShape ==
    ASSUME phase # "idle", NEW r \in Rcs, Return(call, r),
           isconnected' = Client!AfterCall(PublicOp(call.op), r)
    PROVE  Shaped
BY DEF Return, EndsCall, Shaped

LEMMA EndFailsShape ==
    ASSUME phase # "idle", RequestFails(call)
    PROVE  Shaped
<1>1. isconnected' = FALSE /\ Return(call, "FAILURE")
    BY DEF RequestFails, CloseSession
<1>2. Client!AfterCall(PublicOp(call.op), "FAILURE") = FALSE
    BY DEF Client!AfterCall
<1>3. QED
    BY <1>1, <1>2, EndShape DEF Rcs

LEMMA LoopingShape ==
    ASSUME TypeOK, ContractInv, Looping
    PROVE  Shaped
<1> USE DEF Rcs
<1>1. phase = "loop" /\ isconnected \in BOOLEAN
    BY DEF Looping, LoopAgain, YieldDone, ConnectDone, ConnectResends, PublishDone, ResendDone,
           SubscribeDone, UnsubscribeDone, TypeOK, SessionTypeOK
<1>2. CASE LoopAgain
    BY <1>2 DEF LoopAgain, GoesOn, Shaped, session
<1>3. CASE YieldDone
    <2>1. call.op = "yield" /\ isconnected' = isconnected
        BY <1>3 DEF YieldDone, session
    <2>2. CASE rc = "FAILURE"
        <3>1. Return(call, "FAILURE") /\ ~isconnected
            BY <1>3, <2>2 DEF YieldDone, ContractInv, FailedCycleCloses
        <3>2. QED
            BY <1>1, <2>1, <3>1, EndShape DEF Client!AfterCall, PublicOp
    <2>3. CASE rc # "FAILURE"
        <3>1. Return(call, "SUCCESS")
            BY <1>3, <2>3 DEF YieldDone
        <3>2. QED
            BY <1>1, <2>1, <3>1, EndShape DEF Client!AfterCall, PublicOp
    <2>4. QED
        BY <2>2, <2>3
<1>4. CASE ConnectDone
    <2>1. call.op = "connect" /\ PublicOp(call.op) = "connect"
        BY <1>4 DEF ConnectDone, PublicOp
    <2>2. CASE Accepted
        <3>1. isconnected' = TRUE /\ Return(call, "SUCCESS")
            BY <1>4, <2>2 DEF ConnectDone
        <3>2. QED
            BY <1>1, <2>1, <3>1, EndShape DEF Client!AfterCall
    <2>3. CASE ~Accepted
        <3>1. isconnected' = FALSE /\ Return(call, "FAILURE")
            BY <1>4, <2>3 DEF ConnectDone
        <3>2. QED
            BY <1>1, <2>1, <3>1, EndShape DEF Client!AfterCall
    <2>4. QED
        BY <2>2, <2>3
<1>5. CASE ConnectResends
    <2>1. CASE RequestFails(call)
        BY <1>1, <2>1, EndFailsShape
    <2>2. CASE /\ call' = [call EXCEPT !.op = "resend", !.id = inflight]
               /\ rc' = "none" /\ UNCHANGED <<session, phase, result>>
        <3>1. call'.op = "resend" /\ call.op = "connect"
            BY <1>5, <2>2 DEF ConnectResends, TypeOK, RunningTypeOK, CallRecords
        <3>2. isconnected' = isconnected
            BY <2>2 DEF session
        <3>3. GoesOn
            BY <1>1, <2>2, <3>1, <3>2 DEF GoesOn
        <3>4. QED
            BY <3>3 DEF Shaped
    <2>3. QED
        BY <1>5, <2>1, <2>2 DEF ConnectResends
<1>6. CASE PublishDone \/ SubscribeDone \/ UnsubscribeDone
    <2>1. CASE RequestFails(call)
        BY <1>1, <2>1, EndFailsShape
    <2>2. CASE ~RequestFails(call)
        <3>1. Return(call, "SUCCESS") /\ isconnected' = isconnected
            BY <1>6, <2>2 DEF PublishDone, SubscribeDone, UnsubscribeDone, session
        <3>2. call.op \in {"publish", "subscribe", "unsubscribe"}
            BY <1>6 DEF PublishDone, SubscribeDone, UnsubscribeDone
        <3>3. Client!AfterCall(PublicOp(call.op), "SUCCESS") = isconnected
            BY <1>1, <3>2 DEF Client!AfterCall, PublicOp
        <3>4. QED
            BY <1>1, <3>1, <3>3, EndShape
    <2>3. QED
        BY <2>1, <2>2
<1>7. CASE ResendDone
    <2>1. CASE RequestFails(call)
        BY <1>1, <2>1, EndFailsShape
    <2>2. CASE ~RequestFails(call)
        <3>1. Return(call, "SUCCESS") /\ isconnected' = TRUE
            BY <1>7, <2>2 DEF ResendDone
        <3>2. Client!AfterCall(PublicOp(call.op), "SUCCESS") = TRUE
            BY <1>7 DEF ResendDone, Client!AfterCall, PublicOp
        <3>3. QED
            BY <1>1, <3>1, <3>2, EndShape
    <2>3. QED
        BY <2>1, <2>2
<1>8. QED
    BY <1>2, <1>3, <1>4, <1>5, <1>6, <1>7 DEF Looping

\* Time, the network and the broker do not touch the client.
LEMMA EnvironmentShape ==
    ASSUME Tick \/ Network \/ Broker \/ UNCHANGED vars
    PROVE  Aside
<1>1. UNCHANGED <<session, running>>
    BY DEF Tick, Network, Broker, Reconnect, LinkDown, LinkStalls, StalledDrains,
           BrokerConnect, BrokerReceivesPublish, BrokerSubscribe, BrokerUnsubscribe, BrokerPing,
           BrokerPuback, BrokerDisconnect, BrokerIgnores, BrokerDelivers, Takes, vars
<1>2. QED
    BY <1>1 DEF session, running, Aside

LEMMA StepShape ==
    ASSUME TypeOK, ContractInv, [Next]_vars
    PROVE  Shaped
<1>1. CASE Calling
    BY <1>1, CallingShape
<1>2. CASE CallStep
    BY <1>2, ReadingShape, LoopingShape DEF CallStep, Shaped
<1>3. CASE Tick \/ Network \/ Broker \/ UNCHANGED vars
    BY <1>3, EnvironmentShape DEF Shaped
<1>4. QED
    BY <1>1, <1>2, <1>3 DEF Next

-----------------------------------------------------------------------------
(* The shapes keep the invariant and are steps of the contract.            *)

LEMMA OpsExcept == Client!Ops \cap {"none", "resend"} = {}
BY DEF Client!Ops, Client!Requests

LEMMA ContractInvStep ==
    ASSUME TypeOK, ContractInv, Shaped
    PROVE  ContractInv'
<1> USE DEF ContractInv, RunningIsCalled, ConnectsWhenClosed, FailedCycleCloses
<1>1. NoCall.op = "none"
    BY DEF NoCall
<1>2. CASE \E o \in Client!Ops : BeginsCall(o)
    BY <1>2, OpsExcept DEF BeginsCall
<1>3. CASE \/ \E o \in Client!Ops, r \in Rcs : ReturnsAtOnce(o, r)
           \/ RefusesPublish
           \/ \E r \in Rcs : EndsCall(r)
    BY <1>1, <1>3 DEF ReturnsAtOnce, RefusesPublish, EndsCall
<1>4. CASE GoesOn
    BY <1>4 DEF GoesOn
<1>5. CASE Aside
    BY <1>5 DEF Aside
<1>6. QED
    BY <1>2, <1>3, <1>4, <1>5 DEF Shaped

LEMMA ContractStep ==
    ASSUME TypeOK, ContractInv, Shaped
    PROVE  [Client!ClientNext]_(Client!clientVars)
<1> USE DEF ContractInv, RunningIsCalled, ConnectsWhenClosed
<1>1. NoCall.op = "none" /\ PublicOp("none") = "none"
    BY DEF NoCall, PublicOp
<1>2. \A o \in Client!Ops : PublicOp(o) = o
    BY OpsExcept DEF PublicOp
<1>3. ASSUME NEW o \in Client!Ops, BeginsCall(o)
      PROVE  Client!Begin(o)
    <2>1. PublicOp(call.op) = "none" /\ PublicOp(call'.op) = o
        BY <1>1, <1>2, <1>3 DEF BeginsCall
    <2>2. [op |-> PublicOp(result'.op), rc |-> result'.rc] = Client!NoOutcome
        BY <1>1, <1>3 DEF BeginsCall, NoResult, Client!NoOutcome
    <2>3. QED
        BY <1>3, <2>1, <2>2 DEF Client!Begin, Client!MayCall, BeginsCall
<1>4. ASSUME NEW o \in Client!Ops, NEW r \in Rcs, ReturnsAtOnce(o, r)
      PROVE  Client!AtOnce(o, r)
    <2>1. PublicOp(call.op) = "none" /\ PublicOp(call'.op) = "none" /\ PublicOp(result'.op) = o
        BY <1>1, <1>2, <1>4 DEF ReturnsAtOnce
    <2>2. QED
        BY <1>4, <2>1 DEF Client!AtOnce, Client!MayCall, Client!Ends, ReturnsAtOnce
<1>5. CASE RefusesPublish
    <2>1. PublicOp(call.op) = "none" /\ PublicOp(call'.op) = "none"
        BY <1>1, <1>5 DEF RefusesPublish
    <2>2. PublicOp(result'.op) = "publish" /\ result'.rc = "FAILURE"
        BY <1>5 DEF RefusesPublish, PublicOp
    <2>3. Client!Refuse
        BY <1>5, <2>1, <2>2 DEF Client!Refuse, RefusesPublish
    <2>4. QED
        BY <2>3 DEF Client!ClientNext
<1>6. CASE GoesOn
    <2>1. PublicOp(call'.op) = PublicOp(call.op) /\ PublicOp(call.op) # "none"
        BY <1>6 DEF GoesOn, PublicOp
    <2>2. CASE isconnected' = isconnected
        BY <1>6, <2>1, <2>2 DEF GoesOn, Client!clientVars
    <2>3. CASE isconnected' # isconnected
        <3>1. isconnected /\ isconnected' = FALSE
            BY <1>6, <2>3 DEF GoesOn, TypeOK, SessionTypeOK
        <3>2. Client!Drop
            BY <1>6, <2>1, <3>1 DEF Client!Drop, GoesOn
        <3>3. QED
            BY <3>2 DEF Client!ClientNext
    <2>4. QED
        BY <2>2, <2>3
<1>7. ASSUME NEW r \in Rcs, EndsCall(r)
      PROVE  Client!Returns
    <2> DEFINE o == PublicOp(call.op)
    <2>1. call.op \in Calls
        BY <1>7 DEF EndsCall, TypeOK, RunningTypeOK, CallRecords
    <2>2. o \in Client!Ops
        BY <2>1 DEF PublicOp, Calls, Waiting, Client!Ops, Client!Requests
    <2>3. PublicOp(call'.op) = "none" /\ PublicOp(result'.op) = o
        BY <1>1, <1>7 DEF EndsCall
    <2>4. Client!End(o, r)
        BY <1>7, <2>3 DEF Client!End, Client!Ends, EndsCall
    <2>5. QED
        BY <2>2, <2>4 DEF Client!Returns, Rcs
<1>8. CASE Aside
    BY <1>8 DEF Aside, Client!clientVars
<1>9. QED
    BY <1>3, <1>4, <1>5, <1>6, <1>7, <1>8 DEF Shaped, Rcs, Client!ClientNext

LEMMA ContractStart == ASSUME Init PROVE ContractInv /\ Client!ClientInit
<1>1. NoCall.op = "none" /\ NoResult.op = "none" /\ NoResult.rc = "none" /\ PublicOp("none") = "none"
    BY DEF NoCall, NoResult, PublicOp
<1>2. ContractInv
    BY <1>1 DEF Init, ContractInv, RunningIsCalled, ConnectsWhenClosed, FailedCycleCloses
<1>3. QED
    BY <1>1, <1>2 DEF Init, Client!ClientInit, Client!NoOutcome

\* The client implements its contract: isConnected() changes, and a call
\* returns SUCCESS or FAILURE, only as an application may rely on, whatever the
\* broker and the network do.
THEOREM ContractImplemented == Spec => ImplementsContract
<1>1. Init => ContractInv /\ Client!ClientInit
    BY ContractStart
<1>2. TypeOK /\ ContractInv /\ [Next]_vars => ContractInv'
    BY StepShape, ContractInvStep
<1>3. TypeOK /\ ContractInv /\ [Next]_vars => [Client!ClientNext]_(Client!clientVars)
    BY StepShape, ContractStep
<1>4. QED
    BY <1>1, <1>2, <1>3, TypeCorrect, PTL DEF Spec, ImplementsContract, Client!ClientSpec

-----------------------------------------------------------------------------
(***************************************************************************)
(* What the result of a call tells the application is so, for every value  *)
(* of the constants, as long as no packet of the connection has been cut:  *)
(* no answer is taken for the answer to another request.                   *)
(***************************************************************************)

\* What happens to the places of a type in a stream.

Counts(p, type) == p.type = type /\ (type = "PUBLISH" => p.id # 0)

\* All that t has of a type it has from s, in one piece.
From(s, t, type) ==
    \E d \in Int : \A k \in Places(t, type) : k + d \in Places(s, type) /\ t[k] = s[k + d]

LEMMA FromKeeps ==
    ASSUME NEW s, NEW t, NEW type, From(s, t, type)
    PROVE  /\ Places(s, type) = {} => Places(t, type) = {}
           /\ AtMostOne(Places(s, type)) => AtMostOne(Places(t, type))
           /\ \A k \in Places(t, type) : \E j \in Places(s, type) : t[k] = s[j]
<1>1. PICK d \in Int : \A k \in Places(t, type) : k + d \in Places(s, type) /\ t[k] = s[k + d]
    BY DEF From
<1>2. ASSUME AtMostOne(Places(s, type)), NEW j \in Places(t, type), NEW k \in Places(t, type)
      PROVE  j = k
    <2>1. j \in Int /\ k \in Int
        BY DEF Places
    <2>2. j + d = k + d
        BY <1>1, <1>2 DEF AtMostOne
    <2>3. QED
        BY <2>1, <2>2
<1>3. QED
    BY <1>1, <1>2 DEF AtMostOne

LEMMA FromSame == ASSUME NEW s, NEW type PROVE From(s, s, type)
<1>1. \A k \in Places(s, type) : k + 0 = k
    BY DEF Places
<1>2. QED
    BY <1>1 DEF From

LEMMA FromNothing == ASSUME NEW s, NEW type PROVE From(s, <<>>, type)
BY DEF From, Places

LEMMA FromTail ==
    ASSUME NEW S, NEW s \in Seq(S), s # <<>>, NEW type
    PROVE  /\ From(s, Tail(s), type)
           /\ Counts(Head(s), type) => 1 \in Places(s, type)
           /\ Counts(Head(s), type) /\ AtMostOne(Places(s, type)) => Places(Tail(s), type) = {}
<1>1. ASSUME NEW k \in Places(Tail(s), type)
      PROVE  k \in 1..Len(Tail(s)) /\ k + 1 \in Places(s, type) /\ Tail(s)[k] = s[k + 1]
    <2>1. k \in 1..Len(Tail(s))
        BY DEF Places
    <2>2. k + 1 \in 1..Len(s) /\ Tail(s)[k] = s[k + 1]
        BY <2>1
    <2>3. QED
        BY <2>1, <2>2 DEF Places
<1>2. From(s, Tail(s), type)
    BY <1>1 DEF From
<1>3. 1 \in 1..Len(s) /\ Head(s) = s[1]
    OBVIOUS
<1>4. ASSUME Counts(Head(s), type) PROVE 1 \in Places(s, type)
    BY <1>3, <1>4 DEF Places, Counts
<1>5. ASSUME Counts(Head(s), type), AtMostOne(Places(s, type)), NEW k \in Places(Tail(s), type)
      PROVE  FALSE
    <2>1. k + 1 = 1
        BY <1>1, <1>4, <1>5 DEF AtMostOne
    <2>2. QED
        BY <1>1, <2>1
<1>6. QED
    BY <1>2, <1>4, <1>5

LEMMA FromAppend ==
    ASSUME NEW S, NEW s \in Seq(S), NEW e \in S, NEW type
    PROVE  /\ ~Counts(e, type) => From(s, Append(s, e), type)
           /\ Places(Append(s, e), type) \subseteq Places(s, type) \cup {Len(s) + 1}
           /\ Append(s, e)[Len(s) + 1] = e
           /\ \A k \in Places(s, type) : k # Len(s) + 1 /\ Append(s, e)[k] = s[k]
<1>1. ASSUME NEW k \in Places(Append(s, e), type)
      PROVE  \/ k = Len(s) + 1 /\ Counts(e, type)
             \/ k \in Places(s, type) /\ Append(s, e)[k] = s[k]
    <2>1. k \in 1..(Len(s) + 1) /\ Counts(Append(s, e)[k], type)
        BY DEF Places, Counts
    <2>2. CASE k = Len(s) + 1
        BY <2>1, <2>2
    <2>3. CASE k # Len(s) + 1
        <3>1. k \in 1..Len(s) /\ Append(s, e)[k] = s[k]
            BY <2>1, <2>3
        <3>2. QED
            BY <2>1, <3>1 DEF Places, Counts
    <2>4. QED
        BY <2>2, <2>3
<1>2. ASSUME ~Counts(e, type) PROVE From(s, Append(s, e), type)
    <2>1. \A k \in Places(s, type) : k + 0 = k
        BY DEF Places
    <2>2. \A k \in Places(Append(s, e), type) :
             k + 0 \in Places(s, type) /\ Append(s, e)[k] = s[k + 0]
        BY <1>1, <1>2, <2>1
    <2>3. 0 \in Int
        OBVIOUS
    <2>4. QED
        BY <2>2, <2>3, Zenon DEF From
<1>3. \A k \in Places(s, type) : k # Len(s) + 1 /\ Append(s, e)[k] = s[k]
    <2>1. \A k \in 1..Len(s) : k # Len(s) + 1 /\ Append(s, e)[k] = s[k]
        OBVIOUS
    <2>2. QED
        BY <2>1 DEF Places
<1>4. Append(s, e)[Len(s) + 1] = e
    OBVIOUS
<1>5. QED
    BY <1>1, <1>2, <1>3, <1>4

\* All that t has of a type is e, or it has it from s.
FromOr(s, t, type, e) ==
    \A k \in Places(t, type) : t[k] = e \/ \E j \in Places(s, type) : t[k] = s[j]

LEMMA FromOrAppend ==
    ASSUME NEW S, NEW s \in Seq(S), NEW e \in S, NEW type
    PROVE  FromOr(s, Append(s, e), type, e)
<1>1. ASSUME NEW k \in Places(Append(s, e), type)
      PROVE  Append(s, e)[k] = e \/ \E j \in Places(s, type) : Append(s, e)[k] = s[j]
    <2>1. k \in 1..(Len(s) + 1) /\ Counts(Append(s, e)[k], type)
        BY DEF Places, Counts
    <2>2. CASE k = Len(s) + 1
        BY <2>2
    <2>3. CASE k # Len(s) + 1
        <3>1. k \in 1..Len(s) /\ Append(s, e)[k] = s[k]
            BY <2>1, <2>3
        <3>2. k \in Places(s, type)
            BY <2>1, <3>1 DEF Places, Counts
        <3>3. QED
            BY <3>1, <3>2
    <2>4. QED
        BY <2>2, <2>3
<1>2. QED
    BY <1>1 DEF FromOr

-----------------------------------------------------------------------------
(* One exchange at a time.                                                 *)

IsKind(request, answer, ops) ==
    \/ request = "PUBLISH" /\ answer = "PUBACK" /\ ops = {"publish", "resend"}
    \/ request = "SUBSCRIBE" /\ answer = "SUBACK" /\ ops = {"subscribe"}
    \/ request = "UNSUBSCRIBE" /\ answer = "UNSUBACK" /\ ops = {"unsubscribe"}

\* Nothing of the kind is added, and a call that ends with a session had its answer.
LEMMA ExchangeStays ==
    ASSUME NEW request, NEW answer, NEW ops, Exchange(request, answer, ops),
           From(toBroker, toBroker', request), From(toClient, toClient', answer),
           call'.op \in ops => call.op \in ops,
           call'.op \notin ops /\ (isconnected' \/ Opening') =>
              \/ call.op \notin ops /\ (isconnected \/ Opening)
              \/ call.op \in ops /\ rc = answer,
           rc' = answer => rc = answer
    PROVE  Exchange(request, answer, ops)'
<1>1. NoneUnderWay(request, answer) => NoneUnderWay(request, answer)'
    BY FromKeeps DEF NoneUnderWay
<1>2. OneUnderWay(request, answer) => OneUnderWay(request, answer)'
    BY <1>1, FromKeeps DEF OneUnderWay
<1>3. OneUnderWay(request, answer) /\ rc = answer => NoneUnderWay(request, answer)
    BY DEF OneUnderWay
<1>4. QED
    BY <1>1, <1>2, <1>3 DEF Exchange

\* The client reads the answer: it was the only one, and no request was left.
LEMMA ExchangeReads ==
    ASSUME NetworkTypeOK, NEW request, NEW answer, NEW ops, IsKind(request, answer, ops),
           Exchange(request, answer, ops), toClient # <<>>, Head(toClient).type = answer,
           toClient' = Rest, UNCHANGED <<toBroker, call>>, isconnected' => isconnected
    PROVE  Exchange(request, answer, ops)'
<1>1. Counts(Head(toClient), answer)
    BY DEF IsKind, Counts
<1>2. toClient \in Seq(PacketsToClient)
    BY DEF NetworkTypeOK
<1>3. /\ From(toClient, toClient', answer)
      /\ AtMostOne(Places(toClient, answer)) => Places(toClient', answer) = {}
      /\ 1 \in Places(toClient, answer)
    BY <1>1, <1>2, FromTail DEF Rest
<1>4. OneUnderWay(request, answer) => OneUnderWay(request, answer)'
    BY <1>3 DEF OneUnderWay, NoneUnderWay, AtMostOne
<1>5. NoneUnderWay(request, answer) => NoneUnderWay(request, answer)'
    BY <1>3 DEF NoneUnderWay
<1>6. QED
    BY <1>4, <1>5 DEF Exchange, Opening

\* The broker answers the one request.
LEMMA ExchangeAnswered ==
    ASSUME NetworkTypeOK, NEW request, NEW answer, NEW ops, IsKind(request, answer, ops),
           Exchange(request, answer, ops), toBroker # <<>>, Counts(Head(toBroker), request),
           toBroker' = Tail(toBroker), NEW p \in PacketsToClient,
           toClient' = Append(toClient, p),
           UNCHANGED <<call, isconnected, rc>>
    PROVE  Exchange(request, answer, ops)'
<1>1. toBroker \in Seq(PacketsToBroker) /\ toClient \in Seq(PacketsToClient)
    BY DEF NetworkTypeOK
<1>2. /\ 1 \in Places(toBroker, request)
      /\ AtMostOne(Places(toBroker, request)) => Places(toBroker', request) = {}
    BY <1>1, FromTail
<1>3. Places(toClient', answer) \subseteq Places(toClient, answer) \cup {Len(toClient) + 1}
    BY <1>1, FromAppend
<1>4. ~NoneUnderWay(request, answer)
    BY <1>2 DEF NoneUnderWay
<1>5. OneUnderWay(request, answer) => OneUnderWay(request, answer)'
    BY <1>2, <1>3, <1>4 DEF OneUnderWay, AtMostOne
<1>6. QED
    BY <1>4, <1>5 DEF Exchange, Opening

\* A call sends its request where none is under way.
LEMMA ExchangeBegins ==
    ASSUME NetworkTypeOK, NEW request, NEW answer, NEW ops, IsKind(request, answer, ops),
           NoneUnderWay(request, answer), NEW p \in PacketsToBroker,
           toBroker' = Append(toBroker, p), toClient' = toClient,
           call'.op \in ops, rc' = "none"
    PROVE  Exchange(request, answer, ops)'
<1>1. Places(toBroker', request) \subseteq {Len(toBroker) + 1}
    BY FromAppend DEF NetworkTypeOK, NoneUnderWay
<1>2. OneUnderWay(request, answer)'
    BY <1>1 DEF OneUnderWay, NoneUnderWay, AtMostOne, IsKind
<1>3. QED
    BY <1>2 DEF Exchange

-----------------------------------------------------------------------------
(* What an answer shows.                                                   *)

LEMMA PublishStays ==
    ASSUME PublishTracked, From(toBroker, toBroker', "PUBLISH"), From(toClient, toClient', "PUBACK"),
           Writing' => Writing /\ call'.id = call.id /\ received \subseteq received',
           rc' = "PUBACK" => rc = "PUBACK" \/ Places(toClient, "PUBACK") # {}
    PROVE  PublishTracked'
<1>1. \A k \in Places(toBroker', "PUBLISH") :
         \E j \in Places(toBroker, "PUBLISH") : toBroker'[k] = toBroker[j]
    BY FromKeeps
<1>2. \A k \in Places(toClient', "PUBACK") :
         \E j \in Places(toClient, "PUBACK") : toClient'[k] = toClient[j]
    BY FromKeeps
<1>3. QED
    BY <1>1, <1>2 DEF PublishTracked

\* A subscription without a handler is still the one that was asked for.
LEMMA SubscribeStays ==
    ASSUME SubscribeTracked, EndsInv',
           From(toBroker, toBroker', "SUBSCRIBE"), From(toClient, toClient', "SUBACK"),
           Opening' => Opening,
           isconnected' => /\ isconnected /\ handlers' = handlers /\ Asked' = Asked
                           /\ call'.op = "subscribe" => /\ call.op = "subscribe"
                                                        /\ call'.topic = call.topic,
           rc' = "SUBACK" /\ readbuf'.arg = "refused" => Refused,
           CleanSession /\ bSession' = "open" =>
              \/ bSubs' = {}
              \/ bSession = "open" /\ bSubs' \subseteq bSubs
    PROVE  SubscribeTracked'
<1>1. \A k \in Places(toBroker', "SUBSCRIBE") :
         \E j \in Places(toBroker, "SUBSCRIBE") : toBroker'[k] = toBroker[j]
    BY FromKeeps
<1>2. \A k \in Places(toClient', "SUBACK") :
         \E j \in Places(toClient, "SUBACK") : toClient'[k] = toClient[j]
    BY FromKeeps
<1>3. Places(toBroker', "SUBSCRIBE") # {} \/ Refused'
        => Places(toBroker, "SUBSCRIBE") # {} \/ Refused
    BY <1>1, <1>2 DEF Refused
<1>4. isconnected' => Registered' = Registered /\ Asked' = Asked
    BY DEF Registered
<1>5. QED
    BY <1>1, <1>3, <1>4 DEF SubscribeTracked

-----------------------------------------------------------------------------
(* Steps that ask nothing and answer nothing.                              *)

CoreInv ==
    /\ Exchange("PUBLISH", "PUBACK", {"publish", "resend"})
    /\ Exchange("SUBSCRIBE", "SUBACK", {"subscribe"})
    /\ PublishTracked /\ SubscribeTracked

LEMMA Quiet ==
    ASSUME CoreInv, EndsInv',
           From(toBroker, toBroker', "PUBLISH"), From(toBroker, toBroker', "SUBSCRIBE"),
           From(toClient, toClient', "PUBACK"), From(toClient, toClient', "SUBACK"),
           \/ call'.op = call.op /\ call'.id = call.id /\ call'.topic = call.topic
           \/ {call.op, call'.op} \subseteq {"none", "yield", "unsubscribe"},
           rc' \in {"PUBACK", "SUBACK"} => rc' = rc /\ readbuf' = readbuf,
           isconnected' => isconnected /\ handlers' = handlers,
           Writing' => received \subseteq received',
           CleanSession /\ bSession' = "open" =>
              bSubs' = {} \/ (bSession = "open" /\ bSubs' \subseteq bSubs)
    PROVE  CoreInv'
<1>1. Exchange("PUBLISH", "PUBACK", {"publish", "resend"})'
    BY ExchangeStays DEF CoreInv, Opening
<1>2. Exchange("SUBSCRIBE", "SUBACK", {"subscribe"})'
    BY ExchangeStays DEF CoreInv, Opening
<1>3. PublishTracked'
    <2>1. Writing' => Writing /\ call'.id = call.id
        BY DEF Writing
    <2>2. QED
        BY <2>1, PublishStays DEF CoreInv
<1>4. SubscribeTracked'
    <2>1. Asked' = Asked /\ (Opening' => Opening)
        BY DEF Asked, Opening
    <2>2. rc' = "SUBACK" /\ readbuf'.arg = "refused" => Refused
        BY DEF Refused
    <2>3. QED
        BY <2>1, <2>2, SubscribeStays DEF CoreInv
<1>5. QED
    BY <1>1, <1>2, <1>3, <1>4 DEF CoreInv

\* A call that returns without a session leaves nothing to show.
LEMMA Ended == ASSUME call' = NoCall, ~isconnected' PROVE CoreInv'
BY DEF CoreInv, NoCall, Exchange, Opening, Writing, PublishTracked, SubscribeTracked

\* What is sent or read without being a request or an answer.
LEMMA SendsOther ==
    ASSUME NetworkTypeOK, NEW p \in PacketsToBroker, Send(p), p.type # "SUBSCRIBE",
           p.type = "PUBLISH" => p.id = 0
    PROVE  From(toBroker, toBroker', "PUBLISH") /\ From(toBroker, toBroker', "SUBSCRIBE")
BY FromAppend DEF NetworkTypeOK, Send, Counts

LEMMA ReadsOne ==
    ASSUME NetworkTypeOK, toClient # <<>>, toClient' = Rest, NEW type
    PROVE  From(toClient, toClient', type)
BY FromTail DEF NetworkTypeOK, Rest

-----------------------------------------------------------------------------
(* The calls begin: each finds no request of an earlier call under way.    *)

LEMMA CoreConnect ==
    ASSUME TypeOK, EndsInv, Connect
    PROVE  CoreInv'
<1>1. CASE /\ Send(Packet("CONNECT", 0, NoFilter)) /\ UNCHANGED <<toClient, bSession, isconnected>>
           /\ Begin("connect", NoFilter, 0, CommandTimeout)
    <2>1. toBroker = <<>> /\ toClient = <<>> /\ bSession = "none" /\ ~isconnected
        BY <1>1 DEF Connect, Send, CanSend, EndsInv, FreshIsEmpty
    <2>2. /\ Packet("CONNECT", 0, NoFilter) \in PacketsToBroker
          /\ Packet("CONNECT", 0, NoFilter).type = "CONNECT"
        BY ZeroId DEF Packet, PacketsToBroker
    <2>3. From(toBroker, toBroker', "PUBLISH") /\ From(toBroker, toBroker', "SUBSCRIBE")
        BY <1>1, <2>2, SendsOther DEF TypeOK
    <2>4. NoneUnderWay("PUBLISH", "PUBACK")' /\ NoneUnderWay("SUBSCRIBE", "SUBACK")'
        <3>1. \A type : Places(toBroker, type) = {} /\ Places(toClient', type) = {}
            BY <1>1, <2>1 DEF Places
        <3>2. Places(toBroker', "PUBLISH") = {} /\ Places(toBroker', "SUBSCRIBE") = {}
            BY <2>3, <3>1, FromKeeps
        <3>3. QED
            BY <3>1, <3>2 DEF NoneUnderWay
    <2>5. call'.op = "connect" /\ rc' = "none" /\ ~isconnected' /\ bSession' = "none"
        BY <1>1, <2>1 DEF Begin
    <2>6. QED
        BY <2>4, <2>5 DEF CoreInv, Exchange, Writing, PublishTracked, SubscribeTracked
<1>2. CASE ReturnAtOnce("connect", 0, "FAILURE")
    <2>1. call' = NoCall /\ ~isconnected'
        BY <1>2 DEF Connect, ReturnAtOnce, Return, session
    <2>2. QED
        BY <2>1, Ended
<1>3. QED
    BY <1>1, <1>2 DEF Connect, session, broker

LEMMA CoreSubscribe ==
    ASSUME TypeOK, EndsInv, EndsInv', CoreInv, NEW f \in Filters, Subscribe(f)
    PROVE  CoreInv'
<1>1. CASE RequestFails([NoCall EXCEPT !.op = "subscribe", !.topic = f])
    BY <1>1, Ended DEF RequestFails, CloseSession, Return
<1>2. CASE /\ isconnected /\ UNCHANGED session /\ UNCHANGED <<toClient, broker>>
           /\ Send(Packet("SUBSCRIBE", GetNext, f))
           /\ Begin("subscribe", f, GetNext, CommandTimeout)
    <2> DEFINE p == Packet("SUBSCRIBE", GetNext, f)
    <2>1. p \in PacketsToBroker /\ p.type = "SUBSCRIBE" /\ p.arg = f
        BY GetNextType DEF Packet, PacketsToBroker, TypeOK
    <2>2. call.op = "none" /\ rc = "none" /\ Asked = {}
        BY <1>2 DEF Subscribe, Request, EndsInv, IdleIsClean, NoCall, Asked
    <2>3. /\ call'.op = "subscribe" /\ call'.topic = f /\ rc' = "none"
          /\ isconnected' /\ ~Opening' /\ Registered' = Registered
        BY <1>2 DEF Begin, Opening, Registered, session
    <2>4. toBroker' = Append(toBroker, p) /\ toBroker \in Seq(PacketsToBroker)
        BY <1>2 DEF Send, TypeOK, NetworkTypeOK
    <2>5. From(toBroker, toBroker', "PUBLISH") /\ From(toClient, toClient', "PUBACK")
        BY <1>2, <2>1, <2>4, FromAppend, FromSame DEF Counts
    <2>6. Exchange("PUBLISH", "PUBACK", {"publish", "resend"})'
        BY <1>2, <2>2, <2>3, <2>5, ExchangeStays DEF CoreInv
    <2>7. NoneUnderWay("SUBSCRIBE", "SUBACK")
        BY <1>2, <2>2 DEF CoreInv, Exchange
    <2>8. Exchange("SUBSCRIBE", "SUBACK", {"subscribe"})'
        BY <1>2, <2>1, <2>3, <2>4, <2>7, ExchangeBegins DEF TypeOK, IsKind
    <2>9. \A k \in Places(toBroker', "SUBSCRIBE") : toBroker'[k].arg = f
        BY <2>1, <2>4, <2>7, FromAppend DEF NoneUnderWay
    <2>10. CleanSession /\ bSession' = "open" => bSubs' \subseteq Registered'
        BY <1>2, <2>2, <2>3 DEF CoreInv, SubscribeTracked, broker
    <2>11. PublishTracked' /\ SubscribeTracked'
        BY <2>3, <2>9, <2>10 DEF Writing, PublishTracked, SubscribeTracked
    <2>12. QED
        BY <2>6, <2>8, <2>11 DEF CoreInv
<1>3. QED
    BY <1>1, <1>2 DEF Subscribe, Request

LEMMA CoreUnsubscribe ==
    ASSUME TypeOK, EndsInv, EndsInv', CoreInv, NEW f \in Filters, Unsubscribe(f)
    PROVE  CoreInv'
<1>1. CASE RequestFails([NoCall EXCEPT !.op = "unsubscribe", !.topic = f])
    BY <1>1, Ended DEF RequestFails, CloseSession, Return
<1>2. CASE /\ UNCHANGED session /\ UNCHANGED <<toClient, broker>>
           /\ Send(Packet("UNSUBSCRIBE", GetNext, f))
           /\ Begin("unsubscribe", f, GetNext, CommandTimeout)
    <2>1. /\ Packet("UNSUBSCRIBE", GetNext, f) \in PacketsToBroker
          /\ Packet("UNSUBSCRIBE", GetNext, f).type = "UNSUBSCRIBE"
        BY GetNextType DEF Packet, PacketsToBroker, TypeOK
    <2>2. From(toBroker, toBroker', "PUBLISH") /\ From(toBroker, toBroker', "SUBSCRIBE")
        BY <1>2, <2>1, SendsOther DEF TypeOK
    <2>3. From(toClient, toClient', "PUBACK") /\ From(toClient, toClient', "SUBACK")
        BY <1>2, FromSame
    <2>4. call.op = "none"
        BY DEF Unsubscribe, Request, EndsInv, IdleIsClean, NoCall
    <2>5. call'.op = "unsubscribe" /\ rc' = "none"
        BY <1>2 DEF Begin
    <2>6. QED
        BY <1>2, <2>2, <2>3, <2>4, <2>5, Quiet DEF session, broker
<1>3. QED
    BY <1>1, <1>2 DEF Unsubscribe, Request

LEMMA CorePublishWaits ==
    ASSUME TypeOK, EndsInv, EndsInv', CoreInv, phase = "idle", isconnected,
           Send(Packet("PUBLISH", GetNext, NoFilter)),
           Begin("publish", NoFilter, GetNext, CommandTimeout),
           UNCHANGED <<isconnected, handlers, toClient, bSession, bSubs>>
    PROVE  CoreInv'
<1> DEFINE p == Packet("PUBLISH", GetNext, NoFilter)
<1>1. p \in PacketsToBroker /\ p.type = "PUBLISH" /\ p.id = GetNext
    BY GetNextType DEF Packet, PacketsToBroker, TypeOK
<1>2. call.op = "none" /\ rc = "none" /\ ~Opening /\ Asked = {}
    BY DEF EndsInv, IdleIsClean, NoCall, Opening, Asked
<1>3. call'.op = "publish" /\ call'.id = GetNext /\ rc' = "none" /\ ~Opening' /\ Asked' = {}
    BY DEF Begin, Opening, Asked
<1>4. toBroker' = Append(toBroker, p) /\ toBroker \in Seq(PacketsToBroker)
    BY DEF Send, TypeOK, NetworkTypeOK
<1>5. From(toBroker, toBroker', "SUBSCRIBE") /\ From(toClient, toClient', "SUBACK")
    BY <1>1, <1>4, FromAppend, FromSame DEF Counts
<1>6. Exchange("SUBSCRIBE", "SUBACK", {"subscribe"})'
    BY <1>2, <1>3, <1>5, ExchangeStays DEF CoreInv
<1>7. NoneUnderWay("PUBLISH", "PUBACK")
    BY <1>2 DEF CoreInv, Exchange
<1>8. Exchange("PUBLISH", "PUBACK", {"publish", "resend"})'
    BY <1>1, <1>3, <1>4, <1>7, ExchangeBegins DEF TypeOK, IsKind
<1>9. PublishTracked'
    <2>1. \A k \in Places(toBroker', "PUBLISH") : toBroker'[k].id = GetNext
        BY <1>1, <1>4, <1>7, FromAppend DEF NoneUnderWay
    <2>2. QED
        BY <1>3, <1>7, <2>1 DEF Writing, PublishTracked, NoneUnderWay
<1>10. SubscribeTracked'
    BY <1>2, <1>3, <1>5, SubscribeStays DEF CoreInv
<1>11. QED
    BY <1>6, <1>8, <1>9, <1>10 DEF CoreInv

LEMMA CorePublish ==
    ASSUME TypeOK, EndsInv, EndsInv', CoreInv, NEW qos \in {0, 1}, Publish(qos)
    PROVE  CoreInv'
<1> DEFINE id == IF qos = 1 THEN GetNext ELSE 0
<1>1. /\ phase = "idle" /\ call.op = "none"
      /\ UNCHANGED <<toClient, bSession, bSubs>>
    BY DEF Publish, EndsInv, IdleIsClean, NoCall
<1>2. CASE /\ MayPublish /\ Send(Packet("PUBLISH", id, NoFilter))
           /\ IF qos = 1 THEN Begin("publish", NoFilter, id, CommandTimeout)
                         ELSE ReturnAtOnce("publish", id, "SUCCESS")
           /\ UNCHANGED <<isconnected, handlers>>
    <2>1. CASE qos = 1
        BY <1>1, <1>2, <2>1, CorePublishWaits DEF MayPublish
    <2>2. CASE qos = 0
        <3>1. /\ Packet("PUBLISH", 0, NoFilter) \in PacketsToBroker
              /\ Packet("PUBLISH", 0, NoFilter).id = 0
              /\ Packet("PUBLISH", 0, NoFilter).type = "PUBLISH"
            BY ZeroId DEF Packet, PacketsToBroker
        <3>2. From(toBroker, toBroker', "PUBLISH") /\ From(toBroker, toBroker', "SUBSCRIBE")
            BY <1>2, <2>2, <3>1, SendsOther DEF TypeOK
        <3>3. From(toClient, toClient', "PUBACK") /\ From(toClient, toClient', "SUBACK")
            BY <1>1, FromSame
        <3>4. call'.op = "none" /\ rc' = "none"
            BY <1>2, <2>2 DEF ReturnAtOnce, Return, NoCall
        <3>5. QED
            BY <1>1, <1>2, <3>2, <3>3, <3>4, Quiet DEF Writing
    <2>3. QED
        BY <2>1, <2>2
<1>3. CASE isconnected' = FALSE /\ ReturnAtOnce("publish", id, "FAILURE")
    BY <1>3, Ended DEF ReturnAtOnce, Return
<1>4. CASE ReturnAtOnce("publish", id, "FAILURE") /\ UNCHANGED <<session, toBroker>>
    <2>1. /\ From(toBroker, toBroker', "PUBLISH") /\ From(toBroker, toBroker', "SUBSCRIBE")
          /\ From(toClient, toClient', "PUBACK") /\ From(toClient, toClient', "SUBACK")
        BY <1>1, <1>4, FromSame
    <2>2. call'.op = "none" /\ rc' = "none"
        BY <1>4 DEF ReturnAtOnce, Return, NoCall
    <2>3. QED
        BY <1>1, <1>4, <2>1, <2>2, Quiet DEF session, Writing
<1>5. QED
    BY <1>2, <1>3, <1>4 DEF Publish

LEMMA CoreCalling ==
    ASSUME TypeOK, EndsInv, EndsInv', CoreInv, Calling
    PROVE  CoreInv'
<1>1. CASE Yield
    <2>1. /\ From(toBroker, toBroker', "PUBLISH") /\ From(toBroker, toBroker', "SUBSCRIBE")
          /\ From(toClient, toClient', "PUBACK") /\ From(toClient, toClient', "SUBACK")
        BY <1>1, FromSame DEF Yield, network
    <2>2. call.op = "none" /\ call'.op = "yield" /\ rc' = "none"
        BY <1>1 DEF Yield, Begin, EndsInv, IdleIsClean, NoCall
    <2>3. QED
        BY <1>1, <2>1, <2>2, Quiet DEF Yield, session, broker
<1>2. CASE Disconnect
    BY <1>2, Ended DEF Disconnect, CloseSession, ReturnAtOnce, Return
<1>3. QED
    BY <1>1, <1>2, CoreConnect, CoreSubscribe, CoreUnsubscribe, CorePublish DEF Calling

-----------------------------------------------------------------------------
(* A cycle and its keepalive.                                              *)

LEMMA FailsQuietly ==
    ASSUME CoreInv, EndsInv', NEW r, NEW c, CycleFails(r, c), isconnected \in BOOLEAN,
           c.op = call.op, c.id = call.id, c.topic = call.topic,
           r \notin {"PUBACK", "SUBACK"}, UNCHANGED <<toBroker, broker>>,
           From(toClient, toClient', "PUBACK"), From(toClient, toClient', "SUBACK")
    PROVE  CoreInv'
<1>1. call' = c /\ rc' = r /\ ~isconnected'
    BY DEF CycleFails, CloseSession, session
<1>2. From(toBroker, toBroker', "PUBLISH") /\ From(toBroker, toBroker', "SUBSCRIBE")
    BY FromSame
<1>3. QED
    BY <1>1, <1>2, Quiet DEF broker

\* The answer to the one request under way is read.
LEMMA CoreReadAck ==
    ASSUME TypeOK, EndsInv', CoreInv, ReadAck, ~cut'
    PROVE  CoreInv'
<1>1. /\ toClient # <<>> /\ toClient' = Rest
      /\ rc' = Head(toClient).type /\ readbuf' = Head(toClient)
      /\ UNCHANGED <<isconnected, handlers, call, toBroker, broker>>
    BY ConsumeWhole DEF ReadAck, Readable
<1>2. From(toClient, toClient', "PUBACK") /\ From(toClient, toClient', "SUBACK")
    BY <1>1, ReadsOne DEF TypeOK
<1>3. From(toBroker, toBroker', "PUBLISH") /\ From(toBroker, toBroker', "SUBSCRIBE")
    BY <1>1, FromSame
<1>4. Opening' = Opening /\ Asked' = Asked
    BY <1>1 DEF Opening, Asked
<1>5. toClient \in Seq(PacketsToClient)
    BY DEF TypeOK, NetworkTypeOK
<1>6. CASE rc' = "PUBACK"
    <2>1. Exchange("PUBLISH", "PUBACK", {"publish", "resend"})'
        BY <1>1, <1>6, ExchangeReads DEF TypeOK, IsKind, CoreInv
    <2>2. Exchange("SUBSCRIBE", "SUBACK", {"subscribe"})'
        BY <1>1, <1>2, <1>3, <1>4, <1>6, ExchangeStays DEF CoreInv
    <2>3. 1 \in Places(toClient, "PUBACK")
        BY <1>1, <1>5, <1>6, FromTail DEF Counts
    <2>4. PublishTracked'
        BY <1>1, <1>2, <1>3, <2>3, PublishStays DEF CoreInv, broker, Writing
    <2>5. SubscribeTracked'
        BY <1>1, <1>2, <1>3, <1>4, <1>6, SubscribeStays DEF CoreInv, broker
    <2>6. QED
        BY <2>1, <2>2, <2>4, <2>5 DEF CoreInv
<1>7. CASE rc' = "SUBACK"
    <2>1. Exchange("SUBSCRIBE", "SUBACK", {"subscribe"})'
        BY <1>1, <1>7, ExchangeReads DEF TypeOK, IsKind, CoreInv
    <2>2. Exchange("PUBLISH", "PUBACK", {"publish", "resend"})'
        BY <1>1, <1>2, <1>3, <1>4, <1>7, ExchangeStays DEF CoreInv
    <2>3. PublishTracked'
        BY <1>1, <1>2, <1>3, <1>7, PublishStays DEF CoreInv, broker, Writing
    <2>4. 1 \in Places(toClient, "SUBACK") /\ toClient[1] = Head(toClient)
        BY <1>1, <1>5, <1>7, FromTail DEF Counts
    <2>5. readbuf'.arg = "refused" => Head(toClient).arg = "refused"
        BY <1>1
    <2>6. readbuf'.arg = "refused" => Refused
        BY <2>4, <2>5 DEF Refused
    <2>7. SubscribeTracked'
        BY <1>1, <1>2, <1>3, <1>4, <2>6, SubscribeStays DEF CoreInv, broker
    <2>8. QED
        BY <2>1, <2>2, <2>3, <2>7 DEF CoreInv
<1>8. CASE rc' \notin {"PUBACK", "SUBACK"}
    BY <1>1, <1>2, <1>3, <1>8, Quiet DEF broker
<1>9. QED
    BY <1>6, <1>7, <1>8

LEMMA CoreReading ==
    ASSUME TypeOK, EndsInv', CoreInv, Reading, ~cut'
    PROVE  CoreInv'
<1> DEFINE failed == [call EXCEPT !.failed = TRUE]
<1>1. /\ failed.op = call.op /\ failed.id = call.id /\ failed.topic = call.topic
      /\ isconnected \in BOOLEAN
    BY CallValues DEF TypeOK, RunningTypeOK, SessionTypeOK
<1>2. ReadError => UNCHANGED <<toBroker, broker>> /\ CycleFails("FAILURE", failed)
    BY DEF ReadError, network
<1> HIDE DEF failed
<1>3. ASSUME ReadsWhole
      PROVE  From(toClient, toClient', "PUBACK") /\ From(toClient, toClient', "SUBACK")
    BY <1>3, ReadsOne DEF TypeOK, ReadsWhole, Readable
<1>4. CASE ReadNothing
    <2>1. /\ From(toBroker, toBroker', "PUBLISH") /\ From(toBroker, toBroker', "SUBSCRIBE")
          /\ From(toClient, toClient', "PUBACK") /\ From(toClient, toClient', "SUBACK")
        BY <1>4, FromSame DEF ReadNothing, network
    <2>2. QED
        BY <1>4, <2>1, Quiet DEF ReadNothing, session, broker
<1>5. CASE ReadError
    <2>1. From(toClient, toClient', "PUBACK") /\ From(toClient, toClient', "SUBACK")
        BY <1>5, FromSame DEF ReadError, network
    <2>2. QED
        BY <1>1, <1>2, <1>5, <2>1, FailsQuietly
<1>6. CASE ReadAck
    BY <1>6, CoreReadAck
<1>7. CASE ReadPublish \/ ReadPublishIllFormed
    <2>1. From(toClient, toClient', "PUBACK") /\ From(toClient, toClient', "SUBACK")
        BY <1>3, <1>7, WholeRead
    <2>2. rc' = "PUBLISH" /\ UNCHANGED <<isconnected, handlers, call, broker>>
        BY <1>7 DEF ReadPublish, ReadPublishIllFormed, session
    <2>3. From(toBroker, toBroker', "PUBLISH") /\ From(toBroker, toBroker', "SUBSCRIBE")
        <3>1. CASE toBroker' = toBroker
            BY <3>1, FromSame
        <3>2. CASE Send(Packet("PUBACK", 0, NoFilter))
            <4>1. /\ Packet("PUBACK", 0, NoFilter) \in PacketsToBroker
                  /\ Packet("PUBACK", 0, NoFilter).type = "PUBACK"
                BY ZeroId DEF Packet, PacketsToBroker
            <4>2. QED
                BY <3>2, <4>1, SendsOther DEF TypeOK
        <3>3. QED
            BY <1>7, <3>1, <3>2 DEF ReadPublish, ReadPublishIllFormed
    <2>4. QED
        BY <2>1, <2>2, <2>3, Quiet DEF broker
<1>8. CASE ReadPublishAckFails \/ ReadUnexpected
    <2>1. From(toClient, toClient', "PUBACK") /\ From(toClient, toClient', "SUBACK")
        BY <1>3, <1>8, WholeRead
    <2>2. PICK r : CycleFails(r, call) /\ r \notin {"PUBACK", "SUBACK"}
        BY <1>8 DEF ReadPublishAckFails, ReadUnexpected
    <2>3. UNCHANGED <<toBroker, broker>>
        BY <1>8 DEF ReadPublishAckFails, ReadUnexpected
    <2>4. QED
        BY <1>1, <2>1, <2>2, <2>3, FailsQuietly
<1>9. QED
    BY <1>4, <1>5, <1>6, <1>7, <1>8, PartialIsCut DEF Reading

LEMMA CoreKeepalive ==
    ASSUME TypeOK, EndsInv', CoreInv, Keepalive
    PROVE  CoreInv'
<1>1. From(toClient, toClient', "PUBACK") /\ From(toClient, toClient', "SUBACK")
    BY FromSame DEF Keepalive, KeepaliveQuiet, KeepalivePings, KeepaliveFails, network
<1>2. CASE KeepaliveQuiet
    <2>1. From(toBroker, toBroker', "PUBLISH") /\ From(toBroker, toBroker', "SUBSCRIBE")
        BY <1>2, FromSame DEF KeepaliveQuiet, network
    <2>2. QED
        BY <1>1, <1>2, <2>1, Quiet DEF KeepaliveQuiet, session, broker
<1>3. CASE KeepalivePings
    <2>1. /\ Packet("PINGREQ", 0, NoFilter) \in PacketsToBroker
          /\ Packet("PINGREQ", 0, NoFilter).type = "PINGREQ"
        BY ZeroId DEF Packet, PacketsToBroker
    <2>2. From(toBroker, toBroker', "PUBLISH") /\ From(toBroker, toBroker', "SUBSCRIBE")
        BY <1>3, <2>1, SendsOther DEF KeepalivePings, TypeOK
    <2>3. QED
        BY <1>1, <1>3, <2>2, Quiet DEF KeepalivePings, broker
<1>4. CASE KeepaliveFails
    BY <1>1, <1>4, FailsQuietly DEF KeepaliveFails, network, TypeOK, SessionTypeOK
<1>5. QED
    BY <1>2, <1>3, <1>4 DEF Keepalive

-----------------------------------------------------------------------------
(* The calls return: with a session only if they had their answer.         *)

\* A call that asked and had its answer, or whose CONNACK was accepted.
LEMMA Returned ==
    ASSUME CoreInv, NEW r, Return(call, r), UNCHANGED <<network, broker>>,
           \/ isconnected /\ call.op = "publish" /\ rc = "PUBACK"
           \/ isconnected /\ call.op = "subscribe" /\ rc = "SUBACK"
           \/ call.op = "resend" /\ rc = "PUBACK"
           \/ call.op = "connect",
           CleanSession /\ bSession = "open" => bSubs \subseteq Registered'
    PROVE  CoreInv'
<1>1. UNCHANGED <<toBroker, toClient, bSession, bSubs>>
    BY DEF network, broker
<1>2. call'.op = "none" /\ rc' = "none" /\ ~Opening'
    BY DEF Return, NoCall, Opening
<1>3. NoneUnderWay("PUBLISH", "PUBACK") /\ NoneUnderWay("SUBSCRIBE", "SUBACK")
    BY DEF CoreInv, Exchange, OneUnderWay, Opening
<1>4. NoneUnderWay("PUBLISH", "PUBACK")' /\ NoneUnderWay("SUBSCRIBE", "SUBACK")'
    BY <1>1, <1>3 DEF NoneUnderWay
<1>5. QED
    BY <1>1, <1>2, <1>4 DEF CoreInv, Exchange, Writing, PublishTracked, SubscribeTracked

\* The slot that is filled was empty, or had this very filter.
LEMMA SlotFilled ==
    ASSUME SessionTypeOK, NEW f, SetMessageHandler(f)
    PROVE  Registered \cup ({f} \ {NoFilter}) \subseteq Registered'
<1>1. PICK s \in Slots : IsSlot(s, f) /\ handlers' = [handlers EXCEPT ![s] = f]
    BY DEF SetMessageHandler, PutInSlot
<1>2. handlers[s] \in {f, NoFilter} /\ DOMAIN handlers = Slots
    BY <1>1 DEF IsSlot, SessionTypeOK
<1>3. handlers'[s] = f /\ \A t \in Slots : t # s => handlers'[t] = handlers[t]
    BY <1>1, <1>2
<1>4. QED
    BY <1>2, <1>3 DEF Registered

LEMMA CoreConnectDone ==
    ASSUME TypeOK, EndsInv, CoreInv, ConnectDone
    PROVE  CoreInv'
<1>1. /\ call.op = "connect" /\ \E r : Return(call, r)
      /\ UNCHANGED <<handlers, network, broker>>
    BY DEF ConnectDone
<1>2. CleanSession /\ bSession = "open" => bSubs \subseteq Registered'
    BY <1>1 DEF CoreInv, SubscribeTracked, Opening
<1>3. QED
    BY <1>1, <1>2, Returned

LEMMA CoreConnectResends ==
    ASSUME TypeOK, EndsInv, EndsInv', CoreInv, ConnectResends
    PROVE  CoreInv'
<1>1. CASE RequestFails(call)
    BY <1>1, Ended DEF RequestFails, CloseSession, Return
<1>2. CASE /\ Send(Packet("PUBLISH", inflight, NoFilter))
           /\ call' = [call EXCEPT !.op = "resend", !.id = inflight]
           /\ rc' = "none" /\ UNCHANGED <<session, toClient, broker>>
    <2> DEFINE p == Packet("PUBLISH", inflight, NoFilter)
    <2>1. p \in PacketsToBroker /\ p.type = "PUBLISH"
        BY DEF Packet, PacketsToBroker, TypeOK, SessionTypeOK
    <2>2. call.op = "connect" /\ call'.op = "resend"
        BY <1>2 DEF ConnectResends, TypeOK, RunningTypeOK, CallRecords
    <2>3. Opening /\ ~isconnected /\ ~isconnected'
        BY <1>2, <2>2 DEF Opening, EndsInv, SessionsEnd, session
    <2>4. toBroker' = Append(toBroker, p) /\ toBroker \in Seq(PacketsToBroker)
        BY <1>2 DEF Send, TypeOK, NetworkTypeOK
    <2>5. From(toBroker, toBroker', "SUBSCRIBE") /\ From(toClient, toClient', "SUBACK")
        BY <1>2, <2>1, <2>4, FromAppend, FromSame DEF Counts
    <2>6. Exchange("SUBSCRIBE", "SUBACK", {"subscribe"})'
        BY <1>2, <2>2, <2>3, <2>5, ExchangeStays DEF CoreInv
    <2>7. NoneUnderWay("PUBLISH", "PUBACK")
        BY <2>2, <2>3 DEF CoreInv, Exchange
    <2>8. Exchange("PUBLISH", "PUBACK", {"publish", "resend"})'
        BY <1>2, <2>1, <2>2, <2>4, <2>7, ExchangeBegins DEF TypeOK, IsKind
    <2>9. PublishTracked'
        <3>1. \A k \in Places(toBroker', "PUBLISH") : toBroker'[k].id = p.id
            BY <2>1, <2>4, <2>7, FromAppend DEF NoneUnderWay
        <3>2. call'.id = p.id
            BY <1>2 DEF TypeOK, RunningTypeOK, CallRecords, Packet
        <3>3. QED
            BY <1>2, <2>7, <3>1, <3>2 DEF PublishTracked, NoneUnderWay
    <2>10. SubscribeTracked'
        BY <1>2, <2>2, <2>3, <2>5, SubscribeStays DEF CoreInv, broker
    <2>11. QED
        BY <2>6, <2>8, <2>9, <2>10 DEF CoreInv
<1>3. QED
    BY <1>1, <1>2 DEF ConnectResends

LEMMA CoreWriteDone ==
    ASSUME TypeOK, EndsInv, CoreInv, PublishDone \/ ResendDone
    PROVE  CoreInv'
<1>1. CASE RequestFails(call)
    BY <1>1, Ended DEF RequestFails, CloseSession, Return
<1>2. CASE Acknowledged /\ Return(call, "SUCCESS") /\ handlers' = handlers
    <2>1. rc = "PUBACK" /\ UNCHANGED <<network, broker>>
        BY <1>2 DEF PublishDone, ResendDone, Acknowledged, Answered, Awaited
    <2>2. CASE call.op = "publish" /\ ~isconnected
        BY <1>2, <2>2, Ended DEF PublishDone, ResendDone, Return, RequestFails, CloseSession
    <2>3. CASE call.op = "publish" /\ isconnected
        <3>1. CleanSession /\ bSession = "open" => bSubs \subseteq Registered'
            BY <1>2, <2>3 DEF CoreInv, SubscribeTracked, Registered, Asked
        <3>2. QED
            BY <1>2, <2>1, <2>3, <3>1, Returned
    <2>4. CASE call.op = "resend"
        <3>1. CleanSession /\ bSession = "open" => bSubs \subseteq Registered'
            BY <2>4 DEF CoreInv, SubscribeTracked, Opening
        <3>2. QED
            BY <1>2, <2>1, <2>4, <3>1, Returned
    <2>5. QED
        BY <2>2, <2>3, <2>4 DEF PublishDone, ResendDone
<1>3. QED
    BY <1>1, <1>2 DEF PublishDone, ResendDone

LEMMA CoreSubscribeDone ==
    ASSUME TypeOK, EndsInv, CoreInv, SubscribeDone
    PROVE  CoreInv'
<1>1. call.op = "subscribe" /\ UNCHANGED <<network, broker>>
    BY DEF SubscribeDone
<1>2. CASE RequestFails(call)
    BY <1>2, Ended DEF RequestFails, CloseSession, Return
<1>3. ASSUME Answered, Return(call, "SUCCESS"), isconnected' = isconnected,
             isconnected /\ CleanSession /\ bSession = "open" => bSubs \subseteq Registered'
      PROVE  CoreInv'
    <2>1. rc = "SUBACK"
        BY <1>1, <1>3 DEF Answered, Awaited
    <2>2. CASE ~isconnected
        BY <1>3, <2>2, Ended DEF Return
    <2>3. CASE isconnected
        BY <1>1, <1>3, <2>1, <2>3, Returned
    <2>4. QED
        BY <2>2, <2>3
<1>4. CASE /\ Answered /\ SetMessageHandler(call.topic) /\ Return(call, "SUCCESS")
           /\ isconnected' = isconnected
    <2>1. Registered \cup ({call.topic} \ {NoFilter}) \subseteq Registered'
        BY <1>4, SlotFilled DEF TypeOK
    <2>2. NoFilter \notin bSubs
        BY ClientAssumption DEF TypeOK, BrokerTypeOK
    <2>3. isconnected /\ CleanSession /\ bSession = "open" => bSubs \subseteq Registered'
        BY <1>1, <2>1, <2>2 DEF CoreInv, SubscribeTracked, Asked
    <2>4. QED
        BY <1>3, <1>4, <2>3
<1>5. CASE /\ Answered /\ readbuf.arg = "refused" /\ Return(call, "SUCCESS")
           /\ UNCHANGED session
    <2>1. Refused /\ Registered' = Registered /\ isconnected' = isconnected
        BY <1>1, <1>5 DEF Refused, Answered, Awaited, Registered, session
    <2>2. isconnected /\ CleanSession /\ bSession = "open" => bSubs \subseteq Registered'
        BY <1>1, <2>1 DEF CoreInv, SubscribeTracked
    <2>3. QED
        BY <1>3, <1>5, <2>1, <2>2
<1>6. QED
    BY <1>2, <1>4, <1>5 DEF SubscribeDone

LEMMA CoreLooping ==
    ASSUME TypeOK, EndsInv, EndsInv', CoreInv, Looping
    PROVE  CoreInv'
<1>1. CASE LoopAgain \/ YieldDone
    <2>1. /\ From(toBroker, toBroker', "PUBLISH") /\ From(toBroker, toBroker', "SUBSCRIBE")
          /\ From(toClient, toClient', "PUBACK") /\ From(toClient, toClient', "SUBACK")
        BY <1>1, FromSame DEF LoopAgain, YieldDone, network
    <2>2. /\ call' = call \/ (call.op = "yield" /\ call'.op = "none")
          /\ rc' = "none" /\ UNCHANGED <<isconnected, handlers, bSession, bSubs, received>>
        BY <1>1 DEF LoopAgain, YieldDone, Return, NoCall, session, broker
    <2>3. QED
        BY <2>1, <2>2, Quiet
<1>2. CASE UnsubscribeDone
    <2>1. Answered => ~isconnected
        BY <1>2 DEF UnsubscribeDone, Answered, Awaited, EndsInv, SessionsEnd
    <2>2. ~isconnected' /\ call' = NoCall
        BY <1>2, <2>1 DEF UnsubscribeDone, RequestFails, CloseSession, Return
    <2>3. QED
        BY <2>2, Ended
<1>3. QED
    BY <1>1, <1>2, CoreConnectDone, CoreConnectResends, CoreWriteDone, CoreSubscribeDone
       DEF Looping

-----------------------------------------------------------------------------
(* The network and the broker.                                             *)

LEMMA TakesOne ==
    ASSUME NetworkTypeOK, NEW types, Takes(types)
    PROVE  /\ toBroker # <<>> /\ toBroker' = Tail(toBroker)
           /\ From(toBroker, toBroker', "PUBLISH") /\ From(toBroker, toBroker', "SUBSCRIBE")
           /\ UNCHANGED <<isconnected, handlers, call, rc, readbuf, result>>
           /\ Opening' = Opening /\ Asked' = Asked /\ Registered' = Registered
<1>1. toBroker # <<>> /\ toBroker' = Tail(toBroker) /\ toBroker \in Seq(PacketsToBroker)
    BY DEF Takes, NetworkTypeOK
<1>2. From(toBroker, toBroker', "PUBLISH") /\ From(toBroker, toBroker', "SUBSCRIBE")
    BY <1>1, FromTail
<1>3. UNCHANGED <<isconnected, handlers, call, rc, readbuf, result>>
    BY DEF Takes, session, running
<1>4. QED
    BY <1>1, <1>2, <1>3 DEF Opening, Asked, Registered

LEMMA AnswersOther ==
    ASSUME NetworkTypeOK, NEW p \in PacketsToClient, Answers(p), NEW type,
           type # "PUBLISH", p.type # type
    PROVE  From(toClient, toClient', type)
BY FromAppend DEF NetworkTypeOK, Answers, Counts

LEMMA AnswersFrom ==
    ASSUME NetworkTypeOK, NEW p \in PacketsToClient, Answers(p), NEW type
    PROVE  FromOr(toClient, toClient', type, p)
BY FromOrAppend DEF NetworkTypeOK, Answers

LEMMA AnswersAreToClient ==
    ASSUME NEW t \in ToClientTypes, NEW i \in Ids, NEW a \in Filters \cup {NoFilter} \cup Codes
    PROVE  Packet(t, i, a) \in PacketsToClient /\ Packet(t, i, a).type = t
           /\ Packet(t, i, a).arg = a
BY DEF Packet, PacketsToClient

\* The broker has received the message whose acknowledgement it sends.
LEMMA CoreBrokerReceivesPublish ==
    ASSUME TypeOK, EndsInv', CoreInv, BrokerReceivesPublish
    PROVE  CoreInv'
<1> DEFINE p == Packet("PUBACK", Head(toBroker).id, NoFilter)
<1>1. /\ toBroker # <<>> /\ toBroker' = Tail(toBroker) /\ Head(toBroker).type = "PUBLISH"
      /\ From(toBroker, toBroker', "PUBLISH") /\ From(toBroker, toBroker', "SUBSCRIBE")
      /\ UNCHANGED <<isconnected, handlers, call, rc, readbuf, bSession, bSubs>>
      /\ Opening' = Opening /\ Asked' = Asked
    BY TakesOne DEF BrokerReceivesPublish, TypeOK, Takes
<1>2. CASE Head(toBroker).id = 0
    <2>1. From(toClient, toClient', "PUBACK") /\ From(toClient, toClient', "SUBACK")
        BY <1>2, FromSame DEF BrokerReceivesPublish
    <2>2. QED
        BY <1>1, <1>2, <2>1, Quiet DEF BrokerReceivesPublish
<1>3. CASE Head(toBroker).id # 0
    <2>1. Answers(p) /\ received' = received \cup {Head(toBroker).id}
        BY <1>3 DEF BrokerReceivesPublish
    <2>2. p \in PacketsToClient /\ p.type = "PUBACK"
        BY TakesType, AnswersAreToClient
           DEF BrokerReceivesPublish, PacketsToBroker, ToClientTypes, ReadTypes, AckTypes
    <2>3. From(toClient, toClient', "SUBACK")
        BY <2>1, <2>2, AnswersOther DEF TypeOK
    <2>4. 1 \in Places(toBroker, "PUBLISH") /\ toBroker[1] = Head(toBroker)
        <3>1. toBroker \in Seq(PacketsToBroker)
            BY DEF TypeOK, NetworkTypeOK
        <3>2. QED
            BY <1>1, <1>3, <3>1, FromTail DEF Counts
    <2>5. Exchange("PUBLISH", "PUBACK", {"publish", "resend"})'
        BY <1>1, <1>3, <2>1, <2>2, ExchangeAnswered DEF CoreInv, TypeOK, IsKind, Counts, Answers
    <2>6. Exchange("SUBSCRIBE", "SUBACK", {"subscribe"})'
        BY <1>1, <2>3, ExchangeStays DEF CoreInv
    <2>7. PublishTracked'
        <3>1. \A k \in Places(toBroker', "PUBLISH") :
                 \E j \in Places(toBroker, "PUBLISH") : toBroker'[k] = toBroker[j]
            <4>1. From(toBroker, toBroker', "PUBLISH")
                BY <1>1
            <4>2. QED
                BY <4>1, FromKeeps
        <3>2. Writing => Head(toBroker).id = call.id
            BY <2>4 DEF CoreInv, PublishTracked
        <3>3. FromOr(toClient, toClient', "PUBACK", p)
            BY <2>1, <2>2, AnswersFrom DEF TypeOK
        <3>4. Writing' = Writing
            BY <1>1 DEF Writing
        <3>5. SUFFICES ASSUME Writing'
                       PROVE  /\ \A k \in Places(toBroker', "PUBLISH") : toBroker'[k].id = call.id
                              /\ \A k \in Places(toClient', "PUBACK") :
                                    toClient'[k] = Packet("PUBACK", call.id, NoFilter)
                              /\ call.id \in received'
            BY <1>1 DEF PublishTracked
        <3>6. Head(toBroker).id = call.id
            BY <3>2, <3>4, <3>5
        <3>7. PublishTracked /\ Writing
            BY <3>4, <3>5 DEF CoreInv
        <3>8. \A k \in Places(toBroker', "PUBLISH") : toBroker'[k].id = call.id
            BY <3>1, <3>7 DEF PublishTracked
        <3>9. \A k \in Places(toClient', "PUBACK") :
                 toClient'[k] = Packet("PUBACK", call.id, NoFilter)
            BY <3>3, <3>6, <3>7 DEF PublishTracked, FromOr
        <3>10. QED
            BY <2>1, <3>6, <3>8, <3>9
    <2>8. SubscribeTracked'
        <3>1. rc' = "SUBACK" /\ readbuf'.arg = "refused" => Refused
            BY <1>1 DEF Refused
        <3>2. QED
            BY <1>1, <2>3, <3>1, SubscribeStays DEF CoreInv
    <2>9. QED
        BY <2>5, <2>6, <2>7, <2>8 DEF CoreInv
<1>4. QED
    BY <1>2, <1>3

\* A subscription comes to be only for the request that runs.
LEMMA CoreBrokerSubscribe ==
    ASSUME TypeOK, EndsInv', CoreInv, BrokerSubscribe
    PROVE  CoreInv'
<1> DEFINE p(code) == Packet("SUBACK", Head(toBroker).id, code)
<1>1. /\ toBroker # <<>> /\ toBroker' = Tail(toBroker) /\ Head(toBroker).type = "SUBSCRIBE"
      /\ From(toBroker, toBroker', "PUBLISH")
      /\ UNCHANGED <<isconnected, handlers, call, rc, readbuf, bSession, received>>
      /\ Opening' = Opening /\ Asked' = Asked /\ Registered' = Registered
    BY TakesOne DEF BrokerSubscribe, TypeOK, Takes
<1>2. ASSUME NEW code \in {"ok", "refused"}
      PROVE  p(code) \in PacketsToClient /\ p(code).type = "SUBACK" /\ p(code).arg = code
    BY TakesType, AnswersAreToClient
       DEF BrokerSubscribe, PacketsToBroker, ToClientTypes, ReadTypes, AckTypes, Codes
<1>3. PICK code \in {"ok", "refused"} :
         /\ Answers(p(code))
         /\ bSubs' = IF code = "ok" THEN bSubs \cup {Head(toBroker).arg} ELSE bSubs
    BY DEF BrokerSubscribe
<1>4. toBroker \in Seq(PacketsToBroker) /\ toClient \in Seq(PacketsToClient)
    BY DEF TypeOK, NetworkTypeOK
<1>5. /\ 1 \in Places(toBroker, "SUBSCRIBE") /\ toBroker[1] = Head(toBroker)
      /\ AtMostOne(Places(toBroker, "SUBSCRIBE")) => Places(toBroker', "SUBSCRIBE") = {}
    <2>1. Counts(Head(toBroker), "SUBSCRIBE") /\ toBroker # <<>> /\ toBroker' = Tail(toBroker)
        BY <1>1 DEF Counts
    <2>2. toBroker[1] = Head(toBroker)
        BY <1>4, <2>1
    <2>3. /\ 1 \in Places(toBroker, "SUBSCRIBE")
          /\ AtMostOne(Places(toBroker, "SUBSCRIBE")) => Places(Tail(toBroker), "SUBSCRIBE") = {}
        BY <1>4, <2>1, FromTail
    <2>4. QED
        BY <2>1, <2>2, <2>3
<1>6. From(toClient, toClient', "PUBACK")
    BY <1>2, <1>3, AnswersOther DEF TypeOK
<1>7. Exchange("SUBSCRIBE", "SUBACK", {"subscribe"})'
    <2>1. toClient' = Append(toClient, p(code))
        BY <1>3 DEF Answers
    <2>2. QED
        BY <1>1, <1>2, <2>1, ExchangeAnswered DEF CoreInv, TypeOK, IsKind, Counts
<1>8. Exchange("PUBLISH", "PUBACK", {"publish", "resend"})' /\ PublishTracked'
    BY <1>1, <1>6, ExchangeStays, PublishStays DEF CoreInv, Writing
<1>9. SubscribeTracked'
    <2>1. isconnected \/ Opening => call.op = "subscribe"
        BY <1>5 DEF CoreInv, Exchange, NoneUnderWay
    <2>2. CASE call.op # "subscribe"
        BY <1>1, <2>1, <2>2 DEF SubscribeTracked
    <2>3. CASE call.op = "subscribe"
        <3>1. OneUnderWay("SUBSCRIBE", "SUBACK")
            BY <2>3 DEF CoreInv, Exchange
        <3>2. /\ rc # "SUBACK" /\ Places(toClient, "SUBACK") = {}
              /\ Places(toBroker', "SUBSCRIBE") = {}
            BY <1>5, <3>1 DEF OneUnderWay, NoneUnderWay
        <3>3. Places(toClient', "SUBACK") \subseteq {Len(toClient) + 1}
              /\ toClient'[Len(toClient) + 1] = p(code)
            BY <1>2, <1>3, <1>4, <3>2, FromAppend DEF Answers
        <3>4. Refused' => code = "refused"
            BY <1>1, <1>2, <3>2, <3>3 DEF Refused
        <3>5. isconnected => Head(toBroker).arg = call.topic \/ ~CleanSession
            BY <1>5, <2>3 DEF CoreInv, SubscribeTracked
        <3>6. ~Opening'
            BY <1>1, <2>3 DEF Opening
        <3>7. isconnected /\ CleanSession /\ bSession = "open" =>
                 bSubs \subseteq Registered /\ bSubs' \subseteq Registered \cup {call.topic}
            BY <1>3, <1>5, <2>3, <3>5 DEF CoreInv, SubscribeTracked
        <3>8. CleanSession /\ isconnected' /\ bSession' = "open" =>
                 /\ bSubs' \subseteq Registered' \cup Asked'
                 /\ Refused' => bSubs' \subseteq Registered'
            BY <1>1, <1>3, <2>3, <3>4, <3>7 DEF Asked
        <3>9. QED
            BY <3>2, <3>6, <3>8 DEF SubscribeTracked
    <2>4. QED
        BY <2>2, <2>3
<1>10. QED
    BY <1>7, <1>8, <1>9 DEF CoreInv

LEMMA CoreBroker ==
    ASSUME TypeOK, EndsInv', CoreInv, Broker
    PROVE  CoreInv'
<1>1. ASSUME NEW types, Takes(types), received' = received,
             UNCHANGED toClient \/ \E p \in PacketsToClient :
                                       Answers(p) /\ p.type \notin {"PUBACK", "SUBACK"},
             CleanSession /\ bSession' = "open" =>
                bSubs' = {} \/ (bSession = "open" /\ bSubs' \subseteq bSubs)
      PROVE  CoreInv'
    <2>1. From(toClient, toClient', "PUBACK") /\ From(toClient, toClient', "SUBACK")
        BY <1>1, FromSame, AnswersOther DEF TypeOK
    <2>2. /\ From(toBroker, toBroker', "PUBLISH") /\ From(toBroker, toBroker', "SUBSCRIBE")
          /\ UNCHANGED <<isconnected, handlers, call, rc, readbuf>>
        BY <1>1, TakesOne DEF TypeOK
    <2>3. QED
        BY <1>1, <2>1, <2>2, Quiet
<1>2. CASE BrokerConnect
    <2>1. /\ \A a \in {"ok", "refused"} : /\ Packet("CONNACK", 0, a) \in PacketsToClient
                                          /\ Packet("CONNACK", 0, a).type = "CONNACK"
        BY ZeroId, AnswersAreToClient DEF ToClientTypes, ReadTypes, AckTypes, Codes
    <2>2. QED
        BY <1>1, <1>2, <2>1 DEF BrokerConnect
<1>3. CASE BrokerUnsubscribe
    <2>1. /\ Packet("UNSUBACK", Head(toBroker).id, NoFilter) \in PacketsToClient
          /\ Packet("UNSUBACK", Head(toBroker).id, NoFilter).type = "UNSUBACK"
        <3>1. Head(toBroker) \in PacketsToBroker
            BY <1>3, TakesType DEF BrokerUnsubscribe
        <3>2. Head(toBroker).id \in Ids
            BY <3>1 DEF PacketsToBroker
        <3>3. "UNSUBACK" \in ToClientTypes
            BY DEF ToClientTypes, ReadTypes, AckTypes
        <3>4. QED
            BY <3>2, <3>3, AnswersAreToClient
    <2>2. QED
        BY <1>1, <1>3, <2>1 DEF BrokerUnsubscribe
<1>4. CASE BrokerPing
    <2>1. /\ Packet("PINGRESP", 0, NoFilter) \in PacketsToClient
          /\ Packet("PINGRESP", 0, NoFilter).type = "PINGRESP"
        BY ZeroId, AnswersAreToClient DEF ToClientTypes, ReadTypes, AckTypes
    <2>2. QED
        BY <1>1, <1>4, <2>1 DEF BrokerPing, broker
<1>5. CASE BrokerPuback
    BY <1>1, <1>5 DEF BrokerPuback, broker
<1>6. CASE BrokerDisconnect
    BY <1>1, <1>6 DEF BrokerDisconnect
<1>7. CASE BrokerIgnores
    BY <1>1, <1>7 DEF BrokerIgnores, broker
<1>8. CASE BrokerDelivers
    <2>1. PICK f \in bSubs, id \in {0, 1} : Answers(Packet("PUBLISH", id, f))
        BY <1>8 DEF BrokerDelivers
    <2>2. id \in Ids /\ f \in Filters
        BY <2>1, ClientAssumption DEF TypeOK, BrokerTypeOK, Ids
    <2>3. /\ Packet("PUBLISH", id, f) \in PacketsToClient
          /\ Packet("PUBLISH", id, f).type = "PUBLISH"
        BY <2>2, AnswersAreToClient DEF ToClientTypes, ReadTypes
    <2>4. From(toClient, toClient', "PUBACK") /\ From(toClient, toClient', "SUBACK")
        BY <2>1, <2>3, AnswersOther DEF TypeOK
    <2>5. From(toBroker, toBroker', "PUBLISH") /\ From(toBroker, toBroker', "SUBSCRIBE")
        BY <1>8, FromSame DEF BrokerDelivers
    <2>6. QED
        BY <1>8, <2>4, <2>5, Quiet DEF BrokerDelivers, session, running, broker
<1>9. QED
    BY <1>2, <1>3, <1>4, <1>5, <1>6, <1>7, <1>8, CoreBrokerReceivesPublish, CoreBrokerSubscribe
       DEF Broker

LEMMA CoreNetwork ==
    ASSUME TypeOK, EndsInv', CoreInv, Network
    PROVE  CoreInv'
<1>1. toBroker' \in {toBroker, <<>>} \/ (toBroker # <<>> /\ toBroker' = Tail(toBroker))
    BY DEF Network, Reconnect, LinkDown, LinkStalls, StalledDrains
<1>2. From(toBroker, toBroker', "PUBLISH") /\ From(toBroker, toBroker', "SUBSCRIBE")
    <2>1. CASE toBroker' \in {toBroker, <<>>}
        BY <2>1, FromSame, FromNothing
    <2>2. CASE toBroker # <<>> /\ toBroker' = Tail(toBroker)
        <3>1. toBroker \in Seq(PacketsToBroker)
            BY DEF TypeOK, NetworkTypeOK
        <3>2. QED
            BY <2>2, <3>1, FromTail
    <2>3. QED
        BY <1>1, <2>1, <2>2
<1>3. toClient' \in {toClient, <<>>}
    BY DEF Network, Reconnect, LinkDown, LinkStalls, StalledDrains
<1>4. From(toClient, toClient', "PUBACK") /\ From(toClient, toClient', "SUBACK")
    BY <1>3, FromSame, FromNothing
<1>5. /\ UNCHANGED <<isconnected, handlers, call, rc, readbuf, bSubs, received>>
      /\ bSession' \in {bSession, "none"}
    BY DEF Network, Reconnect, LinkDown, LinkStalls, StalledDrains, session, running, broker
<1>6. QED
    BY <1>2, <1>4, <1>5, Quiet

-----------------------------------------------------------------------------
(* The invariants.                                                         *)

LEMMA CoreStep ==
    ASSUME TypeOK, EndsInv, EndsInv', ~cut => CoreInv, [Next]_vars, ~cut'
    PROVE  CoreInv'
<1>1. CASE Connect
    BY <1>1, CoreConnect
<1>2. SUFFICES ASSUME CoreInv PROVE CoreInv'
    BY <1>1, CutStays
<1>3. CASE Tick \/ UNCHANGED vars
    <2>1. UNCHANGED <<session, running, network, broker>>
        BY <1>3 DEF Tick, vars
    <2>2. /\ From(toBroker, toBroker', "PUBLISH") /\ From(toBroker, toBroker', "SUBSCRIBE")
          /\ From(toClient, toClient', "PUBACK") /\ From(toClient, toClient', "SUBACK")
        BY <2>1, FromSame DEF network
    <2>3. QED
        BY <1>2, <2>1, <2>2, Quiet DEF session, running, broker
<1>4. QED
    BY <1>2, <1>3, CoreCalling, CoreReading, CoreKeepalive, CoreLooping, CoreNetwork, CoreBroker
       DEF Next, CallStep

LEMMA CoreHolds == Spec => [](~cut => CoreInv)
<1>1. Init => CoreInv
    BY DEF Init, CoreInv, NoCall, Exchange, Opening, Writing, PublishTracked, SubscribeTracked
<1>2. /\ TypeOK /\ EndsInv /\ EndsInv' /\ (~cut => CoreInv) /\ [Next]_vars
      => (~cut => CoreInv)'
    BY CoreStep
<1>3. QED
    BY <1>1, <1>2, TypeCorrect, EndsHold, PTL DEF Spec

-----------------------------------------------------------------------------
(* The message in pubbuf.                                                  *)

\* A clean session stores nothing, whatever is read.
NothingStored == CleanSession => inflight = 0

LEMMA NothingStoredStep == NothingStored /\ [Next]_vars => NothingStored'
<1> SUFFICES ASSUME NothingStored, [Next]_vars, CleanSession PROVE inflight' = 0
    BY DEF NothingStored
<1>1. inflight = 0
    BY DEF NothingStored
<1>2. CASE Calling
    BY <1>1, <1>2
       DEF Calling, Connect, Subscribe, Unsubscribe, Request, RequestFails, Publish, Yield,
           Disconnect, CloseSession, session
<1>3. CASE Reading \/ Keepalive
    BY <1>1, <1>3
       DEF Reading, ReadNothing, ReadError, ReadPartial, ReadOversized, ReadAck, ReadPublish,
           ReadPublishIllFormed, ReadPublishAckFails, ReadUnexpected, Keepalive, KeepaliveQuiet,
           KeepalivePings, KeepaliveFails, CycleFails, CloseSession, session
<1>4. CASE Looping
    BY <1>1, <1>4
       DEF Looping, LoopAgain, YieldDone, ConnectDone, ConnectResends, PublishDone, ResendDone,
           SubscribeDone, UnsubscribeDone, Acknowledged, RequestFails, CloseSession, session
<1>5. CASE Tick \/ Network \/ Broker \/ UNCHANGED vars
    BY <1>1, <1>5 DEF Tick, Network, Reconnect, LinkDown, LinkStalls, StalledDrains, Broker,
           BrokerConnect, BrokerReceivesPublish, BrokerSubscribe, BrokerUnsubscribe, BrokerPing,
           BrokerPuback, BrokerDisconnect, BrokerIgnores, BrokerDelivers, Takes, vars, session
<1>6. QED
    BY <1>2, <1>3, <1>4, <1>5 DEF Next, CallStep

\* A step that neither begins nor ends a publish().
LEMMA InflightStays ==
    ASSUME InflightKnown, inflight' \in {inflight, IF CleanSession THEN 0 ELSE inflight},
           Writing' => Writing /\ call'.id = call.id,
           rc' = "PUBACK" => rc' = rc /\ readbuf' = readbuf,
           isconnected' /\ ~Writing' => isconnected /\ ~Writing
    PROVE  InflightKnown'
BY DEF InflightKnown

LEMMA InflightEnds ==
    ASSUME InflightKnown, call' = NoCall, ~isconnected' \/ inflight' = 0,
           CleanSession => inflight' = 0
    PROVE  InflightKnown'
BY DEF InflightKnown, Writing, NoCall

LEMMA InflightRequestFails ==
    ASSUME InflightKnown, NEW c, RequestFails(c)
    PROVE  InflightKnown'
BY InflightEnds DEF RequestFails, CloseSession, Return, InflightKnown

LEMMA InflightConnect ==
    ASSUME NothingStored, Connect
    PROVE  InflightKnown'
<1>1. ~isconnected' /\ inflight' = inflight /\ call'.op \in {"connect", "none"}
    BY DEF Connect, Begin, ReturnAtOnce, Return, NoCall, session
<1>2. QED
    BY <1>1 DEF InflightKnown, Writing, NothingStored

LEMMA InflightCalling ==
    ASSUME TypeOK, EndsInv, InflightKnown, Calling
    PROVE  InflightKnown'
<1>1. phase = "idle" /\ call.op = "none" /\ ~Writing
    <2>1. phase = "idle"
        BY DEF Calling, Connect, Subscribe, Unsubscribe, Request, Publish, Yield, Disconnect
    <2>2. QED
        BY <2>1 DEF EndsInv, IdleIsClean, NoCall, Writing
<1>2. ASSUME NEW op, NEW topic, NEW id, NEW ticks, Begin(op, topic, id, ticks),
             op \notin {"publish", "resend"}, isconnected' = isconnected, inflight' = inflight
      PROVE  InflightKnown'
    BY <1>1, <1>2, InflightStays DEF Begin, Writing
<1>3. CASE Connect
    BY <1>3, InflightConnect DEF NothingStored, InflightKnown
<1>4. ASSUME NEW op \in {"subscribe", "unsubscribe"}, NEW type, NEW f, Request(op, type, f)
      PROVE  InflightKnown'
    <2>1. CASE Begin(op, f, GetNext, CommandTimeout) /\ UNCHANGED session
        BY <1>2, <2>1 DEF session
    <2>2. CASE RequestFails([NoCall EXCEPT !.op = op, !.topic = f])
        BY <2>2, InflightRequestFails
    <2>3. QED
        BY <1>4, <2>1, <2>2 DEF Request
<1>5. ASSUME NEW qos \in {0, 1}, Publish(qos)
      PROVE  InflightKnown'
    <2> DEFINE id   == IF qos = 1 THEN GetNext ELSE 0
               keep == IF CleanSession THEN inflight ELSE id
    <2>1. CleanSession => keep = 0
        BY DEF InflightKnown
    <2>2. CASE inflight' = keep /\ qos = 1 /\ Begin("publish", NoFilter, id, CommandTimeout)
        BY <2>1, <2>2 DEF Begin, InflightKnown, Writing
    <2>3. CASE inflight' = keep /\ qos = 0 /\ ReturnAtOnce("publish", id, "SUCCESS")
        BY <2>1, <2>3, InflightEnds DEF ReturnAtOnce, Return
    <2>4. CASE /\ ~isconnected' /\ inflight' = IF CleanSession THEN 0 ELSE keep
               /\ ReturnAtOnce("publish", id, "FAILURE")
        BY <2>4, InflightEnds DEF ReturnAtOnce, Return
    <2>5. CASE ReturnAtOnce("publish", id, "FAILURE") /\ UNCHANGED session
        BY <1>1, <2>5, InflightStays DEF ReturnAtOnce, Return, NoCall, Writing, session
    <2>6. QED
        BY <1>5, <2>2, <2>3, <2>4, <2>5 DEF Publish
<1>6. CASE Yield
    BY <1>2, <1>6 DEF Yield, session
<1>7. CASE Disconnect
    BY <1>7, InflightEnds DEF Disconnect, CloseSession, ReturnAtOnce, Return, InflightKnown
<1>8. QED
    BY <1>3, <1>4, <1>5, <1>6, <1>7 DEF Calling, Subscribe, Unsubscribe

LEMMA InflightCycle ==
    ASSUME TypeOK, CoreInv, InflightKnown, Reading \/ Keepalive, ~cut'
    PROVE  InflightKnown'
<1> DEFINE failed == [call EXCEPT !.failed = TRUE]
<1>1. failed.op = call.op /\ failed.id = call.id /\ isconnected \in BOOLEAN
    BY CallValues DEF TypeOK, RunningTypeOK, SessionTypeOK
<1>2. ASSUME NEW r, r # "PUBACK", CycleFails(r, failed) \/ CycleFails(r, call)
      PROVE  InflightKnown'
    <2>1. /\ call'.op = call.op /\ call'.id = call.id /\ rc' = r /\ ~isconnected'
          /\ inflight' \in {inflight, IF CleanSession THEN 0 ELSE inflight}
        BY <1>1, <1>2 DEF CycleFails, CloseSession, session
    <2>2. QED
        BY <1>2, <2>1, InflightStays DEF Writing
<1>3. ASSUME UNCHANGED <<isconnected, inflight, call>>,
             rc' = "PUBACK" => rc' = rc /\ readbuf' = readbuf
      PROVE  InflightKnown'
    BY <1>3, InflightStays DEF Writing
<1>4. CASE ReadAck
    <2>1. /\ UNCHANGED <<isconnected, inflight, call>> /\ rc' = Head(toClient).type
          /\ readbuf' = Head(toClient)
        BY <1>4, ConsumeWhole DEF ReadAck
    <2>2. CASE rc' = "PUBACK"
        <3>1. toClient \in Seq(PacketsToClient) /\ toClient # <<>>
            BY <1>4 DEF ReadAck, Readable, TypeOK, NetworkTypeOK
        <3>2. 1 \in Places(toClient, "PUBACK") /\ toClient[1] = Head(toClient)
            BY <2>1, <2>2, <3>1, FromTail DEF Counts
        <3>3. Writing => Head(toClient) = Packet("PUBACK", call.id, NoFilter)
            BY <3>2 DEF CoreInv, PublishTracked
        <3>4. QED
            BY <2>1, <3>3 DEF InflightKnown, Writing
    <2>3. QED
        BY <1>3, <2>1, <2>2
<1>5. CASE ReadError \/ ReadPartial \/ ReadOversized \/ ReadPublishAckFails \/ ReadUnexpected
           \/ KeepaliveFails
    BY <1>2, <1>5 DEF ReadError, ReadPartial, ReadOversized, ReadPublishAckFails, ReadUnexpected,
                      KeepaliveFails
<1>6. CASE \/ ReadNothing \/ ReadPublish \/ ReadPublishIllFormed
           \/ KeepaliveQuiet \/ KeepalivePings
    BY <1>3, <1>6 DEF ReadNothing, ReadPublish, ReadPublishIllFormed, KeepaliveQuiet,
                      KeepalivePings, session
<1>7. QED
    BY <1>4, <1>5, <1>6 DEF Reading, Keepalive

LEMMA InflightLooping ==
    ASSUME TypeOK, EndsInv, InflightKnown, Looping
    PROVE  InflightKnown'
<1>1. CASE RequestFails(call)
    BY <1>1, InflightRequestFails
<1>2. CASE LoopAgain
    BY <1>2, InflightStays DEF LoopAgain, session, Writing
<1>3. ASSUME NEW r, Return(call, r), inflight' = inflight, ~Writing,
             isconnected' => isconnected \/ inflight = 0
      PROVE  InflightKnown'
    BY <1>3, InflightEnds DEF Return, InflightKnown
<1>4. CASE YieldDone \/ ConnectDone \/ SubscribeDone \/ UnsubscribeDone
    BY <1>1, <1>3, <1>4 DEF YieldDone, ConnectDone, SubscribeDone, UnsubscribeDone, session, Writing
<1>5. CASE /\ call' = [call EXCEPT !.op = "resend", !.id = inflight] /\ ConnectResends
           /\ rc' = "none" /\ UNCHANGED session
    <2>1. call'.op = "resend" /\ call'.id = inflight
        BY <1>5 DEF TypeOK, RunningTypeOK, CallRecords
    <2>2. QED
        BY <1>5, <2>1 DEF InflightKnown, Writing, session
<1>6. CASE (PublishDone \/ ResendDone) /\ Acknowledged /\ Return(call, "SUCCESS")
    <2>1. Writing /\ rc = "PUBACK"
        BY <1>6 DEF PublishDone, ResendDone, Acknowledged, Answered, Awaited, Writing
    <2>2. ~CleanSession => ReadbufIds(readbuf) = {inflight}
        BY <2>1, ClientAssumption DEF InflightKnown, ReadbufIds, Packet
    <2>3. inflight' \in {inflight, 0} /\ (~CleanSession => inflight' = 0)
        BY <1>6, <2>2 DEF Acknowledged
    <2>4. call' = NoCall
        BY <1>6 DEF Return
    <2>5. QED
        BY <2>3, <2>4 DEF InflightKnown, Writing, NoCall
<1>7. QED
    BY <1>1, <1>2, <1>4, <1>5, <1>6 DEF Looping, ConnectResends, PublishDone, ResendDone

LEMMA InflightStep ==
    ASSUME TypeOK, EndsInv, ~cut => CoreInv /\ InflightKnown, NothingStored, [Next]_vars, ~cut'
    PROVE  InflightKnown'
<1>1. CASE Connect
    BY <1>1, InflightConnect
<1>2. SUFFICES ASSUME CoreInv, InflightKnown PROVE InflightKnown'
    BY <1>1, CutStays
<1>3. CASE Tick \/ Network \/ Broker \/ UNCHANGED vars
    <2>1. UNCHANGED <<session, running>>
        BY <1>3 DEF Tick, Network, Reconnect, LinkDown, LinkStalls, StalledDrains, Broker,
               BrokerConnect, BrokerReceivesPublish, BrokerSubscribe, BrokerUnsubscribe,
               BrokerPing, BrokerPuback, BrokerDisconnect, BrokerIgnores, BrokerDelivers, Takes,
               vars
    <2>2. QED
        BY <1>2, <2>1, InflightStays DEF session, running, Writing
<1>4. QED
    BY <1>2, <1>3, InflightCalling, InflightCycle, InflightLooping DEF Next, CallStep

InflightInv == NothingStored /\ (~cut => InflightKnown)

LEMMA InflightHolds == Spec => []InflightInv
<1>1. Init => InflightInv
    BY DEF Init, InflightInv, NothingStored, InflightKnown, Writing, NoCall
<1>2. TypeOK /\ EndsInv /\ (~cut => CoreInv) /\ InflightInv /\ [Next]_vars => InflightInv'
    BY NothingStoredStep, InflightStep DEF InflightInv
<1>3. QED
    BY <1>1, <1>2, TypeCorrect, EndsHold, CoreHolds, PTL DEF Spec

\* A step that changes what is stored either stores it anew, which only a
\* connected client does that has nothing stored, or clears it for a PUBACK;
\* on a connection of which a packet has been cut a call does neither.
LEMMA InflightChanges ==
    ASSUME TypeOK, EndsInv, CutIsClosed, ~cut => CoreInv, InflightInv, [Next]_vars,
           inflight # 0, inflight' # inflight, ~SplitReads
    PROVE  inflight \in received
<1>1. ~CleanSession /\ (~cut => InflightKnown)
    BY DEF InflightInv, NothingStored
<1>2. CASE Calling
    <2>1. ASSUME NEW qos \in {0, 1}, Publish(qos), MayPublish
          PROVE  FALSE
        <3>1. isconnected /\ call.op = "none"
            BY <2>1 DEF MayPublish, Publish, EndsInv, IdleIsClean, NoCall
        <3>2. ~cut
            BY <3>1 DEF CutIsClosed
        <3>3. QED
            BY <1>1, <3>1, <3>2 DEF InflightKnown, Writing
    <2>2. QED
        BY <1>1, <1>2, <2>1
           DEF Calling, Connect, Subscribe, Unsubscribe, Request, RequestFails, Publish, Yield,
               Disconnect, CloseSession, session
<1>3. CASE Reading \/ Keepalive
    BY <1>1, <1>3
       DEF Reading, ReadNothing, ReadError, ReadPartial, ReadOversized, ReadAck, ReadPublish,
           ReadPublishIllFormed, ReadPublishAckFails, ReadUnexpected, Keepalive, KeepaliveQuiet,
           KeepalivePings, KeepaliveFails, CycleFails, CloseSession, session
<1>4. CASE Looping
    <2>1. (PublishDone \/ ResendDone) /\ Acknowledged
        BY <1>1, <1>4
           DEF Looping, LoopAgain, YieldDone, ConnectDone, ConnectResends, PublishDone, ResendDone,
               SubscribeDone, UnsubscribeDone, RequestFails, CloseSession, session
    <2>2. Writing /\ rc = "PUBACK"
        BY <2>1 DEF PublishDone, ResendDone, Acknowledged, Answered, Awaited, Writing
    <2>3. ~cut
        BY <2>2 DEF CutIsClosed, Writing, Waiting
    <2>4. QED
        BY <1>1, <2>2, <2>3 DEF CoreInv, PublishTracked, InflightKnown
<1>5. CASE Tick \/ Network \/ Broker \/ UNCHANGED vars
    BY <1>5 DEF Tick, Network, Reconnect, LinkDown, LinkStalls, StalledDrains, Broker,
           BrokerConnect, BrokerReceivesPublish, BrokerSubscribe, BrokerUnsubscribe, BrokerPing,
           BrokerPuback, BrokerDisconnect, BrokerIgnores, BrokerDelivers, Takes, vars, session
<1>6. QED
    BY <1>2, <1>3, <1>4, <1>5 DEF Next, CallStep

\* While no packet is split, the message in pubbuf is forgotten or overwritten
\* only once the broker has it, whatever fails in between.
THEOREM InflightIsKept == ASSUME ~SplitReads PROVE Spec => InflightKept
<1>1. TypeOK /\ EndsInv /\ PartsInv /\ (~cut => CoreInv) /\ InflightInv /\ [Next]_vars
        => [inflight # 0 /\ inflight' # inflight => inflight \in received]_vars
    BY InflightChanges DEF PartsInv
<1>2. QED
    BY <1>1, TypeCorrect, EndsHold, PartsHold, CoreHolds, InflightHolds, PTL
       DEF Spec, InflightKept

-----------------------------------------------------------------------------
(* unsubscribe() and its answer.                                           *)

UnsubscribesInv == Exchange("UNSUBSCRIBE", "UNSUBACK", {"unsubscribe"})

\* Only unsubscribe() sends an UNSUBSCRIBE.
LEMMA UnsubscribeKept ==
    ASSUME TypeOK, [Next]_vars,
           \A f \in Filters :
              ~(Calling /\ Unsubscribe(f) /\ Send(Packet("UNSUBSCRIBE", GetNext, f)))
    PROVE  From(toBroker, toBroker', "UNSUBSCRIBE")
<1> DEFINE Other(p) == Send(p) /\ p.type # "UNSUBSCRIBE"
<1>1. ASSUME NEW p \in PacketsToBroker, Other(p)
      PROVE  From(toBroker, toBroker', "UNSUBSCRIBE")
    BY <1>1, FromAppend DEF TypeOK, NetworkTypeOK, Send, Counts
<1>2. ASSUME toBroker' \in {toBroker, <<>>} PROVE From(toBroker, toBroker', "UNSUBSCRIBE")
    BY <1>2, FromSame, FromNothing
<1>3. ASSUME toBroker # <<>>, toBroker' = Tail(toBroker)
      PROVE  From(toBroker, toBroker', "UNSUBSCRIBE")
    BY <1>3, FromTail DEF TypeOK, NetworkTypeOK
<1>4. ASSUME NEW t \in {"CONNECT", "PUBLISH", "PUBACK", "PINGREQ", "DISCONNECT"},
             NEW id \in Ids, Send(Packet(t, id, NoFilter))
      PROVE  From(toBroker, toBroker', "UNSUBSCRIBE")
    <2>1. /\ Packet(t, id, NoFilter) \in PacketsToBroker
          /\ Packet(t, id, NoFilter).type # "UNSUBSCRIBE"
        BY DEF Packet, PacketsToBroker
    <2>2. QED
        BY <1>1, <1>4, <2>1
<1>5. CASE Calling
    <2>1. ASSUME NEW f \in Filters, Subscribe(f)
          PROVE  From(toBroker, toBroker', "UNSUBSCRIBE")
        <3>1. /\ Packet("SUBSCRIBE", GetNext, f) \in PacketsToBroker
              /\ Packet("SUBSCRIBE", GetNext, f).type # "UNSUBSCRIBE"
            BY GetNextType DEF Packet, PacketsToBroker, TypeOK
        <3>2. QED
            BY <1>1, <1>2, <2>1, <3>1 DEF Subscribe, Request
    <2>2. ASSUME NEW f \in Filters, Unsubscribe(f)
          PROVE  toBroker' = toBroker
        BY <1>5, <2>2 DEF Unsubscribe, Request
    <2>3. ASSUME NEW qos \in {0, 1}, Publish(qos)
          PROVE  From(toBroker, toBroker', "UNSUBSCRIBE")
        <3> DEFINE id == IF qos = 1 THEN GetNext ELSE 0
        <3>1. id \in Ids
            BY GetNextType, ZeroId DEF TypeOK
        <3>2. Send(Packet("PUBLISH", id, NoFilter)) \/ toBroker' = toBroker
            BY <2>3 DEF Publish
        <3>3. QED
            BY <1>2, <1>4, <3>1, <3>2
    <2>4. CASE Connect \/ Yield \/ Disconnect
        BY <1>2, <1>4, <2>4, ZeroId DEF Connect, Yield, Disconnect, network
    <2>5. QED
        BY <1>2, <1>5, <2>1, <2>2, <2>3, <2>4 DEF Calling
<1>6. CASE Reading
    <2>1. CASE ReadPublish
        BY <1>2, <1>4, <2>1, ZeroId DEF ReadPublish
    <2>2. CASE ~ReadPublish
        BY <1>2, <1>6, <2>2
           DEF Reading, ReadNothing, ReadError, ReadPartial, ReadOversized, ReadAck,
               ReadPublishIllFormed, ReadPublishAckFails, ReadUnexpected, network
    <2>3. QED
        BY <2>1, <2>2
<1>7. CASE Keepalive
    BY <1>2, <1>4, <1>7, ZeroId
       DEF Keepalive, KeepaliveQuiet, KeepalivePings, KeepaliveFails, network
<1>8. CASE Looping
    <2>1. inflight \in Ids
        BY DEF TypeOK, SessionTypeOK
    <2>2. QED
        BY <1>2, <1>4, <1>8, <2>1
           DEF Looping, LoopAgain, YieldDone, ConnectDone, ConnectResends, PublishDone, ResendDone,
               SubscribeDone, UnsubscribeDone, network
<1>9. CASE Tick \/ Network \/ UNCHANGED vars
    BY <1>2, <1>3, <1>9
       DEF Tick, Network, Reconnect, LinkDown, LinkStalls, StalledDrains, vars, network
<1>10. CASE Broker
    BY <1>2, <1>3, <1>10
       DEF Broker, BrokerConnect, BrokerReceivesPublish, BrokerSubscribe, BrokerUnsubscribe,
           BrokerPing, BrokerPuback, BrokerDisconnect, BrokerIgnores, BrokerDelivers, Takes
<1>11. QED
    BY <1>5, <1>6, <1>7, <1>8, <1>9, <1>10 DEF Next, CallStep

\* Only the broker adds to what the client is sent, but for the rest of a packet.
LEMMA AnswersKept ==
    ASSUME TypeOK, [Next]_vars, ~Broker, ~cut', NEW type
    PROVE  From(toClient, toClient', type)
<1>1. ASSUME toClient' \in {toClient, <<>>} PROVE From(toClient, toClient', type)
    BY <1>1, FromSame, FromNothing
<1>2. CASE Reading
    <2>1. CASE ReadNothing \/ ReadError
        BY <1>1, <2>1 DEF ReadNothing, ReadError, network
    <2>2. CASE ~ReadNothing /\ ~ReadError
        <3>1. ReadsWhole
            BY <1>2, <2>2, WholeRead, PartialIsCut DEF Reading
        <3>2. QED
            BY <3>1, ReadsOne DEF TypeOK, ReadsWhole, Readable
    <2>3. QED
        BY <2>1, <2>2
<1>3. CASE Calling
    BY <1>1, <1>3 DEF Calling, Connect, Subscribe, Unsubscribe, Request, Publish, Yield,
                      Disconnect, network
<1>4. CASE Keepalive \/ Looping
    BY <1>1, <1>4
       DEF Keepalive, KeepaliveQuiet, KeepalivePings, KeepaliveFails, Looping, LoopAgain,
           YieldDone, ConnectDone, ConnectResends, PublishDone, ResendDone, SubscribeDone,
           UnsubscribeDone, network
<1>5. CASE Tick \/ Network \/ UNCHANGED vars
    BY <1>1, <1>5 DEF Tick, Network, Reconnect, LinkDown, LinkStalls, StalledDrains, vars, network
<1>6. QED
    BY <1>2, <1>3, <1>4, <1>5 DEF Next, CallStep

\* The broker answers with what is not an UNSUBACK, but to an UNSUBSCRIBE.
LEMMA BrokerAnswers ==
    ASSUME TypeOK, Broker
    PROVE  \/ toClient' = toClient
           \/ \E p \in PacketsToClient :
                 /\ Answers(p)
                 /\ p.type = "UNSUBACK" => BrokerUnsubscribe
                 /\ p.type = "SUBACK" => BrokerSubscribe
<1>1. ASSUME NEW types, Takes(types) PROVE Head(toBroker).id \in Ids
    BY <1>1, TakesType DEF PacketsToBroker
<1>2. CASE BrokerConnect
    <2>1. \A a \in {"ok", "refused"} : /\ Packet("CONNACK", 0, a) \in PacketsToClient
                                       /\ Packet("CONNACK", 0, a).type = "CONNACK"
        BY ZeroId, AnswersAreToClient DEF ToClientTypes, ReadTypes, AckTypes, Codes
    <2>2. QED
        BY <1>2, <2>1 DEF BrokerConnect
<1>3. CASE BrokerReceivesPublish
    <2>1. /\ Packet("PUBACK", Head(toBroker).id, NoFilter) \in PacketsToClient
          /\ Packet("PUBACK", Head(toBroker).id, NoFilter).type = "PUBACK"
        BY <1>1, <1>3, AnswersAreToClient
           DEF BrokerReceivesPublish, ToClientTypes, ReadTypes, AckTypes
    <2>2. QED
        BY <1>3, <2>1 DEF BrokerReceivesPublish
<1>4. CASE BrokerSubscribe
    <2>1. \A a \in {"ok", "refused"} :
             /\ Packet("SUBACK", Head(toBroker).id, a) \in PacketsToClient
             /\ Packet("SUBACK", Head(toBroker).id, a).type = "SUBACK"
        BY <1>1, <1>4, AnswersAreToClient
           DEF BrokerSubscribe, ToClientTypes, ReadTypes, AckTypes, Codes
    <2>2. QED
        BY <1>4, <2>1 DEF BrokerSubscribe
<1>5. CASE BrokerUnsubscribe
    <2>1. /\ Packet("UNSUBACK", Head(toBroker).id, NoFilter) \in PacketsToClient
          /\ Packet("UNSUBACK", Head(toBroker).id, NoFilter).type = "UNSUBACK"
        BY <1>1, <1>5, AnswersAreToClient DEF BrokerUnsubscribe, ToClientTypes, ReadTypes
    <2>2. QED
        BY <1>5, <2>1 DEF BrokerUnsubscribe
<1>6. CASE BrokerPing
    <2>1. /\ Packet("PINGRESP", 0, NoFilter) \in PacketsToClient
          /\ Packet("PINGRESP", 0, NoFilter).type = "PINGRESP"
        BY ZeroId, AnswersAreToClient DEF ToClientTypes, ReadTypes, AckTypes
    <2>2. QED
        BY <1>6, <2>1 DEF BrokerPing
<1>7. CASE BrokerPuback \/ BrokerDisconnect \/ BrokerIgnores
    BY <1>7 DEF BrokerPuback, BrokerDisconnect, BrokerIgnores
<1>8. CASE BrokerDelivers
    <2>1. PICK f \in bSubs, id \in {0, 1} : Answers(Packet("PUBLISH", id, f))
        BY <1>8 DEF BrokerDelivers
    <2>2. id \in Ids /\ f \in Filters
        BY <2>1, ClientAssumption DEF TypeOK, BrokerTypeOK, Ids
    <2>3. /\ Packet("PUBLISH", id, f) \in PacketsToClient
          /\ Packet("PUBLISH", id, f).type = "PUBLISH"
        BY <2>2, AnswersAreToClient DEF ToClientTypes, ReadTypes
    <2>4. QED
        BY <2>1, <2>3
<1>9. QED
    BY <1>2, <1>3, <1>4, <1>5, <1>6, <1>7, <1>8 DEF Broker

\* A call that runs: it connects only if it is connect(), and an unsubscribe()
\* returns without a session.
LEMMA CallGoesOn ==
    ASSUME TypeOK, EndsInv, [Next]_vars, ~Calling
    PROVE  /\ isconnected' => isconnected \/ Opening
           /\ \/ call'.op = call.op /\ call'.topic = call.topic
              \/ call' = NoCall /\ rc' = "none" /\ (call.op = "unsubscribe" => ~isconnected')
              \/ Opening /\ Opening' /\ rc' = "none" /\ inflight # 0
<1>1. CASE CallStep /\ ~Looping
    <2>1. /\ [call EXCEPT !.failed = TRUE].op = call.op
          /\ [call EXCEPT !.failed = TRUE].topic = call.topic
        BY CallValues DEF TypeOK, RunningTypeOK
    <2> DEFINE failed == [call EXCEPT !.failed = TRUE]
    <2> HIDE DEF failed
    <2>2. call' \in {call, failed}
        BY <1>1
           DEF failed, CallStep, Reading, ReadNothing, ReadError, ReadPartial, ReadOversized,
               ReadAck, ReadPublish, ReadPublishIllFormed, ReadPublishAckFails, ReadUnexpected,
               Keepalive, KeepaliveQuiet, KeepalivePings, KeepaliveFails, CycleFails
    <2>3. isconnected' => isconnected
        BY <1>1
           DEF CallStep, Reading, ReadNothing, ReadError, ReadPartial, ReadOversized,
               ReadAck, ReadPublish, ReadPublishIllFormed, ReadPublishAckFails, ReadUnexpected,
               Keepalive, KeepaliveQuiet, KeepalivePings, KeepaliveFails, CycleFails, CloseSession, session
    <2>4. call'.op = call.op /\ call'.topic = call.topic
        BY <2>1, <2>2 DEF failed
    <2>5. QED
        BY <2>3, <2>4
<1>2. CASE Looping
    <2>1. CASE RequestFails(call)
        BY <2>1 DEF RequestFails, CloseSession, Return
    <2>2. CASE LoopAgain
        BY <2>2 DEF LoopAgain, session
    <2>3. CASE ConnectResends
        <3>1. CASE call' = [call EXCEPT !.op = "resend", !.id = inflight]
            <4>1. call.op = "connect" /\ call'.op = "resend"
                BY <2>3, <3>1 DEF ConnectResends, TypeOK, RunningTypeOK, CallRecords
            <4>2. QED
                BY <2>1, <2>3, <4>1 DEF ConnectResends, Opening, session
        <3>2. QED
            BY <2>1, <2>3, <3>1 DEF ConnectResends
    <2>4. CASE UnsubscribeDone /\ ~RequestFails(call)
        BY <2>4 DEF UnsubscribeDone, Return, Answered, Awaited, EndsInv, SessionsEnd
    <2>5. CASE /\ YieldDone \/ ConnectDone \/ PublishDone \/ ResendDone \/ SubscribeDone
               /\ ~RequestFails(call)
        BY <2>5 DEF YieldDone, ConnectDone, PublishDone, ResendDone, SubscribeDone, Return,
                    Opening, session
    <2>6. QED
        BY <1>2, <2>1, <2>2, <2>3, <2>4, <2>5 DEF Looping
<1>3. CASE Tick \/ Network \/ Broker \/ UNCHANGED vars
    <2>1. UNCHANGED <<session, running>>
        BY <1>3 DEF Tick, Network, Reconnect, LinkDown, LinkStalls, StalledDrains, Broker,
               BrokerConnect, BrokerReceivesPublish, BrokerSubscribe, BrokerUnsubscribe,
               BrokerPing, BrokerPuback, BrokerDisconnect, BrokerIgnores, BrokerDelivers, Takes,
               vars
    <2>2. QED
        BY <2>1 DEF session, running
<1>4. QED
    BY <1>1, <1>2, <1>3 DEF Next, CallStep

\* No call runs when another one begins, and only connect() begins without a session.
LEMMA CallBegins ==
    ASSUME TypeOK, EndsInv, Calling
    PROVE  /\ phase = "idle" /\ call = NoCall /\ rc' = "none" /\ toClient' = toClient
           /\ isconnected' => isconnected
           /\ Opening' => Connect /\ link = "fresh"
           /\ call'.op \in {"subscribe", "unsubscribe"} => isconnected'
<1> USE DEF Begin, ReturnAtOnce, Return, NoCall, Opening
<1>1. CASE Connect
    BY <1>1 DEF Connect, Send, CanSend, session, EndsInv, IdleIsClean
<1>2. ASSUME NEW op \in {"subscribe", "unsubscribe"}, NEW type, NEW f, Request(op, type, f)
      PROVE  /\ phase = "idle" /\ rc' = "none" /\ ~Opening' /\ toClient' = toClient
             /\ isconnected' => isconnected
             /\ call'.op \in {"subscribe", "unsubscribe"} => isconnected'
    BY <1>2 DEF Request, RequestFails, CloseSession, session
<1>3. ASSUME NEW qos \in {0, 1}, Publish(qos)
      PROVE  /\ phase = "idle" /\ rc' = "none" /\ call'.op \in {"publish", "none"}
             /\ toClient' = toClient /\ (isconnected' => isconnected)
    BY <1>3 DEF Publish, session
<1>4. CASE Yield \/ Disconnect
    BY <1>4 DEF Yield, Disconnect, CloseSession, session, network, EndsInv, IdleIsClean
<1>5. QED
    BY <1>1, <1>2, <1>3, <1>4 DEF Calling, Subscribe, Unsubscribe, EndsInv, IdleIsClean

LEMMA UnsubscribesStep ==
    ASSUME TypeOK, EndsInv, EndsInv', ~cut => UnsubscribesInv, [Next]_vars, ~cut'
    PROVE  UnsubscribesInv'
<1> USE DEF UnsubscribesInv
<1>1. CASE Connect
    <2>1. CASE Opening'
        <3>1. toBroker = <<>> /\ toClient = <<>> /\ toClient' = toClient /\ rc' = "none"
            BY <1>1, <2>1 DEF Connect, Send, CanSend, Begin, ReturnAtOnce, Return, NoCall,
                              Opening, EndsInv, FreshIsEmpty
        <3>2. \A f \in Filters : ~Unsubscribe(f)
            BY <1>1, <2>1 DEF Connect, Unsubscribe, Request, RequestFails, Return, Begin,
                              Opening, NoCall
        <3>3. From(toBroker, toBroker', "UNSUBSCRIBE")
            BY <3>2, UnsubscribeKept
        <3>4. Places(toBroker, "UNSUBSCRIBE") = {} /\ Places(toClient', "UNSUBACK") = {}
            BY <3>1 DEF Places
        <3>5. NoneUnderWay("UNSUBSCRIBE", "UNSUBACK")'
            BY <3>3, <3>4, FromKeeps DEF NoneUnderWay
        <3>6. QED
            BY <2>1, <3>5 DEF Exchange, Opening
    <2>2. CASE ~Opening'
        <3>1. call' = NoCall /\ ~isconnected'
            BY <1>1, <2>2 DEF Connect, Begin, ReturnAtOnce, Return, Opening, session
        <3>2. QED
            BY <2>2, <3>1 DEF Exchange, NoCall
    <2>3. QED
        BY <2>1, <2>2
<1>2. SUFFICES ASSUME UnsubscribesInv, ~Connect PROVE UnsubscribesInv'
    BY <1>1, CutStays
<1>3. ASSUME NEW f \in Filters, Unsubscribe(f), Send(Packet("UNSUBSCRIBE", GetNext, f)), Calling
      PROVE  UnsubscribesInv'
    <2> DEFINE p == Packet("UNSUBSCRIBE", GetNext, f)
    <2>1. p \in PacketsToBroker
        BY GetNextType DEF Packet, PacketsToBroker, TypeOK
    <2>2. toBroker' = Append(toBroker, p) /\ Len(toBroker') # Len(toBroker)
        BY <1>3, <2>1 DEF Send, TypeOK, NetworkTypeOK
    <2>3. /\ isconnected /\ call'.op = "unsubscribe" /\ rc' = "none" /\ toClient' = toClient
        BY <1>3, <2>2 DEF Unsubscribe, Request, Begin
    <2>4. NoneUnderWay("UNSUBSCRIBE", "UNSUBACK")
        BY <1>2, <1>3, <2>3, CallBegins DEF Exchange, NoCall
    <2>5. QED
        BY <2>1, <2>2, <2>3, <2>4, ExchangeBegins DEF TypeOK, IsKind
<1>4. CASE ReadUnexpected /\ Head(toClient).type = "UNSUBACK"
    <2>1. toClient # <<>> /\ toClient' = Rest
        BY <1>4, WholeRead DEF ReadsWhole, Readable
    <2>2. UNCHANGED <<toBroker, call>> /\ (isconnected' => isconnected)
        BY <1>4 DEF ReadUnexpected, CycleFails, CloseSession, session
    <2>3. QED
        BY <1>2, <1>4, <2>1, <2>2, ExchangeReads DEF TypeOK, IsKind
<1>5. CASE BrokerUnsubscribe
    <2> DEFINE p == Packet("UNSUBACK", Head(toBroker).id, NoFilter)
    <2>1. /\ toBroker # <<>> /\ toBroker' = Tail(toBroker)
          /\ Counts(Head(toBroker), "UNSUBSCRIBE") /\ toClient' = Append(toClient, p)
          /\ UNCHANGED <<call, isconnected, rc>>
        BY <1>5, TakesOne DEF BrokerUnsubscribe, TypeOK, Takes, Counts, Answers
    <2>2. p \in PacketsToClient
        BY <1>5, TakesType, AnswersAreToClient
           DEF BrokerUnsubscribe, PacketsToBroker, ToClientTypes, ReadTypes
    <2>3. QED
        BY <1>2, <2>1, <2>2, ExchangeAnswered DEF TypeOK, IsKind
<1>6. ASSUME From(toBroker, toBroker', "UNSUBSCRIBE"), ~BrokerUnsubscribe,
             ~(ReadUnexpected /\ Head(toClient).type = "UNSUBACK"),
             Calling => call'.op # "unsubscribe"
      PROVE  UnsubscribesInv'
    <2>1. From(toClient, toClient', "UNSUBACK")
        <3>1. CASE ~Broker
            BY <3>1, AnswersKept
        <3>2. CASE Broker
            BY <1>6, <3>2, BrokerAnswers, AnswersOther, FromSame DEF TypeOK
        <3>3. QED
            BY <3>1, <3>2
    <2>2. rc' = "UNSUBACK" => rc = "UNSUBACK"
        <3>1. CASE Calling
            BY <3>1, CallBegins
        <3>2. CASE ReadUnexpected
            BY <1>6, <3>2, WholeRead DEF ReadsWhole
        <3>3. CASE ~Calling /\ ~ReadUnexpected
            BY <1>6, <3>3
               DEF Next, CallStep, Reading, ReadNothing, ReadError, ReadPartial, ReadOversized,
                   ReadAck, AckTypes, ReadPublish, ReadPublishIllFormed, ReadPublishAckFails,
                   Keepalive, KeepaliveQuiet, KeepalivePings, KeepaliveFails, CycleFails, Looping,
                   LoopAgain, YieldDone, ConnectDone, ConnectResends, PublishDone, ResendDone,
                   SubscribeDone, UnsubscribeDone, RequestFails, Return, Tick, Network, Reconnect,
                   LinkDown, LinkStalls, StalledDrains, Broker, BrokerConnect,
                   BrokerReceivesPublish, BrokerSubscribe, BrokerPing, BrokerPuback,
                   BrokerDisconnect, BrokerIgnores, BrokerDelivers, Takes, vars, running
        <3>4. QED
            BY <3>1, <3>2, <3>3
    <2>3. CASE Calling
        BY <1>2, <1>6, <2>1, <2>2, <2>3, CallBegins, ExchangeStays DEF NoCall
    <2>4. CASE ~Calling
        <3>1. call'.op = "unsubscribe" => call.op = "unsubscribe"
            BY <2>4, CallGoesOn DEF NoCall, Opening
        <3>2. call.op = "unsubscribe" /\ call'.op # "unsubscribe" => ~isconnected' /\ ~Opening'
            BY <2>4, CallGoesOn DEF NoCall, Opening
        <3>3. isconnected' \/ Opening' => isconnected \/ Opening
            BY <2>4, CallGoesOn DEF NoCall, Opening
        <3>4. QED
            BY <1>2, <1>6, <2>1, <2>2, <3>1, <3>2, <3>3, ExchangeStays
    <2>5. QED
        BY <2>3, <2>4
<1>7. CASE Calling
    <2>1. ASSUME NEW f \in Filters, Unsubscribe(f), ~Send(Packet("UNSUBSCRIBE", GetNext, f))
          PROVE  toBroker' = toBroker /\ call' = NoCall
        BY <2>1 DEF Unsubscribe, Request, RequestFails, Return
    <2>2. ASSUME \A f \in Filters : ~Unsubscribe(f)
          PROVE  call'.op # "unsubscribe"
        BY <1>7, <2>2
           DEF Calling, Connect, Subscribe, Request, RequestFails, Publish, Yield, Disconnect,
               ReturnAtOnce, Return, Begin, NoCall
    <2>3. ~ReadUnexpected
        BY <1>7, CallBegins DEF ReadUnexpected
    <2>4. ~BrokerUnsubscribe
        <3>1. toClient' = toClient /\ toClient \in Seq(PacketsToClient)
            BY <1>7, CallBegins DEF TypeOK, NetworkTypeOK
        <3>2. \A p : Append(toClient, p) # toClient
            BY <3>1
        <3>3. QED
            BY <3>1, <3>2 DEF BrokerUnsubscribe, Answers
    <2>5. CASE \E f \in Filters : Unsubscribe(f) /\ Send(Packet("UNSUBSCRIBE", GetNext, f))
        BY <1>3, <1>7, <2>5
    <2>6. CASE ~\E f \in Filters : Unsubscribe(f) /\ Send(Packet("UNSUBSCRIBE", GetNext, f))
        <3>1. From(toBroker, toBroker', "UNSUBSCRIBE")
            BY <2>6, UnsubscribeKept
        <3>2. call'.op # "unsubscribe"
            <4>1. CASE \E f \in Filters : Unsubscribe(f)
                BY <2>1, <2>6, <4>1 DEF NoCall
            <4>2. QED
                BY <2>2, <4>1
        <3>3. QED
            BY <1>6, <2>3, <2>4, <3>1, <3>2
    <2>7. QED
        BY <2>5, <2>6
<1>8. CASE ~Calling
    BY <1>4, <1>5, <1>6, <1>8, UnsubscribeKept
<1>9. QED
    BY <1>7, <1>8

LEMMA UnsubscribesHold == Spec => [](~cut => UnsubscribesInv)
<1>1. Init => UnsubscribesInv
    BY DEF Init, UnsubscribesInv, Exchange, Opening, NoneUnderWay, Places, NoCall
<1>2. /\ TypeOK /\ EndsInv /\ EndsInv' /\ (~cut => UnsubscribesInv) /\ [Next]_vars
      => (~cut => UnsubscribesInv)'
    BY UnsubscribesStep
<1>3. QED
    BY <1>1, <1>2, TypeCorrect, EndsHold, PTL DEF Spec

-----------------------------------------------------------------------------
(* The handlers and the subscriptions they are for.                        *)

\* What HandlersHeld rests on: while the client is connected, no packet has been cut.
BaseInv ==
    /\ TypeOK /\ EndsInv /\ CutIsClosed /\ NothingStored
    /\ ~cut => Parts /\ CoreInv /\ UnsubscribesInv
    /\ CleanSession /\ ~SplitReads

LEMMA WhileConnected ==
    ASSUME BaseInv, isconnected
    PROVE  /\ ~cut /\ SessionAgreement /\ NoRests /\ CoreInv /\ UnsubscribesInv
BY DEF BaseInv, CutIsClosed, Parts

LEMMA HandlerSet ==
    ASSUME SessionTypeOK, NEW f, SetMessageHandler(f)
    PROVE  Registered' \subseteq Registered \cup {f}
<1>1. PICK s \in Slots : handlers' = [handlers EXCEPT ![s] = f]
    BY DEF SetMessageHandler, PutInSlot
<1>2. \A t \in Slots : handlers'[t] \in {handlers[t], f}
    BY <1>1 DEF SessionTypeOK
<1>3. QED
    BY <1>2 DEF Registered

LEMMA HeadPlaced ==
    ASSUME NetworkTypeOK, Readable, Head(toClient).type # "PUBLISH"
    PROVE  1 \in Places(toClient, Head(toClient).type)
BY FromTail DEF NetworkTypeOK, Readable, Counts

\* A call whose cycle failed returns, unless it has a publish to send again.
LEMMA FailureStays ==
    ASSUME EndsInv, [Next]_vars, ~Calling, rc = "FAILURE", inflight = 0
    PROVE  /\ call' = NoCall \/ (rc' = "FAILURE" /\ call' = call)
           /\ isconnected' => isconnected
<1>1. phase = "loop"
    BY DEF EndsInv, SessionsEnd
<1>2. CASE Reading \/ Keepalive
    BY <1>1, <1>2
       DEF Reading, ReadNothing, ReadError, ReadPartial, ReadOversized, ReadAck, ReadPublish,
           ReadPublishIllFormed, ReadPublishAckFails, ReadUnexpected, Keepalive, KeepaliveQuiet,
           KeepalivePings, KeepaliveFails
<1>3. CASE Looping
    <2>1. ~Answered
        BY DEF Answered, Awaited
    <2>2. CASE RequestFails(call)
        BY <2>2 DEF RequestFails, CloseSession, Return
    <2>3. CASE ConnectDone
        BY <2>1, <2>3 DEF ConnectDone, Accepted, Return
    <2>4. CASE YieldDone
        BY <2>4 DEF YieldDone, Return, session
    <2>5. QED
        BY <1>3, <2>1, <2>2, <2>3, <2>4
           DEF Looping, LoopAgain, ConnectResends, PublishDone, ResendDone, SubscribeDone,
               UnsubscribeDone, GivesUp, Acknowledged
<1>4. CASE Tick \/ Network \/ Broker \/ UNCHANGED vars
    <2>1. UNCHANGED <<session, running>>
        BY <1>4 DEF Tick, Network, Reconnect, LinkDown, LinkStalls, StalledDrains, Broker,
               BrokerConnect, BrokerReceivesPublish, BrokerSubscribe, BrokerUnsubscribe,
               BrokerPing, BrokerPuback, BrokerDisconnect, BrokerIgnores, BrokerDelivers, Takes,
               vars
    <2>2. QED
        BY <2>1 DEF session, running
<1>5. QED
    BY <1>2, <1>3, <1>4 DEF Next, CallStep

\* The end of a session leaves no handler, and a subscribe() that it ends fails.
LEMMA ClosedStep ==
    ASSUME BaseInv, CutIsClosed', HandlersHeld, [Next]_vars
    PROVE  ClosedHasNone'
<1>1. /\ TypeOK /\ EndsInv /\ inflight = 0 /\ CleanSession /\ ~SplitReads /\ ClosedHasNone
    BY DEF BaseInv, HandlersHeld, NothingStored
<1>2. ASSUME ~isconnected' PROVE Registered' = {}
    <2>1. CASE handlers' = [s \in Slots |-> NoFilter]
        BY <2>1 DEF Registered
    <2>2. CASE ~isconnected /\ handlers' = handlers
        BY <1>1, <2>2 DEF ClosedHasNone, Registered
    <2>3. CASE Calling
        BY <1>1, <1>2, <2>1, <2>2, <2>3
           DEF Calling, Connect, Subscribe, Unsubscribe, Request, RequestFails, Publish,
               MayPublish, Yield, Disconnect, CloseSession, session
    <2>4. CASE Reading \/ Keepalive
        BY <1>1, <1>2, <2>1, <2>2, <2>4
           DEF Reading, ReadNothing, ReadError, ReadPartial, ReadOversized, ReadAck, ReadPublish,
               ReadPublishIllFormed, ReadPublishAckFails, ReadUnexpected, Keepalive, KeepaliveQuiet,
               KeepalivePings, KeepaliveFails, CycleFails, CloseSession, session
    <2>5. CASE Looping
        <3>1. CASE RequestFails(call)
            BY <1>1, <2>1, <3>1 DEF RequestFails, CloseSession
        <3>2. CASE SubscribeDone
            <4>1. Answered => isconnected
                BY <1>1, <3>2 DEF SubscribeDone, Answered, Awaited, ClosedHasNone
            <4>2. QED
                BY <1>2, <3>1, <3>2, <4>1 DEF SubscribeDone, session
        <3>3. CASE UnsubscribeDone
            <4>1. Answered => ~isconnected
                BY <1>1, <3>3 DEF UnsubscribeDone, Answered, Awaited, EndsInv, SessionsEnd
            <4>2. Answered => handlers' = handlers
                BY <1>1, <3>1, <3>3, <4>1
                   DEF UnsubscribeDone, RemoveMessageHandler, ClosedHasNone, GivesUp
            <4>3. QED
                BY <2>2, <3>1, <3>3, <4>1, <4>2 DEF UnsubscribeDone
        <3>4. CASE LoopAgain \/ YieldDone \/ ConnectDone \/ ConnectResends \/ PublishDone
                   \/ ResendDone
            <4>1. Opening => ~isconnected
                BY <1>1 DEF EndsInv, SessionsEnd
            <4>2. QED
                BY <1>1, <1>2, <2>2, <3>1, <3>4, <4>1
                   DEF LoopAgain, YieldDone, ConnectDone, ConnectResends, PublishDone,
                       ResendDone, Opening, session
        <3>5. QED
            BY <2>5, <3>2, <3>3, <3>4 DEF Looping
    <2>6. CASE Tick \/ Network \/ Broker \/ UNCHANGED vars
        <3>1. UNCHANGED session
            BY <2>6 DEF Tick, Network, Reconnect, LinkDown, LinkStalls, StalledDrains, Broker,
                   BrokerConnect, BrokerReceivesPublish, BrokerSubscribe, BrokerUnsubscribe,
                   BrokerPing, BrokerPuback, BrokerDisconnect, BrokerIgnores, BrokerDelivers,
                   Takes, vars
        <3>2. QED
            BY <1>2, <2>2, <3>1 DEF session
    <2>7. QED
        BY <2>3, <2>4, <2>5, <2>6 DEF Next, CallStep
<1>3. ASSUME ~isconnected', call'.op = "subscribe" PROVE rc' = "FAILURE"
    <2>1. CASE Calling
        BY <1>1, <1>3, <2>1, CallBegins
    <2>2. CASE ~Calling /\ ~isconnected
        <3>1. call.op = "subscribe"
            BY <1>1, <1>3, <2>2, CallGoesOn DEF NoCall
        <3>2. QED
            BY <1>1, <1>3, <2>2, <3>1, FailureStays DEF ClosedHasNone, NoCall
    <2>3. CASE ~Calling /\ isconnected
        <3>1. call.op = "subscribe"
            BY <1>1, <1>3, <2>3, CallGoesOn DEF NoCall
        <3>2. CASE cut'
            BY <1>1, <1>3, <3>2 DEF CutIsClosed, Waiting
        <3>3. CASE ReadUnexpected /\ ~cut'
            <4>1. Places(toClient, "UNSUBACK") = {} /\ NoRests
                BY <2>3, <3>1, WhileConnected DEF UnsubscribesInv, Exchange, NoneUnderWay
            <4>2. Readable /\ Head(toClient).type \in {"UNSUBACK", "CONNECT"}
                BY <3>3, WholeRead DEF ReadsWhole, ReadUnexpected, CycleFails
            <4>3. Head(toClient).type # "CONNECT"
                BY <1>1, <4>1, <4>2, ReadContents DEF NoRests, NotSent, TypeOK
            <4>4. QED
                BY <1>1, <4>1, <4>2, <4>3, HeadPlaced DEF TypeOK
        <3>4. CASE ReadError \/ ReadOversized \/ ReadPublishAckFails \/ KeepaliveFails
            BY <3>4 DEF ReadError, ReadOversized, ReadPublishAckFails, KeepaliveFails, CycleFails
        <3>5. CASE ReadNothing \/ ReadAck \/ ReadPublish \/ ReadPublishIllFormed
                   \/ KeepaliveQuiet \/ KeepalivePings
            BY <1>3, <2>3, <3>5 DEF ReadNothing, ReadAck, ReadPublish, ReadPublishIllFormed,
                                    KeepaliveQuiet, KeepalivePings, session
        <3>6. CASE Looping
            <4>1. CASE LoopAgain
                BY <1>3, <2>3, <4>1 DEF LoopAgain, session
            <4>2. CASE SubscribeDone
                BY <1>3, <4>2 DEF SubscribeDone, RequestFails, Return, NoCall
            <4>3. QED
                BY <3>1, <3>6, <4>1, <4>2
                   DEF Looping, YieldDone, ConnectDone, ConnectResends, PublishDone, ResendDone,
                       UnsubscribeDone
        <3>7. CASE Tick \/ Network \/ Broker \/ UNCHANGED vars
            <4>1. UNCHANGED session
                BY <3>7 DEF Tick, Network, Reconnect, LinkDown, LinkStalls, StalledDrains, Broker,
                       BrokerConnect, BrokerReceivesPublish, BrokerSubscribe, BrokerUnsubscribe,
                       BrokerPing, BrokerPuback, BrokerDisconnect, BrokerIgnores, BrokerDelivers,
                       Takes, vars
            <4>2. QED
                BY <1>3, <2>3, <4>1 DEF session
        <3>8. QED
            BY <2>3, <3>2, <3>3, <3>4, <3>5, <3>6, <3>7, PartialIsCut
               DEF Next, CallStep, Reading, Keepalive
    <2>4. QED
        BY <2>1, <2>2, <2>3
<1>4. QED
    BY <1>2, <1>3 DEF ClosedHasNone

\* Nothing happens to a call's subscriptions and handlers, and no SUBACK is new.
LEMMA GrantedStays ==
    ASSUME HandlersGranted, isconnected' => isconnected, link' # "down" => link # "down",
           (call'.op = call.op /\ call'.topic = call.topic) \/ call' = NoCall,
           call'.op # "unsubscribe" => call.op # "unsubscribe" \/ ~isconnected',
           isconnected' => handlers' = handlers, bSubs \subseteq bSubs',
           call'.op = "subscribe" /\ Granted' => Granted \/ call.topic \in bSubs'
    PROVE  HandlersGranted'
<1>1. isconnected' => Registered' = Registered
    BY DEF Registered
<1>2. QED
    BY <1>1 DEF HandlersGranted, NoCall

\* What the client was sent shows no grant that it did not show before.
LEMMA GrantedFrom ==
    ASSUME From(toClient, toClient', "SUBACK"),
           rc' = "SUBACK" /\ readbuf'.arg # "refused" => Granted
    PROVE  Granted' => Granted
<1>1. \A k \in Places(toClient', "SUBACK") :
         \E j \in Places(toClient, "SUBACK") : toClient'[k] = toClient[j]
    BY FromKeeps
<1>2. QED
    BY <1>1 DEF Granted

\* The broker grants the one subscription asked for, and takes one away only from a
\* client in unsubscribe().
LEMMA GrantedBroker ==
    ASSUME BaseInv, HandlersGranted, Broker, isconnected
    PROVE  HandlersGranted'
<1>1. /\ TypeOK /\ NetworkTypeOK /\ bSession = "open" /\ link = "up"
    <2>1. link = "up"
        BY DEF Broker, BrokerConnect, BrokerReceivesPublish, BrokerSubscribe, BrokerUnsubscribe,
               BrokerPing, BrokerPuback, BrokerDisconnect, BrokerIgnores, BrokerDelivers, Takes
    <2>2. QED
        BY <2>1, WhileConnected DEF BaseInv, TypeOK, SessionAgreement
<1>2. UNCHANGED <<isconnected, handlers, call, rc, readbuf, link>>
    BY DEF Broker, BrokerConnect, BrokerReceivesPublish, BrokerSubscribe, BrokerUnsubscribe,
           BrokerPing, BrokerPuback, BrokerDisconnect, BrokerIgnores, BrokerDelivers, Takes,
           session, running
<1>3. CASE BrokerSubscribe
    <2>1. 1 \in Places(toBroker, "SUBSCRIBE") /\ toBroker[1] = Head(toBroker)
        BY <1>1, <1>3, FromTail DEF BrokerSubscribe, Takes, Counts, NetworkTypeOK
    <2>2. call.op = "subscribe" => Head(toBroker).arg = call.topic
        BY <2>1, WhileConnected DEF BaseInv, CoreInv, SubscribeTracked
    <2>3. CASE bSubs' = bSubs \cup {Head(toBroker).arg}
        BY <1>1, <1>2, <2>2, <2>3, GrantedStays
    <2>4. CASE Answers(Packet("SUBACK", Head(toBroker).id, "refused")) /\ UNCHANGED bSubs
        <3> DEFINE p == Packet("SUBACK", Head(toBroker).id, "refused")
        <3>1. p \in PacketsToClient /\ p.arg = "refused"
            BY <1>1, <1>3, TakesType, AnswersAreToClient
               DEF BrokerSubscribe, PacketsToBroker, ToClientTypes, ReadTypes, AckTypes, Codes
        <3>2. FromOr(toClient, toClient', "SUBACK", p)
            BY <1>1, <2>4, <3>1, AnswersFrom
        <3>3. Granted' => Granted
            BY <1>2, <3>1, <3>2 DEF Granted, FromOr
        <3>4. QED
            BY <1>1, <1>2, <2>4, <3>3, GrantedStays
    <2>5. QED
        BY <1>3, <2>3, <2>4 DEF BrokerSubscribe
<1>4. CASE BrokerUnsubscribe
    <2>1. 1 \in Places(toBroker, "UNSUBSCRIBE")
        BY <1>1, <1>4, FromTail DEF BrokerUnsubscribe, Takes, Counts, NetworkTypeOK
    <2>2. call.op = "unsubscribe"
        BY <2>1, WhileConnected DEF UnsubscribesInv, Exchange, NoneUnderWay
    <2>3. QED
        BY <1>2, <2>2 DEF HandlersGranted
<1>5. CASE ~BrokerSubscribe /\ ~BrokerUnsubscribe
    <2>1. bSubs' = bSubs
        BY <1>1, <1>5 DEF Broker, BrokerConnect, BrokerReceivesPublish, BrokerPing, BrokerPuback,
               BrokerDisconnect, BrokerIgnores, BrokerDelivers, broker
    <2>2. From(toClient, toClient', "SUBACK")
        BY <1>1, <1>5, BrokerAnswers, AnswersOther, FromSame
    <2>3. Granted' => Granted
        BY <1>2, <2>2, GrantedFrom DEF Granted
    <2>4. QED
        BY <1>1, <1>2, <2>1, <2>3, GrantedStays
<1>6. QED
    BY <1>3, <1>4, <1>5

\* What subscribe() makes of a granted SUBACK, and the other ends of a call
LEMMA GrantedLooping ==
    ASSUME BaseInv, ClosedHasNone, HandlersGranted, Looping
    PROVE  HandlersGranted'
<1>1. TypeOK /\ EndsInv /\ inflight = 0
    BY DEF BaseInv, NothingStored
<1>2. UNCHANGED <<link, toClient, bSubs>>
    BY DEF Looping, LoopAgain, YieldDone, ConnectDone, ConnectResends, PublishDone, ResendDone,
           SubscribeDone, UnsubscribeDone, network, broker
<1>3. CASE RequestFails(call)
    BY <1>3 DEF RequestFails, CloseSession, HandlersGranted
<1>4. CASE LoopAgain
    <2>1. Granted' => Granted
        BY <1>2, <1>4 DEF LoopAgain, Granted
    <2>2. QED
        BY <1>2, <1>4, <2>1, GrantedStays DEF LoopAgain, session
<1>5. CASE YieldDone \/ (PublishDone /\ ~RequestFails(call))
    <2>1. call' = NoCall /\ call.op # "unsubscribe" /\ UNCHANGED <<isconnected, handlers>>
        BY <1>5 DEF YieldDone, PublishDone, Return, session
    <2>2. QED
        BY <1>2, <2>1, GrantedStays DEF NoCall
<1>6. CASE (ConnectDone \/ ResendDone) /\ ~RequestFails(call)
    <2>1. call' = NoCall /\ Opening /\ handlers' = handlers
        BY <1>6 DEF ConnectDone, ResendDone, Return, Opening
    <2>2. Registered' = {}
        BY <1>1, <2>1 DEF EndsInv, SessionsEnd, ClosedHasNone, Registered
    <2>3. QED
        BY <2>1, <2>2 DEF HandlersGranted, NoCall
<1>7. CASE SubscribeDone /\ ~RequestFails(call)
    <2>1. call' = NoCall /\ isconnected' = isconnected /\ call.op = "subscribe" /\ rc = "SUBACK"
        BY <1>7 DEF SubscribeDone, Answered, Awaited, Return, session
    <2>2. CASE readbuf.arg = "refused"
        <3>1. handlers' = handlers
            BY <1>7, <2>2 DEF SubscribeDone, session
        <3>2. QED
            BY <1>2, <2>1, <3>1, GrantedStays DEF NoCall
    <2>3. CASE readbuf.arg # "refused"
        <3>1. SetMessageHandler(call.topic)
            BY <1>7, <2>3 DEF SubscribeDone
        <3>2. Registered' \subseteq Registered \cup {call.topic}
            BY <1>1, <3>1, HandlerSet DEF TypeOK
        <3>3. QED
            BY <1>2, <2>1, <2>3, <3>2 DEF HandlersGranted, Granted, NoCall
    <2>4. QED
        BY <2>2, <2>3
<1>8. CASE UnsubscribeDone /\ ~RequestFails(call)
    BY <1>1, <1>8 DEF UnsubscribeDone, Answered, Awaited, EndsInv, SessionsEnd, HandlersGranted
<1>9. QED
    BY <1>1, <1>3, <1>4, <1>5, <1>6, <1>7, <1>8 DEF Looping, ConnectResends

LEMMA GrantedStep ==
    ASSUME BaseInv, CutIsClosed', HandlersHeld, [Next]_vars
    PROVE  HandlersGranted'
<1>1. /\ TypeOK /\ NetworkTypeOK /\ EndsInv /\ inflight = 0 /\ ~SplitReads
      /\ ClosedHasNone /\ HandlersGranted
    BY DEF BaseInv, NothingStored, TypeOK, HandlersHeld
<1>2. CASE Calling
    <2>1. SUFFICES ASSUME isconnected', link' # "down" PROVE HandlersGranted'
        BY DEF HandlersGranted
    <2>2. isconnected /\ call = NoCall /\ rc' = "none" /\ toClient' = toClient
        BY <1>1, <1>2, <2>1, CallBegins
    <2>3. UNCHANGED <<handlers, bSubs, link>>
        BY <1>2, <2>1, <2>2
           DEF Calling, Connect, Subscribe, Unsubscribe, Request, RequestFails, Publish, Yield,
               Disconnect, CloseSession, session, network, broker
    <2>4. Places(toClient, "SUBACK") = {}
        BY <2>2, WhileConnected DEF CoreInv, Exchange, NoneUnderWay, NoCall
    <2>5. ~Granted' /\ Registered' = Registered
        BY <2>2, <2>3, <2>4 DEF Granted, Registered
    <2>6. QED
        BY <1>1, <2>1, <2>2, <2>3, <2>5 DEF HandlersGranted, NoCall
<1>3. CASE Reading \/ Keepalive
    <2> SUFFICES ASSUME isconnected' PROVE HandlersGranted'
        BY DEF HandlersGranted
    <2>1. /\ isconnected' => isconnected /\ handlers' = handlers
          /\ UNCHANGED <<link, bSubs>>
        BY <1>3
           DEF Reading, ReadNothing, ReadError, ReadPartial, ReadOversized, ReadAck, ReadPublish,
               ReadPublishIllFormed, ReadPublishAckFails, ReadUnexpected, Keepalive, KeepaliveQuiet,
               KeepalivePings, KeepaliveFails, CycleFails, CloseSession, session, network, broker
    <2>2. rc' = "SUBACK" /\ readbuf'.arg # "refused" => Granted
        <3>1. ~cut'
            BY <1>1 DEF CutIsClosed
        <3>2. CASE ReadAck /\ rc' = "SUBACK"
            <4>1. readbuf' = Head(toClient) /\ Head(toClient).type = "SUBACK" /\ Readable
                BY <3>1, <3>2, WholeRead DEF ReadsWhole
            <4>2. 1 \in Places(toClient, "SUBACK") /\ Head(toClient) = toClient[1]
                BY <1>1, <4>1, HeadPlaced DEF Readable, NetworkTypeOK
            <4>3. QED
                BY <4>1, <4>2 DEF Granted
        <3>3. CASE ~ReadAck
            BY <1>3, <3>3
               DEF Reading, ReadNothing, ReadError, ReadPartial, ReadOversized, ReadPublish,
                   ReadPublishIllFormed, ReadPublishAckFails, ReadUnexpected, Keepalive,
                   KeepaliveQuiet, KeepalivePings, KeepaliveFails, CycleFails, Granted
        <3>4. QED
            BY <3>2, <3>3
    <2>3. ~Broker /\ ~Calling
        <3>1. phase' # "idle" /\ phase # "idle" /\ phase' # phase
            BY <1>3
               DEF Reading, ReadNothing, ReadError, ReadPartial, ReadOversized, ReadAck,
                   ReadPublish, ReadPublishIllFormed, ReadPublishAckFails, ReadUnexpected,
                   Keepalive, KeepaliveQuiet, KeepalivePings, KeepaliveFails, CycleFails
        <3>2. Broker => phase' = phase
            BY DEF Broker, BrokerConnect, BrokerReceivesPublish, BrokerSubscribe,
                   BrokerUnsubscribe, BrokerPing, BrokerPuback, BrokerDisconnect, BrokerIgnores,
                   BrokerDelivers, Takes, running
        <3>3. QED
            BY <1>1, <3>1, <3>2, CallBegins
    <2>4. From(toClient, toClient', "SUBACK")
        BY <1>1, <2>3, AnswersKept DEF CutIsClosed
    <2>5. Granted' => Granted
        BY <2>2, <2>4, GrantedFrom
    <2>6. QED
        BY <1>1, <2>1, <2>3, <2>5, CallGoesOn, GrantedStays DEF NoCall
<1>4. CASE Looping
    BY <1>1, <1>4, GrantedLooping
<1>5. CASE Tick \/ Network \/ UNCHANGED vars
    <2>1. SUFFICES ASSUME isconnected', link' # "down" PROVE HandlersGranted'
        BY DEF HandlersGranted
    <2>2. UNCHANGED <<session, running, toClient, bSubs>> /\ link # "down"
        BY <1>5, <2>1 DEF Tick, Network, Reconnect, LinkDown, LinkStalls, StalledDrains, vars,
                          network, broker, session
    <2>3. UNCHANGED <<isconnected, handlers, call, rc, readbuf>>
        BY <2>2 DEF session, running
    <2>4. Granted' => Granted
        BY <2>2, <2>3 DEF Granted
    <2>5. QED
        BY <1>1, <2>2, <2>3, <2>4, GrantedStays
<1>6. CASE Broker
    <2>1. isconnected' = isconnected
        BY <1>6 DEF Broker, BrokerConnect, BrokerReceivesPublish, BrokerSubscribe,
               BrokerUnsubscribe, BrokerPing, BrokerPuback, BrokerDisconnect, BrokerIgnores,
               BrokerDelivers, Takes, session
    <2>2. CASE isconnected
        BY <1>1, <1>6, <2>2, GrantedBroker
    <2>3. CASE ~isconnected
        BY <2>1, <2>3 DEF HandlersGranted
    <2>4. QED
        BY <2>2, <2>3
<1>7. QED
    BY <1>2, <1>3, <1>4, <1>5, <1>6 DEF Next, CallStep

LEMMA HandlersHold == Spec => []HandlersHeld
<1>1. Init => HandlersHeld
    BY DEF Init, HandlersHeld, ClosedHasNone, HandlersGranted, Registered, NoCall
<1>2. /\ TypeOK /\ EndsInv /\ PartsInv /\ PartsInv' /\ InflightInv /\ HandlersHeld
      /\ (~cut => CoreInv) /\ (~cut => UnsubscribesInv) /\ [Next]_vars
      => HandlersHeld'
    BY ClosedStep, GrantedStep DEF BaseInv, PartsInv, InflightInv, HandlersHeld
<1>3. QED
    BY <1>1, <1>2, TypeCorrect, EndsHold, PartsHold, CoreHolds, UnsubscribesHold, InflightHolds,
       PTL DEF Spec

\* As long as no packet of the connection has been cut, and while the client is, or is
\* becoming, connected, no request is under way but that of the running call, so the
\* answer it reads is the answer to it, and shows what the broker did with it; and where
\* packets do not come in pieces, a client that is connected has handlers only for
\* subscriptions that were granted, whatever was cut before.
THEOREM AnswersInvariant == Spec => []AnswersInv
<1>1. /\ EndsInv /\ HandlersHeld /\ InflightInv
      /\ (~cut => CoreInv) /\ (~cut => UnsubscribesInv)
      => AnswersInv
    BY DEF EndsInv, InflightInv, CoreInv, UnsubscribesInv, AnswersInv
<1>2. QED
    BY <1>1, EndsHold, CoreHolds, UnsubscribesHold, InflightHolds, HandlersHold, PTL

\* Between two calls of a connected client, every subscription of a clean session has
\* a handler, however subscribe() ended, unless packets come in pieces and one of this
\* connection was cut.
LEMMA NoOrphans == Spec => [](~(SplitReads /\ cut) => NoOrphanSubscription)
<1>1. EndsInv /\ AnswersInv /\ CutIsClosed /\ ~(SplitReads /\ cut) => NoOrphanSubscription
    <2>1. SUFFICES ASSUME EndsInv, AnswersInv, CutIsClosed, ~(SplitReads /\ cut),
                          CleanSession, isconnected, phase = "idle", bSession = "open"
                   PROVE  bSubs \subseteq Registered
        BY DEF NoOrphanSubscription
    <2>2. ~cut
        BY <2>1 DEF CutIsClosed
    <2>3. QED
        BY <2>1, <2>2 DEF AnswersInv, EndsInv, IdleIsClean, SubscribeTracked, Asked, NoCall
<1>2. EndsInv /\ AnswersInv /\ PartsInv => (~(SplitReads /\ cut) => NoOrphanSubscription)
    BY <1>1 DEF PartsInv
<1>3. QED
    BY <1>2, EndsHold, AnswersInvariant, PartsHold, PTL

\* While no packet is split, the handlers of a clean session and the broker's
\* subscriptions are the same set between two calls of a connected client.
THEOREM SubscriptionsAgree == ASSUME ~SplitReads PROVE Spec => []SubscriptionAgreement
<1>1. /\ EndsInv /\ SessionAgreement /\ AnswersInv
      /\ (~(SplitReads /\ cut) => NoOrphanSubscription)
      => SubscriptionAgreement
    <2>1. SUFFICES ASSUME EndsInv, SessionAgreement, AnswersInv, NoOrphanSubscription,
                          CleanSession, isconnected, phase = "idle", link = "up"
                   PROVE  bSubs = Registered
        BY DEF SubscriptionAgreement
    <2>2. bSession = "open"
        BY <2>1 DEF SessionAgreement
    <2>3. bSubs \subseteq Registered
        BY <2>1, <2>2 DEF NoOrphanSubscription
    <2>4. Registered \subseteq bSubs
        BY <2>1 DEF AnswersInv, HandlersHeld, HandlersGranted, EndsInv, IdleIsClean, NoCall
    <2>5. QED
        BY <2>3, <2>4
<1>2. QED
    BY <1>1, EndsHold, SessionAgreed, AnswersInvariant, NoOrphans, PTL

Acknowledgements == ~(SplitReads /\ cut) => PublishAcknowledged

\* The result of the last call, or of none, is not that of a publish() the
\* broker did not receive.
LEMMA AcknowledgedStep ==
    ASSUME EndsInv, ~cut => CoreInv, CutIsClosed, Acknowledgements, [Next]_vars,
           ~(SplitReads /\ cut)'
    PROVE  PublishAcknowledged'
<1> USE DEF PublishAcknowledged
<1>1. ASSUME PublishAcknowledged, UNCHANGED result, received \subseteq received'
      PROVE  PublishAcknowledged'
    BY <1>1
<1>2. ASSUME result'.op # "publish" \/ result'.rc # "SUCCESS" \/ result'.id = 0
      PROVE  PublishAcknowledged'
    BY <1>2
<1>3. CASE SplitReads /\ cut
    <2>1. Connect /\ cut' # cut
        BY <1>3, CutStays
    <2>2. result' = NoResult
        BY <2>1 DEF Connect, Begin
    <2>3. QED
        BY <1>2, <2>2 DEF NoResult
<1>4. SUFFICES ASSUME ~(SplitReads /\ cut), PublishAcknowledged PROVE PublishAcknowledged'
    BY <1>3 DEF Acknowledgements
<1>5. CASE Calling
    <2>1. ASSUME NEW op, NEW topic, NEW id, NEW ticks, Begin(op, topic, id, ticks)
          PROVE  PublishAcknowledged'
        BY <1>2, <2>1 DEF Begin, NoResult
    <2>2. ASSUME NEW op, NEW id, NEW r, ReturnAtOnce(op, id, r),
                 op # "publish" \/ r # "SUCCESS" \/ id = 0
          PROVE  PublishAcknowledged'
        BY <1>2, <2>2 DEF ReturnAtOnce, Return, NoCall
    <2>3. ASSUME NEW qos \in {0, 1}, Publish(qos)
          PROVE  PublishAcknowledged'
        BY <2>1, <2>2, <2>3 DEF Publish
    <2>4. ASSUME NEW op \in {"subscribe", "unsubscribe"}, NEW type, NEW f, Request(op, type, f)
          PROVE  PublishAcknowledged'
        BY <1>2, <2>1, <2>4 DEF Request, RequestFails, Return, NoCall
    <2>5. QED
        BY <1>5, <2>1, <2>2, <2>3, <2>4
           DEF Calling, Connect, Subscribe, Unsubscribe, Yield, Disconnect
<1>6. CASE Reading \/ Keepalive \/ Tick \/ Network \/ Broker \/ UNCHANGED vars
    <2>1. UNCHANGED result /\ received \subseteq received'
        BY <1>6 DEF Reading, ReadNothing, ReadError, ReadPartial, ReadOversized, ReadAck,
               ReadPublish, ReadPublishIllFormed, ReadPublishAckFails, ReadUnexpected, Keepalive,
               KeepaliveQuiet, KeepalivePings, KeepaliveFails, Tick, Network, Reconnect, LinkDown, LinkStalls,
               StalledDrains, Broker, BrokerConnect, BrokerReceivesPublish, BrokerSubscribe,
               BrokerUnsubscribe, BrokerPing, BrokerPuback, BrokerDisconnect, BrokerIgnores,
               BrokerDelivers, Takes, vars, running, broker
    <2>2. QED
        BY <1>1, <1>4, <2>1
<1>7. CASE Looping
    <2>1. received' = received
        BY <1>7 DEF Looping, LoopAgain, YieldDone, ConnectDone, ConnectResends, PublishDone,
               ResendDone, SubscribeDone, UnsubscribeDone, broker
    <2>2. ASSUME NEW r, Return(call, r), call.op # "publish" \/ r # "SUCCESS"
          PROVE  PublishAcknowledged'
        BY <1>2, <2>2 DEF Return
    <2>3. CASE LoopAgain
        BY <1>1, <1>4, <2>1, <2>3 DEF LoopAgain
    <2>4. CASE ConnectResends
        BY <1>1, <1>4, <2>1, <2>2, <2>4 DEF ConnectResends, RequestFails
    <2>5. CASE PublishDone
        <3>1. Answered => ~cut
            BY <1>4, <2>5 DEF PublishDone, Answered, Awaited, CutIsClosed, Waiting
        <3>2. Answered => call.id \in received
            BY <2>5, <3>1 DEF PublishDone, Answered, Awaited, CoreInv, PublishTracked, Writing
        <3>3. QED
            BY <2>1, <2>2, <2>5, <3>2 DEF PublishDone, RequestFails, Acknowledged, Return
    <2>6. QED
        BY <1>7, <2>2, <2>3, <2>4, <2>5
           DEF Looping, YieldDone, ConnectDone, ResendDone, SubscribeDone, UnsubscribeDone,
               RequestFails
<1>8. QED
    BY <1>5, <1>6, <1>7 DEF Next, CallStep

\* publish() with QoS 1 returns SUCCESS only when the broker has that message,
\* although the id in the PUBACK is not compared and may not have been read, unless
\* packets come in pieces and one of this connection was cut.
LEMMA PublishesAcknowledged == Spec => []Acknowledgements
<1>1. Init => Acknowledgements
    BY DEF Init, Acknowledgements, PublishAcknowledged, NoResult
<1>2. /\ EndsInv /\ (~cut => CoreInv) /\ PartsInv /\ Acknowledgements /\ [Next]_vars
      => Acknowledgements'
    BY AcknowledgedStep DEF Acknowledgements, PartsInv
<1>3. QED
    BY <1>1, <1>2, EndsHold, CoreHolds, PartsHold, PTL DEF Spec

\* All that the safety runs check of the client: the session, the answers, the
\* subscriptions and the results of publish() and yield(), as long as no packet of the
\* connection has been cut; and, whatever was read of one that was, the end of the
\* session.
THEOREM ClientInvariant == Spec => []ClientInv
<1>1. EndsInv => YieldFailureCloses /\ ReadFailureCloses
    BY DEF EndsInv
<1>2. /\ EndsInv /\ SessionInv /\ AnswersInv /\ Acknowledgements
      /\ (~(SplitReads /\ cut) => NoOrphanSubscription)
      => ClientInv
    BY <1>1 DEF ClientInv, Acknowledgements
<1>3. QED
    BY <1>2, SessionInvariant, AnswersInvariant, NoOrphans, PublishesAcknowledged, EndsHold, PTL

=============================================================================
