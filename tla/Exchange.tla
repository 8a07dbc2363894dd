------------------------------ MODULE Exchange ------------------------------
(***************************************************************************)
(* A packet on its way through MQTT/MQTTPacket: one side serialises it     *)
(* into a buffer of some size, the other deserialises it.                  *)
(***************************************************************************)
EXTENDS Packet

CONSTANTS
    Requests,     \* what is serialised: records with the packet's type as op
    Slack         \* by how much the buffer differs from the packet's size

Words == 0..65535     \* two bytes

RequestTypes ==
    [op : {"CONNECT"}, version : {3, 4}, clean : BOOLEAN, keepAlive : Words,
     clientID : MQTTStrings, will : BOOLEAN, topic : MQTTStrings, message : MQTTStrings,
     qos : 0..2, retained : BOOLEAN, username : MQTTStrings, password : MQTTStrings]
    \union
    [op : {"PUBLISH"}, dup : BOOLEAN, qos : 0..2, retained : BOOLEAN, id : Words,
     topic : MQTTStrings, payload : Strings]
    \union
    [op : {"SUBSCRIBE"}, dup : BOOLEAN, id : Words, filters : Seq(MQTTStrings), qoss : Seq(0..2)]
    \union
    [op : {"UNSUBSCRIBE"}, dup : BOOLEAN, id : Words, filters : Seq(MQTTStrings)]
    \union
    [op : {"ACK"}, type : {"PUBACK", "PUBREC", "PUBREL", "PUBCOMP"}, dup : BOOLEAN, id : Words]
    \union [op : {"ZERO"}, type : {"PINGREQ", "DISCONNECT"}]
    \union [op : {"CONNACK"}, present : BOOLEAN, code : 0..255]
    \union [op : {"SUBACK"}, id : Words, granted : Seq(0..255), maxcount : Nat]
    \union [op : {"UNSUBACK"}, id : Words]

\* The remaining length that each serialiser works out
LengthOf(p) ==
    CASE p.op = "CONNECT"     -> connectLength(p)
      [] p.op = "PUBLISH"     -> publishLength(p)
      [] p.op = "SUBSCRIBE"   -> subscribeLength(p.filters)
      [] p.op = "UNSUBSCRIBE" -> unsubscribeLength(p.filters)
      [] p.op = "SUBACK"      -> 2 + Len(p.granted)
      [] p.op = "ZERO"        -> 0
      [] OTHER                -> 2

\* The digits hold no length beyond MaxLength, and each filter has its QoS
ASSUME ExchangeAssumption ==
    /\ Slack \subseteq Int
    /\ Requests \subseteq RequestTypes
    /\ \A p \in Requests : /\ LengthOf(p) <= MaxLength
                           /\ p.op = "SUBSCRIBE" => Len(p.qoss) = Len(p.filters)

VARIABLES
    given,        \* the arguments
    buffer_size,
    result,       \* of the serialiser
    received      \* of the deserialiser
exchangeVars == <<given, buffer_size, result, received>>

Ample  == 2147483647     \* the size of a buffer that holds everything
Nobody == [op |-> "none"]
Unread == [read |-> FALSE]

\* Which serialiser and which deserialiser
Serialize(buflen, p) ==
    CASE p.op = "CONNECT"     -> MQTTSerialize_connect(buflen, p)
      [] p.op = "PUBLISH"     -> MQTTSerialize_publish(buflen, p)
      [] p.op = "SUBSCRIBE"   -> MQTTSerialize_subscribe(buflen, p)
      [] p.op = "UNSUBSCRIBE" -> MQTTSerialize_unsubscribe(buflen, p)
      [] p.op = "ACK"         -> MQTTSerialize_ack(buflen, p)
      [] p.op = "ZERO"        -> MQTTSerialize_zero(buflen, p.type)
      [] p.op = "CONNACK"     -> MQTTSerialize_connack(buflen, p)
      [] p.op = "SUBACK"      -> MQTTSerialize_suback(buflen, p)
      [] p.op = "UNSUBACK"    -> MQTTSerialize_unsuback(buflen, p)
Deserialize(packet, p) ==
    CASE p.op = "CONNECT"     -> MQTTDeserialize_connect(packet)
      [] p.op = "PUBLISH"     -> MQTTDeserialize_publish(packet)
      [] p.op = "SUBSCRIBE"   -> MQTTDeserialize_subscribe(packet)
      [] p.op = "UNSUBSCRIBE" -> MQTTDeserialize_unsubscribe(packet)
      [] p.op = "ACK"         -> MQTTDeserialize_ack(packet)
      [] p.op = "CONNACK"     -> MQTTDeserialize_connack(packet)
      [] p.op = "SUBACK"      -> MQTTDeserialize_suback(packet, p.maxcount)
      [] p.op = "UNSUBACK"    -> MQTTDeserialize_unsuback(packet)

ExchangeInit ==
    /\ given = Nobody
    /\ buffer_size = 0
    /\ result = Refused
    /\ received = Unread

Sends(p) ==
    /\ given' = p
    /\ \E size \in {Serialize(Ample, p).rc} : \E slack \in Slack :
          /\ buffer_size' = size + slack
          /\ result' = Serialize(size + slack, p)
    /\ received' = Unread

\* Nobody deserialises a PINGREQ or a DISCONNECT
Receives ==
    /\ result.rc > 0 /\ given.op # "ZERO"
    /\ received' = Deserialize(result.packet, given)
    /\ UNCHANGED <<given, buffer_size, result>>

ExchangeNext == Receives \/ \E p \in Requests : Sends(p)

ExchangeSpec == ExchangeInit /\ [][ExchangeNext]_exchangeVars

-----------------------------------------------------------------------------
(* Properties *)

Clients == {"CONNECT", "PUBLISH", "SUBSCRIBE", "UNSUBSCRIBE", "ACK", "ZERO"}

\* The remaining length that is sent, worked out before the fields are written, is
\* the number of bytes that follow it, also where the number of its digits changes.
LengthsAgree ==
    result.rc > 0 =>
        LET packet == result.packet
        IN  decode(packet.length) =
                [value |-> SizeOf(packet.fields), len |-> Len(packet.length)]

\* The client's serialisers write no more than the buffer holds, and refuse
\* only a buffer that is too small or has not a byte to spare.
NoOverrun ==
    given.op \in Clients =>
        IF result.rc > 0 THEN result.rc <= buffer_size
        ELSE buffer_size <= Serialize(Ample, given).rc

\* The other side gets what was given: a PUBLISH ...
Contents(s) == IF Given(s) THEN s.text ELSE ""
PublishArrives ==
    given.op = "PUBLISH" /\ received # Unread =>
        received = [rc |-> 1, header |-> Header("PUBLISH", given.dup, given.qos, given.retained),
                    topic |-> Contents(given.topic), id |-> IF given.qos > 0 THEN given.id ELSE 0,
                    payload |-> given.payload, payloadlen |-> StringLen[given.payload]]

\* ... a list of filters, and an acknowledgement, with its codes as far as there is
\* room for them ...
OthersArrive ==
    received # Unread =>
        CASE given.op \in {"SUBSCRIBE", "UNSUBSCRIBE"} ->
                /\ received.rc = 1 /\ received.id = given.id /\ received.dup = given.dup
                /\ received.filters = [n \in DOMAIN given.filters |-> Contents(given.filters[n])]
                /\ given.op = "SUBSCRIBE" => received.qoss = given.qoss
          [] given.op \in {"ACK", "UNSUBACK"} ->
                /\ received.rc = 1 /\ received.id = given.id
                /\ given.op = "ACK" => /\ received.header.type = given.type
                                       /\ received.header.dup = given.dup
          [] given.op = "CONNACK" ->
                received = [rc |-> 1, present |-> given.present, code |-> given.code]
          [] given.op = "SUBACK" /\ Len(given.granted) <= given.maxcount ->
                received = [rc |-> 1, id |-> given.id, granted |-> given.granted]
          [] OTHER -> TRUE

\* ... and a CONNECT of version 4, unless it has a password without a user name or the
\* last of the two that it has is empty: such a one is refused.
ConnectArrives ==
    given.op = "CONNECT" /\ received # Unread =>
        LET Some(s) == IF Given(s) THEN << s >> ELSE <<>>
            names   == Some(given.username) \o Some(given.password)
            strings == << given.clientID >>
                       \o (IF given.will THEN << given.topic, given.message >> ELSE <<>>)
                       \o Some(given.username) \o Some(given.password)
        IN  IF /\ given.version = 4
               /\ Given(given.password) => Given(given.username)
               /\ names # <<>> => MQTTstrlen(Last(names)) > 0
            THEN received = [rc |-> 1, flags |-> ConnectFlags(given),
                             keepAlive |-> given.keepAlive,
                             strings |-> [n \in DOMAIN strings |-> Contents(strings[n])]]
            ELSE received.rc = 0

\* The length a serialiser worked out is that of what it writes, and that fits the
\* buffer, up to the byte MQTTPacket_len() leaves.
LengthsRight == LengthsAgree /\ NoOverrun

\* What the library's other half reads of a packet is what was given to the one
\* that wrote it.
PacketsArrive == PublishArrives /\ OthersArrive /\ ConnectArrives

=============================================================================
