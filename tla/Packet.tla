------------------------------- MODULE Packet -------------------------------
(***************************************************************************)
(* MQTT/MQTTPacket: how packets are laid out.  A packet is a header, its   *)
(* remaining length in the digits that are sent, and its fields; a field   *)
(* is a byte, an integer of two bytes, a string with its length before it, *)
(* or the bytes of a payload.  The client's serialisers and the server's   *)
(* deserialisers are each other's inverse, and the other way round.        *)
(***************************************************************************)
EXTENDS PacketLength, Bytes, SequencesExt

CONSTANTS
    Strings,     \* the contents of strings and payloads
    StringLen    \* and their lengths

ASSUME StringAssumption ==
    /\ StringLen \in [Strings -> Nat]
    /\ {"", "MQTT", "MQIsdp"} \subseteq Strings
    /\ StringLen[""] = 0 /\ StringLen["MQTT"] = 4 /\ StringLen["MQIsdp"] = 6
    /\ \A s \in Strings : StringLen[s] = 0 => s = ""

TOO_SHORT == -2     \* MQTTPACKET_BUFFER_TOO_SHORT

Byte(v)    == [kind |-> "byte", value |-> v]
Word(v)    == [kind |-> "word", value |-> v]
Text(v)    == [kind |-> "string", value |-> v]
Payload(v) == [kind |-> "bytes", value |-> v]

Size(field) ==
    CASE field.kind = "byte"   -> 1
      [] field.kind = "word"   -> 2
      [] field.kind = "string" -> 2 + StringLen[field.value]
      [] field.kind = "bytes"  -> StringLen[field.value]
SizeOf(fields) == Total([n \in DOMAIN fields |-> Size(fields[n])])

(* An MQTTString is a C string, a string with its length, or neither; one  *)
(* with length 0 and data is present but written like none                 *)
NoString      == [form |-> "none"]
Given(s)      == s.form # "none"
MQTTStrings   == {NoString} \union [form : {"cstring", "lenstring"}, text : Strings]
MQTTstrlen(s) == IF Given(s) THEN StringLen[s.text] ELSE 0

\* Mutant: a C string is not written.
writeMQTTString_LenOnly(s) == Text(IF s.form = "lenstring" THEN s.text ELSE "")

writeMQTTString(s) == Text(IF MQTTstrlen(s) > 0 THEN s.text ELSE "")

Header(type, dup, qos, retain) == [type |-> type, dup |-> dup, qos |-> qos, retain |-> retain]

\* What a serialiser returns, and the packet it leaves in the buffer
Refused == [rc |-> TOO_SHORT]
Written(header, length, fields) ==
    [rc |-> 1 + Len(encode(length)) + SizeOf(fields),
     packet |-> [header |-> header, length |-> encode(length), fields |-> fields]]
\* Those that know how long it will be
Serialized(buflen, header, length, fields) ==
    IF MQTTPacket_len(length) > buflen THEN Refused ELSE Written(header, length, fields)

-----------------------------------------------------------------------------
(* The client's packets *)

connectLength(o) ==
    (IF o.version = 3 THEN 12 ELSE 10)
    + MQTTstrlen(o.clientID) + 2
    + (IF o.will THEN MQTTstrlen(o.topic) + 2 + MQTTstrlen(o.message) + 2 ELSE 0)
    + (IF Given(o.username) THEN MQTTstrlen(o.username) + 2 ELSE 0)
    + (IF Given(o.password) THEN MQTTstrlen(o.password) + 2 ELSE 0)

ConnectFlags(o) ==
    [clean    |-> o.clean, will |-> o.will,
     qos      |-> IF o.will THEN o.qos ELSE 0,
     retained |-> o.will /\ o.retained,
     username |-> Given(o.username), password |-> Given(o.password)]

\* The protocol's name is a string of 4 or 6 characters
Protocol(version) == IF version = 4 THEN Text("MQTT") ELSE Text("MQIsdp")

MQTTSerialize_connect(buflen, o) ==
    LET When(condition, fields) == IF condition THEN fields ELSE <<>>
    IN  Serialized(buflen, Header("CONNECT", FALSE, 0, FALSE), connectLength(o),
            << Protocol(o.version), Byte(IF o.version = 4 THEN 4 ELSE 3),
               Byte(ConnectFlags(o)), Word(o.keepAlive), writeMQTTString(o.clientID) >>
            \o When(o.will, << writeMQTTString(o.topic), writeMQTTString(o.message) >>)
            \o When(Given(o.username), << writeMQTTString(o.username) >>)
            \o When(Given(o.password), << writeMQTTString(o.password) >>))

publishLength(p) ==
    2 + MQTTstrlen(p.topic) + StringLen[p.payload] + (IF p.qos > 0 THEN 2 ELSE 0)

MQTTSerialize_publish(buflen, p) ==
    Serialized(buflen, Header("PUBLISH", p.dup, p.qos, p.retained), publishLength(p),
               << writeMQTTString(p.topic) >>
               \o (IF p.qos > 0 THEN << Word(p.id) >> ELSE <<>>)
               \o << Payload(p.payload) >>)

subscribeLength(filters) ==
    2 + Total([n \in DOMAIN filters |-> 2 + MQTTstrlen(filters[n]) + 1])

MQTTSerialize_subscribe(buflen, p) ==
    Serialized(buflen, Header("SUBSCRIBE", p.dup, 1, FALSE), subscribeLength(p.filters),
               << Word(p.id) >>
               \o Concat([n \in DOMAIN p.filters |->
                            << writeMQTTString(p.filters[n]), Byte(p.qoss[n]) >>]))

unsubscribeLength(filters) ==
    2 + Total([n \in DOMAIN filters |-> 2 + MQTTstrlen(filters[n])])

MQTTSerialize_unsubscribe(buflen, p) ==
    Serialized(buflen, Header("UNSUBSCRIBE", p.dup, 1, FALSE), unsubscribeLength(p.filters),
               << Word(p.id) >>
               \o [n \in DOMAIN p.filters |-> writeMQTTString(p.filters[n])])

\* MQTTSerialize_ack() for PUBACK, PUBREC, PUBREL and PUBCOMP
MQTTSerialize_ack(buflen, p) ==
    IF buflen < 4 THEN Refused
    ELSE Written(Header(p.type, p.dup, IF p.type = "PUBREL" THEN 1 ELSE 0, FALSE),
                 2, << Word(p.id) >>)

\* MQTTSerialize_zero() for PINGREQ and DISCONNECT
MQTTSerialize_zero(buflen, type) ==
    IF buflen < 2 THEN Refused ELSE Written(Header(type, FALSE, 0, FALSE), 0, <<>>)

-----------------------------------------------------------------------------
(* The server's packets.  Its checks of the buffer leave out the header     *)

MQTTSerialize_connack(buflen, p) ==
    IF buflen < 2 THEN Refused
    ELSE Written(Header("CONNACK", FALSE, 0, FALSE), 2, << Byte(p.present), Byte(p.code) >>)

MQTTSerialize_suback(buflen, p) ==
    IF buflen < 2 + Len(p.granted) THEN Refused
    ELSE Written(Header("SUBACK", FALSE, 0, FALSE), 2 + Len(p.granted),
                 << Word(p.id) >> \o [n \in DOMAIN p.granted |-> Byte(p.granted[n])])

MQTTSerialize_unsuback(buflen, p) ==
    IF buflen < 2 THEN Refused
    ELSE Written(Header("UNSUBACK", FALSE, 0, FALSE), 2, << Word(p.id) >>)

-----------------------------------------------------------------------------
(* Deserialisers *)

\* Where the n-th field of a packet begins is as many bytes before enddata
Left(packet, n) == decode(packet.length).value - SizeOf(SubSeq(packet.fields, 1, n - 1))

\* readMQTTLenString() of the n-th field
Readable(packet, n) ==
    /\ n <= Len(packet.fields)
    /\ Left(packet, n) > 1
    /\ Size(packet.fields[n]) <= Left(packet, n)

\* How many fields from the n-th on lie before enddata
Rest(packet, n) == Cardinality({m \in n..Len(packet.fields) : Left(packet, m) > 0})
Value(packet, n) == packet.fields[n].value
NoData           == [rc |-> 0]

\* MQTTPacket_checkVersion() compares the name of version 3 with "MQIdsp"
checkVersion(name, version) == version = 4 /\ name = "MQTT"

\* A user name or password must have a character, or something after it
Filled(packet, n) == Readable(packet, n) /\ Left(packet, n) >= 3

MQTTDeserialize_connect(packet) ==
    LET flags    == Value(packet, 3)
        will     == IF flags.will THEN 2 ELSE 0
        username == 6 + will
        password == 7 + will
    IN  IF /\ packet.header.type = "CONNECT"
           /\ Readable(packet, 1) /\ checkVersion(Value(packet, 1), Value(packet, 2))
           /\ \A n \in 5..(5 + will) : Readable(packet, n)
           /\ flags.username => Filled(packet, username)
           /\ flags.password => flags.username /\ Filled(packet, password)
        THEN [rc        |-> 1,
              flags     |-> flags,
              keepAlive |-> Value(packet, 4),
              strings   |-> [n \in 1..Len(packet.fields) - 4 |-> Value(packet, n + 4)]]
        ELSE NoData

MQTTDeserialize_publish(packet) ==
    IF packet.header.type # "PUBLISH" THEN NoData
    ELSE IF ~Readable(packet, 1) THEN [rc |-> decode(packet.length).len]
    ELSE LET id == packet.header.qos > 0
             n  == IF id THEN 3 ELSE 2
         IN  [rc      |-> 1, header |-> packet.header, topic |-> Value(packet, 1),
              id      |-> IF id THEN Value(packet, 2) ELSE 0,
              payload |-> Value(packet, n), payloadlen |-> Left(packet, n)]

MQTTDeserialize_ack(packet) ==
    IF Left(packet, 1) < 2
    THEN [rc |-> decode(packet.length).len, header |-> packet.header]
    ELSE [rc |-> 1, header |-> packet.header, id |-> Value(packet, 1)]

\* It looks at the type only to make the result 1
MQTTDeserialize_unsuback(packet) ==
    IF packet.header.type = "UNSUBACK"
    THEN [MQTTDeserialize_ack(packet) EXCEPT !.rc = 1]
    ELSE MQTTDeserialize_ack(packet)

MQTTDeserialize_connack(packet) ==
    IF packet.header.type # "CONNACK" THEN NoData
    ELSE IF Left(packet, 1) < 2 THEN [rc |-> decode(packet.length).len]
    ELSE [rc |-> 1, present |-> Value(packet, 1), code |-> Value(packet, 2)]

\* One more than maxcount is stored before it is too many
MQTTDeserialize_suback(packet, maxcount) ==
    IF packet.header.type # "SUBACK" THEN NoData
    ELSE IF Left(packet, 1) < 2 THEN [rc |-> decode(packet.length).len]
    ELSE LET count == Rest(packet, 2)
         IN  IF count > maxcount + 1 THEN [rc |-> -1]
             ELSE [rc |-> 1, id |-> Value(packet, 1),
                   granted |-> [n \in 1..count |-> Value(packet, n + 1)]]

MQTTDeserialize_subscribe(packet) ==
    LET pairs == Rest(packet, 2) \div 2
    IN  IF packet.header.type # "SUBSCRIBE" THEN [rc |-> -1]
        ELSE IF \E n \in 1..pairs : ~Readable(packet, 2 * n) \/ Left(packet, 2 * n + 1) <= 0
        THEN [rc |-> decode(packet.length).len]
        ELSE [rc |-> 1, dup |-> packet.header.dup, id |-> Value(packet, 1),
              filters |-> [n \in 1..pairs |-> Value(packet, 2 * n)],
              qoss    |-> [n \in 1..pairs |-> Value(packet, 2 * n + 1)]]

MQTTDeserialize_unsubscribe(packet) ==
    LET count == Rest(packet, 2)
    IN  IF packet.header.type # "UNSUBSCRIBE" THEN NoData
        ELSE IF \E n \in 1..count : ~Readable(packet, n + 1)
        THEN [rc |-> decode(packet.length).len]
        ELSE [rc |-> 1, dup |-> packet.header.dup, id |-> Value(packet, 1),
              filters |-> [n \in 1..count |-> Value(packet, n + 1)]]

=============================================================================
