----------------------------- MODULE MCMessages -----------------------------
(***************************************************************************)
(* Packets, their reader, topic filters and name lookups.  They share no   *)
(* state, and one of them moves in a behaviour: subject says which.        *)
(***************************************************************************)
EXTENDS Exchange, PacketReader, TopicFilter, DNSClient, TLC

VARIABLE subject

messageVars == <<exchangeVars, readerVars, topicVars, dnsVars, subject>>

\* Payloads with which a PUBLISH gets a digit more in its length
Around      == UNION {b - 6 .. b + 1 : b \in {128, 16384, 2097152}}
TextLen     == [s \in {"", "a", "to/pic", "MQTT", "MQIsdp"} |->
                  CASE s = "" -> 0 [] s = "a" -> 1 [] s = "MQTT" -> 4 [] OTHER -> 6]
MCStrings   == DOMAIN TextLen \union {ToString(n) : n \in Around}
MCStringLen == [s \in MCStrings |-> IF s \in DOMAIN TextLen THEN TextLen[s]
                                    ELSE CHOOSE n \in Around : ToString(n) = s]

C(s) == [form |-> "cstring", text |-> s]
L(s) == [form |-> "lenstring", text |-> s]
Optional == {NoString, C(""), C("a"), L("to/pic")}

MCRequests ==
    [op : {"CONNECT"}, version : {3, 4}, clean : BOOLEAN, keepAlive : {0, 60},
     clientID : {C(""), C("to/pic")}, will : {FALSE}, topic : {NoString}, message : {NoString},
     qos : {0}, retained : {FALSE}, username : Optional, password : Optional]
    \union
    [op : {"CONNECT"}, version : {3, 4}, clean : {TRUE}, keepAlive : {60},
     clientID : {C("a"), C("122")}, will : {TRUE},
     topic : {C("a")}, message : {L("to/pic"), NoString},
     qos : 0..2, retained : BOOLEAN, username : {NoString, C("a")}, password : {NoString, C("a")}]
    \union
    [op : {"PUBLISH"}, dup : {FALSE}, qos : 0..2, retained : {TRUE}, id : {7},
     topic : {C("a")}, payload : MCStrings]
    \union
    [op : {"PUBLISH"}, dup : BOOLEAN, qos : 0..2, retained : BOOLEAN, id : {1, 65535},
     topic : {C(""), L("to/pic")}, payload : {"", "a"}]
    \union
    UNION {[op : {"SUBSCRIBE"}, dup : {FALSE}, id : {7}, filters : [1..n -> {C("a"), L("to/pic"), C("122")}],
            qoss : [1..n -> {0, 2}]] : n \in 0..2}
    \union
    UNION {[op : {"UNSUBSCRIBE"}, dup : {TRUE}, id : {7},
            filters : [1..n -> {C("a"), L("to/pic"), C("122"), C("123")}]] : n \in 0..2}
    \union
    [op : {"ACK"}, type : {"PUBACK", "PUBREC", "PUBREL", "PUBCOMP"}, dup : BOOLEAN, id : {1, 65535}]
    \union [op : {"ZERO"}, type : {"PINGREQ", "DISCONNECT"}]
    \union [op : {"CONNACK"}, present : BOOLEAN, code : 0..5]
    \union UNION {[op : {"SUBACK"}, id : {7}, granted : [1..n -> {0, 128}], maxcount : 0..2] : n \in 0..3}
    \union [op : {"UNSUBACK"}, id : {1, 65535}]
MCSlack == {-2, -1, 0, 1}

\* A length of one digit and of two, one written with more digits than it needs, one
\* that does not fit and one with too many digits
Packets  == {[type |-> 12, digits |-> <<0>>, rest |-> 0],
             [type |-> 3, digits |-> <<3>>, rest |-> 3],
             [type |-> 4, digits |-> <<130, 128, 128, 0>>, rest |-> 2],
             [type |-> 9, digits |-> <<130, 1>>, rest |-> 130],
             [type |-> 5, digits |-> <<131, 1>>, rest |-> 131],
             [type |-> 6, digits |-> <<128, 128, 128, 128, 0>>, rest |-> 0]}
MCArriving == UNION {[1..n -> Packets] : n \in 1..2}

Strung(alphabet, n) == UNION {[1..k -> alphabet] : k \in 1..n}
MCTopics  == Strung({"a", "b", "/"}, 4) \union [1..5 -> {"a", "/"}]
MCFilters == {f \in Strung({"a", "/", "+", "#"}, 5) : Proper(f)}

MCNames   == {<< <<97>>, <<98, 99>> >>, << <<97>> >>}
MCAddress == [n \in MCNames |-> IF Len(n) = 2 THEN <<1, 2, 3, 4>> ELSE <<5, 6, 7, 8>>]
MCReplies ==
    LET record(type, short) == [type |-> type, short |-> short]
        reply(records) == [rcode |-> 0, records |-> records]
    IN  {reply(<< record(5, TRUE), record(1, FALSE) >>),
         reply(<< record(28, TRUE) >>), [rcode |-> 3, records |-> <<>>]}

MCInit ==
    /\ ExchangeInit /\ ReaderInit /\ TopicInit /\ DNSInit
    /\ subject \in {"packet", "reader", "topic", "name"}
    /\ subject # "reader" => packets = << CHOOSE p \in Packets : TRUE >>
    /\ subject # "name" => /\ m_hostname = CHOOSE n \in Names : TRUE
                           /\ m_id = CHOOSE i \in Ids : TRUE
                           /\ port = CHOOSE p \in Ports : TRUE

\* One packet and one comparison in a behaviour: nothing is kept between them
OnePacket == (given = Nobody \/ UNCHANGED given) /\ ExchangeNext
OneTopic == filter = <<>> /\ TopicNext

MCNext ==
    /\ UNCHANGED subject
    /\ \/ subject = "packet" /\ OnePacket      /\ UNCHANGED <<readerVars, topicVars, dnsVars>>
       \/ subject = "reader" /\ ReaderNext   /\ UNCHANGED <<exchangeVars, topicVars, dnsVars>>
       \/ subject = "topic"  /\ OneTopic      /\ UNCHANGED <<exchangeVars, readerVars, dnsVars>>
       \/ subject = "name"   /\ DNSNext      /\ UNCHANGED <<exchangeVars, readerVars, topicVars>>

\* Bytes keep arriving, and the lookup and its timers run
Moves ==
    /\ UNCHANGED subject
    /\ \/ subject = "reader" /\ readnb  /\ UNCHANGED <<exchangeVars, topicVars, dnsVars>>
       \/ subject = "name"   /\ DNSStep /\ UNCHANGED <<exchangeVars, readerVars, topicVars>>

MCSpec == MCInit /\ [][MCNext]_messageVars /\ WF_messageVars(Moves)

=============================================================================
