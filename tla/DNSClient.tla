----------------------------- MODULE DNSClient -----------------------------
(***************************************************************************)
(* Looking up a name (Socket/DNSClient.cpp).  Each lookup has an object of *)
(* its own, with a socket that each query opens anew at a port drawn by    *)
(* rand(), as the query's id is.  The network loses, delays and repeats    *)
(* answers, and they may come from the queries of earlier lookups.         *)
(***************************************************************************)
EXTENDS DNSMessage, FiniteSets

CONSTANTS
    Names,         \* the names that are looked up
    Address,       \* and the address of each
    Ids, Ports,    \* what rand() returns for a query (a bound)
    Replies,       \* what a server answers: a code and its records
    Interval,      \* a query is given up after more than this time: 1000 ms
    ReceiveTime,   \* Socket::_timeout, the time receiveFrom() waits: 1500 ms
    MaxLookups, MaxCopies, MaxInbox   \* bounds: lookups, copies of an answer, and the
                                      \* datagrams that the socket holds

\* A label has a byte and fits into what a length without the upper bits says
Labels == {label \in Seq(0..255) : Len(label) \in 1..63}
AnswerTypes ==
    [rcode : 0..15, records : Seq([type : {1, 5, 28}, short : BOOLEAN])]

\* Queries fit into the buffer they are written to, answers into that of callback(),
\* and a byte counts the records of an answer
ASSUME DNSAssumption ==
    /\ Names \subseteq Seq(Labels)
    /\ \A name \in Names : HeaderSize + Len(Question(name)) <= 256
    /\ Ids \subseteq 0..255
    /\ Replies \subseteq AnswerTypes
    /\ \A reply \in Replies : Len(reply.records) <= 255
    /\ \A id \in Ids, name \in Names, reply \in Replies :
          Len(Message(<<0, id>>, name, reply, Address[name])) <= 512
    /\ Address \in [Names -> [1..4 -> 0..255]]
    /\ Interval \in Nat /\ ReceiveTime \in Nat
    /\ {MaxLookups, MaxCopies, MaxInbox} \subseteq Nat \ {0}

Tries   == 2           \* m_retry
NoAddr  == <<>>        \* ip has not been set

VARIABLES
    turn,          \* "idle", or what lookup() calls next: "poll" or "callback"
    m_hostname, m_state, m_retry, m_id, port, ip,
    m_interval,    \* the time since the last query
    waited,        \* the time receiveFrom() has waited
    time,          \* the time since lookup() was called
    inbox,         \* the datagrams at the socket
    queries,       \* those whose answers may still come, and how many copies of them
    coincided,     \* in this lookup rand() gave a query the id and port of one for
                   \* another name that may still be answered
    taken,         \* the answer that callback() took last in this lookup
    lookups

dnsVars == <<turn, m_hostname, m_state, m_retry, m_id, port, ip, m_interval, waited, time,
             inbox, queries, coincided, taken, lookups>>

States   == {"START", "PROCESSING", "NOTFOUND", "ERROR", "OK"}
NoAnswer == [rcode |-> -1, records |-> <<>>]

\* The longest lookup: two queries are given up, each when a wait that began in
\* time is over, and callback() waits once more
LongestWait   == ReceiveTime + 1
LongestLookup == Tries * (Interval + LongestWait) + LongestWait

DNSTypeOK ==
    /\ turn \in {"idle", "poll", "callback"}
    /\ m_hostname \in Names
    /\ m_state \in States
    /\ m_retry \in 0..Tries
    /\ m_id \in Ids /\ port \in Ports
    /\ ip \in Seq(0..255) /\ Len(ip) \in {0, 4}
    /\ m_interval \in Nat /\ waited \in 0..LongestWait /\ time \in Nat
    /\ inbox \in Seq([message : Seq(0..255), reply : Replies])
    /\ \A q \in queries : /\ q.id \in Ids /\ q.port \in Ports /\ q.name \in Names
                          /\ q.copies \in 1..MaxCopies
    /\ coincided \in BOOLEAN
    /\ taken \in Replies \union {NoAnswer}
    /\ lookups \in 0..MaxLookups

DNSInit ==
    /\ turn = "idle"
    /\ m_hostname \in Names
    /\ m_state = "START"
    /\ m_retry = 0
    /\ m_id \in Ids /\ port \in Ports
    /\ ip = NoAddr
    /\ m_interval = 0 /\ waited = 0 /\ time = 0
    /\ inbox = <<>>
    /\ queries = {}
    /\ coincided = FALSE
    /\ taken = NoAnswer
    /\ lookups = 0

-----------------------------------------------------------------------------

lookup(hostname) ==
    /\ turn = "idle" /\ lookups < MaxLookups
    /\ lookups' = lookups + 1
    /\ m_hostname' = hostname
    /\ m_state' = "START" /\ m_retry' = 0
    /\ ip' = NoAddr
    /\ m_interval' = 0 /\ time' = 0
    /\ taken' = NoAnswer /\ coincided' = FALSE
    /\ turn' = "poll"
    /\ UNCHANGED <<m_id, port, waited, inbox, queries>>

\* resolve(): the socket is opened again, empty, and the timer is set back
resolve ==
    /\ m_id' \in Ids
    /\ port' \in Ports
    /\ inbox' = <<>>
    /\ LET Same(q) == q.id = m_id' /\ q.port = port'
       IN  /\ queries' = {q \in queries : ~(Same(q) /\ q.name = m_hostname)} \union
                  {[id |-> m_id', port |-> port', name |-> m_hostname, copies |-> MaxCopies]}
           /\ coincided' = (coincided \/ \E q \in queries : Same(q) /\ q.name # m_hostname)
    /\ m_interval' = 0
    /\ m_state' = "PROCESSING"

\* The time between two queries is over; the last one is given up
Late == m_interval > Interval

\* Whether a query that was given up was the last
GivesUp(n) == n >= Tries

poll ==
    /\ turn = "poll"
    /\ turn' = "callback"
    /\ CASE m_state = "START"           -> m_retry' = 0 /\ resolve
         [] m_state # "START" /\ Late   ->
              /\ m_retry' = m_retry + 1
              /\ IF GivesUp(m_retry')
                 THEN /\ m_state' = "ERROR"
                      /\ UNCHANGED <<m_id, port, inbox, queries, coincided, m_interval>>
                 ELSE resolve
         [] m_state # "START" /\ ~Late  ->
              UNCHANGED <<m_retry, m_state, m_id, port, inbox, queries, coincided,
                          m_interval>>
    /\ UNCHANGED <<m_hostname, ip, waited, time, taken, lookups>>

\* lookup() ends unless the answer is still to come.  Its socket is closed
Turns(state, left) ==
    IF state = "PROCESSING" THEN turn' = "poll" /\ inbox' = left
    ELSE turn' = "idle" /\ inbox' = <<>>

\* Mutant: any answer will do.
Takes_AnyId(d) ==
    \E answer \in {response(d.message, ip)} :
       /\ m_state' = IF answer.rcode = 0 THEN "OK" ELSE "NOTFOUND"
       /\ ip' = answer.ip
       /\ taken' = d.reply

\* What a datagram makes of the state: nothing, if it has another id
Takes(d) ==
    \E answer \in {response(d.message, ip)} :
       IF SubSeq(d.message, 1, 2) # <<0, m_id>> THEN UNCHANGED <<m_state, ip, taken>>
       ELSE /\ m_state' = IF answer.rcode = 0 THEN "OK" ELSE "NOTFOUND"
            /\ ip' = answer.ip
            /\ taken' = d.reply

\* Mutant: the socket waits for ever.
callback_Blocks ==
    /\ turn = "callback"
    /\ inbox # <<>>
    /\ Takes(Head(inbox)) /\ Turns(m_state', Tail(inbox))
    /\ waited' = 0
    /\ UNCHANGED <<m_hostname, m_retry, m_id, port, m_interval, time, queries, coincided, lookups>>

\* callback(): a datagram is there, or none came in time
callback ==
    /\ turn = "callback"
    /\ IF inbox # <<>> THEN Takes(Head(inbox)) /\ Turns(m_state', Tail(inbox))
       ELSE /\ waited > ReceiveTime
            /\ Turns(m_state, <<>>)
            /\ UNCHANGED <<m_state, ip, taken>>
    /\ waited' = 0
    /\ UNCHANGED <<m_hostname, m_retry, m_id, port, m_interval, time, queries, coincided, lookups>>

\* Time passes only while receiveFrom() waits
Tick ==
    /\ turn = "callback" /\ inbox = <<>> /\ waited <= ReceiveTime
    /\ waited' = waited + 1
    /\ time' = time + 1
    /\ m_interval' = m_interval + 1
    /\ UNCHANGED <<turn, m_hostname, m_state, m_retry, m_id, port, ip, inbox, queries, coincided,
                   taken, lookups>>

\* The answer to a query, or a copy of it; the socket takes it only at its port
\* and while it is there and has room
Answers(q, reply) ==
    /\ turn # "idle"
    /\ queries' = (queries \ {q}) \union
                  (IF q.copies = 1 THEN {} ELSE {[q EXCEPT !.copies = @ - 1]})
    /\ IF q.port = port /\ m_state # "START" /\ Len(inbox) < MaxInbox
       THEN \E m \in {Message(<<0, q.id>>, q.name, reply, Address[q.name])} :
               inbox' = Append(inbox, [message |-> m, reply |-> reply])
       ELSE UNCHANGED inbox
    /\ UNCHANGED <<turn, m_hostname, m_state, m_retry, m_id, port, ip, m_interval, waited,
                   time, coincided, taken, lookups>>

DNSStep == poll \/ callback \/ Tick

DNSNext ==
    \/ DNSStep
    \/ \E name \in Names : lookup(name)
    \/ \E q \in queries, reply \in Replies : Answers(q, reply)

DNSSpec == DNSInit /\ [][DNSNext]_dnsVars

-----------------------------------------------------------------------------
(* Properties *)

Found == turn = "idle" /\ m_state = "OK"
HasAddress(reply) == \E n \in DOMAIN reply.records : reply.records[n].type = 1

\* A lookup that succeeds has the address of the name it was asked for, however late
\* answers to earlier lookups come, if the server answered with an address.
AddressIsRight ==
    Found /\ HasAddress(taken) /\ ~coincided => ip = Address[m_hostname]

\* What lookup() returns is what the answer taken last says, also if poll() had
\* given up in the same turn; it fails without an answer only after two queries.
AnswerDecides ==
    turn = "idle" /\ lookups > 0 =>
        /\ m_state = CASE taken = NoAnswer                    -> "ERROR"
                       [] taken # NoAnswer /\ taken.rcode = 0 -> "OK"
                       [] OTHER                               -> "NOTFOUND"
        /\ m_state = "ERROR" => m_retry = Tries /\ time > Tries * Interval

\* lookup() returns within the time that two queries may take.
LookupIsShort == time <= LongestLookup

\* Whatever answers come late, twice or to an older query: the address a lookup
\* returns is its name's, the answer decides, and the time is bounded.
LookupInv == DNSTypeOK /\ AddressIsRight /\ AnswerDecides /\ LookupIsShort

\* And it does return, whatever arrives.
LookupEnds == (turn # "idle") ~> (turn = "idle")

=============================================================================
