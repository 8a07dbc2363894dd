----------------------------- MODULE DNSMessage -----------------------------
(***************************************************************************)
(* Names and answers of the DNS (Socket/dnsname.h and response() of        *)
(* Socket/DNSClient.cpp) in the bytes of a message.  A name is a sequence  *)
(* of labels; a message is a sequence of bytes, of which the first twelve  *)
(* are its header.                                                         *)
(***************************************************************************)
EXTENDS Bytes

HeaderSize == 12
Short(buf, pos) == (256 * buf[pos + 1]) + buf[pos + 2]

\* dnsname::encode()
EncodeName(name) == Concat([n \in DOMAIN name |-> << Len(name[n]) >> \o name[n]]) \o << 0 >>

\* dnsname::decode(): the position after the name at a position.  The name ends with
\* an empty label, or with a length with both upper bits set, which points to where the
\* rest is: decode() goes there for a text that nothing reads.  No answer has a name
\* that leads beyond its end, where decode() would read on
DecodeName(buf, pos) ==
    LET After[p \in 0..Len(buf) - 1] ==
            LET len == buf[p + 1]
            IN  IF len = 0 THEN p + 1
                ELSE IF len >= 192 THEN p + 2
                ELSE IF p + 1 + len < Len(buf) THEN After[p + 1 + len] ELSE Len(buf)
    IN  After[pos]

\* What response() has after a question and after an answer: the position, and the
\* address of the last A record, or the old one
AfterQuestion(buf, s) == [s EXCEPT !.pos = DecodeName(buf, s.pos) + 4]
AfterAnswer(buf, s) ==
    LET pos == DecodeName(buf, s.pos)
    IN  [pos |-> pos + 10 + Short(buf, pos + 8),
         ip  |-> IF Short(buf, pos) = 1 THEN SubSeq(buf, pos + 11, pos + 14) ELSE s.ip]

\* And after so many of them
ReadUpTo(buf, ip) ==
    LET read[n \in 0..Short(buf, 4) + Short(buf, 6)] ==
            IF n = 0 THEN [pos |-> HeaderSize, ip |-> ip]
            ELSE IF n <= Short(buf, 4) THEN AfterQuestion(buf, read[n - 1])
            ELSE AfterAnswer(buf, read[n - 1])
    IN  read

\* response(): the code, and the address
response(buf, ip) ==
    LET rcode == buf[4] % 16
    IN  [rcode |-> rcode,
         ip    |-> IF rcode = 0 THEN ReadUpTo(buf, ip)[Short(buf, 4) + Short(buf, 6)].ip ELSE ip]

\* The question that query() puts after the header
Question(name) == EncodeName(name) \o << 0, 1, 0, 1 >>

-----------------------------------------------------------------------------
(* What a server answers.  The name of a record is given in full or points  *)
(* to the question; an alias is a label and a pointer into the question     *)

Data(type, address) ==
    CASE type = 1  -> address
      [] type = 5  -> << 1, 99, 192, HeaderSize >>
      [] type = 28 -> [n \in 1..16 |-> n]
Record(record, name, address) ==
    (IF record.short THEN << 192, HeaderSize >> ELSE EncodeName(name))
    \o << 0, record.type, 0, 1, 0, 0, 0, 9 >>
    \o << 0, Len(Data(record.type, address)) >> \o Data(record.type, address)

Message(id, name, reply, address) ==
    id \o << 129, 128 + reply.rcode, 0, 1, 0, Len(reply.records), 0, 0, 0, 0 >>
    \o Question(name)
    \o Concat([n \in DOMAIN reply.records |-> Record(reply.records[n], name, address)])

=============================================================================
