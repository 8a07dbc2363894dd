---------------------------- MODULE PacketReader ----------------------------
(***************************************************************************)
(* MQTTPacket_readnb(), the reader for transports that do not wait.  It is *)
(* called again and again; a call goes on where the last one found no more *)
(* to read.  A step here is one call of the transport's getfn() that       *)
(* returns something, with what the reader does until the next: calls that *)
(* return 0 change nothing.                                                *)
(***************************************************************************)
EXTENDS PacketLength, Bytes

CONSTANTS
    Arriving,     \* the streams: sequences of packets, each with its type, the
                  \* digits of its length and the number of bytes that follow
    buflen        \* the size of the caller's buffer

\* The last digit is the first without the upper bit, and what fits into four of
\* them is the length
ASSUME ReaderAssumption ==
    /\ buflen \in Nat
    /\ Arriving \subseteq Seq([type : 0..15, digits : Seq(0..255), rest : Nat])
    /\ \A ps \in Arriving : \A n \in DOMAIN ps :
          LET digits == ps[n].digits
          IN  /\ \A i \in DOMAIN digits : digits[i] < 128 <=> i = Len(digits)
              /\ digits # <<>>
              /\ Len(digits) <= 4 => decode(digits).value = ps[n].rest

VARIABLES
    packets, stream, at,          \* what arrives, its bytes, and how many were read
    state, len, rem_len, multiplier,   \* of the MQTTTransport
    header,                       \* buf[0]
    returned,                     \* the types returned
    failed                        \* -1 was returned
readerVars == <<packets, stream, at, state, len, rem_len, multiplier, header, returned, failed>>

BytesOf(p)   == << p.type >> \o p.digits \o [n \in 1..p.rest |-> 0]
Pieces(ps)   == [n \in DOMAIN ps |-> BytesOf(ps[n])]
StreamOf(ps) == Concat(Pieces(ps))

ReaderTypeOK ==
    /\ packets \in Arriving /\ stream \in Seq(0..255)
    /\ at \in 0..Len(stream)
    /\ state \in 0..2
    /\ len \in Nat
    /\ rem_len \in 0..MaxLength
    /\ multiplier \in {1} \union {128 * Place[n] : n \in 1..4}
    /\ header \in 0..15
    /\ returned \in Seq(0..15)
    /\ failed \in BOOLEAN

ReaderInit ==
    /\ packets \in Arriving
    /\ stream = StreamOf(packets)
    /\ at = 0
    /\ state = 0 /\ len = 0 /\ rem_len = 0 /\ multiplier = 1 /\ header = 0
    /\ returned = <<>>
    /\ failed = FALSE

\* The caller gives up the connection at the first failure
Reading == ~failed /\ at < Len(stream)

Fails == /\ failed' = TRUE
         /\ state' = 0
         /\ UNCHANGED returned
ReturnsPacket ==
    /\ returned' = Append(returned, header)
    /\ state' = 0
    /\ UNCHANGED failed
GoesOn(next) == state' = next /\ UNCHANGED <<returned, failed>>

HeaderByte ==
    /\ Reading /\ state = 0
    /\ header' = stream[at + 1]
    /\ at' = at + 1
    /\ len' = 0
    /\ GoesOn(1)
    /\ UNCHANGED <<packets, stream, rem_len, multiplier>>

\* MQTTPacket_decodenb(): a fifth digit is not read
TooManyDigits ==
    /\ Reading /\ state = 1 /\ len >= 4
    /\ Fails
    /\ UNCHANGED <<packets, stream, at, len, rem_len, multiplier, header>>

\* Mutant: the bytes before the rest are not counted.
TooLong_RestOnly(value, put) == value > buflen

\* Whether the packet does not fit into the buffer
TooLong(value, put) == value + put > buflen

\* Mutant: a packet without more bytes waits for some.
AfterLength_Waits(value, put) == IF TooLong(value, put) THEN Fails ELSE GoesOn(2)

\* What follows the last digit; a packet without more bytes is there already
AfterLength(value, put) ==
    IF TooLong(value, put) THEN Fails
    ELSE IF value = 0 THEN ReturnsPacket
    ELSE GoesOn(2)

\* With the last digit the length is put into the buffer again
LengthByte ==
    /\ Reading /\ state = 1 /\ len < 4
    /\ LET c        == stream[at + 1]
           scale    == IF len = 0 THEN 1 ELSE multiplier
           value    == (IF len = 0 THEN 0 ELSE rem_len) + ((c % 128) * scale)
           put      == 1 + Len(encode(value))
       IN  /\ at' = at + 1
           /\ multiplier' = scale * 128
           /\ rem_len' = value
           /\ len' = IF c >= 128 THEN len + 1 ELSE put
           /\ IF c >= 128 THEN GoesOn(1)
              ELSE AfterLength(value, put)
    /\ UNCHANGED <<packets, stream, header>>

\* getfn() returns as much as there is
RestBytes(n) ==
    /\ Reading /\ state = 2
    /\ n \in 1..rem_len /\ at + n <= Len(stream)
    /\ at' = at + n
    /\ rem_len' = rem_len - n
    /\ len' = len + n
    /\ IF rem_len = n THEN ReturnsPacket ELSE GoesOn(2)
    /\ UNCHANGED <<packets, stream, multiplier, header>>

\* getfn() returns -1
Disconnected ==
    /\ Reading
    /\ Fails
    /\ UNCHANGED <<packets, stream, at, len, rem_len, multiplier, header>>

readnb ==
    \/ HeaderByte \/ TooManyDigits \/ LengthByte
    \/ \E n \in 1..buflen : RestBytes(n)

ReaderNext == readnb \/ Disconnected

ReaderSpec == ReaderInit /\ [][ReaderNext]_readerVars

-----------------------------------------------------------------------------
(* Properties *)

Whole == SubSeq(packets, 1, Len(returned))
EndOf(n) == Len(Firsts(Pieces(packets))[n])

\* However the bytes arrive, the packets are returned in order and the reader keeps
\* in step with the stream: it looks for a header where a packet begins and, when
\* the length is known, for just what is left of the packet.
ReaderInStep ==
    ~failed => /\ Len(returned) <= Len(packets)
               /\ returned = [n \in DOMAIN Whole |-> Whole[n].type]
               /\ state = 0 => at = EndOf(Len(returned))
               /\ state = 2 => at + rem_len = EndOf(Len(returned) + 1)

\* What the first n digits are worth
WorthOf(digits, n) ==
    LET worth(i) == IF i <= n THEN Worth(digits, i) ELSE 0
    IN  worth(1) + worth(2) + worth(3) + worth(4)

\* Between two calls the reader knows its place in the packet it reads, the digits
\* it has had, and the packet's first byte.
ReaderKnows ==
    ~failed /\ state # 0 =>
        LET p == packets[Len(returned) + 1]
        IN  /\ Len(returned) < Len(packets)
            /\ header = p.type
            /\ state = 1 => /\ at = EndOf(Len(returned)) + 1 + len
                            /\ len <= 4 /\ len < Len(p.digits)
                            /\ len > 0 => /\ multiplier = 128 * Place[len]
                                          /\ rem_len = WorthOf(p.digits, len)

\* The packet never grows past the buffer.
ReaderFits == state = 2 => rem_len > 0 /\ len + rem_len <= buflen

\* A reader whose transport does not fail gives up only at a length with too many
\* digits or a packet that does not fit.
Fits(p) == /\ Len(p.digits) <= 4
           /\ 1 + Len(encode(p.rest)) + p.rest <= buflen
FailsForCause == [][~failed /\ failed' /\ readnb => ~Fits(packets[Len(returned) + 1])]_readerVars

\* The stream is read to its end, or the reader has failed: it does not wait for
\* bytes that belong to no packet.
ReaderFinishes == (state = 1) ~> (failed \/ Len(returned) = Len(packets))

\* However the bytes of a stream come, the reader stays in step with it and within
\* its buffer.
ReaderInv == ReaderTypeOK /\ ReaderInStep /\ ReaderKnows /\ ReaderFits

\* Its reading ends: with the stream, or for a length or size it cannot take.
ReaderEnds == FailsForCause /\ ReaderFinishes

=============================================================================
