---------------------------- MODULE PacketLength ----------------------------
(***************************************************************************)
(* The remaining length of an MQTT packet: digits to the base 128, the     *)
(* lowest first, with 128 added to all but the last; at most four of them. *)
(***************************************************************************)
EXTENDS Integers, Sequences

Place     == <<1, 128, 16384, 2097152>>
MaxLength == 268435455

\* MQTTPacket_encode(); longer ones than MaxLength are not sent
Digits(length) ==
    IF length < 128          THEN 1
    ELSE IF length < 16384   THEN 2
    ELSE IF length < 2097152 THEN 3 ELSE 4
encode(length) ==
    [n \in 1..Digits(length) |->
        ((length \div Place[n]) % 128) + (IF n < Digits(length) THEN 128 ELSE 0)]

\* MQTTPacket_decode(), and MQTTPacket_decodeBuf(): the digits up to the first
\* that says it is the last, and how many they are; 5 if none of four does.
\* digits has at least four, or a last one
Lasts(digits)    == {n \in 1..4 : n <= Len(digits) /\ digits[n] < 128}
Counts(digits, n) == \A m \in Lasts(digits) : n <= m
Worth(digits, n) ==
    IF n <= Len(digits) /\ Counts(digits, n) THEN (digits[n] % 128) * Place[n] ELSE 0
decode(digits) ==
    [value |-> Worth(digits, 1) + Worth(digits, 2) + Worth(digits, 3) + Worth(digits, 4),
     len   |-> IF Lasts(digits) = {} THEN 5
               ELSE CHOOSE n \in Lasts(digits) : Counts(digits, n)]

\* Mutant: the header's byte is left out.
MQTTPacket_len_NoHeader(rem_len) == rem_len + Digits(rem_len)

\* MQTTPacket_len(): the length of the packet; the header counts when the
\* digits are counted
MQTTPacket_len(rem_len) ==
    LET counted == rem_len + 1
    IN  counted + (IF counted < 128          THEN 1
                   ELSE IF counted < 16384   THEN 2
                   ELSE IF counted < 2097151 THEN 3 ELSE 4)

=============================================================================
