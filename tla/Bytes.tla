-------------------------------- MODULE Bytes --------------------------------
(***************************************************************************)
(* Bytes that are written one piece after the other, and how many they are. *)
(***************************************************************************)
EXTENDS Integers, Sequences

\* The first n pieces one after the other, for each n
Firsts(pieces) ==
    LET first[n \in 0..Len(pieces)] ==
            IF n = 0 THEN <<>> ELSE first[n - 1] \o pieces[n]
    IN  first

Concat(pieces) == Firsts(pieces)[Len(pieces)]

\* The sum of the first n numbers, for each n
Sums(numbers) ==
    LET sum[n \in 0..Len(numbers)] == IF n = 0 THEN 0 ELSE sum[n - 1] + numbers[n]
    IN  sum

Total(numbers) == Sums(numbers)[Len(numbers)]

=============================================================================
