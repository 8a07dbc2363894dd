------------------------------ MODULE DNSProofs ------------------------------
(***************************************************************************)
(* Looking up a name, for every value of the constants: what response()    *)
(* makes of the bytes of an answer, and that lookup() returns the address  *)
(* of its name, in time, whichever answers come when.                      *)
(***************************************************************************)
EXTENDS DNSClient, MessagesProofs

-----------------------------------------------------------------------------
(* Names in messages *)

Octets == 0..255

LEMMA OctetsAre ==
    ASSUME NEW buf \in Seq(Octets)
    PROVE  Len(buf) \in Nat /\ \A i \in 1..Len(buf) : buf[i] \in 0..255 /\ buf[i] \in Nat
<1>1. Len(buf) \in Nat /\ \A i \in 1..Len(buf) : buf[i] \in Octets
  OBVIOUS
<1>2. \A x \in Octets : x \in 0..255 /\ x \in Nat
  BY DEF Octets
<1> QED
  BY <1>1, <1>2

\* The position after a name that begins at p, when what comes after p is known
Decoded(buf, f, p) ==
    LET size == buf[p + 1]
    IN  IF size = 0 THEN p + 1
        ELSE IF size >= 192 THEN p + 2
        ELSE IF p + 1 + size < Len(buf) THEN f[p + 1 + size] ELSE Len(buf)

\* Such a function there is, built from the end of the message.
LEMMA DecodingIs ==
    ASSUME NEW buf \in Seq(Octets)
    PROVE  \E f : f = [p \in 0..Len(buf) - 1 |-> Decoded(buf, f, p)]
<1> DEFINE k == Len(buf)
           D == 0..k - 1
           Partly(f, n) == f = [p \in D |-> f[p]] /\ \A p \in k - n..k - 1 : f[p] = Decoded(buf, f, p)
           T == {n \in Nat : n <= k => \E f : Partly(f, n)}
<1>1. k \in Nat /\ \A p \in D : p + 1 \in 1..k /\ buf[p + 1] \in Nat
  <2>1. k \in Nat /\ \A i \in 1..k : buf[i] \in Nat
    BY OctetsAre
  <2>2. \A p \in D : p + 1 \in 1..k
    BY <2>1
  <2> QED
    BY <2>1, <2>2
<1> HIDE DEF k
<1>2. 0 \in T
  <2> DEFINE g == [p \in D |-> 0]
  <2>1. g = [p \in D |-> g[p]]
    OBVIOUS
  <2>2. Partly(g, 0)
    <3> HIDE DEF g
    <3> QED
      BY <2>1, <1>1
  <2>3. \E f : Partly(f, 0)
    <3> HIDE DEF Partly, g
    <3> QED
      BY <2>2
  <2> QED
    BY <2>3
<1>3. \A n \in Nat : n \in T => n + 1 \in T
  <2> SUFFICES ASSUME NEW n \in Nat, n \in T, n + 1 <= k
               PROVE  \E f : Partly(f, n + 1)
    <3> HIDE DEF Partly
    <3> QED
      OBVIOUS
  <2>1. PICK f : Partly(f, n)
    <3>1. n <= k
      BY <1>1
    <3> HIDE DEF Partly
    <3> QED
      BY <3>1
  <2> DEFINE here == k - (n + 1)
             g  == [p \in D |-> IF p = here THEN Decoded(buf, f, here) ELSE f[p]]
  <2>2. here \in D /\ k - n = here + 1
    BY <1>1
  <2>3. \A p \in here..k - 1 : p \in D /\ (p + 1 + buf[p + 1] < k => p + 1 + buf[p + 1] \in D
                                           /\ p + 1 + buf[p + 1] # here)
    BY <1>1, <2>2
  <2>4. \A p \in D : p # here => g[p] = f[p]
    OBVIOUS
  <2>5. g[here] = Decoded(buf, f, here)
    BY <2>2
  <2> HIDE DEF g, here
  <2>6. \A p \in here..k - 1 : Decoded(buf, g, p) = Decoded(buf, f, p)
    BY <2>3, <2>4 DEF Decoded, k
  <2>7. \A p \in here..k - 1 : g[p] = Decoded(buf, g, p)
    <3> TAKE p \in here..k - 1
    <3>1. CASE p = here
      BY <3>1, <2>5, <2>6
    <3>2. CASE p # here
      <4>1. p \in k - n..k - 1
        BY <3>2, <2>2, <1>1
      <4> QED
        BY <4>1, <3>2, <2>1, <2>3, <2>4, <2>6
    <3> QED
      BY <3>1, <3>2
  <2>8. g = [p \in D |-> g[p]]
    BY DEF g
  <2>9. k - (n + 1) = here
    BY DEF here
  <2> QED
    BY <2>7, <2>8, <2>9
<1>4. k \in T
  <2> HIDE DEF T
  <2> QED
    BY <1>1, <1>2, <1>3, Induction
<1>5. PICK f : Partly(f, k)
  BY <1>1, <1>4
<1>6. \A p \in D : f[p] = Decoded(buf, f, p)
  BY <1>1, <1>5
<1>7. [p \in D |-> f[p]] = [p \in D |-> Decoded(buf, f, p)]
  BY <1>6, Zenon
<1>8. f = [p \in D |-> Decoded(buf, f, p)]
  BY <1>5, <1>7, Zenon
<1> QED
  BY <1>8 DEF k

LEMMA DecodeEquation ==
    ASSUME NEW buf \in Seq(Octets), NEW p \in 0..Len(buf) - 1
    PROVE  DecodeName(buf, p) =
              IF buf[p + 1] = 0 THEN p + 1
              ELSE IF buf[p + 1] >= 192 THEN p + 2
              ELSE IF p + 1 + buf[p + 1] < Len(buf) THEN DecodeName(buf, p + 1 + buf[p + 1])
              ELSE Len(buf)
<1> DEFINE F == CHOOSE f : f = [q \in 0..Len(buf) - 1 |-> Decoded(buf, f, q)]
           h == [q \in 0..Len(buf) - 1 |-> Decoded(buf, F, q)]
<1>1. \A q : DecodeName(buf, q) = F[q]
  BY DEF DecodeName, Decoded
<1>2. F = h
  BY DecodingIs
<1>3. h[p] = Decoded(buf, F, p)
  OBVIOUS
<1> HIDE DEF F, h
<1>4. F[p] = Decoded(buf, F, p)
  BY <1>2, <1>3
<1> QED
  BY <1>1, <1>4 DEF Decoded

\* What a message holds after its first pos bytes
Holds(buf, pos, s) == /\ pos + Len(s) <= Len(buf)
                      /\ \A i \in 1..Len(s) : buf[pos + i] = s[i]

LEMMA Joined ==
    ASSUME NEW S, NEW a \in Seq(S), NEW b \in Seq(S), NEW c, Join(c, a, b)
    PROVE  /\ c \in Seq(S)
           /\ Len(a) \in Nat /\ Len(b) \in Nat /\ Len(c) = Len(a) + Len(b)
           /\ \A i \in 1..Len(a) : c[i] = a[i]
           /\ \A i \in 1..Len(b) : Len(a) + i \in 1..Len(c) /\ c[Len(a) + i] = b[i]
  BY TwoPieces DEF Join

LEMMA HoldsTwo ==
    ASSUME NEW S, NEW buf \in Seq(S), NEW pos \in Nat, NEW a \in Seq(S), NEW b \in Seq(S),
           NEW c, Join(c, a, b), Holds(buf, pos, c)
    PROVE  /\ Len(a) \in Nat /\ Len(b) \in Nat /\ Len(c) = Len(a) + Len(b)
           /\ Holds(buf, pos, a) /\ Holds(buf, pos + Len(a), b)
<1>1. /\ Len(a) \in Nat /\ Len(b) \in Nat /\ Len(c) = Len(a) + Len(b)
      /\ \A i \in 1..Len(a) : c[i] = a[i]
      /\ \A i \in 1..Len(b) : Len(a) + i \in 1..Len(c) /\ c[Len(a) + i] = b[i]
  BY Joined
<1>2. Len(buf) \in Nat
  OBVIOUS
<1>3. /\ pos + Len(c) <= Len(buf)
      /\ \A i \in 1..Len(c) : buf[pos + i] = c[i]
  BY DEF Holds
<1>4. \A i \in 1..Len(a) : i \in 1..Len(c)
  BY <1>1
<1>5. Holds(buf, pos, a)
  BY <1>1, <1>2, <1>3, <1>4 DEF Holds
<1>6. \A i \in 1..Len(b) : buf[(pos + Len(a)) + i] = b[i]
  <2> TAKE i \in 1..Len(b)
  <2>1. (pos + Len(a)) + i = pos + (Len(a) + i)
    BY <1>1
  <2> QED
    BY <2>1, <1>1, <1>3
<1>7. Holds(buf, pos + Len(a), b)
  BY <1>1, <1>2, <1>3, <1>6 DEF Holds
<1> QED
  BY <1>1, <1>5, <1>7

\* A piece of what a message holds
LEMMA HoldsPiece ==
    ASSUME NEW S, NEW buf \in Seq(S), NEW pos \in Nat, NEW pieces \in Seq(Seq(S)),
           Holds(buf, pos, Concat(pieces)), NEW n \in 1..Len(pieces)
    PROVE  /\ Len(Firsts(pieces)[n - 1]) \in Nat /\ Len(pieces[n]) \in Nat
           /\ Len(Firsts(pieces)[n]) = Len(Firsts(pieces)[n - 1]) + Len(pieces[n])
           /\ Holds(buf, pos + Len(Firsts(pieces)[n - 1]), pieces[n])
<1> DEFINE c == Concat(pieces)
           start == Len(Firsts(pieces)[n - 1])
<1>1. /\ c \in Seq(S)
      /\ start \in Nat
      /\ Len(Firsts(pieces)[n]) = start + Len(pieces[n])
      /\ Len(Firsts(pieces)[n]) <= Len(c)
      /\ \A i \in 1..Len(pieces[n]) : c[start + i] = pieces[n][i]
  BY PieceInPlace
<1>2. Len(buf) \in Nat /\ Len(pieces[n]) \in Nat
  OBVIOUS
<1> HIDE DEF c, start
<1>3. /\ pos + Len(c) <= Len(buf)
      /\ \A i \in 1..Len(c) : buf[pos + i] = c[i]
  BY DEF Holds, c
<1>4. Len(c) \in Nat
  BY <1>1
<1>5. \A i \in 1..Len(pieces[n]) : buf[(pos + start) + i] = pieces[n][i]
  <2> TAKE i \in 1..Len(pieces[n])
  <2>1. (pos + start) + i = pos + (start + i) /\ start + i \in 1..Len(c)
    BY <1>1, <1>2, <1>4
  <2> QED
    BY <2>1, <1>1, <1>3
<1>6. Holds(buf, pos + start, pieces[n])
  <2>1. (pos + start) + Len(pieces[n]) <= Len(buf)
    <3> DEFINE l == Len(pieces[n])
               m == Len(Firsts(pieces)[n])
    <3>1. m = start + l /\ m <= Len(c) /\ pos + Len(c) <= Len(buf) /\ l \in Nat
      BY <1>1, <1>2, <1>3
    <3> HIDE DEF l, m
    <3>2. (pos + start) + l <= Len(buf)
      BY <3>1, <1>1, <1>2, <1>4
    <3> QED
      BY <3>2 DEF l
  <2> QED
    BY <2>1, <1>5 DEF Holds
<1> QED
  BY <1>1, <1>2, <1>6 DEF start

\* The labels of a name, each with its length
Labelled(name) == [n \in DOMAIN name |-> << Len(name[n]) >> \o name[n]]

LEMMA LabelledIs ==
    ASSUME NEW name \in Seq(Labels)
    PROVE  /\ Len(name) \in Nat
           /\ \A n \in 1..Len(name) :
                 /\ Len(name[n]) \in 1..63
                 /\ Labelled(name)[n] \in Seq(Octets)
                 /\ Len(Labelled(name)[n]) = 1 + Len(name[n])
                 /\ Labelled(name)[n][1] = Len(name[n])
           /\ Labelled(name) \in Seq(Seq(Octets)) /\ Len(Labelled(name)) = Len(name)
           /\ EncodeName(name) = Concat(Labelled(name)) \o << 0 >>
<1> DEFINE pieces == [n \in DOMAIN name |-> << Len(name[n]) >> \o name[n]]
           k == Len(name)
<1>0. Labelled(name) = pieces
  BY DEF Labelled
<1>1. /\ k \in Nat /\ DOMAIN name = 1..k
      /\ \A n \in 1..k : name[n] \in Seq(Octets) /\ Len(name[n]) \in 1..63
  <2>1. k \in Nat /\ DOMAIN name = 1..k /\ \A n \in 1..k : name[n] \in Labels
    OBVIOUS
  <2> QED
    BY <2>1 DEF Labels, Octets
<1>2. \A n \in 1..k : /\ pieces[n] \in Seq(Octets)
                      /\ Len(pieces[n]) = 1 + Len(name[n])
                      /\ pieces[n][1] = Len(name[n])
  <2> TAKE n \in 1..k
  <2> DEFINE a == << Len(name[n]) >>
             b == name[n]
             c == pieces[n]
  <2>1. Len(a) = 1 /\ a[1] = Len(name[n])
    OBVIOUS
  <2>2. a \in Seq(Octets) /\ b \in Seq(Octets) /\ Join(c, a, b)
    BY <1>1 DEF Join, Octets
  <2>3. c \in Seq(Octets) /\ Len(c) = Len(a) + Len(b) /\ \A i \in 1..Len(a) : c[i] = a[i]
    <3> HIDE DEF a, b, c
    <3> QED
      BY <2>2, Joined
  <2>4. c \in Seq(Octets) /\ Len(c) = 1 + Len(b) /\ c[1] = Len(name[n])
    <3> HIDE DEF a, b, c
    <3> QED
      BY <2>1, <2>3
  <2> QED
    BY <2>4
<1>3. pieces \in Seq(Seq(Octets)) /\ Len(pieces) = k
  <2>1. pieces = [n \in 1..k |-> pieces[n]]
    BY <1>1
  <2> HIDE DEF pieces
  <2> QED
    BY <2>1, <1>1, <1>2
<1>4. EncodeName(name) = Concat(pieces) \o << 0 >>
  BY DEF EncodeName
<1> HIDE DEF pieces
<1> QED
  BY <1>0, <1>1, <1>2, <1>3, <1>4

LEMMA NamesAreOctets ==
    ASSUME NEW name \in Seq(Labels)
    PROVE  EncodeName(name) \in Seq(Octets)
<1> DEFINE a == Concat(Labelled(name))
           b == << 0 >>
           E == EncodeName(name)
<1>1. Labelled(name) \in Seq(Seq(Octets))
  BY LabelledIs
<1>2. a \in Seq(Octets)
  <2>1. \A n \in 0..Len(Labelled(name)) : Firsts(Labelled(name))[n] \in Seq(Octets)
    BY <1>1, FirstsAreSequences
  <2>2. Len(Labelled(name)) \in 0..Len(Labelled(name))
    BY <1>1
  <2> QED
    BY <2>1, <2>2, Zenon DEF Concat
<1>3. b \in Seq(Octets)
  BY DEF Octets
<1>4. Join(E, a, b)
  BY LabelledIs DEF Join
<1> HIDE DEF a, b, E
<1>5. E \in Seq(Octets)
  BY <1>2, <1>3, <1>4, Joined
<1> QED
  BY <1>5 DEF E

\* A name that a message holds is read to its end.
LEMMA NameIsRead ==
    ASSUME NEW buf \in Seq(Octets), NEW name \in Seq(Labels), NEW pos \in Nat,
           Holds(buf, pos, EncodeName(name))
    PROVE  /\ EncodeName(name) \in Seq(Octets)
           /\ Len(EncodeName(name)) \in Nat \ {0}
           /\ DecodeName(buf, pos) = pos + Len(EncodeName(name))
<1> DEFINE pieces == Labelled(name)
           k == Len(name)
           F == Firsts(pieces)
           E == EncodeName(name)
           end == pos + Len(F[k]) + 1
           T == {n \in Nat : n <= k => DecodeName(buf, pos + Len(F[k - n])) = end}
<1>1. k \in Nat
  OBVIOUS
<1>2. \A n \in 1..k : /\ Len(name[n]) \in 1..63
                      /\ pieces[n] \in Seq(Octets)
                      /\ Len(pieces[n]) = 1 + Len(name[n])
                      /\ pieces[n][1] = Len(name[n])
  BY LabelledIs
<1>3. pieces \in Seq(Seq(Octets)) /\ Len(pieces) = k
  BY LabelledIs
<1>4. E = Concat(pieces) \o << 0 >>
  BY LabelledIs
<1>5. Concat(pieces) = F[k]
  BY <1>3 DEF Concat
<1> HIDE DEF pieces, k, F, E
<1>6. /\ \A n \in 0..k : F[n] \in Seq(Octets) /\ Len(F[n]) \in Nat
      /\ \A n \in 1..k : Len(F[n]) = Len(F[n - 1]) + Len(pieces[n])
  <2>1. \A n \in 0..k : F[n] \in Seq(Octets)
    BY <1>3, FirstsAreSequences DEF F
  <2>3. \A s \in Seq(Octets) : Len(s) \in Nat
    OBVIOUS
  <2>2. \A n \in 1..k : Len(F[n]) = Len(F[n - 1]) + Len(pieces[n])
    BY <1>3, FirstsAreSequences DEF F
  <2> QED
    BY <2>1, <2>2, <2>3
<1>7. /\ Concat(pieces) \in Seq(Octets) /\ << 0 >> \in Seq(Octets)
      /\ Len(<< 0 >>) = 1 /\ << 0 >>[1] = 0
  BY <1>1, <1>5, <1>6 DEF Octets
<1>8. /\ E \in Seq(Octets) /\ Len(E) = Len(F[k]) + 1
      /\ Holds(buf, pos, Concat(pieces)) /\ Holds(buf, pos + Len(F[k]), << 0 >>)
  <2> DEFINE a == Concat(pieces)
             b == << 0 >>
  <2>1. a \in Seq(Octets) /\ b \in Seq(Octets) /\ Join(E, a, b)
    BY <1>4, <1>7 DEF Join
  <2>2. Holds(buf, pos, E)
    BY DEF E
  <2>3. a = F[k] /\ Len(b) = 1
    BY <1>5
  <2> HIDE DEF a, b
  <2>4. E \in Seq(Octets) /\ Len(E) = Len(a) + Len(b)
    BY <2>1, Joined
  <2>5. Holds(buf, pos, a) /\ Holds(buf, pos + Len(a), b)
    BY <2>1, <2>2, HoldsTwo
  <2>6. E \in Seq(Octets) /\ Len(E) = Len(F[k]) + 1 /\ Holds(buf, pos, a) /\ Holds(buf, pos + Len(F[k]), b)
    BY <2>1, <2>3, <2>4, <2>5
  <2> QED
    BY <2>6 DEF a, b
<1>9. /\ Len(buf) \in Nat /\ Len(F[k]) \in Nat
      /\ end <= Len(buf) /\ buf[end] = 0
  <2>1. Len(buf) \in Nat /\ Len(F[k]) \in Nat
    BY <1>1, <1>6
  <2>2. pos + Len(F[k]) + 1 <= Len(buf) /\ buf[pos + Len(F[k]) + 1] = 0
    BY <1>7, <1>8 DEF Holds
  <2> QED
    BY <2>1, <2>2
<1>10. 0 \in T
  <2> DEFINE p == pos + Len(F[k])
  <2>1. p \in 0..Len(buf) - 1 /\ p + 1 = end /\ buf[p + 1] = 0
    BY <1>9
  <2>2. DecodeName(buf, p) = p + 1
    <3> HIDE DEF p
    <3> QED
      BY <2>1, DecodeEquation
  <2>3. k - 0 = k
    BY <1>1
  <2> QED
    BY <2>1, <2>2, <2>3
<1>11. \A n \in Nat : n \in T => n + 1 \in T
  <2> SUFFICES ASSUME NEW n \in Nat, n \in T, n + 1 <= k
               PROVE  DecodeName(buf, pos + Len(F[k - (n + 1)])) = end
    OBVIOUS
  <2> DEFINE m == k - n
             p == pos + Len(F[m - 1])
             l == Len(name[m])
  <2>1. m \in 1..k /\ k - (n + 1) = m - 1 /\ n <= k
    BY <1>1
  <2>2. DecodeName(buf, pos + Len(F[m])) = end
    BY <2>1
  <2> HIDE DEF m
  <2>3. /\ Len(F[m - 1]) \in Nat /\ l \in 1..63
        /\ Len(F[m]) = Len(F[m - 1]) + 1 + l
        /\ Len(pieces[m]) = 1 + l /\ pieces[m][1] = l
    <3>1. m - 1 \in 0..k
      BY <2>1, <1>1
    <3>2. Len(pieces[m]) = 1 + l /\ pieces[m][1] = l /\ l \in 1..63
      BY <2>1, <1>1, <1>2
    <3>3. Len(F[m - 1]) \in Nat /\ Len(F[m]) = Len(F[m - 1]) + Len(pieces[m])
      BY <2>1, <3>1, <1>6
    <3> HIDE DEF l
    <3> DEFINE u == Len(F[m - 1])
               v == Len(F[m])
               w == Len(pieces[m])
    <3>4. u \in Nat /\ v = u + w /\ w = 1 + l /\ l \in 1..63
      BY <3>2, <3>3
    <3>5. v = u + 1 + l
      <4> HIDE DEF u, v, w
      <4> QED
        BY <3>4
    <3> QED
      BY <3>2, <3>3, <3>5
  <2>4. Holds(buf, p, pieces[m])
    BY <2>1, <1>3, <1>8, HoldsPiece DEF F
  <2> HIDE DEF l
  <2>5. Len(F[m]) <= Len(F[k])
    <3>1. m \in 0..k /\ k \in m..k
      BY <2>1, <1>1
    <3> QED
      BY <3>1, <1>3, FirstsStay DEF F
  <2>6. /\ p \in 0..Len(buf) - 1 /\ buf[p + 1] = l
        /\ p + 1 + l = pos + Len(F[m]) /\ p + 1 + l < Len(buf)
    <3>1. p \in Nat /\ p + 1 + l = pos + Len(F[m]) /\ p + 1 + l < Len(buf)
      <4> DEFINE u == Len(F[m - 1])
                 v == Len(F[m])
                 w == Len(F[k])
                 b == Len(buf)
      <4>1. u \in Nat /\ l \in 1..63 /\ v = u + 1 + l /\ v <= w
        BY <2>3, <2>5
      <4>2. w \in Nat /\ b \in Nat /\ pos + w + 1 <= b
        BY <1>9
      <4>3. p = pos + u
        OBVIOUS
      <4> HIDE DEF u, v, w, b, p
      <4>4. p \in Nat /\ p + 1 + l = pos + v /\ p + 1 + l < b
        BY <4>1, <4>2, <4>3
      <4> QED
        BY <4>4 DEF v, b
    <3> HIDE DEF p
    <3>2. buf[p + 1] = l
      <4>1. 1 \in 1..Len(pieces[m])
        <5> DEFINE w == Len(pieces[m])
        <5>1. w = 1 + l /\ l \in 1..63
          BY <2>3
        <5> HIDE DEF w
        <5>2. 1 \in 1..w
          BY <5>1
        <5> QED
          BY <5>2 DEF w
      <4>2. \A i \in 1..Len(pieces[m]) : buf[p + i] = pieces[m][i]
        BY <2>4 DEF Holds
      <4>3. buf[p + 1] = pieces[m][1]
        BY <4>1, <4>2
      <4> QED
        BY <4>3, <2>3
    <3>3. p \in 0..Len(buf) - 1
      <4> DEFINE v == pos + Len(F[m])
      <4> HIDE DEF v
      <4> QED
        BY <3>1, <2>3, <1>9
    <3> QED
      BY <3>1, <3>2, <3>3
  <2> HIDE DEF p
  <2>7. DecodeName(buf, p) = DecodeName(buf, p + 1 + l)
    <3>1. DecodeName(buf, p) =
              IF buf[p + 1] = 0 THEN p + 1
              ELSE IF buf[p + 1] >= 192 THEN p + 2
              ELSE IF p + 1 + buf[p + 1] < Len(buf) THEN DecodeName(buf, p + 1 + buf[p + 1])
              ELSE Len(buf)
      BY <2>6, DecodeEquation
    <3>2. l \in 1..63
      BY <2>3
    <3>3. buf[p + 1] = l /\ p + 1 + l < Len(buf)
      BY <2>6
    <3>4. l # 0 /\ ~(l >= 192)
      BY <3>2
    <3> QED
      BY <3>1, <3>3, <3>4
  <2>8. DecodeName(buf, p) = end
    BY <2>2, <2>6, <2>7
  <2> QED
    BY <2>1, <2>8 DEF p
<1>12. k \in T
  <2> HIDE DEF T
  <2> QED
    BY <1>1, <1>10, <1>11, Induction
<1>13. DecodeName(buf, pos + Len(F[0])) = end
  <2>1. k - k = 0
    BY <1>1
  <2> QED
    BY <1>1, <1>12, <2>1
<1>14. Len(F[0]) = 0
  <2>1. F[0] = <<>>
    BY <1>3, FirstsEquation DEF F
  <2> QED
    BY <2>1
<1> QED
  BY <1>8, <1>9, <1>13, <1>14 DEF E

\* What response() has after n questions and answers, when it is known before that
ReadStep(buf, addr, f, n) ==
    IF n = 0 THEN [pos |-> HeaderSize, ip |-> addr]
    ELSE IF n <= Short(buf, 4) THEN AfterQuestion(buf, f[n - 1])
    ELSE AfterAnswer(buf, f[n - 1])

LEMMA ReadingIs ==
    ASSUME NEW buf, NEW addr, NEW k \in Nat
    PROVE  \E f : f = [n \in 0..k |-> ReadStep(buf, addr, f, n)]
<1> DEFINE Grows(f, n) == f = [m \in 0..n |-> ReadStep(buf, addr, f, m)]
           T == {n \in Nat : \E f : Grows(f, n)}
<1>1. 0 \in T
  <2> DEFINE g == [m \in 0..0 |-> ReadStep(buf, addr, <<>>, m)]
  <2>1. \A m \in 0..0 : ReadStep(buf, addr, <<>>, m) = ReadStep(buf, addr, g, m)
    BY DEF ReadStep
  <2>2. Grows(g, 0)
    BY <2>1
  <2>3. \E f : Grows(f, 0)
    <3> HIDE DEF Grows, g
    <3> QED
      BY <2>2
  <2> QED
    BY <2>3
<1>2. \A n \in Nat : n \in T => n + 1 \in T
  <2> SUFFICES ASSUME NEW n \in Nat, \E f : Grows(f, n)
               PROVE  \E f : Grows(f, n + 1)
    <3> HIDE DEF Grows
    <3> QED
      OBVIOUS
  <2> PICK f : Grows(f, n)
    OBVIOUS
  <2> DEFINE g == [m \in 0..n + 1 |-> IF m = n + 1 THEN ReadStep(buf, addr, f, m) ELSE f[m]]
             h == [m \in 0..n |-> ReadStep(buf, addr, f, m)]
  <2>1. /\ \A m \in 0..n : g[m] = f[m]
        /\ g[n + 1] = ReadStep(buf, addr, f, n + 1)
    OBVIOUS
  <2>2. \A m \in 0..n : f[m] = ReadStep(buf, addr, f, m)
    <3>1. f = h
      OBVIOUS
    <3>2. \A m \in 0..n : h[m] = ReadStep(buf, addr, f, m)
      OBVIOUS
    <3> HIDE DEF h
    <3> QED
      BY <3>1, <3>2
  <2>3. g = [m \in 0..n + 1 |-> g[m]]
    OBVIOUS
  <2> HIDE DEF g, h, Grows
  <2>4. \A m \in 0..n + 1 : ReadStep(buf, addr, g, m) = ReadStep(buf, addr, f, m)
    <3> TAKE m \in 0..n + 1
    <3>1. m # 0 => m - 1 \in 0..n
      OBVIOUS
    <3>2. m # 0 => g[m - 1] = f[m - 1]
      BY <3>1, <2>1
    <3> QED
      BY <3>2, Zenon DEF ReadStep
  <2>5. \A m \in 0..n + 1 : g[m] = ReadStep(buf, addr, g, m)
    <3> TAKE m \in 0..n + 1
    <3>1. m = n + 1 \/ m \in 0..n
      OBVIOUS
    <3>2. g[m] = ReadStep(buf, addr, f, m)
      BY <3>1, <2>1, <2>2
    <3> QED
      BY <3>2, <2>4
  <2>6. [m \in 0..n + 1 |-> g[m]] = [m \in 0..n + 1 |-> ReadStep(buf, addr, g, m)]
    BY <2>5, Zenon
  <2>7. Grows(g, n + 1)
    BY <2>3, <2>6, Zenon DEF Grows
  <2> QED
    BY <2>7
<1>3. k \in T
  <2> HIDE DEF T
  <2> QED
    BY <1>1, <1>2, Induction
<1> QED
  BY <1>3

LEMMA ReadEquation ==
    ASSUME NEW buf, NEW addr, Short(buf, 4) + Short(buf, 6) \in Nat,
           NEW n \in 0..Short(buf, 4) + Short(buf, 6)
    PROVE  ReadUpTo(buf, addr)[n] = ReadStep(buf, addr, ReadUpTo(buf, addr), n)
<1> DEFINE k == Short(buf, 4) + Short(buf, 6)
           F == CHOOSE f : f = [m \in 0..k |-> ReadStep(buf, addr, f, m)]
           h == [m \in 0..k |-> ReadStep(buf, addr, F, m)]
<1>1. ReadUpTo(buf, addr) = F
  BY DEF ReadUpTo, ReadStep
<1>2. F = h
  <2>1. k \in Nat
    OBVIOUS
  <2> HIDE DEF k
  <2> QED
    BY <2>1, ReadingIs
<1>3. h[n] = ReadStep(buf, addr, F, n)
  OBVIOUS
<1> HIDE DEF F, h
<1> QED
  BY <1>1, <1>2, <1>3

\* A record that a message holds: its name is skipped, and its address is taken if it
\* is one of type A.
RecordTypes == [type : {1, 5, 28}, short : BOOLEAN]

LEMMA DataIs ==
    ASSUME NEW type \in {1, 5, 28}, NEW address \in [1..4 -> Octets]
    PROVE  /\ Data(type, address) \in Seq(Octets)
           /\ Len(Data(type, address)) \in {4, 16}
           /\ type = 1 => Data(type, address) = address /\ Len(address) = 4
<1>1. address \in Seq(Octets) /\ Len(address) = 4
  <2>1. address = [n \in 1..4 |-> address[n]] /\ \A n \in 1..4 : address[n] \in Octets
    OBVIOUS
  <2> DEFINE s == [n \in 1..4 |-> address[n]]
  <2>2. s \in Seq(Octets) /\ Len(s) = 4
    BY <2>1
  <2> HIDE DEF s
  <2>3. address = s
    BY <2>1 DEF s
  <2> QED
    BY <2>2, <2>3, Zenon
<1>2. CASE type = 1
  BY <1>1, <1>2 DEF Data
<1>3. CASE type = 5
  <2>1. Data(type, address) = << 1, 99, 192, 12 >>
    BY <1>3 DEF Data, HeaderSize
  <2> QED
    BY <2>1, <1>3 DEF Octets
<1>4. CASE type = 28
  <2> DEFINE s == [n \in 1..16 |-> n]
  <2>1. Data(type, address) = s
    BY <1>4 DEF Data
  <2>2. s \in Seq(Octets) /\ Len(s) = 16
    BY DEF Octets
  <2> HIDE DEF s
  <2> QED
    BY <2>1, <2>2, <1>4
<1> QED
  BY <1>2, <1>3, <1>4

NameOf(short, name) == IF short THEN << 192, HeaderSize >> ELSE EncodeName(name)

LEMMA RecordNameIsRead ==
    ASSUME NEW buf \in Seq(Octets), NEW name \in Seq(Labels), NEW pos \in Nat,
           NEW short \in BOOLEAN, Holds(buf, pos, NameOf(short, name))
    PROVE  DecodeName(buf, pos) = pos + Len(NameOf(short, name))
<1> DEFINE a == NameOf(short, name)
<1>0. Holds(buf, pos, a)
  OBVIOUS
<1>1. CASE ~short
  <2>1. a = EncodeName(name)
    BY <1>1 DEF NameOf
  <2> QED
    BY <2>1, <1>0, NameIsRead
<1>2. CASE short
  <2>1. a = << 192, 12 >>
    BY <1>2 DEF HeaderSize, NameOf
  <2>2. Len(a) = 2 /\ a[1] = 192
    BY <2>1
  <2>3. Len(buf) \in Nat
    OBVIOUS
  <2>4. pos + 2 <= Len(buf) /\ buf[pos + 1] = 192
    <3>1. pos + Len(a) <= Len(buf) /\ \A i \in 1..Len(a) : buf[pos + i] = a[i]
      BY <1>0, Zenon DEF Holds
    <3>2. pos + 2 <= Len(buf) /\ \A i \in 1..2 : buf[pos + i] = a[i]
      BY <3>1, <2>2, Zenon
    <3> QED
      BY <3>2, <2>2
  <2>5. pos \in 0..Len(buf) - 1
    BY <2>3, <2>4
  <2>6. DecodeName(buf, pos) =
              IF buf[pos + 1] = 0 THEN pos + 1
              ELSE IF buf[pos + 1] >= 192 THEN pos + 2
              ELSE IF pos + 1 + buf[pos + 1] < Len(buf) THEN DecodeName(buf, pos + 1 + buf[pos + 1])
              ELSE Len(buf)
    BY <2>5, DecodeEquation
  <2>7. DecodeName(buf, pos) = pos + 2
    BY <2>4, <2>6
  <2> QED
    BY <2>2, <2>7
<1> QED
  BY <1>1, <1>2

LEMMA RecordIs ==
    ASSUME NEW record \in RecordTypes, NEW name \in Seq(Labels),
           NEW address \in [1..4 -> Octets]
    PROVE  \E a, f, g, d, af, afg :
              /\ a = NameOf(record.short, name)
              /\ f = << 0, record.type, 0, 1, 0, 0, 0, 9 >>
              /\ d = Data(record.type, address) /\ g = << 0, Len(d) >>
              /\ a \in Seq(Octets) /\ f \in Seq(Octets) /\ g \in Seq(Octets) /\ d \in Seq(Octets)
              /\ Join(af, a, f) /\ Join(afg, af, g) /\ Join(Record(record, name, address), afg, d)
<1> DEFINE a == NameOf(record.short, name)
           f == << 0, record.type, 0, 1, 0, 0, 0, 9 >>
           d == Data(record.type, address)
           g == << 0, Len(d) >>
           af == a \o f
           afg == af \o g
           R == Record(record, name, address)
<1>1. record.type \in {1, 5, 28} /\ record.short \in BOOLEAN
  BY DEF RecordTypes
<1>2. a \in Seq(Octets)
  <2>1. << 192, HeaderSize >> \in Seq(Octets)
    BY DEF HeaderSize, Octets
  <2> QED
    BY <2>1, <1>1, NamesAreOctets, Zenon DEF NameOf
<1>3. f \in Seq(Octets)
  BY <1>1 DEF Octets
<1>4. d \in Seq(Octets) /\ g \in Seq(Octets)
  <2>1. d \in Seq(Octets) /\ Len(d) \in {4, 16}
    BY <1>1, DataIs
  <2> HIDE DEF d
  <2>2. g \in Seq(Octets)
    BY <2>1 DEF Octets
  <2> QED
    BY <2>1, <2>2
<1>5. R = afg \o d
  BY Zenon DEF Record, NameOf
<1>6. Join(af, a, f) /\ Join(afg, af, g) /\ Join(R, afg, d)
  BY <1>5, Zenon DEF Join
<1>7. a = a /\ f = f /\ d = d /\ g = << 0, Len(d) >>
  OBVIOUS
<1>8. PICK A, F, G, D, AF, AFG : A = a /\ F = f /\ G = g /\ D = d /\ AF = af /\ AFG = afg
  OBVIOUS
<1> QED
  <2> SUFFICES
              /\ A = NameOf(record.short, name)
              /\ F = << 0, record.type, 0, 1, 0, 0, 0, 9 >>
              /\ D = Data(record.type, address) /\ G = << 0, Len(D) >>
              /\ A \in Seq(Octets) /\ F \in Seq(Octets) /\ G \in Seq(Octets) /\ D \in Seq(Octets)
              /\ Join(AF, A, F) /\ Join(AFG, AF, G) /\ Join(Record(record, name, address), AFG, D)
    BY Zenon
  <2> QED
    BY <1>2, <1>3, <1>4, <1>6, <1>8, Zenon

LEMMA AnswerIsRead ==
    ASSUME NEW buf \in Seq(Octets), NEW pos \in Nat, NEW name \in Seq(Labels),
           NEW address \in [1..4 -> Octets],
           NEW record \in RecordTypes, Holds(buf, pos, Record(record, name, address)), NEW addr
    PROVE  AfterAnswer(buf, [pos |-> pos, ip |-> addr]) =
              [pos |-> pos + Len(Record(record, name, address)),
               ip  |-> IF record.type = 1 THEN address ELSE addr]
<1> DEFINE R == Record(record, name, address)
<1>1. PICK a, f, g, d, af, afg :
              /\ a = NameOf(record.short, name)
              /\ f = << 0, record.type, 0, 1, 0, 0, 0, 9 >>
              /\ d = Data(record.type, address) /\ g = << 0, Len(d) >>
              /\ a \in Seq(Octets) /\ f \in Seq(Octets) /\ g \in Seq(Octets) /\ d \in Seq(Octets)
              /\ Join(af, a, f) /\ Join(afg, af, g) /\ Join(R, afg, d)
  BY RecordIs
<1>2. Holds(buf, pos, R)
  OBVIOUS
<1>3. record.type \in {1, 5, 28} /\ record.short \in BOOLEAN
  BY DEF RecordTypes
<1> DEFINE type == record.type
<1>4. f[2] = type /\ f[1] = 0 /\ Len(f) = 8
  BY <1>1
<1>5. g[1] = 0 /\ g[2] = Len(d) /\ Len(g) = 2
  BY <1>1
<1>6. Len(d) \in {4, 16} /\ (type = 1 => d = address /\ Len(d) = 4)
  <2>1. /\ Len(Data(type, address)) \in {4, 16}
        /\ type = 1 => Data(type, address) = address /\ Len(address) = 4
    BY <1>3, DataIs
  <2> QED
    BY <2>1, <1>1, Zenon
<1>7. a \in Seq(Octets) /\ f \in Seq(Octets) /\ Join(af, a, f)
  BY <1>1
<1>8. af \in Seq(Octets) /\ Len(af) = Len(a) + Len(f) /\ Len(a) \in Nat
  BY <1>7, Joined
<1>9. g \in Seq(Octets) /\ Join(afg, af, g)
  BY <1>1
<1>10. afg \in Seq(Octets) /\ Len(afg) = Len(af) + Len(g)
  BY <1>8, <1>9, Joined
<1>11. d \in Seq(Octets) /\ Join(R, afg, d)
  BY <1>1
<1> HIDE DEF R
<1>12. Len(R) = Len(afg) + Len(d) /\ Holds(buf, pos, afg) /\ Holds(buf, pos + Len(afg), d)
  BY <1>2, <1>10, <1>11, HoldsTwo
<1>13. Holds(buf, pos, af) /\ Holds(buf, pos + Len(af), g)
  BY <1>12, <1>8, <1>9, HoldsTwo
<1>14. Holds(buf, pos, a) /\ Holds(buf, pos + Len(a), f)
  BY <1>13, <1>7, HoldsTwo
<1> DEFINE p == pos + Len(a)
<1>15. DecodeName(buf, pos) = p
  <2>1. a = NameOf(record.short, name)
    BY <1>1
  <2> QED
    BY <2>1, <1>3, <1>14, RecordNameIsRead
<1>16. /\ p \in Nat /\ pos + Len(af) = p + 8 /\ pos + Len(afg) = p + 10
       /\ pos + Len(R) = p + 10 + Len(d)
  BY <1>4, <1>5, <1>6, <1>8, <1>10, <1>12
<1> HIDE DEF p
<1>17. Short(buf, p) = type
  <2>1. Holds(buf, p, f)
    BY <1>14 DEF p
  <2>2. \A i \in 1..8 : buf[p + i] = f[i]
    BY <2>1, <1>4 DEF Holds
  <2>3. buf[p + 1] = 0 /\ buf[p + 2] = type
    BY <2>2, <1>4
  <2> QED
    BY <2>3, <1>3 DEF Short
<1>18. Short(buf, p + 8) = Len(d)
  <2>1. Holds(buf, p + 8, g)
    BY <1>13, <1>16
  <2>2. \A i \in 1..2 : buf[(p + 8) + i] = g[i]
    BY <2>1, <1>5 DEF Holds
  <2>3. buf[(p + 8) + 1] = 0 /\ buf[(p + 8) + 2] = Len(d)
    BY <2>2, <1>5
  <2> QED
    BY <2>3, <1>6 DEF Short
<1>19. type = 1 => SubSeq(buf, p + 11, p + 14) = address
  <2> SUFFICES ASSUME type = 1 PROVE SubSeq(buf, p + 11, p + 14) = address
    OBVIOUS
  <2>1. Holds(buf, p + 10, d)
    BY <1>12, <1>16
  <2>2. Len(d) = 4 /\ d = address
    BY <1>6
  <2>3. \A i \in 1..4 : buf[(p + 10) + i] = d[i]
    BY <2>1, <2>2 DEF Holds
  <2>4. SubSeq(buf, p + 11, p + 14) = [i \in 1..4 |-> buf[(p + 10) + i]]
    BY <1>16
  <2>5. [i \in 1..4 |-> buf[(p + 10) + i]] = [i \in 1..4 |-> d[i]]
    BY <2>3, Zenon
  <2>6. address = [i \in 1..4 |-> address[i]]
    OBVIOUS
  <2> QED
    BY <2>2, <2>4, <2>5, <2>6
<1>20. AfterAnswer(buf, [pos |-> pos, ip |-> addr]) =
          [pos |-> p + 10 + Short(buf, p + 8),
           ip  |-> IF Short(buf, p) = 1 THEN SubSeq(buf, p + 11, p + 14) ELSE addr]
  BY <1>15 DEF AfterAnswer
<1>21. (IF Short(buf, p) = 1 THEN SubSeq(buf, p + 11, p + 14) ELSE addr)
       = IF type = 1 THEN address ELSE addr
  BY <1>17, <1>19
<1>22. p + 10 + Short(buf, p + 8) = pos + Len(R)
  BY <1>16, <1>18
<1> QED
  BY <1>20, <1>21, <1>22, Zenon DEF R

LEMMA RecordsAreOctets ==
    ASSUME NEW name \in Seq(Labels), NEW address \in [1..4 -> Octets],
           NEW record \in RecordTypes
    PROVE  Record(record, name, address) \in Seq(Octets)
<1> DEFINE R == Record(record, name, address)
<1>1. PICK a, f, g, d, af, afg :
              /\ a \in Seq(Octets) /\ f \in Seq(Octets) /\ g \in Seq(Octets) /\ d \in Seq(Octets)
              /\ Join(af, a, f) /\ Join(afg, af, g) /\ Join(R, afg, d)
  BY RecordIs
<1> HIDE DEF R
<1>2. af \in Seq(Octets)
  BY <1>1, Joined
<1>3. afg \in Seq(Octets)
  BY <1>1, <1>2, Joined
<1>4. R \in Seq(Octets)
  BY <1>1, <1>3, Joined
<1> QED
  BY <1>4 DEF R

\* The records of an answer, and whether one of the first n is of type A
Records(name, reply, address) ==
    [n \in DOMAIN reply.records |-> Record(reply.records[n], name, address)]
AddressUpTo(reply, n) == \E m \in 1..n : reply.records[m].type = 1

LEMMA RecordsAre ==
    ASSUME NEW name \in Seq(Labels), NEW reply \in AnswerTypes, NEW address \in [1..4 -> Octets]
    PROVE  /\ Len(reply.records) \in Nat /\ reply.rcode \in 0..15
           /\ DOMAIN reply.records = 1..Len(reply.records)
           /\ \A n \in 1..Len(reply.records) :
                 /\ reply.records[n] \in RecordTypes
                 /\ Records(name, reply, address)[n] = Record(reply.records[n], name, address)
           /\ Records(name, reply, address) \in Seq(Seq(Octets))
           /\ Len(Records(name, reply, address)) = Len(reply.records)
<1> DEFINE rs == reply.records
           k  == Len(rs)
           s  == [n \in 1..k |-> Record(rs[n], name, address)]
<1>1. rs \in Seq(RecordTypes) /\ reply.rcode \in 0..15
  BY DEF AnswerTypes, RecordTypes
<1>2. k \in Nat /\ DOMAIN rs = 1..k /\ \A n \in 1..k : rs[n] \in RecordTypes
  BY <1>1
<1>3. Records(name, reply, address) = s
  BY <1>2 DEF Records
<1>4. \A n \in 1..k : Record(rs[n], name, address) \in Seq(Octets)
  BY <1>2, RecordsAreOctets
<1>5. s \in Seq(Seq(Octets)) /\ Len(s) = k /\ \A n \in 1..k : s[n] = Record(rs[n], name, address)
  <2> HIDE DEF k
  <2> QED
    BY <1>2, <1>4
<1> HIDE DEF s
<1> QED
  BY <1>1, <1>2, <1>3, <1>5

LEMMA InBytes ==
    /\ \A n \in Nat : n <= 255 => n \in 0..255
    /\ \A r \in 0..15 : 128 + r \in 0..255 /\ (128 + r) % 16 = r
  OBVIOUS

\* The pieces of a message
LEMMA MessageIs ==
    ASSUME NEW i \in Octets, NEW name \in Seq(Labels), NEW reply \in AnswerTypes,
           Len(reply.records) <= 255, NEW address \in [1..4 -> Octets]
    PROVE  \E id, h, e, t, q, c, idh, idhq :
              /\ id = << 0, i >>
              /\ h = << 129, 128 + reply.rcode, 0, 1, 0, Len(reply.records), 0, 0, 0, 0 >>
              /\ e = EncodeName(name) /\ t = << 0, 1, 0, 1 >>
              /\ c = Concat(Records(name, reply, address))
              /\ id \in Seq(Octets) /\ h \in Seq(Octets) /\ e \in Seq(Octets) /\ t \in Seq(Octets)
              /\ c \in Seq(Octets)
              /\ Join(q, e, t) /\ Join(idh, id, h) /\ Join(idhq, idh, q)
              /\ Join(Message(<< 0, i >>, name, reply, address), idhq, c)
<1> DEFINE id == << 0, i >>
           h  == << 129, 128 + reply.rcode, 0, 1, 0, Len(reply.records), 0, 0, 0, 0 >>
           e  == EncodeName(name)
           t  == << 0, 1, 0, 1 >>
           c  == Concat(Records(name, reply, address))
           q  == e \o t
           idh  == id \o h
           idhq == idh \o q
           M == Message(<< 0, i >>, name, reply, address)
<1>1. /\ Len(reply.records) \in 0..255 /\ reply.rcode \in 0..15
      /\ Records(name, reply, address) \in Seq(Seq(Octets))
  <2>1. /\ Len(reply.records) \in Nat /\ reply.rcode \in 0..15
        /\ Records(name, reply, address) \in Seq(Seq(Octets))
    BY RecordsAre
  <2>2. Len(reply.records) \in 0..255
    BY <2>1, InBytes, Zenon
  <2> QED
    BY <2>1, <2>2
<1>2. id \in Seq(Octets) /\ t \in Seq(Octets)
  BY DEF Octets
<1>3. h \in Seq(Octets)
  <2> DEFINE n == Len(reply.records)
             r == 128 + reply.rcode
  <2>1. n \in 0..255 /\ r \in 0..255
    <3>1. reply.rcode \in 0..15
      BY <1>1
    <3>2. r \in 0..255
      BY <3>1, InBytes, Zenon
    <3> QED
      BY <1>1, <3>2
  <2> HIDE DEF n, r
  <2>2. << 129, r, 0, 1, 0, n, 0, 0, 0, 0 >> \in Seq(Octets)
    BY <2>1 DEF Octets
  <2> QED
    BY <2>2 DEF n, r
<1>4. e \in Seq(Octets)
  BY NamesAreOctets
<1>5. c \in Seq(Octets)
  <2> DEFINE s == Records(name, reply, address)
  <2>1. \A n \in 0..Len(s) : Firsts(s)[n] \in Seq(Octets)
    BY <1>1, FirstsAreSequences
  <2>2. Len(s) \in 0..Len(s)
    BY <1>1
  <2> QED
    BY <2>1, <2>2, Zenon DEF Concat
<1>6. M = idhq \o c
  BY Zenon DEF Message, Question, Records
<1>7. Join(q, e, t) /\ Join(idh, id, h) /\ Join(idhq, idh, q) /\ Join(M, idhq, c)
  BY <1>6, Zenon DEF Join
<1>8. PICK ID, H, E, T, Q, C, IDH, IDHQ :
         ID = id /\ H = h /\ E = e /\ T = t /\ Q = q /\ C = c /\ IDH = idh /\ IDHQ = idhq
  OBVIOUS
<1> QED
  <2> SUFFICES
              /\ ID = << 0, i >>
              /\ H = << 129, 128 + reply.rcode, 0, 1, 0, Len(reply.records), 0, 0, 0, 0 >>
              /\ E = EncodeName(name) /\ T = << 0, 1, 0, 1 >>
              /\ C = Concat(Records(name, reply, address))
              /\ ID \in Seq(Octets) /\ H \in Seq(Octets) /\ E \in Seq(Octets) /\ T \in Seq(Octets)
              /\ C \in Seq(Octets)
              /\ Join(Q, E, T) /\ Join(IDH, ID, H) /\ Join(IDHQ, IDH, Q)
              /\ Join(Message(<< 0, i >>, name, reply, address), IDHQ, C)
    BY Zenon
  <2> QED
    BY <1>2, <1>3, <1>4, <1>5, <1>7, <1>8, Zenon

LEMMA AddressSoFar ==
    ASSUME NEW reply, NEW n \in Nat
    PROVE  /\ ~AddressUpTo(reply, 0)
           /\ AddressUpTo(reply, n + 1) <=> AddressUpTo(reply, n) \/ reply.records[n + 1].type = 1
<1>1. 1..n + 1 = (1..n) \union {n + 1} /\ 1..0 = {}
  OBVIOUS
<1> QED
  BY <1>1 DEF AddressUpTo

\* The records of an answer are read one after the other.
LEMMA RecordsAreRead ==
    ASSUME NEW buf \in Seq(Octets), NEW start \in Nat, NEW name \in Seq(Labels),
           NEW reply \in AnswerTypes, NEW address \in [1..4 -> Octets], NEW addr,
           Short(buf, 4) = 1, Short(buf, 6) = Len(reply.records),
           ReadUpTo(buf, addr)[1] = [pos |-> start, ip |-> addr],
           Holds(buf, start, Concat(Records(name, reply, address)))
    PROVE  ReadUpTo(buf, addr)[1 + Len(reply.records)].ip
              = IF AddressUpTo(reply, Len(reply.records)) THEN address ELSE addr
<1> DEFINE s == Records(name, reply, address)
           F == Firsts(s)
           k == Len(reply.records)
           G == ReadUpTo(buf, addr)
           ReadSoFar(n) == G[n + 1] = [pos |-> start + Len(F[n]),
                                   ip  |-> IF AddressUpTo(reply, n) THEN address ELSE addr]
           T == {n \in Nat : n <= k => ReadSoFar(n)}
<1>1. /\ k \in Nat /\ s \in Seq(Seq(Octets)) /\ Len(s) = k
      /\ \A n \in 1..k : reply.records[n] \in RecordTypes /\ s[n] = Record(reply.records[n], name, address)
  BY RecordsAre
<1>2. \A n \in 1..k : /\ Len(F[n - 1]) \in Nat /\ Len(F[n]) = Len(F[n - 1]) + Len(s[n])
                      /\ Holds(buf, start + Len(F[n - 1]), s[n])
  <2> TAKE n \in 1..k
  <2>1. Holds(buf, start, Concat(s))
    OBVIOUS
  <2>2. n \in 1..Len(s) /\ s \in Seq(Seq(Octets))
    BY <1>1
  <2> HIDE DEF s, k
  <2> QED
    BY <2>1, <2>2, HoldsPiece
<1>3. Len(F[0]) = 0
  <2>1. F[0] = <<>>
    BY <1>1, FirstsEquation
  <2> QED
    BY <2>1
<1>4. \A n \in 0..1 + k : G[n] = ReadStep(buf, addr, G, n)
  <2>1. Short(buf, 4) + Short(buf, 6) = 1 + k /\ 1 + k \in Nat
    BY <1>1
  <2> HIDE DEF k
  <2> QED
    BY <2>1, ReadEquation
<1>5. G[1] = [pos |-> start, ip |-> addr]
  OBVIOUS
<1> HIDE DEF s, F, k, G
<1>6. 0 \in T
  <2>1. start + Len(F[0]) = start /\ 0 + 1 = 1
    BY <1>3
  <2>2. ~AddressUpTo(reply, 0)
    BY AddressSoFar
  <2> QED
    BY <2>1, <2>2, <1>5
<1>7. \A n \in Nat : n \in T => n + 1 \in T
  <2> SUFFICES ASSUME NEW n \in Nat, n <= k => ReadSoFar(n), n + 1 <= k
               PROVE  ReadSoFar(n + 1)
    <3> HIDE DEF ReadSoFar
    <3> QED
      OBVIOUS
  <2>1. n + 1 \in 1..k /\ n <= k /\ (n + 1) - 1 = n /\ (n + 1) + 1 \in 0..1 + k
        /\ ((n + 1) + 1) - 1 = n + 1 /\ (n + 1) + 1 # 0 /\ ~((n + 1) + 1 <= 1)
    BY <1>1
  <2>2. ReadSoFar(n)
    BY <2>1
  <2> DEFINE m == n + 1
             record == reply.records[m]
             p == start + Len(F[n])
             was == IF AddressUpTo(reply, n) THEN address ELSE addr
  <2>3. /\ Len(F[n]) \in Nat /\ Len(F[m]) = Len(F[n]) + Len(s[m])
        /\ Holds(buf, p, s[m]) /\ record \in RecordTypes /\ s[m] = Record(record, name, address)
    BY <2>1, <1>1, <1>2
  <2>4. G[m + 1] = AfterAnswer(buf, G[m])
    <3>1. G[m + 1] = ReadStep(buf, addr, G, m + 1)
      BY <2>1, <1>4
    <3> QED
      BY <3>1, <2>1 DEF ReadStep
  <2>5. G[m] = [pos |-> p, ip |-> was]
    BY <2>2
  <2>6. p \in Nat
    BY <2>3
  <2> HIDE DEF p, was, record
  <2>7. AfterAnswer(buf, [pos |-> p, ip |-> was]) =
           [pos |-> p + Len(s[m]), ip |-> IF record.type = 1 THEN address ELSE was]
    <3>1. Holds(buf, p, Record(record, name, address)) /\ record \in RecordTypes
      BY <2>3, Zenon
    <3>2. AfterAnswer(buf, [pos |-> p, ip |-> was]) =
             [pos |-> p + Len(Record(record, name, address)),
              ip |-> IF record.type = 1 THEN address ELSE was]
      BY <3>1, <2>6, AnswerIsRead
    <3> QED
      BY <3>2, <2>3, Zenon
  <2>8. p + Len(s[m]) = start + Len(F[m])
    <3> DEFINE u == Len(F[n])
               v == Len(F[m])
               w == Len(s[m])
    <3>1. u \in Nat /\ v = u + w /\ p = start + u
      BY <2>3 DEF p
    <3>2. w \in Nat
      BY <2>1, <1>1
    <3> HIDE DEF u, v, w
    <3>3. p + w = start + v
      BY <3>1, <3>2
    <3> QED
      BY <3>3 DEF u, v, w
  <2>9. (IF record.type = 1 THEN address ELSE was) = IF AddressUpTo(reply, m) THEN address ELSE addr
    <3>1. AddressUpTo(reply, m) <=> AddressUpTo(reply, n) \/ record.type = 1
      BY AddressSoFar DEF record
    <3> QED
      BY <3>1 DEF was
  <2>10. G[m + 1] = [pos |-> start + Len(F[m]), ip |-> IF AddressUpTo(reply, m) THEN address ELSE addr]
    BY <2>4, <2>5, <2>7, <2>8, <2>9, Zenon
  <2> QED
    BY <2>10
<1>8. \A n \in Nat : n \in T
  <2> HIDE DEF T
  <2> QED
    BY <1>6, <1>7, Induction
<1>9. ReadSoFar(k)
  BY <1>1, <1>8
<1>10. k + 1 = 1 + k
  BY <1>1
<1> QED
  BY <1>9, <1>10 DEF G, k

LEMMA ResponseIs ==
    ASSUME NEW i \in Octets, NEW name \in Seq(Labels), NEW reply \in AnswerTypes,
           Len(reply.records) <= 255, NEW address \in [1..4 -> Octets], NEW addr
    PROVE  LET M == Message(<< 0, i >>, name, reply, address)
           IN  /\ M \in Seq(Octets)
               /\ SubSeq(M, 1, 2) = << 0, i >>
               /\ response(M, addr).rcode = reply.rcode
               /\ response(M, addr).ip = IF reply.rcode = 0 /\ HasAddress(reply) THEN address ELSE addr
<1> DEFINE M == Message(<< 0, i >>, name, reply, address)
<1>1. PICK id, h, e, t, q, c, idh, idhq :
              /\ id = << 0, i >>
              /\ h = << 129, 128 + reply.rcode, 0, 1, 0, Len(reply.records), 0, 0, 0, 0 >>
              /\ e = EncodeName(name) /\ t = << 0, 1, 0, 1 >>
              /\ c = Concat(Records(name, reply, address))
              /\ id \in Seq(Octets) /\ h \in Seq(Octets) /\ e \in Seq(Octets) /\ t \in Seq(Octets)
              /\ c \in Seq(Octets)
              /\ Join(q, e, t) /\ Join(idh, id, h) /\ Join(idhq, idh, q) /\ Join(M, idhq, c)
  BY MessageIs
<1>2. /\ Len(reply.records) \in Nat /\ reply.rcode \in 0..15
      /\ DOMAIN reply.records = 1..Len(reply.records)
  BY RecordsAre
<1> DEFINE n == Len(reply.records)
           r == reply.rcode
<1>3. Len(id) = 2 /\ id[1] = 0 /\ id[2] = i
  BY <1>1
<1>4. /\ Len(h) = 10 /\ h[2] = 128 + r /\ h[3] = 0 /\ h[4] = 1 /\ h[5] = 0 /\ h[6] = n
  BY <1>1
<1>5. Len(t) = 4
  BY <1>1
<1> HIDE DEF M, n, r
<1>6. id \in Seq(Octets) /\ h \in Seq(Octets) /\ e \in Seq(Octets) /\ t \in Seq(Octets) /\ c \in Seq(Octets)
  BY <1>1
<1>7. Join(q, e, t) /\ Join(idh, id, h) /\ Join(idhq, idh, q) /\ Join(M, idhq, c)
  BY <1>1
<1>8. q \in Seq(Octets) /\ Len(q) = Len(e) + Len(t)
  BY <1>6, <1>7, Joined
<1>9. idh \in Seq(Octets) /\ Len(idh) = Len(id) + Len(h)
  BY <1>6, <1>7, Joined
<1>10. idhq \in Seq(Octets) /\ Len(idhq) = Len(idh) + Len(q)
  BY <1>7, <1>8, <1>9, Joined
<1>11. M \in Seq(Octets)
  BY <1>6, <1>7, <1>10, Joined
<1>12. Holds(M, 0, M)
  <2>1. Len(M) \in Nat /\ \A j \in 1..Len(M) : 0 + j = j
    BY <1>11
  <2>2. 0 + Len(M) <= Len(M)
    BY <2>1
  <2> QED
    BY <2>1, <2>2 DEF Holds
<1>13. Holds(M, 0, idhq) /\ Holds(M, 0 + Len(idhq), c)
  BY <1>6, <1>7, <1>10, <1>11, <1>12, HoldsTwo
<1>14. Holds(M, 0, idh) /\ Holds(M, 0 + Len(idh), q)
  BY <1>7, <1>8, <1>9, <1>11, <1>13, HoldsTwo
<1>15. Holds(M, 0, id) /\ Holds(M, 0 + Len(id), h)
  BY <1>6, <1>7, <1>11, <1>14, HoldsTwo
<1>16. /\ 0 + Len(id) = 2 /\ 0 + Len(idh) = 12 /\ Len(e) \in Nat /\ Len(q) = Len(e) + 4
       /\ 0 + Len(idhq) = 12 + Len(q)
  <2>1. Len(idh) = 12
    BY <1>3, <1>4, <1>9
  <2>2. Len(e) \in Nat
    BY <1>6
  <2>3. Len(q) = Len(e) + 4
    BY <1>5, <1>8
  <2>4. Len(idhq) = 12 + Len(q)
    BY <2>1, <1>10
  <2> QED
    BY <2>1, <2>2, <2>3, <2>4, <1>3
<1>17. M[1] = 0 /\ M[2] = i
  <2>1. \A j \in 1..2 : M[0 + j] = id[j]
    BY <1>3, <1>15 DEF Holds
  <2> QED
    BY <2>1, <1>3
<1>18. M[4] = 128 + r /\ M[5] = 0 /\ M[6] = 1 /\ M[7] = 0 /\ M[8] = n
  <2>1. Holds(M, 2, h)
    BY <1>15, <1>16
  <2>2. \A j \in 1..10 : M[2 + j] = h[j]
    BY <2>1, <1>4 DEF Holds
  <2>3. /\ M[2 + 2] = h[2] /\ M[2 + 3] = h[3] /\ M[2 + 4] = h[4] /\ M[2 + 5] = h[5]
        /\ M[2 + 6] = h[6]
    BY <2>2
  <2>4. 2 + 2 = 4 /\ 2 + 3 = 5 /\ 2 + 4 = 6 /\ 2 + 5 = 7 /\ 2 + 6 = 8
    OBVIOUS
  <2> QED
    BY <2>3, <2>4, <1>4
<1>19. Short(M, 4) = 1 /\ Short(M, 6) = n
  <2>1. n \in Nat
    BY <1>2 DEF n
  <2>2. M[4 + 1] = 0 /\ M[4 + 2] = 1 /\ M[6 + 1] = 0 /\ M[6 + 2] = n
    BY <1>18
  <2> QED
    BY <2>1, <2>2 DEF Short
<1>20. SubSeq(M, 1, 2) = << 0, i >>
  <2>1. Len(M) \in Nat /\ 2 <= Len(M)
    <3>1. 0 + Len(id) <= Len(M)
      BY <1>15 DEF Holds
    <3> QED
      BY <3>1, <1>3, <1>11
  <2>2. SubSeq(M, 1, 2) = [j \in 1..2 |-> M[j]]
    BY <2>1, <1>11
  <2>3. id = [j \in 1..2 |-> id[j]]
    BY <1>1
  <2>4. \A j \in 1..2 : M[j] = id[j]
    BY <1>3, <1>17
  <2> QED
    BY <2>2, <2>3, <2>4, <1>1
<1>21. M[4] % 16 = r
  BY <1>2, <1>18, InBytes DEF r
<1>22. DecodeName(M, 12) = 12 + Len(e)
  <2>1. Holds(M, 12, q)
    BY <1>14, <1>16
  <2>2. Holds(M, 12, e)
    BY <2>1, <1>6, <1>7, <1>11, HoldsTwo
  <2>3. Holds(M, 12, EncodeName(name))
    BY <2>2, <1>1
  <2>4. DecodeName(M, 12) = 12 + Len(EncodeName(name))
    BY <2>3, <1>11, NameIsRead
  <2> QED
    BY <2>4, <1>1
<1> DEFINE G == ReadUpTo(M, addr)
           start == 12 + Len(q)
<1>23. G[1] = [pos |-> start, ip |-> addr]
  <2>1. n \in Nat /\ 0 \in 0..1 + n /\ 1 \in 0..1 + n /\ 1 + n \in Nat
    BY <1>2 DEF n
  <2>2. G[0] = ReadStep(M, addr, G, 0) /\ G[1] = ReadStep(M, addr, G, 1)
    BY <2>1, <1>19, ReadEquation
  <2> HIDE DEF G
  <2>3. G[0] = [pos |-> 12, ip |-> addr]
    BY <2>2 DEF ReadStep, HeaderSize
  <2>4. G[1] = AfterQuestion(M, G[0])
    <3>1. 1 - 1 = 0 /\ 1 # 0 /\ 1 <= Short(M, 4)
      BY <1>19
    <3> QED
      BY <2>2, <3>1 DEF ReadStep
  <2>5. G[1] = [pos |-> DecodeName(M, 12) + 4, ip |-> addr]
    BY <2>3, <2>4 DEF AfterQuestion
  <2>6. DecodeName(M, 12) + 4 = start
    BY <1>16, <1>22
  <2> QED
    BY <2>5, <2>6
<1>24. G[1 + n].ip = IF AddressUpTo(reply, n) THEN address ELSE addr
  <2>1. Holds(M, start, Concat(Records(name, reply, address)))
    BY <1>1, <1>13, <1>16
  <2>2. start \in Nat
    BY <1>16
  <2> HIDE DEF start
  <2> QED
    BY <2>1, <2>2, <1>11, <1>19, <1>23, RecordsAreRead DEF n
<1>25. AddressUpTo(reply, n) <=> HasAddress(reply)
  BY <1>2 DEF AddressUpTo, HasAddress, n
<1>26. response(M, addr) = [rcode |-> r, ip |-> IF r = 0 THEN G[1 + n].ip ELSE addr]
  BY <1>19, <1>21 DEF response
<1> HIDE DEF G
<1>27. /\ response(M, addr).rcode = r
       /\ response(M, addr).ip = IF r = 0 /\ HasAddress(reply) THEN address ELSE addr
  BY <1>24, <1>25, <1>26
<1> QED
  BY <1>11, <1>20, <1>27 DEF M, r

-----------------------------------------------------------------------------
(* Lookups *)

\* Of the queries that may still be answered, those with the id and port in use are for
\* the name that is looked up, unless rand() repeated itself.
Asked ==
    m_state # "START" /\ ~coincided =>
        \A q \in queries : q.id = m_id /\ q.port = port => q.name = m_hostname

\* What is at the socket answers such a query, or has another id.
IsAnswer(d) ==
    \E id \in Ids, name \in Names :
       /\ d.message = Message(<< 0, id >>, name, d.reply, Address[name])
       /\ id = m_id /\ ~coincided => name = m_hostname
Arrived == \A n \in 1..Len(inbox) : IsAnswer(inbox[n])

\* What is so in each turn
Turning ==
    /\ turn = "idle" \/ m_state = "START" => inbox = <<>>
    /\ turn # "callback" => waited = 0
    /\ turn = "idle" => m_state # "PROCESSING"
    /\ turn = "poll" => m_state \in {"START", "PROCESSING"}
    /\ turn = "callback" => m_state \in {"PROCESSING", "ERROR"}
    /\ turn # "idle" => taken = NoAnswer /\ ip = NoAddr

\* The time is that of the queries given up and of the current one.
Timed ==
    /\ m_state = "START" /\ turn # "idle" => m_interval = 0 /\ time = 0
    /\ m_state = "PROCESSING" =>
          /\ m_interval <= Interval + (IF turn = "callback" THEN waited ELSE LongestWait)
          /\ \/ m_retry = 0 /\ time = m_interval
             \/ /\ m_retry = 1
                /\ time > Interval + m_interval
                /\ time <= Interval + LongestWait + m_interval
    /\ m_state = "ERROR" =>
          /\ m_retry = 2
          /\ time > Interval + Interval
          /\ turn = "callback" =>
                time <= Interval + LongestWait + Interval + LongestWait + waited

QueryTypes == [id : Ids, port : Ports, name : Names, copies : 1..MaxCopies]

LookupIInv ==
    /\ DNSTypeOK /\ queries \subseteq QueryTypes
    /\ Asked /\ Arrived /\ Turning /\ Timed
    /\ AddressIsRight /\ AnswerDecides /\ LookupIsShort

LEMMA DNSConstants ==
    /\ \A name \in Names : name \in Seq(Labels) /\ Address[name] \in [1..4 -> Octets]
    /\ \A id \in Ids : id \in Octets
    /\ \A reply \in Replies : reply \in AnswerTypes /\ Len(reply.records) <= 255 /\ reply.rcode \in 0..15
    /\ Interval \in Nat /\ ReceiveTime \in Nat
    /\ LongestWait = ReceiveTime + 1 /\ LongestWait \in Nat
    /\ LongestLookup = Interval + LongestWait + Interval + LongestWait + LongestWait
    /\ MaxLookups \in Nat /\ MaxCopies \in Nat /\ MaxInbox \in Nat
    /\ MaxLookups # 0 /\ MaxCopies # 0
    /\ NoAnswer \notin Replies
<1>1. \A name \in Names : name \in Seq(Labels) /\ Address[name] \in [1..4 -> Octets]
  BY DNSAssumption DEF Octets
<1>2. \A id \in Ids : id \in Octets
  BY DNSAssumption DEF Octets
<1>3. \A reply \in Replies : reply \in AnswerTypes /\ Len(reply.records) <= 255 /\ reply.rcode \in 0..15
  BY DNSAssumption DEF AnswerTypes
<1>4. Interval \in Nat /\ ReceiveTime \in Nat
  BY DNSAssumption
<1>5. LongestWait = ReceiveTime + 1 /\ LongestWait \in Nat
  BY <1>4 DEF LongestWait
<1>6. LongestLookup = Interval + LongestWait + Interval + LongestWait + LongestWait
  BY <1>4, <1>5 DEF LongestLookup, Tries
<1>7. /\ MaxLookups \in Nat /\ MaxCopies \in Nat /\ MaxInbox \in Nat
      /\ MaxLookups # 0 /\ MaxCopies # 0
  BY DNSAssumption
<1>8. NoAnswer \notin Replies
  <2>1. ~(-1 \in 0..15)
    OBVIOUS
  <2>2. NoAnswer.rcode = -1
    BY DEF NoAnswer
  <2> QED
    BY <1>3, <2>1, <2>2
<1> QED
  BY <1>1, <1>2, <1>3, <1>4, <1>5, <1>6, <1>7, <1>8

\* What callback() makes of an answer
LEMMA AnswerIs ==
    ASSUME NEW d, d.reply \in Replies, IsAnswer(d), NEW addr
    PROVE  /\ d.message \in Seq(0..255)
           /\ response(d.message, addr).rcode = d.reply.rcode
           /\ ~(d.reply.rcode = 0 /\ HasAddress(d.reply)) => response(d.message, addr).ip = addr
           /\ d.reply.rcode = 0 /\ HasAddress(d.reply) =>
                 \E name \in Names : response(d.message, addr).ip = Address[name]
           /\ SubSeq(d.message, 1, 2) = << 0, m_id >> /\ ~coincided
              /\ d.reply.rcode = 0 /\ HasAddress(d.reply) =>
                 response(d.message, addr).ip = Address[m_hostname]
<1>1. PICK id \in Ids, name \in Names :
         /\ d.message = Message(<< 0, id >>, name, d.reply, Address[name])
         /\ id = m_id /\ ~coincided => name = m_hostname
  BY DEF IsAnswer
<1> DEFINE M == Message(<< 0, id >>, name, d.reply, Address[name])
<1>2. /\ M \in Seq(Octets)
      /\ SubSeq(M, 1, 2) = << 0, id >>
      /\ response(M, addr).rcode = d.reply.rcode
      /\ response(M, addr).ip =
            IF d.reply.rcode = 0 /\ HasAddress(d.reply) THEN Address[name] ELSE addr
  <2>1. /\ id \in Octets /\ name \in Seq(Labels) /\ d.reply \in AnswerTypes
        /\ Len(d.reply.records) <= 255 /\ Address[name] \in [1..4 -> Octets]
    BY DNSConstants
  <2> DEFINE reply == d.reply
             address == Address[name]
  <2> HIDE DEF reply, address
  <2>2. /\ id \in Octets /\ name \in Seq(Labels) /\ reply \in AnswerTypes
        /\ Len(reply.records) <= 255 /\ address \in [1..4 -> Octets]
    BY <2>1 DEF reply, address
  <2>3. LET N == Message(<< 0, id >>, name, reply, address)
        IN  /\ N \in Seq(Octets)
            /\ SubSeq(N, 1, 2) = << 0, id >>
            /\ response(N, addr).rcode = reply.rcode
            /\ response(N, addr).ip = IF reply.rcode = 0 /\ HasAddress(reply) THEN address ELSE addr
    BY <2>2, ResponseIs
  <2> QED
    BY <2>3 DEF reply, address
<1>3. d.message = M
  BY <1>1
<1> HIDE DEF M
<1>4. << 0, id >> = << 0, m_id >> => id = m_id
  OBVIOUS
<1>5. d.message \in Seq(0..255)
  BY <1>2, <1>3 DEF Octets
<1> QED
  BY <1>1, <1>2, <1>3, <1>4, <1>5

LEMMA LookupStarts == DNSInit => LookupIInv
<1> SUFFICES ASSUME DNSInit PROVE LookupIInv
  OBVIOUS
<1>1. DNSTypeOK
  <2>1. ip \in Seq(0..255) /\ Len(ip) \in {0, 4}
    BY DEF DNSInit, NoAddr
  <2>2. inbox \in Seq([message : Seq(0..255), reply : Replies])
    BY DEF DNSInit
  <2>3. /\ turn = "idle" /\ m_state = "START" /\ m_hostname \in Names /\ m_id \in Ids
        /\ port \in Ports /\ m_retry = 0 /\ coincided = FALSE /\ taken = NoAnswer /\ queries = {}
        /\ m_interval = 0 /\ waited = 0 /\ time = 0 /\ lookups = 0
    BY DEF DNSInit
  <2>4. m_interval \in Nat /\ waited \in 0..LongestWait /\ time \in Nat /\ lookups \in 0..MaxLookups
        /\ m_retry \in 0..Tries
    BY <2>3, DNSConstants DEF Tries
  <2> QED
    BY <2>1, <2>2, <2>3, <2>4, Zenon DEF DNSTypeOK, States
<1>2. queries \subseteq QueryTypes /\ Asked /\ Turning /\ Timed
  BY DEF DNSInit, Asked, Turning, Timed
<1>3. Arrived
  BY DEF DNSInit, Arrived
<1>4. AddressIsRight /\ AnswerDecides
  BY DEF DNSInit, AddressIsRight, AnswerDecides, Found
<1>5. LookupIsShort
  BY DNSConstants DEF DNSInit, LookupIsShort
<1> QED
  BY <1>1, <1>2, <1>3, <1>4, <1>5 DEF LookupIInv

\* A lookup begins.
LEMMA LookupKeeps ==
    ASSUME LookupIInv, NEW hostname \in Names, lookup(hostname)
    PROVE  LookupIInv'
<1>1. DNSTypeOK /\ Turning /\ queries \subseteq QueryTypes /\ inbox = <<>> /\ waited = 0
  BY DEF LookupIInv, Turning, lookup
<1>2. DNSTypeOK'
  <2>1. ip' \in Seq(0..255) /\ Len(ip') \in {0, 4}
    BY DEF lookup, NoAddr
  <2>2. lookups' \in 0..MaxLookups
    BY <1>1, DNSConstants DEF lookup, DNSTypeOK
  <2>3. m_retry' \in 0..Tries /\ m_interval' \in Nat /\ time' \in Nat
    BY DEF lookup, Tries
  <2>4. /\ turn' = "poll" /\ m_state' = "START" /\ m_hostname' \in Names /\ coincided' = FALSE
        /\ taken' = NoAnswer /\ m_id' = m_id /\ port' = port /\ waited' = waited /\ inbox' = inbox
        /\ queries' = queries
    BY DEF lookup
  <2> QED
    BY <2>1, <2>2, <2>3, <2>4, <1>1, Zenon DEF DNSTypeOK, States
<1>3. (queries \subseteq QueryTypes)' /\ Asked' /\ Turning' /\ Timed'
  BY <1>1 DEF lookup, Asked, Turning, Timed
<1>4. Arrived'
  BY <1>1 DEF lookup, Arrived
<1>5. AddressIsRight' /\ AnswerDecides'
  BY DEF lookup, AddressIsRight, AnswerDecides, Found
<1>6. LookupIsShort'
  BY DNSConstants DEF lookup, LookupIsShort
<1> QED
  BY <1>2, <1>3, <1>4, <1>5, <1>6 DEF LookupIInv

\* A query is sent: what was at the socket is gone.
LEMMA QueryKeeps ==
    ASSUME LookupIInv, resolve, m_hostname' = m_hostname
    PROVE  /\ (queries \subseteq QueryTypes)' /\ Asked' /\ Arrived'
           /\ m_id' \in Ids /\ port' \in Ports /\ inbox' = <<>> /\ coincided' \in BOOLEAN
           /\ m_interval' = 0 /\ m_state' = "PROCESSING"
<1>1. DNSTypeOK /\ queries \subseteq QueryTypes /\ m_hostname \in Names /\ coincided \in BOOLEAN
  BY DEF LookupIInv, DNSTypeOK
<1> DEFINE Same(q) == q.id = m_id' /\ q.port = port'
           sent == [id |-> m_id', port |-> port', name |-> m_hostname, copies |-> MaxCopies]
<1>2. /\ m_id' \in Ids /\ port' \in Ports /\ inbox' = <<>>
      /\ queries' = {q \in queries : ~(Same(q) /\ q.name = m_hostname)} \union {sent}
      /\ coincided' = (coincided \/ \E q \in queries : Same(q) /\ q.name # m_hostname)
      /\ m_interval' = 0 /\ m_state' = "PROCESSING"
  BY DEF resolve
<1>3. sent \in QueryTypes
  BY <1>1, <1>2, DNSConstants DEF QueryTypes
<1>4. (queries \subseteq QueryTypes)'
  BY <1>1, <1>2, <1>3
<1>5. Asked'
  <2> SUFFICES ASSUME ~coincided', NEW q \in queries', Same(q)
               PROVE  q.name = m_hostname
    BY DEF Asked
  <2>1. CASE q = sent
    BY <2>1
  <2>2. CASE q \in queries
    BY <2>2, <1>2
  <2> QED
    BY <2>1, <2>2, <1>2
<1>6. Arrived'
  BY <1>2 DEF Arrived
<1>7. coincided' \in BOOLEAN
  BY <1>1, <1>2
<1> QED
  BY <1>2, <1>4, <1>5, <1>6, <1>7

LEMMA PollKeeps ==
    ASSUME LookupIInv, poll
    PROVE  LookupIInv'
<1>1. /\ DNSTypeOK /\ queries \subseteq QueryTypes /\ Asked /\ Arrived /\ Turning /\ Timed
      /\ AddressIsRight /\ AnswerDecides /\ LookupIsShort
  BY DEF LookupIInv
<1>2. /\ turn = "poll" /\ turn' = "callback" /\ m_hostname' = m_hostname /\ ip' = ip
      /\ waited' = waited /\ time' = time /\ taken' = taken /\ lookups' = lookups
  BY DEF poll
<1>3. waited = 0 /\ m_state \in {"START", "PROCESSING"} /\ taken = NoAnswer /\ ip = NoAddr
  BY <1>1, <1>2 DEF Turning
<1>4. /\ m_hostname \in Names /\ m_retry \in 0..2 /\ m_id \in Ids /\ port \in Ports
      /\ ip \in Seq(0..255) /\ Len(ip) \in {0, 4} /\ m_interval \in Nat /\ time \in Nat
      /\ inbox \in Seq([message : Seq(0..255), reply : Replies])
      /\ coincided \in BOOLEAN /\ taken \in Replies \union {NoAnswer} /\ lookups \in 0..MaxLookups
  BY <1>1 DEF DNSTypeOK, Tries
<1>5. waited \in 0..LongestWait
  BY <1>1 DEF DNSTypeOK
<1>6. AddressIsRight' /\ AnswerDecides'
  BY <1>2 DEF AddressIsRight, AnswerDecides, Found
<1>7. LookupIsShort'
  BY <1>1, <1>2 DEF LookupIsShort
<1>8. ASSUME m_state' \in {"PROCESSING", "ERROR"}, m_retry' \in 0..2, m_interval' \in Nat,
             m_id' \in Ids, port' \in Ports, coincided' \in BOOLEAN,
             (queries \subseteq QueryTypes)',
             inbox' \in Seq([message : Seq(0..255), reply : Replies])
      PROVE  DNSTypeOK' /\ Turning'
  <2>1. DNSTypeOK'
    <3>1. \A q \in queries' : q.id \in Ids /\ q.port \in Ports /\ q.name \in Names /\ q.copies \in 1..MaxCopies
      BY <1>8 DEF QueryTypes
    <3> QED
      BY <3>1, <1>2, <1>4, <1>5, <1>8, Zenon DEF DNSTypeOK, States, Tries
  <2>2. Turning'
    BY <1>2, <1>3, <1>8 DEF Turning
  <2> QED
    BY <2>1, <2>2
<1>9. <<>> \in Seq([message : Seq(0..255), reply : Replies])
  OBVIOUS
<1>10. CASE m_state = "START"
  <2>1. m_retry' = 0 /\ resolve
    BY <1>2, <1>10 DEF poll
  <2>2. /\ (queries \subseteq QueryTypes)' /\ Asked' /\ Arrived'
        /\ m_id' \in Ids /\ port' \in Ports /\ inbox' = <<>> /\ coincided' \in BOOLEAN
        /\ m_interval' = 0 /\ m_state' = "PROCESSING"
    BY <2>1, <1>2, QueryKeeps
  <2>3. DNSTypeOK' /\ Turning'
    BY <2>1, <2>2, <1>8, <1>9
  <2>4. Timed'
    <3>1. time = 0
      BY <1>1, <1>2, <1>10 DEF Timed
    <3>2. m_interval' <= Interval + (IF turn' = "callback" THEN waited' ELSE LongestWait)
      BY <2>2, <1>2, <1>3, DNSConstants
    <3> QED
      BY <3>1, <3>2, <2>1, <2>2, <1>2 DEF Timed
  <2> QED
    BY <2>2, <2>3, <2>4, <1>6, <1>7 DEF LookupIInv
<1>11. CASE m_state # "START"
  <2>0. m_state = "PROCESSING"
    BY <1>3, <1>11
  <2>1. /\ m_interval <= Interval + LongestWait
        /\ \/ m_retry = 0 /\ time = m_interval
           \/ /\ m_retry = 1
              /\ time > Interval + m_interval
              /\ time <= Interval + LongestWait + m_interval
    BY <2>0, <1>1, <1>2 DEF Timed
  <2>2. CASE Late
    <3>1. /\ m_retry' = m_retry + 1
          /\ IF GivesUp(m_retry')
             THEN /\ m_state' = "ERROR"
                  /\ UNCHANGED <<m_id, port, inbox, queries, coincided, m_interval>>
             ELSE resolve
      BY <2>2, <1>11 DEF poll
    <3>2. m_interval > Interval
      BY <2>2 DEF Late
    <3>3. CASE m_retry = 0
      <4>1. resolve
        <5>1. ~GivesUp(m_retry')
          BY <3>1, <3>3 DEF GivesUp, Tries
        <5> QED
          BY <5>1, <3>1
      <4>2. /\ (queries \subseteq QueryTypes)' /\ Asked' /\ Arrived'
            /\ m_id' \in Ids /\ port' \in Ports /\ inbox' = <<>> /\ coincided' \in BOOLEAN
            /\ m_interval' = 0 /\ m_state' = "PROCESSING"
        BY <4>1, <1>2, QueryKeeps
      <4>3. m_retry' = 1
        BY <3>1, <3>3
      <4>4. DNSTypeOK' /\ Turning'
        BY <4>2, <4>3, <1>8, <1>9
      <4>5. Timed'
        <5>1. m_interval' <= Interval + (IF turn' = "callback" THEN waited' ELSE LongestWait)
          BY <4>2, <1>2, <1>3, DNSConstants
        <5>2. time = m_interval
          BY <2>1, <3>3
        <5>3. time > Interval + 0 /\ time <= Interval + LongestWait + 0
          BY <2>1, <3>2, <5>2, <1>4, DNSConstants
        <5> QED
          BY <5>1, <5>3, <4>2, <4>3, <1>2 DEF Timed
      <4> QED
        BY <4>2, <4>4, <4>5, <1>6, <1>7 DEF LookupIInv
    <3>4. CASE m_retry = 1
      <4>1. m_state' = "ERROR" /\ UNCHANGED <<m_id, port, inbox, queries, coincided, m_interval>>
        <5>1. GivesUp(m_retry')
          BY <3>1, <3>4 DEF GivesUp, Tries
        <5> QED
          BY <5>1, <3>1
      <4>2. m_retry' = 2
        BY <3>1, <3>4
      <4>3. (queries \subseteq QueryTypes)' /\ Asked' /\ Arrived'
        <5>1. Asked'
          BY <4>1, <1>1, <1>2, <1>11 DEF Asked
        <5>2. Arrived'
          BY <4>1, <1>1, <1>2 DEF Arrived, IsAnswer
        <5> QED
          BY <5>1, <5>2, <4>1, <1>1
      <4>4. DNSTypeOK' /\ Turning'
        BY <4>1, <4>2, <4>3, <1>4, <1>8
      <4>5. Timed'
        <5>1. /\ time > Interval + Interval
              /\ time <= Interval + LongestWait + Interval + LongestWait + 0
          BY <2>1, <3>2, <3>4, <1>4, DNSConstants
        <5> QED
          BY <5>1, <4>1, <4>2, <1>2, <1>3 DEF Timed
      <4> QED
        BY <4>3, <4>4, <4>5, <1>6, <1>7 DEF LookupIInv
    <3> QED
      BY <2>1, <3>3, <3>4
  <2>3. CASE ~Late
    <3>1. UNCHANGED <<m_retry, m_state, m_id, port, inbox, queries, coincided, m_interval>>
      BY <2>3, <1>11 DEF poll
    <3>2. (queries \subseteq QueryTypes)' /\ Asked' /\ Arrived'
      <4>1. Asked'
        BY <3>1, <1>1, <1>2 DEF Asked
      <4>2. Arrived'
        BY <3>1, <1>1, <1>2 DEF Arrived, IsAnswer
      <4> QED
        BY <4>1, <4>2, <3>1, <1>1
    <3>3. DNSTypeOK' /\ Turning'
      BY <2>0, <3>1, <3>2, <1>4, <1>8
    <3>4. Timed'
      <4>1. m_interval <= Interval + 0
        BY <2>3, <1>4, DNSConstants DEF Late
      <4> QED
        BY <4>1, <2>0, <2>1, <3>1, <1>2, <1>3 DEF Timed
    <3> QED
      BY <3>2, <3>3, <3>4, <1>6, <1>7 DEF LookupIInv
  <2> QED
    BY <2>2, <2>3
<1> QED
  BY <1>10, <1>11

\* An answer, or none in time.
LEMMA CallbackKeeps ==
    ASSUME LookupIInv, callback
    PROVE  LookupIInv'
<1> DEFINE Datagrams == [message : Seq(0..255), reply : Replies]
<1>1. /\ DNSTypeOK /\ queries \subseteq QueryTypes /\ Asked /\ Arrived /\ Turning /\ Timed
      /\ LookupIsShort
  BY DEF LookupIInv
<1>2. /\ turn = "callback" /\ waited' = 0
      /\ UNCHANGED <<m_hostname, m_retry, m_id, port, m_interval, time, queries, coincided, lookups>>
  BY DEF callback
<1>3. m_state \in {"PROCESSING", "ERROR"} /\ taken = NoAnswer /\ ip = NoAddr
  BY <1>1, <1>2 DEF Turning
<1>4. /\ m_hostname \in Names /\ m_retry \in 0..2 /\ m_id \in Ids /\ port \in Ports
      /\ m_interval \in Nat /\ time \in Nat /\ inbox \in Seq(Datagrams)
      /\ coincided \in BOOLEAN /\ lookups \in 0..MaxLookups
  BY <1>1 DEF DNSTypeOK, Tries
<1>5. waited \in 0..LongestWait
  BY <1>1 DEF DNSTypeOK
<1>6. (queries \subseteq QueryTypes)' /\ LookupIsShort'
  BY <1>1, <1>2 DEF LookupIsShort

\* What is left to show when the state and what is left at the socket are known
<1>7. ASSUME NEW left, left \in Seq(Datagrams),
             \A n \in 1..Len(left) : \E m \in 1..Len(inbox) : left[n] = inbox[m],
             Turns(m_state', left),
             \/ m_state' = m_state /\ ip' = ip /\ taken' = taken
             \/ /\ taken' \in Replies
                /\ m_state' = IF taken'.rcode = 0 THEN "OK" ELSE "NOTFOUND"
                /\ ip' \in Seq(0..255) /\ Len(ip') \in {0, 4}
                /\ taken'.rcode = 0 /\ HasAddress(taken') /\ ~coincided => ip' = Address[m_hostname]
      PROVE  LookupIInv'
  <2>1. /\ turn' = IF m_state' = "PROCESSING" THEN "poll" ELSE "idle"
        /\ inbox' = IF m_state' = "PROCESSING" THEN left ELSE <<>>
    BY <1>7 DEF Turns
  <2>2. m_state' \in {"PROCESSING", "ERROR", "OK", "NOTFOUND"}
    BY <1>3, <1>7
  <2>3. /\ m_state' \in {"PROCESSING", "ERROR"} => m_state' = m_state /\ ip' = ip /\ taken' = NoAnswer
        /\ m_state' \in {"OK", "NOTFOUND"} =>
              /\ taken' \in Replies
              /\ m_state' = IF taken'.rcode = 0 THEN "OK" ELSE "NOTFOUND"
              /\ taken'.rcode = 0 /\ HasAddress(taken') /\ ~coincided => ip' = Address[m_hostname]
    BY <1>3, <1>7
  <2>4. ip' \in Seq(0..255) /\ Len(ip') \in {0, 4} /\ taken' \in Replies \union {NoAnswer}
    <3>1. ip \in Seq(0..255) /\ Len(ip) \in {0, 4}
      BY <1>1 DEF DNSTypeOK
    <3> QED
      BY <3>1, <1>3, <1>7
  <2>5. inbox' \in Seq(Datagrams)
    <3>1. <<>> \in Seq(Datagrams)
      OBVIOUS
    <3> QED
      BY <3>1, <2>1, <1>7, Zenon
  <2>6. DNSTypeOK'
    <3>1. \A q \in queries' : q.id \in Ids /\ q.port \in Ports /\ q.name \in Names /\ q.copies \in 1..MaxCopies
      BY <1>6 DEF QueryTypes
    <3>2. waited' \in 0..LongestWait
      BY <1>2, DNSConstants
    <3>3. turn' \in {"idle", "poll", "callback"} /\ m_state' \in States /\ m_retry' \in 0..Tries
      BY <2>1, <2>2, <1>2, <1>4 DEF States, Tries
    <3>4. /\ m_hostname' \in Names /\ m_id' \in Ids /\ port' \in Ports
          /\ m_interval' \in Nat /\ time' \in Nat /\ coincided' \in BOOLEAN /\ lookups' \in 0..MaxLookups
      BY <1>2, <1>4
    <3> QED
      BY <3>1, <3>2, <3>3, <3>4, <2>4, <2>5, Zenon DEF DNSTypeOK
  <2>7. Asked'
    BY <2>3, <1>1, <1>2, <1>3 DEF Asked
  <2>8. Arrived'
    <3> SUFFICES ASSUME NEW n \in 1..Len(inbox') PROVE IsAnswer(inbox[n])'
      BY DEF Arrived
    <3>1. inbox' # <<>>
      <4>1. Len(<<>>) = 0 /\ 1..0 = {}
        OBVIOUS
      <4> QED
        BY <4>1
    <3>2. inbox' = left
      BY <2>1, <3>1
    <3>3. PICK m \in 1..Len(inbox) : left[n] = inbox[m]
      BY <1>7, <3>2
    <3>4. IsAnswer(inbox[m])
      BY <1>1 DEF Arrived
    <3>5. inbox'[n] = inbox[m]
      BY <3>2, <3>3
    <3> QED
      BY <3>4, <3>5, <1>2 DEF IsAnswer
  <2>9. Turning'
    BY <2>1, <2>2, <2>3, <1>2, <1>3 DEF Turning
  <2>10. Timed'
    <3>1. m_state' = "PROCESSING" => m_interval <= Interval + LongestWait
      <4> SUFFICES ASSUME m_state' = "PROCESSING" PROVE m_interval <= Interval + LongestWait
        OBVIOUS
      <4>1. m_interval <= Interval + waited
        BY <2>3, <1>1, <1>2 DEF Timed
      <4> QED
        BY <4>1, <1>4, <1>5, DNSConstants
    <3> QED
      BY <3>1, <2>1, <2>2, <2>3, <1>1, <1>2 DEF Timed
  <2>11. AddressIsRight'
    <3> SUFFICES ASSUME Found', HasAddress(taken'), ~coincided
                 PROVE  ip' = Address[m_hostname]
      BY <1>2 DEF AddressIsRight
    <3>1. m_state' = "OK"
      BY DEF Found
    <3> QED
      BY <3>1, <2>3
  <2>12. AnswerDecides'
    <3>1. CASE m_state' = "PROCESSING"
      BY <3>1, <2>1 DEF AnswerDecides
    <3>2. CASE m_state' = "ERROR"
      <4>1. m_retry = 2 /\ time > Interval + Interval
        BY <3>2, <2>3, <1>1 DEF Timed
      <4>2. time > 2 * Interval
        BY <4>1, <1>4, DNSConstants
      <4> QED
        BY <4>1, <4>2, <3>2, <2>3, <1>2 DEF AnswerDecides, Tries
    <3>3. CASE m_state' \in {"OK", "NOTFOUND"}
      <4>1. taken' # NoAnswer
        BY <3>3, <2>3, DNSConstants
      <4> QED
        BY <4>1, <3>3, <2>3 DEF AnswerDecides
    <3> QED
      BY <3>1, <3>2, <3>3, <2>2
  <2> QED
    BY <2>6, <2>7, <2>8, <2>9, <2>10, <2>11, <2>12, <1>6 DEF LookupIInv
<1>8. CASE inbox = <<>>
  <2>1. Turns(m_state, <<>>) /\ UNCHANGED <<m_state, ip, taken>>
    BY <1>8 DEF callback
  <2>2. Turns(m_state', <<>>)
    BY <2>1 DEF Turns
  <2>3. <<>> \in Seq(Datagrams) /\ 1..Len(<<>>) = {}
    OBVIOUS
  <2> HIDE DEF Datagrams
  <2> QED
    BY <2>1, <2>2, <2>3, <1>7
<1>9. CASE inbox # <<>>
  <2> DEFINE d == Head(inbox)
             left == Tail(inbox)
  <2>1. Takes(d) /\ Turns(m_state', left)
    BY <1>9 DEF callback
  <2>2. /\ d \in Datagrams /\ d = inbox[1] /\ 1 \in 1..Len(inbox)
        /\ left \in Seq(Datagrams)
        /\ \A n \in 1..Len(left) : n + 1 \in 1..Len(inbox) /\ left[n] = inbox[n + 1]
    <3> HIDE DEF Datagrams
    <3> QED
      BY <1>4, <1>9
  <2>3. \A n \in 1..Len(left) : \E m \in 1..Len(inbox) : left[n] = inbox[m]
    BY <2>2, Zenon
  <2>4. IsAnswer(d) /\ d.reply \in Replies
    BY <2>2, <1>1 DEF Arrived
  <2> HIDE DEF d, left
  <2> DEFINE answer == response(d.message, ip)
  <2>5. IF SubSeq(d.message, 1, 2) # << 0, m_id >> THEN UNCHANGED <<m_state, ip, taken>>
        ELSE /\ m_state' = IF answer.rcode = 0 THEN "OK" ELSE "NOTFOUND"
             /\ ip' = answer.ip
             /\ taken' = d.reply
    BY <2>1 DEF Takes
  <2>6. CASE SubSeq(d.message, 1, 2) # << 0, m_id >>
    <3>1. m_state' = m_state /\ ip' = ip /\ taken' = taken
      BY <2>5, <2>6
    <3> HIDE DEF Datagrams
    <3> QED
      BY <3>1, <2>1, <2>2, <2>3, <1>7
  <2>7. CASE SubSeq(d.message, 1, 2) = << 0, m_id >>
    <3>1. /\ answer.rcode = d.reply.rcode
          /\ ~(d.reply.rcode = 0 /\ HasAddress(d.reply)) => answer.ip = ip
          /\ d.reply.rcode = 0 /\ HasAddress(d.reply) => \E name \in Names : answer.ip = Address[name]
          /\ d.reply.rcode = 0 /\ HasAddress(d.reply) /\ ~coincided => answer.ip = Address[m_hostname]
      BY <2>4, <2>7, AnswerIs
    <3>2. /\ taken' = d.reply /\ taken' \in Replies
          /\ m_state' = IF taken'.rcode = 0 THEN "OK" ELSE "NOTFOUND"
          /\ ip' = answer.ip
      BY <2>4, <2>5, <2>7, <3>1
    <3>3. ip' \in Seq(0..255) /\ Len(ip') \in {0, 4}
      <4>1. CASE ~(d.reply.rcode = 0 /\ HasAddress(d.reply))
        <5>1. ip' = ip
          BY <4>1, <3>1, <3>2
        <5> QED
          BY <5>1, <1>1 DEF DNSTypeOK
      <4>2. CASE d.reply.rcode = 0 /\ HasAddress(d.reply)
        <5>1. PICK name \in Names : ip' = Address[name]
          BY <4>2, <3>1, <3>2
        <5>2. Address[name] \in [1..4 -> Octets]
          BY DNSConstants
        <5>3. \A a \in [1..4 -> Octets] : a \in Seq(0..255) /\ Len(a) = 4
          <6> TAKE a \in [1..4 -> Octets]
          <6>1. Data(1, a) \in Seq(Octets) /\ Data(1, a) = a /\ Len(a) = 4
            BY DataIs
          <6> QED
            BY <6>1 DEF Octets
        <5> QED
          BY <5>1, <5>2, <5>3
      <4> QED
        BY <4>1, <4>2
    <3>4. taken'.rcode = 0 /\ HasAddress(taken') /\ ~coincided => ip' = Address[m_hostname]
      BY <3>1, <3>2
    <3> HIDE DEF Datagrams, answer
    <3> QED
      BY <3>2, <3>3, <3>4, <2>1, <2>2, <2>3, <1>7
  <2> QED
    BY <2>6, <2>7
<1> QED
  BY <1>8, <1>9

LEMMA TickKeeps ==
    ASSUME LookupIInv, Tick
    PROVE  LookupIInv'
<1>1. /\ DNSTypeOK /\ queries \subseteq QueryTypes /\ Asked /\ Arrived /\ Turning /\ Timed
      /\ AddressIsRight /\ AnswerDecides /\ LookupIsShort
  BY DEF LookupIInv
<1>2. /\ turn = "callback" /\ waited <= ReceiveTime
      /\ waited' = waited + 1 /\ time' = time + 1 /\ m_interval' = m_interval + 1
      /\ UNCHANGED <<turn, m_hostname, m_state, m_retry, m_id, port, ip, inbox, queries, coincided,
                     taken, lookups>>
  BY DEF Tick
<1>3. m_state \in {"PROCESSING", "ERROR"}
  BY <1>1, <1>2 DEF Turning
<1>4. m_interval \in Nat /\ time \in Nat /\ waited \in Nat
  BY <1>1, DNSConstants DEF DNSTypeOK
<1>5. DNSTypeOK' /\ (queries \subseteq QueryTypes)'
  <2>1. waited' \in 0..LongestWait /\ time' \in Nat /\ m_interval' \in Nat
    BY <1>2, <1>4, DNSConstants
  <2> QED
    BY <2>1, <1>1, <1>2, Zenon DEF DNSTypeOK
<1>6. Asked' /\ Turning'
  BY <1>1, <1>2 DEF Asked, Turning
<1>7. Arrived'
  BY <1>1, <1>2 DEF Arrived, IsAnswer
<1>8. Timed' /\ LookupIsShort'
  <2>1. CASE m_state = "PROCESSING"
    <3>1. /\ m_interval <= Interval + waited
          /\ \/ m_retry = 0 /\ time = m_interval
             \/ /\ m_retry = 1
                /\ time > Interval + m_interval
                /\ time <= Interval + LongestWait + m_interval
      BY <2>1, <1>1, <1>2 DEF Timed
    <3>2. /\ m_interval' <= Interval + waited'
          /\ \/ m_retry = 0 /\ time' = m_interval'
             \/ /\ m_retry = 1
                /\ time' > Interval + m_interval'
                /\ time' <= Interval + LongestWait + m_interval'
      BY <3>1, <1>2, <1>4, DNSConstants
    <3>3. time' <= LongestLookup
      BY <3>2, <1>2, <1>4, DNSConstants
    <3> QED
      BY <2>1, <3>2, <3>3, <1>2 DEF Timed, LookupIsShort
  <2>2. CASE m_state = "ERROR"
    <3>1. /\ m_retry = 2 /\ time > Interval + Interval
          /\ time <= Interval + LongestWait + Interval + LongestWait + waited
      BY <2>2, <1>1, <1>2 DEF Timed
    <3>2. /\ time' > Interval + Interval
          /\ time' <= Interval + LongestWait + Interval + LongestWait + waited'
      BY <3>1, <1>2, <1>4, DNSConstants
    <3>3. time' <= LongestLookup
      BY <3>2, <1>2, <1>4, DNSConstants
    <3> QED
      BY <2>2, <3>1, <3>2, <3>3, <1>2 DEF Timed, LookupIsShort
  <2> QED
    BY <2>1, <2>2, <1>3
<1>9. AddressIsRight' /\ AnswerDecides'
  BY <1>1, <1>2 DEF AddressIsRight, AnswerDecides, Found
<1> QED
  BY <1>5, <1>6, <1>7, <1>8, <1>9 DEF LookupIInv

\* An answer is sent: if it comes to the socket, it is one to a query of this lookup, or
\* has another id.
LEMMA AnswersKeep ==
    ASSUME LookupIInv, NEW q \in queries, NEW reply \in Replies, Answers(q, reply)
    PROVE  LookupIInv'
<1> DEFINE Datagrams == [message : Seq(0..255), reply : Replies]
<1>1. /\ DNSTypeOK /\ queries \subseteq QueryTypes /\ Asked /\ Arrived /\ Turning /\ Timed
      /\ AddressIsRight /\ AnswerDecides /\ LookupIsShort
  BY DEF LookupIInv
<1>2. /\ turn # "idle"
      /\ UNCHANGED <<turn, m_hostname, m_state, m_retry, m_id, port, ip, m_interval, waited,
                     time, coincided, taken, lookups>>
  BY DEF Answers
<1>3. /\ q.id \in Ids /\ q.port \in Ports /\ q.name \in Names /\ q.copies \in 1..MaxCopies
      /\ q \in QueryTypes
  BY <1>1 DEF QueryTypes
<1> DEFINE less == [q EXCEPT !.copies = @ - 1]
<1>4. \A r \in queries' : \/ r \in queries
                          \/ r = less /\ q.copies # 1
  BY DEF Answers
<1>5. less.id = q.id /\ less.port = q.port /\ less.name = q.name
      /\ (q.copies # 1 => less \in QueryTypes)
  <2>1. q.copies # 1 => q.copies - 1 \in 1..MaxCopies
    BY <1>3, DNSConstants
  <2> QED
    BY <2>1, <1>3 DEF QueryTypes
<1> HIDE DEF less
<1>6. (queries \subseteq QueryTypes)'
  BY <1>1, <1>4, <1>5
<1>7. Asked'
  <2> SUFFICES ASSUME m_state # "START", ~coincided, NEW r \in queries', r.id = m_id, r.port = port
               PROVE  r.name = m_hostname
    BY <1>2 DEF Asked
  <2>1. \E o \in queries : o.id = r.id /\ o.port = r.port /\ o.name = r.name
    BY <1>4, <1>5
  <2> QED
    BY <2>1, <1>1 DEF Asked
<1>8. inbox \in Seq(Datagrams)
  BY <1>1 DEF DNSTypeOK
<1>9. \/ inbox' = inbox
      \/ /\ q.port = port /\ m_state # "START"
         /\ inbox' = Append(inbox, [message |-> Message(<< 0, q.id >>, q.name, reply, Address[q.name]),
                                    reply |-> reply])
  BY DEF Answers
<1>10. inbox' \in Seq(Datagrams) /\ Arrived' /\ (m_state = "START" => inbox' = inbox)
  <2>1. CASE inbox' = inbox
    BY <2>1, <1>1, <1>2, <1>8 DEF Arrived, IsAnswer
  <2>2. CASE inbox' # inbox
    <3> DEFINE d == [message |-> Message(<< 0, q.id >>, q.name, reply, Address[q.name]),
                     reply |-> reply]
    <3>1. q.port = port /\ m_state # "START" /\ inbox' = Append(inbox, d)
      BY <2>2, <1>9
    <3>2. d.reply = reply /\ d.message = Message(<< 0, q.id >>, q.name, d.reply, Address[q.name])
      OBVIOUS
    <3>3. d = [message |-> d.message, reply |-> d.reply]
      OBVIOUS
    <3> HIDE DEF d
    <3>4. q.id = m_id /\ ~coincided => q.name = m_hostname
      BY <3>1, <1>1 DEF Asked
    <3>5. IsAnswer(d)
      BY <3>2, <3>4, <1>3 DEF IsAnswer
    <3>6. d.message \in Seq(0..255)
      BY <3>2, <3>5, AnswerIs
    <3>7. d \in Datagrams
      BY <3>2, <3>3, <3>6
    <3>8. /\ inbox' \in Seq(Datagrams) /\ Len(inbox) \in Nat /\ Len(inbox') = Len(inbox) + 1
          /\ \A n \in 1..Len(inbox) : inbox'[n] = inbox[n]
          /\ inbox'[Len(inbox) + 1] = d
      <4> HIDE DEF Datagrams
      <4> QED
        BY <3>1, <3>7, <1>8
    <3>9. ASSUME NEW n \in 1..Len(inbox')
          PROVE  IsAnswer(inbox[n])'
      <4>1. n \in 1..Len(inbox) \/ n = Len(inbox) + 1
        BY <3>8
      <4>2. \E o : IsAnswer(o) /\ inbox'[n] = o
        BY <4>1, <3>5, <3>8, <1>1 DEF Arrived
      <4>3. PICK o : IsAnswer(o) /\ inbox'[n] = o
        BY <4>2
      <4> QED
        BY <4>3, <1>2 DEF IsAnswer
    <3> QED
      BY <3>1, <3>8, <3>9 DEF Arrived
  <2> QED
    BY <2>1, <2>2
<1>11. DNSTypeOK'
  <2>1. \A r \in queries' : r.id \in Ids /\ r.port \in Ports /\ r.name \in Names /\ r.copies \in 1..MaxCopies
    BY <1>6 DEF QueryTypes
  <2>2. inbox' \in Seq([message : Seq(0..255), reply : Replies])
    BY <1>10
  <2> QED
    BY <2>1, <2>2, <1>1, <1>2, Zenon DEF DNSTypeOK
<1>12. Turning'
  BY <1>1, <1>2, <1>10 DEF Turning
<1>13. Timed' /\ LookupIsShort'
  BY <1>1, <1>2 DEF Timed, LookupIsShort
<1>14. AddressIsRight' /\ AnswerDecides'
  BY <1>1, <1>2 DEF AddressIsRight, AnswerDecides, Found
<1> QED
  BY <1>6, <1>7, <1>10, <1>11, <1>12, <1>13, <1>14 DEF LookupIInv

LEMMA LookupSteps == LookupIInv /\ [DNSNext]_dnsVars => LookupIInv'
<1> SUFFICES ASSUME LookupIInv, [DNSNext]_dnsVars
             PROVE  LookupIInv'
  OBVIOUS
<1>1. CASE UNCHANGED dnsVars
  BY <1>1 DEF dnsVars, LookupIInv, DNSTypeOK, Asked, Arrived, IsAnswer, Turning, Timed,
              AddressIsRight, AnswerDecides, LookupIsShort, Found
<1>2. CASE poll
  BY <1>2, PollKeeps
<1>3. CASE callback
  BY <1>3, CallbackKeeps
<1>4. CASE Tick
  BY <1>4, TickKeeps
<1>5. CASE \E name \in Names : lookup(name)
  BY <1>5, LookupKeeps
<1>6. CASE \E q \in queries, reply \in Replies : Answers(q, reply)
  BY <1>6, AnswersKeep
<1> QED
  BY <1>1, <1>2, <1>3, <1>4, <1>5, <1>6 DEF DNSNext, DNSStep

\* However late, often or out of turn the answers to this lookup and to earlier ones
\* come: lookup() returns the address of its name, unless rand() repeated itself, says
\* what the answer it took says, and returns within the time of two queries.
THEOREM LookupIsRight == DNSSpec => []LookupInv
<1>1. LookupIInv => LookupInv
  BY DEF LookupIInv, LookupInv
<1> QED
  BY <1>1, LookupStarts, LookupSteps, PTL DEF DNSSpec

=============================================================================
