---------------------------- MODULE MessagesProofs ----------------------------
(***************************************************************************)
(* Theorems about what is sent and read as MQTT packets, for every value   *)
(* of the constants: the length field, the reader that is fed byte by byte,*)
(* the lengths that serialisers work out, and what deserialisers make of   *)
(* what they wrote.  They rest on lemmas about pieces written one after    *)
(* the other, by induction on how many they are.                           *)
(***************************************************************************)
EXTENDS PacketReader, Exchange, FiniteSetTheorems, WellFoundedInduction, TLAPS

-----------------------------------------------------------------------------
(* Bytes *)

\* Some number is the least of a set of numbers.
LEMMA LeastNumber ==
    ASSUME NEW T \in SUBSET Nat, T # {}
    PROVE  \E n \in T : \A m \in T : n <= m
<1> DEFINE R == {ss \in Nat \X Nat : ss[1] < ss[2]}
<1>1. IsWellFoundedOn(R, Nat)
  BY NatLessThanWellFounded DEF OpToRel
<1>2. PICK n \in T : \A m \in T : ~(<<m, n>> \in R)
  <2> HIDE DEF R
  <2> QED
    BY <1>1, WFMin
<1>3. \A m \in T : m \in Nat /\ n \in Nat
  OBVIOUS
<1>4. \A m \in T : ~(m < n)
  BY <1>2, <1>3
<1> QED
  BY <1>3, <1>4

\* What holds of 0 and goes over from each number to the next holds of all: T is the
\* set of those of which it holds.
LEMMA Induction ==
    ASSUME NEW T, 0 \in T, \A n \in Nat : n \in T => n + 1 \in T
    PROVE  \A n \in Nat : n \in T
<1> DEFINE B == Nat \ T
<1>1. SUFFICES ASSUME B # {} PROVE FALSE
  OBVIOUS
<1>2. PICK n \in B : \A m \in B : n <= m
  <2> HIDE DEF B
  <2>1. B \in SUBSET Nat
    BY DEF B
  <2> QED
    BY <2>1, <1>1, LeastNumber
<1>3. n # 0 /\ n - 1 \in Nat
  OBVIOUS
<1>4. n - 1 \in T
  BY <1>2, <1>3
<1> QED
  BY <1>3, <1>4

\* The pieces of a sequence, one after the other: there is such a function.
LEMMA FirstsEquation ==
    ASSUME NEW S, NEW pieces \in Seq(Seq(S))
    PROVE  /\ Firsts(pieces)[0] = <<>>
           /\ \A n \in 1..Len(pieces) : Firsts(pieces)[n] = Firsts(pieces)[n - 1] \o pieces[n]
<1> DEFINE Grows(f, n) == f = [m \in 0..n |-> IF m = 0 THEN <<>> ELSE f[m - 1] \o pieces[m]]
           k == Len(pieces)
           T == {n \in Nat : \E f : Grows(f, n)}
<1>1. 0 \in T
  <2>1. Grows([m \in 0..0 |-> <<>>], 0)
    OBVIOUS
  <2> QED
    BY <2>1
<1>2. \A n \in Nat : n \in T => n + 1 \in T
  <2> SUFFICES ASSUME NEW n \in Nat, n \in T
               PROVE  n + 1 \in T
    OBVIOUS
  <2> PICK f : Grows(f, n)
    OBVIOUS
  <2> DEFINE g == [m \in 0..(n + 1) |-> IF m = n + 1 THEN f[n] \o pieces[n + 1] ELSE f[m]]
  <2>1. \A m \in 0..n : g[m] = f[m]
    OBVIOUS
  <2>2. \A m \in 0..n : f[m] = IF m = 0 THEN <<>> ELSE f[m - 1] \o pieces[m]
    <3> SUFFICES ASSUME NEW m \in 0..n
                 PROVE  f[m] = IF m = 0 THEN <<>> ELSE f[m - 1] \o pieces[m]
      OBVIOUS
    <3> DEFINE h == [l \in 0..n |-> IF l = 0 THEN <<>> ELSE f[l - 1] \o pieces[l]]
    <3>1. f = h
      OBVIOUS
    <3>2. h[m] = IF m = 0 THEN <<>> ELSE f[m - 1] \o pieces[m]
      OBVIOUS
    <3> HIDE DEF h
    <3> QED
      BY <3>1, <3>2
  <2>3. \A m \in 0..(n + 1) : g[m] = IF m = 0 THEN <<>> ELSE g[m - 1] \o pieces[m]
    <3> SUFFICES ASSUME NEW m \in 0..(n + 1)
                 PROVE  g[m] = IF m = 0 THEN <<>> ELSE g[m - 1] \o pieces[m]
      OBVIOUS
    <3>1. CASE m = n + 1
      <4>1. m # 0 /\ m - 1 = n /\ n \in 0..n
        BY <3>1
      <4>2. g[m] = f[n] \o pieces[n + 1]
        BY <3>1
      <4> HIDE DEF g
      <4> QED
        BY <3>1, <4>1, <4>2, <2>1
    <3>2. CASE m \in 1..n
      <4>1. m - 1 \in 0..n /\ m \in 0..n /\ m # 0
        BY <3>2
      <4> HIDE DEF g
      <4> QED
        BY <4>1, <2>1, <2>2
    <3>3. CASE m = 0
      BY <3>3, <2>1, <2>2
    <3> QED
      BY <3>1, <3>2, <3>3
  <2>4. Grows(g, n + 1)
    <3>1. g = [m \in 0..(n + 1) |-> g[m]]
      OBVIOUS
    <3> HIDE DEF g
    <3> QED
      BY <2>3, <3>1
  <2>5. \E e : Grows(e, n + 1)
    <3> HIDE DEF Grows, g
    <3> QED
      BY <2>4
  <2> QED
    BY <2>5
<1>3. k \in T
  <2> HIDE DEF T
  <2> QED
    BY <1>1, <1>2, Induction
<1>4. Grows(Firsts(pieces), k)
  BY <1>3 DEF Firsts
<1> HIDE DEF k
<1>5. k \in Nat
  BY DEF k
<1> DEFINE h == [m \in 0..k |-> IF m = 0 THEN <<>> ELSE Firsts(pieces)[m - 1] \o pieces[m]]
<1>6. Firsts(pieces) = h
  BY <1>4
<1>7. \A m \in 0..k : h[m] = IF m = 0 THEN <<>> ELSE Firsts(pieces)[m - 1] \o pieces[m]
  OBVIOUS
<1>8. 0 \in 0..k /\ \A n \in 1..k : n \in 0..k /\ n # 0
  BY <1>5
<1> HIDE DEF h
<1> QED
  BY <1>6, <1>7, <1>8 DEF k

LEMMA TwoPieces ==
    ASSUME NEW S, NEW a \in Seq(S), NEW b \in Seq(S), NEW c, c = a \o b
    PROVE  /\ c \in Seq(S)
           /\ Len(a) \in Nat /\ Len(b) \in Nat /\ Len(c) = Len(a) + Len(b)
           /\ Len(a) <= Len(c)
           /\ \A i \in 1..Len(a) : c[i] = a[i]
           /\ \A i \in 1..Len(b) : Len(a) + i \in 1..Len(c) /\ c[Len(a) + i] = b[i]
  OBVIOUS

LEMMA FirstsAreSequences ==
    ASSUME NEW S, NEW pieces \in Seq(Seq(S))
    PROVE  /\ \A n \in 0..Len(pieces) : Firsts(pieces)[n] \in Seq(S)
           /\ \A n \in 1..Len(pieces) :
                 Len(Firsts(pieces)[n]) = Len(Firsts(pieces)[n - 1]) + Len(pieces[n])
<1> DEFINE F == Firsts(pieces)
           k == Len(pieces)
           T == {n \in Nat : n <= k => F[n] \in Seq(S)}
<1>1. F[0] = <<>> /\ \A n \in 1..k : F[n] = F[n - 1] \o pieces[n]
  BY FirstsEquation
<1>2. k \in Nat /\ \A n \in 1..k : pieces[n] \in Seq(S)
  OBVIOUS
<1> HIDE DEF F, k
<1>3. 0 \in T
  <2>1. F[0] = <<>> /\ <<>> \in Seq(S)
    BY <1>1
  <2>2. F[0] \in Seq(S)
    BY <2>1, Zenon
  <2> QED
    BY <2>2
<1>4. \A n \in Nat : n \in T => n + 1 \in T
  <2> SUFFICES ASSUME NEW n \in Nat, F[n] \in Seq(S), n + 1 <= k
               PROVE  F[n + 1] \in Seq(S)
    BY <1>2
  <2>1. n + 1 \in 1..k /\ (n + 1) - 1 = n
    BY <1>2
  <2>2. F[n + 1] = F[n] \o pieces[n + 1] /\ pieces[n + 1] \in Seq(S)
    BY <2>1, <1>1, <1>2
  <2> QED
    BY <2>2, TwoPieces, Zenon
<1>5. \A n \in Nat : n \in T
  <2> HIDE DEF T
  <2> QED
    BY <1>3, <1>4, Induction
<1>6. \A n \in 0..k : F[n] \in Seq(S)
  BY <1>2, <1>5
<1>7. \A n \in 1..k : Len(F[n]) = Len(F[n - 1]) + Len(pieces[n])
  <2> TAKE n \in 1..k
  <2>1. n - 1 \in 0..k
    BY <1>2
  <2>2. F[n - 1] \in Seq(S) /\ pieces[n] \in Seq(S) /\ F[n] = F[n - 1] \o pieces[n]
    BY <2>1, <1>1, <1>2, <1>6
  <2> DEFINE a == F[n - 1]
             b == pieces[n]
             c == F[n]
  <2>3. a \in Seq(S) /\ b \in Seq(S) /\ c = a \o b
    BY <2>2, Zenon
  <2>4. Len(c) = Len(a) + Len(b)
    <3> HIDE DEF a, b, c
    <3> QED
      BY <2>3, TwoPieces
  <2> QED
    BY <2>4, Zenon
<1> QED
  BY <1>6, <1>7 DEF F, k

\* What has been written stays where it is.
LEMMA FirstsStay ==
    ASSUME NEW S, NEW pieces \in Seq(Seq(S)), NEW m \in 0..Len(pieces)
    PROVE  \A n \in m..Len(pieces) :
              /\ Len(Firsts(pieces)[m]) <= Len(Firsts(pieces)[n])
              /\ \A i \in 1..Len(Firsts(pieces)[m]) : Firsts(pieces)[n][i] = Firsts(pieces)[m][i]
<1> DEFINE F == Firsts(pieces)
           k == Len(pieces)
           Stays(n) == /\ Len(F[m]) <= Len(F[n])
                       /\ \A i \in 1..Len(F[m]) : F[n][i] = F[m][i]
           T == {n \in Nat : m <= n /\ n <= k => Stays(n)}
<1>1. /\ \A n \in 1..k : F[n] = F[n - 1] \o pieces[n]
      /\ \A n \in 0..k : F[n] \in Seq(S)
      /\ \A n \in 1..k : Len(F[n]) = Len(F[n - 1]) + Len(pieces[n])
  BY FirstsEquation, FirstsAreSequences
<1>2. k \in Nat /\ (\A n \in 1..k : pieces[n] \in Seq(S)) /\ m \in Nat /\ m <= k
  OBVIOUS
<1> HIDE DEF F, k
<1>3. \A n \in 0..k : Len(F[n]) \in Nat
  BY <1>1
<1>4. Stays(m)
  BY <1>2, <1>3
<1>5. 0 \in T
  BY <1>2, <1>4
<1>6. \A n \in Nat : n \in T => n + 1 \in T
  <2> SUFFICES ASSUME NEW n \in Nat, m <= n => Stays(n), m <= n + 1, n + 1 <= k
               PROVE  Stays(n + 1)
    BY <1>2
  <2>1. CASE m = n + 1
    BY <2>1, <1>4
  <2>2. CASE m <= n
    <3>1. n \in 0..k /\ n + 1 \in 1..k /\ (n + 1) - 1 = n
      BY <1>2
    <3>2. F[n + 1] = F[n] \o pieces[n + 1]
      BY <3>1, <1>1
    <3>3. F[n] \in Seq(S) /\ pieces[n + 1] \in Seq(S)
      BY <3>1, <1>1, <1>2
    <3>4. Len(F[n]) <= Len(F[n + 1]) /\ \A i \in 1..Len(F[n]) : F[n + 1][i] = F[n][i]
      <4> DEFINE a == F[n]
                 b == pieces[n + 1]
                 c == F[n + 1]
      <4>1. a \in Seq(S) /\ b \in Seq(S) /\ c = a \o b
        BY <3>2, <3>3, Zenon
      <4>2. Len(a) <= Len(c) /\ \A i \in 1..Len(a) : c[i] = a[i]
        <5> HIDE DEF a, b, c
        <5> QED
          BY <4>1, TwoPieces
      <4> QED
        BY <4>2, Zenon
    <3>5. Len(F[m]) \in Nat /\ Len(F[n]) \in Nat /\ Len(F[n + 1]) \in Nat
      BY <3>1, <1>2, <1>3
    <3> QED
      BY <2>2, <3>4, <3>5
  <2> QED
    BY <2>1, <2>2, <1>2
<1>7. \A n \in Nat : n \in T
  <2> HIDE DEF T
  <2> QED
    BY <1>5, <1>6, Induction
<1>8. \A n \in m..k : Stays(n)
  BY <1>2, <1>7
<1> QED
  BY <1>8 DEF F, k

\* Where a piece is in all of them.
LEMMA PieceInPlace ==
    ASSUME NEW S, NEW pieces \in Seq(Seq(S)), NEW n \in 1..Len(pieces)
    PROVE  /\ Concat(pieces) \in Seq(S)
           /\ Len(Firsts(pieces)[n - 1]) \in Nat
           /\ Len(Firsts(pieces)[n]) = Len(Firsts(pieces)[n - 1]) + Len(pieces[n])
           /\ Len(Firsts(pieces)[n]) <= Len(Concat(pieces))
           /\ \A i \in 1..Len(pieces[n]) :
                 Concat(pieces)[Len(Firsts(pieces)[n - 1]) + i] = pieces[n][i]
<1> DEFINE F == Firsts(pieces)
           k == Len(pieces)
<1>1. k \in Nat /\ n \in 1..k /\ n - 1 \in 0..k /\ n \in 0..k /\ k \in n..k /\ k \in 0..k
  OBVIOUS
<1>2. /\ F[n] = F[n - 1] \o pieces[n]
      /\ F[n - 1] \in Seq(S) /\ F[n] \in Seq(S) /\ F[k] \in Seq(S)
      /\ Len(F[n]) = Len(F[n - 1]) + Len(pieces[n])
  <2>1. \A l \in 1..k : F[l] = F[l - 1] \o pieces[l]
    BY FirstsEquation
  <2>2. (\A l \in 0..k : F[l] \in Seq(S)) /\ \A l \in 1..k : Len(F[l]) = Len(F[l - 1]) + Len(pieces[l])
    BY FirstsAreSequences
  <2> HIDE DEF F, k
  <2> QED
    BY <2>1, <2>2, <1>1
<1>3. /\ Len(F[n]) <= Len(F[k])
      /\ \A i \in 1..Len(F[n]) : F[k][i] = F[n][i]
  BY <1>1, FirstsStay
<1>4. Concat(pieces) = F[k]
  BY DEF Concat
<1>6. pieces[n] \in Seq(S)
  OBVIOUS
<1> HIDE DEF F, k
<1>5. /\ Len(F[n - 1]) \in Nat
      /\ \A i \in 1..Len(pieces[n]) : /\ Len(F[n - 1]) + i \in 1..Len(F[n])
                                      /\ F[n][Len(F[n - 1]) + i] = pieces[n][i]
  <2> DEFINE a == F[n - 1]
             b == pieces[n]
             c == F[n]
  <2>1. a \in Seq(S) /\ b \in Seq(S) /\ c = a \o b
    BY <1>2, <1>6, Zenon
  <2>2. /\ Len(a) \in Nat
        /\ \A i \in 1..Len(b) : Len(a) + i \in 1..Len(c) /\ c[Len(a) + i] = b[i]
    <3> HIDE DEF a, b, c
    <3> QED
      BY <2>1, TwoPieces
  <2> QED
    BY <2>2, Zenon
<1>7. \A i \in 1..Len(pieces[n]) : F[k][Len(F[n - 1]) + i] = pieces[n][i]
  BY <1>3, <1>5
<1> QED
  BY <1>2, <1>3, <1>4, <1>5, <1>7 DEF F, k

LEMMA SumsEquation ==
    ASSUME NEW numbers \in Seq(Nat)
    PROVE  /\ Sums(numbers)[0] = 0
           /\ \A n \in 1..Len(numbers) : Sums(numbers)[n] = Sums(numbers)[n - 1] + numbers[n]
<1> DEFINE Grows(f, n) == f = [m \in 0..n |-> IF m = 0 THEN 0 ELSE f[m - 1] + numbers[m]]
           k == Len(numbers)
           T == {n \in Nat : \E f : Grows(f, n)}
<1>1. 0 \in T
  <2>1. Grows([m \in 0..0 |-> 0], 0)
    OBVIOUS
  <2> QED
    BY <2>1
<1>2. \A n \in Nat : n \in T => n + 1 \in T
  <2> SUFFICES ASSUME NEW n \in Nat, n \in T
               PROVE  n + 1 \in T
    OBVIOUS
  <2> PICK f : Grows(f, n)
    OBVIOUS
  <2> DEFINE g == [m \in 0..(n + 1) |-> IF m = n + 1 THEN f[n] + numbers[n + 1] ELSE f[m]]
  <2>1. \A m \in 0..n : g[m] = f[m]
    OBVIOUS
  <2>2. \A m \in 0..n : f[m] = IF m = 0 THEN 0 ELSE f[m - 1] + numbers[m]
    <3> SUFFICES ASSUME NEW m \in 0..n
                 PROVE  f[m] = IF m = 0 THEN 0 ELSE f[m - 1] + numbers[m]
      OBVIOUS
    <3> DEFINE h == [l \in 0..n |-> IF l = 0 THEN 0 ELSE f[l - 1] + numbers[l]]
    <3>1. f = h
      OBVIOUS
    <3>2. h[m] = IF m = 0 THEN 0 ELSE f[m - 1] + numbers[m]
      OBVIOUS
    <3> HIDE DEF h
    <3> QED
      BY <3>1, <3>2
  <2>3. \A m \in 0..(n + 1) : g[m] = IF m = 0 THEN 0 ELSE g[m - 1] + numbers[m]
    <3> SUFFICES ASSUME NEW m \in 0..(n + 1)
                 PROVE  g[m] = IF m = 0 THEN 0 ELSE g[m - 1] + numbers[m]
      OBVIOUS
    <3>1. CASE m = n + 1
      <4>1. m # 0 /\ m - 1 = n /\ n \in 0..n
        BY <3>1
      <4>2. g[m] = f[n] + numbers[n + 1]
        BY <3>1
      <4> HIDE DEF g
      <4> QED
        BY <3>1, <4>1, <4>2, <2>1
    <3>2. CASE m \in 1..n
      <4>1. m - 1 \in 0..n /\ m \in 0..n /\ m # 0
        BY <3>2
      <4> HIDE DEF g
      <4> QED
        BY <4>1, <2>1, <2>2
    <3>3. CASE m = 0
      BY <3>3, <2>1, <2>2
    <3> QED
      BY <3>1, <3>2, <3>3
  <2>4. Grows(g, n + 1)
    <3>1. g = [m \in 0..(n + 1) |-> g[m]]
      OBVIOUS
    <3> HIDE DEF g
    <3> QED
      BY <2>3, <3>1
  <2>5. \E e : Grows(e, n + 1)
    <3> HIDE DEF Grows, g
    <3> QED
      BY <2>4
  <2> HIDE DEF Grows
  <2> QED
    BY <2>5
<1>3. k \in T
  <2> HIDE DEF T
  <2> QED
    BY <1>1, <1>2, Induction
<1>4. Grows(Sums(numbers), k)
  BY <1>3 DEF Sums
<1> HIDE DEF k
<1>5. k \in Nat
  BY DEF k
<1> DEFINE h == [m \in 0..k |-> IF m = 0 THEN 0 ELSE Sums(numbers)[m - 1] + numbers[m]]
<1>6. Sums(numbers) = h
  BY <1>4
<1>7. \A m \in 0..k : h[m] = IF m = 0 THEN 0 ELSE Sums(numbers)[m - 1] + numbers[m]
  OBVIOUS
<1>8. 0 \in 0..k /\ \A n \in 1..k : n \in 0..k /\ n # 0
  BY <1>5
<1> HIDE DEF h
<1> QED
  BY <1>6, <1>7, <1>8 DEF k

LEMMA SumsAreNumbers ==
    ASSUME NEW numbers \in Seq(Nat)
    PROVE  (\A n \in 0..Len(numbers) : Sums(numbers)[n] \in Nat) /\ Total(numbers) \in Nat
<1> DEFINE F == Sums(numbers)
           k == Len(numbers)
           T == {n \in Nat : n <= k => F[n] \in Nat}
<1>1. F[0] = 0 /\ \A n \in 1..k : F[n] = F[n - 1] + numbers[n]
  BY SumsEquation
<1>2. k \in Nat /\ \A n \in 1..k : numbers[n] \in Nat
  OBVIOUS
<1>3. Total(numbers) = F[k]
  BY DEF Total
<1> HIDE DEF F, k
<1>4. 0 \in T
  BY <1>1
<1>5. \A n \in Nat : n \in T => n + 1 \in T
  <2> SUFFICES ASSUME NEW n \in Nat, F[n] \in Nat, n + 1 <= k
               PROVE  F[n + 1] \in Nat
    BY <1>2
  <2>1. n + 1 \in 1..k /\ (n + 1) - 1 = n
    BY <1>2
  <2>2. F[n + 1] = F[n] + numbers[n + 1] /\ numbers[n + 1] \in Nat
    BY <2>1, <1>1, <1>2
  <2> QED
    BY <2>2
<1>6. \A n \in Nat : n \in T
  <2> HIDE DEF T
  <2> QED
    BY <1>4, <1>5, Induction
<1>7. \A n \in 0..k : F[n] \in Nat
  BY <1>2, <1>6
<1>8. F[k] \in Nat
  BY <1>2, <1>7
<1> QED
  BY <1>3, <1>7, <1>8 DEF F, k

LEMMA TotalOfTwo ==
    ASSUME NEW a \in Seq(Nat), NEW b \in Seq(Nat), NEW c, c = a \o b
    PROVE  Total(c) = Total(a) + Total(b)
<1> DEFINE A == Sums(a)
           B == Sums(b)
           C == Sums(c)
           k == Len(a)
           l == Len(b)
           T == {n \in Nat : n <= k => C[n] = A[n]}
           U == {n \in Nat : n <= l => C[k + n] = A[k] + B[n]}
<1>1. /\ k \in Nat /\ l \in Nat /\ c \in Seq(Nat) /\ Len(c) = k + l
      /\ \A n \in 1..k : c[n] = a[n] /\ a[n] \in Nat
      /\ \A n \in 1..l : c[k + n] = b[n] /\ b[n] \in Nat
  BY TwoPieces
<1>2. /\ A[0] = 0 /\ \A n \in 1..k : A[n] = A[n - 1] + a[n]
      /\ B[0] = 0 /\ \A n \in 1..l : B[n] = B[n - 1] + b[n]
  BY SumsEquation
<1>3. C[0] = 0 /\ \A n \in 1..(k + l) : C[n] = C[n - 1] + c[n]
  BY <1>1, SumsEquation
<1>4. /\ \A n \in 0..k : A[n] \in Nat
      /\ \A n \in 0..l : B[n] \in Nat
  BY SumsAreNumbers
<1>5. Total(c) = C[k + l] /\ Total(a) = A[k] /\ Total(b) = B[l]
  BY <1>1 DEF Total
<1> HIDE DEF A, B, C, k, l
<1>6. \A n \in Nat : n \in T
  <2>1. 0 \in T
    BY <1>2, <1>3
  <2>2. \A n \in Nat : n \in T => n + 1 \in T
    <3> SUFFICES ASSUME NEW n \in Nat, n \in T
                 PROVE  n + 1 \in T
      OBVIOUS
    <3>1. ASSUME n + 1 <= k
          PROVE  C[n + 1] = A[n + 1]
      <4>1. n + 1 \in 1..k /\ n + 1 \in 1..(k + l) /\ (n + 1) - 1 = n /\ n <= k
        BY <1>1, <3>1
      <4>2. C[n + 1] = C[n] + c[n + 1] /\ A[n + 1] = A[n] + a[n + 1] /\ c[n + 1] = a[n + 1]
        BY <4>1, <1>1, <1>2, <1>3
      <4>3. C[n] = A[n]
        BY <4>1
      <4> QED
        BY <4>2, <4>3
    <3> QED
      BY <3>1
  <2> HIDE DEF T
  <2> QED
    BY <2>1, <2>2, Induction
<1>7. \A n \in Nat : n \in U
  <2>1. 0 \in U
    <3>1. k \in T /\ k + 0 = k /\ A[k] \in Nat
      BY <1>1, <1>4, <1>6
    <3> QED
      BY <3>1, <1>1, <1>2
  <2>2. \A n \in Nat : n \in U => n + 1 \in U
    <3> SUFFICES ASSUME NEW n \in Nat, n + 1 <= l, C[k + n] = A[k] + B[n]
                 PROVE  C[k + (n + 1)] = A[k] + B[n + 1]
      BY <1>1
    <3>1. /\ n + 1 \in 1..l /\ (n + 1) - 1 = n /\ n \in 0..l /\ k \in 0..k
          /\ k + (n + 1) \in 1..(k + l) /\ (k + (n + 1)) - 1 = k + n
      BY <1>1
    <3>2. /\ C[k + (n + 1)] = C[k + n] + b[n + 1]
          /\ B[n + 1] = B[n] + b[n + 1]
          /\ b[n + 1] \in Nat /\ B[n] \in Nat /\ A[k] \in Nat
      BY <3>1, <1>1, <1>2, <1>3, <1>4
    <3> QED
      BY <3>2
  <2> HIDE DEF U
  <2> QED
    BY <2>1, <2>2, Induction
<1>8. C[k + l] = A[k] + B[l]
  BY <1>1, <1>7
<1> QED
  BY <1>5, <1>8

\* Numbers that are all the same.
LEMMA TotalOfOnes ==
    ASSUME NEW numbers \in Seq(Nat), \A n \in 1..Len(numbers) : numbers[n] = 1
    PROVE  Total(numbers) = Len(numbers)
<1> DEFINE F == Sums(numbers)
           k == Len(numbers)
           T == {n \in Nat : n <= k => F[n] = n}
<1>1. F[0] = 0 /\ \A n \in 1..k : F[n] = F[n - 1] + 1
  BY SumsEquation
<1>2. k \in Nat
  OBVIOUS
<1>3. Total(numbers) = F[k]
  BY DEF Total
<1> HIDE DEF F, k
<1>4. 0 \in T
  BY <1>1
<1>5. \A n \in Nat : n \in T => n + 1 \in T
  <2> SUFFICES ASSUME NEW n \in Nat, F[n] = n, n + 1 <= k
               PROVE  F[n + 1] = n + 1
    BY <1>2
  <2>1. n + 1 \in 1..k /\ (n + 1) - 1 = n
    BY <1>2
  <2> QED
    BY <2>1, <1>1
<1>6. \A n \in Nat : n \in T
  <2> HIDE DEF T
  <2> QED
    BY <1>4, <1>5, Induction
<1> QED
  BY <1>2, <1>3, <1>6 DEF k

LEMMA TotalOfFew ==
    /\ Total(<<>>) = 0
    /\ \A a \in Nat : Total(<<a>>) = a
    /\ \A a, b \in Nat : Total(<<a, b>>) = a + b
<1>1. Total(<<>>) = 0
  <2>1. <<>> \in Seq(Nat) /\ Len(<<>>) = 0
    OBVIOUS
  <2> QED
    BY <2>1, SumsEquation DEF Total
<1>2. ASSUME NEW a \in Nat PROVE Total(<<a>>) = a
  <2> DEFINE s == <<a>>
  <2>1. s \in Seq(Nat) /\ Len(s) = 1 /\ s[1] = a
    OBVIOUS
  <2>2. Sums(s)[0] = 0 /\ \A n \in 1..Len(s) : Sums(s)[n] = Sums(s)[n - 1] + s[n]
    BY <2>1, SumsEquation
  <2>3. Total(s) = Sums(s)[1]
    BY <2>1 DEF Total
  <2> HIDE DEF s
  <2> QED
    BY <2>1, <2>2, <2>3 DEF s
<1>3. ASSUME NEW a \in Nat, NEW b \in Nat PROVE Total(<<a, b>>) = a + b
  <2> DEFINE s == <<a, b>>
  <2>1. s \in Seq(Nat) /\ Len(s) = 2 /\ s[1] = a /\ s[2] = b
    OBVIOUS
  <2>2. Sums(s)[0] = 0 /\ \A n \in 1..Len(s) : Sums(s)[n] = Sums(s)[n - 1] + s[n]
    BY <2>1, SumsEquation
  <2>3. Total(s) = Sums(s)[2]
    BY <2>1 DEF Total
  <2> HIDE DEF s
  <2>4. Sums(s)[1] = a /\ Sums(s)[2] = a + b
    BY <2>1, <2>2
  <2> QED
    BY <2>3, <2>4 DEF s
<1> QED
  BY <1>1, <1>2, <1>3

LEMMA TotalOfFive ==
    ASSUME NEW s \in Seq(Nat), Len(s) = 5
    PROVE  Total(s) = s[1] + s[2] + s[3] + s[4] + s[5]
<1>1. Sums(s)[0] = 0 /\ \A n \in 1..Len(s) : Sums(s)[n] = Sums(s)[n - 1] + s[n]
  BY SumsEquation
<1>2. Total(s) = Sums(s)[5]
  BY DEF Total
<1>3. s[1] \in Nat /\ s[2] \in Nat /\ s[3] \in Nat /\ s[4] \in Nat /\ s[5] \in Nat
  <2>1. \A t \in Seq(Nat) : \A n \in 1..Len(t) : t[n] \in Nat
    OBVIOUS
  <2>2. \A n \in 1..5 : s[n] \in Nat
    BY <2>1, Zenon
  <2> QED
    BY <2>2
<1>4. Sums(s)[1] = s[1] /\ Sums(s)[2] = s[1] + s[2] /\ Sums(s)[3] = s[1] + s[2] + s[3]
  BY <1>1, <1>3
<1>5. /\ Sums(s)[4] = s[1] + s[2] + s[3] + s[4]
      /\ Sums(s)[5] = s[1] + s[2] + s[3] + s[4] + s[5]
  BY <1>1, <1>3, <1>4
<1> QED
  BY <1>2, <1>5

-----------------------------------------------------------------------------
(* The length field *)

LEMMA LengthsAreNat == \A n \in 0..MaxLength : n \in Nat /\ n <= MaxLength
<1>1. MaxLength \in Nat
  BY SMTT(20) DEF MaxLength
<1> QED
  BY <1>1

\* The n-th digit of a length
Digit(length, n) == (length \div Place[n]) % 128

\* One digit is taken off a number
LEMMA OneDigit ==
    ASSUME NEW n \in Nat
    PROVE  /\ n \div 128 \in Nat
           /\ n % 128 \in Nat /\ n % 128 < 128
           /\ n = 128 * (n \div 128) + (n % 128)
  BY SMTT(20)

LEMMA DigitsAddUp ==
    ASSUME NEW n \in Nat, n <= MaxLength
    PROVE  /\ \A i \in 1..4 : Digit(n, i) \in Nat /\ Digit(n, i) < 128
           /\ n = Digit(n, 1) + Digit(n, 2) * 128 + Digit(n, 3) * 16384 + Digit(n, 4) * 2097152
           /\ n < 128 => Digit(n, 2) = 0
           /\ n < 16384 => Digit(n, 3) = 0
           /\ n < 2097152 => Digit(n, 4) = 0
<1> DEFINE q1 == n \div 128
           q2 == q1 \div 128
           q3 == q2 \div 128
<1>1. q1 \in Nat /\ q2 \in Nat /\ q3 \in Nat
  BY OneDigit
<1>2. /\ n = 128 * q1 + (n % 128)
      /\ q1 = 128 * q2 + (q1 % 128)
      /\ q2 = 128 * q3 + (q2 % 128)
  BY <1>1, OneDigit
<1>3. /\ n % 128 \in Nat /\ n % 128 < 128
      /\ q1 % 128 \in Nat /\ q1 % 128 < 128
      /\ q2 % 128 \in Nat /\ q2 % 128 < 128
      /\ q3 % 128 \in Nat /\ q3 % 128 < 128
  BY <1>1, OneDigit
<1>4. /\ Digit(n, 1) = n % 128
      /\ Digit(n, 2) = q1 % 128
      /\ Digit(n, 3) = q2 % 128
      /\ Digit(n, 4) = q3 % 128
  BY SMTT(20) DEF Digit, Place
<1> HIDE DEF q1, q2, q3
<1>5. q3 < 128
  BY <1>1, <1>2, <1>3, SMTT(20) DEF MaxLength
<1>6. q3 % 128 = q3
  BY <1>1, <1>5, OneDigit
<1>7. n = (n % 128) + (q1 % 128) * 128 + (q2 % 128) * 16384 + (q3 % 128) * 2097152
  BY <1>1, <1>2, <1>3, <1>6, SMTT(20)
<1>8. /\ n < 128 => q1 % 128 = 0
      /\ n < 16384 => q2 % 128 = 0
      /\ n < 2097152 => q3 % 128 = 0
  BY <1>3, <1>7, SMTT(20)
<1>9. \A i \in 1..4 : Digit(n, i) \in Nat /\ Digit(n, i) < 128
  <2> TAKE i \in 1..4
  <2>1. i = 1 \/ i = 2 \/ i = 3 \/ i = 4
    OBVIOUS
  <2> QED
    BY <2>1, <1>3, <1>4
<1>10. n = Digit(n, 1) + Digit(n, 2) * 128 + Digit(n, 3) * 16384 + Digit(n, 4) * 2097152
  BY <1>4, <1>7, SMTT(20)
<1> QED
  BY <1>4, <1>8, <1>9, <1>10, SMTT(20)

LEMMA EncodeShape ==
    ASSUME NEW n \in Nat, n <= MaxLength
    PROVE  /\ Digits(n) \in 1..4
           /\ DOMAIN encode(n) = 1..Digits(n)
           /\ Len(encode(n)) = Digits(n)
           /\ \A i \in 1..Digits(n) :
                 encode(n)[i] = Digit(n, i) + (IF i < Digits(n) THEN 128 ELSE 0)
<1>1. Digits(n) \in 1..4
  BY SMTT(20) DEF Digits
<1>2. encode(n) = [i \in 1..Digits(n) |-> Digit(n, i) + (IF i < Digits(n) THEN 128 ELSE 0)]
  BY DEF encode, Digit
<1>3. Len(encode(n)) = Digits(n)
  BY <1>1, <1>2
<1> QED
  BY <1>1, <1>2, <1>3

\* MQTTPacket_decodeBuf() finds in the length field what MQTTPacket_encode() put
\* there, and how long it is, for every length MQTT allows.
THEOREM LengthSurvives ==
    \A n \in 0..MaxLength : decode(encode(n)) = [value |-> n, len |-> Len(encode(n))]
<1> SUFFICES ASSUME NEW n \in Nat, n <= MaxLength
             PROVE  decode(encode(n)) = [value |-> n, len |-> Len(encode(n))]
  BY LengthsAreNat
<1> DEFINE k == Digits(n)
           s == encode(n)
<1>1. /\ k \in 1..4
      /\ Len(s) = k
      /\ \A i \in 1..k : s[i] = Digit(n, i) + (IF i < k THEN 128 ELSE 0)
  BY EncodeShape
<1>2. \A i \in 1..4 : Digit(n, i) \in Nat /\ Digit(n, i) < 128
  BY DigitsAddUp, SMTT(20)
<1>3. \A i \in 1..4 : i > k => Digit(n, i) = 0
  <2>1. /\ n < 128 => Digit(n, 2) = 0
        /\ n < 16384 => Digit(n, 3) = 0
        /\ n < 2097152 => Digit(n, 4) = 0
    BY DigitsAddUp, SMTT(20)
  <2>2. /\ k < 2 => n < 128
        /\ k < 3 => n < 16384
        /\ k < 4 => n < 2097152
    BY SMTT(20) DEF Digits
  <2> HIDE DEF k
  <2> TAKE i \in 1..4
  <2>3. i = 1 \/ i = 2 \/ i = 3 \/ i = 4
    OBVIOUS
  <2> QED
    BY <2>1, <2>2, <2>3, <1>1, SMTT(20)
<1> HIDE DEF k, s
<1>4. \A i \in 1..k : s[i] < 128 <=> i = k
  BY <1>1, <1>2, SMTT(20)
<1>5. Lasts(s) = {k}
  BY <1>1, <1>4 DEF Lasts
<1>6. \A i \in 1..4 : Counts(s, i) <=> i <= k
  BY <1>1, <1>5 DEF Counts
<1>7. \A i \in 1..k : s[i] % 128 = Digit(n, i)
  BY <1>1, <1>2, SMTT(20)
<1>8. \A i \in 1..4 : Worth(s, i) = Digit(n, i) * Place[i]
  <2>1. \A i \in 1..4 : Place[i] \in Nat
    BY SMTT(20) DEF Place
  <2> TAKE i \in 1..4
  <2>2. CASE i <= k
    BY <2>2, <1>1, <1>6, <1>7 DEF Worth
  <2>3. CASE i > k
    BY <2>1, <2>3, <1>1, <1>3, <1>6, SMTT(20) DEF Worth
  <2> QED
    BY <2>2, <2>3, <1>1
<1>9. Worth(s, 1) + Worth(s, 2) + Worth(s, 3) + Worth(s, 4) = n
  <2>1. Place[1] = 1 /\ Place[2] = 128 /\ Place[3] = 16384 /\ Place[4] = 2097152
    BY SMTT(20) DEF Place
  <2> QED
    BY <2>1, <1>2, <1>8, DigitsAddUp, SMTT(20)
<1>10. (CHOOSE i \in Lasts(s) : Counts(s, i)) = k
  BY <1>1, <1>5, <1>6
<1> QED
  BY <1>1, <1>5, <1>9, <1>10 DEF decode, k, s

\* MQTTPacket_len(), which every serialiser compares with the size of its buffer,
\* is the length of the packet or one more.
THEOREM LengthBound ==
    \A n \in 0..MaxLength :
        LET exact == 1 + Len(encode(n)) + n
        IN  exact <= MQTTPacket_len(n) /\ MQTTPacket_len(n) <= exact + 1
<1> SUFFICES ASSUME NEW n \in Nat, n <= MaxLength
             PROVE  /\ 1 + Digits(n) + n <= MQTTPacket_len(n)
                    /\ MQTTPacket_len(n) <= 1 + Digits(n) + n + 1
  BY LengthsAreNat, EncodeShape
<1> QED
  BY SMTT(20) DEF Digits, MQTTPacket_len

-----------------------------------------------------------------------------
(* The reader *)

LEMMA PacketFacts ==
    ASSUME NEW ps \in Arriving, NEW n \in 1..Len(ps)
    PROVE  /\ ps \in Seq([type : 0..15, digits : Seq(0..255), rest : Nat])
           /\ ps[n].type \in 0..15 /\ ps[n].digits \in Seq(0..255) /\ ps[n].rest \in Nat
           /\ Len(ps[n].digits) \in Nat \ {0}
           /\ \A i \in 1..Len(ps[n].digits) : ps[n].digits[i] < 128 <=> i = Len(ps[n].digits)
           /\ Len(ps[n].digits) <= 4 => decode(ps[n].digits).value = ps[n].rest
<1> DEFINE p == ps[n]
           P == [type : 0..15, digits : Seq(0..255), rest : Nat]
<1>1. ps \in Seq(P) /\ n \in DOMAIN ps /\ p \in P
  <2>1. ps \in Seq(P)
    BY ReaderAssumption, Zenon
  <2> HIDE DEF P
  <2> QED
    BY <2>1
<1>2. /\ \A i \in DOMAIN p.digits : p.digits[i] < 128 <=> i = Len(p.digits)
      /\ p.digits # <<>>
      /\ Len(p.digits) <= 4 => decode(p.digits).value = p.rest
  BY <1>1, ReaderAssumption, Zenon
<1> HIDE DEF p
<1>3. p.type \in 0..15 /\ p.digits \in Seq(0..255) /\ p.rest \in Nat
  BY <1>1
<1>4. DOMAIN p.digits = 1..Len(p.digits) /\ Len(p.digits) \in Nat \ {0}
  BY <1>2, <1>3
<1> QED
  BY <1>1, <1>2, <1>3, <1>4, Zenon DEF p

LEMMA BytesOfPacket ==
    ASSUME NEW ps \in Arriving, NEW n \in 1..Len(ps)
    PROVE  /\ BytesOf(ps[n]) \in Seq(0..255)
           /\ Len(BytesOf(ps[n])) = 1 + Len(ps[n].digits) + ps[n].rest
           /\ BytesOf(ps[n])[1] = ps[n].type
           /\ \A i \in 1..Len(ps[n].digits) : BytesOf(ps[n])[1 + i] = ps[n].digits[i]
<1> DEFINE p == ps[n]
           a == << p.type >>
           b == p.digits
           c == [m \in 1..p.rest |-> 0]
           ab == a \o b
           abc == ab \o c
<1>1. p.type \in 0..15 /\ p.digits \in Seq(0..255) /\ p.rest \in Nat
  BY PacketFacts, Zenon
<1> HIDE DEF p
<1>2. /\ a \in Seq(0..255) /\ Len(a) = 1 /\ a[1] = p.type
      /\ b \in Seq(0..255)
      /\ c \in Seq(0..255) /\ Len(c) = p.rest
  BY <1>1
<1>3. BytesOf(p) = abc
  BY DEF BytesOf
<1>4. ab = a \o b /\ abc = ab \o c
  OBVIOUS
<1> HIDE DEF a, b, c, ab, abc
<1>5. /\ ab \in Seq(0..255) /\ Len(b) \in Nat /\ Len(ab) = Len(a) + Len(b)
      /\ \A i \in 1..Len(a) : ab[i] = a[i]
      /\ \A i \in 1..Len(b) : Len(a) + i \in 1..Len(ab) /\ ab[Len(a) + i] = b[i]
  <2>1. a \in Seq(0..255) /\ b \in Seq(0..255) /\ ab = a \o b
    BY <1>2, <1>4
  <2> QED
    BY <2>1, TwoPieces
<1>6. /\ abc \in Seq(0..255) /\ Len(abc) = Len(ab) + Len(c)
      /\ \A i \in 1..Len(ab) : abc[i] = ab[i]
  <2>1. ab \in Seq(0..255) /\ c \in Seq(0..255) /\ abc = ab \o c
    BY <1>2, <1>4, <1>5, Zenon
  <2> QED
    BY <2>1, TwoPieces
<1>7. /\ 1 \in 1..Len(ab) /\ 1 \in 1..Len(a)
      /\ \A i \in 1..Len(b) : 1 + i \in 1..Len(ab) /\ ab[1 + i] = b[i]
  BY <1>2, <1>5
<1> QED
  <2>1. abc[1] = p.type /\ \A i \in 1..Len(b) : abc[1 + i] = b[i]
    BY <1>2, <1>5, <1>6, <1>7
  <2>2. Len(abc) = 1 + Len(b) + p.rest
    BY <1>2, <1>5, <1>6
  <2> QED
    BY <1>3, <1>6, <2>1, <2>2 DEF p, b

LEMMA PiecesShape ==
    ASSUME NEW ps \in Arriving
    PROVE  /\ Pieces(ps) \in Seq(Seq(0..255))
           /\ Len(Pieces(ps)) = Len(ps) /\ Len(ps) \in Nat
           /\ \A n \in 1..Len(ps) : Pieces(ps)[n] = BytesOf(ps[n])
<1>1. ps \in Seq([type : 0..15, digits : Seq(0..255), rest : Nat])
  BY ReaderAssumption
<1>2. DOMAIN ps = 1..Len(ps) /\ Len(ps) \in Nat
  BY <1>1
<1>3. \A n \in 1..Len(ps) : BytesOf(ps[n]) \in Seq(0..255)
  BY BytesOfPacket
<1> QED
  BY <1>2, <1>3 DEF Pieces

\* Where a packet is in the stream.
LEMMA PacketInPlace ==
    ASSUME packets \in Arriving, stream = StreamOf(packets), NEW n \in 1..Len(packets)
    PROVE  /\ EndOf(n - 1) \in Nat /\ EndOf(n) \in Nat
           /\ EndOf(n) = EndOf(n - 1) + 1 + Len(packets[n].digits) + packets[n].rest
           /\ EndOf(n) <= Len(stream)
           /\ stream[EndOf(n - 1) + 1] = packets[n].type
           /\ \A i \in 1..Len(packets[n].digits) :
                 stream[EndOf(n - 1) + 1 + i] = packets[n].digits[i]
<1> DEFINE pieces == Pieces(packets)
           d == Len(packets[n].digits)
           r == packets[n].rest
           e == EndOf(n - 1)
<1>1. /\ pieces \in Seq(Seq(0..255)) /\ n \in 1..Len(pieces)
      /\ pieces[n] = BytesOf(packets[n])
      /\ stream = Concat(pieces)
  BY PiecesShape DEF StreamOf
<1>2. EndOf(n) = Len(Firsts(pieces)[n]) /\ e = Len(Firsts(pieces)[n - 1])
  BY DEF EndOf
<1>3. /\ e \in Nat
      /\ EndOf(n) = e + Len(pieces[n])
      /\ EndOf(n) <= Len(stream)
      /\ \A i \in 1..Len(pieces[n]) : stream[e + i] = pieces[n][i]
  <2> HIDE DEF pieces, e
  <2>1. /\ Len(Firsts(pieces)[n - 1]) \in Nat
        /\ Len(Firsts(pieces)[n]) = Len(Firsts(pieces)[n - 1]) + Len(pieces[n])
        /\ Len(Firsts(pieces)[n]) <= Len(Concat(pieces))
        /\ \A i \in 1..Len(pieces[n]) :
              Concat(pieces)[Len(Firsts(pieces)[n - 1]) + i] = pieces[n][i]
    BY <1>1, PieceInPlace
  <2> QED
    BY <1>1, <1>2, <2>1
<1>4. /\ Len(pieces[n]) = 1 + d + r
      /\ pieces[n][1] = packets[n].type
      /\ \A i \in 1..d : pieces[n][1 + i] = packets[n].digits[i]
  <2>1. /\ Len(BytesOf(packets[n])) = 1 + d + r
        /\ BytesOf(packets[n])[1] = packets[n].type
        /\ \A i \in 1..d : BytesOf(packets[n])[1 + i] = packets[n].digits[i]
    BY BytesOfPacket
  <2> HIDE DEF pieces, d, r
  <2> QED
    BY <1>1, <2>1
<1>5. d \in Nat /\ r \in Nat
  BY PacketFacts
<1> HIDE DEF pieces, d, r, e
<1>6. 1 \in 1..Len(pieces[n]) /\ \A i \in 1..d : 1 + i \in 1..Len(pieces[n]) /\ e + 1 + i = e + (1 + i)
  BY <1>3, <1>4, <1>5
<1>7. stream[e + 1] = packets[n].type
  BY <1>3, <1>4, <1>6
<1>8. \A i \in 1..d : stream[e + 1 + i] = packets[n].digits[i]
  BY <1>3, <1>4, <1>6
<1>9. EndOf(n) = e + 1 + d + r /\ EndOf(n) \in Nat
  BY <1>3, <1>4, <1>5
<1> QED
  BY <1>3, <1>7, <1>8, <1>9 DEF d, r, e

LEMMA StreamEnds ==
    ASSUME packets \in Arriving, stream = StreamOf(packets)
    PROVE  /\ stream \in Seq(0..255)
           /\ EndOf(0) = 0
           /\ EndOf(Len(packets)) = Len(stream)
           /\ \A n \in 0..Len(packets) : EndOf(n) <= Len(stream) /\ EndOf(n) \in Nat
<1> DEFINE pieces == Pieces(packets)
<1>1. pieces \in Seq(Seq(0..255)) /\ Len(pieces) = Len(packets) /\ Len(packets) \in Nat
  BY PiecesShape
<1>2. stream = Firsts(pieces)[Len(packets)]
  BY <1>1 DEF StreamOf, Concat
<1>3. EndOf(Len(packets)) = Len(stream)
  BY <1>2 DEF EndOf
<1>4. stream \in Seq(0..255)
  <2> HIDE DEF pieces
  <2> QED
    <3>1. \A n \in 0..Len(pieces) : Firsts(pieces)[n] \in Seq(0..255)
      BY <1>1, FirstsAreSequences
    <3> QED
      BY <1>1, <1>2, <3>1
<1>5. EndOf(0) = 0
  <2>1. Firsts(pieces)[0] = <<>>
    BY <1>1, FirstsEquation, Zenon
  <2> QED
    BY <2>1 DEF EndOf
<1>6. \A n \in 1..Len(packets) : EndOf(n) <= Len(stream) /\ EndOf(n) \in Nat
  BY PacketInPlace
<1>7. Len(stream) \in Nat
  BY <1>4
<1>8. ASSUME NEW n \in 0..Len(packets) PROVE EndOf(n) <= Len(stream) /\ EndOf(n) \in Nat
  BY <1>1, <1>5, <1>6, <1>7, <1>8
<1> QED
  BY <1>3, <1>4, <1>5, <1>8

LEMMA InSequence ==
    ASSUME NEW S, NEW s \in Seq(S), NEW i \in 1..Len(s)
    PROVE  s[i] \in S
  OBVIOUS

\* The most that one digit of four is worth
Top == [i \in 1..4 |-> 127 * Place[i]]

LEMMA OneWorth ==
    ASSUME NEW i \in 1..4, NEW d \in 0..127
    PROVE  d * Place[i] \in 0..Top[i] /\ 0 \in 0..Top[i]
<1>1. Place[1] = 1 /\ Place[2] = 128 /\ Place[3] = 16384 /\ Place[4] = 2097152
  BY SMTT(20) DEF Place
<1>2. i = 1 \/ i = 2 \/ i = 3 \/ i = 4
  BY SMTT(20)
<1> QED
  BY <1>1, <1>2, SMTT(20) DEF Top

LEMMA TopsAddUp ==
    /\ Top[1] \in Nat /\ Top[2] \in Nat /\ Top[3] \in Nat /\ Top[4] \in Nat
    /\ Top[1] + Top[2] + Top[3] + Top[4] = MaxLength
<1>1. Place[1] = 1 /\ Place[2] = 128 /\ Place[3] = 16384 /\ Place[4] = 2097152
  BY SMTT(20) DEF Place
<1> QED
  BY <1>1, SMTT(20) DEF MaxLength, Top

LEMMA DigitsWorth ==
    ASSUME NEW digits \in Seq(0..255), digits # <<>>,
           \A i \in 1..Len(digits) : digits[i] < 128 <=> i = Len(digits)
    PROVE  \A i \in 1..4 : /\ Worth(digits, i) = IF i <= Len(digits) THEN (digits[i] % 128) * Place[i] ELSE 0
                           /\ Worth(digits, i) \in 0..Top[i]
<1> DEFINE k == Len(digits)
<1>1. k \in Nat /\ k > 0
  OBVIOUS
<1>2. Lasts(digits) = IF k <= 4 THEN {k} ELSE {}
  BY <1>1 DEF Lasts
<1>3. \A i \in 1..4 : i <= k => Counts(digits, i)
  BY <1>1, <1>2 DEF Counts
<1>4. \A i \in 1..4 : Worth(digits, i) = IF i <= k THEN (digits[i] % 128) * Place[i] ELSE 0
  BY <1>3, SMTT(20) DEF Worth
<1>5. ASSUME NEW i \in 1..4, i <= k
      PROVE  digits[i] % 128 \in 0..127
  <2>1. i \in 1..Len(digits)
    BY <1>1, <1>5
  <2>2. digits[i] \in 0..255
    BY <2>1, InSequence, Zenon
  <2>3. \A n \in 0..255 : n % 128 \in 0..127
    BY OneDigit
  <2> QED
    BY <2>2, <2>3, Zenon
<1>6. ASSUME NEW i \in 1..4
      PROVE  Worth(digits, i) \in 0..Top[i]
  <2> HIDE DEF k
  <2>1. CASE i <= k
    BY <2>1, <1>4, <1>5, OneWorth, Zenon
  <2>2. CASE ~(i <= k)
    <3>1. 0 \in 0..127
      OBVIOUS
    <3> QED
      BY <2>2, <3>1, <1>4, OneWorth, Zenon
  <2> QED
    BY <2>1, <2>2, Zenon
<1> QED
  BY <1>4, <1>6, Zenon DEF k

\* What the digits of a length are worth, one after the other.
LEMMA WorthSoFar ==
    ASSUME NEW digits \in Seq(0..255), digits # <<>>,
           \A i \in 1..Len(digits) : digits[i] < 128 <=> i = Len(digits)
    PROVE  /\ WorthOf(digits, 0) = 0
           /\ \A l \in 0..3 : l < Len(digits) =>
                 WorthOf(digits, l + 1) = WorthOf(digits, l) + (digits[l + 1] % 128) * Place[l + 1]
           /\ \A l \in 0..4 : WorthOf(digits, l) \in 0..MaxLength
           /\ Len(digits) <= 4 => WorthOf(digits, Len(digits)) = decode(digits).value
<1> DEFINE k == Len(digits)
           w1 == Worth(digits, 1)
           w2 == Worth(digits, 2)
           w3 == Worth(digits, 3)
           w4 == Worth(digits, 4)
           D(i) == (digits[i] % 128) * Place[i]
<1>1. k \in Nat /\ k > 0
  OBVIOUS
<1>2. /\ w1 \in Nat /\ w2 \in Nat /\ w3 \in Nat /\ w4 \in Nat
      /\ 0 \in 0..MaxLength /\ w1 \in 0..MaxLength /\ w1 + w2 \in 0..MaxLength
      /\ w1 + w2 + w3 \in 0..MaxLength /\ w1 + w2 + w3 + w4 \in 0..MaxLength
  <2>1. 1 \in 1..4 /\ 2 \in 1..4 /\ 3 \in 1..4 /\ 4 \in 1..4
    OBVIOUS
  <2>2. w1 \in 0..Top[1] /\ w2 \in 0..Top[2] /\ w3 \in 0..Top[3] /\ w4 \in 0..Top[4]
    BY <2>1, DigitsWorth, Zenon
  <2> DEFINE t1 == Top[1]
             t2 == Top[2]
             t3 == Top[3]
             t4 == Top[4]
             m  == MaxLength
  <2>3. /\ t1 \in Nat /\ t2 \in Nat /\ t3 \in Nat /\ t4 \in Nat /\ t1 + t2 + t3 + t4 = m
        /\ w1 \in 0..t1 /\ w2 \in 0..t2 /\ w3 \in 0..t3 /\ w4 \in 0..t4
    BY <2>2, TopsAddUp, Zenon
  <2>4. /\ w1 \in Nat /\ w2 \in Nat /\ w3 \in Nat /\ w4 \in Nat
        /\ 0 \in 0..m /\ w1 \in 0..m /\ w1 + w2 \in 0..m
        /\ w1 + w2 + w3 \in 0..m /\ w1 + w2 + w3 + w4 \in 0..m
    <3> HIDE DEF t1, t2, t3, t4, m, w1, w2, w3, w4
    <3> QED
      BY <2>3
  <2> QED
    BY <2>4, Zenon
<1>3. /\ w1 = IF 1 <= k THEN D(1) ELSE 0
      /\ w2 = IF 2 <= k THEN D(2) ELSE 0
      /\ w3 = IF 3 <= k THEN D(3) ELSE 0
      /\ w4 = IF 4 <= k THEN D(4) ELSE 0
  <2>1. \A i \in 1..4 : Worth(digits, i) = IF i <= k THEN D(i) ELSE 0
    BY DigitsWorth, Zenon
  <2>2. 1 \in 1..4 /\ 2 \in 1..4 /\ 3 \in 1..4 /\ 4 \in 1..4
    OBVIOUS
  <2> QED
    BY <2>1, <2>2, Zenon
<1>4. decode(digits).value = w1 + w2 + w3 + w4
  BY Zenon DEF decode
<1>5. \A n \in 0..4 : WorthOf(digits, n) = (IF 1 <= n THEN w1 ELSE 0) + (IF 2 <= n THEN w2 ELSE 0)
                                      + (IF 3 <= n THEN w3 ELSE 0) + (IF 4 <= n THEN w4 ELSE 0)
  BY Zenon DEF WorthOf
<1> HIDE DEF k, w1, w2, w3, w4, D
<1>6. /\ WorthOf(digits, 0) = 0
      /\ WorthOf(digits, 1) = w1
      /\ WorthOf(digits, 2) = w1 + w2
      /\ WorthOf(digits, 3) = w1 + w2 + w3
      /\ WorthOf(digits, 4) = w1 + w2 + w3 + w4
  BY <1>2, <1>5, SMTT(20)
<1>7. \A l \in 0..3 : l < k => WorthOf(digits, l + 1) = WorthOf(digits, l) + D(l + 1)
  <2>1. ASSUME NEW l \in 0..3, l < k
        PROVE  WorthOf(digits, l + 1) = WorthOf(digits, l) + D(l + 1)
    <3>1. l = 0 \/ l = 1 \/ l = 2 \/ l = 3
      BY SMTT(20)
    <3>2. l + 1 <= k
      BY <2>1, <1>1, SMTT(20)
    <3>3. CASE l = 0
      BY <3>2, <3>3, <1>2, <1>3, <1>6, SMTT(20)
    <3>4. CASE l = 1
      BY <3>2, <3>4, <1>2, <1>3, <1>6, SMTT(20)
    <3>5. CASE l = 2
      BY <3>2, <3>5, <1>2, <1>3, <1>6, SMTT(20)
    <3>6. CASE l = 3
      BY <3>2, <3>6, <1>2, <1>3, <1>6, SMTT(20)
    <3> QED
      BY <3>1, <3>3, <3>4, <3>5, <3>6, Zenon
  <2> QED
    BY <2>1
<1>8. \A l \in 0..4 : WorthOf(digits, l) \in 0..MaxLength
  <2>2. \A l \in 0..4 : l = 0 \/ l = 1 \/ l = 2 \/ l = 3 \/ l = 4
    BY SMTT(20)
  <2> QED
    BY <2>2, <1>2, <1>6, Zenon
<1>9. k <= 4 => WorthOf(digits, k) = w1 + w2 + w3 + w4
  <2> HAVE k <= 4
  <2>1. k = 1 \/ k = 2 \/ k = 3 \/ k = 4
    BY <1>1, SMTT(20)
  <2> QED
    BY <2>1, <1>2, <1>3, <1>6, SMTT(20)
<1> QED
  BY <1>4, <1>6, <1>7, <1>8, <1>9, Zenon DEF k, D

\* The reader's invariant, and that its stream stays the same
ReaderIInv == ReaderInv /\ stream = StreamOf(packets)

LEMMA WholeTypes ==
    ASSUME NEW ps \in Arriving, NEW types \in Seq(0..15), Len(types) <= Len(ps)
    PROVE  LET whole == SubSeq(ps, 1, Len(types))
           IN  types = [n \in DOMAIN whole |-> whole[n].type]
               <=> \A n \in 1..Len(types) : types[n] = ps[n].type
<1> DEFINE r == Len(types)
           P == [type : 0..15, digits : Seq(0..255), rest : Nat]
           whole == SubSeq(ps, 1, r)
           right == [n \in DOMAIN whole |-> whole[n].type]
<1>1. ps \in Seq(P)
  BY ReaderAssumption, Zenon
<1>2. r \in Nat /\ r <= Len(ps)
  OBVIOUS
<1>3. DOMAIN whole = 1..r /\ \A n \in 1..r : whole[n] = ps[n]
  <2> HIDE DEF P, r
  <2> QED
    BY <1>1, <1>2
<1>4. DOMAIN right = 1..r /\ \A n \in 1..r : right[n] = ps[n].type
  <2> HIDE DEF whole
  <2> QED
    BY <1>3
<1>5. types = [n \in 1..r |-> types[n]]
  OBVIOUS
<1>6. right = [n \in 1..r |-> right[n]]
  <2> HIDE DEF whole
  <2> QED
    BY <1>3
<1> HIDE DEF right, r
<1>7. ASSUME \A n \in 1..r : types[n] = ps[n].type
      PROVE  types = right
  <2>1. \A n \in 1..r : types[n] = right[n]
    BY <1>4, <1>7
  <2> QED
    BY <2>1, <1>5, <1>6
<1>8. ASSUME types = right
      PROVE  \A n \in 1..r : types[n] = ps[n].type
  BY <1>4, <1>8
<1> QED
  BY <1>7, <1>8, Zenon DEF right, r

\* While it has not failed: what is left to read belongs to the next packet.
LEMMA NextPacket ==
    ASSUME ReaderIInv, Reading
    PROVE  /\ packets \in Arriving
           /\ Len(returned) \in Nat /\ Len(returned) + 1 \in 1..Len(packets)
           /\ (Len(returned) + 1) - 1 = Len(returned)
<1>1. /\ packets \in Arriving /\ stream = StreamOf(packets)
      /\ at \in 0..Len(stream) /\ at < Len(stream)
      /\ returned \in Seq(0..15) /\ state \in 0..2
      /\ Len(returned) <= Len(packets)
      /\ state = 0 => at = EndOf(Len(returned))
      /\ state # 0 => Len(returned) < Len(packets)
  BY DEF ReaderIInv, ReaderInv, ReaderTypeOK, ReaderInStep, ReaderKnows, Reading
<1>2. Len(returned) \in Nat /\ Len(packets) \in Nat
  BY <1>1, PiecesShape
<1>3. Len(returned) # Len(packets)
  <2>1. EndOf(Len(packets)) = Len(stream)
    BY <1>1, StreamEnds
  <2>2. ASSUME Len(returned) = Len(packets), state = 0 PROVE FALSE
    <3>1. at = Len(stream)
      BY <1>1, <2>1, <2>2
    <3>2. Len(stream) \in Nat
      BY <1>1, StreamEnds
    <3> QED
      BY <1>1, <3>1, <3>2
  <2> QED
    BY <1>1, <1>2, <2>2
<1> QED
  BY <1>1, <1>2, <1>3

\* After a failure nothing but the types matters.
LEMMA FailureKeeps ==
    ASSUME ReaderIInv, Fails, UNCHANGED <<packets, stream, header>>,
           at' \in 0..Len(stream), len' \in Nat, rem_len' \in 0..MaxLength,
           multiplier' \in {1} \union {128 * Place[n] : n \in 1..4}
    PROVE  ReaderIInv'
<1>1. ReaderTypeOK'
  <2>1. state' = 0 /\ 0 \in 0..2
    BY DEF Fails
  <2> QED
    BY <2>1, Zenon DEF Fails, ReaderIInv, ReaderInv, ReaderTypeOK
<1>2. (stream = StreamOf(packets))'
  BY DEF ReaderIInv
<1>3. ReaderInStep' /\ ReaderKnows' /\ ReaderFits'
  BY DEF Fails, ReaderInStep, ReaderKnows, ReaderFits
<1> QED
  BY <1>1, <1>2, <1>3 DEF ReaderIInv, ReaderInv

\* When a packet is there, its type is returned and the reader is where it ends.
LEMMA ReturnKeeps ==
    ASSUME ReaderIInv, Reading, ReturnsPacket, UNCHANGED <<packets, stream, header>>,
           header = packets[Len(returned) + 1].type,
           at' = EndOf(Len(returned) + 1), len' \in Nat, rem_len' \in 0..MaxLength,
           multiplier' \in {1} \union {128 * Place[n] : n \in 1..4}
    PROVE  ReaderIInv'
<1> DEFINE n == Len(returned) + 1
<1>1. packets \in Arriving /\ n \in 1..Len(packets) /\ Len(returned) \in Nat
  BY NextPacket
<1>2. /\ returned \in Seq(0..15) /\ header \in 0..15 /\ stream = StreamOf(packets)
      /\ \A m \in 1..Len(returned) : returned[m] = packets[m].type
  <2>1. /\ returned \in Seq(0..15) /\ header \in 0..15 /\ stream = StreamOf(packets)
        /\ Len(returned) <= Len(packets)
        /\ returned = [m \in DOMAIN Whole |-> Whole[m].type]
    BY DEF ReaderIInv, ReaderInv, ReaderTypeOK, ReaderInStep, Reading
  <2>2. Whole = SubSeq(packets, 1, Len(returned))
    BY DEF Whole
  <2> QED
    BY <2>1, <2>2, <1>1, WholeTypes
<1>3. /\ returned' \in Seq(0..15) /\ Len(returned') = n
      /\ \A m \in 1..n : returned'[m] = packets[m].type
  <2>1. returned' = Append(returned, header)
    BY DEF ReturnsPacket
  <2>2. /\ returned' \in Seq(0..15) /\ Len(returned') = Len(returned) + 1
        /\ returned'[Len(returned) + 1] = header
        /\ \A m \in 1..Len(returned) : returned'[m] = returned[m]
    BY <2>1, <1>2
  <2>3. \A m \in 1..n : m = Len(returned) + 1 \/ m \in 1..Len(returned)
    BY <1>1
  <2> QED
    BY <2>2, <2>3, <1>2
<1>4. state' = 0 /\ failed' = failed
  BY DEF ReturnsPacket
<1>5. EndOf(n) \in 0..Len(stream)
  BY <1>1, <1>2, PacketInPlace, StreamEnds
<1>6. ReaderTypeOK'
  <2>1. 0 \in 0..2
    OBVIOUS
  <2> QED
    BY <1>1, <1>3, <1>4, <1>5, <2>1, Zenon DEF ReaderIInv, ReaderInv, ReaderTypeOK
<1>7. ReaderInStep'
  <2>1. Len(returned') <= Len(packets)
    BY <1>1, <1>3
  <2>2. (returned = [m \in DOMAIN Whole |-> Whole[m].type])'
    <3>1. Whole' = SubSeq(packets, 1, Len(returned'))
      BY DEF Whole
    <3>2. \A m \in 1..Len(returned') : returned'[m] = packets[m].type
      BY <1>3
    <3>3. returned' = [m \in DOMAIN Whole' |-> Whole'[m].type]
      <4> DEFINE r == returned'
      <4>1. /\ r \in Seq(0..15) /\ Len(r) <= Len(packets) /\ packets \in Arriving
            /\ \A m \in 1..Len(r) : r[m] = packets[m].type
        BY <1>1, <1>3, <2>1, <3>2
      <4>2. Whole' = SubSeq(packets, 1, Len(r))
        BY <3>1
      <4> HIDE DEF r
      <4>3. r = [m \in DOMAIN SubSeq(packets, 1, Len(r)) |-> SubSeq(packets, 1, Len(r))[m].type]
        BY <4>1, WholeTypes
      <4> QED
        BY <4>2, <4>3, Zenon DEF r
    <3> QED
      BY <3>3
  <2>3. (at = EndOf(Len(returned)))'
    BY <1>3 DEF EndOf
  <2> QED
    BY <2>1, <2>2, <2>3, <1>4 DEF ReaderInStep
<1>8. ReaderKnows' /\ ReaderFits' /\ (stream = StreamOf(packets))'
  BY <1>2, <1>4 DEF ReaderKnows, ReaderFits
<1> QED
  BY <1>6, <1>7, <1>8 DEF ReaderIInv, ReaderInv

\* What a byte of the length shows.
LEMMA LengthByteShows ==
    ASSUME ReaderIInv, LengthByte
    PROVE  LET n == Len(returned) + 1
               digits == packets[n].digits
               c == stream[at + 1]
           IN  /\ len \in 0..3 /\ len + 1 <= Len(digits) /\ c \in 0..255
               /\ c < 128 <=> len + 1 = Len(digits)
               /\ at' = EndOf(Len(returned)) + 1 + (len + 1)
               /\ at' \in 0..Len(stream)
               /\ multiplier' = 128 * Place[len + 1]
               /\ rem_len' = WorthOf(digits, len + 1)
               /\ rem_len' \in 0..MaxLength
               /\ header = packets[n].type
               /\ c >= 128 => len' = len + 1 /\ GoesOn(1)
               /\ c < 128 => /\ rem_len' = packets[n].rest
                             /\ at' + rem_len' = EndOf(n)
                             /\ len' = 1 + Len(encode(packets[n].rest)) /\ len' \in Nat
                             /\ AfterLength(rem_len', len')
<1> DEFINE n == Len(returned) + 1
           p == packets[n]
           digits == p.digits
           c == stream[at + 1]
           e == EndOf(Len(returned))
           scale == IF len = 0 THEN 1 ELSE multiplier
           value == (IF len = 0 THEN 0 ELSE rem_len) + ((c % 128) * scale)
           put == 1 + Len(encode(value))
<1>1. Reading /\ state = 1 /\ len < 4 /\ ~failed
  BY DEF LengthByte, Reading
<1>2. packets \in Arriving /\ n \in 1..Len(packets) /\ n - 1 = Len(returned)
  BY <1>1, NextPacket
<1>3. /\ at = e + 1 + len /\ len \in Nat /\ len < Len(digits)
      /\ header = p.type
      /\ len > 0 => multiplier = 128 * Place[len] /\ rem_len = WorthOf(digits, len)
      /\ stream = StreamOf(packets)
  BY <1>1 DEF ReaderIInv, ReaderInv, ReaderKnows, ReaderTypeOK
<1>4. /\ digits \in Seq(0..255) /\ Len(digits) \in Nat /\ digits # <<>>
      /\ p.rest \in Nat
      /\ \A i \in 1..Len(digits) : digits[i] < 128 <=> i = Len(digits)
      /\ Len(digits) <= 4 => decode(digits).value = p.rest
  <2>1. /\ digits \in Seq(0..255) /\ Len(digits) \in Nat \ {0}
        /\ p.rest \in Nat
        /\ \A i \in 1..Len(digits) : digits[i] < 128 <=> i = Len(digits)
        /\ Len(digits) <= 4 => decode(digits).value = p.rest
    BY <1>2, PacketFacts
  <2> HIDE DEF p
  <2> QED
    BY <2>1
<1>5. /\ e \in Nat /\ EndOf(n) = e + 1 + Len(digits) + p.rest
      /\ EndOf(n) <= Len(stream) /\ EndOf(n) \in Nat
      /\ \A i \in 1..Len(digits) : stream[e + 1 + i] = digits[i]
  BY <1>2, <1>3, PacketInPlace
<1>6. Len(stream) \in Nat
  BY <1>2, <1>3, StreamEnds
<1> HIDE DEF p, digits, e
<1>7. len \in 0..3 /\ len + 1 <= Len(digits) /\ len + 1 \in 1..Len(digits)
  BY <1>1, <1>3, <1>4
<1>8. at + 1 = e + 1 + (len + 1)
  BY <1>3, <1>5, <1>7
<1>9. c = digits[len + 1]
  BY <1>5, <1>7, <1>8
<1>10. c \in 0..255 /\ (c < 128 <=> len + 1 = Len(digits))
  BY <1>4, <1>7, <1>9, InSequence
<1>11. at' = e + 1 + (len + 1) /\ at' \in 0..Len(stream)
  BY <1>4, <1>5, <1>6, <1>7, <1>8 DEF LengthByte
<1>12. scale = Place[len + 1] /\ multiplier' = 128 * Place[len + 1]
  <2>1. /\ Place[1] = 1 /\ Place[2] = 128 * Place[1] /\ Place[3] = 128 * Place[2] /\ Place[4] = 128 * Place[3]
        /\ \A i \in 1..4 : Place[i] * 128 = 128 * Place[i]
    BY SMTT(20) DEF Place
  <2>2. scale = Place[len + 1]
    <3>1. len = 0 \/ len = 1 \/ len = 2 \/ len = 3
      BY <1>7
    <3> QED
      BY <3>1, <2>1, <1>3
  <2>3. multiplier' = scale * 128
    BY DEF LengthByte
  <2> HIDE DEF scale
  <2> QED
    BY <2>1, <2>2, <2>3, <1>7
<1>13. value = WorthOf(digits, len + 1)
  <2>1. WorthOf(digits, 0) = 0 /\ WorthOf(digits, len + 1) = WorthOf(digits, len) + (digits[len + 1] % 128) * Place[len + 1]
    BY <1>3, <1>4, <1>7, WorthSoFar, Zenon
  <2>2. (IF len = 0 THEN 0 ELSE rem_len) = WorthOf(digits, len)
    BY <2>1, <1>3, <1>7
  <2> QED
    BY <2>1, <2>2, <1>9, <1>12
<1>14. WorthOf(digits, len + 1) \in 0..MaxLength
  <2>1. len + 1 \in 0..4
    BY <1>7
  <2> QED
    BY <2>1, <1>4, WorthSoFar, Zenon
<1>15. rem_len' = value /\ len' = (IF c >= 128 THEN len + 1 ELSE put)
       /\ IF c >= 128 THEN GoesOn(1) ELSE AfterLength(value, put)
  BY DEF LengthByte
<1> HIDE DEF c, value
<1>16. c >= 128 => len' = len + 1 /\ GoesOn(1)
  BY <1>15
<1>17. ASSUME c < 128
       PROVE  /\ rem_len' = p.rest
              /\ at' + rem_len' = EndOf(n)
              /\ len' = 1 + Len(encode(p.rest)) /\ len' \in Nat
              /\ AfterLength(rem_len', len')
  <2>1. ~(c >= 128) /\ len + 1 = Len(digits) /\ Len(digits) <= 4
    BY <1>10, <1>17, <1>7
  <2>2. value = p.rest
    BY <2>1, <1>4, <1>13, WorthSoFar, Zenon
  <2>3. Len(encode(p.rest)) \in Nat
    <3>1. p.rest \in Nat /\ p.rest <= MaxLength
      BY <2>2, <1>13, <1>14, LengthsAreNat, Zenon
    <3> QED
      BY <3>1, EncodeShape
  <2>4. at' + rem_len' = EndOf(n)
    BY <2>1, <2>2, <1>4, <1>5, <1>11, <1>15
  <2>5. len' = 1 + Len(encode(p.rest)) /\ AfterLength(rem_len', len')
    BY <2>1, <2>2, <1>15
  <2> QED
    BY <2>2, <2>3, <2>4, <2>5, <1>15
<1> QED
  BY <1>3, <1>7, <1>10, <1>11, <1>12, <1>13, <1>14, <1>15, <1>16, <1>17, Zenon DEF p, digits, e, c

LEMMA PlacesAre == \A n \in 1..4 : 128 * Place[n] \in {1} \union {128 * Place[m] : m \in 1..4}
  BY Zenon

\* The first byte of a packet.
LEMMA HeaderByteKeeps ==
    ASSUME ReaderIInv, HeaderByte
    PROVE  ReaderIInv'
<1> DEFINE n == Len(returned) + 1
           p == packets[n]
           e == EndOf(Len(returned))
<1>1. Reading /\ state = 0 /\ ~failed
  BY DEF HeaderByte, Reading
<1>2. packets \in Arriving /\ n \in 1..Len(packets) /\ n - 1 = Len(returned) /\ Len(returned) \in Nat
  BY <1>1, NextPacket
<1>3. ReaderTypeOK /\ at = e /\ stream = StreamOf(packets)
      /\ returned = [m \in DOMAIN Whole |-> Whole[m].type] /\ Len(returned) <= Len(packets)
  BY <1>1 DEF ReaderIInv, ReaderInv, ReaderInStep
<1>4. e \in Nat /\ stream[e + 1] = p.type /\ EndOf(n) <= Len(stream)
      /\ EndOf(n) = e + 1 + Len(p.digits) + p.rest /\ EndOf(n) \in Nat
  BY <1>2, <1>3, PacketInPlace
<1>5. p.type \in 0..15 /\ Len(p.digits) \in Nat \ {0} /\ p.rest \in Nat
  BY <1>2, PacketFacts
<1>6. Len(stream) \in Nat /\ Len(packets) \in Nat
  BY <1>2, <1>3, StreamEnds, PiecesShape
<1> HIDE DEF p, e
<1>7. /\ header' = p.type /\ at' = e + 1 /\ len' = 0 /\ state' = 1
      /\ UNCHANGED <<packets, stream, rem_len, multiplier, returned, failed>>
  <2>1. /\ header' = stream[at + 1] /\ at' = at + 1 /\ len' = 0 /\ state' = 1
        /\ UNCHANGED <<packets, stream, rem_len, multiplier, returned, failed>>
    BY DEF HeaderByte, GoesOn
  <2> QED
    BY <2>1, <1>3, <1>4, Zenon
<1>8. ReaderTypeOK'
  <2>1. at' \in 0..Len(stream) /\ 0 \in Nat /\ 1 \in 0..2
    <3> DEFINE end == EndOf(n)
               d == Len(p.digits)
               r == p.rest
               l == Len(stream)
    <3>1. /\ e \in Nat /\ end = e + 1 + d + r /\ end <= l /\ l \in Nat
          /\ d \in Nat \ {0} /\ r \in Nat
      BY <1>4, <1>5, <1>6, Zenon
    <3>2. e + 1 \in 0..l
      <4> HIDE DEF end, d, r, l
      <4> QED
        BY <3>1
    <3> QED
      BY <3>2, <1>7
  <2> QED
    BY <2>1, <1>3, <1>5, <1>7, Zenon DEF ReaderTypeOK
<1>9. ReaderInStep'
  <2>1. Whole' = Whole
    BY <1>7 DEF Whole
  <2> QED
    BY <2>1, <1>3, <1>7 DEF ReaderInStep
<1>10. ReaderKnows'
  <2>1. Len(returned) < Len(packets)
    BY <1>2, <1>6
  <2>2. EndOf(Len(returned))' = e
    BY <1>7 DEF EndOf, e
  <2>3. packets[n]' = p
    BY <1>7 DEF p
  <2>4. e + 1 = e + 1 + 0 /\ 0 <= 4 /\ 0 < Len(p.digits) /\ ~(0 > 0)
    BY <1>4, <1>5
  <2> QED
    BY <2>1, <2>2, <2>3, <2>4, <1>7, Zenon DEF ReaderKnows
<1>11. ReaderFits' /\ (stream = StreamOf(packets))'
  BY <1>3, <1>7 DEF ReaderFits
<1> QED
  BY <1>8, <1>9, <1>10, <1>11 DEF ReaderIInv, ReaderInv

\* A byte of the length.
LEMMA LengthByteKeeps ==
    ASSUME ReaderIInv, LengthByte
    PROVE  ReaderIInv'
<1> DEFINE n == Len(returned) + 1
           p == packets[n]
           e == EndOf(Len(returned))
           c == stream[at + 1]
<1>1. Reading /\ state = 1 /\ ~failed /\ UNCHANGED <<packets, stream, header>>
  BY DEF LengthByte, Reading
<1>2. packets \in Arriving /\ n \in 1..Len(packets) /\ n - 1 = Len(returned) /\ Len(returned) \in Nat
  BY <1>1, NextPacket
<1>3. ReaderTypeOK /\ stream = StreamOf(packets) /\ Len(returned) <= Len(packets)
      /\ returned = [m \in DOMAIN Whole |-> Whole[m].type]
  BY <1>1 DEF ReaderIInv, ReaderInv, ReaderInStep
<1>4. /\ len \in 0..3 /\ len + 1 <= Len(p.digits) /\ c \in 0..255
      /\ c < 128 <=> len + 1 = Len(p.digits)
      /\ at' = e + 1 + (len + 1)
      /\ at' \in 0..Len(stream)
      /\ multiplier' = 128 * Place[len + 1]
      /\ rem_len' = WorthOf(p.digits, len + 1)
      /\ rem_len' \in 0..MaxLength
      /\ header = p.type
      /\ c >= 128 => len' = len + 1 /\ GoesOn(1)
      /\ c < 128 => /\ rem_len' = p.rest
                    /\ at' + rem_len' = EndOf(n)
                    /\ len' = 1 + Len(encode(p.rest)) /\ len' \in Nat
                    /\ AfterLength(rem_len', len')
  BY LengthByteShows, Zenon
<1>5. Len(p.digits) \in Nat /\ p.rest \in Nat /\ Len(packets) \in Nat
  BY <1>2, PacketFacts, PiecesShape
<1>6. multiplier' \in {1} \union {128 * Place[m] : m \in 1..4}
  <2>1. len + 1 \in 1..4
    BY <1>4
  <2> QED
    BY <2>1, <1>4, PlacesAre, Zenon
<1> HIDE DEF p, e, c
<1>7. CASE c >= 128
  <2>1. len' = len + 1 /\ state' = 1 /\ UNCHANGED <<returned, failed>>
    BY <1>4, <1>7 DEF GoesOn
  <2>2. len + 1 \in Nat /\ len + 1 <= 4 /\ len + 1 < Len(p.digits)
    BY <1>4, <1>5, <1>7
  <2>3. ReaderTypeOK'
    <3>1. 1 \in 0..2
      OBVIOUS
    <3> QED
      BY <3>1, <2>1, <2>2, <1>1, <1>3, <1>4, <1>6, Zenon DEF ReaderTypeOK
  <2>4. ReaderInStep'
    <3>1. Whole' = Whole
      BY <1>1, <2>1 DEF Whole
    <3> QED
      BY <3>1, <2>1, <1>1, <1>3 DEF ReaderInStep
  <2>5. ReaderKnows'
    <3>1. EndOf(Len(returned))' = e
      BY <1>1, <2>1 DEF EndOf, e
    <3>2. packets[n]' = p
      BY <1>1, <2>1 DEF p
    <3>3. Len(returned) < Len(packets)
      BY <1>2, <1>5
    <3> QED
      BY <3>1, <3>2, <3>3, <2>1, <2>2, <1>1, <1>4, Zenon DEF ReaderKnows
  <2>6. ReaderFits' /\ (stream = StreamOf(packets))'
    BY <2>1, <1>1, <1>3 DEF ReaderFits
  <2> QED
    BY <2>3, <2>4, <2>5, <2>6 DEF ReaderIInv, ReaderInv
<1>8. CASE c < 128
  <2>1. CASE TooLong(rem_len', len')
    <3>1. Fails
      BY <1>4, <1>8, <2>1 DEF AfterLength
    <3> QED
      BY <3>1, <1>1, <1>4, <1>6, <1>8, FailureKeeps
  <2>2. CASE ~TooLong(rem_len', len') /\ rem_len' = 0
    <3>1. ReturnsPacket
      BY <1>4, <1>8, <2>2 DEF AfterLength
    <3>2. at' = EndOf(n)
      BY <1>4, <1>8, <2>2
    <3> QED
      BY <3>1, <3>2, <1>1, <1>4, <1>6, <1>8, ReturnKeeps DEF p
  <2>3. CASE ~TooLong(rem_len', len') /\ rem_len' # 0
    <3>1. state' = 2 /\ UNCHANGED <<returned, failed>>
      BY <1>4, <1>8, <2>3 DEF AfterLength, GoesOn
    <3>2. ReaderTypeOK'
      <4>1. 2 \in 0..2
        OBVIOUS
      <4> QED
        BY <4>1, <3>1, <1>1, <1>3, <1>4, <1>6, <1>8, Zenon DEF ReaderTypeOK
    <3>3. ReaderInStep'
      <4>1. Whole' = Whole /\ EndOf(Len(returned) + 1)' = EndOf(n)
        BY <1>1, <3>1 DEF Whole, EndOf
      <4> QED
        BY <4>1, <3>1, <1>1, <1>3, <1>4, <1>8 DEF ReaderInStep
    <3>4. ReaderKnows'
      <4>1. packets[n]' = p
        BY <1>1, <3>1 DEF p
      <4>2. Len(returned) < Len(packets)
        BY <1>2, <1>5
      <4> QED
        BY <4>1, <4>2, <3>1, <1>1, <1>4 DEF ReaderKnows
    <3>5. ReaderFits'
      <4>1. rem_len' + len' <= buflen
        BY <2>3, <1>4, <1>5, <1>8, ReaderAssumption DEF TooLong
      <4> QED
        BY <4>1, <2>3, <1>4, <1>5, <1>8 DEF ReaderFits
    <3>6. (stream = StreamOf(packets))'
      BY <1>1, <1>3
    <3> QED
      BY <3>2, <3>3, <3>4, <3>5, <3>6 DEF ReaderIInv, ReaderInv
  <2> QED
    BY <2>1, <2>2, <2>3
<1> QED
  BY <1>4, <1>7, <1>8

\* Some of the bytes that follow.
LEMMA RestBytesKeep ==
    ASSUME ReaderIInv, NEW k \in 1..buflen, RestBytes(k)
    PROVE  ReaderIInv'
<1> DEFINE n == Len(returned) + 1
           p == packets[n]
<1>1. /\ Reading /\ state = 2 /\ ~failed /\ UNCHANGED <<packets, stream, header, multiplier>>
      /\ k \in 1..rem_len /\ at' = at + k /\ at + k <= Len(stream)
      /\ rem_len' = rem_len - k /\ len' = len + k
  BY DEF RestBytes, Reading
<1>2. packets \in Arriving /\ n \in 1..Len(packets) /\ n - 1 = Len(returned) /\ Len(returned) \in Nat
  BY <1>1, NextPacket
<1>3. /\ ReaderTypeOK /\ stream = StreamOf(packets) /\ Len(returned) <= Len(packets)
      /\ returned = [m \in DOMAIN Whole |-> Whole[m].type]
      /\ at + rem_len = EndOf(n) /\ header = p.type
      /\ rem_len > 0 /\ len + rem_len <= buflen
  BY <1>1 DEF ReaderIInv, ReaderInv, ReaderInStep, ReaderKnows, ReaderFits
<1>4. /\ at \in 0..Len(stream) /\ Len(stream) \in Nat /\ len \in Nat /\ rem_len \in 0..MaxLength
      /\ MaxLength \in Nat /\ rem_len \in Nat
      /\ multiplier' \in {1} \union {128 * Place[m] : m \in 1..4}
  <2>1. Len(stream) \in Nat
    BY <1>2, <1>3, StreamEnds
  <2>2. MaxLength \in Nat
    BY SMTT(20) DEF MaxLength
  <2> QED
    BY <2>1, <2>2, <1>1, <1>3, LengthsAreNat, Zenon DEF ReaderTypeOK
<1>5. /\ at' \in 0..Len(stream) /\ len' \in Nat /\ rem_len' \in 0..MaxLength
      /\ at' + rem_len' = EndOf(n) /\ len' + rem_len' <= buflen /\ rem_len' \in Nat
  BY <1>1, <1>3, <1>4, ReaderAssumption
<1>6. Len(packets) \in Nat /\ k \in Nat
  BY <1>2, PiecesShape, ReaderAssumption
<1>7. CASE rem_len = k
  <2>1. ReturnsPacket
    BY <1>7 DEF RestBytes
  <2>2. at' = EndOf(n)
    BY <1>7, <1>1, <1>3, <1>4
  <2> QED
    BY <2>1, <2>2, <1>1, <1>3, <1>4, <1>5, ReturnKeeps
<1>8. CASE rem_len # k
  <2>1. state' = 2 /\ UNCHANGED <<returned, failed>>
    BY <1>8 DEF RestBytes, GoesOn
  <2>2. ReaderTypeOK'
    <3>1. 2 \in 0..2
      OBVIOUS
    <3> QED
      BY <3>1, <2>1, <1>1, <1>3, <1>4, <1>5, Zenon DEF ReaderTypeOK
  <2>3. ReaderInStep'
    <3>1. Whole' = Whole /\ EndOf(Len(returned) + 1)' = EndOf(n)
      BY <1>1, <2>1 DEF Whole, EndOf
    <3> QED
      BY <3>1, <2>1, <1>1, <1>3, <1>5 DEF ReaderInStep
  <2>4. ReaderKnows'
    <3>1. packets[n]' = packets[n]
      BY <1>1, <2>1
    <3>2. Len(returned) < Len(packets)
      BY <1>2, <1>6
    <3> QED
      BY <3>1, <3>2, <2>1, <1>1, <1>3 DEF ReaderKnows
  <2>5. ReaderFits'
    BY <1>1, <1>4, <1>5, <1>6, <1>8 DEF ReaderFits
  <2>6. (stream = StreamOf(packets))'
    BY <1>1, <1>3
  <2> QED
    BY <2>2, <2>3, <2>4, <2>5, <2>6 DEF ReaderIInv, ReaderInv
<1> QED
  BY <1>7, <1>8

LEMMA ReaderStarts == ReaderInit => ReaderIInv
<1> SUFFICES ASSUME ReaderInit PROVE ReaderIInv
  OBVIOUS
<1>1. /\ packets \in Arriving /\ stream = StreamOf(packets) /\ at = 0 /\ state = 0 /\ len = 0
      /\ rem_len = 0 /\ multiplier = 1 /\ header = 0 /\ returned = <<>> /\ failed = FALSE
  BY DEF ReaderInit
<1>2. stream \in Seq(0..255) /\ EndOf(0) = 0 /\ Len(stream) \in Nat /\ Len(packets) \in Nat
  <2>1. stream \in Seq(0..255) /\ EndOf(0) = 0
    <3>1. packets \in Arriving /\ stream = StreamOf(packets)
      BY <1>1, Zenon
    <3> QED
      BY <3>1, StreamEnds
  <2>2. Len(packets) \in Nat
    BY <1>1, PiecesShape, Zenon
  <2> QED
    BY <2>1, <2>2
<1>3. ReaderTypeOK
  <2>1. 0 \in 0..MaxLength
    <3>1. MaxLength \in Nat
      BY SMTT(20) DEF MaxLength
    <3> QED
      BY <3>1
  <2>2. 0 \in 0..Len(stream) /\ 0 \in 0..2 /\ 0 \in 0..15 /\ <<>> \in Seq(0..15)
    BY <1>2
  <2> QED
    BY <2>1, <2>2, <1>1, <1>2 DEF ReaderTypeOK
<1>4. ReaderInStep
  <2>1. <<>> \in Seq(0..15) /\ Len(<<>>) = 0 /\ 0 <= Len(packets)
    BY <1>2
  <2>2. \A m \in 1..Len(<<>>) : <<>>[m] = packets[m].type
    BY <2>1
  <2>3. Whole = SubSeq(packets, 1, Len(returned))
    BY DEF Whole
  <2>4. returned = [m \in DOMAIN Whole |-> Whole[m].type]
    BY <2>1, <2>2, <2>3, <1>1, WholeTypes
  <2> QED
    BY <2>1, <2>4, <1>1, <1>2 DEF ReaderInStep
<1>5. ReaderKnows /\ ReaderFits
  BY <1>1 DEF ReaderKnows, ReaderFits
<1> QED
  BY <1>1, <1>3, <1>4, <1>5 DEF ReaderIInv, ReaderInv

\* A failure that is not the transport's.
LEMMA StopsKeep ==
    ASSUME ReaderIInv, TooManyDigits \/ Disconnected
    PROVE  ReaderIInv'
<1>1. Fails /\ UNCHANGED <<packets, stream, header, at, len, rem_len, multiplier>>
  BY DEF TooManyDigits, Disconnected
<1>2. /\ at \in 0..Len(stream) /\ len \in Nat /\ rem_len \in 0..MaxLength
      /\ multiplier \in {1} \union {128 * Place[n] : n \in 1..4}
  BY DEF ReaderIInv, ReaderInv, ReaderTypeOK
<1> QED
  BY <1>1, <1>2, FailureKeeps, Zenon

LEMMA ReaderSteps == ReaderIInv /\ [ReaderNext]_readerVars => ReaderIInv'
<1> SUFFICES ASSUME ReaderIInv, [ReaderNext]_readerVars
             PROVE  ReaderIInv'
  OBVIOUS
<1>1. CASE HeaderByte
  BY <1>1, HeaderByteKeeps
<1>2. CASE TooManyDigits \/ Disconnected
  BY <1>2, StopsKeep
<1>3. CASE LengthByte
  BY <1>3, LengthByteKeeps
<1>4. ASSUME NEW n \in 1..buflen, RestBytes(n)
      PROVE  ReaderIInv'
  BY <1>4, RestBytesKeep
<1>5. CASE UNCHANGED readerVars
  <2>1. Whole' = Whole /\ \A n : EndOf(n)' = EndOf(n)
    BY <1>5 DEF readerVars, Whole, EndOf
  <2> QED
    BY <2>1, <1>5 DEF readerVars, ReaderIInv, ReaderInv, ReaderTypeOK, ReaderInStep, ReaderKnows, ReaderFits
<1> QED
  BY <1>1, <1>2, <1>3, <1>4, <1>5 DEF ReaderNext, readnb

\* However the bytes of any stream of packets come, MQTTPacket_readnb() returns the
\* packets in order, stays in step with the stream and within its buffer.
THEOREM ReaderKeepsStep == ReaderSpec => []ReaderInv
<1>1. ReaderIInv => ReaderInv
  BY DEF ReaderIInv
<1> QED
  BY <1>1, ReaderStarts, ReaderSteps, PTL DEF ReaderSpec

\* It gives up, if the transport does not, only at a packet whose length has too many
\* digits or that does not fit the buffer.
THEOREM ReaderFailsForCause == ReaderSpec => FailsForCause
<1>1. ASSUME ReaderIInv, ~failed, failed', readnb
      PROVE  ~Fits(packets[Len(returned) + 1])
  <2> DEFINE p == packets[Len(returned) + 1]
  <2>1. CASE HeaderByte
    BY <2>1, <1>1 DEF HeaderByte, GoesOn
  <2>2. CASE TooManyDigits
    <3>1. Reading /\ state = 1 /\ len >= 4
      BY <2>2 DEF TooManyDigits
    <3>2. len < Len(p.digits) /\ len \in Nat
      BY <3>1, <1>1 DEF ReaderIInv, ReaderInv, ReaderKnows, ReaderTypeOK
    <3>3. Len(p.digits) \in Nat
      BY <3>1, <1>1, NextPacket, PacketFacts
    <3> HIDE DEF p
    <3>4. ~(Len(p.digits) <= 4)
      BY <3>1, <3>2, <3>3
    <3> QED
      BY <3>4 DEF Fits, p
  <2>3. CASE LengthByte
    <3>1. /\ stream[at + 1] \in 0..255
          /\ stream[at + 1] >= 128 => GoesOn(1)
          /\ stream[at + 1] < 128 => /\ rem_len' = p.rest
                                     /\ len' = 1 + Len(encode(p.rest)) /\ len' \in Nat
                                     /\ AfterLength(rem_len', len')
      <4>1. ReaderIInv /\ LengthByte
        BY <2>3, <1>1
      <4>2. /\ stream[at + 1] \in 0..255
            /\ stream[at + 1] >= 128 => len' = len + 1 /\ GoesOn(1)
            /\ stream[at + 1] < 128 => /\ rem_len' = packets[Len(returned) + 1].rest
                                       /\ at' + rem_len' = EndOf(Len(returned) + 1)
                                       /\ len' = 1 + Len(encode(packets[Len(returned) + 1].rest))
                                       /\ len' \in Nat
                                       /\ AfterLength(rem_len', len')
        BY <4>1, LengthByteShows, Zenon
      <4> QED
        BY <4>2, Zenon
    <3>2. stream[at + 1] < 128
      <4>1. ~GoesOn(1)
        BY <1>1, Zenon DEF GoesOn
      <4>2. stream[at + 1] < 128 \/ stream[at + 1] >= 128
        <5>1. stream[at + 1] \in 0..255
          BY <3>1, Zenon
        <5> QED
          BY <5>1
      <4> QED
        BY <4>1, <4>2, <3>1, Zenon
    <3>3. TooLong(rem_len', len')
      BY <3>1, <3>2, <1>1 DEF AfterLength, ReturnsPacket, GoesOn
    <3>4. p.rest \in Nat
      BY <2>3, <1>1, NextPacket, PacketFacts DEF LengthByte
    <3> HIDE DEF p
    <3>5. ~(1 + Len(encode(p.rest)) + p.rest <= buflen)
      BY <3>1, <3>2, <3>3, <3>4, ReaderAssumption DEF TooLong
    <3> QED
      BY <3>5 DEF Fits, p
  <2>4. ASSUME NEW n \in 1..buflen, RestBytes(n)
        PROVE  FALSE
    BY <2>4, <1>1 DEF RestBytes, ReturnsPacket, GoesOn
  <2> QED
    BY <2>1, <2>2, <2>3, <2>4, <1>1 DEF readnb
<1>2. ReaderIInv /\ [ReaderNext]_readerVars
      => [~failed /\ failed' /\ readnb => ~Fits(packets[Len(returned) + 1])]_readerVars
  BY <1>1
<1> QED
  BY <1>2, ReaderStarts, ReaderSteps, PTL DEF ReaderSpec, FailsForCause

-----------------------------------------------------------------------------
(* What serialisers write *)

\* A set of fields of which each has a size
Sized(S) == \A f \in S : Size(f) \in Nat

LEMMA SizesShape ==
    ASSUME NEW S, Sized(S), NEW s \in Seq(S)
    PROVE  LET sizes == [n \in DOMAIN s |-> Size(s[n])]
           IN  /\ sizes \in Seq(Nat) /\ Len(sizes) = Len(s)
               /\ \A n \in 1..Len(s) : sizes[n] = Size(s[n])
               /\ SizeOf(s) = Total(sizes) /\ SizeOf(s) \in Nat
<1> DEFINE sizes == [n \in DOMAIN s |-> Size(s[n])]
<1>1. DOMAIN s = 1..Len(s) /\ Len(s) \in Nat /\ \A n \in 1..Len(s) : s[n] \in S
  OBVIOUS
<1>2. sizes \in Seq(Nat) /\ Len(sizes) = Len(s) /\ \A n \in 1..Len(s) : sizes[n] = Size(s[n])
  BY <1>1 DEF Sized
<1>3. SizeOf(s) = Total(sizes)
  BY DEF SizeOf
<1> HIDE DEF sizes
<1>4. Total(sizes) \in Nat
  BY <1>2, SumsAreNumbers
<1> QED
  BY <1>2, <1>3, <1>4 DEF sizes

\* Fields c are fields a and then fields b.
Join(c, a, b) == c = a \o b

LEMMA SizeOfTwo ==
    ASSUME NEW S, Sized(S), NEW a \in Seq(S), NEW b \in Seq(S), NEW c, Join(c, a, b)
    PROVE  SizeOf(c) = SizeOf(a) + SizeOf(b) /\ c \in Seq(S) /\ SizeOf(a) \in Nat /\ SizeOf(b) \in Nat
<1> DEFINE sa == [n \in DOMAIN a |-> Size(a[n])]
           sb == [n \in DOMAIN b |-> Size(b[n])]
           sc == [n \in DOMAIN c |-> Size(c[n])]
           sab == sa \o sb
<1>1. /\ c \in Seq(S) /\ Len(a) \in Nat /\ Len(b) \in Nat /\ Len(c) = Len(a) + Len(b)
      /\ \A i \in 1..Len(a) : c[i] = a[i]
      /\ \A i \in 1..Len(b) : c[Len(a) + i] = b[i]
  BY TwoPieces DEF Join
<1>2. /\ sa \in Seq(Nat) /\ Len(sa) = Len(a) /\ (\A n \in 1..Len(a) : sa[n] = Size(a[n]))
      /\ SizeOf(a) = Total(sa) /\ SizeOf(a) \in Nat
  BY SizesShape
<1>3. /\ sb \in Seq(Nat) /\ Len(sb) = Len(b) /\ (\A n \in 1..Len(b) : sb[n] = Size(b[n]))
      /\ SizeOf(b) = Total(sb) /\ SizeOf(b) \in Nat
  BY SizesShape
<1>4. /\ sc \in Seq(Nat) /\ Len(sc) = Len(c) /\ (\A n \in 1..Len(c) : sc[n] = Size(c[n]))
      /\ SizeOf(c) = Total(sc)
  <2>1. c \in Seq(S)
    BY <1>1
  <2> QED
    BY <2>1, SizesShape
<1> HIDE DEF sa, sb, sc
<1>5. /\ sab \in Seq(Nat) /\ Len(sab) = Len(sa) + Len(sb)
      /\ \A i \in 1..Len(sa) : sab[i] = sa[i]
      /\ \A i \in 1..Len(sb) : sab[Len(sa) + i] = sb[i]
      /\ Total(sab) = Total(sa) + Total(sb)
  <2>1. sa \in Seq(Nat) /\ sb \in Seq(Nat) /\ sab = sa \o sb
    BY <1>2, <1>3
  <2> HIDE DEF sab
  <2>2. Total(sab) = Total(sa) + Total(sb)
    BY <2>1, TotalOfTwo
  <2> QED
    BY <2>1, <2>2, TwoPieces
<1> HIDE DEF sab
<1>6. \A n \in 1..Len(c) : sc[n] = sab[n]
  <2> TAKE n \in 1..Len(c)
  <2>1. CASE n \in 1..Len(a)
    BY <2>1, <1>1, <1>2, <1>4, <1>5
  <2>2. CASE ~(n \in 1..Len(a))
    <3> DEFINE i == n - Len(a)
    <3>1. i \in 1..Len(b) /\ n = Len(a) + i
      BY <2>2, <1>1
    <3> HIDE DEF i
    <3>2. sc[n] = Size(b[i])
      BY <3>1, <1>1, <1>4
    <3>3. sab[n] = sb[i]
      BY <3>1, <1>2, <1>3, <1>5
    <3> QED
      BY <3>1, <3>2, <3>3, <1>3
  <2> QED
    BY <2>1, <2>2
<1>7. sc = sab
  <2>1. sc = [n \in 1..Len(c) |-> sc[n]] /\ sab = [n \in 1..Len(c) |-> sab[n]]
    BY <1>1, <1>2, <1>3, <1>4, <1>5
  <2> QED
    BY <2>1, <1>6
<1> QED
  BY <1>1, <1>2, <1>3, <1>4, <1>5, <1>7

LEMMA SizeOfFew ==
    ASSUME NEW f, NEW g, Size(f) \in Nat, Size(g) \in Nat
    PROVE  SizeOf(<<>>) = 0 /\ SizeOf(<<f>>) = Size(f) /\ SizeOf(<<f, g>>) = Size(f) + Size(g)
<1>1. [n \in DOMAIN <<>> |-> Size(<<>>[n])] = <<>>
  OBVIOUS
<1>2. [n \in DOMAIN <<f>> |-> Size(<<f>>[n])] = <<Size(f)>>
  OBVIOUS
<1>3. [n \in DOMAIN <<f, g>> |-> Size(<<f, g>>[n])] = <<Size(f), Size(g)>>
  OBVIOUS
<1> QED
  BY <1>1, <1>2, <1>3, TotalOfFew DEF SizeOf

LEMMA SizeOfPieces ==
    ASSUME NEW S, Sized(S), NEW pieces \in Seq(Seq(S))
    PROVE  SizeOf(Concat(pieces)) = Total([n \in DOMAIN pieces |-> SizeOf(pieces[n])])
<1> DEFINE F == Firsts(pieces)
           k == Len(pieces)
           sizes == [n \in DOMAIN pieces |-> SizeOf(pieces[n])]
           Z == Sums(sizes)
           T == {n \in Nat : n <= k => SizeOf(F[n]) = Z[n]}
<1>1. k \in Nat /\ DOMAIN pieces = 1..k /\ \A n \in 1..k : pieces[n] \in Seq(S)
  OBVIOUS
<1>2. F[0] = <<>> /\ (\A n \in 1..k : F[n] = F[n - 1] \o pieces[n]) /\ \A n \in 0..k : F[n] \in Seq(S)
  <2>1. F[0] = <<>> /\ \A n \in 1..k : F[n] = F[n - 1] \o pieces[n]
    BY FirstsEquation
  <2>2. \A n \in 0..k : F[n] \in Seq(S)
    BY FirstsAreSequences
  <2> QED
    BY <2>1, <2>2, Zenon
<1>3. Concat(pieces) = F[k] /\ Total(sizes) = Z[Len(sizes)]
  BY DEF Concat, Total
<1>4. \A n \in 1..k : SizeOf(pieces[n]) \in Nat
  BY <1>1, SizesShape
<1>5. sizes \in Seq(Nat) /\ Len(sizes) = k /\ \A n \in 1..k : sizes[n] = SizeOf(pieces[n])
  BY <1>1, <1>4
<1> HIDE DEF F, k, sizes
<1>6. Z[0] = 0 /\ \A n \in 1..k : Z[n] = Z[n - 1] + sizes[n]
  BY <1>5, SumsEquation
<1> HIDE DEF Z
<1>7. 0 \in T
  <2>1. SizeOf(<<>>) = 0
    <3>1. [n \in DOMAIN <<>> |-> Size(<<>>[n])] = <<>>
      OBVIOUS
    <3> QED
      BY <3>1, TotalOfFew DEF SizeOf
  <2> QED
    BY <2>1, <1>2, <1>6
<1>8. \A n \in Nat : n \in T => n + 1 \in T
  <2> SUFFICES ASSUME NEW n \in Nat, n \in T
               PROVE  n + 1 \in T
    OBVIOUS
  <2>1. ASSUME n + 1 <= k
        PROVE  SizeOf(F[n + 1]) = Z[n + 1]
    <3>1. n + 1 \in 1..k /\ (n + 1) - 1 = n /\ n <= k /\ n \in 0..k
      BY <1>1, <2>1
    <3>2. F[n + 1] = F[n] \o pieces[n + 1]
      BY <3>1, <1>2
    <3>3. F[n] \in Seq(S) /\ pieces[n + 1] \in Seq(S)
      BY <3>1, <1>1, <1>2
    <3> DEFINE a == F[n]
               b == pieces[n + 1]
               c == F[n + 1]
    <3>4. SizeOf(c) = SizeOf(a) + SizeOf(b)
      <4>1. a \in Seq(S) /\ b \in Seq(S) /\ Join(c, a, b)
        BY <3>2, <3>3, Zenon DEF Join
      <4> HIDE DEF T, a, b, c
      <4> QED
        BY <4>1, SizeOfTwo
    <3>5. Z[n + 1] = Z[n] + SizeOf(pieces[n + 1])
      BY <3>1, <1>5, <1>6
    <3>6. SizeOf(F[n]) = Z[n]
      BY <3>1
    <3> QED
      BY <3>4, <3>5, <3>6, Zenon
  <2> QED
    BY <2>1
<1>9. k \in T
  <2> HIDE DEF T
  <2> QED
    BY <1>1, <1>7, <1>8, Induction
<1> QED
  BY <1>1, <1>3, <1>5, <1>9 DEF sizes

\* What one field takes
LEMMA FieldSizes ==
    /\ \A v : Size(Byte(v)) = 1 /\ Size(Word(v)) = 2
    /\ \A v \in Strings : /\ StringLen[v] \in Nat
                          /\ Size(Payload(v)) = StringLen[v] /\ Size(Text(v)) = 2 + StringLen[v]
    /\ Size(Protocol(4)) = 6 /\ Size(Protocol(3)) = 8
<1>1. /\ \A v : Size(Byte(v)) = 1 /\ Size(Word(v)) = 2
      /\ \A v : Size(Payload(v)) = StringLen[v] /\ Size(Text(v)) = 2 + StringLen[v]
  BY DEF Size, Byte, Word, Payload, Text
<1>2. \A v \in Strings : StringLen[v] \in Nat
  BY StringAssumption
<1>3. StringLen["MQTT"] = 4 /\ StringLen["MQIsdp"] = 6
  BY StringAssumption, Zenon
<1>4. Protocol(4) = Text("MQTT") /\ Protocol(3) = Text("MQIsdp")
  BY DEF Protocol
<1> HIDE DEF Size, Text, Protocol
<1>5. Size(Protocol(4)) = 2 + StringLen["MQTT"] /\ Size(Protocol(3)) = 2 + StringLen["MQIsdp"]
  BY <1>1, <1>4, Zenon
<1>6. Size(Protocol(4)) = 6 /\ Size(Protocol(3)) = 8
  BY <1>3, <1>5
<1> QED
  BY <1>1, <1>2, <1>6, Zenon

LEMMA StringSize ==
    ASSUME NEW s \in MQTTStrings
    PROVE  MQTTstrlen(s) \in Nat /\ Size(writeMQTTString(s)) = MQTTstrlen(s) + 2
<1>1. Given(s) => s.text \in Strings
  BY DEF MQTTStrings, Given, NoString
<1>2. MQTTstrlen(s) = (IF Given(s) THEN StringLen[s.text] ELSE 0)
  BY DEF MQTTstrlen
<1>3. "" \in Strings /\ StringLen[""] = 0
  BY StringAssumption, Zenon
<1>4. MQTTstrlen(s) \in Nat
  BY <1>1, <1>2, FieldSizes
<1> DEFINE t == IF MQTTstrlen(s) > 0 THEN s.text ELSE ""
<1>5. writeMQTTString(s) = Text(t)
  BY DEF writeMQTTString
<1>6. t \in Strings /\ StringLen[t] = MQTTstrlen(s)
  <2>1. CASE MQTTstrlen(s) > 0
    <3>1. Given(s) /\ MQTTstrlen(s) = StringLen[s.text]
      BY <1>2, <2>1
    <3> QED
      BY <1>1, <2>1, <3>1, Zenon
  <2>2. CASE ~(MQTTstrlen(s) > 0)
    <3>1. MQTTstrlen(s) = 0 /\ t = ""
      BY <1>4, <2>2
    <3> QED
      BY <1>3, <3>1, Zenon
  <2> QED
    BY <2>1, <2>2, Zenon
<1> HIDE DEF t
<1>7. Size(Text(t)) = 2 + StringLen[t]
  BY <1>6, FieldSizes, Zenon
<1>8. Size(writeMQTTString(s)) = 2 + StringLen[t]
  BY <1>5, <1>7, Zenon
<1> QED
  BY <1>4, <1>6, <1>8

LEMMA SizeOfFive ==
    ASSUME NEW f, NEW g, NEW h, NEW i, NEW j,
           Size(f) \in Nat, Size(g) \in Nat, Size(h) \in Nat, Size(i) \in Nat, Size(j) \in Nat
    PROVE  SizeOf(<<f, g, h, i, j>>) = Size(f) + Size(g) + Size(h) + Size(i) + Size(j)
<1> DEFINE s == <<Size(f), Size(g), Size(h), Size(i), Size(j)>>
<1>1. [n \in DOMAIN <<f, g, h, i, j>> |-> Size(<<f, g, h, i, j>>[n])] = s
  OBVIOUS
<1>2. SizeOf(<<f, g, h, i, j>>) = Total(s)
  BY <1>1, Zenon DEF SizeOf
<1>3. /\ s \in Seq(Nat) /\ Len(s) = 5
      /\ s[1] = Size(f) /\ s[2] = Size(g) /\ s[3] = Size(h) /\ s[4] = Size(i) /\ s[5] = Size(j)
  OBVIOUS
<1> HIDE DEF s
<1>4. Total(s) = s[1] + s[2] + s[3] + s[4] + s[5]
  BY <1>3, TotalOfFive
<1> QED
  BY <1>2, <1>3, <1>4, Zenon

\* What a request has
LEMMA RequestsAre ==
    ASSUME NEW p \in Requests
    PROVE  /\ p.op \in {"CONNECT", "PUBLISH", "SUBSCRIBE", "UNSUBSCRIBE", "ACK", "ZERO",
                        "CONNACK", "SUBACK", "UNSUBACK"}
           /\ p.op = "CONNECT" => /\ p.version \in {3, 4} /\ p.will \in BOOLEAN
                                  /\ p.clientID \in MQTTStrings /\ p.topic \in MQTTStrings
                                  /\ p.message \in MQTTStrings /\ p.username \in MQTTStrings
                                  /\ p.password \in MQTTStrings
           /\ p.op = "PUBLISH" => p.topic \in MQTTStrings /\ p.payload \in Strings /\ p.qos \in 0..2
           /\ p.op \in {"SUBSCRIBE", "UNSUBSCRIBE"} => p.filters \in Seq(MQTTStrings)
           /\ p.op = "SUBSCRIBE" => p.qoss \in Seq(0..2) /\ Len(p.qoss) = Len(p.filters)
           /\ p.op = "SUBACK" => p.granted \in Seq(0..255) /\ p.maxcount \in Nat
           /\ LengthOf(p) <= MaxLength
<1>1. p \in RequestTypes /\ LengthOf(p) <= MaxLength
      /\ (p.op = "SUBSCRIBE" => Len(p.qoss) = Len(p.filters))
  BY ExchangeAssumption, SMTT(20)
<1> HIDE DEF LengthOf, MaxLength
<1> DEFINE
      connect == [op : {"CONNECT"}, version : {3, 4}, clean : BOOLEAN, keepAlive : Words,
                  clientID : MQTTStrings, will : BOOLEAN, topic : MQTTStrings,
                  message : MQTTStrings, qos : 0..2, retained : BOOLEAN,
                  username : MQTTStrings, password : MQTTStrings]
      publish == [op : {"PUBLISH"}, dup : BOOLEAN, qos : 0..2, retained : BOOLEAN, id : Words,
                  topic : MQTTStrings, payload : Strings]
      subscribe   == [op : {"SUBSCRIBE"}, dup : BOOLEAN, id : Words,
                      filters : Seq(MQTTStrings), qoss : Seq(0..2)]
      unsubscribe == [op : {"UNSUBSCRIBE"}, dup : BOOLEAN, id : Words,
                      filters : Seq(MQTTStrings)]
      ack == [op : {"ACK"}, type : {"PUBACK", "PUBREC", "PUBREL", "PUBCOMP"}, dup : BOOLEAN,
              id : Words]
      zero     == [op : {"ZERO"}, type : {"PINGREQ", "DISCONNECT"}]
      connack  == [op : {"CONNACK"}, present : BOOLEAN, code : 0..255]
      suback   == [op : {"SUBACK"}, id : Words, granted : Seq(0..255), maxcount : Nat]
      unsuback == [op : {"UNSUBACK"}, id : Words]
<1>2. \/ p \in connect \/ p \in publish \/ p \in subscribe \/ p \in unsubscribe \/ p \in ack
      \/ p \in zero \/ p \in connack \/ p \in suback \/ p \in unsuback
  BY <1>1, SMTT(20) DEF RequestTypes
<1>3. p \in connect => /\ p.op = "CONNECT" /\ p.version \in {3, 4} /\ p.will \in BOOLEAN
                       /\ p.clientID \in MQTTStrings /\ p.topic \in MQTTStrings
                       /\ p.message \in MQTTStrings /\ p.username \in MQTTStrings
                       /\ p.password \in MQTTStrings
  BY SMTT(20)
<1>4. p \in publish => /\ p.op = "PUBLISH" /\ p.topic \in MQTTStrings /\ p.payload \in Strings
                       /\ p.qos \in 0..2
  BY SMTT(20)
<1>5. p \in subscribe =>
        p.op = "SUBSCRIBE" /\ p.filters \in Seq(MQTTStrings) /\ p.qoss \in Seq(0..2)
  BY SMTT(20)
<1>6. p \in unsubscribe => p.op = "UNSUBSCRIBE" /\ p.filters \in Seq(MQTTStrings)
  BY SMTT(20)
<1>7. /\ p \in ack => p.op = "ACK"
      /\ p \in zero => p.op = "ZERO"
      /\ p \in connack => p.op = "CONNACK"
      /\ p \in suback => p.op = "SUBACK" /\ p.granted \in Seq(0..255) /\ p.maxcount \in Nat
      /\ p \in unsuback => p.op = "UNSUBACK"
  BY SMTT(20)
<1> HIDE DEF connect, publish, subscribe, unsubscribe, ack, zero, connack, suback, unsuback
<1> QED
  BY <1>1, <1>2, <1>3, <1>4, <1>5, <1>6, <1>7

LEMMA SizeOfOne ==
    ASSUME NEW f, Size(f) \in Nat
    PROVE  SizeOf(<<f>>) = Size(f)
BY SizeOfFew

LEMMA AmpleIsEnough == MaxLength \in Nat /\ Ample \in Nat /\ MaxLength + 6 <= Ample
<1>1. MaxLength + 6 <= Ample
  BY SMTT(20) DEF MaxLength, Ample
<1>2. MaxLength \in Nat
  BY SMTT(20) DEF MaxLength
<1>3. Ample \in Nat
  BY SMTT(20) DEF Ample
<1> QED
  BY <1>1, <1>2, <1>3

\* A packet of a buffer's size: what Serialized() gives of fields as long as the length.
LEMMA SerializedRight ==
    ASSUME NEW length \in 0..MaxLength, NEW fields, SizeOf(fields) = length, NEW head,
           NEW size \in Int
    PROVE  LET r == Serialized(size, head, length, fields)
           IN  /\ r.rc \in Int
               /\ r.rc > 0 => /\ decode(r.packet.length) = [value |-> SizeOf(r.packet.fields),
                                                            len |-> Len(r.packet.length)]
                              /\ r.rc <= size
               /\ ~(r.rc > 0) => size <= Serialized(Ample, head, length, fields).rc
<1> DEFINE digits == encode(length)
           exact  == 1 + Len(digits) + length
           w      == Written(head, length, fields)
           full   == MQTTPacket_len(length)
<1>1. length \in Nat /\ length <= MaxLength
  BY LengthsAreNat
<1>2. decode(digits) = [value |-> length, len |-> Len(digits)]
  BY LengthSurvives
<1>3. Len(digits) \in 1..4
  BY <1>1, EncodeShape
<1>4. exact <= full /\ full <= exact + 1
  BY LengthBound
<1>5. full \in Int /\ full <= Ample
  <2>1. full \in Int
    BY <1>1, SMTT(20) DEF MQTTPacket_len
  <2> HIDE DEF full, digits
  <2>2. MaxLength \in Nat /\ Ample \in Nat /\ MaxLength + 6 <= Ample
    BY AmpleIsEnough
  <2> DEFINE k == Len(digits)
  <2>3. k \in 1..4
    BY <1>3
  <2>4. exact = 1 + k + length
    OBVIOUS
  <2> HIDE DEF k, w, exact
  <2>5. exact \in Int /\ exact <= MaxLength + 5
    BY <1>1, <2>2, <2>3, <2>4
  <2> QED
    BY <1>4, <2>1, <2>2, <2>5
<1>6. w.rc = exact /\ w.packet.length = digits /\ w.packet.fields = fields
  BY DEF Written
<1> HIDE DEF digits, w, full
<1>7. Serialized(Ample, head, length, fields) = w
  <2>1. Ample \in Int
    BY AmpleIsEnough
  <2>2. ~(full > Ample)
    BY <1>5, <2>1
  <2> QED
    BY <2>2, Zenon DEF Serialized, full, w
<1>8. Serialized(size, head, length, fields) = IF full > size THEN Refused ELSE w
  BY Zenon DEF Serialized, full, w
<1>9. Refused.rc = -2
  BY DEF Refused, TOO_SHORT
<1>10. exact \in Int /\ exact > 0
  BY <1>1, <1>3
<1> DEFINE r == Serialized(size, head, length, fields)
<1>11. CASE full > size
  <2>1. r.rc = -2
    BY <1>8, <1>9, <1>11, Zenon
  <2>2. size <= exact
    BY <1>4, <1>5, <1>10, <1>11
  <2> HIDE DEF r, exact
  <2>3. r.rc \in Int /\ ~(r.rc > 0)
    BY <2>1
  <2> QED
    BY <2>2, <2>3, <1>6, <1>7, <1>10, Zenon DEF r
<1>12. CASE ~(full > size)
  <2>1. r = w
    BY <1>8, <1>12, Zenon
  <2>2. exact <= size
    BY <1>4, <1>5, <1>10, <1>12
  <2> HIDE DEF r, exact
  <2>3. r.rc = exact /\ r.rc > 0
    BY <2>1, <1>6, <1>10
  <2> QED
    BY <2>1, <2>2, <2>3, <1>2, <1>6, <1>7, <1>10, Zenon DEF r
<1> QED
  BY <1>11, <1>12

\* What is written of a CONNECT, piece by piece
When(condition, fields) == IF condition THEN fields ELSE <<>>
ConnectHead(o) ==
    << Protocol(o.version), Byte(IF o.version = 4 THEN 4 ELSE 3),
       Byte(ConnectFlags(o)), Word(o.keepAlive), writeMQTTString(o.clientID) >>
ConnectWill(o) == When(o.will, << writeMQTTString(o.topic), writeMQTTString(o.message) >>)
ConnectName(o) == When(Given(o.username), << writeMQTTString(o.username) >>)
ConnectPass(o) == When(Given(o.password), << writeMQTTString(o.password) >>)
ConnectFields(o) == ((ConnectHead(o) \o ConnectWill(o)) \o ConnectName(o)) \o ConnectPass(o)

LEMMA ConnectIs ==
    ASSUME NEW o, NEW size
    PROVE  MQTTSerialize_connect(size, o)
               = Serialized(size, Header("CONNECT", FALSE, 0, FALSE), connectLength(o), ConnectFields(o))
BY Zenon DEF MQTTSerialize_connect, ConnectFields, ConnectHead, ConnectWill, ConnectName, ConnectPass, When

LEMMA WhenSize ==
    ASSUME NEW S, Sized(S), NEW fields \in Seq(S), SizeOf(fields) \in Nat, NEW condition
    PROVE  /\ When(condition, fields) \in Seq(S)
           /\ SizeOf(When(condition, fields)) = IF condition THEN SizeOf(fields) ELSE 0
<1>1. SizeOf(<<>>) = 0
  <2>1. [n \in DOMAIN <<>> |-> Size(<<>>[n])] = <<>>
    OBVIOUS
  <2> QED
    BY <2>1, TotalOfFew DEF SizeOf
<1>2. <<>> \in Seq(S)
  OBVIOUS
<1>3. CASE condition
  BY <1>3, Zenon DEF When
<1>4. CASE ~condition
  BY <1>1, <1>2, <1>4, Zenon DEF When
<1> QED
  BY <1>3, <1>4, Zenon

LEMMA ConnectSize ==
    ASSUME NEW o, o.version \in {3, 4}, o.clientID \in MQTTStrings, o.topic \in MQTTStrings,
           o.message \in MQTTStrings, o.username \in MQTTStrings, o.password \in MQTTStrings
    PROVE  connectLength(o) \in Nat /\ SizeOf(ConnectFields(o)) = connectLength(o)
<1> DEFINE f == Protocol(o.version)
           g == Byte(IF o.version = 4 THEN 4 ELSE 3)
           h == Byte(ConnectFlags(o))
           i == Word(o.keepAlive)
           c == writeMQTTString(o.clientID)
           t == writeMQTTString(o.topic)
           m == writeMQTTString(o.message)
           u == writeMQTTString(o.username)
           w == writeMQTTString(o.password)
           S == {f, g, h, i, c, t, m, u, w}
           first == IF o.version = 3 THEN 8 ELSE 6
<1>1. Size(f) = first /\ first \in Nat
  BY FieldSizes
<1>2. Size(g) = 1 /\ Size(h) = 1 /\ Size(i) = 2
  BY FieldSizes, Zenon
<1>3. /\ Size(c) = MQTTstrlen(o.clientID) + 2 /\ MQTTstrlen(o.clientID) \in Nat
      /\ Size(t) = MQTTstrlen(o.topic) + 2 /\ MQTTstrlen(o.topic) \in Nat
      /\ Size(m) = MQTTstrlen(o.message) + 2 /\ MQTTstrlen(o.message) \in Nat
      /\ Size(u) = MQTTstrlen(o.username) + 2 /\ MQTTstrlen(o.username) \in Nat
      /\ Size(w) = MQTTstrlen(o.password) + 2 /\ MQTTstrlen(o.password) \in Nat
  BY StringSize
<1> DEFINE nc == MQTTstrlen(o.clientID)
           nt == MQTTstrlen(o.topic)
           nm == MQTTstrlen(o.message)
           nu == MQTTstrlen(o.username)
           nw == MQTTstrlen(o.password)
           A == ConnectHead(o)
           B == ConnectWill(o)
           C == ConnectName(o)
           D == ConnectPass(o)
           AB == A \o B
           ABC == AB \o C
           ABCD == ABC \o D
           BN == IF o.will THEN nt + 2 + nm + 2 ELSE 0
           CN == IF Given(o.username) THEN nu + 2 ELSE 0
           DN == IF Given(o.password) THEN nw + 2 ELSE 0
<1>4. A = <<f, g, h, i, c>> /\ B = When(o.will, <<t, m>>)
      /\ C = When(Given(o.username), <<u>>) /\ D = When(Given(o.password), <<w>>)
  BY Zenon DEF ConnectHead, ConnectWill, ConnectName, ConnectPass
<1>5. ConnectFields(o) = ABCD
  BY Zenon DEF ConnectFields
<1>6. connectLength(o) = 4 + first + nc + 2 + BN + CN + DN
  BY <1>3 DEF connectLength
<1> HIDE DEF f, g, h, i, c, t, m, u, w, nc, nt, nm, nu, nw, first, A, B, C, D
<1>7. Sized(S)
  BY <1>1, <1>2, <1>3 DEF Sized, nc, nt, nm, nu, nw
<1>8. <<f, g, h, i, c>> \in Seq(S) /\ <<t, m>> \in Seq(S) /\ <<u>> \in Seq(S) /\ <<w>> \in Seq(S)
  OBVIOUS
<1> HIDE DEF S
<1>9. A \in Seq(S) /\ SizeOf(A) = first + 1 + 1 + 2 + (nc + 2)
  BY <1>1, <1>2, <1>3, <1>4, <1>8, SizeOfFive DEF nc
<1> DEFINE tm == <<t, m>>
           us == <<u>>
           ws == <<w>>
<1>10. /\ SizeOf(tm) = Size(t) + Size(m)
       /\ SizeOf(us) = Size(u) /\ SizeOf(ws) = Size(w)
  <2>1. Size(t) \in Nat /\ Size(m) \in Nat /\ Size(u) \in Nat /\ Size(w) \in Nat
    BY <1>3
  <2> QED
    BY <2>1, SizeOfFew
<1>11. tm \in Seq(S) /\ us \in Seq(S) /\ ws \in Seq(S)
  BY <1>8
<1>12. B = When(o.will, tm) /\ C = When(Given(o.username), us) /\ D = When(Given(o.password), ws)
  BY <1>4
<1> HIDE DEF tm, us, ws
<1>13. /\ SizeOf(tm) = nt + 2 + nm + 2 /\ SizeOf(tm) \in Nat
       /\ SizeOf(us) = nu + 2 /\ SizeOf(us) \in Nat
       /\ SizeOf(ws) = nw + 2 /\ SizeOf(ws) \in Nat
  BY <1>3, <1>10 DEF nt, nm, nu, nw
<1>14. B \in Seq(S) /\ SizeOf(B) = BN
  BY <1>7, <1>11, <1>12, <1>13, WhenSize
<1>15. C \in Seq(S) /\ SizeOf(C) = CN
  BY <1>7, <1>11, <1>12, <1>13, WhenSize
<1>16. D \in Seq(S) /\ SizeOf(D) = DN
  BY <1>7, <1>11, <1>12, <1>13, WhenSize
<1>17. Join(AB, A, B) /\ Join(ABC, AB, C) /\ Join(ABCD, ABC, D)
  BY Zenon DEF Join
<1> HIDE DEF AB, ABC, ABCD
<1>18. SizeOf(AB) = SizeOf(A) + SizeOf(B) /\ AB \in Seq(S)
  BY <1>7, <1>9, <1>14, <1>17, SizeOfTwo
<1>19. SizeOf(ABC) = SizeOf(AB) + SizeOf(C) /\ ABC \in Seq(S)
  BY <1>7, <1>15, <1>17, <1>18, SizeOfTwo
<1>20. SizeOf(ABCD) = SizeOf(ABC) + SizeOf(D)
  BY <1>7, <1>16, <1>17, <1>19, SizeOfTwo
<1>21. nc \in Nat /\ BN \in Nat /\ CN \in Nat /\ DN \in Nat
  BY <1>3 DEF nc, nt, nm, nu, nw
<1> HIDE DEF BN, CN, DN
<1> QED
  BY <1>1, <1>5, <1>6, <1>9, <1>14, <1>15, <1>16, <1>18, <1>19, <1>20, <1>21

\* What is written of a PUBLISH
PublishFields(p) ==
    (<< writeMQTTString(p.topic) >> \o When(p.qos > 0, << Word(p.id) >>)) \o << Payload(p.payload) >>

LEMMA PublishIs ==
    ASSUME NEW p, NEW size
    PROVE  MQTTSerialize_publish(size, p)
               = Serialized(size, Header("PUBLISH", p.dup, p.qos, p.retained), publishLength(p),
                            PublishFields(p))
BY Zenon DEF MQTTSerialize_publish, PublishFields, When

LEMMA PublishSize ==
    ASSUME NEW p, p.topic \in MQTTStrings, p.payload \in Strings, p.qos \in 0..2
    PROVE  publishLength(p) \in Nat /\ SizeOf(PublishFields(p)) = publishLength(p)
<1> DEFINE t == writeMQTTString(p.topic)
           i == Word(p.id)
           b == Payload(p.payload)
           S == {t, i, b}
           nt == MQTTstrlen(p.topic)
           nb == StringLen[p.payload]
           A == <<t>>
           I == <<i>>
           B == When(p.qos > 0, I)
           C == <<b>>
           AB == A \o B
           ABC == AB \o C
           BN == IF p.qos > 0 THEN 2 ELSE 0
<1>1. Size(t) = nt + 2 /\ nt \in Nat
  BY StringSize
<1>2. Size(b) = nb /\ nb \in Nat /\ Size(i) = 2
  BY FieldSizes
<1>3. PublishFields(p) = ABC
  BY Zenon DEF PublishFields
<1>4. publishLength(p) = 2 + nt + nb + BN
  BY DEF publishLength
<1> HIDE DEF t, i, b, nt, nb
<1>5. Sized(S) /\ A \in Seq(S) /\ I \in Seq(S) /\ C \in Seq(S)
  BY <1>1, <1>2 DEF Sized
<1>6. Size(t) \in Nat /\ Size(i) \in Nat /\ Size(b) \in Nat
  BY <1>1, <1>2
<1>7. SizeOf(A) = nt + 2 /\ SizeOf(I) = 2 /\ SizeOf(C) = nb
  BY <1>1, <1>2, <1>6, SizeOfOne
<1> HIDE DEF S, A, I, C
<1>8. B \in Seq(S) /\ SizeOf(B) = BN
  <2>1. SizeOf(I) \in Nat
    BY <1>7
  <2> QED
    BY <1>5, <1>7, <2>1, WhenSize
<1>9. Join(AB, A, B) /\ Join(ABC, AB, C)
  BY Zenon DEF Join
<1> HIDE DEF B, AB, ABC
<1>10. SizeOf(AB) = SizeOf(A) + SizeOf(B) /\ AB \in Seq(S)
  BY <1>5, <1>8, <1>9, SizeOfTwo
<1>11. SizeOf(ABC) = SizeOf(AB) + SizeOf(C)
  BY <1>5, <1>9, <1>10, SizeOfTwo
<1>12. BN \in Nat
  OBVIOUS
<1> HIDE DEF BN
<1> QED
  BY <1>1, <1>2, <1>3, <1>4, <1>7, <1>8, <1>10, <1>11, <1>12

\* One field per element of a list, after an integer
LEMMA ListSize ==
    ASSUME NEW id, NEW list, NEW c, Join(c, <<Word(id)>>, list), NEW S, Sized(S), Word(id) \in S,
           list \in Seq(S)
    PROVE  SizeOf(c) = 2 + SizeOf(list)
<1> DEFINE w == Word(id)
           A == <<w>>
<1>1. Size(w) = 2 /\ w \in S /\ Join(c, A, list)
  BY FieldSizes
<1> HIDE DEF w
<1>2. SizeOf(A) = 2 /\ A \in Seq(S)
  BY <1>1, SizeOfOne
<1> HIDE DEF A
<1> QED
  BY <1>1, <1>2, SizeOfTwo

LEMMA UnsubscribeSize ==
    ASSUME NEW id, NEW filters \in Seq(MQTTStrings)
    PROVE  LET fields == << Word(id) >> \o [n \in DOMAIN filters |-> writeMQTTString(filters[n])]
           IN  /\ unsubscribeLength(filters) \in Nat
               /\ SizeOf(fields) = unsubscribeLength(filters)
<1> DEFINE list == [n \in DOMAIN filters |-> writeMQTTString(filters[n])]
           numbers == [n \in DOMAIN filters |-> 2 + MQTTstrlen(filters[n])]
           S == {Word(id)} \union {writeMQTTString(s) : s \in MQTTStrings}
           c == << Word(id) >> \o list
<1>1. Sized(S)
  <2>1. \A s \in MQTTStrings : Size(writeMQTTString(s)) \in Nat
    BY StringSize
  <2>2. Size(Word(id)) \in Nat
    BY FieldSizes
  <2> QED
    BY <2>1, <2>2 DEF Sized
<1>2. DOMAIN filters = 1..Len(filters) /\ Len(filters) \in Nat
      /\ \A n \in 1..Len(filters) : filters[n] \in MQTTStrings
  OBVIOUS
<1>3. list \in Seq(S) /\ Len(list) = Len(filters) /\ DOMAIN list = DOMAIN filters
      /\ \A n \in 1..Len(filters) : list[n] = writeMQTTString(filters[n])
  BY <1>2
<1>4. \A n \in 1..Len(filters) : Size(list[n]) = 2 + MQTTstrlen(filters[n]) /\ MQTTstrlen(filters[n]) \in Nat
  BY <1>2, <1>3, StringSize
<1>5. numbers \in Seq(Nat)
  BY <1>2, <1>4
<1>6. numbers = [n \in DOMAIN list |-> Size(list[n])]
  BY <1>2, <1>3, <1>4
<1>7. SizeOf(list) = Total(numbers)
  BY <1>6, Zenon DEF SizeOf
<1>8. unsubscribeLength(filters) = 2 + Total(numbers)
  BY Zenon DEF unsubscribeLength
<1>9. Join(c, <<Word(id)>>, list) /\ Word(id) \in S
  BY DEF Join
<1> HIDE DEF list, numbers, S, c
<1>10. SizeOf(c) = 2 + SizeOf(list)
  BY <1>1, <1>3, <1>9, ListSize
<1>11. Total(numbers) \in Nat
  BY <1>5, SumsAreNumbers
<1> QED
  BY <1>7, <1>8, <1>10, <1>11 DEF c, list

LEMMA SubackSize ==
    ASSUME NEW id, NEW V, NEW granted \in Seq(V)
    PROVE  LET fields == << Word(id) >> \o [n \in DOMAIN granted |-> Byte(granted[n])]
           IN  Len(granted) \in Nat /\ SizeOf(fields) = 2 + Len(granted)
<1> DEFINE list == [n \in DOMAIN granted |-> Byte(granted[n])]
           numbers == [n \in DOMAIN list |-> Size(list[n])]
           S == {Word(id)} \union {Byte(v) : v \in V}
           c == << Word(id) >> \o list
<1>1. Sized(S)
  <2>1. Size(Word(id)) \in Nat /\ \A v \in V : Size(Byte(v)) \in Nat
    BY FieldSizes
  <2> QED
    BY <2>1 DEF Sized
<1>2. DOMAIN granted = 1..Len(granted) /\ Len(granted) \in Nat
      /\ \A n \in 1..Len(granted) : granted[n] \in V
  OBVIOUS
<1>3. list \in Seq(S) /\ Len(list) = Len(granted) /\ DOMAIN list = 1..Len(granted)
      /\ \A n \in 1..Len(granted) : list[n] = Byte(granted[n])
  BY <1>2
<1>4. \A n \in 1..Len(granted) : Size(list[n]) = 1
  BY <1>3, FieldSizes
<1>5. SizeOf(list) = Total(numbers)
  BY Zenon DEF SizeOf
<1>6. Join(c, <<Word(id)>>, list) /\ Word(id) \in S
  BY DEF Join
<1> HIDE DEF list, S, c
<1>7. numbers \in Seq(Nat) /\ Len(numbers) = Len(granted) /\ \A n \in 1..Len(numbers) : numbers[n] = 1
  BY <1>2, <1>3, <1>4
<1> HIDE DEF numbers
<1>8. SizeOf(list) = Len(granted)
  BY <1>5, <1>7, TotalOfOnes
<1>9. SizeOf(c) = 2 + SizeOf(list)
  BY <1>1, <1>3, <1>6, ListSize
<1> QED
  BY <1>2, <1>8, <1>9 DEF c, list

LEMMA SubscribeSize ==
    ASSUME NEW id, NEW filters \in Seq(MQTTStrings), NEW qoss
    PROVE  LET fields == << Word(id) >>
                         \o Concat([n \in DOMAIN filters |->
                                      << writeMQTTString(filters[n]), Byte(qoss[n]) >>])
           IN  /\ subscribeLength(filters) \in Nat
               /\ SizeOf(fields) = subscribeLength(filters)
<1> DEFINE pieces == [n \in DOMAIN filters |-> << writeMQTTString(filters[n]), Byte(qoss[n]) >>]
           numbers == [n \in DOMAIN filters |-> 2 + MQTTstrlen(filters[n]) + 1]
           S == {Word(id)} \union {writeMQTTString(s) : s \in MQTTStrings}
                \union {Byte(qoss[n]) : n \in DOMAIN filters}
           list == Concat(pieces)
           c == << Word(id) >> \o list
<1>1. Sized(S)
  <2>1. \A s \in MQTTStrings : Size(writeMQTTString(s)) \in Nat
    BY StringSize
  <2>2. Size(Word(id)) \in Nat /\ \A n \in DOMAIN filters : Size(Byte(qoss[n])) \in Nat
    BY FieldSizes
  <2> QED
    BY <2>1, <2>2 DEF Sized
<1>2. DOMAIN filters = 1..Len(filters) /\ Len(filters) \in Nat
      /\ \A n \in 1..Len(filters) : filters[n] \in MQTTStrings
  OBVIOUS
<1>3. \A n \in 1..Len(filters) : << writeMQTTString(filters[n]), Byte(qoss[n]) >> \in Seq(S)
  <2> SUFFICES ASSUME NEW n \in 1..Len(filters)
               PROVE  << writeMQTTString(filters[n]), Byte(qoss[n]) >> \in Seq(S)
    OBVIOUS
  <2> DEFINE f == writeMQTTString(filters[n])
             g == Byte(qoss[n])
  <2>1. f \in S /\ g \in S
    BY <1>2
  <2> HIDE DEF f, g, S
  <2>2. <<f, g>> \in Seq(S)
    BY <2>1
  <2> QED
    BY <2>2 DEF f, g
<1> HIDE DEF S
<1>4. /\ pieces \in Seq(Seq(S)) /\ Len(pieces) = Len(filters) /\ DOMAIN pieces = DOMAIN filters
      /\ \A n \in 1..Len(filters) : pieces[n] = << writeMQTTString(filters[n]), Byte(qoss[n]) >>
  BY <1>2, <1>3
<1>5. \A n \in 1..Len(filters) :
         SizeOf(pieces[n]) = 2 + MQTTstrlen(filters[n]) + 1 /\ MQTTstrlen(filters[n]) \in Nat
  <2> SUFFICES ASSUME NEW n \in 1..Len(filters)
               PROVE  SizeOf(pieces[n]) = 2 + MQTTstrlen(filters[n]) + 1
                      /\ MQTTstrlen(filters[n]) \in Nat
    OBVIOUS
  <2> DEFINE f == writeMQTTString(filters[n])
             g == Byte(qoss[n])
             k == MQTTstrlen(filters[n])
  <2>1. pieces[n] = <<f, g>>
    BY <1>4
  <2>2. Size(f) = k + 2 /\ k \in Nat
    BY <1>2, StringSize
  <2>3. Size(g) = 1
    BY FieldSizes
  <2> HIDE DEF f, g, k, pieces
  <2>4. SizeOf(<<f, g>>) = Size(f) + Size(g)
    <3>1. Size(f) \in Nat /\ Size(g) \in Nat
      BY <2>2, <2>3
    <3> QED
      BY <3>1, SizeOfFew
  <2>5. SizeOf(pieces[n]) = 2 + k + 1
    <3>1. SizeOf(pieces[n]) = SizeOf(<<f, g>>)
      BY <2>1
    <3> QED
      BY <2>2, <2>3, <2>4, <3>1
  <2> QED
    BY <2>2, <2>5 DEF k
<1>6. numbers \in Seq(Nat)
  <2>1. \A n \in 1..Len(filters) : 2 + MQTTstrlen(filters[n]) + 1 \in Nat
    <3> TAKE n \in 1..Len(filters)
    <3> DEFINE k == MQTTstrlen(filters[n])
    <3>1. k \in Nat
      BY <1>5
    <3> HIDE DEF k
    <3>2. 2 + k + 1 \in Nat
      BY <3>1
    <3> QED
      BY <3>2 DEF k
  <2> QED
    BY <1>2, <2>1
<1>7. numbers = [n \in DOMAIN pieces |-> SizeOf(pieces[n])]
  BY <1>2, <1>4, <1>5
<1>8. subscribeLength(filters) = 2 + Total(numbers)
  BY Zenon DEF subscribeLength
<1>9. Join(c, <<Word(id)>>, list) /\ Word(id) \in S
  BY DEF Join, S
<1> HIDE DEF pieces, numbers, c
<1>10. SizeOf(list) = Total(numbers)
  BY <1>1, <1>4, <1>7, SizeOfPieces
<1>11. list \in Seq(S)
  <2>1. Len(pieces) \in 0..Len(pieces)
    BY <1>2, <1>4
  <2>2. Firsts(pieces)[Len(pieces)] \in Seq(S)
    BY <1>4, <2>1, FirstsAreSequences
  <2> QED
    BY <2>2, Zenon DEF Concat, list
<1> HIDE DEF list
<1>12. SizeOf(c) = 2 + SizeOf(list)
  BY <1>1, <1>9, <1>11, ListSize
<1>13. Total(numbers) \in Nat
  BY <1>6, SumsAreNumbers
<1> QED
  BY <1>8, <1>10, <1>12, <1>13 DEF c, list, pieces

LEMMA WrittenRight ==
    ASSUME NEW length \in 0..MaxLength, NEW fields, SizeOf(fields) = length, NEW head
    PROVE  LET w == Written(head, length, fields)
           IN  /\ w.rc = 1 + Len(encode(length)) + length /\ w.rc \in Int
               /\ decode(w.packet.length) = [value |-> SizeOf(w.packet.fields),
                                             len |-> Len(w.packet.length)]
<1> DEFINE digits == encode(length)
           w == Written(head, length, fields)
<1>1. length \in Nat /\ length <= MaxLength
  BY LengthsAreNat
<1>2. decode(digits) = [value |-> length, len |-> Len(digits)]
  BY LengthSurvives
<1>3. Len(digits) \in 1..4
  BY <1>1, EncodeShape
<1>4. w.rc = 1 + Len(digits) + length /\ w.packet.length = digits /\ w.packet.fields = fields
  BY DEF Written
<1> HIDE DEF digits, w
<1>5. 1 + Len(digits) + length \in Int
  BY <1>1, <1>3
<1> QED
  BY <1>2, <1>4, <1>5, Zenon DEF digits, w

-----------------------------------------------------------------------------
(* The lengths that serialisers work out *)

\* What LengthsRight says of a packet of any size
Right(p) ==
    \A size \in Int :
        LET r == Serialize(size, p)
        IN  /\ r.rc \in Int
            /\ r.rc > 0 => decode(r.packet.length) = [value |-> SizeOf(r.packet.fields),
                                                      len |-> Len(r.packet.length)]
            /\ p.op \in Clients => IF r.rc > 0 THEN r.rc <= size
                                   ELSE size <= Serialize(Ample, p).rc

LEMMA ByLength ==
    ASSUME NEW p, LengthOf(p) \in 0..MaxLength, NEW head, NEW fields,
           SizeOf(fields) = LengthOf(p),
           \A size : Serialize(size, p) = Serialized(size, head, LengthOf(p), fields)
    PROVE  Right(p)
<1> SUFFICES ASSUME NEW size \in Int
             PROVE  LET r == Serialize(size, p)
                    IN  /\ r.rc \in Int
                        /\ r.rc > 0 => decode(r.packet.length) = [value |-> SizeOf(r.packet.fields),
                                                                  len |-> Len(r.packet.length)]
                        /\ IF r.rc > 0 THEN r.rc <= size ELSE size <= Serialize(Ample, p).rc
  BY Zenon DEF Right
<1> DEFINE length == LengthOf(p)
           r == Serialized(size, head, length, fields)
<1>1. length \in 0..MaxLength /\ SizeOf(fields) = length
  OBVIOUS
<1>2. Serialize(size, p) = r /\ Serialize(Ample, p) = Serialized(Ample, head, length, fields)
  BY Zenon
<1> HIDE DEF length
<1>3. /\ r.rc \in Int
      /\ r.rc > 0 => /\ decode(r.packet.length) = [value |-> SizeOf(r.packet.fields),
                                                   len |-> Len(r.packet.length)]
                     /\ r.rc <= size
      /\ ~(r.rc > 0) => size <= Serialized(Ample, head, length, fields).rc
  BY <1>1, SerializedRight, Zenon
<1> QED
  BY <1>2, <1>3, Zenon

LEMMA ByRoom ==
    ASSUME NEW p, NEW length \in 0..MaxLength, NEW head, NEW fields, SizeOf(fields) = length,
           NEW room \in Int,
           \A size : Serialize(size, p) = IF size < room THEN Refused
                                          ELSE Written(head, length, fields),
           p.op \in Clients => room = 1 + Len(encode(length)) + length
    PROVE  Right(p)
<1> SUFFICES ASSUME NEW size \in Int
             PROVE  LET r == Serialize(size, p)
                    IN  /\ r.rc \in Int
                        /\ r.rc > 0 => decode(r.packet.length) = [value |-> SizeOf(r.packet.fields),
                                                                  len |-> Len(r.packet.length)]
                        /\ p.op \in Clients => IF r.rc > 0 THEN r.rc <= size
                                               ELSE size <= Serialize(Ample, p).rc
  BY Zenon DEF Right
<1> DEFINE r == Serialize(size, p)
           w == Written(head, length, fields)
           exact == 1 + Len(encode(length)) + length
<1>1. /\ w.rc = exact /\ w.rc \in Int
      /\ decode(w.packet.length) = [value |-> SizeOf(w.packet.fields), len |-> Len(w.packet.length)]
  BY WrittenRight
<1>2. length \in Nat /\ length <= MaxLength /\ Len(encode(length)) \in 1..4
  <2>1. length \in Nat /\ length <= MaxLength
    BY LengthsAreNat
  <2> QED
    BY <2>1, EncodeShape
<1>3. exact \in Int /\ 0 < exact /\ exact <= Ample
  <2> DEFINE k == Len(encode(length))
  <2>1. k \in 1..4
    BY <1>2
  <2> HIDE DEF k, w, r
  <2>2. 1 + k + length \in Int /\ 0 < 1 + k + length /\ 1 + k + length <= Ample
    BY <1>2, <2>1, AmpleIsEnough
  <2> QED
    BY <2>2 DEF k
<1>4. r = (IF size < room THEN Refused ELSE w) /\ Serialize(Ample, p) = IF Ample < room THEN Refused ELSE w
  BY Zenon
<1>5. Refused.rc = -2
  BY DEF Refused, TOO_SHORT
<1> HIDE DEF w, r, exact
<1>6. p.op \in Clients => room = exact
  BY Zenon DEF exact
<1>7. CASE size < room
  <2>1. r.rc = -2
    BY <1>4, <1>5, <1>7, Zenon
  <2>2. r.rc \in Int /\ ~(r.rc > 0)
    BY <2>1
  <2>3. ASSUME p.op \in Clients
        PROVE  size <= Serialize(Ample, p).rc
    <3>1. room = exact
      BY <1>6, <2>3
    <3>2. ~(Ample < room) /\ size <= exact
      BY <1>3, <1>7, <3>1, AmpleIsEnough
    <3>3. Serialize(Ample, p) = w
      BY <1>4, <3>2, Zenon
    <3> QED
      BY <1>1, <3>2, <3>3, Zenon
  <2> QED
    BY <2>2, <2>3, Zenon DEF r
<1>8. CASE ~(size < room)
  <2>1. r = w
    BY <1>4, <1>8, Zenon
  <2>2. ASSUME p.op \in Clients
        PROVE  r.rc <= size
    <3>1. room = exact
      BY <1>6, <2>2
    <3>2. exact <= size
      BY <1>3, <1>8, <3>1
    <3> QED
      BY <1>1, <2>1, <3>2, Zenon
  <2>3. r.rc > 0
    BY <1>1, <1>3, <2>1
  <2> QED
    BY <1>1, <2>1, <2>2, <2>3, Zenon DEF r
<1> QED
  BY <1>7, <1>8, Zenon

LEMMA ShortLengths ==
    /\ 0 \in 0..MaxLength /\ 2 \in 0..MaxLength
    /\ 1 + Len(encode(0)) + 0 = 2 /\ 1 + Len(encode(2)) + 2 = 4
<1>1. MaxLength \in Nat /\ 2 <= MaxLength
  BY SMTT(20) DEF MaxLength
<1>2. Digits(0) = 1 /\ Digits(2) = 1
  BY SMTT(20) DEF Digits
<1>3. 0 \in 0..MaxLength /\ 2 \in 0..MaxLength
  BY <1>1
<1> DEFINE none == Len(encode(0))
           word == Len(encode(2))
<1>4. none = 1 /\ word = 1
  <2>1. 0 \in Nat /\ 2 \in Nat /\ 0 <= MaxLength
    BY <1>1
  <2>2. none = Digits(0)
    BY <2>1, EncodeShape
  <2>3. word = Digits(2)
    BY <1>1, <2>1, EncodeShape
  <2> QED
    BY <1>2, <2>2, <2>3
<1> HIDE DEF none, word
<1>5. 1 + none + 0 = 2 /\ 1 + word + 2 = 4
  BY <1>4
<1> QED
  BY <1>3, <1>5 DEF none, word

LEMMA RequestsRight == \A p \in Requests : Right(p)
<1> SUFFICES ASSUME NEW p \in Requests
             PROVE  Right(p)
  OBVIOUS
<1> HIDE DEF MaxLength
<1>1. LengthOf(p) \in Nat => LengthOf(p) \in 0..MaxLength
  BY RequestsAre, AmpleIsEnough
<1>2. CASE p.op = "CONNECT"
  <2>1. LengthOf(p) = connectLength(p)
    BY <1>2 DEF LengthOf
  <2>2. connectLength(p) \in Nat /\ SizeOf(ConnectFields(p)) = connectLength(p)
    BY <1>2, RequestsAre, ConnectSize
  <2>3. \A size : Serialize(size, p) = MQTTSerialize_connect(size, p)
    BY <1>2 DEF Serialize
  <2> DEFINE head   == Header("CONNECT", FALSE, 0, FALSE)
             fields == ConnectFields(p)
  <2>4. \A size : Serialize(size, p) = Serialized(size, head, LengthOf(p), fields)
    BY <2>1, <2>3, ConnectIs, Zenon
  <2> HIDE DEF head, fields
  <2>5. LengthOf(p) \in 0..MaxLength /\ SizeOf(fields) = LengthOf(p)
    BY <1>1, <2>1, <2>2, Zenon DEF fields
  <2> QED
    BY <2>4, <2>5, ByLength, Zenon
<1>3. CASE p.op = "PUBLISH"
  <2>1. LengthOf(p) = publishLength(p)
    BY <1>3 DEF LengthOf
  <2>2. publishLength(p) \in Nat /\ SizeOf(PublishFields(p)) = publishLength(p)
    BY <1>3, RequestsAre, PublishSize
  <2>3. \A size : Serialize(size, p) = MQTTSerialize_publish(size, p)
    BY <1>3 DEF Serialize
  <2> DEFINE head   == Header("PUBLISH", p.dup, p.qos, p.retained)
             fields == PublishFields(p)
  <2>4. \A size : Serialize(size, p) = Serialized(size, head, LengthOf(p), fields)
    BY <2>1, <2>3, PublishIs, Zenon
  <2> HIDE DEF head, fields
  <2>5. LengthOf(p) \in 0..MaxLength /\ SizeOf(fields) = LengthOf(p)
    BY <1>1, <2>1, <2>2, Zenon DEF fields
  <2> QED
    BY <2>4, <2>5, ByLength, Zenon
<1>4. CASE p.op = "SUBSCRIBE"
  <2>1. LengthOf(p) = subscribeLength(p.filters)
    BY <1>4 DEF LengthOf
  <2> DEFINE head   == Header("SUBSCRIBE", p.dup, 1, FALSE)
             fields == << Word(p.id) >>
                       \o Concat([n \in DOMAIN p.filters |->
                                    << writeMQTTString(p.filters[n]), Byte(p.qoss[n]) >>])
  <2>2. subscribeLength(p.filters) \in Nat /\ SizeOf(fields) = subscribeLength(p.filters)
    <3>1. p.filters \in Seq(MQTTStrings)
      BY <1>4, RequestsAre
    <3> QED
      BY <3>1, SubscribeSize, Zenon
  <2>3. \A size : Serialize(size, p) = MQTTSerialize_subscribe(size, p)
    BY <1>4 DEF Serialize
  <2>4. \A size : Serialize(size, p) = Serialized(size, head, LengthOf(p), fields)
    BY <2>1, <2>3, Zenon DEF MQTTSerialize_subscribe
  <2> HIDE DEF head, fields
  <2>5. LengthOf(p) \in 0..MaxLength /\ SizeOf(fields) = LengthOf(p)
    BY <1>1, <2>1, <2>2, Zenon
  <2> QED
    BY <2>4, <2>5, ByLength, Zenon
<1>5. CASE p.op = "UNSUBSCRIBE"
  <2>1. LengthOf(p) = unsubscribeLength(p.filters)
    BY <1>5 DEF LengthOf
  <2> DEFINE head   == Header("UNSUBSCRIBE", p.dup, 1, FALSE)
             fields == << Word(p.id) >>
                       \o [n \in DOMAIN p.filters |-> writeMQTTString(p.filters[n])]
  <2>2. unsubscribeLength(p.filters) \in Nat /\ SizeOf(fields) = unsubscribeLength(p.filters)
    <3>1. p.filters \in Seq(MQTTStrings)
      BY <1>5, RequestsAre
    <3> QED
      BY <3>1, UnsubscribeSize, Zenon
  <2>3. \A size : Serialize(size, p) = MQTTSerialize_unsubscribe(size, p)
    BY <1>5 DEF Serialize
  <2>4. \A size : Serialize(size, p) = Serialized(size, head, LengthOf(p), fields)
    BY <2>1, <2>3, Zenon DEF MQTTSerialize_unsubscribe
  <2> HIDE DEF head, fields
  <2>5. LengthOf(p) \in 0..MaxLength /\ SizeOf(fields) = LengthOf(p)
    BY <1>1, <2>1, <2>2, Zenon
  <2> QED
    BY <2>4, <2>5, ByLength, Zenon
<1>6. CASE p.op = "ACK"
  <2> DEFINE head   == Header(p.type, p.dup, IF p.type = "PUBREL" THEN 1 ELSE 0, FALSE)
             fields == << Word(p.id) >>
  <2>1. \A size : Serialize(size, p) = MQTTSerialize_ack(size, p)
    BY <1>6 DEF Serialize
  <2>2. \A size : Serialize(size, p) = IF size < 4 THEN Refused ELSE Written(head, 2, fields)
    BY <2>1, Zenon DEF MQTTSerialize_ack
  <2>3. SizeOf(fields) = 2
    BY FieldSizes, SizeOfOne
  <2> HIDE DEF head, fields
  <2>4. 4 = 1 + Len(encode(2)) + 2 /\ 4 \in Int
    BY ShortLengths
  <2> QED
    BY <2>2, <2>3, <2>4, ShortLengths, ByRoom, Zenon
<1>7. CASE p.op = "ZERO"
  <2> DEFINE head == Header(p.type, FALSE, 0, FALSE)
             fields == <<>>
  <2>1. \A size : Serialize(size, p) = MQTTSerialize_zero(size, p.type)
    BY <1>7 DEF Serialize
  <2>2. \A size : Serialize(size, p) = IF size < 2 THEN Refused ELSE Written(head, 0, fields)
    BY <2>1, Zenon DEF MQTTSerialize_zero
  <2>3. SizeOf(fields) = 0
    <3>1. [n \in DOMAIN <<>> |-> Size(<<>>[n])] = <<>>
      OBVIOUS
    <3> QED
      BY <3>1, TotalOfFew DEF SizeOf
  <2> HIDE DEF head, fields
  <2>4. 2 = 1 + Len(encode(0)) + 0 /\ 2 \in Int
    BY ShortLengths
  <2> QED
    BY <2>2, <2>3, <2>4, ShortLengths, ByRoom, Zenon
<1>8. CASE p.op = "CONNACK"
  <2> DEFINE head == Header("CONNACK", FALSE, 0, FALSE)
             fields == << Byte(p.present), Byte(p.code) >>
  <2>1. \A size : Serialize(size, p) = MQTTSerialize_connack(size, p)
    BY <1>8 DEF Serialize
  <2>2. \A size : Serialize(size, p) = IF size < 2 THEN Refused ELSE Written(head, 2, fields)
    BY <2>1, Zenon DEF MQTTSerialize_connack
  <2>3. SizeOf(fields) = 2
    <3>1. Size(Byte(p.present)) = 1 /\ Size(Byte(p.code)) = 1
      BY FieldSizes, Zenon
    <3>2. Size(Byte(p.present)) \in Nat /\ Size(Byte(p.code)) \in Nat
      BY <3>1
    <3>3. SizeOf(fields) = Size(Byte(p.present)) + Size(Byte(p.code))
      BY <3>2, SizeOfFew
    <3> QED
      BY <3>1, <3>3
  <2> HIDE DEF head, fields
  <2>4. ~(p.op \in Clients) /\ 2 \in Int
    BY <1>8 DEF Clients
  <2> QED
    BY <2>2, <2>3, <2>4, ShortLengths, ByRoom, Zenon
<1>9. CASE p.op = "SUBACK"
  <2> DEFINE head == Header("SUBACK", FALSE, 0, FALSE)
             fields == << Word(p.id) >> \o [n \in DOMAIN p.granted |-> Byte(p.granted[n])]
             length == 2 + Len(p.granted)
  <2>1. LengthOf(p) = length
    BY <1>9 DEF LengthOf
  <2>2. \A size : Serialize(size, p) = MQTTSerialize_suback(size, p)
    BY <1>9 DEF Serialize
  <2>3. \A size : Serialize(size, p) = IF size < length THEN Refused ELSE Written(head, length, fields)
    BY <2>2, Zenon DEF MQTTSerialize_suback
  <2>4. Len(p.granted) \in Nat /\ SizeOf(fields) = length
    <3>1. p.granted \in Seq(0..255)
      BY <1>9, RequestsAre
    <3> QED
      BY <3>1, SubackSize, Zenon
  <2>5. length \in Int /\ length \in Nat
    BY <2>4
  <2> HIDE DEF head, fields, length
  <2>6. ~(p.op \in Clients)
    BY <1>9 DEF Clients
  <2>7. length \in 0..MaxLength
    BY <1>1, <2>1, <2>5, Zenon
  <2> QED
    BY <2>3, <2>4, <2>5, <2>6, <2>7, ByRoom, Zenon
<1>10. CASE p.op = "UNSUBACK"
  <2> DEFINE head   == Header("UNSUBACK", FALSE, 0, FALSE)
             fields == << Word(p.id) >>
  <2>1. \A size : Serialize(size, p) = MQTTSerialize_unsuback(size, p)
    BY <1>10 DEF Serialize
  <2>2. \A size : Serialize(size, p) = IF size < 2 THEN Refused ELSE Written(head, 2, fields)
    BY <2>1, Zenon DEF MQTTSerialize_unsuback
  <2>3. SizeOf(fields) = 2
    BY FieldSizes, SizeOfOne
  <2> HIDE DEF head, fields
  <2>4. ~(p.op \in Clients) /\ 2 \in Int
    BY <1>10 DEF Clients
  <2> QED
    BY <2>2, <2>3, <2>4, ShortLengths, ByRoom, Zenon
<1> QED
  BY <1>2, <1>3, <1>4, <1>5, <1>6, <1>7, <1>8, <1>9, <1>10, RequestsAre, Zenon

\* What the result is of
ExchIInv ==
    \/ given = Nobody /\ result = Refused
    \/ given \in Requests /\ buffer_size \in Int /\ result = Serialize(buffer_size, given)

LEMMA ExchangeStepsKeep == ExchIInv /\ [ExchangeNext]_exchangeVars => ExchIInv'
<1> SUFFICES ASSUME ExchIInv, [ExchangeNext]_exchangeVars
             PROVE  ExchIInv'
  OBVIOUS
<1>1. ASSUME NEW p \in Requests, Sends(p)
      PROVE  ExchIInv'
  <2> DEFINE size == Serialize(Ample, p).rc
  <2>1. PICK slack \in Slack : /\ buffer_size' = size + slack
                               /\ result' = Serialize(size + slack, p)
    BY <1>1, Zenon DEF Sends
  <2>2. given' = p
    BY <1>1, Zenon DEF Sends
  <2>3. size \in Int
    <3>1. Right(p) /\ Ample \in Int
      BY RequestsRight, AmpleIsEnough
    <3> QED
      BY <3>1, Zenon DEF Right
  <2> HIDE DEF size
  <2>4. buffer_size' \in Int
    BY <2>1, <2>3, ExchangeAssumption
  <2> QED
    BY <2>1, <2>2, <2>4, Zenon DEF ExchIInv
<1>2. CASE UNCHANGED <<given, buffer_size, result>>
  <2>1. given' = given /\ buffer_size' = buffer_size /\ result' = result
    BY <1>2
  <2> QED
    BY <2>1, Zenon DEF ExchIInv
<1>3. CASE Receives
  BY <1>2, <1>3, Zenon DEF Receives
<1>4. CASE UNCHANGED exchangeVars
  <2>1. UNCHANGED <<given, buffer_size, result>>
    BY <1>4 DEF exchangeVars
  <2> QED
    BY <1>2, <2>1, Zenon
<1> QED
  BY <1>1, <1>3, <1>4, Zenon DEF ExchangeNext

\* Whatever is serialised for a buffer of whatever size, by the code that works out
\* the length first and writes the fields then: the length is that of the fields, and
\* a packet the client writes fits its buffer, which is refused only if it has not a
\* byte to spare.
THEOREM LengthsAreRight == ExchangeSpec => []LengthsRight
<1>1. ExchangeInit => ExchIInv
  BY Zenon DEF ExchangeInit, ExchIInv
<1>2. ExchIInv /\ [ExchangeNext]_exchangeVars => ExchIInv'
  BY ExchangeStepsKeep
<1>3. ExchIInv => LengthsRight
  <2>1. CASE given = Nobody /\ result = Refused
    <3>1. ~(result.rc > 0) /\ ~(given.op \in Clients)
      BY <2>1 DEF Refused, Nobody, Clients, TOO_SHORT
    <3> QED
      BY <3>1, Zenon DEF LengthsRight, LengthsAgree, NoOverrun
  <2>2. CASE given \in Requests /\ buffer_size \in Int /\ result = Serialize(buffer_size, given)
    BY <2>2, RequestsRight, Zenon DEF Right, LengthsRight, LengthsAgree, NoOverrun
  <2> QED
    BY <2>1, <2>2, Zenon DEF ExchIInv
<1> QED
  BY <1>1, <1>2, <1>3, PTL DEF ExchangeSpec

-----------------------------------------------------------------------------
(* What deserialisers read *)

LEMMA Parts ==
    ASSUME NEW S, NEW s \in Seq(S), NEW n \in 1..Len(s)
    PROVE  /\ SubSeq(s, 1, n - 1) \in Seq(S) /\ SubSeq(s, 1, n) \in Seq(S)
           /\ SubSeq(s, n, Len(s)) \in Seq(S)
           /\ Join(SubSeq(s, 1, n), SubSeq(s, 1, n - 1), <<s[n]>>)
           /\ Join(s, SubSeq(s, 1, n - 1), SubSeq(s, n, Len(s)))
           /\ SubSeq(s, 1, Len(s)) = s
<1> DEFINE k == Len(s)
           a == SubSeq(s, 1, n - 1)
           b == SubSeq(s, 1, n)
           c == SubSeq(s, n, k)
           e == <<s[n]>>
           ae == a \o e
           ac == a \o c
<1>1. k \in Nat /\ n \in 1..k /\ s[n] \in S /\ \A i \in 1..k : s[i] \in S
  OBVIOUS
<1>2. a \in Seq(S) /\ Len(a) = n - 1 /\ \A i \in 1..n - 1 : a[i] = s[i]
  BY <1>1
<1>3. b \in Seq(S) /\ Len(b) = n /\ \A i \in 1..n : b[i] = s[i]
  BY <1>1
<1>4. c \in Seq(S) /\ Len(c) = k - n + 1 /\ \A i \in 1..k - n + 1 : c[i] = s[n + i - 1]
  BY <1>1
<1>5. e \in Seq(S) /\ Len(e) = 1 /\ e[1] = s[n]
  BY <1>1
<1> HIDE DEF a, b, c, e
<1>6. /\ ae \in Seq(S) /\ Len(ae) = n /\ \A i \in 1..n - 1 : ae[i] = s[i]
      /\ ae[n] = s[n]
  <2>1. /\ ae \in Seq(S) /\ Len(ae) = Len(a) + Len(e)
        /\ \A i \in 1..Len(a) : ae[i] = a[i]
        /\ \A i \in 1..Len(e) : ae[Len(a) + i] = e[i]
    <3>1. a \in Seq(S) /\ e \in Seq(S) /\ ae = a \o e
      BY <1>2, <1>5
    <3> HIDE DEF ae
    <3> QED
      BY <3>1, TwoPieces
  <2> HIDE DEF ae
  <2>2. Len(a) + 1 = n /\ 1 \in 1..Len(e)
    BY <1>1, <1>2, <1>5
  <2> QED
    BY <1>1, <1>2, <1>5, <2>1, <2>2
<1>7. /\ ac \in Seq(S) /\ Len(ac) = k /\ \A i \in 1..k : ac[i] = s[i]
  <2>1. /\ ac \in Seq(S) /\ Len(ac) = Len(a) + Len(c)
        /\ \A i \in 1..Len(a) : ac[i] = a[i]
        /\ \A i \in 1..Len(c) : ac[Len(a) + i] = c[i]
    <3>1. a \in Seq(S) /\ c \in Seq(S) /\ ac = a \o c
      BY <1>2, <1>4
    <3> HIDE DEF ac
    <3> QED
      BY <3>1, TwoPieces
  <2> HIDE DEF ac
  <2>2. ASSUME NEW i \in 1..k
        PROVE  ac[i] = s[i]
    <3>1. CASE i < n
      BY <3>1, <1>1, <1>2, <2>1
    <3>2. CASE ~(i < n)
      <4> DEFINE j == i - (n - 1)
      <4>1. j \in 1..k - n + 1 /\ n - 1 + j = i /\ n + j - 1 = i
        BY <3>2, <1>1
      <4> HIDE DEF j
      <4>2. ac[n - 1 + j] = c[j]
        BY <4>1, <1>1, <1>2, <1>4, <2>1
      <4>3. c[j] = s[n + j - 1]
        BY <4>1, <1>4
      <4> QED
        BY <4>1, <4>2, <4>3
    <3> QED
      BY <3>1, <3>2
  <2> QED
    BY <1>1, <1>2, <1>4, <2>1, <2>2
<1>8. b = ae
  <2>1. \A i \in 1..n : b[i] = ae[i]
    BY <1>1, <1>3, <1>6
  <2> HIDE DEF ae
  <2> QED
    BY <1>1, <1>3, <1>6, <2>1
<1>9. s = ac
  <2> HIDE DEF ac
  <2> QED
    BY <1>1, <1>7
<1>10. SubSeq(s, 1, k) = s
  BY <1>1
<1> QED
  BY <1>2, <1>3, <1>4, <1>8, <1>9, <1>10 DEF Join, a, b, c, e

\* What a packet of some fields has left before each of them
Laid(packet, fields) ==
    /\ packet.fields = fields
    /\ decode(packet.length).value = SizeOf(fields)

LEMMA LeftIs ==
    ASSUME NEW S, Sized(S), NEW fields \in Seq(S), NEW packet, Laid(packet, fields)
    PROVE  /\ Left(packet, Len(fields) + 1) = 0
           /\ \A n \in 1..Len(fields) :
                 /\ Left(packet, n) \in Nat /\ Left(packet, n + 1) \in Nat
                 /\ Left(packet, n) = Left(packet, n + 1) + Size(fields[n])
                 /\ Size(fields[n]) \in Nat
<1> DEFINE k == Len(fields)
<1>1. k \in Nat /\ \A n \in 1..k : fields[n] \in S
  OBVIOUS
<1>2. \A n : Left(packet, n) = SizeOf(fields) - SizeOf(SubSeq(fields, 1, n - 1))
  BY Zenon DEF Laid, Left
<1>3. SizeOf(fields) \in Nat
  BY SizesShape
<1>4. Left(packet, k + 1) = 0
  <2>1. SubSeq(fields, 1, (k + 1) - 1) = fields
    BY <1>1
  <2>2. Left(packet, k + 1) = SizeOf(fields) - SizeOf(fields)
    BY <1>2, <2>1, Zenon
  <2> QED
    BY <1>3, <2>2
<1>5. ASSUME NEW n \in 1..k
      PROVE  /\ Left(packet, n) \in Nat /\ Left(packet, n + 1) = Left(packet, n) - Size(fields[n])
             /\ Size(fields[n]) \in Nat
  <2> DEFINE a == SubSeq(fields, 1, n - 1)
             b == SubSeq(fields, 1, n)
             c == SubSeq(fields, n, k)
             f == fields[n]
             e == <<f>>
  <2>1. a \in Seq(S) /\ b \in Seq(S) /\ c \in Seq(S) /\ Join(b, a, e) /\ Join(fields, a, c)
    BY Parts
  <2>2. f \in S /\ e \in Seq(S)
    BY <1>1
  <2>3. Left(packet, n) = SizeOf(fields) - SizeOf(a)
    BY <1>2
  <2>4. Left(packet, n + 1) = SizeOf(fields) - SizeOf(b)
    <3>1. (n + 1) - 1 = n
      BY <1>1
    <3> QED
      BY <1>2, <3>1
  <2> HIDE DEF a, b, c
  <2>5. Size(f) \in Nat
    BY <2>2 DEF Sized
  <2>6. SizeOf(e) = Size(f)
    BY <2>5, SizeOfOne
  <2> HIDE DEF e, f
  <2>7. SizeOf(b) = SizeOf(a) + SizeOf(e) /\ SizeOf(a) \in Nat
    BY <2>1, <2>2, SizeOfTwo
  <2>8. SizeOf(fields) = SizeOf(a) + SizeOf(c) /\ SizeOf(c) \in Nat
    BY <2>1, SizeOfTwo
  <2>9. Left(packet, n) \in Nat /\ Left(packet, n + 1) = Left(packet, n) - Size(f)
    BY <1>3, <2>3, <2>4, <2>5, <2>6, <2>7, <2>8
  <2> QED
    BY <2>5, <2>9 DEF f
<1>6. ASSUME NEW n \in 1..k
      PROVE  Left(packet, n + 1) \in Nat
  <2>1. CASE n = k
    BY <2>1, <1>4
  <2>2. CASE n # k
    <3>1. n + 1 \in 1..k
      BY <2>2, <1>1
    <3> QED
      BY <3>1, <1>5
  <2> QED
    BY <2>1, <2>2
<1>7. ASSUME NEW n \in 1..k
      PROVE  Left(packet, n) = Left(packet, n + 1) + Size(fields[n])
  <2> DEFINE x == Left(packet, n)
             y == Left(packet, n + 1)
             z == Size(fields[n])
  <2>1. x \in Nat /\ y = x - z /\ z \in Nat
    BY <1>5
  <2> HIDE DEF x, y, z
  <2>2. x = y + z
    BY <2>1
  <2> QED
    BY <2>2 DEF x, y, z
<1> QED
  BY <1>4, <1>5, <1>6, <1>7, Zenon

\* A packet that was written and read
Read ==
    /\ given \in Requests /\ given.op # "ZERO"
    /\ buffer_size \in Int /\ result = Serialize(buffer_size, given) /\ result.rc > 0
    /\ received = Deserialize(result.packet, given)

UnsubscribeFields(p) == << Word(p.id) >> \o [n \in DOMAIN p.filters |-> writeMQTTString(p.filters[n])]
SubscribePieces(p) == [n \in DOMAIN p.filters |-> << writeMQTTString(p.filters[n]), Byte(p.qoss[n]) >>]
SubscribeFields(p) == << Word(p.id) >> \o Concat(SubscribePieces(p))
SubackFields(p)  == << Word(p.id) >> \o [n \in DOMAIN p.granted |-> Byte(p.granted[n])]
ConnackFields(p) == << Byte(p.present), Byte(p.code) >>
IdField(p)       == << Word(p.id) >>

\* The header and the fields that were written
Wrote(r, head, fields) == r.packet.header = head /\ r.packet.fields = fields

LEMMA WrittenWrote ==
    ASSUME NEW r, r.rc > 0, NEW head, NEW length, NEW fields,
           r = Refused \/ r = Written(head, length, fields)
    PROVE  Wrote(r, head, fields)
<1>1. Refused.rc = -2 /\ ~(-2 > 0)
  BY DEF Refused, TOO_SHORT
<1>2. r = Written(head, length, fields)
  BY <1>1, Zenon
<1> QED
  BY <1>2 DEF Written, Wrote

LEMMA SerializedWrote ==
    ASSUME NEW r, r.rc > 0, NEW head, NEW length, NEW fields, NEW size,
           r = Serialized(size, head, length, fields)
    PROVE  Wrote(r, head, fields)
<1>1. r = Refused \/ r = Written(head, length, fields)
  BY Zenon DEF Serialized
<1> QED
  BY <1>1, WrittenWrote, Zenon

LEMMA RequestWrites ==
    ASSUME NEW p, NEW size, NEW r, r = Serialize(size, p), r.rc > 0
    PROVE  /\ p.op = "CONNECT" => Wrote(r, Header("CONNECT", FALSE, 0, FALSE), ConnectFields(p))
           /\ p.op = "PUBLISH" =>
                 Wrote(r, Header("PUBLISH", p.dup, p.qos, p.retained), PublishFields(p))
           /\ p.op = "SUBSCRIBE" => Wrote(r, Header("SUBSCRIBE", p.dup, 1, FALSE), SubscribeFields(p))
           /\ p.op = "UNSUBSCRIBE" =>
                 Wrote(r, Header("UNSUBSCRIBE", p.dup, 1, FALSE), UnsubscribeFields(p))
           /\ p.op = "ACK" =>
                 Wrote(r, Header(p.type, p.dup, IF p.type = "PUBREL" THEN 1 ELSE 0, FALSE), IdField(p))
           /\ p.op = "CONNACK" => Wrote(r, Header("CONNACK", FALSE, 0, FALSE), ConnackFields(p))
           /\ p.op = "SUBACK" => Wrote(r, Header("SUBACK", FALSE, 0, FALSE), SubackFields(p))
           /\ p.op = "UNSUBACK" => Wrote(r, Header("UNSUBACK", FALSE, 0, FALSE), IdField(p))
<1>1. ASSUME p.op = "CONNECT"
      PROVE  Wrote(r, Header("CONNECT", FALSE, 0, FALSE), ConnectFields(p))
  <2>1. r = MQTTSerialize_connect(size, p)
    BY <1>1 DEF Serialize
  <2> QED
    BY <2>1, ConnectIs, SerializedWrote, Zenon
<1>2. ASSUME p.op = "PUBLISH"
      PROVE  Wrote(r, Header("PUBLISH", p.dup, p.qos, p.retained), PublishFields(p))
  <2>1. r = MQTTSerialize_publish(size, p)
    BY <1>2 DEF Serialize
  <2> QED
    BY <2>1, PublishIs, SerializedWrote, Zenon
<1>3. ASSUME p.op = "SUBSCRIBE"
      PROVE  Wrote(r, Header("SUBSCRIBE", p.dup, 1, FALSE), SubscribeFields(p))
  <2>1. r = MQTTSerialize_subscribe(size, p)
    BY <1>3 DEF Serialize
  <2>2. r = Serialized(size, Header("SUBSCRIBE", p.dup, 1, FALSE), subscribeLength(p.filters),
                       SubscribeFields(p))
    BY <2>1, Zenon DEF MQTTSerialize_subscribe, SubscribeFields, SubscribePieces
  <2> QED
    BY <2>2, SerializedWrote, Zenon
<1>4. ASSUME p.op = "UNSUBSCRIBE"
      PROVE  Wrote(r, Header("UNSUBSCRIBE", p.dup, 1, FALSE), UnsubscribeFields(p))
  <2>1. r = MQTTSerialize_unsubscribe(size, p)
    BY <1>4 DEF Serialize
  <2>2. r = Serialized(size, Header("UNSUBSCRIBE", p.dup, 1, FALSE), unsubscribeLength(p.filters),
                       UnsubscribeFields(p))
    BY <2>1, Zenon DEF MQTTSerialize_unsubscribe, UnsubscribeFields
  <2> QED
    BY <2>2, SerializedWrote, Zenon
<1>5. ASSUME p.op = "ACK"
      PROVE  Wrote(r, Header(p.type, p.dup, IF p.type = "PUBREL" THEN 1 ELSE 0, FALSE), IdField(p))
  <2>1. r = MQTTSerialize_ack(size, p)
    BY <1>5 DEF Serialize
  <2>2. r = Refused \/ r = Written(Header(p.type, p.dup, IF p.type = "PUBREL" THEN 1 ELSE 0, FALSE),
                                   2, IdField(p))
    BY <2>1, Zenon DEF MQTTSerialize_ack, IdField
  <2> QED
    BY <2>2, WrittenWrote, Zenon
<1>6. ASSUME p.op = "CONNACK"
      PROVE  Wrote(r, Header("CONNACK", FALSE, 0, FALSE), ConnackFields(p))
  <2>1. r = MQTTSerialize_connack(size, p)
    BY <1>6 DEF Serialize
  <2>2. r = Refused \/ r = Written(Header("CONNACK", FALSE, 0, FALSE), 2, ConnackFields(p))
    BY <2>1, Zenon DEF MQTTSerialize_connack, ConnackFields
  <2> QED
    BY <2>2, WrittenWrote, Zenon
<1>7. ASSUME p.op = "SUBACK"
      PROVE  Wrote(r, Header("SUBACK", FALSE, 0, FALSE), SubackFields(p))
  <2>1. r = MQTTSerialize_suback(size, p)
    BY <1>7 DEF Serialize
  <2>2. r = Refused
        \/ r = Written(Header("SUBACK", FALSE, 0, FALSE), 2 + Len(p.granted), SubackFields(p))
    BY <2>1, Zenon DEF MQTTSerialize_suback, SubackFields
  <2> QED
    BY <2>2, WrittenWrote, Zenon
<1>8. ASSUME p.op = "UNSUBACK"
      PROVE  Wrote(r, Header("UNSUBACK", FALSE, 0, FALSE), IdField(p))
  <2>1. r = MQTTSerialize_unsuback(size, p)
    BY <1>8 DEF Serialize
  <2>2. r = Refused \/ r = Written(Header("UNSUBACK", FALSE, 0, FALSE), 2, IdField(p))
    BY <2>1, Zenon DEF MQTTSerialize_unsuback, IdField
  <2> QED
    BY <2>2, WrittenWrote, Zenon
<1> QED
  BY <1>1, <1>2, <1>3, <1>4, <1>5, <1>6, <1>7, <1>8, Zenon

LEMMA WroteLaid ==
    ASSUME Read, NEW head, NEW fields, Wrote(result, head, fields)
    PROVE  result.packet.header = head /\ Laid(result.packet, fields)
<1>1. Right(given) /\ buffer_size \in Int /\ result = Serialize(buffer_size, given) /\ result.rc > 0
  BY RequestsRight, Zenon DEF Read
<1>2. decode(result.packet.length) = [value |-> SizeOf(result.packet.fields),
                                      len |-> Len(result.packet.length)]
  BY <1>1, Zenon DEF Right
<1>3. decode(result.packet.length).value = SizeOf(result.packet.fields)
  BY <1>2
<1> QED
  BY <1>3, Zenon DEF Wrote, Laid

\* A field that reaches neither beyond the packet nor beyond enddata
LEMMA TextReadable ==
    ASSUME NEW S, Sized(S), NEW fields \in Seq(S), NEW packet, Laid(packet, fields),
           NEW n \in 1..Len(fields), Size(fields[n]) >= 2
    PROVE  Readable(packet, n) /\ Value(packet, n) = fields[n].value
<1> DEFINE x == Left(packet, n)
           y == Left(packet, n + 1)
           z == Size(fields[n])
<1>1. x = y + z /\ x \in Nat /\ y \in Nat /\ z \in Nat
  BY LeftIs
<1>2. packet.fields = fields
  BY DEF Laid
<1> HIDE DEF x, y, z
<1>3. x > 1 /\ z <= x
  BY <1>1 DEF z
<1> QED
  BY <1>2, <1>3 DEF Readable, Value, x, z

\* Where no field is empty, all of them lie before enddata
LEMMA RestIs ==
    ASSUME NEW S, Sized(S), NEW fields \in Seq(S), NEW packet, Laid(packet, fields),
           \A n \in 2..Len(fields) : Size(fields[n]) > 0, Len(fields) >= 1
    PROVE  Rest(packet, 2) = Len(fields) - 1
<1> DEFINE k == Len(fields)
<1>1. k \in Nat /\ packet.fields = fields
  BY DEF Laid
<1>2. ASSUME NEW n \in 2..k
      PROVE  Left(packet, n) > 0
  <2> DEFINE x == Left(packet, n)
             y == Left(packet, n + 1)
             z == Size(fields[n])
  <2>1. n \in 1..k
    BY <1>1
  <2>2. x = y + z /\ x \in Nat /\ y \in Nat /\ z \in Nat /\ z > 0
    BY <2>1, LeftIs
  <2> HIDE DEF x, y, z
  <2>3. x > 0
    BY <2>2
  <2> QED
    BY <2>3 DEF x
<1>3. {m \in 2..k : Left(packet, m) > 0} = 2..k
  BY <1>2
<1>4. Rest(packet, 2) = Cardinality(2..k)
  BY <1>1, <1>3, Zenon DEF Rest
<1>5. Cardinality(2..k) = IF 2 > k THEN 0 ELSE k - 2 + 1
  BY <1>1, FS_Interval
<1> QED
  BY <1>1, <1>4, <1>5

\* What a string is on the other side
LEMMA ContentsWritten ==
    ASSUME NEW s \in MQTTStrings
    PROVE  /\ writeMQTTString(s).value = Contents(s)
           /\ Size(writeMQTTString(s)) \in Nat /\ Size(writeMQTTString(s)) >= 2
<1> DEFINE n == MQTTstrlen(s)
<1>1. n \in Nat /\ Size(writeMQTTString(s)) = n + 2
  BY StringSize
<1>2. writeMQTTString(s).value = IF n > 0 THEN s.text ELSE ""
  BY DEF writeMQTTString, Text
<1>3. Given(s) => n = StringLen[s.text] /\ s.text \in Strings
  BY DEF MQTTStrings, Given, NoString, MQTTstrlen
<1>4. ~Given(s) => n = 0
  BY DEF MQTTstrlen
<1> HIDE DEF n
<1>5. n > 0 \/ n = 0
  BY <1>1
<1>6. ASSUME n > 0
      PROVE  writeMQTTString(s).value = Contents(s)
  <2>1. Given(s)
    BY <1>1, <1>4, <1>6
  <2> QED
    BY <1>2, <1>6, <2>1, Zenon DEF Contents
<1>7. ASSUME n = 0
      PROVE  writeMQTTString(s).value = Contents(s)
  <2>1. writeMQTTString(s).value = ""
    <3>1. ~(n > 0)
      BY <1>7
    <3> QED
      BY <1>2, <3>1, Zenon
  <2>2. Given(s) => s.text = ""
    <3>1. \A v \in Strings : StringLen[v] = 0 => v = ""
      BY StringAssumption, Zenon
    <3> QED
      BY <1>3, <1>7, <3>1, Zenon
  <2> QED
    BY <2>1, <2>2, Zenon DEF Contents
<1>8. writeMQTTString(s).value = Contents(s)
  BY <1>5, <1>6, <1>7, Zenon
<1>9. n + 2 \in Nat /\ n + 2 >= 2
  BY <1>1
<1> QED
  BY <1>1, <1>8, <1>9, Zenon

LEMMA IdRead ==
    ASSUME NEW p, NEW packet, Laid(packet, IdField(p))
    PROVE  ~(Left(packet, 1) < 2) /\ Value(packet, 1) = p.id
<1> DEFINE w == Word(p.id)
           S == {w}
           fields == <<w>>
<1>1. Size(w) = 2 /\ w.value = p.id
  BY FieldSizes DEF Word
<1>2. Laid(packet, fields)
  BY DEF IdField
<1> HIDE DEF w
<1>3. Sized(S) /\ fields \in Seq(S) /\ Len(fields) = 1 /\ fields[1] = w
  BY <1>1 DEF Sized
<1> HIDE DEF S, fields
<1> DEFINE x == Left(packet, 1)
           y == Left(packet, 1 + 1)
<1>4. x = y + Size(w) /\ y \in Nat
  <2>1. 1 \in 1..Len(fields)
    BY <1>3
  <2>2. Left(packet, 1) = Left(packet, 1 + 1) + Size(fields[1]) /\ Left(packet, 1 + 1) \in Nat
    BY <1>2, <1>3, <2>1, LeftIs, Zenon
  <2> QED
    BY <1>3, <2>2
<1> HIDE DEF x, y
<1>5. ~(x < 2)
  BY <1>1, <1>4
<1>6. Value(packet, 1) = p.id
  BY <1>1, <1>2, <1>3 DEF Laid, Value
<1> QED
  BY <1>5, <1>6 DEF x

\* An acknowledgement.
LEMMA AckArrives ==
    ASSUME Read, given.op \in {"ACK", "UNSUBACK"}
    PROVE  /\ received.rc = 1 /\ received.id = given.id
           /\ given.op = "ACK" => /\ received.header.type = given.type
                                  /\ received.header.dup = given.dup
<1> DEFINE packet == result.packet
<1>1. result = Serialize(buffer_size, given) /\ result.rc > 0 /\ received = Deserialize(packet, given)
  BY Zenon DEF Read
<1>2. CASE given.op = "ACK"
  <2> DEFINE head == Header(given.type, given.dup, IF given.type = "PUBREL" THEN 1 ELSE 0, FALSE)
  <2>1. Wrote(result, head, IdField(given))
    BY <1>1, <1>2, RequestWrites, Zenon
  <2>2. packet.header = head /\ Laid(packet, IdField(given))
    BY <2>1, WroteLaid, Zenon
  <2>3. received = MQTTDeserialize_ack(packet)
    BY <1>1, <1>2 DEF Deserialize
  <2>4. ~(Left(packet, 1) < 2) /\ Value(packet, 1) = given.id
    BY <2>2, IdRead, Zenon
  <2>5. received = [rc |-> 1, header |-> packet.header, id |-> Value(packet, 1)]
    BY <2>3, <2>4, Zenon DEF MQTTDeserialize_ack
  <2>6. received.rc = 1 /\ received.header = head /\ received.id = given.id
    BY <2>2, <2>4, <2>5
  <2>7. head.type = given.type /\ head.dup = given.dup
    BY DEF Header
  <2> QED
    BY <2>6, <2>7, Zenon
<1>3. CASE given.op = "UNSUBACK"
  <2> DEFINE head == Header("UNSUBACK", FALSE, 0, FALSE)
  <2>1. Wrote(result, head, IdField(given))
    BY <1>1, <1>3, RequestWrites, Zenon
  <2>2. packet.header = head /\ Laid(packet, IdField(given))
    BY <2>1, WroteLaid, Zenon
  <2>3. received = MQTTDeserialize_unsuback(packet)
    BY <1>1, <1>3 DEF Deserialize
  <2>4. ~(Left(packet, 1) < 2) /\ Value(packet, 1) = given.id
    BY <2>2, IdRead, Zenon
  <2>5. MQTTDeserialize_ack(packet) = [rc |-> 1, header |-> packet.header, id |-> Value(packet, 1)]
    BY <2>4, Zenon DEF MQTTDeserialize_ack
  <2>6. packet.header.type = "UNSUBACK"
    BY <2>2 DEF Header
  <2>7. received = [MQTTDeserialize_ack(packet) EXCEPT !.rc = 1]
    BY <2>3, <2>6, Zenon DEF MQTTDeserialize_unsuback
  <2>8. received.rc = 1 /\ received.id = given.id
    BY <2>4, <2>5, <2>7
  <2>9. given.op # "ACK"
    BY <1>3
  <2> QED
    BY <2>8, <2>9, Zenon
<1> QED
  BY <1>2, <1>3

LEMMA TwoLeft ==
    ASSUME NEW S, Sized(S), NEW fields \in Seq(S), NEW packet, Laid(packet, fields),
           NEW n \in 1..Len(fields) - 1, Size(fields[n]) + Size(fields[n + 1]) >= 2
    PROVE  ~(Left(packet, n) < 2)
<1> DEFINE x == Left(packet, n)
           y == Left(packet, n + 1)
           z == Left(packet, (n + 1) + 1)
           a == Size(fields[n])
           b == Size(fields[n + 1])
<1>1. n \in 1..Len(fields) /\ n + 1 \in 1..Len(fields)
  OBVIOUS
<1>2. x = y + a /\ x \in Nat /\ y \in Nat /\ a \in Nat
  BY <1>1, LeftIs
<1>3. y = z + b /\ z \in Nat /\ b \in Nat
  BY <1>1, LeftIs
<1>4. a + b >= 2
  OBVIOUS
<1> HIDE DEF x, y, z, a, b
<1>5. ~(x < 2)
  BY <1>2, <1>3, <1>4
<1> QED
  BY <1>5 DEF x

\* A CONNACK.
LEMMA ConnackArrives ==
    ASSUME Read, given.op = "CONNACK"
    PROVE  received = [rc |-> 1, present |-> given.present, code |-> given.code]
<1> DEFINE packet == result.packet
           head   == Header("CONNACK", FALSE, 0, FALSE)
           f == Byte(given.present)
           g == Byte(given.code)
           S == {f, g}
           fields == <<f, g>>
<1>1. result = Serialize(buffer_size, given) /\ result.rc > 0 /\ received = Deserialize(packet, given)
  BY Zenon DEF Read
<1>2. Wrote(result, head, ConnackFields(given))
  BY <1>1, RequestWrites, Zenon
<1>3. packet.header = head /\ Laid(packet, ConnackFields(given)) /\ ConnackFields(given) = fields
  BY <1>2, WroteLaid, Zenon DEF ConnackFields
<1>4. received = MQTTDeserialize_connack(packet)
  BY <1>1 DEF Deserialize
<1>5. Size(f) = 1 /\ Size(g) = 1 /\ f.value = given.present /\ g.value = given.code
  BY FieldSizes DEF Byte
<1>6. packet.header.type = "CONNACK"
  BY <1>3 DEF Header
<1> HIDE DEF f, g, head, packet
<1>7. Sized(S) /\ fields \in Seq(S) /\ Len(fields) = 2 /\ fields[1] = f /\ fields[2] = g
  BY <1>5 DEF Sized
<1> HIDE DEF S, fields
<1>8. 1 \in 1..Len(fields) - 1 /\ Size(fields[1]) + Size(fields[1 + 1]) >= 2
  BY <1>5, <1>7
<1>9. ~(Left(packet, 1) < 2)
  BY <1>3, <1>7, <1>8, TwoLeft, Zenon
<1>10. packet.fields[1].value = given.present /\ packet.fields[2].value = given.code
  BY <1>3, <1>5, <1>7, Zenon DEF Laid
<1>11. received = [rc |-> 1, present |-> Value(packet, 1), code |-> Value(packet, 2)]
  BY <1>4, <1>6, <1>9, Zenon DEF MQTTDeserialize_connack
<1> QED
  BY <1>10, <1>11, Zenon DEF Value

\* An integer and then a list
LEMMA AfterId ==
    ASSUME NEW id, NEW S, Sized(S), Word(id) \in S, NEW list \in Seq(S), NEW fields,
           Join(fields, <<Word(id)>>, list)
    PROVE  /\ fields \in Seq(S) /\ Len(fields) = 1 + Len(list) /\ Len(list) \in Nat
           /\ fields[1].value = id /\ Size(fields[1]) = 2
           /\ \A n \in 1..Len(list) : n + 1 \in 2..Len(fields) /\ fields[n + 1] = list[n]
           /\ \A n \in 2..Len(fields) : n - 1 \in 1..Len(list) /\ fields[n] = list[n - 1]
<1> DEFINE w == Word(id)
           A == <<w>>
<1>1. Size(w) = 2 /\ w.value = id /\ w \in S
  BY FieldSizes DEF Word
<1> HIDE DEF w
<1>2. A \in Seq(S) /\ Len(A) = 1 /\ A[1] = w /\ fields = A \o list
  BY <1>1 DEF Join, w
<1> HIDE DEF A
<1>3. /\ fields \in Seq(S) /\ Len(list) \in Nat /\ Len(fields) = Len(A) + Len(list)
      /\ \A i \in 1..Len(A) : fields[i] = A[i]
      /\ \A i \in 1..Len(list) : Len(A) + i \in 1..Len(fields) /\ fields[Len(A) + i] = list[i]
  <2>1. A \in Seq(S) /\ list \in Seq(S) /\ fields = A \o list
    BY <1>2
  <2> QED
    BY <2>1, TwoPieces
<1>4. fields[1] = w /\ Len(fields) = 1 + Len(list)
  BY <1>2, <1>3
<1>5. \A n \in 1..Len(list) : n + 1 \in 2..Len(fields) /\ fields[n + 1] = list[n]
  <2> TAKE n \in 1..Len(list)
  <2>1. fields[1 + n] = list[n]
    BY <1>2, <1>3
  <2>2. n + 1 = 1 + n /\ n + 1 \in 2..Len(fields)
    BY <1>3, <1>4
  <2> QED
    BY <2>1, <2>2
<1>6. \A n \in 2..Len(fields) : n - 1 \in 1..Len(list) /\ fields[n] = list[n - 1]
  <2> TAKE n \in 2..Len(fields)
  <2>1. n - 1 \in 1..Len(list) /\ (n - 1) + 1 = n
    BY <1>3, <1>4
  <2> QED
    BY <1>5, <2>1
<1> QED
  BY <1>1, <1>3, <1>4, <1>5, <1>6

\* Before an integer there are two bytes at least
LEMMA IdLeft ==
    ASSUME NEW S, Sized(S), NEW fields \in Seq(S), NEW packet, Laid(packet, fields),
           1 \in 1..Len(fields), Size(fields[1]) = 2
    PROVE  ~(Left(packet, 1) < 2)
<1> DEFINE x == Left(packet, 1)
           y == Left(packet, 1 + 1)
<1>1. x = y + 2 /\ y \in Nat
  <2>1. Left(packet, 1) = Left(packet, 1 + 1) + Size(fields[1]) /\ Left(packet, 1 + 1) \in Nat
    BY LeftIs, Zenon
  <2> QED
    BY <2>1
<1> HIDE DEF x, y
<1>2. ~(x < 2)
  BY <1>1
<1> QED
  BY <1>2 DEF x

\* What the fields of a SUBACK are
CodesIn(S, fields, id, codes) ==
    /\ Sized(S) /\ fields \in Seq(S)
    /\ Len(codes) \in Nat /\ Len(fields) = 1 + Len(codes)
    /\ fields[1].value = id /\ Size(fields[1]) = 2
    /\ \A n \in 1..Len(codes) : fields[n + 1].value = codes[n]
    /\ \A n \in 2..Len(fields) : Size(fields[n]) = 1
    /\ codes = [n \in 1..Len(codes) |-> codes[n]]

LEMMA CodesLaid ==
    ASSUME NEW p, NEW V, NEW codes \in Seq(V), p.granted = codes
    PROVE  \E S : CodesIn(S, SubackFields(p), p.id, codes)
<1> DEFINE k      == Len(codes)
           list   == [n \in DOMAIN codes |-> Byte(codes[n])]
           S      == {Word(p.id)} \union {Byte(v) : v \in V}
           fields == SubackFields(p)
<1>1. k \in Nat /\ DOMAIN codes = 1..k /\ codes = [n \in 1..k |-> codes[n]]
      /\ \A n \in 1..k : codes[n] \in V
  OBVIOUS
<1>2. Sized(S) /\ Word(p.id) \in S
  <2>1. Size(Word(p.id)) \in Nat /\ \A v \in V : Size(Byte(v)) \in Nat
    BY FieldSizes
  <2> QED
    BY <2>1 DEF Sized
<1>3. list \in Seq(S) /\ Len(list) = k /\ \A n \in 1..k : list[n] = Byte(codes[n])
  BY <1>1
<1>4. Join(fields, <<Word(p.id)>>, list)
  BY Zenon DEF Join, SubackFields
<1> HIDE DEF k, list, S, fields
<1>5. /\ fields \in Seq(S) /\ Len(fields) = 1 + k
      /\ fields[1].value = p.id /\ Size(fields[1]) = 2
      /\ \A n \in 1..k : fields[n + 1] = Byte(codes[n])
      /\ \A n \in 2..Len(fields) : n - 1 \in 1..k /\ fields[n] = Byte(codes[n - 1])
  BY <1>2, <1>3, <1>4, AfterId
<1>6. \A n \in 2..Len(fields) : Size(fields[n]) = 1
  BY <1>5, FieldSizes, Zenon
<1>7. \A n \in 1..k : fields[n + 1].value = codes[n]
  <2>1. \A v : Byte(v).value = v
    BY DEF Byte
  <2> QED
    BY <1>5, <2>1, Zenon
<1> QED
  BY <1>1, <1>2, <1>5, <1>6, <1>7, Zenon DEF k, fields, CodesIn

\* A SUBACK of no more codes than there is room for.
LEMMA SubackArrives ==
    ASSUME Read, given.op = "SUBACK", NEW V, NEW codes \in Seq(V), given.granted = codes,
           NEW room \in Nat, given.maxcount = room, Len(codes) <= room
    PROVE  received = [rc |-> 1, id |-> given.id, granted |-> codes]
<1> DEFINE packet == result.packet
           head   == Header("SUBACK", FALSE, 0, FALSE)
           k      == Len(codes)
           fields == SubackFields(given)
<1>1. result = Serialize(buffer_size, given) /\ result.rc > 0 /\ received = Deserialize(packet, given)
  BY Zenon DEF Read
<1>2. packet.header = head /\ Laid(packet, fields)
  BY <1>1, RequestWrites, WroteLaid, Zenon
<1>3. received = MQTTDeserialize_suback(packet, room)
  BY <1>1 DEF Deserialize
<1>4. packet.header.type = "SUBACK"
  BY <1>2 DEF Header
<1>5. PICK S : /\ Sized(S) /\ fields \in Seq(S)
               /\ k \in Nat /\ Len(fields) = 1 + k
               /\ fields[1].value = given.id /\ Size(fields[1]) = 2
               /\ \A n \in 1..k : fields[n + 1].value = codes[n]
               /\ \A n \in 2..Len(fields) : Size(fields[n]) = 1
               /\ codes = [n \in 1..k |-> codes[n]]
  <2>1. \E S : CodesIn(S, fields, given.id, codes)
    BY CodesLaid
  <2> QED
    BY <2>1, Zenon DEF CodesIn
<1> HIDE DEF packet, head, k, fields
<1>6. Rest(packet, 2) = k
  <2>1. Len(fields) >= 1
    BY <1>5
  <2>2. \A n \in 2..Len(fields) : Size(fields[n]) > 0
    BY <1>5
  <2>3. Rest(packet, 2) = Len(fields) - 1
    BY <1>2, <1>5, <2>1, <2>2, RestIs
  <2> QED
    BY <1>5, <2>3
<1>7. ~(Left(packet, 1) < 2)
  <2>1. 1 \in 1..Len(fields)
    BY <1>5
  <2> QED
    BY <1>2, <1>5, <2>1, IdLeft, Zenon
<1>8. \A n : Value(packet, n) = fields[n].value
  BY <1>2, Zenon DEF Laid, Value
<1>9. [n \in 1..k |-> Value(packet, n + 1)] = codes
  <2>1. [n \in 1..k |-> Value(packet, n + 1)] = [n \in 1..k |-> codes[n]]
    BY <1>5, <1>8
  <2> QED
    BY <1>5, <2>1
<1>10. ~(k > room + 1)
  <2>1. k <= room
    BY DEF k
  <2> QED
    BY <1>5, <2>1
<1>11. received = [rc |-> 1, id |-> Value(packet, 1),
                   granted |-> [n \in 1..k |-> Value(packet, n + 1)]]
  BY <1>3, <1>4, <1>6, <1>7, <1>10, Zenon DEF MQTTDeserialize_suback
<1> QED
  BY <1>5, <1>8, <1>9, <1>11, Zenon

\* An UNSUBSCRIBE.
LEMMA UnsubscribeArrives ==
    ASSUME Read, given.op = "UNSUBSCRIBE", given.filters \in Seq(MQTTStrings)
    PROVE  /\ received.rc = 1 /\ received.id = given.id /\ received.dup = given.dup
           /\ received.filters = [n \in DOMAIN given.filters |-> Contents(given.filters[n])]
<1> DEFINE packet == result.packet
           head   == Header("UNSUBSCRIBE", given.dup, 1, FALSE)
           names  == given.filters
           k      == Len(names)
           list   == [n \in DOMAIN names |-> writeMQTTString(names[n])]
           S      == {Word(given.id)} \union {writeMQTTString(s) : s \in MQTTStrings}
           fields == UnsubscribeFields(given)
<1>1. result = Serialize(buffer_size, given) /\ result.rc > 0 /\ received = Deserialize(packet, given)
  BY Zenon DEF Read
<1>2. packet.header = head /\ Laid(packet, fields)
  BY <1>1, RequestWrites, WroteLaid, Zenon
<1>3. received = MQTTDeserialize_unsubscribe(packet)
  BY <1>1 DEF Deserialize
<1>4. packet.header.type = "UNSUBSCRIBE" /\ packet.header.dup = given.dup
  BY <1>2 DEF Header
<1>5. k \in Nat /\ DOMAIN names = 1..k /\ \A n \in 1..k : names[n] \in MQTTStrings
  OBVIOUS
<1>6. Sized(S) /\ Word(given.id) \in S
  <2>1. Size(Word(given.id)) \in Nat /\ \A s \in MQTTStrings : Size(writeMQTTString(s)) \in Nat
    BY FieldSizes, ContentsWritten
  <2> QED
    BY <2>1 DEF Sized
<1>7. list \in Seq(S) /\ Len(list) = k /\ \A n \in 1..k : list[n] = writeMQTTString(names[n])
  BY <1>5
<1>8. Join(fields, <<Word(given.id)>>, list)
  BY Zenon DEF Join, UnsubscribeFields
<1> HIDE DEF packet, head, names, k, list, S, fields
<1>9. /\ fields \in Seq(S) /\ Len(fields) = 1 + k
      /\ fields[1].value = given.id
      /\ \A n \in 1..k : n + 1 \in 2..Len(fields) /\ fields[n + 1] = writeMQTTString(names[n])
      /\ \A n \in 2..Len(fields) : n - 1 \in 1..k /\ fields[n] = writeMQTTString(names[n - 1])
  BY <1>6, <1>7, <1>8, AfterId
<1>10. \A n \in 2..Len(fields) : /\ Size(fields[n]) \in Nat /\ Size(fields[n]) >= 2
                                 /\ fields[n].value = Contents(names[n - 1])
  <2> TAKE n \in 2..Len(fields)
  <2>1. fields[n] = writeMQTTString(names[n - 1]) /\ names[n - 1] \in MQTTStrings
    BY <1>5, <1>9
  <2> QED
    BY <2>1, ContentsWritten
<1>11. Rest(packet, 2) = k
  <2>1. Len(fields) >= 1
    BY <1>5, <1>9
  <2>2. \A n \in 2..Len(fields) : Size(fields[n]) > 0
    BY <1>10
  <2>3. Rest(packet, 2) = Len(fields) - 1
    BY <1>2, <1>6, <1>9, <2>1, <2>2, RestIs
  <2> QED
    BY <1>5, <1>9, <2>3
<1>12. \A n \in 1..k : Readable(packet, n + 1) /\ Value(packet, n + 1) = Contents(names[n])
  <2> TAKE n \in 1..k
  <2> DEFINE m == n + 1
  <2>1. m \in 2..Len(fields) /\ m - 1 = n
    BY <1>5, <1>9
  <2>2. m \in 1..Len(fields)
    BY <1>5, <1>9
  <2> HIDE DEF m
  <2>3. Readable(packet, m) /\ Value(packet, m) = fields[m].value
    BY <1>2, <1>6, <1>9, <1>10, <2>1, <2>2, TextReadable
  <2>4. fields[m].value = Contents(names[n])
    BY <1>10, <2>1
  <2> QED
    BY <2>3, <2>4, Zenon DEF m
<1>13. ~ \E n \in 1..k : ~Readable(packet, n + 1)
  BY <1>12, Zenon
<1>14. received = [rc |-> 1, dup |-> packet.header.dup, id |-> Value(packet, 1),
                   filters |-> [n \in 1..k |-> Value(packet, n + 1)]]
  BY <1>3, <1>4, <1>11, <1>13, Zenon DEF MQTTDeserialize_unsubscribe
<1>15. Value(packet, 1) = given.id
  BY <1>2, <1>9, Zenon DEF Value, Laid
<1>16. [n \in 1..k |-> Value(packet, n + 1)] = [n \in DOMAIN names |-> Contents(names[n])]
  BY <1>5, <1>12
<1>17. /\ received.rc = 1 /\ received.dup = packet.header.dup /\ received.id = Value(packet, 1)
       /\ received.filters = [n \in 1..k |-> Value(packet, n + 1)]
  BY <1>14
<1> QED
  BY <1>4, <1>15, <1>16, <1>17, Zenon DEF names

\* Pairs, one after the other.
LEMMA PairsInPlace ==
    ASSUME NEW S, NEW pieces \in Seq(Seq(S)), \A n \in 1..Len(pieces) : Len(pieces[n]) = 2
    PROVE  /\ Concat(pieces) \in Seq(S) /\ Len(pieces) \in Nat
           /\ Len(Concat(pieces)) = 2 * Len(pieces)
           /\ \A n \in 1..Len(pieces) : /\ Concat(pieces)[2 * n - 1] = pieces[n][1]
                                        /\ Concat(pieces)[2 * n] = pieces[n][2]
<1> DEFINE F == Firsts(pieces)
           k == Len(pieces)
           T == {n \in Nat : n <= k => Len(F[n]) = 2 * n}
<1>1. k \in Nat /\ \A n \in 1..k : Len(pieces[n]) = 2
  OBVIOUS
<1>2. F[0] = <<>>
  BY FirstsEquation
<1>3. /\ \A n \in 0..k : F[n] \in Seq(S)
      /\ \A n \in 1..k : Len(F[n]) = Len(F[n - 1]) + Len(pieces[n])
  BY FirstsAreSequences
<1> HIDE DEF F, k
<1>4. 0 \in T
  BY <1>2
<1>5. \A n \in Nat : n \in T => n + 1 \in T
  <2> SUFFICES ASSUME NEW n \in Nat, n \in T, n + 1 <= k
               PROVE  Len(F[n + 1]) = 2 * (n + 1)
    OBVIOUS
  <2>1. n + 1 \in 1..k /\ (n + 1) - 1 = n /\ n <= k
    BY <1>1
  <2>2. Len(F[n]) = 2 * n
    BY <2>1
  <2>3. Len(F[n + 1]) = Len(F[n]) + 2
    BY <1>1, <1>3, <2>1
  <2> QED
    BY <2>2, <2>3
<1>6. \A n \in Nat : n \in T
  <2> HIDE DEF T
  <2> QED
    BY <1>4, <1>5, Induction
<1>7. \A n \in 0..k : Len(F[n]) = 2 * n
  BY <1>1, <1>6
<1>8. Concat(pieces) = F[k]
  BY Zenon DEF Concat, F, k
<1>9. Concat(pieces) \in Seq(S) /\ Len(Concat(pieces)) = 2 * k
  BY <1>1, <1>3, <1>7, <1>8
<1>10. ASSUME NEW n \in 1..k
       PROVE  Concat(pieces)[2 * n - 1] = pieces[n][1] /\ Concat(pieces)[2 * n] = pieces[n][2]
  <2>1. \A i \in 1..Len(pieces[n]) : Concat(pieces)[Len(F[n - 1]) + i] = pieces[n][i]
    BY PieceInPlace DEF F, k
  <2>2. Len(F[n - 1]) = 2 * (n - 1) /\ 1 \in 1..Len(pieces[n]) /\ 2 \in 1..Len(pieces[n])
    <3>1. n - 1 \in 0..k
      BY <1>1
    <3>2. Len(F[n - 1]) = 2 * (n - 1)
      BY <1>7, <3>1, Zenon
    <3>3. Len(pieces[n]) = 2
      BY <1>1, Zenon
    <3>4. 1 \in 1..2 /\ 2 \in 1..2
      OBVIOUS
    <3> QED
      BY <3>2, <3>3, <3>4, Zenon
  <2>3. 2 * (n - 1) + 1 = 2 * n - 1 /\ 2 * (n - 1) + 2 = 2 * n
    BY <1>1
  <2>4. Concat(pieces)[2 * (n - 1) + 1] = pieces[n][1] /\ Concat(pieces)[2 * (n - 1) + 2] = pieces[n][2]
    BY <2>1, <2>2, Zenon
  <2> QED
    BY <2>3, <2>4, Zenon
<1> QED
  BY <1>1, <1>9, <1>10 DEF k

\* What the fields of a SUBSCRIBE are
FiltersIn(S, fields, id, filters, qoss) ==
    /\ Sized(S) /\ fields \in Seq(S)
    /\ Len(filters) \in Nat /\ Len(fields) = 1 + 2 * Len(filters)
    /\ fields[1].value = id
    /\ \A n \in 2..Len(fields) : Size(fields[n]) > 0
    /\ \A n \in 1..Len(filters) :
          /\ Size(fields[2 * n]) >= 2 /\ Size(fields[2 * n]) \in Nat
          /\ fields[2 * n].value = Contents(filters[n])
          /\ Size(fields[2 * n + 1]) = 1 /\ fields[2 * n + 1].value = qoss[n]

LEMMA FiltersLaid ==
    ASSUME NEW p, NEW filters \in Seq(MQTTStrings), p.filters = filters, NEW qoss, p.qoss = qoss
    PROVE  \E S : FiltersIn(S, SubscribeFields(p), p.id, filters, qoss)
<1> DEFINE pieces == [n \in DOMAIN filters |-> << writeMQTTString(filters[n]), Byte(qoss[n]) >>]
           S == {Word(p.id)} \union {writeMQTTString(s) : s \in MQTTStrings}
                \union {Byte(qoss[n]) : n \in DOMAIN filters}
           list == Concat(pieces)
           fields == SubscribeFields(p)
           k == Len(filters)
<1>1. Sized(S) /\ Word(p.id) \in S
  <2>1. \A s \in MQTTStrings : Size(writeMQTTString(s)) \in Nat
    BY StringSize
  <2>2. Size(Word(p.id)) \in Nat /\ \A n \in DOMAIN filters : Size(Byte(qoss[n])) \in Nat
    BY FieldSizes
  <2> QED
    BY <2>1, <2>2 DEF Sized
<1>2. DOMAIN filters = 1..k /\ k \in Nat /\ \A n \in 1..k : filters[n] \in MQTTStrings
  OBVIOUS
<1>3. \A n \in 1..k : /\ << writeMQTTString(filters[n]), Byte(qoss[n]) >> \in Seq(S)
                      /\ Len(<< writeMQTTString(filters[n]), Byte(qoss[n]) >>) = 2
  <2> TAKE n \in 1..k
  <2> DEFINE f == writeMQTTString(filters[n])
             g == Byte(qoss[n])
  <2>1. f \in S /\ g \in S
    BY <1>2
  <2> HIDE DEF f, g, S
  <2>2. <<f, g>> \in Seq(S) /\ Len(<<f, g>>) = 2
    BY <2>1
  <2> QED
    BY <2>2 DEF f, g
<1> HIDE DEF S
<1>4. /\ pieces \in Seq(Seq(S)) /\ Len(pieces) = k
      /\ \A n \in 1..k : pieces[n] = << writeMQTTString(filters[n]), Byte(qoss[n]) >>
      /\ \A n \in 1..k : Len(pieces[n]) = 2
  BY <1>2, <1>3
<1>5. Join(fields, <<Word(p.id)>>, list)
  BY Zenon DEF Join, SubscribeFields, SubscribePieces
<1> HIDE DEF pieces, fields, k
<1>6. /\ list \in Seq(S) /\ Len(list) = 2 * k
      /\ \A n \in 1..k : list[2 * n - 1] = pieces[n][1] /\ list[2 * n] = pieces[n][2]
  BY <1>4, PairsInPlace
<1>7. \A n \in 1..k : list[2 * n - 1] = writeMQTTString(filters[n]) /\ list[2 * n] = Byte(qoss[n])
  <2> TAKE n \in 1..k
  <2> DEFINE f == writeMQTTString(filters[n])
             g == Byte(qoss[n])
  <2>1. pieces[n] = <<f, g>>
    BY <1>4
  <2> HIDE DEF f, g, list
  <2>2. pieces[n][1] = f /\ pieces[n][2] = g
    BY <2>1
  <2> QED
    BY <1>6, <2>2 DEF f, g
<1> HIDE DEF list
<1>8. /\ fields \in Seq(S) /\ Len(fields) = 1 + 2 * k /\ fields[1].value = p.id
      /\ \A n \in 1..2 * k : fields[n + 1] = list[n]
      /\ \A n \in 2..Len(fields) : n - 1 \in 1..2 * k /\ fields[n] = list[n - 1]
  <2>1. /\ fields \in Seq(S) /\ Len(fields) = 1 + Len(list) /\ fields[1].value = p.id
        /\ \A n \in 1..Len(list) : fields[n + 1] = list[n]
        /\ \A n \in 2..Len(fields) : n - 1 \in 1..Len(list) /\ fields[n] = list[n - 1]
    BY <1>1, <1>5, <1>6, AfterId
  <2> QED
    BY <1>6, <2>1
<1>9. \A n \in 1..k : fields[2 * n] = writeMQTTString(filters[n]) /\ fields[2 * n + 1] = Byte(qoss[n])
  <2> TAKE n \in 1..k
  <2>1. 2 * n - 1 \in 1..2 * k /\ (2 * n - 1) + 1 = 2 * n /\ 2 * n \in 1..2 * k
    BY <1>2
  <2>2. fields[(2 * n - 1) + 1] = list[2 * n - 1] /\ fields[2 * n + 1] = list[2 * n]
    BY <1>8, <2>1, Zenon
  <2> QED
    BY <1>7, <2>1, <2>2, Zenon
<1>10. \A n \in 1..k : /\ Size(fields[2 * n]) >= 2 /\ Size(fields[2 * n]) \in Nat
                       /\ fields[2 * n].value = Contents(filters[n])
                       /\ Size(fields[2 * n + 1]) = 1 /\ fields[2 * n + 1].value = qoss[n]
  <2> TAKE n \in 1..k
  <2>1. filters[n] \in MQTTStrings
    BY <1>2
  <2>2. Byte(qoss[n]).value = qoss[n]
    BY DEF Byte
  <2>3. Size(Byte(qoss[n])) = 1
    BY FieldSizes
  <2>4. /\ Size(writeMQTTString(filters[n])) >= 2 /\ Size(writeMQTTString(filters[n])) \in Nat
        /\ writeMQTTString(filters[n]).value = Contents(filters[n])
    BY <2>1, ContentsWritten
  <2> QED
    BY <1>9, <2>2, <2>3, <2>4, Zenon
<1>11. \A n \in 2..Len(fields) : Size(fields[n]) > 0
  <2> TAKE n \in 2..Len(fields)
  <2>1. n \in 2..1 + 2 * k
    BY <1>8
  <2>2. \E m \in 1..k : n = 2 * m \/ n = 2 * m + 1
    <3>1. n \div 2 \in 1..k /\ (n = 2 * (n \div 2) \/ n = 2 * (n \div 2) + 1)
      BY <1>2, <2>1, SMTT(20)
    <3> QED
      BY <3>1
  <2>3. PICK m \in 1..k : n = 2 * m \/ n = 2 * m + 1
    BY <2>2, Zenon
  <2>4. CASE n = 2 * m
    <3>1. Size(fields[n]) >= 2 /\ Size(fields[n]) \in Nat
      BY <1>10, <2>4, Zenon
    <3> QED
      BY <3>1
  <2>5. CASE n = 2 * m + 1
    <3>1. Size(fields[n]) = 1
      BY <1>10, <2>5, Zenon
    <3> QED
      BY <3>1
  <2> QED
    BY <2>3, <2>4, <2>5
<1> QED
  BY <1>1, <1>2, <1>8, <1>10, <1>11, Zenon DEF FiltersIn, fields, k

\* A SUBSCRIBE.
LEMMA SubscribeArrives ==
    ASSUME Read, given.op = "SUBSCRIBE", NEW names \in Seq(MQTTStrings), given.filters = names,
           NEW Q, NEW qoss \in Seq(Q), given.qoss = qoss, Len(qoss) = Len(names)
    PROVE  /\ received.rc = 1 /\ received.id = given.id /\ received.dup = given.dup
           /\ received.filters = [n \in DOMAIN names |-> Contents(names[n])]
           /\ received.qoss = qoss
<1> DEFINE packet == result.packet
           head   == Header("SUBSCRIBE", given.dup, 1, FALSE)
           k      == Len(names)
           fields == SubscribeFields(given)
<1>1. result = Serialize(buffer_size, given) /\ result.rc > 0 /\ received = Deserialize(packet, given)
  BY Zenon DEF Read
<1>2. packet.header = head /\ Laid(packet, fields)
  BY <1>1, RequestWrites, WroteLaid, Zenon
<1>3. received = MQTTDeserialize_subscribe(packet)
  BY <1>1 DEF Deserialize
<1>4. packet.header.type = "SUBSCRIBE" /\ packet.header.dup = given.dup
  BY <1>2 DEF Header
<1>5. k \in Nat /\ DOMAIN names = 1..k /\ qoss = [n \in 1..k |-> qoss[n]]
  OBVIOUS
<1>6. PICK S : /\ Sized(S) /\ fields \in Seq(S)
               /\ k \in Nat /\ Len(fields) = 1 + 2 * k
               /\ fields[1].value = given.id
               /\ \A n \in 2..Len(fields) : Size(fields[n]) > 0
               /\ \A n \in 1..k :
                     /\ Size(fields[2 * n]) >= 2 /\ Size(fields[2 * n]) \in Nat
                     /\ fields[2 * n].value = Contents(names[n])
                     /\ Size(fields[2 * n + 1]) = 1 /\ fields[2 * n + 1].value = qoss[n]
  <2>1. \E S : FiltersIn(S, fields, given.id, names, qoss)
    BY FiltersLaid
  <2> QED
    BY <2>1, Zenon DEF FiltersIn
<1> HIDE DEF packet, head, k, fields
<1>7. Rest(packet, 2) \div 2 = k
  <2>1. Len(fields) >= 1
    BY <1>6
  <2>2. Rest(packet, 2) = Len(fields) - 1
    BY <1>2, <1>6, <2>1, RestIs
  <2>3. Rest(packet, 2) = 2 * k
    BY <1>6, <2>2
  <2>4. (2 * k) \div 2 = k
    BY <1>5
  <2> QED
    BY <2>3, <2>4, Zenon
<1>8. \A n : Value(packet, n) = fields[n].value
  BY <1>2, Zenon DEF Laid, Value
<1>9. \A n \in 1..k : Readable(packet, 2 * n) /\ ~(Left(packet, 2 * n + 1) <= 0)
  <2> TAKE n \in 1..k
  <2> DEFINE m == 2 * n
             j == 2 * n + 1
             x == Left(packet, j)
             y == Left(packet, j + 1)
  <2>1. m \in 1..Len(fields) /\ j \in 1..Len(fields)
    BY <1>5, <1>6
  <2>2. Size(fields[m]) >= 2 /\ Size(fields[j]) = 1
    BY <1>6, Zenon
  <2> HIDE DEF m, j
  <2>3. Readable(packet, m)
    BY <1>2, <1>6, <2>1, <2>2, TextReadable, Zenon
  <2>4. x = y + 1 /\ y \in Nat
    <3>1. Left(packet, j) = Left(packet, j + 1) + Size(fields[j]) /\ Left(packet, j + 1) \in Nat
      BY <1>2, <1>6, <2>1, LeftIs, Zenon
    <3> QED
      BY <2>2, <3>1, Zenon
  <2> HIDE DEF x, y
  <2>5. ~(x <= 0)
    BY <2>4
  <2> QED
    BY <2>3, <2>5, Zenon DEF m, j, x
<1>10. ~ \E n \in 1..k : ~Readable(packet, 2 * n) \/ Left(packet, 2 * n + 1) <= 0
  BY <1>9, Zenon
<1>11. received = [rc |-> 1, dup |-> packet.header.dup, id |-> Value(packet, 1),
                   filters |-> [n \in 1..k |-> Value(packet, 2 * n)],
                   qoss    |-> [n \in 1..k |-> Value(packet, 2 * n + 1)]]
  BY <1>3, <1>4, <1>7, <1>10, Zenon DEF MQTTDeserialize_subscribe
<1>12. \A n \in 1..k : /\ Value(packet, 2 * n) = Contents(names[n])
                       /\ Value(packet, 2 * n + 1) = qoss[n]
  BY <1>6, <1>8, Zenon
<1>13. [n \in 1..k |-> Value(packet, 2 * n)] = [n \in DOMAIN names |-> Contents(names[n])]
  BY <1>5, <1>12
<1>14. [n \in 1..k |-> Value(packet, 2 * n + 1)] = qoss
  <2>1. [n \in 1..k |-> Value(packet, 2 * n + 1)] = [n \in 1..k |-> qoss[n]]
    BY <1>12
  <2> QED
    BY <1>5, <2>1, Zenon
<1>15. /\ received.rc = 1 /\ received.dup = packet.header.dup /\ received.id = Value(packet, 1)
       /\ received.filters = [n \in 1..k |-> Value(packet, 2 * n)]
       /\ received.qoss = [n \in 1..k |-> Value(packet, 2 * n + 1)]
  BY <1>11
<1> QED
  BY <1>4, <1>6, <1>8, <1>13, <1>14, <1>15, Zenon

\* A sequence with another after it or not
After(S, c, a, b, condition) ==
    /\ c \in Seq(S) /\ Len(a) \in Nat /\ Len(b) \in Nat
    /\ Len(c) = Len(a) + (IF condition THEN Len(b) ELSE 0)
    /\ \A i \in 1..Len(a) : c[i] = a[i]
    /\ condition => \A i \in 1..Len(b) : c[Len(a) + i] = b[i]

LEMMA Optional ==
    ASSUME NEW S, NEW a \in Seq(S), NEW b \in Seq(S), NEW condition, NEW c,
           c = a \o When(condition, b)
    PROVE  After(S, c, a, b, condition)
<1>1. CASE condition
  <2>1. c = a \o b
    BY <1>1, Zenon DEF When
  <2>2. /\ c \in Seq(S) /\ Len(a) \in Nat /\ Len(b) \in Nat /\ Len(c) = Len(a) + Len(b)
        /\ \A i \in 1..Len(a) : c[i] = a[i]
        /\ \A i \in 1..Len(b) : c[Len(a) + i] = b[i]
    BY <2>1, TwoPieces
  <2> QED
    BY <1>1, <2>2, Zenon DEF After
<1>2. CASE ~condition
  <2> DEFINE e == <<>>
  <2>1. c = a \o e
    BY <1>2, Zenon DEF When
  <2>2. e \in Seq(S) /\ Len(e) = 0 /\ Len(b) \in Nat
    OBVIOUS
  <2> HIDE DEF e
  <2>3. /\ c \in Seq(S) /\ Len(a) \in Nat /\ Len(c) = Len(a) + Len(e)
        /\ \A i \in 1..Len(a) : c[i] = a[i]
    BY <2>1, <2>2, TwoPieces
  <2>4. Len(c) = Len(a) + 0
    BY <2>2, <2>3, Zenon
  <2> QED
    BY <1>2, <2>2, <2>3, <2>4, Zenon DEF After
<1> QED
  BY <1>1, <1>2

\* A PUBLISH.
LEMMA PublishIsRead ==
    ASSUME Read, given.op = "PUBLISH", given.topic \in MQTTStrings, given.payload \in Strings,
           given.qos \in 0..2
    PROVE  received = [rc |-> 1,
                       header |-> Header("PUBLISH", given.dup, given.qos, given.retained),
                       topic |-> Contents(given.topic), id |-> IF given.qos > 0 THEN given.id ELSE 0,
                       payload |-> given.payload, payloadlen |-> StringLen[given.payload]]
<1> DEFINE packet == result.packet
           head   == Header("PUBLISH", given.dup, given.qos, given.retained)
           fields == PublishFields(given)
           t == writeMQTTString(given.topic)
           w == Word(given.id)
           b == Payload(given.payload)
           S == {t, w, b}
           id == given.qos > 0
           n == IF id THEN 3 ELSE 2
<1>1. result = Serialize(buffer_size, given) /\ result.rc > 0 /\ received = Deserialize(packet, given)
  BY Zenon DEF Read
<1>2. packet.header = head /\ Laid(packet, fields)
  BY <1>1, RequestWrites, WroteLaid, Zenon
<1>3. received = MQTTDeserialize_publish(packet)
  BY <1>1 DEF Deserialize
<1>4. packet.header.type = "PUBLISH" /\ (packet.header.qos > 0 <=> id)
  BY <1>2 DEF Header
<1>5. /\ Size(t) >= 2 /\ Size(t) \in Nat /\ t.value = Contents(given.topic)
      /\ Size(w) = 2 /\ w.value = given.id
      /\ Size(b) = StringLen[given.payload] /\ Size(b) \in Nat /\ b.value = given.payload
  BY ContentsWritten, FieldSizes DEF Word, Payload
<1>6. fields = (<<t>> \o When(id, <<w>>)) \o <<b>>
  BY Zenon DEF PublishFields
<1> HIDE DEF t, w, b, id, packet, head, fields
<1>7. Sized(S)
  BY <1>5 DEF Sized
<1>8. /\ fields \in Seq(S) /\ Len(fields) = n /\ fields[1] = t /\ fields[n] = b
      /\ id => fields[2] = w
  <2> DEFINE A  == <<t>>
             W  == <<w>>
             B  == <<b>>
             AW == A \o When(id, W)
  <2>1. /\ A \in Seq(S) /\ W \in Seq(S) /\ B \in Seq(S)
        /\ Len(A) = 1 /\ Len(W) = 1 /\ Len(B) = 1 /\ A[1] = t /\ W[1] = w /\ B[1] = b
    OBVIOUS
  <2>2. fields = AW \o B
    BY <1>6, Zenon
  <2> HIDE DEF A, W, B, S
  <2>3. /\ AW \in Seq(S) /\ Len(AW) = Len(A) + (IF id THEN Len(W) ELSE 0)
        /\ \A i \in 1..Len(A) : AW[i] = A[i]
        /\ id => \A i \in 1..Len(W) : AW[Len(A) + i] = W[i]
    <3>1. After(S, AW, A, W, id)
      BY <2>1, Optional, Zenon
    <3> QED
      BY <3>1, Zenon DEF After
  <2>4. Len(AW) = n - 1 /\ AW[1] = t /\ (id => AW[2] = w)
    BY <2>1, <2>3
  <2>6. AW \in Seq(S)
    BY <2>3
  <2> HIDE DEF AW
  <2>5. /\ fields \in Seq(S) /\ Len(fields) = Len(AW) + Len(B)
        /\ \A i \in 1..Len(AW) : fields[i] = AW[i]
        /\ \A i \in 1..Len(B) : fields[Len(AW) + i] = B[i]
    <3>1. AW \in Seq(S) /\ B \in Seq(S) /\ fields = AW \o B
      BY <2>1, <2>2, <2>6, Zenon
    <3> QED
      BY <3>1, TwoPieces
  <2> QED
    BY <2>1, <2>4, <2>5
<1> HIDE DEF S
<1>9. \A i : Value(packet, i) = fields[i].value
  BY <1>2, Zenon DEF Laid, Value
<1>10. Readable(packet, 1)
  <2>1. 1 \in 1..Len(fields) /\ Size(fields[1]) >= 2
    BY <1>5, <1>8
  <2> QED
    BY <1>2, <1>7, <1>8, <2>1, TextReadable, Zenon
<1>11. Left(packet, n) = StringLen[given.payload]
  <2>1. n \in 1..Len(fields)
    BY <1>8
  <2>2. Left(packet, n) = Left(packet, n + 1) + Size(fields[n]) /\ Left(packet, Len(fields) + 1) = 0
    BY <1>2, <1>7, <1>8, <2>1, LeftIs, Zenon
  <2> HIDE DEF n
  <2>3. Left(packet, n) = 0 + Size(b)
    BY <1>8, <2>2, Zenon
  <2> QED
    BY <1>5, <2>3
<1>12. ASSUME id
       PROVE  received = [rc |-> 1, header |-> packet.header, topic |-> Value(packet, 1),
                          id |-> Value(packet, 2), payload |-> Value(packet, 3),
                          payloadlen |-> Left(packet, 3)]
  BY <1>3, <1>4, <1>10, <1>12, Zenon DEF MQTTDeserialize_publish
<1>13. ASSUME ~id
       PROVE  received = [rc |-> 1, header |-> packet.header, topic |-> Value(packet, 1),
                          id |-> 0, payload |-> Value(packet, 2), payloadlen |-> Left(packet, 2)]
  BY <1>3, <1>4, <1>10, <1>13, Zenon DEF MQTTDeserialize_publish
<1>14. CASE id
  <2>1. n = 3
    BY <1>14, Zenon
  <2>2. received = [rc |-> 1, header |-> head, topic |-> Contents(given.topic),
                    id |-> given.id, payload |-> given.payload,
                    payloadlen |-> StringLen[given.payload]]
    BY <1>2, <1>5, <1>8, <1>9, <1>11, <1>12, <1>14, <2>1, Zenon
  <2> QED
    BY <1>14, <2>2, Zenon DEF id, head
<1>15. CASE ~id
  <2>1. n = 2
    BY <1>15, Zenon
  <2>2. received = [rc |-> 1, header |-> head, topic |-> Contents(given.topic),
                    id |-> 0, payload |-> given.payload,
                    payloadlen |-> StringLen[given.payload]]
    BY <1>2, <1>5, <1>8, <1>9, <1>11, <1>13, <1>15, <2>1, Zenon
  <2> QED
    BY <1>15, <2>2, Zenon DEF id, head
<1> QED
  BY <1>14, <1>15

\* Where what a CONNECT may have lies, after what it always has.
Layout(F, k, A, will, t, m, name, u, pass, w) ==
    LET wills == IF will THEN 2 ELSE 0
        names == IF name THEN 1 ELSE 0
    IN  /\ Len(F) = k + wills + names + (IF pass THEN 1 ELSE 0)
        /\ \A i \in 1..k : F[i] = A[i]
        /\ will => F[k + 1] = t /\ F[k + 2] = m
        /\ name => F[k + wills + 1] = u
        /\ pass => F[k + wills + names + 1] = w

Composed(F, A, will, t, m, name, u, pass, w) ==
    F = ((A \o When(will, <<t, m>>)) \o When(name, <<u>>)) \o When(pass, <<w>>)

LEMMA ConnectLayout ==
    ASSUME NEW S, NEW A \in Seq(S), NEW k, Len(A) = k, NEW t \in S, NEW m \in S, NEW u \in S, NEW w \in S,
           NEW will, NEW name, NEW pass, NEW F,
           Composed(F, A, will, t, m, name, u, pass, w)
    PROVE  F \in Seq(S) /\ Layout(F, k, A, will, t, m, name, u, pass, w)
<1> DEFINE T == <<t, m>>
           U == <<u>>
           W == <<w>>
           B == A \o When(will, T)
           C == B \o When(name, U)
           wills == IF will THEN 2 ELSE 0
           names == IF name THEN 1 ELSE 0
           passes == IF pass THEN 1 ELSE 0
<1>1. /\ T \in Seq(S) /\ U \in Seq(S) /\ W \in Seq(S)
      /\ Len(T) = 2 /\ Len(U) = 1 /\ Len(W) = 1
      /\ T[1] = t /\ T[2] = m /\ U[1] = u /\ W[1] = w
  OBVIOUS
<1>2. F = C \o When(pass, W)
  BY Zenon DEF Composed
<1> HIDE DEF T, U, W
<1>3. /\ B \in Seq(S) /\ Len(B) = k + wills /\ k \in Nat
      /\ \A i \in 1..k : B[i] = A[i]
      /\ will => B[k + 1] = t /\ B[k + 2] = m
  <2>1. /\ B \in Seq(S) /\ Len(A) \in Nat /\ Len(B) = Len(A) + (IF will THEN Len(T) ELSE 0)
        /\ \A i \in 1..Len(A) : B[i] = A[i]
        /\ will => \A i \in 1..Len(T) : B[Len(A) + i] = T[i]
    <3>1. After(S, B, A, T, will)
      BY <1>1, Optional, Zenon
    <3> QED
      BY <3>1, Zenon DEF After
  <2> HIDE DEF B
  <2>2. k \in Nat /\ Len(B) = k + (IF will THEN 2 ELSE 0)
    BY <1>1, <2>1, Zenon
  <2>3. \A i \in 1..k : B[i] = A[i]
    BY <2>1, Zenon
  <2>4. ASSUME will
        PROVE  B[k + 1] = t /\ B[k + 2] = m
    <3>1. \A i \in 1..2 : B[k + i] = T[i]
      BY <1>1, <2>1, <2>4, Zenon
    <3>2. 1 \in 1..2 /\ 2 \in 1..2
      OBVIOUS
    <3> QED
      BY <1>1, <3>1, <3>2, Zenon
  <2> QED
    BY <2>1, <2>2, <2>3, <2>4, Zenon
<1> HIDE DEF B
<1>4. /\ C \in Seq(S) /\ Len(C) = k + wills + names
      /\ \A i \in 1..k + wills : C[i] = B[i]
      /\ name => C[k + wills + 1] = u
  <2>1. /\ C \in Seq(S) /\ Len(C) = Len(B) + (IF name THEN Len(U) ELSE 0)
        /\ \A i \in 1..Len(B) : C[i] = B[i]
        /\ name => \A i \in 1..Len(U) : C[Len(B) + i] = U[i]
    <3>1. After(S, C, B, U, name)
      BY <1>1, <1>3, Optional, Zenon
    <3> QED
      BY <3>1, Zenon DEF After
  <2> HIDE DEF C
  <2> DEFINE before == k + wills
  <2>2. Len(B) = before /\ before \in Nat
    BY <1>3
  <2> HIDE DEF before
  <2>3. /\ \A i \in 1..before : C[i] = B[i]
        /\ name => C[before + 1] = u
    <3>1. /\ \A i \in 1..before : C[i] = B[i]
          /\ name => \A i \in 1..1 : C[before + i] = U[i]
      BY <1>1, <2>1, <2>2, Zenon
    <3>2. 1 \in 1..1
      OBVIOUS
    <3> QED
      BY <1>1, <3>1, <3>2, Zenon
  <2>4. Len(C) = before + names
    BY <1>1, <2>1, <2>2, Zenon
  <2> QED
    BY <2>1, <2>3, <2>4, Zenon DEF before
<1> HIDE DEF C
<1>5. /\ F \in Seq(S) /\ Len(F) = k + wills + names + passes
      /\ \A i \in 1..k + wills + names : F[i] = C[i]
      /\ pass => F[k + wills + names + 1] = w
  <2>1. /\ F \in Seq(S) /\ Len(F) = Len(C) + (IF pass THEN Len(W) ELSE 0)
        /\ \A i \in 1..Len(C) : F[i] = C[i]
        /\ pass => \A i \in 1..Len(W) : F[Len(C) + i] = W[i]
    <3>1. After(S, F, C, W, pass)
      BY <1>1, <1>2, <1>4, Optional, Zenon
    <3> QED
      BY <3>1, Zenon DEF After
  <2> DEFINE before == k + wills + names
  <2>2. Len(C) = before /\ before \in Nat
    BY <1>3, <1>4
  <2> HIDE DEF before
  <2>3. /\ \A i \in 1..before : F[i] = C[i]
        /\ pass => F[before + 1] = w
    <3>1. /\ \A i \in 1..before : F[i] = C[i]
          /\ pass => \A i \in 1..1 : F[before + i] = W[i]
      BY <1>1, <2>1, <2>2, Zenon
    <3>2. 1 \in 1..1
      OBVIOUS
    <3> QED
      BY <1>1, <3>1, <3>2, Zenon
  <2>4. Len(F) = before + passes
    BY <1>1, <2>1, <2>2, Zenon
  <2> QED
    BY <2>1, <2>3, <2>4, Zenon DEF before
<1>6. wills \in {0, 2} /\ names \in {0, 1} /\ (will => wills = 2) /\ (name => names = 1)
  OBVIOUS
<1> HIDE DEF wills, names
<1>7. \A i \in 1..k : F[i] = A[i]
  <2> TAKE i \in 1..k
  <2>1. i \in 1..k + wills /\ i \in 1..k + wills + names
    BY <1>3, <1>6
  <2> QED
    BY <1>3, <1>4, <1>5, <2>1, Zenon
<1>8. ASSUME will
      PROVE  F[k + 1] = t /\ F[k + 2] = m
  <2>1. k + 1 \in 1..k + wills /\ k + 1 \in 1..k + wills + names
        /\ k + 2 \in 1..k + wills /\ k + 2 \in 1..k + wills + names
    BY <1>3, <1>6, <1>8
  <2> QED
    BY <1>3, <1>4, <1>5, <1>8, <2>1, Zenon
<1>9. ASSUME name
      PROVE  F[k + wills + 1] = u
  <2>1. k + wills + 1 \in 1..k + wills + names
    BY <1>3, <1>6, <1>9
  <2> QED
    BY <1>4, <1>5, <1>9, <2>1, Zenon
<1> QED
  BY <1>5, <1>7, <1>8, <1>9, Zenon DEF Layout, wills, names

ConnectNames(o) == When(Given(o.username), <<o.username>>) \o When(Given(o.password), <<o.password>>)
ConnectStrings(o) ==
    ((<<o.clientID>> \o When(o.will, <<o.topic, o.message>>))
        \o When(Given(o.username), <<o.username>>)) \o When(Given(o.password), <<o.password>>)
Acceptable(o) ==
    /\ o.version = 4
    /\ Given(o.password) => Given(o.username)
    /\ ConnectNames(o) # <<>> => MQTTstrlen(Last(ConnectNames(o))) > 0

LEMMA NamesAre ==
    ASSUME NEW o
    PROVE  /\ Given(o.password) => ConnectNames(o) # <<>> /\ Last(ConnectNames(o)) = o.password
           /\ Given(o.username) /\ ~Given(o.password) =>
                 ConnectNames(o) # <<>> /\ Last(ConnectNames(o)) = o.username
           /\ ~Given(o.username) /\ ~Given(o.password) => ConnectNames(o) = <<>>
<1> DEFINE u == o.username
           w == o.password
           name == Given(u)
           pass == Given(w)
           S == {u, w}
           U == <<u>>
           W == <<w>>
           none == <<>>
           A == When(name, U)
           names == A \o When(pass, W)
<1>1. ConnectNames(o) = names
  BY Zenon DEF ConnectNames
<1>2. /\ U \in Seq(S) /\ W \in Seq(S) /\ Len(U) = 1 /\ Len(W) = 1 /\ U[1] = u /\ W[1] = w
      /\ none \in Seq(S) /\ Len(none) = 0 /\ <<>> \o <<>> = <<>> /\ \A s \in Seq(S) : Len(s) > 0 => s # <<>>
  OBVIOUS
<1> HIDE DEF u, w, U, W, S, none, name, pass
<1>3. A \in Seq(S) /\ (name => A = U) /\ (~name => A = none)
  BY <1>2, Zenon DEF When, none
<1>4. /\ names \in Seq(S) /\ Len(names) = Len(A) + (IF pass THEN Len(W) ELSE 0)
      /\ \A i \in 1..Len(A) : names[i] = A[i]
      /\ pass => \A i \in 1..Len(W) : names[Len(A) + i] = W[i]
  <2> HIDE DEF A
  <2>1. After(S, names, A, W, pass)
    BY <1>2, <1>3, Optional, Zenon
  <2> QED
    BY <2>1, Zenon DEF After
<1>5. \A s : Last(s) = s[Len(s)]
  BY DEF Last
<1> HIDE DEF A, names
<1>6. ASSUME pass
      PROVE  names # <<>> /\ Last(names) = w
  <2>1. Len(A) \in Nat /\ Len(names) = Len(A) + 1 /\ names[Len(A) + 1] = w
    BY <1>2, <1>3, <1>4, <1>6
  <2>2. Len(names) > 0 /\ names[Len(names)] = w
    BY <2>1
  <2> QED
    BY <1>2, <1>4, <1>5, <2>2, Zenon
<1>7. ASSUME name, ~pass
      PROVE  names # <<>> /\ Last(names) = u
  <2>1. A = U /\ Len(names) = 1 + 0 /\ names[1] = u
    BY <1>2, <1>3, <1>4, <1>7
  <2>2. Len(names) > 0 /\ names[Len(names)] = u
    BY <2>1
  <2> QED
    BY <1>2, <1>4, <1>5, <2>2, Zenon
<1>8. ASSUME ~name, ~pass
      PROVE  names = <<>>
  <2>1. A = <<>> /\ When(pass, W) = <<>>
    BY <1>3, <1>8, Zenon DEF When, none
  <2> QED
    BY <1>2, <2>1, Zenon DEF names
<1> QED
  BY <1>1, <1>6, <1>7, <1>8, Zenon DEF name, pass, u, w

\* What the fields of a CONNECT are
ConnectIn(S, fields, o) ==
    LET wills == IF o.will THEN 2 ELSE 0
        names == IF Given(o.username) THEN 1 ELSE 0
    IN  /\ Sized(S) /\ fields \in Seq(S)
        /\ \A f \in S : Size(f) = 1 \/ Size(f) >= 2
        /\ Len(fields) = 5 + wills + names + (IF Given(o.password) THEN 1 ELSE 0)
        /\ fields[1] = Protocol(o.version) /\ fields[2] = Byte(IF o.version = 4 THEN 4 ELSE 3)
        /\ fields[3] = Byte(ConnectFlags(o)) /\ fields[4] = Word(o.keepAlive)
        /\ fields[5] = writeMQTTString(o.clientID)
        /\ o.will => /\ fields[6] = writeMQTTString(o.topic)
                     /\ fields[7] = writeMQTTString(o.message)
        /\ Given(o.username) => fields[6 + wills] = writeMQTTString(o.username)
        /\ Given(o.password) => fields[6 + wills + names] = writeMQTTString(o.password)

LEMMA ConnectLaid ==
    ASSUME NEW o, o.version \in {3, 4}, o.clientID \in MQTTStrings, o.topic \in MQTTStrings,
           o.message \in MQTTStrings, o.username \in MQTTStrings, o.password \in MQTTStrings
    PROVE  \E S : ConnectIn(S, ConnectFields(o), o)
<1> DEFINE f == Protocol(o.version)
           g == Byte(IF o.version = 4 THEN 4 ELSE 3)
           h == Byte(ConnectFlags(o))
           i == Word(o.keepAlive)
           c == writeMQTTString(o.clientID)
           t == writeMQTTString(o.topic)
           m == writeMQTTString(o.message)
           u == writeMQTTString(o.username)
           w == writeMQTTString(o.password)
           S == {f, g, h, i, c, t, m, u, w}
           A == <<f, g, h, i, c>>
           will == o.will
           name == Given(o.username)
           pass == Given(o.password)
           fields == ConnectFields(o)
<1>1. Size(f) \in {6, 8}
  BY FieldSizes
<1>2. Size(g) = 1 /\ Size(h) = 1 /\ Size(i) = 2
  BY FieldSizes, Zenon
<1>3. /\ Size(c) \in Nat /\ Size(c) >= 2 /\ Size(t) \in Nat /\ Size(t) >= 2
      /\ Size(m) \in Nat /\ Size(m) >= 2 /\ Size(u) \in Nat /\ Size(u) >= 2
      /\ Size(w) \in Nat /\ Size(w) >= 2
  BY ContentsWritten
<1>4. Composed(fields, A, will, t, m, name, u, pass, w)
  BY Zenon DEF Composed, ConnectFields, ConnectHead, ConnectWill, ConnectName, ConnectPass
<1> HIDE DEF f, g, h, i, c, t, m, u, w, fields, will, name, pass
<1>5. Sized(S) /\ \A x \in S : Size(x) = 1 \/ Size(x) >= 2
  <2>1. \A x \in S : Size(x) \in Nat /\ (Size(x) = 1 \/ Size(x) >= 2)
    BY <1>1, <1>2, <1>3
  <2> QED
    BY <2>1, Zenon DEF Sized
<1>6. /\ A \in Seq(S) /\ Len(A) = 5 /\ t \in S /\ m \in S /\ u \in S /\ w \in S
      /\ A[1] = f /\ A[2] = g /\ A[3] = h /\ A[4] = i /\ A[5] = c
  OBVIOUS
<1> HIDE DEF S, A
<1>7. fields \in Seq(S) /\ Layout(fields, 5, A, will, t, m, name, u, pass, w)
  BY <1>4, <1>6, ConnectLayout, Zenon
<1> DEFINE wills == IF will THEN 2 ELSE 0
           names == IF name THEN 1 ELSE 0
<1>8. /\ Len(fields) = 5 + wills + names + (IF pass THEN 1 ELSE 0)
      /\ \A n \in 1..5 : fields[n] = A[n]
      /\ will => fields[5 + 1] = t /\ fields[5 + 2] = m
      /\ name => fields[5 + wills + 1] = u
      /\ pass => fields[5 + wills + names + 1] = w
  BY <1>7, Zenon DEF Layout
<1>9. /\ 5 + wills + 1 = 6 + wills /\ 5 + wills + names + 1 = 6 + wills + names
      /\ 5 + 1 = 6 /\ 5 + 2 = 7
      /\ 1 \in 1..5 /\ 2 \in 1..5 /\ 3 \in 1..5 /\ 4 \in 1..5 /\ 5 \in 1..5
  <2>1. wills \in {0, 2} /\ names \in {0, 1}
    OBVIOUS
  <2> HIDE DEF wills, names
  <2> QED
    BY <2>1
<1>10. /\ fields[1] = f /\ fields[2] = g /\ fields[3] = h /\ fields[4] = i /\ fields[5] = c
       /\ will => fields[6] = t /\ fields[7] = m
       /\ name => fields[6 + wills] = u
       /\ pass => fields[6 + wills + names] = w
  <2> HIDE DEF wills, names
  <2> QED
    BY <1>6, <1>8, <1>9, Zenon
<1> QED
  BY <1>5, <1>7, <1>8, <1>10, Zenon DEF ConnectIn, f, g, h, i, c, t, m, u, w, fields, will, name, pass, wills, names

\* The strings that arrive are those that were given.
LEMMA StringsArrive ==
    ASSUME NEW S, NEW fields \in Seq(S), NEW o, ConnectIn(S, fields, o),
           o.clientID \in MQTTStrings, o.topic \in MQTTStrings, o.message \in MQTTStrings,
           o.username \in MQTTStrings, o.password \in MQTTStrings
    PROVE  [n \in 1..Len(fields) - 4 |-> fields[n + 4].value]
               = [n \in DOMAIN ConnectStrings(o) |-> Contents(ConnectStrings(o)[n])]
<1> DEFINE A == <<o.clientID>>
           strings == ConnectStrings(o)
           will == o.will
           name == Given(o.username)
           pass == Given(o.password)
           wills == IF will THEN 2 ELSE 0
           names == IF name THEN 1 ELSE 0
           passes == IF pass THEN 1 ELSE 0
<1>1. Composed(strings, A, will, o.topic, o.message, name, o.username, pass, o.password)
  BY Zenon DEF Composed, ConnectStrings
<1>2. A \in Seq(MQTTStrings) /\ Len(A) = 1 /\ A[1] = o.clientID
  OBVIOUS
<1> HIDE DEF A, strings, will, name, pass
<1>3. /\ strings \in Seq(MQTTStrings)
      /\ Layout(strings, 1, A, will, o.topic, o.message, name, o.username, pass, o.password)
  BY <1>1, <1>2, ConnectLayout, Zenon
<1>4. /\ Len(strings) = 1 + wills + names + passes
      /\ \A n \in 1..1 : strings[n] = A[n]
      /\ will => strings[1 + 1] = o.topic /\ strings[1 + 2] = o.message
      /\ name => strings[1 + wills + 1] = o.username
      /\ pass => strings[1 + wills + names + 1] = o.password
  BY <1>3, Zenon DEF Layout
<1>5. /\ Len(fields) = 5 + wills + names + passes
      /\ fields[5] = writeMQTTString(o.clientID)
      /\ will => fields[6] = writeMQTTString(o.topic) /\ fields[7] = writeMQTTString(o.message)
      /\ name => fields[6 + wills] = writeMQTTString(o.username)
      /\ pass => fields[6 + wills + names] = writeMQTTString(o.password)
  BY Zenon DEF ConnectIn, will, name, pass
<1>6. /\ wills \in {0, 2} /\ names \in {0, 1} /\ passes \in {0, 1}
      /\ (wills = 2 => will) /\ (names = 1 => name) /\ (passes = 1 => pass)
  OBVIOUS
<1> HIDE DEF wills, names, passes
<1>7. Len(fields) - 4 = Len(strings) /\ Len(strings) \in Nat
  BY <1>4, <1>5, <1>6
<1>8. ASSUME NEW n \in 1..Len(strings)
      PROVE  fields[n + 4].value = Contents(strings[n])
  <2>1. \/ n = 1
        \/ wills = 2 /\ n = 2
        \/ wills = 2 /\ n = 3
        \/ names = 1 /\ n = 2 + wills
        \/ passes = 1 /\ n = 2 + wills + names
    BY <1>4, <1>6
  <2>2. CASE n = 1
    <3>1. n + 4 = 5 /\ n \in 1..1
      BY <2>2
    <3> QED
      BY <1>2, <1>4, <1>5, <2>2, <3>1, ContentsWritten, Zenon
  <2>3. CASE wills = 2 /\ n = 2
    <3>1. n + 4 = 6 /\ n = 1 + 1
      BY <2>3
    <3> QED
      BY <1>4, <1>5, <1>6, <2>3, <3>1, ContentsWritten, Zenon
  <2>4. CASE wills = 2 /\ n = 3
    <3>1. n + 4 = 7 /\ n = 1 + 2
      BY <2>4
    <3> QED
      BY <1>4, <1>5, <1>6, <2>4, <3>1, ContentsWritten, Zenon
  <2>5. CASE names = 1 /\ n = 2 + wills
    <3>1. n + 4 = 6 + wills /\ n = 1 + wills + 1
      BY <1>6, <2>5
    <3> QED
      BY <1>4, <1>5, <1>6, <2>5, <3>1, ContentsWritten, Zenon
  <2>6. CASE passes = 1 /\ n = 2 + wills + names
    <3>1. n + 4 = 6 + wills + names /\ n = 1 + wills + names + 1
      BY <1>6, <2>6
    <3> QED
      BY <1>4, <1>5, <1>6, <2>6, <3>1, ContentsWritten, Zenon
  <2> QED
    BY <2>1, <2>2, <2>3, <2>4, <2>5, <2>6
<1>9. DOMAIN strings = 1..Len(strings)
  BY <1>3
<1>10. [n \in 1..Len(strings) |-> fields[n + 4].value]
           = [n \in 1..Len(strings) |-> Contents(strings[n])]
  BY <1>8
<1> QED
  BY <1>7, <1>9, <1>10, Zenon DEF strings

\* What is left before the field before the last, and before the last.
LEMMA LastLeft ==
    ASSUME NEW S, Sized(S), NEW fields \in Seq(S), NEW packet, Laid(packet, fields),
           Len(fields) >= 2
    PROVE  /\ Left(packet, Len(fields)) = Size(fields[Len(fields)])
           /\ Left(packet, Len(fields) - 1)
                  = Size(fields[Len(fields)]) + Size(fields[Len(fields) - 1])
<1> DEFINE k == Len(fields)
           x == Left(packet, k - 1)
           y == Left(packet, k)
           z == Left(packet, k + 1)
           a == Size(fields[k - 1])
           b == Size(fields[k])
<1>1. k \in 1..k /\ k - 1 \in 1..k /\ (k - 1) + 1 = k
  OBVIOUS
<1>2. z = 0 /\ y = z + b /\ b \in Nat
  BY <1>1, LeftIs, Zenon
<1>3. x = y + a /\ a \in Nat
  <2> DEFINE j == k - 1
  <2>1. j \in 1..k /\ j + 1 = k
    BY <1>1
  <2> HIDE DEF j, k
  <2>2. Left(packet, j) = Left(packet, j + 1) + Size(fields[j]) /\ Size(fields[j]) \in Nat
    BY <2>1, LeftIs, Zenon DEF k
  <2> QED
    BY <2>1, <2>2, Zenon DEF j
<1> HIDE DEF x, y, z, a, b, k
<1>4. y = b /\ x = b + a
  BY <1>2, <1>3
<1> QED
  BY <1>4 DEF x, y, a, b, k

\* A CONNECT.
LEMMA ConnectIsRead ==
    ASSUME Read, given.op = "CONNECT", given.version \in {3, 4}, given.will \in BOOLEAN,
           given.clientID \in MQTTStrings, given.topic \in MQTTStrings,
           given.message \in MQTTStrings, given.username \in MQTTStrings,
           given.password \in MQTTStrings
    PROVE  IF Acceptable(given)
           THEN received = [rc |-> 1, flags |-> ConnectFlags(given),
                            keepAlive |-> given.keepAlive,
                            strings |-> [n \in DOMAIN ConnectStrings(given) |->
                                            Contents(ConnectStrings(given)[n])]]
           ELSE received.rc = 0
<1> DEFINE packet == result.packet
           head   == Header("CONNECT", FALSE, 0, FALSE)
           fields == ConnectFields(given)
           flags  == ConnectFlags(given)
           will   == given.will
           name   == Given(given.username)
           pass   == Given(given.password)
           wills  == IF will THEN 2 ELSE 0
           names  == IF name THEN 1 ELSE 0
           passes == IF pass THEN 1 ELSE 0
           u      == writeMQTTString(given.username)
           w      == writeMQTTString(given.password)
           nu     == MQTTstrlen(given.username)
           nw     == MQTTstrlen(given.password)
           protocol == Protocol(given.version)
           ok == /\ Readable(packet, 1) /\ checkVersion(Value(packet, 1), Value(packet, 2))
                 /\ \A n \in 5..(5 + wills) : Readable(packet, n)
                 /\ name => Filled(packet, 6 + wills)
                 /\ pass => name /\ Filled(packet, 7 + wills)
           strings == [n \in DOMAIN ConnectStrings(given) |-> Contents(ConnectStrings(given)[n])]
<1>1. result = Serialize(buffer_size, given) /\ result.rc > 0 /\ received = Deserialize(packet, given)
  BY Zenon DEF Read
<1>2. packet.header = head /\ Laid(packet, fields)
  BY <1>1, RequestWrites, WroteLaid, Zenon
<1>3. received = MQTTDeserialize_connect(packet)
  BY <1>1 DEF Deserialize
<1>4. packet.header.type = "CONNECT"
  BY <1>2 DEF Header
<1>5. flags.will = will /\ flags.username = name /\ flags.password = pass
  BY DEF ConnectFlags
<1>6. PICK S : ConnectIn(S, fields, given)
  BY ConnectLaid
<1>7. /\ Size(u) = nu + 2 /\ Size(w) = nw + 2 /\ nu \in Nat /\ nw \in Nat
  BY StringSize
<1> HIDE DEF packet, head, fields, flags, will, name, pass, u, w, nu, nw, protocol
<1>8. /\ Sized(S) /\ fields \in Seq(S)
      /\ Len(fields) = 5 + wills + names + passes
      /\ fields[1] = protocol /\ fields[2] = Byte(IF given.version = 4 THEN 4 ELSE 3)
      /\ fields[3] = Byte(flags) /\ fields[4] = Word(given.keepAlive)
      /\ fields[5] = writeMQTTString(given.clientID)
      /\ will => /\ fields[6] = writeMQTTString(given.topic)
                 /\ fields[7] = writeMQTTString(given.message)
      /\ name => fields[6 + wills] = u
      /\ pass => fields[6 + wills + names] = w
  BY <1>6, Zenon DEF ConnectIn, will, name, pass, u, w, protocol, flags
<1>9. \A n : Value(packet, n) = fields[n].value
  BY <1>2, Zenon DEF Laid, Value
<1>10. /\ Value(packet, 3) = flags /\ Value(packet, 4) = given.keepAlive
       /\ Value(packet, 2) = IF given.version = 4 THEN 4 ELSE 3
  <2>1. \A v : Byte(v).value = v /\ Word(v).value = v
    BY DEF Byte, Word
  <2>2. /\ Value(packet, 3) = Byte(flags).value /\ Value(packet, 4) = Word(given.keepAlive).value
        /\ Value(packet, 2) = Byte(IF given.version = 4 THEN 4 ELSE 3).value
    BY <1>8, <1>9, Zenon
  <2> QED
    BY <2>1, <2>2, Zenon
<1>11. /\ wills \in {0, 2} /\ names \in {0, 1} /\ passes \in {0, 1}
       /\ (will => wills = 2) /\ (~will => wills = 0)
       /\ (name => names = 1) /\ (~name => names = 0)
       /\ (pass => passes = 1) /\ (~pass => passes = 0)
  OBVIOUS
<1>12. received = IF ok THEN [rc |-> 1, flags |-> flags, keepAlive |-> given.keepAlive,
                              strings |-> [n \in 1..Len(packet.fields) - 4 |-> Value(packet, n + 4)]]
                  ELSE NoData
  BY <1>3, <1>4, <1>5, <1>10, Zenon DEF MQTTDeserialize_connect
<1> HIDE DEF wills, names, passes
<1>13. [n \in 1..Len(packet.fields) - 4 |-> Value(packet, n + 4)] = strings
  <2>1. packet.fields = fields
    BY <1>2, Zenon DEF Laid
  <2>2. [n \in 1..Len(fields) - 4 |-> Value(packet, n + 4)]
            = [n \in 1..Len(fields) - 4 |-> fields[n + 4].value]
    BY <1>9
  <2>3. [n \in 1..Len(fields) - 4 |-> fields[n + 4].value] = strings
    BY <1>6, <1>8, StringsArrive, Zenon
  <2> QED
    BY <2>1, <2>2, <2>3, Zenon
<1> HIDE DEF strings
<1>14. \A n \in 5..5 + wills : Readable(packet, n)
  <2> TAKE n \in 5..5 + wills
  <2>1. n \in 1..Len(fields) /\ (n = 5 \/ (will /\ n = 6) \/ (will /\ n = 7))
    BY <1>8, <1>11
  <2>2. Size(fields[n]) >= 2
    BY <1>8, <2>1, ContentsWritten, Zenon
  <2> QED
    BY <1>2, <1>8, <2>1, <2>2, TextReadable, Zenon
<1>15. Readable(packet, 1) /\ Value(packet, 1) = protocol.value
  <2>1. 1 \in 1..Len(fields)
    <3>1. Len(fields) = 5 + wills + names + passes
      BY <1>8
    <3> QED
      BY <1>11, <3>1
  <2>2. Size(fields[1]) >= 2
    <3>1. Size(protocol) >= 2
      BY FieldSizes DEF protocol
    <3> QED
      BY <1>8, <3>1
  <2> QED
    BY <1>2, <1>8, <2>1, <2>2, TextReadable, Zenon
<1>16. checkVersion(Value(packet, 1), Value(packet, 2)) <=> given.version = 4
  <2>1. CASE given.version = 4
    <3>1. protocol.value = "MQTT"
      BY <2>1 DEF protocol, Protocol, Text
    <3> QED
      BY <1>10, <1>15, <2>1, <3>1, Zenon DEF checkVersion
  <2>2. CASE given.version # 4
    <3>1. Value(packet, 2) = 3 /\ 3 # 4
      BY <1>10, <2>2
    <3> QED
      BY <2>2, <3>1 DEF checkVersion
  <2> QED
    BY <2>1, <2>2
\* Before the last of the two, and before the other
<1>17. ASSUME pass, name
       PROVE  Filled(packet, 6 + wills) /\ (Filled(packet, 7 + wills) <=> nw > 0)
  <2> DEFINE k == Len(fields)
             j == k - 1
  <2>1. k = 7 + wills /\ j = 6 + wills /\ j \in 1..k /\ k \in 1..k /\ k >= 2
        /\ 6 + wills + names = 7 + wills
    BY <1>8, <1>11, <1>17
  <2>2. fields[k] = w /\ fields[j] = u
    BY <1>8, <1>17, <2>1
  <2>3. Left(packet, k) = Size(fields[k]) /\ Left(packet, j) = Size(fields[k]) + Size(fields[j])
    BY <1>2, <1>8, <2>1, LastLeft
  <2> HIDE DEF k, j
  <2>4. Size(w) >= 2 /\ Size(u) >= 2 /\ (Size(w) >= 3 <=> nw > 0) /\ Size(w) + Size(u) >= 3
    BY <1>7
  <2>5. Readable(packet, k) /\ Readable(packet, j)
    <3>1. Size(fields[k]) >= 2 /\ Size(fields[j]) >= 2
      BY <2>2, <2>4, Zenon
    <3>2. k \in 1..Len(fields) /\ j \in 1..Len(fields)
      BY <2>1 DEF k
    <3> QED
      BY <1>2, <1>8, <3>1, <3>2, TextReadable, Zenon
  <2>6. Filled(packet, j) /\ (Filled(packet, k) <=> nw > 0)
    BY <2>2, <2>3, <2>4, <2>5, Zenon DEF Filled
  <2> QED
    BY <2>1, <2>6, Zenon
<1>18. ASSUME ~pass, name
       PROVE  Filled(packet, 6 + wills) <=> nu > 0
  <2> DEFINE k == Len(fields)
  <2>1. k = 6 + wills /\ k \in 1..k /\ k >= 2
    BY <1>8, <1>11, <1>18
  <2>2. fields[k] = u
    BY <1>8, <1>18, <2>1
  <2>3. Left(packet, k) = Size(fields[k])
    BY <1>2, <1>8, <2>1, LastLeft
  <2> HIDE DEF k
  <2>4. Size(u) >= 2 /\ (Size(u) >= 3 <=> nu > 0)
    BY <1>7
  <2>5. Readable(packet, k)
    <3>1. Size(fields[k]) >= 2
      BY <2>2, <2>4, Zenon
    <3>2. k \in 1..Len(fields)
      BY <2>1 DEF k
    <3> QED
      BY <1>2, <1>8, <3>1, <3>2, TextReadable, Zenon
  <2>6. Filled(packet, k) <=> nu > 0
    BY <2>2, <2>3, <2>4, <2>5, Zenon DEF Filled
  <2> QED
    BY <2>1, <2>6, Zenon
<1>19. Acceptable(given) <=> /\ given.version = 4
                             /\ pass => name
                             /\ pass => nw > 0
                             /\ ~pass /\ name => nu > 0
  <2> DEFINE both == ConnectNames(given)
             filled == MQTTstrlen(Last(both)) > 0
  <2>1. /\ pass => both # <<>> /\ Last(both) = given.password
        /\ name /\ ~pass => both # <<>> /\ Last(both) = given.username
        /\ ~name /\ ~pass => both = <<>>
    BY NamesAre, Zenon DEF pass, name
  <2>2. Acceptable(given) <=> given.version = 4 /\ (pass => name) /\ (both # <<>> => filled)
    BY Zenon DEF Acceptable, pass, name
  <2> HIDE DEF both
  <2>3. CASE pass
    <3>1. filled <=> nw > 0
      BY <2>1, <2>3, Zenon DEF nw
    <3> QED
      BY <2>1, <2>2, <2>3, <3>1, Zenon
  <2>4. CASE ~pass /\ name
    <3>1. filled <=> nu > 0
      BY <2>1, <2>4, Zenon DEF nu
    <3> QED
      BY <2>1, <2>2, <2>4, <3>1, Zenon
  <2>5. CASE ~pass /\ ~name
    BY <2>1, <2>2, <2>5, Zenon
  <2> QED
    BY <2>3, <2>4, <2>5, Zenon
<1>20. ok <=> Acceptable(given)
  <2>1. CASE pass /\ name
    BY <1>14, <1>15, <1>16, <1>17, <1>19, <2>1, Zenon
  <2>2. CASE pass /\ ~name
    BY <1>19, <2>2, Zenon
  <2>3. CASE ~pass /\ name
    BY <1>14, <1>15, <1>16, <1>18, <1>19, <2>3, Zenon
  <2>4. CASE ~pass /\ ~name
    BY <1>14, <1>15, <1>16, <1>19, <2>4, Zenon
  <2> QED
    BY <2>1, <2>2, <2>3, <2>4, Zenon
<1> HIDE DEF ok
<1>21. NoData.rc = 0
  BY DEF NoData
<1> QED
  BY <1>12, <1>13, <1>20, <1>21, Zenon DEF strings, flags

\* What was received is what a deserialiser makes of what was written
ArriveIInv == ExchIInv /\ (received = Unread \/ Read)

LEMMA WhatIsRead == Read => PacketsArrive
<1> SUFFICES ASSUME Read
             PROVE  PacketsArrive
  OBVIOUS
<1>1. given \in Requests
  BY Zenon DEF Read
<1>2. PublishArrives
  <2> SUFFICES ASSUME given.op = "PUBLISH"
               PROVE  received = [rc |-> 1,
                                  header |-> Header("PUBLISH", given.dup, given.qos, given.retained),
                                  topic |-> Contents(given.topic),
                                  id |-> IF given.qos > 0 THEN given.id ELSE 0,
                                  payload |-> given.payload, payloadlen |-> StringLen[given.payload]]
    BY Zenon DEF PublishArrives
  <2>1. given.topic \in MQTTStrings /\ given.payload \in Strings /\ given.qos \in 0..2
    BY <1>1, RequestsAre, Zenon
  <2> QED
    BY <2>1, PublishIsRead, Zenon
<1>3. ConnectArrives
  <2>1. CASE given.op = "CONNECT"
    <3>1. /\ given.version \in {3, 4} /\ given.will \in BOOLEAN
          /\ given.clientID \in MQTTStrings /\ given.topic \in MQTTStrings
          /\ given.message \in MQTTStrings /\ given.username \in MQTTStrings
          /\ given.password \in MQTTStrings
      BY <1>1, <2>1, RequestsAre, Zenon
    <3> QED
      BY <2>1, <3>1, ConnectIsRead, Zenon
         DEF ConnectArrives, Acceptable, ConnectNames, ConnectStrings, When
  <2>2. CASE given.op # "CONNECT"
    BY <2>2, Zenon DEF ConnectArrives
  <2> QED
    BY <2>1, <2>2
<1>4. OthersArrive
  <2>1. CASE given.op = "SUBSCRIBE"
    <3>1. /\ given.filters \in Seq(MQTTStrings) /\ given.qoss \in Seq(0..2)
          /\ Len(given.qoss) = Len(given.filters)
      BY <1>1, <2>1, RequestsAre
    <3>2. /\ received.rc = 1 /\ received.id = given.id /\ received.dup = given.dup
          /\ received.filters = [n \in DOMAIN given.filters |-> Contents(given.filters[n])]
          /\ received.qoss = given.qoss
      BY <2>1, <3>1, SubscribeArrives, Zenon
    <3>3. given.op \in {"SUBSCRIBE", "UNSUBSCRIBE"}
      BY <2>1
    <3> QED
      BY <2>1, <3>2, <3>3 DEF OthersArrive
  <2>2. CASE given.op = "UNSUBSCRIBE"
    <3>1. given.filters \in Seq(MQTTStrings)
      BY <1>1, <2>2, RequestsAre
    <3>2. /\ received.rc = 1 /\ received.id = given.id /\ received.dup = given.dup
          /\ received.filters = [n \in DOMAIN given.filters |-> Contents(given.filters[n])]
      BY <2>2, <3>1, UnsubscribeArrives, Zenon
    <3> QED
      BY <2>2, <3>2 DEF OthersArrive
  <2>3. CASE given.op \in {"ACK", "UNSUBACK"}
    <3>1. /\ received.rc = 1 /\ received.id = given.id
          /\ given.op = "ACK" => /\ received.header.type = given.type
                                 /\ received.header.dup = given.dup
      BY <2>3, AckArrives, Zenon
    <3> QED
      BY <2>3, <3>1 DEF OthersArrive
  <2>4. CASE given.op = "CONNACK"
    <3>1. received = [rc |-> 1, present |-> given.present, code |-> given.code]
      BY <2>4, ConnackArrives, Zenon
    <3> QED
      BY <2>4, <3>1 DEF OthersArrive
  <2>5. CASE given.op = "SUBACK"
    <3>1. given.granted \in Seq(0..255) /\ given.maxcount \in Nat
      BY <1>1, <2>5, RequestsAre
    <3>2. Len(given.granted) <= given.maxcount =>
              received = [rc |-> 1, id |-> given.id, granted |-> given.granted]
      BY <2>5, <3>1, SubackArrives, Zenon
    <3> QED
      BY <2>5, <3>2 DEF OthersArrive
  <2>6. CASE given.op \in {"CONNECT", "PUBLISH", "ZERO"}
    BY <2>6 DEF OthersArrive
  <2> QED
    BY <1>1, <2>1, <2>2, <2>3, <2>4, <2>5, <2>6, RequestsAre
<1> QED
  BY <1>2, <1>3, <1>4, Zenon DEF PacketsArrive

\* Whatever is written, with fields and lists of whatever lengths, the library's other
\* half reads from it, and refuses just the CONNECTs it cannot tell.
THEOREM PacketsAreRead == ExchangeSpec => []PacketsArrive
<1>1. ExchangeInit => ArriveIInv
  BY Zenon DEF ExchangeInit, ExchIInv, ArriveIInv
<1>2. ArriveIInv /\ [ExchangeNext]_exchangeVars => ArriveIInv'
  <2> SUFFICES ASSUME ArriveIInv, [ExchangeNext]_exchangeVars
               PROVE  ArriveIInv'
    OBVIOUS
  <2>1. ExchIInv /\ (received = Unread \/ Read)
    BY Zenon DEF ArriveIInv
  <2>2. ExchIInv'
    BY <2>1, ExchangeStepsKeep, Zenon
  <2>3. (received = Unread \/ Read)'
    <3>1. CASE \E p \in Requests : Sends(p)
      <4>1. received' = Unread
        BY <3>1, Zenon DEF Sends
      <4>2. Unread' = Unread
        BY DEF Unread
      <4> QED
        BY <4>1, <4>2, Zenon
    <3>2. CASE Receives
      <4>1. /\ result.rc > 0 /\ given.op # "ZERO" /\ received' = Deserialize(result.packet, given)
            /\ given' = given /\ buffer_size' = buffer_size /\ result' = result
        BY <3>2 DEF Receives
      <4>2. ~(Refused.rc > 0)
        BY DEF Refused, TOO_SHORT
      <4>3. given \in Requests /\ buffer_size \in Int /\ result = Serialize(buffer_size, given)
        BY <2>1, <4>1, <4>2, Zenon DEF ExchIInv
      <4> QED
        BY <4>1, <4>3, Zenon DEF Read
    <3>3. CASE UNCHANGED exchangeVars
      <4>1. given' = given /\ buffer_size' = buffer_size /\ result' = result /\ received' = received
        BY <3>3 DEF exchangeVars
      <4>2. Unread' = Unread
        BY DEF Unread
      <4> QED
        BY <2>1, <4>1, <4>2, Zenon DEF Read
    <3> QED
      BY <3>1, <3>2, <3>3, Zenon DEF ExchangeNext
  <2> QED
    BY <2>2, <2>3, Zenon DEF ArriveIInv
<1>3. ArriveIInv => PacketsArrive
  <2>1. CASE received = Unread
    BY <2>1, Zenon DEF PacketsArrive, PublishArrives, OthersArrive, ConnectArrives
  <2>2. CASE Read
    BY <2>2, WhatIsRead, Zenon
  <2> QED
    BY <2>1, <2>2, Zenon DEF ArriveIInv
<1> QED
  BY <1>1, <1>2, <1>3, PTL DEF ExchangeSpec

=============================================================================
