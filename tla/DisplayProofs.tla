---------------------------- MODULE DisplayProofs -----------------------------
(***************************************************************************)
(* Theorems about the display, for every size of screen, picture, font and *)
(* log: what is drawn is its geometry (ShapesAreRight), the log holds the  *)
(* last of what was written and is drawn in full (LogIsRight), and the     *)
(* panel shows the buffer after display() (PanelIsRight).                  *)
(*                                                                         *)
(* The algorithms that walk (a line, a circle, a text, the log) are        *)
(* recursive functions.  A first part shows that they are defined          *)
(* (Recursion, RecursionIn, Combine) and what an invariant of their steps   *)
(* gives (Upwards).  The parts that follow are, in this order:             *)
(*   straight lines and images, cut into pages of eight rows;              *)
(*   Bresenham's line (Slope, SlopingIs) and the octants of a circle;      *)
(*   sequences that are counted and kept element by element, texts, the    *)
(*   wrapping of a text (WrapsRight) and its characters;                   *)
(*   what every shape draws, and ShapesAreRight;                           *)
(*   the log: characters, several bytes of one, the text (Newest), its     *)
(*   lines (SplitIs) and their places on the screen, and LogIsRight;       *)
(*   the panel, and PanelIsRight.                                          *)
(***************************************************************************)
EXTENDS Display, FiniteSetTheorems, WellFoundedInduction, TLAPS

\* Some number is the least of a set of numbers.
LEMMA LeastNumber ==
    ASSUME NEW T \in SUBSET Nat, T # {}
    PROVE  \E n \in T : \A m \in T : n <= m
<1> DEFINE R == {ss \in Nat \X Nat : ss[1] < ss[2]}
<1>1. IsWellFoundedOn(R, Nat)
  BY NatLessThanWellFounded DEF OpToRel
<1>2. PICK n \in T : \A m \in T : ~(<<m, n>> \in R)
  <2> HIDE DEF R
  <2> QED
    BY <1>1, WFMin
<1>3. \A m \in T : m \in Nat /\ n \in Nat
  OBVIOUS
<1>4. \A m \in T : ~(m < n)
  BY <1>2, <1>3
<1> QED
  BY <1>3, <1>4

\* What holds of 0 and goes over from each number to the next holds of all: T is the
\* set of those of which it holds.
LEMMA Induction ==
    ASSUME NEW T, 0 \in T, \A n \in Nat : n \in T => n + 1 \in T
    PROVE  \A n \in Nat : n \in T
<1> DEFINE B == Nat \ T
<1>1. SUFFICES ASSUME B # {} PROVE FALSE
  OBVIOUS
<1>2. PICK n \in B : \A m \in B : n <= m
  <2> HIDE DEF B
  <2>1. B \in SUBSET Nat
    BY DEF B
  <2> QED
    BY <2>1, <1>1, LeastNumber
<1>3. n # 0 /\ n - 1 \in Nat
  OBVIOUS
<1>4. n - 1 \in T
  BY <1>2, <1>3
<1> QED
  BY <1>3, <1>4

\* The same up to a bound.
LEMMA Upwards ==
    ASSUME NEW T, NEW k \in Nat, 0 \in T, \A n \in 1..k : n - 1 \in T => n \in T
    PROVE  \A n \in 0..k : n \in T
<1> DEFINE U == {n \in Nat : n <= k => n \in T}
<1>1. 0 \in U
  OBVIOUS
<1>2. ASSUME NEW n \in Nat, n \in U
      PROVE  n + 1 \in U
  <2>1. CASE n + 1 <= k
    <3>1. n + 1 \in 1..k /\ (n + 1) - 1 = n /\ n <= k
      BY <2>1
    <3>2. n \in T
      BY <1>2, <3>1
    <3>3. n + 1 \in T
      BY <3>1, <3>2
    <3> QED
      BY <3>3
  <2> QED
    BY <2>1
<1>3. \A n \in Nat : n \in U
  <2> HIDE DEF U
  <2> QED
    BY <1>1, <1>2, Induction
<1> QED
  BY <1>3

\* A function that begins with a and goes on from each value to the next by G: there
\* is one.
Recurs(f, S, a, k, G) ==
    /\ f \in [0..k -> S]
    /\ f[0] = a
    /\ \A n \in 1..k : f[n] = G[n][f[n - 1]]

LEMMA Recursion ==
    ASSUME NEW S, NEW a \in S, NEW k \in Nat, NEW G \in [1..k -> [S -> S]]
    PROVE  \E f : Recurs(f, S, a, k, G)
<1> DEFINE Goes(f, m) == f[0] = a /\ \A n \in 1..m : f[n] = G[n][f[n - 1]]
           T == {m \in 0..k : \E f \in [0..m -> S] : Goes(f, m)}
<1>1. 0 \in T
  <2> DEFINE h == [n \in 0..0 |-> a]
  <2>1. h \in [0..0 -> S] /\ h[0] = a /\ 1..0 = {}
    OBVIOUS
  <2> HIDE DEF h
  <2>2. Goes(h, 0)
    BY <2>1
  <2>3. \E f \in [0..0 -> S] : Goes(f, 0)
    BY <2>1, <2>2, Zenon
  <2> QED
    BY <2>3
<1>2. ASSUME NEW m \in 1..k, m - 1 \in T
      PROVE  m \in T
  <2>1. PICK f \in [0..m - 1 -> S] : Goes(f, m - 1)
    BY <1>2
  <2> DEFINE g == [n \in 0..m |-> IF n = m THEN G[m][f[m - 1]] ELSE f[n]]
  <2>2. G[m] \in [S -> S] /\ f[m - 1] \in S
    OBVIOUS
  <2>3. g \in [0..m -> S]
    <3>1. ASSUME NEW n \in 0..m
          PROVE  (IF n = m THEN G[m][f[m - 1]] ELSE f[n]) \in S
      BY <2>2
    <3> QED
      BY <3>1
  <2>4. g[0] = a
    BY <2>1
  <2>5. ASSUME NEW n \in 1..m
        PROVE  g[n] = G[n][g[n - 1]]
    <3>1. g[n - 1] = f[n - 1]
      OBVIOUS
    <3>2. CASE n = m
      BY <3>1, <3>2
    <3>3. CASE n # m
      BY <2>1, <3>1, <3>3
    <3> QED
      BY <3>2, <3>3
  <2> HIDE DEF g
  <2>6. Goes(g, m)
    BY <2>4, <2>5
  <2>7. \E h \in [0..m -> S] : Goes(h, m)
    BY <2>3, <2>6, Zenon
  <2> QED
    BY <2>7, SMTT(30)
<1>3. \A m \in 0..k : m \in T
  <2> HIDE DEF T
  <2> QED
    BY <1>1, <1>2, Upwards
<1>4. PICK f \in [0..k -> S] : Goes(f, k)
  BY <1>3
<1>5. Recurs(f, S, a, k, G)
  BY <1>4 DEF Recurs
<1> QED
  BY <1>5, Zenon

\* What is in two sequences, one after the other.
LEMMA JoinRange ==
    ASSUME NEW S, NEW s \in Seq(S), NEW t \in Seq(S)
    PROVE  Range(s \o t) = Range(s) \union Range(t)
<1>1. /\ DOMAIN s = 1..Len(s) /\ DOMAIN t = 1..Len(t) /\ Len(s) \in Nat /\ Len(t) \in Nat
      /\ DOMAIN (s \o t) = 1..Len(s) + Len(t)
  OBVIOUS
<1>2. ASSUME NEW i \in 1..Len(s) + Len(t)
      PROVE  (s \o t)[i] = IF i <= Len(s) THEN s[i] ELSE t[i - Len(s)]
  OBVIOUS
<1>3. ASSUME NEW v, v \in Range(s \o t)
      PROVE  v \in Range(s) \/ v \in Range(t)
  <2>1. PICK i \in DOMAIN (s \o t) : (s \o t)[i] = v
    BY <1>3, Zenon DEF Range
  <2>2. CASE i <= Len(s)
    BY <1>1, <1>2, <2>1, <2>2 DEF Range
  <2>3. CASE i > Len(s)
    <3>1. i - Len(s) \in DOMAIN t /\ t[i - Len(s)] = v
      BY <1>1, <1>2, <2>1, <2>3
    <3> QED
      BY <3>1, Zenon DEF Range
  <2> QED
    BY <1>1, <2>1, <2>2, <2>3
<1>4. ASSUME NEW v, v \in Range(s)
      PROVE  v \in Range(s \o t)
  <2>1. PICK j \in DOMAIN s : s[j] = v
    BY <1>4, Zenon DEF Range
  <2>2. j \in DOMAIN (s \o t) /\ (s \o t)[j] = v
    BY <1>1, <1>2, <2>1
  <2> QED
    BY <2>2, Zenon DEF Range
<1>5. ASSUME NEW v, v \in Range(t)
      PROVE  v \in Range(s \o t)
  <2>1. PICK j \in DOMAIN t : t[j] = v
    BY <1>5, Zenon DEF Range
  <2>2. j + Len(s) \in DOMAIN (s \o t) /\ (s \o t)[j + Len(s)] = v
    BY <1>1, <1>2, <2>1
  <2> QED
    BY <2>2, Zenon DEF Range
<1> QED
  BY <1>3, <1>4, <1>5, Zenon

\* The sequences of a sequence, one after the other.
LEMMA JoinsEquation ==
    ASSUME NEW S, NEW f \in Seq(Seq(S))
    PROVE  /\ Joins(f)[0] = <<>>
           /\ \A n \in 1..Len(f) : Joins(f)[n] = Joins(f)[n - 1] \o f[n]
           /\ \A n \in 0..Len(f) : Joins(f)[n] \in Seq(S)
<1> DEFINE V == Seq(S)
           k == Len(f)
           e == <<>>
           G == [n \in 1..k |-> [x \in V |-> x \o f[n]]]
           h(g) == [n \in 0..k |-> IF n = 0 THEN e ELSE g[n - 1] \o f[n]]
           J == Joins(f)
<1>1. k \in Nat /\ e \in V /\ \A n \in 1..k : f[n] \in V
  OBVIOUS
<1>2. \A x, y \in V : x \o y \in V
  OBVIOUS
<1>3. J = CHOOSE g : g = h(g)
  BY DEF Joins
<1> HIDE DEF V, k, e, J
<1>4. \A n \in 1..k : n \in 0..k /\ n - 1 \in 0..k /\ n # 0
  BY <1>1
<1>5. 0 \in 0..k
  BY <1>1
<1>6. G \in [1..k -> [V -> V]]
  BY <1>1, <1>2, Zenon
<1>7. PICK g : Recurs(g, V, e, k, G)
  <2> HIDE DEF G
  <2> QED
    BY <1>1, <1>6, Recursion, Zenon
<1>8. ASSUME NEW n \in 1..k
      PROVE  g[n] = g[n - 1] \o f[n]
  <2>1. g[n - 1] \in V /\ g[n] = G[n][g[n - 1]]
    <3> HIDE DEF G
    <3> QED
      BY <1>4, <1>7, Zenon DEF Recurs
  <2> QED
    BY <2>1, Zenon
<1> HIDE DEF G
<1>9. g = h(g)
  <2>1. \A n \in 0..k : g[n] = IF n = 0 THEN e ELSE g[n - 1] \o f[n]
    <3>1. g[0] = e
      BY <1>7, Zenon DEF Recurs
    <3>2. \A n \in 0..k : n # 0 => n \in 1..k
      BY <1>1
    <3> QED
      BY <1>8, <3>1, <3>2, Zenon
  <2>2. g \in [0..k -> V]
    BY <1>7, Zenon DEF Recurs
  <2> QED
    BY <2>1, <2>2, Zenon
<1>10. J = h(J)
  <2> HIDE DEF h
  <2> QED
    BY <1>3, <1>9, Zenon
<1>11. \A n \in 0..k : J[n] = IF n = 0 THEN e ELSE J[n - 1] \o f[n]
  <2>1. \A n \in 0..k : h(J)[n] = IF n = 0 THEN e ELSE J[n - 1] \o f[n]
    BY Zenon
  <2> HIDE DEF h
  <2> QED
    BY <1>10, <2>1, Zenon
<1>12. J[0] = e /\ \A n \in 1..k : J[n] = J[n - 1] \o f[n]
  BY <1>4, <1>5, <1>11, Zenon
<1>13. \A n \in 0..k : J[n] \in V
  <2> DEFINE T == {n \in 0..k : J[n] \in V}
  <2>1. 0 \in T
    BY <1>1, <1>5, <1>12, Zenon
  <2>2. ASSUME NEW n \in 1..k, n - 1 \in T
        PROVE  n \in T
    <3>1. J[n - 1] \o f[n] \in V
      BY <1>1, <1>2, <2>2, Zenon
    <3> QED
      BY <1>4, <1>12, <3>1, Zenon
  <2>3. \A n \in 0..k : n \in T
    <3> HIDE DEF T
    <3> QED
      BY <1>1, <2>1, <2>2, Upwards, Zenon
  <2> QED
    BY <2>3, Zenon
<1> QED
  BY <1>12, <1>13, Zenon DEF V, k, e, J

\* The sequences of a sequence have between them what is in all of them together.
LEMMA JoinedRange ==
    ASSUME NEW S, NEW f \in Seq(Seq(S))
    PROVE  /\ Joined(f) \in Seq(S)
           /\ \A v : v \in Range(Joined(f)) <=> \E n \in DOMAIN f : v \in Range(f[n])
<1> DEFINE V == Seq(S)
           k == Len(f)
           J == Joins(f)
           T == {n \in 0..k : \A v : v \in Range(J[n]) <=> \E m \in 1..n : v \in Range(f[m])}
<1>1. k \in Nat /\ DOMAIN f = 1..k /\ \A n \in 1..k : f[n] \in V
  OBVIOUS
<1>2. /\ J[0] = <<>>
      /\ \A n \in 1..k : J[n] = J[n - 1] \o f[n]
      /\ \A n \in 0..k : J[n] \in V
  BY JoinsEquation, Zenon
<1>3. Joined(f) = J[k]
  BY DEF Joined
<1>4. \A s, t \in V : Range(s \o t) = Range(s) \union Range(t)
  BY JoinRange, Zenon
<1>5. J[0] = <<>> => ~\E v : v \in Range(J[0])
  BY DEF Range
<1>6. \A n \in V : n \in Seq(S)
  OBVIOUS
<1> HIDE DEF J, V, k
<1>7. 0 \in T
  <2>1. 0 \in 0..k /\ ~\E m \in 1..0 : TRUE
    BY <1>1
  <2> QED
    BY <1>2, <1>5, <2>1, Zenon
<1>8. ASSUME NEW n \in 1..k, n - 1 \in T
      PROVE  n \in T
  <2>1. n - 1 \in 0..k /\ n \in 0..k
    BY <1>1
  <2>2. Range(J[n]) = Range(J[n - 1]) \union Range(f[n])
    BY <1>1, <1>2, <1>4, <2>1, ZenonT(60)
  <2>3. \A v : v \in Range(J[n - 1]) <=> \E m \in 1..n - 1 : v \in Range(f[m])
    BY <1>8, Zenon
  <2>4. /\ \A m \in 1..n : m \in 1..n - 1 \/ m = n
        /\ \A m \in 1..n - 1 : m \in 1..n
        /\ n \in 1..n
    BY <1>1
  <2>5. \A v : v \in Range(J[n]) <=> \E m \in 1..n : v \in Range(f[m])
    BY <2>2, <2>3, <2>4, Zenon
  <2> QED
    BY <2>1, <2>5, Zenon
<1>9. k \in T
  <2>1. \A n \in 0..k : n \in T
    <3> HIDE DEF T
    <3> QED
      BY <1>1, <1>7, <1>8, Upwards, Zenon
  <2>2. k \in 0..k
    BY <1>1
  <2> QED
    BY <2>1, <2>2, Zenon
<1>10. J[k] \in V
  BY <1>9, <1>2, Zenon
<1> QED
  BY <1>1, <1>3, <1>6, <1>9, <1>10, Zenon

-----------------------------------------------------------------------------
(* What is painted *)

\* The strokes cover the pixels of the screen that are in the set, and, if the colour
\* turns pixels over, no pixel twice.
Covers(strokes, pixels) ==
    \A p \in Screen : p \in pixels <=> \E n \in DOMAIN strokes : p \in strokes[n]
Once(color, strokes) ==
    \/ color # "INVERSE"
    \/ \A p \in Screen : \A n, m \in DOMAIN strokes :
          p \in strokes[n] /\ p \in strokes[m] => n = m

LEMMA PaintedTogether ==
    ASSUME NEW b \in SUBSET Screen, NEW color \in Colors, NEW strokes, NEW pixels,
           Covers(strokes, pixels), Once(color, strokes)
    PROVE  Painted(b, color, strokes) = Painted(b, color, << pixels >>)
<1> DEFINE one == << pixels >>
           times(p)  == {n \in DOMAIN strokes : p \in strokes[n]}
           single(p) == {n \in DOMAIN one : p \in one[n]}
<1>1. DOMAIN one = {1} /\ one[1] = pixels
  OBVIOUS
<1>2. ASSUME NEW p \in Screen
      PROVE  times(p) = {} <=> single(p) = {}
  BY <1>1, Zenon DEF Covers
<1>3. ASSUME NEW p \in Screen, color = "INVERSE"
      PROVE  Cardinality(times(p)) = Cardinality(single(p))
  <2>1. CASE times(p) = {}
    BY <1>2, <2>1, Zenon
  <2>2. CASE times(p) # {}
    <3>1. PICK n : n \in times(p)
      BY <2>2, Zenon
    <3>2. times(p) = {n}
      BY <1>3, <3>1, Zenon DEF Once
    <3>3. single(p) = {1}
      BY <1>1, <1>2, <2>2, Zenon
    <3> HIDE DEF times, single
    <3> QED
      BY <3>2, <3>3, FS_Singleton, Zenon
  <2> QED
    BY <2>1, <2>2, Zenon
<1>4. /\ color = "WHITE" => /\ Painted(b, color, strokes) = b \union {p \in Screen : times(p) # {}}
                            /\ Painted(b, color, one) = b \union {p \in Screen : single(p) # {}}
      /\ color = "BLACK" => /\ Painted(b, color, strokes) = {p \in b : times(p) = {}}
                            /\ Painted(b, color, one) = {p \in b : single(p) = {}}
      /\ color = "INVERSE" =>
            /\ Painted(b, color, strokes)
               = {p \in Screen : (p \in b) # (Cardinality(times(p)) % 2 = 1)}
            /\ Painted(b, color, one)
               = {p \in Screen : (p \in b) # (Cardinality(single(p)) % 2 = 1)}
  BY DEF Painted
<1>5. color = "WHITE" \/ color = "BLACK" \/ color = "INVERSE"
  BY DEF Colors
<1> HIDE DEF one, times, single
<1>6. CASE color = "WHITE"
  <2>1. {p \in Screen : times(p) # {}} = {p \in Screen : single(p) # {}}
    BY <1>2, Zenon
  <2> QED
    BY <1>4, <1>6, <2>1, Zenon DEF one
<1>7. CASE color = "BLACK"
  <2>1. {p \in b : times(p) = {}} = {p \in b : single(p) = {}}
    BY <1>2, Zenon
  <2> QED
    BY <1>4, <1>7, <2>1, Zenon DEF one
<1>8. CASE color = "INVERSE"
  <2>1. {p \in Screen : (p \in b) # (Cardinality(times(p)) % 2 = 1)}
        = {p \in Screen : (p \in b) # (Cardinality(single(p)) % 2 = 1)}
    BY <1>3, <1>8, Zenon
  <2> QED
    BY <1>4, <1>8, <2>1, Zenon DEF one
<1> QED
  BY <1>5, <1>6, <1>7, <1>8, Zenon

\* Only what is on the screen counts.
LEMMA PaintedOnTheScreen ==
    ASSUME NEW b \in SUBSET Screen, NEW color \in Colors, NEW pixels, NEW others,
           \A p \in Screen : p \in pixels <=> p \in others
    PROVE  Painted(b, color, << pixels >>) = Painted(b, color, << others >>)
<1> DEFINE one == << pixels >>
<1>1. DOMAIN one = {1} /\ one[1] = pixels
  OBVIOUS
<1> HIDE DEF one
<1>2. Covers(one, others)
  BY <1>1, Zenon DEF Covers
<1>3. Once(color, one)
  BY <1>1, Zenon DEF Once
<1>4. Painted(b, color, one) = Painted(b, color, << others >>)
  BY <1>2, <1>3, PaintedTogether, Zenon
<1> QED
  BY <1>4, Zenon DEF one

-----------------------------------------------------------------------------
(* Straight lines *)

Inside(x, y, w, h) == {p \in Screen : /\ x <= p[1] /\ p[1] < x + w
                                      /\ y <= p[2] /\ p[2] < y + h}

LEMMA ScreenSize ==
    /\ Width \in Nat /\ Height \in Nat /\ Height % 8 = 0
    /\ \A p \in Screen : p[1] \in 0..Width - 1 /\ p[2] \in 0..Height - 1 /\ p = <<p[1], p[2]>>
    /\ \A c \in 0..Width - 1, r \in 0..Height - 1 : <<c, r>> \in Screen
BY DisplayAssumption DEF Screen, Columns, Rows

\* A horizontal line sets the pixels of the screen that lie in it.
LEMMA HorizontalLineIs ==
    ASSUME NEW x \in Int, NEW y \in Int, NEW length \in Int
    PROVE  HorizontalLine(x, y, length) = Inside(x, y, length, 1)
<1> DEFINE from == AtLeast(x, 0)
           len  == AtMost(length + AtMost(x, 0), Width - from)
           H    == HorizontalLine(x, y, length)
<1>1. from \in Int /\ len \in Int
  BY ScreenSize DEF AtLeast, AtMost
<1>2. H = IF y \in 0..Height - 1 THEN (from..from + len - 1) \X {y} ELSE {}
  BY DEF HorizontalLine, Rows
<1>3. \A c \in Int : c \in from..from + len - 1 <=> c \in 0..Width - 1 /\ x <= c /\ c < x + length
  BY ScreenSize DEF AtLeast, AtMost
<1> HIDE DEF from, len
<1>4. ASSUME NEW p \in H
      PROVE  p \in Inside(x, y, length, 1)
  <2>1. y \in 0..Height - 1 /\ p \in (from..from + len - 1) \X {y}
    BY <1>2, <1>4
  <2>2. p = <<p[1], y>> /\ p[1] \in from..from + len - 1 /\ p[2] = y
    BY <2>1
  <2>3. p[1] \in 0..Width - 1 /\ x <= p[1] /\ p[1] < x + length
    BY <1>1, <1>3, <2>2
  <2>4. p \in Screen
    BY <2>1, <2>2, <2>3, ScreenSize
  <2>5. y <= p[2] /\ p[2] < y + 1
    BY <2>2
  <2> QED
    BY <2>3, <2>4, <2>5 DEF Inside
<1>5. ASSUME NEW p \in Inside(x, y, length, 1)
      PROVE  p \in H
  <2>1. /\ p[1] \in 0..Width - 1 /\ p[2] \in 0..Height - 1 /\ p = <<p[1], p[2]>>
        /\ x <= p[1] /\ p[1] < x + length /\ y <= p[2] /\ p[2] < y + 1
    BY <1>5, ScreenSize DEF Inside
  <2>2. p[2] = y /\ p[1] \in from..from + len - 1
    BY <1>3, <2>1
  <2>3. p \in (from..from + len - 1) \X {y} /\ y \in 0..Height - 1
    BY <2>1, <2>2
  <2> QED
    BY <1>2, <2>3
<1> QED
  BY <1>4, <1>5

LEMMA ByEight ==
    ASSUME NEW n \in Int
    PROVE  n \div 8 \in Int /\ n % 8 \in 0..7 /\ n = 8 * (n \div 8) + (n % 8)
OBVIOUS

LEMMA Eighth ==
    ASSUME NEW n \in Int, NEW q \in Int, NEW m \in 0..7, n = 8 * q + m
    PROVE  n \div 8 = q /\ n % 8 = m
<1>1. n \div 8 \in Int /\ n % 8 \in 0..7 /\ n = 8 * (n \div 8) + (n % 8)
  BY ByEight
<1> DEFINE a == n \div 8
           b == n % 8
<1> HIDE DEF a, b
<1>2. a \in Int /\ b \in 0..7 /\ n = 8 * a + b
  BY <1>1 DEF a, b
<1>3. a = q /\ b = m
  BY <1>2
<1> QED
  BY <1>3 DEF a, b

\* Pages and what is left of them at both ends.
InPages(q, page, whole) == q >= page /\ q < page + whole
InRows(r, first, rows)  == r >= first /\ r < first + rows
InPart(r, from, head, middle, more) ==
    \/ r \in from..from + head - 1
    \/ InRows(r, from + head, middle)
    \/ r \in from + head + middle..from + head + middle + more - 1

\* The rows that a column's bytes cover
InBytes(r, from, len, head, rest) ==
    IF rest <= 0 THEN r \in from..from + AtMost(len, head) - 1
    ELSE \/ r \in from..from + AtMost(len, head) - 1
         \/ /\ Page(r) >= Page(from + head)
            /\ Page(r) < Page(from + head) + rest \div 8
         \/ r \in 8 * (Page(from + head) + rest \div 8)
                  ..8 * (Page(from + head) + rest \div 8) + (rest % 8) - 1

LEMMA InEights ==
    ASSUME NEW q \in Int, NEW m \in 0..7, NEW page \in Int, NEW whole \in Int
    PROVE  InPages(q, page, whole) <=> InRows(8 * q + m, 8 * page, 8 * whole)
BY DEF InPages, InRows

LEMMA ThreeParts ==
    ASSUME NEW r \in Int, NEW from \in Int, NEW head \in Nat, NEW middle \in Nat,
           NEW more \in Nat, NEW len \in Int, len = head + middle + more
    PROVE  r \in from..from + len - 1 <=> InPart(r, from, head, middle, more)
BY DEF InPart, InRows

\* So does a vertical one, although it is written in bytes of eight rows.
\* What is left of a column on the screen: where it begins, its length, the rows up to
\* the first page that is whole, and the others
Cut(y, length, from, len, head, rest) ==
    /\ from = AtLeast(y, 0)
    /\ len = AtMost(length + AtMost(y, 0), Height - from)
    /\ head = IF from % 8 = 0 THEN 0 ELSE 8 - (from % 8)
    /\ rest = len - head
OnScreen(r, y, length) == r \in 0..Height - 1 /\ InRows(r, y, length)

LEMMA VerticalRows ==
    ASSUME NEW y \in Int, NEW length \in Int, NEW from \in Int, NEW len \in Int,
           NEW head \in Int, NEW rest \in Int, Cut(y, length, from, len, head, rest),
           len > 0, NEW r \in Int
    PROVE  InBytes(r, from, len, head, rest) <=> OnScreen(r, y, length)
<1> DEFINE start == 8 * (Page(from + head) + rest \div 8)
<1>1. from \in Nat /\ len \in Int /\ Height \in Nat /\ rest = len - head
  BY DisplayAssumption DEF AtLeast, AtMost, Cut
<1>2. head \in 0..7 /\ (from + head) % 8 = 0
  <2>1. head = IF from % 8 = 0 THEN 0 ELSE 8 - (from % 8)
    BY DEF Cut
  <2>2. from \div 8 \in Int /\ from % 8 \in 0..7 /\ from = 8 * (from \div 8) + (from % 8)
    BY ByEight
  <2>3. CASE from % 8 = 0
    <3>1. head = 0
      BY <2>1, <2>3
    <3> QED
      BY <2>3, <3>1
  <2>4. CASE from % 8 # 0
    <3>1. head = 8 - (from % 8) /\ head \in 0..7
      BY <2>1, <2>2, <2>4
    <3>2. from + head = 8 * (from \div 8 + 1) + 0
      BY <2>2, <3>1
    <3>3. from + head \in Int /\ from \div 8 + 1 \in Int /\ 0 \in 0..7
      BY <2>2
    <3>4. (from + head) % 8 = 0
      BY <3>2, <3>3, Eighth, Zenon
    <3> QED
      BY <3>1, <3>4
  <2> QED
    BY <2>3, <2>4
<1>3. r \in from..from + len - 1 <=> OnScreen(r, y, length)
  BY <1>1 DEF AtLeast, AtMost, InRows, OnScreen, Cut
<1>4. rest <= 0 =>
                (r \in from..from + AtMost(len, head) - 1 <=> r \in from..from + len - 1)
  BY <1>1, <1>2 DEF AtMost
<1>5. ASSUME rest > 0
      PROVE  (r \in from..from + len - 1 <=>
                    \/ r \in from..from + AtMost(len, head) - 1
                    \/ /\ Page(r) >= Page(from + head)
                       /\ Page(r) < Page(from + head) + rest \div 8
                    \/ r \in start..start + (rest % 8) - 1)
  <2> DEFINE page  == (from + head) \div 8
             whole == rest \div 8
             more  == rest % 8
             q     == r \div 8
             m     == r % 8
  <2>1. page \in Int /\ from + head = 8 * page
    <3>1. from + head \in Int
      BY <1>1, <1>2
    <3>2. from + head = 8 * page + ((from + head) % 8) /\ page \in Int
      BY <3>1, ByEight
    <3> HIDE DEF page
    <3> QED
      BY <1>2, <3>1, <3>2
  <2>2. whole \in Int /\ more \in 0..7 /\ rest = 8 * whole + more
    BY ByEight
  <2>3. q \in Int /\ m \in 0..7 /\ r = 8 * q + m
    <3>1. r \in Int
      BY <1>1
    <3> QED
      BY <3>1, ByEight
  <2>4. Page(from + head) = page /\ Page(r) = q
    BY DEF Page
  <2>5. AtMost(len, head) = head
    BY <1>1, <1>2, <1>5 DEF AtMost
  <2>6. more = rest % 8 /\ whole = rest \div 8
    OBVIOUS
  <2> HIDE DEF page, whole, more, q, m
  <2>7. start = from + head + 8 * whole
    <3>1. start = 8 * (page + whole)
      BY <2>4, <2>6, Zenon
    <3> HIDE DEF start
    <3> QED
      BY <2>1, <2>2, <3>1
  <2>8. InPages(q, page, whole) <=> InRows(r, from + head, 8 * whole)
    <3>1. InPages(q, page, whole) <=> InRows(8 * q + m, 8 * page, 8 * whole)
      BY <2>1, <2>2, <2>3, InEights, Zenon
    <3>2. r = 8 * q + m /\ from + head = 8 * page
      BY <2>1, <2>3, Zenon
    <3> QED
      BY <3>1, <3>2, Zenon
  <2>9. 8 * whole \in Nat /\ more \in Nat /\ len = head + 8 * whole + more
    <3>1. rest > 0 /\ rest = 8 * whole + more /\ rest = len - head /\ len \in Int
      BY <1>1, <1>5, <2>2
    <3>2. more \in 0..7 /\ whole \in Int /\ head \in Int
      BY <1>2, <2>2
    <3> QED
      BY <3>1, <3>2
  <2>10. r \in from..from + len - 1 <=> InPart(r, from, head, 8 * whole, more)
    <3> DEFINE middle == 8 * whole
    <3>1. middle \in Nat /\ more \in Nat /\ len = head + middle + more
      BY <2>9
    <3>2. head \in Nat /\ r \in Int /\ from \in Int
      BY <1>1, <1>2
    <3> HIDE DEF middle
    <3>3. r \in from..from + len - 1 <=> InPart(r, from, head, middle, more)
      BY <1>1, <3>1, <3>2, ThreeParts, Zenon
    <3> QED
      BY <3>3, Zenon DEF middle
  <2> QED
    BY <2>4, <2>5, <2>6, <2>7, <2>8, <2>10, Zenon DEF InPages, InPart
<1>6. rest <= 0 \/ rest > 0
  BY <1>1, <1>2
<1>7. CASE rest <= 0
  BY <1>3, <1>4, <1>7, Zenon DEF InBytes
<1>8. CASE rest > 0
  <2>1. ~(rest <= 0)
    BY <1>8
  <2> QED
    BY <1>3, <1>5, <1>8, <2>1, Zenon DEF InBytes
<1> QED
  BY <1>6, <1>7, <1>8

LEMMA VerticalLineIs ==
    ASSUME NEW x \in Int, NEW y \in Int, NEW length \in Int
    PROVE  VerticalLine(x, y, length) = Inside(x, y, 1, length)
<1> DEFINE from  == AtLeast(y, 0)
           len   == AtMost(length + AtMost(y, 0), Height - from)
           head  == IF from % 8 = 0 THEN 0 ELSE 8 - (from % 8)
           first == from..from + AtMost(len, head) - 1
           rest  == len - head
           whole == {r \in Rows : /\ Page(r) >= Page(from + head)
                                  /\ Page(r) < Page(from + head) + rest \div 8}
           start == 8 * (Page(from + head) + rest \div 8)
           last  == start..start + (rest % 8) - 1
           V     == VerticalLine(x, y, length)
           rows  == IF rest <= 0 THEN first ELSE first \union whole \union last
<1>1. /\ x \notin Columns \/ len <= 0 => V = {}
      /\ x \in Columns /\ len > 0 => V = {x} \X rows
  <2>1. from \in Int /\ len \in Int /\ head \in Int /\ rest \in Int
    <3>1. from \in Int
      BY DEF AtLeast
    <3>2. Height \in Int
      BY DisplayAssumption
    <3> HIDE DEF from
    <3>3. len \in Int
      BY <3>1, <3>2 DEF AtMost
    <3>4. from % 8 \in 0..7
      BY <3>1, ByEight
    <3>5. head \in Int
      BY <3>4
    <3> HIDE DEF len, head
    <3> QED
      BY <3>1, <3>3, <3>5
  <2>2. V = CASE x \notin Columns \/ len <= 0 -> {}
              [] x \in Columns /\ len > 0 /\ rest <= 0 -> {x} \X first
              [] x \in Columns /\ len > 0 /\ rest > 0 ->
                    {x} \X (first \union whole \union last)
    BY DEF VerticalLine
  <2> HIDE DEF V, from, len, head, rest, first, whole, last
  <2> QED
    BY <2>1, <2>2
<1>2. from \in Int /\ len \in Int /\ head \in Int /\ rest \in Int /\ start \in Int
  <2>1. from \in Int
    BY DEF AtLeast
  <2>2. Height \in Int
    BY DisplayAssumption
  <2> HIDE DEF from
  <2>3. len \in Int
    BY <2>1, <2>2 DEF AtMost
  <2>4. from % 8 \in 0..7
    BY <2>1, ByEight
  <2>5. head \in Int
    BY <2>4
  <2> HIDE DEF len, head
  <2>6. from + head \in Int /\ rest \in Int
    BY <2>1, <2>3, <2>5
  <2>7. Page(from + head) \in Int /\ rest \div 8 \in Int
    BY <2>6, ByEight DEF Page
  <2> QED
    BY <2>1, <2>3, <2>5, <2>6, <2>7
<1>3. ASSUME len > 0, NEW r
      PROVE  r \in rows <=> OnScreen(r, y, length)
  <2>1. r \in Int => (InBytes(r, from, len, head, rest) <=> OnScreen(r, y, length))
    <3>1. Cut(y, length, from, len, head, rest)
      BY Zenon DEF Cut
    <3> HIDE DEF from, len, head, rest
    <3> QED
      BY <1>2, <1>3, <3>1, VerticalRows, Zenon
  <2>2. Rows = 0..Height - 1 /\ \A n \in 0..Height - 1 : n \in Int
    BY DEF Rows
  <2>3. \A a \in Int, b \in Int : \A n \in a..b : n \in Int
    OBVIOUS
  <2>4. from + AtMost(len, head) - 1 \in Int /\ start + (rest % 8) - 1 \in Int
    <3>1. rest % 8 \in Int
      BY <1>2, ByEight
    <3> HIDE DEF from, len, head, rest, start
    <3> QED
      BY <1>2, <3>1 DEF AtMost
  <2>5. r \in rows => r \in Int
    <3>1. from \in Int /\ start \in Int
      BY <1>2, Zenon
    <3> HIDE DEF from, len, head, rest, start
    <3> QED
      BY <2>2, <2>3, <2>4, <3>1, Zenon
  <2>6. InBytes(r, from, len, head, rest) /\ r \in Rows => r \in rows
    <3> HIDE DEF from, len, head, rest
    <3> QED
      BY Zenon DEF InBytes
  <2>7. r \in rows => InBytes(r, from, len, head, rest)
    <3> HIDE DEF from, len, head, rest
    <3> QED
      BY Zenon DEF InBytes
  <2> HIDE DEF rows
  <2> QED
    BY <2>1, <2>2, <2>5, <2>6, <2>7, Zenon DEF OnScreen
<1>4. ASSUME len <= 0, NEW r \in 0..Height - 1
      PROVE  ~InRows(r, y, length)
  BY <1>4, DisplayAssumption DEF AtMost, AtLeast, InRows
<1>5. len <= 0 \/ len > 0
  BY <1>2
<1>6. Columns = 0..Width - 1
  BY DEF Columns
<1> DEFINE I == Inside(x, y, 1, length)
<1>7. ASSUME NEW p \in Screen
      PROVE  p \in I <=> p[1] = x /\ InRows(p[2], y, length)
  BY <1>6, ScreenSize, SMTT(30) DEF Inside, InRows
<1>8. CASE x \notin Columns \/ len <= 0
  <2>1. ~\E p \in Screen : p[1] = x /\ InRows(p[2], y, length)
    BY <1>4, <1>6, <1>8, ScreenSize, Zenon
  <2>2. I = {}
    BY <1>7, <2>1, Zenon DEF Inside
  <2> QED
    BY <1>1, <1>8, <2>2, Zenon
<1>9. CASE x \in Columns /\ len > 0
  <2>1. V = {x} \X rows
    BY <1>1, <1>9, Zenon
  <2> HIDE DEF V, rows, len, I
  <2>3. ASSUME NEW p \in V
        PROVE  p \in I
    <3>1. PICK r \in rows : p = <<x, r>>
      BY <2>1, <2>3
    <3>2. r \in 0..Height - 1 /\ InRows(r, y, length)
      BY <1>3, <1>9, <3>1, Zenon DEF OnScreen
    <3>3. p \in Screen /\ p[1] = x /\ p[2] = r
      BY <1>6, <1>9, <3>1, <3>2, ScreenSize
    <3> QED
      BY <1>7, <3>2, <3>3, Zenon
  <2>4. ASSUME NEW p \in I
        PROVE  p \in V
    <3>1. p \in Screen
      BY <2>4 DEF I, Inside
    <3>2. p[1] = x /\ InRows(p[2], y, length)
      BY <1>7, <2>4, <3>1, Zenon
    <3>3. p[2] \in rows /\ p = <<p[1], p[2]>>
      BY <1>3, <1>9, <3>1, <3>2, ScreenSize, Zenon DEF OnScreen
    <3> QED
      BY <2>1, <3>2, <3>3
  <2>5. V = I
    BY <2>3, <2>4, Zenon
  <2> QED
    BY <2>5 DEF V, I
<1> QED
  BY <1>5, <1>8, <1>9, Zenon

\* A rectangle is filled column by column.
LEMMA FilledRectangleIs ==
    ASSUME NEW x \in Int, NEW y \in Int, NEW w \in Int, NEW h \in Int
    PROVE  /\ Covers(FilledRectangle(x, y, w, h), Inside(x, y, w, h))
           /\ \A color : Once(color, FilledRectangle(x, y, w, h))
<1> DEFINE F == FilledRectangle(x, y, w, h)
           many == AtLeast(w, 0)
           Column(n) == VerticalLine(x + n - 1, y, h)
<1>1. many \in Nat /\ (w <= 0 => many = 0) /\ (w > 0 => many = w)
  BY DEF AtLeast
<1>2. DOMAIN F = 1..many /\ \A n \in 1..many : F[n] = Column(n)
  BY DEF FilledRectangle
<1> HIDE DEF F, many
<1>3. ASSUME NEW p \in Screen, NEW n \in 1..many
      PROVE  p \in F[n] <=> p[1] = x + n - 1 /\ y <= p[2] /\ p[2] < y + h
  <2>1. F[n] = Inside(x + n - 1, y, 1, h)
    <3>1. x + n - 1 \in Int
      OBVIOUS
    <3> QED
      BY <1>2, <3>1, VerticalLineIs, Zenon
  <2>2. p[1] \in Int /\ n \in Int
    BY ScreenSize
  <2>3. x + n - 1 <= p[1] /\ p[1] < x + n - 1 + 1 <=> p[1] = x + n - 1
    BY <2>2
  <2> QED
    BY <2>1, <2>3, Zenon DEF Inside
<1>4. ASSUME NEW p \in Screen
      PROVE  p \in Inside(x, y, w, h) <=> \E n \in DOMAIN F : p \in F[n]
  <2>1. p[1] \in Int
    BY ScreenSize
  <2>2. ASSUME p \in Inside(x, y, w, h)
        PROVE  \E n \in DOMAIN F : p \in F[n]
    <3>1. x <= p[1] /\ p[1] < x + w /\ y <= p[2] /\ p[2] < y + h
      BY <2>2, Zenon DEF Inside
    <3> DEFINE n == p[1] - x + 1
    <3>2. n \in 1..many /\ p[1] = x + n - 1
      BY <1>1, <2>1, <3>1
    <3> HIDE DEF n
    <3>3. p \in F[n]
      BY <1>3, <3>1, <3>2, Zenon
    <3> QED
      BY <1>2, <3>2, <3>3, Zenon
  <2>3. ASSUME NEW n \in 1..many, p \in F[n]
        PROVE  p \in Inside(x, y, w, h)
    <3>1. p[1] = x + n - 1 /\ y <= p[2] /\ p[2] < y + h
      BY <1>3, <2>3, Zenon
    <3>2. x <= p[1] /\ p[1] < x + w
      BY <1>1, <3>1
    <3> QED
      BY <3>1, <3>2, Zenon DEF Inside
  <2> QED
    BY <1>2, <2>2, <2>3, Zenon
<1>5. ASSUME NEW p \in Screen, NEW n \in 1..many, NEW m \in 1..many, p \in F[n], p \in F[m]
      PROVE  n = m
  <2>1. p[1] = x + n - 1 /\ p[1] = x + m - 1
    BY <1>3, <1>5, Zenon
  <2> QED
    BY <2>1, <1>1
<1>6. Covers(F, Inside(x, y, w, h))
  BY <1>4, Zenon DEF Covers
<1>7. \A color : Once(color, F)
  BY <1>2, <1>5, Zenon DEF Once
<1> QED
  BY <1>6, <1>7, Zenon DEF F

\* The frame of a rectangle is what lies in it but not in the one inside.
LEMMA RectangleIs ==
    ASSUME NEW x \in Int, NEW y \in Int, NEW w \in Int, NEW h \in Int, w > 0, h > 0
    PROVE  Covers(Rectangle(x, y, w, h), Inside(x, y, w, h) \ Inside(x + 1, y + 1, w - 2, h - 2))
<1> DEFINE R == Rectangle(x, y, w, h)
<1>1. DOMAIN R = {1, 2, 3, 4}
  BY DEF Rectangle
<1>2. /\ R[1] = HorizontalLine(x, y, w) /\ R[2] = VerticalLine(x, y, h)
      /\ R[3] = VerticalLine(x + w - 1, y, h) /\ R[4] = HorizontalLine(x, y + h - 1, w)
  BY DEF Rectangle
<1>3. x + w - 1 \in Int /\ y + h - 1 \in Int
  OBVIOUS
<1>4. /\ R[1] = Inside(x, y, w, 1) /\ R[2] = Inside(x, y, 1, h)
      /\ R[3] = Inside(x + w - 1, y, 1, h) /\ R[4] = Inside(x, y + h - 1, w, 1)
  <2>1. R[1] = Inside(x, y, w, 1)
    BY <1>2, HorizontalLineIs, Zenon
  <2>2. R[2] = Inside(x, y, 1, h)
    BY <1>2, VerticalLineIs, Zenon
  <2>3. R[3] = Inside(x + w - 1, y, 1, h)
    BY <1>2, <1>3, VerticalLineIs, ZenonT(60)
  <2>4. R[4] = Inside(x, y + h - 1, w, 1)
    BY <1>2, <1>3, HorizontalLineIs, Zenon
  <2> QED
    BY <2>1, <2>2, <2>3, <2>4, Zenon
<1> HIDE DEF R
<1>5. ASSUME NEW p \in Screen
      PROVE  p \in Inside(x, y, w, h) \ Inside(x + 1, y + 1, w - 2, h - 2)
             <=> \E n \in DOMAIN R : p \in R[n]
  <2>1. p[1] \in Int /\ p[2] \in Int
    BY ScreenSize
  <2>2. (\E n \in DOMAIN R : p \in R[n])
        <=> p \in R[1] \/ p \in R[2] \/ p \in R[3] \/ p \in R[4]
    BY <1>1
  <2> QED
    BY <1>4, <2>1, <2>2 DEF Inside
<1> QED
  BY <1>5, Zenon DEF Covers, R

-----------------------------------------------------------------------------
(* Images *)

Shifted(x, y) == {<<x + p[1], y + p[2]>> : p \in Picture}

\* An image that does not begin above the screen, or begins there on a page, is
\* drawn as it is.
LEMMA ImageIs ==
    ASSUME NEW x \in Int, NEW y \in Int, y >= 0 \/ y % 8 = 0, NEW p \in Screen
    PROVE  p \in Image(x, y, Picture) <=> p \in Shifted(x, y)
<1>1. ASSUME NEW q \in Picture, p = <<x + q[1], y + q[2]>>
      PROVE  8 * (Page(y) + Page(q[2])) \in Rows /\ x + q[1] \in Columns
  <2>1. q[1] \in Nat /\ q[2] \in Nat
    BY DisplayAssumption
  <2>2. x + q[1] \in 0..Width - 1 /\ y + q[2] \in 0..Height - 1
    BY <1>1, ScreenSize
  <2> DEFINE a == y \div 8
             b == y % 8
             c == q[2] \div 8
             d == q[2] % 8
  <2>3. a \in Int /\ b \in 0..7 /\ y = 8 * a + b
    BY ByEight
  <2>4. c \in Int /\ d \in 0..7 /\ q[2] = 8 * c + d
    <3>1. q[2] \in Int
      BY <2>1
    <3> QED
      BY <3>1, ByEight
  <2>5. y >= 0 \/ b = 0
    OBVIOUS
  <2>6. Page(y) = a /\ Page(q[2]) = c
    BY DEF Page
  <2> HIDE DEF a, b, c, d
  <2>7. 8 * (a + c) >= 0 /\ 8 * (a + c) <= y + q[2]
    BY <2>1, <2>2, <2>3, <2>4, <2>5
  <2>8. 8 * (a + c) \in 0..Height - 1
    BY <2>2, <2>3, <2>4, <2>7, DisplayAssumption
  <2> QED
    BY <2>2, <2>6, <2>8 DEF Rows, Columns
<1> QED
  BY <1>1, Zenon DEF Image, Shifted

-----------------------------------------------------------------------------
(* Sloping lines *)

Along(dx, dy, ystep, p) ==
    IF p.err < dy THEN [y |-> p.y + ystep, err |-> p.err - dy + dx]
    ELSE [y |-> p.y, err |-> p.err - dy]

\* What drawLine() keeps from one step to the next.
LEMMA BresenhamEquation ==
    ASSUME NEW lo \in Int \X Int, NEW hi \in Int \X Int, lo[1] <= hi[1],
           NEW dx \in Int, dx = hi[1] - lo[1], NEW dy \in Int, dy = Abs(hi[2] - lo[2]),
           NEW ystep \in Int, ystep = IF lo[2] < hi[2] THEN 1 ELSE -1
    PROVE  /\ Bresenham(lo, hi)[0] = [y |-> lo[2], err |-> dx \div 2]
           /\ \A n \in 1..dx : Bresenham(lo, hi)[n] = Along(dx, dy, ystep, Bresenham(lo, hi)[n - 1])
           /\ \A n \in 0..dx : Bresenham(lo, hi)[n] \in [y : Int, err : Int]
<1> DEFINE V == [y : Int, err : Int]
           k == dx
           e == [y |-> lo[2], err |-> dx \div 2]
           Go(x, n) == Along(dx, dy, ystep, x)
           G == [n \in 1..k |-> [x \in V |-> Go(x, n)]]
           h(g) == [n \in 0..k |-> IF n = 0 THEN e ELSE Go(g[n - 1], n)]
           J == Bresenham(lo, hi)
<1>1. k \in Nat /\ e \in V
  <2>1. dx \div 2 \in Int /\ lo[2] \in Int
    OBVIOUS
  <2> QED
    BY <2>1
<1>2. ASSUME NEW n \in 1..k, NEW x \in V
      PROVE  Go(x, n) \in V
  BY DEF Along
<1>3. J = CHOOSE g : g = h(g)
  BY DEF Bresenham, Along
<1> HIDE DEF V, k, e, J, Go
<1>4. (\A n \in 1..k : n \in 0..k /\ n - 1 \in 0..k /\ n # 0) /\ 0 \in 0..k
  BY <1>1
<1>5. G \in [1..k -> [V -> V]]
  BY <1>1, <1>2, Zenon
<1>6. PICK g : Recurs(g, V, e, k, G)
  <2> HIDE DEF G
  <2> QED
    BY <1>1, <1>5, Recursion, Zenon
<1>7. ASSUME NEW n \in 1..k
      PROVE  g[n] = Go(g[n - 1], n)
  <2>1. g[n - 1] \in V /\ g[n] = G[n][g[n - 1]]
    <3> HIDE DEF G
    <3> QED
      BY <1>4, <1>6, Zenon DEF Recurs
  <2> QED
    BY <2>1, Zenon
<1> HIDE DEF G
<1>8. g = h(g)
  <2>1. \A n \in 0..k : n # 0 => n \in 1..k
    BY <1>1
  <2>2. g \in [0..k -> V] /\ g[0] = e
    BY <1>6, Zenon DEF Recurs
  <2>3. \A n \in 0..k : g[n] = IF n = 0 THEN e ELSE Go(g[n - 1], n)
    BY <1>7, <2>1, <2>2, Zenon
  <2> QED
    BY <2>2, <2>3, Zenon
<1>9. J = h(J)
  <2> HIDE DEF h
  <2> QED
    BY <1>3, <1>8, Zenon
<1>10. J[0] = e /\ \A n \in 1..k : J[n] = Go(J[n - 1], n)
  <2>1. \A n \in 0..k : h(J)[n] = IF n = 0 THEN e ELSE Go(J[n - 1], n)
    BY Zenon
  <2> HIDE DEF h
  <2> QED
    BY <1>4, <1>9, <2>1, Zenon
<1>11. \A n \in 0..k : J[n] \in V
  <2> DEFINE T == {n \in 0..k : J[n] \in V}
  <2>1. 0 \in T
    BY <1>1, <1>4, <1>10, Zenon
  <2>2. \A n \in 1..k : n - 1 \in T => n \in T
    BY <1>2, <1>4, <1>10, Zenon
  <2>3. \A n \in 0..k : n \in T
    <3> HIDE DEF T
    <3> QED
      BY <1>1, <2>1, <2>2, Upwards, Zenon
  <2> QED
    BY <2>3, Zenon
<1> QED
  BY <1>10, <1>11, Zenon DEF V, k, e, J, Go

\* The line lags by what the error has lost since the start: j steps across have been
\* taken after n steps along, and the error stays between 0 and dx.
Lags(dx, dy, n, j, err) ==
    /\ err = dx \div 2 - n * dy + j * dx
    /\ 0 <= err /\ err < AtLeast(dx, 1)

LEMMA LagsOn ==
    ASSUME NEW dx \in Nat, NEW dy \in Nat, dy <= dx, dx > 0, NEW n \in Int, NEW j \in Int,
           NEW err \in Int, Lags(dx, dy, n, j, err)
    PROVE  /\ err < dy => Lags(dx, dy, n + 1, j + 1, err - dy + dx)
           /\ err >= dy => Lags(dx, dy, n + 1, j, err - dy)
<1> DEFINE half == dx \div 2
<1>1. half \in Int
  OBVIOUS
<1>2. err = half - n * dy + j * dx /\ 0 <= err /\ err < dx
  BY DEF Lags, AtLeast
<1>3. (n + 1) * dy = n * dy + dy /\ (j + 1) * dx = j * dx + dx
  OBVIOUS
<1>4. n * dy \in Int /\ j * dx \in Int
  OBVIOUS
<1> DEFINE nd == n * dy
           jd == j * dx
           nd1 == (n + 1) * dy
           jd1 == (j + 1) * dx
<1>5. nd1 = nd + dy /\ jd1 = jd + dx /\ nd \in Int /\ jd \in Int /\ err = half - nd + jd
  BY <1>2, <1>3, <1>4
<1>6. err < dy => err - dy + dx = half - nd1 + jd1 /\ 0 <= err - dy + dx /\ err - dy + dx < dx
  <2> HIDE DEF half, nd, jd, nd1, jd1
  <2> QED
    BY <1>1, <1>2, <1>5
<1>7. err >= dy => err - dy = half - nd1 + jd /\ 0 <= err - dy /\ err - dy < dx
  <2> HIDE DEF half, nd, jd, nd1, jd1
  <2> QED
    BY <1>1, <1>2, <1>5
<1> QED
  <2>1. AtLeast(dx, 1) = dx
    BY DEF AtLeast
  <2> QED
    BY <1>6, <1>7, <2>1, Zenon DEF Lags

\* So it is never half a pixel off.
LEMMA LagsLittle ==
    ASSUME NEW dx \in Nat, NEW dy \in Nat, NEW n \in Int, NEW j \in Int, NEW err \in Int,
           Lags(dx, dy, n, j, err)
    PROVE  2 * (n * dy - j * dx) <= dx /\ -dx <= 2 * (n * dy - j * dx)
<1> DEFINE half == dx \div 2
           c == n * dy - j * dx
<1>1. half \in Int /\ 2 * half <= dx /\ dx <= 2 * half + 1
  OBVIOUS
<1>2. c \in Int
  OBVIOUS
<1>3. err = half - c
  <2>1. n * dy \in Int /\ j * dx \in Int
    OBVIOUS
  <2> DEFINE nd == n * dy
             jd == j * dx
  <2>2. err = half - nd + jd /\ c = nd - jd /\ nd \in Int /\ jd \in Int
    BY <2>1 DEF Lags
  <2> HIDE DEF nd, jd, half, c
  <2> QED
    BY <1>1, <2>2
<1>4. (0 <= err /\ err < dx) \/ (dx = 0 /\ err = 0)
  BY DEF Lags, AtLeast
<1> HIDE DEF half, c
<1>5. 2 * c <= dx /\ -dx <= 2 * c
  BY <1>1, <1>2, <1>3, <1>4
<1> QED
  BY <1>5 DEF c

\* And it arrives at the end.
LEMMA LagsNone ==
    ASSUME NEW dx \in Nat, NEW dy \in Nat, dy <= dx, NEW j \in Int,
           2 * (dx * dy - j * dx) <= dx, -dx <= 2 * (dx * dy - j * dx), dx > 0
    PROVE  j = dy
<1> DEFINE k == dy - j
<1>1. k \in Int /\ dx * dy - j * dx = dx * k
  OBVIOUS
<1>2. 2 * (dx * k) <= dx /\ -dx <= 2 * (dx * k)
  BY <1>1
<1> HIDE DEF k
<1>3. ~(k >= 1)
  <2>1. SUFFICES ASSUME k >= 1 PROVE FALSE
    OBVIOUS
  <2>2. dx * k >= dx
    <3>1. dx * (k - 1) >= 0 /\ dx * (k - 1) = dx * k - dx
      BY <1>1, <2>1
    <3> QED
      BY <1>1, <3>1
  <2> QED
    BY <1>1, <1>2, <2>2
<1>4. ~(k <= -1)
  <2>1. SUFFICES ASSUME k <= -1 PROVE FALSE
    OBVIOUS
  <2>2. dx * k <= -dx
    <3>1. dx * (-1 - k) >= 0 /\ dx * (-1 - k) = -dx - dx * k
      BY <1>1, <2>1
    <3> QED
      BY <1>1, <3>1
  <2> QED
    BY <1>1, <1>2, <2>2
<1>5. k = 0
  BY <1>1, <1>3, <1>4
<1> QED
  BY <1>5 DEF k

\* Where drawLine() is after n steps.
Off(dx, h, n, d) == 2 * Abs(n * h - d * dx) <= dx

LEMMA BresenhamIs ==
    ASSUME NEW lo \in Int \X Int, NEW hi \in Int \X Int, lo[1] <= hi[1],
           NEW dx \in Int, dx = hi[1] - lo[1], Abs(hi[2] - lo[2]) <= dx,
           NEW at, at = Bresenham(lo, hi)
    PROVE  /\ at[0].y = lo[2] /\ at[dx].y = hi[2]
           /\ \A n \in 0..dx : at[n].y \in Int /\ Off(dx, hi[2] - lo[2], n, at[n].y - lo[2])
<1> DEFINE dy == Abs(hi[2] - lo[2])
           ystep == IF lo[2] < hi[2] THEN 1 ELSE -1
           lo2 == lo[2]
           hi2 == hi[2]
<1>1. /\ lo2 \in Int /\ hi2 \in Int /\ dy \in Nat /\ dx \in Nat /\ ystep \in Int
      /\ hi2 - lo2 = ystep * dy /\ (ystep = 1 \/ ystep = -1) /\ dy <= dx
  BY DEF Abs, AtLeast
<1>2. /\ at[0] = [y |-> lo2, err |-> dx \div 2]
      /\ \A n \in 1..dx : at[n] = Along(dx, dy, ystep, at[n - 1])
      /\ \A n \in 0..dx : at[n] \in [y : Int, err : Int]
  BY <1>1, BresenhamEquation
<1> HIDE DEF dy, ystep, lo2, hi2
<1> DEFINE T == {n \in 0..dx : \E j \in Int : /\ at[n].y = lo2 + ystep * j
                                              /\ Lags(dx, dy, n, j, at[n].err)}
<1>3. 0 \in T
  <2>1. at[0].y = lo2 + ystep * 0 /\ at[0].err = dx \div 2 /\ 0 \in 0..dx
    BY <1>1, <1>2
  <2>2. Lags(dx, dy, 0, 0, dx \div 2)
    BY <1>1 DEF Lags, AtLeast
  <2>3. Lags(dx, dy, 0, 0, at[0].err)
    BY <2>1, <2>2, Zenon
  <2>4. 0 \in Int
    OBVIOUS
  <2> QED
    BY <2>1, <2>3, <2>4, Zenon
<1>4. ASSUME NEW n \in 1..dx, n - 1 \in T
      PROVE  n \in T
  <2>1. PICK j \in Int : at[n - 1].y = lo2 + ystep * j /\ Lags(dx, dy, n - 1, j, at[n - 1].err)
    BY <1>4, Zenon
  <2> DEFINE e == at[n - 1].err
             p == at[n - 1]
  <2>2. n \in 0..dx /\ n - 1 \in 0..dx /\ dx > 0 /\ n - 1 \in Int /\ (n - 1) + 1 = n
    BY <1>1
  <2>3. p \in [y : Int, err : Int] /\ at[n] = Along(dx, dy, ystep, p) /\ e \in Int
    <3>1. p \in [y : Int, err : Int] /\ at[n] = Along(dx, dy, ystep, p)
      BY <1>2, <2>2, Zenon
    <3> HIDE DEF p
    <3>2. p.err \in Int
      BY <3>1
    <3> QED
      BY <3>1, <3>2 DEF p
  <2>4. Lags(dx, dy, n - 1, j, e)
    BY <2>1
  <2> HIDE DEF e
  <2>5. /\ e < dy => Lags(dx, dy, (n - 1) + 1, j + 1, e - dy + dx)
        /\ e >= dy => Lags(dx, dy, (n - 1) + 1, j, e - dy)
    BY <1>1, <2>2, <2>3, <2>4, LagsOn
  <2>6. /\ e < dy => at[n].y = p.y + ystep /\ at[n].err = e - dy + dx
        /\ ~(e < dy) => at[n].y = p.y /\ at[n].err = e - dy
    <3> HIDE DEF p
    <3>1. p.err = e
      BY DEF e, p
    <3> QED
      BY <2>3, <3>1 DEF Along
  <2>7. CASE e < dy
    <3>1. at[n].y = lo2 + ystep * (j + 1) /\ j + 1 \in Int
      <4>1. ystep * (j + 1) = ystep * j + ystep /\ ystep * j \in Int
        BY <1>1
      <4>2. at[n].y = (lo2 + ystep * j) + ystep
        BY <2>1, <2>6, <2>7
      <4> DEFINE yj == ystep * j
                 yj1 == ystep * (j + 1)
      <4>3. yj1 = yj + ystep /\ yj \in Int /\ at[n].y = (lo2 + yj) + ystep
        BY <4>1, <4>2
      <4> HIDE DEF yj, yj1
      <4>4. at[n].y = lo2 + yj1
        BY <1>1, <4>3
      <4> QED
        BY <4>4 DEF yj1
    <3>2. Lags(dx, dy, n, j + 1, at[n].err)
      BY <2>2, <2>5, <2>6, <2>7, Zenon
    <3> QED
      BY <2>2, <3>1, <3>2, Zenon
  <2>8. CASE ~(e < dy)
    <3>1. e >= dy
      BY <1>1, <2>3, <2>8
    <3>2. at[n].y = lo2 + ystep * j
      BY <2>1, <2>6, <2>8, Zenon
    <3>3. Lags(dx, dy, n, j, at[n].err)
      BY <2>2, <2>5, <2>6, <2>8, <3>1, Zenon
    <3> QED
      BY <2>2, <3>2, <3>3, Zenon
  <2> QED
    BY <2>7, <2>8, Zenon
<1>5. \A n \in 0..dx : n \in T
  <2> HIDE DEF T
  <2> QED
    BY <1>1, <1>3, <1>4, Upwards, Zenon
<1>6. ASSUME NEW n \in 0..dx
      PROVE  at[n].y \in Int /\ Off(dx, hi2 - lo2, n, at[n].y - lo2)
  <2>1. PICK j \in Int : at[n].y = lo2 + ystep * j /\ Lags(dx, dy, n, j, at[n].err)
    BY <1>5, Zenon
  <2>2. at[n].err \in Int /\ n \in Int
    <3>1. at[n] \in [y : Int, err : Int]
      BY <1>2, Zenon
    <3> QED
      BY <1>1, <3>1
  <2>3. 2 * (n * dy - j * dx) <= dx /\ -dx <= 2 * (n * dy - j * dx)
    BY <1>1, <2>1, <2>2, LagsLittle
  <2> DEFINE c == n * dy - j * dx
             y == at[n].y
  <2>4. n * (ystep * dy) - (ystep * j) * dx = ystep * c
    BY <1>1, <2>2
  <2>5. y \in Int /\ y - lo2 = ystep * j
    <3>1. ystep * j \in Int
      BY <1>1
    <3> DEFINE yj == ystep * j
    <3>2. yj \in Int /\ y = lo2 + yj
      BY <2>1, <3>1
    <3> HIDE DEF yj, y
    <3>3. y \in Int /\ y - lo2 = yj
      BY <1>1, <3>2
    <3> QED
      BY <3>3 DEF yj
  <2>6. n * (hi2 - lo2) - (y - lo2) * dx = ystep * c
    BY <1>1, <2>4, <2>5, Zenon
  <2>7. 2 * Abs(ystep * c) <= dx
    <3>1. c \in Int
      BY <1>1, <2>2
    <3>2. 2 * c <= dx /\ -dx <= 2 * c
      BY <2>3
    <3> HIDE DEF c
    <3>3. ystep * c = c \/ ystep * c = -c
      BY <1>1, <3>1
    <3> QED
      BY <1>1, <3>1, <3>2, <3>3 DEF Abs, AtLeast
  <2> QED
    BY <2>5, <2>6, <2>7, Zenon DEF Off
<1>7. at[dx].y = hi2
  <2>1. PICK j \in Int : at[dx].y = lo2 + ystep * j /\ Lags(dx, dy, dx, j, at[dx].err)
    <3>1. dx \in 0..dx
      BY <1>1
    <3> QED
      BY <1>5, <3>1, Zenon
  <2>2. j = dy \/ (dx = 0 /\ j = 0) \/ dx = 0
    <3>1. at[dx].err \in Int
      <4>1. dx \in 0..dx
        BY <1>1
      <4>2. at[dx] \in [y : Int, err : Int]
        BY <1>2, <4>1, Zenon
      <4> QED
        BY <4>2
    <3>2. 2 * (dx * dy - j * dx) <= dx /\ -dx <= 2 * (dx * dy - j * dx)
      BY <1>1, <2>1, <3>1, LagsLittle
    <3> QED
      BY <1>1, <3>2, LagsNone
  <2>3. CASE j = dy
    <3>1. hi2 - lo2 = ystep * dy /\ at[dx].y = lo2 + ystep * dy
      BY <1>1, <2>1, <2>3
    <3> QED
      BY <1>1, <3>1
  <2>4. CASE dx = 0
    <3>1. at[dx].y = lo2
      BY <1>2, <2>4
    <3>2. dy = 0
      BY <1>1, <2>4
    <3>3. hi2 - lo2 = 0
      BY <1>1, <3>2
    <3> QED
      BY <1>1, <3>1, <3>3
  <2> QED
    BY <2>2, <2>3, <2>4
<1>8. at[0].y = lo2
  BY <1>2
<1> QED
  BY <1>6, <1>7, <1>8, Zenon DEF lo2, hi2

\* The pixels of a line: one in each step of the longer axis, from end to end.
Slope(p, xa, ya, xb, yb) ==
    2 * Abs((p[1] - xa) * (yb - ya) - (p[2] - ya) * (xb - xa))
        <= AtLeast(Abs(xb - xa), Abs(yb - ya))
Threads(q, xa, ya, xb, yb, long) ==
    /\ q \in [1..long + 1 -> Int \X Int]
    /\ \A n, m \in 1..long + 1 : q[n] = q[m] => n = m
    /\ {<<xa, ya>>, <<xb, yb>>} = {q[1], q[long + 1]}
    /\ \A n \in 1..long + 1 : Slope(q[n], xa, ya, xb, yb)

\* The distance is the same from both ends, and on both axes.
LEMMA OffTurns ==
    ASSUME NEW c \in Int, NEW d \in Int, d = c \/ d = -c
    PROVE  Abs(d) = Abs(c)
BY DEF Abs, AtLeast

\* Of lo and hi, one is an end and the other the other, both with their coordinates
\* swapped if the line is steep.
Ends(lo, hi, steep, xa, ya, xb, yb) ==
    \/ steep /\ lo = <<ya, xa>> /\ hi = <<yb, xb>>
    \/ steep /\ lo = <<yb, xb>> /\ hi = <<ya, xa>>
    \/ ~steep /\ lo = <<xa, ya>> /\ hi = <<xb, yb>>
    \/ ~steep /\ lo = <<xb, yb>> /\ hi = <<xa, ya>>

LEMMA Products ==
    ASSUME NEW n \in Int, NEW y \in Int, NEW a1 \in Int, NEW a2 \in Int,
           NEW b1 \in Int, NEW b2 \in Int
    PROVE  \* from a to b, and from b to a
           LET c == n * (b2 - a2) - (y - a2) * (b1 - a1)
           IN  /\ ((a1 + n) - a1) * (b2 - a2) - (y - a2) * (b1 - a1) = c
               /\ ((a1 + n) - b1) * (a2 - b2) - (y - b2) * (a1 - b1) = -c
               /\ (y - a2) * (b1 - a1) - ((a1 + n) - a1) * (b2 - a2) = -c
               /\ (y - b2) * (a1 - b1) - ((a1 + n) - b1) * (a2 - b2) = c
OBVIOUS

LEMMA SlopeIs ==
    ASSUME NEW xa \in Int, NEW ya \in Int, NEW xb \in Int, NEW yb \in Int,
           NEW steep \in BOOLEAN, NEW lo \in Int \X Int, NEW hi \in Int \X Int,
           Ends(lo, hi, steep, xa, ya, xb, yb),
           hi[1] - lo[1] = AtLeast(Abs(xb - xa), Abs(yb - ya)),
           NEW n \in Int, NEW y \in Int,
           Off(hi[1] - lo[1], hi[2] - lo[2], n, y - lo[2])
    PROVE  Slope(IF steep THEN <<y, lo[1] + n>> ELSE <<lo[1] + n, y>>, xa, ya, xb, yb)
<1> DEFINE a1 == lo[1]
           a2 == lo[2]
           b1 == hi[1]
           b2 == hi[2]
           long == AtLeast(Abs(xb - xa), Abs(yb - ya))
           c == n * (b2 - a2) - (y - a2) * (b1 - a1)
           p == IF steep THEN <<y, a1 + n>> ELSE <<a1 + n, y>>
           d == (p[1] - xa) * (yb - ya) - (p[2] - ya) * (xb - xa)
<1>1. a1 \in Int /\ a2 \in Int /\ b1 \in Int /\ b2 \in Int
  OBVIOUS
<1>2. 2 * Abs(c) <= long
  BY DEF Off
<1>3. /\ steep => p[1] = y /\ p[2] = a1 + n
      /\ ~steep => p[1] = a1 + n /\ p[2] = y
  OBVIOUS
<1>4. \/ steep /\ ya = a1 /\ xa = a2 /\ yb = b1 /\ xb = b2
      \/ steep /\ yb = a1 /\ xb = a2 /\ ya = b1 /\ xa = b2
      \/ ~steep /\ xa = a1 /\ ya = a2 /\ xb = b1 /\ yb = b2
      \/ ~steep /\ xb = a1 /\ yb = a2 /\ xa = b1 /\ ya = b2
  BY DEF Ends
<1> HIDE DEF p, a1, a2, b1, b2, long
<1>5. /\ ((a1 + n) - a1) * (b2 - a2) - (y - a2) * (b1 - a1) = c
      /\ ((a1 + n) - b1) * (a2 - b2) - (y - b2) * (a1 - b1) = -c
      /\ (y - a2) * (b1 - a1) - ((a1 + n) - a1) * (b2 - a2) = -c
      /\ (y - b2) * (a1 - b1) - ((a1 + n) - b1) * (a2 - b2) = c
  BY <1>1, Products
<1>6. c \in Int
  BY <1>1
<1> HIDE DEF c
<1>7. d = c \/ d = -c
  BY <1>3, <1>4, <1>5, Zenon
<1>8. Abs(d) = Abs(c)
  <2> HIDE DEF d
  <2>1. d \in Int
    BY <1>6, <1>7
  <2> QED
    BY <1>6, <1>7, <2>1, OffTurns
<1>9. 2 * Abs(d) <= long
  BY <1>2, <1>8, Zenon
<1> QED
  BY <1>9, Zenon DEF Slope, p, long, a1

Dotted(line, xa, ya, xb, yb, long) ==
    \E q : /\ Threads(q, xa, ya, xb, yb, long)
           /\ line = [n \in 1..long + 1 |-> {q[n]}]

LEMMA LineIs ==
    ASSUME NEW xa \in Int, NEW ya \in Int, NEW xb \in Int, NEW yb \in Int,
           NEW long, long = AtLeast(Abs(xb - xa), Abs(yb - ya))
    PROVE  Dotted(Line(xa, ya, xb, yb), xa, ya, xb, yb, long)
<1> DEFINE steep == Abs(yb - ya) > Abs(xb - xa)
           a  == IF steep THEN <<ya, xa>> ELSE <<xa, ya>>
           b  == IF steep THEN <<yb, xb>> ELSE <<xb, yb>>
           lo == IF a[1] > b[1] THEN b ELSE a
           hi == IF a[1] > b[1] THEN a ELSE b
           at == Bresenham(lo, hi)
           Q(n) == IF steep THEN <<at[n - 1].y, lo[1] + (n - 1)>> ELSE <<lo[1] + (n - 1), at[n - 1].y>>
           q == [n \in 1..long + 1 |-> Q(n)]
<1>1. /\ lo \in Int \X Int /\ hi \in Int \X Int /\ steep \in BOOLEAN
      /\ Ends(lo, hi, steep, xa, ya, xb, yb)
      /\ lo[1] <= hi[1] /\ hi[1] - lo[1] = long /\ Abs(hi[2] - lo[2]) <= long
      /\ long \in Nat
  <2>1. lo \in Int \X Int /\ hi \in Int \X Int
    OBVIOUS
  <2>2. Ends(lo, hi, steep, xa, ya, xb, yb)
    BY DEF Ends
  <2>3. a[1] \in Int /\ a[2] \in Int /\ b[1] \in Int /\ b[2] \in Int
    OBVIOUS
  <2>4. long \in Nat /\ Abs(b[1] - a[1]) = long /\ Abs(b[2] - a[2]) <= long
    BY DEF Abs, AtLeast
  <2>5. /\ a[1] > b[1] => lo = b /\ hi = a
        /\ ~(a[1] > b[1]) => lo = a /\ hi = b
    OBVIOUS
  <2> HIDE DEF a, b, steep, lo, hi
  <2>6. lo[1] <= hi[1] /\ hi[1] - lo[1] = long /\ Abs(hi[2] - lo[2]) <= long
    BY <2>3, <2>4, <2>5 DEF Abs, AtLeast
  <2> QED
    BY <2>1, <2>2, <2>4, <2>6 DEF steep
<1>2. Line(xa, ya, xb, yb) = [n \in 1..hi[1] - lo[1] + 1 |->
            {IF steep THEN <<at[n - 1].y, lo[1] + n - 1>> ELSE <<lo[1] + n - 1, at[n - 1].y>>}]
  BY DEF Line
<1> HIDE DEF steep, a, b, lo, hi, at
<1>3. /\ at[0].y = lo[2] /\ at[long].y = hi[2]
      /\ \A n \in 0..long : at[n].y \in Int /\ Off(long, hi[2] - lo[2], n, at[n].y - lo[2])
  <2>1. at = Bresenham(lo, hi) /\ long \in Int /\ long = hi[1] - lo[1]
    BY <1>1 DEF at
  <2> QED
    BY <1>1, <2>1, BresenhamIs
<1>4. \A n \in 1..long + 1 : n \in Int /\ n - 1 \in 0..long /\ lo[1] + n - 1 = lo[1] + (n - 1)
  BY <1>1
<1>5. Line(xa, ya, xb, yb) = [n \in 1..long + 1 |-> {q[n]}]
  <2>1. hi[1] - lo[1] + 1 = long + 1
    BY <1>1
  <2> QED
    BY <1>2, <1>4, <2>1, Zenon
<1>6. \A n \in 1..long + 1 : Q(n) \in Int \X Int
  <2> TAKE n \in 1..long + 1
  <2>1. at[n - 1].y \in Int /\ lo[1] + (n - 1) \in Int
    BY <1>1, <1>3, <1>4
  <2> QED
    BY <2>1
<1>7. q \in [1..long + 1 -> Int \X Int]
  BY <1>6
<1>8. ASSUME NEW n \in 1..long + 1, NEW m \in 1..long + 1, q[n] = q[m]
      PROVE  n = m
  <2>1. Q(n) = Q(m)
    BY <1>8
  <2>2. lo[1] + (n - 1) = lo[1] + (m - 1)
    BY <2>1
  <2> QED
    BY <1>1, <2>2
<1>9. {<<xa, ya>>, <<xb, yb>>} = {q[1], q[long + 1]}
  <2>1. 1 \in 1..long + 1 /\ long + 1 \in 1..long + 1 /\ 1 - 1 = 0 /\ (long + 1) - 1 = long
    BY <1>1
  <2>2. q[1] = Q(1) /\ q[long + 1] = Q(long + 1)
    BY <2>1, Zenon
  <2>3. lo = <<lo[1], lo[2]>> /\ hi = <<hi[1], hi[2]>> /\ lo[1] + 0 = lo[1] /\ lo[1] + long = hi[1]
    BY <1>1
  <2>4. /\ steep => Q(1) = <<lo[2], lo[1]>> /\ Q(long + 1) = <<hi[2], hi[1]>>
        /\ ~steep => Q(1) = lo /\ Q(long + 1) = hi
    BY <1>3, <2>1, <2>3
  <2> HIDE DEF q, Q
  <2>5. \/ steep /\ lo[1] = ya /\ lo[2] = xa /\ hi[1] = yb /\ hi[2] = xb
        \/ steep /\ lo[1] = yb /\ lo[2] = xb /\ hi[1] = ya /\ hi[2] = xa
        \/ ~steep /\ lo = <<xa, ya>> /\ hi = <<xb, yb>>
        \/ ~steep /\ lo = <<xb, yb>> /\ hi = <<xa, ya>>
    BY <1>1 DEF Ends
  <2>6. \/ q[1] = <<xa, ya>> /\ q[long + 1] = <<xb, yb>>
        \/ q[1] = <<xb, yb>> /\ q[long + 1] = <<xa, ya>>
    BY <2>2, <2>4, <2>5, Zenon
  <2> QED
    BY <2>6, Zenon
<1>10. ASSUME NEW n \in 1..long + 1
       PROVE  Slope(q[n], xa, ya, xb, yb)
  <2>1. at[n - 1].y \in Int /\ Off(long, hi[2] - lo[2], n - 1, at[n - 1].y - lo[2])
    BY <1>3, <1>4, Zenon
  <2>2. n - 1 \in Int
    BY <1>4
  <2> DEFINE y == at[n - 1].y
             m == n - 1
  <2>3. y \in Int /\ m \in Int /\ Off(hi[1] - lo[1], hi[2] - lo[2], m, y - lo[2])
    BY <1>1, <2>1, <2>2, Zenon
  <2>4. hi[1] - lo[1] = AtLeast(Abs(xb - xa), Abs(yb - ya))
    BY <1>1
  <2> HIDE DEF y, m
  <2>5. Slope(IF steep THEN <<y, lo[1] + m>> ELSE <<lo[1] + m, y>>, xa, ya, xb, yb)
    BY <1>1, <2>3, <2>4, SlopeIs, ZenonT(60)
  <2> QED
    BY <2>5, Zenon DEF y, m
<1> HIDE DEF q
<1>11. Threads(q, xa, ya, xb, yb, long)
  BY <1>7, <1>8, <1>9, <1>10, Zenon DEF Threads
<1> QED
  BY <1>5, <1>11, Zenon DEF Dotted

\* A sequence of strokes paints what is in any of them.
LEMMA CoversAll ==
    ASSUME NEW strokes
    PROVE  Covers(strokes, UNION Range(strokes))
BY Zenon DEF Covers, Range

LEMMA SlopingIs ==
    ASSUME NEW xa \in Int, NEW ya \in Int, NEW xb \in Int, NEW yb \in Int,
           NEW long, long = AtLeast(Abs(xb - xa), Abs(yb - ya)),
           NEW pixels, pixels = UNION Range(Line(xa, ya, xb, yb))
    PROVE  /\ Covers(Line(xa, ya, xb, yb), pixels)
           /\ \A color : Once(color, Line(xa, ya, xb, yb))
           /\ {<<xa, ya>>, <<xb, yb>>} \subseteq pixels
           /\ Cardinality(pixels) = long + 1
           /\ \A p \in pixels : Slope(p, xa, ya, xb, yb)
<1> DEFINE L == Line(xa, ya, xb, yb)
           N == 1..long + 1
<1>1. long \in Nat
  BY DEF Abs, AtLeast
<1>2. PICK q : Threads(q, xa, ya, xb, yb, long) /\ L = [n \in N |-> {q[n]}]
  <2>1. Dotted(L, xa, ya, xb, yb, long)
    BY LineIs, Zenon
  <2> HIDE DEF L
  <2> QED
    BY <2>1, Zenon DEF Dotted
<1> HIDE DEF L
<1>3. DOMAIN L = N /\ \A n \in N : L[n] = {q[n]}
  BY <1>2, Zenon
<1> HIDE DEF N
<1>4. \A p : p \in pixels <=> \E n \in N : p = q[n]
  <2>1. pixels = UNION Range(L)
    BY Zenon DEF L
  <2>2. ASSUME NEW p, p \in pixels
        PROVE  \E n \in N : p = q[n]
    <3>1. PICK t \in Range(L) : p \in t
      BY <2>1, <2>2, Zenon
    <3>2. PICK n \in DOMAIN L : t = L[n]
      BY <3>1, Zenon DEF Range
    <3>3. p \in L[n]
      BY <3>1, <3>2, Zenon
    <3>4. n \in N /\ p \in {q[n]}
      BY <1>3, <3>3, Zenon
    <3> QED
      BY <3>4, Zenon
  <2>3. ASSUME NEW n \in N
        PROVE  q[n] \in pixels
    <3>1. n \in DOMAIN L /\ q[n] \in L[n]
      BY <1>3, Zenon
    <3> QED
      BY <2>1, <3>1, Zenon DEF Range
  <2> QED
    BY <2>2, <2>3, Zenon
<1>5. Covers(L, pixels)
  BY CoversAll, Zenon DEF L
<1>6. ASSUME NEW color
      PROVE  Once(color, L)
  <2>1. ASSUME NEW p \in Screen, NEW n \in N, NEW m \in N, p \in L[n], p \in L[m]
        PROVE  n = m
    <3>1. p \in {q[n]} /\ p \in {q[m]}
      BY <1>3, <2>1, Zenon
    <3>2. q[n] = q[m]
      BY <3>1, Zenon
    <3> QED
      BY <1>2, <3>2, Zenon DEF Threads, N
  <2> QED
    BY <1>3, <2>1, Zenon DEF Once
<1>7. 1 \in N /\ long + 1 \in N
  BY <1>1 DEF N
<1>8. {<<xa, ya>>, <<xb, yb>>} \subseteq pixels
  <2>1. q[1] \in pixels /\ q[long + 1] \in pixels
    BY <1>4, <1>7, Zenon
  <2>2. {<<xa, ya>>, <<xb, yb>>} = {q[1], q[long + 1]}
    BY <1>2, Zenon DEF Threads
  <2> QED
    BY <2>1, <2>2, Zenon
<1>9. Cardinality(pixels) = long + 1
  <2>1. IsFiniteSet(N) /\ Cardinality(N) = long + 1
    <3>1. 1 \in Int /\ long + 1 \in Int /\ 1 <= long + 1 /\ (long + 1) - 1 + 1 = long + 1
      BY <1>1
    <3>2. 1 \in Int /\ long + 1 \in Int
      BY <1>1
    <3>3. IsFiniteSet(N) /\ Cardinality(N) = IF 1 > long + 1 THEN 0 ELSE (long + 1) - 1 + 1
      BY <3>2, FS_Interval, Zenon DEF N
    <3> QED
      BY <1>1, <3>1, <3>3
  <2>2. q \in Bijection(N, pixels)
    <3>1. \A n, m \in N : q[n] = q[m] => n = m
      BY <1>2, Zenon DEF Threads, N
    <3>2. DOMAIN q = N /\ q = [n \in N |-> q[n]]
      <4>1. q \in [N -> Int \X Int]
        BY <1>2, Zenon DEF Threads, N
      <4> QED
        BY <4>1, Zenon
    <3>3. \A n \in N : q[n] \in pixels
      BY <1>4, Zenon
    <3>4. q \in [N -> pixels]
      BY <3>2, <3>3, Zenon
    <3>5. \A p \in pixels : \E n \in N : q[n] = p
      BY <1>4, Zenon
    <3> QED
      BY <3>1, <3>4, <3>5, Zenon DEF Bijection, Injection, Surjection, IsInjective
  <2>3. ExistsBijection(N, pixels)
    BY <2>2, Zenon DEF ExistsBijection
  <2>4. Cardinality(pixels) = Cardinality(N)
    <3> QED
      BY <2>1, <2>3, FS_Bijection, Zenon
  <2> QED
    BY <2>1, <2>4, Zenon
<1>10. ASSUME NEW p \in pixels
       PROVE  Slope(p, xa, ya, xb, yb)
  <2>1. PICK n \in N : p = q[n]
    BY <1>4, Zenon
  <2>2. Slope(q[n], xa, ya, xb, yb)
    BY <1>2, Zenon DEF Threads, N
  <2> QED
    BY <2>1, <2>2, Zenon
<1> QED
  BY <1>5, <1>6, <1>8, <1>9, <1>10, Zenon DEF L

-----------------------------------------------------------------------------
(* Circles *)

NextPoint(p) ==
    IF p.dp < 0 THEN [x |-> p.x + 1, y |-> p.y, dp |-> p.dp + 2 * p.x + 3]
    ELSE [x |-> p.x + 1, y |-> p.y - 1, dp |-> p.dp + 2 * p.x - 2 * p.y + 5]
Point == [x : Int, y : Int, dp : Int]

LEMMA NextPointIs ==
    ASSUME NEW p \in Point
    PROVE  /\ NextPoint(p) \in Point
           /\ NextPoint(p).x = p.x + 1
           /\ NextPoint(p).y = IF p.dp < 0 THEN p.y ELSE p.y - 1
           /\ NextPoint(p).dp = IF p.dp < 0 THEN p.dp + 2 * p.x + 3
                                ELSE p.dp + 2 * p.x - 2 * p.y + 5
BY DEF NextPoint, Point

\* The points of an octant, one after the other.
LEMMA OctantEquation ==
    ASSUME NEW r \in Int, NEW last, last = AtLeast(r, 1)
    PROVE  /\ Octant(r)[0] = [x |-> 0, y |-> r, dp |-> 1 - r]
           /\ \A n \in 1..last : Octant(r)[n] = NextPoint(Octant(r)[n - 1])
           /\ \A n \in 0..last : Octant(r)[n] \in Point
<1> DEFINE V == Point
           k == last
           e == [x |-> 0, y |-> r, dp |-> 1 - r]
           Go(x, n) == NextPoint(x)
           G == [n \in 1..k |-> [x \in V |-> Go(x, n)]]
           h(g) == [n \in 0..k |-> IF n = 0 THEN e ELSE Go(g[n - 1], n)]
           J == Octant(r)
<1>1. k \in Nat /\ e \in V
  BY DEF AtLeast, Point
<1>2. ASSUME NEW n \in 1..k, NEW x \in V
      PROVE  Go(x, n) \in V
  BY DEF NextPoint, Point
<1>3. J = CHOOSE g : g = h(g)
  BY DEF Octant, NextPoint
<1> HIDE DEF V, k, e, J, Go
<1>4. (\A n \in 1..k : n \in 0..k /\ n - 1 \in 0..k /\ n # 0) /\ 0 \in 0..k
  BY <1>1
<1>5. G \in [1..k -> [V -> V]]
  BY <1>1, <1>2, Zenon
<1>6. PICK g : Recurs(g, V, e, k, G)
  <2> HIDE DEF G
  <2> QED
    BY <1>1, <1>5, Recursion, Zenon
<1>7. ASSUME NEW n \in 1..k
      PROVE  g[n] = Go(g[n - 1], n)
  <2>1. g[n - 1] \in V /\ g[n] = G[n][g[n - 1]]
    <3> HIDE DEF G
    <3> QED
      BY <1>4, <1>6, Zenon DEF Recurs
  <2> QED
    BY <2>1, Zenon
<1> HIDE DEF G
<1>8. g = h(g)
  <2>1. \A n \in 0..k : n # 0 => n \in 1..k
    BY <1>1
  <2>2. g \in [0..k -> V] /\ g[0] = e
    BY <1>6, Zenon DEF Recurs
  <2>3. \A n \in 0..k : g[n] = IF n = 0 THEN e ELSE Go(g[n - 1], n)
    BY <1>7, <2>1, <2>2, Zenon
  <2> QED
    BY <2>2, <2>3, Zenon
<1>9. J = h(J)
  <2> HIDE DEF h
  <2> QED
    BY <1>3, <1>8, Zenon
<1>10. J[0] = e /\ \A n \in 1..k : J[n] = Go(J[n - 1], n)
  <2>1. \A n \in 0..k : h(J)[n] = IF n = 0 THEN e ELSE Go(J[n - 1], n)
    BY Zenon
  <2> HIDE DEF h
  <2> QED
    BY <1>4, <1>9, <2>1, Zenon
<1>11. \A n \in 0..k : J[n] \in V
  <2> DEFINE T == {n \in 0..k : J[n] \in V}
  <2>1. 0 \in T
    BY <1>1, <1>4, <1>10, Zenon
  <2>2. \A n \in 1..k : n - 1 \in T => n \in T
    BY <1>2, <1>4, <1>10, Zenon
  <2>3. \A n \in 0..k : n \in T
    <3> HIDE DEF T
    <3> QED
      BY <1>1, <2>1, <2>2, Upwards, Zenon
  <2> QED
    BY <2>3, Zenon
<1> QED
  BY <1>10, <1>11, Zenon DEF V, k, e, J, Go

\* The error of a point tells which side of the circle the next one is on.
Errs(r, x, y, dp) == dp = (x + 1) * (x + 1) + y * y - y - r * r

LEMMA ErrsOn ==
    ASSUME NEW r \in Int, NEW x \in Int, NEW y \in Int, NEW dp \in Int, Errs(r, x, y, dp)
    PROVE  /\ Errs(r, x + 1, y, dp + 2 * x + 3)
           /\ Errs(r, x + 1, y - 1, dp + 2 * x - 2 * y + 5)
BY DEF Errs

\* A point is half a pixel from the circle, or nearer.
Near(r, x, y) == r * r - r < x * x + y * y /\ x * x + y * y <= r * r + r

LEMMA NearOn ==
    ASSUME NEW r \in Int, NEW x \in Nat, NEW y \in Int, NEW dp \in Int,
           Errs(r, x, y, dp), Near(r, x, y), x < y, y <= r
    PROVE  /\ dp < 0 => Near(r, x + 1, y)
           /\ dp >= 0 => Near(r, x + 1, y - 1)
<1> DEFINE s == x * x + y * y
           rr == r * r
<1>1. s \in Int /\ rr \in Int
  OBVIOUS
<1>2. /\ (x + 1) * (x + 1) + y * y = s + 2 * x + 1
      /\ (x + 1) * (x + 1) + (y - 1) * (y - 1) = s + 2 * x - 2 * y + 2
  OBVIOUS
<1>3. dp = s + 2 * x + 1 - y - rr
  BY <1>2 DEF Errs
<1>4. rr - r < s /\ s <= rr + r
  BY DEF Near
<1> DEFINE a == (x + 1) * (x + 1) + y * y
           b == (x + 1) * (x + 1) + (y - 1) * (y - 1)
<1>5. a = s + 2 * x + 1 /\ b = s + 2 * x - 2 * y + 2
  BY <1>2
<1> HIDE DEF s, rr, a, b
<1>6. dp < 0 => rr - r < a /\ a <= rr + r
  BY <1>1, <1>3, <1>4, <1>5
<1>7. dp >= 0 => rr - r < b /\ b <= rr + r
  BY <1>1, <1>3, <1>4, <1>5
<1> QED
  BY <1>6, <1>7, Zenon DEF Near, a, b, rr

\* They go on by one column each, never up.
Goes(r, p, n) ==
    /\ p.x = n /\ p.y \in Int /\ p.y <= r
    /\ p.dp \in Int /\ Errs(r, p.x, p.y, p.dp)

LEMMA OctantPoints ==
    ASSUME NEW r \in Nat, NEW last, last = AtLeast(r, 1), NEW at, at = Octant(r)
    PROVE  \A n \in 0..last : Goes(r, at[n], n)
<1> DEFINE T == {n \in 0..last : /\ at[n].x = n /\ at[n].y \in Int /\ at[n].y <= r
                                 /\ at[n].dp \in Int /\ Errs(r, at[n].x, at[n].y, at[n].dp)}
<1>1. last \in Nat /\ last >= 1
  BY DEF AtLeast
<1>2. /\ at[0] = [x |-> 0, y |-> r, dp |-> 1 - r]
      /\ \A n \in 1..last : at[n] = NextPoint(at[n - 1])
      /\ \A n \in 0..last : at[n] \in Point
  <2>1. r \in Int
    OBVIOUS
  <2> QED
    BY <2>1, OctantEquation, Zenon
<1>3. 0 \in T
  <2>1. at[0].x = 0 /\ at[0].y = r /\ at[0].dp = 1 - r /\ 0 \in 0..last
    BY <1>1, <1>2
  <2>2. Errs(r, 0, r, 1 - r)
    BY DEF Errs
  <2>3. r \in Int /\ 1 - r \in Int /\ r <= r
    OBVIOUS
  <2> QED
    BY <2>1, <2>2, <2>3, Zenon
<1>4. ASSUME NEW n \in 1..last, n - 1 \in T
      PROVE  n \in T
  <2> DEFINE p == at[n - 1]
  <2>1. n \in 0..last /\ n - 1 \in 0..last /\ (n - 1) + 1 = n /\ n - 1 \in Int
    BY <1>1
  <2>2. /\ p \in Point /\ at[n] = NextPoint(p) /\ p.x = n - 1 /\ p.y \in Int /\ p.y <= r
        /\ p.dp \in Int /\ Errs(r, p.x, p.y, p.dp)
    BY <1>2, <1>4, <2>1, Zenon
  <2> HIDE DEF p
  <2>3. /\ at[n].x = p.x + 1
        /\ at[n].y = IF p.dp < 0 THEN p.y ELSE p.y - 1
        /\ at[n].dp = IF p.dp < 0 THEN p.dp + 2 * p.x + 3 ELSE p.dp + 2 * p.x - 2 * p.y + 5
    BY <2>2, NextPointIs
  <2> DEFINE px == p.x
             py == p.y
             dp == p.dp
             q == at[n]
  <2>4. /\ px \in Int /\ py \in Int /\ dp \in Int /\ py <= r /\ Errs(r, px, py, dp) /\ px = n - 1
        /\ q.x = px + 1
        /\ q.y = IF dp < 0 THEN py ELSE py - 1
        /\ q.dp = IF dp < 0 THEN dp + 2 * px + 3 ELSE dp + 2 * px - 2 * py + 5
    BY <2>1, <2>2, <2>3, Zenon
  <2> HIDE DEF px, py, dp, q
  <2>5. Errs(r, px + 1, py, dp + 2 * px + 3) /\ Errs(r, px + 1, py - 1, dp + 2 * px - 2 * py + 5)
    BY <2>4, ErrsOn
  <2>6. q.x = n /\ q.y \in Int /\ q.y <= r /\ q.dp \in Int
    BY <2>4, <2>1
  <2>7. Errs(r, q.x, q.y, q.dp)
    BY <2>4, <2>5, Zenon
  <2> QED
    BY <2>1, <2>6, <2>7, Zenon DEF q
<1>5. \A n \in 0..last : n \in T
  <2> HIDE DEF T
  <2> QED
    BY <1>1, <1>3, <1>4, Upwards, Zenon
<1> QED
  BY <1>5, Zenon DEF Goes

\* So one of them is the first that is not below the diagonal.
FirstOnDiagonal(at, n) == ~Below(at[n]) /\ \A m \in 1..n - 1 : Below(at[m])

LEMMA DiagonalIs ==
    ASSUME NEW r \in Nat, NEW last, last = AtLeast(r, 1)
    PROVE  Diagonal(r) \in 1..last /\ FirstOnDiagonal(Octant(r), Diagonal(r))
<1> DEFINE at == Octant(r)
           T == {n \in 1..last : ~Below(at[n])}
<1>1. last \in Nat /\ last >= 1 /\ last >= r
  BY DEF AtLeast
<1>2. last \in T
  <2>1. last \in 0..last
    BY <1>1
  <2>2. at[last].x = last /\ at[last].y \in Int /\ at[last].y <= r
    <3>1. Goes(r, at[last], last)
      BY <2>1, OctantPoints
    <3> QED
      BY <3>1, Zenon DEF Goes
  <2> HIDE DEF at
  <2> QED
    BY <1>1, <2>2 DEF Below
<1>3. T \in SUBSET Nat
  BY <1>1
<1>4. PICK n \in T : \A m \in T : n <= m
  <2> HIDE DEF T
  <2> QED
    BY <1>2, <1>3, LeastNumber
<1>5. n \in 1..last /\ FirstOnDiagonal(at, n)
  <2>1. ASSUME NEW m \in 1..n - 1
        PROVE  Below(at[m])
    <3>1. m \in 1..last /\ ~(n <= m)
      BY <1>1
    <3> QED
      BY <1>4, <3>1
  <2> QED
    BY <1>4, <2>1 DEF FirstOnDiagonal
<1>6. Diagonal(r) = CHOOSE i \in 1..last : FirstOnDiagonal(at, i)
  BY Zenon DEF Diagonal, FirstOnDiagonal
<1> HIDE DEF at
<1>7. Diagonal(r) \in 1..last /\ FirstOnDiagonal(at, Diagonal(r))
  BY <1>5, <1>6, Zenon
<1> QED
  BY <1>7, Zenon DEF at

\* All that are drawn are near the circle.
OctantPoint(r, p) ==
    /\ p.x \in 0..r /\ p.y \in 0..r
    /\ Near(r, p.x, p.y)

LEMMA OctantIsNear ==
    ASSUME NEW r \in Nat \ {0}, NEW at, at = Octant(r)
    PROVE  Diagonal(r) \in Nat /\ \A n \in 0..Diagonal(r) : OctantPoint(r, at[n])
<1> DEFINE last == AtLeast(r, 1)
           D == Diagonal(r)
           T == {n \in 0..D : OctantPoint(r, at[n])}
<1>1. last = r /\ r \in Nat
  BY DEF AtLeast
<1> HIDE DEF last
<1>2. D \in 1..last /\ FirstOnDiagonal(at, D)
  BY <1>1, DiagonalIs DEF last
<1> HIDE DEF D
<1>3. \A n \in 0..last : /\ at[n].x = n /\ at[n].y \in Int /\ at[n].y <= r
                         /\ at[n].dp \in Int /\ Errs(r, at[n].x, at[n].y, at[n].dp)
  <2>1. \A n \in 0..last : Goes(r, at[n], n)
    BY <1>1, OctantPoints DEF last
  <2> QED
    BY <2>1, Zenon DEF Goes
<1>4. /\ at[0] = [x |-> 0, y |-> r, dp |-> 1 - r]
      /\ \A n \in 1..last : at[n] = NextPoint(at[n - 1])
      /\ \A n \in 0..last : at[n] \in Point
  <2>1. r \in Int
    OBVIOUS
  <2> QED
    BY <2>1, OctantEquation, Zenon DEF last
<1>5. \A n \in 0..D - 1 : Below(at[n])
  <2> TAKE n \in 0..D - 1
  <2>1. CASE n = 0
    <3>1. at[0].x = 0 /\ at[0].y = r
      BY <1>4
    <3> QED
      BY <2>1, <3>1 DEF Below
  <2>2. CASE n # 0
    <3>1. n \in 1..D - 1
      BY <1>1, <1>2, <2>2
    <3> QED
      BY <1>2, <3>1, Zenon DEF FirstOnDiagonal
  <2> QED
    BY <2>1, <2>2
<1>6. 0 \in T
  <2>1. at[0].x = 0 /\ at[0].y = r /\ 0 \in 0..D
    BY <1>1, <1>2, <1>4
  <2>2. Near(r, 0, r) /\ 0 \in 0..r /\ r \in 0..r
    <3>1. r * r - r < r * r /\ r * r <= r * r + r
      <4> DEFINE rr == r * r
      <4>1. rr \in Int /\ r > 0
        OBVIOUS
      <4> HIDE DEF rr
      <4>2. rr - r < rr /\ rr <= rr + r
        BY <4>1
      <4> QED
        BY <4>2 DEF rr
    <3>2. 0 * 0 + r * r = r * r
      OBVIOUS
    <3> QED
      BY <3>1, <3>2 DEF Near
  <2> QED
    BY <2>1, <2>2, Zenon DEF OctantPoint
<1>7. ASSUME NEW n \in 1..D, n - 1 \in T
      PROVE  n \in T
  <2> DEFINE p == at[n - 1]
             q == at[n]
  <2>1. n \in 0..D /\ n \in 1..last /\ n - 1 \in 0..last /\ n \in 0..last /\ n - 1 \in 0..D - 1
    BY <1>1, <1>2
  <2>2. p \in Point /\ q = NextPoint(p)
    BY <1>4, <2>1, Zenon
  <2>3. /\ p.x = n - 1 /\ p.y \in Int /\ p.y <= r /\ p.dp \in Int /\ Errs(r, p.x, p.y, p.dp)
        /\ q.x = n /\ q.y \in Int /\ q.y <= r
    BY <1>3, <2>1, Zenon
  <2>4. Below(p) /\ OctantPoint(r, p)
    BY <1>5, <1>7, <2>1, Zenon
  <2> HIDE DEF p, q
  <2>5. q.x = p.x + 1 /\ q.y = IF p.dp < 0 THEN p.y ELSE p.y - 1
    BY <2>2, NextPointIs
  <2> DEFINE px == p.x
             py == p.y
             dp == p.dp
             qx == q.x
             qy == q.y
  <2>6. /\ px \in 0..r /\ py \in 0..r /\ dp \in Int /\ px < py /\ Errs(r, px, py, dp)
        /\ Near(r, px, py) /\ qx = px + 1 /\ qy = (IF dp < 0 THEN py ELSE py - 1)
    BY <2>3, <2>4, <2>5 DEF OctantPoint, Below
  <2> HIDE DEF px, py, dp, qx, qy
  <2>7. /\ dp < 0 => Near(r, px + 1, py)
        /\ dp >= 0 => Near(r, px + 1, py - 1)
    <3>1. px \in Nat /\ py \in Int /\ py <= r /\ r \in Int
      BY <2>6
    <3> QED
      BY <2>6, <3>1, NearOn
  <2>8. Near(r, qx, qy)
    <3>1. dp < 0 \/ dp >= 0
      BY <2>6
    <3>2. CASE dp < 0
      BY <2>6, <2>7, <3>2, Zenon
    <3>3. CASE dp >= 0
      <4>1. ~(dp < 0)
        BY <2>6, <3>3
      <4> QED
        BY <2>6, <2>7, <3>3, <4>1, Zenon
    <3> QED
      BY <3>1, <3>2, <3>3
  <2>9. qx \in 0..r /\ qy \in 0..r
    BY <2>6
  <2>10. OctantPoint(r, q)
    BY <2>8, <2>9, Zenon DEF OctantPoint, qx, qy
  <2> QED
    BY <2>1, <2>10, Zenon DEF q
<1>8. \A n \in 0..D : n \in T
  <2>1. D \in Nat
    BY <1>1, <1>2
  <2> HIDE DEF T
  <2> QED
    BY <2>1, <1>6, <1>7, Upwards, Zenon
<1>9. D \in Nat
  BY <1>1, <1>2
<1> QED
  BY <1>8, <1>9, Zenon DEF D

Pixels(strokes) == UNION Range(strokes)
Pixel   == Int \X Int
Stroke  == SUBSET Pixel
StrokeSeq == Seq(Stroke)

LEMMA PixelsOf ==
    ASSUME NEW strokes, NEW p
    PROVE  p \in Pixels(strokes) <=> \E n \in DOMAIN strokes : p \in strokes[n]
<1>1. p \in Pixels(strokes) <=> \E t \in Range(strokes) : p \in t
  BY Zenon DEF Pixels
<1>2. \A t : t \in Range(strokes) <=> \E n \in DOMAIN strokes : t = strokes[n]
  BY Zenon DEF Range
<1> QED
  BY <1>1, <1>2, Zenon

LEMMA PixelsJoin ==
    ASSUME NEW s \in StrokeSeq, NEW t \in StrokeSeq
    PROVE  s \o t \in StrokeSeq /\ Pixels(s \o t) = Pixels(s) \union Pixels(t)
<1>1. Range(s \o t) = Range(s) \union Range(t)
  BY JoinRange, ZenonT(60) DEF StrokeSeq
<1>2. s \o t \in StrokeSeq
  <2> DEFINE S == Stroke
  <2>1. s \in Seq(S) /\ t \in Seq(S)
    BY Zenon DEF StrokeSeq
  <2> HIDE DEF S
  <2>2. s \o t \in Seq(S)
    BY <2>1
  <2> QED
    BY <2>2, Zenon DEF S, StrokeSeq
<1> QED
  BY <1>1, <1>2, Zenon DEF Pixels

LEMMA JoinedPixels ==
    ASSUME NEW f, NEW k \in Nat, DOMAIN f = 1..k, f = [n \in 1..k |-> f[n]],
           \A n \in 1..k : f[n] \in StrokeSeq
    PROVE  /\ Joined(f) \in StrokeSeq
           /\ \A v : v \in Pixels(Joined(f)) <=> \E n \in 1..k : v \in Pixels(f[n])
<1> DEFINE S == Stroke
           V == Seq(S)
<1>1. f \in Seq(V)
  <2> HIDE DEF V
  <2>1. \A n \in 1..k : f[n] \in V
    BY Zenon DEF V, StrokeSeq
  <2>2. f \in [1..k -> V]
    BY <2>1, Zenon
  <2> QED
    BY <2>2
<1> HIDE DEF S
<1>2. Joined(f) \in V /\ \A v : v \in Range(Joined(f)) <=> \E n \in 1..k : v \in Range(f[n])
  <2>1. f \in Seq(Seq(S))
    BY <1>1, Zenon
  <2>2. Joined(f) \in Seq(S) /\ \A v : v \in Range(Joined(f)) <=> \E n \in DOMAIN f : v \in Range(f[n])
    BY <2>1, JoinedRange, Zenon
  <2> QED
    BY <2>2, Zenon
<1>3. Joined(f) \in StrokeSeq
  BY <1>2, Zenon DEF S, StrokeSeq
<1>4. \A v : v \in Pixels(Joined(f)) <=> \E n \in 1..k : v \in Pixels(f[n])
  <2> TAKE v
  <2>1. v \in Pixels(Joined(f)) <=> \E t \in Range(Joined(f)) : v \in t
    BY Zenon DEF Pixels
  <2>2. \A n \in 1..k : v \in Pixels(f[n]) <=> \E t \in Range(f[n]) : v \in t
    BY Zenon DEF Pixels
  <2>3. \A t : t \in Range(Joined(f)) <=> \E n \in 1..k : t \in Range(f[n])
    BY <1>2, Zenon
  <2> QED
    BY <2>1, <2>2, <2>3, Zenon
<1> QED
  BY <1>3, <1>4, Zenon

LEMMA PixelsJoined ==
    ASSUME NEW f, NEW k \in Nat, DOMAIN f = 1..k, f = [n \in 1..k |-> f[n]],
           \A n \in 1..k : f[n] \in StrokeSeq,
           NEW tail \in StrokeSeq
    PROVE  /\ Joined(f) \o tail \in StrokeSeq
           /\ \A v : v \in Pixels(Joined(f) \o tail)
                        <=> v \in Pixels(tail) \/ \E n \in 1..k : v \in Pixels(f[n])
<1>1. /\ Joined(f) \in StrokeSeq
      /\ \A v : v \in Pixels(Joined(f)) <=> \E n \in 1..k : v \in Pixels(f[n])
  BY JoinedPixels, Zenon
<1>2. /\ Joined(f) \o tail \in StrokeSeq
      /\ Pixels(Joined(f) \o tail) = Pixels(Joined(f)) \union Pixels(tail)
  BY <1>1, PixelsJoin, Zenon
<1> QED
  BY <1>1, <1>2, Zenon

\* Few strokes.
LEMMA OneStroke ==
    ASSUME NEW a \in Stroke
    PROVE  << a >> \in StrokeSeq /\ Pixels(<< a >>) = a
<1> DEFINE s == << a >>
<1>1. DOMAIN s = {1} /\ s[1] = a
  OBVIOUS
<1>2. s \in StrokeSeq
  BY DEF StrokeSeq
<1> HIDE DEF s
<1>3. \A p : p \in Pixels(s) <=> p \in a
  BY <1>1, PixelsOf, Zenon
<1> QED
  BY <1>2, <1>3, Zenon DEF s

LEMMA TwoStrokes ==
    ASSUME NEW a \in Stroke, NEW b \in Stroke
    PROVE  << a, b >> \in StrokeSeq /\ Pixels(<< a, b >>) = a \union b
<1> DEFINE s == << a, b >>
<1>1. DOMAIN s = {1, 2} /\ s[1] = a /\ s[2] = b
  OBVIOUS
<1>2. s \in StrokeSeq
  BY DEF StrokeSeq
<1> HIDE DEF s
<1>3. \A p : p \in Pixels(s) <=> p \in a \union b
  BY <1>1, PixelsOf, Zenon
<1> QED
  BY <1>2, <1>3, Zenon DEF s

LEMMA FourStrokes ==
    ASSUME NEW a \in Stroke, NEW b \in Stroke, NEW c \in Stroke,
           NEW d \in Stroke
    PROVE  /\ << a, b, c, d >> \in StrokeSeq
           /\ Pixels(<< a, b, c, d >>) = a \union b \union c \union d
<1> DEFINE s == << a, b, c, d >>
<1>1. DOMAIN s = {1, 2, 3, 4} /\ s[1] = a /\ s[2] = b /\ s[3] = c /\ s[4] = d
  OBVIOUS
<1>2. s \in StrokeSeq
  BY DEF StrokeSeq
<1> HIDE DEF s
<1>3. \A p : p \in Pixels(s) <=> p \in a \union b \union c \union d
  BY <1>1, PixelsOf, Zenon
<1> QED
  BY <1>2, <1>3, Zenon DEF s

Paints(strokes, pixels) == strokes \in StrokeSeq /\ Pixels(strokes) = pixels

LEMMA EightStrokes ==
    ASSUME NEW a \in Stroke, NEW b \in Stroke, NEW c \in Stroke,
           NEW d \in Stroke, NEW e \in Stroke, NEW f \in Stroke,
           NEW g \in Stroke, NEW h \in Stroke
    PROVE  Paints(<< a, b, c, d, e, f, g, h >>,
                  (a \union b \union c \union d) \union (e \union f \union g \union h))
<1> DEFINE s == << a, b, c, d, e, f, g, h >>
<1>1. /\ DOMAIN s = 1..8
      /\ s[1] = a /\ s[2] = b /\ s[3] = c /\ s[4] = d
      /\ s[5] = e /\ s[6] = f /\ s[7] = g /\ s[8] = h
  OBVIOUS
<1>2. s \in StrokeSeq
  BY DEF StrokeSeq
<1>3. 1..8 = {1, 2, 3, 4, 5, 6, 7, 8}
  OBVIOUS
<1> HIDE DEF s
<1>4. \A p : p \in Pixels(s)
             <=> p \in (a \union b \union c \union d) \union (e \union f \union g \union h)
  <2> TAKE p
  <2>1. p \in Pixels(s) <=> \E n \in {1, 2, 3, 4, 5, 6, 7, 8} : p \in s[n]
    BY <1>1, <1>3, PixelsOf, Zenon
  <2>2. (\E n \in {1, 2, 3, 4, 5, 6, 7, 8} : p \in s[n])
        <=> \/ p \in s[1] \/ p \in s[2] \/ p \in s[3] \/ p \in s[4]
            \/ p \in s[5] \/ p \in s[6] \/ p \in s[7] \/ p \in s[8]
    BY Zenon
  <2> QED
    BY <1>1, <2>1, <2>2, Zenon
<1> QED
  BY <1>2, <1>4, Zenon DEF s, Paints

\* The eight points of a circle that are drawn for one of an octant, and the four on
\* its axes.
Eight(x, y, a, b) ==
    ({<<x + a, y + b>>} \union {<<x - a, y + b>>} \union {<<x + a, y - b>>} \union {<<x - a, y - b>>})
    \union
    ({<<x + b, y + a>>} \union {<<x - b, y + a>>} \union {<<x + b, y - a>>} \union {<<x - b, y - a>>})
Axes(x, y, r) ==
    {<<x + r, y>>} \union {<<x, y + r>>} \union {<<x - r, y>>} \union {<<x, y - r>>}
OnCircle(v, x, y, r) ==
    v \in Axes(x, y, r)
    \/ \E n \in 1..Diagonal(r) : v \in Eight(x, y, Octant(r)[n].x, Octant(r)[n].y)

LEMMA Dot ==
    ASSUME NEW a \in Int, NEW b \in Int
    PROVE  {<<a, b>>} \in Stroke
BY DEF Pixel, Stroke

LEMMA Dots ==
    ASSUME NEW x \in Int, NEW y \in Int, NEW a \in Int, NEW b \in Int
    PROVE  /\ {<<x + a, y + b>>} \in Stroke /\ {<<x - a, y + b>>} \in Stroke
           /\ {<<x + a, y - b>>} \in Stroke /\ {<<x - a, y - b>>} \in Stroke
           /\ {<<x + a, y>>} \in Stroke /\ {<<x, y + b>>} \in Stroke
           /\ {<<x - a, y>>} \in Stroke /\ {<<x, y - b>>} \in Stroke
<1>1. /\ x + a \in Int /\ x - a \in Int /\ y + b \in Int /\ y - b \in Int
  OBVIOUS
<1> QED
  BY <1>1, Dot, Zenon

LEMMA OctantTyped ==
    ASSUME NEW r \in Nat
    PROVE  /\ Diagonal(r) \in Nat /\ Diagonal(r) <= AtLeast(r, 1)
           /\ \A n \in 1..Diagonal(r) : Octant(r)[n].x \in Int /\ Octant(r)[n].y \in Int
<1> DEFINE last == AtLeast(r, 1)
           D == Diagonal(r)
<1>1. last \in Nat
  BY DEF AtLeast
<1>2. D \in 1..last
  BY DiagonalIs, Zenon
<1>3. \A n \in 0..last : Octant(r)[n] \in Point
  <2>1. r \in Int
    OBVIOUS
  <2> QED
    BY <2>1, OctantEquation, Zenon
<1> HIDE DEF last, D
<1>4. D \in Nat /\ D <= last /\ \A n \in 1..D : n \in 0..last
  BY <1>1, <1>2
<1>5. \A p \in Point : p.x \in Int /\ p.y \in Int
  BY DEF Point
<1> QED
  BY <1>3, <1>4, <1>5, Zenon DEF last, D

LEMMA CircleIs ==
    ASSUME NEW x \in Int, NEW y \in Int, NEW r \in Nat
    PROVE  \A v : v \in Pixels(Circle(x, y, r)) <=> OnCircle(v, x, y, r)
<1> DEFINE at == Octant(r)
           D == Diagonal(r)
           S(a, b) == << {<<x + a, y + b>>}, {<<x - a, y + b>>},
                         {<<x + a, y - b>>}, {<<x - a, y - b>>},
                         {<<x + b, y + a>>}, {<<x - b, y + a>>},
                         {<<x + b, y - a>>}, {<<x - b, y - a>>} >>
           f == [n \in 1..D |-> S(at[n].x, at[n].y)]
           tail == << {<<x + r, y>>}, {<<x, y + r>>}, {<<x - r, y>>}, {<<x, y - r>>} >>
           F == [n \in DOMAIN DoWhile(r) |->
                   LET p == DoWhile(r)[n]
                   IN  << {<<x + p.x, y + p.y>>}, {<<x - p.x, y + p.y>>},
                          {<<x + p.x, y - p.y>>}, {<<x - p.x, y - p.y>>},
                          {<<x + p.y, y + p.x>>}, {<<x - p.y, y + p.x>>},
                          {<<x + p.y, y - p.x>>}, {<<x - p.y, y - p.x>>} >>]
<1>1. Circle(x, y, r) = Joined(F) \o tail
  BY Zenon DEF Circle
<1>2. DOMAIN DoWhile(r) = 1..D /\ \A n \in 1..D : DoWhile(r)[n] = at[n]
  BY Zenon DEF DoWhile
<1>3. F = f
  BY <1>2, Zenon
<1>4. D \in Nat /\ \A n \in 1..D : at[n].x \in Int /\ at[n].y \in Int
  BY OctantTyped, Zenon
<1>5. ASSUME NEW a \in Int, NEW b \in Int
      PROVE  S(a, b) \in StrokeSeq /\ Pixels(S(a, b)) = Eight(x, y, a, b)
  <2> DEFINE p1 == {<<x + a, y + b>>}
             p2 == {<<x - a, y + b>>}
             p3 == {<<x + a, y - b>>}
             p4 == {<<x - a, y - b>>}
             p5 == {<<x + b, y + a>>}
             p6 == {<<x - b, y + a>>}
             p7 == {<<x + b, y - a>>}
             p8 == {<<x - b, y - a>>}
  <2>1. /\ p1 \in Stroke /\ p2 \in Stroke
        /\ p3 \in Stroke /\ p4 \in Stroke
        /\ p5 \in Stroke /\ p6 \in Stroke
        /\ p7 \in Stroke /\ p8 \in Stroke
    BY Dots, Zenon
  <2>2. /\ S(a, b) = << p1, p2, p3, p4, p5, p6, p7, p8 >>
        /\ Eight(x, y, a, b) = (p1 \union p2 \union p3 \union p4) \union (p5 \union p6 \union p7 \union p8)
    BY Zenon DEF Eight
  <2> HIDE DEF S, p1, p2, p3, p4, p5, p6, p7, p8
  <2>3. Paints(<< p1, p2, p3, p4, p5, p6, p7, p8 >>,
               (p1 \union p2 \union p3 \union p4) \union (p5 \union p6 \union p7 \union p8))
    BY <2>1, EightStrokes, ZenonT(60)
  <2> QED
    BY <2>2, <2>3, Zenon DEF Paints
<1>6. tail \in StrokeSeq /\ Pixels(tail) = Axes(x, y, r)
  <2>1. r \in Int
    OBVIOUS
  <2> DEFINE p1 == {<<x + r, y>>}
             p2 == {<<x, y + r>>}
             p3 == {<<x - r, y>>}
             p4 == {<<x, y - r>>}
  <2>2. /\ p1 \in Stroke /\ p2 \in Stroke
        /\ p3 \in Stroke /\ p4 \in Stroke
    BY <2>1, Dots, Zenon
  <2>3. tail = << p1, p2, p3, p4 >> /\ Axes(x, y, r) = p1 \union p2 \union p3 \union p4
    BY Zenon DEF Axes
  <2> HIDE DEF tail, p1, p2, p3, p4
  <2>4. /\ << p1, p2, p3, p4 >> \in StrokeSeq
        /\ Pixels(<< p1, p2, p3, p4 >>) = p1 \union p2 \union p3 \union p4
    BY <2>2, FourStrokes
  <2> QED
    BY <2>3, <2>4, Zenon
<1> HIDE DEF S, F, at, D, tail
<1>7. /\ DOMAIN f = 1..D /\ f = [n \in 1..D |-> f[n]]
      /\ \A n \in 1..D : f[n] \in StrokeSeq /\ Pixels(f[n]) = Eight(x, y, at[n].x, at[n].y)
  BY <1>4, <1>5, Zenon
<1> HIDE DEF f
<1>8. \A v : v \in Pixels(Joined(f) \o tail)
             <=> v \in Pixels(tail) \/ \E n \in 1..D : v \in Pixels(f[n])
  <2>1. \A n \in 1..D : f[n] \in StrokeSeq
    BY <1>7, Zenon
  <2> QED
    BY <1>4, <1>6, <1>7, <2>1, PixelsJoined, Zenon
<1> QED
  BY <1>1, <1>3, <1>6, <1>7, <1>8, ZenonT(60) DEF OnCircle, at, D

\* It is the same near the circle in each octant.
Around(v, x, y, r) == v \in Pixel /\ Near(r, v[1] - x, v[2] - y)
Within(v, x, y, r) ==
    v \in Pixel /\ v[1] - x \in -r..r /\ v[2] - y \in -r..r

LEMMA NearTurns ==
    ASSUME NEW r \in Nat, NEW a \in 0..r, NEW b \in 0..r, Near(r, a, b)
    PROVE  /\ Near(r, a, b) /\ Near(r, -a, b) /\ Near(r, a, -b) /\ Near(r, -a, -b)
           /\ Near(r, b, a) /\ Near(r, -b, a) /\ Near(r, b, -a) /\ Near(r, -b, -a)
<1>1. a \in Int /\ b \in Int /\ (-a) * (-a) = a * a /\ (-b) * (-b) = b * b
      /\ a * a + b * b = b * b + a * a
  OBVIOUS
<1> QED
  BY <1>1, Zenon DEF Near

LEMMA DotAround ==
    ASSUME NEW x \in Int, NEW y \in Int, NEW r \in Nat, NEW c \in -r..r, NEW d \in -r..r,
           Near(r, c, d), NEW v, v[1] = x + c, v[2] = y + d, v \in Pixel
    PROVE  Around(v, x, y, r) /\ Within(v, x, y, r)
<1>1. v[1] - x = c /\ v[2] - y = d
  OBVIOUS
<1> QED
  BY <1>1, Zenon DEF Around, Within

LEMMA EightAround ==
    ASSUME NEW x \in Int, NEW y \in Int, NEW r \in Nat, NEW a \in 0..r, NEW b \in 0..r,
           Near(r, a, b), NEW v \in Eight(x, y, a, b)
    PROVE  Around(v, x, y, r) /\ Within(v, x, y, r)
<1>1. /\ a \in -r..r /\ -a \in -r..r /\ b \in -r..r /\ -b \in -r..r
      /\ x + (-a) = x - a /\ x + (-b) = x - b /\ y + (-a) = y - a /\ y + (-b) = y - b
  OBVIOUS
<1>2. v \in Pixel
  BY DEF Eight, Pixel
<1>3. \/ v[1] = x + a /\ v[2] = y + b
      \/ v[1] = x - a /\ v[2] = y + b
      \/ v[1] = x + a /\ v[2] = y - b
      \/ v[1] = x - a /\ v[2] = y - b
      \/ v[1] = x + b /\ v[2] = y + a
      \/ v[1] = x - b /\ v[2] = y + a
      \/ v[1] = x + b /\ v[2] = y - a
      \/ v[1] = x - b /\ v[2] = y - a
  BY DEF Eight
<1>4. \E c, d \in -r..r : Near(r, c, d) /\ v[1] = x + c /\ v[2] = y + d
  BY <1>1, <1>3, NearTurns, Zenon
<1> QED
  BY <1>2, <1>4, DotAround, Zenon

LEMMA AxesAround ==
    ASSUME NEW x \in Int, NEW y \in Int, NEW r \in Nat \ {0}, NEW v \in Axes(x, y, r)
    PROVE  Around(v, x, y, r) /\ Within(v, x, y, r)
<1>1. /\ r \in -r..r /\ -r \in -r..r /\ 0 \in -r..r /\ 0 \in 0..r /\ r \in 0..r /\ r \in Nat
      /\ x + (-r) = x - r /\ y + (-r) = y - r /\ x + 0 = x /\ y + 0 = y
  <2>1. r \in Nat
    OBVIOUS
  <2>2. r \in -r..r /\ -r \in -r..r /\ 0 \in -r..r /\ 0 \in 0..r /\ r \in 0..r
    BY <2>1
  <2>3. x + (-r) = x - r /\ y + (-r) = y - r
    BY <2>1
  <2>4. x + 0 = x /\ y + 0 = y
    OBVIOUS
  <2> QED
    BY <2>1, <2>2, <2>3, <2>4
<1>2. Near(r, 0, r)
  <2>1. r * r - r < r * r /\ r * r <= r * r + r
    <3> DEFINE rr == r * r
    <3>1. rr \in Int /\ r > 0
      OBVIOUS
    <3> HIDE DEF rr
    <3>2. rr - r < rr /\ rr <= rr + r
      BY <3>1
    <3> QED
      BY <3>2 DEF rr
  <2>2. 0 * 0 + r * r = r * r
    OBVIOUS
  <2> QED
    BY <2>1, <2>2 DEF Near
<1>3. Near(r, 0, r) /\ Near(r, 0, -r) /\ Near(r, r, 0) /\ Near(r, -r, 0)
  <2>1. /\ Near(r, 0, -r) /\ Near(r, r, 0) /\ Near(r, -r, 0)
    BY <1>1, <1>2, NearTurns
  <2> QED
    BY <1>2, <2>1
<1>4. v \in Pixel
  BY DEF Axes, Pixel
<1>5. \/ v[1] = x + r /\ v[2] = y + 0
      \/ v[1] = x + 0 /\ v[2] = y + r
      \/ v[1] = x + (-r) /\ v[2] = y + 0
      \/ v[1] = x + 0 /\ v[2] = y + (-r)
  BY DEF Axes
<1>6. \E c, d \in -r..r : Near(r, c, d) /\ v[1] = x + c /\ v[2] = y + d
  BY <1>1, <1>3, <1>5, Zenon
<1> QED
  BY <1>1, <1>4, <1>6, DotAround, Zenon

LEMMA CircleIsNear ==
    ASSUME NEW x \in Int, NEW y \in Int, NEW r \in Nat \ {0}, NEW v, OnCircle(v, x, y, r)
    PROVE  Around(v, x, y, r) /\ Within(v, x, y, r)
<1>1. r \in Nat
  OBVIOUS
<1>2. CASE v \in Axes(x, y, r)
  BY <1>2, AxesAround, Zenon
<1>3. CASE \E n \in 1..Diagonal(r) : v \in Eight(x, y, Octant(r)[n].x, Octant(r)[n].y)
  <2>1. PICK n \in 1..Diagonal(r) : v \in Eight(x, y, Octant(r)[n].x, Octant(r)[n].y)
    BY <1>3
  <2> DEFINE p == Octant(r)[n]
  <2>2. n \in 0..Diagonal(r)
    <3>1. Diagonal(r) \in Nat
      BY OctantIsNear, Zenon
    <3> QED
      BY <3>1
  <2>3. OctantPoint(r, p)
    BY <2>2, OctantIsNear, Zenon
  <2>4. p.x \in 0..r /\ p.y \in 0..r /\ Near(r, p.x, p.y)
    BY <2>3, Zenon DEF OctantPoint
  <2>5. v \in Eight(x, y, p.x, p.y)
    BY <2>1
  <2> HIDE DEF p
  <2> QED
    BY <1>1, <2>4, <2>5, EightAround, Zenon
<1> QED
  BY <1>2, <1>3, Zenon DEF OnCircle

\* The quadrants that are drawn of a circle.
On(q, strokes, quads) == IF q \subseteq quads THEN strokes ELSE <<>>

LEMMA OnIs ==
    ASSUME NEW q, NEW strokes \in StrokeSeq, NEW quads
    PROVE  /\ On(q, strokes, quads) \in StrokeSeq
           /\ Pixels(On(q, strokes, quads)) \subseteq Pixels(strokes)
           /\ q \subseteq quads => Pixels(On(q, strokes, quads)) = Pixels(strokes)
<1>1. <<>> \in StrokeSeq
  BY DEF StrokeSeq
<1>2. Pixels(<<>>) = {}
  <2>1. DOMAIN <<>> = {}
    OBVIOUS
  <2>2. \A p : ~(p \in Pixels(<<>>))
    BY <2>1, PixelsOf, Zenon
  <2> QED
    BY <2>2, Zenon
<1>3. CASE q \subseteq quads
  BY <1>3, Zenon DEF On
<1>4. CASE ~(q \subseteq quads)
  <2>1. On(q, strokes, quads) = <<>>
    BY <1>4, Zenon DEF On
  <2> QED
    BY <1>1, <1>2, <1>4, <2>1, Zenon
<1> QED
  BY <1>3, <1>4, Zenon

QuadStrokes(x, y, a, b, quads) ==
    On({1}, << {<<x + a, y - b>>}, {<<x + b, y - a>>} >>, quads) \o
    On({2}, << {<<x - b, y - a>>}, {<<x - a, y - b>>} >>, quads) \o
    On({3}, << {<<x - b, y + a>>}, {<<x - a, y + b>>} >>, quads) \o
    On({4}, << {<<x + a, y + b>>}, {<<x + b, y + a>>} >>, quads)

FourOf(o, pixels, more) ==
    /\ o \in StrokeSeq
    /\ Pixels(o) \subseteq pixels
    /\ more => Pixels(o) = pixels

LEMMA FourJoined ==
    ASSUME NEW o1, NEW o2, NEW o3, NEW o4, NEW p1, NEW p2, NEW p3, NEW p4, NEW more \in BOOLEAN,
           FourOf(o1, p1, more), FourOf(o2, p2, more), FourOf(o3, p3, more), FourOf(o4, p4, more)
    PROVE  FourOf(o1 \o o2 \o o3 \o o4, p1 \union p2 \union p3 \union p4, more)
<1>1. FourOf(o1 \o o2, p1 \union p2, more)
  <2>1. o1 \o o2 \in StrokeSeq /\ Pixels(o1 \o o2) = Pixels(o1) \union Pixels(o2)
    BY PixelsJoin, Zenon DEF FourOf
  <2> QED
    BY <2>1, Zenon DEF FourOf
<1> DEFINE a == o1 \o o2
           u == p1 \union p2
<1> HIDE DEF a, u
<1>2. FourOf(a \o o3, u \union p3, more)
  <2>0. FourOf(a, u, more)
    BY <1>1, Zenon DEF a, u
  <2>1. a \o o3 \in StrokeSeq /\ Pixels(a \o o3) = Pixels(a) \union Pixels(o3)
    BY <2>0, PixelsJoin, Zenon DEF FourOf
  <2> QED
    BY <2>0, <2>1, Zenon DEF FourOf
<1> DEFINE b == a \o o3
           w == u \union p3
<1> HIDE DEF b, w
<1>3. FourOf(b \o o4, w \union p4, more)
  <2>0. FourOf(b, w, more)
    BY <1>2, Zenon DEF b, w
  <2>1. b \o o4 \in StrokeSeq /\ Pixels(b \o o4) = Pixels(b) \union Pixels(o4)
    BY <2>0, PixelsJoin, Zenon DEF FourOf
  <2> QED
    BY <2>0, <2>1, Zenon DEF FourOf
<1> QED
  BY <1>3, Zenon DEF a, b, u, w

LEMMA QuadStrokesAre ==
    ASSUME NEW x \in Int, NEW y \in Int, NEW a \in Int, NEW b \in Int, NEW quads \in SUBSET (1..4)
    PROVE  FourOf(QuadStrokes(x, y, a, b, quads), Eight(x, y, a, b), quads = 1..4)
<1> DEFINE p1 == {<<x + a, y + b>>}
           p2 == {<<x - a, y + b>>}
           p3 == {<<x + a, y - b>>}
           p4 == {<<x - a, y - b>>}
           p5 == {<<x + b, y + a>>}
           p6 == {<<x - b, y + a>>}
           p7 == {<<x + b, y - a>>}
           p8 == {<<x - b, y - a>>}
<1>1. /\ p1 \in Stroke /\ p2 \in Stroke
      /\ p3 \in Stroke /\ p4 \in Stroke
      /\ p5 \in Stroke /\ p6 \in Stroke
      /\ p7 \in Stroke /\ p8 \in Stroke
  BY Dots, Zenon
<1>2. /\ QuadStrokes(x, y, a, b, quads)
         = On({1}, << p3, p7 >>, quads) \o On({2}, << p8, p4 >>, quads)
           \o On({3}, << p6, p2 >>, quads) \o On({4}, << p1, p5 >>, quads)
      /\ Eight(x, y, a, b) = (p1 \union p2 \union p3 \union p4) \union (p5 \union p6 \union p7 \union p8)
  BY Zenon DEF Eight, QuadStrokes
<1> HIDE DEF p1, p2, p3, p4, p5, p6, p7, p8
<1> DEFINE more == quads = 1..4
<1>3. more => {1} \subseteq quads /\ {2} \subseteq quads /\ {3} \subseteq quads /\ {4} \subseteq quads
  OBVIOUS
<1> HIDE DEF more
<1>4. FourOf(On({1}, << p3, p7 >>, quads), p3 \union p7, more)
  <2>1. << p3, p7 >> \in StrokeSeq /\ Pixels(<< p3, p7 >>) = p3 \union p7
    BY <1>1, TwoStrokes, Zenon
  <2> QED
    BY <1>3, <2>1, OnIs, Zenon DEF FourOf
<1>5. FourOf(On({2}, << p8, p4 >>, quads), p8 \union p4, more)
  <2>1. << p8, p4 >> \in StrokeSeq /\ Pixels(<< p8, p4 >>) = p8 \union p4
    BY <1>1, TwoStrokes, Zenon
  <2> QED
    BY <1>3, <2>1, OnIs, Zenon DEF FourOf
<1>6. FourOf(On({3}, << p6, p2 >>, quads), p6 \union p2, more)
  <2>1. << p6, p2 >> \in StrokeSeq /\ Pixels(<< p6, p2 >>) = p6 \union p2
    BY <1>1, TwoStrokes, Zenon
  <2> QED
    BY <1>3, <2>1, OnIs, Zenon DEF FourOf
<1>7. FourOf(On({4}, << p1, p5 >>, quads), p1 \union p5, more)
  <2>1. << p1, p5 >> \in StrokeSeq /\ Pixels(<< p1, p5 >>) = p1 \union p5
    BY <1>1, TwoStrokes, Zenon
  <2> QED
    BY <1>3, <2>1, OnIs, Zenon DEF FourOf
<1>8. FourOf(QuadStrokes(x, y, a, b, quads),
             (p3 \union p7) \union (p8 \union p4) \union (p6 \union p2) \union (p1 \union p5), more)
  <2>1. more \in BOOLEAN
    BY Zenon DEF more
  <2> DEFINE o1 == On({1}, << p3, p7 >>, quads)
             o2 == On({2}, << p8, p4 >>, quads)
             o3 == On({3}, << p6, p2 >>, quads)
             o4 == On({4}, << p1, p5 >>, quads)
             u1 == p3 \union p7
             u2 == p8 \union p4
             u3 == p6 \union p2
             u4 == p1 \union p5
  <2>2. QuadStrokes(x, y, a, b, quads) = o1 \o o2 \o o3 \o o4
    BY <1>2, Zenon
  <2>3. FourOf(o1, u1, more) /\ FourOf(o2, u2, more) /\ FourOf(o3, u3, more) /\ FourOf(o4, u4, more)
    BY <1>4, <1>5, <1>6, <1>7, Zenon
  <2> HIDE DEF o1, o2, o3, o4, u1, u2, u3, u4
  <2>4. FourOf(o1 \o o2 \o o3 \o o4, u1 \union u2 \union u3 \union u4, more)
    BY <2>1, <2>3, FourJoined
  <2> QED
    BY <2>2, <2>4, Zenon DEF u1, u2, u3, u4
<1>9. (p3 \union p7) \union (p8 \union p4) \union (p6 \union p2) \union (p1 \union p5)
      = Eight(x, y, a, b)
  BY <1>2, Zenon
<1> QED
  BY <1>8, <1>9, Zenon DEF more

LEMMA QuadsAre ==
    ASSUME NEW x \in Int, NEW y \in Int, NEW r \in Nat \ {0}, NEW quads \in SUBSET (1..4)
    PROVE  /\ CircleQuads(x, y, r, quads) \in StrokeSeq
           /\ \A v : v \in Pixels(CircleQuads(x, y, r, quads)) => OnCircle(v, x, y, r)
           /\ quads = 1..4 =>
                 \A v : OnCircle(v, x, y, r) => v \in Pixels(CircleQuads(x, y, r, quads))
<1> DEFINE at == Octant(r)
           D == Diagonal(r)
           f == [n \in 1..D |-> QuadStrokes(x, y, at[n].x, at[n].y, quads)]
           F == [n \in DOMAIN While(r) |->
                  LET p == While(r)[n]
                  IN  On({1}, << {<<x + p.x, y - p.y>>}, {<<x + p.y, y - p.x>>} >>, quads) \o
                      On({2}, << {<<x - p.y, y - p.x>>}, {<<x - p.x, y - p.y>>} >>, quads) \o
                      On({3}, << {<<x - p.y, y + p.x>>}, {<<x - p.x, y + p.y>>} >>, quads) \o
                      On({4}, << {<<x + p.x, y + p.y>>}, {<<x + p.y, y + p.x>>} >>, quads)]
           p1 == {<<x + r, y>>}
           p2 == {<<x, y + r>>}
           p3 == {<<x - r, y>>}
           p4 == {<<x, y - r>>}
           o1 == On({1, 4}, << p1 >>, quads)
           o2 == On({3, 4}, << p2 >>, quads)
           o3 == On({2, 3}, << p3 >>, quads)
           o4 == On({1, 2}, << p4 >>, quads)
           more == quads = 1..4
<1>1. CircleQuads(x, y, r, quads) = Joined(F) \o o1 \o o2 \o o3 \o o4
  BY Zenon DEF CircleQuads, On
<1>2. DOMAIN While(r) = 1..D /\ \A n \in 1..D : While(r)[n] = at[n]
  <2>1. r > 0
    OBVIOUS
  <2> QED
    BY <2>1, Zenon DEF While, DoWhile
<1>3. F = f
  BY <1>2, Zenon DEF QuadStrokes
<1>4. r \in Nat /\ D \in Nat /\ \A n \in 1..D : at[n].x \in Int /\ at[n].y \in Int
  <2>1. r \in Nat
    OBVIOUS
  <2> QED
    BY <2>1, OctantTyped, Zenon
<1>5. p1 \in Stroke /\ p2 \in Stroke /\ p3 \in Stroke /\ p4 \in Stroke
  <2>1. r \in Int
    OBVIOUS
  <2> QED
    BY <2>1, Dots, Zenon
<1>6. Axes(x, y, r) = p1 \union p2 \union p3 \union p4
  BY Zenon DEF Axes
<1>7. more => /\ {1, 4} \subseteq quads /\ {3, 4} \subseteq quads
              /\ {2, 3} \subseteq quads /\ {1, 2} \subseteq quads
  OBVIOUS
<1> HIDE DEF F, at, D, p1, p2, p3, p4, more
<1>8. FourOf(o1, p1, more) /\ FourOf(o2, p2, more) /\ FourOf(o3, p3, more) /\ FourOf(o4, p4, more)
  <2>1. FourOf(o1, p1, more)
    <3>1. << p1 >> \in StrokeSeq /\ Pixels(<< p1 >>) = p1
      BY <1>5, OneStroke, Zenon
    <3> QED
      BY <1>7, <3>1, OnIs, Zenon DEF FourOf
  <2>2. FourOf(o2, p2, more)
    <3>1. << p2 >> \in StrokeSeq /\ Pixels(<< p2 >>) = p2
      BY <1>5, OneStroke, Zenon
    <3> QED
      BY <1>7, <3>1, OnIs, Zenon DEF FourOf
  <2>3. FourOf(o3, p3, more)
    <3>1. << p3 >> \in StrokeSeq /\ Pixels(<< p3 >>) = p3
      BY <1>5, OneStroke, Zenon
    <3> QED
      BY <1>7, <3>1, OnIs, Zenon DEF FourOf
  <2>4. FourOf(o4, p4, more)
    <3>1. << p4 >> \in StrokeSeq /\ Pixels(<< p4 >>) = p4
      BY <1>5, OneStroke, Zenon
    <3> QED
      BY <1>7, <3>1, OnIs, Zenon DEF FourOf
  <2> QED
    BY <2>1, <2>2, <2>3, <2>4, Zenon
<1> HIDE DEF o1, o2, o3, o4
<1>9. /\ DOMAIN f = 1..D /\ f = [n \in 1..D |-> f[n]]
      /\ \A n \in 1..D : FourOf(f[n], Eight(x, y, at[n].x, at[n].y), more)
  <2>1. \A n \in 1..D : FourOf(QuadStrokes(x, y, at[n].x, at[n].y, quads),
                               Eight(x, y, at[n].x, at[n].y), more)
    BY <1>4, QuadStrokesAre, Zenon DEF more
  <2> QED
    BY <2>1, Zenon
<1> HIDE DEF f
<1>10. /\ Joined(f) \in StrokeSeq
       /\ \A v : v \in Pixels(Joined(f)) <=> \E n \in 1..D : v \in Pixels(f[n])
  <2>1. \A n \in 1..D : f[n] \in StrokeSeq
    BY <1>9, Zenon DEF FourOf
  <2> QED
    BY <1>4, <1>9, <2>1, JoinedPixels, Zenon
<1> DEFINE eights == {v \in Pixel : \E n \in 1..D : v \in Eight(x, y, at[n].x, at[n].y)}
<1>11. \A n \in 1..D : Eight(x, y, at[n].x, at[n].y) \subseteq Pixel
  <2> TAKE n \in 1..D
  <2>1. at[n].x \in Int /\ at[n].y \in Int
    BY <1>4
  <2> DEFINE a == at[n].x
             b == at[n].y
  <2>2. a \in Int /\ b \in Int
    BY <2>1
  <2> HIDE DEF a, b
  <2>3. Eight(x, y, a, b) \subseteq Pixel
    BY <2>2 DEF Eight, Pixel
  <2> QED
    BY <2>3, Zenon DEF a, b
<1>12. FourOf(Joined(f), eights, more)
  <2>1. \A n \in 1..D : /\ Pixels(f[n]) \subseteq Eight(x, y, at[n].x, at[n].y)
                        /\ more => Pixels(f[n]) = Eight(x, y, at[n].x, at[n].y)
    BY <1>9, Zenon DEF FourOf
  <2>2. Pixels(Joined(f)) \subseteq eights
    BY <1>10, <1>11, <2>1, Zenon
  <2>3. more => Pixels(Joined(f)) = eights
    BY <1>10, <1>11, <2>1, Zenon
  <2> QED
    BY <1>10, <2>2, <2>3, Zenon DEF FourOf
<1>13. \A v : OnCircle(v, x, y, r) <=> v \in Axes(x, y, r) \/ v \in eights
  BY <1>11, Zenon DEF OnCircle, D, at
<1> DEFINE j == Joined(f)
           J1 == j \o o1
<1> HIDE DEF j, J1, eights
<1>14. FourOf(J1, eights \union p1, more)
  <2>1. FourOf(j, eights, more)
    BY <1>12, Zenon DEF j
  <2>2. j \o o1 \in StrokeSeq /\ Pixels(j \o o1) = Pixels(j) \union Pixels(o1)
    BY <1>8, <2>1, PixelsJoin, Zenon DEF FourOf
  <2> QED
    BY <1>8, <2>1, <2>2, Zenon DEF FourOf, J1
<1>15. FourOf(J1 \o o2 \o o3 \o o4, (eights \union p1) \union p2 \union p3 \union p4, more)
  <2>1. more \in BOOLEAN
    BY Zenon DEF more
  <2> DEFINE u == eights \union p1
  <2>2. FourOf(J1, u, more)
    BY <1>14, Zenon
  <2> HIDE DEF u
  <2>3. FourOf(J1 \o o2 \o o3 \o o4, u \union p2 \union p3 \union p4, more)
    BY <1>8, <2>1, <2>2, FourJoined
  <2> QED
    BY <2>3, Zenon DEF u
<1>16. CircleQuads(x, y, r, quads) = J1 \o o2 \o o3 \o o4
  BY <1>1, <1>3, Zenon DEF j, J1
<1>17. \A v : OnCircle(v, x, y, r) <=> v \in (eights \union p1) \union p2 \union p3 \union p4
  BY <1>6, <1>13, Zenon
<1> QED
  BY <1>15, <1>16, <1>17, Zenon DEF FourOf, more

\* A disc is made of horizontal lines, and they lie between the points of the circle.
OnSide(v, x, y, a, b) == v \in Pixel /\ v[1] - x \in -a..a /\ v[2] - y = b

LEMMA SideLine ==
    ASSUME NEW x \in Int, NEW y \in Int, NEW a \in Int, NEW b \in Int
    PROVE  /\ HorizontalLine(x - a, y + b, 2 * a) \in Stroke
           /\ \A v \in HorizontalLine(x - a, y + b, 2 * a) : OnSide(v, x, y, a, b)
<1> DEFINE H == HorizontalLine(x - a, y + b, 2 * a)
<1>1. x - a \in Int /\ y + b \in Int /\ 2 * a \in Int
  OBVIOUS
<1>2. H = Inside(x - a, y + b, 2 * a, 1)
  BY <1>1, HorizontalLineIs, Zenon
<1> HIDE DEF H
<1>3. \A v \in H : v \in Screen /\ x - a <= v[1] /\ v[1] < (x - a) + 2 * a
                   /\ y + b <= v[2] /\ v[2] < (y + b) + 1
  BY <1>2, Zenon DEF Inside
<1>4. \A v \in Screen : v \in Pixel /\ v[1] \in Int /\ v[2] \in Int
  BY DisplayAssumption DEF Screen, Columns, Rows, Pixel
<1>5. \A v \in H : v \in Pixel /\ v[1] - x \in -a..a /\ v[2] - y = b
  <2> TAKE v \in H
  <2> DEFINE c == v[1]
             d == v[2]
  <2>1. /\ v \in Pixel /\ c \in Int /\ d \in Int
        /\ x - a <= c /\ c < (x - a) + 2 * a /\ y + b <= d /\ d < (y + b) + 1
    BY <1>3, <1>4, Zenon
  <2> HIDE DEF c, d
  <2>2. c - x \in -a..a /\ d - y = b
    BY <2>1
  <2> QED
    BY <2>1, <2>2, Zenon DEF c, d
<1>6. H \in Stroke
  BY <1>5, Zenon DEF Stroke
<1> QED
  BY <1>5, <1>6, Zenon DEF H, OnSide

OnSides(v, x, y, a, b) ==
    OnSide(v, x, y, a, b) \/ OnSide(v, x, y, a, -b) \/ OnSide(v, x, y, b, a) \/ OnSide(v, x, y, b, -a)
InDisc(v, x, y, r) ==
    OnSide(v, x, y, r, 0)
    \/ \E n \in 1..Diagonal(r) : OnSides(v, x, y, Octant(r)[n].x, Octant(r)[n].y)

LEMMA DiscRow ==
    ASSUME NEW x \in Int, NEW y \in Int, NEW a \in Int, NEW b \in Int,
           NEW s, s = << HorizontalLine(x - a, y - b, 2 * a), HorizontalLine(x - a, y + b, 2 * a),
                         HorizontalLine(x - b, y - a, 2 * b), HorizontalLine(x - b, y + a, 2 * b) >>
    PROVE  s \in StrokeSeq /\ \A v \in Pixels(s) : OnSides(v, x, y, a, b)
<1> DEFINE h1 == HorizontalLine(x - a, y - b, 2 * a)
           h2 == HorizontalLine(x - a, y + b, 2 * a)
           h3 == HorizontalLine(x - b, y - a, 2 * b)
           h4 == HorizontalLine(x - b, y + a, 2 * b)
<1>1. y - a = y + (-a) /\ y - b = y + (-b) /\ -a \in Int /\ -b \in Int
  OBVIOUS
<1>2. h1 \in Stroke /\ \A v \in h1 : OnSide(v, x, y, a, -b)
  <2>1. h1 = HorizontalLine(x - a, y + (-b), 2 * a)
    BY <1>1, Zenon
  <2>2. HorizontalLine(x - a, y + (-b), 2 * a) \in Stroke /\ \A v \in HorizontalLine(x - a, y + (-b), 2 * a) : OnSide(v, x, y, a, -b)
    BY <1>1, SideLine
  <2> QED
    BY <2>1, <2>2, Zenon
<1>3. h2 \in Stroke /\ \A v \in h2 : OnSide(v, x, y, a, b)
  BY SideLine, Zenon
<1>4. h3 \in Stroke /\ \A v \in h3 : OnSide(v, x, y, b, -a)
  <2>1. h3 = HorizontalLine(x - b, y + (-a), 2 * b)
    BY <1>1, Zenon
  <2>2. HorizontalLine(x - b, y + (-a), 2 * b) \in Stroke /\ \A v \in HorizontalLine(x - b, y + (-a), 2 * b) : OnSide(v, x, y, b, -a)
    BY <1>1, SideLine
  <2> QED
    BY <2>1, <2>2, Zenon
<1>5. h4 \in Stroke /\ \A v \in h4 : OnSide(v, x, y, b, a)
  BY SideLine, Zenon
<1>6. s = << h1, h2, h3, h4 >>
  BY Zenon
<1> HIDE DEF h1, h2, h3, h4
<1>7. << h1, h2, h3, h4 >> \in StrokeSeq /\ Pixels(<< h1, h2, h3, h4 >>) = h1 \union h2 \union h3 \union h4
  BY <1>2, <1>3, <1>4, <1>5, FourStrokes
<1>8. s \in StrokeSeq /\ Pixels(s) = h1 \union h2 \union h3 \union h4
  BY <1>6, <1>7, Zenon
<1> QED
  BY <1>2, <1>3, <1>4, <1>5, <1>8, Zenon DEF OnSides

LEMMA DiscIs ==
    ASSUME NEW x \in Int, NEW y \in Int, NEW r \in Nat
    PROVE  /\ FilledCircle(x, y, r) \in StrokeSeq
           /\ \A v \in Pixels(FilledCircle(x, y, r)) : InDisc(v, x, y, r)
<1> DEFINE at == Octant(r)
           D == Diagonal(r)
           S(a, b) == << HorizontalLine(x - a, y - b, 2 * a), HorizontalLine(x - a, y + b, 2 * a),
                         HorizontalLine(x - b, y - a, 2 * b), HorizontalLine(x - b, y + a, 2 * b) >>
           f == [n \in 1..D |-> S(at[n].x, at[n].y)]
           F == [n \in DOMAIN DoWhile(r) |->
                   LET p == DoWhile(r)[n]
                   IN  << HorizontalLine(x - p.x, y - p.y, 2 * p.x),
                          HorizontalLine(x - p.x, y + p.y, 2 * p.x),
                          HorizontalLine(x - p.y, y - p.x, 2 * p.y),
                          HorizontalLine(x - p.y, y + p.x, 2 * p.y) >>]
           h == HorizontalLine(x - r, y, 2 * r)
           tail == << h >>
<1>1. FilledCircle(x, y, r) = Joined(F) \o tail
  BY Zenon DEF FilledCircle
<1>2. DOMAIN DoWhile(r) = 1..D /\ \A n \in 1..D : DoWhile(r)[n] = at[n]
  BY Zenon DEF DoWhile
<1>3. F = f
  BY <1>2, Zenon
<1>4. D \in Nat /\ \A n \in 1..D : at[n].x \in Int /\ at[n].y \in Int
  BY OctantTyped, Zenon
<1>5. ASSUME NEW a \in Int, NEW b \in Int
      PROVE  S(a, b) \in StrokeSeq /\ \A v \in Pixels(S(a, b)) : OnSides(v, x, y, a, b)
  BY DiscRow, Zenon
<1>6. tail \in StrokeSeq /\ \A v \in Pixels(tail) : OnSide(v, x, y, r, 0)
  <2>1. r \in Int /\ y + 0 = y /\ 0 \in Int
    OBVIOUS
  <2>2. h \in Stroke /\ \A v \in h : OnSide(v, x, y, r, 0)
    <3>1. /\ HorizontalLine(x - r, y + 0, 2 * r) \in Stroke
          /\ \A v \in HorizontalLine(x - r, y + 0, 2 * r) : OnSide(v, x, y, r, 0)
      BY <2>1, SideLine
    <3> QED
      BY <2>1, <3>1, Zenon
  <2> HIDE DEF h
  <2>3. tail \in StrokeSeq /\ Pixels(tail) = h
    BY <2>2, OneStroke, Zenon
  <2> QED
    BY <2>2, <2>3, Zenon
<1> HIDE DEF S, F, at, D, tail
<1>7. /\ DOMAIN f = 1..D /\ f = [n \in 1..D |-> f[n]]
      /\ \A n \in 1..D : /\ f[n] \in StrokeSeq
                         /\ \A v \in Pixels(f[n]) : OnSides(v, x, y, at[n].x, at[n].y)
  BY <1>4, <1>5, Zenon
<1> HIDE DEF f
<1>8. /\ Joined(f) \o tail \in StrokeSeq
      /\ \A v : v \in Pixels(Joined(f) \o tail)
             <=> v \in Pixels(tail) \/ \E n \in 1..D : v \in Pixels(f[n])
  <2>1. \A n \in 1..D : f[n] \in StrokeSeq
    BY <1>7, Zenon
  <2> QED
    BY <1>4, <1>6, <1>7, <2>1, PixelsJoined, Zenon
<1> QED
  BY <1>1, <1>3, <1>6, <1>7, <1>8, Zenon DEF InDisc, at, D

\* They are in the circle.
Inner(v, x, y, r) == (v[1] - x) * (v[1] - x) + (v[2] - y) * (v[2] - y) <= r * r + r

LEMMA Squares ==
    ASSUME NEW a \in Nat, NEW c \in -a..a
    PROVE  c * c <= a * a
<1>1. a - c >= 0 /\ a + c >= 0 /\ c \in Int
  OBVIOUS
<1>2. (a - c) * (a + c) >= 0
  BY <1>1
<1>3. (a - c) * (a + c) = a * a - c * c
  BY <1>1
<1> DEFINE aa == a * a
           cc == c * c
           z == (a - c) * (a + c)
<1>4. aa \in Int /\ cc \in Int /\ z >= 0 /\ z = aa - cc
  BY <1>1, <1>2, <1>3
<1> HIDE DEF aa, cc, z
<1>5. cc <= aa
  BY <1>4
<1> QED
  BY <1>5 DEF aa, cc

LEMMA SideIsInner ==
    ASSUME NEW x \in Int, NEW y \in Int, NEW r \in Nat, NEW a \in 0..r, NEW b \in -r..r,
           a * a + b * b <= r * r + r, NEW v, OnSide(v, x, y, a, b)
    PROVE  Inner(v, x, y, r) /\ Within(v, x, y, r)
<1> DEFINE c == v[1] - x
           d == v[2] - y
<1>1. v \in Pixel /\ c \in -a..a /\ d = b
  BY Zenon DEF OnSide
<1> HIDE DEF c, d
<1>2. c * c <= a * a
  <2>1. a \in Nat
    OBVIOUS
  <2> QED
    BY <1>1, <2>1, Squares
<1>3. c * c + d * d <= r * r + r
  <2> DEFINE cc == c * c
             bb == b * b
             aa == a * a
             rr == r * r
  <2>1. cc \in Int /\ bb \in Int /\ aa \in Int /\ rr \in Int /\ r \in Int
    BY <1>1
  <2>2. cc <= aa /\ aa + bb <= rr + r
    BY <1>2
  <2> HIDE DEF cc, bb, aa, rr
  <2>3. cc + bb <= rr + r
    BY <2>1, <2>2
  <2> QED
    BY <1>1, <2>3, Zenon DEF cc, bb, rr
<1>4. c \in -r..r /\ d \in -r..r
  BY <1>1
<1> QED
  BY <1>1, <1>3, <1>4, Zenon DEF Inner, Within, c, d

LEMMA DiscIsInner ==
    ASSUME NEW x \in Int, NEW y \in Int, NEW r \in Nat \ {0}, NEW v, InDisc(v, x, y, r)
    PROVE  Inner(v, x, y, r) /\ Within(v, x, y, r)
<1>1. r \in Nat
  OBVIOUS
<1>2. CASE OnSide(v, x, y, r, 0)
  <2>1. r \in 0..r /\ 0 \in -r..r /\ r * r + 0 * 0 <= r * r + r
    <3>1. r * r \in Int /\ r \in Nat
      OBVIOUS
    <3> DEFINE rr == r * r
    <3>2. rr \in Int
      BY <3>1
    <3>3. r * r + 0 * 0 = rr + 0
      OBVIOUS
    <3> HIDE DEF rr
    <3>4. rr + 0 <= rr + r
      BY <3>1, <3>2
    <3>5. r * r + 0 * 0 <= r * r + r
      BY <3>3, <3>4 DEF rr
    <3> QED
      BY <3>1, <3>5
  <2> QED
    BY <1>1, <1>2, <2>1, SideIsInner
<1>3. CASE \E n \in 1..Diagonal(r) : OnSides(v, x, y, Octant(r)[n].x, Octant(r)[n].y)
  <2>1. PICK n \in 1..Diagonal(r) : OnSides(v, x, y, Octant(r)[n].x, Octant(r)[n].y)
    BY <1>3
  <2> DEFINE a == Octant(r)[n].x
             b == Octant(r)[n].y
  <2>2. n \in 0..Diagonal(r)
    <3>1. Diagonal(r) \in Nat
      BY OctantIsNear, Zenon
    <3> QED
      BY <3>1
  <2>3. a \in 0..r /\ b \in 0..r /\ Near(r, a, b)
    BY <2>2, OctantIsNear, Zenon DEF OctantPoint
  <2>4. OnSides(v, x, y, a, b)
    BY <2>1
  <2> HIDE DEF a, b
  <2>5. a \in Int /\ b \in Int /\ a \in -r..r /\ b \in -r..r /\ -a \in -r..r /\ -b \in -r..r
    BY <1>1, <2>3
  <2>6. a * a + b * b <= r * r + r
    BY <2>3, Zenon DEF Near
  <2>7. /\ a * a + (-b) * (-b) <= r * r + r
        /\ b * b + a * a <= r * r + r
        /\ b * b + (-a) * (-a) <= r * r + r
    <3>1. (-a) * (-a) = a * a /\ (-b) * (-b) = b * b /\ a * a + b * b = b * b + a * a
      BY <2>5
    <3> QED
      BY <2>6, <3>1, Zenon
  <2>8. CASE OnSide(v, x, y, a, b)
    BY <1>1, <2>3, <2>5, <2>6, <2>8, SideIsInner, Zenon
  <2>9. CASE OnSide(v, x, y, a, -b)
    BY <1>1, <2>3, <2>5, <2>7, <2>9, SideIsInner, Zenon
  <2>10. CASE OnSide(v, x, y, b, a)
    BY <1>1, <2>3, <2>5, <2>7, <2>10, SideIsInner, Zenon
  <2>11. CASE OnSide(v, x, y, b, -a)
    BY <1>1, <2>3, <2>5, <2>7, <2>11, SideIsInner, Zenon
  <2> QED
    BY <2>4, <2>8, <2>9, <2>10, <2>11, Zenon DEF OnSides
<1> QED
  BY <1>2, <1>3, Zenon DEF InDisc

\* The disc of radius 0 reaches one pixel further.
LEMMA SmallestDisc ==
    ASSUME NEW x \in Int, NEW y \in Int, NEW v, InDisc(v, x, y, 0)
    PROVE  Within(v, x, y, 1)
<1>1. Diagonal(0) \in 1..1 /\ Diagonal(0) \in Nat
  <2>1. 0 \in Nat /\ AtLeast(0, 1) = 1
    BY DEF AtLeast
  <2>2. Diagonal(0) \in 1..1
    BY <2>1, DiagonalIs, Zenon
  <2> QED
    BY <2>2
<1>2. Octant(0)[1].x = 1 /\ Octant(0)[1].y = -1
  <2>1. 0 \in Int /\ AtLeast(0, 1) = 1 /\ 1 \in 1..1 /\ 1 - 1 = 0 /\ 0 \in 0..1
    BY DEF AtLeast
  <2>2. Octant(0)[0] = [x |-> 0, y |-> 0, dp |-> 1 - 0] /\ Octant(0)[1] = NextPoint(Octant(0)[1 - 1])
    BY <2>1, OctantEquation, Zenon
  <2>3. Octant(0)[1] = NextPoint([x |-> 0, y |-> 0, dp |-> 1 - 0])
    BY <2>1, <2>2, Zenon
  <2>4. [x |-> 0, y |-> 0, dp |-> 1 - 0] \in Point
    BY DEF Point
  <2> QED
    BY <2>3 DEF NextPoint
<1>3. CASE OnSide(v, x, y, 0, 0)
  <2> DEFINE c == v[1] - x
             d == v[2] - y
  <2>1. v \in Pixel /\ c \in -0..0 /\ d = 0
    BY <1>3, Zenon DEF OnSide
  <2>2. c \in -1..1 /\ d \in -1..1
    BY <2>1
  <2> QED
    BY <2>1, <2>2, Zenon DEF Within
<1>4. CASE \E n \in 1..Diagonal(0) : OnSides(v, x, y, Octant(0)[n].x, Octant(0)[n].y)
  <2>1. PICK n \in 1..Diagonal(0) : OnSides(v, x, y, Octant(0)[n].x, Octant(0)[n].y)
    BY <1>4
  <2>2. n = 1
    BY <1>1
  <2> DEFINE m == -1
  <2>3. OnSides(v, x, y, 1, m) /\ m \in Int /\ m + 1 = 0
    <3>1. OnSides(v, x, y, 1, m)
      BY <1>2, <2>1, <2>2, Zenon
    <3> QED
      BY <3>1
  <2> DEFINE c == v[1] - x
             d == v[2] - y
  <2>4. /\ v \in Pixel
        /\ \/ c \in -1..1 /\ d = m
           \/ c \in -1..1 /\ d = -m
           \/ c \in -m..m /\ d = 1
           \/ c \in -m..m /\ d = -1
    BY <2>3, Zenon DEF OnSides, OnSide
  <2> HIDE DEF c, d, m
  <2>5. c \in -1..1 /\ d \in -1..1
    BY <2>3, <2>4
  <2> QED
    BY <2>4, <2>5, Zenon DEF Within, c, d
<1> QED
  BY <1>3, <1>4, Zenon DEF InDisc

\* A progress bar is drawn inside its frame.
InFrame(v, x, y, w, h) == x <= v[1] /\ v[1] <= x + w /\ y <= v[2] /\ v[2] <= y + h
Framed(strokes, x, y, w, h) ==
    strokes \in StrokeSeq /\ \A v \in Pixels(strokes) : InFrame(v, x, y, w, h)

LEMMA FramedJoin ==
    ASSUME NEW x, NEW y, NEW w, NEW h, NEW s, NEW t,
           Framed(s, x, y, w, h), Framed(t, x, y, w, h)
    PROVE  Framed(s \o t, x, y, w, h)
<1>1. s \o t \in StrokeSeq /\ Pixels(s \o t) = Pixels(s) \union Pixels(t)
  BY PixelsJoin, Zenon DEF Framed
<1> QED
  BY <1>1, Zenon DEF Framed

\* What lies round a point of the frame, as far as the frame goes.
LEMMA WithinFrame ==
    ASSUME NEW x \in Int, NEW y \in Int, NEW w \in Int, NEW h \in Int, NEW a \in Int, NEW b \in Int,
           NEW r \in Int, x <= a - r, a + r <= x + w, y <= b - r, b + r <= y + h,
           NEW v, Within(v, a, b, r)
    PROVE  InFrame(v, x, y, w, h)
<1> DEFINE c == v[1]
           d == v[2]
<1>1. c \in Int /\ d \in Int
  BY DEF Within, Pixel
<1>2. c - a \in -r..r /\ d - b \in -r..r
  BY Zenon DEF Within
<1> HIDE DEF c, d
<1>3. x <= c /\ c <= x + w /\ y <= d /\ d <= y + h
  BY <1>1, <1>2
<1> QED
  BY <1>3, Zenon DEF InFrame, c, d

LEMMA InsideFrame ==
    ASSUME NEW x \in Int, NEW y \in Int, NEW w \in Int, NEW h \in Int, NEW a \in Int, NEW b \in Int,
           NEW m \in Int, NEW n \in Int, x <= a, a + m <= x + w + 1, y <= b, b + n <= y + h + 1,
           NEW v, v \in Inside(a, b, m, n)
    PROVE  InFrame(v, x, y, w, h)
<1> DEFINE c == v[1]
           d == v[2]
<1>1. v \in Screen /\ a <= c /\ c < a + m /\ b <= d /\ d < b + n
  BY Zenon DEF Inside
<1>2. c \in Int /\ d \in Int
  BY <1>1, DisplayAssumption DEF Screen, Columns, Rows
<1> HIDE DEF c, d
<1>3. x <= c /\ c <= x + w /\ y <= d /\ d <= y + h
  BY <1>1, <1>2
<1> QED
  BY <1>3, Zenon DEF InFrame, c, d

LEMMA InsideIsStroke ==
    ASSUME NEW x, NEW y, NEW w, NEW h
    PROVE  Inside(x, y, w, h) \in Stroke
<1>1. \A p \in Screen : p \in Pixel
  BY DisplayAssumption DEF Screen, Columns, Rows, Pixel
<1> QED
  BY <1>1, Zenon DEF Inside, Stroke

LEMMA FilledRectangleFramed ==
    ASSUME NEW x \in Int, NEW y \in Int, NEW w \in Int, NEW h \in Int, NEW a \in Int, NEW b \in Int,
           NEW m \in Nat, NEW n \in Int, x <= a, a + m <= x + w + 1, y <= b, b + n <= y + h + 1
    PROVE  Framed(FilledRectangle(a, b, m, n), x, y, w, h)
<1> DEFINE F == FilledRectangle(a, b, m, n)
           U(i) == VerticalLine(a + i - 1, b, n)
<1>1. F = [i \in 1..m |-> U(i)]
  <2>1. AtLeast(m, 0) = m
    BY DEF AtLeast
  <2> QED
    BY <2>1, Zenon DEF FilledRectangle
<1>2. \A i \in 1..m : a + i - 1 \in Int
  OBVIOUS
<1>3. \A i \in 1..m : U(i) = Inside(a + i - 1, b, 1, n)
  BY <1>2, VerticalLineIs, Zenon
<1> HIDE DEF F, U
<1>4. F \in StrokeSeq
  <2>1. \A i \in 1..m : U(i) \in Stroke
    BY <1>3, InsideIsStroke, Zenon
  <2>2. F \in [1..m -> Stroke]
    BY <1>1, <2>1, Zenon
  <2> HIDE DEF Stroke
  <2> QED
    BY <2>2 DEF StrokeSeq
<1>5. ASSUME NEW v, v \in Pixels(F)
      PROVE  InFrame(v, x, y, w, h)
  <2>1. PICK i \in DOMAIN F : v \in F[i]
    BY <1>5, PixelsOf, Zenon
  <2>2. i \in 1..m
    BY <1>1, <2>1, Zenon
  <2>3. v \in Inside(a + i - 1, b, 1, n)
    BY <1>1, <1>3, <2>1, <2>2, Zenon
  <2> DEFINE c == a + i - 1
  <2>4. c \in Int /\ x <= c /\ c + 1 <= x + w + 1
    BY <2>2
  <2>5. v \in Inside(c, b, 1, n)
    BY <2>3
  <2> HIDE DEF c
  <2>6. 1 \in Int
    OBVIOUS
  <2> QED
    BY <2>4, <2>5, <2>6, InsideFrame
<1> QED
  BY <1>4, <1>5, Zenon DEF Framed, F

LEMMA QuadsFramed ==
    ASSUME NEW x \in Int, NEW y \in Int, NEW w \in Int, NEW h \in Int, NEW a \in Int, NEW b \in Int,
           NEW r \in Nat \ {0}, x <= a - r, a + r <= x + w, y <= b - r, b + r <= y + h,
           NEW quads \in SUBSET (1..4)
    PROVE  Framed(CircleQuads(a, b, r, quads), x, y, w, h)
<1>1. /\ CircleQuads(a, b, r, quads) \in StrokeSeq
      /\ \A v : v \in Pixels(CircleQuads(a, b, r, quads)) => OnCircle(v, a, b, r)
  BY QuadsAre, Zenon
<1>2. \A v : OnCircle(v, a, b, r) => Within(v, a, b, r)
  BY CircleIsNear, Zenon
<1>3. r \in Int
  OBVIOUS
<1>4. \A v : Within(v, a, b, r) => InFrame(v, x, y, w, h)
  BY <1>3, WithinFrame, Zenon
<1> QED
  BY <1>1, <1>2, <1>4, Zenon DEF Framed

LEMMA DiscFramed ==
    ASSUME NEW x \in Int, NEW y \in Int, NEW w \in Int, NEW h \in Int, NEW a \in Int, NEW b \in Int,
           NEW r \in Nat, NEW s \in Int, s = AtLeast(r, 1),
           x <= a - s, a + s <= x + w, y <= b - s, b + s <= y + h
    PROVE  Framed(FilledCircle(a, b, r), x, y, w, h)
<1>1. /\ FilledCircle(a, b, r) \in StrokeSeq
      /\ \A v \in Pixels(FilledCircle(a, b, r)) : InDisc(v, a, b, r)
  BY DiscIs, Zenon
<1>2. ASSUME NEW v, InDisc(v, a, b, r)
      PROVE  Within(v, a, b, s)
  <2>1. CASE r = 0
    <3>1. s = 1
      BY <2>1 DEF AtLeast
    <3> QED
      BY <1>2, <2>1, <3>1, SmallestDisc, Zenon
  <2>2. CASE r # 0
    <3>1. s = r /\ r \in Nat \ {0}
      BY <2>2 DEF AtLeast
    <3> QED
      BY <1>2, <3>1, DiscIsInner, Zenon
  <2> QED
    BY <2>1, <2>2
<1>3. \A v : Within(v, a, b, s) => InFrame(v, x, y, w, h)
  BY WithinFrame, Zenon
<1> QED
  BY <1>1, <1>2, <1>3, Zenon DEF Framed

LEMMA Share ==
    ASSUME NEW n \in Nat, NEW p \in 0..100
    PROVE  (n * p) \div 100 \in 0..n
<1> DEFINE m == n * p
<1>1. m \in Nat /\ m <= 100 * n
  <2>1. n * p >= 0 /\ n * (100 - p) >= 0 /\ n * (100 - p) = 100 * n - n * p
    OBVIOUS
  <2>2. m \in Int /\ m >= 0 /\ 100 * n - m >= 0
    BY <2>1
  <2> HIDE DEF m
  <2> QED
    BY <2>2
<1> HIDE DEF m
<1>2. m \div 100 \in 0..n
  BY <1>1
<1> QED
  BY <1>2 DEF m

LEMMA BarIs ==
    ASSUME NEW x \in Int, NEW y \in Int, NEW w \in Int, NEW h \in Int, h >= 4, w >= h,
           NEW progress \in 0..100
    PROVE  Framed(ProgressBar(x, y, w, h, progress), x, y, w, h)
<1> DEFINE r    == h \div 2
           bar  == w - 2 * r + 1
           done == (bar * progress) \div 100
           Q1 == CircleQuads(x + r, y + r, r, {2, 3})
           H1 == HorizontalLine(x + r, y, bar)
           H2 == HorizontalLine(x + r, y + h, bar)
           Q2 == CircleQuads(x + w - r, y + r, r, {1, 4})
           C1 == FilledCircle(x + r, y + r, r - 2)
           F  == FilledRectangle(x + r + 1, y + 2, done, h - 3)
           C2 == FilledCircle(x + r + done, y + r, r - 2)
<1>1. ProgressBar(x, y, w, h, progress)
      = Q1 \o << H1, H2 >> \o Q2 \o C1 \o F \o C2
  BY Zenon DEF ProgressBar
<1>2. r \in Nat /\ r >= 2 /\ 2 * r <= h /\ h <= 2 * r + 1
  OBVIOUS
<1> HIDE DEF r
<1>3. bar \in Nat
  BY <1>2
<1>4. done \in 0..bar
  <2> HIDE DEF bar
  <2> QED
    BY <1>3, Share
<1>5. bar = w - 2 * r + 1
  OBVIOUS
<1> HIDE DEF bar, done
<1> DEFINE s == AtLeast(r - 2, 1)
<1>6. /\ r \in Nat \ {0} /\ r - 2 \in Nat /\ r \in Int
      /\ s \in Int /\ s <= r /\ done + s <= w - r
  BY <1>2, <1>3, <1>4, <1>5 DEF AtLeast
<1> HIDE DEF s
<1>7. Framed(Q1, x, y, w, h)
  <2> DEFINE a == x + r
             b == y + r
  <2>1. /\ a \in Int /\ b \in Int /\ {2, 3} \in SUBSET (1..4)
        /\ x <= a - r /\ a + r <= x + w /\ y <= b - r /\ b + r <= y + h
    BY <1>2
  <2>2. Q1 = CircleQuads(a, b, r, {2, 3})
    OBVIOUS
  <2> HIDE DEF a, b, Q1
  <2> QED
    BY <1>6, <2>1, <2>2, QuadsFramed
<1>8. Framed(<< H1, H2 >>, x, y, w, h)
  <2>1. /\ x + r \in Int /\ y + h \in Int /\ bar \in Int
        /\ x <= x + r /\ (x + r) + bar <= x + w + 1
        /\ y <= y /\ y + 1 <= y + h + 1 /\ y <= y + h /\ (y + h) + 1 <= y + h + 1
    BY <1>2, <1>3, <1>5
  <2>2. H1 = Inside(x + r, y, bar, 1) /\ H2 = Inside(x + r, y + h, bar, 1)
    BY <2>1, HorizontalLineIs, Zenon
  <2>3. H1 \in Stroke /\ H2 \in Stroke
    BY <2>2, InsideIsStroke, Zenon
  <2> DEFINE a == x + r
             b == y + h
  <2>4. /\ a \in Int /\ b \in Int /\ bar \in Int /\ 1 \in Int
        /\ x <= a /\ a + bar <= x + w + 1 /\ y <= y /\ y + 1 <= y + h + 1
        /\ y <= b /\ b + 1 <= y + h + 1
        /\ H1 = Inside(a, y, bar, 1) /\ H2 = Inside(a, b, bar, 1)
    BY <2>1, <2>2
  <2> HIDE DEF a, b, H1, H2
  <2>5. \A v \in H1 : InFrame(v, x, y, w, h)
    BY <2>4, InsideFrame
  <2>6. \A v \in H2 : InFrame(v, x, y, w, h)
    BY <2>4, InsideFrame
  <2>7. << H1, H2 >> \in StrokeSeq /\ Pixels(<< H1, H2 >>) = H1 \union H2
    BY <2>3, TwoStrokes, Zenon
  <2> QED
    BY <2>5, <2>6, <2>7, Zenon DEF Framed
<1>9. Framed(Q2, x, y, w, h)
  <2> DEFINE a == x + w - r
             b == y + r
  <2>1. /\ a \in Int /\ b \in Int /\ {1, 4} \in SUBSET (1..4)
        /\ x <= a - r /\ a + r <= x + w /\ y <= b - r /\ b + r <= y + h
    BY <1>2
  <2>2. Q2 = CircleQuads(a, b, r, {1, 4})
    OBVIOUS
  <2> HIDE DEF a, b, Q2
  <2> QED
    BY <1>6, <2>1, <2>2, QuadsFramed
<1>10. Framed(C1, x, y, w, h)
  <2> DEFINE a == x + r
             b == y + r
             q == r - 2
  <2>1. /\ a \in Int /\ b \in Int /\ q \in Nat /\ s = AtLeast(q, 1)
        /\ x <= a - s /\ a + s <= x + w /\ y <= b - s /\ b + s <= y + h
    BY <1>2, <1>4, <1>6 DEF s
  <2>2. C1 = FilledCircle(a, b, q)
    OBVIOUS
  <2> HIDE DEF a, b, C1, q
  <2> QED
    BY <1>6, <2>1, <2>2, DiscFramed
<1>11. Framed(C2, x, y, w, h)
  <2> DEFINE a == x + r + done
             b == y + r
             q == r - 2
  <2>1. /\ a \in Int /\ b \in Int /\ q \in Nat /\ s = AtLeast(q, 1)
        /\ x <= a - s /\ a + s <= x + w /\ y <= b - s /\ b + s <= y + h
    BY <1>2, <1>3, <1>4, <1>6 DEF s
  <2>2. C2 = FilledCircle(a, b, q)
    OBVIOUS
  <2> HIDE DEF a, b, C2, q
  <2> QED
    BY <1>6, <2>1, <2>2, DiscFramed
<1>12. Framed(F, x, y, w, h)
  <2> DEFINE a == x + r + 1
             b == y + 2
             n == h - 3
  <2>1. /\ a \in Int /\ b \in Int /\ n \in Int /\ done \in Nat
        /\ x <= a /\ a + done <= x + w + 1 /\ y <= b /\ b + n <= y + h + 1
    BY <1>2, <1>3, <1>4, <1>5
  <2>2. F = FilledRectangle(a, b, done, n)
    OBVIOUS
  <2> HIDE DEF a, b, F, n
  <2> QED
    BY <2>1, <2>2, FilledRectangleFramed
<1> DEFINE H == << H1, H2 >>
<1> HIDE DEF Q1, H, Q2, C1, F, C2
<1>13. Framed(Q1 \o H, x, y, w, h)
  BY <1>7, <1>8, FramedJoin, Zenon DEF H
<1>14. Framed(Q1 \o H \o Q2, x, y, w, h)
  BY <1>9, <1>13, FramedJoin, Zenon
<1>15. Framed(Q1 \o H \o Q2 \o C1, x, y, w, h)
  BY <1>10, <1>14, FramedJoin, Zenon
<1>16. Framed(Q1 \o H \o Q2 \o C1 \o F, x, y, w, h)
  BY <1>12, <1>15, FramedJoin, Zenon
<1>17. Framed(Q1 \o H \o Q2 \o C1 \o F \o C2, x, y, w, h)
  BY <1>11, <1>16, FramedJoin, Zenon
<1> QED
  BY <1>1, <1>17, Zenon DEF H

-----------------------------------------------------------------------------
(* What is counted and kept of a sequence, element by element *)

Extends(s, u, c, k) ==
    /\ Len(u) = k /\ k \in Nat /\ Len(s) = k + 1
    /\ (\A n \in 1..k : s[n] = u[n]) /\ s[k + 1] = c

LEMMA Appended ==
    ASSUME NEW S, NEW u \in Seq(S), NEW c \in S
    PROVE  Append(u, c) \in Seq(S) /\ Extends(Append(u, c), u, c, Len(u))
<1>1. /\ Append(u, c) \in Seq(S) /\ Len(Append(u, c)) = Len(u) + 1
      /\ Len(u) \in Nat
      /\ \A n \in 1..Len(u) : Append(u, c)[n] = u[n]
      /\ Append(u, c)[Len(u) + 1] = c
  OBVIOUS
<1> QED
  BY <1>1, Zenon DEF Extends

LEMMA Empty ==
    ASSUME NEW S
    PROVE  <<>> \in Seq(S) /\ Len(<<>>) = 0
OBVIOUS

\* What holds of the empty sequence and goes over to longer ones holds of all.
LEMMA SeqInduction ==
    ASSUME NEW S, NEW T, <<>> \in T,
           \A u \in Seq(S) : \A c \in S : u \in T => Append(u, c) \in T
    PROVE  \A t \in Seq(S) : t \in T
<1> DEFINE V == Seq(S)
           N == {n \in Nat : \A t \in V : Len(t) = n => t \in T}
<1>1. 0 \in N
  <2>1. \A t \in V : Len(t) = 0 => t = <<>>
    OBVIOUS
  <2> HIDE DEF V
  <2> QED
    BY <2>1, Zenon
<1>2. ASSUME NEW n \in Nat, n \in N
      PROVE  n + 1 \in N
  <2>1. ASSUME NEW t \in V, Len(t) = n + 1
        PROVE  t \in T
    <3> DEFINE u == SubSeq(t, 1, n)
               c == t[n + 1]
    <3>1. u \in V /\ Len(u) = n /\ c \in S /\ t = Append(u, c)
      BY <2>1
    <3>2. u \in T
      BY <1>2, <3>1, Zenon
    <3>3. Append(u, c) \in T
      <4> HIDE DEF u, c
      <4> QED
        BY <3>1, <3>2, Zenon
    <3> QED
      BY <3>1, <3>3, Zenon
  <2>2. n + 1 \in Nat
    OBVIOUS
  <2> HIDE DEF V
  <2> QED
    BY <2>1, <2>2, Zenon
<1>3. \A n \in Nat : n \in N
  <2> HIDE DEF N
  <2> QED
    BY <1>1, <1>2, Induction, Zenon
<1>4. \A t \in V : Len(t) \in Nat
  OBVIOUS
<1> HIDE DEF V
<1>5. \A t \in V : t \in T
  BY <1>3, <1>4, Zenon
<1> QED
  BY <1>5, Zenon DEF V

Keeping(K, seq, set, last, V) ==
    /\ K[0] = <<>>
    /\ \A n \in 1..last : K[n] = IF seq[n] \in set THEN Append(K[n - 1], seq[n]) ELSE K[n - 1]
    /\ \A n \in 0..last : K[n] \in V

\* What is kept of the first elements.
LEMMA KeepsEquation ==
    ASSUME NEW E, NEW seq \in Seq(E), NEW set, NEW last, last = Len(seq)
    PROVE  Keeping(Keeps(seq, set), seq, set, last, Seq(E))
<1> DEFINE V == Seq(E)
           k == last
           e == <<>>
           Go(x, n) == IF seq[n] \in set THEN Append(x, seq[n]) ELSE x
           G == [n \in 1..k |-> [x \in V |-> Go(x, n)]]
           h(g) == [n \in 0..k |-> IF n = 0 THEN e ELSE Go(g[n - 1], n)]
           J == Keeps(seq, set)
<1>1. k \in Nat /\ e \in V
  OBVIOUS
<1>2. ASSUME NEW n \in 1..k, NEW x \in V
      PROVE  Go(x, n) \in V
  <2>1. seq[n] \in E
    OBVIOUS
  <2>2. Append(x, seq[n]) \in V
    BY <2>1
  <2> QED
    BY <2>2, Zenon
<1>3. J = CHOOSE g : g = h(g)
  BY DEF Keeps
<1> HIDE DEF V, k, e, J, Go
<1>4. (\A n \in 1..k : n \in 0..k /\ n - 1 \in 0..k /\ n # 0) /\ 0 \in 0..k
  BY <1>1
<1>5. G \in [1..k -> [V -> V]]
  BY <1>1, <1>2, Zenon
<1>6. PICK g : Recurs(g, V, e, k, G)
  <2> HIDE DEF G
  <2> QED
    BY <1>1, <1>5, Recursion, Zenon
<1>7. ASSUME NEW n \in 1..k
      PROVE  g[n] = Go(g[n - 1], n)
  <2>1. g[n - 1] \in V /\ g[n] = G[n][g[n - 1]]
    <3> HIDE DEF G
    <3> QED
      BY <1>4, <1>6, Zenon DEF Recurs
  <2> QED
    BY <2>1, Zenon
<1> HIDE DEF G
<1>8. g = h(g)
  <2>1. \A n \in 0..k : n # 0 => n \in 1..k
    BY <1>1
  <2>2. g \in [0..k -> V] /\ g[0] = e
    BY <1>6, Zenon DEF Recurs
  <2>3. \A n \in 0..k : g[n] = IF n = 0 THEN e ELSE Go(g[n - 1], n)
    BY <1>7, <2>1, <2>2, Zenon
  <2> QED
    BY <2>2, <2>3, Zenon
<1>9. J = h(J)
  <2> HIDE DEF h
  <2> QED
    BY <1>3, <1>8, Zenon
<1>10. J[0] = e /\ \A n \in 1..k : J[n] = Go(J[n - 1], n)
  <2>1. \A n \in 0..k : h(J)[n] = IF n = 0 THEN e ELSE Go(J[n - 1], n)
    BY Zenon
  <2> HIDE DEF h
  <2> QED
    BY <1>4, <1>9, <2>1, Zenon
<1>11. \A n \in 0..k : J[n] \in V
  <2> DEFINE T == {n \in 0..k : J[n] \in V}
  <2>1. 0 \in T
    BY <1>1, <1>4, <1>10, Zenon
  <2>2. \A n \in 1..k : n - 1 \in T => n \in T
    BY <1>2, <1>4, <1>10, Zenon
  <2>3. \A n \in 0..k : n \in T
    <3> HIDE DEF T
    <3> QED
      BY <1>1, <2>1, <2>2, Upwards, Zenon
  <2> QED
    BY <2>3, Zenon
<1> QED
  BY <1>10, <1>11, Zenon DEF V, k, e, J, Go, Keeping

Summing(K, text, last) ==
    /\ K[0] = 0
    /\ \A n \in 1..last : K[n] = K[n - 1] + CharWidth[text[n]]
    /\ \A n \in 0..last : K[n] \in Nat

\* The width of the first characters.
LEMMA WidthsEquation ==
    ASSUME NEW text \in Seq(1..255), NEW last, last = Len(text)
    PROVE  Summing(Widths(text), text, last)
<1> DEFINE V == Nat
           k == last
           e == 0
           Go(x, n) == x + CharWidth[text[n]]
           G == [n \in 1..k |-> [x \in V |-> Go(x, n)]]
           h(g) == [n \in 0..k |-> IF n = 0 THEN e ELSE Go(g[n - 1], n)]
           J == Widths(text)
<1>1. k \in Nat /\ e \in V
  OBVIOUS
<1>2. ASSUME NEW n \in 1..k, NEW x \in V
      PROVE  Go(x, n) \in V
  <2>1. text[n] \in 1..255
    OBVIOUS
  <2>2. CharWidth[text[n]] \in Nat
    BY <2>1, FontAssumption
  <2> QED
    BY <2>2
<1>3. J = CHOOSE g : g = h(g)
  BY DEF Widths
<1> HIDE DEF V, k, e, J, Go
<1>4. (\A n \in 1..k : n \in 0..k /\ n - 1 \in 0..k /\ n # 0) /\ 0 \in 0..k
  BY <1>1
<1>5. G \in [1..k -> [V -> V]]
  BY <1>1, <1>2, Zenon
<1>6. PICK g : Recurs(g, V, e, k, G)
  <2> HIDE DEF G
  <2> QED
    BY <1>1, <1>5, Recursion, Zenon
<1>7. ASSUME NEW n \in 1..k
      PROVE  g[n] = Go(g[n - 1], n)
  <2>1. g[n - 1] \in V /\ g[n] = G[n][g[n - 1]]
    <3> HIDE DEF G
    <3> QED
      BY <1>4, <1>6, Zenon DEF Recurs
  <2> QED
    BY <2>1, Zenon
<1> HIDE DEF G
<1>8. g = h(g)
  <2>1. \A n \in 0..k : n # 0 => n \in 1..k
    BY <1>1
  <2>2. g \in [0..k -> V] /\ g[0] = e
    BY <1>6, Zenon DEF Recurs
  <2>3. \A n \in 0..k : g[n] = IF n = 0 THEN e ELSE Go(g[n - 1], n)
    BY <1>7, <2>1, <2>2, Zenon
  <2> QED
    BY <2>2, <2>3, Zenon
<1>9. J = h(J)
  <2> HIDE DEF h
  <2> QED
    BY <1>3, <1>8, Zenon
<1>10. J[0] = e /\ \A n \in 1..k : J[n] = Go(J[n - 1], n)
  <2>1. \A n \in 0..k : h(J)[n] = IF n = 0 THEN e ELSE Go(J[n - 1], n)
    BY Zenon
  <2> HIDE DEF h
  <2> QED
    BY <1>4, <1>9, <2>1, Zenon
<1>11. \A n \in 0..k : J[n] \in V
  <2> DEFINE T == {n \in 0..k : J[n] \in V}
  <2>1. 0 \in T
    BY <1>1, <1>4, <1>10, Zenon
  <2>2. \A n \in 1..k : n - 1 \in T => n \in T
    BY <1>2, <1>4, <1>10, Zenon
  <2>3. \A n \in 0..k : n \in T
    <3> HIDE DEF T
    <3> QED
      BY <1>1, <2>1, <2>2, Upwards, Zenon
  <2> QED
    BY <2>3, Zenon
<1> QED
  BY <1>10, <1>11, Zenon DEF V, k, e, J, Go, Summing

LEMMA KeptAppend ==
    ASSUME NEW E, NEW u \in Seq(E), NEW c \in E, NEW set
    PROVE  /\ Kept(<<>>, set) = <<>>
           /\ Kept(Append(u, c), set) = IF c \in set THEN Append(Kept(u, set), c) ELSE Kept(u, set)
           /\ Kept(u, set) \in Seq(E)
<1> DEFINE s == Append(u, c)
           K == Keeps(u, set)
           L == Keeps(s, set)
           k == Len(u)
<1>1. /\ s \in Seq(E) /\ Len(s) = k + 1 /\ k \in Nat
      /\ (\A n \in 1..k : s[n] = u[n]) /\ s[k + 1] = c
  <2>1. s \in Seq(E) /\ Extends(s, u, c, k)
    BY Appended, Zenon
  <2> QED
    BY <2>1, Zenon DEF Extends
<1>2. /\ K[0] = <<>>
      /\ \A n \in 1..k : K[n] = IF u[n] \in set THEN Append(K[n - 1], u[n]) ELSE K[n - 1]
      /\ \A n \in 0..k : K[n] \in Seq(E)
  <2>1. Keeping(K, u, set, k, Seq(E))
    BY KeepsEquation, Zenon
  <2> QED
    BY <2>1, Zenon DEF Keeping
<1>3. /\ L[0] = <<>>
      /\ \A n \in 1..k + 1 : L[n] = IF s[n] \in set THEN Append(L[n - 1], s[n]) ELSE L[n - 1]
  <2>1. s \in Seq(E) /\ k + 1 = Len(s)
    BY <1>1
  <2> HIDE DEF s, k
  <2>2. Keeping(L, s, set, k + 1, Seq(E))
    BY <2>1, KeepsEquation, Zenon
  <2> QED
    BY <2>2, Zenon DEF Keeping
<1>4. Kept(u, set) = K[k] /\ Kept(s, set) = L[k + 1]
  BY <1>1, Zenon DEF Kept
<1>5. Kept(<<>>, set) = <<>>
  <2>1. <<>> \in Seq(E) /\ Len(<<>>) = 0
    BY Empty, Zenon
  <2>2. Keeps(<<>>, set)[0] = <<>>
    <3>1. Keeping(Keeps(<<>>, set), <<>>, set, 0, Seq(E))
      BY <2>1, KeepsEquation
    <3> QED
      BY <3>1, Zenon DEF Keeping
  <2> QED
    BY <2>1, <2>2, Zenon DEF Kept
<1> HIDE DEF s, K, L, k
<1> DEFINE T == {n \in 0..k : L[n] = K[n]}
<1>6. (\A n \in 1..k : n \in 0..k /\ n - 1 \in 0..k /\ n \in 1..k + 1) /\ 0 \in 0..k /\ k \in 0..k
      /\ k + 1 \in 1..k + 1 /\ (k + 1) - 1 = k
  BY <1>1
<1>7. \A n \in 0..k : n \in T
  <2>1. 0 \in T
    BY <1>2, <1>3, <1>6, Zenon
  <2>2. \A n \in 1..k : n - 1 \in T => n \in T
    BY <1>1, <1>2, <1>3, <1>6, Zenon
  <2> HIDE DEF T
  <2> QED
    BY <1>1, <2>1, <2>2, Upwards, Zenon
<1>8. L[k] = K[k]
  BY <1>6, <1>7, Zenon
<1>9. L[k + 1] = IF c \in set THEN Append(L[k], c) ELSE L[k]
  <2>1. L[k + 1] = IF s[k + 1] \in set THEN Append(L[(k + 1) - 1], s[k + 1]) ELSE L[(k + 1) - 1]
    BY <1>3, <1>6, Zenon
  <2> QED
    BY <1>1, <1>6, <2>1, Zenon
<1>10. K[k] \in Seq(E)
  BY <1>2, <1>6, Zenon
<1> QED
  BY <1>4, <1>5, <1>8, <1>9, <1>10, Zenon DEF s

LEMMA WidthAppend ==
    ASSUME NEW u \in Seq(1..255), NEW c \in 1..255
    PROVE  /\ TextWidth(<<>>) = 0
           /\ TextWidth(Append(u, c)) = TextWidth(u) + CharWidth[c]
           /\ TextWidth(u) \in Nat /\ CharWidth[c] \in Nat
<1> DEFINE E == 1..255
           s == Append(u, c)
           K == Widths(u)
           L == Widths(s)
           k == Len(u)
<1>0. u \in Seq(E) /\ c \in E
  OBVIOUS
<1>1. /\ s \in Seq(E) /\ Len(s) = k + 1 /\ k \in Nat
      /\ (\A n \in 1..k : s[n] = u[n]) /\ s[k + 1] = c
  <2> HIDE DEF E
  <2>1. s \in Seq(E) /\ Extends(s, u, c, k)
    BY <1>0, Appended, Zenon
  <2> QED
    BY <2>1, Zenon DEF Extends
<1>2. /\ K[0] = 0
      /\ \A n \in 1..k : K[n] = K[n - 1] + CharWidth[u[n]]
      /\ \A n \in 0..k : K[n] \in Nat
  <2>1. Summing(K, u, k)
    BY WidthsEquation, Zenon
  <2> QED
    BY <2>1, Zenon DEF Summing
<1>3. /\ L[0] = 0
      /\ \A n \in 1..k + 1 : L[n] = L[n - 1] + CharWidth[s[n]]
  <2>1. s \in Seq(1..255) /\ k + 1 = Len(s)
    BY <1>1
  <2> HIDE DEF s, k
  <2>2. Summing(L, s, k + 1)
    BY <2>1, WidthsEquation, Zenon
  <2> QED
    BY <2>2, Zenon DEF Summing
<1>4. TextWidth(u) = K[k] /\ TextWidth(s) = L[k + 1]
  BY <1>1, Zenon DEF TextWidth
<1>5. TextWidth(<<>>) = 0
  <2>1. <<>> \in Seq(1..255) /\ Len(<<>>) = 0
    BY Empty, Zenon
  <2>2. Widths(<<>>)[0] = 0
    <3>1. Summing(Widths(<<>>), <<>>, 0)
      BY <2>1, WidthsEquation
    <3> QED
      BY <3>1, Zenon DEF Summing
  <2> QED
    BY <2>1, <2>2, Zenon DEF TextWidth
<1> HIDE DEF s, K, L, k, E
<1> DEFINE T == {n \in 0..k : L[n] = K[n]}
<1>6. (\A n \in 1..k : n \in 0..k /\ n - 1 \in 0..k /\ n \in 1..k + 1) /\ 0 \in 0..k /\ k \in 0..k
      /\ k + 1 \in 1..k + 1 /\ (k + 1) - 1 = k
  BY <1>1
<1>7. \A n \in 0..k : n \in T
  <2>1. 0 \in T
    BY <1>2, <1>3, <1>6, Zenon
  <2>2. \A n \in 1..k : n - 1 \in T => n \in T
    BY <1>1, <1>2, <1>3, <1>6, ZenonT(60)
  <2> HIDE DEF T
  <2> QED
    BY <1>1, <2>1, <2>2, Upwards, Zenon
<1>8. L[k] = K[k]
  BY <1>6, <1>7, Zenon
<1>9. L[k + 1] = L[k] + CharWidth[c]
  <2>1. L[k + 1] = L[(k + 1) - 1] + CharWidth[s[k + 1]]
    BY <1>3, <1>6, Zenon
  <2> QED
    BY <1>1, <1>6, <2>1, Zenon
<1>10. K[k] \in Nat
  BY <1>2, <1>6, Zenon
<1>11. CharWidth[c] \in Nat
  BY FontAssumption
<1> QED
  BY <1>4, <1>5, <1>8, <1>9, <1>10, <1>11, ZenonT(60) DEF s

LEMMA ConcatAppend ==
    ASSUME NEW S, NEW s \in Seq(S), NEW t \in Seq(S), NEW c \in S
    PROVE  s \o Append(t, c) = Append(s \o t, c)
OBVIOUS

LEMMA Concat ==
    ASSUME NEW S, NEW s \in Seq(S), NEW t \in Seq(S)
    PROVE  s \o t \in Seq(S)
OBVIOUS

\* Of a set, what is kept of two sequences is kept of one after the other.
LEMMA KeptConcat ==
    ASSUME NEW E, NEW s \in Seq(E), NEW set
    PROVE  \A t \in Seq(E) : Kept(s \o t, set) = Kept(s, set) \o Kept(t, set)
<1> DEFINE T == {t \in Seq(E) : Kept(s \o t, set) = Kept(s, set) \o Kept(t, set)}
<1>1. Kept(s, set) \in Seq(E) /\ Kept(<<>>, set) = <<>>
  <2>1. CASE E = {}
    <3>1. s = <<>>
      BY <2>1
    <3> DEFINE k == Keeps(s, set)
    <3>2. Keeping(Keeps(s, set), s, set, 0, Seq(E))
      <4>1. Len(s) = 0
        BY <3>1
      <4> QED
        BY <4>1, KeepsEquation
    <3>3. Keeps(s, set)[0] = <<>>
      BY <3>2, Zenon DEF Keeping
    <3>4. Kept(s, set) = <<>>
      <4>1. Len(s) = 0
        BY <3>1
      <4> QED
        BY <3>3, <4>1, Zenon DEF Kept
    <3> QED
      BY <3>1, <3>4, Empty, Zenon
  <2>2. CASE E # {}
    <3>1. PICK c \in E : TRUE
      BY <2>2
    <3> QED
      BY <3>1, KeptAppend, Zenon
  <2> QED
    BY <2>1, <2>2
<1>2. <<>> \in T
  <2>1. s \o <<>> = s /\ Kept(s, set) \o <<>> = Kept(s, set)
    <3> DEFINE k == Kept(s, set)
    <3>1. k \in Seq(E)
      BY <1>1
    <3> HIDE DEF k
    <3>2. k \o <<>> = k /\ s \o <<>> = s
      BY <3>1
    <3> QED
      BY <3>2 DEF k
  <2>2. <<>> \in Seq(E)
    BY Empty, Zenon
  <2> QED
    BY <1>1, <2>1, <2>2, Zenon
<1>3. ASSUME NEW u \in Seq(E), NEW c \in E, u \in T
      PROVE  Append(u, c) \in T
  <2> DEFINE ks == Kept(s, set)
             ku == Kept(u, set)
             su == s \o u
             ksu == Kept(su, set)
  <2>1. ks \in Seq(E) /\ ku \in Seq(E) /\ su \in Seq(E) /\ s \o Append(u, c) = Append(su, c)
    <3>1. ku \in Seq(E)
      BY KeptAppend, Zenon
    <3>2. su \in Seq(E) /\ s \o Append(u, c) = Append(su, c)
      BY Concat, ConcatAppend
    <3> QED
      BY <1>1, <3>1, <3>2, Zenon
  <2>2. ksu = ks \o ku
    BY <1>3, Zenon
  <2>3. /\ Kept(Append(u, c), set) = IF c \in set THEN Append(ku, c) ELSE ku
        /\ Kept(Append(su, c), set) = IF c \in set THEN Append(ksu, c) ELSE ksu
    <3>1. Kept(Append(u, c), set) = IF c \in set THEN Append(ku, c) ELSE ku
      BY KeptAppend, Zenon
    <3> HIDE DEF su
    <3>2. Kept(Append(su, c), set) = IF c \in set THEN Append(ksu, c) ELSE ksu
      BY <2>1, KeptAppend, Zenon
    <3> QED
      BY <3>1, <3>2, Zenon
  <2>4. ks \o Append(ku, c) = Append(ks \o ku, c)
    <3> HIDE DEF ks, ku
    <3> QED
      BY <2>1, ConcatAppend
  <2>5. Append(u, c) \in Seq(E)
    BY Appended, Zenon
  <2> HIDE DEF ks, ku, su, ksu
  <2>6. Kept(s \o Append(u, c), set) = ks \o Kept(Append(u, c), set)
    BY <2>1, <2>2, <2>3, <2>4, Zenon
  <2> QED
    BY <2>5, <2>6, Zenon DEF ks
<1>4. \A t \in Seq(E) : t \in T
  <2> HIDE DEF T
  <2> QED
    BY <1>2, <1>3, SeqInduction, Zenon
<1> QED
  BY <1>4, Zenon

LEMMA KeptTyped ==
    ASSUME NEW E, NEW set
    PROVE  \A t \in Seq(E) : Kept(t, set) \in Seq(set)
<1> DEFINE T == {t \in Seq(E) : Kept(t, set) \in Seq(set)}
<1>1. <<>> \in T
  <2>1. \A s \in Seq(E) : Len(s) = 0 => Kept(s, set) = <<>>
    <3> TAKE s \in Seq(E)
    <3>1. Len(s) = 0 => Keeping(Keeps(s, set), s, set, 0, Seq(E))
      BY KeepsEquation
    <3> QED
      BY <3>1, Zenon DEF Keeping, Kept
  <2>2. <<>> \in Seq(E) /\ Len(<<>>) = 0 /\ <<>> \in Seq(set)
    BY Empty, Zenon
  <2> QED
    BY <2>1, <2>2, Zenon
<1>2. ASSUME NEW u \in Seq(E), NEW c \in E, u \in T
      PROVE  Append(u, c) \in T
  <2>1. Kept(Append(u, c), set) = IF c \in set THEN Append(Kept(u, set), c) ELSE Kept(u, set)
    BY KeptAppend, Zenon
  <2>2. c \in set => Append(Kept(u, set), c) \in Seq(set)
    BY <1>2, Appended, Zenon
  <2>3. Append(u, c) \in Seq(E)
    BY Appended, Zenon
  <2> QED
    BY <1>2, <2>1, <2>2, <2>3, Zenon
<1>3. \A t \in Seq(E) : t \in T
  <2> HIDE DEF T
  <2> QED
    BY <1>1, <1>2, SeqInduction, Zenon
<1> QED
  BY <1>3, Zenon

LEMMA WidthConcat ==
    ASSUME NEW s \in Seq(1..255)
    PROVE  \A t \in Seq(1..255) : TextWidth(s \o t) = TextWidth(s) + TextWidth(t)
<1> DEFINE E == 1..255
           V == Seq(E)
           T == {t \in V : TextWidth(s \o t) = TextWidth(s) + TextWidth(t)}
<1>1. TextWidth(<<>>) = 0 /\ \A u \in Seq(1..255) : TextWidth(u) \in Nat
  <2>1. 1 \in 1..255
    OBVIOUS
  <2> QED
    BY <2>1, WidthAppend, ZenonT(60)
<1>2. <<>> \in T
  <2>1. s \o <<>> = s /\ TextWidth(s) + 0 = TextWidth(s)
    <3>1. TextWidth(s) \in Nat
      BY <1>1
    <3> DEFINE w == TextWidth(s)
    <3>2. w + 0 = w
      <4> HIDE DEF w
      <4> QED
        BY <3>1 DEF w
    <3> QED
      BY <3>2
  <2>2. <<>> \in V
    OBVIOUS
  <2> QED
    BY <1>1, <2>1, <2>2, Zenon
<1>3. ASSUME NEW u \in V, NEW c \in E, u \in T
      PROVE  Append(u, c) \in T
  <2> DEFINE su == s \o u
  <2>1. s \o Append(u, c) = Append(su, c) /\ su \in V /\ Append(u, c) \in V
    <3>1. s \in V
      OBVIOUS
    <3> HIDE DEF E
    <3>2. su \in V /\ s \o Append(u, c) = Append(su, c)
      BY <3>1, Concat, ConcatAppend
    <3>3. Append(u, c) \in V
      BY Appended, Zenon
    <3> QED
      BY <3>2, <3>3, Zenon
  <2>2. /\ TextWidth(Append(su, c)) = TextWidth(su) + CharWidth[c]
        /\ TextWidth(Append(u, c)) = TextWidth(u) + CharWidth[c]
        /\ CharWidth[c] \in Nat
    <3>1. su \in Seq(1..255) /\ u \in Seq(1..255) /\ c \in 1..255
      BY <2>1
    <3> HIDE DEF su, V, E
    <3> QED
      BY <3>1, WidthAppend, ZenonT(60)
  <2> DEFINE a == TextWidth(s)
             b == TextWidth(u)
             d == CharWidth[c]
  <2>3. TextWidth(su) = a + b
    BY <1>3
  <2>4. a \in Nat /\ b \in Nat /\ d \in Nat
    BY <1>1, <2>2
  <2>5. (a + b) + d = a + (b + d)
    <3> HIDE DEF a, b, d
    <3> QED
      BY <2>4
  <2> HIDE DEF su
  <2> QED
    BY <2>1, <2>2, <2>3, <2>5, Zenon
<1>4. \A t \in V : t \in T
  <2> HIDE DEF T, E
  <2> QED
    BY <1>2, <1>3, SeqInduction, Zenon DEF V
<1> QED
  BY <1>4, Zenon

LEMMA JoinedAppend ==
    ASSUME NEW S, NEW f \in Seq(Seq(S)), NEW x \in Seq(S)
    PROVE  /\ Joined(<<>>) = <<>>
           /\ Joined(Append(f, x)) = Joined(f) \o x
           /\ Joined(f) \in Seq(S)
<1> DEFINE V == Seq(S)
           g == Append(f, x)
           K == Joins(f)
           L == Joins(g)
           k == Len(f)
<1>1. /\ g \in Seq(V) /\ Len(g) = k + 1 /\ k \in Nat
      /\ (\A n \in 1..k : g[n] = f[n]) /\ g[k + 1] = x
  <2> HIDE DEF V
  <2>0. f \in Seq(V) /\ x \in V
    BY DEF V
  <2>1. g \in Seq(V) /\ Extends(g, f, x, k)
    BY <2>0, Appended, Zenon
  <2> QED
    BY <2>1, Zenon DEF Extends
<1>2. /\ K[0] = <<>>
      /\ \A n \in 1..k : K[n] = K[n - 1] \o f[n]
      /\ \A n \in 0..k : K[n] \in V
  BY JoinsEquation, Zenon
<1>3. L[0] = <<>> /\ \A n \in 1..k + 1 : L[n] = L[n - 1] \o g[n]
  <2>1. g \in Seq(Seq(S)) /\ Len(g) = k + 1
    BY <1>1
  <2> HIDE DEF g, k
  <2>2. L[0] = <<>> /\ \A n \in 1..Len(g) : L[n] = L[n - 1] \o g[n]
    BY <2>1, JoinsEquation, Zenon
  <2> QED
    BY <2>1, <2>2, Zenon
<1>4. Joined(f) = K[k] /\ Joined(g) = L[k + 1]
  BY <1>1, Zenon DEF Joined
<1>5. Joined(<<>>) = <<>>
  <2>1. <<>> \in Seq(Seq(S)) /\ Len(<<>>) = 0
    BY Empty, Zenon
  <2>2. Joins(<<>>)[0] = <<>>
    BY <2>1, JoinsEquation, Zenon
  <2> QED
    BY <2>1, <2>2, Zenon DEF Joined
<1> HIDE DEF V, g, K, L, k
<1> DEFINE T == {n \in 0..k : L[n] = K[n]}
<1>6. (\A n \in 1..k : n \in 0..k /\ n - 1 \in 0..k /\ n \in 1..k + 1) /\ 0 \in 0..k /\ k \in 0..k
      /\ k + 1 \in 1..k + 1 /\ (k + 1) - 1 = k
  BY <1>1
<1>7. \A n \in 0..k : n \in T
  <2>1. 0 \in T
    BY <1>2, <1>3, <1>6, Zenon
  <2>2. \A n \in 1..k : n - 1 \in T => n \in T
    BY <1>1, <1>2, <1>3, <1>6, Zenon
  <2> HIDE DEF T
  <2> QED
    BY <1>1, <2>1, <2>2, Upwards, Zenon
<1>8. L[k] = K[k]
  BY <1>6, <1>7, Zenon
<1>9. L[k + 1] = L[k] \o x
  <2>1. L[k + 1] = L[(k + 1) - 1] \o g[k + 1]
    BY <1>3, <1>6, Zenon
  <2> QED
    BY <1>1, <1>6, <2>1, Zenon
<1>10. K[k] \in V
  BY <1>2, <1>6, Zenon
<1> QED
  BY <1>4, <1>5, <1>8, <1>9, <1>10, Zenon DEF V, g

\* The same when what the steps keep depends on how many there were.
RecursIn(f, I, a, k, G) ==
    /\ f = [n \in 0..k |-> f[n]]
    /\ f[0] = a
    /\ \A n \in 1..k : f[n] = G[n][f[n - 1]]
    /\ \A n \in 0..k : f[n] \in I[n]

LEMMA RecursionIn ==
    ASSUME NEW k \in Nat, NEW I, NEW a, a \in I[0], NEW G,
           \A n \in 1..k : \A x \in I[n - 1] : G[n][x] \in I[n]
    PROVE  \E f : RecursIn(f, I, a, k, G)
<1> DEFINE S == UNION {I[n] : n \in 0..k}
           H == [n \in 1..k |-> [x \in S |-> IF x \in I[n - 1] THEN G[n][x] ELSE x]]
<1>1. (\A n \in 1..k : n \in 0..k /\ n - 1 \in 0..k) /\ 0 \in 0..k
  OBVIOUS
<1>2. \A n \in 0..k : \A x \in I[n] : x \in S
  BY Zenon
<1> HIDE DEF S
<1>3. H \in [1..k -> [S -> S]]
  <2>1. \A n \in 1..k : \A x \in S : (IF x \in I[n - 1] THEN G[n][x] ELSE x) \in S
    BY <1>1, <1>2, Zenon
  <2> QED
    BY <2>1, Zenon
<1>4. \A n \in 1..k : \A x \in I[n - 1] : H[n][x] = G[n][x]
  BY <1>1, <1>2, Zenon
<1> HIDE DEF H
<1>5. PICK f : Recurs(f, S, a, k, H)
  <2>1. a \in S
    BY <1>1, <1>2, Zenon
  <2> QED
    BY <1>3, <2>1, Recursion, Zenon
<1>6. f \in [0..k -> S] /\ f[0] = a /\ \A n \in 1..k : f[n] = H[n][f[n - 1]]
  BY <1>5, Zenon DEF Recurs
<1> DEFINE T == {n \in 0..k : f[n] \in I[n]}
<1>7. \A n \in 0..k : n \in T
  <2>1. 0 \in T
    BY <1>1, <1>6, Zenon
  <2>2. ASSUME NEW n \in 1..k, n - 1 \in T
        PROVE  n \in T
    <3>1. f[n - 1] \in I[n - 1]
      BY <2>2, Zenon
    <3>2. f[n] = G[n][f[n - 1]]
      BY <1>4, <1>6, <3>1, Zenon
    <3>3. G[n][f[n - 1]] \in I[n]
      BY <3>1, Zenon
    <3>4. f[n] \in I[n]
      BY <3>2, <3>3, Zenon
    <3> QED
      BY <1>1, <3>4, Zenon
  <2> HIDE DEF T
  <2> QED
    BY <2>1, <2>2, Upwards, Zenon
<1>8. \A n \in 0..k : f[n] \in I[n]
  BY <1>7, Zenon
<1>9. \A n \in 1..k : f[n] = G[n][f[n - 1]]
  BY <1>1, <1>4, <1>6, <1>8, Zenon
<1>10. f = [n \in 0..k |-> f[n]]
  BY <1>6, Zenon
<1>11. RecursIn(f, I, a, k, G)
  BY <1>6, <1>8, <1>9, <1>10, Zenon DEF RecursIn
<1> QED
  BY <1>11, Zenon

-----------------------------------------------------------------------------
(* Parts of a text *)

Seg(text, a, b) == SubSeq(text, a + 1, b)

LEMMA SameSeq ==
    ASSUME NEW E, NEW s \in Seq(E), NEW t \in Seq(E), Len(s) = Len(t),
           \A n \in 1..Len(s) : s[n] = t[n]
    PROVE  s = t
OBVIOUS

LEMMA ConcatLen ==
    ASSUME NEW E, NEW s \in Seq(E), NEW t \in Seq(E), NEW a, a = Len(s), NEW b, b = Len(t)
    PROVE  s \o t \in Seq(E) /\ Len(s \o t) = a + b
OBVIOUS

LEMMA ConcatElements ==
    ASSUME NEW E, NEW s \in Seq(E), NEW t \in Seq(E), NEW a, a = Len(s), NEW b, b = Len(t),
           NEW n \in 1..a + b
    PROVE  (s \o t)[n] = IF n <= a THEN s[n] ELSE t[n - a]
OBVIOUS

LEMMA SegTyped ==
    ASSUME NEW E, NEW text \in Seq(E), NEW a \in Nat, NEW b \in Nat, a <= b, b <= Len(text)
    PROVE  Seg(text, a, b) \in Seq(E) /\ Len(Seg(text, a, b)) = b - a
BY DEF Seg

LEMMA SegElements ==
    ASSUME NEW E, NEW text \in Seq(E), NEW a \in Nat, NEW b \in Nat, a <= b, b <= Len(text)
    PROVE  \A n \in 1..b - a : Seg(text, a, b)[n] = text[a + n]
BY DEF Seg

LEMMA SegNone ==
    ASSUME NEW E, NEW text \in Seq(E), NEW a \in Nat
    PROVE  Seg(text, a, a) = <<>>
BY DEF Seg

LEMMA SegNext ==
    ASSUME NEW E, NEW text \in Seq(E), NEW a \in Nat, NEW b \in Nat, a <= b, b < Len(text)
    PROVE  Seg(text, a, b + 1) = Append(Seg(text, a, b), text[b + 1])
<1> DEFINE s == Seg(text, a, b + 1)
           t == Seg(text, a, b)
           c == text[b + 1]
<1>0. b + 1 \in Nat /\ a <= b + 1 /\ b + 1 <= Len(text) /\ b <= Len(text) /\ c \in E
  OBVIOUS
<1>1. s \in Seq(E) /\ Len(s) = (b + 1) - a /\ t \in Seq(E) /\ Len(t) = b - a
  BY <1>0, SegTyped
<1>2. \A n \in 1..(b + 1) - a : s[n] = text[a + n]
  BY <1>0, SegElements
<1>3. \A n \in 1..b - a : t[n] = text[a + n]
  BY <1>0, SegElements
<1>4. s[b - a + 1] = c
  <2> DEFINE m == b - a + 1
  <2>1. m \in 1..(b + 1) - a /\ a + m = b + 1
    OBVIOUS
  <2> HIDE DEF m, s
  <2>2. s[m] = text[b + 1]
    BY <1>2, <2>1, Zenon
  <2> QED
    BY <2>2, Zenon DEF m
<1>5. \A n \in 1..b - a : s[n] = t[n]
  <2>1. \A n \in 1..b - a : n \in 1..(b + 1) - a
    OBVIOUS
  <2> QED
    BY <1>2, <1>3, <2>1, Zenon
<1> HIDE DEF s, t, c
<1>6. Len(Append(t, c)) = b - a + 1 /\ Append(t, c) \in Seq(E)
      /\ (\A n \in 1..b - a : Append(t, c)[n] = t[n]) /\ Append(t, c)[b - a + 1] = c
  BY <1>0, <1>1
<1>7. Len(s) = b - a + 1 /\ \A n \in 1..b - a + 1 : s[n] = Append(t, c)[n]
  <2>1. \A n \in 1..b - a + 1 : n \in 1..b - a \/ n = b - a + 1
    OBVIOUS
  <2>2. Len(s) = b - a + 1
    BY <1>1
  <2> QED
    BY <1>4, <1>5, <1>6, <2>1, <2>2, Zenon
<1>8. s = Append(t, c)
  BY <1>1, <1>6, <1>7
<1> QED
  BY <1>8 DEF s, t, c

LEMMA SegJoin ==
    ASSUME NEW E, NEW text \in Seq(E), NEW a \in Nat, NEW b \in Nat, NEW c \in Nat,
           a <= b, b <= c, c <= Len(text)
    PROVE  Seg(text, a, c) = Seg(text, a, b) \o Seg(text, b, c)
<1> DEFINE s == Seg(text, a, c)
           t == Seg(text, a, b)
           u == Seg(text, b, c)
<1>0. a <= c /\ b <= Len(text)
  OBVIOUS
<1>1. /\ s \in Seq(E) /\ Len(s) = c - a /\ t \in Seq(E) /\ Len(t) = b - a
      /\ u \in Seq(E) /\ Len(u) = c - b
  BY <1>0, SegTyped
<1>2. \A n \in 1..c - a : s[n] = text[a + n]
  BY <1>0, SegElements
<1>3. \A n \in 1..b - a : t[n] = text[a + n]
  BY <1>0, SegElements
<1>4. \A n \in 1..c - b : u[n] = text[b + n]
  BY <1>0, SegElements
<1> HIDE DEF s, t, u
<1>5. /\ Len(t \o u) = c - a /\ t \o u \in Seq(E)
      /\ \A n \in 1..c - a : (t \o u)[n] = IF n <= b - a THEN t[n] ELSE u[n - (b - a)]
  <2>1. t \o u \in Seq(E) /\ Len(t \o u) = (b - a) + (c - b)
    <3> DEFINE i == b - a
               j == c - b
    <3>1. i = Len(t) /\ j = Len(u)
      BY <1>1
    <3> HIDE DEF i, j
    <3>2. t \in Seq(E) /\ u \in Seq(E)
      BY <1>1
    <3>3. t \o u \in Seq(E) /\ Len(t \o u) = i + j
      BY <3>1, <3>2, ConcatLen
    <3> QED
      BY <3>3, Zenon DEF i, j
  <2>2. (b - a) + (c - b) = c - a
    OBVIOUS
  <2>3. ASSUME NEW n \in 1..c - a
        PROVE  (t \o u)[n] = IF n <= b - a THEN t[n] ELSE u[n - (b - a)]
    <3> DEFINE i == b - a
               j == c - b
    <3>1. n \in 1..i + j /\ i = Len(t) /\ j = Len(u)
      BY <1>1
    <3> HIDE DEF i, j
    <3>2. (t \o u)[n] = IF n <= i THEN t[n] ELSE u[n - i]
      BY <1>1, <3>1, ConcatElements, SMTT(30)
    <3> QED
      BY <3>2 DEF i
  <2> QED
    BY <2>1, <2>2, <2>3
<1>6. \A n \in 1..c - a : s[n] = (t \o u)[n]
  <2> TAKE n \in 1..c - a
  <2>1. CASE n <= b - a
    <3>1. n \in 1..b - a
      BY <2>1
    <3> QED
      BY <1>2, <1>3, <1>5, <2>1, <3>1, Zenon
  <2>2. CASE ~(n <= b - a)
    <3>1. n - (b - a) \in 1..c - b /\ b + (n - (b - a)) = a + n
      BY <2>2
    <3> QED
      BY <1>2, <1>4, <1>5, <2>2, <3>1, Zenon
  <2> QED
    BY <2>1, <2>2
<1>7. s = t \o u
  <2> DEFINE v == t \o u
  <2>1. v \in Seq(E) /\ Len(s) = Len(v) /\ \A n \in 1..Len(s) : s[n] = v[n]
    BY <1>1, <1>5, <1>6
  <2> HIDE DEF v
  <2>2. s = v
    BY <1>1, <2>1, SameSeq, Zenon
  <2> QED
    BY <2>2 DEF v
<1> QED
  BY <1>7 DEF s, t, u

-----------------------------------------------------------------------------
(* Wrapping *)

Break == {Space, Dash}
Solid == (1..255) \ {Space, Dash}
LineWidths == Int \union {StringWidth(text) : text \in Seq(1..255)}
WrappedLine == [text : Seq(1..255), width : LineWidths]
TextOf(lines) == Joined([n \in DOMAIN lines |-> lines[n].text])

LEMMA TextOfAppend ==
    ASSUME NEW lines \in Seq(WrappedLine), NEW l \in WrappedLine
    PROVE  /\ TextOf(<<>>) = <<>>
           /\ TextOf(Append(lines, l)) = TextOf(lines) \o l.text
           /\ TextOf(lines) \in Seq(1..255)
<1> DEFINE V == Seq(1..255)
           k == Len(lines)
           more == Append(lines, l)
           f == [n \in DOMAIN lines |-> lines[n].text]
           g == [n \in DOMAIN more |-> more[n].text]
           x == l.text
           h == Append(f, x)
<1>1. /\ k \in Nat /\ DOMAIN lines = 1..k /\ DOMAIN more = 1..k + 1
      /\ \A n \in 1..k : lines[n] \in WrappedLine
      /\ \A n \in 1..k : more[n] = lines[n]
      /\ more[k + 1] = l
  OBVIOUS
<1>2. \A w \in WrappedLine : w.text \in V
  BY DEF WrappedLine
<1> HIDE DEF V, k, more
<1>3. f \in Seq(V) /\ Len(f) = k /\ x \in V
  <2>1. f \in [1..k -> V]
    BY <1>1, <1>2, Zenon
  <2>2. x \in V
    BY <1>2
  <2> HIDE DEF f
  <2> QED
    BY <1>1, <2>1, <2>2
<1>4. h \in Seq(V) /\ Len(h) = k + 1 /\ (\A n \in 1..k : h[n] = f[n]) /\ h[k + 1] = x
  <2> HIDE DEF f, x
  <2>1. h \in Seq(V) /\ Extends(h, f, x, Len(f))
    BY <1>3, Appended, Zenon
  <2> QED
    BY <1>3, <2>1, Zenon DEF Extends
<1>5. g = h
  <2>1. \A n \in 1..k + 1 : n \in 1..k \/ n = k + 1
    BY <1>1
  <2>2. \A n \in 1..k + 1 : g[n] = h[n]
    <3> HIDE DEF h
    <3> QED
      BY <1>1, <1>4, <2>1, Zenon
  <2>3. g \in Seq(V) /\ Len(g) = k + 1
    <3>1. \A n \in 1..k + 1 : h[n] \in V
      <4> HIDE DEF h
      <4> QED
        BY <1>4
    <3>2. g \in [1..k + 1 -> V]
      <4> HIDE DEF h
      <4>1. \A n \in 1..k + 1 : more[n].text \in V
        BY <1>1, <2>2, <3>1, Zenon
      <4> QED
        BY <1>1, <4>1, Zenon
    <3> HIDE DEF g
    <3> QED
      BY <1>1, <3>2
  <2> HIDE DEF g, h
  <2> QED
    BY <1>4, <2>2, <2>3, SameSeq
<1>6. Joined(<<>>) = <<>> /\ Joined(h) = Joined(f) \o x /\ Joined(f) \in V
  <2> DEFINE E == 1..255
  <2>1. f \in Seq(Seq(E)) /\ x \in Seq(E)
    BY <1>3 DEF V
  <2> HIDE DEF f, x, E
  <2>2. /\ Joined(<<>>) = <<>>
        /\ Joined(Append(f, x)) = Joined(f) \o x
        /\ Joined(f) \in Seq(E)
    BY <2>1, JoinedAppend, Zenon
  <2>3. V = Seq(E)
    BY Zenon DEF V, E
  <2> QED
    BY <2>2, <2>3, Zenon
<1>7. TextOf(<<>>) = <<>>
  <2>1. [n \in DOMAIN <<>> |-> <<>>[n].text] = <<>>
    OBVIOUS
  <2> QED
    BY <1>6, <2>1, Zenon DEF TextOf
<1>8. TextOf(Append(lines, l)) = Joined(g) /\ TextOf(lines) = Joined(f)
  BY Zenon DEF TextOf, more
<1> HIDE DEF f, g, h
<1> QED
  BY <1>5, <1>6, <1>7, <1>8, Zenon DEF V

\* A text that is to be wrapped begins with a word, and each word fits in a line.
Start(text, a) == a = 0 \/ text[a] \in Break
NoBreak(text, a, b) == \A k \in a + 1..b : text[k] \notin Break
Fits(text, max) ==
    /\ text[1] \notin Break
    /\ \A a \in 0..Len(text), b \in 1..Len(text) :
          Start(text, a) /\ NoBreak(text, a, b) => TextWidth(Seg(text, a, b)) < max

\* The last space or dash of a line that has been begun, and the width up to it.
PointIs(text, p, from, n) ==
    \/ p[1] = 0 /\ NoBreak(text, from, n)
    \/ /\ p[1] # 0 /\ p[1] \in from..n - 1
       /\ text[p[1] + 1] \in Break
       /\ p[2] = TextWidth(Seg(text, from, p[1] + 1))
       /\ NoBreak(text, p[1] + 1, n)

LEMMA ScanPoint ==
    ASSUME NEW text \in Seq(1..255), NEW n \in 1..Len(text), NEW from \in 0..n - 1,
           NEW point \in Nat \X Int, PointIs(text, point, from, n - 1),
           NEW width \in Int, width = TextWidth(Seg(text, from, n)),
           text[1] \notin Break,
           NEW p, p = IF text[n] \in Break THEN <<n - 1, width>> ELSE point
    PROVE  p \in Nat \X Int /\ PointIs(text, p, from, n)
<1>1. CASE text[n] \in Break
  <2>1. p = <<n - 1, width>> /\ p[1] = n - 1 /\ p[2] = width /\ p \in Nat \X Int
    BY <1>1
  <2>2. n # 1
    BY <1>1
  <2>3. n - 1 # 0 /\ n - 1 \in from..n - 1 /\ (n - 1) + 1 = n
    BY <2>2
  <2>4. NoBreak(text, n, n)
    BY DEF NoBreak
  <2>5. /\ p[1] # 0 /\ p[1] \in from..n - 1 /\ text[p[1] + 1] \in Break
        /\ p[2] = TextWidth(Seg(text, from, p[1] + 1)) /\ NoBreak(text, p[1] + 1, n)
    BY <1>1, <2>1, <2>3, <2>4, Zenon
  <2> QED
    BY <2>1, <2>5, Zenon DEF PointIs
<1>2. CASE text[n] \notin Break
  <2>1. p = point
    BY <1>2
  <2>2. ASSUME NEW a \in Nat, NoBreak(text, a, n - 1)
        PROVE  NoBreak(text, a, n)
    <3>1. \A k \in a + 1..n : k \in a + 1..n - 1 \/ k = n
      OBVIOUS
    <3> QED
      BY <1>2, <2>2, <3>1, Zenon DEF NoBreak
  <2>3. CASE point[1] = 0 /\ NoBreak(text, from, n - 1)
    <3>1. from \in Nat
      OBVIOUS
    <3> QED
      BY <2>1, <2>2, <2>3, <3>1, Zenon DEF PointIs
  <2>4. CASE /\ point[1] # 0 /\ point[1] \in from..(n - 1) - 1
             /\ text[point[1] + 1] \in Break
             /\ point[2] = TextWidth(Seg(text, from, point[1] + 1))
             /\ NoBreak(text, point[1] + 1, n - 1)
    <3>1. point[1] + 1 \in Nat /\ point[1] \in from..n - 1
      BY <2>4
    <3> QED
      BY <2>1, <2>2, <2>4, <3>1, Zenon DEF PointIs
  <2> QED
    BY <2>1, <2>3, <2>4, Zenon DEF PointIs
<1> QED
  BY <1>1, <1>2

\* The widths of parts.
LEMMA SegWidths ==
    ASSUME NEW text \in Seq(1..255), NEW a \in Nat, NEW b \in Nat, NEW c \in Nat,
           a <= b, b <= c, c <= Len(text)
    PROVE  /\ TextWidth(Seg(text, a, b)) \in Nat /\ TextWidth(Seg(text, b, c)) \in Nat
           /\ TextWidth(Seg(text, a, c)) = TextWidth(Seg(text, a, b)) + TextWidth(Seg(text, b, c))
<1>1. a <= c /\ b <= Len(text)
  OBVIOUS
<1>2. Seg(text, a, b) \in Seq(1..255) /\ Seg(text, b, c) \in Seq(1..255)
  BY <1>1, SegTyped
<1>3. Seg(text, a, c) = Seg(text, a, b) \o Seg(text, b, c)
  BY SegJoin
<1>4. \A u \in Seq(1..255) : TextWidth(u) \in Nat
  <2>1. 1 \in 1..255
    OBVIOUS
  <2> QED
    BY <2>1, WidthAppend, Zenon
<1> QED
  BY <1>2, <1>3, <1>4, WidthConcat, ZenonT(60)

LEMMA SeqElement ==
    ASSUME NEW E, NEW s \in Seq(E), NEW n \in 1..Len(s)
    PROVE  s[n] \in E
OBVIOUS

KeptApart(u, t, set) == Kept(u \o t, set) = Kept(u, set) \o Kept(t, set)

LEMMA KeptTwo ==
    ASSUME NEW E, NEW u \in Seq(E), NEW t \in Seq(E), NEW set
    PROVE  KeptApart(u, t, set)
<1>1. \A x \in Seq(E) : Kept(u \o x, set) = Kept(u, set) \o Kept(x, set)
  BY KeptConcat
<1> QED
  BY <1>1, Zenon DEF KeptApart

LEMMA SolidTwo ==
    ASSUME NEW u \in Seq(1..255), NEW t \in Seq(1..255)
    PROVE  Kept(u \o t, Solid) = Kept(u, Solid) \o Kept(t, Solid)
<1>1. KeptApart(u, t, Solid)
  BY KeptTwo, Zenon
<1> QED
  BY <1>1, Zenon DEF KeptApart

LEMMA KeptOne ==
    ASSUME NEW E, NEW u \in Seq(E), NEW c \in E, NEW set
    PROVE  /\ c \in set => Kept(Append(u, c), set) = Append(Kept(u, set), c)
           /\ c \notin set => Kept(Append(u, c), set) = Kept(u, set)
<1>1. Kept(Append(u, c), set) = IF c \in set THEN Append(Kept(u, set), c) ELSE Kept(u, set)
  BY KeptAppend, Zenon
<1> QED
  BY <1>1, Zenon

\* Without the spaces and dashes, the parts make up the text.
LEMMA SegWords ==
    ASSUME NEW text \in Seq(1..255), NEW a \in Nat, NEW b \in Nat, a <= b, b < Len(text),
           text[b + 1] \in Break
    PROVE  Kept(Seg(text, 0, b + 1), Solid) = Kept(Seg(text, 0, a), Solid) \o Kept(Seg(text, a, b), Solid)
<1> DEFINE E == 1..255
           s == Seg(text, 0, a)
           t == Seg(text, a, b)
           u == Seg(text, 0, b)
           c == text[b + 1]
<1>1. 0 \in Nat /\ 0 <= a /\ 0 <= b /\ b <= Len(text) /\ a <= Len(text)
  OBVIOUS
<1>2. text \in Seq(E) /\ c \in E
  <2>1. b + 1 \in 1..Len(text)
    OBVIOUS
  <2>2. text[b + 1] \in 1..255
    BY <2>1, SeqElement
  <2> QED
    BY <2>2
<1>3. ~(c \in Solid)
  BY Zenon DEF Solid, Break
<1> HIDE DEF E, c
<1>4. s \in Seq(E) /\ t \in Seq(E) /\ u \in Seq(E)
  BY <1>1, <1>2, SegTyped
<1>5. Seg(text, 0, b + 1) = Append(u, c)
  BY <1>1, <1>2, SegNext DEF c
<1>6. u = s \o t
  BY <1>1, <1>2, SegJoin, SMTT(30)
<1> HIDE DEF s, t, u
<1>7. Kept(Append(u, c), Solid) = Kept(u, Solid)
  BY <1>2, <1>3, <1>4, KeptOne, Zenon
<1>8. Kept(s \o t, Solid) = Kept(s, Solid) \o Kept(t, Solid)
  <2>1. s \in Seq(1..255) /\ t \in Seq(1..255)
    BY <1>4, Zenon DEF E
  <2> QED
    BY <2>1, SolidTwo, Zenon
<1> QED
  BY <1>3, <1>5, <1>6, <1>7, <1>8, Zenon DEF s, t

ScanStates ==
    [i : Nat, width : Int, point : Nat \X Int, from : Nat, lines : Seq(WrappedLine)]

LEMMA ScanRecord ==
    ASSUME NEW P, NEW V, NEW a \in Nat, NEW b \in Int, NEW c \in P, NEW d \in Nat, NEW e \in V,
           NEW t, t = [i |-> a, width |-> b, point |-> c, from |-> d, lines |-> e]
    PROVE  t \in [i : Nat, width : Int, point : P, from : Nat, lines : V]
OBVIOUS

\* The lines so far and the one that has been begun.
ScanLines(text, max, lines, from) ==
    /\ Kept(TextOf(lines), Solid) = Kept(Seg(text, 0, from), Solid)
    /\ \A m \in DOMAIN lines : TextWidth(lines[m].text) <= max
ScanIs(text, max, s, n) ==
    /\ s \in ScanStates
    /\ s.i = n
    /\ s.from <= n
    /\ s.width = TextWidth(Seg(text, s.from, n))
    /\ s.width < max
    /\ Start(text, s.from)
    /\ PointIs(text, s.point, s.from, n)
    /\ ScanLines(text, max, s.lines, s.from)

\* A line that goes on.
LEMMA ScanGoesOn ==
    ASSUME NEW text \in Seq(1..255), NEW max \in Int, NEW n \in Nat, NEW m \in Nat, m <= n,
           NEW s, ScanIs(text, max, s, m),
           NEW width \in Int, width = TextWidth(Seg(text, s.from, n)), width < max,
           NEW p \in Nat \X Int, PointIs(text, p, s.from, n),
           NEW t, t = [s EXCEPT !.i = n, !.width = width, !.point = p]
    PROVE  ScanIs(text, max, t, n)
<1>1. s \in ScanStates /\ s.from <= m /\ Start(text, s.from) /\ ScanLines(text, max, s.lines, s.from)
  BY Zenon DEF ScanIs
<1>2. /\ t \in ScanStates /\ t.i = n /\ t.width = width /\ t.point = p
      /\ t.from = s.from /\ t.lines = s.lines /\ s.from \in Nat
  BY <1>1 DEF ScanStates
<1>3. s.from <= n
  BY <1>1, <1>2
<1> QED
  BY <1>1, <1>2, <1>3, Zenon DEF ScanIs

\* A line that ends at its last break.
LEMMA ScanBreaks ==
    ASSUME NEW text \in Seq(1..255), NEW max \in Int, NEW n \in 1..Len(text),
           Fits(text, max), NEW s, ScanIs(text, max, s, n - 1),
           NEW width \in Int, width = TextWidth(Seg(text, s.from, n)), width >= max,
           NEW p \in Nat \X Int, PointIs(text, p, s.from, n),
           NEW l, l = [text |-> SubSeq(text, s.from + 1, p[1]), width |-> p[2]],
           NEW t, t = [i |-> n, width |-> width - p[2], point |-> <<0, p[2]>>,
                       from |-> p[1] + 1, lines |-> Append(s.lines, l)]
    PROVE  p[1] # 0 /\ ScanIs(text, max, t, n)
<1> DEFINE from == s.from
           m == n - 1
           q == p[1] + 1
<1>1. /\ s \in ScanStates /\ from <= m /\ s.width = TextWidth(Seg(text, from, m)) /\ s.width < max
      /\ Start(text, from) /\ ScanLines(text, max, s.lines, from)
  BY Zenon DEF ScanIs
<1>2. from \in Nat /\ s.lines \in Seq(WrappedLine) /\ s.width \in Int /\ m \in Nat /\ m + 1 = n
      /\ n \in Nat /\ p[1] \in Nat /\ p[2] \in Int /\ from \in 0..Len(text)
  <2>1. from \in Nat /\ s.lines \in Seq(WrappedLine) /\ s.width \in Int
    BY <1>1 DEF ScanStates
  <2>2. p[1] \in Nat /\ p[2] \in Int
    OBVIOUS
  <2>3. m \in Nat /\ m + 1 = n /\ n \in Nat /\ m <= Len(text)
    OBVIOUS
  <2>4. from \in 0..Len(text)
    <3> HIDE DEF from, m
    <3> QED
      BY <1>1, <2>1, <2>3
  <2> QED
    BY <2>1, <2>2, <2>3, <2>4, Zenon
<1>3. p[1] # 0
  <2>1. SUFFICES ASSUME p[1] = 0 PROVE FALSE
    BY Zenon
  <2>2. NoBreak(text, from, n)
    BY <2>1, Zenon DEF PointIs
  <2>3. TextWidth(Seg(text, from, n)) < max
    BY <1>1, <1>2, <2>2, Zenon DEF Fits
  <2> QED
    BY <2>3
<1>4. /\ p[1] \in from..n - 1 /\ text[q] \in Break
      /\ p[2] = TextWidth(Seg(text, from, q)) /\ NoBreak(text, q, n)
  BY <1>3, Zenon DEF PointIs
<1>5. /\ from <= p[1] /\ p[1] <= m /\ q \in Nat /\ q <= n /\ from <= q /\ n <= Len(text)
      /\ m <= Len(text) /\ p[1] <= Len(text) /\ p[1] < Len(text) /\ q \in 0..Len(text)
  <2> HIDE DEF from
  <2> QED
    BY <1>2, <1>4, SMTT(30)
<1> HIDE DEF from, m, q
<1>6. Start(text, q)
  BY <1>4, Zenon DEF Start
<1>7. width - p[2] = TextWidth(Seg(text, q, n)) /\ width - p[2] \in Int
  <2> DEFINE a == TextWidth(Seg(text, from, q))
             b == TextWidth(Seg(text, q, n))
             d == TextWidth(Seg(text, from, n))
  <2>0. a \in Nat /\ b \in Nat /\ d = a + b
    BY <1>2, <1>5, SegWidths
  <2> HIDE DEF a, b
  <2>1. a \in Nat /\ b \in Nat /\ width = a + b
    BY <2>0, Zenon DEF from, d
  <2>2. p[2] = a
    BY <1>4, Zenon DEF a
  <2>3. width - p[2] = b /\ width - p[2] \in Int
    BY <2>1, <2>2
  <2> QED
    BY <2>3, Zenon DEF b
<1>8. TextWidth(Seg(text, q, n)) < max
  BY <1>4, <1>5, <1>6, Zenon DEF Fits
<1>9. l \in WrappedLine /\ l.text = Seg(text, from, p[1])
  <2>1. Seg(text, from, p[1]) \in Seq(1..255)
    BY <1>2, <1>5, SegTyped
  <2>2. SubSeq(text, from + 1, p[1]) = Seg(text, from, p[1])
    BY Zenon DEF Seg
  <2>3. l = [text |-> Seg(text, from, p[1]), width |-> p[2]]
    BY <2>2, Zenon DEF from
  <2> DEFINE u == Seg(text, from, p[1])
  <2> HIDE DEF u
  <2>4. [text |-> u, width |-> p[2]] \in WrappedLine /\ [text |-> u, width |-> p[2]].text = u
    BY <1>2, <2>1 DEF u, WrappedLine, LineWidths
  <2> QED
    BY <2>3, <2>4, Zenon DEF u
<1>10. TextWidth(l.text) <= max
  <2> DEFINE a == TextWidth(Seg(text, from, p[1]))
             b == TextWidth(Seg(text, p[1], m))
             d == TextWidth(Seg(text, from, m))
  <2>1. a \in Nat /\ b \in Nat /\ d = a + b
    BY <1>2, <1>5, SegWidths, SMTT(30)
  <2>2. d < max
    BY <1>1, Zenon DEF d
  <2> HIDE DEF a, b, d
  <2>3. a <= max
    BY <2>1, <2>2
  <2> QED
    BY <1>9, <2>3, Zenon DEF a
<1>11. Kept(TextOf(Append(s.lines, l)), Solid) = Kept(Seg(text, 0, q), Solid)
  <2> DEFINE a == TextOf(s.lines)
             b == Seg(text, from, p[1])
  <2>1. TextOf(Append(s.lines, l)) = a \o l.text /\ a \in Seq(1..255)
    BY <1>2, <1>9, TextOfAppend
  <2>2. b \in Seq(1..255)
    BY <1>2, <1>5, SegTyped
  <2>3. Kept(Seg(text, 0, p[1] + 1), Solid) = Kept(Seg(text, 0, from), Solid) \o Kept(b, Solid)
    <3>1. text[p[1] + 1] \in Break
      BY <1>4, Zenon DEF q
    <3> QED
      BY <1>2, <1>5, <3>1, SegWords
  <2>4. Kept(a, Solid) = Kept(Seg(text, 0, from), Solid)
    BY <1>1, Zenon DEF ScanLines
  <2> HIDE DEF a, b
  <2>5. Kept(a \o b, Solid) = Kept(a, Solid) \o Kept(b, Solid)
    BY <2>1, <2>2, SolidTwo, Zenon
  <2> QED
    BY <1>9, <2>1, <2>3, <2>4, <2>5, Zenon DEF b, q
<1>12. Append(s.lines, l) \in Seq(WrappedLine)
       /\ \A j \in DOMAIN Append(s.lines, l) : TextWidth(Append(s.lines, l)[j].text) <= max
  <2> DEFINE S == WrappedLine
             u == s.lines
             v == Append(u, l)
             k == Len(u)
  <2>1. u \in Seq(S) /\ l \in S
    BY <1>2, <1>9, Zenon
  <2> HIDE DEF S, u
  <2>2. v \in Seq(S) /\ Extends(v, u, l, k)
    BY <2>1, Appended, Zenon
  <2>3. v \in Seq(S) /\ k \in Nat /\ (\A j \in 1..k : v[j] = u[j]) /\ v[k + 1] = l /\ Len(v) = k + 1
    BY <2>2, Zenon DEF Extends
  <2>4. DOMAIN u = 1..k
    BY <2>1
  <2> HIDE DEF v, k
  <2>5. DOMAIN v = 1..k + 1 /\ \A j \in 1..k + 1 : j \in 1..k \/ j = k + 1
    BY <2>3
  <2>6. \A j \in DOMAIN u : TextWidth(u[j].text) <= max
    BY <1>1, Zenon DEF ScanLines, u
  <2>7. \A j \in DOMAIN v : TextWidth(v[j].text) <= max
    BY <1>10, <2>3, <2>4, <2>5, <2>6, Zenon
  <2> QED
    BY <2>3, <2>7, Zenon DEF v, S, u
<1>13. PointIs(text, <<0, p[2]>>, q, n) /\ <<0, p[2]>> \in Nat \X Int
  <2> DEFINE z == <<0, p[2]>>
  <2>1. z[1] = 0 /\ z \in Nat \X Int
    BY <1>2
  <2> HIDE DEF z
  <2>2. PointIs(text, z, q, n)
    BY <1>4, <2>1, Zenon DEF PointIs
  <2> QED
    BY <2>1, <2>2, Zenon DEF z
<1>14. /\ t.i = n /\ t.width = width - p[2] /\ t.point = <<0, p[2]>> /\ t.from = q
       /\ t.lines = Append(s.lines, l)
  BY DEF q
<1>15. t \in ScanStates
  <2> DEFINE z == <<0, p[2]>>
             v == Append(s.lines, l)
             w == width - p[2]
  <2>1. t = [i |-> n, width |-> w, point |-> z, from |-> q, lines |-> v]
    BY Zenon DEF q
  <2>2. n \in Nat /\ w \in Int /\ z \in Nat \X Int /\ q \in Nat /\ v \in Seq(WrappedLine)
    BY <1>2, <1>5, <1>7, <1>12, <1>13, Zenon
  <2> DEFINE P == Nat \X Int
             V == Seq(WrappedLine)
  <2>3. z \in P /\ v \in V /\ ScanStates = [i : Nat, width : Int, point : P, from : Nat, lines : V]
    BY <2>2, Zenon DEF ScanStates
  <2> HIDE DEF z, v, w, P, V
  <2>4. t \in [i : Nat, width : Int, point : P, from : Nat, lines : V]
    BY <2>1, <2>2, <2>3, ScanRecord
  <2> QED
    BY <2>3, <2>4, Zenon
<1>16. ScanLines(text, max, t.lines, t.from)
  BY <1>11, <1>12, <1>14, Zenon DEF ScanLines
<1> QED
  BY <1>3, <1>5, <1>6, <1>7, <1>8, <1>13, <1>14, <1>15, <1>16, Zenon DEF ScanIs

LEMMA ScanStep ==
    ASSUME NEW text \in Seq(1..255), NEW max \in Int, NEW n \in 1..Len(text),
           Fits(text, max), NEW s, ScanIs(text, max, s, n - 1)
    PROVE  ScanIs(text, max, Scan(text, max, s), n)
<1> DEFINE m == n - 1
           c == text[n]
           from == s.from
           width == s.width + CharWidth[c]
           p == IF c \in Break THEN <<m, width>> ELSE s.point
           t == Scan(text, max, s)
           l == [text |-> SubSeq(text, s.from + 1, p[1]), width |-> p[2]]
<1>1. /\ s \in ScanStates /\ from <= m /\ s.width = TextWidth(Seg(text, from, m))
      /\ PointIs(text, s.point, from, m) /\ s.i = m
  BY Zenon DEF ScanIs
<1>2. /\ m \in Nat /\ m + 1 = n /\ n \in Nat /\ m < Len(text) /\ m <= n /\ n <= Len(text)
  OBVIOUS
<1>3. from \in Nat /\ s.point \in Nat \X Int
  BY <1>1 DEF ScanStates
<1>4. c \in 1..255
  BY SeqElement
<1>5. width = TextWidth(Seg(text, from, n)) /\ width \in Int
  <2> DEFINE u == Seg(text, from, m)
  <2>0. from <= m
    BY <1>1
  <2> HIDE DEF from, m
  <2>1. u \in Seq(1..255)
    <3>1. m <= Len(text)
      BY <1>2
    <3> QED
      BY <1>2, <1>3, <2>0, <3>1, SegTyped
  <2>2. Seg(text, from, m + 1) = Append(u, text[m + 1])
    BY <1>2, <1>3, <2>0, SegNext
  <2> HIDE DEF u, m
  <2>3. /\ TextWidth(Append(u, c)) = TextWidth(u) + CharWidth[c]
        /\ TextWidth(u) \in Nat /\ CharWidth[c] \in Nat
    BY <1>4, <2>1, WidthAppend, ZenonT(60)
  <2>4. Seg(text, from, n) = Append(u, c)
    BY <1>2, <2>2, Zenon
  <2>5. s.width = TextWidth(u)
    BY <1>1, Zenon DEF u
  <2> HIDE DEF c
  <2>6. TextWidth(Seg(text, from, n)) = TextWidth(u) + CharWidth[c]
    BY <2>3, <2>4, Zenon
  <2>7. width = TextWidth(u) + CharWidth[c]
    BY <2>5, Zenon
  <2>8. TextWidth(u) + CharWidth[c] \in Int
    BY <2>3
  <2> QED
    BY <2>6, <2>7, <2>8, Zenon
<1>6. p \in Nat \X Int /\ PointIs(text, p, from, n)
  <2>1. from \in 0..n - 1
    BY <1>1, <1>2, <1>3
  <2>2. text[1] \notin Break
    BY Zenon DEF Fits
  <2> HIDE DEF width, from
  <2> QED
    BY <1>1, <1>3, <1>5, <2>1, <2>2, ScanPoint
<1>7. t = IF width >= max
          THEN [i |-> n, width |-> width - BreakAt(p, m, width)[2],
                point |-> <<0, BreakAt(p, m, width)[2]>>, from |-> BreakAt(p, m, width)[1] + 1,
                lines |-> Append(s.lines, [text |-> SubSeq(text, s.from + 1, BreakAt(p, m, width)[1]),
                                           width |-> BreakAt(p, m, width)[2]])]
          ELSE [s EXCEPT !.i = n, !.width = width, !.point = p]
  BY <1>1, <1>2, Zenon DEF Scan, Break
<1> HIDE DEF width, p, t
<1>8. CASE width >= max
  <2>1. p[1] # 0
    BY <1>5, <1>6, <1>8, ScanBreaks, Zenon DEF from
  <2>2. BreakAt(p, m, width) = p
    BY <2>1, Zenon DEF BreakAt
  <2>3. t = [i |-> n, width |-> width - p[2], point |-> <<0, p[2]>>,
             from |-> p[1] + 1, lines |-> Append(s.lines, l)]
    BY <1>7, <1>8, <2>2, Zenon
  <2> HIDE DEF l
  <2>4. ScanIs(text, max, t, n)
    BY <1>5, <1>6, <1>8, <2>3, ScanBreaks, Zenon DEF from, l
  <2> QED
    BY <2>4, Zenon DEF t
<1>9. CASE ~(width >= max)
  <2>1. width < max
    BY <1>5, <1>9
  <2>2. t = [s EXCEPT !.i = n, !.width = width, !.point = p]
    BY <1>7, <1>9, Zenon
  <2>3. ScanIs(text, max, s, m)
    BY Zenon
  <2> HIDE DEF m
  <2>4. ScanIs(text, max, t, n)
    BY <1>2, <1>5, <1>6, <2>1, <2>2, <2>3, ScanGoesOn, Zenon DEF from
  <2> QED
    BY <2>4, Zenon DEF t
<1> QED
  BY <1>8, <1>9, Zenon

\* What has been scanned of a text that begins with a word is in the lines so far and
\* the one that has been begun.
LEMMA ScannedIs ==
    ASSUME NEW text \in Seq(1..255), NEW max \in Int, NEW last \in Nat \ {0}, last = Len(text),
           Fits(text, max)
    PROVE  ScanIs(text, max, Scanned(text, max)[last], last)
<1> DEFINE k == last
           e == [i |-> 0, width |-> 0, point |-> <<0, 0>>, from |-> 0, lines |-> <<>>]
           I == [n \in 0..k |-> {x \in ScanStates : ScanIs(text, max, x, n)}]
           G == [n \in 1..k |-> [x \in ScanStates |-> Scan(text, max, x)]]
           h(g) == [n \in 0..k |-> IF n = 0 THEN e ELSE Scan(text, max, g[n - 1])]
           J == Scanned(text, max)
<1>1. (\A n \in 1..k : n \in 0..k /\ n - 1 \in 0..k /\ n # 0) /\ 0 \in 0..k /\ k \in 0..k
      /\ \A n \in 0..k : n # 0 => n \in 1..k
  OBVIOUS
<1>2. J = CHOOSE g : g = h(g)
  BY Zenon DEF Scanned
<1>3. ScanIs(text, max, e, 0)
  <2> DEFINE none == <<>>
             zero == <<0, 0>>
             P == Nat \X Int
             V == Seq(WrappedLine)
  <2>1. none \in V /\ zero \in P /\ zero[1] = 0 /\ 0 \in Nat /\ 0 \in Int /\ 0 <= 0
    OBVIOUS
  <2>2. Kept(<<>>, Solid) = <<>> /\ TextOf(<<>>) = <<>> /\ DOMAIN <<>> = {}
    <3> DEFINE l == [text |-> <<>>, width |-> 0]
               o == 1..255
    <3>0. <<>> \in Seq(1..255) /\ <<>> \in Seq(WrappedLine) /\ DOMAIN <<>> = {}
      OBVIOUS
    <3>1. l \in WrappedLine
      BY <3>0 DEF WrappedLine, LineWidths
    <3> HIDE DEF l
    <3>2. TextOf(<<>>) = <<>>
      BY <3>0, <3>1, TextOfAppend
    <3>3. <<>> \in Seq(o) /\ 1 \in o
      OBVIOUS
    <3> HIDE DEF o
    <3>4. Kept(<<>>, Solid) = <<>>
      BY <3>3, KeptAppend
    <3> QED
      BY <3>0, <3>2, <3>4, Zenon
  <2>3. Seg(text, 0, 0) = <<>>
    BY SegNone
  <2>4. TextWidth(<<>>) = 0
    <3>1. <<>> \in Seq(1..255) /\ 1 \in 1..255
      OBVIOUS
    <3> QED
      BY <3>1, WidthAppend
  <2>5. 0 < max
    <3>1. NoBreak(text, 0, 1)
      <4>1. text[1] \notin Break
        BY Zenon DEF Fits
      <4>2. \A j \in 0 + 1..1 : j = 1
        OBVIOUS
      <4> QED
        BY <4>1, <4>2, Zenon DEF NoBreak
    <3>2. Start(text, 0)
      BY Zenon DEF Start
    <3>3. 0 \in 0..Len(text) /\ 1 \in 1..Len(text) /\ 0 \in Nat /\ 1 \in Nat /\ 0 <= 1 /\ 1 <= Len(text)
      OBVIOUS
    <3>4. TextWidth(Seg(text, 0, 1)) < max
      BY <3>1, <3>2, <3>3, Zenon DEF Fits
    <3>5. TextWidth(Seg(text, 0, 1)) \in Nat
      <4>1. 1 <= 1
        OBVIOUS
      <4> QED
        BY <3>3, <4>1, SegWidths
    <3> QED
      BY <3>4, <3>5
  <2>6. e \in ScanStates
    <3> HIDE DEF none, zero, P, V
    <3>1. e = [i |-> 0, width |-> 0, point |-> zero, from |-> 0, lines |-> none]
      BY Zenon DEF zero, none
    <3> HIDE DEF e
    <3>2. e \in [i : Nat, width : Int, point : P, from : Nat, lines : V]
      BY <2>1, <3>1, ScanRecord
    <3> QED
      BY <3>2, Zenon DEF P, V, ScanStates
  <2>7. e.i = 0 /\ e.width = 0 /\ e.point = zero /\ e.from = 0 /\ e.lines = <<>>
    OBVIOUS
  <2>8. Start(text, 0) /\ NoBreak(text, 0, 0)
    <3>1. 0 + 1..0 = {}
      OBVIOUS
    <3> QED
      BY <3>1, Zenon DEF Start, NoBreak
  <2> HIDE DEF e, zero
  <2>9. PointIs(text, zero, 0, 0)
    BY <2>1, <2>8, Zenon DEF PointIs
  <2>10. ScanLines(text, max, <<>>, 0)
    BY <2>2, <2>3, Zenon DEF ScanLines
  <2> QED
    BY <2>1, <2>3, <2>4, <2>5, <2>6, <2>7, <2>8, <2>9, <2>10, Zenon DEF ScanIs
<1>4. \A n \in 0..k : \A x : ScanIs(text, max, x, n) => x \in ScanStates
  BY Zenon DEF ScanIs
<1>5. \A n \in 1..k : \A x : ScanIs(text, max, x, n - 1) => ScanIs(text, max, Scan(text, max, x), n)
  BY ScanStep
<1> HIDE DEF e
<1>6. \A n \in 0..k : \A x : x \in I[n] <=> ScanIs(text, max, x, n)
  BY <1>4, Zenon
<1>7. PICK g : RecursIn(g, I, e, k, G)
  <2>1. e \in I[0]
    BY <1>1, <1>3, <1>6, Zenon
  <2>2. \A n \in 1..k : \A x \in I[n - 1] : G[n][x] \in I[n]
    <3>1. \A n \in 1..k : \A x \in I[n - 1] : G[n][x] = Scan(text, max, x)
      BY <1>1, <1>4, <1>6, Zenon
    <3> HIDE DEF I, G
    <3> QED
      <4>1. ASSUME NEW n \in 1..k, NEW x \in I[n - 1]
            PROVE  G[n][x] \in I[n]
        <5>1. ScanIs(text, max, x, n - 1)
          BY <1>1, <1>6, Zenon
        <5>2. ScanIs(text, max, Scan(text, max, x), n)
          BY <1>5, <5>1, Zenon
        <5>3. Scan(text, max, x) \in I[n]
          BY <1>1, <1>6, <5>2, Zenon
        <5> QED
          BY <3>1, <5>3, Zenon
      <4> QED
        BY <4>1, Zenon
  <2>3. k \in Nat
    OBVIOUS
  <2> HIDE DEF I, G, k
  <2> QED
    BY <2>1, <2>2, <2>3, RecursionIn, Zenon
<1>8. /\ g = [n \in 0..k |-> g[n]] /\ g[0] = e
      /\ (\A n \in 1..k : g[n] = G[n][g[n - 1]]) /\ \A n \in 0..k : g[n] \in I[n]
  <2> HIDE DEF I, G
  <2> QED
    BY <1>7, Zenon DEF RecursIn
<1>9. \A n \in 1..k : g[n] = Scan(text, max, g[n - 1])
  <2> HIDE DEF I
  <2>1. \A n \in 1..k : g[n - 1] \in ScanStates
    BY <1>1, <1>4, <1>6, <1>8, Zenon
  <2>2. \A n \in 1..k : \A x \in ScanStates : G[n][x] = Scan(text, max, x)
    BY Zenon
  <2> HIDE DEF G
  <2> QED
    BY <1>8, <2>1, <2>2, Zenon
<1> HIDE DEF I, G, J
<1>10. g = h(g)
  <2>1. \A n \in 0..k : g[n] = IF n = 0 THEN e ELSE Scan(text, max, g[n - 1])
    BY <1>1, <1>8, <1>9, Zenon
  <2>2. [n \in 0..k |-> g[n]] = h(g)
    BY <2>1, Zenon
  <2> QED
    BY <1>8, <2>2, Zenon
<1>11. J = h(J)
  <2> HIDE DEF h
  <2> QED
    BY <1>2, <1>10, Zenon
<1>12. J[0] = e /\ \A n \in 1..k : J[n] = Scan(text, max, J[n - 1])
  <2>1. \A n \in 0..k : h(J)[n] = IF n = 0 THEN e ELSE Scan(text, max, J[n - 1])
    BY Zenon
  <2> HIDE DEF h
  <2> QED
    BY <1>1, <1>11, <2>1, Zenon
<1> DEFINE T == {n \in 0..k : ScanIs(text, max, J[n], n)}
<1>13. 0 \in T
  BY <1>1, <1>3, <1>12, Zenon
<1>14. \A n \in 1..k : n - 1 \in T => n \in T
  BY <1>1, <1>5, <1>12, ZenonT(60)
<1>15. \A n \in 0..k : n \in T
  <2>1. k \in Nat
    OBVIOUS
  <2> HIDE DEF T, k
  <2> QED
    BY <1>13, <1>14, <2>1, Upwards, Zenon
<1> QED
  BY <1>1, <1>15, Zenon DEF J

LEMMA SegAll ==
    ASSUME NEW E, NEW text \in Seq(E)
    PROVE  Seg(text, 0, Len(text)) = text
BY DEF Seg

\* A wrapped text has all its words, in lines that are not too long.
WrapsTo(text, max, lines) ==
    /\ lines \in Seq(WrappedLine)
    /\ Kept(TextOf(lines), Solid) = Kept(text, Solid)
    /\ \A n \in DOMAIN lines : TextWidth(lines[n].text) <= max

LEMMA WrappedIs ==
    ASSUME NEW text \in Seq(1..255), NEW max \in Int, text # <<>>, Fits(text, max)
    PROVE  WrapsTo(text, max, Wrapped(text, max))
<1> DEFINE k == Len(text)
           end == Scanned(text, max)[k]
           from == end.from
           left == SubSeq(text, end.from + 1, k)
           l == [text |-> left, width |-> StringWidth(left)]
<1>1. k \in Nat \ {0} /\ k \in Nat /\ k = Len(text) /\ k <= Len(text) /\ 0 <= k /\ 0 \in Nat
  OBVIOUS
<1>2. ScanIs(text, max, end, k)
  BY <1>1, ScannedIs
<1> HIDE DEF k, end
<1>3. /\ end \in ScanStates /\ from <= k /\ end.width = TextWidth(Seg(text, from, k)) /\ end.width < max
      /\ ScanLines(text, max, end.lines, from)
  BY <1>2, Zenon DEF ScanIs
<1>4. from \in Nat /\ end.lines \in Seq(WrappedLine) /\ end.width \in Int
  BY <1>3 DEF ScanStates
<1>5. from <= k /\ 0 <= from /\ from <= Len(text)
  <2> HIDE DEF from
  <2> QED
    BY <1>1, <1>3, <1>4 DEF k
<1>6. left = Seg(text, from, k) /\ left \in Seq(1..255)
  <2>1. left = Seg(text, from, k)
    BY Zenon DEF Seg
  <2>2. Seg(text, from, k) \in Seq(1..255)
    BY <1>1, <1>4, <1>5, SegTyped
  <2> QED
    BY <2>1, <2>2, Zenon
<1>7. Kept(text, Solid) = Kept(TextOf(end.lines), Solid) \o Kept(left, Solid)
  <2> DEFINE s == Seg(text, 0, from)
             t == Seg(text, from, k)
  <2>1. Seg(text, 0, k) = s \o t
    <3>1. text \in Seq(1..255) /\ from \in Nat /\ k \in Nat /\ 0 \in Nat /\ 0 <= from /\ from <= k /\ k <= Len(text)
      BY <1>1, <1>4, <1>5, Zenon
    <3> HIDE DEF from
    <3> QED
      BY <3>1, SegJoin, ZenonT(60)
  <2>2. s \in Seq(1..255) /\ t \in Seq(1..255)
    BY <1>1, <1>4, <1>5, SegTyped, ZenonT(60)
  <2>3. Seg(text, 0, k) = text
    BY SegAll DEF k
  <2>4. Kept(s, Solid) = Kept(TextOf(end.lines), Solid)
    BY <1>3, Zenon DEF ScanLines
  <2> HIDE DEF s, t
  <2>5. Kept(s \o t, Solid) = Kept(s, Solid) \o Kept(t, Solid)
    BY <2>2, SolidTwo, Zenon
  <2> QED
    BY <1>6, <2>1, <2>3, <2>4, <2>5, Zenon DEF t
<1>8. \A u \in Seq(1..255) : Kept(u, Solid) \in Seq(1..255)
  <2> DEFINE o == 1..255
             S == Solid
  <2>0. 1 \in o
    OBVIOUS
  <2> HIDE DEF o, S
  <2>1. \A u \in Seq(o) : Kept(u, S) \in Seq(o)
    BY <2>0, KeptAppend
  <2> QED
    BY <2>1, Zenon DEF o, S
<1>9. TextOf(end.lines) \in Seq(1..255)
      /\ (l \in WrappedLine => TextOf(Append(end.lines, l)) = TextOf(end.lines) \o l.text)
  <2> DEFINE x == [text |-> <<>>, width |-> 0]
  <2>1. x \in WrappedLine
    BY DEF WrappedLine, LineWidths
  <2> HIDE DEF x, l
  <2> QED
    BY <1>4, <2>1, TextOfAppend
<1>10. Wrapped(text, max) = IF left = <<>> THEN end.lines ELSE Append(end.lines, l)
  BY Zenon DEF Wrapped, end, k
<1>11. \A n \in DOMAIN end.lines : TextWidth(end.lines[n].text) <= max
  BY <1>3, Zenon DEF ScanLines
<1>12. CASE left = <<>>
  <2> DEFINE ke == Kept(TextOf(end.lines), Solid)
  <2>1. ke \in Seq(1..255)
    BY <1>8, <1>9, Zenon
  <2>2. Kept(<<>>, Solid) = <<>>
    <3> DEFINE o == 1..255
               S == Solid
    <3>0. 1 \in o /\ <<>> \in Seq(o)
      OBVIOUS
    <3> HIDE DEF o, S
    <3>1. Kept(<<>>, S) = <<>>
      BY <3>0, KeptAppend
    <3> QED
      BY <3>1, Zenon DEF S
  <2> HIDE DEF ke
  <2>3. ke \o <<>> = ke
    BY <2>1
  <2>4. Kept(text, Solid) = ke
    BY <1>7, <1>12, <2>2, <2>3, Zenon DEF ke
  <2>5. Wrapped(text, max) = end.lines
    BY <1>10, <1>12, Zenon
  <2> QED
    BY <1>4, <1>11, <2>4, <2>5, Zenon DEF WrapsTo, ke
<1>13. CASE left # <<>>
  <2> DEFINE u == end.lines
             S == WrappedLine
             v == Append(u, l)
             j == Len(u)
  <2>1. TextWidth(left) \in Int /\ TextWidth(left) <= max
    <3>1. TextWidth(left) = end.width
      BY <1>3, <1>6, Zenon
    <3> DEFINE w == end.width
    <3> HIDE DEF w
    <3>2. w \in Int /\ w < max /\ TextWidth(left) = w
      BY <1>3, <1>4, <3>1, Zenon DEF w
    <3> HIDE DEF left
    <3> QED
      BY <3>2
  <2>2. l \in WrappedLine /\ l.text = left
    <3> HIDE DEF left
    <3> QED
      <4>1. StringWidth(left) \in LineWidths
        BY <1>6, Zenon DEF LineWidths
      <4> QED
        BY <1>6, <4>1, Zenon DEF WrappedLine
  <2>3. Wrapped(text, max) = v
    BY <1>10, <1>13, Zenon
  <2>4. u \in Seq(S) /\ l \in S
    BY <1>4, <2>2, Zenon
  <2> HIDE DEF S, u, l, left
  <2>5. v \in Seq(S) /\ Extends(v, u, l, j)
    BY <2>4, Appended, Zenon
  <2>6. v \in Seq(S) /\ j \in Nat /\ (\A n \in 1..j : v[n] = u[n]) /\ v[j + 1] = l /\ Len(v) = j + 1
    BY <2>5, Zenon DEF Extends
  <2>7. DOMAIN u = 1..j
    BY <2>4
  <2> HIDE DEF v, j
  <2>8. DOMAIN v = 1..j + 1 /\ \A n \in 1..j + 1 : n \in 1..j \/ n = j + 1
    BY <2>6
  <2>9. \A n \in DOMAIN v : TextWidth(v[n].text) <= max
    BY <1>11, <2>1, <2>2, <2>6, <2>7, <2>8, Zenon DEF u
  <2>10. TextOf(v) = TextOf(u) \o left
    BY <1>9, <2>2, Zenon DEF u, v
  <2>11. Kept(TextOf(v), Solid) = Kept(text, Solid)
    <3> DEFINE a == TextOf(u)
    <3>1. a \in Seq(1..255) /\ left \in Seq(1..255)
      BY <1>6, <1>9, Zenon DEF u
    <3> HIDE DEF a
    <3>2. Kept(a \o left, Solid) = Kept(a, Solid) \o Kept(left, Solid)
      BY <3>1, SolidTwo, Zenon
    <3> QED
      BY <1>7, <2>10, <3>2, Zenon DEF a, u
  <2> QED
    BY <2>3, <2>6, <2>9, <2>11, Zenon DEF WrapsTo, S
<1> QED
  BY <1>12, <1>13, Zenon

-----------------------------------------------------------------------------
(* Characters of a text *)

LEMMA SixBits ==
    ASSUME NEW n \in 0..255
    PROVE  n % 64 \in 0..63
OBVIOUS

LEMMA LookupTyped ==
    ASSUME NEW last \in 0..255, NEW ch \in 1..255
    PROVE  Lookup(last, ch) \in 0..255 /\ LastChar(ch) \in 0..255
<1>1. ch % 64 \in 0..63
  BY SixBits
<1>2. (ch % 64) + 192 \in 0..255
  <2> DEFINE m == ch % 64
  <2> HIDE DEF m
  <2>1. m \in 0..63
    BY <1>1 DEF m
  <2>2. m + 192 \in 0..255
    BY <2>1
  <2> QED
    BY <2>2, Zenon DEF m
<1> QED
  BY <1>2 DEF Lookup, LastChar

LEMMA Utf8Typed ==
    ASSUME NEW last \in 0..255, NEW bytes \in Seq(1..255)
    PROVE  Utf8ascii(last, bytes) \in Seq(1..255)
<1> DEFINE B == 0..255
           E == 1..255
           code(n) == Lookup(IF n = 1 THEN last ELSE LastChar(bytes[n - 1]), bytes[n])
           k == Len(bytes)
           f == [n \in DOMAIN bytes |-> code(n)]
<1>1. k \in Nat /\ DOMAIN bytes = 1..k
  OBVIOUS
<1>2. \A n \in 1..k : bytes[n] \in E
  BY SeqElement
<1> HIDE DEF k
<1>3. \A n \in 1..k : n = 1 \/ n - 1 \in 1..k
  BY <1>1
<1>4. \A n \in 1..k : code(n) \in B
  <2>1. \A n \in 1..k : (IF n = 1 THEN last ELSE LastChar(bytes[n - 1])) \in B
    <3>1. \A n \in 1..k : LastChar(bytes[n]) \in B
      BY <1>2, LookupTyped, ZenonT(60)
    <3> QED
      BY <1>3, <3>1, ZenonT(60)
  <2> TAKE n \in 1..k
  <2> DEFINE a == IF n = 1 THEN last ELSE LastChar(bytes[n - 1])
             b == bytes[n]
  <2>2. a \in 0..255 /\ b \in 1..255
    BY <1>2, <2>1, ZenonT(60)
  <2> HIDE DEF a, b
  <2>3. Lookup(a, b) \in B
    BY <2>2, LookupTyped, ZenonT(60)
  <2> QED
    BY <2>3, Zenon DEF a, b
<1>5. f \in Seq(B)
  <2>1. f \in [1..k -> B]
    BY <1>1, <1>4, ZenonT(60)
  <2> HIDE DEF f, B
  <2> QED
    BY <1>1, <2>1
<1>6. Kept(f, E) \in Seq(E)
  <2> HIDE DEF f, B, E
  <2> QED
    BY <1>5, KeptTyped
<1> QED
  BY <1>6, Zenon DEF Utf8ascii

-----------------------------------------------------------------------------
(* What is drawn *)

\* A text of no characters has no lines.
LEMMA NothingWrapped ==
    ASSUME NEW max \in Int
    PROVE  Wrapped(<<>>, max) = <<>>
<1> DEFINE none == <<>>
           e == [i |-> 0, width |-> 0, point |-> <<0, 0>>, from |-> 0, lines |-> <<>>]
           h(g) == [n \in 0..0 |-> IF n = 0 THEN e ELSE Scan(none, max, g[n - 1])]
           J == Scanned(none, max)
           g == [n \in 0..0 |-> e]
<1>1. Len(none) = 0 /\ 0 \in 0..0 /\ \A n \in 0..0 : n = 0
  OBVIOUS
<1>2. e.from = 0 /\ e.lines = <<>> /\ SubSeq(none, 1, 0) = <<>> /\ 0 + 1 = 1
  OBVIOUS
<1>3. J = CHOOSE x : x = h(x)
  BY <1>1, Zenon DEF Scanned
<1> HIDE DEF e, J, none
<1>4. g = h(g)
  BY <1>1, Zenon
<1>5. J = h(J)
  <2> HIDE DEF h, g
  <2> QED
    BY <1>3, <1>4, Zenon
<1>6. J[0] = e
  <2>1. h(J)[0] = e
    BY <1>1, Zenon
  <2> HIDE DEF h
  <2> QED
    BY <1>5, <2>1, Zenon
<1>7. SubSeq(none, J[0].from + 1, Len(none)) = <<>>
  BY <1>1, <1>2, <1>6, Zenon
<1>8. Wrapped(none, max) = J[Len(none)].lines
  BY <1>1, <1>7, Zenon DEF Wrapped, J
<1> QED
  BY <1>1, <1>2, <1>6, <1>8, Zenon DEF none

WrapsRight(text, max) ==
    LET lines  == Wrapped(text, max)
        words(t) == Kept(t, (1..255) \ {Space, Dash})
        starts == {n \in 1..Len(text) + 1 : n = 1 \/ text[n - 1] \in {Space, Dash}}
        fits   == text[1] \notin {Space, Dash} /\ \A n \in starts, m \in 1..Len(text) :
                    (\A k \in n..m : text[k] \notin {Space, Dash})
                        => TextWidth(SubSeq(text, n, m)) < max
    IN  fits => /\ words(Joined([n \in DOMAIN lines |-> lines[n].text])) = words(text)
                /\ \A n \in DOMAIN lines : TextWidth(lines[n].text) <= max

LEMMA WrappingIs ==
    ASSUME NEW text \in Seq(1..255), NEW max \in Int
    PROVE  WrapsRight(text, max)
<1> DEFINE lines == Wrapped(text, max)
           starts == {n \in 1..Len(text) + 1 : n = 1 \/ text[n - 1] \in Break}
           fits   == text[1] \notin Break /\ \A n \in starts, m \in 1..Len(text) :
                    (\A j \in n..m : text[j] \notin Break)
                        => TextWidth(SubSeq(text, n, m)) < max
           right == /\ Kept(TextOf(lines), Solid) = Kept(text, Solid)
                    /\ \A n \in DOMAIN lines : TextWidth(lines[n].text) <= max
<1>1. fits => right
  <2>1. CASE text = <<>>
    <3>1. lines = <<>>
      BY <2>1, NothingWrapped, Zenon
    <3>2. DOMAIN <<>> = {}
      OBVIOUS
    <3>3. TextOf(<<>>) = <<>>
      <4> DEFINE l == [text |-> <<>>, width |-> 0]
      <4>1. l \in WrappedLine /\ <<>> \in Seq(WrappedLine)
        BY DEF WrappedLine, LineWidths
      <4> HIDE DEF l
      <4> QED
        BY <4>1, TextOfAppend
    <3> QED
      BY <2>1, <3>1, <3>2, <3>3, Zenon
  <2>2. ASSUME text # <<>>, fits
        PROVE  right
    <3>1. Fits(text, max)
      <4>1. ASSUME NEW a \in 0..Len(text), NEW b \in 1..Len(text), Start(text, a), NoBreak(text, a, b)
            PROVE  TextWidth(Seg(text, a, b)) < max
        <5> DEFINE n == a + 1
        <5>1. n \in 1..Len(text) + 1 /\ n - 1 = a /\ (a = 0 => n = 1)
          OBVIOUS
        <5> HIDE DEF n
        <5>2. n = 1 \/ text[n - 1] \in Break
          BY <4>1, <5>1, Zenon DEF Start
        <5>3. n \in starts
          BY <5>1, <5>2, Zenon
        <5>4. \A j \in n..b : text[j] \notin Break
          BY <4>1, Zenon DEF NoBreak, n
        <5> HIDE DEF starts
        <5>5. TextWidth(SubSeq(text, n, b)) < max
          BY <2>2, <5>3, <5>4, Zenon
        <5> QED
          BY <5>5, Zenon DEF Seg, n
      <4>2. text[1] \notin Break
        BY <2>2, Zenon
      <4> HIDE DEF fits
      <4> QED
        BY <4>1, <4>2, Zenon DEF Fits
    <3>2. WrapsTo(text, max, lines)
      BY <2>2, <3>1, WrappedIs
    <3> QED
      BY <3>2, Zenon DEF WrapsTo
  <2> QED
    BY <2>1, <2>2, Zenon
<1> QED
  BY <1>1, Zenon DEF WrapsRight, TextOf, Solid, Break

-----------------------------------------------------------------------------
(* Shapes *)

Plain == {"pixel", "hline", "vline", "rect", "fill", "line", "circle", "quads", "disc",
          "bar", "image", "xbm"}

\* What is drawn without text.
Figure(s) ==
    CASE s.op = "pixel"    -> << {<<s.x, s.y>>} >>
      [] s.op = "hline"    -> << HorizontalLine(s.x, s.y, s.w) >>
      [] s.op = "vline"    -> << VerticalLine(s.x, s.y, s.h) >>
      [] s.op = "rect"     -> Rectangle(s.x, s.y, s.w, s.h)
      [] s.op = "fill"     -> FilledRectangle(s.x, s.y, s.w, s.h)
      [] s.op = "line"     -> Line(s.x, s.y, s.w, s.h)
      [] s.op = "circle"   -> Circle(s.x, s.y, s.w)
      [] s.op = "quads"    -> CircleQuads(s.x, s.y, s.w, s.h)
      [] s.op = "disc"     -> FilledCircle(s.x, s.y, s.w)
      [] s.op = "bar"      -> ProgressBar(s.x, s.y, s.w, s.h, s.progress)
      [] s.op = "image"    -> << Image(s.x, s.y, Picture) >>
      [] s.op = "xbm"      -> << Xbm(s.x, s.y, Picture) >>

LEMMA FigureIs ==
    ASSUME NEW s, s.op \in Plain
    PROVE  Strokes(s) = Figure(s)
<1> DEFINE o == s.op
<1>1. o \in Plain
  OBVIOUS
<1>2. CASE o = "pixel"
  BY <1>2 DEF Strokes, Figure
<1>3. CASE o = "hline"
  BY <1>3 DEF Strokes, Figure
<1>4. CASE o = "vline"
  BY <1>4 DEF Strokes, Figure
<1>5. CASE o = "rect"
  BY <1>5 DEF Strokes, Figure
<1>6. CASE o = "fill"
  BY <1>6 DEF Strokes, Figure
<1>7. CASE o = "line"
  BY <1>7 DEF Strokes, Figure
<1>8. CASE o = "circle"
  BY <1>8 DEF Strokes, Figure
<1>9. CASE o = "quads"
  BY <1>9 DEF Strokes, Figure
<1>10. CASE o = "disc"
  BY <1>10 DEF Strokes, Figure
<1>11. CASE o = "bar"
  BY <1>11 DEF Strokes, Figure
<1>12. CASE o = "image"
  BY <1>12 DEF Strokes, Figure
<1>13. CASE o = "xbm"
  BY <1>13 DEF Strokes, Figure
<1> HIDE DEF o
<1> QED
  BY <1>1, <1>2, <1>3, <1>4, <1>5, <1>6, <1>7, <1>8, <1>9, <1>10, <1>11, <1>12, <1>13, Zenon DEF Plain

\* What was drawn last, unless it was text, is what the buffer shows over what was
\* there before.
DrawnLast ==
    /\ shape.what \in Shapes /\ shape.op = shape.what.op /\ shape.color \in Colors
    /\ shape.op \in Plain =>
          /\ shape.pixels = Pixels(Figure(shape.what))
          /\ buffer = Painted(before, shape.color, Figure(shape.what))
ShapeInv ==
    /\ buffer \subseteq Screen /\ before \subseteq Screen
    /\ shape = NoShape \/ DrawnLast

\* The figure is what is drawn if its strokes cover it, in some colours or none twice.
LEMMA FigureDrawn ==
    ASSUME ShapeInv, DrawnLast, shape.op \in Plain,
           NEW pixels, Covers(Figure(shape.what), pixels), Once(shape.color, Figure(shape.what))
    PROVE  Drawn(shape.color, pixels)
<1>1. before \in SUBSET Screen /\ shape.color \in Colors
  BY Zenon DEF ShapeInv, DrawnLast
<1>2. buffer = Painted(before, shape.color, Figure(shape.what))
  BY Zenon DEF DrawnLast
<1>3. Painted(before, shape.color, Figure(shape.what)) = Painted(before, shape.color, << pixels >>)
  BY <1>1, PaintedTogether, Zenon
<1> QED
  BY <1>2, <1>3, Zenon DEF Drawn

\* The same of a single stroke.
LEMMA StrokeDrawn ==
    ASSUME ShapeInv, DrawnLast, shape.op \in Plain,
           NEW stroke, Figure(shape.what) = << stroke >>,
           NEW pixels, \A p \in Screen : p \in stroke <=> p \in pixels
    PROVE  Drawn(shape.color, pixels)
<1>1. before \in SUBSET Screen /\ shape.color \in Colors
  BY Zenon DEF ShapeInv, DrawnLast
<1>2. buffer = Painted(before, shape.color, << stroke >>)
  BY Zenon DEF DrawnLast
<1>3. Painted(before, shape.color, << stroke >>) = Painted(before, shape.color, << pixels >>)
  BY <1>1, PaintedOnTheScreen, Zenon
<1> QED
  BY <1>2, <1>3, Zenon DEF Drawn

LEMMA Whole ==
    ASSUME NEW s \in Shapes
    PROVE  /\ s.x \in Int /\ s.y \in Int
           /\ s.op \in {"hline", "rect", "fill", "line", "circle", "quads", "disc", "bar",
                        "maxwidth"} => s.w \in Int
           /\ s.op \in {"vline", "rect", "fill", "line", "bar"} => s.h \in Int
           /\ s.op = "quads" => s.h \in SUBSET (1..4)
           /\ s.op = "bar" => s.progress \in 0..100
           /\ s.op = "maxwidth" => s.text \in Seq(1..255)
           /\ s.op # "none"
<1>1. \A n \in Coordinates : n \in Int
  BY DEF Coordinates
<1>2. /\ s.op \in {"pixel", "hline", "vline", "rect", "fill", "line", "circle", "quads",
                   "disc", "bar", "image", "xbm", "string", "maxwidth", "log"}
      /\ s.x \in Coordinates /\ s.y \in Coordinates
      /\ s.op \in {"hline", "rect", "fill", "line", "circle", "quads", "disc", "bar",
                   "maxwidth"} => s.w \in Coordinates
      /\ s.op \in {"vline", "rect", "fill", "line", "bar"} => s.h \in Coordinates
      /\ s.op = "quads" => s.h \in SUBSET (1..4)
      /\ s.op = "bar" => s.progress \in 0..100
      /\ s.op \in {"string", "maxwidth"} => s.text \in Seq(1..255)
  <2>1. /\ s.op \in {"pixel", "hline", "vline", "rect", "fill", "line", "circle", "quads",
                    "disc", "bar", "image", "xbm", "string", "maxwidth", "log"}
        /\ s.x \in Coordinates /\ s.y \in Coordinates
        /\ s.op \in {"hline", "rect", "fill", "line", "circle", "quads", "disc", "bar",
                     "maxwidth"} => s.w \in Coordinates
        /\ s.op \in {"vline", "rect", "fill", "line", "bar"} => s.h \in Coordinates
        /\ s.op = "quads" => s.h \subseteq 1..4
        /\ s.op = "bar" => s.progress \in 0..100
        /\ s.op \in {"string", "maxwidth"} =>
              s.text \in Seq(1..255) \ {<<>>} /\ s.text[Len(s.text)] \notin {194, 195}
    BY ShapesAssumption
  <2>2. s.op = "quads" => s.h \in SUBSET (1..4)
    BY <2>1, Zenon
  <2>3. s.op \in {"string", "maxwidth"} => s.text \in Seq(1..255)
    BY <2>1, Zenon
  <2> QED
    BY <2>1, <2>2, <2>3, Zenon
<1>3. s.op # "none"
  <2> DEFINE o == s.op
  <2>1. o \in {"pixel", "hline", "vline", "rect", "fill", "line", "circle", "quads",
               "disc", "bar", "image", "xbm", "string", "maxwidth", "log"}
    BY <1>2, Zenon
  <2> HIDE DEF o
  <2>2. o # "none"
    BY <2>1
  <2> QED
    BY <2>2, Zenon DEF o
<1>4. s.op = "maxwidth" => s.op \in {"string", "maxwidth"}
  BY Zenon
<1> QED
  BY <1>1, <1>2, <1>3, <1>4, ZenonT(60)

\* Straight lines, rectangles and images are what they should be.
LEMMA StraightRight ==
    ASSUME ShapeInv
    PROVE  StraightLines
<1> DEFINE s == shape.what
           o == shape.op
           c == shape.color
<1>1. CASE shape = NoShape
  <2>1. o = "none"
    BY <1>1 DEF NoShape
  <2> QED
    BY <2>1 DEF StraightLines
<1>2. CASE DrawnLast
  <2>0. s \in Shapes /\ s.op = o /\ s.x \in Int /\ s.y \in Int
    BY <1>2, Whole, Zenon DEF DrawnLast
  <2>1. CASE o = "hline"
    <3>1. s.w \in Int /\ Figure(s) = << HorizontalLine(s.x, s.y, s.w) >> /\ o \in Plain
      BY <2>0, <2>1, Whole DEF Figure, Plain
    <3>2. HorizontalLine(s.x, s.y, s.w) = Inside(s.x, s.y, s.w, 1)
      BY <2>0, <3>1, HorizontalLineIs
    <3>3. Drawn(c, Inside(s.x, s.y, s.w, 1))
      BY <1>2, <3>1, <3>2, StrokeDrawn, Zenon
    <3> QED
      BY <2>1, <3>3 DEF StraightLines, Inside
  <2>2. CASE o = "vline"
    <3>1. s.h \in Int /\ Figure(s) = << VerticalLine(s.x, s.y, s.h) >> /\ o \in Plain
      BY <2>0, <2>2, Whole DEF Figure, Plain
    <3>2. VerticalLine(s.x, s.y, s.h) = Inside(s.x, s.y, 1, s.h)
      BY <2>0, <3>1, VerticalLineIs
    <3>3. Drawn(c, Inside(s.x, s.y, 1, s.h))
      BY <1>2, <3>1, <3>2, StrokeDrawn, Zenon
    <3> QED
      BY <2>2, <3>3 DEF StraightLines, Inside
  <2>3. CASE o = "fill"
    <3>1. s.w \in Int /\ s.h \in Int /\ Figure(s) = FilledRectangle(s.x, s.y, s.w, s.h) /\ o \in Plain
      BY <2>0, <2>3, Whole DEF Figure, Plain
    <3>2. /\ Covers(FilledRectangle(s.x, s.y, s.w, s.h), Inside(s.x, s.y, s.w, s.h))
          /\ Once(c, FilledRectangle(s.x, s.y, s.w, s.h))
      BY <2>0, <3>1, FilledRectangleIs
    <3>3. Drawn(c, Inside(s.x, s.y, s.w, s.h))
      BY <1>2, <3>1, <3>2, FigureDrawn, Zenon
    <3> QED
      BY <2>3, <3>3 DEF StraightLines, Inside
  <2>4. CASE o = "rect" /\ c # "INVERSE" /\ s.w > 0 /\ s.h > 0
    <3> DEFINE frame == Inside(s.x, s.y, s.w, s.h) \ Inside(s.x + 1, s.y + 1, s.w - 2, s.h - 2)
    <3>1. s.w \in Int /\ s.h \in Int /\ Figure(s) = Rectangle(s.x, s.y, s.w, s.h) /\ o \in Plain
      BY <2>0, <2>4, Whole DEF Figure, Plain
    <3>2. Covers(Rectangle(s.x, s.y, s.w, s.h), frame)
      BY <2>0, <2>4, <3>1, RectangleIs
    <3>3. Once(c, Rectangle(s.x, s.y, s.w, s.h))
      BY <2>4, Zenon DEF Once
    <3> HIDE DEF frame
    <3>4. Drawn(c, frame)
      BY <1>2, <3>1, <3>2, <3>3, FigureDrawn, Zenon
    <3> QED
      BY <2>4, <3>4 DEF StraightLines, Inside, frame
  <2>5. CASE ~(\/ o \in {"hline", "vline", "fill"}
               \/ o = "rect" /\ c # "INVERSE" /\ s.w > 0 /\ s.h > 0)
    BY <2>5 DEF StraightLines
  <2> QED
    BY <2>1, <2>2, <2>3, <2>4, <2>5
<1> QED
  BY <1>1, <1>2, Zenon DEF ShapeInv

LEMMA ImagesRight ==
    ASSUME ShapeInv
    PROVE  Images
<1> DEFINE s == shape.what
           o == shape.op
           c == shape.color
<1>1. SUFFICES ASSUME o \in {"image", "xbm"}, s.y >= 0 \/ s.y % 8 = 0
      PROVE  Drawn(c, Shifted(s.x, s.y))
  BY Zenon DEF Images, Shifted
<1>2. DrawnLast
  BY <1>1 DEF ShapeInv, NoShape
<1>3. s \in Shapes /\ s.op = o /\ s.x \in Int /\ s.y \in Int /\ o \in Plain
  <2>1. o \in Plain
    BY <1>1 DEF Plain
  <2> QED
    BY <1>2, <2>1, Whole, Zenon DEF DrawnLast
<1>4. CASE o = "image"
  <2>1. Figure(s) = << Image(s.x, s.y, Picture) >>
    BY <1>3, <1>4 DEF Figure
  <2>2. \A p \in Screen : p \in Image(s.x, s.y, Picture) <=> p \in Shifted(s.x, s.y)
    BY <1>1, <1>3, ImageIs
  <2> QED
    BY <1>2, <1>3, <2>1, <2>2, StrokeDrawn, Zenon
<1>5. CASE o = "xbm"
  <2>1. Figure(s) = << Xbm(s.x, s.y, Picture) >>
    BY <1>3, <1>5 DEF Figure
  <2>2. Xbm(s.x, s.y, Picture) = Shifted(s.x, s.y)
    BY Zenon DEF Xbm, Shifted
  <2> QED
    BY <1>2, <1>3, <2>1, <2>2, StrokeDrawn, Zenon
<1> QED
  BY <1>1, <1>4, <1>5

LEMMA SlopingRight ==
    ASSUME ShapeInv
    PROVE  SlopingLines
<1> DEFINE s == shape.what
           o == shape.op
           c == shape.color
           long == AtLeast(Abs(s.w - s.x), Abs(s.h - s.y))
           pixels == shape.pixels
<1>1. SUFFICES ASSUME o = "line"
      PROVE  /\ Drawn(c, pixels)
             /\ {<<s.x, s.y>>, <<s.w, s.h>>} \subseteq pixels
             /\ Cardinality(pixels) = long + 1
             /\ \A p \in pixels : 2 * Abs((p[1] - s.x) * (s.h - s.y) - (p[2] - s.y) * (s.w - s.x)) <= long
  BY Zenon DEF SlopingLines
<1>2. DrawnLast
  BY <1>1 DEF ShapeInv, NoShape
<1>3. /\ s \in Shapes /\ s.op = o /\ s.x \in Int /\ s.y \in Int /\ o \in Plain
      /\ s.w \in Int /\ s.h \in Int
  <2>1. s \in Shapes /\ s.op = o
    BY <1>2, Zenon DEF DrawnLast
  <2> QED
    BY <1>1, <2>1, Whole DEF Plain
<1>4. Figure(s) = Line(s.x, s.y, s.w, s.h)
  BY <1>1, <1>3 DEF Figure
<1>5. pixels = UNION Range(Line(s.x, s.y, s.w, s.h))
  BY <1>2, <1>3, <1>4, Zenon DEF DrawnLast, Pixels
<1>6. /\ Covers(Line(s.x, s.y, s.w, s.h), pixels)
      /\ Once(c, Line(s.x, s.y, s.w, s.h))
      /\ {<<s.x, s.y>>, <<s.w, s.h>>} \subseteq pixels
      /\ Cardinality(pixels) = long + 1
      /\ \A p \in pixels : Slope(p, s.x, s.y, s.w, s.h)
  <2> DEFINE xa == s.x
             ya == s.y
             xb == s.w
             yb == s.h
             l == Line(xa, ya, xb, yb)
             n == long
  <2>1. xa \in Int /\ ya \in Int /\ xb \in Int /\ yb \in Int
    BY <1>3, Zenon
  <2>2. n = AtLeast(Abs(xb - xa), Abs(yb - ya)) /\ pixels = UNION Range(Line(xa, ya, xb, yb))
    BY <1>5, Zenon
  <2> HIDE DEF n, pixels, xa, ya, xb, yb
  <2>3. /\ Covers(Line(xa, ya, xb, yb), pixels)
        /\ \A color : Once(color, Line(xa, ya, xb, yb))
        /\ {<<xa, ya>>, <<xb, yb>>} \subseteq pixels
        /\ Cardinality(pixels) = n + 1
        /\ \A p \in pixels : Slope(p, xa, ya, xb, yb)
    BY <2>1, <2>2, SlopingIs, SMTT(30)
  <2> QED
    BY <2>3, Zenon DEF n, xa, ya, xb, yb
<1>7. Drawn(c, pixels)
  BY <1>2, <1>3, <1>4, <1>6, FigureDrawn, Zenon
<1> QED
  BY <1>6, <1>7, Zenon DEF Slope

LEMMA WrappingRight ==
    ASSUME ShapeInv
    PROVE  Wrapping
<1>1. SUFFICES ASSUME shape.op = "maxwidth"
      PROVE  WrapsRight(Utf8ascii(0, shape.what.text), shape.what.w)
  BY Zenon DEF Wrapping, WrapsRight
<1>2. DrawnLast
  BY <1>1 DEF ShapeInv, NoShape
<1>3. shape.what \in Shapes /\ shape.what.op = "maxwidth"
  BY <1>1, <1>2, Zenon DEF DrawnLast
<1>4. shape.what.w \in Int /\ shape.what.text \in Seq(1..255)
  BY <1>3, Whole
<1>5. Utf8ascii(0, shape.what.text) \in Seq(1..255)
  <2>1. 0 \in 0..255
    OBVIOUS
  <2> QED
    BY <1>4, <2>1, Utf8Typed, Zenon
<1> QED
  BY <1>4, <1>5, WrappingIs, Zenon

LEMMA Quarter ==
    ASSUME NEW q \in Int, NEW m \in 0..3, NEW n \in Int, n = 4 * q + m
    PROVE  n \div 4 = q
OBVIOUS

LEMMA Halves ==
    ASSUME NEW r \in Nat
    PROVE  /\ ((2 * r + 1) * (2 * r + 1)) \div 4 = r * r + r
           /\ ((2 * r - 1) * (2 * r - 1)) \div 4 = r * r - r
<1> DEFINE a == (2 * r + 1) * (2 * r + 1)
           b == (2 * r - 1) * (2 * r - 1)
           c == r * r + r
           d == r * r - r
<1>1. a \in Int /\ b \in Int /\ c \in Int /\ d \in Int
  OBVIOUS
<1>2. a = 4 * c + 1 /\ b = 4 * d + 1
  OBVIOUS
<1> HIDE DEF a, b, c, d
<1>3. 1 \in 0..3
  OBVIOUS
<1>4. a \div 4 = c
  BY <1>1, <1>2, <1>3, Quarter
<1>5. b \div 4 = d
  BY <1>1, <1>2, <1>3, Quarter
<1> QED
  BY <1>4, <1>5, Zenon DEF a, b, c, d

\* As RoundShapes has it.
NearTo(p, x, y, n) == (p[1] - x) * (p[1] - x) + (p[2] - y) * (p[2] - y) <= (n * n) \div 4

LEMMA NearToIs ==
    ASSUME NEW x \in Int, NEW y \in Int, NEW r \in Nat, NEW p \in Pixel
    PROVE  /\ Inner(p, x, y, r) => NearTo(p, x, y, 2 * r + 1)
           /\ Around(p, x, y, r) => NearTo(p, x, y, 2 * r + 1) /\ ~NearTo(p, x, y, 2 * r - 1)
<1> DEFINE s == (p[1] - x) * (p[1] - x) + (p[2] - y) * (p[2] - y)
           a == (2 * r + 1) * (2 * r + 1)
           b == (2 * r - 1) * (2 * r - 1)
           c == r * r + r
           d == r * r - r
<1>1. s \in Int /\ c \in Int /\ d \in Int
  <2>1. p[1] \in Int /\ p[2] \in Int
    BY DEF Pixel
  <2> DEFINE i == p[1] - x
             j == p[2] - y
  <2>2. i \in Int /\ j \in Int
    BY <2>1
  <2> HIDE DEF i, j
  <2>3. i * i + j * j \in Int
    BY <2>2
  <2> QED
    BY <2>3 DEF i, j
<1>2. a \div 4 = c /\ b \div 4 = d
  BY Halves
<1>3. /\ NearTo(p, x, y, 2 * r + 1) <=> s <= a \div 4
      /\ NearTo(p, x, y, 2 * r - 1) <=> s <= b \div 4
  BY Zenon DEF NearTo
<1>4. Inner(p, x, y, r) <=> s <= c
  BY Zenon DEF Inner
<1>5. Around(p, x, y, r) => d < s /\ s <= c
  BY Zenon DEF Around, Near
<1> HIDE DEF s, a, b, c, d
<1>6. d < s => ~(s <= d)
  BY <1>1
<1> QED
  BY <1>2, <1>3, <1>4, <1>5, <1>6, Zenon

LEMMA RoundRight ==
    ASSUME ShapeInv
    PROVE  RoundShapes
<1> DEFINE s == shape.what
           o == shape.op
           pixels == shape.pixels
           circle == Pixels(Circle(s.x, s.y, s.w))
<1>1. CASE shape = NoShape
  <2>1. o = "none"
    BY <1>1 DEF NoShape
  <2> QED
    BY <2>1 DEF RoundShapes
<1>2. CASE DrawnLast
  <2>0. s \in Shapes /\ s.op = o /\ s.x \in Int /\ s.y \in Int
    BY <1>2, Whole, Zenon DEF DrawnLast
  <2>1. CASE o = "circle" /\ s.w > 0
    <3>1. s.w \in Int /\ Figure(s) = Circle(s.x, s.y, s.w) /\ o \in Plain
      BY <2>0, <2>1, Whole DEF Figure, Plain
    <3>2. s.w \in Nat \ {0} /\ s.w \in Nat
      BY <2>1, <3>1
    <3>3. pixels = circle
      BY <1>2, <3>1, Zenon DEF DrawnLast
    <3> DEFINE x == s.x
               y == s.y
               r == s.w
    <3>4. x \in Int /\ y \in Int /\ r \in Nat \ {0} /\ r \in Nat
      BY <2>0, <3>2, Zenon
    <3> HIDE DEF x, y, r
    <3>5. ASSUME NEW p, p \in Pixels(Circle(x, y, r))
          PROVE  NearTo(p, x, y, 2 * r + 1) /\ ~NearTo(p, x, y, 2 * r - 1)
      <4>1. OnCircle(p, x, y, r)
        BY <3>4, <3>5, CircleIs
      <4>2. Around(p, x, y, r)
        BY <3>4, <4>1, CircleIsNear
      <4>3. p \in Pixel
        BY <4>2, Zenon DEF Around
      <4> QED
        BY <3>4, <4>2, <4>3, NearToIs
    <3>6. \A p \in pixels : NearTo(p, x, y, 2 * r + 1) /\ ~NearTo(p, x, y, 2 * r - 1)
      BY <3>3, <3>5, Zenon DEF x, y, r
    <3> HIDE DEF pixels
    <3>7. \A p \in pixels : NearTo(p, s.x, s.y, 2 * s.w + 1) /\ ~NearTo(p, s.x, s.y, 2 * s.w - 1)
      BY <3>6, Zenon DEF x, y, r
    <3> QED
      BY <2>1, <3>7 DEF RoundShapes, NearTo, pixels
  <2>2. CASE o = "quads" /\ s.w > 0
    <3>1. s.w \in Int /\ Figure(s) = CircleQuads(s.x, s.y, s.w, s.h) /\ o \in Plain
          /\ s.h \in SUBSET (1..4)
      BY <2>0, <2>2, Whole DEF Figure, Plain
    <3>2. s.w \in Nat \ {0} /\ s.w \in Nat
      BY <2>2, <3>1
    <3>3. pixels = Pixels(CircleQuads(s.x, s.y, s.w, s.h))
      BY <1>2, <3>1, Zenon DEF DrawnLast
    <3> DEFINE x == s.x
               y == s.y
               r == s.w
               h == s.h
    <3>4. x \in Int /\ y \in Int /\ r \in Nat \ {0} /\ r \in Nat /\ h \in SUBSET (1..4)
      BY <2>0, <3>1, <3>2, Zenon
    <3> HIDE DEF x, y, r, h
    <3>5. /\ \A v : v \in Pixels(CircleQuads(x, y, r, h)) => OnCircle(v, x, y, r)
          /\ h = 1..4 => \A v : OnCircle(v, x, y, r) => v \in Pixels(CircleQuads(x, y, r, h))
      BY <3>4, QuadsAre
    <3>6. \A v : v \in Pixels(Circle(x, y, r)) <=> OnCircle(v, x, y, r)
      BY <3>4, CircleIs
    <3>7. pixels \subseteq circle
      <4>1. \A v : v \in Pixels(CircleQuads(x, y, r, h)) => v \in Pixels(Circle(x, y, r))
        BY <3>5, <3>6, Zenon
      <4> QED
        BY <3>3, <4>1, Zenon DEF x, y, r, h
    <3>8. s.h = 1..4 => pixels = circle
      <4>1. h = 1..4 => \A v : v \in Pixels(CircleQuads(x, y, r, h)) <=> v \in Pixels(Circle(x, y, r))
        BY <3>5, <3>6, Zenon
      <4>2. h = 1..4 => Pixels(CircleQuads(x, y, r, h)) = Pixels(Circle(x, y, r))
        BY <4>1
      <4> QED
        BY <3>3, <4>2, Zenon DEF x, y, r, h
    <3> HIDE DEF pixels
    <3> QED
      BY <2>2, <3>7, <3>8 DEF RoundShapes, pixels, Pixels
  <2>3. CASE o = "disc" /\ s.w > 0
    <3>1. s.w \in Int /\ Figure(s) = FilledCircle(s.x, s.y, s.w) /\ o \in Plain
      BY <2>0, <2>3, Whole DEF Figure, Plain
    <3>2. s.w \in Nat \ {0} /\ s.w \in Nat
      BY <2>3, <3>1
    <3>3. pixels = Pixels(FilledCircle(s.x, s.y, s.w))
      BY <1>2, <3>1, Zenon DEF DrawnLast
    <3> DEFINE x == s.x
               y == s.y
               r == s.w
    <3>4. x \in Int /\ y \in Int /\ r \in Nat \ {0} /\ r \in Nat
      BY <2>0, <3>2, Zenon
    <3> HIDE DEF x, y, r
    <3>5. ASSUME NEW p, p \in Pixels(FilledCircle(x, y, r))
          PROVE  NearTo(p, x, y, 2 * r + 1)
      <4>1. InDisc(p, x, y, r)
        BY <3>4, <3>5, DiscIs
      <4>2. Inner(p, x, y, r) /\ Within(p, x, y, r)
        BY <3>4, <4>1, DiscIsInner
      <4>3. p \in Pixel
        BY <4>2, Zenon DEF Within
      <4> QED
        BY <3>4, <4>2, <4>3, NearToIs
    <3>6. \A p \in pixels : NearTo(p, x, y, 2 * r + 1)
      BY <3>3, <3>5, Zenon DEF x, y, r
    <3> HIDE DEF pixels
    <3>7. \A p \in pixels : NearTo(p, s.x, s.y, 2 * s.w + 1)
      BY <3>6, Zenon DEF x, y, r
    <3> QED
      BY <2>3, <3>7 DEF RoundShapes, NearTo, pixels
  <2>4. CASE o = "bar" /\ s.h >= 4 /\ s.w >= s.h
    <3>1. s.w \in Int /\ s.h \in Int /\ s.progress \in 0..100 /\ o \in Plain
          /\ Figure(s) = ProgressBar(s.x, s.y, s.w, s.h, s.progress)
      BY <2>0, <2>4, Whole DEF Figure, Plain
    <3>2. pixels = Pixels(ProgressBar(s.x, s.y, s.w, s.h, s.progress))
      BY <1>2, <3>1, Zenon DEF DrawnLast
    <3>3. Framed(ProgressBar(s.x, s.y, s.w, s.h, s.progress), s.x, s.y, s.w, s.h)
      BY <2>0, <2>4, <3>1, BarIs
    <3>4. \A p \in pixels : InFrame(p, s.x, s.y, s.w, s.h)
      BY <3>2, <3>3, Zenon DEF Framed
    <3> HIDE DEF pixels
    <3> QED
      BY <2>4, <3>4 DEF RoundShapes, InFrame, pixels
  <2>5. CASE ~(\/ o \in {"circle", "quads", "disc"} /\ s.w > 0
               \/ o = "bar" /\ s.h >= 4 /\ s.w >= s.h)
    BY <2>5 DEF RoundShapes
  <2> QED
    BY <2>1, <2>2, <2>3, <2>4, <2>5
<1> QED
  BY <1>1, <1>2, Zenon DEF ShapeInv

\* Whatever is drawn stays on the screen.
LEMMA PaintedOnScreen ==
    ASSUME NEW color \in Colors, NEW strokes, buffer \subseteq Screen
    PROVE  Painted(buffer, color, strokes) \subseteq Screen
BY DEF Painted, Colors

LEMMA ShapeStep ==
    ASSUME ShapeInv, [DisplayNext]_displayVars
    PROVE  ShapeInv'
<1>1. ASSUME NEW s \in Shapes, NEW color \in Colors, Draw(s, color)
      PROVE  ShapeInv'
  <2> DEFINE c == IF s.op = "bar" THEN "WHITE" ELSE color
  <2>1. c \in Colors
    BY DEF Colors
  <2>2. /\ before' = buffer
        /\ buffer' = Painted(buffer, c, Strokes(s))
        /\ shape' = [op |-> s.op, what |-> s, color |-> c, pixels |-> UNION Range(Strokes(s))]
    BY <1>1, Zenon DEF Draw
  <2> HIDE DEF c
  <2>3. /\ shape'.op = s.op /\ shape'.what = s /\ shape'.color = c
        /\ shape'.pixels = UNION Range(Strokes(s))
    BY <2>2
  <2>4. buffer' \subseteq Screen /\ before' \subseteq Screen
    BY <2>1, <2>2, PaintedOnScreen, Zenon DEF ShapeInv
  <2>5. s.op \in Plain => Strokes(s) = Figure(s)
    BY FigureIs
  <2>6. s.op \in Plain => UNION Range(Strokes(s)) = Pixels(Figure(s))
    BY <2>5, Zenon DEF Pixels
  <2>7. DrawnLast'
    BY <2>1, <2>2, <2>3, <2>5, <2>6, Zenon DEF DrawnLast
  <2> QED
    BY <2>4, <2>7, Zenon DEF ShapeInv
<1>2. ASSUME buffer' = {} /\ before' = {} /\ shape' = NoShape
      PROVE  ShapeInv'
  BY <1>2, Zenon DEF ShapeInv
<1>3. CASE Clear
  BY <1>2, <1>3, Zenon DEF Clear
<1>4. ASSUME NEW on, BlankPanel(on)
      PROVE  ShapeInv'
  BY <1>2, <1>4, Zenon DEF BlankPanel
<1>5. ASSUME UNCHANGED <<buffer, shape, before>>
      PROVE  ShapeInv'
  BY <1>5 DEF ShapeInv, DrawnLast
<1>6. CASE display
  BY <1>5, <1>6, Zenon DEF display
<1>7. CASE DisplayFails
  BY <1>5, <1>7 DEF DisplayFails
<1>8. CASE PanelRestarts
  BY <1>5, <1>8 DEF PanelRestarts, bufferVars
<1>9. CASE ResetDisplay
  BY <1>4, <1>9, Zenon DEF ResetDisplay
<1>10. CASE LogNext
  <2>1. CASE init
    BY <1>4, <2>1, Zenon DEF init
  <2>2. CASE SetLogBuffer
    BY <1>5, <2>2 DEF SetLogBuffer, bufferVars
  <2>3. ASSUME NEW u \in DOMAIN Utf8, Write(u)
        PROVE  ShapeInv'
    BY <1>5, <2>3 DEF Write, bufferVars
  <2> QED
    BY <1>10, <2>1, <2>2, <2>3, Zenon DEF LogNext
<1>11. CASE UNCHANGED displayVars
  BY <1>5, <1>11 DEF displayVars, bufferVars
<1> QED
  BY <1>1, <1>3, <1>6, <1>7, <1>8, <1>9, <1>10, <1>11, Zenon DEF DisplayNext, PanelNext

\* Everything that can be drawn, with any arguments, on a display of any size and over
\* anything that was there before, is where it should be and nowhere else: lines,
\* rectangles, circles, images and text that is wrapped.
THEOREM ShapesAreRight == DisplaySpec => []ShapesRight
<1>1. DisplayInit => ShapeInv
  BY Zenon DEF DisplayInit, ShapeInv
<1>2. ShapeInv => ShapesRight
  BY StraightRight, SlopingRight, RoundRight, ImagesRight, WrappingRight, Zenon DEF ShapesRight
<1> QED
  BY <1>1, <1>2, ShapeStep, PTL DEF DisplaySpec

-----------------------------------------------------------------------------
(* Ends of texts *)

Byte == 1..255
Text == Seq(Byte)

\* s is an end of t.
Ended(t, s) == \E h \in Text : t = h \o s

Associate(s, t, u) == (s \o t) \o u = s \o (t \o u)

LEMMA Associates ==
    ASSUME NEW E, NEW s \in Seq(E), NEW t \in Seq(E), NEW u \in Seq(E)
    PROVE  Associate(s, t, u)
BY DEF Associate

LEMMA EmptyFirst ==
    ASSUME NEW E, NEW s \in Seq(E)
    PROVE  <<>> \o s = s /\ s \o <<>> = s /\ <<>> \in Seq(E)
OBVIOUS

LEMMA EndedSelf ==
    ASSUME NEW s \in Text
    PROVE  Ended(s, s) /\ Ended(s, <<>>)
<1>1. <<>> \o s = s /\ s \o <<>> = s /\ <<>> \in Text
  BY EmptyFirst DEF Text
<1> QED
  BY <1>1, Zenon DEF Ended

LEMMA EndedTrans ==
    ASSUME NEW t \in Text, NEW s \in Text, NEW r \in Text, Ended(t, s), Ended(s, r)
    PROVE  Ended(t, r)
<1>1. PICK g \in Text : t = g \o s
  BY Zenon DEF Ended
<1>2. PICK h \in Text : s = h \o r
  BY Zenon DEF Ended
<1>3. (g \o h) \o r = g \o (h \o r)
  <2>1. g \in Seq(Byte) /\ h \in Seq(Byte) /\ r \in Seq(Byte)
    BY Zenon DEF Text
  <2>2. Associate(g, h, r)
    BY <2>1, Associates, Zenon
  <2> QED
    BY <2>2, Zenon DEF Associate
<1>4. g \o h \in Text
  BY Concat DEF Text
<1>5. t = (g \o h) \o r
  BY <1>1, <1>2, <1>3, Zenon
<1> DEFINE i == g \o h
<1> HIDE DEF i
<1> QED
  BY <1>4, <1>5, Zenon DEF Ended, i

LEMMA EndedAppend ==
    ASSUME NEW t \in Text, NEW s \in Text, NEW c \in Byte, Ended(t, s)
    PROVE  Ended(Append(t, c), Append(s, c))
<1>1. PICK h \in Text : t = h \o s
  BY Zenon DEF Ended
<1>2. h \o Append(s, c) = Append(h \o s, c)
  BY ConcatAppend DEF Text
<1> QED
  BY <1>1, <1>2, Zenon DEF Ended

LEMMA KeptText ==
    ASSUME NEW t \in Text, NEW set
    PROVE  Kept(t, set) \in Text
<1> DEFINE E == Byte
<1>1. t \in Seq(E) /\ 1 \in E
  BY DEF Text, Byte
<1> HIDE DEF E
<1>2. Kept(t, set) \in Seq(E)
  BY <1>1, KeptAppend
<1> QED
  BY <1>2, Zenon DEF E, Text

LEMMA KeptApartIs ==
    ASSUME NEW s \in Text, NEW t \in Text, NEW set
    PROVE  KeptApart(s, t, set)
<1>1. s \in Seq(Byte) /\ t \in Seq(Byte)
  BY Zenon DEF Text
<1> QED
  BY <1>1, KeptTwo, Zenon

LEMMA KeptApartText ==
    ASSUME NEW s \in Text, NEW t \in Text, NEW set
    PROVE  Kept(s \o t, set) = Kept(s, set) \o Kept(t, set)
BY KeptApartIs, Zenon DEF KeptApart

LEMMA KeptOneText ==
    ASSUME NEW u \in Text, NEW c \in Byte, NEW set
    PROVE  /\ c \in set => Kept(Append(u, c), set) = Append(Kept(u, set), c)
           /\ c \notin set => Kept(Append(u, c), set) = Kept(u, set)
           /\ Append(u, c) \in Text
<1>1. u \in Seq(Byte)
  BY Zenon DEF Text
<1>2. Append(u, c) \in Seq(Byte)
  <2> DEFINE E == Byte
  <2> HIDE DEF E
  <2>1. u \in Seq(E) /\ c \in E
    BY <1>1, Zenon DEF E
  <2>2. Append(u, c) \in Seq(E)
    BY <2>1
  <2> QED
    BY <2>2, Zenon DEF E
<1>3. c \in set => Kept(Append(u, c), set) = Append(Kept(u, set), c)
  BY <1>1, KeptOne, ZenonT(60)
<1>4. c \notin set => Kept(Append(u, c), set) = Kept(u, set)
  BY <1>1, KeptOne, Zenon
<1> QED
  BY <1>2, <1>3, <1>4, Zenon DEF Text

LEMMA EndedKept ==
    ASSUME NEW t \in Text, NEW s \in Text, Ended(t, s), NEW set
    PROVE  Ended(Kept(t, set), Kept(s, set))
<1>1. PICK h \in Text : t = h \o s
  BY Zenon DEF Ended
<1>2. Kept(t, set) = Kept(h, set) \o Kept(s, set)
  BY <1>1, KeptApartText, ZenonT(60)
<1>3. Kept(h, set) \in Text
  BY KeptText, Zenon
<1> QED
  BY <1>2, <1>3, Zenon DEF Ended

LEMMA SuffixIs ==
    ASSUME NEW E, NEW h \in Seq(E), NEW s \in Seq(E), NEW t, t = h \o s
    PROVE  IsSuffix(s, t)
<1> DEFINE a == Len(s)
           b == Len(h)
           r == Reverse(s)
           q == Reverse(t)
<1>1. a \in Nat /\ b \in Nat
  OBVIOUS
<1>2. t \in Seq(E) /\ Len(t) = a + b
  BY ConcatLen
<1>3. \A n \in 1..a + b : t[n] = IF n <= b THEN h[n] ELSE s[n - b]
  <2> TAKE n \in 1..a + b
  <2>1. n \in 1..b + a
    BY <1>1
  <2>2. (h \o s)[n] = IF n <= b THEN h[n] ELSE s[n - b]
    BY <2>1, ConcatElements
  <2> QED
    BY <2>2, Zenon
<1> HIDE DEF a, b
<1>4. r = [i \in 1..a |-> s[(a - i) + 1]] /\ q = [i \in 1..a + b |-> t[((a + b) - i) + 1]]
  BY <1>2, Zenon DEF Reverse, a
<1>5. \A i \in 1..a : s[(a - i) + 1] \in E /\ t[((a + b) - i) + 1] = s[(a - i) + 1]
  <2> TAKE i \in 1..a
  <2> DEFINE n == ((a + b) - i) + 1
             m == (a - i) + 1
  <2>1. n \in 1..a + b /\ ~(n <= b) /\ n - b = m /\ m \in 1..a
    BY <1>1
  <2> HIDE DEF n, m
  <2>2. t[n] = s[m]
    BY <1>3, <2>1, Zenon
  <2>3. s[m] \in E
    BY <2>1, SeqElement DEF a
  <2> QED
    BY <2>2, <2>3, Zenon DEF n, m
<1>6. \A i \in 1..a + b : t[((a + b) - i) + 1] \in E
  <2> TAKE i \in 1..a + b
  <2> DEFINE n == ((a + b) - i) + 1
  <2>1. n \in 1..a + b
    BY <1>1
  <2> HIDE DEF n
  <2>2. t[n] \in E
    BY <1>2, <2>1, SeqElement
  <2> QED
    BY <2>2, Zenon DEF n
<1>7. \A i \in 1..a : i \in 1..a + b
  BY <1>1
<1>8. r \in [1..a -> E] /\ q \in [1..a + b -> E] /\ \A i \in 1..a : r[i] = q[i]
  <2>1. r \in [1..a -> E] /\ \A i \in 1..a : r[i] = s[(a - i) + 1]
    BY <1>4, <1>5, Zenon
  <2>2. q \in [1..a + b -> E] /\ \A i \in 1..a + b : q[i] = t[((a + b) - i) + 1]
    BY <1>4, <1>6, Zenon
  <2> QED
    BY <1>5, <1>7, <2>1, <2>2, Zenon
<1> HIDE DEF r, q
<1>9. r \in Seq(E) /\ q \in Seq(E) /\ Len(r) = a /\ Len(q) = a + b
  BY <1>1, <1>8, SMTT(30)
<1>10. SubSeq(r, 1, a) = SubSeq(q, 1, a) /\ a <= a + b
  BY <1>1, <1>8, <1>9
<1> QED
  BY <1>9, <1>10, Zenon DEF IsSuffix, IsPrefix, r, q

LEMMA EndedIsSuffix ==
    ASSUME NEW t \in Text, NEW s \in Text, Ended(t, s)
    PROVE  IsSuffix(s, t)
<1>1. PICK h \in Text : t = h \o s
  BY Zenon DEF Ended
<1>2. h \in Seq(Byte) /\ s \in Seq(Byte)
  BY Zenon DEF Text
<1> QED
  BY <1>1, <1>2, SuffixIs, Zenon

LEMMA EndedSeg ==
    ASSUME NEW t \in Text, NEW a \in Nat, a <= Len(t)
    PROVE  /\ SubSeq(t, a + 1, Len(t)) \in Text /\ Seg(t, 0, a) \in Text
           /\ t = Seg(t, 0, a) \o SubSeq(t, a + 1, Len(t))
           /\ Ended(t, SubSeq(t, a + 1, Len(t)))
           /\ Len(SubSeq(t, a + 1, Len(t))) = Len(t) - a
<1> DEFINE k == Len(t)
           s == Seg(t, 0, a)
           u == Seg(t, a, k)
<1>1. t \in Seq(Byte) /\ k \in Nat /\ 0 \in Nat /\ 0 <= a /\ a <= k /\ k <= Len(t)
  BY DEF Text
<1>2. s \in Seq(Byte) /\ u \in Seq(Byte) /\ Len(u) = k - a
  BY <1>1, SegTyped
<1>3. Seg(t, 0, k) = s \o u
  BY <1>1, SegJoin
<1>4. Seg(t, 0, k) = t
  BY <1>1, SegAll
<1>5. u = SubSeq(t, a + 1, Len(t))
  BY Zenon DEF Seg
<1> HIDE DEF s, u, k
<1> QED
  BY <1>2, <1>3, <1>4, <1>5, Zenon DEF Text, Ended, s, k

\* Nothing is kept of elements that are not in the set.
LEMMA KeptNone ==
    ASSUME NEW E, NEW t \in Seq(E), NEW set, \A c \in E : c \notin set
    PROVE  Kept(t, set) = <<>>
<1> DEFINE u == Kept(t, set)
<1>1. u \in Seq(set)
  BY KeptTyped
<1>2. CASE E = {}
  <2>1. t = <<>>
    BY <1>2
  <2>2. <<>> \in Seq({1}) /\ 1 \in {1}
    OBVIOUS
  <2>3. Kept(<<>>, set) = <<>>
    BY <2>2, KeptAppend
  <2> QED
    BY <2>1, <2>3, Zenon
<1>3. CASE E # {}
  <2>1. PICK c \in E : TRUE
    BY <1>3, Zenon
  <2>2. u \in Seq(E)
    BY <2>1, KeptAppend
  <2> HIDE DEF u
  <2>3. Len(u) \in Nat /\ ~(1 \in 1..Len(u))
    <3>1. 1 \in 1..Len(u) => u[1] \in E /\ u[1] \in set
      BY <1>1, <2>2, SeqElement
    <3>2. Len(u) \in Nat
      BY <2>2
    <3> QED
      BY <3>1, <3>2, Zenon
  <2>4. u = <<>>
    BY <2>2, <2>3
  <2> QED
    BY <2>4, Zenon DEF u
<1> QED
  BY <1>2, <1>3, Zenon

-----------------------------------------------------------------------------
(* The log *)

LogRec == [text : Text, lines : Nat, last : 0..255, lost : BOOLEAN]
Breaks(t) == Len(Kept(t, {Newline}))
Fit(log) ==
    /\ log \in LogRec
    /\ Len(log.text) \in 0..LogSize
    /\ Breaks(log.text) \in 0..log.lines
    /\ log.lines \in 0..MaxLogLines
\* With room for a character.
Roomy(log) == Fit(log) /\ Len(log.text) < LogSize /\ log.lines < MaxLogLines

LEMMA TextLen ==
    ASSUME NEW t \in Text
    PROVE  Len(t) \in Nat
BY DEF Text

LEMMA BreaksIn ==
    ASSUME NEW t \in Text
    PROVE  Breaks(t) \in Nat
<1>1. Kept(t, {Newline}) \in Text
  BY KeptText, Zenon
<1> QED
  BY <1>1, TextLen, Zenon DEF Breaks

LEMMA LenTwo ==
    ASSUME NEW s \in Text, NEW t \in Text
    PROVE  Len(s \o t) = Len(s) + Len(t)
BY DEF Text

\* Without its first line, a log has a line less.
LEMMA LineLess ==
    ASSUME NEW t \in Text, NEW n \in 1..Len(t), t[n] = Newline,
           NEW s, s = SubSeq(t, n + 1, Len(t))
    PROVE  /\ s \in Text /\ Ended(t, s) /\ Len(s) \in 0..Len(t) - 1
           /\ Breaks(s) \in Nat /\ Breaks(s) < Breaks(t)
<1> DEFINE m == n - 1
           h == Seg(t, 0, m)
           g == Seg(t, 0, n)
           k == Len(t)
<1>1. /\ n \in Nat /\ n <= Len(t) /\ m \in Nat /\ m < Len(t) /\ m <= Len(t) /\ m + 1 = n
      /\ 0 \in Nat /\ 0 <= m /\ k \in Nat /\ n <= k /\ n > 0
  BY TextLen
<1>2. s \in Text /\ g \in Text /\ t = g \o s /\ Ended(t, s) /\ Len(s) = k - n
  BY <1>1, EndedSeg, Zenon
<1>3. h \in Text
  BY <1>1, EndedSeg, Zenon
<1>4. g = Append(h, Newline)
  <2>1. t \in Seq(Byte)
    BY Zenon DEF Text
  <2>2. Seg(t, 0, m + 1) = Append(Seg(t, 0, m), t[m + 1])
    BY <1>1, <2>1, SegNext
  <2> HIDE DEF m
  <2> QED
    BY <1>1, <2>2, Zenon
<1> DEFINE N == {Newline}
           kh == Kept(h, N)
           ks == Kept(s, N)
<1>5. Newline \in Byte /\ Newline \in N
  BY DEF Byte, Newline
<1> HIDE DEF N, h, g, k, m
<1>6. Kept(g, N) = Append(kh, Newline)
  BY <1>3, <1>4, <1>5, KeptOneText, ZenonT(60)
<1>7. Kept(t, N) = Kept(g, N) \o ks
  <2>1. KeptApart(g, s, N)
    BY <1>2, KeptApartIs, Zenon
  <2> QED
    BY <1>2, <2>1, Zenon DEF KeptApart, ks
<1>8. kh \in Text /\ ks \in Text
  BY <1>2, <1>3, KeptText, Zenon
<1> HIDE DEF kh, ks
<1>9. Len(Append(kh, Newline) \o ks) = Len(kh) + 1 + Len(ks) /\ Len(kh) \in Nat /\ Len(ks) \in Nat
  <2> DEFINE u == Append(kh, Newline)
             E == Byte
  <2>1. kh \in Seq(E) /\ ks \in Seq(E) /\ Newline \in E
    BY <1>5, <1>8, Zenon DEF Text
  <2> HIDE DEF E
  <2>2. u \in Seq(E) /\ Len(u) = Len(kh) + 1 /\ Len(kh) \in Nat /\ Len(ks) \in Nat
    BY <2>1
  <2> HIDE DEF u
  <2>3. u \in Text
    BY <2>2, Zenon DEF Text, E
  <2>4. Len(u \o ks) = Len(u) + Len(ks)
    BY <1>8, <2>3, LenTwo, Zenon
  <2> QED
    BY <2>2, <2>4, Zenon DEF u
<1>10. Breaks(t) = Len(kh) + 1 + Len(ks) /\ Breaks(s) = Len(ks)
  BY <1>6, <1>7, <1>9, Zenon DEF Breaks, N, ks
<1>11. Len(s) \in 0..Len(t) - 1
  BY <1>1, <1>2 DEF k
<1> QED
  BY <1>2, <1>9, <1>10, <1>11

LEMMA MakeRoomIs ==
    ASSUME NEW log, Fit(log), ~Room(log), NEW r, r = MakeRoom(log)
    PROVE  Roomy(r) /\ Ended(log.text, r.text) /\ r.last = log.last /\ r.lost = log.lost
<1> DEFINE t == log.text
           ends == {n \in DOMAIN t : t[n] = Newline}
           first == CHOOSE n \in ends : \A m \in ends : n <= m
           lines == IF log.lines = MaxLogLines THEN log.lines - 1 ELSE log.lines
           text == IF ends # {} THEN SubSeq(t, first + 1, Len(t))
                   ELSE IF Len(t) = LogSize THEN <<>> ELSE t
<1>1. /\ log \in LogRec /\ Len(t) \in 0..LogSize /\ Breaks(t) \in 0..log.lines
      /\ log.lines \in 0..MaxLogLines /\ MaxLogLines \in Nat \ {0} /\ LogSize \in Nat \ {0}
  BY LogAssumption, Zenon DEF Fit
<1>2. /\ t \in Text /\ log.lines \in Nat /\ log.last \in 0..255 /\ log.lost \in BOOLEAN
  BY <1>1 DEF LogRec
<1>3. r = [log EXCEPT !.lines = lines, !.text = text]
  BY Zenon DEF MakeRoom
<1>4. lines \in Nat /\ lines < MaxLogLines /\ (log.lines = MaxLogLines => lines = log.lines - 1)
      /\ (log.lines # MaxLogLines => lines = log.lines)
  <2> DEFINE a == log.lines
  <2> HIDE DEF a
  <2>1. a \in 0..MaxLogLines /\ MaxLogLines \in Nat \ {0}
    BY <1>1, Zenon DEF a
  <2>2. DEFINE b == IF a = MaxLogLines THEN a - 1 ELSE a
  <2>3. b \in Nat /\ b < MaxLogLines /\ (a = MaxLogLines => b = a - 1)
        /\ (a # MaxLogLines => b = a)
    BY <2>1
  <2> QED
    BY <2>3, Zenon DEF a
<1>5. /\ text \in Text /\ Ended(t, text) /\ Len(text) \in Nat /\ Len(text) < LogSize
      /\ Breaks(text) \in Nat /\ Breaks(text) <= lines
  <2>1. DOMAIN t = 1..Len(t) /\ Len(t) \in Nat
    BY <1>2 DEF Text
  <2>2. CASE ends # {}
    <3>1. ends \in SUBSET Nat
      BY <2>1
    <3>2. first \in ends
      <4>1. \E n \in ends : \A m \in ends : n <= m
        <5> HIDE DEF ends
        <5> QED
          BY <2>2, <3>1, LeastNumber
      <4> HIDE DEF ends
      <4> QED
        BY <4>1, Zenon
    <3>3. first \in 1..Len(t) /\ t[first] = Newline
      BY <2>1, <3>2, Zenon
    <3>4. text = SubSeq(t, first + 1, Len(t))
      BY <2>2, Zenon
    <3> HIDE DEF first, ends, text, t, lines
    <3>5. /\ text \in Text /\ Ended(t, text) /\ Len(text) \in 0..Len(t) - 1
          /\ Breaks(text) \in Nat /\ Breaks(text) < Breaks(t)
      BY <1>2, <3>3, <3>4, LineLess
    <3> DEFINE p == Len(text)
               q == Len(t)
               i == Breaks(text)
               j == Breaks(t)
               a == log.lines
    <3>6. /\ p \in 0..q - 1 /\ q \in 0..LogSize /\ LogSize \in Nat /\ i \in Nat /\ i < j /\ j \in 0..a
          /\ lines \in Nat /\ a \in Nat /\ (lines = a - 1 \/ lines = a)
      BY <1>1, <1>2, <1>4, <3>5
    <3> HIDE DEF p, q, i, j, a
    <3>7. p \in Nat /\ p < LogSize /\ i <= lines
      BY <3>6
    <3> QED
      BY <3>5, <3>7, Zenon DEF p, i
  <2>3. CASE ends = {}
    <3>1. Breaks(t) = 0 /\ Breaks(<<>>) = 0
      <4> DEFINE E == Byte \ {Newline}
      <4>1. \A n \in 1..Len(t) : t[n] \in E
        <5>1. \A n \in 1..Len(t) : t[n] \in Byte
          BY <1>2, SeqElement DEF Text
        <5>2. \A n \in 1..Len(t) : t[n] # Newline
          BY <2>1, <2>3, Zenon
        <5> QED
          BY <5>1, <5>2, Zenon
      <4>2. t \in Seq(Byte)
        BY <1>2, Zenon DEF Text
      <4>3. t \in Seq(E)
        <5> HIDE DEF E, t
        <5> QED
          BY <4>1, <4>2
      <4>4. \A c \in E : c \notin {Newline}
        BY Zenon
      <4>5. <<>> \in Seq(E) /\ Len(<<>>) = 0
        OBVIOUS
      <4> HIDE DEF E, t
      <4>6. Kept(t, {Newline}) = <<>> /\ Kept(<<>>, {Newline}) = <<>>
        BY <4>3, <4>4, <4>5, KeptNone
      <4> QED
        BY <4>5, <4>6, Zenon DEF Breaks
    <3>2. text = IF Len(t) = LogSize THEN <<>> ELSE t
      BY <2>3, Zenon
    <3>3. <<>> \in Text /\ Ended(t, <<>>) /\ Ended(t, t) /\ Len(<<>>) = 0
      <4>1. <<>> \in Text /\ Len(<<>>) = 0
        BY DEF Text
      <4> QED
        BY <1>2, <4>1, EndedSelf, Zenon
    <3> HIDE DEF text, t, lines
    <3>4. 0 < LogSize /\ 0 \in Nat /\ 0 <= lines
      BY <1>1, <1>4
    <3>5. Len(t) # LogSize => Len(t) \in Nat /\ Len(t) < LogSize
      BY <1>1
    <3>6. CASE Len(t) = LogSize
      BY <3>1, <3>2, <3>3, <3>4, <3>6, Zenon
    <3>7. CASE Len(t) # LogSize
      BY <1>2, <3>1, <3>2, <3>3, <3>4, <3>5, <3>7, Zenon
    <3> QED
      BY <3>6, <3>7, Zenon
  <2> QED
    BY <2>2, <2>3, Zenon
<1> HIDE DEF text, lines, t
<1>6. /\ r \in LogRec /\ r.text = text /\ r.lines = lines /\ r.last = log.last /\ r.lost = log.lost
  BY <1>1, <1>3, <1>4, <1>5, ZenonT(60) DEF LogRec
<1>7. Len(text) \in 0..LogSize /\ Breaks(text) \in 0..lines /\ lines \in 0..MaxLogLines
  BY <1>1, <1>4, <1>5
<1> QED
  BY <1>4, <1>5, <1>6, <1>7, Zenon DEF Roomy, Fit, t

LEMMA StoredIs ==
    ASSUME NEW log, Roomy(log), NEW c \in Byte, NEW r, r = Stored(log, c)
    PROVE  Fit(r) /\ r.text = Append(log.text, c) /\ r.last = log.last /\ r.lost = log.lost
<1> DEFINE t == log.text
           text == Append(t, c)
           lines == IF c = Newline THEN log.lines + 1 ELSE log.lines
<1>1. /\ log \in LogRec /\ Len(t) \in 0..LogSize /\ Breaks(t) \in 0..log.lines
      /\ log.lines \in 0..MaxLogLines /\ Len(t) < LogSize /\ log.lines < MaxLogLines
  BY Zenon DEF Fit, Roomy
<1>2. /\ t \in Text /\ log.lines \in Nat /\ LogSize \in Nat /\ MaxLogLines \in Nat
  BY <1>1, LogAssumption DEF LogRec
<1>3. r = [log EXCEPT !.text = text, !.lines = lines]
  BY Zenon DEF Stored
<1>4. text \in Text
  BY <1>2, KeptOneText, Zenon
<1>5. Len(text) = Len(t) + 1 /\ Len(t) \in Nat
  BY <1>2 DEF Text
<1>6. Breaks(text) \in 0..lines
  <2> DEFINE N == {Newline}
             u == Kept(t, N)
             a == log.lines
  <2>1. u \in Text
    BY <1>2, KeptText, Zenon
  <2>2. c = Newline => Kept(text, N) = Append(u, c)
    <3>1. c = Newline => c \in N
      BY Zenon
    <3> HIDE DEF N
    <3>2. c \in N => Kept(text, N) = Append(u, c)
      BY <1>2, KeptOneText
    <3> QED
      BY <3>1, <3>2, Zenon
  <2>3. c # Newline => Kept(text, N) = u
    <3>1. c # Newline => c \notin N
      BY Zenon
    <3> HIDE DEF N
    <3>2. c \notin N => Kept(text, N) = u
      BY <1>2, KeptOneText
    <3> QED
      BY <3>1, <3>2, Zenon
  <2> HIDE DEF u, text
  <2>4. Len(Append(u, c)) = Len(u) + 1 /\ Len(u) \in Nat
    BY <2>1 DEF Text
  <2>5. Breaks(t) = Len(u)
    BY Zenon DEF Breaks, u
  <2>6. Breaks(text) = IF c = Newline THEN Len(u) + 1 ELSE Len(u)
    BY <2>2, <2>3, <2>4, Zenon DEF Breaks
  <2>7. Len(u) \in 0..a /\ a \in Nat
    BY <1>1, <1>2, <2>5, Zenon
  <2> HIDE DEF a
  <2>8. Breaks(text) \in 0..(IF c = Newline THEN a + 1 ELSE a)
    BY <2>4, <2>6, <2>7
  <2> QED
    BY <2>8, Zenon DEF a
<1> HIDE DEF text, t
<1>7. lines \in 0..MaxLogLines /\ Len(text) \in 0..LogSize /\ lines \in Nat
  <2> DEFINE a == log.lines
  <2>1. a \in Nat /\ a < MaxLogLines /\ MaxLogLines \in Nat
    BY <1>1, <1>2, Zenon
  <2> HIDE DEF a
  <2>2. DEFINE b == IF c = Newline THEN a + 1 ELSE a
  <2>3. b \in 0..MaxLogLines /\ b \in Nat
    BY <2>1
  <2>4. Len(text) \in 0..LogSize
    BY <1>1, <1>2, <1>5
  <2> QED
    BY <2>3, <2>4, Zenon DEF a
<1> HIDE DEF lines
<1>8. r \in LogRec /\ r.text = text /\ r.lines = lines /\ r.last = log.last /\ r.lost = log.lost
  BY <1>1, <1>3, <1>4, <1>7, ZenonT(60) DEF LogRec
<1> QED
  BY <1>6, <1>7, <1>8, Zenon DEF Fit, text, t

\* What a byte means after another one.
Means(last, b, c) ==
    /\ c \in 0..255
    /\ b < 128 => c = b
    /\ b >= 128 => c = 0 \/ c \in 128..255
    /\ b >= 192 /\ last \notin {194, 195} => c = 0
    /\ b \in 128..191 /\ c # 0 => Lookup(b, c) = 0

LEMMA LookupIs ==
    ASSUME NEW last \in 0..255, NEW b \in Byte
    PROVE  Means(last, b, Lookup(last, b))
<1> DEFINE m == b % 64
           c == Lookup(last, b)
<1>0. b \in 1..255
  BY DEF Byte
<1>1. m \in 0..63
  <2>1. b \in 0..255
    BY <1>0
  <2> QED
    BY <2>1, SixBits
<1>2. b = 130 => m = 2
  OBVIOUS
<1>3. c = CASE b < 128                   -> b
            [] b >= 128 /\ last = 194    -> b
            [] b >= 128 /\ last = 195    -> m + 192
            [] b = 172 /\ last = 130     -> 128
            [] OTHER                     -> 0
  BY Zenon DEF Lookup
<1> HIDE DEF m, c
<1>4. /\ c \in 0..255
      /\ b < 128 => c = b
      /\ b >= 128 => c = 0 \/ c \in 128..255
      /\ b >= 192 /\ last \notin {194, 195} => c = 0
  BY <1>0, <1>1, <1>3
<1>5. b = 130 => c # 172
  BY <1>1, <1>2, <1>3
<1>6. ASSUME b \in 128..191, c # 0
      PROVE  Lookup(b, c) = 0
  <2>1. c >= 128 /\ b # 194 /\ b # 195 /\ ~(c = 172 /\ b = 130) /\ ~(c < 128)
    BY <1>4, <1>5, <1>6
  <2> QED
    BY <2>1 DEF Lookup
<1> QED
  BY <1>4, <1>6, Zenon DEF Means, c

\* A log but for the byte before.
Relasted(log, v, r) ==
    /\ Fit(r) /\ r.text = log.text /\ r.lines = log.lines /\ r.last = v /\ r.lost = log.lost
    /\ Roomy(log) => Roomy(r)
    /\ Room(r) => Roomy(r)
    /\ Room(log) => Room(r)
    /\ Room(r) => Room(log)

LEMMA RelastIs ==
    ASSUME NEW log, Fit(log), NEW v \in 0..255, NEW r, r = [log EXCEPT !.last = v]
    PROVE  Relasted(log, v, r)
<1>1. log \in LogRec
  BY Zenon DEF Fit
<1>2. r \in LogRec /\ r.text = log.text /\ r.lines = log.lines /\ r.last = v /\ r.lost = log.lost
  BY <1>1 DEF LogRec
<1>3. Fit(r)
  BY <1>2, Zenon DEF Fit
<1>4. (Room(log) => Room(r)) /\ (Room(r) => Room(log))
  BY <1>2, Zenon DEF Room
<1>5. Room(r) => Roomy(r)
  BY <1>3, Zenon DEF Roomy, Room
<1>6. Roomy(log) => Roomy(r)
  BY <1>2, <1>3, Zenon DEF Roomy
<1> QED
  BY <1>2, <1>3, <1>4, <1>5, <1>6, Zenon DEF Relasted

LEMMA LoseIs ==
    ASSUME NEW log, Fit(log), NEW r, r = [log EXCEPT !.lost = TRUE]
    PROVE  Fit(r) /\ r.text = log.text /\ r.last = log.last /\ r.lost = TRUE
<1>1. log \in LogRec
  BY Zenon DEF Fit
<1>2. r \in LogRec /\ r.text = log.text /\ r.lines = log.lines /\ r.last = log.last /\ r.lost = TRUE
  BY <1>1 DEF LogRec
<1> QED
  BY <1>2, Zenon DEF Fit

\* What write() of a byte makes of the log.
ByteFed(log, b, c, r) ==
    /\ Fit(r)
    /\ log.lost => r.lost
    /\ b = 13 => r = log
    /\ b # 13 /\ b < 128 =>
          /\ r.last = 0 /\ r.lost = log.lost
          /\ \E s \in Text : Ended(log.text, s) /\ r.text = Append(s, b)
    /\ b >= 128 =>
          /\ c = 0 => r.text = log.text /\ r.lost = log.lost /\ r.last = b
          /\ \E s \in Text : /\ Ended(log.text, s)
                             /\ r.text = s \/ \E d \in 128..255 : r.text = Append(s, d)
          /\ b < 192 /\ c # 0 =>
                r.lost \/ (r.text = Append(log.text, c) /\ r.last = b /\ r.lost = log.lost)

LEMMA ByteIs ==
    ASSUME NEW log, Fit(log), NEW b \in Byte, NEW c, c = Lookup(log.last, b)
    PROVE  ByteFed(log, b, c, WriteByte(log, b))
<1> DEFINE r == WriteByte(log, b)
           l == LastChar(b)
           seen == [log EXCEPT !.last = l]
<1>1. /\ log \in LogRec /\ log.text \in Text /\ log.last \in 0..255 /\ log.lost \in BOOLEAN
  <2>1. log \in LogRec
    BY Zenon DEF Fit
  <2> QED
    BY <2>1 DEF LogRec
<1>2. /\ c \in 0..255
      /\ b < 128 => c = b
      /\ b >= 128 => c = 0 \/ c \in 128..255
      /\ b \in 128..191 /\ c # 0 => Lookup(b, c) = 0
  <2>1. Means(log.last, b, Lookup(log.last, b))
    BY <1>1, LookupIs, Zenon
  <2> QED
    BY <2>1, ZenonT(60) DEF Means
<1>3. /\ b \in 1..255 /\ l \in 0..255 /\ (b < 128 => l = 0) /\ (b >= 128 => l = b)
      /\ (b < 128 \/ b >= 128) /\ (b < 128 => ~(b >= 128)) /\ (b # 0) /\ (b = 13 => b < 128)
      /\ (b >= 128 /\ b < 192 => b \in 128..191)
  BY DEF LastChar, Byte
<1>4. /\ Fit(seen) /\ seen.text = log.text /\ seen.last = l /\ seen.lost = log.lost
      /\ Room(seen) => Roomy(seen)
      /\ Room(log) => Room(seen)
      /\ Room(seen) => Room(log)
  <2>1. l \in 0..255 /\ seen = [log EXCEPT !.last = l]
    BY <1>3, Zenon
  <2> HIDE DEF l, seen
  <2>2. Relasted(log, l, seen)
    BY <2>1, RelastIs, Zenon
  <2> QED
    BY <2>2, Zenon DEF Relasted
<1>5. r = IF b = 13 THEN log ELSE IF c = 0 THEN seen
          ELSE IF Room(seen) THEN Stored(seen, c) ELSE StoredAgain(seen, c)
  <2> DEFINE d == Lookup(log.last, b)
  <2>1. r = IF b = 13 THEN log ELSE IF d = 0 THEN seen
            ELSE IF Room(log) THEN Stored(seen, d) ELSE StoredAgain(seen, d)
    BY DEF WriteByte
  <2>2. c = d
    BY Zenon
  <2> HIDE DEF d, r, seen
  <2> QED
    BY <1>4, <2>1, <2>2, Zenon
<1> HIDE DEF r, l, seen
<1>6. Ended(log.text, log.text)
  BY <1>1, EndedSelf, Zenon
<1>7. CASE b = 13
  <2>1. r = log
    BY <1>5, <1>7, Zenon
  <2> QED
    BY <1>3, <1>7, <2>1, Zenon DEF ByteFed, r
<1>8. CASE b # 13 /\ c = 0
  <2>1. r = seen
    BY <1>5, <1>8, Zenon
  <2>2. b >= 128 /\ ~(b < 128)
    BY <1>2, <1>3, <1>8, Zenon
  <2>3. \E s \in Text : Ended(log.text, s) /\ r.text = s
    BY <1>1, <1>4, <1>6, <2>1, Zenon
  <2> QED
    BY <1>3, <1>4, <1>8, <2>1, <2>2, <2>3, ZenonT(60) DEF ByteFed, r
<1>9. CASE b # 13 /\ c # 0 /\ Room(seen)
  <2>1. r = Stored(seen, c)
    BY <1>5, <1>9, Zenon
  <2>2. c \in Byte
    BY <1>2, <1>9 DEF Byte
  <2>3. Fit(r) /\ r.text = Append(log.text, c) /\ r.last = l /\ r.lost = log.lost
    <3>1. Roomy(seen)
      BY <1>4, <1>9, Zenon
    <3>2. Fit(r) /\ r.text = Append(seen.text, c) /\ r.last = seen.last /\ r.lost = seen.lost
      BY <2>1, <2>2, <3>1, StoredIs
    <3> QED
      BY <1>4, <3>2, Zenon
  <2>4. b >= 128 => \E s \in Text : Ended(log.text, s) /\ \E d \in 128..255 : r.text = Append(s, d)
    BY <1>1, <1>2, <1>6, <1>9, <2>3, Zenon
  <2>5. b < 128 => \E s \in Text : Ended(log.text, s) /\ r.text = Append(s, b)
    BY <1>1, <1>2, <1>6, <2>3, Zenon
  <2> QED
    BY <1>3, <1>9, <2>3, <2>4, <2>5, ZenonT(60) DEF ByteFed, r
<1>10. CASE b # 13 /\ c # 0 /\ ~Room(seen)
  <2> DEFINE mk == MakeRoom(seen)
             e == LastChar(c)
             room == [mk EXCEPT !.last = e]
             code == Lookup(l, c)
  <2>1. r = IF code = 0 THEN [room EXCEPT !.lost = TRUE] ELSE Stored(room, code)
    <3>1. r = StoredAgain(seen, c)
      BY <1>5, <1>10, Zenon
    <3> QED
      BY <1>4, <3>1, Zenon DEF StoredAgain
  <2>2. c \in Byte /\ c \in 1..255 /\ e \in 0..255 /\ (c < 128 => e = 0)
    BY <1>2, <1>10 DEF Byte, LastChar
  <2>3. Roomy(mk) /\ Ended(log.text, mk.text) /\ mk.lost = log.lost
    BY <1>4, <1>10, MakeRoomIs, Zenon
  <2> HIDE DEF mk, e
  <2>4. Fit(room) /\ Roomy(room) /\ room.text = mk.text /\ room.last = e /\ room.lost = log.lost
    <3>1. Fit(mk)
      BY <2>3, Zenon DEF Roomy
    <3>2. room = [mk EXCEPT !.last = e]
      BY Zenon
    <3> HIDE DEF room
    <3>5. e \in 0..255
      BY <2>2, Zenon
    <3>3. /\ Fit(room) /\ room.text = mk.text /\ room.last = e /\ room.lost = mk.lost
          /\ Roomy(mk) => Roomy(room)
      <4>1. Relasted(mk, e, room)
        BY <3>1, <3>2, <3>5, RelastIs, Zenon
      <4> QED
        BY <4>1, Zenon DEF Relasted
    <3> QED
      BY <2>3, <3>3, Zenon
  <2>5. room.text \in Text
    <3>1. room \in LogRec
      BY <2>4, Zenon DEF Fit
    <3> HIDE DEF room
    <3> QED
      BY <3>1 DEF LogRec
  <2> HIDE DEF room
  <2>6. /\ code \in 0..255
        /\ c < 128 => code = c
        /\ c >= 128 => code = 0 \/ code \in 128..255
    <3>1. Means(l, c, code)
      BY <1>3, <2>2, LookupIs, Zenon
    <3> QED
      BY <3>1, Zenon DEF Means
  <2>7. /\ b < 128 => code = b /\ e = 0
        /\ b >= 128 => code = 0 \/ code \in 128..255
        /\ b \in 128..191 => code = 0
    <3>1. b < 128 => c < 128 /\ c = b
      BY <1>2, <1>3
    <3>2. b >= 128 => c >= 128
      BY <1>2, <1>3, <1>10
    <3>3. b \in 128..191 => code = 0
      BY <1>2, <1>3, <1>10
    <3> HIDE DEF code
    <3> QED
      BY <2>2, <2>6, <3>1, <3>2, <3>3, ZenonT(60)
  <2> HIDE DEF code
  <2>8. CASE code = 0
    <3>1. r = [room EXCEPT !.lost = TRUE]
      BY <2>1, <2>8, Zenon
    <3>2. Fit(r) /\ r.text = room.text /\ r.lost = TRUE
      BY <2>4, <3>1, LoseIs
    <3>3. b >= 128 /\ ~(b < 128)
      BY <1>3, <2>7, <2>8, Zenon
    <3>4. \E s \in Text : Ended(log.text, s) /\ r.text = s
      BY <2>3, <2>4, <2>5, <3>2, Zenon
    <3> QED
      BY <1>3, <1>10, <3>2, <3>3, <3>4, Zenon DEF ByteFed, r
  <2>9. CASE code # 0
    <3>1. r = Stored(room, code)
      BY <2>1, <2>9, Zenon
    <3>2. code \in Byte
      BY <2>6, <2>9 DEF Byte
    <3>3. Fit(r) /\ r.text = Append(room.text, code) /\ r.last = e /\ r.lost = log.lost
      BY <2>4, <3>1, <3>2, StoredIs, ZenonT(60)
    <3>4. b < 128 => \E s \in Text : Ended(log.text, s) /\ r.text = Append(s, b)
      BY <2>3, <2>4, <2>5, <2>7, <3>3, Zenon
    <3>5. b >= 128 => \E s \in Text : Ended(log.text, s) /\ \E d \in 128..255 : r.text = Append(s, d)
      <4>1. SUFFICES ASSUME b >= 128 PROVE \E s \in Text : Ended(log.text, s) /\ \E d \in 128..255 : r.text = Append(s, d)
        BY Zenon
      <4>2. code \in 128..255
        BY <2>7, <2>9, <4>1, Zenon
      <4>3. r.text = Append(room.text, code) /\ Ended(log.text, room.text) /\ room.text \in Text
        BY <2>3, <2>4, <2>5, <3>3, Zenon
      <4> QED
        BY <4>2, <4>3, Zenon
    <3>6. b \in 128..191 => FALSE
      BY <2>7, <2>9, Zenon
    <3>7. b # 13 /\ c # 0
      BY <1>10, Zenon
    <3>8. b < 128 => r.last = 0
      BY <2>7, <3>3, Zenon
    <3>9. b >= 128 => ~(b < 192)
      BY <1>3, <3>6, Zenon
    <3>10. b >= 128 => \E s \in Text : Ended(log.text, s) /\ (r.text = s \/ \E d \in 128..255 : r.text = Append(s, d))
      BY <3>5, Zenon
    <3>11. Fit(r) /\ r.lost = log.lost
      BY <3>3, Zenon
    <3> QED
      BY <3>4, <3>6, <3>7, <3>8, <3>9, <3>10, <3>11, Zenon DEF ByteFed, r
  <2> QED
    BY <2>8, <2>9, Zenon
<1> QED
  BY <1>7, <1>8, <1>9, <1>10, Zenon

Ascii == 1..127

\* The logs that a character makes, byte by byte.
Writing(W, log, bytes, last) ==
    /\ W[0] = log
    /\ \A n \in 1..last : W[n] = WriteByte(W[n - 1], bytes[n])
    /\ \A n \in 0..last : Fit(W[n])

\* The log after each byte.
LEMMA WritesEquation ==
    ASSUME NEW log, Fit(log), NEW bytes \in Text, NEW last, last = Len(bytes)
    PROVE  Writing(Writes(log, bytes), log, bytes, last)
<1> DEFINE V == {x \in LogRec : Fit(x)}
           k == last
           e == log
           Go(x, n) == WriteByte(x, bytes[n])
           G == [n \in 1..k |-> [x \in V |-> Go(x, n)]]
           h(g) == [n \in 0..k |-> IF n = 0 THEN e ELSE Go(g[n - 1], n)]
           J == Writes(log, bytes)
<1>1. k \in Nat /\ e \in V
  <2>1. log \in LogRec
    BY Zenon DEF Fit
  <2>2. last \in Nat
    BY TextLen, Zenon
  <2> QED
    BY <2>1, <2>2, Zenon
<1>2. ASSUME NEW n \in 1..k, NEW x \in V
      PROVE  Go(x, n) \in V
  <2> DEFINE b == bytes[n]
             c == Lookup(x.last, b)
  <2>1. b \in Byte
    BY SeqElement DEF Text
  <2>2. Fit(x)
    BY Zenon
  <2> HIDE DEF b
  <2>3. ByteFed(x, b, c, WriteByte(x, b))
    BY <2>1, <2>2, ByteIs, Zenon
  <2> HIDE DEF c
  <2>4. Fit(WriteByte(x, b))
    BY <2>3, Zenon DEF ByteFed
  <2>5. WriteByte(x, b) \in LogRec
    BY <2>4, Zenon DEF Fit
  <2> QED
    BY <2>4, <2>5, Zenon DEF b
<1>3. J = CHOOSE g : g = h(g)
  BY DEF Writes
<1> HIDE DEF V, k, e, J, Go
<1>4. (\A n \in 1..k : n \in 0..k /\ n - 1 \in 0..k /\ n # 0) /\ 0 \in 0..k
  BY <1>1
<1>5. G \in [1..k -> [V -> V]]
  BY <1>1, <1>2, Zenon
<1>6. PICK g : Recurs(g, V, e, k, G)
  <2> HIDE DEF G
  <2> QED
    BY <1>1, <1>5, Recursion, Zenon
<1>7. ASSUME NEW n \in 1..k
      PROVE  g[n] = Go(g[n - 1], n)
  <2>1. g[n - 1] \in V /\ g[n] = G[n][g[n - 1]]
    <3> HIDE DEF G
    <3> QED
      BY <1>4, <1>6, Zenon DEF Recurs
  <2> QED
    BY <2>1, Zenon
<1> HIDE DEF G
<1>8. g = h(g)
  <2>1. \A n \in 0..k : n # 0 => n \in 1..k
    BY <1>1
  <2>2. g \in [0..k -> V] /\ g[0] = e
    BY <1>6, Zenon DEF Recurs
  <2>3. \A n \in 0..k : g[n] = IF n = 0 THEN e ELSE Go(g[n - 1], n)
    BY <1>7, <2>1, <2>2, Zenon
  <2> QED
    BY <2>2, <2>3, Zenon
<1>9. J = h(J)
  <2> HIDE DEF h
  <2> QED
    BY <1>3, <1>8, Zenon
<1>10. J[0] = e /\ \A n \in 1..k : J[n] = Go(J[n - 1], n)
  <2>1. \A n \in 0..k : h(J)[n] = IF n = 0 THEN e ELSE Go(J[n - 1], n)
    BY Zenon
  <2> HIDE DEF h
  <2> QED
    BY <1>4, <1>9, <2>1, Zenon
<1>11. \A n \in 0..k : J[n] \in V
  <2> DEFINE T == {n \in 0..k : J[n] \in V}
  <2>1. 0 \in T
    BY <1>1, <1>4, <1>10, Zenon
  <2>2. \A n \in 1..k : n - 1 \in T => n \in T
    BY <1>2, <1>4, <1>10, Zenon
  <2>3. \A n \in 0..k : n \in T
    <3> HIDE DEF T
    <3> QED
      BY <1>1, <2>1, <2>2, Upwards, Zenon
  <2> QED
    BY <2>3, Zenon
<1>12. \A n \in 0..k : Fit(J[n])
  BY <1>11, Zenon DEF V
<1> QED
  BY <1>10, <1>12, Zenon DEF k, e, J, Go, Writing

\* What is not ASCII changes nothing that is, but what the log loses of it.
LEMMA OthersFed ==
    ASSUME NEW log, Fit(log), NEW b \in 128..255, NEW c, NEW r, ByteFed(log, b, c, r)
    PROVE  Ended(Kept(log.text, Ascii), Kept(r.text, Ascii))
<1>1. log.text \in Text
  <2>1. log \in LogRec
    BY Zenon DEF Fit
  <2> QED
    BY <2>1 DEF LogRec
<1>2. b >= 128
  OBVIOUS
<1>3. PICK s \in Text : Ended(log.text, s) /\ (r.text = s \/ \E d \in 128..255 : r.text = Append(s, d))
  BY <1>2, Zenon DEF ByteFed
<1>4. Ended(Kept(log.text, Ascii), Kept(s, Ascii))
  BY <1>1, <1>3, EndedKept, Zenon
<1>5. CASE r.text = s
  BY <1>4, <1>5, Zenon
<1>6. ASSUME NEW d \in 128..255, r.text = Append(s, d)
      PROVE  Ended(Kept(log.text, Ascii), Kept(r.text, Ascii))
  <2>1. d \in Byte /\ d \notin Ascii
    BY DEF Byte, Ascii
  <2>2. Kept(Append(s, d), Ascii) = Kept(s, Ascii)
    BY <2>1, KeptOneText, Zenon
  <2> QED
    BY <1>4, <1>6, <2>2, Zenon
<1> QED
  BY <1>3, <1>5, <1>6, Zenon

\* x is the log after some bytes, the last of them b, that stand for the characters u.
Held(log, x, u, b) ==
    /\ Fit(x)
    /\ log.lost => x.lost
    /\ Ended(Kept(log.text, Ascii), Kept(x.text, Ascii))
    /\ ~x.lost /\ log.last \notin {194, 195} => x.text = log.text \o u /\ x.last = b

LEMMA FitTyped ==
    ASSUME NEW log, Fit(log)
    PROVE  /\ log.text \in Text /\ log.lines \in Nat /\ log.last \in 0..255 /\ log.lost \in BOOLEAN
           /\ Kept(log.text, Ascii) \in Text
<1>1. log \in LogRec
  BY Zenon DEF Fit
<1>2. log.text \in Text /\ log.lines \in Nat /\ log.last \in 0..255 /\ log.lost \in BOOLEAN
  BY <1>1 DEF LogRec
<1> QED
  BY <1>2, KeptText, Zenon

LEMMA FirstHeld ==
    ASSUME NEW log, Fit(log), NEW b \in 192..255, NEW r, r = WriteByte(log, b)
    PROVE  Held(log, r, <<>>, b)
<1> DEFINE c == Lookup(log.last, b)
<1>1. b \in Byte /\ b \in 128..255 /\ b >= 128 /\ b >= 192
  BY DEF Byte
<1>2. log.text \in Text /\ log.last \in 0..255
  BY FitTyped, Zenon
<1>3. Means(log.last, b, c)
  BY <1>1, <1>2, LookupIs, Zenon
<1>4. ByteFed(log, b, c, r)
  BY <1>1, ByteIs, Zenon
<1> HIDE DEF c
<1>5. Ended(Kept(log.text, Ascii), Kept(r.text, Ascii))
  BY <1>1, <1>4, OthersFed, Zenon
<1>6. Fit(r) /\ (log.lost => r.lost)
  BY <1>4, Zenon DEF ByteFed
<1>7. log.last \notin {194, 195} => r.text = log.text /\ r.last = b
  <2>1. log.last \notin {194, 195} => c = 0
    BY <1>1, <1>3, Zenon DEF Means
  <2>2. c = 0 => r.text = log.text /\ r.last = b
    BY <1>1, <1>4, Zenon DEF ByteFed
  <2> QED
    BY <2>1, <2>2, Zenon
<1>8. log.text \o <<>> = log.text
  <2>1. log.text \in Seq(Byte)
    BY <1>2, Zenon DEF Text
  <2> QED
    BY <2>1, EmptyFirst, Zenon
<1> QED
  BY <1>5, <1>6, <1>7, <1>8, ZenonT(60) DEF Held

LEMMA GoesOn ==
    ASSUME NEW b \in 128..191
    PROVE  b \in Byte /\ b \in 128..255 /\ b >= 128 /\ b < 192
BY DEF Byte

LEMMA NullIsNone ==
    ASSUME NEW c \in 0..255
    PROVE  (c \in Byte => c # 0) /\ (c \notin Byte => c = 0)
BY DEF Byte

LEMMA LastIsByte ==
    ASSUME NEW p \in 128..255
    PROVE  p \in 0..255
OBVIOUS

LEMMA TextAppend ==
    ASSUME NEW t \in Text, NEW u \in Text, NEW c \in Byte
    PROVE  t \o Append(u, c) = Append(t \o u, c)
BY ConcatAppend DEF Text

\* The same of a byte that goes on.
LEMMA NextHeld ==
    ASSUME NEW log, Fit(log), NEW x, NEW u \in Text, NEW p \in 128..255, Held(log, x, u, p),
           NEW b \in 128..191, NEW c, c = Lookup(p, b),
           NEW v, v = IF c \in Byte THEN Append(u, c) ELSE u,
           NEW r, r = WriteByte(x, b)
    PROVE  Held(log, r, v, b)
<1> DEFINE d == Lookup(x.last, b)
<1>1. b \in Byte /\ b \in 128..255 /\ b >= 128 /\ b < 192 /\ p \in 0..255
  <2>1. b \in Byte /\ b \in 128..255 /\ b >= 128 /\ b < 192
    BY GoesOn
  <2>2. p \in 0..255
    BY LastIsByte
  <2> QED
    BY <2>1, <2>2, Zenon
<1>2. Fit(x)
  BY Zenon DEF Held
<1>3. log.text \in Text /\ x.text \in Text /\ Kept(log.text, Ascii) \in Text /\ Kept(x.text, Ascii) \in Text
  BY <1>2, FitTyped, Zenon
<1>4. ByteFed(x, b, d, r)
  BY <1>1, <1>2, ByteIs, Zenon
<1>5. Fit(r) /\ (x.lost => r.lost)
  BY <1>4, Zenon DEF ByteFed
<1>6. Ended(Kept(x.text, Ascii), Kept(r.text, Ascii))
  BY <1>1, <1>2, <1>4, OthersFed, Zenon
<1>7. Kept(r.text, Ascii) \in Text
  BY <1>5, FitTyped, Zenon
<1>8. Ended(Kept(log.text, Ascii), Kept(x.text, Ascii)) /\ (log.lost => x.lost)
  BY Zenon DEF Held
<1>9. Ended(Kept(log.text, Ascii), Kept(r.text, Ascii))
  BY <1>3, <1>6, <1>7, <1>8, EndedTrans, Zenon
<1>10. c \in 0..255 /\ (c \in Byte => c # 0) /\ (c \notin Byte => c = 0)
  <2>1. Means(p, b, c)
    BY <1>1, LookupIs, Zenon
  <2>2. c \in 0..255
    BY <2>1, Zenon DEF Means
  <2> QED
    BY <2>2, NullIsNone, Zenon
<1>11. ASSUME ~r.lost, log.last \notin {194, 195}
       PROVE  r.text = log.text \o v /\ r.last = b
  <2>1. ~x.lost
    BY <1>5, <1>11, Zenon
  <2>2. x.text = log.text \o u /\ x.last = p
    BY <1>11, <2>1, Zenon DEF Held
  <2>3. d = c
    BY <2>2, Zenon
  <2>4. CASE c \in Byte
    <3>1. r.text = Append(x.text, c) /\ r.last = b
      BY <1>1, <1>4, <1>10, <1>11, <2>3, <2>4, ZenonT(60) DEF ByteFed
    <3>2. v = Append(u, c)
      BY <2>4, Zenon
    <3>3. log.text \o Append(u, c) = Append(log.text \o u, c)
      BY <1>3, <2>4, TextAppend, ZenonT(60)
    <3> QED
      BY <2>2, <3>1, <3>2, <3>3, Zenon
  <2>5. CASE c \notin Byte
    <3>1. r.text = x.text /\ r.last = b
      BY <1>1, <1>4, <1>10, <2>3, <2>5, ZenonT(60) DEF ByteFed
    <3>2. v = u
      BY <2>5, Zenon
    <3> QED
      BY <2>2, <3>1, <3>2, Zenon
  <2> QED
    BY <2>4, <2>5, Zenon
<1> QED
  BY <1>5, <1>8, <1>9, <1>11, Zenon DEF Held

-----------------------------------------------------------------------------
(* Characters of several bytes *)

CharCodes(bytes) ==
    [n \in DOMAIN bytes |-> Lookup(IF n = 1 THEN 0 ELSE LastChar(bytes[n - 1]), bytes[n])]

\* A first byte, and others that go on.
Many(bytes, k) ==
    /\ bytes \in Text /\ k = Len(bytes) /\ k > 1
    /\ bytes[1] \in 192..255
    /\ \A n \in 2..k : bytes[n] \in 128..191

\* The codes in them: a byte in its turn, or nothing.
Others == {0} \union (128..255)

LEMMA OtherCode ==
    ASSUME NEW last \in 0..255, NEW b \in 128..255
    PROVE  Lookup(last, b) \in Others
<1>1. b \in Byte /\ b >= 128
  BY DEF Byte
<1>2. Means(last, b, Lookup(last, b))
  BY <1>1, LookupIs, Zenon
<1>3. Lookup(last, b) = 0 \/ Lookup(last, b) \in 128..255
  BY <1>1, <1>2, Zenon DEF Means
<1> QED
  BY <1>3, Zenon DEF Others

LEMMA FirstCode ==
    ASSUME NEW b \in 192..255
    PROVE  Lookup(0, b) = 0
<1>1. b \in Byte /\ b >= 192 /\ 0 \in 0..255 /\ 0 \notin {194, 195}
  BY DEF Byte
<1>2. Means(0, b, Lookup(0, b))
  BY <1>1, LookupIs, Zenon
<1> QED
  BY <1>1, <1>2, Zenon DEF Means

LEMMA ManyCodes ==
    ASSUME NEW bytes, NEW k, Many(bytes, k)
    PROVE  /\ k \in Nat /\ k > 1 /\ Len(CharCodes(bytes)) = k
           /\ CharCodes(bytes) \in Seq(Others)
           /\ CharCodes(bytes)[1] = 0
           /\ \A n \in 2..k : CharCodes(bytes)[n] = Lookup(bytes[n - 1], bytes[n])
           /\ \A n \in 1..k : bytes[n] \in 128..255
<1> DEFINE f == CharCodes(bytes)
           at(n) == Lookup(IF n = 1 THEN 0 ELSE LastChar(bytes[n - 1]), bytes[n])
<1>1. bytes \in Text /\ k = Len(bytes) /\ k > 1 /\ bytes[1] \in 192..255
  BY Zenon DEF Many
<1>2. \A n \in 2..k : bytes[n] \in 128..191
  BY Zenon DEF Many
<1>3. k \in Nat /\ DOMAIN bytes = 1..k
  BY <1>1 DEF Text
<1>4. \A n \in 1..k : n = 1 \/ (n \in 2..k /\ n # 1 /\ n - 1 \in 1..k)
  BY <1>3
<1>5. \A n \in 1..k : bytes[n] \in 128..255
  <2> TAKE n \in 1..k
  <2>1. CASE n = 1
    BY <1>1, <2>1
  <2>2. CASE n \in 2..k
    <3>1. bytes[n] \in 128..191
      BY <1>2, <2>2, Zenon
    <3> QED
      BY <3>1
  <2> QED
    BY <1>4, <2>1, <2>2, Zenon
<1>6. \A b \in 128..255 : LastChar(b) = b /\ b \in 0..255
  BY DEF LastChar
<1>7. f = [n \in 1..k |-> at(n)]
  BY <1>3, Zenon DEF CharCodes
<1>8. at(1) = 0
  <2>1. Lookup(0, bytes[1]) = 0
    BY <1>1, FirstCode, Zenon
  <2> QED
    BY <2>1, Zenon
<1>9. ASSUME NEW n \in 2..k
      PROVE  at(n) = Lookup(bytes[n - 1], bytes[n]) /\ at(n) \in Others
  <2>1. n # 1 /\ n - 1 \in 1..k /\ n \in 1..k
    BY <1>3
  <2> DEFINE p == bytes[n - 1]
             b == bytes[n]
  <2>2. p \in 128..255 /\ b \in 128..255
    BY <1>5, <2>1, Zenon
  <2>3. LastChar(p) = p /\ p \in 0..255
    BY <1>6, <2>2, Zenon
  <2>4. Lookup(p, b) \in Others
    BY <2>2, <2>3, OtherCode, Zenon
  <2>5. at(n) = Lookup(LastChar(p), b)
    BY <2>1, Zenon
  <2> QED
    BY <2>3, <2>4, <2>5, Zenon
<1> HIDE DEF at
<1>10. \A n \in 1..k : at(n) \in Others
  <2>1. 0 \in Others
    BY Zenon DEF Others
  <2> QED
    BY <1>4, <1>8, <1>9, <2>1, Zenon
<1>11. f \in [1..k -> Others]
  BY <1>7, <1>10, Zenon
<1>12. f \in Seq(Others) /\ Len(f) = k
  <2> HIDE DEF f
  <2> QED
    BY <1>3, <1>11
<1>13. 1 \in 1..k /\ \A n \in 2..k : n \in 1..k
  BY <1>1, <1>3
<1>14. f[1] = 0 /\ \A n \in 2..k : f[n] = Lookup(bytes[n - 1], bytes[n])
  BY <1>7, <1>8, <1>9, <1>13, Zenon
<1> QED
  BY <1>1, <1>3, <1>5, <1>12, <1>14, Zenon

LEMMA ManyHeld ==
    ASSUME NEW log, Fit(log), NEW bytes, NEW k, Many(bytes, k)
    PROVE  Held(log, Writes(log, bytes)[k], Kept(CharCodes(bytes), Byte), bytes[k])
<1> DEFINE f == CharCodes(bytes)
           K == Keeps(f, Byte)
           W == Writes(log, bytes)
           T == {n \in 0..k : n = 0 \/ (K[n] \in Text /\ Held(log, W[n], K[n], bytes[n]))}
<1>1. bytes \in Text /\ k = Len(bytes) /\ bytes[1] \in 192..255
  BY Zenon DEF Many
<1>2. \A n \in 2..k : bytes[n] \in 128..191
  BY Zenon DEF Many
<1>3. /\ k \in Nat /\ k > 1 /\ Len(f) = k /\ f \in Seq(Others) /\ f[1] = 0
      /\ \A n \in 2..k : f[n] = Lookup(bytes[n - 1], bytes[n])
      /\ \A n \in 1..k : bytes[n] \in 128..255
  BY ManyCodes
<1>4. W[0] = log /\ \A n \in 1..k : W[n] = WriteByte(W[n - 1], bytes[n])
  <2>1. Writing(W, log, bytes, k)
    BY <1>1, WritesEquation, Zenon
  <2> QED
    BY <2>1, Zenon DEF Writing
<1> HIDE DEF f, W
<1>5. K[0] = <<>> /\ \A n \in 1..k : K[n] = IF f[n] \in Byte THEN Append(K[n - 1], f[n]) ELSE K[n - 1]
  <2>1. Keeping(K, f, Byte, k, Seq(Others))
    BY <1>3, KeepsEquation, Zenon
  <2> QED
    BY <2>1, Zenon DEF Keeping
<1> HIDE DEF K
<1>6. 1 \in 1..k /\ 1 - 1 = 0 /\ 0 \in 0..k /\ (\A n \in 1..k : n = 1 \/ n \in 2..k) /\ k \in 0..k /\ k # 0
      /\ \A n \in 1..k : n \in 0..k
  BY <1>3
<1>7. 1 \in T
  <2>1. W[1] = WriteByte(log, bytes[1])
    BY <1>4, <1>6, Zenon
  <2>2. Held(log, W[1], <<>>, bytes[1])
    BY <1>1, <2>1, FirstHeld, Zenon
  <2>3. 0 \notin Byte
    BY DEF Byte
  <2>4. K[1] = <<>>
    BY <1>3, <1>5, <1>6, <2>3, Zenon
  <2>5. <<>> \in Text
    BY DEF Text
  <2> QED
    BY <1>6, <2>2, <2>4, <2>5, Zenon
<1>8. ASSUME NEW n \in 2..k, n - 1 \in T
      PROVE  n \in T
  <2> DEFINE p == bytes[n - 1]
             b == bytes[n]
             u == K[n - 1]
             v == K[n]
             x == W[n - 1]
             r == W[n]
             c == f[n]
  <2>1. n \in 1..k /\ n - 1 \in 1..k /\ n - 1 # 0
    BY <1>3
  <2>2. u \in Text /\ Held(log, x, u, p)
    BY <1>8, <2>1, Zenon
  <2>3. p \in 128..255 /\ b \in 128..191
    <3>1. bytes[n - 1] \in 128..255
      BY <1>3, <2>1, Zenon
    <3>2. bytes[n] \in 128..191
      BY <1>2
    <3> QED
      BY <3>1, <3>2
  <2>4. c = Lookup(p, b) /\ v = (IF c \in Byte THEN Append(u, c) ELSE u) /\ r = WriteByte(x, b)
    BY <1>3, <1>4, <1>5, <2>1, Zenon
  <2> HIDE DEF p, b, u, v, x, r, c
  <2>5. Held(log, r, v, b)
    BY <2>2, <2>3, <2>4, NextHeld, ZenonT(60)
  <2>6. v \in Text
    <3>1. CASE c \in Byte
      <4>1. Append(u, c) \in Text
        BY <2>2, <3>1, KeptOneText, Zenon
      <4> QED
        BY <2>4, <3>1, <4>1, Zenon
    <3>2. CASE c \notin Byte
      BY <2>2, <2>4, <3>2, Zenon
    <3> QED
      BY <3>1, <3>2, Zenon
  <2> QED
    BY <1>6, <2>1, <2>5, <2>6, Zenon DEF v, r, b
<1>9. \A n \in 0..k : n \in T
  <2>1. 0 \in T
    BY <1>6, Zenon
  <2>2. \A n \in 1..k : n - 1 \in T => n \in T
    BY <1>6, <1>7, <1>8, Zenon
  <2> HIDE DEF T
  <2> QED
    BY <1>3, <2>1, <2>2, Upwards, Zenon
<1>10. Held(log, W[k], K[k], bytes[k])
  BY <1>6, <1>9, Zenon
<1>11. Kept(f, Byte) = K[k]
  BY <1>3, Zenon DEF Kept, K
<1> QED
  BY <1>10, <1>11, Zenon DEF f, W

-----------------------------------------------------------------------------
(* A character in the log *)

\* What a character makes of the log.
CharFed(log, code, r) ==
    /\ Fit(r)
    /\ code \in 0..255
    /\ log.lost => r.lost
    /\ ~r.lost /\ log.last \notin {194, 195} =>
          /\ r.last \notin {194, 195}
          /\ code = 0 => r.text = log.text
          /\ code # 0 => \E s \in Text : Ended(log.text, s) /\ r.text = Append(s, code)
    /\ code \notin Ascii => Ended(Kept(log.text, Ascii), Kept(r.text, Ascii))
    /\ code \in Ascii => \E s \in Text : Ended(log.text, s) /\ r.text = Append(s, code)

\* A character of one byte.
LEMMA OneFed ==
    ASSUME NEW log, Fit(log), NEW b \in Ascii, NEW code, code = IF b = 13 THEN 0 ELSE b,
           NEW r, r = WriteByte(log, b)
    PROVE  CharFed(log, code, r)
<1> DEFINE c == Lookup(log.last, b)
<1>1. b \in Byte /\ b < 128 /\ ~(b >= 128) /\ b # 0 /\ b \in 0..255 /\ 0 \in 0..255 /\ 0 \notin Ascii /\ 0 \notin {194, 195}
  BY DEF Ascii, Byte
<1>2. ByteFed(log, b, c, r)
  BY <1>1, ByteIs, Zenon
<1> HIDE DEF c
<1>3. log.text \in Text /\ Kept(log.text, Ascii) \in Text
  BY FitTyped, Zenon
<1>4. Ended(Kept(log.text, Ascii), Kept(log.text, Ascii))
  BY <1>3, EndedSelf, Zenon
<1>5. CASE b = 13
  <2>1. r = log /\ code = 0
    BY <1>2, <1>5, Zenon DEF ByteFed
  <2> QED
    BY <1>1, <1>4, <2>1, ZenonT(60) DEF CharFed
<1>6. CASE b # 13
  <2>1. code = b
    BY <1>6, Zenon
  <2>2. Fit(r) /\ r.last = 0 /\ r.lost = log.lost /\ \E s \in Text : Ended(log.text, s) /\ r.text = Append(s, b)
    BY <1>1, <1>2, <1>6, Zenon DEF ByteFed
  <2>3. code \in 0..255 /\ code # 0 /\ code \in Ascii
    BY <1>1, <2>1
  <2>4. r.last \notin {194, 195}
    BY <1>1, <2>2, Zenon
  <2>5. log.lost => r.lost
    BY <2>2, Zenon
  <2>6. \E s \in Text : Ended(log.text, s) /\ r.text = Append(s, code)
    BY <2>1, <2>2, Zenon
  <2>7. ~(code \notin Ascii)
    BY <2>3, Zenon
  <2>8. Fit(r)
    BY <2>2, Zenon
  <2> HIDE <2>2
  <2> QED
    BY <2>3, <2>4, <2>5, <2>6, <2>7, <2>8, Zenon DEF CharFed
<1> QED
  BY <1>5, <1>6, Zenon

LEMMA OtherIsNot ==
    ASSUME NEW c \in Byte, c \in Others
    PROVE  c \in 0..255 /\ c \notin Ascii
BY DEF Others, Byte, Ascii

LEMMA AppendIsConcat ==
    ASSUME NEW t \in Seq(Byte), NEW c \in Byte, NEW u, u = <<c>>
    PROVE  t \o u = Append(t, c)
<1> DEFINE E == Byte
<1>1. t \in Seq(E) /\ c \in E
  OBVIOUS
<1> HIDE DEF E
<1> QED
  BY <1>1

\* A character of several bytes.
LEMMA ManyFed ==
    ASSUME NEW log, Fit(log), NEW bytes, NEW k, Many(bytes, k),
           NEW code, Kept(CharCodes(bytes), Byte) = (IF code = 0 THEN <<>> ELSE <<code>>),
           NEW r, r = Writes(log, bytes)[k]
    PROVE  CharFed(log, code, r)
<1> DEFINE f == CharCodes(bytes)
           u == Kept(f, Byte)
           p == bytes[k]
<1>1. Held(log, r, u, p)
  BY ManyHeld, Zenon
<1>2. f \in Seq(Others) /\ p \in 128..191 /\ \E n \in Byte : n \in Others
  <2>1. f \in Seq(Others) /\ k \in Nat /\ k > 1
    BY ManyCodes
  <2>2. k \in 2..k
    BY <2>1
  <2>3. p \in 128..191
    BY <2>2 DEF Many
  <2>4. 128 \in Byte /\ 128 \in Others
    BY DEF Byte, Others
  <2> QED
    BY <2>1, <2>3, <2>4, Zenon
<1>3. u = IF code = 0 THEN <<>> ELSE <<code>>
  OBVIOUS
<1> HIDE DEF f, p, u
<1>4. u \in Seq(Others) /\ u \in Seq(Byte)
  <2> DEFINE E == Others
             S == Byte
  <2>1. f \in Seq(E)
    BY <1>2, Zenon
  <2>2. PICK n \in S : n \in E
    BY <1>2, Zenon
  <2> HIDE DEF E, S
  <2>3. Kept(f, S) \in Seq(E)
    BY <2>1, <2>2, KeptAppend
  <2>4. Kept(f, S) \in Seq(S)
    BY <2>1, KeptTyped
  <2> QED
    BY <2>3, <2>4, Zenon DEF u, E, S
<1>5. code # 0 => code \in Others /\ code \in Byte
  <2>1. SUFFICES ASSUME code # 0 PROVE code \in Others /\ code \in Byte
    BY Zenon
  <2>2. u = <<code>>
    BY <1>3, <2>1, Zenon
  <2>3. 1 \in 1..Len(u) /\ u[1] = code
    BY <2>2
  <2> HIDE DEF u
  <2> QED
    BY <1>4, <2>3, SeqElement, Zenon
<1>6. code \in 0..255 /\ code \notin Ascii
  <2> HIDE DEF u
  <2>1. CASE code = 0
    BY <2>1 DEF Ascii
  <2>2. CASE code # 0
    <3>1. code \in Others /\ code \in Byte
      BY <1>5, <2>2, Zenon
    <3> QED
      BY <3>1, OtherIsNot, Zenon
  <2> QED
    BY <2>1, <2>2, Zenon
<1>7. p \notin {194, 195}
  BY <1>2
<1>8. log.text \in Text
  BY FitTyped, Zenon
<1>9. code = 0 => log.text \o u = log.text
  <2>1. log.text \in Seq(Byte)
    BY <1>8, Zenon DEF Text
  <2>2. log.text \o <<>> = log.text
    BY <2>1, EmptyFirst, Zenon
  <2> QED
    BY <1>3, <2>2, Zenon
<1>10. code # 0 => log.text \o u = Append(log.text, code)
  <2> DEFINE t == log.text
  <2>1. t \in Seq(Byte) /\ (code # 0 => u = <<code>>)
    BY <1>3, <1>8, Zenon DEF Text
  <2> HIDE DEF t
  <2>2. code # 0 => code \in Byte
    BY <1>5, Zenon
  <2> QED
    BY <2>1, <2>2, AppendIsConcat, Zenon DEF t
<1>11. Ended(log.text, log.text)
  BY <1>8, EndedSelf, Zenon
<1>12. /\ Fit(r) /\ (log.lost => r.lost)
       /\ Ended(Kept(log.text, Ascii), Kept(r.text, Ascii))
       /\ ~r.lost /\ log.last \notin {194, 195} => r.text = log.text \o u /\ r.last = p
  BY <1>1, Zenon DEF Held
<1> QED
  BY <1>6, <1>7, <1>8, <1>9, <1>10, <1>11, <1>12, ZenonT(60) DEF CharFed

LEMMA OneElement ==
    ASSUME NEW b, NEW s \in Seq(Byte), Len(s) = 1, s[1] = b
    PROVE  s = <<b>> /\ DOMAIN s = {1} /\ b \in Byte
OBVIOUS

LEMMA OneOf ==
    ASSUME NEW b, NEW c
    PROVE  /\ <<b>> # <<>> /\ (<<b>> = <<c>> => b = c) /\ Append(<<>>, b) = <<b>>
           /\ [n \in {1} |-> b] = <<b>>
<1>1. <<b>>[1] = b /\ <<c>>[1] = c
  OBVIOUS
<1>2. <<b>> = <<c>> => b = c
  <2> DEFINE s == <<b>>
             t == <<c>>
  <2>1. s[1] = b /\ t[1] = c
    BY <1>1, Zenon
  <2> HIDE DEF s, t
  <2>2. s = t => b = c
    BY <2>1, Zenon
  <2> QED
    BY <2>2, Zenon DEF s, t
<1>3. <<b>> # <<>> /\ Append(<<>>, b) = <<b>> /\ [n \in {1} |-> b] = <<b>>
  OBVIOUS
<1> QED
  BY <1>2, <1>3, Zenon

LEMMA NothingKept ==
    ASSUME NEW set
    PROVE  Kept(<<>>, set) = <<>>
<1>1. <<>> \in Seq({1}) /\ 1 \in {1}
  OBVIOUS
<1> QED
  BY <1>1, KeptAppend

LEMMA FirstByte ==
    ASSUME NEW b \in Byte, b >= 192
    PROVE  b \in 192..255
BY DEF Byte

\* An ASCII character is its own code.
LEMMA OneCode ==
    ASSUME NEW b \in Ascii
    PROVE  Utf8ascii(0, <<b>>) = <<b>>
<1> DEFINE s == <<b>>
           code(n) == Lookup(IF n = 1 THEN 0 ELSE LastChar(s[n - 1]), s[n])
           f == [n \in DOMAIN s |-> code(n)]
<1>1. b \in Byte /\ b < 128
  BY DEF Ascii, Byte
<1>2. DOMAIN s = {1} /\ s[1] = b
  BY <1>1
<1>3. code(1) = b
  <2>1. Lookup(0, b) = b
    BY <1>1 DEF Lookup
  <2> HIDE DEF s
  <2> QED
    BY <1>2, <2>1, Zenon
<1>4. f = [n \in {1} |-> b]
  <2> HIDE DEF s, code
  <2>1. \A n \in {1} : code(n) = b
    BY <1>3, Zenon
  <2> QED
    BY <1>2, <2>1, Zenon
<1>5. f = <<b>>
  <2> HIDE DEF f
  <2> QED
    BY <1>4, OneOf
<1>6. Kept(<<b>>, Byte) = <<b>>
  <2> DEFINE e == <<>>
  <2>1. e \in Text /\ Append(e, b) = <<b>> /\ e \in Seq(Byte)
    BY DEF Text
  <2>2. Kept(e, Byte) = e
    BY NothingKept, Zenon
  <2> HIDE DEF e
  <2>3. Kept(Append(e, b), Byte) = Append(Kept(e, Byte), b)
    BY <1>1, <2>1, KeptOneText, Zenon
  <2> QED
    BY <2>1, <2>2, <2>3, Zenon
<1>7. Utf8ascii(0, s) = Kept(f, Byte)
  BY DEF Utf8ascii, Byte
<1> QED
  BY <1>5, <1>6, <1>7, Zenon

LEMMA CharIs ==
    ASSUME NEW u \in DOMAIN Utf8, NEW log, Fit(log),
           NEW bytes, bytes = Utf8[u].bytes, NEW code, code = Utf8[u].code,
           NEW r, r = Writes(log, bytes)[Len(bytes)]
    PROVE  CharFed(log, code, r)
<1> DEFINE k == Len(bytes)
<1>1. /\ bytes \in Seq(Byte)
      /\ \/ k = 1 /\ bytes[1] < 128
         \/ k > 1 /\ bytes[1] >= 192 /\ \A n \in 2..k : bytes[n] \in 128..191
      /\ IF bytes = <<13>> THEN code = 0
         ELSE Utf8ascii(0, bytes) = IF code = 0 THEN <<>> ELSE <<code>>
  <2> DEFINE Right(s, c) ==
               /\ s \in Seq(1..255)
               /\ \/ Len(s) = 1 /\ s[1] < 128
                  \/ Len(s) > 1 /\ s[1] >= 192 /\ \A n \in 2..Len(s) : s[n] \in 128..191
               /\ IF s = <<13>> THEN c = 0
                  ELSE Utf8ascii(0, s) = IF c = 0 THEN <<>> ELSE <<c>>
  <2>1. \A v \in DOMAIN Utf8 : Right(Utf8[v].bytes, Utf8[v].code)
    BY Utf8Assumption, Zenon
  <2> HIDE DEF Right
  <2>2. Right(bytes, code)
    BY <2>1, Zenon
  <2> QED
    BY <2>2, Zenon DEF Right, Byte
<1>2. bytes \in Text
  BY <1>1, Zenon DEF Text
<1>3. CASE k = 1 /\ bytes[1] < 128
  <2> DEFINE b == bytes[1]
  <2>1. bytes = <<b>> /\ b \in Byte /\ b < 128
    <3>1. Len(bytes) = 1
      BY <1>3, Zenon
    <3>2. bytes = <<b>> /\ b \in Byte
      BY <1>1, <3>1, OneElement
    <3> QED
      BY <1>3, <3>2, Zenon
  <2>2. Writing(Writes(log, bytes), log, bytes, 1)
    <3>1. 1 = Len(bytes)
      BY <1>3, Zenon
    <3> QED
      BY <1>2, <3>1, WritesEquation, Zenon
  <2> HIDE DEF b
  <2>3. b \in Ascii /\ 1 \in 1..1 /\ 1 - 1 = 0
    BY <2>1 DEF Ascii, Byte
  <2>4. r = WriteByte(log, b)
    <3>1. Writes(log, bytes)[1] = WriteByte(Writes(log, bytes)[1 - 1], bytes[1])
      BY <2>2, <2>3, Zenon DEF Writing
    <3>2. Writes(log, bytes)[0] = log
      BY <2>2, Zenon DEF Writing
    <3> QED
      BY <1>3, <2>3, <3>1, <3>2, Zenon DEF b
  <2>5. code = IF b = 13 THEN 0 ELSE b
    <3>1. CASE b = 13
      BY <1>1, <2>1, <3>1, Zenon
    <3>2. CASE b # 13
      <4>1. bytes # <<13>>
        BY <2>1, <3>2, OneOf, Zenon
      <4>2. Utf8ascii(0, bytes) = <<b>>
        BY <2>1, <2>3, OneCode, Zenon
      <4>3. (IF code = 0 THEN <<>> ELSE <<code>>) = <<b>>
        BY <1>1, <4>1, <4>2, Zenon
      <4>4. code # 0
        BY <4>3, OneOf, Zenon
      <4>5. <<b>> = <<code>>
        BY <4>3, <4>4, Zenon
      <4>6. b = code
        BY <4>5, OneOf, Zenon
      <4> QED
        BY <3>2, <4>6, Zenon
    <3> QED
      BY <3>1, <3>2, Zenon
  <2> QED
    BY <2>3, <2>4, <2>5, OneFed, Zenon
<1>4. CASE k > 1 /\ bytes[1] >= 192 /\ \A n \in 2..k : bytes[n] \in 128..191
  <2>1. bytes[1] \in 192..255
    <3>1. k \in Nat /\ 1 \in 1..Len(bytes)
      BY <1>1, <1>4
    <3>2. bytes[1] \in Byte
      BY <1>1, <3>1, SeqElement
    <3> QED
      <4> DEFINE b == bytes[1]
      <4>1. b \in Byte /\ b >= 192
        BY <1>4, <3>2, Zenon
      <4> HIDE DEF b
      <4>2. b \in 192..255
        BY <4>1, FirstByte
      <4> QED
        BY <4>2, Zenon DEF b
  <2>2. Many(bytes, k)
    BY <1>2, <1>4, <2>1, Zenon DEF Many
  <2>3. bytes # <<13>>
    BY <1>4
  <2>4. Utf8ascii(0, bytes) = Kept(CharCodes(bytes), Byte)
    BY Zenon DEF Utf8ascii, CharCodes, Byte
  <2>5. Kept(CharCodes(bytes), Byte) = IF code = 0 THEN <<>> ELSE <<code>>
    BY <1>1, <2>3, <2>4, Zenon
  <2>6. r = Writes(log, bytes)[k]
    BY Zenon
  <2> HIDE DEF k
  <2> QED
    BY <2>2, <2>5, <2>6, ManyFed, Zenon
<1> QED
  BY <1>1, <1>3, <1>4, Zenon

-----------------------------------------------------------------------------
(* The log and what was written *)

LEMMA LongerThanNone ==
    ASSUME NEW S, NEW s \in Seq(S), NEW c \in S
    PROVE  Append(s, c) # <<>>
<1>1. Len(Append(s, c)) = Len(s) + 1 /\ Len(s) \in Nat /\ Len(<<>>) = 0
  OBVIOUS
<1> DEFINE k == Len(s)
           t == Append(s, c)
<1> HIDE DEF k, t
<1>2. Len(t) # 0
  BY <1>1 DEF k, t
<1> QED
  BY <1>1, <1>2, Zenon DEF t

LEMMA AsciiAppend ==
    ASSUME NEW w \in Text, NEW s \in Text, NEW c \in Ascii,
           Ended(Kept(w, Ascii), Kept(s, Ascii))
    PROVE  Ended(Kept(Append(w, c), Ascii), Kept(Append(s, c), Ascii))
<1>1. c \in Byte
  BY DEF Ascii, Byte
<1>2. Kept(Append(w, c), Ascii) = Append(Kept(w, Ascii), c)
  BY <1>1, KeptOneText, ZenonT(60)
<1>3. Kept(Append(s, c), Ascii) = Append(Kept(s, Ascii), c)
  BY <1>1, KeptOneText, Zenon
<1>4. Kept(w, Ascii) \in Text /\ Kept(s, Ascii) \in Text
  BY KeptText, Zenon
<1> QED
  BY <1>1, <1>2, <1>3, <1>4, EndedAppend, Zenon

\* The same of a log that was given a character.
Newest(w, log) ==
    /\ Ended(Kept(w, Ascii), Kept(log.text, Ascii))
    /\ ~log.lost => /\ log.last \notin {194, 195}
                    /\ Ended(w, log.text)
                    /\ w # <<>> => log.text # <<>>

LEMMA NewestOn ==
    ASSUME NEW log, Fit(log), NEW w \in Text, Newest(w, log),
           NEW code, NEW r, CharFed(log, code, r),
           NEW v, v = IF code = 0 THEN w ELSE Append(w, code)
    PROVE  Newest(v, r) /\ v \in Text /\ Fit(r)
<1>1. log.text \in Text /\ Kept(log.text, Ascii) \in Text /\ log.lost \in BOOLEAN
  BY FitTyped, Zenon
<1>2. Fit(r) /\ code \in 0..255 /\ (log.lost => r.lost)
  BY Zenon DEF CharFed
<1>3. r.text \in Text /\ Kept(r.text, Ascii) \in Text
  BY <1>2, FitTyped, Zenon
<1>4. Kept(w, Ascii) \in Text
  BY KeptText, Zenon
<1>5. code # 0 => code \in Byte
  BY <1>2 DEF Byte
<1>6. code \in Ascii => code # 0
  BY DEF Ascii
<1>7. v \in Text
  <2>1. code # 0 => Append(w, code) \in Text
    BY <1>5, KeptOneText, Zenon
  <2> QED
    BY <2>1, Zenon
<1>8. Ended(Kept(w, Ascii), Kept(log.text, Ascii))
  BY Zenon DEF Newest
<1>9. Ended(Kept(v, Ascii), Kept(r.text, Ascii))
  <2>1. CASE code \in Ascii
    <3>1. PICK s \in Text : Ended(log.text, s) /\ r.text = Append(s, code)
      BY <2>1, Zenon DEF CharFed
    <3>2. Ended(Kept(log.text, Ascii), Kept(s, Ascii)) /\ Kept(s, Ascii) \in Text
      BY <1>1, <3>1, EndedKept, KeptText, Zenon
    <3>3. Ended(Kept(w, Ascii), Kept(s, Ascii))
      BY <1>1, <1>4, <1>8, <3>2, EndedTrans, Zenon
    <3>4. Ended(Kept(Append(w, code), Ascii), Kept(Append(s, code), Ascii))
      BY <2>1, <3>3, AsciiAppend, Zenon
    <3> QED
      BY <1>6, <2>1, <3>1, <3>4, Zenon
  <2>2. CASE code \notin Ascii
    <3>1. Ended(Kept(log.text, Ascii), Kept(r.text, Ascii))
      BY <2>2, Zenon DEF CharFed
    <3>2. Ended(Kept(w, Ascii), Kept(r.text, Ascii))
      BY <1>1, <1>3, <1>4, <1>8, <3>1, EndedTrans, Zenon
    <3>3. Kept(v, Ascii) = Kept(w, Ascii)
      <4>1. code # 0 => Kept(Append(w, code), Ascii) = Kept(w, Ascii)
        BY <1>5, <2>2, KeptOneText, Zenon
      <4> QED
        BY <4>1, Zenon
    <3> QED
      BY <3>2, <3>3, Zenon
  <2> QED
    BY <2>1, <2>2, Zenon
<1>10. ASSUME ~r.lost
       PROVE  r.last \notin {194, 195} /\ Ended(v, r.text) /\ (v # <<>> => r.text # <<>>)
  <2>1. ~log.lost
    BY <1>2, <1>10, Zenon
  <2>2. log.last \notin {194, 195} /\ Ended(w, log.text) /\ (w # <<>> => log.text # <<>>)
    BY <2>1, Zenon DEF Newest
  <2>3. /\ r.last \notin {194, 195}
        /\ code = 0 => r.text = log.text
        /\ code # 0 => \E s \in Text : Ended(log.text, s) /\ r.text = Append(s, code)
    BY <1>10, <2>2, Zenon DEF CharFed
  <2>4. CASE code = 0
    <3>1. v = w /\ r.text = log.text
      BY <2>3, <2>4, Zenon
    <3> QED
      BY <2>2, <2>3, <3>1, ZenonT(60)
  <2>5. CASE code # 0
    <3>1. PICK s \in Text : Ended(log.text, s) /\ r.text = Append(s, code)
      BY <2>3, <2>5, Zenon
    <3>2. Ended(w, s)
      BY <1>1, <2>2, <3>1, EndedTrans, ZenonT(60)
    <3>3. Ended(Append(w, code), Append(s, code))
      BY <1>5, <2>5, <3>2, EndedAppend, Zenon
    <3>4. Append(s, code) # <<>>
      <4> DEFINE t == s
      <4>1. t \in Seq(Byte) /\ code \in Byte
        BY <1>5, <2>5, Zenon DEF Text
      <4> QED
        BY <4>1, LongerThanNone, Zenon
    <3> QED
      BY <2>3, <2>5, <3>1, <3>3, <3>4, Zenon
  <2> QED
    BY <2>4, <2>5, Zenon
<1> QED
  BY <1>2, <1>7, <1>9, <1>10, Zenon DEF Newest

LEMMA NewestOfNone ==
    ASSUME NEW log, log.text = <<>>, ~log.lost => log.last \notin {194, 195}
    PROVE  Newest(<<>>, log) /\ <<>> \in Text
<1>1. <<>> \in Text
  BY DEF Text
<1>2. Ended(<<>>, <<>>)
  BY <1>1, EndedSelf, Zenon
<1>3. Kept(<<>>, Ascii) = <<>>
  BY NothingKept, Zenon
<1> QED
  BY <1>1, <1>2, <1>3, ZenonT(60) DEF Newest

LEMMA FitOfNone ==
    ASSUME NEW l \in 0..255, NEW b \in BOOLEAN, NEW log,
           log = [text |-> <<>>, lines |-> 0, last |-> l, lost |-> b]
    PROVE  Fit(log)
<1>1. Breaks(<<>>) = 0
  <2>1. Len(<<>>) = 0
    OBVIOUS
  <2> QED
    BY <2>1, NothingKept, Zenon DEF Breaks
<1>2. log \in LogRec /\ log.text = <<>> /\ log.lines = 0
  BY DEF LogRec, Text
<1>3. 0 \in 0..LogSize /\ 0 \in 0..MaxLogLines /\ 0 \in 0..0 /\ Len(<<>>) = 0
  BY LogAssumption
<1> QED
  BY <1>1, <1>2, <1>3, Zenon DEF Fit

\* The log as write() sees it, and what is given to write() is kept in it: the
\* invariant that makes the log recent.
Log == [text |-> logBuffer, lines |-> logBufferLine, last |-> LASTCHAR, lost |-> lost]
LogInv ==
    /\ Fit(Log)
    /\ written \in Text
    /\ Newest(written, Log)
    /\ logBufferSize \in {0, LogSize}
    /\ Len(logBuffer) <= logBufferSize

LEMMA LogParts ==
    Log.text = logBuffer /\ Log.lines = logBufferLine /\ Log.last = LASTCHAR /\ Log.lost = lost
BY DEF Log

LEMMA LogPartsPrime ==
    Log'.text = logBuffer' /\ Log'.lines = logBufferLine' /\ Log'.last = LASTCHAR' /\ Log'.lost = lost'
BY DEF Log

LEMMA LogEmptied ==
    ASSUME LogInv, NEW size \in {0, LogSize}, EmptyLog(size)
    PROVE  LogInv'
<1>1. LASTCHAR \in 0..255
  <2>1. Log.last \in 0..255
    BY FitTyped, Zenon DEF LogInv
  <2> QED
    BY <2>1, LogParts, Zenon
<1>2. /\ logBufferSize' = size /\ logBuffer' = <<>> /\ logBufferLine' = 0 /\ written' = <<>>
      /\ lost' = (LASTCHAR \in {194, 195}) /\ LASTCHAR' = LASTCHAR
  BY Zenon DEF EmptyLog
<1>3. lost' \in BOOLEAN
  BY <1>2
<1>4. Log' = [text |-> <<>>, lines |-> 0, last |-> LASTCHAR, lost |-> lost']
  BY <1>2, Zenon DEF Log
<1> DEFINE log == Log'
           b == lost'
<1>5. log.text = <<>> /\ log.last = LASTCHAR /\ log.lost = b
  BY <1>2, LogPartsPrime, Zenon
<1> HIDE DEF log, b
<1>6. Fit(log)
  BY <1>1, <1>3, <1>4, FitOfNone, Zenon DEF log, b
<1>7. Newest(<<>>, log) /\ <<>> \in Text
  <2>1. ~b => LASTCHAR \notin {194, 195}
    BY <1>2 DEF b
  <2>2. ~log.lost => log.last \notin {194, 195}
    BY <1>5, <2>1, Zenon
  <2> QED
    BY <1>5, <2>2, NewestOfNone, Zenon
<1>8. Len(<<>>) <= size
  BY LogAssumption
<1> QED
  BY <1>2, <1>6, <1>7, <1>8, Zenon DEF LogInv, log

LEMMA LogWritten ==
    ASSUME LogInv, NEW u \in DOMAIN Utf8, Write(u)
    PROVE  LogInv'
<1> DEFINE bytes == Utf8[u].bytes
           code == Utf8[u].code
           k == Len(bytes)
           r == Writes(Log, bytes)[k]
<1>1. Fit(Log) /\ written \in Text /\ Newest(written, Log)
  BY Zenon DEF LogInv
<1>2. CharFed(Log, code, r)
  BY <1>1, CharIs, Zenon
<1>3. /\ logBufferSize > 0
      /\ logBuffer' = r.text /\ logBufferLine' = r.lines /\ LASTCHAR' = r.last /\ lost' = r.lost
      /\ written' = (IF code = 0 THEN written ELSE Append(written, code))
      /\ logBufferSize' = logBufferSize
  BY Zenon DEF Write, Log
<1> HIDE DEF r, code, bytes, k
<1>4. Newest(written', r) /\ written' \in Text /\ Fit(r)
  BY <1>1, <1>2, <1>3, NewestOn, Zenon
<1>5. Log' = r
  <2>1. r \in LogRec
    BY <1>4, Zenon DEF Fit
  <2>2. r = [text |-> r.text, lines |-> r.lines, last |-> r.last, lost |-> r.lost]
    BY <2>1 DEF LogRec
  <2> QED
    BY <1>3, <2>2, Zenon DEF Log
<1>6. logBufferSize' \in {0, LogSize} /\ Len(logBuffer') <= logBufferSize'
  <2>1. Len(r.text) \in 0..LogSize
    BY <1>4, Zenon DEF Fit
  <2>2. logBufferSize = LogSize
    <3>1. logBufferSize \in {0, LogSize}
      BY Zenon DEF LogInv
    <3> QED
      BY <1>3, <3>1
  <2>3. Len(r.text) <= LogSize
    BY <2>1
  <2> QED
    BY <1>3, <2>2, <2>3, Zenon
<1> QED
  BY <1>4, <1>5, <1>6, Zenon DEF LogInv

\* Text that is drawn has the last word about the byte before.
LEMMA LogDrawnOver ==
    ASSUME LogInv, NEW l \in 0..255, l \notin {194, 195}, LASTCHAR' = l,
           UNCHANGED <<logBuffer, logBufferSize, logBufferLine, written, lost>>
    PROVE  LogInv'
<1>1. Fit(Log) /\ written \in Text /\ Newest(written, Log)
  BY Zenon DEF LogInv
<1>2. /\ logBuffer' = logBuffer /\ logBufferSize' = logBufferSize /\ logBufferLine' = logBufferLine
      /\ written' = written /\ lost' = lost
  OBVIOUS
<1> DEFINE log == Log
           r == Log'
<1>3. r = [log EXCEPT !.last = l]
  BY <1>2 DEF Log
<1> HIDE DEF log, r
<1>4. Relasted(log, l, r)
  BY <1>1, <1>3, RelastIs, Zenon DEF log
<1>5. Fit(r) /\ r.text = log.text /\ r.last = l /\ r.lost = log.lost
  BY <1>4, Zenon DEF Relasted
<1>6. Newest(written, r)
  BY <1>1, <1>5, ZenonT(60) DEF Newest, log
<1>7. /\ logBufferSize \in {0, LogSize}
      /\ Len(logBuffer) <= logBufferSize
  BY Zenon DEF LogInv
<1>8. logBufferSize' \in {0, LogSize} /\ Len(logBuffer') <= logBufferSize'
  BY <1>2, <1>7, Zenon
<1>9. written' \in Text /\ Newest(written', r) /\ Fit(r)
  BY <1>1, <1>2, <1>5, <1>6, ZenonT(60)
<1> QED
  BY <1>8, <1>9, Zenon DEF LogInv, r

LEMMA LogStep ==
    ASSUME LogInv, [DisplayNext]_displayVars
    PROVE  LogInv'
<1>1. ASSUME UNCHANGED logVars
      PROVE  LogInv'
  BY <1>1 DEF LogInv, logVars, Log
<1>2. ASSUME NEW s \in Shapes, NEW color \in Colors, Draw(s, color)
      PROVE  LogInv'
  <2>1. CASE s.op \in {"string", "maxwidth"}
    <3> DEFINE l == LastChar(Last(s.text))
               n == Len(s.text)
               b == s.text[n]
    <3>1. LASTCHAR' = l /\ UNCHANGED <<logBuffer, logBufferSize, logBufferLine, written, lost>>
      BY <1>2, <2>1, Zenon DEF Draw
    <3>2. s.text \in Seq(1..255) \ {<<>>} /\ b \notin {194, 195}
      BY <2>1, ShapesAssumption, ZenonT(60)
    <3>3. l = LastChar(b)
      BY Zenon DEF Last
    <3>4. b \in 1..255
      <4>1. n \in 1..n
        BY <3>2
      <4>2. s.text \in Seq(1..255)
        BY <3>2, Zenon
      <4> QED
        BY <4>1, <4>2, SeqElement, Zenon
    <3> HIDE DEF b, l, n
    <3>5. l \in 0..255 /\ l \notin {194, 195}
      BY <3>2, <3>3, <3>4 DEF LastChar
    <3> QED
      BY <3>1, <3>5, LogDrawnOver, Zenon
  <2>2. CASE s.op \notin {"string", "maxwidth"}
    <3>1. LASTCHAR' = LASTCHAR /\ UNCHANGED <<logBuffer, logBufferSize, logBufferLine, written, lost>>
      BY <1>2, <2>2, Zenon DEF Draw
    <3>2. UNCHANGED logVars
      BY <3>1 DEF logVars
    <3> QED
      BY <1>1, <3>2, Zenon
  <2> QED
    BY <2>1, <2>2, Zenon
<1>3. CASE Clear
  BY <1>1, <1>3, Zenon DEF Clear
<1>4. CASE PanelNext
  <2>1. UNCHANGED logVars
    BY <1>4 DEF PanelNext, display, DisplayFails, PanelRestarts, ResetDisplay
  <2> QED
    BY <1>1, <2>1, Zenon
<1>5. CASE LogNext
  <2>1. CASE init
    <3>1. EmptyLog(0) /\ 0 \in {0, LogSize}
      BY <2>1, Zenon DEF init
    <3> QED
      BY <3>1, LogEmptied, Zenon
  <2>2. CASE SetLogBuffer
    <3>1. EmptyLog(LogSize) /\ LogSize \in {0, LogSize}
      BY <2>2, Zenon DEF SetLogBuffer
    <3> QED
      BY <3>1, LogEmptied, Zenon
  <2>3. ASSUME NEW u \in DOMAIN Utf8, Write(u)
        PROVE  LogInv'
    BY <2>3, LogWritten, Zenon
  <2> QED
    BY <1>5, <2>1, <2>2, <2>3, Zenon DEF LogNext
<1>6. CASE UNCHANGED displayVars
  <2>1. UNCHANGED logVars
    BY <1>6 DEF displayVars
  <2> QED
    BY <1>1, <2>1, Zenon
<1> QED
  BY <1>2, <1>3, <1>4, <1>5, <1>6, Zenon DEF DisplayNext

LEMMA LogStarts == DisplayInit => LogInv
<1> SUFFICES ASSUME DisplayInit PROVE LogInv
  OBVIOUS
<1>1. /\ LASTCHAR = 0 /\ logBuffer = <<>> /\ logBufferSize = 0 /\ logBufferLine = 0
      /\ written = <<>> /\ lost = FALSE
  BY Zenon DEF DisplayInit
<1> DEFINE log == Log
<1>2. log = [text |-> <<>>, lines |-> 0, last |-> 0, lost |-> FALSE]
  BY <1>1, Zenon DEF Log
<1>3. log.text = <<>> /\ log.last = 0 /\ log.lost = FALSE
  BY <1>1, LogParts, Zenon
<1>4. 0 \in 0..255 /\ FALSE \in BOOLEAN /\ 0 \notin {194, 195}
  OBVIOUS
<1> HIDE DEF log
<1>5. Fit(log)
  BY <1>2, <1>4, FitOfNone, Zenon
<1>6. Newest(<<>>, log) /\ <<>> \in Text
  <2>1. ~log.lost => log.last \notin {194, 195}
    BY <1>3, <1>4, Zenon
  <2> QED
    BY <1>3, <2>1, NewestOfNone, ZenonT(60)
<1>7. Len(<<>>) <= 0
  OBVIOUS
<1> QED
  BY <1>1, <1>5, <1>6, <1>7, Zenon DEF LogInv, log

\* The invariant makes the log recent.
LEMMA LogInvIsRecent ==
    ASSUME LogInv
    PROVE  LogIsRecent
<1> DEFINE t == logBuffer
           w == written
<1>1. Fit(Log) /\ w \in Text /\ Newest(w, Log)
  BY Zenon DEF LogInv
<1>2. t \in Text /\ lost \in BOOLEAN
  BY <1>1, FitTyped, LogParts, Zenon
<1>3. Ended(Kept(w, Ascii), Kept(t, Ascii))
  BY <1>1, LogParts, Zenon DEF Newest
<1>4. ~lost => Ended(w, t) /\ (w # <<>> => t # <<>>)
  BY <1>1, LogParts, Zenon DEF Newest
<1>5. Kept(w, Ascii) \in Text /\ Kept(t, Ascii) \in Text
  BY <1>1, <1>2, KeptText, Zenon
<1>6. IsSuffix(Kept(t, Ascii), Kept(w, Ascii))
  BY <1>3, <1>5, EndedIsSuffix, Zenon
<1>7. ~lost => IsSuffix(t, w)
  BY <1>1, <1>2, <1>4, EndedIsSuffix, Zenon
<1>8. Len(Kept(t, {Newline})) <= MaxLogLines
  <2>1. Breaks(t) \in 0..logBufferLine /\ logBufferLine \in 0..MaxLogLines
    BY <1>1, LogParts, Zenon DEF Fit
  <2>2. Breaks(t) <= MaxLogLines
    <3> DEFINE b == Breaks(t)
    <3> HIDE DEF b
    <3>1. b \in 0..logBufferLine /\ logBufferLine \in 0..MaxLogLines /\ MaxLogLines \in Nat \ {0}
      BY <2>1, LogAssumption, Zenon DEF b
    <3>2. b <= MaxLogLines
      BY <3>1
    <3> QED
      BY <3>2, Zenon DEF b
  <2> QED
    BY <2>2, Zenon DEF Breaks
<1> QED
  BY <1>4, <1>6, <1>7, <1>8, Zenon DEF LogIsRecent, Ascii

-----------------------------------------------------------------------------
(* The types *)

PanelTyped ==
    /\ panel \subseteq Screen /\ buffer_back \subseteq Screen
    /\ synced \in BOOLEAN /\ ready \in BOOLEAN /\ clean \in BOOLEAN

LEMMA PanelTypedStep ==
    ASSUME PanelTyped, ShapeInv, [DisplayNext]_displayVars
    PROVE  PanelTyped'
<1>0. buffer \subseteq Screen
  BY Zenon DEF ShapeInv
<1>1. ASSUME panel' = panel, buffer_back' = buffer_back, synced' \in BOOLEAN,
             ready' = ready, clean' = clean
      PROVE  PanelTyped'
  BY <1>1, Zenon DEF PanelTyped
<1>2. ASSUME NEW s \in Shapes, NEW color \in Colors, Draw(s, color)
      PROVE  PanelTyped'
  <2>1. UNCHANGED panelVars /\ synced' = FALSE
    BY <1>2, Zenon DEF Draw
  <2> QED
    BY <1>1, <2>1 DEF panelVars
<1>3. CASE Clear
  <2>1. UNCHANGED panelVars /\ synced' = FALSE
    BY <1>3, Zenon DEF Clear
  <2> QED
    BY <1>1, <2>1 DEF panelVars
<1>4. CASE display
  <2>1. /\ buffer_back' = buffer /\ synced' = TRUE /\ ready' = ready /\ clean' = clean
        /\ panel' = Sent(Box)
    BY <1>4, Zenon DEF display
  <2> DEFINE box == Box
  <2> HIDE DEF box
  <2>2. panel' = (panel \ box) \union (buffer \intersect box) \/ panel' = panel
    BY <2>1, Zenon DEF box, Sent
  <2>3. panel' \subseteq Screen
    BY <1>0, <2>2, Zenon DEF PanelTyped
  <2> QED
    BY <1>0, <2>1, <2>3, Zenon DEF PanelTyped
<1>5. CASE DisplayFails
  <2>1. buffer_back' = buffer /\ synced' = TRUE /\ ready' = ready /\ clean' = FALSE
    BY <1>5 DEF DisplayFails
  <2>3. panel' \subseteq Screen
    BY <1>5 DEF DisplayFails
  <2> QED
    BY <1>0, <2>1, <2>3, Zenon DEF PanelTyped
<1>6. CASE PanelRestarts
  <2>1. /\ panel' = {} /\ ready' = FALSE /\ clean' = FALSE
        /\ buffer_back' = buffer_back /\ synced' = synced
    BY <1>6 DEF PanelRestarts, bufferVars
  <2> QED
    BY <2>1, Zenon DEF PanelTyped
<1>7. ASSUME NEW on \in BOOLEAN, BlankPanel(on)
      PROVE  PanelTyped'
  BY <1>7, Zenon DEF BlankPanel, PanelTyped
<1>8. ASSUME UNCHANGED <<panelVars, bufferVars>>
      PROVE  PanelTyped'
  <2>1. /\ panel' = panel /\ buffer_back' = buffer_back /\ synced' = synced
        /\ ready' = ready /\ clean' = clean
    BY <1>8 DEF panelVars, bufferVars
  <2>2. synced' \in BOOLEAN
    BY <2>1, Zenon DEF PanelTyped
  <2> QED
    BY <1>1, <2>1, <2>2, Zenon
<1>9. CASE ResetDisplay
  BY <1>7, <1>9, Zenon DEF ResetDisplay, PanelTyped
<1>10. CASE LogNext
  <2>1. CASE init
    <3>1. TRUE \in BOOLEAN
      OBVIOUS
    <3> QED
      BY <1>7, <2>1, <3>1, Zenon DEF init
  <2>2. CASE SetLogBuffer
    BY <1>8, <2>2, Zenon DEF SetLogBuffer
  <2>3. ASSUME NEW u \in DOMAIN Utf8, Write(u)
        PROVE  PanelTyped'
    <3>1. UNCHANGED <<panelVars, bufferVars>>
      BY <2>3 DEF Write
    <3> QED
      BY <1>8, <3>1, Zenon
  <2> QED
    BY <1>10, <2>1, <2>2, <2>3, Zenon DEF LogNext
<1>11. CASE UNCHANGED displayVars
  <2>1. UNCHANGED <<panelVars, bufferVars>>
    BY <1>11 DEF displayVars
  <2> QED
    BY <1>8, <2>1, Zenon
<1> QED
  BY <1>2, <1>3, <1>4, <1>5, <1>6, <1>9, <1>10, <1>11, Zenon DEF DisplayNext, PanelNext

LEMMA DisplayTyped ==
    ASSUME PanelTyped, ShapeInv, LogInv
    PROVE  DisplayTypeOK
<1>1. /\ Fit(Log) /\ written \in Text
      /\ logBufferSize \in {0, LogSize} /\ Len(logBuffer) <= logBufferSize
  BY Zenon DEF LogInv
<1>2. logBuffer \in Text /\ LASTCHAR \in 0..255 /\ lost \in BOOLEAN
  <2>1. Log.text \in Text /\ Log.last \in 0..255 /\ Log.lost \in BOOLEAN
    BY <1>1, FitTyped, Zenon
  <2> QED
    BY <2>1, LogParts, Zenon
<1>3. logBufferLine \in 0..MaxLogLines
  BY <1>1, LogParts, Zenon DEF Fit
<1>4. shape.color \in Colors
  <2>1. NoShape.color \in Colors
    BY DEF NoShape, Colors
  <2> QED
    BY <2>1, Zenon DEF ShapeInv, DrawnLast
<1> QED
  BY <1>1, <1>2, <1>3, <1>4, Zenon DEF DisplayTypeOK, PanelTyped, ShapeInv, Text, Byte

-----------------------------------------------------------------------------
(* The lines of the log *)

SplitStates == [lines : Seq(Text), from : Nat, length : Nat]

LEMMA SplitRecord ==
    ASSUME NEW V, NEW a \in V, NEW b \in Nat, NEW c \in Nat,
           NEW r, r = [lines |-> a, from |-> b, length |-> c]
    PROVE  r \in [lines : V, from : Nat, length : Nat] /\ r.lines = a /\ r.from = b /\ r.length = c
OBVIOUS

\* What drawLogBuffer() makes of a character.
SplitNext(t, s, n) ==
    IF t[n] = Newline
    THEN [lines |-> Append(s.lines, SubSeq(t, s.from, s.from + s.length)), from |-> n, length |-> 0]
    ELSE [s EXCEPT !.length = @ + 1]

\* Of the first characters, the lines so far have all that the font has, up to their
\* newline; they are as many as there are newlines.
SplitPlace(t, lines, from, length, n) ==
    \/ lines = <<>> /\ from = 1 /\ length = n
    \/ /\ lines # <<>> /\ from \in 1..n /\ t[from] = Newline /\ length = n - from
       /\ \A j \in from + 1..n : t[j] # Newline
SplitIs(t, s, n) ==
    /\ s \in SplitStates
    /\ Len(s.lines) = Breaks(Seg(t, 0, n))
    /\ SplitPlace(t, s.lines, s.from, s.length, n)
    /\ s.lines # <<>> => Printable(Joined(s.lines)) = Printable(Seg(t, 0, s.from))

LEMMA PrintableTwo ==
    ASSUME NEW s \in Text, NEW t \in Text
    PROVE  Printable(s \o t) = Printable(s) \o Printable(t)
<1>1. KeptApart(s, t, FirstChar..255)
  BY KeptApartIs, Zenon
<1> QED
  BY <1>1, Zenon DEF KeptApart, Printable

LEMMA NewlineIs ==
    Newline \in Byte /\ Newline \notin FirstChar..255
BY FontAssumption DEF Byte, Newline

\* Newlines are not printable.
LEMMA PrintableEnd ==
    ASSUME NEW s \in Text
    PROVE  /\ Printable(Append(s, Newline)) = Printable(s)
           /\ Append(s, Newline) \in Text
<1>1. Kept(Append(s, Newline), FirstChar..255) = Kept(s, FirstChar..255)
  <2> DEFINE S == FirstChar..255
  <2>1. Newline \in Byte /\ Newline \notin S
    BY NewlineIs, Zenon
  <2> HIDE DEF S
  <2>2. Kept(Append(s, Newline), S) = Kept(s, S)
    BY <2>1, KeptOneText, Zenon
  <2> QED
    BY <2>2, Zenon DEF S
<1>2. Append(s, Newline) \in Text
  BY NewlineIs, KeptOneText, Zenon
<1> QED
  BY <1>1, <1>2, Zenon DEF Printable

LEMMA TextSeg ==
    ASSUME NEW t \in Text, NEW a \in Nat, NEW b \in Nat, a <= b, b <= Len(t)
    PROVE  Seg(t, a, b) \in Text /\ Len(Seg(t, a, b)) = b - a
<1>1. t \in Seq(Byte)
  BY Zenon DEF Text
<1>2. Seg(t, a, b) \in Seq(Byte) /\ Len(Seg(t, a, b)) = b - a
  BY <1>1, SegTyped, Zenon
<1> QED
  BY <1>2, Zenon DEF Text

TextSegNext(t, a, b, c) == Seg(t, a, c) = Append(Seg(t, a, b), t[c])

LEMMA TextSegNextIs ==
    ASSUME NEW t \in Text, NEW a \in Nat, NEW b \in Nat, a <= b, b < Len(t), NEW c, c = b + 1
    PROVE  TextSegNext(t, a, b, c)
<1>1. t \in Seq(Byte)
  BY Zenon DEF Text
<1>2. Seg(t, a, b + 1) = Append(Seg(t, a, b), t[b + 1])
  BY <1>1, SegNext, Zenon
<1> QED
  BY <1>2, Zenon DEF TextSegNext

TextSegJoin(t, a, b, c) == Seg(t, a, c) = Seg(t, a, b) \o Seg(t, b, c)

LEMMA TextSegJoinIs ==
    ASSUME NEW t \in Text, NEW a \in Nat, NEW b \in Nat, NEW c \in Nat, a <= b, b <= c, c <= Len(t)
    PROVE  TextSegJoin(t, a, b, c)
<1>1. t \in Seq(Byte)
  BY Zenon DEF Text
<1>2. Seg(t, a, c) = Seg(t, a, b) \o Seg(t, b, c)
  BY <1>1, SegJoin, Zenon
<1> QED
  BY <1>2, Zenon DEF TextSegJoin

\* A line that begins with the newline before it is as good as one without.
SameAfter(t, a, b, c) == Printable(Seg(t, a, c)) = Printable(Seg(t, b, c))

LEMMA PrintableAfter ==
    ASSUME NEW t \in Text, NEW a \in Nat, NEW b \in Nat, NEW c \in Nat,
           b = a + 1, b <= c, c <= Len(t), t[b] = Newline
    PROVE  SameAfter(t, a, b, c)
<1> DEFINE e == Seg(t, a, a)
           f == Seg(t, a, b)
           g == Seg(t, b, c)
<1>1. a <= b /\ a < Len(t) /\ a <= a /\ b <= Len(t) /\ a <= Len(t)
  <2>1. Len(t) \in Nat
    BY TextLen
  <2> QED
    BY <2>1
<1>2. e \in Text /\ f \in Text /\ g \in Text
  BY <1>1, TextSeg, Zenon
<1>3. f = Append(e, Newline)
  <2>1. TextSegNext(t, a, a, b)
    BY <1>1, TextSegNextIs, Zenon
  <2> QED
    BY <2>1, Zenon DEF TextSegNext
<1>4. e = <<>>
  BY SegNone DEF Text
<1>5. Seg(t, a, c) = f \o g
  <2>1. TextSegJoin(t, a, b, c)
    BY <1>1, TextSegJoinIs, Zenon
  <2> QED
    BY <2>1, Zenon DEF TextSegJoin
<1> HIDE DEF e, f, g
<1>6. Printable(f) = <<>>
  <2>1. Printable(f) = Printable(e)
    BY <1>2, <1>3, PrintableEnd, Zenon
  <2>2. Printable(<<>>) = <<>>
    BY NothingKept, Zenon DEF Printable
  <2> QED
    BY <1>4, <2>1, <2>2, Zenon
<1>7. Printable(f \o g) = Printable(f) \o Printable(g)
  BY <1>2, PrintableTwo, Zenon
<1>8. Printable(g) \in Seq(Byte)
  BY <1>2, KeptText, Zenon DEF Printable, Text
<1> DEFINE p == Printable(g)
<1> HIDE DEF p
<1>9. <<>> \o p = p
  <2>1. p \in Seq(Byte)
    BY <1>8, Zenon DEF p
  <2> QED
    BY <2>1, EmptyFirst, Zenon
<1> QED
  BY <1>5, <1>6, <1>7, <1>9, Zenon DEF p, g, SameAfter

LEMMA TextJoined ==
    ASSUME NEW f \in Seq(Text), NEW x \in Text
    PROVE  /\ Joined(<<>>) = <<>>
           /\ Joined(Append(f, x)) = Joined(f) \o x
           /\ Joined(f) \in Text
BY JoinedAppend DEF Text

\* The line that a newline ends.
LineEnded(t, s, n, line) ==
    /\ line \in Text
    /\ Printable(Joined(Append(s.lines, line))) = Printable(Seg(t, 0, n))

LEMMA LineEnds ==
    ASSUME NEW t \in Text, NEW m \in Nat, NEW n \in Nat, n = m + 1, n <= Len(t), t[n] = Newline,
           NEW s, SplitIs(t, s, m),
           NEW line, line = SubSeq(t, s.from, s.from + s.length)
    PROVE  LineEnded(t, s, n, line)
<1> DEFINE lines == s.lines
           from == s.from
           length == s.length
           j == Joined(lines)
<1>1. lines \in Seq(Text) /\ from \in Nat /\ length \in Nat /\ SplitPlace(t, lines, from, length, m)
  <2>1. s \in SplitStates /\ SplitPlace(t, lines, from, length, m)
    BY Zenon DEF SplitIs
  <2> QED
    BY <2>1 DEF SplitStates
<1>2. /\ 0 \in Nat /\ 0 <= m /\ 0 <= n /\ m <= Len(t) /\ m < Len(t) /\ Len(t) \in Nat /\ m <= n
  <2>1. Len(t) \in Nat
    BY TextLen
  <2> QED
    BY <2>1
<1>3. lines # <<>> => Printable(j) = Printable(Seg(t, 0, from))
  BY Zenon DEF SplitIs
<1>4. Joined(<<>>) = <<>> /\ j \in Text
  <2>1. <<>> \in Text
    BY DEF Text
  <2> QED
    BY <1>1, <2>1, TextJoined, Zenon
<1>5. line \in Text => Joined(Append(lines, line)) = j \o line
  BY <1>1, TextJoined, Zenon
<1> HIDE DEF lines, from, length, j
<1>6. line = SubSeq(t, from, from + length)
  BY Zenon DEF from, length
<1>7. CASE lines = <<>>
  <2>1. from = 1 /\ length = m
    BY <1>1, <1>7, Zenon DEF SplitPlace
  <2>2. 1 = 0 + 1 /\ 1 + m = n
    OBVIOUS
  <2>3. line = Seg(t, 0, n)
    BY <1>6, <2>1, <2>2, Zenon DEF Seg
  <2>4. line \in Text
    BY <1>2, <2>3, TextSeg, Zenon
  <2>5. j = <<>>
    BY <1>4, <1>7, Zenon DEF j
  <2>6. j \o line = line
    <3>1. line \in Seq(Byte)
      BY <2>4, Zenon DEF Text
    <3>2. <<>> \o line = line
      BY <3>1, EmptyFirst, Zenon
    <3> QED
      BY <2>5, <3>2, Zenon
  <2> QED
    BY <1>5, <2>3, <2>4, <2>6, Zenon DEF LineEnded, lines
<1>8. CASE lines # <<>>
  <2> DEFINE a == from - 1
  <2>1. from \in 1..m /\ t[from] = Newline /\ length = m - from
    BY <1>1, <1>8, Zenon DEF SplitPlace
  <2>2. from = a + 1 /\ from + length = m /\ a \in Nat /\ from <= m /\ a <= m /\ 0 <= from /\ from <= Len(t)
    BY <1>2, <2>1
  <2> HIDE DEF a
  <2>3. line = Seg(t, a, m)
    BY <1>6, <2>2, Zenon DEF Seg
  <2>4. line \in Text
    <3>1. Seg(t, a, m) \in Text
      BY <1>2, <2>2, TextSeg, ZenonT(60)
    <3> QED
      BY <2>3, <3>1, Zenon
  <2>5. Printable(line) = Printable(Seg(t, from, m))
    <3>1. Printable(Seg(t, a, m)) = Printable(Seg(t, from, m))
      <4>1. SameAfter(t, a, from, m)
        BY <1>1, <1>2, <2>1, <2>2, PrintableAfter, Zenon
      <4> QED
        BY <4>1, Zenon DEF SameAfter
    <3> QED
      BY <2>3, <3>1, Zenon
  <2> DEFINE u == Seg(t, 0, from)
             v == Seg(t, from, m)
             w == Seg(t, 0, m)
  <2>6. u \in Text /\ v \in Text /\ w \in Text
    BY <1>1, <1>2, <2>2, TextSeg, Zenon
  <2>7. w = u \o v
    <3>1. TextSegJoin(t, 0, from, m)
      BY <1>1, <1>2, <2>2, TextSegJoinIs, Zenon
    <3> QED
      BY <3>1, Zenon DEF TextSegJoin
  <2>8. Seg(t, 0, n) = Append(w, Newline)
    <3>1. TextSegNext(t, 0, m, n)
      BY <1>2, TextSegNextIs, Zenon
    <3> QED
      BY <3>1, Zenon DEF TextSegNext
  <2>9. Printable(j) = Printable(u) /\ Printable(line) = Printable(v)
    BY <1>3, <1>8, <2>5, Zenon
  <2> HIDE DEF u, v, w
  <2>10. Printable(Seg(t, 0, n)) = Printable(w)
    BY <2>6, <2>8, PrintableEnd, Zenon
  <2>11. Printable(u \o v) = Printable(u) \o Printable(v)
    BY <2>6, PrintableTwo, Zenon
  <2>12. Printable(j \o line) = Printable(j) \o Printable(line)
    BY <1>4, <2>4, PrintableTwo, Zenon
  <2>13. Printable(j \o line) = Printable(Seg(t, 0, n))
    BY <2>7, <2>9, <2>10, <2>11, <2>12, Zenon
  <2> QED
    BY <1>5, <2>4, <2>13, Zenon DEF LineEnded, lines
<1> QED
  BY <1>7, <1>8, Zenon

LEMMA LenAppended ==
    ASSUME NEW S, NEW s \in Seq(S), NEW c \in S
    PROVE  Len(Append(s, c)) = Len(s) + 1
OBVIOUS

LEMMA BreaksOne ==
    ASSUME NEW u \in Text, NEW c \in Byte
    PROVE  /\ c = Newline => Breaks(Append(u, c)) = Breaks(u) + 1
           /\ c # Newline => Breaks(Append(u, c)) = Breaks(u)
<1> DEFINE N == {Newline}
           k == Kept(u, N)
<1>1. k \in Text
  BY KeptText, Zenon
<1> HIDE DEF k
<1>2. Len(Append(k, c)) = Len(k) + 1
  <2>1. k \in Seq(Byte)
    BY <1>1, Zenon DEF Text
  <2> QED
    BY <2>1, LenAppended, Zenon
<1>5. c \in N <=> c = Newline
  BY Zenon
<1> HIDE DEF N
<1>3. c \in N => Kept(Append(u, c), N) = Append(k, c)
  BY KeptOneText, Zenon DEF k
<1>4. c \notin N => Kept(Append(u, c), N) = k
  BY KeptOneText, Zenon DEF k
<1>6. Breaks(Append(u, c)) = Len(Kept(Append(u, c), N)) /\ Breaks(u) = Len(k)
  BY Zenon DEF Breaks, N, k
<1> QED
  BY <1>2, <1>3, <1>4, <1>5, <1>6, Zenon

LEMMA SplitStep ==
    ASSUME NEW t \in Text, NEW m \in Nat, NEW n \in Nat, n = m + 1, n <= Len(t),
           NEW s, SplitIs(t, s, m), NEW r, r = SplitNext(t, s, n)
    PROVE  SplitIs(t, r, n)
<1> DEFINE lines == s.lines
           from == s.from
           length == s.length
           c == t[n]
           u == Seg(t, 0, m)
<1>1. lines \in Seq(Text) /\ from \in Nat /\ length \in Nat /\ SplitPlace(t, lines, from, length, m)
      /\ s = [lines |-> lines, from |-> from, length |-> length] /\ Len(lines) = Breaks(u)
  <2>1. s \in SplitStates /\ SplitPlace(t, lines, from, length, m) /\ Len(lines) = Breaks(u)
    BY Zenon DEF SplitIs
  <2>2. lines \in Seq(Text) /\ from \in Nat /\ length \in Nat
        /\ s = [lines |-> lines, from |-> from, length |-> length]
    BY <2>1 DEF SplitStates
  <2> QED
    BY <2>1, <2>2, Zenon
<1>2. /\ 0 \in Nat /\ 0 <= m /\ 0 <= n /\ m <= Len(t) /\ m < Len(t) /\ Len(t) \in Nat /\ m <= n
      /\ n \in 1..Len(t) /\ n \in 1..n /\ n - n = 0 /\ n + 1..n = {}
  <2>1. Len(t) \in Nat
    BY TextLen
  <2> QED
    BY <2>1
<1>3. u \in Text /\ c \in Byte /\ Seg(t, 0, n) = Append(u, c)
  <2>1. u \in Text
    BY <1>2, TextSeg, Zenon
  <2>2. c \in Byte
    BY <1>2, SeqElement, Zenon DEF Text
  <2>3. TextSegNext(t, 0, m, n)
    BY <1>2, TextSegNextIs, Zenon
  <2> QED
    BY <2>1, <2>2, <2>3, Zenon DEF TextSegNext
<1>4. lines # <<>> => Printable(Joined(lines)) = Printable(Seg(t, 0, from))
  BY Zenon DEF SplitIs
<1> HIDE DEF u
<1>5. CASE c = Newline
  <2> DEFINE line == SubSeq(t, from, from + length)
             all == Append(lines, line)
  <2>1. r = [lines |-> all, from |-> n, length |-> 0]
    BY <1>5, Zenon DEF SplitNext
  <2>2. LineEnded(t, s, n, line)
    BY <1>2, <1>5, LineEnds, Zenon
  <2>3. line \in Text /\ Printable(Joined(all)) = Printable(Seg(t, 0, n))
    BY <2>2, Zenon DEF LineEnded
  <2> HIDE DEF line, lines, from, length
  <2>4. all \in Seq(Text) /\ Len(all) = Len(lines) + 1 /\ all # <<>>
    <3> DEFINE S == Text
    <3>1. lines \in Seq(S) /\ line \in S
      BY <1>1, <2>3, Zenon
    <3> HIDE DEF S
    <3>2. all \in Seq(S)
      BY <3>1, Appended, Zenon
    <3>3. Len(all) = Len(lines) + 1
      BY <3>1, LenAppended, Zenon
    <3>4. all # <<>>
      BY <3>1, LongerThanNone, Zenon
    <3> QED
      BY <3>2, <3>3, <3>4, Zenon DEF S
  <2> HIDE DEF all
  <2>5. r \in SplitStates /\ r.lines = all /\ r.from = n /\ r.length = 0
    BY <1>2, <2>1, <2>4, SplitRecord DEF SplitStates
  <2>6. Breaks(Seg(t, 0, n)) = Breaks(u) + 1
    BY <1>3, <1>5, BreaksOne, Zenon
  <2>7. SplitPlace(t, all, n, 0, n)
    BY <1>2, <1>5, <2>4, Zenon DEF SplitPlace
  <2>8. Len(all) = Breaks(Seg(t, 0, n))
    BY <1>1, <2>4, <2>6, Zenon
  <2> QED
    BY <2>3, <2>5, <2>7, <2>8, Zenon DEF SplitIs
<1>6. CASE c # Newline
  <2> DEFINE l == length + 1
  <2>1. r = [lines |-> lines, from |-> from, length |-> l]
    <3>1. r = [s EXCEPT !.length = s.length + 1]
      BY <1>6, Zenon DEF SplitNext
    <3> HIDE DEF lines, from
    <3> QED
      BY <1>1, <3>1
  <2> HIDE DEF lines, from, length
  <2>2. l \in Nat
    BY <1>1
  <2>3. SplitPlace(t, lines, from, l, n)
    <3>1. CASE lines = <<>>
      <4>1. from = 1 /\ length = m
        BY <1>1, <3>1, Zenon DEF SplitPlace
      <4>2. l = n
        BY <4>1
      <4> QED
        BY <3>1, <4>1, <4>2, Zenon DEF SplitPlace
    <3>2. CASE lines # <<>>
      <4>1. /\ from \in 1..m /\ t[from] = Newline /\ length = m - from
            /\ \A j \in from + 1..m : t[j] # Newline
        BY <1>1, <3>2, Zenon DEF SplitPlace
      <4>2. from \in 1..n /\ l = n - from /\ \A j \in from + 1..n : j = n \/ j \in from + 1..m
        BY <4>1
      <4>3. \A j \in from + 1..n : t[j] # Newline
        BY <1>6, <4>1, <4>2, Zenon
      <4> QED
        BY <3>2, <4>1, <4>2, <4>3, Zenon DEF SplitPlace
    <3> QED
      BY <3>1, <3>2, Zenon
  <2> HIDE DEF l
  <2>4. r \in SplitStates /\ r.lines = lines /\ r.from = from /\ r.length = l
    BY <1>1, <2>1, <2>2, SplitRecord DEF SplitStates
  <2>5. Breaks(Seg(t, 0, n)) = Breaks(u)
    BY <1>3, <1>6, BreaksOne, Zenon
  <2> QED
    BY <1>1, <1>4, <2>3, <2>4, <2>5, Zenon DEF SplitIs
<1> QED
  BY <1>5, <1>6, Zenon

LEMMA SplitStarts ==
    ASSUME NEW t \in Text, NEW e, e = [lines |-> <<>>, from |-> 1, length |-> 0]
    PROVE  SplitIs(t, e, 0)
<1> DEFINE none == <<>>
           V == Seq(Text)
<1>1. none \in V /\ 1 \in Nat /\ 0 \in Nat /\ Len(none) = 0
  OBVIOUS
<1>2. Seg(t, 0, 0) = none
  <2>1. t \in Seq(Byte)
    BY Zenon DEF Text
  <2> QED
    BY <1>1, <2>1, SegNone, Zenon
<1>3. Breaks(none) = 0
  BY <1>1, NothingKept, Zenon DEF Breaks
<1>4. e = [lines |-> none, from |-> 1, length |-> 0]
  OBVIOUS
<1>5. SplitPlace(t, none, 1, 0, 0)
  BY Zenon DEF SplitPlace
<1>6. none = <<>>
  OBVIOUS
<1> HIDE DEF none, V
<1>7. e \in [lines : V, from : Nat, length : Nat] /\ e.lines = none /\ e.from = 1 /\ e.length = 0
  BY <1>1, <1>4, SplitRecord
<1> QED
  BY <1>1, <1>2, <1>3, <1>5, <1>6, <1>7, Zenon DEF SplitIs, SplitStates, V

\* What drawLogBuffer() has made of the first characters, of as many as one likes.
LEMMA SplitsAre ==
    ASSUME NEW t \in Text, NEW last, last = Len(t)
    PROVE  SplitIs(t, LogSplit(t)[last], last)
<1> DEFINE k == last
           e == [lines |-> <<>>, from |-> 1, length |-> 0]
           I == [n \in 0..k |-> {x \in SplitStates : SplitIs(t, x, n)}]
           G == [n \in 1..k |-> [x \in SplitStates |-> SplitNext(t, x, n)]]
           h(g) == [n \in 0..k |-> IF n = 0 THEN e ELSE SplitNext(t, g[n - 1], n)]
           J == LogSplit(t)
<1>0. k \in Nat
  BY TextLen, Zenon
<1>1. (\A n \in 1..k : n \in 0..k /\ n - 1 \in 0..k /\ n # 0) /\ 0 \in 0..k /\ k \in 0..k
      /\ \A n \in 0..k : n # 0 => n \in 1..k
  BY <1>0
<1>2. J = CHOOSE g : g = h(g)
  BY DEF LogSplit, SplitNext
<1>3. SplitIs(t, e, 0)
  BY SplitStarts, Zenon
<1>4. \A n \in 0..k : \A x : SplitIs(t, x, n) => x \in SplitStates
  BY Zenon DEF SplitIs
<1>5. \A n \in 1..k : \A x : SplitIs(t, x, n - 1) => SplitIs(t, SplitNext(t, x, n), n)
  <2>1. ASSUME NEW n \in 1..k, NEW x, SplitIs(t, x, n - 1)
        PROVE  SplitIs(t, SplitNext(t, x, n), n)
    <3> DEFINE m == n - 1
    <3>1. m \in Nat /\ n \in Nat /\ n = m + 1 /\ n <= Len(t)
      BY <1>0
    <3>2. SplitIs(t, x, m)
      BY <2>1, Zenon
    <3> HIDE DEF m
    <3> QED
      BY <3>1, <3>2, SplitStep, Zenon
  <2> QED
    BY <2>1, Zenon
<1> HIDE DEF e
<1>6. \A n \in 0..k : \A x : x \in I[n] <=> SplitIs(t, x, n)
  BY <1>4, Zenon
<1>7. PICK g : RecursIn(g, I, e, k, G)
  <2>1. e \in I[0]
    BY <1>1, <1>3, <1>6, Zenon
  <2>2. \A n \in 1..k : \A x \in I[n - 1] : G[n][x] \in I[n]
    <3>1. \A n \in 1..k : \A x \in I[n - 1] : G[n][x] = SplitNext(t, x, n)
      BY <1>1, <1>4, <1>6, Zenon
    <3> HIDE DEF I, G
    <3> QED
      <4>1. ASSUME NEW n \in 1..k, NEW x \in I[n - 1]
            PROVE  G[n][x] \in I[n]
        <5>1. SplitIs(t, x, n - 1)
          BY <1>1, <1>6, Zenon
        <5>2. SplitIs(t, SplitNext(t, x, n), n)
          BY <1>5, <5>1, Zenon
        <5>3. SplitNext(t, x, n) \in I[n]
          BY <1>1, <1>6, <5>2, Zenon
        <5> QED
          BY <3>1, <5>3, Zenon
      <4> QED
        BY <4>1, Zenon
  <2>3. k \in Nat
    BY <1>0, Zenon
  <2> HIDE DEF I, G, k
  <2> QED
    BY <2>1, <2>2, <2>3, RecursionIn, Zenon
<1>8. /\ g = [n \in 0..k |-> g[n]] /\ g[0] = e
      /\ (\A n \in 1..k : g[n] = G[n][g[n - 1]]) /\ \A n \in 0..k : g[n] \in I[n]
  <2> HIDE DEF I, G
  <2> QED
    BY <1>7, Zenon DEF RecursIn
<1>9. \A n \in 1..k : g[n] = SplitNext(t, g[n - 1], n)
  <2> HIDE DEF I
  <2>1. \A n \in 1..k : g[n - 1] \in SplitStates
    BY <1>1, <1>4, <1>6, <1>8, Zenon
  <2>2. \A n \in 1..k : \A x \in SplitStates : G[n][x] = SplitNext(t, x, n)
    BY Zenon
  <2> HIDE DEF G
  <2> QED
    BY <1>8, <2>1, <2>2, Zenon
<1> HIDE DEF I, G, J
<1>10. g = h(g)
  <2>1. \A n \in 0..k : g[n] = IF n = 0 THEN e ELSE SplitNext(t, g[n - 1], n)
    BY <1>1, <1>8, <1>9, Zenon
  <2>2. [n \in 0..k |-> g[n]] = h(g)
    BY <2>1, Zenon
  <2> QED
    BY <1>8, <2>2, Zenon
<1>11. J = h(J)
  <2> HIDE DEF h
  <2> QED
    BY <1>2, <1>10, Zenon
<1>12. J[0] = e /\ \A n \in 1..k : J[n] = SplitNext(t, J[n - 1], n)
  <2>1. \A n \in 0..k : h(J)[n] = IF n = 0 THEN e ELSE SplitNext(t, J[n - 1], n)
    BY Zenon
  <2> HIDE DEF h
  <2> QED
    BY <1>1, <1>11, <2>1, Zenon
<1> DEFINE T == {n \in 0..k : SplitIs(t, J[n], n)}
<1>13. 0 \in T
  BY <1>1, <1>3, <1>12, Zenon
<1>14. \A n \in 1..k : n - 1 \in T => n \in T
  BY <1>1, <1>5, <1>12, Zenon
<1>15. \A n \in 0..k : n \in T
  <2>1. k \in Nat
    BY <1>0, Zenon
  <2> HIDE DEF T, k
  <2> QED
    BY <1>13, <1>14, <2>1, Upwards, Zenon
<1> QED
  BY <1>1, <1>15, Zenon DEF J

\* All the lines have all that the font has, and only the first, and those that a
\* newline ends, have anything.
LinesMake(t, all) ==
    /\ all \in Seq(Text)
    /\ Printable(Joined(all)) = Printable(t)
    /\ \A n \in DOMAIN all : all[n] = <<>> \/ n = 1 \/ n \in 1..Breaks(t)

LEMMA LastLine ==
    ASSUME NEW lines \in Seq(Text), NEW rest \in Text, NEW all, all = Append(lines, rest),
           NEW b \in Nat, Len(lines) = b, lines = <<>> \/ rest = <<>>
    PROVE  all \in Seq(Text) /\ \A n \in DOMAIN all : all[n] = <<>> \/ n = 1 \/ n \in 1..b
<1> DEFINE S == Text
<1>1. lines \in Seq(S) /\ rest \in S
  OBVIOUS
<1> HIDE DEF S
<1>2. all \in Seq(S) /\ Extends(all, lines, rest, b)
  BY <1>1, Appended, Zenon
<1>3. Len(all) = b + 1 /\ all[b + 1] = rest
  BY <1>2, Zenon DEF Extends
<1>4. DOMAIN all = 1..b + 1
  BY <1>2, <1>3
<1>5. lines = <<>> => b = 0
  OBVIOUS
<1>6. \A n \in 1..b + 1 : n \in 1..b \/ n = b + 1
  OBVIOUS
<1>7. b = 0 => b + 1 = 1
  OBVIOUS
<1> QED
  BY <1>2, <1>3, <1>4, <1>5, <1>6, <1>7, Zenon DEF S

LEMMA LinesAre ==
    ASSUME NEW t \in Text, Newline \in Range(t) => Last(t) = Newline,
           NEW s, s = LogSplit(t)[Len(t)],
           NEW all, all = Append(s.lines, SubSeq(t, s.from, s.from + s.length - 1))
    PROVE  LinesMake(t, all)
<1> DEFINE k == Len(t)
           lines == s.lines
           from == s.from
           length == s.length
           rest == SubSeq(t, from, from + length - 1)
           j == Joined(lines)
<1>1. k \in Nat
  BY TextLen
<1>2. SplitIs(t, s, k)
  BY SplitsAre, Zenon
<1>3. Seg(t, 0, k) = t
  <2>1. t \in Seq(Byte)
    BY Zenon DEF Text
  <2> QED
    BY <2>1, SegAll, Zenon
<1>4. /\ lines \in Seq(Text) /\ from \in Nat /\ length \in Nat
      /\ SplitPlace(t, lines, from, length, k) /\ Len(lines) = Breaks(t)
      /\ lines # <<>> => Printable(j) = Printable(Seg(t, 0, from))
  <2>1. /\ s \in SplitStates /\ SplitPlace(t, lines, from, length, k) /\ Len(lines) = Breaks(t)
        /\ lines # <<>> => Printable(j) = Printable(Seg(t, 0, from))
    BY <1>2, <1>3, Zenon DEF SplitIs
  <2>2. lines \in Seq(Text) /\ from \in Nat /\ length \in Nat
    BY <2>1 DEF SplitStates
  <2> QED
    BY <2>1, <2>2, Zenon
<1>5. all = Append(lines, rest)
  OBVIOUS
<1>6. Breaks(t) \in Nat
  BY BreaksIn, Zenon
<1>7. Joined(<<>>) = <<>> /\ <<>> \in Text /\ j \in Text
  <2>1. <<>> \in Text
    BY DEF Text
  <2> QED
    BY <1>4, <2>1, TextJoined, Zenon
<1> HIDE DEF lines, from, length, j, k, rest
<1>8. rest = SubSeq(t, from, from + length - 1)
  BY Zenon DEF rest, from, length
<1>9. CASE lines = <<>>
  <2>1. from = 1 /\ length = k
    BY <1>4, <1>9, Zenon DEF SplitPlace
  <2>2. 1 = 0 + 1 /\ 1 + k - 1 = k
    BY <1>1
  <2>3. rest = t
    BY <1>3, <1>8, <2>1, <2>2, Zenon DEF Seg
  <2>4. /\ all \in Seq(Text)
        /\ \A n \in DOMAIN all : all[n] = <<>> \/ n = 1 \/ n \in 1..Breaks(t)
    BY <1>4, <1>5, <1>6, <1>9, <2>3, LastLine, Zenon
  <2>5. Joined(all) = j \o t
    BY <1>4, <1>5, <2>3, TextJoined, Zenon DEF j
  <2>6. j \o t = t
    <3>1. t \in Seq(Byte)
      BY Zenon DEF Text
    <3>2. <<>> \o t = t
      BY <3>1, EmptyFirst, Zenon
    <3> QED
      BY <1>7, <1>9, <3>2, Zenon DEF j
  <2> QED
    BY <2>4, <2>5, <2>6, Zenon DEF LinesMake
<1>10. CASE lines # <<>>
  <2>1. /\ from \in 1..k /\ t[from] = Newline /\ length = k - from
        /\ \A i \in from + 1..k : t[i] # Newline
    BY <1>4, <1>10, Zenon DEF SplitPlace
  <2>2. t[k] = Newline
    <3>1. t \in Seq(Byte) /\ DOMAIN t = 1..k
      BY DEF Text, k
    <3>2. Newline \in Range(t)
      BY <2>1, <3>1, Zenon DEF Range
    <3> QED
      BY <3>2, Zenon DEF Last, k
  <2>3. k \notin from + 1..k
    BY <2>1, <2>2, Zenon
  <2>4. from = k /\ length = 0 /\ k + 0 - 1 = k - 1 /\ k = (k - 1) + 1 /\ k - 1 \in Nat
    BY <1>1, <2>1, <2>3
  <2>5. rest = <<>>
    <3> DEFINE a == k - 1
    <3>1. a \in Nat /\ k = a + 1 /\ k + 0 - 1 = a
      BY <2>4
    <3> HIDE DEF a
    <3>2. rest = Seg(t, a, a)
      BY <1>8, <2>4, <3>1, Zenon DEF Seg
    <3>3. t \in Seq(Byte)
      BY Zenon DEF Text
    <3>4. Seg(t, a, a) = <<>>
      BY <3>1, <3>3, SegNone, Zenon
    <3> QED
      BY <3>2, <3>4, Zenon
  <2>6. /\ all \in Seq(Text)
        /\ \A n \in DOMAIN all : all[n] = <<>> \/ n = 1 \/ n \in 1..Breaks(t)
    BY <1>4, <1>5, <1>6, <1>7, <2>5, LastLine, Zenon
  <2>7. Joined(all) = j \o <<>>
    BY <1>4, <1>5, <1>7, <2>5, TextJoined, Zenon DEF j
  <2>8. j \o <<>> = j
    <3>1. j \in Seq(Byte)
      BY <1>7, Zenon DEF Text
    <3> QED
      BY <3>1, EmptyFirst, Zenon
  <2>9. Printable(j) = Printable(t)
    BY <1>3, <1>4, <1>10, <2>4, Zenon
  <2> QED
    BY <2>6, <2>7, <2>8, <2>9, Zenon DEF LinesMake
<1> QED
  BY <1>9, <1>10, Zenon

-----------------------------------------------------------------------------
(* The log on the screen *)

GlyphPlaces == [char : Byte, y : Int, x : Int]
Chars(places) == [n \in DOMAIN places |-> places[n].char]

LEMMA CharsOf ==
    ASSUME NEW p \in Seq(GlyphPlaces)
    PROVE  /\ Chars(p) \in Seq(Byte) /\ Len(Chars(p)) = Len(p) /\ Len(p) \in Nat
           /\ \A n \in 1..Len(p) : Chars(p)[n] = p[n].char
<1> DEFINE k == Len(p)
           f == Chars(p)
<1>1. k \in Nat /\ DOMAIN p = 1..k
  OBVIOUS
<1>2. \A n \in 1..k : p[n].char \in Byte
  <2>1. \A r \in GlyphPlaces : r.char \in Byte
    BY DEF GlyphPlaces
  <2>2. \A n \in 1..k : p[n] \in GlyphPlaces
    BY SeqElement
  <2> QED
    BY <2>1, <2>2, Zenon
<1> HIDE DEF k
<1>3. f = [n \in 1..k |-> p[n].char]
  BY <1>1, Zenon DEF Chars
<1>4. f \in [1..k -> Byte] /\ \A n \in 1..k : f[n] = p[n].char
  BY <1>2, <1>3, Zenon
<1> HIDE DEF f
<1>5. f \in Seq(Byte) /\ Len(f) = k
  BY <1>1, <1>4
<1> QED
  BY <1>1, <1>4, <1>5, Zenon DEF f, k

CharsApart(p, q) == Chars(p \o q) = Chars(p) \o Chars(q)

LEMMA CharsTwo ==
    ASSUME NEW p \in Seq(GlyphPlaces), NEW q \in Seq(GlyphPlaces)
    PROVE  CharsApart(p, q)
<1> DEFINE a == Len(p)
           b == Len(q)
           r == p \o q
           c == Chars(p)
           d == Chars(q)
           e == c \o d
           f == Chars(r)
           E == Byte
           S == GlyphPlaces
<1>1. a \in Nat /\ b \in Nat
  OBVIOUS
<1>2. /\ c \in Seq(E) /\ Len(c) = a /\ \A n \in 1..a : c[n] = p[n].char
      /\ d \in Seq(E) /\ Len(d) = b /\ \A n \in 1..b : d[n] = q[n].char
  BY CharsOf, Zenon
<1>3. p \in Seq(S) /\ q \in Seq(S)
  OBVIOUS
<1> HIDE DEF a, b, c, d, E, S
<1>4. r \in Seq(S) /\ Len(r) = a + b
  BY <1>3, ConcatLen DEF a, b
<1>5. e \in Seq(E) /\ Len(e) = a + b
  BY <1>2, ConcatLen
<1>6. \A n \in 1..a + b : r[n] = IF n <= a THEN p[n] ELSE q[n - a]
  BY <1>3, ConcatElements DEF a, b
<1>7. \A n \in 1..a + b : e[n] = IF n <= a THEN c[n] ELSE d[n - a]
  <2>1. c \in Seq(E) /\ d \in Seq(E) /\ a = Len(c) /\ b = Len(d)
    BY <1>2, Zenon
  <2> HIDE <1>2
  <2> QED
    BY <2>1, ConcatElements
<1> HIDE DEF r, e
<1>8. f \in Seq(E) /\ Len(f) = a + b /\ \A n \in 1..a + b : f[n] = r[n].char
  <2>1. r \in Seq(GlyphPlaces)
    BY <1>4, Zenon DEF S
  <2>2. f \in Seq(Byte) /\ Len(f) = Len(r) /\ \A n \in 1..Len(r) : f[n] = r[n].char
    BY <2>1, CharsOf, Zenon
  <2> QED
    BY <1>4, <2>2, Zenon DEF E
<1> HIDE DEF f
<1>9. \A n \in 1..a + b : f[n] = e[n]
  <2> TAKE n \in 1..a + b
  <2>1. CASE n <= a
    <3>1. n \in 1..a
      BY <1>1, <2>1
    <3>2. f[n] = p[n].char
      BY <1>6, <1>8, <2>1, Zenon
    <3>3. e[n] = c[n]
      BY <1>7, <2>1, Zenon
    <3> QED
      BY <1>2, <3>1, <3>2, <3>3, Zenon
  <2>2. CASE ~(n <= a)
    <3>1. n - a \in 1..b
      BY <1>1, <2>2
    <3>2. f[n] = q[n - a].char
      BY <1>6, <1>8, <2>2, Zenon
    <3>3. e[n] = d[n - a]
      BY <1>7, <2>2, Zenon
    <3> QED
      BY <1>2, <3>1, <3>2, <3>3, Zenon
  <2> QED
    BY <2>1, <2>2, Zenon
<1>10. f = e
  <2>1. Len(f) = Len(e) /\ \A n \in 1..Len(f) : f[n] = e[n]
    BY <1>5, <1>8, <1>9, Zenon
  <2> QED
    BY <1>5, <1>8, <2>1, SameSeq, Zenon
<1> QED
  BY <1>10, Zenon DEF CharsApart, f, e, r, c, d

\* What is on the screen of a line is all that the font has of it.
PlacedAll(places, line) ==
    /\ places \in Seq(GlyphPlaces)
    /\ Chars(places) = Printable(line)

LEMMA NoneMapped ==
    ASSUME NEW f, f = [n \in DOMAIN <<>> |-> f[n]]
    PROVE  f = <<>>
OBVIOUS

LEMMA NonePlaced ==
    ASSUME NEW x \in Int, NEW y \in Int
    PROVE  PlacedAll(Placed(x, y, <<>>, "LEFT", 0), <<>>)
<1> DEFINE none == <<>>
           p == Placed(x, y, none, "LEFT", 0)
<1>1. Printable(none) = none
  BY NothingKept, Zenon DEF Printable
<1>2. p = none
  <2> DEFINE at(n) == [char |-> Printable(none)[n], y |-> y,
                       x |-> x + TextWidth(SubSeq(Printable(none), 1, n - 1))]
             f == [n \in DOMAIN Printable(none) |-> at(n)]
  <2>1. p = none \/ p = f
    BY Zenon DEF Placed
  <2>2. f = none
    <3> HIDE DEF at
    <3>1. f = [n \in DOMAIN <<>> |-> f[n]]
      BY <1>1, Zenon
    <3> HIDE DEF f
    <3> QED
      BY <3>1, NoneMapped, Zenon
  <2> QED
    BY <2>1, <2>2, Zenon
<1>3. Chars(none) = none
  <2> DEFINE f == Chars(none)
  <2>1. f = [n \in DOMAIN <<>> |-> f[n]]
    BY Zenon DEF Chars
  <2> HIDE DEF f
  <2>2. f = none
    BY <2>1, NoneMapped, Zenon
  <2> QED
    BY <2>2, Zenon DEF f
<1>4. none \in Seq(GlyphPlaces)
  OBVIOUS
<1> QED
  BY <1>1, <1>2, <1>3, <1>4, Zenon DEF PlacedAll

LEMMA GlyphPlace ==
    ASSUME NEW a \in Byte, NEW b \in Int, NEW c \in Int
    PROVE  /\ [char |-> a, y |-> b, x |-> c] \in GlyphPlaces
           /\ [char |-> a, y |-> b, x |-> c].char = a
BY DEF GlyphPlaces

LEMMA LinePlaced ==
    ASSUME NEW x \in 0..Width, NEW y \in 0..Width, NEW line \in Text
    PROVE  PlacedAll(Placed(x, y, line, "LEFT", 0), line)
<1> DEFINE text == Printable(line)
           k == Len(text)
           wide(n) == TextWidth(SubSeq(text, 1, n - 1))
           at(n) == [char |-> text[n], y |-> y, x |-> x + wide(n)]
           p == Placed(x, y, line, "LEFT", 0)
           f == [n \in DOMAIN text |-> at(n)]
<1>1. text \in Text /\ k \in Nat /\ DOMAIN text = 1..k
  <2>1. text \in Text
    BY KeptText, Zenon DEF Printable
  <2> HIDE DEF text
  <2> QED
    BY <2>1 DEF Text
<1>2. x \in Int /\ y \in Int /\ ~(x + 0 < 0 \/ x > Width \/ y + LineHeight < 0 \/ y > Width)
  BY DisplayAssumption, FontAssumption
<1>3. p = f
  <2> DEFINE left == CASE "LEFT" \in {"CENTER", "CENTER_BOTH"} -> x - 0 \div 2
                       [] "LEFT" = "RIGHT" -> x - 0
                       [] "LEFT" = "LEFT" -> x
             top == IF "LEFT" = "CENTER_BOTH" THEN y - LineHeight \div 2 ELSE y
  <2>1. left = x /\ top = y
    OBVIOUS
  <2>2. p = IF left + 0 < 0 \/ left > Width \/ top + LineHeight < 0 \/ top > Width THEN <<>>
            ELSE [n \in DOMAIN text |->
                    [char |-> text[n], y |-> top,
                     x |-> left + TextWidth(SubSeq(text, 1, n - 1))]]
    BY Zenon DEF Placed
  <2> HIDE DEF left, top, text, p
  <2> QED
    BY <1>2, <2>1, <2>2, Zenon
<1>4. \A n \in 1..k : text[n] \in Byte /\ wide(n) \in Nat
  <2> TAKE n \in 1..k
  <2> HIDE DEF text, k
  <2> DEFINE m == n - 1
  <2>1. m \in Nat /\ 0 \in Nat /\ 0 <= m /\ m <= k /\ 1 = 0 + 1 /\ 1 \in 1..255
    BY <1>1
  <2> HIDE DEF m
  <2>2. Seg(text, 0, m) \in Text
    BY <1>1, <2>1, TextSeg, Zenon DEF k
  <2>3. SubSeq(text, 1, m) \in Seq(1..255)
    BY <2>1, <2>2, Zenon DEF Seg, Text, Byte
  <2>4. TextWidth(SubSeq(text, 1, m)) \in Nat
    BY <2>1, <2>3, WidthAppend, Zenon
  <2>5. text[n] \in Byte
    BY <1>1, SeqElement, Zenon DEF Text, k
  <2> QED
    BY <2>4, <2>5, Zenon DEF m
<1> HIDE DEF text, wide, k
<1>5. \A n \in 1..k : at(n) \in GlyphPlaces /\ at(n).char = text[n]
  <2> TAKE n \in 1..k
  <2> DEFINE c == x + wide(n)
             b == wide(n)
             a == text[n]
  <2>1. a \in Byte /\ b \in Nat
    BY <1>4, Zenon
  <2>2. c \in Int
    <3>1. c = x + b
      OBVIOUS
    <3> HIDE DEF b, c
    <3> QED
      BY <1>2, <2>1, <3>1
  <2> HIDE DEF c, a
  <2>3. [char |-> a, y |-> y, x |-> c] \in GlyphPlaces /\ [char |-> a, y |-> y, x |-> c].char = a
    BY <1>2, <2>1, <2>2, GlyphPlace, Zenon
  <2> QED
    BY <2>3, Zenon DEF a, c
<1> HIDE DEF at
<1>6. f \in [1..k -> GlyphPlaces] /\ \A n \in 1..k : f[n].char = text[n]
  BY <1>1, <1>5, Zenon
<1> HIDE DEF f
<1>7. f \in Seq(GlyphPlaces) /\ Len(f) = k
  <2> DEFINE S == GlyphPlaces
  <2>1. f \in [1..k -> S]
    BY <1>6, Zenon
  <2> HIDE DEF S
  <2>2. f \in Seq(S) /\ Len(f) = k
    BY <1>1, <2>1
  <2> QED
    BY <2>2, Zenon DEF S
<1>8. Chars(f) = text
  <2>1. Chars(f) \in Seq(Byte) /\ Len(Chars(f)) = k /\ \A n \in 1..k : Chars(f)[n] = text[n]
    BY <1>6, <1>7, CharsOf, Zenon
  <2>2. text \in Seq(Byte) /\ Len(text) = k
    BY <1>1, Zenon DEF Text, k
  <2> DEFINE c == Chars(f)
  <2>3. Len(c) = Len(text) /\ (\A n \in 1..Len(c) : c[n] = text[n]) /\ c \in Seq(Byte)
    BY <2>1, <2>2, Zenon
  <2> HIDE DEF c
  <2>4. c = text
    BY <2>2, <2>3, SameSeq, Zenon
  <2> QED
    BY <2>4, Zenon DEF c
<1> QED
  BY <1>3, <1>7, <1>8, Zenon DEF PlacedAll, text

\* All lines together show what all the log has.
LEMMA LinesPlaced ==
    ASSUME NEW all \in Seq(Text), NEW g, DOMAIN g = DOMAIN all, g = [n \in DOMAIN g |-> g[n]],
           \A n \in DOMAIN all : PlacedAll(g[n], all[n])
    PROVE  Chars(Joined(g)) = Printable(Joined(all))
<1> DEFINE k == Len(all)
           S == GlyphPlaces
           J == Joins(g)
           K == Joins(all)
           T == {n \in 0..k : Chars(J[n]) = Printable(K[n])}
<1>1. k \in Nat /\ DOMAIN all = 1..k
  OBVIOUS
<1>2. \A n \in 1..k : g[n] \in Seq(S) /\ Chars(g[n]) = Printable(all[n]) /\ PlacedAll(g[n], all[n])
  BY <1>1, Zenon DEF PlacedAll
<1>3. g \in Seq(Seq(S)) /\ Len(g) = k
  <2> DEFINE V == Seq(S)
  <2>1. g \in [1..k -> V]
    BY <1>1, <1>2, Zenon
  <2> HIDE DEF V, k
  <2>2. g \in Seq(V) /\ Len(g) = k
    BY <1>1, <2>1
  <2> QED
    BY <2>2, Zenon DEF V
<1>4. all \in Seq(Seq(Byte))
  BY Zenon DEF Text
<1> HIDE DEF k, S, J, K
<1>5. /\ J[0] = <<>>
      /\ \A n \in 1..k : J[n] = J[n - 1] \o g[n]
      /\ \A n \in 0..k : J[n] \in Seq(S)
  BY <1>3, JoinsEquation, Zenon DEF J
<1>6. /\ K[0] = <<>>
      /\ \A n \in 1..k : K[n] = K[n - 1] \o all[n]
      /\ \A n \in 0..k : K[n] \in Seq(Byte)
  BY <1>4, JoinsEquation, Zenon DEF K, k
<1>7. 0 \in T
  <2>1. Chars(<<>>) = <<>>
    <3> DEFINE f == Chars(<<>>)
    <3>1. f = [n \in DOMAIN <<>> |-> f[n]]
      BY Zenon DEF Chars
    <3> HIDE DEF f
    <3>2. f = <<>>
      BY <3>1, NoneMapped, Zenon
    <3> QED
      BY <3>2, Zenon DEF f
  <2>2. Printable(<<>>) = <<>>
    BY NothingKept, Zenon DEF Printable
  <2>3. 0 \in 0..k
    BY <1>1
  <2> QED
    BY <1>5, <1>6, <2>1, <2>2, <2>3, Zenon
<1>8. \A n \in 1..k : n - 1 \in T => n \in T
  <2>1. ASSUME NEW n \in 1..k, n - 1 \in T
        PROVE  n \in T
    <3>1. n - 1 \in 0..k /\ n \in 0..k
      BY <1>1
    <3> DEFINE p == J[n - 1]
               q == g[n]
               s == K[n - 1]
               t == all[n]
    <3>2. p \in Seq(GlyphPlaces) /\ q \in Seq(GlyphPlaces) /\ s \in Text
      BY <1>2, <1>5, <1>6, <3>1, Zenon DEF S, Text
    <3>3. t \in Text
      BY <1>1, SeqElement, Zenon DEF k
    <3>4. J[n] = p \o q /\ K[n] = s \o t
      BY <1>5, <1>6, Zenon
    <3>5. Chars(p) = Printable(s) /\ Chars(q) = Printable(t)
      BY <1>2, <2>1, Zenon
    <3> HIDE DEF p, q, s, t
    <3>6. Chars(p \o q) = Chars(p) \o Chars(q)
      <4>1. CharsApart(p, q)
        BY <3>2, CharsTwo, Zenon
      <4> QED
        BY <4>1, Zenon DEF CharsApart
    <3>7. Printable(s \o t) = Printable(s) \o Printable(t)
      BY <3>2, <3>3, PrintableTwo, Zenon
    <3>8. Chars(J[n]) = Printable(K[n])
      BY <3>4, <3>5, <3>6, <3>7, Zenon
    <3> QED
      BY <3>1, <3>8, Zenon
  <2> QED
    BY <2>1, Zenon
<1>9. \A n \in 0..k : n \in T
  <2> HIDE DEF T
  <2> QED
    BY <1>1, <1>7, <1>8, Upwards, Zenon
<1>10. Chars(J[k]) = Printable(K[k])
  <2>1. k \in 0..k
    BY <1>1
  <2> QED
    BY <1>9, <2>1, Zenon
<1>11. Joined(g) = J[k] /\ Joined(all) = K[k]
  BY <1>3, Zenon DEF Joined, J, K, k
<1> QED
  BY <1>10, <1>11, Zenon

\* The lines that the log may have are on the screen.
LEMMA LineOnScreen ==
    ASSUME NEW m \in Nat \ {0}, NEW h \in Nat, NEW w \in Nat, NEW y \in 0..w - (m - 1) * h,
           NEW n \in Nat, n = 1 \/ n \in 1..m
    PROVE  y + (n - 1) * h \in 0..w
<1> DEFINE a == n - 1
           b == m - 1
           c == b - a
<1>1. a \in Nat /\ b \in Nat /\ (a = 0 \/ c \in Nat) /\ b = a + c
  OBVIOUS
<1>2. y \in 0..w - b * h
  OBVIOUS
<1>3. SUFFICES y + a * h \in 0..w
  OBVIOUS
<1> HIDE DEF a, b, c
<1>4. CASE c \in Nat
  <2>1. b * h = a * h + c * h /\ a * h \in Nat /\ c * h \in Nat
    BY <1>1, <1>4
  <2> DEFINE i == a * h
             j == c * h
             l == b * h
  <2> HIDE DEF i, j, l
  <2>2. l = i + j /\ i \in Nat /\ j \in Nat /\ y \in 0..w - l
    BY <1>2, <2>1, Zenon DEF i, j, l
  <2>3. y + i \in 0..w
    BY <2>2
  <2> QED
    BY <2>3, Zenon DEF i
<1>5. CASE a = 0
  <2>1. a * h = 0
    BY <1>5
  <2>2. b * h \in Nat
    BY <1>1
  <2> DEFINE i == a * h
             l == b * h
  <2> HIDE DEF i, l
  <2>3. i = 0 /\ l \in Nat /\ y \in 0..w - l
    BY <1>2, <2>1, <2>2, Zenon DEF i, l
  <2>4. y + i \in 0..w
    BY <2>3
  <2> QED
    BY <2>4, Zenon DEF i
<1> QED
  BY <1>1, <1>4, <1>5, Zenon

\* All that the font has of a log is drawn, if its last line ends in a newline or is
\* the only one, and there are no more lines than the screen has room for.
LEMMA LogIsDrawn ==
    ASSUME NEW t \in Text, Breaks(t) <= MaxLogLines, Newline \in Range(t) => Last(t) = Newline,
           NEW x \in 0..Width, NEW y \in 0..Width - (MaxLogLines - 1) * LineHeight
    PROVE  Chars(LogLines(x, y, t)) = Printable(t)
<1> DEFINE s == LogSplit(t)[Len(t)]
           all == Append(s.lines, SubSeq(t, s.from, s.from + s.length - 1))
           at(n) == Placed(x, y + (n - 1) * LineHeight, all[n], "LEFT", 0)
           g == [n \in DOMAIN all |-> at(n)]
<1>1. LogLines(x, y, t) = Joined(g)
  BY DEF LogLines
<1>2. LinesMake(t, all)
  BY LinesAre, Zenon
<1> HIDE DEF s, all
<1>3. /\ all \in Seq(Text)
      /\ Printable(Joined(all)) = Printable(t)
      /\ \A n \in DOMAIN all : all[n] = <<>> \/ n = 1 \/ n \in 1..Breaks(t)
  BY <1>2, Zenon DEF LinesMake
<1>4. \A n \in DOMAIN all : n \in Nat /\ n # 0 /\ all[n] \in Text
  <2>1. \A n \in DOMAIN all : n \in Nat /\ n # 0 /\ n \in 1..Len(all)
    BY <1>3
  <2>2. \A n \in DOMAIN all : all[n] \in Text
    BY <1>3, <2>1, SeqElement, Zenon
  <2> QED
    BY <2>1, <2>2, Zenon
<1>5. /\ LineHeight \in Nat /\ MaxLogLines \in Nat \ {0} /\ Width \in Nat
      /\ Breaks(t) \in Nat
  <2>1. LineHeight \in Nat /\ Width \in Nat
    BY DisplayAssumption, FontAssumption
  <2> QED
    BY <2>1, LogAssumption, BreaksIn, Zenon
<1>6. ASSUME NEW n \in DOMAIN all
      PROVE  PlacedAll(at(n), all[n])
  <2> DEFINE z == y + (n - 1) * LineHeight
             line == all[n]
  <2>1. at(n) = Placed(x, z, line, "LEFT", 0)
    OBVIOUS
  <2>2. n \in Nat /\ line \in Text
    BY <1>4, Zenon
  <2>3. z \in Int /\ x \in Int
    <3>1. y \in Int /\ x \in Int
      <4> DEFINE i == (MaxLogLines - 1) * LineHeight
      <4>1. i \in Int
        BY <1>5
      <4>2. y \in 0..Width - i
        OBVIOUS
      <4> HIDE DEF i
      <4> QED
        BY <1>5, <4>1, <4>2
    <3>2. (n - 1) * LineHeight \in Int
      BY <1>5, <2>2
    <3> DEFINE i == (n - 1) * LineHeight
    <3> HIDE DEF i
    <3>3. y + i \in Int
      BY <3>1, <3>2 DEF i
    <3> QED
      BY <3>1, <3>3, Zenon DEF i
  <2>4. CASE line = <<>>
    <3> HIDE DEF z, line, at
    <3>1. PlacedAll(Placed(x, z, <<>>, "LEFT", 0), <<>>)
      BY <2>3, NonePlaced, Zenon
    <3>2. PlacedAll(Placed(x, z, line, "LEFT", 0), line)
      BY <2>4, <3>1, Zenon
    <3> QED
      BY <2>1, <3>2, Zenon DEF line
  <2>5. CASE line # <<>>
    <3>1. n = 1 \/ n \in 1..MaxLogLines
      <4>1. n = 1 \/ n \in 1..Breaks(t)
        BY <1>3, <2>5, Zenon
      <4> DEFINE b == Breaks(t)
      <4> HIDE DEF b
      <4>2. n \in 1..b => n \in 1..MaxLogLines
        <5>1. b \in Nat /\ b <= MaxLogLines /\ MaxLogLines \in Nat \ {0}
          BY <1>5, Zenon DEF b
        <5> QED
          BY <5>1
      <4> QED
        BY <4>1, <4>2, Zenon DEF b
    <3>2. z \in 0..Width
      BY <1>5, <2>2, <3>1, LineOnScreen, Zenon
    <3> HIDE DEF z, line, at
    <3>3. PlacedAll(Placed(x, z, line, "LEFT", 0), line)
      BY <2>2, <3>2, LinePlaced, Zenon
    <3> QED
      BY <2>1, <3>3, Zenon DEF line
  <2> QED
    BY <2>4, <2>5, Zenon
<1> HIDE DEF at
<1>7. DOMAIN g = DOMAIN all /\ g = [n \in DOMAIN g |-> g[n]] /\ \A n \in DOMAIN all : g[n] = at(n)
  BY Zenon
<1> HIDE DEF g
<1>8. \A n \in DOMAIN all : PlacedAll(g[n], all[n])
  BY <1>6, <1>7, Zenon
<1>9. Chars(Joined(g)) = Printable(Joined(all))
  BY <1>3, <1>7, <1>8, LinesPlaced, Zenon
<1> QED
  BY <1>1, <1>3, <1>9, Zenon

LEMMA LogInvIsDrawn ==
    ASSUME LogInv, ShapeInv
    PROVE  LogDrawn
<1> DEFINE s == shape.what
           placed == Glyphs(s)
<1>1. SUFFICES ASSUME shape.op = "log",
                      s.x \in 0..Width, s.y \in 0..Width - (MaxLogLines - 1) * LineHeight,
                      Newline \in Range(logBuffer) => Last(logBuffer) = Newline
               PROVE  [n \in DOMAIN placed |-> placed[n].char] = Printable(logBuffer)
  BY Zenon DEF LogDrawn
<1>2. s.op = "log"
  <2>1. shape # NoShape
    BY <1>1 DEF NoShape
  <2> QED
    BY <1>1, <2>1, Zenon DEF ShapeInv, DrawnLast
<1>3. placed = LogLines(s.x, s.y, logBuffer)
  BY <1>2 DEF Glyphs
<1>4. logBuffer \in Text
  <2>1. Fit(Log)
    BY Zenon DEF LogInv
  <2>2. Log.text \in Text
    BY <2>1, FitTyped, Zenon
  <2> QED
    BY <2>2, LogParts, Zenon
<1>5. Breaks(logBuffer) <= MaxLogLines
  BY LogInvIsRecent, Zenon DEF LogIsRecent, Breaks
<1>6. Chars(LogLines(s.x, s.y, logBuffer)) = Printable(logBuffer)
  <2> DEFINE x == s.x
             y == s.y
  <2>1. x \in 0..Width /\ y \in 0..Width - (MaxLogLines - 1) * LineHeight
    BY <1>1, Zenon
  <2> HIDE DEF x, y
  <2>2. Chars(LogLines(x, y, logBuffer)) = Printable(logBuffer)
    BY <1>1, <1>4, <1>5, <2>1, LogIsDrawn, Zenon
  <2> QED
    BY <2>2, Zenon DEF x, y
<1> QED
  BY <1>3, <1>6, Zenon DEF Chars

\* Through every overflow of its lines and characters, of any size, the log keeps the
\* newest of what was written, and what it keeps is drawn.
THEOREM LogIsRight == DisplaySpec => []LogRight
<1> DEFINE Inv == PanelTyped /\ ShapeInv /\ LogInv
<1>1. DisplayInit => Inv
  <2>1. DisplayInit => PanelTyped /\ ShapeInv
    BY Zenon DEF DisplayInit, PanelTyped, ShapeInv
  <2> QED
    BY <2>1, LogStarts, Zenon
<1>2. Inv /\ [DisplayNext]_displayVars => Inv'
  BY PanelTypedStep, ShapeStep, LogStep, Zenon
<1>3. Inv => LogRight
  BY DisplayTyped, LogInvIsRecent, LogInvIsDrawn, Zenon DEF LogRight
<1> QED
  BY <1>1, <1>2, <1>3, PTL DEF DisplaySpec

-----------------------------------------------------------------------------
(* The panel *)

\* The box that display() sends takes in every pixel that has changed.
LEMMA BoxCoversChanges ==
    ASSUME NEW p \in Screen, (p \in buffer) # (p \in buffer_back)
    PROVE  p \in Box
<1>1. PICK x \in Columns, y \in Rows : p = <<x, y>>
    BY DEF Screen
<1>2. Differs(p)
    BY <1>1 DEF Differs
<1> DEFINE changed == {q \in Screen : Differs(q)}
           columns == {q[1] : q \in changed}
           pages   == {Page(q[2]) : q \in changed}
<1>3. x \in columns /\ Page(y) \in pages
    BY <1>1, <1>2
<1>4. x <= x /\ Page(y) <= Page(y)
    BY DisplayAssumption DEF Page, Rows, Columns
<1>5. QED
    BY <1>1, <1>3, <1>4 DEF Box

LEMMA PanelStep ==
    ASSUME PanelInv, [DisplayNext]_displayVars
    PROVE  PanelInv'
<1> USE DEF PanelInv, PanelShowsBuffer, CopyIsPanel
<1>1. ASSUME NEW s \in Shapes, NEW color \in Colors, Draw(s, color)
      PROVE  PanelInv'
    <2> DEFINE c == IF s.op = "bar" THEN "WHITE" ELSE color
    <2>1. c \in Colors
        BY DEF Colors
    <2>2. PICK strokes : buffer' = Painted(buffer, c, strokes)
        BY <1>1 DEF Draw
    <2>3. buffer' \subseteq Screen
        BY <2>1, <2>2, PaintedOnScreen
    <2>4. QED
        BY <1>1, <2>3 DEF Draw, panelVars
<1>2. CASE Clear
    BY <1>2 DEF Clear, panelVars
<1>3. CASE display
    <2>1. ready => panel' = (panel \ Box) \union (buffer \intersect Box)
        BY <1>3 DEF display, Sent
    <2>2. clean => panel' = buffer
        BY <2>1, BoxCoversChanges
    <2>3. QED
        BY <1>3, <2>2 DEF display
<1>4. CASE DisplayFails
    BY <1>4 DEF DisplayFails
<1>5. CASE PanelRestarts
    BY <1>5 DEF PanelRestarts, bufferVars
<1>6. ASSUME NEW on, BlankPanel(on)
      PROVE  PanelInv'
    BY <1>6 DEF BlankPanel
<1>7. ASSUME UNCHANGED <<panelVars, bufferVars>>
      PROVE  PanelInv'
    BY <1>7 DEF panelVars, bufferVars
<1>8. CASE LogNext
    BY <1>6, <1>7, <1>8 DEF LogNext, init, SetLogBuffer, Write
<1>9. CASE UNCHANGED displayVars
    BY <1>7, <1>9 DEF displayVars
<1>10. QED
    BY <1>1, <1>2, <1>3, <1>4, <1>5, <1>6, <1>8, <1>9
       DEF DisplayNext, PanelNext, ResetDisplay

\* After display() the panel shows the buffer, on a display of any size and whatever
\* was drawn, though only what is taken to have changed is sent.
THEOREM PanelIsRight == DisplaySpec => []PanelInv
<1>1. DisplayInit => PanelInv
    BY DEF DisplayInit, PanelInv, PanelShowsBuffer, CopyIsPanel
<1>2. QED
    BY <1>1, PanelStep, PTL DEF DisplaySpec

===============================================================================
