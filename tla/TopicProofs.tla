------------------------------ MODULE TopicProofs ------------------------------
(***************************************************************************)
(* A message goes to the handlers whose filter matches its topic as MQTT   *)
(* says it does, for every length of filter and topic: isTopicMatched()    *)
(* walks both character by character, and Covers compares them level by    *)
(* level.  Both are functions by recursion from the end of the text.       *)
(***************************************************************************)
EXTENDS MessagesProofs, TopicFilter

-----------------------------------------------------------------------------
(* Recursion from the end of a sequence *)

LEMMA Downwards ==
    ASSUME NEW k \in Nat, NEW T, k + 1 \in T, \A n \in 1..k : n + 1 \in T => n \in T
    PROVE  \A n \in 1..k + 1 : n \in T
<1> DEFINE B == {d \in Nat : d <= k => k + 1 - d \in T}
<1>1. 0 \in B
  BY k + 1 - 0 = k + 1
<1>2. \A d \in Nat : d \in B => d + 1 \in B
  <2> SUFFICES ASSUME NEW d \in Nat, d \in B, d + 1 <= k
               PROVE  k + 1 - (d + 1) \in T
    OBVIOUS
  <2>1. k + 1 - d \in T
    OBVIOUS
  <2>2. k + 1 - (d + 1) \in 1..k /\ (k + 1 - (d + 1)) + 1 = k + 1 - d
    OBVIOUS
  <2> DEFINE n == k + 1 - (d + 1)
  <2> HIDE DEF n
  <2>3. n \in 1..k /\ n + 1 \in T
    BY <2>1, <2>2 DEF n
  <2>4. n \in T
    BY <2>3
  <2> QED
    BY <2>4 DEF n
<1>3. \A d \in Nat : d \in B
  <2> HIDE DEF B
  <2> QED
    BY <1>1, <1>2, Induction
<1> TAKE n \in 1..k + 1
<1>4. k + 1 - n \in Nat /\ k + 1 - n <= k /\ k + 1 - (k + 1 - n) = n
  OBVIOUS
<1> DEFINE d == k + 1 - n
<1> HIDE DEF d
<1>5. d \in Nat /\ d <= k /\ k + 1 - d = n
  BY <1>4 DEF d
<1>6. d \in B
  BY <1>3, <1>5
<1>7. k + 1 - d \in T
  BY <1>5, <1>6
<1> QED
  BY <1>5, <1>7

\* What each value has from the next one is a function of it, step[n].
Descends(f, k, base, step) ==
    \A n \in 1..k + 1 : f[n] = IF n > k THEN base ELSE step[n][f[n + 1]]

LEMMA Descent ==
    ASSUME NEW k \in Nat, NEW V, NEW base \in V, NEW step \in [1..k -> [V -> V]]
    PROVE  \E f \in [1..k + 1 -> V] : Descends(f, k, base, step)
<1> DEFINE Partly(f, n) == \A p \in n..k + 1 : f[p] = IF p > k THEN base ELSE step[p][f[p + 1]]
           T == {n \in Int : \E f \in [1..k + 1 -> V] : Partly(f, n)}
<1>1. k + 1 \in T
  <2> DEFINE g == [p \in 1..k + 1 |-> base]
  <2>1. g \in [1..k + 1 -> V] /\ Partly(g, k + 1)
    OBVIOUS
  <2> QED
    <3> HIDE DEF Partly, g
    <3> QED
      BY <2>1
<1>2. \A n \in 1..k : n + 1 \in T => n \in T
  <2> SUFFICES ASSUME NEW n \in 1..k, NEW f \in [1..k + 1 -> V], Partly(f, n + 1)
               PROVE  \E g \in [1..k + 1 -> V] : Partly(g, n)
    <3> HIDE DEF Partly
    <3> QED
      OBVIOUS
  <2> DEFINE here == step[n][f[n + 1]]
             g    == [p \in 1..k + 1 |-> IF p = n THEN here ELSE f[p]]
  <2>1. here \in V
    OBVIOUS
  <2> HIDE DEF here
  <2>2. g \in [1..k + 1 -> V]
    BY <2>1
  <2>3. \A p \in 1..k + 1 : g[p] = IF p = n THEN here ELSE f[p]
    OBVIOUS
  <2> HIDE DEF g
  <2>4. g[n + 1] = f[n + 1] /\ g[n] = here
    BY <2>3
  <2>5. g[n] = step[n][g[n + 1]]
    BY <2>4, Zenon DEF here
  <2>6. ASSUME NEW p \in n..k + 1
        PROVE  g[p] = IF p > k THEN base ELSE step[p][g[p + 1]]
    <3>1. CASE p = n
      BY <3>1, <2>5
    <3>2. CASE p # n
      <4>1. p \in n + 1..k + 1 /\ g[p] = f[p] /\ (~(p > k) => g[p + 1] = f[p + 1])
        BY <3>2, <2>3
      <4> QED
        BY <4>1
    <3> QED
      BY <3>1, <3>2
  <2> QED
    BY <2>2, <2>6
<1>3. 1 \in T
  <2> HIDE DEF T
  <2>1. \A n \in 1..k + 1 : n \in T
    BY <1>1, <1>2, Downwards, Zenon
  <2> QED
    BY <2>1
<1> QED
  BY <1>3 DEF Descends

-----------------------------------------------------------------------------
(* The levels of a name *)

LevelFrom(name, f, n) ==
    IF n > Len(name) THEN << <<>> >>
    ELSE IF name[n] = Separator THEN << <<>> >> \o f[n + 1]
    ELSE << <<name[n]>> \o Head(f[n + 1]) >> \o Tail(f[n + 1])
LevelsFrom(name) ==
    CHOOSE f : f = [n \in 1..Len(name) + 1 |-> LevelFrom(name, f, n)]

\* There is always a level
SomeLevels == Seq(Seq(STRING)) \ {<<>>}

LEMMA LevelsExist ==
    ASSUME NEW name \in Seq(STRING)
    PROVE  \E f : f = [n \in 1..Len(name) + 1 |-> LevelFrom(name, f, n)]
<1> DEFINE k == Len(name)
           base == << <<>> >>
           step == [n \in 1..k |-> [v \in SomeLevels |->
                      IF name[n] = Separator THEN << <<>> >> \o v
                      ELSE << <<name[n]>> \o Head(v) >> \o Tail(v)]]
<1>1. k \in Nat /\ base \in SomeLevels
  BY DEF SomeLevels
<1>2. ASSUME NEW n \in 1..k, NEW v \in SomeLevels
      PROVE  /\ << <<>> >> \o v \in SomeLevels
             /\ << <<name[n]>> \o Head(v) >> \o Tail(v) \in SomeLevels
  <2>1. v \in Seq(Seq(STRING)) /\ v # <<>> /\ name[n] \in STRING
    BY DEF SomeLevels
  <2>2. Head(v) \in Seq(STRING) /\ Tail(v) \in Seq(Seq(STRING))
    BY <2>1
  <2>3. <<name[n]>> \o Head(v) \in Seq(STRING)
    BY <2>1, <2>2
  <2> DEFINE u == <<name[n]>> \o Head(v)
             w == Tail(v)
  <2> HIDE DEF u, w
  <2>4. u \in Seq(STRING) /\ w \in Seq(Seq(STRING))
    BY <2>2, <2>3 DEF u, w
  <2>5. <<u>> \o w \in Seq(Seq(STRING)) /\ Len(<<u>> \o w) = 1 + Len(w)
    BY <2>4
  <2>6. << <<>> >> \o v \in Seq(Seq(STRING)) /\ Len(<< <<>> >> \o v) = 1 + Len(v)
    BY <2>1
  <2>7. << <<>> >> \o v # <<>> /\ <<u>> \o w # <<>>
    BY <2>1, <2>4, <2>5, <2>6
  <2> QED
    BY <2>5, <2>6, <2>7 DEF u, w, SomeLevels
<1>3. step \in [1..k -> [SomeLevels -> SomeLevels]]
  BY <1>2
<1> DEFINE D == 1..k + 1
<1>4. PICK f \in [D -> SomeLevels] :
         \A n \in D : f[n] = IF n > k THEN base ELSE step[n][f[n + 1]]
  <2> HIDE DEF base, step, k
  <2>1. \E f \in [1..k + 1 -> SomeLevels] : Descends(f, k, base, step)
    BY <1>1, <1>3, Descent, Zenon
  <2> QED
    BY <2>1, Zenon DEF Descends
<1>5. ASSUME NEW n \in D
      PROVE  f[n] = LevelFrom(name, f, n)
  <2>1. CASE n > k
    BY <2>1, <1>4 DEF LevelFrom
  <2>2. CASE ~(n > k)
    <3>1. n \in 1..k /\ f[n + 1] \in SomeLevels
      BY <2>2, <1>1
    <3>2. f[n] = step[n][f[n + 1]]
      <4> HIDE DEF step, base
      <4> QED
        BY <1>4, <2>2
    <3>3. step[n][f[n + 1]] = IF name[n] = Separator THEN << <<>> >> \o f[n + 1]
                              ELSE << <<name[n]>> \o Head(f[n + 1]) >> \o Tail(f[n + 1])
      BY <3>1, Zenon
    <3> QED
      BY <2>2, <3>2, <3>3, Zenon DEF LevelFrom
  <2> QED
    BY <2>1, <2>2
<1>6. f = [n \in D |-> f[n]]
  OBVIOUS
<1>7. [n \in D |-> f[n]] = [n \in D |-> LevelFrom(name, f, n)]
  BY <1>5, Zenon
<1>8. f = [n \in D |-> LevelFrom(name, f, n)]
  BY <1>6, <1>7, Zenon
<1> QED
  BY <1>8

\* The sequences differ from each other, if at all, in the first level
SameRest(a, b) == Len(a) = Len(b) /\ \A i \in 2..Len(a) : a[i] = b[i]

\* A separator begins a level, and another character lengthens the first
OneMore(a, b)    == /\ Len(a) = Len(b) + 1 /\ a[1] = <<>>
                    /\ \A i \in 1..Len(b) : a[i + 1] = b[i]
Longer(a, b, c) == SameRest(a, b) /\ a[1] = <<c>> \o b[1]

\* What the levels from a character on have to do with those from the next on.
LEMMA LevelsAre ==
    ASSUME NEW name \in Seq(STRING), NEW L, L = LevelsFrom(name)
    PROVE  /\ Levels(name) = L[1]
           /\ \A n \in 1..Len(name) + 1 : L[n] \in Seq(Seq(STRING)) /\ Len(L[n]) >= 1
           /\ L[Len(name) + 1] = << <<>> >>
           /\ \A n \in 1..Len(name) : name[n] = Separator => OneMore(L[n], L[n + 1])
           /\ \A n \in 1..Len(name) : name[n] # Separator => Longer(L[n], L[n + 1], name[n])
<1> DEFINE k == Len(name)
           h == [n \in 1..k + 1 |-> LevelFrom(name, L, n)]
<1>1. L = h
  BY LevelsExist, Zenon DEF LevelsFrom
<1>2. k \in Nat
  OBVIOUS
<1>3. \A n \in 1..k + 1 : L[n] = LevelFrom(name, L, n)
  <2>1. \A n \in 1..k + 1 : h[n] = LevelFrom(name, L, n)
    BY Zenon
  <2> HIDE DEF h
  <2> QED
    BY <1>1, <2>1, Zenon
<1>4. L[k + 1] = << <<>> >>
  <2>1. k + 1 \in 1..k + 1 /\ k + 1 > k
    BY <1>2
  <2> QED
    BY <2>1, <1>3, Zenon DEF LevelFrom
<1> DEFINE T == {n \in Int : L[n] \in Seq(Seq(STRING)) /\ Len(L[n]) >= 1}
<1>5. k + 1 \in T
  <2>1. << <<>> >> \in Seq(Seq(STRING)) /\ Len(<< <<>> >>) >= 1
    OBVIOUS
  <2>2. k + 1 \in Int
    BY <1>2
  <2> HIDE DEF k
  <2> QED
    BY <2>1, <2>2, <1>4, Zenon
<1> HIDE DEF h
<1>6. ASSUME NEW n \in 1..k, n + 1 \in T
      PROVE  /\ n \in T
             /\ name[n] = Separator => OneMore(L[n], L[n + 1])
             /\ name[n] # Separator => Longer(L[n], L[n + 1], name[n])
  <2> DEFINE v == L[n + 1]
  <2>1. v \in Seq(Seq(STRING)) /\ Len(v) >= 1 /\ name[n] \in STRING /\ n \in 1..k + 1
        /\ ~(n > k) /\ n \in Int
    BY <1>2, <1>6
  <2>2. L[n] = IF name[n] = Separator THEN << <<>> >> \o v ELSE << <<name[n]>> \o Head(v) >> \o Tail(v)
    BY <2>1, <1>3 DEF LevelFrom
  <2>3. CASE name[n] = Separator
    <3>1. L[n] = << <<>> >> \o v
      BY <2>2, <2>3, Zenon
    <3> HIDE DEF v
    <3>2. /\ << <<>> >> \o v \in Seq(Seq(STRING)) /\ Len(<< <<>> >> \o v) = Len(v) + 1
          /\ (<< <<>> >> \o v)[1] = <<>>
          /\ \A i \in 1..Len(v) : (<< <<>> >> \o v)[i + 1] = v[i]
      BY <2>1
    <3>3. L[n] \in Seq(Seq(STRING)) /\ Len(L[n]) = Len(v) + 1 /\ L[n][1] = <<>>
          /\ \A i \in 1..Len(v) : L[n][i + 1] = v[i]
      BY <3>1, <3>2, Zenon
    <3>4. Len(L[n]) >= 1
      <4>1. Len(v) \in Nat
        BY <2>1
      <4>2. Len(v) + 1 >= 1
        BY <4>1
      <4> QED
        BY <3>3, <4>2, Zenon
    <3>5. n \in T
      <4> HIDE DEF k
      <4> QED
        BY <3>3, <3>4, <2>1
    <3> HIDE DEF T
    <3> QED
      BY <3>3, <3>5, <2>3, Zenon DEF v, OneMore
  <2>4. CASE name[n] # Separator
    <3> DEFINE u == <<name[n]>> \o Head(v)
               w == Tail(v)
    <3>1. L[n] = <<u>> \o w
      BY <2>2, <2>4, Zenon
    <3> HIDE DEF v
    <3>2. Head(v) = v[1] /\ Head(v) \in Seq(STRING) /\ w \in Seq(Seq(STRING)) /\ Len(w) = Len(v) - 1
          /\ \A i \in 1..Len(v) - 1 : w[i] = v[i + 1]
      BY <2>1
    <3>3. u \in Seq(STRING) /\ u = <<name[n]>> \o v[1]
      BY <2>1, <3>2
    <3> HIDE DEF u, w
    <3>4. <<u>> \o w \in Seq(Seq(STRING)) /\ Len(<<u>> \o w) = Len(w) + 1 /\ (<<u>> \o w)[1] = u
          /\ \A i \in 2..Len(w) + 1 : (<<u>> \o w)[i] = w[i - 1]
      BY <3>2, <3>3
    <3>5. L[n] \in Seq(Seq(STRING)) /\ Len(L[n]) = Len(w) + 1 /\ L[n][1] = u
          /\ \A i \in 2..Len(w) + 1 : L[n][i] = w[i - 1]
      BY <3>1, <3>4, Zenon
    <3>6. Len(L[n]) = Len(v) /\ Len(L[n]) >= 1 /\ \A i \in 2..Len(v) : L[n][i] = v[i]
      <4>1. Len(w) + 1 = Len(v) /\ Len(v) \in Nat
        BY <2>1, <3>2
      <4>2. \A i \in 2..Len(v) : i - 1 \in 1..Len(v) - 1 /\ (i - 1) + 1 = i
        BY <4>1
      <4> QED
        BY <4>1, <4>2, <3>2, <3>5, <2>1
    <3>7. n \in T
      <4> HIDE DEF k
      <4> QED
        BY <3>5, <3>6, <2>1
    <3> HIDE DEF T
    <3> QED
      BY <3>3, <3>5, <3>6, <3>7, <2>4, Zenon DEF v, Longer, SameRest
  <2> QED
    BY <2>3, <2>4
<1>7. \A n \in 1..k + 1 : n \in T
  <2>1. \A n \in 1..k : n + 1 \in T => n \in T
    <3> HIDE DEF T
    <3> QED
      BY <1>6
  <2> HIDE DEF T, k
  <2> QED
    BY <1>2, <1>5, <2>1, Downwards
<1>8. Levels(name) = L[1]
  BY DEF Levels, LevelsFrom, LevelFrom
<1> QED
  <2>1. \A n \in 1..k : n + 1 \in 1..k + 1
    BY <1>2
  <2>2. \A n \in 1..k : n + 1 \in T
    <3> HIDE DEF T
    <3> QED
      BY <1>7, <2>1
  <2> QED
    BY <1>4, <1>6, <1>7, <1>8, <2>2


-----------------------------------------------------------------------------
(* What a filter covers *)

\* That a level of the topic agrees with one of the filter
Meets(u, v) == u = <<"+">> \/ u = v

LEMMA CoversIs ==
    ASSUME NEW a, NEW b, NEW d \in {0, 1}, Len(a) \in Nat, Len(a) >= 1
    PROVE  Covers(a, b, d) <=>
              IF a[Len(a)] = <<"#">>
              THEN Len(b) >= Len(a) - 1 + d /\ \A i \in 1..Len(a) - 1 : Meets(a[i], b[i])
              ELSE Len(b) = Len(a) /\ \A i \in 1..Len(a) : Meets(a[i], b[i])
<1>1. CASE a[Len(a)] = <<"#">>
  BY <1>1 DEF Covers, Last, Meets
<1>2. CASE a[Len(a)] # <<"#">>
  BY <1>2 DEF Covers, Last, Meets
<1> QED
  BY <1>1, <1>2

\* All but the first levels are the same, and these meet in both pairs or in neither
SameMeeting(a2, b2, a, b) ==
    /\ SameRest(a2, a) /\ SameRest(b2, b)
    /\ a[1] # <<"#">> /\ a2[1] # <<"#">> /\ (Meets(a2[1], b2[1]) <=> Meets(a[1], b[1]))

\* It does not matter what is in the first level as long as it agrees.
LEMMA FirstLevel ==
    ASSUME NEW a, NEW b, NEW a2, NEW b2, NEW d \in {0, 1},
           Len(a) \in Nat, Len(a) >= 1, Len(b) \in Nat, Len(b) >= 1,
           SameMeeting(a2, b2, a, b)
    PROVE  Covers(a2, b2, d) <=> Covers(a, b, d)
<1> DEFINE k == Len(a)
           l == Len(b)
<1>1. Len(a2) = k /\ Len(b2) = l /\ k \in Nat /\ k >= 1 /\ l \in Nat /\ l >= 1
  BY DEF SameMeeting, SameRest
<1>2. \A i \in 2..k : a2[i] = a[i]
  BY DEF SameMeeting, SameRest
<1>3. \A i \in 2..l : b2[i] = b[i]
  BY DEF SameMeeting, SameRest
<1> HIDE DEF k, l
<1>4. a2[k] = <<"#">> <=> a[k] = <<"#">>
  <2>1. CASE k = 1
    BY <2>1 DEF SameMeeting
  <2>2. CASE k # 1
    BY <2>2, <1>1, <1>2
  <2> QED
    BY <2>1, <2>2
<1>5. \A n \in Nat : n <= k /\ n <= l =>
         ((\A i \in 1..n : Meets(a2[i], b2[i])) <=> \A i \in 1..n : Meets(a[i], b[i]))
  <2> SUFFICES ASSUME NEW n \in Nat, n <= k, n <= l, NEW i \in 1..n
               PROVE  Meets(a2[i], b2[i]) <=> Meets(a[i], b[i])
    OBVIOUS
  <2>1. CASE i = 1
    BY <2>1 DEF SameMeeting
  <2>2. CASE i # 1
    <3>1. i \in 2..k /\ i \in 2..l
      BY <2>2, <1>1
    <3> QED
      BY <3>1, <1>2, <1>3
  <2> QED
    BY <2>1, <2>2
<1> DEFINE C(x, y) == IF x[k] = <<"#">>
                      THEN l >= k - 1 + d /\ \A i \in 1..k - 1 : Meets(x[i], y[i])
                      ELSE l = k /\ \A i \in 1..k : Meets(x[i], y[i])
<1>6. Covers(a, b, d) <=> C(a, b)
  BY CoversIs, <1>1 DEF k, l
<1>7. Covers(a2, b2, d) <=> C(a2, b2)
  <2>1. Len(a2) \in Nat /\ Len(a2) >= 1
    BY <1>1
  <2>2. Covers(a2, b2, d) <=>
           IF a2[Len(a2)] = <<"#">>
           THEN Len(b2) >= Len(a2) - 1 + d /\ \A i \in 1..Len(a2) - 1 : Meets(a2[i], b2[i])
           ELSE Len(b2) = Len(a2) /\ \A i \in 1..Len(a2) : Meets(a2[i], b2[i])
    BY <2>1, CoversIs, Zenon
  <2> QED
    BY <2>2, <1>1
<1>8. C(a2, b2) <=> C(a, b)
  <2>1. CASE a[k] = <<"#">>
    <3>1. l >= k - 1 + d => k - 1 \in Nat /\ k - 1 <= k /\ k - 1 <= l
      BY <1>1
    <3> QED
      BY <3>1, <2>1, <1>4, <1>5
  <2>2. CASE a[k] # <<"#">>
    BY <2>2, <1>1, <1>4, <1>5
  <2> QED
    BY <2>1, <2>2
<1> HIDE DEF C
<1> QED
  BY <1>6, <1>7, <1>8, Zenon

\* Nor does an empty level before both matter.
LEMMA LevelMore ==
    ASSUME NEW a, NEW b, NEW a2, NEW b2, NEW d \in {0, 1},
           Len(a) \in Nat, Len(a) >= 1, Len(b) \in Nat, Len(b) >= 1,
           OneMore(a2, a), OneMore(b2, b)
    PROVE  Covers(a2, b2, d) <=> Covers(a, b, d)
<1> DEFINE k == Len(a)
           l == Len(b)
<1>1. Len(a2) = k + 1 /\ Len(b2) = l + 1 /\ k \in Nat /\ k >= 1 /\ l \in Nat /\ l >= 1
  BY DEF OneMore
<1>2. (\A i \in 1..k : a2[i + 1] = a[i]) /\ (\A i \in 1..l : b2[i + 1] = b[i])
  BY DEF OneMore
<1> HIDE DEF k, l
<1>3. a2[k + 1] = a[k]
  BY <1>1, <1>2
<1>4. Meets(a2[1], b2[1])
  BY DEF Meets, OneMore
<1>5. \A n \in Nat : n <= k /\ n <= l =>
         ((\A i \in 1..n + 1 : Meets(a2[i], b2[i])) <=> \A i \in 1..n : Meets(a[i], b[i]))
  <2> SUFFICES ASSUME NEW n \in Nat, n <= k, n <= l
               PROVE  (\A i \in 1..n + 1 : Meets(a2[i], b2[i])) <=> \A i \in 1..n : Meets(a[i], b[i])
    OBVIOUS
  <2>1. \A i \in 1..n : Meets(a2[i + 1], b2[i + 1]) <=> Meets(a[i], b[i])
    <3> TAKE i \in 1..n
    <3>1. i \in 1..k /\ i \in 1..l
      BY <1>1
    <3> QED
      BY <3>1, <1>2
  <2>2. ASSUME \A i \in 1..n + 1 : Meets(a2[i], b2[i]), NEW i \in 1..n
        PROVE  Meets(a[i], b[i])
    <3>1. i + 1 \in 1..n + 1
      OBVIOUS
    <3> QED
      BY <3>1, <2>1, <2>2
  <2>3. ASSUME \A i \in 1..n : Meets(a[i], b[i]), NEW i \in 1..n + 1
        PROVE  Meets(a2[i], b2[i])
    <3>1. CASE i = 1
      BY <3>1, <1>4
    <3>2. CASE i # 1
      <4>1. i - 1 \in 1..n /\ (i - 1) + 1 = i
        BY <3>2
      <4>2. Meets(a2[(i - 1) + 1], b2[(i - 1) + 1])
        BY <4>1, <2>1, <2>3
      <4> QED
        BY <4>1, <4>2
    <3> QED
      BY <3>1, <3>2
  <2> QED
    BY <2>2, <2>3
<1>6. Covers(a, b, d) <=>
         IF a[k] = <<"#">> THEN l >= k - 1 + d /\ \A i \in 1..k - 1 : Meets(a[i], b[i])
         ELSE l = k /\ \A i \in 1..k : Meets(a[i], b[i])
  BY CoversIs, <1>1 DEF k, l
<1>7. Covers(a2, b2, d) <=>
         IF a[k] = <<"#">> THEN l + 1 >= k + d /\ \A i \in 1..k : Meets(a2[i], b2[i])
         ELSE l = k /\ \A i \in 1..k + 1 : Meets(a2[i], b2[i])
  <2>1. Len(a2) \in Nat /\ Len(a2) >= 1
    BY <1>1
  <2>2. Covers(a2, b2, d) <=>
           IF a2[Len(a2)] = <<"#">>
           THEN Len(b2) >= Len(a2) - 1 + d /\ \A i \in 1..Len(a2) - 1 : Meets(a2[i], b2[i])
           ELSE Len(b2) = Len(a2) /\ \A i \in 1..Len(a2) : Meets(a2[i], b2[i])
    BY <2>1, CoversIs, Zenon
  <2>3. (k + 1) - 1 = k /\ (l + 1 = k + 1 <=> l = k)
    BY <1>1
  <2>4. Covers(a2, b2, d) <=>
           IF a[k] = <<"#">>
           THEN l + 1 >= (k + 1) - 1 + d /\ \A i \in 1..(k + 1) - 1 : Meets(a2[i], b2[i])
           ELSE l + 1 = k + 1 /\ \A i \in 1..k + 1 : Meets(a2[i], b2[i])
    <3>1. Len(a2) = k + 1 /\ Len(b2) = l + 1
      BY <1>1
    <3> QED
      BY <2>2, <1>3, <3>1, Zenon
  <2> QED
    BY <2>3, <2>4, Zenon
<1>8. CASE a[k] = <<"#">>
  <2>1. l + 1 >= k + d <=> l >= k - 1 + d
    BY <1>1
  <2>2. l >= k - 1 + d => k - 1 \in Nat /\ k - 1 <= k /\ k - 1 <= l /\ (k - 1) + 1 = k
    BY <1>1
  <2>3. l >= k - 1 + d =>
           ((\A i \in 1..k : Meets(a2[i], b2[i])) <=> \A i \in 1..k - 1 : Meets(a[i], b[i]))
    <3> SUFFICES ASSUME l >= k - 1 + d
                 PROVE  (\A i \in 1..k : Meets(a2[i], b2[i])) <=> \A i \in 1..k - 1 : Meets(a[i], b[i])
      OBVIOUS
    <3>1. (\A i \in 1..(k - 1) + 1 : Meets(a2[i], b2[i])) <=> \A i \in 1..k - 1 : Meets(a[i], b[i])
      BY <2>2, <1>5
    <3> QED
      BY <3>1, <2>2
  <2>4. Covers(a, b, d) <=> l >= k - 1 + d /\ \A i \in 1..k - 1 : Meets(a[i], b[i])
    BY <1>6, <1>8, Zenon
  <2>5. Covers(a2, b2, d) <=> l + 1 >= k + d /\ \A i \in 1..k : Meets(a2[i], b2[i])
    BY <1>7, <1>8, Zenon
  <2> QED
    BY <2>1, <2>3, <2>4, <2>5, Zenon
<1>9. CASE a[k] # <<"#">>
  <2>1. l = k => ((\A i \in 1..k + 1 : Meets(a2[i], b2[i])) <=> \A i \in 1..k : Meets(a[i], b[i]))
    <3> SUFFICES ASSUME l = k
                 PROVE  (\A i \in 1..k + 1 : Meets(a2[i], b2[i])) <=> \A i \in 1..k : Meets(a[i], b[i])
      OBVIOUS
    <3>1. k \in Nat /\ k <= k /\ k <= l
      BY <1>1
    <3> QED
      BY <3>1, <1>5, Zenon
  <2>2. Covers(a, b, d) <=> l = k /\ \A i \in 1..k : Meets(a[i], b[i])
    BY <1>6, <1>9, Zenon
  <2>3. Covers(a2, b2, d) <=> l = k /\ \A i \in 1..k + 1 : Meets(a2[i], b2[i])
    BY <1>7, <1>9, Zenon
  <2> QED
    BY <2>1, <2>2, <2>3, Zenon
<1> QED
  BY <1>8, <1>9


-----------------------------------------------------------------------------
(* The walk *)

LEMMA LevelEndIs ==
    ASSUME NEW topic \in Seq(STRING), NEW n \in 1..Len(topic), NEW m, m = LevelEnd(topic, n)
    PROVE  /\ m \in n..Len(topic)
           /\ m = Len(topic) \/ topic[m + 1] = Separator
           /\ \A k \in n + 1..m : topic[k] # Separator
<1> DEFINE l == Len(topic)
           Ends == {p \in n..l : p = l \/ topic[p + 1] = Separator}
<1>1. l \in Nat /\ n \in 1..l
  OBVIOUS
<1>2. Ends \in SUBSET Nat /\ l \in Ends
  BY <1>1
<1>3. PICK p \in Ends : \A q \in Ends : p <= q
  <2> HIDE DEF Ends
  <2>1. Ends # {}
    BY <1>2
  <2> QED
    BY <1>2, <2>1, LeastNumber
<1>4. p \in n..l /\ (p = l \/ topic[p + 1] = Separator)
  OBVIOUS
<1>5. ASSUME NEW k \in n + 1..p
      PROVE  topic[k] # Separator
  <2>1. k - 1 \in n..l /\ ~(p <= k - 1) /\ (k - 1) + 1 = k
    BY <1>1, <1>4
  <2>2. k - 1 \notin Ends
    <3> HIDE DEF Ends
    <3> QED
      BY <1>3, <2>1
  <2>3. ~(topic[(k - 1) + 1] = Separator)
    BY <2>1, <2>2
  <2> QED
    BY <2>1, <2>3
<1> DEFINE Ending(q) == (q = l \/ topic[q + 1] = Separator) /\ \A k \in n + 1..q : topic[k] # Separator
<1>6. \E q \in n..l : Ending(q)
  BY <1>4, <1>5
<1>7. m = CHOOSE q \in n..l : Ending(q)
  BY DEF LevelEnd
<1> HIDE DEF Ending, l
<1>8. m \in n..l /\ Ending(m)
  BY <1>6, <1>7
<1> QED
  BY <1>8 DEF Ending, l

\* The last character of the topic that a character of the filter takes
Taken(c, topic, n) == CASE c = "+" -> LevelEnd(topic, n)
                        [] c = "#" -> Len(topic)
                        [] OTHER   -> n
WalkRow(curf, topic, w, f) ==
    [n \in 1..Len(topic) + 1 |->
        IF f > Len(curf) \/ n > Len(topic) THEN f > Len(curf) /\ n > Len(topic)
        ELSE Agrees(curf[f], topic[n]) /\ w[f + 1][Taken(curf[f], topic, n) + 1]]
WalkOf(curf, topic) ==
    CHOOSE w : w = [f \in 1..Len(curf) + 1 |-> WalkRow(curf, topic, w, f)]

LEMMA WalkExists ==
    ASSUME NEW curf \in Seq(STRING), NEW topic \in Seq(STRING)
    PROVE  \E w : w = [f \in 1..Len(curf) + 1 |-> WalkRow(curf, topic, w, f)]
<1> DEFINE k == Len(curf)
           D == 1..Len(topic) + 1
           V == [D -> BOOLEAN]
           base == [n \in D |-> n > Len(topic)]
           row(f, v) == [n \in D |-> IF n > Len(topic) THEN FALSE
                                     ELSE Agrees(curf[f], topic[n]) /\ v[Taken(curf[f], topic, n) + 1]]
           step == [f \in 1..k |-> [v \in V |-> row(f, v)]]
<1>1. k \in Nat
  OBVIOUS
<1>2. base \in V
  OBVIOUS
<1>3. \A f, v : row(f, v) \in V
  <2> HIDE DEF D
  <2> QED
    BY DEF Agrees
<1>4. step \in [1..k -> [V -> V]]
  <2> HIDE DEF V, row, k
  <2> QED
    BY <1>3
<1>5. PICK w \in [1..k + 1 -> V] : Descends(w, k, base, step)
  <2> HIDE DEF V, base, step, k
  <2> QED
    BY <1>1, <1>2, <1>4, Descent, Zenon
<1>6. ASSUME NEW f \in 1..k + 1
      PROVE  w[f] = WalkRow(curf, topic, w, f)
  <2>1. w[f] = IF f > k THEN base ELSE step[f][w[f + 1]]
    <3> HIDE DEF V, base, step, k
    <3> QED
      BY <1>5, <1>6, Zenon DEF Descends
  <2>2. CASE f > k
    <3>1. WalkRow(curf, topic, w, f) = base
      BY <2>2 DEF WalkRow
    <3> QED
      BY <2>1, <2>2, <3>1, Zenon
  <2>3. CASE ~(f > k)
    <3>1. f \in 1..k /\ f + 1 \in 1..k + 1
      BY <2>3, <1>1
    <3>2. w[f + 1] \in V
      <4> HIDE DEF V, k
      <4> QED
        BY <3>1
    <3>3. step[f][w[f + 1]] = row(f, w[f + 1])
      <4> HIDE DEF V, row, k
      <4> QED
        BY <3>1, <3>2
    <3>4. WalkRow(curf, topic, w, f) = row(f, w[f + 1])
      <4>1. ASSUME NEW n \in D
            PROVE  (IF f > k \/ n > Len(topic) THEN f > k /\ n > Len(topic)
                    ELSE Agrees(curf[f], topic[n]) /\ w[f + 1][Taken(curf[f], topic, n) + 1])
                   = (IF n > Len(topic) THEN FALSE
                      ELSE Agrees(curf[f], topic[n]) /\ w[f + 1][Taken(curf[f], topic, n) + 1])
        <5> HIDE DEF k, D
        <5> QED
          BY <2>3
      <4> QED
        BY <4>1, Zenon DEF WalkRow
    <3> HIDE DEF base, step, row
    <3> QED
      BY <2>1, <2>3, <3>3, <3>4, Zenon
  <2> QED
    BY <2>2, <2>3
<1>7. w = [f \in 1..k + 1 |-> w[f]]
  <2> HIDE DEF V, k
  <2> QED
    OBVIOUS
<1>8. [f \in 1..k + 1 |-> w[f]] = [f \in 1..k + 1 |-> WalkRow(curf, topic, w, f)]
  BY <1>6, Zenon
<1> QED
  BY <1>7, <1>8, Zenon

\* Where the walk goes on.
LEMMA WalkIs ==
    ASSUME NEW curf \in Seq(STRING), NEW topic \in Seq(STRING), NEW w, w = WalkOf(curf, topic)
    PROVE  /\ isTopicMatched(curf, topic) = w[1][1]
           /\ \A f \in 1..Len(curf) + 1, n \in 1..Len(topic) + 1 :
                 w[f][n] = IF f > Len(curf) \/ n > Len(topic) THEN f > Len(curf) /\ n > Len(topic)
                           ELSE Agrees(curf[f], topic[n]) /\ w[f + 1][Taken(curf[f], topic, n) + 1]
<1> DEFINE h == [f \in 1..Len(curf) + 1 |-> WalkRow(curf, topic, w, f)]
<1>1. w = h
  BY WalkExists, Zenon DEF WalkOf
<1>2. \A f \in 1..Len(curf) + 1 : w[f] = WalkRow(curf, topic, w, f)
  <2>1. \A f \in 1..Len(curf) + 1 : h[f] = WalkRow(curf, topic, w, f)
    BY Zenon
  <2> HIDE DEF h
  <2> QED
    BY <1>1, <2>1, Zenon
<1>3. \A f \in 1..Len(curf) + 1, n \in 1..Len(topic) + 1 :
         w[f][n] = WalkRow(curf, topic, w, f)[n]
  BY <1>2, Zenon
<1>4. isTopicMatched(curf, topic) = w[1][1]
  BY DEF isTopicMatched, WalkOf, WalkRow, Taken
<1> QED
  BY <1>3, <1>4, Zenon DEF WalkRow


LEMMA FirstCharacter ==
    ASSUME NEW S, NEW c \in S, NEW u \in Seq(S)
    PROVE  /\ <<c>> \o u # <<>> /\ (<<c>> \o u)[1] = c
           /\ u = <<>> => <<c>> \o u = <<c>>
           /\ \A v \in Seq(S) : <<c>> \o u = <<c>> \o v <=> u = v
<1>1. /\ Len(<<c>> \o u) = Len(u) + 1 /\ Len(u) \in Nat
      /\ (<<c>> \o u)[1] = c /\ \A i \in 1..Len(u) : (<<c>> \o u)[i + 1] = u[i]
  <2>1. Len(<<c>> \o u) = Len(u) + 1 /\ Len(u) \in Nat
    OBVIOUS
  <2>2. (<<c>> \o u)[1] = c
    OBVIOUS
  <2>3. \A i \in 1..Len(u) : (<<c>> \o u)[i + 1] = u[i]
    OBVIOUS
  <2> QED
    BY <2>1, <2>2, <2>3, Zenon
<1>2. <<c>> \o u # <<>>
  BY <1>1
<1>3. u = <<>> => <<c>> \o u = <<c>>
  OBVIOUS
<1>4. ASSUME NEW v \in Seq(S), <<c>> \o u = <<c>> \o v
      PROVE  u = v
  <2>1. /\ Len(<<c>> \o v) = Len(v) + 1 /\ Len(v) \in Nat
        /\ \A i \in 1..Len(v) : (<<c>> \o v)[i + 1] = v[i]
    <3>1. Len(<<c>> \o v) = Len(v) + 1 /\ Len(v) \in Nat
      OBVIOUS
    <3>2. \A i \in 1..Len(v) : (<<c>> \o v)[i + 1] = v[i]
      OBVIOUS
    <3> QED
      BY <3>1, <3>2, Zenon
  <2> DEFINE x == <<c>> \o u
             y == <<c>> \o v
  <2>2. x = y
    BY <1>4
  <2>3. /\ Len(x) = Len(u) + 1 /\ Len(y) = Len(v) + 1
        /\ (\A i \in 1..Len(u) : x[i + 1] = u[i]) /\ (\A i \in 1..Len(v) : y[i + 1] = v[i])
    BY <1>1, <2>1
  <2> HIDE DEF x, y
  <2>4. Len(u) = Len(v) /\ \A i \in 1..Len(u) : u[i] = v[i]
    BY <2>2, <2>3, <1>1, <2>1
  <2> QED
    BY <2>4
<1> QED
  BY <1>1, <1>2, <1>3, <1>4

\* What the first of the levels from a character on is.
LEMMA FirstIs ==
    ASSUME NEW name \in Seq(STRING), NEW L, L = LevelsFrom(name), NEW n \in 1..Len(name) + 1
    PROVE  /\ L[n][1] \in Seq(STRING)
           /\ n > Len(name) => Len(L[n]) = 1 /\ L[n][1] = <<>>
           /\ n <= Len(name) /\ name[n] = Separator => Len(L[n]) >= 2 /\ L[n][1] = <<>>
           /\ n <= Len(name) /\ name[n] # Separator =>
                 L[n][1] # <<>> /\ L[n][1][1] = name[n]
<1>1. L[n] \in Seq(Seq(STRING)) /\ Len(L[n]) >= 1 /\ Len(name) \in Nat
  <2>1. \A p \in 1..Len(name) + 1 : L[p] \in Seq(Seq(STRING)) /\ Len(L[p]) >= 1
    BY LevelsAre, Zenon
  <2> QED
    BY <2>1
<1>2. L[n][1] \in Seq(STRING)
  BY <1>1
<1>3. ASSUME n > Len(name) PROVE Len(L[n]) = 1 /\ L[n][1] = <<>>
  <2>1. n = Len(name) + 1
    BY <1>1, <1>3
  <2>2. L[n] = << <<>> >>
    BY <2>1, LevelsAre
  <2> QED
    BY <2>2
<1>4. ASSUME n <= Len(name)
      PROVE  /\ n \in 1..Len(name) /\ n + 1 \in 1..Len(name) + 1
             /\ L[n + 1] \in Seq(Seq(STRING)) /\ Len(L[n + 1]) >= 1 /\ Len(L[n + 1]) \in Nat
             /\ L[n + 1][1] \in Seq(STRING)
  <2>1. n \in 1..Len(name) /\ n + 1 \in 1..Len(name) + 1
    BY <1>1, <1>4
  <2>2. L[n + 1] \in Seq(Seq(STRING)) /\ Len(L[n + 1]) >= 1
    BY <2>1, LevelsAre
  <2> QED
    BY <2>1, <2>2
<1>5. ASSUME n <= Len(name), name[n] = Separator PROVE Len(L[n]) >= 2 /\ L[n][1] = <<>>
  <2>1. OneMore(L[n], L[n + 1])
    BY <1>4, <1>5, LevelsAre, Zenon
  <2> QED
    BY <2>1, <1>4, <1>5 DEF OneMore
<1>6. ASSUME n <= Len(name), name[n] # Separator PROVE L[n][1] # <<>> /\ L[n][1][1] = name[n]
  <2>1. L[n][1] = <<name[n]>> \o L[n + 1][1]
    <3>1. Longer(L[n], L[n + 1], name[n])
      BY <1>4, <1>6, LevelsAre, Zenon
    <3> QED
      BY <3>1, Zenon DEF Longer
  <2>2. name[n] \in STRING
    BY <1>4, <1>6
  <2> DEFINE u == L[n + 1][1]
             c == name[n]
  <2>3. u \in Seq(STRING) /\ c \in STRING /\ L[n][1] = <<c>> \o u
    BY <2>1, <2>2, <1>4, <1>6
  <2> HIDE DEF u, c
  <2>4. <<c>> \o u # <<>> /\ (<<c>> \o u)[1] = c
    BY <2>3, FirstCharacter
  <2>5. L[n][1] # <<>> /\ L[n][1][1] = c
    BY <2>3, <2>4, Zenon
  <2> QED
    BY <2>5 DEF c
<1> QED
  BY <1>2, <1>3, <1>5, <1>6

\* Behind a level that a '+' takes are the same levels as behind its beginning.
LEMMA LevelTaken ==
    ASSUME NEW topic \in Seq(STRING), NEW L, L = LevelsFrom(topic),
           NEW n \in 1..Len(topic), topic[n] # Separator, NEW m, m = LevelEnd(topic, n)
    PROVE  m + 1 \in 1..Len(topic) + 1 /\ SameRest(L[n], L[m + 1]) /\ L[m + 1][1] = <<>>
<1>1. /\ m \in n..Len(topic) /\ (m = Len(topic) \/ topic[m + 1] = Separator)
      /\ \A k \in n + 1..m : topic[k] # Separator
  BY LevelEndIs
<1>2. m \in Nat /\ m + 1 \in 1..Len(topic) + 1 /\ n \in 1..m /\ Len(topic) \in Nat
  BY <1>1
<1>3. L[m + 1][1] = <<>>
  <2>1. CASE m = Len(topic)
    <3>1. m + 1 > Len(topic)
      BY <1>2, <2>1
    <3> QED
      BY <3>1, <1>2, FirstIs
  <2>2. CASE m # Len(topic)
    <3>1. m + 1 <= Len(topic) /\ topic[m + 1] = Separator
      BY <1>1, <1>2, <2>2
    <3> QED
      BY <3>1, <1>2, FirstIs
  <2> QED
    BY <2>1, <2>2
<1> DEFINE T == {q \in Int : q >= n => SameRest(L[q], L[m + 1])}
<1>4. m + 1 \in T
  BY <1>2 DEF SameRest
<1>5. \A q \in 1..m : q + 1 \in T => q \in T
  <2> SUFFICES ASSUME NEW q \in 1..m, q + 1 \in T, q >= n
               PROVE  SameRest(L[q], L[m + 1])
    BY <1>2
  <2>1. q \in 1..Len(topic) /\ topic[q] # Separator
    <3>1. q = n \/ q \in n + 1..m
      BY <1>2
    <3> QED
      BY <1>1, <1>2, <3>1
  <2>2. Longer(L[q], L[q + 1], topic[q])
    BY <2>1, LevelsAre, Zenon
  <2>3. SameRest(L[q + 1], L[m + 1])
    BY <1>2
  <2> QED
    BY <2>2, <2>3 DEF SameRest, Longer
<1>6. \A q \in 1..m + 1 : q \in T
  <2> HIDE DEF T
  <2> QED
    BY <1>2, <1>4, <1>5, Downwards
<1>7. n \in T
  <2> HIDE DEF T
  <2> QED
    BY <1>2, <1>6
<1>8. SameRest(L[n], L[m + 1])
  BY <1>2, <1>7
<1> QED
  BY <1>2, <1>3, <1>8


-----------------------------------------------------------------------------
(* The walk and the levels *)

\* The levels of filter and topic from a place on, and the walk
Walking(curf, topic, F, N, w) ==
    /\ curf \in Seq(STRING) /\ topic \in Seq(STRING) /\ Proper(curf)
    /\ F = LevelsFrom(curf) /\ N = LevelsFrom(topic) /\ w = WalkOf(curf, topic)

\* All that follows speaks of a place in each, before the end of the filter
LEMMA WildcardStands ==
    ASSUME NEW curf \in Seq(STRING), Proper(curf), NEW i \in 1..Len(curf), curf[i] \in {"+", "#"}
    PROVE  /\ i = 1 \/ curf[i - 1] = Separator
           /\ curf[i] = "#" => i = Len(curf)
           /\ i # Len(curf) => curf[i + 1] = Separator
BY DEF Proper, Separator

\* A character that is no wildcard is followed by none but in a new level.
LEMMA PlainFirst ==
    ASSUME NEW curf \in Seq(STRING), Proper(curf), NEW F, F = LevelsFrom(curf),
           NEW i \in 1..Len(curf), curf[i] # Separator
    PROVE  /\ F[i + 1][1] # <<"+">> /\ F[i + 1][1] # <<"#">>
           /\ curf[i] \in {"+", "#"} => F[i + 1][1] = <<>> /\ F[i][1] = <<curf[i]>>
           /\ curf[i] \notin {"+", "#"} => F[i][1] # <<"+">> /\ F[i][1] # <<"#">>
<1>1. i + 1 \in 1..Len(curf) + 1 /\ i \in 1..Len(curf) + 1 /\ Len(curf) \in Nat
      /\ i <= Len(curf) /\ curf[i] \in STRING
  OBVIOUS
<1>2. /\ F[i + 1][1] \in Seq(STRING)
      /\ i + 1 > Len(curf) => F[i + 1][1] = <<>>
      /\ i + 1 <= Len(curf) /\ curf[i + 1] = Separator => F[i + 1][1] = <<>>
      /\ i + 1 <= Len(curf) /\ curf[i + 1] # Separator => F[i + 1][1][1] = curf[i + 1]
  BY <1>1, FirstIs, Zenon
<1>3. F[i][1][1] = curf[i]
  BY <1>1, FirstIs, Zenon
<1>4. i + 1 <= Len(curf) => curf[i + 1] \notin {"+", "#"}
  <2> SUFFICES ASSUME i + 1 <= Len(curf), curf[i + 1] \in {"+", "#"}
               PROVE  FALSE
    OBVIOUS
  <2>1. i + 1 \in DOMAIN curf /\ (i + 1) - 1 = i /\ i + 1 # 1
    BY <1>1
  <2>2. i + 1 = 1 \/ curf[(i + 1) - 1] = Separator
    BY <2>1 DEF Proper
  <2> QED
    BY <2>1, <2>2
<1> DEFINE u == F[i + 1][1]
<1> HIDE DEF u
<1>5. u # <<"+">> /\ u # <<"#">>
  <2>1. CASE u = <<>>
    BY <2>1
  <2>2. CASE u # <<>>
    <3>1. i + 1 <= Len(curf) /\ u[1] = curf[i + 1]
      BY <2>2, <1>1, <1>2 DEF u
    <3>2. u[1] # "+" /\ u[1] # "#"
      BY <3>1, <1>4
    <3> QED
      BY <3>2
  <2> QED
    BY <2>1, <2>2
<1>6. ASSUME curf[i] \in {"+", "#"}
      PROVE  u = <<>> /\ F[i][1] = <<curf[i]>>
  <2>1. u = <<>>
    <3>1. i = Len(curf) \/ curf[i + 1] = Separator
      BY <1>6, WildcardStands
    <3> QED
      BY <3>1, <1>1, <1>2 DEF u
  <2>2. F[i][1] = <<curf[i]>> \o u
    BY LevelsAre, Zenon DEF Longer, u
  <2>3. <<curf[i]>> \o u = <<curf[i]>>
    <3>1. u \in Seq(STRING)
      BY <1>2 DEF u
    <3> QED
      BY <1>1, <2>1, <3>1, FirstCharacter, Zenon
  <2> QED
    BY <2>1, <2>2, <2>3, Zenon
<1>7. ASSUME curf[i] \notin {"+", "#"}
      PROVE  F[i][1] # <<"+">> /\ F[i][1] # <<"#">>
  <2> DEFINE v == F[i][1]
  <2>1. v[1] # "+" /\ v[1] # "#"
    BY <1>3, <1>7
  <2> HIDE DEF v
  <2>2. v # <<"+">> /\ v # <<"#">>
    BY <2>1
  <2> QED
    BY <2>2 DEF v
<1> QED
  BY <1>5, <1>6, <1>7 DEF u

\* Where the characters agree, the filter covers the topic from there on if it does
\* from where the walk goes on.
LEMMA WalkCovers ==
    ASSUME NEW curf, NEW topic, NEW F, NEW N, NEW w, Walking(curf, topic, F, N, w),
           NEW i \in 1..Len(curf), NEW n \in 1..Len(topic), NEW d \in {0, 1},
           Agrees(curf[i], topic[n]), curf[i] # "#", NEW p, p = Taken(curf[i], topic, n) + 1
    PROVE  /\ p \in 1..Len(topic) + 1
           /\ Covers(F[i], N[n], d) <=> Covers(F[i + 1], N[p], d)
           /\ IF curf[i] = Separator THEN topic[n] = Separator /\ OneMore(N[n], N[p])
              ELSE SameRest(N[n], N[p])
<1>1. /\ curf \in Seq(STRING) /\ topic \in Seq(STRING) /\ Proper(curf)
      /\ F = LevelsFrom(curf) /\ N = LevelsFrom(topic)
  BY DEF Walking
<1>2. /\ i + 1 \in 1..Len(curf) + 1 /\ i \in 1..Len(curf) + 1
      /\ n \in 1..Len(topic) + 1 /\ n + 1 \in 1..Len(topic) + 1
  BY <1>1
<1>3. F[i + 1] \in Seq(Seq(STRING)) /\ Len(F[i + 1]) >= 1 /\ Len(F[i + 1]) \in Nat
  <2>1. F[i + 1] \in Seq(Seq(STRING)) /\ Len(F[i + 1]) >= 1
    BY <1>1, <1>2, LevelsAre, Zenon
  <2> QED
    BY <2>1
<1>4. \A q \in 1..Len(topic) + 1 : N[q] \in Seq(Seq(STRING)) /\ Len(N[q]) >= 1 /\ Len(N[q]) \in Nat
  <2>1. \A q \in 1..Len(topic) + 1 : N[q] \in Seq(Seq(STRING)) /\ Len(N[q]) >= 1
    BY <1>1, LevelsAre, Zenon
  <2> QED
    BY <2>1
<1>5. "+" # Separator /\ "#" # Separator /\ "+" # "#"
  BY DEF Separator
<1>6. CASE curf[i] = "+"
  <2>1. topic[n] # Separator /\ p = LevelEnd(topic, n) + 1
    BY <1>5, <1>6 DEF Agrees, Taken
  <2>2. p \in 1..Len(topic) + 1 /\ SameRest(N[n], N[p]) /\ N[p][1] = <<>>
    <3>1. LevelEnd(topic, n) + 1 \in 1..Len(topic) + 1
          /\ SameRest(N[n], N[LevelEnd(topic, n) + 1]) /\ N[LevelEnd(topic, n) + 1][1] = <<>>
      BY <1>1, <2>1, LevelTaken, Zenon
    <3> QED
      BY <2>1, <3>1, Zenon
  <2>3. F[i + 1][1] = <<>> /\ F[i][1] = <<"+">> /\ SameRest(F[i], F[i + 1])
    <3>1. curf[i] # Separator /\ curf[i] \in {"+", "#"}
      BY <1>5, <1>6
    <3>2. Longer(F[i], F[i + 1], curf[i])
      BY <1>1, <3>1, LevelsAre, Zenon
    <3>3. F[i + 1][1] = <<>> /\ F[i][1] = <<curf[i]>>
      BY <1>1, <3>1, PlainFirst, Zenon
    <3> QED
      BY <1>6, <3>2, <3>3, Zenon DEF Longer
  <2>4. /\ F[i + 1][1] # <<"#">> /\ F[i][1] # <<"#">>
        /\ Meets(F[i][1], N[n][1]) <=> Meets(F[i + 1][1], N[p][1])
    BY <2>2, <2>3 DEF Meets
  <2>5. Len(N[p]) >= 1 /\ Len(N[p]) \in Nat
    BY <1>4, <2>2, Zenon
  <2>6. Covers(F[i], N[n], d) <=> Covers(F[i + 1], N[p], d)
    <3>1. SameMeeting(F[i], N[n], F[i + 1], N[p])
      BY <2>2, <2>3, <2>4, Zenon DEF SameMeeting
    <3> QED
      BY <1>3, <2>5, <3>1, FirstLevel
  <2> QED
    BY <2>2, <2>6, <1>5, <1>6, Zenon
<1>7. CASE curf[i] = Separator
  <2>1. topic[n] = Separator /\ p = n + 1
    BY <1>5, <1>7 DEF Agrees, Taken
  <2>2. OneMore(F[i], F[i + 1])
    BY <1>1, <1>7, LevelsAre, Zenon
  <2>3. OneMore(N[n], N[p])
    BY <1>1, <2>1, LevelsAre, Zenon
  <2>4. Len(N[p]) >= 1 /\ Len(N[p]) \in Nat
    BY <1>2, <1>4, <2>1, Zenon
  <2>5. Covers(F[i], N[n], d) <=> Covers(F[i + 1], N[p], d)
    BY <1>3, <2>2, <2>3, <2>4, LevelMore
  <2> QED
    BY <2>1, <2>3, <2>5, <1>2, <1>7, Zenon
<1>8. CASE curf[i] # Separator /\ curf[i] # "+"
  <2>1. topic[n] = curf[i] /\ topic[n] # Separator /\ p = n + 1
    BY <1>8 DEF Agrees, Taken
  <2> DEFINE c == curf[i]
  <2>2. Longer(F[i], F[i + 1], c)
    BY <1>1, <1>8, LevelsAre, Zenon
  <2>3. Longer(N[n], N[p], c)
    BY <1>1, <2>1, LevelsAre, Zenon
  <2>4. F[i + 1][1] \in Seq(STRING) /\ N[p][1] \in Seq(STRING) /\ c \in STRING
        /\ Len(N[p]) >= 1 /\ Len(N[p]) \in Nat
    <3>1. N[p] \in Seq(Seq(STRING)) /\ Len(N[p]) >= 1 /\ Len(N[p]) \in Nat
      BY <1>2, <1>4, <2>1, Zenon
    <3>2. N[p][1] \in Seq(STRING)
      BY <3>1
    <3>3. F[i + 1][1] \in Seq(STRING)
      BY <1>3
    <3>4. c \in STRING
      BY <1>1
    <3> QED
      BY <3>1, <3>2, <3>3, <3>4
  <2>5. /\ F[i + 1][1] # <<"#">> /\ F[i][1] # <<"#">>
        /\ F[i + 1][1] # <<"+">> /\ F[i][1] # <<"+">>
    <3>1. curf[i] \notin {"+", "#"}
      BY <1>8
    <3> QED
      BY <1>1, <1>8, <3>1, PlainFirst, Zenon
  <2> HIDE DEF c
  <2>6. F[i][1] = N[n][1] <=> F[i + 1][1] = N[p][1]
    <3>1. F[i][1] = <<c>> \o F[i + 1][1] /\ N[n][1] = <<c>> \o N[p][1]
      BY <2>2, <2>3, Zenon DEF Longer
    <3>2. <<c>> \o F[i + 1][1] = <<c>> \o N[p][1] <=> F[i + 1][1] = N[p][1]
      BY <2>4, FirstCharacter, Zenon
    <3> QED
      BY <3>1, <3>2, Zenon
  <2>7. Meets(F[i][1], N[n][1]) <=> Meets(F[i + 1][1], N[p][1])
    BY <2>5, <2>6, Zenon DEF Meets
  <2>8. SameRest(F[i], F[i + 1]) /\ SameRest(N[n], N[p])
    BY <2>2, <2>3, Zenon DEF Longer
  <2>9. p \in 1..Len(topic) + 1
    BY <1>2, <2>1
  <2>10. Covers(F[i], N[n], d) <=> Covers(F[i + 1], N[p], d)
    <3>1. SameMeeting(F[i], N[n], F[i + 1], N[p])
      BY <2>5, <2>7, <2>8, Zenon DEF SameMeeting
    <3> QED
      BY <1>3, <2>4, <3>1, FirstLevel
  <2> QED
    BY <2>8, <2>9, <2>10, <1>8, Zenon
<1> QED
  BY <1>6, <1>7, <1>8


\* What the walk does at a place, by where it is.
LEMMA WalkSteps ==
    ASSUME NEW curf, NEW topic, NEW F, NEW N, NEW w, Walking(curf, topic, F, N, w)
    PROVE  /\ \A i \in 1..Len(curf) + 1, n \in 1..Len(topic) + 1 :
                 (i > Len(curf) \/ n > Len(topic)) => (w[i][n] <=> i > Len(curf) /\ n > Len(topic))
           /\ \A i \in 1..Len(curf), n \in 1..Len(topic) :
                 w[i][n] <=> Agrees(curf[i], topic[n]) /\ w[i + 1][Taken(curf[i], topic, n) + 1]
<1>1. curf \in Seq(STRING) /\ topic \in Seq(STRING) /\ w = WalkOf(curf, topic)
      /\ Len(curf) \in Nat /\ Len(topic) \in Nat
  BY DEF Walking
<1> DEFINE Goes(i, n) == Agrees(curf[i], topic[n]) /\ w[i + 1][Taken(curf[i], topic, n) + 1]
<1>2. \A i \in 1..Len(curf) + 1, n \in 1..Len(topic) + 1 :
         w[i][n] = IF i > Len(curf) \/ n > Len(topic) THEN i > Len(curf) /\ n > Len(topic)
                   ELSE Goes(i, n)
  BY <1>1, WalkIs
<1> HIDE DEF Goes
<1>3. ASSUME NEW i \in 1..Len(curf), NEW n \in 1..Len(topic)
      PROVE  w[i][n] = Goes(i, n)
  BY <1>1, <1>2
<1>4. \A i \in 1..Len(curf) + 1, n \in 1..Len(topic) + 1 :
         (i > Len(curf) \/ n > Len(topic)) => (w[i][n] <=> i > Len(curf) /\ n > Len(topic))
  BY <1>1, <1>2
<1>5. ASSUME NEW i \in 1..Len(curf), NEW n \in 1..Len(topic)
      PROVE  w[i][n] <=> Goes(i, n)
  BY <1>3, Zenon
<1> QED
  BY <1>4, <1>5 DEF Goes

\* The walk arrives only where the filter covers the rest of the topic.
LEMMA WalkIsRight ==
    ASSUME NEW curf, NEW topic, NEW F, NEW N, NEW w, Walking(curf, topic, F, N, w), w[1][1]
    PROVE  Covers(F[1], N[1], 0)
<1> DEFINE k == Len(curf)
           l == Len(topic)
           T == {i \in Int : \A n \in 1..l + 1 : w[i][n] => Covers(F[i], N[n], 0)}
<1>1. /\ curf \in Seq(STRING) /\ topic \in Seq(STRING) /\ Proper(curf)
      /\ F = LevelsFrom(curf) /\ N = LevelsFrom(topic)
      /\ k \in Nat /\ l \in Nat
  BY DEF Walking
<1>2. \A n \in 1..l + 1 : Len(N[n]) \in Nat
  <2>1. \A n \in 1..l + 1 : N[n] \in Seq(Seq(STRING)) /\ Len(N[n]) >= 1
    BY <1>1, LevelsAre, Zenon
  <2> QED
    BY <2>1
<1>3. k + 1 \in T
  <2> SUFFICES ASSUME NEW n \in 1..l + 1, w[k + 1][n]
               PROVE  Covers(F[k + 1], N[n], 0)
    BY <1>1
  <2>1. k + 1 \in 1..k + 1 /\ k + 1 > k /\ l + 1 \in 1..l + 1
    BY <1>1
  <2>2. n > l
    BY <2>1, WalkSteps
  <2>3. n = l + 1
    BY <1>1, <2>2
  <2>4. F[k + 1] = << <<>> >> /\ N[n] = << <<>> >>
    BY <1>1, <2>3, LevelsAre, Zenon
  <2>5. Covers(<< <<>> >>, << <<>> >>, 0)
    BY DEF Covers, Last
  <2> QED
    BY <2>4, <2>5, Zenon
<1>4. ASSUME NEW i \in 1..k, i + 1 \in T, NEW n \in 1..l + 1, w[i][n]
      PROVE  Covers(F[i], N[n], 0)
  <2>1. n \in 1..l /\ i \in 1..k + 1
    <3>1. i \in 1..k + 1 /\ ~(i > k)
      BY <1>1
    <3>2. ~(n > l)
      BY <1>4, <3>1, WalkSteps
    <3> QED
      BY <1>1, <3>1, <3>2
  <2> DEFINE p == Taken(curf[i], topic, n) + 1
  <2>2. Agrees(curf[i], topic[n]) /\ w[i + 1][p]
    BY <1>4, <2>1, WalkSteps, Zenon
  <2>3. CASE curf[i] = "#"
    <3>1. i = k /\ curf[i] # Separator /\ curf[i] \in {"+", "#"}
      BY <1>1, <2>3, WildcardStands DEF Separator
    <3>2. F[i][1] = <<"#">>
      BY <1>1, <2>3, <3>1, PlainFirst
    <3>3. Len(F[i]) = 1
      <4>1. Longer(F[i], F[i + 1], curf[i])
        BY <1>1, <3>1, LevelsAre, Zenon
      <4>2. F[i + 1] = << <<>> >>
        BY <1>1, <3>1, LevelsAre, Zenon
      <4>3. Len(<< <<>> >>) = 1
        OBVIOUS
      <4> QED
        BY <4>1, <4>2, <4>3, Zenon DEF Longer, SameRest
    <3>4. F[i][Len(F[i])] = <<"#">> /\ Len(F[i]) \in Nat /\ Len(F[i]) >= 1
      BY <3>2, <3>3
    <3>5. Len(N[n]) >= Len(F[i]) - 1 + 0 /\ \A j \in 1..Len(F[i]) - 1 : Meets(F[i][j], N[n][j])
      BY <1>2, <3>3
    <3> QED
      BY <3>4, <3>5, CoversIs
  <2>4. CASE curf[i] # "#"
    <3>1. p \in 1..l + 1 /\ (Covers(F[i], N[n], 0) <=> Covers(F[i + 1], N[p], 0))
      BY <2>1, <2>2, <2>4, WalkCovers
    <3> HIDE DEF p
    <3> QED
      BY <1>4, <2>2, <3>1
  <2> QED
    BY <2>3, <2>4
<1>5. \A i \in 1..k : i + 1 \in T => i \in T
  <2> SUFFICES ASSUME NEW i \in 1..k, i + 1 \in T, NEW n \in 1..l + 1, w[i][n]
               PROVE  Covers(F[i], N[n], 0)
    OBVIOUS
  <2> HIDE DEF T
  <2> QED
    BY <1>4
<1>6. 1 \in T
  <2> HIDE DEF T, k
  <2>1. \A i \in 1..k + 1 : i \in T
    BY <1>1, <1>3, <1>5, Downwards
  <2> QED
    BY <1>1, <2>1
<1> QED
  BY <1>1, <1>6


\* No level but perhaps the first is empty
Solid(levels) == \A j \in 2..Len(levels) : levels[j] # <<>>
Begins(curf, i) == i = 1 \/ curf[i - 1] = Separator

\* The first level is met, and a second one needs a second one.
LEMMA CoversFirst ==
    ASSUME NEW a, NEW b, Len(a) \in Nat, Len(a) >= 1, Len(b) \in Nat, Covers(a, b, 1), a[1] # <<"#">>
    PROVE  /\ a[1] = <<"+">> \/ a[1] = b[1]
           /\ Len(a) >= 2 => Len(b) >= 2
<1>1. IF a[Len(a)] = <<"#">>
      THEN Len(b) >= Len(a) - 1 + 1 /\ \A i \in 1..Len(a) - 1 : Meets(a[i], b[i])
      ELSE Len(b) = Len(a) /\ \A i \in 1..Len(a) : Meets(a[i], b[i])
  BY CoversIs
<1>2. CASE a[Len(a)] = <<"#">>
  <2>1. Len(a) # 1
    BY <1>2
  <2>2. 1 \in 1..Len(a) - 1
    <3> DEFINE k == Len(a)
    <3>1. k \in Nat /\ k >= 1 /\ k # 1
      BY <2>1
    <3> HIDE DEF k
    <3>2. 1 \in 1..k - 1
      BY <3>1
    <3> QED
      BY <3>2 DEF k
  <2> QED
    BY <1>1, <1>2, <2>2 DEF Meets
<1>3. CASE a[Len(a)] # <<"#">>
  BY <1>1, <1>3 DEF Meets
<1> QED
  BY <1>2, <1>3

\* Where the filter covers the topic, the walk goes on.
LEMMA WalkAgrees ==
    ASSUME NEW curf, NEW topic, NEW F, NEW N, NEW w, Walking(curf, topic, F, N, w),
           NEW i \in 1..Len(curf), NEW n \in 1..Len(topic) + 1,
           Begins(curf, i) => N[n][1] # <<>>, Covers(F[i], N[n], 1)
    PROVE  n \in 1..Len(topic) /\ Agrees(curf[i], topic[n])
<1>1. /\ curf \in Seq(STRING) /\ topic \in Seq(STRING) /\ Proper(curf)
      /\ F = LevelsFrom(curf) /\ N = LevelsFrom(topic)
      /\ Len(curf) \in Nat /\ Len(topic) \in Nat /\ i \in 1..Len(curf) + 1 /\ i <= Len(curf)
  BY DEF Walking
<1>2. F[i] \in Seq(Seq(STRING)) /\ Len(F[i]) >= 1 /\ N[n] \in Seq(Seq(STRING))
  BY <1>1, LevelsAre, Zenon
<1>3. Len(F[i]) \in Nat /\ Len(F[i]) >= 1 /\ Len(N[n]) \in Nat
  BY <1>2
<1>4. /\ n > Len(topic) => Len(N[n]) = 1 /\ N[n][1] = <<>>
      /\ n <= Len(topic) /\ topic[n] = Separator => N[n][1] = <<>>
      /\ n <= Len(topic) /\ topic[n] # Separator => N[n][1] # <<>> /\ N[n][1][1] = topic[n]
  BY <1>1, FirstIs, Zenon
<1>5. CASE curf[i] \in {"+", "#"}
  <2>1. Begins(curf, i)
    BY <1>1, <1>5, WildcardStands DEF Begins
  <2>2. N[n][1] # <<>>
    BY <2>1
  <2>3. n <= Len(topic) /\ topic[n] # Separator
    BY <1>1, <1>4, <2>2
  <2> QED
    BY <1>1, <1>5, <2>3 DEF Agrees
<1>6. CASE curf[i] = Separator
  <2>1. Len(F[i]) >= 2 /\ F[i][1] = <<>>
    <3>1. i <= Len(curf) /\ curf[i] = Separator => Len(F[i]) >= 2 /\ F[i][1] = <<>>
      BY <1>1, FirstIs, Zenon
    <3> QED
      BY <3>1, <1>1, <1>6
  <2>2. N[n][1] = <<>> /\ Len(N[n]) >= 2
    <3>1. F[i][1] # <<"#">> /\ F[i][1] # <<"+">>
      BY <2>1
    <3>2. /\ F[i][1] = <<"+">> \/ F[i][1] = N[n][1]
          /\ Len(F[i]) >= 2 => Len(N[n]) >= 2
      BY <1>3, <3>1, CoversFirst, Zenon
    <3> QED
      BY <2>1, <3>1, <3>2
  <2>3. n <= Len(topic)
    <3> DEFINE m == Len(N[n])
    <3>0. m \in Nat /\ m >= 2
      BY <1>3, <2>2, Zenon
    <3> HIDE DEF m
    <3>1. ~(m = 1)
      BY <3>0
    <3>2. ~(n > Len(topic))
      BY <1>4, <3>1, Zenon DEF m
    <3> QED
      BY <1>1, <3>2
  <2>4. topic[n] = Separator
    BY <1>4, <2>2, <2>3
  <2> QED
    BY <1>1, <1>6, <2>3, <2>4 DEF Agrees
<1>7. CASE curf[i] # Separator /\ curf[i] \notin {"+", "#"}
  <2>1. F[i][1] # <<>> /\ F[i][1][1] = curf[i]
    BY <1>1, <1>7, FirstIs, Zenon
  <2>2. F[i][1] # <<"+">> /\ F[i][1] # <<"#">>
    BY <1>1, <1>7, PlainFirst, Zenon
  <2>3. N[n][1] = F[i][1]
    BY <1>3, <2>2, CoversFirst
  <2>4. N[n][1] # <<>> /\ N[n][1][1] = curf[i]
    BY <2>1, <2>3, Zenon
  <2>5. n <= Len(topic) /\ topic[n] # Separator /\ topic[n] = curf[i]
    BY <1>1, <1>4, <2>4
  <2> QED
    BY <1>1, <1>7, <2>5 DEF Agrees
<1> QED
  BY <1>5, <1>6, <1>7

\* The walk arrives wherever the filter covers the rest of the topic.
LEMMA WalkIsComplete ==
    ASSUME NEW curf, NEW topic, NEW F, NEW N, NEW w, Walking(curf, topic, F, N, w),
           \A j \in 1..Len(N[1]) : N[1][j] # <<>>, Covers(F[1], N[1], 1)
    PROVE  w[1][1]
<1> DEFINE k == Len(curf)
           l == Len(topic)
           Due(i, n) == /\ Covers(F[i], N[n], 1) /\ Solid(N[n])
                        /\ Begins(curf, i) => N[n][1] # <<>>
           T == {i \in Int : \A n \in 1..l + 1 : Due(i, n) => w[i][n]}
<1>1. /\ curf \in Seq(STRING) /\ topic \in Seq(STRING) /\ Proper(curf)
      /\ F = LevelsFrom(curf) /\ N = LevelsFrom(topic)
      /\ k \in Nat /\ l \in Nat
  BY DEF Walking
<1>2. \A n \in 1..l + 1 : Len(N[n]) \in Nat /\ Len(N[n]) >= 1
  <2>1. \A n \in 1..l + 1 : N[n] \in Seq(Seq(STRING)) /\ Len(N[n]) >= 1
    BY <1>1, LevelsAre, Zenon
  <2> QED
    BY <2>1
<1>3. ASSUME NEW n \in 1..l + 1, Due(k + 1, n)
      PROVE  w[k + 1][n]
  <2> DEFINE none == << <<>> >>
  <2>1. F[k + 1] = none
    BY <1>1, LevelsAre, Zenon
  <2>2. Len(none) = 1 /\ none[1] = <<>>
    OBVIOUS
  <2> HIDE DEF none
  <2>3. Covers(none, N[n], 1)
    BY <1>3, <2>1, Zenon
  <2>4. N[n][1] = <<>> /\ Len(N[n]) = 1
    <3>1. none[Len(none)] # <<"#">>
      BY <2>2
    <3>2. Len(N[n]) = Len(none) /\ \A i \in 1..Len(none) : Meets(none[i], N[n][i])
      <4>1. 1 \in {0, 1} /\ Len(none) \in Nat /\ Len(none) >= 1
        BY <2>2
      <4>2. IF none[Len(none)] = <<"#">>
            THEN Len(N[n]) >= Len(none) - 1 + 1 /\ \A i \in 1..Len(none) - 1 : Meets(none[i], N[n][i])
            ELSE Len(N[n]) = Len(none) /\ \A i \in 1..Len(none) : Meets(none[i], N[n][i])
        BY <2>3, <4>1, CoversIs, Zenon
      <4> QED
        BY <3>1, <4>2, Zenon
    <3> QED
      BY <2>2, <3>2 DEF Meets
  <2>5. n > l
    <3>1. topic \in Seq(STRING) /\ N = LevelsFrom(topic) /\ n \in 1..Len(topic) + 1
      BY <1>1, <1>3
    <3> HIDE DEF k, l
    <3>2. /\ n <= Len(topic) /\ topic[n] = Separator => Len(N[n]) >= 2 /\ N[n][1] = <<>>
          /\ n <= Len(topic) /\ topic[n] # Separator => N[n][1] # <<>>
      BY <3>1, FirstIs
    <3> QED
      BY <1>1, <2>4, <3>1, <3>2 DEF l
  <2>6. k + 1 \in 1..k + 1 /\ k + 1 > k
    BY <1>1
  <2> QED
    BY <2>5, <2>6, WalkSteps
<1>4. ASSUME NEW i \in 1..k, i + 1 \in T, NEW n \in 1..l + 1, Due(i, n)
      PROVE  w[i][n]
  <2>1. n \in 1..l /\ Agrees(curf[i], topic[n])
    BY <1>4, WalkAgrees
  <2> DEFINE p == Taken(curf[i], topic, n) + 1
  <2>2. w[i][n] <=> w[i + 1][p]
    BY <2>1, WalkSteps, Zenon
  <2>3. CASE curf[i] = "#"
    <3>1. i = k
      BY <1>1, <2>3, WildcardStands
    <3>2. p = l + 1
      BY <2>3 DEF Taken
    <3>3. k + 1 \in 1..k + 1 /\ l + 1 \in 1..l + 1 /\ k + 1 > k /\ l + 1 > l
      BY <1>1
    <3>4. w[k + 1][l + 1]
      BY <3>3, WalkSteps
    <3> QED
      BY <2>2, <3>1, <3>2, <3>4
  <2>4. CASE curf[i] # "#"
    <3>1. /\ p \in 1..l + 1
          /\ Covers(F[i], N[n], 1) <=> Covers(F[i + 1], N[p], 1)
          /\ IF curf[i] = Separator THEN topic[n] = Separator /\ OneMore(N[n], N[p])
             ELSE SameRest(N[n], N[p])
      BY <2>1, <2>4, WalkCovers
    <3> HIDE DEF p
    <3>2. Len(N[p]) \in Nat /\ Len(N[p]) >= 1 /\ Len(N[n]) \in Nat
      BY <1>2, <2>1, <3>1
    <3>3. Solid(N[p])
      <4>1. CASE curf[i] = Separator
        <5>1. \A j \in 2..Len(N[p]) : j \in 1..Len(N[p]) /\ j + 1 \in 2..Len(N[n])
          BY <3>1, <3>2, <4>1 DEF OneMore
        <5> QED
          BY <1>4, <3>1, <4>1, <5>1 DEF OneMore, Solid
      <4>2. CASE curf[i] # Separator
        BY <1>4, <3>1, <4>2 DEF SameRest, Solid
      <4> QED
        BY <4>1, <4>2
    <3>4. ASSUME Begins(curf, i + 1) PROVE N[p][1] # <<>>
      <4>1. (i + 1) - 1 = i /\ i + 1 # 1
        BY <1>1
      <4>2. curf[i] = Separator
        BY <3>4, <4>1 DEF Begins
      <4>3. 1 \in 1..Len(N[p]) /\ 1 + 1 \in 2..Len(N[n])
        BY <3>1, <3>2, <4>2 DEF OneMore
      <4> QED
        BY <1>4, <3>1, <4>2, <4>3 DEF OneMore, Solid
    <3>5. Due(i + 1, p)
      BY <1>4, <3>1, <3>3, <3>4
    <3> HIDE DEF Due
    <3> QED
      BY <1>4, <2>2, <3>1, <3>5
  <2> QED
    BY <2>3, <2>4
<1>5. k + 1 \in T
  <2> HIDE DEF Due, k
  <2> QED
    BY <1>1, <1>3
<1>6. \A i \in 1..k : i + 1 \in T => i \in T
  <2> SUFFICES ASSUME NEW i \in 1..k, i + 1 \in T, NEW n \in 1..l + 1, Due(i, n)
               PROVE  w[i][n]
    <3> HIDE DEF Due
    <3> QED
      OBVIOUS
  <2> HIDE DEF T
  <2> QED
    BY <1>4
<1>7. 1 \in T
  <2> HIDE DEF T, k
  <2>1. \A i \in 1..k + 1 : i \in T
    BY <1>1, <1>5, <1>6, Downwards
  <2> QED
    BY <1>1, <2>1
<1>8. Due(1, 1)
  <2>1. 1 \in 1..l + 1
    BY <1>1
  <2>2. Len(N[1]) \in Nat /\ Len(N[1]) >= 1
    BY <1>2, <2>1
  <2> QED
    BY <2>2 DEF Solid, Begins
<1> HIDE DEF Due
<1> QED
  BY <1>1, <1>7, <1>8


-----------------------------------------------------------------------------
(* Which handlers are called *)

LEMMA WalkBegins ==
    ASSUME NEW curf \in Seq(STRING), NEW topic \in Seq(STRING), Proper(curf)
    PROVE  \E F, N, w : /\ Walking(curf, topic, F, N, w)
                        /\ Levels(curf) = F[1] /\ Levels(topic) = N[1]
                        /\ isTopicMatched(curf, topic) = w[1][1]
<1> DEFINE F == LevelsFrom(curf)
           N == LevelsFrom(topic)
           w == WalkOf(curf, topic)
<1>1. Walking(curf, topic, F, N, w)
  BY DEF Walking
<1>2. Levels(curf) = F[1] /\ Levels(topic) = N[1]
  BY LevelsAre, Zenon
<1>3. isTopicMatched(curf, topic) = w[1][1]
  BY WalkIs, Zenon
<1> QED
  <2> HIDE DEF F, N, w
  <2> QED
    BY <1>1, <1>2, <1>3

\* A filter covers the name that it is, wildcards or not.
LEMMA CoversItself ==
    ASSUME NEW name \in Seq(STRING)
    PROVE  Covers(Levels(name), Levels(name), 0)
<1> DEFINE a == Levels(name)
<1>1. Len(a) \in Nat /\ Len(a) >= 1
  <2>1. a = LevelsFrom(name)[1] /\ 1 \in 1..Len(name) + 1
    BY LevelsAre
  <2>2. LevelsFrom(name)[1] \in Seq(Seq(STRING)) /\ Len(LevelsFrom(name)[1]) >= 1
    BY <2>1, LevelsAre
  <2> HIDE DEF a
  <2> QED
    BY <2>1, <2>2
<1> HIDE DEF a
<1>2. Covers(a, a, 0)
  BY <1>1, CoversIs DEF Meets
<1> QED
  BY <1>2 DEF a

\* What isTopicMatched() says of a proper filter and any topic is right, and complete.
LEMMA TopicMatched ==
    ASSUME NEW curf \in Seq(STRING), NEW topic \in Seq(STRING), Proper(curf)
    PROVE  /\ isTopicMatched(curf, topic) => Covers(Levels(curf), Levels(topic), 0)
           /\ <<>> \notin Range(Levels(topic)) /\ Covers(Levels(curf), Levels(topic), 1)
                 => isTopicMatched(curf, topic)
<1>1. PICK F, N, w : /\ Walking(curf, topic, F, N, w)
                     /\ Levels(curf) = F[1] /\ Levels(topic) = N[1]
                     /\ isTopicMatched(curf, topic) = w[1][1]
  BY WalkBegins
<1>2. w[1][1] => Covers(F[1], N[1], 0)
  BY <1>1, WalkIsRight
<1>3. ASSUME <<>> \notin Range(N[1]), Covers(F[1], N[1], 1)
      PROVE  w[1][1]
  <2>1. N[1] \in Seq(Seq(STRING))
    <3>1. N = LevelsFrom(topic) /\ 1 \in 1..Len(topic) + 1
      BY <1>1 DEF Walking
    <3> QED
      BY <3>1, LevelsAre
  <2>2. \A j \in 1..Len(N[1]) : N[1][j] # <<>>
    BY <1>3, <2>1 DEF Range
  <2> QED
    BY <1>1, <1>3, <2>2, WalkIsComplete
<1> QED
  BY <1>1, <1>2, <1>3

MatchIInv ==
    \/ filter = <<>> /\ topicName = <<>> /\ ~matched
    \/ /\ filter \in Filters /\ topicName \in Topics
       /\ matched <=> topicName = filter \/ isTopicMatched(filter, topicName)

LEMMA MatchIsAgreed == MatchIInv => MatchAgrees
<1>1. CASE filter = <<>> /\ topicName = <<>> /\ ~matched
  BY <1>1 DEF MatchAgrees, MatchIsRight, MatchIsComplete
<1>2. CASE /\ filter \in Filters /\ topicName \in Topics
           /\ matched <=> topicName = filter \/ isTopicMatched(filter, topicName)
  <2>1. filter \in Seq(STRING) /\ topicName \in Seq(STRING) /\ Proper(filter)
    BY <1>2, TopicAssumption
  <2>2. isTopicMatched(filter, topicName) => Covers(Levels(filter), Levels(topicName), 0)
    BY <2>1, TopicMatched, Zenon
  <2>3. topicName = filter => Covers(Levels(filter), Levels(topicName), 0)
    BY <2>1, CoversItself, Zenon
  <2>4. <<>> \notin Range(Levels(topicName)) /\ Covers(Levels(filter), Levels(topicName), 1)
           => isTopicMatched(filter, topicName)
    BY <2>1, TopicMatched, Zenon
  <2> QED
    BY <1>2, <2>2, <2>3, <2>4, Zenon DEF MatchAgrees, MatchIsRight, MatchIsComplete
<1> QED
  BY <1>1, <1>2 DEF MatchIInv

\* Whatever filters are subscribed to and whatever topics messages have, deliverMessage()
\* calls a handler only for messages its filter covers, and for all of those in whose
\* topic no level is empty, a '#' taken to stand for one level at least.
THEOREM HandlersMatch == TopicSpec => []MatchAgrees
<1>1. TopicInit => MatchIInv
  BY DEF TopicInit, MatchIInv
<1>2. MatchIInv /\ [TopicNext]_topicVars => MatchIInv'
  <2> SUFFICES ASSUME MatchIInv, [TopicNext]_topicVars
               PROVE  MatchIInv'
    OBVIOUS
  <2>1. CASE UNCHANGED topicVars
    BY <2>1 DEF MatchIInv, topicVars
  <2>2. ASSUME NEW f \in Filters, NEW t \in Topics, deliverMessage(f, t)
        PROVE  MatchIInv'
    BY <2>2, Zenon DEF MatchIInv, deliverMessage
  <2> QED
    BY <2>1, <2>2 DEF TopicNext
<1> QED
  BY <1>1, <1>2, MatchIsAgreed, PTL DEF TopicSpec

=============================================================================
