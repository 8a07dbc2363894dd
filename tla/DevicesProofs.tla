--------------------------- MODULE DevicesProofs ---------------------------
(* Theorems about the devices on the board but the display: the 1-Wire      *)
(* search, the temperature probes, the knob, and the frames of the user    *)
(* interface, for every value of their constants.                          *)
EXTENDS OneWire, DS1820, Encoder, DisplayUi, SequenceTheorems, TLAPS

-----------------------------------------------------------------------------
(* Lists.                                                                  *)

LEMMA RemoveAtProperties ==
    ASSUME NEW S, NEW s \in Seq(S), NEW n \in 1..Len(s)
    PROVE  /\ RemoveAt(s, n) \in Seq(S)
           /\ Len(RemoveAt(s, n)) = Len(s) - 1
           /\ \A i \in 1..Len(s) - 1 :
                 RemoveAt(s, n)[i] = IF i < n THEN s[i] ELSE s[i + 1]
<1> DEFINE a == SubSeq(s, 1, n - 1)
           b == SubSeq(s, n + 1, Len(s))
<1>1. Len(s) \in Nat /\ n \in Nat /\ n >= 1 /\ n <= Len(s)
  BY LenProperties
<1>2. /\ a \in Seq(S) /\ Len(a) = n - 1
      /\ \A i \in 1..n - 1 : a[i] = s[i]
  BY <1>1, SubSeqProperties
<1>3. /\ b \in Seq(S) /\ Len(b) = Len(s) - n
      /\ \A i \in 1..Len(s) - n : b[i] = s[n + i]
  BY <1>1, SubSeqProperties
<1>4. RemoveAt(s, n) = a \o b
  BY DEF RemoveAt
<1> HIDE DEF a, b
<1>5. /\ a \o b \in Seq(S) /\ Len(a \o b) = Len(a) + Len(b)
      /\ \A i \in 1..Len(a) + Len(b) :
            (a \o b)[i] = IF i <= Len(a) THEN a[i] ELSE b[i - Len(a)]
  BY <1>2, <1>3, ConcatProperties
<1> QED
  BY <1>1, <1>2, <1>3, <1>4, <1>5

-----------------------------------------------------------------------------
(* What main() and the constructor make of a result.                       *)

LEMMA ReturnsTypes ==
    ASSUME WireTypeOK, StagesInv, phase # "call",
           NEW found \in BOOLEAN, Returns(found), found => search_ROM \in Codes
    PROVE  /\ stage \in {"while", "new"}
           /\ probes' \in Seq(Codes) /\ Len(probes') <= MaxProbes
           /\ stage' \in {"while", "new", "run", "error"}
           /\ phase' = "call" /\ answer' = found /\ bus' = bus /\ quiet' = quiet
           /\ StagesInv'
<1>1. stage \in {"while", "new"}
  BY DEF WireTypeOK, StagesInv
<1>2. /\ probes \in Seq(Codes) /\ Len(probes) \in Nat /\ Len(probes) < MaxProbes
      /\ MaxProbes \in Nat
  BY <1>1, WireAssumption DEF WireTypeOK, StagesInv
<1>3. /\ phase' = "call" /\ answer' = found /\ bus' = bus /\ quiet' = quiet
  BY DEF Returns, Outcome
<1>4. CASE stage = "new" /\ found
  <2>1. probes' = Append(probes, search_ROM) /\ search_ROM \in Codes
    BY <1>4 DEF Returns, Outcome
  <2>2. probes' \in Seq(Codes) /\ Len(probes') = Len(probes) + 1
    BY <1>2, <2>1
  <2>3. stage' = IF Len(probes) + 1 = MaxProbes THEN "run" ELSE "while"
    BY <1>4 DEF Returns, Outcome
  <2> QED
    BY <1>1, <1>2, <1>3, <2>2, <2>3 DEF StagesInv
<1>5. CASE ~(stage = "new" /\ found)
  <2>1. probes' = probes
    BY <1>5 DEF Returns, Outcome
  <2>2. stage' = IF stage = "while" THEN (IF found THEN "new" ELSE "run") ELSE "error"
    BY <1>1, <1>5 DEF Returns, Outcome
  <2> QED
    BY <1>1, <1>2, <1>3, <2>1, <2>2 DEF StagesInv
<1> QED
  BY <1>4, <1>5

-----------------------------------------------------------------------------
(* Types and stages.                                                       *)

LEMMA FollowTypes ==
    ASSUME WireTypeOK, NEW i \in 1..RomBits, NEW bit \in {0, 1},
           NEW marker \in 0..RomBits, Follow(i, bit, marker)
    PROVE  /\ search_ROM' \in Rom /\ listening' \subseteq bus'
           /\ descrepancy_marker' \in 0..RomBits
           /\ ROM_bit_index' \in 1..RomBits + 1
  BY WireAssumption DEF WireTypeOK, Follow, Rom

\* A bit is taken and marked, or not
LEMMA TakenBit ==
    ASSUME WireTypeOK, NEW i \in 1..RomBits, NEW A \in BOOLEAN, NEW B \in BOOLEAN,
           TakesBit(i, A, B)
    PROVE  \E bit \in {0, 1}, marker \in {descrepancy_marker, i} :
              /\ Follow(i, bit, marker)
              /\ A # B => bit = (IF A THEN 1 ELSE 0) /\ marker = descrepancy_marker
              /\ A = B => /\ bit = Branch(i)
                          /\ marker = IF bit = 0 THEN i ELSE descrepancy_marker
<1>1. Branch(i) \in {0, 1}
  BY DEF Branch, WireTypeOK, Rom
<1>2. CASE A # B
  BY <1>2 DEF TakesBit
<1>3. CASE A = B
  BY <1>1, <1>3 DEF TakesBit
<1> QED
  BY <1>2, <1>3

LEMMA TypeStep ==
    ASSUME WireTypeOK, StagesInv, [WireNext]_wireVars
    PROVE  WireTypeOK' /\ StagesInv'
<1> USE WireAssumption
<1>1. CASE StartSearch
  <2>1. [i \in 1..RomBits |-> 0] \in Rom
    BY DEF Rom
  <2> QED
    BY <1>1, <2>1 DEF StartSearch, WireTypeOK, StagesInv
<1>2. CASE NobodyPresent
  <2>1. phase # "call" /\ Returns(FALSE) /\ UNCHANGED searchVars
    BY <1>2 DEF NobodyPresent
  <2> QED
    BY <2>1, ReturnsTypes DEF WireTypeOK, searchVars
<1>3. CASE ResetBus
  BY <1>3 DEF ResetBus, WireTypeOK, StagesInv
<1>4. ASSUME NEW A \in BOOLEAN, NEW B \in BOOLEAN, phase = "bits",
             ROM_bit_index <= RomBits, TakesBit(ROM_bit_index, A, B), quiet' \in BOOLEAN
      PROVE  WireTypeOK' /\ StagesInv'
  <2>1. ROM_bit_index \in 1..RomBits
    BY <1>4 DEF WireTypeOK
  <2>2. PICK bit \in {0, 1}, marker \in {descrepancy_marker, ROM_bit_index} :
           Follow(ROM_bit_index, bit, marker)
    BY <1>4, <2>1, TakenBit
  <2>3. marker \in 0..RomBits
    BY <2>1 DEF WireTypeOK
  <2>4. /\ search_ROM' \in Rom /\ listening' \subseteq bus'
        /\ descrepancy_marker' \in 0..RomBits
        /\ ROM_bit_index' \in 1..RomBits + 1
    BY <2>1, <2>2, <2>3, FollowTypes
  <2>5. UNCHANGED <<bus, probes, stage, phase, last_descrepancy, answer>>
    BY <2>2 DEF Follow
  <2> QED
    BY <1>4, <2>4, <2>5 DEF WireTypeOK, StagesInv
<1>5. CASE ReadBit
  BY <1>4, <1>5 DEF ReadBit, WireTypeOK
<1>6. CASE DisturbedBit
  <2>1. phase = "bits" /\ ROM_bit_index <= RomBits /\ quiet' = FALSE
    BY <1>6 DEF DisturbedBit
  <2>2. ASSUME NEW A \in BOOLEAN, NEW B \in BOOLEAN, TakesBit(ROM_bit_index, A, B)
        PROVE  WireTypeOK' /\ StagesInv'
    BY <1>4, <2>1, <2>2
  <2>3. CASE Outcome(FALSE) /\ UNCHANGED searchVars
    BY <2>1, <2>3 DEF Outcome, searchVars, WireTypeOK, StagesInv
  <2> QED
    BY <1>6, <2>2, <2>3 DEF DisturbedBit
<1>7. CASE NobodyAnswers
  <2>1. phase # "call" /\ Returns(FALSE) /\ UNCHANGED searchVars
    BY <1>7 DEF NobodyAnswers
  <2> QED
    BY <2>1, ReturnsTypes DEF WireTypeOK, searchVars
<1>8. CASE CompareROM
  <2>1. /\ phase = "bits" /\ last_descrepancy' = descrepancy_marker
        /\ UNCHANGED <<search_ROM, descrepancy_marker, ROM_bit_index, listening>>
    BY <1>8 DEF CompareROM
  <2>2. CASE Returns(search_ROM \in Codes)
    <3> DEFINE found == search_ROM \in Codes
    <3>1. found \in BOOLEAN
      OBVIOUS
    <3>2. Returns(found) /\ (found => search_ROM \in Codes)
      BY <2>2
    <3> HIDE DEF found
    <3> QED
      BY <2>1, <3>1, <3>2, ReturnsTypes DEF WireTypeOK
  <2>3. CASE Returns(FALSE)
    BY <2>1, <2>3, ReturnsTypes DEF WireTypeOK
  <2>4. CASE phase' = "reset" /\ UNCHANGED <<bus, probes, stage, answer, quiet>>
    BY <2>1, <2>4 DEF WireTypeOK, StagesInv
  <2> QED
    BY <1>8, <2>2, <2>3, <2>4 DEF CompareROM
<1>9. ASSUME NEW n \in 1..MaxProbes, Delete(n) PROVE WireTypeOK' /\ StagesInv'
  <2>1. probes \in Seq(Codes) /\ n \in 1..Len(probes) /\ probes' = RemoveAt(probes, n)
    BY <1>9 DEF Delete, WireTypeOK
  <2>3. probes' \in Seq(Codes) /\ Len(probes') = Len(probes) - 1
    BY <2>1, RemoveAtProperties
  <2>4. Len(probes) <= MaxProbes /\ Len(probes) \in Nat /\ MaxProbes \in Nat
    BY <2>1 DEF WireTypeOK
  <2>5. Len(probes') < MaxProbes
    BY <2>3, <2>4
  <2>6. /\ stage' = "while" /\ quiet' = FALSE
        /\ UNCHANGED <<bus, phase, searchVars, answer>>
    BY <1>9 DEF Delete
  <2>7. Len(probes') <= MaxProbes
    BY <2>3, <2>4
  <2> QED
    BY <2>3, <2>5, <2>6, <2>7 DEF WireTypeOK, StagesInv, searchVars
<1>10. ASSUME NEW d \in Codes, Plug(d) \/ Unplug(d) PROVE WireTypeOK' /\ StagesInv'
  BY <1>10 DEF Plug, Unplug, WireTypeOK, StagesInv, searchVars
<1>11. CASE UNCHANGED wireVars
  BY <1>11 DEF wireVars, searchVars, WireTypeOK, StagesInv
<1> QED
  BY <1>1, <1>2, <1>3, <1>5, <1>6, <1>7, <1>8, <1>9, <1>10, <1>11 DEF WireNext, SearchStep

-----------------------------------------------------------------------------
(* A pass on a quiet bus.                                                  *)

\* What listening devices answer: all the same bit, or both
LEMMA BitRead ==
    ASSUME WireTypeOK, phase = "bits", ReadBit
    PROVE  \E bit \in {0, 1}, marker \in {descrepancy_marker, ROM_bit_index} :
              /\ Follow(ROM_bit_index, bit, marker)
              /\ \/ /\ \A d \in listening : d[ROM_bit_index] = bit
                    /\ marker = descrepancy_marker
                 \/ /\ \E d \in listening : d[ROM_bit_index] = 0
                    /\ \E d \in listening : d[ROM_bit_index] = 1
                    /\ bit = Branch(ROM_bit_index)
                    /\ marker = IF bit = 0 THEN ROM_bit_index ELSE descrepancy_marker
<1> DEFINE k == ROM_bit_index
           m == descrepancy_marker
           A == \A d \in listening : d[k] = 1
           B == \A d \in listening : d[k] = 0
<1>1. k \in 1..RomBits /\ listening # {}
  BY WireAssumption DEF ReadBit, WireTypeOK
<1>a. A \in BOOLEAN /\ B \in BOOLEAN
  OBVIOUS
<1>b. TakesBit(k, A, B)
  BY DEF ReadBit
<1>2. \A d \in listening : d[k] \in {0, 1}
  BY <1>1, WireAssumption DEF WireTypeOK, Rom
<1>3. \/ A /\ ~B
      \/ ~A /\ B
      \/ /\ ~A /\ ~B
         /\ \E d \in listening : d[k] = 0
         /\ \E d \in listening : d[k] = 1
  BY <1>1, <1>2
<1> HIDE DEF A, B
<1>4. PICK bit \in {0, 1}, marker \in {descrepancy_marker, k} :
              /\ Follow(k, bit, marker)
              /\ A # B => bit = (IF A THEN 1 ELSE 0) /\ marker = descrepancy_marker
              /\ A = B => /\ bit = Branch(k)
                          /\ marker = IF bit = 0 THEN k ELSE descrepancy_marker
  BY <1>1, <1>a, <1>b, TakenBit
<1>5. CASE A /\ ~B
  <2>1. bit = 1 /\ marker = m
    BY <1>4, <1>5
  <2>2. \A d \in listening : d[k] = bit
    BY <1>5, <2>1 DEF A
  <2> QED
    BY <1>4, <2>1, <2>2
<1>6. CASE ~A /\ B
  <2>1. bit = 0 /\ marker = m
    BY <1>a, <1>4, <1>6
  <2>2. \A d \in listening : d[k] = bit
    BY <1>6, <2>1 DEF B
  <2> QED
    BY <1>4, <2>1, <2>2
<1>7. CASE ~A /\ ~B
  BY <1>a, <1>3, <1>4, <1>7
<1> QED
  BY <1>3, <1>5, <1>6, <1>7

LEMMA PassStep ==
    ASSUME WireTypeOK, PassInv, phase = "bits", ReadBit
    PROVE  PassInv'
<1>0. PICK k, l, m : k = ROM_bit_index /\ l = last_descrepancy /\ m = descrepancy_marker
  OBVIOUS
<1>1. PICK bit \in {0, 1}, marker \in {m, k} :
              /\ Follow(k, bit, marker)
              /\ \/ /\ \A d \in listening : d[k] = bit
                    /\ marker = m
                 \/ /\ \E d \in listening : d[k] = 0
                    /\ \E d \in listening : d[k] = 1
                    /\ bit = Branch(k)
                    /\ marker = IF bit = 0 THEN k ELSE m
  BY <1>0, BitRead
<1>2. /\ search_ROM' = [search_ROM EXCEPT ![k] = bit]
      /\ listening' = {d \in listening : d[k] = bit}
      /\ descrepancy_marker' = marker
      /\ ROM_bit_index' = k + 1
      /\ last_descrepancy' = l
      /\ UNCHANGED <<bus, probes>>
  BY <1>0, <1>1 DEF Follow
<1>3. /\ k \in 1..RomBits /\ l \in 0..RomBits /\ m \in 0..RomBits /\ RomBits \in Nat
      /\ search_ROM \in Rom
  BY <1>0, WireAssumption DEF ReadBit, WireTypeOK
<1>4. \A d \in bus : d \in Rom
  BY WireAssumption DEF WireTypeOK
<1>5. /\ listening = {d \in bus : Agrees(d, k)}
      /\ listening # {}
      /\ m < k
      /\ m > 0 => \E d \in bus : Leads(d, m)
      /\ k <= l => \E d \in bus : Leads(d, l)
  BY <1>0 DEF PassInv
<1>6. /\ \A j \in 1..RomBits : j # k => search_ROM'[j] = search_ROM[j]
      /\ search_ROM'[k] = bit
  BY <1>2, <1>3 DEF Rom
<1>7. \A d, i : i \in 1..k => (Agrees(d, i)' <=> Agrees(d, i))
  BY <1>3, <1>6 DEF Agrees
<1>8. \A d : Agrees(d, k + 1)' <=> Agrees(d, k) /\ d[k] = bit
  <2>1. 1..(k + 1) - 1 = (1..k - 1) \union {k}
    BY <1>3
  <2>2. \A j \in 1..k - 1 : search_ROM'[j] = search_ROM[j]
    BY <1>3, <1>6
  <2>3. \A d : Agrees(d, k + 1)' <=> \A j \in (1..k - 1) \union {k} : d[j] = search_ROM'[j]
    BY <2>1 DEF Agrees
  <2> QED
    BY <1>6, <2>2, <2>3 DEF Agrees
<1>9. \A d, i : i \in 1..k - 1 => (Leads(d, i)' <=> Leads(d, i))
  BY <1>3, <1>6, <1>7 DEF Leads
\* The device the last branch leads to answers with the old bits up to there
<1>10. ASSUME k <= l
       PROVE  \E d \in listening : d[k] = IF k < l THEN search_ROM[k] ELSE 1
  <2>1. PICK d \in bus : Leads(d, l)
    BY <1>5, <1>10
  <2>2. Agrees(d, k)
    BY <1>3, <1>10, <2>1 DEF Leads, Agrees
  <2>3. d[k] = IF k < l THEN search_ROM[k] ELSE 1
    BY <1>3, <1>10, <2>1 DEF Leads, Agrees
  <2> QED
    BY <1>5, <2>2, <2>3
<1>11. k < l => bit = search_ROM[k]
  BY <1>0, <1>1, <1>3, <1>10 DEF Branch
<1>12. k = l => bit = 1
  BY <1>0, <1>1, <1>3, <1>10 DEF Branch
<1>13. k > l /\ (\E d \in listening : d[k] # bit) => bit = 0
  BY <1>0, <1>1, <1>3 DEF Branch
<1>14. k < l => search_ROM' = search_ROM
  BY <1>2, <1>3, <1>11 DEF Rom
<1>15. \A d, i : k < l => (Leads(d, i)' <=> Leads(d, i))
  BY <1>14 DEF Leads, Agrees
<1>16. ASSUME NEW d \in listening, d[k] = 1, bit = 0
       PROVE  Leads(d, k)' /\ marker = k
  <2>1. marker = k
    BY <1>1, <1>16
  <2>2. Agrees(d, k)
    BY <1>5
  <2>3. Agrees(d, k)'
    BY <1>3, <1>7, <2>2
  <2> QED
    BY <1>6, <1>16, <2>1, <2>3 DEF Leads
<1>17. listening' = {d \in bus' : Agrees(d, k + 1)'}
  <2>1. bus' = bus
    BY <1>2
  <2>2. listening' = {d \in bus : Agrees(d, k) /\ d[k] = bit}
    BY <1>2, <1>5
  <2> QED
    BY <1>8, <2>1, <2>2
<1>18. listening' # {}
  BY <1>1, <1>2, <1>5
<1>19. marker < k + 1
  BY <1>1, <1>3, <1>5
<1>20. marker > 0 => \E d \in bus : Leads(d, marker)'
  <2>1. CASE marker = m
    BY <2>1, <1>3, <1>5, <1>9
  <2>2. CASE marker # m
    <3>1. /\ marker = k /\ bit = 0
          /\ \E d \in listening : d[k] = 1
      BY <1>1, <2>2
    <3>2. PICK d \in listening : d[k] = 1
      BY <3>1
    <3>3. d \in bus /\ Leads(d, k)'
      BY <1>5, <1>16, <3>1, <3>2
    <3> QED
      BY <3>1, <3>3
  <2> QED
    BY <2>1, <2>2
<1>21. ASSUME k + 1 <= l PROVE \E d \in bus : Leads(d, l)'
  <2>1. k < l /\ k <= l
    BY <1>3, <1>21
  <2>2. PICK d \in bus : Leads(d, l)
    BY <1>5, <2>1
  <2> QED
    BY <1>15, <2>1, <2>2
<1>22. ASSUME NEW d \in Unassigned
       PROVE  \/ l < k + 1 /\ d \in listening'
              \/ \E i \in 1..RomBits : /\ Leads(d, i)'
                                       /\ i < k + 1 => i <= marker
                                       /\ i >= k + 1 => i <= l
  <2>1. d \in bus /\ d[k] \in {0, 1}
    BY <1>3, <1>4 DEF Unassigned, Rom
  <2>2. CASE l < k /\ d \in listening
    <3>1. CASE d[k] = bit
      BY <1>2, <1>3, <2>2, <3>1
    <3>2. CASE d[k] # bit
      <4>1. Leads(d, k)' /\ marker = k
        BY <1>13, <1>16, <2>1, <2>2, <3>2
      <4> QED
        BY <1>3, <4>1
    <3> QED
      BY <3>1, <3>2
  <2>3. CASE ~(l < k /\ d \in listening)
    <3>1. PICK i \in 1..RomBits : Leads(d, i) /\ (i < k => i <= m) /\ (i >= k => i <= l)
      BY <1>0, <2>3 DEF PassInv
    <3>2. CASE i < k
      <4>1. Leads(d, i)' /\ i <= marker
        BY <1>1, <1>3, <1>9, <3>1, <3>2
      <4> QED
        BY <1>3, <3>2, <4>1
    <3>3. CASE i = k /\ k < l
      <4>1. d \in listening /\ d[k] = 1 /\ search_ROM[k] = 0
        BY <1>5, <2>1, <3>1, <3>3 DEF Leads
      <4>2. Leads(d, k)' /\ marker = k
        BY <1>11, <1>16, <3>3, <4>1
      <4> QED
        BY <1>3, <4>2
    <3>4. CASE i = k /\ k = l
      <4>1. d \in listening /\ d[k] = bit
        BY <1>5, <1>12, <2>1, <3>1, <3>4 DEF Leads
      <4> QED
        BY <1>2, <1>3, <3>4, <4>1
    <3>5. CASE i > k
      BY <1>3, <1>15, <3>1, <3>5
    <3> QED
      BY <1>3, <3>1, <3>2, <3>3, <3>4, <3>5
  <2> QED
    BY <2>2, <2>3
<1>23. Unassigned' = Unassigned
  BY <1>2 DEF Unassigned, Known
<1> QED
  BY <1>2, <1>17, <1>18, <1>19, <1>20, <1>21, <1>22, <1>23 DEF PassInv

-----------------------------------------------------------------------------
(* What a search tells main().                                             *)

\* A search that finds nothing is right, if no device is without an object
LEMMA NothingFound ==
    ASSUME WireTypeOK, StagesInv, SearchInv, phase # "call", Returns(FALSE),
           quiet => Unassigned = {}
    PROVE  SearchInv' /\ SearchFinds' /\ EveryDeviceFound'
<1>1. /\ answer' = FALSE /\ phase' = "call" /\ bus' = bus /\ quiet' = quiet
      /\ probes' = probes /\ stage \in {"while", "new"}
      /\ stage' = IF stage = "while" THEN "run" ELSE "error"
  BY DEF Returns, Outcome, WireTypeOK, StagesInv
<1>2. Known' = Known
  BY <1>1 DEF Known
<1>3. quiet => bus \subseteq Known
  BY DEF Unassigned
<1>4. stage' = "error" => ~quiet'
  BY <1>1 DEF SearchInv
<1> QED
  BY <1>1, <1>2, <1>3, <1>4 DEF SearchInv, SearchFinds, EveryDeviceFound

LEMMA DeviceFound ==
    ASSUME WireTypeOK, StagesInv, phase # "call", Returns(TRUE),
           search_ROM \in Rom, quiet => search_ROM \in Unassigned
    PROVE  SearchInv' /\ SearchFinds' /\ EveryDeviceFound'
<1>1. /\ answer' = TRUE /\ phase' = "call" /\ bus' = bus /\ quiet' = quiet
      /\ stage \in {"while", "new"}
  BY DEF Returns, Outcome, WireTypeOK, StagesInv
<1>2. CASE stage = "while"
  <2>1. probes' = probes /\ stage' = "new"
    BY <1>2 DEF Returns, Outcome
  <2>2. Unassigned' = Unassigned
    BY <1>1, <2>1 DEF Unassigned, Known
  <2> QED
    BY <1>1, <2>1, <2>2 DEF SearchInv, SearchFinds, EveryDeviceFound
<1>3. CASE stage = "new"
  <2>1. /\ probes' = Append(probes, search_ROM)
        /\ stage' = IF Len(probes) + 1 = MaxProbes THEN "run" ELSE "while"
    BY <1>3 DEF Returns, Outcome
  <2>2. Len(probes') = Len(probes) + 1
    BY <2>1, WireAssumption DEF WireTypeOK
  <2> QED
    BY <1>1, <2>1, <2>2 DEF SearchInv, SearchFinds, EveryDeviceFound
<1> QED
  BY <1>1, <1>2, <1>3

\* The complete pass of a quiet bus has the code of a device
LEMMA PassComplete ==
    ASSUME WireTypeOK, PassInv, ROM_bit_index = RomBits + 1
    PROVE  /\ search_ROM \in bus
           /\ \A d \in Unassigned :
                 \/ d = search_ROM
                 \/ \E i \in 1..descrepancy_marker : Leads(d, i)
<1>1. RomBits \in Nat /\ search_ROM \in Rom /\ (\A d \in bus : d \in Rom)
      /\ descrepancy_marker \in 0..RomBits
  BY WireAssumption DEF WireTypeOK
<1>2. \A d \in Rom : Agrees(d, RomBits + 1) => d = search_ROM
  <2>1. (RomBits + 1) - 1 = RomBits
    BY <1>1
  <2>2. SUFFICES ASSUME NEW d \in Rom, \A j \in 1..RomBits : d[j] = search_ROM[j]
                 PROVE  d = search_ROM
    BY <2>1 DEF Agrees
  <2> QED
    BY <1>1, <2>2 DEF Rom
<1>3. \A d \in listening : d \in bus /\ d = search_ROM
  BY <1>1, <1>2 DEF PassInv
<1>4. search_ROM \in bus
  BY <1>3 DEF PassInv
<1>5. ASSUME NEW d \in Unassigned
      PROVE  \/ d = search_ROM
             \/ \E i \in 1..descrepancy_marker : Leads(d, i)
  <2>1. CASE d \in listening
    BY <1>3, <2>1
  <2>2. CASE d \notin listening
    <3>1. PICK i \in 1..RomBits : Leads(d, i) /\ (i < RomBits + 1 => i <= descrepancy_marker)
      BY <2>2 DEF PassInv
    <3> QED
      BY <1>1, <3>1
  <2> QED
    BY <2>1, <2>2
<1> QED
  BY <1>4, <1>5

\* A pass after a reset starts with every device
LEMMA PassBegins ==
    ASSUME WireTypeOK, BranchInv, ResetBus
    PROVE  PassInv'
<1>1. /\ bus # {} /\ listening' = bus /\ ROM_bit_index' = 1 /\ descrepancy_marker' = 0
      /\ UNCHANGED <<bus, probes, search_ROM, last_descrepancy>>
  BY DEF ResetBus
<1>2. last_descrepancy \in 0..RomBits /\ RomBits \in Nat
  BY WireAssumption DEF WireTypeOK
<1>3. PICK l : l = last_descrepancy
  OBVIOUS
<1>4. \A d : Agrees(d, ROM_bit_index)'
  BY <1>1 DEF Agrees
<1>5. /\ Unassigned' = Unassigned
      /\ \A d, i : Leads(d, i)' <=> Leads(d, i)
  BY <1>1 DEF Unassigned, Known, Leads, Agrees
<1>6. l >= 1 => \E d \in bus : Leads(d, l)'
  BY <1>2, <1>3, <1>5 DEF BranchInv
<1>7. ASSUME NEW d \in Unassigned
      PROVE  \/ l < 1 /\ d \in bus
             \/ \E i \in 1..RomBits : Leads(d, i)' /\ i <= l
  <2>1. CASE l = 0
    BY <2>1 DEF Unassigned
  <2>2. CASE l > 0
    <3>1. PICK i \in 1..l : Leads(d, i)
      BY <1>3, <2>2 DEF BranchInv
    <3> QED
      BY <1>2, <1>3, <1>5, <3>1
  <2> QED
    BY <1>2, <1>3, <2>1, <2>2
<1>8. listening' = {d \in bus' : Agrees(d, ROM_bit_index)'}
  BY <1>1, <1>4
<1>9. ~(descrepancy_marker' > 0)
  BY <1>1
<1>10. \A d \in Unassigned' :
          \/ last_descrepancy' < ROM_bit_index' /\ d \in listening'
          \/ \E i \in 1..RomBits : /\ Leads(d, i)'
                                   /\ i < ROM_bit_index' => i <= descrepancy_marker'
                                   /\ i >= ROM_bit_index' => i <= last_descrepancy'
  BY <1>1, <1>3, <1>5, <1>7
<1>11. ROM_bit_index' <= last_descrepancy' => \E d \in bus' : Leads(d, last_descrepancy)'
  BY <1>1, <1>2, <1>5 DEF BranchInv
<1> QED
  BY <1>1, <1>8, <1>9, <1>10, <1>11 DEF PassInv

LEMMA QuietStep ==
    ASSUME WireTypeOK, StagesInv, SearchInv, SearchFinds, EveryDeviceFound,
           [WireNext]_wireVars
    PROVE  SearchInv' /\ SearchFinds' /\ EveryDeviceFound'
<1>1. CASE StartSearch
  <2>1. /\ phase' = "reset" /\ stage \in {"while", "new"} /\ last_descrepancy' = 0
        /\ stage' = stage /\ quiet' = (stage = "while" \/ quiet)
        /\ UNCHANGED <<bus, probes>>
    BY <1>1 DEF StartSearch
  <2>2. BranchInv' /\ Unassigned' = Unassigned
    BY <2>1 DEF BranchInv, Unassigned, Known
  <2>3. stage' = "new" /\ quiet' => Unassigned' # {}
    BY <2>1, <2>2 DEF SearchInv
  <2> QED
    BY <2>1, <2>2, <2>3 DEF SearchInv, SearchFinds, EveryDeviceFound
<1>2. CASE NobodyPresent
  BY <1>2, NothingFound DEF NobodyPresent, Unassigned
<1>3. CASE ResetBus
  <2>1. /\ phase = "reset" /\ phase' = "bits" /\ UNCHANGED <<bus, probes, stage, quiet, answer>>
    BY <1>3 DEF ResetBus
  <2>2. quiet => PassInv'
    BY <1>3, <2>1, PassBegins DEF SearchInv
  <2>3. Unassigned' = Unassigned
    BY <2>1 DEF Unassigned, Known
  <2> QED
    BY <2>1, <2>2, <2>3 DEF SearchInv, SearchFinds, EveryDeviceFound, Known
<1>4. CASE ReadBit
  <2>1. phase = "bits" /\ UNCHANGED <<bus, probes, stage, phase, quiet, answer>>
    BY <1>4, BitRead DEF ReadBit, Follow
  <2>2. quiet => PassInv'
    BY <1>4, <2>1, PassStep DEF SearchInv
  <2>3. Unassigned' = Unassigned
    BY <2>1 DEF Unassigned, Known
  <2> QED
    BY <2>1, <2>2, <2>3 DEF SearchInv, SearchFinds, EveryDeviceFound, Known
<1>5. CASE DisturbedBit \/ (\E n \in 1..MaxProbes : Delete(n))
           \/ (\E d \in Codes : Plug(d) \/ Unplug(d))
  <2>1. quiet' = FALSE
    BY <1>5 DEF DisturbedBit, Delete, Plug, Unplug
  <2> QED
    BY <2>1 DEF SearchInv, SearchFinds, EveryDeviceFound
<1>6. CASE NobodyAnswers
  <2>1. phase = "bits" /\ listening = {} /\ Returns(FALSE)
    BY <1>6 DEF NobodyAnswers
  <2>2. ~quiet
    BY <2>1 DEF SearchInv, PassInv
  <2> QED
    BY <2>1, <2>2, NothingFound
<1>7. CASE CompareROM
  <2>1. /\ phase = "bits" /\ ROM_bit_index = RomBits + 1
        /\ last_descrepancy' = descrepancy_marker /\ search_ROM' = search_ROM
    BY <1>7 DEF CompareROM
  <2>2. /\ search_ROM \in Rom /\ bus \subseteq Codes /\ descrepancy_marker \in Nat
        /\ descrepancy_marker \in 0..RomBits
    BY DEF WireTypeOK
  <2>3. quiet => PassInv
    BY <2>1 DEF SearchInv
  <2>4. quiet => /\ search_ROM \in bus
                 /\ \A d \in Unassigned :
                       \/ d = search_ROM
                       \/ \E i \in 1..descrepancy_marker : Leads(d, i)
    BY <2>1, <2>3, PassComplete
  <2>5. CASE search_ROM \notin Known /\ search_ROM \in Codes
    <3>1. Returns(TRUE)
      <4> DEFINE found == search_ROM \in Codes
      <4>1. found = TRUE
        BY <2>5
      <4>2. Returns(found)
        BY <1>7, <2>5 DEF CompareROM
      <4> HIDE DEF found
      <4> QED
        BY <4>1, <4>2
    <3> QED
      BY <2>1, <2>2, <2>4, <2>5, <3>1, DeviceFound DEF Unassigned
  <2>6. CASE search_ROM \notin Known /\ search_ROM \notin Codes
    <3>1. Returns(FALSE)
      <4> DEFINE found == search_ROM \in Codes
      <4>1. found = FALSE
        BY <2>6
      <4>2. Returns(found)
        BY <1>7, <2>6 DEF CompareROM
      <4> HIDE DEF found
      <4> QED
        BY <4>1, <4>2
    <3>2. ~quiet
      BY <2>2, <2>4, <2>6
    <3> QED
      BY <2>1, <3>1, <3>2, NothingFound
  <2>7. CASE search_ROM \in Known /\ descrepancy_marker = 0
    <3>1. Returns(FALSE)
      BY <1>7, <2>7 DEF CompareROM
    <3>2. quiet => Unassigned = {}
      BY <2>4, <2>7 DEF Unassigned
    <3> QED
      BY <2>1, <3>1, <3>2, NothingFound
  <2>8. CASE search_ROM \in Known /\ descrepancy_marker # 0
    <3>1. phase' = "reset" /\ UNCHANGED <<bus, probes, stage, answer, quiet>>
      BY <1>7, <2>8 DEF CompareROM
    <3>2. PICK m : m = descrepancy_marker
      OBVIOUS
    <3>3. /\ Unassigned' = Unassigned
          /\ \A d, i : Leads(d, i)' <=> Leads(d, i)
      BY <2>1, <3>1 DEF Unassigned, Known, Leads, Agrees
    <3>4. quiet => /\ \E d \in bus : Leads(d, m)
                   /\ \A d \in Unassigned : \E i \in 1..m : Leads(d, i)
      BY <2>2, <2>3, <2>4, <2>8, <3>2 DEF PassInv, Unassigned
    <3>5. quiet => BranchInv'
      BY <2>1, <3>1, <3>2, <3>3, <3>4 DEF BranchInv
    <3> QED
      BY <3>1, <3>3, <3>5 DEF SearchInv, SearchFinds, EveryDeviceFound, Known
  <2> QED
    BY <2>5, <2>6, <2>7, <2>8
<1>8. CASE UNCHANGED wireVars
  BY <1>8 DEF wireVars, searchVars, SearchInv, BranchInv, PassInv, Leads, Agrees,
              Unassigned, Known, SearchFinds, EveryDeviceFound
<1> QED
  BY <1>1, <1>2, <1>3, <1>4, <1>5, <1>6, <1>7, <1>8 DEF WireNext, SearchStep

-----------------------------------------------------------------------------
(* One object for a device.                                                *)

LEMMA DistinctStep ==
    ASSUME WireTypeOK, StagesInv, ProbesDistinct, [WireNext]_wireVars
    PROVE  ProbesDistinct'
<1>1. /\ probes \in Seq(Codes) /\ Len(probes) \in Nat /\ DOMAIN probes = 1..Len(probes)
      /\ \A a, b \in 1..Len(probes) : probes[a] = probes[b] => a = b
  BY DEF WireTypeOK, ProbesDistinct, IsInjective
<1>2. CASE probes' = probes
  BY <1>2 DEF ProbesDistinct
<1>3. ASSUME NEW found \in BOOLEAN, Returns(found),
             found => search_ROM \in Codes /\ search_ROM \notin Known
      PROVE  ProbesDistinct'
  <2>1. CASE probes' = Append(probes, search_ROM) /\ found
    <3>1. \A a \in 1..Len(probes) : probes[a] # search_ROM
      BY <1>1, <1>3, <2>1 DEF Known, Range
    <3>2. /\ DOMAIN probes' = 1..Len(probes) + 1
          /\ \A a \in 1..Len(probes) : probes'[a] = probes[a]
          /\ probes'[Len(probes) + 1] = search_ROM
      BY <1>1, <1>3, <2>1
    <3> QED
      BY <1>1, <3>1, <3>2 DEF ProbesDistinct, IsInjective
  <2> QED
    BY <1>2, <1>3, <2>1 DEF Returns, Outcome
<1>4. CASE NobodyPresent \/ NobodyAnswers
  BY <1>3, <1>4 DEF NobodyPresent, NobodyAnswers
<1>5. CASE CompareROM
  <2>1. CASE search_ROM \notin Known
    <3> DEFINE found == search_ROM \in Codes
    <3>1. found \in BOOLEAN
      OBVIOUS
    <3>2. Returns(found) /\ (found => search_ROM \in Codes /\ search_ROM \notin Known)
      BY <1>5, <2>1 DEF CompareROM
    <3> HIDE DEF found
    <3> QED
      BY <1>3, <3>1, <3>2
  <2>2. CASE search_ROM \in Known
    BY <1>2, <1>3, <1>5, <2>2 DEF CompareROM
  <2> QED
    BY <2>1, <2>2
<1>6. ASSUME NEW n \in 1..MaxProbes, Delete(n) PROVE ProbesDistinct'
  <2>1. n \in 1..Len(probes) /\ probes' = RemoveAt(probes, n)
    BY <1>1, <1>6 DEF Delete
  <2>2. /\ probes' \in Seq(Codes) /\ Len(probes') = Len(probes) - 1
        /\ \A a \in 1..Len(probes) - 1 : probes'[a] = IF a < n THEN probes[a] ELSE probes[a + 1]
    BY <1>1, <2>1, RemoveAtProperties
  <2>3. DOMAIN probes' = 1..Len(probes) - 1
    BY <2>2
  <2>4. \A a, b \in 1..Len(probes) - 1 : probes'[a] = probes'[b] => a = b
    BY <1>1, <2>1, <2>2
  <2> QED
    BY <2>3, <2>4 DEF ProbesDistinct, IsInjective
<1>7. CASE StartSearch \/ ResetBus \/ ReadBit \/ DisturbedBit
           \/ (\E d \in Codes : Plug(d) \/ Unplug(d)) \/ UNCHANGED wireVars
  <2>1. probes' = probes
    BY <1>7 DEF StartSearch, ResetBus, ReadBit, DisturbedBit, TakesBit, Follow,
                Outcome, Plug, Unplug, wireVars
  <2> QED
    BY <1>2, <2>1
<1> QED
  BY <1>4, <1>5, <1>6, <1>7 DEF WireNext, SearchStep

-----------------------------------------------------------------------------
(* The theorems.                                                           *)

LEMMA Initially == WireInit => WireInv
<1> SUFFICES ASSUME WireInit PROVE WireInv
  OBVIOUS
<1> USE WireAssumption
<1>1. WireTypeOK
  <2>1. [i \in 1..RomBits |-> 0] \in Rom
    BY DEF Rom
  <2>2. probes \in Seq(Codes) /\ Len(probes) <= MaxProbes
    BY DEF WireInit
  <2>3. search_ROM \in Rom
    BY <2>1 DEF WireInit
  <2>4. bus \subseteq Codes /\ listening \subseteq bus
    BY DEF WireInit
  <2>5. /\ last_descrepancy \in 0..RomBits /\ descrepancy_marker \in 0..RomBits
        /\ ROM_bit_index \in 1..RomBits + 1
    BY DEF WireInit
  <2> QED
    BY <2>2, <2>3, <2>4, <2>5 DEF WireInit, WireTypeOK
<1>2. WireInv
  <2>1. probes = <<>> /\ Len(probes) = 0 /\ 0 < MaxProbes
    BY DEF WireInit
  <2>2. \A a \in DOMAIN probes : FALSE
    <3>1. DOMAIN probes = 1..0
      BY <2>1
    <3> QED
      BY <3>1
  <2>3. ProbesDistinct
    BY <2>2 DEF ProbesDistinct, IsInjective
  <2> QED
    BY <1>1, <2>1, <2>3 DEF WireInit, WireInv, StagesInv, SearchInv, SearchFinds,
                EveryDeviceFound
<1> QED
  BY <1>2

\* What the search relies on, of branches passed and devices that still listen,
\* holds at every moment of it (DS1820.cpp, search_ROM_routine).
THEOREM SearchInvariant == WireSpec => []WireInv
<1>1. WireInv /\ [WireNext]_wireVars => WireInv'
  BY TypeStep, QuietStep, DistinctStep DEF WireInv
<1> QED
  BY <1>1, Initially, PTL DEF WireSpec

\* Every variable of the search keeps its type: no index leaves the ROM code, and
\* no more objects are made than main() has room for.
THEOREM WireTypes == WireSpec => []WireTypeOK
<1>1. WireInv => WireTypeOK
  BY DEF WireInv
<1> QED
  BY <1>1, SearchInvariant, PTL

\* A search that finds nothing on a quiet bus has missed no device.
THEOREM SearchIsComplete == WireSpec => []SearchFinds
<1>1. WireInv => SearchFinds
  BY DEF WireInv
<1> QED
  BY <1>1, SearchInvariant, PTL

\* main() ends its loop with an object for every device, or with its array full;
\* and the constructor finds the probe that main() was told of.
THEOREM DevicesFound == WireSpec => []EveryDeviceFound
<1>1. WireInv => EveryDeviceFound
  BY DEF WireInv
<1> QED
  BY <1>1, SearchInvariant, PTL

\* No two objects stand for the same device, whatever comes and goes.
THEOREM ObjectsDistinct == WireSpec => []ProbesDistinct
<1>1. WireInv => ProbesDistinct
  BY DEF WireInv
<1> QED
  BY <1>1, SearchInvariant, PTL


-----------------------------------------------------------------------------
(* Temperature probes *)

\* A device that was asked for a conversion with its own resolution in mind, or
\* with all the others, is given the time it takes.
LEMMA WaitsLongEnough ==
    ASSUME ProbeTypeOK, InStep,
           NEW device \in Probes \union {AllDevices}, NEW p \in Probes,
           device = AllDevices \/ (device = p /\ p \in inStep)
    PROVE  TimeFor(config[p]) <= DelayTime(device)
<1>1. config[p] \in SUBSET {32, 64}
    BY DEF ProbeTypeOK, Resolutions
<1>2. TimeFor(config[p]) \in Nat /\ TimeFor(config[p]) <= TimeFor(Full)
    BY <1>1, ProbeAssumption DEF TimeFor, Full
<1>3. CASE device \notin B20
    BY <1>2, <1>3 DEF DelayTime
<1>4. CASE device \in B20
    <2>1. device = p /\ p \in inStep
        BY <1>4, ProbeAssumption
    <2>2. RAM[device] = config[p]
        BY <1>4, <2>1 DEF InStep
    <2>3. QED
        BY <1>2, <1>4, <2>2 DEF DelayTime
<1>5. QED
    BY <1>3, <1>4

LEMMA ProbeStep ==
    ASSUME ReadingsHold, [ProbeNext]_probeVars
    PROVE  ReadingsHold'
<1> USE DEF ReadingsHold
<1>1. ASSUME NEW device \in Probes \union {AllDevices}, ConvertTemperature(device)
      PROVE  ReadingsHold'
    <2> DEFINE addressed == IF device = AllDevices THEN powered ELSE powered \intersect {device}
    <2>1. addressed \subseteq powered /\ powered \subseteq Probes
        BY DEF ProbeTypeOK
    <2>2. ASSUME NEW p \in addressed, device = AllDevices \/ p \in inStep
          PROVE  TimeFor(config[p]) <= DelayTime(device)
        BY <2>1, <2>2, WaitsLongEnough
    <2>3. LongEnough'
        BY <1>1, <2>2 DEF ConvertTemperature, LongEnough
    <2>4. ProbeTypeOK'
        BY <1>1, <2>1 DEF ConvertTemperature, ProbeTypeOK
    <2>5. NoStaleReading' /\ InStep'
        BY <1>1 DEF ConvertTemperature, NoStaleReading, NoReading, InStep
    <2>6. QED
        BY <2>3, <2>4, <2>5
<1>2. ASSUME NEW p \in Probes, Temperature(p)
      PROVE  ReadingsHold'
    <2>1. config[p] \in Resolutions /\ Full \in Resolutions
        BY DEF ProbeTypeOK, Full, Resolutions
    <2>2. ProbeTypeOK'
        BY <1>2, <2>1 DEF Temperature, ProbeTypeOK
    <2>3. NoStaleReading'
        BY <1>2 DEF Temperature, NoStaleReading, LongEnough, ProbeTypeOK
    <2>4. InStep' /\ LongEnough'
        BY <1>2 DEF Temperature, InStep, LongEnough, ProbeTypeOK
    <2>5. QED
        BY <2>2, <2>3, <2>4
<1>3. ASSUME NEW p \in Probes, NEW c \in Resolutions, SetResolution(p, c)
      PROVE  ReadingsHold'
    <2>1. Insert(RAM[p], c) \in Resolutions
        BY DEF Insert, ProbeTypeOK, Resolutions
    <2>2. ProbeTypeOK'
        BY <1>3, <2>1 DEF SetResolution, ProbeTypeOK
    <2>3. NoStaleReading' /\ InStep' /\ LongEnough'
        BY <1>3 DEF SetResolution, NoStaleReading, InStep, LongEnough, ProbeTypeOK
    <2>4. QED
        BY <2>2, <2>3
<1>4. ASSUME NEW p \in Probes, LosePower(p)
      PROVE  ReadingsHold'
    <2>1. Full \in Resolutions
        BY DEF Full, Resolutions
    <2>2. ProbeTypeOK'
        BY <1>4, <2>1 DEF LosePower, ProbeTypeOK
    <2>3. NoStaleReading' /\ InStep' /\ LongEnough'
        BY <1>4 DEF LosePower, NoStaleReading, InStep, LongEnough, ProbeTypeOK
    <2>4. QED
        BY <2>2, <2>3
<1>5. ASSUME NEW p \in Probes, GetPower(p)
      PROVE  ReadingsHold'
    BY <1>5 DEF GetPower, ProbeTypeOK, NoStaleReading, InStep, LongEnough
<1>6. CASE UNCHANGED probeVars
    BY <1>6 DEF probeVars, ProbeTypeOK, NoStaleReading, InStep, LongEnough, DelayTime
<1>7. QED
    BY <1>1, <1>2, <1>3, <1>4, <1>5, <1>6 DEF ProbeNext

\* A temperature is the result of a conversion that has ended, whichever probes,
\* resolutions and times there are and whoever lost its power between two calls, as
\* long as the device read kept its power since it was asked for the conversion.
THEOREM ReadingsAreFresh == ProbeSpec => []ReadingsHold
<1>1. ProbeInit => ReadingsHold
    BY DEF ProbeInit, ReadingsHold, ProbeTypeOK, NoStaleReading, InStep, LongEnough,
           NoReading, Resolutions, Full
<1>2. QED
    BY <1>1, ProbeStep, PTL DEF ProbeSpec

-----------------------------------------------------------------------------
(* The knob *)

\* A quarter period turns an edge of A over or none, and on an edge the level of B
\* tells the direction.
LEMMA QuarterTurn ==
    ASSUME NEW s \in Int, NEW direction \in {-1, 1}
    PROVE  LET a == LevelA(s + direction)
           IN  Edges(s + direction) =
                 Edges(s) + IF LevelA(s) = a THEN 0 ELSE Turned(a, a, LevelB(s + direction))
<1>1. /\ \A n \in Int : LevelA(n) = 1 <=> n % 4 = 1 \/ n % 4 = 2
      /\ \A n \in Int : LevelB(n) = 1 <=> n % 4 = 2 \/ n % 4 = 3
      /\ \A n \in Int : LevelA(n) \in {0, 1} /\ LevelB(n) \in {0, 1}
    BY DEF LevelA, LevelB
<1>2. PICK q \in Int, r \in 0..3 : s = 4 * q + r
    <2>1. s = 4 * (s \div 4) + (s % 4) /\ s \div 4 \in Int /\ s % 4 \in 0..3
        OBVIOUS
    <2>2. QED
        BY <2>1
<1>3. CASE direction = 1
    <2>1. Edges(s + 1) - Edges(s) = IF r \in {0, 2} THEN 1 ELSE 0
        BY <1>2 DEF Edges
    <2>2. /\ s % 4 = r
          /\ (s + 1) % 4 = IF r = 3 THEN 0 ELSE r + 1
        BY <1>2
    <2>3. QED
        BY <1>1, <1>2, <1>3, <2>1, <2>2 DEF Turned, Edges
<1>4. CASE direction = -1
    <2>1. Edges(s - 1) - Edges(s) = IF r \in {1, 3} THEN -1 ELSE 0
        BY <1>2 DEF Edges
    <2>2. /\ s % 4 = r
          /\ (s - 1) % 4 = IF r = 0 THEN 3 ELSE r - 1
        BY <1>2
    <2>3. /\ LevelA(s) = IF r \in {1, 2} THEN 1 ELSE 0
          /\ LevelA(s - 1) = IF r \in {2, 3} THEN 1 ELSE 0
          /\ LevelB(s - 1) = IF r \in {0, 3} THEN 1 ELSE 0
        BY <1>1, <2>2
    <2>4. Edges(s) \in Int /\ Edges(s - 1) \in Int
        BY DEF Edges
    <2>5. s + direction = s - 1
        BY <1>4
    <2>6. QED
        BY <2>1, <2>3, <2>4, <2>5 DEF Turned
<1>5. QED
    BY <1>3, <1>4

LEMMA Levels01 ==
    ASSUME NEW s
    PROVE  LevelA(s) \in Level /\ LevelB(s) \in Level
BY DEF LevelA, LevelB, Level

\* What a read of a pin makes of its counters.
LEMMA PinCounts ==
    ASSUME NEW pin \in PinType, NEW level \in Level
    PROVE  /\ isr(pin, level) \in PinType
           /\ isr(pin, level).prev = IF Accepts(pin, level) THEN level ELSE pin.prev
           /\ isr(pin, level).tillAssert =
                IF level = pin.prev THEN AssertCount
                ELSE IF pin.tillAssert = 0 THEN 0 ELSE pin.tillAssert - 1
           /\ isr(pin, level).tillHeld =
                IF Accepts(pin, level) THEN HoldCount - 1
                ELSE IF level = pin.prev /\ pin.tillHeld > 0 THEN pin.tillHeld - 1 ELSE 0
<1>1. /\ pin.prev \in Level /\ pin.tillAssert \in 0..AssertCount
      /\ pin.tillHeld \in 0..HoldCount
      /\ pin = [prev |-> pin.prev, tillAssert |-> pin.tillAssert, tillHeld |-> pin.tillHeld]
    BY DEF PinType
<1>2. CASE Accepts(pin, level)
    <2>1. Counted(pin, level) = [pin EXCEPT !.prev = level, !.tillHeld = HoldCount]
        BY <1>2 DEF Counted, Accepts
    <2>2. pin.tillAssert = 0
        BY <1>2 DEF Accepts
    <2>3. Counted(pin, level) = [prev |-> level, tillAssert |-> 0, tillHeld |-> HoldCount]
        BY <1>1, <2>1, <2>2
    <2>4. isr(pin, level) = [prev |-> level, tillAssert |-> 0, tillHeld |-> HoldCount - 1]
        BY <2>3, EncoderAssumption DEF isr, Holding
    <2>5. QED
        BY <1>1, <1>2, <2>4, EncoderAssumption DEF PinType, Accepts
<1>3. CASE level # pin.prev /\ pin.tillAssert > 0
    <2>1. Counted(pin, level) =
            [prev |-> pin.prev, tillAssert |-> pin.tillAssert - 1, tillHeld |-> pin.tillHeld]
        BY <1>1, <1>3 DEF Counted, Accepts
    <2>2. isr(pin, level) = [prev |-> pin.prev, tillAssert |-> pin.tillAssert - 1, tillHeld |-> 0]
        BY <1>1, <1>3, <2>1 DEF isr, Holding
    <2>3. QED
        BY <1>1, <1>3, <2>2, EncoderAssumption DEF PinType, Accepts
<1>4. CASE level = pin.prev
    <2>1. Counted(pin, level) =
            [prev |-> pin.prev, tillAssert |-> AssertCount, tillHeld |-> pin.tillHeld]
        BY <1>1, <1>4 DEF Counted, Accepts
    <2>2. isr(pin, level) = [prev |-> pin.prev, tillAssert |-> AssertCount,
                             tillHeld |-> IF pin.tillHeld > 0 THEN pin.tillHeld - 1 ELSE 0]
        BY <1>1, <1>4, <2>1 DEF isr, Holding
    <2>3. QED
        BY <1>1, <1>4, <2>2, EncoderAssumption DEF PinType, Accepts
<1>5. QED
    BY <1>1, <1>2, <1>3, <1>4 DEF Accepts

\* At rest the pin of A has taken the level and counts anew.
LEMMA SettledPin ==
    ASSUME KnobInv, rest = Settle
    PROVE  pinA.prev = LevelA(shaft) /\ pinA.tillAssert = AssertCount
<1>1. pinA.tillAssert \in Nat
    BY DEF KnobInv, KnobTypeOK, PinType
<1>2. QED
    BY <1>1, EncoderAssumption DEF KnobInv, AcceptedInTime

LEMMA KnobRests == KnobTypeOK /\ AcceptedInTime /\ OneEdgePending => PositionFollows
<1> SUFFICES ASSUME KnobTypeOK, AcceptedInTime, OneEdgePending
             PROVE  PositionFollows
    OBVIOUS
<1>1. pinA.tillAssert \in Nat
    BY DEF KnobTypeOK, PinType
<1>2. rest = Settle => pinA.prev = LevelA(shaft)
    BY <1>1, EncoderAssumption DEF AcceptedInTime
<1>3. QED
    BY <1>2 DEF PositionFollows, OneEdgePending, KnobTypeOK

LEMMA SampleAStep ==
    ASSUME KnobInv, SampleA
    PROVE  KnobInv'
<1> USE DEF KnobInv
<1> DEFINE a == LevelA(shaft)
           b == LevelB(shaft)
<1>1. PICK level \in Reads(a, rest), again \in Reads(a, rest) :
        LET step == IF Accepts(pinA, level) THEN Turned(level, again, b) ELSE 0
        IN  /\ pinA' = isr(pinA, level)
            /\ position' = position + step
            /\ told' = told + step
            /\ rest' = UpTo(rest + 1, Settle)
            /\ UNCHANGED <<shaft, origin, buttonVars>>
    BY DEF SampleA
<1>2. /\ a \in Level /\ b \in Level /\ level \in Level /\ again \in Level
      /\ pinA \in PinType /\ rest \in 0..Settle
      /\ shaft \in Int /\ position \in Int /\ told \in Int /\ origin \in Int
    BY <1>1, Levels01, EncoderAssumption DEF Reads, KnobTypeOK, Level
<1>3. /\ pinA.prev \in Level /\ pinA.tillAssert \in 0..AssertCount
    BY <1>2 DEF PinType
\* What is accepted is the level
<1>4. Accepts(pinA, level) => level = a /\ again = a
    BY <1>1, <1>2, <1>3, EncoderAssumption DEF Accepts, AcceptedInTime, Reads
<1>5. /\ pinA' \in PinType
      /\ pinA'.prev = IF Accepts(pinA, level) THEN level ELSE pinA.prev
      /\ pinA'.tillAssert = IF level = pinA.prev THEN AssertCount
                            ELSE IF pinA.tillAssert = 0 THEN 0 ELSE pinA.tillAssert - 1
    BY <1>1, <1>2, PinCounts
<1>6. rest' = UpTo(rest + 1, Settle) /\ rest' \in 0..Settle
    BY <1>1, <1>2, EncoderAssumption DEF UpTo
<1>7. AcceptedInTime'
    <2>1. a' = a
        BY <1>1
    <2>2. rest < Bounce \/ level = a
        BY <1>1 DEF Reads
    <2>3. (pinA.tillAssert + rest >= AssertCount)'
        BY <1>2, <1>3, <1>5, <1>6, EncoderAssumption DEF AcceptedInTime, UpTo
    <2>4. ASSUME pinA'.prev # a, rest' >= Bounce
          PROVE  (pinA.tillAssert + rest <= Bounce + AssertCount)'
        <3>1. ~Accepts(pinA, level) /\ pinA.prev # a
            BY <1>4, <1>5, <2>4
        <3>2. CASE rest >= Bounce
            BY <1>2, <1>3, <1>5, <1>6, <2>2, <3>1, <3>2, EncoderAssumption
               DEF AcceptedInTime, UpTo, Accepts
        <3>3. CASE rest < Bounce
            BY <1>2, <1>3, <1>5, <1>6, <2>4, <3>3, EncoderAssumption DEF UpTo
        <3>4. QED
            BY <1>2, <3>2, <3>3, EncoderAssumption
    <2>5. ASSUME pinA'.prev = a, rest' >= Bounce + AssertCount + 2
          PROVE  pinA'.tillAssert = AssertCount
        <3>1. rest >= Bounce + AssertCount + 1 /\ level = a
            BY <1>2, <1>6, <2>2, <2>5, EncoderAssumption DEF UpTo
        <3>2. pinA.prev = a
            BY <1>2, <1>3, <3>1, EncoderAssumption DEF AcceptedInTime
        <3>3. QED
            BY <1>5, <3>1, <3>2
    <2>6. QED
        BY <2>1, <2>3, <2>4, <2>5 DEF AcceptedInTime
<1>8. OneEdgePending'
    <2>1. a' = a /\ b' = b /\ Edges(shaft)' = Edges(shaft) /\ origin' = origin
        BY <1>1
    <2>2. CASE Accepts(pinA, level)
        <3>1. pinA.prev # a /\ level = a /\ again = a
            BY <1>4, <2>2 DEF Accepts
        <3>2. position' = position + Turned(a, a, b) /\ told' = told + Turned(a, a, b)
            BY <1>1, <2>2, <3>1
        <3>3. Turned(a, a, b) \in Int
            BY <1>2 DEF Turned, Level
        <3>4. QED
            BY <1>2, <1>5, <2>1, <2>2, <3>1, <3>2, <3>3 DEF OneEdgePending
    <2>3. CASE ~Accepts(pinA, level)
        <3>1. position' = position /\ told' = told /\ pinA'.prev = pinA.prev
            BY <1>1, <1>2, <1>5, <2>3
        <3>2. QED
            BY <2>1, <3>1 DEF OneEdgePending
    <2>4. QED
        BY <2>2, <2>3
<1>9. KnobTypeOK'
    <2>1. Turned(level, again, b) \in Int
        BY <1>2 DEF Turned, Level
    <2>2. position' \in Int /\ told' \in Int
        BY <1>1, <1>2, <2>1
    <2>3. QED
        BY <1>1, <1>5, <1>6, <2>2 DEF KnobTypeOK, buttonVars
<1>10. PositionFollows'
    BY <1>7, <1>8, <1>9, KnobRests, PTL
<1>11. HeldIsHeld' /\ HoldCounted'
    BY <1>1 DEF HeldIsHeld, HoldCounted, buttonVars
<1>12. QED
    BY <1>7, <1>8, <1>9, <1>10, <1>11

LEMMA TurnStep ==
    ASSUME KnobInv, NEW direction \in {-1, 1}, Turn(direction)
    PROVE  KnobInv'
<1> USE DEF KnobInv
<1>1. /\ rest' = 0 /\ shaft' = shaft + direction
      /\ UNCHANGED <<pinA, position, origin, told, buttonVars>>
    BY DEF Turn
<1>2. pinA.prev = LevelA(shaft) /\ pinA.tillAssert = AssertCount
    BY SettledPin DEF Turn
<1>3. /\ shaft \in Int /\ told \in Int /\ pinA \in PinType
      /\ told = Edges(shaft)
    BY <1>2 DEF KnobTypeOK, OneEdgePending, Edges
<1>4. OneEdgePending'
    <2> DEFINE a == LevelA(shaft + direction)
    <2>1. Edges(shaft + direction) =
            Edges(shaft) + IF LevelA(shaft) = a THEN 0 ELSE Turned(a, a, LevelB(shaft + direction))
        BY <1>3, QuarterTurn
    <2>2. position' = origin' + told'
        BY <1>1 DEF OneEdgePending
    <2>3. Edges(shaft)' = told' + IF pinA'.prev = a THEN 0 ELSE Turned(a, a, LevelB(shaft)')
        BY <1>1, <1>2, <1>3, <2>1
    <2>4. QED
        BY <1>1, <2>2, <2>3 DEF OneEdgePending
<1>5. AcceptedInTime'
    BY <1>1, <1>2, EncoderAssumption DEF AcceptedInTime
<1>6. KnobTypeOK'
    BY <1>1, EncoderAssumption DEF Turn, KnobTypeOK, buttonVars
<1>7. PositionFollows'
    BY <1>4, <1>5, <1>6, KnobRests, PTL
<1>8. HeldIsHeld' /\ HoldCounted'
    BY <1>1 DEF HeldIsHeld, HoldCounted, buttonVars
<1>9. QED
    BY <1>4, <1>5, <1>6, <1>7, <1>8

LEMMA SetStep ==
    ASSUME KnobInv, NEW value \in Int, Set(value)
    PROVE  KnobInv'
<1> USE DEF KnobInv
<1>1. /\ position' = value /\ origin' = origin + value - position
      /\ UNCHANGED <<shaft, rest, pinA, told, buttonVars>>
    BY DEF Set
<1>2. position \in Int /\ origin \in Int /\ told \in Int
    BY DEF KnobTypeOK
<1>3. OneEdgePending'
    BY <1>1, <1>2 DEF OneEdgePending
<1>4. AcceptedInTime'
    BY <1>1 DEF AcceptedInTime
<1>5. KnobTypeOK'
    BY <1>1, <1>2 DEF KnobTypeOK, buttonVars
<1>6. PositionFollows'
    BY <1>3, <1>4, <1>5, KnobRests, PTL
<1>7. HeldIsHeld' /\ HoldCounted'
    BY <1>1 DEF HeldIsHeld, HoldCounted, buttonVars
<1>8. QED
    BY <1>3, <1>4, <1>5, <1>6, <1>7

LEMMA EncoderSame ==
    ASSUME PositionFollows, OneEdgePending, AcceptedInTime, UNCHANGED encoderVars
    PROVE  PositionFollows' /\ OneEdgePending' /\ AcceptedInTime'
BY DEF PositionFollows, OneEdgePending, AcceptedInTime, encoderVars

LEMMA SampleSWStep ==
    ASSUME KnobInv, SampleSW
    PROVE  KnobInv'
<1> USE DEF KnobInv
<1>1. PICK level \in Reads(button, still) :
        /\ pinSW' = isr(pinSW, level)
        /\ event' = CASE Accepts(pinSW, level) /\ level = 1 -> "asserted"
                      [] Accepts(pinSW, level) /\ level = 0 -> "deasserted"
                      [] ~Accepts(pinSW, level) /\ Held(pinSW, level) ->
                           IF level = 1 THEN "asserted held" ELSE "deasserted held"
                      [] OTHER -> "none"
        /\ still' = UpTo(still + 1, Bounce)
        /\ sampled' = level
        /\ equal' = IF level = sampled THEN UpTo(equal + 1, HoldCount) ELSE 1
        /\ UNCHANGED <<button, encoderVars>>
    BY DEF SampleSW
<1>2. /\ pinSW' = isr(pinSW, level)
      /\ still' = UpTo(still + 1, Bounce)
      /\ sampled' = level
      /\ equal' = IF level = sampled THEN UpTo(equal + 1, HoldCount) ELSE 1
      /\ UNCHANGED <<button, encoderVars>>
    BY <1>1
<1>3. level \in Level /\ pinSW \in PinType /\ equal \in 0..HoldCount
    BY <1>1 DEF Reads, KnobTypeOK
<1>4. /\ pinSW.prev \in Level /\ pinSW.tillHeld \in 0..HoldCount
    BY <1>3 DEF PinType
<1>5. /\ pinSW' \in PinType
      /\ pinSW'.prev = IF Accepts(pinSW, level) THEN level ELSE pinSW.prev
      /\ pinSW'.tillHeld = IF Accepts(pinSW, level) THEN HoldCount - 1
                           ELSE IF level = pinSW.prev /\ pinSW.tillHeld > 0
                                THEN pinSW.tillHeld - 1 ELSE 0
    BY <1>1, <1>3, PinCounts
<1>6. equal' \in 1..HoldCount
    BY <1>2, <1>3, EncoderAssumption DEF UpTo
<1>7. HoldCounted'
    <2>1. CASE Accepts(pinSW, level)
        BY <1>1, <1>5, <1>6, <2>1, EncoderAssumption DEF HoldCounted
    <2>2. CASE ~Accepts(pinSW, level) /\ level = pinSW.prev /\ pinSW.tillHeld > 0
        <3>1. sampled = pinSW.prev /\ equal + pinSW.tillHeld >= HoldCount
            BY <2>2 DEF HoldCounted
        <3>2. equal' = UpTo(equal + 1, HoldCount)
            BY <1>1, <2>2, <3>1
        <3>3. QED
            BY <1>2, <1>3, <1>4, <1>5, <2>2, <3>1, <3>2, EncoderAssumption DEF HoldCounted, UpTo
    <2>3. CASE ~Accepts(pinSW, level) /\ ~(level = pinSW.prev /\ pinSW.tillHeld > 0)
        BY <1>5, <2>3 DEF HoldCounted
    <2>4. QED
        BY <2>1, <2>2, <2>3
<1>8. HeldIsHeld'
    <2>1. SUFFICES ASSUME event' \in {"asserted held", "deasserted held"}
                   PROVE  equal' = HoldCount
        BY DEF HeldIsHeld
    <2>2. ~Accepts(pinSW, level) /\ Held(pinSW, level)
        BY <1>1, <1>3, <2>1 DEF Level
    <2>3. level = pinSW.prev /\ pinSW.tillHeld = 1
        <3>1. CASE level = pinSW.prev
            <4>1. Counted(pinSW, level) = [pinSW EXCEPT !.tillAssert = AssertCount]
                BY <3>1 DEF Counted, Accepts
            <4>2. Counted(pinSW, level).tillHeld = pinSW.tillHeld
                BY <1>3, <4>1 DEF PinType
            <4>3. QED
                BY <2>2, <3>1, <4>2 DEF Held
        <3>2. CASE level # pinSW.prev
            <4>1. pinSW.tillAssert > 0
                BY <1>3, <2>2, <3>2, EncoderAssumption DEF Accepts, PinType
            <4>2. Counted(pinSW, level) = [pinSW EXCEPT !.tillAssert = @ - 1]
                BY <2>2, <3>2, <4>1 DEF Counted
            <4>3. Counted(pinSW, level).prev = pinSW.prev
                BY <1>3, <4>2 DEF PinType
            <4>4. QED
                BY <2>2, <3>2, <4>3 DEF Held
        <3>3. QED
            BY <3>1, <3>2
    <2>4. sampled = pinSW.prev /\ equal + 1 >= HoldCount
        BY <1>3, <2>3, EncoderAssumption DEF HoldCounted
    <2>5. equal' = UpTo(equal + 1, HoldCount)
        BY <1>1, <2>3, <2>4
    <2>6. QED
        BY <1>3, <2>4, <2>5, EncoderAssumption DEF UpTo
<1>9. KnobTypeOK'
    <2>1. event' \in Reports
        BY <1>1 DEF Reports
    <2>2. still' \in 0..Bounce
        BY <1>2, EncoderAssumption DEF KnobTypeOK, UpTo
    <2>3. QED
        BY <1>2, <1>3, <1>5, <1>6, <2>1, <2>2, EncoderAssumption DEF KnobTypeOK, encoderVars
<1>10. PositionFollows' /\ OneEdgePending' /\ AcceptedInTime'
    BY <1>1, EncoderSame
<1>11. QED
    BY <1>7, <1>8, <1>9, <1>10

LEMMA KnobStep ==
    ASSUME KnobInv, [KnobNext]_knobVars
    PROVE  KnobInv'
<1>1. CASE SampleA
    BY <1>1, SampleAStep
<1>2. CASE Turn(1) \/ Turn(-1)
    BY <1>2, TurnStep
<1>3. CASE Set(0)
    BY <1>3, SetStep
<1>4. CASE SampleSW
    BY <1>4, SampleSWStep
<1>5. CASE Press
    <2>1. KnobTypeOK'
        BY <1>5, EncoderAssumption DEF Press, KnobInv, KnobTypeOK, Level, encoderVars
    <2>2. HeldIsHeld' /\ HoldCounted'
        BY <1>5 DEF Press, KnobInv, HeldIsHeld, HoldCounted
    <2>3. PositionFollows' /\ OneEdgePending' /\ AcceptedInTime'
        BY <1>5, EncoderSame DEF Press, KnobInv
    <2>4. QED
        BY <2>1, <2>2, <2>3 DEF KnobInv
<1>6. CASE UNCHANGED knobVars
    <2>1. PositionFollows' /\ OneEdgePending' /\ AcceptedInTime'
        BY <1>6, EncoderSame DEF KnobInv, knobVars
    <2>2. KnobTypeOK' /\ HeldIsHeld' /\ HoldCounted'
        BY <1>6 DEF KnobInv, KnobTypeOK, HeldIsHeld, HoldCounted, knobVars, encoderVars, buttonVars
    <2>3. QED
        BY <2>1, <2>2 DEF KnobInv
<1>7. QED
    BY <1>1, <1>2, <1>3, <1>4, <1>5, <1>6 DEF KnobNext

\* The position follows the shaft, and what is reported as held has been held, for
\* any debouncing times and however long a contact bounces, if the shaft rests long
\* enough for a change to be taken before it moves on.
THEOREM KnobIsRight == KnobSpec => []KnobInv
<1>1. KnobInit => KnobInv
    <2> SUFFICES ASSUME KnobInit PROVE KnobInv
        OBVIOUS
    <2>1. LevelA(0) = 0 /\ Edges(0) = 0
        BY DEF LevelA, Edges
    <2>2. \A level \in Level : PinInit(level) \in PinType
        BY EncoderAssumption DEF PinInit, PinType
    <2>3. KnobTypeOK
        BY <2>1, <2>2, EncoderAssumption DEF KnobInit, KnobTypeOK, Level, Reports
    <2>4. OneEdgePending /\ PositionFollows
        BY <2>1 DEF KnobInit, OneEdgePending, PositionFollows, PinInit
    <2>5. AcceptedInTime
        BY <2>1, EncoderAssumption DEF KnobInit, AcceptedInTime, PinInit
    <2>6. HeldIsHeld /\ HoldCounted
        BY DEF KnobInit, HeldIsHeld, HoldCounted, PinInit
    <2>7. QED
        BY <2>3, <2>4, <2>5, <2>6 DEF KnobInv
<1>2. QED
    BY <1>1, KnobStep, PTL DEF KnobSpec

-----------------------------------------------------------------------------
(* The frames *)

\* A frame's neighbour, and the frame that follows it, are frames.
LEMMA NeighbourType ==
    ASSUME NEW frame \in Frames, NEW direction \in {-1, 1}
    PROVE  Neighbour(frame, direction) \in Frames
<1>1. frame + FrameCount + direction \in Int /\ FrameCount \in Nat /\ FrameCount > 0
    BY UiAssumption DEF Frames
<1>2. \A a \in Int : a % FrameCount \in 0..FrameCount - 1
    BY <1>1
<1>3. QED
    BY <1>1, <1>2 DEF Neighbour, Frames

LEMMA FollowingType ==
    ASSUME NEW frame \in Frames, NEW next \in Frames \union {-1}, NEW direction \in {-1, 1}
    PROVE  Following(frame, next, direction) \in Frames
BY NeighbourType DEF Following

\* Frames slide no further than the display is long.
LEMMA SlidesOnDisplay ==
    ASSUME NEW n \in 0..TicksPerTransition
    PROVE  (DisplaySize * n) \div TicksPerTransition \in 0..DisplaySize
<1> DEFINE product == DisplaySize * n
           q == product \div TicksPerTransition
<1>1. DisplaySize \in Nat /\ TicksPerTransition \in Nat \ {0} /\ n \in Nat
    BY UiAssumption
<1>2. product \in Nat /\ product <= DisplaySize * TicksPerTransition
    <2>1. \A a, b, c \in Nat : b <= c => a * b \in Nat /\ a * b <= a * c
        OBVIOUS
    <2>2. QED
        BY <1>1, <2>1
<1>3. q \in Int /\ TicksPerTransition * q <= product
    <2>1. \A a \in Nat, b \in Nat \ {0} : a \div b \in Int /\ b * (a \div b) <= a
        OBVIOUS
    <2>2. QED
        BY <1>1, <1>2, <2>1
<1>4. q >= 0
    <2>1. \A a \in Nat, b \in Nat \ {0} : a \div b >= 0
        OBVIOUS
    <2>2. QED
        BY <1>1, <1>2, <2>1
<1>5. q <= DisplaySize
    <2>1. \A a \in Nat \ {0}, b, c \in Nat : a * b <= c * a => b <= c
        OBVIOUS
    <2>2. q \in Nat
        BY <1>3, <1>4
    <2>3. TicksPerTransition * q <= DisplaySize * TicksPerTransition
        <3>1. DisplaySize * TicksPerTransition \in Int /\ TicksPerTransition * q \in Int
            BY <1>1, <1>3
        <3> HIDE DEF product, q
        <3>2. QED
            BY <1>2, <1>3, <3>1
    <2> HIDE DEF q
    <2>4. QED
        BY <1>1, <2>1, <2>2, <2>3
<1>6. QED
    BY <1>1, <1>3, <1>4, <1>5

\* What drawing the frames makes of the view and of the indicator's state.
LEMMA DrawsRight ==
    ASSUME NEW state \in {"FIXED", "IN_TRANSITION"},
           NEW current \in Frames, NEW next \in Frames,
           NEW direction \in {-1, 1}, NEW n \in 0..TicksPerTransition,
           indicatorDrawState \in 0..3,
           Draws(state, current, next, direction, n)
    PROVE  /\ indicatorDrawState' \in 0..3
           /\ view'.frames \subseteq Frames \X (-DisplaySize..DisplaySize)
           /\ view'.mark \in Frames \union {-1} /\ view'.fade \in Fades
           /\ state = "FIXED" => /\ indicatorDrawState' = 0
                                 /\ view'.frames = {<<current, 0>>}
           /\ state # "FIXED" /\ {current, next} \intersect Hides = {}
                => indicatorDrawState' = indicatorDrawState
           /\ state = "FIXED" \/ {current, next} \intersect Hides # {} \/ indicatorDrawState = 0
                => IndicatorRight'
<1> DEFINE x    == (DisplaySize * n) \div TicksPerTransition
           here == current \notin Hides
           then == next \notin Hides
           drawState == CASE state = "FIXED"  -> 0
                          [] state # "FIXED" /\ here /\ ~then -> 2
                          [] state # "FIXED" /\ ~here /\ then -> 1
                          [] state # "FIXED" /\ ~here /\ ~then -> 3
                          [] OTHER -> indicatorDrawState
           mark == Indicator(drawState, IF state = "FIXED" THEN here ELSE here /\ then,
                             state, current, next)
           frames == IF state = "FIXED" THEN {<<current, 0>>}
                     ELSE {<<current, x * direction>>, <<next, (x - DisplaySize) * direction>>}
<1>1. /\ indicatorDrawState' = drawState
      /\ view' = [frames |-> frames, mark |-> mark.mark, fade |-> mark.fade]
    BY Zenon DEF Draws
<1>2. view'.frames = frames /\ view'.mark = mark.mark /\ view'.fade = mark.fade
    BY <1>1
<1>3. frames \subseteq Frames \X (-DisplaySize..DisplaySize)
    <2>1. x \in 0..DisplaySize /\ DisplaySize \in Nat
        BY SlidesOnDisplay, UiAssumption
    <2> HIDE DEF x
    <2>2. /\ x * direction \in -DisplaySize..DisplaySize
          /\ (x - DisplaySize) * direction \in -DisplaySize..DisplaySize
          /\ 0 \in -DisplaySize..DisplaySize
        BY <2>1
    <2>3. QED
        BY <2>2
<1>4. {f[1] : f \in view'.frames} = IF state = "FIXED" THEN {current} ELSE {current, next}
    <2>1. \A a, b, c, d : {f[1] : f \in {<<a, c>>, <<b, d>>}} = {a, b}
        OBVIOUS
    <2>2. \A a, c : {f[1] : f \in {<<a, c>>}} = {a}
        OBVIOUS
    <2> HIDE DEF x
    <2>3. CASE state = "FIXED"
        BY <1>2, <2>2, <2>3
    <2>4. CASE state # "FIXED"
        BY <1>2, <2>1, <2>4
    <2>5. QED
        BY <2>3, <2>4
<1> HIDE DEF frames
<1>5. CASE state = "FIXED"
    <2>1. drawState = 0
        BY <1>5
    <2>2. mark = IF here THEN [mark |-> current, fade |-> "still"] ELSE [mark |-> -1, fade |-> "none"]
        BY <1>5, <2>1 DEF Indicator
    <2>3. current # -1
        BY UiAssumption DEF Frames
    <2>4. /\ mark.mark = IF here THEN current ELSE -1
          /\ mark.fade = IF here THEN "still" ELSE "none"
        BY <2>2
    <2> HIDE DEF mark, drawState
    <2>5. view'.mark \in Frames \union {-1} /\ view'.fade \in Fades
        BY <1>2, <2>4 DEF Fades
    <2>6. IndicatorRight'
        BY <1>2, <1>4, <1>5, <2>3, <2>4 DEF IndicatorRight
    <2>7. QED
        BY <1>1, <1>2, <1>3, <1>5, <2>1, <2>5, <2>6 DEF frames
<1>6. CASE state = "IN_TRANSITION"
    <2>1. /\ drawState \in 0..3
          /\ here /\ then => drawState = indicatorDrawState
          /\ here /\ ~then => drawState = 2
          /\ ~here /\ then => drawState = 1
          /\ ~here /\ ~then => drawState = 3
        BY <1>6
    <2> HIDE DEF drawState
    <2>2. mark = IF drawState = 3 THEN [mark |-> -1, fade |-> "none"]
                 ELSE [mark |-> IF drawState = 1 THEN next ELSE current,
                       fade |-> CASE drawState = 1 -> "in"
                                  [] drawState = 2 -> "out"
                                  [] OTHER         -> "still"]
        BY <1>6 DEF Indicator
    <2>3. current # -1 /\ next # -1
        BY UiAssumption DEF Frames
    <2>4. /\ mark.mark = IF drawState = 3 THEN -1 ELSE IF drawState = 1 THEN next ELSE current
          /\ drawState = 3 => mark.fade = "none"
          /\ drawState = 1 => mark.fade = "in"
          /\ drawState = 2 => mark.fade = "out"
          /\ drawState = 0 => mark.fade = "still"
        BY <2>2
    <2> HIDE DEF mark
    <2>5. view'.mark \in Frames \union {-1} /\ view'.fade \in Fades
        BY <1>2, <2>1, <2>4 DEF Fades
    <2>6. {current, next} \intersect Hides # {} \/ indicatorDrawState = 0 => IndicatorRight'
        BY <1>2, <1>4, <1>6, <2>1, <2>3, <2>4 DEF IndicatorRight
    <2>7. QED
        BY <1>1, <1>2, <1>3, <1>6, <2>1, <2>5, <2>6
<1>7. QED
    BY <1>5, <1>6

LEMMA UndrawnType ==
    /\ Undrawn.frames \subseteq Frames \X (-DisplaySize..DisplaySize)
    /\ Undrawn.mark \in Frames \union {-1} /\ Undrawn.fade \in Fades
BY DEF Undrawn, Fades

\* A call draws nothing, and begins a transition with the last direction kept.
LEMMA BeginsStep ==
    ASSUME FramesInv, NEW to \in Frames, NEW direction \in {-1, 1}, Begins(to, direction),
           \/ /\ frameState = "FIXED" /\ to = Neighbour(currentFrame, direction)
              /\ UNCHANGED <<nextFrameNumber, diverted>>
           \/ nextFrameNumber' = to /\ diverted' = FALSE
    PROVE  FramesInv'
<1> USE DEF FramesInv
<1>1. UiTypeOK'
    <2>1. rushed' \in BOOLEAN /\ unsettled' \in BOOLEAN /\ diverted' \in BOOLEAN
        BY DEF Begins, UiTypeOK
    <2>2. /\ ticks' \in 0..(TicksPerFrame + TicksPerTransition)
          /\ nextFrameNumber' \in Frames \union {-1}
        BY UiAssumption DEF Begins, UiTypeOK
    <2>3. /\ view'.frames \subseteq Frames \X (-DisplaySize..DisplaySize)
          /\ view'.mark \in Frames \union {-1} /\ view'.fade \in Fades
        BY UndrawnType DEF Begins
    <2>4. QED
        BY <2>1, <2>2, <2>3 DEF Begins, UiTypeOK
<1>2. IndicatorRight'
    BY DEF Begins, IndicatorRight
<1>3. NothingDrawnStays'
    <2>1. SUFFICES ASSUME ~unsettled' PROVE indicatorDrawState' = 0
        BY DEF NothingDrawnStays
    <2>2. ~unsettled /\ frameState = "FIXED" /\ indicatorDrawState' = indicatorDrawState
        BY <2>1 DEF Begins, UiTypeOK
    <2>3. QED
        BY <2>2 DEF NothingDrawnStays
<1>4. DirectionReturns' /\ DirectionKept'
    BY DEF Begins, DirectionReturns, DirectionKept, UiTypeOK
<1>5. TargetKept'
    <2>1. frameState' = "IN_TRANSITION" /\ target' = to
          /\ frameTransitionDirection' = direction /\ currentFrame' = currentFrame
        BY DEF Begins
    <2>2. to # -1
        BY UiAssumption DEF Frames
    <2>3. QED
        BY <2>1, <2>2 DEF TargetKept, Following
<1>6. QED
    BY <1>1, <1>2, <1>3, <1>4, <1>5

LEMMA CallsStep ==
    ASSUME FramesInv,
           \/ Step(1) \/ Step(-1)
           \/ \E frame \in Frames : transitionToFrame(frame) \/ switchToFrame(frame)
           \/ \E direction \in {-1, 1} : setAutoTransition(direction)
           \/ SwitchAuto
    PROVE  FramesInv'
<1> USE DEF FramesInv
<1>1. ASSUME NEW direction \in {-1, 1}, Step(direction)
      PROVE  FramesInv'
    <2>1. Neighbour(currentFrame, direction) \in Frames
        BY NeighbourType DEF UiTypeOK
    <2>2. frameState = "FIXED"
        BY <1>1 DEF Step, UiTypeOK
    <2>3. QED
        BY <1>1, <2>1, <2>2, BeginsStep DEF Step
<1>2. ASSUME NEW frame \in Frames, transitionToFrame(frame)
      PROVE  FramesInv'
    <2>1. CASE frame = currentFrame
        <3>1. UiTypeOK'
            BY <1>2, <2>1, UndrawnType, UiAssumption DEF transitionToFrame, UiTypeOK
        <3>2. IndicatorRight' /\ NothingDrawnStays'
            BY <1>2, <2>1 DEF transitionToFrame, IndicatorRight, NothingDrawnStays, Following
        <3>3. DirectionReturns' /\ DirectionKept' /\ TargetKept'
            BY <1>2, <2>1 DEF transitionToFrame, DirectionReturns, DirectionKept, TargetKept, Following
        <3>4. QED
            BY <3>1, <3>2, <3>3
    <2>2. CASE frame # currentFrame
        <3> DEFINE direction == IF frame < currentFrame THEN -1 ELSE 1
        <3>1. direction \in {-1, 1} /\ Begins(frame, direction)
              /\ nextFrameNumber' = frame /\ diverted' = FALSE
            BY <1>2, <2>2 DEF transitionToFrame
        <3>2. QED
            BY <3>1, BeginsStep
    <2>3. QED
        BY <2>1, <2>2
<1>3. ASSUME NEW frame \in Frames, switchToFrame(frame)
      PROVE  FramesInv'
    <2>1. /\ ticks' = 0 /\ view' = Undrawn
          /\ frameState' = IF frame = currentFrame THEN frameState ELSE "FIXED"
          /\ currentFrame' = frame
          /\ unsettled' = (unsettled \/ frameState = "IN_TRANSITION")
          /\ diverted' = (diverted \/ (nextFrameNumber # -1 /\ frame # currentFrame))
          /\ UNCHANGED <<manuelControll, frameTransitionDirection, lastTransitionDirection,
                         nextFrameNumber, autoTransition, indicatorDrawState, target,
                         autoDirection, rushed>>
        BY <1>3 DEF switchToFrame
    <2>2. UiTypeOK'
        <3>1. diverted' \in BOOLEAN /\ unsettled' \in BOOLEAN
            BY <2>1 DEF UiTypeOK
        <3>2. QED
            BY <2>1, <3>1, UndrawnType, UiAssumption DEF UiTypeOK
    <2>3. IndicatorRight'
        BY <2>1 DEF IndicatorRight
    <2>4. NothingDrawnStays'
        <3>1. SUFFICES ASSUME ~unsettled' PROVE indicatorDrawState' = 0
            BY DEF NothingDrawnStays
        <3>2. ~unsettled /\ frameState = "FIXED"
            BY <2>1, <3>1 DEF UiTypeOK
        <3>3. QED
            BY <2>1, <3>2 DEF NothingDrawnStays
    <2>5. DirectionReturns' /\ DirectionKept'
        BY <2>1 DEF DirectionReturns, DirectionKept
    <2>6. TargetKept'
        <3>1. SUFFICES ASSUME ~diverted'
                       PROVE  IF frameState' = "FIXED" THEN nextFrameNumber' = -1
                              ELSE target' = Following(currentFrame', nextFrameNumber',
                                                       frameTransitionDirection')
            BY DEF TargetKept, Following
        <3>2. ~diverted /\ (nextFrameNumber = -1 \/ frame = currentFrame)
            BY <2>1, <3>1
        <3>3. QED
            BY <2>1, <3>2 DEF TargetKept
    <2>7. QED
        BY <2>2, <2>3, <2>4, <2>5, <2>6
<1>4. ASSUME NEW direction \in {-1, 1}, setAutoTransition(direction)
      PROVE  FramesInv'
    <2>1. /\ view' = Undrawn
          /\ frameTransitionDirection' = direction /\ lastTransitionDirection' = direction
          /\ autoDirection' = direction
          /\ target' = IF frameState = "IN_TRANSITION"
                       THEN Following(currentFrame, nextFrameNumber, direction) ELSE target
          /\ unsettled' = (unsettled \/ frameState = "IN_TRANSITION")
          /\ UNCHANGED <<frameState, currentFrame, manuelControll, nextFrameNumber,
                         autoTransition, ticks, indicatorDrawState, rushed, diverted>>
        BY <1>4 DEF setAutoTransition
    <2>2. UiTypeOK'
        <3>1. Following(currentFrame, nextFrameNumber, direction) \in Frames
            BY FollowingType DEF UiTypeOK
        <3>2. target' \in Frames /\ unsettled' \in BOOLEAN
            BY <2>1, <3>1 DEF UiTypeOK
        <3>3. QED
            BY <2>1, <3>2, UndrawnType DEF UiTypeOK
    <2>3. IndicatorRight'
        BY <2>1 DEF IndicatorRight
    <2>4. NothingDrawnStays'
        <3>1. SUFFICES ASSUME ~unsettled' PROVE indicatorDrawState' = 0
            BY DEF NothingDrawnStays
        <3>2. ~unsettled /\ frameState = "FIXED"
            BY <2>1, <3>1 DEF UiTypeOK
        <3>3. QED
            BY <2>1, <3>2 DEF NothingDrawnStays
    <2>5. DirectionReturns' /\ DirectionKept'
        BY <2>1 DEF DirectionReturns, DirectionKept
    <2>6. TargetKept'
        BY <2>1 DEF TargetKept, UiTypeOK, Following
    <2>7. QED
        BY <2>2, <2>3, <2>4, <2>5, <2>6
<1>5. CASE SwitchAuto
    <2>1. UiTypeOK'
        BY <1>5, UndrawnType DEF SwitchAuto, UiTypeOK
    <2>2. IndicatorRight' /\ NothingDrawnStays'
        BY <1>5 DEF SwitchAuto, IndicatorRight, NothingDrawnStays, Following
    <2>3. DirectionReturns' /\ DirectionKept' /\ TargetKept'
        BY <1>5 DEF SwitchAuto, DirectionReturns, DirectionKept, TargetKept, Following
    <2>4. QED
        BY <2>1, <2>2, <2>3
<1>6. QED
    BY <1>1, <1>2, <1>3, <1>4, <1>5

LEMMA SlidesStep ==
    ASSUME FramesInv, Slides
    PROVE  /\ FramesInv'
           /\ ~diverted /\ frameState' = "FIXED"
                => currentFrame' = target /\ view'.frames = {<<target, 0>>}
<1> USE DEF FramesInv
<1> DEFINE next == Following(currentFrame, nextFrameNumber, frameTransitionDirection)
<1>1. /\ frameState = "IN_TRANSITION"
      /\ UNCHANGED <<manuelControll, frameTransitionDirection, lastTransitionDirection,
                     autoTransition, target, autoDirection, rushed>>
    BY DEF Slides
<1>2. next \in Frames
    BY FollowingType DEF UiTypeOK
<1>3. DirectionReturns' /\ DirectionKept'
    BY <1>1 DEF DirectionReturns, DirectionKept
<1>4. ~diverted => target = next
    BY <1>1 DEF TargetKept
<1>5. ticks \in Nat /\ TicksPerTransition \in Nat \ {0}
    BY UiAssumption DEF UiTypeOK
<1>6. CASE ticks + 1 >= TicksPerTransition
    <2>1. /\ frameState' = "FIXED" /\ currentFrame' = next /\ ticks' = 0
          /\ nextFrameNumber' = -1 /\ diverted' = FALSE /\ unsettled' = FALSE
          /\ Draws("FIXED", next, next, frameTransitionDirection, 0)
        BY <1>6 DEF Slides
    <2>2. /\ indicatorDrawState' = 0
          /\ view'.frames = {<<next, 0>>}
          /\ view'.frames \subseteq Frames \X (-DisplaySize..DisplaySize)
          /\ view'.mark \in Frames \union {-1} /\ view'.fade \in Fades
          /\ IndicatorRight'
        <3>1. 0 \in 0..TicksPerTransition
            BY <1>5
        <3>2. indicatorDrawState \in 0..3 /\ frameTransitionDirection \in {-1, 1}
            BY DEF UiTypeOK
        <3> HIDE DEF next
        <3>3. QED
            BY <1>2, <2>1, <3>1, <3>2, DrawsRight
    <2>3. UiTypeOK'
        <3>1. ticks' \in 0..(TicksPerFrame + TicksPerTransition) /\ nextFrameNumber' = -1
            BY <2>1, UiAssumption
        <3>2. diverted' \in BOOLEAN /\ unsettled' \in BOOLEAN
            BY <2>1
        <3> HIDE DEF next
        <3>3. QED
            BY <1>1, <1>2, <2>1, <2>2, <3>1, <3>2 DEF UiTypeOK
    <2>4. NothingDrawnStays'
        BY <2>2 DEF NothingDrawnStays
    <2>5. TargetKept'
        BY <2>1 DEF TargetKept
    <2>6. QED
        BY <1>3, <1>4, <2>1, <2>2, <2>3, <2>4, <2>5
<1>7. CASE ticks + 1 < TicksPerTransition
    <2>1. /\ ticks' = ticks + 1
          /\ UNCHANGED <<frameState, currentFrame, nextFrameNumber, unsettled, diverted>>
          /\ Draws("IN_TRANSITION", currentFrame, next, frameTransitionDirection, ticks + 1)
        BY <1>5, <1>7 DEF Slides
    <2>2. /\ ticks + 1 \in 0..TicksPerTransition
          /\ currentFrame \in Frames /\ frameTransitionDirection \in {-1, 1}
          /\ indicatorDrawState \in 0..3
        BY <1>5, <1>7 DEF UiTypeOK
    <2>3. /\ indicatorDrawState' \in 0..3
          /\ view'.frames \subseteq Frames \X (-DisplaySize..DisplaySize)
          /\ view'.mark \in Frames \union {-1} /\ view'.fade \in Fades
          /\ {currentFrame, next} \intersect Hides = {} => indicatorDrawState' = indicatorDrawState
          /\ {currentFrame, next} \intersect Hides # {} \/ indicatorDrawState = 0 => IndicatorRight'
        <3> HIDE DEF next
        <3>1. QED
            BY <1>2, <2>1, <2>2, DrawsRight
    <2>4. UiTypeOK'
        BY <1>1, <1>5, <1>7, <2>1, <2>3, UiAssumption DEF UiTypeOK
    <2>5. ~unsettled /\ {currentFrame, next} \intersect Hides = {} => indicatorDrawState = 0
        BY DEF NothingDrawnStays
    <2>6. Following(currentFrame, nextFrameNumber, frameTransitionDirection)' = next
        BY <1>1, <2>1 DEF Following
    <2>7. NothingDrawnStays'
        <3> HIDE DEF next
        <3>1. QED
            BY <1>1, <2>1, <2>3, <2>5, <2>6 DEF NothingDrawnStays
    <2>8. IndicatorRight'
        <3>1. CASE unsettled
            BY <2>1, <3>1 DEF IndicatorRight
        <3>2. CASE ~unsettled
            BY <2>3, <2>5, <3>2
        <3>3. QED
            BY <3>1, <3>2
    <2>9. TargetKept'
        <3> HIDE DEF next
        <3>1. QED
            BY <1>1, <1>4, <2>1, <2>6 DEF TargetKept
    <2>10. QED
        BY <1>1, <1>3, <2>1, <2>4, <2>7, <2>8, <2>9
<1>8. QED
    BY <1>5, <1>6, <1>7

LEMMA StandsStep ==
    ASSUME FramesInv, Stands
    PROVE  FramesInv'
<1> USE DEF FramesInv
<1> DEFINE direction == IF manuelControll THEN lastTransitionDirection
                                          ELSE frameTransitionDirection
           next == Following(currentFrame, nextFrameNumber, direction)
           over == ticks + 1 >= TicksPerFrame
<1>1. /\ frameState = "FIXED"
      /\ frameTransitionDirection' = direction
      /\ frameState' = IF over /\ autoTransition THEN "IN_TRANSITION" ELSE "FIXED"
      /\ ticks' = IF over THEN 0 ELSE ticks + 1
      /\ target' = IF over /\ autoTransition THEN Neighbour(currentFrame, direction) ELSE target
      /\ unsettled' = (unsettled /\ over /\ autoTransition)
      /\ Draws(frameState', currentFrame, next, direction, ticks')
      /\ manuelControll' = FALSE
      /\ UNCHANGED <<currentFrame, lastTransitionDirection, nextFrameNumber, autoTransition,
                     autoDirection, rushed, diverted>>
    BY DEF Stands
<1>2. /\ direction \in {-1, 1} /\ currentFrame \in Frames
      /\ nextFrameNumber \in Frames \union {-1} /\ indicatorDrawState \in 0..3
    BY DEF UiTypeOK
<1>3. next \in Frames /\ Neighbour(currentFrame, direction) \in Frames
    BY <1>2, FollowingType, NeighbourType
<1>4. /\ ticks \in Nat /\ TicksPerFrame \in Nat \ {0} /\ TicksPerTransition \in Nat \ {0}
    BY UiAssumption DEF UiTypeOK
<1>5. DirectionReturns' /\ DirectionKept'
    BY <1>1 DEF DirectionReturns, DirectionKept, UiTypeOK
<1>6. TargetKept'
    BY <1>1 DEF TargetKept, Following
<1>7. Following(currentFrame, nextFrameNumber, frameTransitionDirection)' = next
    BY <1>1 DEF Following
<1> HIDE DEF next, direction
<1>8. CASE over /\ autoTransition
    <2>1. /\ frameState' = "IN_TRANSITION" /\ ticks' = 0 /\ unsettled' = unsettled
          /\ target' = Neighbour(currentFrame, direction)
          /\ Draws("IN_TRANSITION", currentFrame, next, direction, 0)
        BY <1>1, <1>8 DEF UiTypeOK
    <2>2. /\ indicatorDrawState' \in 0..3
          /\ view'.frames \subseteq Frames \X (-DisplaySize..DisplaySize)
          /\ view'.mark \in Frames \union {-1} /\ view'.fade \in Fades
          /\ {currentFrame, next} \intersect Hides = {} => indicatorDrawState' = indicatorDrawState
          /\ {currentFrame, next} \intersect Hides # {} \/ indicatorDrawState = 0 => IndicatorRight'
        <3>1. 0 \in 0..TicksPerTransition
            BY <1>4
        <3>2. QED
            BY <1>2, <1>3, <2>1, <3>1, DrawsRight
    <2>3. UiTypeOK'
        <3>1. ticks' \in 0..(TicksPerFrame + TicksPerTransition)
            BY <2>1, UiAssumption
        <3>2. manuelControll' \in BOOLEAN /\ unsettled' \in BOOLEAN
            BY <1>1, <2>1 DEF UiTypeOK
        <3>3. QED
            BY <1>1, <1>2, <1>3, <2>1, <2>2, <3>1, <3>2 DEF UiTypeOK
    <2>4. ~unsettled => indicatorDrawState = 0
        BY <1>1 DEF NothingDrawnStays
    <2>5. NothingDrawnStays'
        BY <1>1, <1>7, <2>1, <2>2, <2>4 DEF NothingDrawnStays
    <2>6. IndicatorRight'
        <3>1. CASE unsettled
            BY <2>1, <3>1 DEF IndicatorRight
        <3>2. CASE ~unsettled
            BY <2>2, <2>4, <3>2
        <3>3. QED
            BY <3>1, <3>2
    <2>7. QED
        BY <1>5, <1>6, <2>3, <2>5, <2>6
<1>9. CASE ~(over /\ autoTransition)
    <2>1. /\ frameState' = "FIXED" /\ unsettled' = FALSE /\ target' = target
          /\ Draws("FIXED", currentFrame, next, direction, ticks')
        BY <1>1, <1>9
    <2>2. ticks' \in 0..(TicksPerFrame + TicksPerTransition)
        BY <1>1, <1>4
    \* While a frame stands, how far frames have slid makes no difference
    <2>3. Draws("FIXED", currentFrame, next, direction, 0)
        BY <2>1 DEF Draws
    <2>4. /\ indicatorDrawState' = 0
          /\ view'.frames \subseteq Frames \X (-DisplaySize..DisplaySize)
          /\ view'.mark \in Frames \union {-1} /\ view'.fade \in Fades
          /\ IndicatorRight'
        <3>1. 0 \in 0..TicksPerTransition
            BY <1>4
        <3>2. QED
            BY <1>2, <1>3, <2>3, <3>1, DrawsRight
    <2>5. UiTypeOK'
        <3>1. manuelControll' \in BOOLEAN /\ unsettled' \in BOOLEAN
            BY <1>1, <2>1
        <3>2. QED
            BY <1>1, <1>2, <2>1, <2>2, <2>4, <3>1 DEF UiTypeOK
    <2>6. NothingDrawnStays'
        BY <2>4 DEF NothingDrawnStays
    <2>7. QED
        BY <1>5, <1>6, <2>4, <2>5, <2>6
<1>10. QED
    BY <1>8, <1>9

LEMMA UiStep ==
    ASSUME FramesInv, [UiNext]_uiVars
    PROVE  FramesInv'
<1>1. CASE update
    BY <1>1, SlidesStep, StandsStep DEF update
<1>2. CASE UNCHANGED uiVars
    BY <1>2 DEF uiVars, controlVars, FramesInv, UiTypeOK, IndicatorRight, NothingDrawnStays,
                DirectionReturns, DirectionKept, TargetKept, Following
<1>3. QED
    BY <1>1, <1>2, CallsStep DEF UiNext

\* The indicator marks the frame that is shown, the automatic direction comes back and
\* a transition keeps its target, for any number of frames, whichever of them hide the
\* indicator, and whatever calls come between two ticks.
THEOREM FramesAreRight == UiSpec => []FramesInv
<1>1. UiInit => FramesInv
    <2> SUFFICES ASSUME UiInit PROVE FramesInv
        OBVIOUS
    <2>1. 0 \in Frames
        BY UiAssumption DEF Frames
    <2>2. UiTypeOK
        <3>1. /\ view.frames \subseteq Frames \X (-DisplaySize..DisplaySize)
              /\ view.mark \in Frames \union {-1} /\ view.fade \in Fades
            BY UndrawnType DEF UiInit
        <3>2. ticks \in 0..(TicksPerFrame + TicksPerTransition)
            BY UiAssumption DEF UiInit
        <3>3. /\ manuelControll \in BOOLEAN /\ autoTransition \in BOOLEAN
              /\ rushed \in BOOLEAN /\ unsettled \in BOOLEAN /\ diverted \in BOOLEAN
            BY DEF UiInit
        <3>4. /\ currentFrame \in Frames /\ target \in Frames
              /\ nextFrameNumber \in Frames \union {-1}
              /\ frameState \in {"FIXED", "IN_TRANSITION"} /\ indicatorDrawState \in 0..3
              /\ frameTransitionDirection \in {-1, 1} /\ lastTransitionDirection \in {-1, 1}
              /\ autoDirection \in {-1, 1}
            BY <2>1 DEF UiInit
        <3>5. QED
            BY <3>1, <3>2, <3>3, <3>4 DEF UiTypeOK
    <2>3. IndicatorRight /\ NothingDrawnStays /\ DirectionReturns /\ DirectionKept /\ TargetKept
        BY DEF UiInit, IndicatorRight, NothingDrawnStays, DirectionReturns, DirectionKept,
               TargetKept
    <2>4. QED
        BY <2>2, <2>3 DEF FramesInv
<1>2. QED
    BY <1>1, UiStep, PTL DEF UiSpec

\* A transition that ends shows the frame it was for.
THEOREM TransitionsEndWhereSent == UiSpec => TransitionLands
<1>1. FramesInv /\ [UiNext]_uiVars =>
        [frameState = "IN_TRANSITION" /\ ~diverted /\ update /\ frameState' = "FIXED"
            => currentFrame' = target /\ view'.frames = {<<target, 0>>}]_uiVars
    BY SlidesStep DEF update, Stands
<1>2. QED
    BY <1>1, FramesAreRight, PTL DEF UiSpec, TransitionLands

=============================================================================
