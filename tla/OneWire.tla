------------------------------ MODULE OneWire ------------------------------
(***************************************************************************)
(* The 1-Wire search of DS1820/DS1820.cpp, the list of probe objects it    *)
(* consults, and the loop of main() that makes one object for each probe.  *)
(* The bus is a wired AND: a bit reads 1 only if every device that still   *)
(* takes part in the search sends 1.  Devices come and go at any time and  *)
(* a read may be disturbed.                                                *)
(***************************************************************************)
EXTENDS Integers, Sequences, SequencesExt

CONSTANTS
    RomBits,     \* the length of a ROM code; 64 in the code
    Codes,       \* the ROM codes with a correct checksum
    MaxProbes    \* MAX_DS1820 of main.cpp

Rom == [1..RomBits -> {0, 1}]

ASSUME WireAssumption ==
    /\ RomBits \in Nat \ {0}
    /\ Codes \subseteq Rom
    /\ MaxProbes \in Nat \ {0}

VARIABLES
    bus,                 \* the codes of the devices on the bus
    probes,              \* LinkedList<node> probes: the codes of the objects
    stage,               \* what main() does: "while" asks whether there is an
                         \* unassigned probe, "new" constructs an object for it
    phase,               \* where search_ROM_routine() is
    search_ROM,          \* DS1820_search_ROM
    last_descrepancy,    \* DS1820_last_descrepancy
    descrepancy_marker,
    ROM_bit_index,
    listening,           \* the devices that still take part in this pass
    answer,              \* what the last search returned
    quiet                \* since main() last asked, no device has come or gone,
                         \* no object was deleted and no read was disturbed

searchVars == <<search_ROM, last_descrepancy, descrepancy_marker,
                ROM_bit_index, listening>>
wireVars   == <<bus, probes, stage, phase, searchVars, answer, quiet>>

Known == Range(probes)

WireTypeOK ==
    /\ bus \subseteq Codes
    /\ probes \in Seq(Codes)
    /\ Len(probes) <= MaxProbes
    /\ stage \in {"while", "new", "run", "error"}
    /\ phase \in {"call", "reset", "bits"}
    /\ search_ROM \in Rom
    /\ last_descrepancy \in 0..RomBits
    /\ descrepancy_marker \in 0..RomBits
    /\ ROM_bit_index \in 1..RomBits + 1
    /\ listening \subseteq bus
    /\ answer \in BOOLEAN
    /\ quiet \in BOOLEAN

WireInit ==
    /\ bus \in SUBSET Codes
    /\ probes = <<>>
    /\ stage = "while"
    /\ phase = "call"
    /\ search_ROM = [i \in 1..RomBits |-> 0]
    /\ last_descrepancy = 0
    /\ descrepancy_marker = 0
    /\ ROM_bit_index = 1
    /\ listening = {}
    /\ answer = TRUE
    /\ quiet = FALSE

-----------------------------------------------------------------------------
(* The search *)

\* The search returns to main() or to the constructor, which appends its
\* object to the list or ends the program
Outcome(found) ==
    /\ answer' = found
    /\ phase' = "call"
    /\ probes' = IF stage = "new" /\ found THEN Append(probes, search_ROM)
                                          ELSE probes
    /\ stage' = IF stage = "while" THEN (IF found THEN "new" ELSE "run")
                ELSE IF ~found THEN "error"
                ELSE IF Len(probes) + 1 = MaxProbes THEN "run" ELSE "while"
    /\ UNCHANGED bus

Returns(found) == Outcome(found) /\ UNCHANGED quiet

StartSearch ==
    /\ phase = "call"
    /\ stage \in {"while", "new"}
    /\ search_ROM' = [i \in 1..RomBits |-> 0]
    /\ last_descrepancy' = 0
    /\ quiet' = (stage = "while" \/ quiet)
    /\ phase' = "reset"
    /\ UNCHANGED <<bus, probes, stage, descrepancy_marker, ROM_bit_index,
                   listening, answer>>

\* A reset that no device answers ends the search
NobodyPresent ==
    /\ phase = "reset"
    /\ bus = {}
    /\ Returns(FALSE)
    /\ UNCHANGED searchVars

ResetBus ==
    /\ phase = "reset"
    /\ bus # {}
    /\ listening' = bus
    /\ ROM_bit_index' = 1
    /\ descrepancy_marker' = 0
    /\ phase' = "bits"
    /\ UNCHANGED <<bus, probes, stage, search_ROM, last_descrepancy, answer, quiet>>

\* Mutant: the last branch is taken the old way again.
Branch_Again(i) == IF i <= last_descrepancy THEN search_ROM[i] ELSE 0

\* The bit to follow when devices with both bits answer
Branch(i) ==
    IF i < last_descrepancy THEN search_ROM[i]
    ELSE IF i = last_descrepancy THEN 1 ELSE 0

\* The search follows a bit: devices with the other one drop out
Follow(i, bit, marker) ==
    /\ search_ROM' = [search_ROM EXCEPT ![i] = bit]
    /\ listening' = {d \in listening : d[i] = bit}
    /\ descrepancy_marker' = marker
    /\ ROM_bit_index' = i + 1
    /\ UNCHANGED <<bus, probes, stage, phase, last_descrepancy, answer>>

\* Mutant: a branch is not marked.
TakesBit_NoMarker(i, Bit_A, Bit_B) ==
    IF Bit_A # Bit_B
    THEN Follow(i, IF Bit_A THEN 1 ELSE 0, descrepancy_marker)
    ELSE Follow(i, Branch(i), descrepancy_marker)

\* One bit and its complement are read from the bus and a bit is written
TakesBit(i, Bit_A, Bit_B) ==
    IF Bit_A # Bit_B
    THEN Follow(i, IF Bit_A THEN 1 ELSE 0, descrepancy_marker)
    ELSE Follow(i, Branch(i), IF Branch(i) = 0 THEN i ELSE descrepancy_marker)

ReadBit ==
    /\ phase = "bits"
    /\ ROM_bit_index <= RomBits
    /\ listening # {}
    /\ TakesBit(ROM_bit_index, \A d \in listening : d[ROM_bit_index] = 1,
                               \A d \in listening : d[ROM_bit_index] = 0)
    /\ UNCHANGED quiet

\* A disturbance changes what is read: two ones end the search
DisturbedBit ==
    /\ phase = "bits"
    /\ ROM_bit_index <= RomBits
    /\ \/ \E Bit_A, Bit_B \in BOOLEAN :
             ~(Bit_A /\ Bit_B) /\ TakesBit(ROM_bit_index, Bit_A, Bit_B)
       \/ Outcome(FALSE) /\ UNCHANGED searchVars
    /\ quiet' = FALSE

\* Two ones: nobody answers any more.  The pass is given up with no branch left
NobodyAnswers ==
    /\ phase = "bits"
    /\ ROM_bit_index <= RomBits
    /\ listening = {}
    /\ Returns(FALSE)
    /\ UNCHANGED searchVars

\* The pass is complete: a code that no object has is the answer, if its
\* checksum is right; after a known code the search goes on at the last branch
CompareROM ==
    /\ phase = "bits"
    /\ ROM_bit_index = RomBits + 1
    /\ last_descrepancy' = descrepancy_marker
    /\ UNCHANGED <<search_ROM, descrepancy_marker, ROM_bit_index, listening>>
    /\ IF search_ROM \notin Known
       THEN Returns(search_ROM \in Codes)
       ELSE IF descrepancy_marker = 0
            THEN Returns(FALSE)
            ELSE /\ phase' = "reset"
                 /\ UNCHANGED <<bus, probes, stage, answer, quiet>>

-----------------------------------------------------------------------------
(* The application and the bus *)

\* ~DS1820(): the object leaves the list, and a new scan may begin
Delete(n) ==
    /\ stage = "run"
    /\ n \in DOMAIN probes
    /\ probes' = RemoveAt(probes, n)
    /\ stage' = "while"
    /\ quiet' = FALSE
    /\ UNCHANGED <<bus, phase, searchVars, answer>>

Plug(d) ==
    /\ d \notin bus
    /\ bus' = bus \union {d}
    /\ quiet' = FALSE
    /\ UNCHANGED <<probes, stage, phase, searchVars, answer>>

Unplug(d) ==
    /\ d \in bus
    /\ bus' = bus \ {d}
    /\ listening' = listening \ {d}
    /\ quiet' = FALSE
    /\ UNCHANGED <<probes, stage, phase, search_ROM, last_descrepancy,
                   descrepancy_marker, ROM_bit_index, answer>>

SearchStep == \/ StartSearch \/ NobodyPresent \/ ResetBus
              \/ ReadBit \/ NobodyAnswers \/ CompareROM

WireNext ==
    \/ SearchStep
    \/ DisturbedBit
    \/ \E n \in 1..MaxProbes : Delete(n)
    \/ \E d \in Codes : Plug(d) \/ Unplug(d)

WireSpec == WireInit /\ [][WireNext]_wireVars

-----------------------------------------------------------------------------
(* Properties *)

\* A search that finds nothing on a quiet bus is right: every device on the bus
\* has its object (the search visits every code, whatever was found before).
SearchFinds == ~answer /\ quiet /\ phase = "call" => bus \subseteq Known

\* No two objects of DS1820 ever stand for the same device.
ProbesDistinct == IsInjective(probes)

\* main() leaves its loop only when its array is full or the last search, on a
\* quiet bus, left no device without an object; and on a quiet bus the
\* constructor finds the probe that main() was told of.
EveryDeviceFound ==
    /\ stage = "run" /\ quiet => \/ bus \subseteq Known
                                 \/ Len(probes) = MaxProbes
    /\ stage = "error" => ~quiet

\* A search ends, unless devices keep coming and going or reads are disturbed: it
\* does not visit the same branches again and again.
SearchEnds == (phase # "call" /\ quiet) ~> (phase = "call" \/ ~quiet)

-----------------------------------------------------------------------------
(* Why the search finds every device: on a quiet bus, one that the present *)
(* pass does not lead to lies behind a branch that a later pass will take. *)

Unassigned  == bus \ Known
Agrees(d, i) == \A j \in 1..i - 1 : d[j] = search_ROM[j]
Leads(d, i)  == Agrees(d, i) /\ search_ROM[i] = 0 /\ d[i] = 1

StagesInv ==
    /\ stage \in {"while", "new"} => Len(probes) < MaxProbes
    /\ stage \in {"run", "error"} => phase = "call"

\* Between two passes: the last branch leads to a device, and every device
\* without an object lies behind it or an earlier one
BranchInv ==
    last_descrepancy > 0 =>
        /\ \E d \in bus : Leads(d, last_descrepancy)
        /\ \A d \in Unassigned : \E i \in 1..last_descrepancy : Leads(d, i)

\* In a pass: branches already passed are marked up to the last of them
PassInv ==
    /\ listening = {d \in bus : Agrees(d, ROM_bit_index)}
    /\ listening # {}
    /\ descrepancy_marker < ROM_bit_index
    /\ descrepancy_marker > 0 => \E d \in bus : Leads(d, descrepancy_marker)
    /\ ROM_bit_index <= last_descrepancy => \E d \in bus : Leads(d, last_descrepancy)
    /\ \A d \in Unassigned :
          \/ last_descrepancy < ROM_bit_index /\ d \in listening
          \/ \E i \in 1..RomBits : /\ Leads(d, i)
                                   /\ i < ROM_bit_index => i <= descrepancy_marker
                                   /\ i >= ROM_bit_index => i <= last_descrepancy

SearchInv ==
    quiet => /\ phase = "reset" => BranchInv
             /\ phase = "bits" => PassInv
             /\ stage = "new" => Unassigned # {}

\* The inductive invariant: with it, a search that finds nothing has been at the
\* end of every branch.
WireInv ==
    /\ WireTypeOK /\ StagesInv /\ SearchInv
    /\ SearchFinds /\ ProbesDistinct /\ EveryDeviceFound

=============================================================================
