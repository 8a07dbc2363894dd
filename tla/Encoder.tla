------------------------------ MODULE Encoder ------------------------------
(***************************************************************************)
(* A rotary encoder with a push button (mRotaryEncoder-os) and the         *)
(* debouncing of its pins (PinDetect.h).  Time is counted in samples: a    *)
(* pin is read once in each by the ticker's isr().  The shaft and the      *)
(* button move between samples; a contact that has moved bounces: for      *)
(* some samples a read of it may return anything.                          *)
(***************************************************************************)
EXTENDS Integers

CONSTANTS
    AssertCount,   \* PINDETECT_ASSERT_COUNT: 1 in the code
    HoldCount,     \* PINDETECT_HOLD_COUNT: 50 in the code
    Bounce,        \* the samples for which a contact bounces
    Settle,        \* the samples that the shaft rests between two moves
    Turns          \* bound: how far the shaft is turned, in quarter periods

ASSUME EncoderAssumption ==
    /\ AssertCount \in Nat \ {0}
    /\ HoldCount \in Nat \ {0}
    /\ Bounce \in 0..AssertCount
    /\ Settle \in Nat
    \* Time to take a change, and one sample more to start counting anew
    /\ Settle >= Bounce + AssertCount + 2
    /\ Turns \in Nat

VARIABLES
    shaft,        \* the phase, in quarter periods from where A and B are low
    rest,         \* samples of A since the shaft moved
    pinA,         \* the PinDetect of A: _prevState, _samplesTillAssert, _samplesTillHeld
    position,     \* m_position
    origin,       \* what Set() has added to the position
    told,         \* turns reported clockwise less those anticlockwise
    button,       \* the level of the button's contact
    still,        \* samples of it since it moved
    pinSW,        \* the PinDetect of the button
    equal,        \* how many of the button's last samples were the same
    sampled,      \* the last of them
    event         \* what the button's last sample was reported as

encoderVars == <<shaft, rest, pinA, position, origin, told>>
buttonVars  == <<button, still, pinSW, equal, sampled, event>>
knobVars    == <<encoderVars, buttonVars>>

Level == {0, 1}

\* The levels of A and B: 00 10 11 01 clockwise
LevelA(s) == IF s % 4 \in {1, 2} THEN 1 ELSE 0
LevelB(s) == IF s % 4 \in {2, 3} THEN 1 ELSE 0
\* The edges of A between the start and phase s, clockwise ones counted up
Edges(s) == (s + 1) \div 2

\* What a read returns of a contact that moved n samples ago
Reads(level, n) == IF n < Bounce THEN Level ELSE {level}

UpTo(n, m) == IF n < m THEN n ELSE m

PinType == [prev : Level, tillAssert : 0..AssertCount, tillHeld : 0..HoldCount]
Reports == {"none", "asserted", "deasserted", "asserted held", "deasserted held"}

KnobTypeOK ==
    /\ shaft \in -Turns..Turns
    /\ rest \in 0..Settle
    /\ pinA \in PinType
    /\ pinSW \in PinType
    /\ position \in Int /\ origin \in Int /\ told \in Int
    /\ button \in Level /\ sampled \in Level
    /\ still \in 0..Bounce
    /\ equal \in 0..HoldCount
    /\ event \in Reports

PinInit(level) ==
    [prev |-> level, tillAssert |-> AssertCount, tillHeld |-> 0]

KnobInit ==
    /\ shaft = 0
    /\ rest = Settle
    /\ pinA = PinInit(LevelA(0))
    /\ position = 0
    /\ origin = 0
    /\ told = 0
    /\ button \in Level
    /\ still = Bounce
    /\ pinSW = PinInit(button)
    /\ equal = 0
    /\ sampled = button
    /\ event = "none"

-----------------------------------------------------------------------------
(* PinDetect::isr() *)

Accepts(pin, level) == level # pin.prev /\ pin.tillAssert = 0

\* Mutant: only a high level is counted on to be held.
Counted_HoldsHigh(pin, level) ==
    CASE Accepts(pin, level) ->
            [pin EXCEPT !.prev = level, !.tillHeld = IF level = 1 THEN HoldCount ELSE 0]
      [] level # pin.prev /\ pin.tillAssert > 0 ->
            [pin EXCEPT !.tillAssert = @ - 1]
      [] level = pin.prev ->
            [pin EXCEPT !.tillAssert = AssertCount]

\* A change is taken after AssertCount samples that differ
Counted(pin, level) ==
    CASE Accepts(pin, level) ->
            [pin EXCEPT !.prev = level, !.tillHeld = HoldCount]
      [] level # pin.prev /\ pin.tillAssert > 0 ->
            [pin EXCEPT !.tillAssert = @ - 1]
      [] level = pin.prev ->
            [pin EXCEPT !.tillAssert = AssertCount]

\* The level must then last; the sample that was accepted counts as one
Holding(pin, level) ==
    IF pin.tillHeld = 0 THEN pin
    ELSE [pin EXCEPT !.tillHeld = IF level = pin.prev THEN @ - 1 ELSE 0]

isr(pin, level) == Holding(Counted(pin, level), level)

Held(pin, level) ==
    LET counted == Counted(pin, level)
    IN  counted.tillHeld = 1 /\ level = counted.prev

-----------------------------------------------------------------------------
(* The encoder *)

\* Mutant: both edges are read the same way.
Turned_OneWay(accepted, a, b) ==
    CASE a # accepted -> 0
      [] a = accepted /\ b = 1 -> -1
      [] a = accepted /\ b = 0 -> 1

\* rise() and fall(): A is read again, and B tells the direction
Turned(accepted, a, b) ==
    CASE a # accepted         -> 0
      [] accepted = 1 /\ b = 1 -> -1
      [] accepted = 1 /\ b = 0 -> 1
      [] accepted = 0 /\ b = 1 -> 1
      [] accepted = 0 /\ b = 0 -> -1

SampleA ==
    \E level \in Reads(LevelA(shaft), rest), again \in Reads(LevelA(shaft), rest) :
       LET step == IF Accepts(pinA, level) THEN Turned(level, again, LevelB(shaft)) ELSE 0
       IN  /\ pinA' = isr(pinA, level)
           /\ position' = position + step
           /\ told' = told + step
           /\ rest' = UpTo(rest + 1, Settle)
           /\ UNCHANGED <<shaft, origin, buttonVars>>

Turn(direction) ==
    /\ rest = Settle
    /\ shaft + direction \in -Turns..Turns
    /\ shaft' = shaft + direction
    /\ rest' = 0
    /\ UNCHANGED <<pinA, position, origin, told, buttonVars>>

\* Set(), called by the program at any time
Set(value) ==
    /\ position' = value
    /\ origin' = origin + value - position
    /\ UNCHANGED <<shaft, rest, pinA, told, buttonVars>>

-----------------------------------------------------------------------------
(* The button *)

SampleSW ==
    \E level \in Reads(button, still) :
       /\ pinSW' = isr(pinSW, level)
       /\ event' = CASE Accepts(pinSW, level) /\ level = 1 -> "asserted"
                     [] Accepts(pinSW, level) /\ level = 0 -> "deasserted"
                     [] ~Accepts(pinSW, level) /\ Held(pinSW, level) ->
                          IF level = 1 THEN "asserted held" ELSE "deasserted held"
                     [] OTHER -> "none"
       /\ still' = UpTo(still + 1, Bounce)
       /\ sampled' = level
       /\ equal' = IF level = sampled THEN UpTo(equal + 1, HoldCount) ELSE 1
       /\ UNCHANGED <<button, encoderVars>>

Press ==
    /\ button' = 1 - button
    /\ still' = 0
    /\ UNCHANGED <<encoderVars, pinSW, equal, sampled, event>>

KnobNext ==
    \/ SampleA
    \/ Turn(1) \/ Turn(-1)
    \/ Set(0)
    \/ SampleSW
    \/ Press

KnobSpec == KnobInit /\ [][KnobNext]_knobVars

-----------------------------------------------------------------------------
(* Properties *)

\* Whenever the shaft has rested, the position, and the turns that the
\* callbacks were told of, are the edges of A it has passed, each counted
\* once in its direction: nothing is lost to a bouncing contact or to a
\* position that was set between an edge and its acceptance.
PositionFollows ==
    rest = Settle => /\ position = origin + Edges(shaft)
                     /\ told = Edges(shaft)

\* A level is reported as held only after HoldCount samples without a break.
HeldIsHeld == event \in {"asserted held", "deasserted held"} => equal = HoldCount

\* Why: the position is what the callbacks were told, and an edge of A that is
\* still to be accepted is the only one they do not know; B will tell its direction.
OneEdgePending ==
    LET a == LevelA(shaft)
    IN  /\ position = origin + told
        /\ Edges(shaft) = told + IF pinA.prev = a THEN 0 ELSE Turned(a, a, LevelB(shaft))

\* Why: no level is accepted while A may bounce, it is accepted before the shaft may
\* move again, and by then the pin counts anew.
AcceptedInTime ==
    /\ pinA.tillAssert + rest >= AssertCount
    /\ IF pinA.prev # LevelA(shaft)
       THEN rest >= Bounce => pinA.tillAssert + rest <= Bounce + AssertCount
       ELSE rest >= Bounce + AssertCount + 2 => pinA.tillAssert = AssertCount

\* Why: what is still to be held has been read without a break since it was accepted.
HoldCounted ==
    pinSW.tillHeld > 0 => sampled = pinSW.prev /\ equal + pinSW.tillHeld >= HoldCount

\* Through all bouncing the position counts turns and nothing else, and a hold is
\* only told of a level that did not break.
KnobInv ==
    /\ KnobTypeOK
    /\ PositionFollows /\ OneEdgePending /\ AcceptedInTime
    /\ HeldIsHeld /\ HoldCounted

\* A button that is pressed, or let go, for good after its state was
\* different is reported as that in the end, and as held if it is held.
PressReported ==
    \A level \in Level :
        (button = level /\ pinSW.prev # level)
            ~> \/ button # level
               \/ event = IF level = 1 THEN "asserted held" ELSE "deasserted held"

=============================================================================
