----------------------------- MODULE DisplayUi -----------------------------
(***************************************************************************)
(* The frames of OLED_SSD1306/OLEDDisplayUi.cpp: shown one at a time, one  *)
(* sliding away for the next when its time is over or the program asks,    *)
(* with an indicator that marks the frame shown.                           *)
(***************************************************************************)
EXTENDS Integers

CONSTANTS
    FrameCount,           \* frameCount
    Hides,                \* the frames that call disableIndicator()
    DisplaySize,          \* of the display, along which frames slide
    TicksPerFrame,        \* ticksPerFrame
    TicksPerTransition,   \* ticksPerTransition
    UpdateInterval        \* updateInterval, an 8-bit number of milliseconds

ASSUME UiAssumption ==
    /\ FrameCount \in Nat \ {0}
    /\ Hides \subseteq 0..FrameCount - 1
    /\ DisplaySize \in Nat \ {0}
    /\ TicksPerFrame \in Nat \ {0}
    /\ TicksPerTransition \in Nat \ {0}
    /\ UpdateInterval \in 0..255

VARIABLES
    ticks,             \* state.ticksSinceLastStateSwitch
    frameState, currentFrame, manuelControll, frameTransitionDirection,
    lastTransitionDirection, nextFrameNumber, autoTransition,
    indicatorDrawState,
    view,              \* the frames that tick() drew, with their offsets, and the
                       \* indicator; Undrawn after a step that draws nothing
    target,            \* the frame that the transition under way was to go to
    autoDirection,     \* the direction asked for automatic transitions
    diverted,          \* a switch left a frame that was to be next
    rushed,            \* a frame was asked for before one asked for was shown
    unsettled          \* no frame has stood still since a transition began anew

controlVars == <<frameState, currentFrame, manuelControll, frameTransitionDirection,
                 lastTransitionDirection, nextFrameNumber, autoTransition, ticks>>
uiVars == <<controlVars, indicatorDrawState, view, target, autoDirection, rushed,
            unsettled, diverted>>

Frames    == 0..FrameCount - 1
Undrawn   == [frames |-> {}, mark |-> -1, fade |-> "none"]
Fades     == {"none", "still", "in", "out"}

UiTypeOK ==
    /\ ticks \in 0..(TicksPerFrame + TicksPerTransition)
    /\ frameState \in {"FIXED", "IN_TRANSITION"}
    /\ currentFrame \in Frames
    /\ manuelControll \in BOOLEAN /\ autoTransition \in BOOLEAN
    /\ rushed \in BOOLEAN /\ unsettled \in BOOLEAN /\ diverted \in BOOLEAN
    /\ frameTransitionDirection \in {-1, 1} /\ lastTransitionDirection \in {-1, 1}
    /\ autoDirection \in {-1, 1}
    /\ nextFrameNumber \in Frames \union {-1}
    /\ target \in Frames
    /\ indicatorDrawState \in 0..3
    /\ view.frames \subseteq Frames \X (-DisplaySize..DisplaySize)
    /\ view.mark \in Frames \union {-1} /\ view.fade \in Fades

\* The constructor and setFrames()
UiInit ==
    /\ ticks = 0
    /\ frameState = "FIXED"
    /\ currentFrame = 0
    /\ manuelControll = FALSE
    /\ autoTransition = TRUE
    /\ frameTransitionDirection = 1 /\ lastTransitionDirection = 1 /\ autoDirection = 1
    /\ nextFrameNumber = -1
    /\ indicatorDrawState = 1
    /\ view = Undrawn
    /\ target = 0
    /\ rushed = FALSE /\ unsettled = TRUE /\ diverted = FALSE

\* getNextFrameNumber()
Neighbour(frame, direction) == (frame + FrameCount + direction) % FrameCount
\* Mutant: the frame asked for is forgotten.
Following_Direction(current, next, direction) == Neighbour(current, direction)

Following(current, next, direction) ==
    IF next # -1 THEN next ELSE Neighbour(current, direction)

-----------------------------------------------------------------------------
(* The program's calls *)

\* Mutant: the direction is kept after it was changed.
Begins_KeepsNew(to, direction) ==
    /\ manuelControll' = TRUE
    /\ view' = Undrawn
    /\ frameState' = "IN_TRANSITION"
    /\ ticks' = 0
    /\ lastTransitionDirection' = direction
    /\ frameTransitionDirection' = direction
    /\ target' = to
    /\ rushed' = (rushed \/ manuelControll)
    /\ unsettled' = (unsettled \/ frameState = "IN_TRANSITION")
    /\ UNCHANGED <<currentFrame, autoTransition, indicatorDrawState, autoDirection>>

\* A transition begins towards a frame, by a call
Begins(to, direction) ==
    /\ manuelControll' = TRUE
    /\ view' = Undrawn
    /\ frameState' = "IN_TRANSITION"
    /\ ticks' = 0
    /\ lastTransitionDirection' = frameTransitionDirection
    /\ frameTransitionDirection' = direction
    /\ target' = to
    /\ rushed' = (rushed \/ manuelControll)
    /\ unsettled' = (unsettled \/ frameState = "IN_TRANSITION")
    /\ UNCHANGED <<currentFrame, autoTransition, indicatorDrawState, autoDirection>>

\* nextFrame() and previousFrame()
Step(direction) ==
    /\ frameState # "IN_TRANSITION"
    /\ Begins(Neighbour(currentFrame, direction), direction)
    /\ UNCHANGED <<nextFrameNumber, diverted>>

transitionToFrame(frame) ==
    IF frame = currentFrame
    THEN /\ ticks' = 0 /\ view' = Undrawn
         /\ UNCHANGED <<frameState, currentFrame, manuelControll, frameTransitionDirection,
                        lastTransitionDirection, nextFrameNumber, autoTransition,
                        indicatorDrawState, target, autoDirection, rushed, unsettled, diverted>>
    ELSE /\ nextFrameNumber' = frame
         /\ diverted' = FALSE
         /\ Begins(frame, IF frame < currentFrame THEN -1 ELSE 1)

\* The frame is there at once; a frame that was to be next stays the next one
switchToFrame(frame) ==
    /\ ticks' = 0
    /\ view' = Undrawn
    /\ frameState' = IF frame = currentFrame THEN frameState ELSE "FIXED"
    /\ currentFrame' = frame
    /\ unsettled' = (unsettled \/ frameState = "IN_TRANSITION")
    /\ diverted' = (diverted \/ (nextFrameNumber # -1 /\ frame # currentFrame))
    /\ UNCHANGED <<manuelControll, frameTransitionDirection, lastTransitionDirection,
                   nextFrameNumber, autoTransition, indicatorDrawState, target,
                   autoDirection, rushed>>

\* setAutoTransitionForwards() and Backwards().  The direction of a transition
\* that is under way changes too
setAutoTransition(direction) ==
    /\ view' = Undrawn
    /\ frameTransitionDirection' = direction
    /\ lastTransitionDirection' = direction
    /\ autoDirection' = direction
    /\ target' = IF frameState = "IN_TRANSITION"
                 THEN Following(currentFrame, nextFrameNumber, direction) ELSE target
    /\ unsettled' = (unsettled \/ frameState = "IN_TRANSITION")
    /\ UNCHANGED <<frameState, currentFrame, manuelControll, nextFrameNumber,
                   autoTransition, ticks, indicatorDrawState, rushed, diverted>>

\* enableAutoTransition() and disableAutoTransition()
SwitchAuto ==
    /\ autoTransition' = ~autoTransition
    /\ view' = Undrawn
    /\ UNCHANGED <<frameState, currentFrame, manuelControll, frameTransitionDirection,
                   lastTransitionDirection, nextFrameNumber, ticks, indicatorDrawState,
                   target, autoDirection, rushed, unsettled, diverted>>

-----------------------------------------------------------------------------
(* tick() *)

\* drawIndicator(), from left to right
Indicator(drawState, shown, state, current, next) ==
    IF drawState = 3 \/ (~shown /\ state # "IN_TRANSITION")
    THEN [mark |-> -1, fade |-> "none"]
    ELSE [mark |-> IF drawState = 1 THEN next ELSE current,
          fade |-> CASE drawState = 1 -> "in"
                     [] drawState = 2 -> "out"
                     [] OTHER         -> "still"]

\* drawFrame(): during a transition each of the two frames says whether it is
\* drawn with the indicator.  SLIDE_RIGHT, the other way when going back
Draws(state, current, next, direction, n) ==
    LET x    == (DisplaySize * n) \div TicksPerTransition
        here == current \notin Hides
        then == next \notin Hides
        drawState == CASE state = "FIXED"  -> 0
                       [] state # "FIXED" /\ here /\ ~then -> 2
                       [] state # "FIXED" /\ ~here /\ then -> 1
                       [] state # "FIXED" /\ ~here /\ ~then -> 3
                       [] OTHER -> indicatorDrawState
        mark == Indicator(drawState, IF state = "FIXED" THEN here ELSE here /\ then,
                          state, current, next)
    IN  /\ indicatorDrawState' = drawState
        /\ view' = [frames |-> IF state = "FIXED" THEN {<<current, 0>>}
                               ELSE {<<current, x * direction>>,
                                     <<next, (x - DisplaySize) * direction>>},
                    mark |-> mark.mark, fade |-> mark.fade]

\* A transition goes on, or ends
Slides ==
    /\ frameState = "IN_TRANSITION"
    /\ LET next == Following(currentFrame, nextFrameNumber, frameTransitionDirection)
       IN  IF ticks + 1 >= TicksPerTransition
           THEN /\ frameState' = "FIXED"
                /\ currentFrame' = next
                /\ ticks' = 0
                /\ nextFrameNumber' = -1 /\ diverted' = FALSE
                /\ Draws("FIXED", next, next, frameTransitionDirection, 0)
                /\ unsettled' = FALSE
           ELSE /\ ticks' = ticks + 1
                /\ UNCHANGED <<frameState, currentFrame, nextFrameNumber, unsettled,
                               diverted>>
                /\ Draws("IN_TRANSITION", currentFrame, next, frameTransitionDirection, ticks + 1)
    /\ UNCHANGED <<manuelControll, frameTransitionDirection, lastTransitionDirection,
                   autoTransition, target, autoDirection, rushed>>

\* A frame stands; after a call the direction is the automatic one again
Stands ==
    /\ frameState = "FIXED"
    /\ LET direction == IF manuelControll THEN lastTransitionDirection
                                          ELSE frameTransitionDirection
           next == Following(currentFrame, nextFrameNumber, direction)
           over == ticks + 1 >= TicksPerFrame
       IN  /\ frameTransitionDirection' = direction
           /\ frameState' = IF over /\ autoTransition THEN "IN_TRANSITION" ELSE "FIXED"
           /\ ticks' = IF over THEN 0 ELSE ticks + 1
           /\ target' = IF over /\ autoTransition THEN Neighbour(currentFrame, direction)
                                                   ELSE target
           /\ unsettled' = (unsettled /\ over /\ autoTransition)
           /\ Draws(frameState', currentFrame, next, direction, ticks')
    /\ manuelControll' = FALSE
    /\ UNCHANGED <<currentFrame, lastTransitionDirection, nextFrameNumber, autoTransition,
                   autoDirection, rushed, diverted>>

\* update(): the timer is a new one each time, so that the time spent is 0 and
\* the budget is the interval, in eight bits with a sign
TimeBudget == ((UpdateInterval + 128) % 256) - 128
update == TimeBudget <= 0 /\ (Slides \/ Stands)

UiNext ==
    \/ update
    \/ Step(1) \/ Step(-1)
    \/ \E frame \in Frames : transitionToFrame(frame) \/ switchToFrame(frame)
    \/ \E direction \in {-1, 1} : setAutoTransition(direction)
    \/ SwitchAuto

UiSpec == UiInit /\ [][UiNext]_uiVars

-----------------------------------------------------------------------------
(* Properties *)

\* A transition ends at the frame it was for, and that frame is the one shown, if no
\* switch has left an earlier one to be next.
TransitionLands ==
    [][frameState = "IN_TRANSITION" /\ ~diverted /\ update /\ frameState' = "FIXED"
         => currentFrame' = target /\ view'.frames = {<<target, 0>>}]_uiVars

\* A transition does not last for ever, unless calls keep restarting it or the
\* direction is changed.
TransitionEnds ==
    <>[][update]_uiVars => ((frameState = "IN_TRANSITION") ~> (frameState = "FIXED"))

\* The indicator is there unless neither frame on the screen wants it; it marks
\* the frame that stands, the one that goes, or, if that one hides it, the one
\* that comes.  Not so for a transition that began before a frame stood still
\* after the one before: what was drawn for that is still in effect.
IndicatorRight ==
    LET frames == {f[1] : f \in view.frames}
    IN  view # Undrawn /\ ~unsettled =>
          /\ (view.mark = -1) <=> (frames \subseteq Hides)
          /\ view.mark # -1 => view.mark \in frames \ Hides
          /\ view.fade = "still" <=> frames \intersect Hides = {}

\* The frames go in the direction asked for automatic transitions again once those
\* asked for by calls are over, if no call came before the last one's was shown.
DirectionReturns ==
    ~rushed /\ ~manuelControll => frameTransitionDirection = autoDirection

\* Why: while a call's transition is under way the automatic direction is the last one.
DirectionKept ==
    ~rushed /\ manuelControll => lastTransitionDirection = autoDirection

\* Why: what was drawn for a transition between two frames that show the indicator,
\* or for a frame that stands, leaves nothing that a later transition would mistake
\* for its own.
NothingDrawnStays ==
    LET next == Following(currentFrame, nextFrameNumber, frameTransitionDirection)
    IN  ~unsettled /\ (frameState = "FIXED" \/ {currentFrame, next} \intersect Hides = {})
            => indicatorDrawState = 0

\* Where a transition goes is where it was sent, and no frame is to be next without
\* one, unless a switch has left it.
TargetKept ==
    ~diverted =>
        IF frameState = "FIXED" THEN nextFrameNumber = -1
        ELSE target = Following(currentFrame, nextFrameNumber, frameTransitionDirection)

\* Whatever calls come in a transition, the indicator marks the frame that is shown,
\* the automatic direction comes back and the transition keeps its target.
FramesInv ==
    /\ UiTypeOK
    /\ IndicatorRight /\ NothingDrawnStays
    /\ DirectionReturns /\ DirectionKept
    /\ TargetKept

\* A transition comes to its end, which is where it was sent.
TransitionsLand == TransitionLands /\ TransitionEnds

=============================================================================
