----------------------------- MODULE MCDevices -----------------------------
(***************************************************************************)
(* The devices on the board.  They share no state, and one of them moves   *)
(* in a behaviour: focus says which.                                       *)
(***************************************************************************)
EXTENDS OneWire, DS1820, Encoder, Display, DisplayUi

VARIABLE focus

deviceVars == <<wireVars, probeVars, knobVars, displayVars, uiVars, focus>>

\* Three-bit codes, two of them alike but for the last bit
MCCodes == {<<0, 0, 0>>, <<0, 0, 1>>, <<1, 0, 1>>, <<1, 1, 0>>}
MCResolutionTime ==
    [c \in SUBSET {32, 64} |-> CASE c = {} -> 94       [] c = {32} -> 188
                                 [] c = {64} -> 375    [] c = {32, 64} -> 750]

MCUtf8 ==
    [a     |-> [bytes |-> <<97>>,            code |-> 97],
     nl    |-> [bytes |-> <<10>>,            code |-> 10],
     cr    |-> [bytes |-> <<13>>,            code |-> 0],
     uml   |-> [bytes |-> <<195, 164>>,      code |-> 228],
     acirc |-> [bytes |-> <<195, 130>>,      code |-> 194],
     euro  |-> [bytes |-> <<226, 130, 172>>, code |-> 128],
     ndash |-> [bytes |-> <<226, 128, 147>>, code |-> 0]]
MCCharWidth == [c \in 1..255 |-> CASE c = 109 -> 3 [] c = 97 -> 2 [] OTHER -> 1]
MCGlyph     == [c \in 1..255 |-> IF c = 32 THEN {} ELSE {<<0, 0>>, <<MCCharWidth[c] - 1, 1>>}]
MCPicture   == {<<0, 0>>, <<1, 3>>, <<0, 7>>, <<2, 8>>, <<1, 10>>}

Op(o, xs, ys, ws, hs) == [op : {o}, x : xs, y : ys, w : ws, h : hs]
Words == UNION {[1..n -> {32, 45, 97, 109}] : n \in 1..4}
Texts == {<<97, 10, 109, 97>>, <<97, 10, 10, 109>>, <<194, 169, 97>>}

\* Shapes inside the screen, across each edge and outside
Straight ==
    Op("hline", -2..8, {-1, 0, 5, 16}, {-1, 0, 1, 3, 8, 12}, {0})
    \union Op("vline", {0, 8}, {-9, -8, -7, -1, 0, 1, 3, 7, 8, 9, 15, 16}, {0},
             {-1, 0, 1, 2, 5, 7, 8, 9, 10, 16, 18})
    \union Op("rect", {-1, 2}, {-2, 3}, 1..4, {1, 2, 3, 5, 9})
    \union Op("fill", {-1, 2}, {-9, 3}, {0, 1, 4}, {0, 1, 8, 20})
    \union Op("image", {-2, 0, 3, 7}, {-12, -9, -8, -3, 0, 1, 5, 8, 10, 17}, {0}, {0})
    \union Op("xbm", {-1, 2}, {-3, 9}, {0}, {0})
Sloping ==
    Op("line", {2}, {0, 3}, -3..7, -3..9)
    \union Op("circle", {3}, {6}, 0..12, {0})
    \union Op("disc", {3}, {6}, 0..12, {0})
    \union Op("quads", {3}, {6}, {1, 4, 7}, SUBSET (1..4))
    \union [op : {"bar"}, x : {1}, y : {1}, w : {8, 12}, h : 2..7, progress : {0, 50, 100}]
Writing ==
    [op : {"maxwidth"}, x : {0}, y : {0}, w : {4, 6}, text : Words, alignment : {"LEFT"}]
    \union [op : {"string"}, x : {4}, y : {0}, text : Texts,
            alignment : {"LEFT", "CENTER", "CENTER_BOTH", "RIGHT"}]
Half   == {[op |-> "fill", x |-> 0, y |-> 0, w |-> 4, h |-> 16]}
Dots   == Op("pixel", {1, 6}, {2, 12}, {0}, {0})
TheLog == {[op |-> "log", x |-> 0, y |-> 0]}
MCShapes      == Straight \union Sloping \union Writing \union Half \union Dots \union TheLog
MCBackgrounds == Half

MCInit ==
    /\ WireInit /\ ProbeInit /\ KnobInit /\ DisplayInit /\ UiInit
    /\ focus \in {"wire", "probe", "knob", "drawing", "panel", "log", "ui"}
    /\ focus # "wire" => bus = {}
    /\ focus # "knob" => button = 0

\* What is drawn where: text and round shapes on an empty screen only
Shown == [drawing |-> Straight \union Half \union Sloping \union Writing,
          panel   |-> Half \union Dots,
          log     |-> TheLog]
DrawsOne ==
    \E s \in Shown[focus], color \in Colors :
        /\ s \in Sloping \union Writing => shape = NoShape
        /\ s \in Sloping \union Writing \union TheLog => color = "WHITE"
        /\ Draw(s, color)

Displays ==
    \/ DrawsOne
    \/ focus \in {"drawing", "log"} /\ Clear
    \/ focus = "panel" /\ PanelNext
    \/ focus = "log" /\ LogNext

MCNext ==
    /\ UNCHANGED focus
    /\ \/ focus = "wire"    /\ WireNext  /\ UNCHANGED <<probeVars, knobVars, displayVars, uiVars>>
       \/ focus = "probe"   /\ ProbeNext /\ UNCHANGED <<wireVars, knobVars, displayVars, uiVars>>
       \/ focus = "knob"    /\ KnobNext  /\ UNCHANGED <<wireVars, probeVars, displayVars, uiVars>>
       \/ /\ focus \in DOMAIN Shown
          /\ Displays
          /\ UNCHANGED <<wireVars, probeVars, knobVars, uiVars>>
       \/ focus = "ui"      /\ UiNext    /\ UNCHANGED <<wireVars, probeVars, knobVars, displayVars>>

\* A search waits for nothing, the tickers run, and the program keeps calling update()
Runs ==
    /\ UNCHANGED focus
    /\ \/ focus = "wire" /\ SearchStep /\ UNCHANGED <<probeVars, knobVars, displayVars, uiVars>>
       \/ focus = "knob" /\ SampleSW   /\ UNCHANGED <<wireVars, probeVars, displayVars, uiVars>>
       \/ focus = "ui"   /\ update     /\ UNCHANGED <<wireVars, probeVars, knobVars, displayVars>>

MCSpec == MCInit /\ [][MCNext]_deviceVars /\ WF_deviceVars(Runs)

=============================================================================
