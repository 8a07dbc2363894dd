------------------------------ MODULE Display ------------------------------
(***************************************************************************)
(* OLED_SSD1306: the buffer that is drawn into, the copy of what was sent, *)
(* the panel behind the I2C bus, and the text log.  Nobody looks at the    *)
(* result of an I2C transfer.                                              *)
(***************************************************************************)
EXTENDS Drawing

CONSTANTS
    Shapes,        \* what is drawn: records with the operation and its arguments
    Backgrounds,   \* those over which another one may be drawn (a bound)
    Utf8,          \* for each character its bytes and its code
    MaxLogLines,   \* lines and lines * chars of setLogBuffer()
    LogSize,
    MaxWritten     \* bound: characters written to the log

Colors  == {"WHITE", "BLACK", "INVERSE"}
Nothing == [op |-> "none"]
NoShape == [op |-> "none", what |-> Nothing, color |-> "WHITE", pixels |-> {}]

\* Their sums and differences fit 16 bits
Coordinates == -4096..4095

\* What is drawn; w and h are the end of a line, w is the radius of a circle, and h
\* the quadrants that are drawn of one
ASSUME ShapesAssumption ==
    \A s \in Shapes :
        /\ s.op \in {"pixel", "hline", "vline", "rect", "fill", "line", "circle", "quads",
                    "disc", "bar", "image", "xbm", "string", "maxwidth", "log"}
        /\ s.x \in Coordinates /\ s.y \in Coordinates
        /\ s.op \in {"hline", "rect", "fill", "line", "circle", "quads", "disc", "bar",
                    "maxwidth"} => s.w \in Coordinates
        /\ s.op \in {"vline", "rect", "fill", "line", "bar"} => s.h \in Coordinates
        /\ s.op = "quads" => s.h \subseteq 1..4
        /\ s.op = "bar" => s.progress \in 0..100
        /\ s.op \in {"string", "maxwidth"} =>
              s.text \in Seq(1..255) \ {<<>>} /\ s.text[Len(s.text)] \notin {194, 195}

ASSUME LogAssumption == MaxLogLines \in Nat \ {0} /\ LogSize \in Nat \ {0}

VARIABLES
    buffer,         \* the pixels that are set
    buffer_back,    \* those sent last
    panel,          \* those the panel shows
    synced,         \* buffer has not changed since display()
    ready,          \* the panel had its power since init() sent its commands: without
                    \* them it is off, and its memory is addressed in another order
    clean,          \* the panel is ready, and since resetDisplay() no transfer failed
    shape, before,  \* what was drawn last, with its colour and its pixels, and
                    \* over what
    LASTCHAR,       \* of DefaultFontTableLookup()
    logBuffer, logBufferSize, logBufferLine,
    written,        \* the characters that write() was given
    lost            \* one of them was lost to its second lookup, or the next may
                    \* be misread after one that was

panelVars   == <<buffer_back, panel, ready, clean>>
bufferVars  == <<buffer, synced, shape, before>>
logVars     == <<LASTCHAR, logBuffer, logBufferSize, logBufferLine, written, lost>>
displayVars == <<panelVars, bufferVars, logVars>>

DisplayTypeOK ==
    /\ buffer \subseteq Screen /\ buffer_back \subseteq Screen
    /\ panel \subseteq Screen /\ before \subseteq Screen
    /\ synced \in BOOLEAN /\ ready \in BOOLEAN /\ clean \in BOOLEAN
    /\ shape.color \in Colors
    /\ LASTCHAR \in 0..255
    /\ logBufferSize \in {0, LogSize} /\ lost \in BOOLEAN
    /\ logBuffer \in Seq(1..255) /\ Len(logBuffer) <= logBufferSize
    /\ logBufferLine \in 0..MaxLogLines
    /\ written \in Seq(1..255)

\* init(), after the panel got its power
DisplayInit ==
    /\ buffer = {} /\ buffer_back = {} /\ panel = {}
    /\ synced = TRUE /\ ready = TRUE /\ clean = TRUE
    /\ shape = NoShape /\ before = {}
    /\ LASTCHAR = 0
    /\ logBuffer = <<>> /\ logBufferSize = 0 /\ logBufferLine = 0
    /\ written = <<>> /\ lost = FALSE

-----------------------------------------------------------------------------
(* Drawing *)

\* The characters and codes of text: the one after 0xC2, 0xC3 and 0x82 depends
\* on the byte before; other bytes above 127 mean nothing
Lookup(last, ch) ==
    CASE ch < 128                      -> ch
      [] ch >= 128 /\ last = 194       -> ch
      [] ch >= 128 /\ last = 195       -> (ch % 64) + 192
      [] ch = 172 /\ last = 130        -> 128
      [] OTHER                         -> 0
LastChar(ch) == IF ch < 128 THEN 0 ELSE ch

Utf8ascii(last, bytes) ==
    LET code(n) == Lookup(IF n = 1 THEN last ELSE LastChar(bytes[n - 1]), bytes[n])
    IN  Kept([n \in DOMAIN bytes |-> code(n)], 1..255)

\* The characters that are written are UTF-8: one byte, or a first one and others
\* that go on; the code is 0 if nothing is stored
ASSUME Utf8Assumption ==
    \A u \in DOMAIN Utf8 :
        LET bytes == Utf8[u].bytes
            code  == Utf8[u].code
        IN  /\ bytes \in Seq(1..255)
            /\ \/ Len(bytes) = 1 /\ bytes[1] < 128
               \/ /\ Len(bytes) > 1 /\ bytes[1] >= 192
                  /\ \A n \in 2..Len(bytes) : bytes[n] \in 128..191
            /\ IF bytes = <<13>> THEN code = 0
               ELSE Utf8ascii(0, bytes) = IF code = 0 THEN <<>> ELSE <<code>>

Glyphs(s) ==
    CASE s.op = "string"   -> String(s.x, s.y, Utf8ascii(LASTCHAR, s.text), s.alignment)
      [] s.op = "maxwidth" -> StringMaxWidth(s.x, s.y, s.w, Utf8ascii(LASTCHAR, s.text), s.alignment)
      [] s.op = "log"      -> LogLines(s.x, s.y, logBuffer)

Strokes(s) ==
    CASE s.op = "pixel"    -> << {<<s.x, s.y>>} >>
      [] s.op = "hline"    -> << HorizontalLine(s.x, s.y, s.w) >>
      [] s.op = "vline"    -> << VerticalLine(s.x, s.y, s.h) >>
      [] s.op = "rect"     -> Rectangle(s.x, s.y, s.w, s.h)
      [] s.op = "fill"     -> FilledRectangle(s.x, s.y, s.w, s.h)
      [] s.op = "line"     -> Line(s.x, s.y, s.w, s.h)
      [] s.op = "circle"   -> Circle(s.x, s.y, s.w)
      [] s.op = "quads"    -> CircleQuads(s.x, s.y, s.w, s.h)
      [] s.op = "disc"     -> FilledCircle(s.x, s.y, s.w)
      [] s.op = "bar"      -> ProgressBar(s.x, s.y, s.w, s.h, s.progress)
      [] s.op = "image"    -> << Image(s.x, s.y, Picture) >>
      [] s.op = "xbm"      -> << Xbm(s.x, s.y, Picture) >>
      [] s.op \in {"string", "maxwidth", "log"} -> GlyphStrokes(Glyphs(s))

Draw(s, color) ==
    LET c == IF s.op = "bar" THEN "WHITE" ELSE color
    IN  /\ shape.what \in Backgrounds \union {Nothing}
        /\ before' = buffer
        /\ \E strokes \in {Strokes(s)} :
              /\ buffer' = Painted(buffer, c, strokes)
              /\ shape' = [op |-> s.op, what |-> s, color |-> c,
                           pixels |-> UNION Range(strokes)]
        /\ synced' = FALSE
        /\ LASTCHAR' = IF s.op \in {"string", "maxwidth"} THEN LastChar(Last(s.text))
                       ELSE LASTCHAR
        /\ UNCHANGED <<panelVars, logBuffer, logBufferSize, logBufferLine, written, lost>>

Clear ==
    /\ buffer' = {}
    /\ shape' = NoShape /\ before' = {}
    /\ synced' = FALSE
    /\ UNCHANGED <<panelVars, logVars>>

-----------------------------------------------------------------------------
(* The panel *)

\* Bytes are compared, and a box round all that differ is sent
Differs(p) == \E y \in Rows : /\ Page(y) = Page(p[2])
                              /\ (<<p[1], y>> \in buffer) # (<<p[1], y>> \in buffer_back)
Box ==
    LET changed == {p \in Screen : Differs(p)}
        columns == {p[1] : p \in changed}
        pages   == {Page(p[2]) : p \in changed}
        within(n, set) == (\E m \in set : m <= n) /\ (\E m \in set : n <= m)
    IN  {p \in Screen : within(p[1], columns) /\ within(Page(p[2]), pages)}

\* What is sent of the box, to a panel that is on
Sent(box) == IF ready THEN (panel \ box) \union (buffer \intersect box) ELSE panel

\* Mutant: what was sent is not remembered.
display_NoCopy ==
    /\ \E box \in {Box} : panel' = Sent(box)
    /\ synced' = TRUE
    /\ UNCHANGED <<buffer, buffer_back, shape, before, ready, clean, logVars>>

display ==
    /\ buffer_back' = buffer
    /\ \E box \in {Box} : panel' = Sent(box)
    /\ synced' = TRUE
    /\ UNCHANGED <<buffer, shape, before, ready, clean, logVars>>

\* Pages are lost: those that arrive fill the box from its first page on
DisplayFails ==
    LET rank(q, set) == Cardinality({r \in set : r < q})
    IN  \E box \in {Box} : \E pages \in {{Page(p[2]) : p \in box}} :
        \E got \in (SUBSET pages) \ {pages} :
        LET sent(p) == {<<p[1], 8 * q + (p[2] % 8)>> : q \in
                          {r \in got : rank(r, got) = rank(Page(p[2]), pages)}}
        IN  /\ buffer_back' = buffer
            /\ panel' = {p \in Screen : IF ready /\ p \in box /\ sent(p) # {}
                                        THEN sent(p) \subseteq buffer ELSE p \in panel}
            /\ synced' = TRUE /\ clean' = FALSE
            /\ UNCHANGED <<buffer, shape, before, ready, logVars>>

\* The panel loses its power, and is off when it has it again
PanelRestarts ==
    /\ panel' = {} /\ ready' = FALSE /\ clean' = FALSE
    /\ UNCHANGED <<buffer_back, bufferVars, logVars>>

\* resetDisplay(): the copy is filled with ones, which differ from a cleared
\* buffer in every byte; a panel that is not on stays dark
BlankPanel(on) ==
    /\ buffer' = {} /\ buffer_back' = {} /\ panel' = {}
    /\ synced' = TRUE /\ ready' = on /\ clean' = on
    /\ shape' = NoShape /\ before' = {}

ResetDisplay == BlankPanel(ready) /\ UNCHANGED logVars

-----------------------------------------------------------------------------
(* The log *)

Room(log) == Len(log.text) < LogSize /\ log.lines < MaxLogLines

\* Mutant: the lines are counted down but their text stays.
MakeRoom_KeepsText(log) ==
    [log EXCEPT !.lines = IF @ = MaxLogLines THEN @ - 1 ELSE @,
                !.text  = IF Len(@) = LogSize THEN Tail(@) ELSE @]

\* A log without room gives up its first line, or all of itself if it is full
\* and has no line that ended
MakeRoom(log) ==
    LET ends  == {n \in DOMAIN log.text : log.text[n] = Newline}
        first == CHOOSE n \in ends : \A m \in ends : n <= m
    IN  [log EXCEPT !.lines = IF @ = MaxLogLines THEN @ - 1 ELSE @,
                    !.text  = IF ends # {} THEN SubSeq(@, first + 1, Len(@))
                              ELSE IF Len(@) = LogSize THEN <<>> ELSE @]

Stored(log, c) ==
    [log EXCEPT !.text = Append(@, c), !.lines = IF c = Newline THEN @ + 1 ELSE @]

\* write() calls itself with the code it has looked up, which is looked up again
\* and, if it is not ASCII, means nothing then
StoredAgain(log, c) ==
    LET room == [MakeRoom(log) EXCEPT !.last = LastChar(c)]
        code == Lookup(log.last, c)
    IN  IF code = 0 THEN [room EXCEPT !.lost = TRUE] ELSE Stored(room, code)

\* write() of a byte.  A carriage return is dropped before the lookup sees it
WriteByte(log, b) ==
    LET c    == Lookup(log.last, b)
        seen == [log EXCEPT !.last = LastChar(b)]
    IN  IF b = 13 THEN log
        ELSE IF c = 0 THEN seen
        ELSE IF Room(log) THEN Stored(seen, c)
        ELSE StoredAgain(seen, c)

\* A character, byte by byte: the log after the first n
Writes(log, bytes) ==
    LET writes[n \in 0..Len(bytes)] ==
            IF n = 0 THEN log ELSE WriteByte(writes[n - 1], bytes[n])
    IN  writes

Write(u) ==
    LET bytes == Utf8[u].bytes
        log   == Writes([text |-> logBuffer, lines |-> logBufferLine, last |-> LASTCHAR,
                         lost |-> lost], bytes)[Len(bytes)]
    IN  /\ logBufferSize > 0
        /\ Len(written) < MaxWritten
        /\ logBuffer' = log.text
        /\ logBufferLine' = log.lines
        /\ LASTCHAR' = log.last
        /\ lost' = log.lost
        /\ written' = IF Utf8[u].code = 0 THEN written ELSE Append(written, Utf8[u].code)
        /\ UNCHANGED <<panelVars, bufferVars, logBufferSize>>

EmptyLog(size) ==
    /\ logBufferSize' = size
    /\ logBuffer' = <<>> /\ logBufferLine' = 0
    /\ written' = <<>> /\ lost' = (LASTCHAR \in {194, 195})
    /\ UNCHANGED LASTCHAR

SetLogBuffer == EmptyLog(LogSize) /\ UNCHANGED <<panelVars, bufferVars>>

\* init() forgets the log, sends the panel its commands and resets the display
init == EmptyLog(0) /\ BlankPanel(TRUE)

PanelNext == display \/ DisplayFails \/ PanelRestarts \/ ResetDisplay
LogNext   == init \/ SetLogBuffer \/ \E u \in DOMAIN Utf8 : Write(u)
DisplayNext ==
    \/ \E s \in Shapes, color \in Colors : Draw(s, color)
    \/ Clear
    \/ PanelNext
    \/ LogNext

DisplaySpec == DisplayInit /\ [][DisplayNext]_displayVars

-----------------------------------------------------------------------------
(* Properties *)

Drawn(color, pixels) == buffer = Painted(before, color, << pixels >>)

\* Straight lines and rectangles set the pixels of the screen that lie in them,
\* however far they stick out; the frame's corners, drawn twice, are excepted
\* when a colour turns pixels over.
StraightLines ==
    LET s == shape.what
        inside(x, y, w, h) == {p \in Screen : /\ x <= p[1] /\ p[1] < x + w
                                              /\ y <= p[2] /\ p[2] < y + h}
    IN  CASE shape.op = "hline" -> Drawn(shape.color, inside(s.x, s.y, s.w, 1))
          [] shape.op = "vline" -> Drawn(shape.color, inside(s.x, s.y, 1, s.h))
          [] shape.op = "fill"  -> Drawn(shape.color, inside(s.x, s.y, s.w, s.h))
          [] shape.op = "rect" /\ shape.color # "INVERSE" /\ s.w > 0 /\ s.h > 0 ->
                Drawn(shape.color, inside(s.x, s.y, s.w, s.h) \
                                   inside(s.x + 1, s.y + 1, s.w - 2, s.h - 2))
          [] OTHER -> TRUE

\* A sloping line is connected from end to end, has one pixel in each step of
\* its longer axis, and none is further than half a pixel from the true line.
SlopingLines ==
    shape.op = "line" =>
        LET s  == shape.what
            w  == s.w - s.x
            h  == s.h - s.y
            long == AtLeast(Abs(w), Abs(h))
            pixels == shape.pixels
        IN  /\ Drawn(shape.color, pixels)
            /\ {<<s.x, s.y>>, <<s.w, s.h>>} \subseteq pixels
            /\ Cardinality(pixels) = long + 1
            /\ \A p \in pixels : 2 * Abs((p[1] - s.x) * h - (p[2] - s.y) * w) <= long

\* No pixel of a circle of a radius of at least 1 is further than half a pixel
\* from the true one; its four quadrants make it up; its disc lies within it; and
\* a progress bar of at least four rows, and not narrower than high, lies within
\* the frame of its size and one pixel more.
RoundShapes ==
    LET s == shape.what
        pixels == shape.pixels
        near(p, n) == (p[1] - s.x) * (p[1] - s.x) + (p[2] - s.y) * (p[2] - s.y) <= (n * n) \div 4
        circle == UNION Range(Circle(s.x, s.y, s.w))
    IN  CASE shape.op = "circle" /\ s.w > 0 ->
                \A p \in pixels : near(p, 2 * s.w + 1) /\ ~near(p, 2 * s.w - 1)
          [] shape.op = "quads" /\ s.w > 0 ->
                /\ pixels \subseteq circle
                /\ s.h = 1..4 => pixels = circle
          [] shape.op = "disc" /\ s.w > 0 -> \A p \in pixels : near(p, 2 * s.w + 1)
          [] shape.op = "bar" /\ s.h >= 4 /\ s.w >= s.h ->
                \A p \in pixels : /\ s.x <= p[1] /\ p[1] <= s.x + s.w
                                  /\ s.y <= p[2] /\ p[2] <= s.y + s.h
          [] OTHER -> TRUE

\* An image that does not start above the screen, or starts there on a page, is
\* drawn as it is, cut off at the edges.
Images ==
    shape.op \in {"image", "xbm"} /\ (shape.what.y >= 0 \/ shape.what.y % 8 = 0) =>
        Drawn(shape.color, {<<shape.what.x + p[1], shape.what.y + p[2]>> : p \in Picture})

\* Text that is wrapped keeps all its characters but spaces and dashes, in order,
\* and no line is longer than was asked, if it begins with a word and every word
\* fits in a line.
Wrapping ==
    shape.op = "maxwidth" =>
        LET s      == shape.what
            text   == Utf8ascii(0, s.text)
            lines  == Wrapped(text, s.w)
            words(t) == Kept(t, (1..255) \ {Space, Dash})
            starts == {n \in 1..Len(text) + 1 : n = 1 \/ text[n - 1] \in {Space, Dash}}
            fits   == text[1] \notin {Space, Dash} /\ \A n \in starts, m \in 1..Len(text) :
                        (\A k \in n..m : text[k] \notin {Space, Dash})
                            => TextWidth(SubSeq(text, n, m)) < s.w
        IN  fits => /\ words(Joined([n \in DOMAIN lines |-> lines[n].text])) = words(text)
                    /\ \A n \in DOMAIN lines : TextWidth(lines[n].text) <= s.w

\* display() makes the panel show the buffer, although it sends only what it takes
\* to have changed, as long as no transfer has failed since the display was reset and
\* the panel had its power since init().
PanelShowsBuffer == synced /\ clean => panel = buffer

\* Why: the copy is what was sent last, and what the panel then got.
CopyIsPanel ==
    /\ buffer \subseteq Screen /\ buffer_back \subseteq Screen
    /\ synced => buffer = buffer_back
    /\ clean => ready /\ panel = buffer_back

\* After display() the panel shows what was drawn, through any sequence of drawing,
\* lost transfers and resets.
PanelInv == PanelShowsBuffer /\ CopyIsPanel

\* The log holds the last characters that were written, decoded, none missing in
\* between but such that are not ASCII and were written when it was full, and
\* no more lines than it may have; the newest is always there.
LogIsRecent ==
    LET ascii(text) == Kept(text, 1..127)
    IN  /\ IsSuffix(ascii(logBuffer), ascii(written))
        /\ ~lost => /\ IsSuffix(logBuffer, written)
                    /\ written # <<>> => logBuffer # <<>>
        /\ Len(Kept(logBuffer, {Newline})) <= MaxLogLines

\* All that the font has of the log is drawn, if the log's last line ends in a newline
\* or is the only one, and all its lines are on the screen; drawStringInternal()
\* compares their y with the width.
LogDrawn ==
    LET s == shape.what
        shown == /\ shape.op = "log"
                 /\ s.x \in 0..Width /\ s.y \in 0..Width - (MaxLogLines - 1) * LineHeight
                 /\ Newline \in Range(logBuffer) => Last(logBuffer) = Newline
        placed == Glyphs(s)
    IN  shown => [n \in DOMAIN placed |-> placed[n].char] = Printable(logBuffer)

\* Everything that can be drawn is where it should be, and nowhere else.
ShapesRight == StraightLines /\ SlopingLines /\ RoundShapes /\ Images /\ Wrapping

\* Through every overflow of its lines and characters the log keeps the newest of
\* what was written, and what it keeps is drawn.
LogRight == DisplayTypeOK /\ LogIsRecent /\ LogDrawn

=============================================================================
