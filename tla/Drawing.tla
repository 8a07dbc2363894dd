------------------------------ MODULE Drawing ------------------------------
(***************************************************************************)
(* What the drawing operations of OLED_SSD1306/OLEDDisplay.cpp set: each   *)
(* is a sequence of strokes, sets of pixels that are set together.  A      *)
(* stroke may leave the screen; only what is on it counts.                 *)
(***************************************************************************)
EXTENDS Integers, Sequences, FiniteSets, SequencesExt

CONSTANTS
    Width, Height,   \* the size of the display, in pixels
    Picture,         \* the pixels of an image, from <<0, 0>>
    Glyph,           \* the pixels of each character of the font
    CharWidth,       \* and its width
    LineHeight,      \* the height of the font
    FirstChar        \* its first character

ASSUME DisplayAssumption ==
    /\ Width \in 1..128
    /\ Height \in 1..64
    /\ Height % 8 = 0
    /\ Picture \subseteq Nat \X Nat

Newline == 10
Space   == 32
Dash    == 45

\* The fonts begin with the space; before it, a width is whatever is read there
ASSUME FontAssumption ==
    /\ FirstChar \in Newline + 1..Space
    /\ CharWidth \in [1..255 -> Nat]
    /\ LineHeight \in Nat

Columns == 0..Width - 1
Rows    == 0..Height - 1
Screen  == Columns \X Rows
Page(y) == y \div 8

AtLeast(a, b) == IF a > b THEN a ELSE b
AtMost(a, b)  == IF a < b THEN a ELSE b
Abs(n)        == AtLeast(n, -n)

\* Of a sequence: all the sequences it has, one after the other, and what it has
\* of a set
Joins(f) ==
    LET joined[n \in 0..Len(f)] == IF n = 0 THEN <<>> ELSE joined[n - 1] \o f[n]
    IN  joined
Joined(f) == Joins(f)[Len(f)]

Keeps(seq, set) ==
    LET kept[n \in 0..Len(seq)] ==
            IF n = 0 THEN <<>>
            ELSE IF seq[n] \in set THEN Append(kept[n - 1], seq[n]) ELSE kept[n - 1]
    IN  kept
Kept(seq, set) == Keeps(seq, set)[Len(seq)]

\* The pixels that a colour turns over: INVERSE does it once for each stroke
Painted(buffer, color, strokes) ==
    LET times(p) == {n \in DOMAIN strokes : p \in strokes[n]}
    IN  CASE color = "WHITE" -> buffer \union {p \in Screen : times(p) # {}}
          [] color = "BLACK" -> {p \in buffer : times(p) = {}}
          [] color = "INVERSE" ->
                {p \in Screen : (p \in buffer) # (Cardinality(times(p)) % 2 = 1)}

-----------------------------------------------------------------------------
(* Straight lines *)

HorizontalLine(x, y, length) ==
    LET from == AtLeast(x, 0)
        len  == AtMost(length + AtMost(x, 0), Width - from)
    IN  IF y \in Rows THEN (from..from + len - 1) \X {y} ELSE {}

\* A column is written in bytes of eight rows: the rest of the first page,
\* whole pages, and the start of the last one
VerticalLine(x, y, length) ==
    LET from  == AtLeast(y, 0)
        len   == AtMost(length + AtMost(y, 0), Height - from)
        head  == IF from % 8 = 0 THEN 0 ELSE 8 - (from % 8)
        first == from..from + AtMost(len, head) - 1
        rest  == len - head
        whole == {r \in Rows : /\ Page(r) >= Page(from + head)
                               /\ Page(r) < Page(from + head) + rest \div 8}
        start == 8 * (Page(from + head) + rest \div 8)
        last  == start..start + (rest % 8) - 1
    IN  CASE x \notin Columns \/ len <= 0 -> {}
          [] x \in Columns /\ len > 0 /\ rest <= 0 -> {x} \X first
          [] x \in Columns /\ len > 0 /\ rest > 0 ->
                {x} \X (first \union whole \union last)

Rectangle(x, y, w, h) ==
    << HorizontalLine(x, y, w), VerticalLine(x, y, h),
       VerticalLine(x + w - 1, y, h), HorizontalLine(x, y + h - 1, w) >>

FilledRectangle(x, y, w, h) == [n \in 1..AtLeast(w, 0) |-> VerticalLine(x + n - 1, y, h)]

\* Mutant: the ends are not put in order.
Line_AsGiven(xa, ya, xb, yb) ==
    LET dx == xb - xa
        y[n \in 0..AtLeast(dx, 0)] ==
            IF n = 0 THEN ya ELSE ya + ((y[n - 1] - ya) * (yb - ya)) \div AtLeast(dx, 1)
    IN  [n \in 1..dx + 1 |-> {<<xa + n - 1, y[n - 1]>>}]

\* drawLine() from lo to hi: its second coordinate and its error after n steps
\* along the first one
Bresenham(lo, hi) ==
    LET dx == hi[1] - lo[1]
        dy == Abs(hi[2] - lo[2])
        ystep == IF lo[2] < hi[2] THEN 1 ELSE -1
        at[n \in 0..dx] ==
            IF n = 0 THEN [y |-> lo[2], err |-> dx \div 2]
            ELSE IF at[n - 1].err < dy
            THEN [y |-> at[n - 1].y + ystep, err |-> at[n - 1].err - dy + dx]
            ELSE [y |-> at[n - 1].y, err |-> at[n - 1].err - dy]
    IN  at

\* Along the axis on which the line is longer, from its lower end
Line(xa, ya, xb, yb) ==
    LET steep == Abs(yb - ya) > Abs(xb - xa)
        a  == IF steep THEN <<ya, xa>> ELSE <<xa, ya>>
        b  == IF steep THEN <<yb, xb>> ELSE <<xb, yb>>
        lo == IF a[1] > b[1] THEN b ELSE a
        hi == IF a[1] > b[1] THEN a ELSE b
        at == Bresenham(lo, hi)
    IN  [n \in 1..hi[1] - lo[1] + 1 |->
            {IF steep THEN <<at[n - 1].y, lo[1] + n - 1>> ELSE <<lo[1] + n - 1, at[n - 1].y>>}]

-----------------------------------------------------------------------------
(* Circles *)

\* The n-th point of an octant, from its axis on; point 0 is on the axis
Octant(radius) ==
    LET at[n \in 0..AtLeast(radius, 1)] ==
            IF n = 0 THEN [x |-> 0, y |-> radius, dp |-> 1 - radius]
            ELSE LET p == at[n - 1]
                 IN  IF p.dp < 0
                     THEN [x |-> p.x + 1, y |-> p.y, dp |-> p.dp + 2 * p.x + 3]
                     ELSE [x |-> p.x + 1, y |-> p.y - 1, dp |-> p.dp + 2 * p.x - 2 * p.y + 5]
    IN  at

\* Points are added up to the first one that is not below the diagonal; do ...
\* while adds one in any case
Below(p) == p.x < p.y
Diagonal(radius) ==
    CHOOSE n \in 1..AtLeast(radius, 1) :
        LET at == Octant(radius)
        IN  ~Below(at[n]) /\ \A m \in 1..n - 1 : Below(at[m])
DoWhile(radius) == LET at == Octant(radius) IN [n \in 1..Diagonal(radius) |-> at[n]]
While(radius)   == IF radius > 0 THEN DoWhile(radius) ELSE <<>>

Circle(x, y, radius) ==
    Joined([n \in DOMAIN DoWhile(radius) |->
              LET p == DoWhile(radius)[n]
              IN  << {<<x + p.x, y + p.y>>}, {<<x - p.x, y + p.y>>},
                     {<<x + p.x, y - p.y>>}, {<<x - p.x, y - p.y>>},
                     {<<x + p.y, y + p.x>>}, {<<x - p.y, y + p.x>>},
                     {<<x + p.y, y - p.x>>}, {<<x - p.y, y - p.x>>} >>])
    \o << {<<x + radius, y>>}, {<<x, y + radius>>},
          {<<x - radius, y>>}, {<<x, y - radius>>} >>

\* Quadrants are counted anticlockwise from the upper right one; an end on an
\* axis belongs to two
CircleQuads(x, y, radius, quads) ==
    LET on(q, strokes) == IF q \subseteq quads THEN strokes ELSE <<>>
    IN  Joined([n \in DOMAIN While(radius) |->
                  LET p == While(radius)[n]
                  IN  on({1}, << {<<x + p.x, y - p.y>>}, {<<x + p.y, y - p.x>>} >>) \o
                      on({2}, << {<<x - p.y, y - p.x>>}, {<<x - p.x, y - p.y>>} >>) \o
                      on({3}, << {<<x - p.y, y + p.x>>}, {<<x - p.x, y + p.y>>} >>) \o
                      on({4}, << {<<x + p.x, y + p.y>>}, {<<x + p.y, y + p.x>>} >>)])
        \o on({1, 4}, << {<<x + radius, y>>} >>) \o on({3, 4}, << {<<x, y + radius>>} >>)
        \o on({2, 3}, << {<<x - radius, y>>} >>) \o on({1, 2}, << {<<x, y - radius>>} >>)

FilledCircle(x, y, radius) ==
    Joined([n \in DOMAIN DoWhile(radius) |->
              LET p == DoWhile(radius)[n]
              IN  << HorizontalLine(x - p.x, y - p.y, 2 * p.x),
                     HorizontalLine(x - p.x, y + p.y, 2 * p.x),
                     HorizontalLine(x - p.y, y - p.x, 2 * p.y),
                     HorizontalLine(x - p.y, y + p.x, 2 * p.y) >>])
    \o << HorizontalLine(x - radius, y, 2 * radius) >>

\* drawProgressBar(), always in WHITE.  A radius below 2 wraps round and is
\* narrowed to the negative number again
ProgressBar(x, y, w, h, progress) ==
    LET radius == h \div 2
        bar    == w - 2 * radius + 1
        done   == (bar * progress) \div 100
    IN  CircleQuads(x + radius, y + radius, radius, {2, 3})
        \o << HorizontalLine(x + radius, y, bar), HorizontalLine(x + radius, y + h, bar) >>
        \o CircleQuads(x + w - radius, y + radius, radius, {1, 4})
        \o FilledCircle(x + radius, y + radius, radius - 2)
        \o FilledRectangle(x + radius + 1, y + 2, done, h - 3)
        \o FilledCircle(x + radius + done, y + radius, radius - 2)

-----------------------------------------------------------------------------
(* Images and text *)

\* drawInternal(): a byte is shifted into the page it starts in and the next
\* one, if it starts on the screen
Image(x, y, image) ==
    {<<x + p[1], y + p[2]>> : p \in {q \in image :
        8 * (Page(y) + Page(q[2])) \in Rows /\ x + q[1] \in Columns}}

\* drawXbm(): pixel by pixel
Xbm(x, y, image) == {<<x + p[1], y + p[2]>> : p \in image}

\* Of the first n characters, for each n
Widths(text) ==
    LET sum[n \in 0..Len(text)] == IF n = 0 THEN 0 ELSE sum[n - 1] + CharWidth[text[n]]
    IN  sum
TextWidth(text) == Widths(text)[Len(text)]

\* getStringWidth(): the widest line; a newline counts to the line it begins
StringWidth(text) ==
    LET width[n \in 0..Len(text)] ==
            IF n = 0 THEN 0
            ELSE CharWidth[text[n]] + IF text[n] = Newline THEN 0 ELSE width[n - 1]
    IN  CHOOSE w \in {width[n] : n \in 0..Len(text)} :
            \A n \in 0..Len(text) : width[n] <= w

\* Those that the font has
Printable(text) == Kept(text, FirstChar..255)

\* drawStringInternal(): where its characters go; those before the font's first
\* are passed over
Placed(x, y, string, alignment, width) ==
    LET text == Printable(string)
        left == CASE alignment \in {"CENTER", "CENTER_BOTH"} -> x - width \div 2
                  [] alignment = "RIGHT" -> x - width
                  [] alignment = "LEFT" -> x
        top  == IF alignment = "CENTER_BOTH" THEN y - LineHeight \div 2 ELSE y
    IN  IF left + width < 0 \/ left > Width \/ top + LineHeight < 0 \/ top > Width
        THEN <<>>
        ELSE [n \in DOMAIN text |->
                [char |-> text[n], y |-> top,
                 x |-> left + TextWidth(SubSeq(text, 1, n - 1))]]

\* Newlines separate the lines of drawString(); empty ones are skipped
Lines(text) ==
    LET split[n \in 0..Len(text)] ==
            IF n = 0 THEN << <<>> >>
            ELSE IF text[n] = Newline THEN Append(split[n - 1], <<>>)
            ELSE Append(Front(split[n - 1]), Append(Last(split[n - 1]), text[n]))
    IN  SelectSeq(split[Len(text)], LAMBDA line : line # <<>>)

String(x, y, text, alignment) ==
    LET breaks == Len(Kept(text, {Newline}))
        above  == IF alignment = "CENTER_BOTH" THEN (breaks * LineHeight) \div 2 ELSE 0
    IN  Joined([n \in DOMAIN Lines(text) |->
                  Placed(x, y - above + (n - 1) * LineHeight, Lines(text)[n],
                         alignment, TextWidth(Lines(text)[n]))])

\* Where a line that is too long ends: at its last space or dash, or, if it has
\* none, at the character that is too much
BreakAt(point, i, width) == IF point[1] = 0 THEN <<i, width>> ELSE point

\* drawStringMaxWidth(): the character at which a line ends is not drawn.
\* Positions are counted from 0, and 0 means that there is no break point
Scan(text, maxLineWidth, s) ==
    LET c     == text[s.i + 1]
        width == s.width + CharWidth[c]
        point == IF c \in {Space, Dash} THEN <<s.i, width>> ELSE s.point
        at    == BreakAt(point, s.i, width)
    IN  IF width >= maxLineWidth
        THEN [i |-> s.i + 1, width |-> width - at[2], point |-> <<0, at[2]>>,
              from |-> at[1] + 1,
              lines |-> Append(s.lines, [text |-> SubSeq(text, s.from + 1, at[1]),
                                         width |-> at[2]])]
        ELSE [s EXCEPT !.i = @ + 1, !.width = width, !.point = point]

\* After its first n characters, for each n
Scanned(text, maxLineWidth) ==
    LET scan[n \in 0..Len(text)] ==
            IF n = 0
            THEN [i |-> 0, width |-> 0, point |-> <<0, 0>>, from |-> 0, lines |-> <<>>]
            ELSE Scan(text, maxLineWidth, scan[n - 1])
    IN  scan

Wrapped(text, maxLineWidth) ==
    LET end  == Scanned(text, maxLineWidth)[Len(text)]
        left == SubSeq(text, end.from + 1, Len(text))
    IN  IF left = <<>> THEN end.lines
        ELSE Append(end.lines, [text |-> left, width |-> StringWidth(left)])

StringMaxWidth(x, y, maxLineWidth, text, alignment) ==
    LET lines == Wrapped(text, maxLineWidth)
    IN  Joined([n \in DOMAIN lines |->
                  Placed(x, y + (n - 1) * LineHeight, lines[n].text,
                         alignment, lines[n].width)])

\* drawLogBuffer(): a line after the first begins with the newline before it,
\* so the last one, which has none at its end, is one character short.  After n
\* characters
LogSplit(log) ==
    LET split[n \in 0..Len(log)] ==
            IF n = 0 THEN [lines |-> <<>>, from |-> 1, length |-> 0]
            ELSE LET s == split[n - 1]
                 IN  IF log[n] = Newline
                     THEN [lines |-> Append(s.lines, SubSeq(log, s.from, s.from + s.length)),
                           from |-> n, length |-> 0]
                     ELSE [s EXCEPT !.length = @ + 1]
    IN  split

LogLines(x, y, log) ==
    LET end == LogSplit(log)[Len(log)]
        all == Append(end.lines, SubSeq(log, end.from, end.from + end.length - 1))
    IN  Joined([n \in DOMAIN all |-> Placed(x, y + (n - 1) * LineHeight, all[n], "LEFT", 0)])

GlyphStrokes(placed) ==
    [n \in DOMAIN placed |-> Image(placed[n].x, placed[n].y, Glyph[placed[n].char])]

=============================================================================
