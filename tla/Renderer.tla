------------------------------ MODULE Renderer ------------------------------
(***************************************************************************)
(* The marquee renderer: scroll arithmetic and the layout of one frame.    *)
(* Everything here is a pure operator, as in the code; Screen writes the   *)
(* frames to a terminal.                                                   *)
(*                                                                         *)
(* A row is a sequence of symbols, one symbol per byte and per column.     *)
(* Rows and columns count from 1.  The fixed texts are constants, so that  *)
(* they can be short.                                                      *)
(***************************************************************************)
EXTENDS Integers, Sequences, FiniteSets, FiniteSetsExt, SequencesExt

CONSTANTS
    Blank, Newline,         \* the space; the byte that ends a line of a message
    Title, Heading, Version,    \* "Welcome ...", "Group developer:", "Version date: ..."
    Developers,             \* Parameters::developers, a sequence of rows
    Prompt                  \* Interpreter::prompt()

ASSUME DevelopersAssumption == Developers \in Seq(Range(Developers))
ASSUME TextsAssumption == Title # <<>> /\ Prompt # <<>> /\ Prompt \in Seq(Range(Prompt)) /\ Blank # Newline

KBandRow == 3

Smaller(a, b) == IF a < b THEN a ELSE b

----------------------------------------------------------------------------
\* Scroll arithmetic.

ScrollOffset(cycles, textWidth, bandWidth) ==
    IF textWidth + bandWidth <= 0 THEN 0 ELSE cycles % (textWidth + bandWidth)

BugWindowOneRight(text, bandWidth, offset) ==
    [col \in 1 .. bandWidth |->
        IF offset - bandWidth + col \in DOMAIN text /\ col < offset THEN text[offset - bandWidth + col] ELSE Blank]

\* sliceRow(): the text seen through the band, whose left edge is at offset - bandWidth.
SliceRow(text, bandWidth, offset) ==
    [col \in 1 .. bandWidth |->
        IF offset - bandWidth + col \in DOMAIN text THEN text[offset - bandWidth + col] ELSE Blank]

BandWidthFor(cols) == IF cols > 2 THEN cols - 2 ELSE 1

----------------------------------------------------------------------------
\* Rows.

BugClipOnly(row, cols) == SubSeq(row, 1, Smaller(cols, Len(row)))

PadOrClip(row, cols) == [col \in 1 .. cols |-> IF col \in DOMAIN row THEN row[col] ELSE Blank]

\* splitLines(): one line more than there are newlines, but none of the empty text.
SplitLines(text) ==
    LET newlines == {i \in DOMAIN text : text[i] = Newline}
        ends     == SetToSortSeq(newlines \cup {Len(text) + 1}, <)
    IN  IF text = <<>> THEN <<>>
        ELSE [k \in 1 .. Cardinality(newlines) + 1 |->
                 SubSeq(text, IF k = 1 THEN 1 ELSE ends[k - 1] + 1, ends[k] - 1)]

BugOldest(s, n) == SubSeq(s, 1, Smaller(n, Len(s)))

\* The end of a sequence, at most n of it.
Newest(s, n) == SubSeq(s, Len(s) - Smaller(n, Len(s)) + 1, Len(s))

\* The part of the buffer that the prompt row shows.
VisibleSlice(buffer, width) == IF width <= 0 THEN <<>> ELSE Newest(buffer, width)

PromptRow(buffer, cols) ==
    PadOrClip(Prompt \o <<Blank>> \o VisibleSlice(buffer, cols - 1 - Len(Prompt) - 1), cols - 1)

----------------------------------------------------------------------------
\* The vertical layout, from the number of rows and of message lines.

BandRow(rows) == IF rows >= KBandRow + 1 THEN KBandRow ELSE IF rows >= 2 THEN rows - 1 ELSE 0

BugBudgetWithoutPrompt(rows) == IF BandRow(rows) > 0 THEN rows - BandRow(rows) ELSE 0

MessageBudget(rows) == IF BandRow(rows) > 0 THEN rows - BandRow(rows) - 1 ELSE 0

MessageCount(rows, lines) == Smaller(lines, MessageBudget(rows))

BlockTop(rows, lines) == rows - MessageCount(rows, lines)

HasSeparator(rows, lines) == BandRow(rows) > 0 /\ BlockTop(rows, lines) - 1 > BandRow(rows)

Chrome == << <<>>, Heading >> \o Developers \o << <<>>, Version >>

ChromeTop(rows) == BandRow(rows) + 1

\* Rows left between the band and what is anchored at the bottom.
Capacity(rows, lines) ==
    LET last == BlockTop(rows, lines) - (IF HasSeparator(rows, lines) THEN 2 ELSE 1)
    IN  IF last < ChromeTop(rows) THEN 0 ELSE last - ChromeTop(rows) + 1

ChromeCount(rows, lines) == Smaller(Len(Chrome), Capacity(rows, lines))

----------------------------------------------------------------------------
\* buildFrame().  d is what the scheduler hands over: the text and the cycles of
\* the marquee, the edited line, the last message.

Block(top, lines) == [top |-> top, lines |-> lines]

Covered(block) == block.top .. (block.top + Len(block.lines)) - 1

Band(d, cols) ==
    SliceRow(d.text, BandWidthFor(cols), ScrollOffset(d.cycles, Len(d.text), BandWidthFor(cols)))

\* What is assigned to rows of the frame, in the order of the assignments.
Blocks(d, rows, cols) ==
    LET lines == SplitLines(d.message)
        band  == BandRow(rows)
    IN  << Block(band, IF band > 0 THEN << <<Blank>> \o Band(d, cols) \o <<Blank>> >> ELSE <<>>),
           Block(1, IF band >= 2 THEN <<Title>> ELSE <<>>),
           Block(ChromeTop(rows), SubSeq(Chrome, 1, ChromeCount(rows, Len(lines)))),
           Block(BlockTop(rows, Len(lines)), Newest(lines, MessageBudget(rows))),
           Block(rows, <<PromptRow(d.buffer, cols)>>) >>

\* The last row stops one cell short of the corner.
CornerRow(row, cols) == PadOrClip(row, cols - 1)

\* The rows of the frame; the empty frame when there is no terminal to speak of.
BuildFrame(d, rows, cols) ==
    LET blocks  == Blocks(d, rows, cols)
        Line(r) == LET over == {k \in DOMAIN blocks : r \in Covered(blocks[k])}
                   IN  IF over = {} THEN <<>> ELSE blocks[Max(over)].lines[r - blocks[Max(over)].top + 1]
    IN  IF rows <= 0 \/ cols <= 0 THEN <<>>
        ELSE [r \in 1 .. rows |-> IF r = rows THEN CornerRow(Line(r), cols) ELSE PadOrClip(Line(r), cols)]

=============================================================================
