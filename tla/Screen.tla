------------------------------- MODULE Screen -------------------------------
(***************************************************************************)
(* Frames on a terminal.  The worker reads the terminal's size, builds a   *)
(* frame for it and writes it; the terminal may be resized between the     *)
(* two, and the frame then lands on a terminal it was not laid out for.    *)
(* The cells of the terminal are state here, because a frame starts at the *)
(* home cell and overwrites: what it does not overwrite stays.             *)
(*                                                                         *)
(* The terminal is external: an ANSI terminal as the renderer uses it      *)
(* (home, CR LF, erase to end of line).  A row that fills the last column  *)
(* leaves the cursor there, and the next byte starts a new line; a line    *)
(* feed on the last row scrolls.                                           *)
(***************************************************************************)
EXTENDS Renderer

CONSTANTS
    Stale,          \* what a cell shows that no frame has painted since a resize
    Sizes,          \* the sizes the terminal may have
    Displays,       \* bound: what frames are built from: text, cycles, buffer, message
    Partial         \* bound: those among them whose frames are dropped part way

ASSUME ScreenSizesAssumption ==
    \A s \in Sizes : s.rows \in Nat \ {0} /\ s.cols \in Nat \ {0}

ASSUME PartialAssumption == Partial \subseteq Displays

\* A text, a typed line and a message are finite sequences.
ASSUME DisplaysAssumption ==
    \A x \in Displays :
        /\ DOMAIN x = {"text", "cycles", "buffer", "message"} /\ x.cycles \in Nat
        /\ \A part \in {"text", "buffer", "message"} : x[part] \in Seq(Range(x[part]))

NoDisplay == [text |-> <<>>, cycles |-> 0, buffer |-> <<>>, message |-> <<>>]

VARIABLES
    phase,          \* the worker: "size" before it reads the size, "frame" before it builds
    size,           \* the size it read
    termSize,       \* the size of the terminal
    cells,          \* the terminal: a row is a sequence of symbols
    d,              \* what the last frame written since the last resize was built from
    painted         \* history: the size of the last frame written since the last resize

vars == <<phase, size, termSize, cells, d, painted>>

NoSize == [rows |-> 0, cols |-> 0]

StaleCells(s) == [r \in 1 .. s.rows |-> [c \in 1 .. s.cols |-> Stale]]

----------------------------------------------------------------------------
\* The terminal.

\* The lines of the terminal that one row of a frame takes.
Wrapped(row, cols) ==
    IF row = <<>> THEN << <<>> >>
    ELSE [k \in 1 .. (Len(row) + cols - 1) \div cols |->
             SubSeq(row, (k - 1) * cols + 1, Smaller(k * cols, Len(row)))]

\* The cells after rows were written from the home cell on.  With more lines than
\* rows the terminal scrolls.  A whole frame ends with an erase to the end of line.
AfterWrite(old, rows, whole, s) ==
    LET lines    == FlattenSeq([r \in 1 .. Len(rows) |-> Wrapped(rows[r], s.cols)])
        scrolled == IF Len(lines) > s.rows THEN Len(lines) - s.rows ELSE 0
        cursor   == Smaller(Len(Last(lines)) + 1, s.cols)
        Cell(v, c) == IF whole /\ v = Len(lines) /\ c >= cursor THEN Blank
                      ELSE IF v <= Len(lines) /\ c <= Len(lines[v]) THEN lines[v][c]
                      ELSE IF v <= s.rows THEN old[v][c] ELSE Blank
    IN  [r \in 1 .. s.rows |-> [c \in 1 .. s.cols |-> Cell(r + scrolled, c)]]

Resize(s) ==
    /\ s # termSize
    /\ termSize' = s
    /\ cells' = StaleCells(s)
    /\ d' = NoDisplay
    /\ painted' = NoSize
    /\ UNCHANGED <<phase, size>>

----------------------------------------------------------------------------
\* The worker: Scheduler::tick().

ReadSize ==
    /\ phase = "size"
    /\ size' = termSize
    /\ phase' = "frame"
    /\ UNCHANGED <<termSize, cells, d, painted>>

\* The frame is built for the size that was read and written to the terminal there is.
Draw(x) ==
    /\ phase = "frame"
    /\ d' = x
    /\ cells' = AfterWrite(cells, BuildFrame(x, size.rows, size.cols), TRUE, termSize)
    /\ painted' = size
    /\ phase' = "size"
    /\ UNCHANGED <<size, termSize>>

\* The console refuses the rest of the frame after n rows, and the frame is dropped.
DrawPart(x, n) ==
    /\ phase = "frame"
    /\ d' = NoDisplay
    /\ cells' = AfterWrite(cells, SubSeq(BuildFrame(x, size.rows, size.cols), 1, n), FALSE, termSize)
    /\ painted' = NoSize
    /\ phase' = "size"
    /\ UNCHANGED <<size, termSize>>

Init ==
    /\ phase = "size" /\ size = NoSize /\ d = NoDisplay /\ painted = NoSize
    /\ termSize \in Sizes
    /\ cells = StaleCells(termSize)

Next ==
    \/ ReadSize
    \/ \E x \in Displays : Draw(x)
    \/ \E x \in Partial, n \in 1 .. size.rows - 1 : DrawPart(x, n)
    \/ \E s \in Sizes : Resize(s)

Spec == Init /\ [][Next]_vars

----------------------------------------------------------------------------
\* Properties.

\* No frame indexes a row it does not have, and no part of it overwrites another:
\* the row arithmetic of buildFrame() on every height and number of message lines.
LayoutFits ==
    size # NoSize =>
        LET blocks == Blocks(d, size.rows, size.cols)
        IN  /\ \A k \in DOMAIN blocks : Covered(blocks[k]) \subseteq 1 .. size.rows
            /\ \A j, k \in DOMAIN blocks : j # k => Covered(blocks[j]) \cap Covered(blocks[k]) = {}

Fresh == painted = termSize

\* A frame laid out for the terminal's size replaces all of what the terminal
\* showed, a frame dropped part way and a torn and scrolled one for another size
\* included: every cell is the frame's, nothing is stale, nothing scrolled away.
ScreenIsTheFrame ==
    Fresh => LET frame == BuildFrame(d, termSize.rows, termSize.cols)
             IN  cells = [r \in 1 .. termSize.rows |-> PadOrClip(frame[r], termSize.cols)]

\* From two rows on the band is on the screen, from two columns on the prompt is,
\* and the newest typed symbol as soon as there is a column for it.
BandAndPromptAreVisible ==
    Fresh =>
        LET bottom == cells[termSize.rows]
            beside == Len(Prompt) + 2
        IN  /\ termSize.rows >= 2 => \E r \in 1 .. termSize.rows - 1 :
                   cells[r] = PadOrClip(<<Blank>> \o Band(d, termSize.cols), termSize.cols)
            /\ termSize.cols >= 2 => bottom[1] = Prompt[1]
            /\ termSize.cols > beside /\ d.buffer # <<>> =>
                   \E c \in beside .. termSize.cols - 1 :
                       bottom[c] = Last(d.buffer) /\ (c < termSize.cols - 1 => bottom[c + 1] = Blank)

\* Messages win over fixed text: the newest lines of the message stand above the
\* prompt, in order, as many as there are rows between the band and the prompt.
MessageBeforeChrome ==
    Fresh =>
        LET lines == SplitLines(d.message)
            free  == termSize.rows - 1 - BandRow(termSize.rows)
        IN  \A i \in 1 .. Smaller(Len(lines), free) :
                cells[termSize.rows - i] = PadOrClip(lines[Len(lines) - i + 1], termSize.cols)

\* One rendered frame later the band has moved by one column to the left, also
\* where the text leaves the band and where the count wraps: what is new comes in
\* at the right edge only.
BandScrollsByOne ==
    [][ /\ Fresh /\ Fresh' /\ d' = [d EXCEPT !.cycles = @ + 1]
        /\ termSize' = termSize /\ termSize.rows >= 2
        => \A c \in 2 .. 1 + BandWidthFor(termSize.cols) - 1 :
               cells'[BandRow(termSize.rows)][c] = cells[BandRow(termSize.rows)][c + 1] ]_vars

=============================================================================
