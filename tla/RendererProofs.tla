--------------------------- MODULE RendererProofs ---------------------------
(***************************************************************************)
(* The renderer and what its frames leave on a terminal, for every size,   *)
(* text, typed line and message, however the terminal is resized and       *)
(* wherever the console refuses the rest of a frame.                       *)
(***************************************************************************)
EXTENDS Screen, SequenceLemmas, FiniteSetTheorems

----------------------------------------------------------------------------
\* The vertical layout.

\* The rows buildFrame() computes are in order on every terminal and for every
\* number of message lines: band, fixed text, message, prompt.
LEMMA LayoutIsOrdered ==
    ASSUME NEW rows \in Nat \ {0}, NEW lines \in Nat
    PROVE  /\ BandRow(rows) \in 0 .. rows - 1
           /\ MessageCount(rows, lines) \in 0 .. rows - 1 - BandRow(rows)
           /\ MessageCount(rows, lines) = Smaller(MessageBudget(rows), lines)
           /\ MessageBudget(rows) \in Nat
           /\ BlockTop(rows, lines) \in BandRow(rows) + 1 .. rows
           /\ Capacity(rows, lines) \in Nat
           /\ ChromeTop(rows) + Capacity(rows, lines) <= BlockTop(rows, lines)
<1>1. /\ BandRow(rows) \in 0 .. rows - 1
      /\ BandRow(rows) = 0 => rows = 1
    BY DEF BandRow, KBandRow
<1>2. /\ MessageBudget(rows) \in Nat
      /\ MessageBudget(rows) = rows - 1 - BandRow(rows)
    BY <1>1 DEF MessageBudget
<1>3. /\ MessageCount(rows, lines) \in 0 .. rows - 1 - BandRow(rows)
      /\ MessageCount(rows, lines) = Smaller(MessageBudget(rows), lines)
    BY <1>1, <1>2 DEF MessageCount, Smaller
<1>4. BlockTop(rows, lines) \in BandRow(rows) + 1 .. rows
    BY <1>1, <1>3 DEF BlockTop
<1>5. /\ Capacity(rows, lines) \in Nat
      /\ ChromeTop(rows) + Capacity(rows, lines) <= BlockTop(rows, lines)
    BY <1>1, <1>4 DEF Capacity, ChromeTop, HasSeparator
<1> QED  BY <1>1, <1>2, <1>3, <1>4, <1>5

\* The lines of a message are a sequence.
LEMMA SplitLinesIsSequence ==
    ASSUME NEW text, Len(text) \in Nat, DOMAIN text = 1 .. Len(text)
    PROVE  \E S : SplitLines(text) \in Seq(S)
<1> DEFINE newlines == {i \in DOMAIN text : text[i] = Newline}
<1>1. Cardinality(newlines) \in Nat
    <2>1. IsFiniteSet(1 .. Len(text))
        BY FS_Interval
    <2>2. IsFiniteSet(newlines)
        BY <2>1, FS_Subset
    <2> QED  BY <2>2, FS_CardinalityType
<1>2. CASE text = <<>>
    BY <1>2 DEF SplitLines
<1>3. CASE text # <<>>
    <2> DEFINE n    == Cardinality(newlines) + 1
               ends == SetToSortSeq(newlines \cup {Len(text) + 1}, <)
               line(k) == SubSeq(text, IF k = 1 THEN 1 ELSE ends[k - 1] + 1, ends[k] - 1)
    <2>1. SplitLines(text) = [k \in 1 .. n |-> line(k)]
        BY <1>3 DEF SplitLines
    <2>2. n \in Nat
        BY <1>1
    <2> HIDE DEF n, line
    <2>3. [k \in 1 .. n |-> line(k)] \in Seq({line(k) : k \in 1 .. n})
        BY <2>2
    <2> QED  BY <2>1, <2>3
<1> QED  BY <1>2, <1>3

\* The kept end of a sequence has the length that is asked for, or its own.
LEMMA NewestLength ==
    ASSUME NEW S, NEW s \in Seq(S), NEW n \in Nat
    PROVE  /\ Newest(s, n) \in Seq(S)
           /\ Len(Newest(s, n)) = Smaller(n, Len(s))
<1>1. Len(s) \in Nat
    BY LenProperties
<1> QED  BY <1>1, SubSeqProperties DEF Newest, Smaller

\* Every part of a frame lies on rows the frame has, and no two parts share a row.
LEMMA BlocksFit ==
    ASSUME NEW rows \in Nat \ {0}, NEW cols \in Nat \ {0}, NEW x,
           Len(x.message) \in Nat, DOMAIN x.message = 1 .. Len(x.message)
    PROVE  LET blocks == Blocks(x, rows, cols)
           IN  /\ \A k \in DOMAIN blocks : Covered(blocks[k]) \subseteq 1 .. rows
               /\ \A j, k \in DOMAIN blocks :
                      j # k => Covered(blocks[j]) \cap Covered(blocks[k]) = {}
<1> DEFINE lines  == SplitLines(x.message)
           blocks == Blocks(x, rows, cols)
           band   == BandRow(rows)
           n      == Len(lines)
<1>1. PICK S : lines \in Seq(S)
    BY SplitLinesIsSequence
<1>2. n \in Nat
    BY <1>1, LenProperties
<1>3. /\ band \in 0 .. rows - 1
      /\ MessageCount(rows, n) \in 0 .. rows - 1 - band
      /\ MessageCount(rows, n) = Smaller(MessageBudget(rows), n)
      /\ MessageBudget(rows) \in Nat
      /\ BlockTop(rows, n) \in band + 1 .. rows
      /\ Capacity(rows, n) \in Nat
      /\ ChromeTop(rows) + Capacity(rows, n) <= BlockTop(rows, n)
    BY <1>2, LayoutIsOrdered
<1>4. Len(Newest(lines, MessageBudget(rows))) = MessageCount(rows, n)
    BY <1>1, <1>3, NewestLength
<1>5. /\ ChromeCount(rows, n) \in 0 .. Capacity(rows, n)
      /\ Len(SubSeq(Chrome, 1, ChromeCount(rows, n))) = ChromeCount(rows, n)
    <2>1. PICK T : Chrome \in Seq(T)
        <3> DEFINE T == Range(Developers) \cup {<<>>, Heading, Version}
        <3>1. Developers \in Seq(T)
            BY DevelopersAssumption
        <3>2. << <<>>, Heading >> \in Seq(T) /\ << <<>>, Version >> \in Seq(T)
            OBVIOUS
        <3>3. Chrome \in Seq(T)
            BY <3>1, <3>2, ConcatProperties DEF Chrome
        <3> QED  BY <3>3
    <2>2. /\ Len(Chrome) \in Nat
          /\ ChromeCount(rows, n) \in 0 .. Capacity(rows, n)
          /\ ChromeCount(rows, n) <= Len(Chrome)
        BY <1>3, <2>1, LenProperties DEF ChromeCount, Smaller
    <2> QED  BY <2>1, <2>2, <1>3, SubSeqProperties
<1> DEFINE first(k) == IF k = 1 THEN band ELSE IF k = 2 THEN 1 ELSE IF k = 3 THEN band + 1
                       ELSE IF k = 4 THEN BlockTop(rows, n) ELSE rows
           past(k)  == IF k = 1 THEN (IF band > 0 THEN band + 1 ELSE band)
                       ELSE IF k = 2 THEN (IF band >= 2 THEN 2 ELSE 1)
                       ELSE IF k = 3 THEN band + 1 + ChromeCount(rows, n)
                       ELSE IF k = 4 THEN rows ELSE rows + 1
<1> DEFINE part(k) == IF k = 1 THEN
                          IF band > 0 THEN << <<Blank>> \o Band(x, cols) \o <<Blank>> >> ELSE <<>>
                      ELSE IF k = 2 THEN (IF band >= 2 THEN <<Title>> ELSE <<>>)
                      ELSE IF k = 3 THEN SubSeq(Chrome, 1, ChromeCount(rows, n))
                      ELSE IF k = 4 THEN Newest(lines, MessageBudget(rows))
                      ELSE <<PromptRow(x.buffer, cols)>>
<1>6. blocks = <<Block(first(1), part(1)), Block(first(2), part(2)), Block(first(3), part(3)),
                 Block(first(4), part(4)), Block(first(5), part(5))>>
    BY DEF Blocks, ChromeTop
<1>7. /\ first(1) + Len(part(1)) = past(1)
      /\ first(2) + Len(part(2)) = past(2)
      /\ first(3) + Len(part(3)) = past(3)
      /\ first(4) + Len(part(4)) = past(4)
      /\ first(5) + Len(part(5)) = past(5)
    <2>1. first(1) + Len(part(1)) = past(1)
        BY <1>3
    <2>2. first(2) + Len(part(2)) = past(2)
        BY <1>3
    <2>3. first(3) + Len(part(3)) = past(3)
        BY <1>5
    <2>4. first(4) + Len(part(4)) = past(4)
        <3>1. BlockTop(rows, n) + MessageCount(rows, n) = rows
            BY <1>3 DEF BlockTop
        <3> QED  BY <3>1, <1>4
    <2>5. first(5) + Len(part(5)) = past(5)
        OBVIOUS
    <2> QED  BY <2>1, <2>2, <2>3, <2>4, <2>5
<1> HIDE DEF part
<1>8. \A k \in 1 .. 5 : Covered(blocks[k]) = first(k) .. past(k) - 1
    <2> HIDE DEF blocks, first, past
    <2>1. /\ blocks[1] = Block(first(1), part(1)) /\ blocks[2] = Block(first(2), part(2))
          /\ blocks[3] = Block(first(3), part(3)) /\ blocks[4] = Block(first(4), part(4))
          /\ blocks[5] = Block(first(5), part(5))
        BY <1>6
    <2>2. \A top, rest, limit : limit = top + Len(rest) => Covered(Block(top, rest)) = top .. limit - 1
        <3> SUFFICES ASSUME NEW top, NEW rest, NEW limit, limit = top + Len(rest)
                     PROVE  Covered(Block(top, rest)) = top .. limit - 1
            BY Zenon
        <3>1. Block(top, rest).top = top /\ Block(top, rest).lines = rest
            BY DEF Block
        <3> QED  BY <3>1, Zenon DEF Covered
    <2>3. Covered(blocks[1]) = first(1) .. past(1) - 1
        BY <1>7, <2>1, <2>2, Zenon
    <2>4. Covered(blocks[2]) = first(2) .. past(2) - 1
        BY <1>7, <2>1, <2>2, Zenon
    <2>5. Covered(blocks[3]) = first(3) .. past(3) - 1
        BY <1>7, <2>1, <2>2, Zenon
    <2>6. Covered(blocks[4]) = first(4) .. past(4) - 1
        BY <1>7, <2>1, <2>2, Zenon
    <2>7. Covered(blocks[5]) = first(5) .. past(5) - 1
        BY <1>7, <2>1, <2>2, Zenon
    <2> QED  BY <2>3, <2>4, <2>5, <2>6, <2>7
<1>9. \A k \in 1 .. 5 :
         /\ first(k) \in Int /\ past(k) \in 0 .. rows + 1
         /\ past(k) <= first(k) \/ (first(k) >= 1 /\ past(k) <= rows + 1)
    <2>1. first(1) \in Int /\ past(1) \in 0 .. rows + 1 /\ (past(1) <= first(1) \/ first(1) >= 1)
        BY <1>3
    <2>2. first(2) \in Int /\ past(2) \in 0 .. rows + 1 /\ (past(2) <= first(2) \/ first(2) >= 1)
        BY <1>3
    <2>3. first(3) \in Int /\ past(3) \in 0 .. rows + 1 /\ (past(3) <= first(3) \/ first(3) >= 1)
        BY <1>3, <1>5, SMTT(30) DEF ChromeTop
    <2>4. first(4) \in Int /\ past(4) \in 0 .. rows + 1 /\ (past(4) <= first(4) \/ first(4) >= 1)
        BY <1>3
    <2>5. first(5) \in Int /\ past(5) \in 0 .. rows + 1 /\ (past(5) <= first(5) \/ first(5) >= 1)
        OBVIOUS
    <2> HIDE DEF first, past
    <2> QED  BY <2>1, <2>2, <2>3, <2>4, <2>5, SMTT(30)
<1>10. \A j, k \in 1 .. 5 :
          j < k => \/ past(j) <= first(k) \/ past(k) <= first(j)
                   \/ past(j) <= first(j) \/ past(k) <= first(k)
    <2>1. /\ past(1) <= first(3) /\ past(2) <= first(3) /\ past(3) <= first(4) /\ past(4) <= first(5)
          /\ first(3) <= past(3) /\ first(4) <= past(4)
          /\ past(2) <= first(1) \/ past(2) <= first(2)
        BY <1>3, <1>5, SMTT(30) DEF ChromeTop
    <2>2. /\ first(1) \in Int /\ first(2) \in Int /\ first(3) \in Int /\ first(4) \in Int
          /\ first(5) \in Int /\ past(1) \in Int /\ past(2) \in Int /\ past(3) \in Int
          /\ past(4) \in Int
        BY <1>9
    <2> HIDE DEF first, past
    <2>3. /\ past(1) <= first(4) /\ past(1) <= first(5) /\ past(2) <= first(4)
          /\ past(2) <= first(5) /\ past(3) <= first(5)
        BY <2>1, <2>2, SMTT(30)
    <2> SUFFICES ASSUME NEW j \in 1 .. 5, NEW k \in 1 .. 5, j < k
                 PROVE  \/ past(j) <= first(k) \/ past(k) <= first(j)
                        \/ past(j) <= first(j) \/ past(k) <= first(k)
        OBVIOUS
    <2>4. CASE j = 1 /\ k = 2
        BY <2>1, <2>4
    <2>5. CASE k = 3
        BY <2>1, <2>5
    <2>6. CASE k = 4
        BY <2>1, <2>3, <2>6
    <2>7. CASE k = 5
        BY <2>1, <2>3, <2>7
    <2> QED  BY <2>4, <2>5, <2>6, <2>7
<1>11. DOMAIN blocks = 1 .. 5
    BY <1>6
<1> HIDE DEF blocks, first, past
<1>12. \A k \in 1 .. 5 : Covered(blocks[k]) \subseteq 1 .. rows
    <2> SUFFICES ASSUME NEW k \in 1 .. 5, NEW r \in Covered(blocks[k])
                 PROVE  r \in 1 .. rows
        OBVIOUS
    <2>1. r \in first(k) .. past(k) - 1
        BY <1>8
    <2>2. /\ first(k) \in Int /\ past(k) \in 0 .. rows + 1
          /\ past(k) <= first(k) \/ (first(k) >= 1 /\ past(k) <= rows + 1)
        BY <1>9
    <2> QED  BY <2>1, <2>2
<1>13. \A j, k \in 1 .. 5 : j # k => Covered(blocks[j]) \cap Covered(blocks[k]) = {}
    <2> SUFFICES ASSUME NEW j \in 1 .. 5, NEW k \in 1 .. 5, j # k,
                        NEW r \in Covered(blocks[j]), r \in Covered(blocks[k])
                 PROVE  FALSE
        OBVIOUS
    <2>1. r \in first(j) .. past(j) - 1 /\ r \in first(k) .. past(k) - 1
        BY <1>8
    <2>2. first(j) \in Int /\ past(j) \in Int /\ first(k) \in Int /\ past(k) \in Int
        BY <1>9, SMTT(30)
    <2>3. first(j) < past(k) /\ first(k) < past(j) /\ first(j) < past(j) /\ first(k) < past(k)
        BY <2>1, <2>2
    <2>4. CASE j < k
        BY <1>10, <2>2, <2>3, <2>4
    <2>5. CASE k < j
        BY <1>10, <2>2, <2>3, <2>5
    <2> QED  BY <2>4, <2>5
<1> QED  BY <1>11, <1>12, <1>13 DEF blocks

----------------------------------------------------------------------------
\* The state machine of Screen.

\* The size in hand is none or one that a terminal has, and what was drawn last
\* has a message.
SizeInv ==
    /\ termSize \in Sizes
    /\ size \in Sizes \cup {NoSize}
    /\ d \in Displays \cup {NoDisplay}

LEMMA SizeIsInvariant == Spec => []SizeInv
<1>1. Init => SizeInv
    BY DEF Init, SizeInv
<1>2. SizeInv /\ [Next]_vars => SizeInv'
    <2> SUFFICES ASSUME SizeInv, [Next]_vars
                 PROVE  SizeInv'
        OBVIOUS
    <2>1. CASE ReadSize
        BY <2>1 DEF ReadSize, SizeInv
    <2>2. CASE \E x \in Displays : Draw(x)
        BY <2>2 DEF Draw, SizeInv
    <2>3. CASE \E s \in Sizes : Resize(s)
        BY <2>3 DEF Resize, SizeInv
    <2>4. CASE UNCHANGED vars
        BY <2>4 DEF vars, SizeInv
    <2>5. CASE \E x \in Partial, n \in 1 .. size.rows - 1 : DrawPart(x, n)
        BY <2>5 DEF DrawPart, SizeInv
    <2> QED  BY <2>1, <2>2, <2>3, <2>4, <2>5 DEF Next
<1> QED  BY <1>1, <1>2, PTL DEF Spec

\* renderer.cpp:90-135: no frame indexes a row it does not have, and no part of a
\* frame overwrites another, on terminals of every size, for every message and
\* every list of developers.
THEOREM LayoutAlwaysFits == Spec => []LayoutFits
<1>1. SizeInv => LayoutFits
    <2> SUFFICES ASSUME SizeInv, size # NoSize
                 PROVE  LayoutFits
        BY DEF LayoutFits
    <2>1. size.rows \in Nat \ {0} /\ size.cols \in Nat \ {0}
        BY ScreenSizesAssumption DEF SizeInv
    <2>2. Len(d.message) \in Nat /\ DOMAIN d.message = 1 .. Len(d.message)
        BY DisplaysAssumption, EmptySeq, LenProperties DEF SizeInv, NoDisplay
    <2> QED  BY <2>1, <2>2, BlocksFit DEF LayoutFits
<1> QED  BY <1>1, SizeIsInvariant, PTL

----------------------------------------------------------------------------
\* The scroll arithmetic.

\* What the band shows at a position of the period, and at the next one.
LEMMA SliceShifts ==
    ASSUME NEW S, NEW text \in Seq(S), NEW width \in Nat \ {0}, NEW offset \in Nat,
           NEW next \in Nat, NEW col \in 1 .. width - 1,
           \/ next = offset + 1
           \/ next = 0 /\ offset = Len(text) + width - 1
    PROVE  SliceRow(text, width, next)[col] = SliceRow(text, width, offset)[col + 1]
<1>1. Len(text) \in Nat /\ DOMAIN text = 1 .. Len(text)
    BY LenProperties
<1>2. /\ SliceRow(text, width, next)[col] =
            IF next - width + col \in DOMAIN text THEN text[next - width + col] ELSE Blank
      /\ SliceRow(text, width, offset)[col + 1] =
            IF offset - width + col + 1 \in DOMAIN text THEN text[offset - width + col + 1] ELSE Blank
    BY DEF SliceRow
<1>3. CASE next = offset + 1
    <2>1. next - width + col = offset - width + col + 1
        BY <1>3
    <2> QED  BY <1>2, <2>1
<1>4. CASE next = 0 /\ offset = Len(text) + width - 1
    <2>1. next - width + col \notin DOMAIN text /\ offset - width + col + 1 \notin DOMAIN text
        BY <1>1, <1>4
    <2> QED  BY <1>2, <2>1
<1> QED  BY <1>3, <1>4

\* Remainders of neighbours: the next one, or zero after the greatest.
LEMMA RemainderAdvances ==
    ASSUME NEW c \in Nat, NEW p \in Nat \ {0}
    PROVE  /\ c % p \in 0 .. p - 1
           /\ \/ (c + 1) % p = (c % p) + 1
              \/ (c + 1) % p = 0 /\ c % p = p - 1
<1> DEFINE q1 == c \div p
           r1 == c % p
           q2 == (c + 1) \div p
           r2 == (c + 1) % p
           k  == q2 - q1
<1>1. /\ q1 \in Int /\ q2 \in Int
      /\ r1 \in 0 .. p - 1 /\ r2 \in 0 .. p - 1
      /\ c = p * q1 + r1
      /\ c + 1 = p * q2 + r2
    BY SMT
<1> HIDE DEF q1, r1, q2, r2
<1>2. k \in Int /\ p * k = r1 + 1 - r2
    <2>1. p * (q2 - q1) = p * q2 - p * q1
        BY <1>1, SMT
    <2> QED  BY <1>1, <2>1, SMT
<1> HIDE DEF k
<1>3. k = 0 \/ k = 1
    <2>1. CASE k >= 2
        <3>1. p * k >= p * 2
            BY <1>2, <2>1, SMT
        <3> QED  BY <1>1, <1>2, <3>1, SMT
    <2>2. CASE k <= -1
        <3>1. p * k <= p * (-1)
            BY <1>2, <2>2, SMT
        <3> QED  BY <1>1, <1>2, <3>1, SMT
    <2> QED  BY <1>2, <2>1, <2>2
<1> QED  BY <1>1, <1>2, <1>3 DEF r1, r2

\* One more cycle is the next position of the period, or its first after its last.
LEMMA OffsetAdvances ==
    ASSUME NEW cycles \in Nat, NEW textWidth \in Nat, NEW width \in Nat \ {0}
    PROVE  LET offset == ScrollOffset(cycles, textWidth, width)
               next   == ScrollOffset(cycles + 1, textWidth, width)
           IN  /\ offset \in 0 .. textWidth + width - 1
               /\ \/ next = offset + 1
                  \/ next = 0 /\ offset = textWidth + width - 1
<1> DEFINE p == textWidth + width
<1>1. p \in Nat \ {0}
    OBVIOUS
<1> HIDE DEF p
<1>2. /\ cycles % p \in 0 .. p - 1
      /\ \/ (cycles + 1) % p = (cycles % p) + 1
         \/ (cycles + 1) % p = 0 /\ cycles % p = p - 1
    BY <1>1, RemainderAdvances
<1>3. /\ ScrollOffset(cycles, textWidth, width) = cycles % p
      /\ ScrollOffset(cycles + 1, textWidth, width) = (cycles + 1) % p
    BY <1>1 DEF ScrollOffset, p
<1> QED  BY <1>2, <1>3 DEF p

\* renderer.cpp:56-77: one cycle later the band shows the same text one column
\* further left, for every text, width and count, the wrap of the period included.
THEOREM BandMovesByOneColumn ==
    ASSUME NEW S, NEW text \in Seq(S), NEW cols \in Nat \ {0}, NEW cycles \in Nat,
           NEW buffer, NEW message, NEW col \in 1 .. BandWidthFor(cols) - 1
    PROVE  LET At(n) == [text |-> text, cycles |-> n, buffer |-> buffer, message |-> message]
           IN  Band(At(cycles + 1), cols)[col] = Band(At(cycles), cols)[col + 1]
<1> DEFINE w == BandWidthFor(cols)
           offset == ScrollOffset(cycles, Len(text), w)
           next   == ScrollOffset(cycles + 1, Len(text), w)
<1>1. w \in Nat \ {0} /\ Len(text) \in Nat
    BY LenProperties DEF BandWidthFor
<1>2. /\ offset \in 0 .. Len(text) + w - 1
      /\ \/ next = offset + 1
         \/ next = 0 /\ offset = Len(text) + w - 1
    BY <1>1, OffsetAdvances
<1> HIDE DEF w, offset, next
<1>3. SliceRow(text, w, next)[col] = SliceRow(text, w, offset)[col + 1]
    BY <1>1, <1>2, SliceShifts DEF w
<1> QED  BY <1>3 DEF Band, w, offset, next

----------------------------------------------------------------------------
\* The rows of a frame.

\* What buildFrame() has assigned to row r.
LineAt(x, rows, cols, r) ==
    LET blocks == Blocks(x, rows, cols)
        over   == {k \in DOMAIN blocks : r \in Covered(blocks[k])}
    IN  IF over = {} THEN <<>> ELSE blocks[Max(over)].lines[r - blocks[Max(over)].top + 1]

RowWidth(r, rows, cols) == IF r = rows THEN cols - 1 ELSE cols

LEMMA FrameIsRows ==
    ASSUME NEW x, NEW rows \in Nat \ {0}, NEW cols \in Nat \ {0}
    PROVE  BuildFrame(x, rows, cols) =
               [r \in 1 .. rows |-> PadOrClip(LineAt(x, rows, cols, r), RowWidth(r, rows, cols))]
<1> DEFINE Row(r) == IF r = rows THEN CornerRow(LineAt(x, rows, cols, r), cols)
                     ELSE PadOrClip(LineAt(x, rows, cols, r), cols)
<1>1. BuildFrame(x, rows, cols) = [r \in 1 .. rows |-> Row(r)]
    <2>1. ~ (rows <= 0 \/ cols <= 0)
        OBVIOUS
    <2> QED  BY <2>1, Zenon DEF BuildFrame, LineAt
<1>2. \A r \in 1 .. rows : Row(r) = PadOrClip(LineAt(x, rows, cols, r), RowWidth(r, rows, cols))
    BY DEF CornerRow, RowWidth
<1> HIDE DEF Row
<1> QED  BY <1>1, <1>2

\* Row p is line "row", padded or clipped to n columns.
IsPadded(p, row, n) ==
    /\ DOMAIN p = 1 .. n /\ Len(p) = n /\ p \in Seq({p[c] : c \in 1 .. n})
    /\ \A c \in 1 .. n : p[c] = IF c \in DOMAIN row THEN row[c] ELSE Blank

LEMMA PadType ==
    ASSUME NEW row, NEW n \in Nat
    PROVE  IsPadded(PadOrClip(row, n), row, n)
<1> DEFINE e(c) == IF c \in DOMAIN row THEN row[c] ELSE Blank
           p    == [c \in 1 .. n |-> e(c)]
<1>1. PadOrClip(row, n) = p
    BY DEF PadOrClip
<1> HIDE DEF e
<1>2. /\ DOMAIN p = 1 .. n /\ Len(p) = n /\ p \in Seq({p[c] : c \in 1 .. n})
      /\ \A c \in 1 .. n : p[c] = e(c)
    OBVIOUS
<1> HIDE DEF p
<1> QED  BY <1>1, <1>2 DEF e, IsPadded

\* A row that is not wider than the terminal takes one line of it.
LEMMA NarrowRowTakesOneLine ==
    ASSUME NEW S, NEW row \in Seq(S), NEW cols \in Nat \ {0}, Len(row) <= cols
    PROVE  Wrapped(row, cols) = <<row>>
<1>1. CASE row = <<>>
    BY <1>1 DEF Wrapped
<1>2. CASE row # <<>>
    <2>1. Len(row) \in 1 .. cols
        BY <1>2
    <2>2. (Len(row) + cols - 1) \div cols = 1
        <3> DEFINE n == Len(row) + cols - 1
        <3>1. n \in Nat /\ cols <= n /\ n < 2 * cols
            BY <2>1
        <3> HIDE DEF n
        <3>2. n \div cols = 1
            <4>1. n \div cols \in Int /\ cols * (n \div cols) <= n /\ n < cols * (n \div cols) + cols
                BY <3>1, SMT
            <4> DEFINE q == n \div cols
            <4> HIDE DEF q
            <4>2. q \in Int /\ cols * q <= n /\ n < cols * q + cols
                BY <4>1 DEF q
            <4>3. ~ (q <= 0)
                <5>1. q <= 0 => cols * q <= 0
                    BY <4>2, SMT
                <5> QED  BY <3>1, <4>2, <5>1
            <4>4. ~ (q >= 2)
                <5>1. q >= 2 => cols * q >= cols * 2
                    BY <4>2, SMT
                <5> QED  BY <3>1, <4>2, <5>1
            <4> QED  BY <4>2, <4>3, <4>4 DEF q
        <3> QED  BY <3>2 DEF n
    <2>3. SubSeq(row, (1 - 1) * cols + 1, Smaller(1 * cols, Len(row))) = row
        <3>1. (1 - 1) * cols + 1 = 1 /\ Smaller(1 * cols, Len(row)) = Len(row)
            BY <2>1 DEF Smaller
        <3> QED  BY <3>1, SubSeqFull
    <2>4. Wrapped(row, cols) = [k \in 1 .. 1 |-> row]
        <3> DEFINE part(k) == SubSeq(row, (k - 1) * cols + 1, Smaller(k * cols, Len(row)))
        <3>1. Wrapped(row, cols) = [k \in 1 .. 1 |-> part(k)]
            BY <1>2, <2>2 DEF Wrapped
        <3>2. \A k \in 1 .. 1 : part(k) = row
            <4>1. \A k \in 1 .. 1 : k = 1
                OBVIOUS
            <4> QED  BY <2>3, <4>1
        <3> HIDE DEF part
        <3> QED  BY <3>1, <3>2
    <2> QED  BY <2>4
<1> QED  BY <1>1, <1>2

\* A whole frame for the terminal's size leaves nothing of what the terminal showed.
LEMMA WholeFrameIsShown ==
    ASSUME NEW s, s.rows \in Nat \ {0}, s.cols \in Nat \ {0}, NEW x, NEW old
    PROVE  LET frame == BuildFrame(x, s.rows, s.cols)
           IN  AfterWrite(old, frame, TRUE, s) = [r \in 1 .. s.rows |-> PadOrClip(frame[r], s.cols)]
<1> DEFINE rows     == s.rows
           cols     == s.cols
           frame    == BuildFrame(x, rows, cols)
           width(r) == RowWidth(r, rows, cols)
           Row(r)   == PadOrClip(LineAt(x, rows, cols, r), width(r))
           S        == UNION {{frame[r][c] : c \in 1 .. width(r)} : r \in 1 .. rows}
<1>0. rows \in Nat \ {0} /\ cols \in Nat \ {0}
    OBVIOUS
<1>1. frame = [r \in 1 .. rows |-> Row(r)]
    BY FrameIsRows
<1> HIDE DEF frame, rows, cols
<1>2. \A r \in 1 .. rows : width(r) \in Nat /\ width(r) = IF r = rows THEN cols - 1 ELSE cols
    BY <1>0 DEF RowWidth
<1> HIDE DEF width
<1>3. \A r \in 1 .. rows : IsPadded(frame[r], LineAt(x, rows, cols, r), width(r))
    BY <1>1, <1>2, PadType
<1>4. \A r \in 1 .. rows : DOMAIN frame[r] = 1 .. width(r) /\ Len(frame[r]) = width(r)
    BY <1>3 DEF IsPadded
<1>5. \A r \in 1 .. rows : frame[r] = Row(r)
    BY <1>1
<1> HIDE DEF Row
<1>6. \A r \in 1 .. rows : frame[r] \in Seq(S)
    <2> SUFFICES ASSUME NEW r \in 1 .. rows PROVE frame[r] \in Seq(S)
        OBVIOUS
    <2>1. {frame[r][c] : c \in 1 .. width(r)} \subseteq S
        OBVIOUS
    <2>2. frame[r] \in Seq({frame[r][c] : c \in 1 .. width(r)})
        BY <1>3 DEF IsPadded
    <2> HIDE DEF S
    <2> QED  BY <2>1, <2>2, SeqMonotonic
<1> HIDE DEF S
<1>7. frame \in Seq(Seq(S)) /\ Len(frame) = rows /\ DOMAIN frame = 1 .. rows
    <2>1. \A r \in 1 .. rows : Row(r) \in Seq(S)
        BY <1>6, <1>5
    <2> QED  BY <1>0, <1>1, <2>1
<1>8. FlattenSeq([r \in 1 .. Len(frame) |-> Wrapped(frame[r], cols)]) = frame
    <2>1. \A r \in 1 .. Len(frame) : Wrapped(frame[r], cols) = <<frame[r]>>
        <3> SUFFICES ASSUME NEW r \in 1 .. rows PROVE Wrapped(frame[r], cols) = <<frame[r]>>
            BY <1>7
        <3>1. width(r) <= cols
            BY <1>0, <1>2
        <3>2. Len(frame[r]) <= cols /\ frame[r] \in Seq(S)
            BY <1>6, <1>4, <3>1
        <3> QED  BY <1>0, <3>2, NarrowRowTakesOneLine
    <2>2. [r \in 1 .. Len(frame) |-> Wrapped(frame[r], cols)] = [r \in 1 .. Len(frame) |-> <<frame[r]>>]
        BY <2>1
    <2>3. FlattenSeq([r \in 1 .. Len(frame) |-> <<frame[r]>>]) = frame
        BY <1>7, FlattenSingles
    <2> QED  BY <2>2, <2>3
<1>9. Last(frame) = frame[rows]
    BY <1>7 DEF Last
<1> DEFINE cursor     == Smaller(Len(Last(frame)) + 1, cols)
           Cell(v, c) == IF TRUE /\ v = Len(frame) /\ c >= cursor THEN Blank
                         ELSE IF v <= Len(frame) /\ c <= Len(frame[v]) THEN frame[v][c]
                         ELSE IF v <= rows THEN old[v][c] ELSE Blank
<1>10. cursor = cols
    <2>1. rows \in 1 .. rows
        BY <1>0
    <2>2. Len(frame[rows]) = cols - 1
        BY <1>2, <1>4, <2>1
    <2> QED  BY <1>0, <1>9, <2>2 DEF Smaller
<1>11. AfterWrite(old, frame, TRUE, s) = [r \in 1 .. rows |-> [c \in 1 .. cols |-> Cell(r + 0, c)]]
    <2>1. ~ (Len(frame) > rows)
        BY <1>0, <1>7
    <2> QED  BY <1>8, <2>1, Zenon DEF AfterWrite, rows, cols
<1> HIDE DEF cursor
<1>12. ASSUME NEW r \in 1 .. rows, NEW c \in 1 .. cols
       PROVE  Cell(r + 0, c) = PadOrClip(frame[r], cols)[c]
    <2>1. r + 0 = r /\ r <= Len(frame)
        BY <1>0, <1>7
    <2>2. PadOrClip(frame[r], cols)[c] = IF c \in 1 .. width(r) THEN frame[r][c] ELSE Blank
        <3>1. cols \in Nat /\ DOMAIN frame[r] = 1 .. width(r)
            BY <1>0, <1>4
        <3>2. IsPadded(PadOrClip(frame[r], cols), frame[r], cols)
            BY <3>1, PadType
        <3> QED  BY <3>1, <3>2 DEF IsPadded
    <2>3. CASE r = rows /\ c = cols
        <3>1. width(r) = cols - 1 /\ ~ (c \in 1 .. width(r))
            BY <1>0, <1>2, <2>3
        <3> QED  BY <1>0, <1>7, <1>10, <2>1, <2>2, <2>3, <3>1
    <2>4. CASE ~ (r = rows /\ c = cols)
        <3>1. c <= width(r) /\ width(r) \in Nat
            BY <1>0, <1>2, <2>4
        <3>2. c \in 1 .. width(r) /\ c <= Len(frame[r])
            BY <1>4, <3>1
        <3>3. ~ (r = Len(frame) /\ c >= cursor)
            BY <1>0, <1>7, <1>10, <2>4
        <3> QED  BY <2>1, <2>2, <3>2, <3>3
    <2> QED  BY <2>3, <2>4
<1> HIDE DEF Cell
<1>13. ASSUME NEW r \in 1 .. rows
       PROVE  [c \in 1 .. cols |-> Cell(r + 0, c)] = PadOrClip(frame[r], cols)
    <2>1. PadOrClip(frame[r], cols) = [c \in 1 .. cols |-> PadOrClip(frame[r], cols)[c]]
        BY DEF PadOrClip
    <2> QED  BY <1>12, <2>1
<1>14. AfterWrite(old, frame, TRUE, s) = [r \in 1 .. rows |-> PadOrClip(frame[r], cols)]
    BY <1>11, <1>13
<1> QED  BY <1>14 DEF frame, rows, cols

Shown(x, s) == [r \in 1 .. s.rows |-> PadOrClip(BuildFrame(x, s.rows, s.cols)[r], s.cols)]

LEMMA NoSizeIsNone == NoSize \notin Sizes
BY ScreenSizesAssumption DEF NoSize

\* renderer.cpp:137-153 and scheduler.cpp:84-118: a frame laid out for the terminal's
\* size replaces all that the terminal showed, whatever frames were torn, dropped or
\* scrolled on it before, on terminals of every size.
THEOREM ScreenShowsTheFrame == Spec => []ScreenIsTheFrame
<1>1. SizeInv /\ Init => ScreenIsTheFrame
    BY NoSizeIsNone DEF Init, SizeInv, ScreenIsTheFrame, Fresh
<1>2. SizeInv /\ ScreenIsTheFrame /\ [Next]_vars => ScreenIsTheFrame'
    <2> SUFFICES ASSUME SizeInv, ScreenIsTheFrame, [Next]_vars PROVE ScreenIsTheFrame'
        OBVIOUS
    <2>1. CASE ReadSize \/ UNCHANGED vars
        BY <2>1 DEF ReadSize, vars, ScreenIsTheFrame, Fresh
    <2>2. ASSUME NEW x \in Displays, Draw(x) PROVE ScreenIsTheFrame'
        <3> SUFFICES ASSUME painted' = termSize'
                     PROVE  cells' = Shown(d', termSize')
            BY DEF ScreenIsTheFrame, Fresh, Shown
        <3>1. termSize' = termSize /\ size = termSize /\ d' = x
              /\ cells' = AfterWrite(cells, BuildFrame(x, size.rows, size.cols), TRUE, termSize)
            BY <2>2 DEF Draw
        <3>2. termSize.rows \in Nat \ {0} /\ termSize.cols \in Nat \ {0}
            BY ScreenSizesAssumption DEF SizeInv
        <3>3. AfterWrite(cells, BuildFrame(x, termSize.rows, termSize.cols), TRUE, termSize) = Shown(x, termSize)
            BY <3>2, WholeFrameIsShown DEF Shown
        <3> QED  BY <3>1, <3>3
    <2>3. CASE (\E s \in Sizes : Resize(s)) \/ \E x \in Partial, n \in 1 .. size.rows - 1 : DrawPart(x, n)
        <3>1. painted' = NoSize /\ termSize' \in Sizes
            BY <2>3 DEF Resize, DrawPart, SizeInv
        <3> QED  BY <3>1, NoSizeIsNone DEF ScreenIsTheFrame, Fresh
    <2> QED  BY <2>1, <2>2, <2>3 DEF Next
<1> QED  BY <1>1, <1>2, SizeIsInvariant, PTL DEF Spec

----------------------------------------------------------------------------
\* What a terminal shows of the parts of a frame.

IsDisplay(x) ==
    /\ DOMAIN x = {"text", "cycles", "buffer", "message"} /\ x.cycles \in Nat
    /\ \A part \in {"text", "buffer", "message"} : x[part] \in Seq(Range(x[part]))

LEMMA DisplayType == SizeInv => IsDisplay(d)
<1>1. \A x \in Displays : IsDisplay(x)
    BY DisplaysAssumption DEF IsDisplay
<1>2. <<>> \in Seq(Range(<<>>))
    BY EmptySeq
<1>3. IsDisplay(NoDisplay)
    BY <1>2 DEF NoDisplay, IsDisplay
<1> QED  BY <1>1, <1>3 DEF SizeInv

\* No part overwrites another, so each row shows the one part that has it.
LEMMA LineOfPart ==
    ASSUME NEW rows \in Nat \ {0}, NEW cols \in Nat \ {0}, NEW x, IsDisplay(x),
           NEW k \in 1 .. 5, NEW r \in Covered(Blocks(x, rows, cols)[k])
    PROVE  /\ r \in 1 .. rows
           /\ LineAt(x, rows, cols, r) =
                  Blocks(x, rows, cols)[k].lines[r - Blocks(x, rows, cols)[k].top + 1]
<1> DEFINE blocks == Blocks(x, rows, cols)
           over   == {j \in DOMAIN blocks : r \in Covered(blocks[j])}
<1>1. DOMAIN blocks = 1 .. 5
    BY DEF Blocks
<1>2. /\ \A j \in DOMAIN blocks : Covered(blocks[j]) \subseteq 1 .. rows
      /\ \A i, j \in DOMAIN blocks : i # j => Covered(blocks[i]) \cap Covered(blocks[j]) = {}
    <2>1. Len(x.message) \in Nat /\ DOMAIN x.message = 1 .. Len(x.message)
        BY LenProperties DEF IsDisplay
    <2> QED  BY <2>1, BlocksFit
<1> HIDE DEF blocks
<1>3. over = {k}
    BY <1>1, <1>2 DEF blocks
<1>4. Max(over) = k
    <2>1. Max({k}) \in {k}
        BY GreatestOf
    <2> QED  BY <1>3, <2>1
<1>5. LineAt(x, rows, cols, r) = blocks[Max(over)].lines[r - blocks[Max(over)].top + 1]
    BY <1>3 DEF LineAt, blocks
<1>6. r \in 1 .. rows
    BY <1>1, <1>2 DEF blocks
<1> QED  BY <1>4, <1>5, <1>6 DEF blocks

\* One row of the terminal, of cols cells, shows the first width columns of a line.
Shows(row, cols, line, width) ==
    /\ row = [c \in 1 .. cols |-> row[c]]
    /\ \A c \in 1 .. cols : row[c] = IF c <= width /\ c \in DOMAIN line THEN line[c] ELSE Blank

LEMMA ShownCells ==
    ASSUME NEW s, s.rows \in Nat \ {0}, s.cols \in Nat \ {0}, NEW x, NEW r \in 1 .. s.rows
    PROVE  Shows(Shown(x, s)[r], s.cols, LineAt(x, s.rows, s.cols, r), RowWidth(r, s.rows, s.cols))
<1> DEFINE line  == LineAt(x, s.rows, s.cols, r)
           width == RowWidth(r, s.rows, s.cols)
           row   == PadOrClip(line, width)
<1>1. width \in Nat /\ width <= s.cols
    BY DEF RowWidth
<1>2. BuildFrame(x, s.rows, s.cols)[r] = row
    BY FrameIsRows
<1>3. Shown(x, s)[r] = PadOrClip(row, s.cols)
    BY <1>2 DEF Shown
<1>4. IsPadded(row, line, width) /\ IsPadded(PadOrClip(row, s.cols), row, s.cols)
    BY <1>1, PadType
<1>5. Shown(x, s)[r] = [c \in 1 .. s.cols |-> Shown(x, s)[r][c]]
    BY <1>3 DEF PadOrClip
<1> HIDE DEF line, width, row
<1>6. ASSUME NEW c \in 1 .. s.cols
      PROVE  Shown(x, s)[r][c] = IF c <= width /\ c \in DOMAIN line THEN line[c] ELSE Blank
    <2>1. Shown(x, s)[r][c] = IF c \in DOMAIN row THEN row[c] ELSE Blank
        BY <1>3, <1>4 DEF IsPadded
    <2>2. DOMAIN row = 1 .. width /\ (c \in DOMAIN row <=> c <= width)
        BY <1>1, <1>4 DEF IsPadded
    <2>3. c \in 1 .. width => row[c] = IF c \in DOMAIN line THEN line[c] ELSE Blank
        BY <1>4 DEF IsPadded
    <2> QED  BY <2>1, <2>2, <2>3
<1> QED  BY <1>5, <1>6 DEF line, width, Shows

\* A row above the last one shows its whole line.
LEMMA ShownRow ==
    ASSUME NEW s, s.rows \in Nat \ {0}, s.cols \in Nat \ {0}, NEW x, NEW r \in 1 .. s.rows - 1
    PROVE  Shown(x, s)[r] = PadOrClip(LineAt(x, s.rows, s.cols, r), s.cols)
<1> DEFINE line == LineAt(x, s.rows, s.cols, r)
<1>1. r \in 1 .. s.rows /\ RowWidth(r, s.rows, s.cols) = s.cols
    BY DEF RowWidth
<1>2. Shows(Shown(x, s)[r], s.cols, line, s.cols)
    BY <1>1, ShownCells
<1> HIDE DEF line
<1>3. \A c \in 1 .. s.cols : Shown(x, s)[r][c] = IF c \in DOMAIN line THEN line[c] ELSE Blank
    <2> SUFFICES ASSUME NEW c \in 1 .. s.cols
                 PROVE  Shown(x, s)[r][c] = IF c \in DOMAIN line THEN line[c] ELSE Blank
        OBVIOUS
    <2>1. c <= s.cols
        OBVIOUS
    <2> QED  BY <1>2, <2>1, Zenon DEF Shows
<1>4. Shown(x, s)[r] = [c \in 1 .. s.cols |-> Shown(x, s)[r][c]]
    BY <1>2, Zenon DEF Shows
<1> QED  BY <1>3, <1>4 DEF PadOrClip, line

LEMMA BandType ==
    ASSUME NEW x, NEW cols \in Nat \ {0}
    PROVE  \E S : /\ Band(x, cols) \in Seq(S) /\ Blank \in S
                  /\ Len(Band(x, cols)) = BandWidthFor(cols) /\ BandWidthFor(cols) \in Nat
<1> DEFINE w    == BandWidthFor(cols)
           B    == Band(x, cols)
           e(k) == B[k]
           S    == {e(k) : k \in 1 .. w} \cup {Blank}
<1>1. w \in Nat
    BY DEF BandWidthFor
<1>2. B = [k \in 1 .. w |-> e(k)]
    BY DEF Band, SliceRow
<1> HIDE DEF e, w
<1>3. [k \in 1 .. w |-> e(k)] \in Seq(S) /\ Len([k \in 1 .. w |-> e(k)]) = w
    BY <1>1
<1> HIDE DEF B
<1>4. B \in Seq(S) /\ Blank \in S /\ Len(B) = w
    BY <1>2, <1>3
<1> HIDE DEF S
<1> QED  BY <1>1, <1>4 DEF B, w

\* The band, with a blank at its left.
LEMMA BandIsShown ==
    ASSUME NEW s, s.rows \in Nat \ {0, 1}, s.cols \in Nat \ {0}, NEW x, IsDisplay(x)
    PROVE  /\ BandRow(s.rows) \in 1 .. s.rows - 1
           /\ Shown(x, s)[BandRow(s.rows)] = PadOrClip(<<Blank>> \o Band(x, s.cols), s.cols)
<1> DEFINE b  == BandRow(s.rows)
           w  == BandWidthFor(s.cols)
           B  == Band(x, s.cols)
           row == <<Blank>> \o B
           line == row \o <<Blank>>
<1>1. b \in 1 .. s.rows - 1
    BY DEF BandRow, KBandRow
<1>2. LineAt(x, s.rows, s.cols, b) = line
    <2>1. /\ Blocks(x, s.rows, s.cols)[1].top = b
          /\ Blocks(x, s.rows, s.cols)[1].lines = <<line>>
        BY <1>1 DEF Blocks, Block
    <2>2. Len(<<line>>) = 1 /\ <<line>>[1] = line
        OBVIOUS
    <2> HIDE DEF line, b
    <2>3. b \in Covered(Blocks(x, s.rows, s.cols)[1])
        BY <1>1, <2>1, <2>2 DEF Covered
    <2>4. b - b + 1 = 1
        BY <1>1
    <2>5. LineAt(x, s.rows, s.cols, b) = Blocks(x, s.rows, s.cols)[1].lines[b - Blocks(x, s.rows, s.cols)[1].top + 1]
        BY <2>3, LineOfPart
    <2> QED  BY <2>1, <2>2, <2>4, <2>5
<1>3. PICK S : B \in Seq(S) /\ Blank \in S /\ Len(B) = w /\ w \in Nat
    BY BandType
<1> HIDE DEF B, w, b
<1>4. /\ row \in Seq(S) /\ Len(row) = w + 1 /\ DOMAIN row = 1 .. w + 1
      /\ line \in Seq(S) /\ DOMAIN line = 1 .. w + 2
      /\ \A c \in 1 .. w + 1 : line[c] = row[c]
      /\ line[w + 2] = Blank
    <2>1. <<Blank>> \in Seq(S) /\ Len(<<Blank>>) = 1 /\ <<Blank>>[1] = Blank
        BY <1>3
    <2>2. row \in Seq(S) /\ Len(row) = w + 1 /\ DOMAIN row = 1 .. w + 1
        BY <1>3, <2>1, ConcatProperties, LenProperties
    <2> HIDE DEF row
    <2>3. /\ line \in Seq(S) /\ Len(line) = Len(row) + 1
          /\ \A i \in 1 .. Len(row) + 1 :
                 line[i] = IF i <= Len(row) THEN row[i] ELSE <<Blank>>[i - Len(row)]
        BY <2>1, <2>2, ConcatProperties
    <2> HIDE DEF line
    <2>4. DOMAIN line = 1 .. w + 2
        BY <1>3, <2>2, <2>3, LenProperties
    <2>5. \A c \in 1 .. w + 1 : line[c] = row[c]
        BY <1>3, <2>2, <2>3
    <2>6. line[w + 2] = Blank
        BY <1>3, <2>1, <2>2, <2>3
    <2> QED  BY <2>2, <2>3, <2>4, <2>5, <2>6
<1> HIDE DEF row, line
<1>5. PadOrClip(line, s.cols) = PadOrClip(row, s.cols)
    <2>1. \A c \in 1 .. s.cols : (IF c \in DOMAIN line THEN line[c] ELSE Blank)
                                  = (IF c \in DOMAIN row THEN row[c] ELSE Blank)
        BY <1>3, <1>4
    <2> QED  BY <2>1 DEF PadOrClip
<1>6. Shown(x, s)[b] = PadOrClip(LineAt(x, s.rows, s.cols, b), s.cols)
    BY <1>1, ShownRow
<1> QED  BY <1>1, <1>2, <1>5, <1>6 DEF b, row, B

\* The end of a sequence, element by element from the last one.
LEMMA NewestElements ==
    ASSUME NEW S, NEW s \in Seq(S), NEW n \in Nat, NEW i \in 1 .. Smaller(n, Len(s))
    PROVE  Newest(s, n)[Smaller(n, Len(s)) - i + 1] = s[Len(s) - i + 1]
<1> DEFINE m == Smaller(n, Len(s))
           u == SubSeq(s, Len(s) - m + 1, Len(s))
<1>1. Len(s) \in Nat /\ m \in 0 .. Len(s) /\ \A j \in 1 .. Len(s) : s[j] \in S
    BY DEF Smaller
<1> HIDE DEF m
<1>2. Newest(s, n) = u
    BY DEF Newest, m
<1>3. Len(s) - m + 1 \in 1 .. Len(s) + 1 /\ \A j \in Len(s) - m + 1 .. Len(s) : s[j] \in S
    BY <1>1
<1>4. \A j \in 1 .. Len(s) - (Len(s) - m + 1) + 1 : u[j] = s[Len(s) - m + 1 + j - 1]
    BY <1>1, <1>3, SubSeqProperties
<1> HIDE DEF u
<1>5. i \in 1 .. m
    BY DEF m
<1>6. /\ m - i + 1 \in 1 .. Len(s) - (Len(s) - m + 1) + 1
      /\ Len(s) - m + 1 + (m - i + 1) - 1 = Len(s) - i + 1
    BY <1>1, <1>5
<1>7. u[m - i + 1] = s[Len(s) - i + 1]
    BY <1>4, <1>6
<1> QED  BY <1>2, <1>7 DEF m

\* The message, its newest line above the prompt.
LEMMA MessageIsShown ==
    ASSUME NEW s, s.rows \in Nat \ {0}, s.cols \in Nat \ {0}, NEW x, IsDisplay(x),
           NEW i \in 1 .. Smaller(Len(SplitLines(x.message)), s.rows - 1 - BandRow(s.rows))
    PROVE  Shown(x, s)[s.rows - i] = PadOrClip(SplitLines(x.message)[Len(SplitLines(x.message)) - i + 1], s.cols)
<1> DEFINE lines == SplitLines(x.message)
           n     == Len(lines)
           rows  == s.rows
           part  == Blocks(x, rows, s.cols)[4]
           m     == MessageCount(rows, n)
           r     == rows - i
<1>0. rows \in Nat \ {0} /\ x.message \in Seq(Range(x.message))
    BY DEF IsDisplay
<1>1. PICK S : lines \in Seq(S)
    <2>1. Len(x.message) \in Nat /\ DOMAIN x.message = 1 .. Len(x.message)
        BY <1>0, LenProperties
    <2> QED  BY <2>1, SplitLinesIsSequence
<1>2. part.top = rows - m /\ part.lines = Newest(lines, MessageBudget(rows))
    BY DEF Blocks, Block, BlockTop
<1> HIDE DEF lines, part, rows
<1>3. n \in Nat
    BY <1>1
<1>4. /\ BandRow(rows) \in 0 .. rows - 1 /\ MessageBudget(rows) = rows - 1 - BandRow(rows)
      /\ MessageBudget(rows) \in Nat /\ m = Smaller(MessageBudget(rows), n)
    <2>1. MessageBudget(rows) = rows - 1 - BandRow(rows)
        BY <1>0 DEF MessageBudget, BandRow, KBandRow
    <2> QED  BY <1>0, <1>3, <2>1, LayoutIsOrdered
<1> HIDE DEF n
<1>5. i \in 1 .. m /\ m \in 0 .. rows - 1
    <2>1. i \in 1 .. Smaller(n, rows - 1 - BandRow(rows))
        BY DEF n, lines, rows
    <2> QED  BY <1>0, <1>3, <1>4, <2>1 DEF Smaller
<1>6. Len(Newest(lines, MessageBudget(rows))) = m
    BY <1>1, <1>4, NewestLength DEF n
<1> HIDE DEF m
<1>7. r \in 1 .. rows - 1 /\ r - (rows - m) + 1 = m - i + 1 /\ r \in rows - m .. (rows - m + m) - 1
    BY <1>0, <1>5
<1> HIDE DEF r
<1>8. r \in Covered(part)
    BY <1>2, <1>6, <1>7 DEF Covered
<1>9. LineAt(x, rows, s.cols, r) = Newest(lines, MessageBudget(rows))[m - i + 1]
    <2>1. LineAt(x, rows, s.cols, r) = part.lines[r - part.top + 1]
        BY <1>0, <1>8, LineOfPart, SMTT(30) DEF part
    <2> QED  BY <1>2, <1>7, <2>1
<1>10. Newest(lines, MessageBudget(rows))[m - i + 1] = lines[n - i + 1]
    BY <1>1, <1>4, <1>5, NewestElements DEF n
<1>11. Shown(x, s)[r] = PadOrClip(LineAt(x, rows, s.cols, r), s.cols)
    BY <1>7, ShownRow DEF rows
<1> QED  BY <1>9, <1>10, <1>11 DEF r, n, lines, rows

\* The prompt row, before it is padded or clipped.
PromptLine(buffer, cols) == (Prompt \o <<Blank>>) \o VisibleSlice(buffer, cols - 1 - Len(Prompt) - 1)

LEMMA PromptIsShown ==
    ASSUME NEW s, s.rows \in Nat \ {0}, s.cols \in Nat \ {0}, NEW x, IsDisplay(x), NEW c \in 1 .. s.cols - 1
    PROVE  LET line == PromptLine(x.buffer, s.cols)
           IN  Shown(x, s)[s.rows][c] = IF c \in DOMAIN line THEN line[c] ELSE Blank
<1> DEFINE line == PromptLine(x.buffer, s.cols)
           rows == s.rows
           row  == PadOrClip(line, s.cols - 1)
           part == Blocks(x, rows, s.cols)[5]
<1>0. rows \in Nat \ {0} /\ s.cols - 1 \in Nat /\ c \in 1 .. s.cols
    OBVIOUS
<1>1. part.top = rows /\ part.lines = <<row>>
    BY DEF Blocks, Block, PromptRow, PromptLine
<1> HIDE DEF line, row, part, rows
<1>2. LineAt(x, rows, s.cols, rows) = row
    <2>1. Len(<<row>>) = 1 /\ <<row>>[1] = row
        OBVIOUS
    <2>2. rows \in Covered(part) /\ rows - rows + 1 = 1
        BY <1>0, <1>1, <2>1 DEF Covered
    <2>3. LineAt(x, rows, s.cols, rows) = part.lines[rows - part.top + 1]
        BY <1>0, <2>2, LineOfPart, SMTT(30) DEF part
    <2> QED  BY <1>1, <2>1, <2>2, <2>3
<1>3. IsPadded(row, line, s.cols - 1)
    BY <1>0, PadType DEF row
<1>4. Shows(Shown(x, s)[rows], s.cols, row, s.cols - 1)
    <2>1. RowWidth(rows, rows, s.cols) = s.cols - 1 /\ rows \in 1 .. rows
        BY <1>0 DEF RowWidth
    <2> QED  BY <1>0, <1>2, <2>1, ShownCells DEF rows
<1>5. c <= s.cols - 1 /\ c \in DOMAIN row
    BY <1>0, <1>3 DEF IsPadded
<1>6. Shown(x, s)[rows][c] = row[c]
    BY <1>0, <1>4, <1>5, Zenon DEF Shows
<1>7. row[c] = IF c \in DOMAIN line THEN line[c] ELSE Blank
    BY <1>3 DEF IsPadded
<1> QED  BY <1>6, <1>7 DEF rows, line

\* The prompt line: the prompt, a blank, and the end of the buffer.
LEMMA PromptLineElements ==
    ASSUME NEW buffer, buffer \in Seq(Range(buffer)), NEW cols \in Nat
    PROVE  LET line == PromptLine(buffer, cols)
               room == cols - 2 - Len(Prompt)
           IN  /\ 1 \in DOMAIN line /\ line[1] = Prompt[1]
               /\ room > 0 => DOMAIN line = 1 .. Len(Prompt) + 1 + Smaller(room, Len(buffer))
               /\ room > 0 /\ buffer # <<>> => line[Len(Prompt) + 1 + Smaller(room, Len(buffer))] = Last(buffer)
<1> DEFINE room  == cols - 2 - Len(Prompt)
           S     == Range(Prompt) \cup {Blank} \cup Range(buffer)
           head  == Prompt \o <<Blank>>
           slice == VisibleSlice(buffer, cols - 1 - Len(Prompt) - 1)
           line  == head \o slice
           m     == Smaller(room, Len(buffer))
<1>1. Prompt \in Seq(S) /\ <<Blank>> \in Seq(S) /\ buffer \in Seq(S)
    <2>1. Prompt \in Seq(S)
        <3>1. Range(Prompt) \subseteq S
            OBVIOUS
        <3> HIDE DEF S
        <3> QED  BY <3>1, TextsAssumption, SeqMonotonic
    <2>2. buffer \in Seq(S)
        <3>1. Range(buffer) \subseteq S
            OBVIOUS
        <3> HIDE DEF S
        <3> QED  BY <3>1, SeqMonotonic
    <2>3. Blank \in S
        OBVIOUS
    <2> HIDE DEF S
    <2>4. <<Blank>> \in Seq(S)
        BY <2>3
    <2> QED  BY <2>1, <2>2, <2>4
<1> HIDE DEF S
<1>2. Len(Prompt) \in Nat \ {0} /\ Len(buffer) \in Nat /\ room \in Int /\ cols - 1 - Len(Prompt) - 1 = room
    BY <1>1, TextsAssumption, EmptySeq
<1>3. head \in Seq(S) /\ Len(head) = Len(Prompt) + 1 /\ head[1] = Prompt[1]
    <2>1. Len(<<Blank>>) = 1
        OBVIOUS
    <2>2. /\ head \in Seq(S) /\ Len(head) = Len(Prompt) + Len(<<Blank>>)
          /\ \A i \in 1 .. Len(Prompt) + Len(<<Blank>>) :
                 head[i] = IF i <= Len(Prompt) THEN Prompt[i] ELSE <<Blank>>[i - Len(Prompt)]
        BY <1>1, ConcatProperties
    <2> HIDE DEF head
    <2> QED  BY <1>2, <2>1, <2>2
<1>4. slice \in Seq(S) /\ (room > 0 => slice = Newest(buffer, room) /\ Len(slice) = m)
    <2>1. CASE room <= 0
        BY <1>2, <2>1, EmptySeq DEF VisibleSlice
    <2>2. CASE room > 0
        <3>1. slice = Newest(buffer, room) /\ room \in Nat
            BY <1>2, <2>2 DEF VisibleSlice
        <3> QED  BY <1>1, <3>1, NewestLength
    <2> QED  BY <1>2, <2>1, <2>2
<1> HIDE DEF head, slice, room
<1>5. /\ line \in Seq(S) /\ Len(line) = Len(head) + Len(slice) /\ DOMAIN line = 1 .. Len(line)
      /\ \A i \in 1 .. Len(head) + Len(slice) :
             line[i] = IF i <= Len(head) THEN head[i] ELSE slice[i - Len(head)]
    BY <1>3, <1>4, ConcatProperties, LenProperties
<1> HIDE DEF line
<1>6. Len(slice) \in Nat
    BY <1>4
<1>7. 1 \in DOMAIN line /\ line[1] = Prompt[1]
    BY <1>2, <1>3, <1>5, <1>6
<1>8. room > 0 => DOMAIN line = 1 .. Len(Prompt) + 1 + m
    BY <1>3, <1>4, <1>5
<1>9. ASSUME room > 0, buffer # <<>> PROVE line[Len(Prompt) + 1 + m] = Last(buffer)
    <2>1. Len(buffer) # 0 /\ m \in 1 .. Len(buffer) /\ m = Smaller(room, Len(buffer)) /\ room \in Nat
        BY <1>1, <1>2, <1>9, EmptySeq DEF Smaller
    <2> HIDE DEF m
    <2>2. Newest(buffer, room)[m - 1 + 1] = buffer[Len(buffer) - 1 + 1]
        <3>1. 1 \in 1 .. Smaller(room, Len(buffer))
            BY <2>1
        <3> QED  BY <1>1, <2>1, <3>1, NewestElements
    <2>3. m - 1 + 1 = m /\ Len(buffer) - 1 + 1 = Len(buffer)
        BY <1>2, <2>1
    <2>4. slice[m] = Last(buffer)
        BY <1>4, <1>9, <2>2, <2>3 DEF Last
    <2>5. Len(slice) = m
        BY <1>4, <1>9 DEF m
    <2>6. /\ Len(Prompt) + 1 + m \in 1 .. Len(head) + Len(slice)
          /\ ~ (Len(Prompt) + 1 + m <= Len(head)) /\ (Len(Prompt) + 1 + m) - Len(head) = m
        BY <1>2, <1>3, <2>1, <2>5
    <2>7. line[Len(Prompt) + 1 + m] = slice[m]
        BY <1>5, <2>6
    <2> QED  BY <2>4, <2>7
<1> HIDE DEF m
<1>10. PromptLine(buffer, cols) = line
    BY DEF PromptLine, line, head, slice
<1> QED  BY <1>7, <1>8, <1>9, <1>10 DEF m, room

LEMMA FreshShows ==
    ASSUME SizeInv, ScreenIsTheFrame, Fresh
    PROVE  /\ cells = Shown(d, termSize) /\ IsDisplay(d)
           /\ termSize.rows \in Nat \ {0} /\ termSize.cols \in Nat \ {0}
BY DisplayType, ScreenSizesAssumption DEF SizeInv, ScreenIsTheFrame, Shown

\* renderer.cpp:82-135: from two rows on the terminal shows the band, and from two columns
\* on the prompt, with the newest of the typed symbols as soon as there is a column for it,
\* followed by a blank, for every size, text and typed line.
THEOREM BandAndPromptAreShown == Spec => []BandAndPromptAreVisible
<1>1. SizeInv /\ ScreenIsTheFrame => BandAndPromptAreVisible
    <2> SUFFICES ASSUME SizeInv, ScreenIsTheFrame, Fresh PROVE BandAndPromptAreVisible
        BY DEF BandAndPromptAreVisible
    <2> DEFINE rows   == termSize.rows
               cols   == termSize.cols
               bottom == cells[rows]
               beside == Len(Prompt) + 2
               line   == PromptLine(d.buffer, cols)
               room   == cols - 2 - Len(Prompt)
    <2>1. /\ cells = Shown(d, termSize) /\ IsDisplay(d)
          /\ rows \in Nat \ {0} /\ cols \in Nat \ {0}
        BY FreshShows
    <2>2. d.buffer \in Seq(Range(d.buffer))
        BY <2>1 DEF IsDisplay
    <2>3. ASSUME rows >= 2
          PROVE  \E r \in 1 .. rows - 1 : cells[r] = PadOrClip(<<Blank>> \o Band(d, cols), cols)
        <3>1. rows \in Nat \ {0, 1}
            BY <2>1, <2>3
        <3> QED  BY <2>1, <3>1, BandIsShown
    <2>4. \A c \in 1 .. cols - 1 : bottom[c] = IF c \in DOMAIN line THEN line[c] ELSE Blank
        BY <2>1, PromptIsShown
    <2>5. /\ 1 \in DOMAIN line /\ line[1] = Prompt[1]
          /\ room > 0 => DOMAIN line = 1 .. Len(Prompt) + 1 + Smaller(room, Len(d.buffer))
          /\ room > 0 /\ d.buffer # <<>> => line[Len(Prompt) + 1 + Smaller(room, Len(d.buffer))] = Last(d.buffer)
        BY <2>1, <2>2, PromptLineElements
    <2> HIDE DEF bottom, line, rows, cols
    <2>6. cols >= 2 => bottom[1] = Prompt[1]
        BY <2>1, <2>4, <2>5
    <2>7. ASSUME cols > beside, d.buffer # <<>>
          PROVE  \E c \in beside .. cols - 1 :
                     bottom[c] = Last(d.buffer) /\ (c < cols - 1 => bottom[c + 1] = Blank)
        <3> DEFINE c == Len(Prompt) + 1 + Smaller(room, Len(d.buffer))
        <3>1. Len(Prompt) \in Nat /\ Len(d.buffer) \in Nat \ {0}
            BY <2>2, <2>7, TextsAssumption, LenProperties, EmptySeq
        <3>2. room > 0 /\ Smaller(room, Len(d.buffer)) \in 1 .. room
            BY <2>1, <2>7, <3>1 DEF Smaller
        <3>3. c \in beside .. cols - 1 /\ c \in 1 .. cols - 1
              /\ (c < cols - 1 => c + 1 \in 1 .. cols - 1) /\ c + 1 \notin 1 .. c
            BY <2>1, <3>1, <3>2
        <3>4. DOMAIN line = 1 .. c /\ line[c] = Last(d.buffer) /\ c \in 1 .. c
            BY <2>5, <2>7, <3>2, <3>3
        <3> HIDE DEF c
        <3>5. bottom[c] = Last(d.buffer)
            BY <2>4, <3>3, <3>4
        <3>6. c < cols - 1 => bottom[c + 1] = Blank
            BY <2>4, <3>3, <3>4
        <3> QED  BY <3>3, <3>5, <3>6
    <2> QED  BY <2>3, <2>6, <2>7, Zenon DEF BandAndPromptAreVisible, bottom, rows, cols
<1> QED  BY <1>1, SizeIsInvariant, ScreenShowsTheFrame, PTL

\* renderer.cpp:104-128: the newest lines of the message stand above the prompt, as many as
\* there are rows for, for every message and every size: no fixed text takes their place.
THEOREM MessageIsShownFirst == Spec => []MessageBeforeChrome
<1>1. SizeInv /\ ScreenIsTheFrame => MessageBeforeChrome
    <2> SUFFICES ASSUME SizeInv, ScreenIsTheFrame, Fresh PROVE MessageBeforeChrome
        BY DEF MessageBeforeChrome
    <2>1. /\ cells = Shown(d, termSize) /\ IsDisplay(d)
          /\ termSize.rows \in Nat \ {0} /\ termSize.cols \in Nat \ {0}
        BY FreshShows
    <2> QED  BY <2>1, MessageIsShown DEF MessageBeforeChrome
<1> QED  BY <1>1, SizeIsInvariant, ScreenShowsTheFrame, PTL

\* The cells of the band, column by column.
LEMMA BandCells ==
    ASSUME NEW s, s.rows \in Nat \ {0, 1}, s.cols \in Nat \ {0}, NEW x, IsDisplay(x),
           NEW c \in 2 .. 1 + BandWidthFor(s.cols), c <= s.cols
    PROVE  Shown(x, s)[BandRow(s.rows)][c] = Band(x, s.cols)[c - 1]
<1> DEFINE w   == BandWidthFor(s.cols)
           B   == Band(x, s.cols)
           row == <<Blank>> \o B
<1>1. PICK S : B \in Seq(S) /\ Blank \in S /\ Len(B) = w /\ w \in Nat
    BY BandType
<1>2. Shown(x, s)[BandRow(s.rows)] = PadOrClip(row, s.cols)
    BY BandIsShown
<1>3. c \in 2 .. 1 + w
    OBVIOUS
<1> HIDE DEF B, w
<1>4. DOMAIN row = 1 .. w + 1 /\ \A k \in 2 .. w + 1 : row[k] = B[k - 1]
    <2>1. <<Blank>> \in Seq(S) /\ Len(<<Blank>>) = 1
        BY <1>1
    <2>2. /\ row \in Seq(S) /\ Len(row) = 1 + w
          /\ \A i \in 1 .. 1 + w : row[i] = IF i <= 1 THEN <<Blank>>[i] ELSE B[i - 1]
        BY <1>1, <2>1, ConcatProperties
    <2> HIDE DEF row
    <2> QED  BY <1>1, <2>2
<1> HIDE DEF row
<1>5. c \in 1 .. s.cols /\ c \in DOMAIN row /\ row[c] = B[c - 1]
    BY <1>1, <1>3, <1>4
<1>6. PadOrClip(row, s.cols)[c] = row[c]
    BY <1>5 DEF PadOrClip
<1> QED  BY <1>2, <1>5, <1>6 DEF B

\* renderer.cpp:56-77 and scheduler.cpp:101-118: when the next rendered frame is on the
\* terminal the band has moved by one column to the left, on terminals of every size, for
\* every text and count, the wrap of the period included.
THEOREM BandMovesOnScreen == Spec => BandScrollsByOne
<1> DEFINE Moves == /\ Fresh /\ Fresh' /\ d' = [d EXCEPT !.cycles = @ + 1]
                    /\ termSize' = termSize /\ termSize.rows >= 2
                    => \A c \in 2 .. 1 + BandWidthFor(termSize.cols) - 1 :
                           cells'[BandRow(termSize.rows)][c] = cells[BandRow(termSize.rows)][c + 1]
<1>1. /\ SizeInv /\ ScreenIsTheFrame /\ SizeInv' /\ ScreenIsTheFrame' /\ [Next]_vars
      => [Moves]_vars
    <2> SUFFICES ASSUME SizeInv, ScreenIsTheFrame, SizeInv', ScreenIsTheFrame',
                        Fresh, Fresh', d' = [d EXCEPT !.cycles = @ + 1],
                        termSize' = termSize, termSize.rows >= 2,
                        NEW c \in 2 .. 1 + BandWidthFor(termSize.cols) - 1
                 PROVE  cells'[BandRow(termSize.rows)][c] = cells[BandRow(termSize.rows)][c + 1]
        OBVIOUS
    <2> DEFINE cols == termSize.cols
               w    == BandWidthFor(cols)
               b    == BandRow(termSize.rows)
    <2>1. /\ cells = Shown(d, termSize) /\ IsDisplay(d)
          /\ termSize.rows \in Nat \ {0, 1} /\ cols \in Nat \ {0}
        BY FreshShows
    <2>2. cells' = Shown(d', termSize) /\ IsDisplay(d')
        <3>1. (cells = Shown(d, termSize) /\ IsDisplay(d))'
            BY FreshShows, PTL
        <3> QED  BY <3>1 DEF Shown, IsDisplay
    <2>3. c \in 2 .. 1 + w /\ c + 1 \in 2 .. 1 + w /\ c + 1 <= cols /\ c <= cols /\ c - 1 \in 1 .. w - 1
        BY <2>1 DEF BandWidthFor
    <2>4. cells'[b][c] = Band(d', cols)[c - 1]
        BY <2>1, <2>2, <2>3, BandCells
    <2>5. cells[b][c + 1] = Band(d, cols)[c]
        <3>1. cells[b][c + 1] = Band(d, cols)[(c + 1) - 1]
            BY <2>1, <2>3, BandCells
        <3>2. (c + 1) - 1 = c
            BY <2>3
        <3> QED  BY <3>1, <3>2
    <2>6. Band(d', cols)[c - 1] = Band(d, cols)[c]
        <3> DEFINE At(n) == [text |-> d.text, cycles |-> n, buffer |-> d.buffer, message |-> d.message]
        <3>1. d.text \in Seq(Range(d.text)) /\ d.cycles \in Nat /\ c - 1 \in 1 .. w - 1 /\ (c - 1) + 1 = c
            BY <2>1, <2>3 DEF IsDisplay
        <3>2. Band(At(d.cycles + 1), cols)[c - 1] = Band(At(d.cycles), cols)[(c - 1) + 1]
            BY <2>1, <3>1, BandMovesByOneColumn
        <3>3. d'.text = d.text /\ d'.cycles = d.cycles + 1
            BY <2>1 DEF IsDisplay
        <3>4. Band(d', cols) = Band(At(d.cycles + 1), cols) /\ Band(d, cols) = Band(At(d.cycles), cols)
            BY <3>3 DEF Band
        <3> QED  BY <3>1, <3>2, <3>4
    <2> QED  BY <2>4, <2>5, <2>6
<1> QED  BY <1>1, SizeIsInvariant, ScreenShowsTheFrame, PTL DEF Spec, BandScrollsByOne

=============================================================================
