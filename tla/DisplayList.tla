----------------------------- MODULE DisplayList -----------------------------
(***************************************************************************)
(* internal/displaylist: what the monitor and the command line make of     *)
(* ANTIC's display list.  Decode turns the bytes into instructions,        *)
(* RowRanges gives every screen line its piece of memory, ScreenSegments   *)
(* and Plan turn the lines into ranges of memory, and ReadRow (from the    *)
(* screen window) cuts the lines out of what was fetched.  A byte is a     *)
(* number 0..255, an address a number below Word; a range is [s, e).       *)
(* What only formats an instruction (CommandName, Description) is left out.*)
(***************************************************************************)
EXTENDS Integers, Sequences, SequencesExt, FiniteSetsExt, TLC

Word == 65536
NoAddr == -1

Flag(b, v) == (b \div v) % 2 = 1
Mode(b) == b % 16
Loads(b) == Flag(b, 64)                        \* LMS, or the V of JVB
Little(lo, hi) == lo + 256 * hi

HasArg(b) == Mode(b) = 1 \/ (Mode(b) # 0 /\ Loads(b))
EndsList(b) == Mode(b) = 1 /\ Loads(b)

\* The instructions of a dump: it ends at a JVB, at the end of the bytes or
\* at an instruction whose operand is cut off.
Decode(start, data) ==
    LET size(p) == IF HasArg(data[p]) THEN 3 ELSE 1
        entry(p) == [addr |-> (start + p - 1) % Word, cmd |-> data[p],
                     arg |-> IF HasArg(data[p]) THEN Little(data[p + 1], data[p + 2]) ELSE 0]
        rest[n \in 0..Len(data)] ==             \* the instructions of the last n bytes
            LET p == Len(data) - n + 1
            IN  IF n = 0 \/ size(p) > n THEN <<>>
                ELSE <<entry(p)>> \o (IF EndsList(data[p]) THEN <<>> ELSE rest[n - size(p)])
    IN  rest[Len(data)]

\* Equal neighbours are shown as one line with a count.
Counted(lines, e) ==
    IF lines # <<>> /\ Last(lines).entry.cmd = e.cmd /\ Last(lines).entry.arg = e.arg
    THEN [lines EXCEPT ![Len(lines)].count = @ + 1]
    ELSE Append(lines, [count |-> 1, entry |-> e])

Compacted(entries) ==
    LET lines[i \in 0..Len(entries)] ==
            IF i = 0 THEN <<>> ELSE Counted(lines[i - 1], entries[i])
    IN  lines[Len(entries)]

-----------------------------------------------------------------------------
(* Screen lines. *)

WidthBytes(dmactl) == CASE dmactl % 4 = 1 -> 32 [] dmactl % 4 = 3 -> 48 [] OTHER -> 40
HscrolWidthBytes(width) == IF width <= 32 THEN 40 ELSE 48
BytesPerLine(mode, width) ==
    CASE mode \in {0, 1} -> 0
      [] mode \in {6, 7, 10, 11, 12} -> width \div 2
      [] mode \in {8, 9} -> width \div 4
      [] OTHER -> width

Blank == [addr |-> NoAddr, length |-> 0, mode |-> 0]

\* One instruction's lines, and the address the next one continues at.  A JVB
\* ends the loop in the code; in a decoded list it is the last instruction.
RowStep(width, acc, e) ==
    LET mode == Mode(e.cmd)
        addr == IF Loads(e.cmd) THEN e.arg ELSE acc.addr
        n == BytesPerLine(mode, IF Flag(e.cmd, 16) THEN HscrolWidthBytes(width) ELSE width)
    IN  CASE mode = 0 -> [acc EXCEPT !.rows = @ \o [i \in 1..((e.cmd \div 16) % 8) + 1 |-> Blank]]
          [] mode = 1 \/ addr = NoAddr -> acc
          [] OTHER -> [rows |-> Append(acc.rows, [addr |-> addr, length |-> n, mode |-> mode]),
                       addr |-> (addr + n) % Word]

RowRanges(entries, dmactl) ==
    LET acc[i \in 0..Len(entries)] ==
            IF i = 0 THEN [rows |-> <<>>, addr |-> NoAddr]
            ELSE RowStep(WidthBytes(dmactl), acc[i - 1], entries[i])
    IN  acc[Len(entries)].rows

RowRangesWithModes(entries, dmactl) ==
    LET rows == RowRanges(entries, dmactl)
    IN  FlattenSeq([i \in DOMAIN rows |-> IF rows[i].mode = 0 THEN <<>> ELSE <<rows[i]>>])

-----------------------------------------------------------------------------
(* Ranges of memory. *)

\* A line that runs over the end of memory is two ranges.
Split(r) ==
    IF r.addr = NoAddr \/ r.length = 0 THEN <<>>
    ELSE LET e == r.addr + r.length
         IN  IF e <= Word THEN <<[s |-> r.addr, e |-> e, mode |-> r.mode]>>
             ELSE <<[s |-> r.addr, e |-> Word, mode |-> r.mode], [s |-> 0, e |-> e % Word, mode |-> r.mode]>>

Segments(rows) == FlattenSeq([i \in DOMAIN rows |-> Split(rows[i])])

\* Each range either extends the one before it, which by mode it does only if
\* both have the same, or starts a new one.
Extended(out, seg, byMode) ==
    IF /\ out # <<>>
       /\ Last(out).s <= seg.s /\ seg.s <= Last(out).e
       /\ byMode => seg.mode = Last(out).mode
    THEN [out EXCEPT ![Len(out)].e = Max({@, seg.e})]
    ELSE Append(out, seg)

Merge(segs, byMode) ==
    LET merged[i \in 0..Len(segs)] ==
            IF i = 0 THEN <<>> ELSE Extended(merged[i - 1], segs[i], byMode)
    IN  merged[Len(segs)]

\* Mutant: lines of different modes join.
ScreenSegments_AnyMode(entries, dmactl) ==
    Merge(Segments(RowRangesWithModes(entries, dmactl)), FALSE)

\* The screen command's segments: in the order of the lines, one mode each.
ScreenSegments(entries, dmactl) ==
    Merge(Segments(RowRangesWithModes(entries, dmactl)), TRUE)

\* A range in pieces of at most maxRead bytes.
Cut(seg, maxRead) ==
    [i \in 1..((seg.e - seg.s + maxRead - 1) \div maxRead) |->
        [s |-> seg.s + (i - 1) * maxRead, e |-> Min({seg.e, seg.s + i * maxRead})]]

\* Plan's insertion sort by the beginning: behind those that begin at the same byte.
Inserted(sorted, seg) ==
    LET at == CHOOSE k \in 0..Len(sorted) :
                  /\ \A i \in 1..k : sorted[i].s <= seg.s
                  /\ \A i \in k + 1..Len(sorted) : seg.s < sorted[i].s
    IN  SubSeq(sorted, 1, at) \o <<seg>> \o SubSeq(sorted, at + 1, Len(sorted))

Sorted(segs) ==
    LET sorted[i \in 0..Len(segs)] ==
            IF i = 0 THEN <<>> ELSE Inserted(sorted[i - 1], segs[i])
    IN  sorted[Len(segs)]

Pieces(segs, maxRead) == FlattenSeq([i \in DOMAIN segs |-> Cut(segs[i], maxRead)])

\* The lines that have memory.
Slices(rows) ==
    FlattenSeq([i \in DOMAIN rows |->
                   IF rows[i].addr = NoAddr \/ rows[i].length = 0 THEN <<>> ELSE <<rows[i]>>])

\* Mutant: a line within the one before it makes the range shorter.
Plan_LastEnd(rows, maxRead) ==
    LET sorted == Sorted(Segments(rows))
        merged[i \in 0..Len(sorted)] ==
            IF i = 0 THEN <<>>
            ELSE LET out == merged[i - 1]
                 IN  IF out # <<>> /\ sorted[i].s <= Last(out).e
                     THEN [out EXCEPT ![Len(out)].e = sorted[i].e]
                     ELSE Append(out, sorted[i])
    IN  [fetch |-> Pieces(merged[Len(sorted)], maxRead), slices |-> Slices(rows)]

\* The ranges to fetch, sorted and merged, and the lines to cut out of them.
Plan(rows, maxRead) ==
    [fetch |-> Pieces(Merge(Sorted(Segments(rows)), FALSE), maxRead), slices |-> Slices(rows)]

\* Mutant: only the piece with the beginning of the line is taken.
ReadRow_OnePiece(buffer, index, addr, ln) ==
    LET held == {i \in DOMAIN index : index[i].s <= addr /\ addr < index[i].e}
        it == index[Min(held)]
    IN  IF held = {} THEN <<>>
        ELSE SubSeq(buffer, it.off + addr - it.s + 1, it.off + Min({it.e, addr + ln}) - it.s)

\* monitor/screenbuffer.go: the bytes of a line, taken from the fetched ranges
\* one after the other; nothing when one is missing.  The address does not
\* wrap here as it does in Plan.
ReadRow(buffer, index, addr, ln) ==
    LET piece[n \in 0..ln] ==                   \* the last n bytes of the line
            LET cur == addr + ln - n
                held == {i \in DOMAIN index : index[i].s <= cur /\ cur < index[i].e}
                it == index[Min(held)]
                take == Min({n, it.e - cur})
                from == it.off + cur - it.s
            IN  CASE n = 0 -> <<>>
                  [] n > 0 /\ held = {} -> <<>>
                  [] n > 0 /\ held # {} /\ from + take > Len(buffer) -> <<>>
                  [] OTHER -> IF n > take /\ piece[n - take] = <<>> THEN <<>>
                              ELSE SubSeq(buffer, from + 1, from + take) \o piece[n - take]
    IN  piece[ln]
==============================================================================
