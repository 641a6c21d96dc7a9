------------------------- MODULE ScreenWindowsProofs -------------------------
(***************************************************************************)
(* What holds of the display list and screen buffer windows, and of the    *)
(* commands "dlist" and "screen", for every display list, every limit of a *)
(* call and every number of changes and failures: TLAPS proofs of the      *)
(* invariants of ScreenWindows.                                            *)
(*                                                                         *)
(* The operators of DisplayList are loops over instructions, lines and     *)
(* ranges.  What they return for every input is proved by induction on the *)
(* number of rounds: the set of rounds after which something holds has 0   *)
(* in it and with every number the next one.                               *)
(***************************************************************************)
EXTENDS ScreenWindows, SequenceTheorems, WellFoundedInduction, TLAPS

(***************************************************************************)
(* The inductive invariant.                                                *)
(***************************************************************************)

\* Bytes, addresses, instructions of a display list.
Bytes == 0 .. 255
Words == 0 .. Word - 1
Entries == [addr : Words, cmd : Bytes, arg : Words]

\* The programs and their next calls.
Names == {"monitor", "dlist", "screen", "segment", "raw"}
Places ==
    {"start", "vector", "dump", "dmactl", "hw", "decode", "plan", "fetch", "render", "stopped"}

\* Ranges of memory to fetch; those fetched, with their place in the buffer; a byte of the
\* screen is its address and the frame it was read in.
Ranges == [s : Nat, e : Nat]
Fetched == [s : Nat, e : Nat, off : Nat]
Cells == Words \X Nat

\* Lines of the screen window; the screen lines of a list, with memory and without; lines of
\* the display list window.
Lines == [addr : Int, data : Seq(Cells)]
Mapped == [addr : Words, length : 1 .. 48, mode : 2 .. 15]
Rows == Mapped \cup {Blank}
Shown == [count : Nat, entry : Entries]

\* The types of the variables; the output is the subject of Printed.
TypeOK ==
  /\ emulator \in [list : Lists, frame : Nat]
  /\ program \in [name : Names, pc : Places, changed : BOOLEAN, due : BOOLEAN]
  /\ reading \in [start : Words, dump : Seq(Bytes), dmactl : Bytes,
                  todo : Seq(Ranges), buffer : Seq(Cells), index : Seq(Fetched)]
  /\ dlist \in [start : Words, entries : Seq(Entries), dmactl : Bytes]

\* What DisplayListViewer compares.
Snapshots == Words \X Bytes \X Nat \X ({<<>>} \cup Bytes \X Words \X Bytes \X Words)

\* The types of the two windows.
WindowsOK ==
  /\ screenWindow \in [rows : Seq(Lines), snapshot : SUBSET Seq(Lines), shown : Seq(Lines),
                       planned : SUBSET Mapped]
  /\ listWindow \in [snapshot : SUBSET Snapshots, shown : Seq(Shown)]

\* The screen lines, the plan and the segments of the list last decoded.
TheRows == RowRanges(dlist.entries, dlist.dmactl)
ThePlan == Plan(TheRows, MaxRead)
TheSegments == ScreenSegments(dlist.entries, dlist.dmactl)

\* The ranges of an index, without their places.
RangesOf(index) == [i \in DOMAIN index |-> [s |-> index[i].s, e |-> index[i].e]]

\* The buffer holds the ranges of the index one behind the other, each with its own bytes.
BufferOK(buffer, index) ==
  /\ \A j \in DOMAIN index :
        /\ index[j].s <= index[j].e
        /\ index[j].off + (index[j].e - index[j].s) <= Len(buffer)
        /\ \A k \in 0 .. index[j].e - index[j].s - 1 :
              buffer[index[j].off + k + 1][1] = (index[j].s + k) % Word
        /\ index[j].off = IF j = 1 THEN 0
                          ELSE index[j - 1].off + (index[j - 1].e - index[j - 1].s)
  /\ Len(buffer) = IF index = <<>> THEN 0
                   ELSE LET l == index[Len(index)] IN l.off + (l.e - l.s)

\* The memory of the lines, one range each.
SliceRanges == [i \in DOMAIN ThePlan.slices |->
                  [s |-> ThePlan.slices[i].addr,
                   e |-> ThePlan.slices[i].addr + ThePlan.slices[i].length]]

\* What a program sets out to fetch.
Plans(ranges) ==
  /\ program.name = "monitor" => ranges = ThePlan.fetch
  /\ program.name = "screen" => ranges = SliceRanges
  /\ program.name = "segment" =>
         \E i \in DOMAIN TheSegments : ranges = Cut(TheSegments[i], MaxRead)
  /\ program.name # "dlist"

\* What is fetched and what is left to fetch are together what the program set out to fetch.
Planned ==
  /\ Plans(RangesOf(reading.index) \o reading.todo)
  /\ \A i \in DOMAIN reading.todo : reading.todo[i].s <= reading.todo[i].e

\* Between the calls of a fetch.
Reads == program.pc = "fetch" => BufferOK(reading.buffer, reading.index) /\ Planned

\* The raw command put segments together that do not lie one behind the other.
Joined == program.name = "raw" /\ \E i \in DOMAIN reading.index :
                      i > 1 /\ reading.index[i].s # reading.index[i - 1].e

\* A line has the bytes of its addresses, in order.
InOrder(l) == \A i \in DOMAIN l.data : l.data[i][1] = (l.addr + i - 1) % Word

\* The screen window has its lines, all but those that wrap, each in order.
Windowed ==
  /\ \A l \in ToSet(screenWindow.rows) : InOrder(l)
  /\ {<<l.addr, Len(l.data)>> : l \in ToSet(screenWindow.rows)} =
         {<<r.addr, r.length>> : r \in {p \in screenWindow.planned : p.addr + p.length <= Word}}

\* A command prints at its end, and what it prints is in order.
Printed ==
  /\ output # <<>> => program.pc = "stopped"
  /\ ~Joined => \A l \in ToSet(output) : InOrder(l)

\* What the lines on the screen have in common with the instructions of a list.
Agrees(lines, entries) ==
  /\ Counts(lines)[Len(lines)] = Len(entries)
  /\ entries # <<>> =>
        /\ Head(lines).entry = Head(entries)
        /\ Last(lines).entry.cmd = Last(entries).cmd
        /\ Last(lines).entry.arg = Last(entries).arg

\* The snapshots are of the last list and of the rows; without one there are no rows.
Current ==
  /\ dlist.entries # <<>> => Head(dlist.entries).addr = dlist.start
  /\ listWindow.snapshot \in {{}, {Snapshot(dlist)}}
  /\ screenWindow.snapshot \in {{}, {screenWindow.rows}}
  /\ screenWindow.snapshot = {} => screenWindow.rows = <<>>

\* A change is noted and not yet rendered, or what is on the screen is what was last read, as
\* far as the snapshots tell.
OnScreen ==
  (program.pc \in {"plan", "fetch", "render"} /\ program.changed)
     \/ (Agrees(listWindow.shown, dlist.entries) /\ screenWindow.shown = screenWindow.rows)

\* The inductive invariant; its last part is about the monitor alone.
IInv ==
  /\ TypeOK /\ WindowsOK /\ Reads /\ Windowed /\ Printed
  /\ InMonitor => Current /\ OnScreen

\* Ranges with a mode; the accumulator of RowRanges; sorted sequences of ranges.
Segs == {r \in [s : Words, e : 1 .. Word, mode : 2 .. 15] : r.s < r.e}
Accs == [rows : Seq(Rows), addr : Words \cup {NoAddr}]
SortedSegs == {t \in Seq(Segs) : \A i, j \in DOMAIN t : i < j => t[i].s <= t[j].s}

\* A range of a mode in M holds the address a.
Covers(S, a, M) == \E r \in S : r.s <= a /\ a < r.e /\ r.mode \in M

\* The ranges lie in order with gaps between them.
Apart(s) == \A i, j \in DOMAIN s : i < j => s[i].e < s[j].s

(***************************************************************************)
(* Induction, and functions defined by recursion.                          *)
(***************************************************************************)

\* A set of natural numbers that is not empty has a least one.
LEMMA LeastOf ==
  ASSUME NEW S \in SUBSET Nat, S # {}
  PROVE  \E x \in S : \A y \in S : x <= y
  <1> DEFINE R == {ss \in Nat \X Nat : ss[1] < ss[2]}
  <1>1. IsWellFoundedOn(R, Nat)
    BY NatLessThanWellFounded DEF OpToRel
  <1>2. PICK x \in S : \A y \in S : <<y, x>> \notin R
    BY <1>1, WFMin
  <1>3. \A y \in S : x <= y
    <2> TAKE y \in S
    <2>1. x \in Nat /\ y \in Nat /\ <<y, x>> \in Nat \X Nat
      BY <1>2
    <2>2. <<y, x>>[1] = y /\ <<y, x>>[2] = x
      OBVIOUS
    <2>3. ~(y < x)
      BY <1>2, <2>1, <2>2
    <2>4. QED
      BY <2>1, <2>3
  <1>4. QED
    BY <1>3

\* Induction up to n, on the set of numbers for which something holds.
LEMMA UpTo ==
  ASSUME NEW n \in Nat, NEW G, 0 \in G, \A i \in 1 .. n : i - 1 \in G => i \in G
  PROVE  0 .. n \subseteq G
  <1> DEFINE B == {i \in 0 .. n : i \notin G}
  <1>1. ASSUME B # {} PROVE FALSE
    <2>1. B \in SUBSET Nat
      OBVIOUS
    <2>2. PICK x \in B : \A y \in B : x <= y
      BY <1>1, <2>1, LeastOf
    <2>3. x \in 1 .. n /\ x \notin G
      OBVIOUS
    <2>4. x - 1 \in 0 .. n /\ x - 1 \notin B
      BY <2>2, <2>3
    <2>5. QED
      BY <2>3, <2>4
  <1>2. QED
    BY <1>1

\* The same with all smaller numbers as the hypothesis.
LEMMA Strongly ==
  ASSUME NEW n \in Nat, NEW G, \A i \in 0 .. n : (\A j \in 0 .. n : j < i => j \in G) => i \in G
  PROVE  0 .. n \subseteq G
  <1> DEFINE B == {i \in 0 .. n : i \notin G}
  <1>1. ASSUME B # {} PROVE FALSE
    <2>1. B \in SUBSET Nat
      OBVIOUS
    <2>2. PICK x \in B : \A y \in B : x <= y
      BY <1>1, <2>1, LeastOf
    <2>3. x \in 0 .. n /\ x \notin G
      OBVIOUS
    <2>4. ASSUME NEW j \in 0 .. n, j < x PROVE j \in G
      <3>1. j \notin B
        BY <2>2, <2>3, <2>4
      <3>2. QED
        BY <3>1
    <2>5. QED
      BY <2>3, <2>4
  <1>2. QED
    BY <1>1

\* A step p that uses only what was computed for smaller numbers.
LooksBack(step, n, X) ==
  /\ step \in [0 .. n -> [[0 .. n -> X] -> X]]
  /\ \A p \in 0 .. n : \A g, h \in [0 .. n -> X] :
        (\A q \in 0 .. n : q < p => g[q] = h[q]) => step[p][g] = step[p][h]

\* A function computed by the steps.
Computes(f, step, n) == \A p \in 0 .. n : f[p] = step[p][f]

\* A function that goes through a sequence of steps one by one.
Folds(f, base, step, n) == f[0] = base /\ \A i \in 1 .. n : f[i] = step[i][f[i - 1]]

\* Such steps compute a function, so that a recursive definition, which is a CHOOSE, has the
\* value its body says: by recursion on the numbers.
LEMMA Recursion ==
  ASSUME NEW n \in Nat, NEW X, X # {}, NEW step, LooksBack(step, n, X)
  PROVE  \E f \in [0 .. n -> X] : Computes(f, step, n)
  <1> USE DEF LooksBack
  <1> PICK x0 \in X : TRUE
    OBVIOUS
  <1> DEFINE G == {m \in Nat : \E f \in [0 .. n -> X] :
                      \A p \in 0 .. n : p < m => f[p] = step[p][f]}
  <1>1. 0 \in G
    <2>1. [p \in 0 .. n |-> x0] \in [0 .. n -> X] /\ \A p \in 0 .. n : ~(p < 0)
      OBVIOUS
    <2>2. QED
      BY <2>1
  <1>2. ASSUME NEW m \in 1 .. n + 1, m - 1 \in G PROVE m \in G
    <2>1. PICK g \in [0 .. n -> X] : \A p \in 0 .. n : p < m - 1 => g[p] = step[p][g]
      BY <1>2
    <2>2. m - 1 \in 0 .. n /\ m \in Nat
      OBVIOUS
    <2> DEFINE v == step[m - 1][g]
               f == [p \in 0 .. n |-> IF p = m - 1 THEN v ELSE g[p]]
    <2>3. v \in X
      BY <2>2
    <2> HIDE DEF v
    <2>4. f \in [0 .. n -> X] /\ f[m - 1] = v /\ \A q \in 0 .. n : q < m - 1 => f[q] = g[q]
      BY <2>2, <2>3
    <2> HIDE DEF f
    <2>5. ASSUME NEW p \in 0 .. n, p < m PROVE f[p] = step[p][f]
      <3>1. \A q \in 0 .. n : q < p => f[q] = g[q]
        BY <2>2, <2>4, <2>5
      <3>2. step[p][f] = step[p][g]
        BY <2>4, <3>1
      <3>3. CASE p = m - 1
        BY <2>4, <3>2, <3>3 DEF v
      <3>4. CASE p # m - 1
        <4>1. p < m - 1
          BY <2>2, <2>5, <3>4
        <4>2. QED
          BY <2>1, <2>4, <3>2, <4>1
      <3>5. QED
        BY <3>3, <3>4
    <2>6. QED
      BY <2>2, <2>4, <2>5
  <1> HIDE DEF G
  <1>3. n + 1 \in G
    <2>1. n + 1 \in Nat /\ n + 1 \in 0 .. n + 1
      OBVIOUS
    <2>2. QED
      BY <1>1, <1>2, <2>1, UpTo
  <1>4. PICK f \in [0 .. n -> X] : \A p \in 0 .. n : p < n + 1 => f[p] = step[p][f]
    BY <1>3 DEF G
  <1>5. Computes(f, step, n)
    BY <1>4 DEF Computes
  <1>6. QED
    BY <1>5

\* A loop over a sequence computes a function of the number of rounds.
LEMMA Fold ==
  ASSUME NEW n \in Nat, NEW X, NEW base \in X, NEW step \in [1 .. n -> [X -> X]]
  PROVE  \E f \in [0 .. n -> X] : Folds(f, base, step, n)
  <1> DEFINE s == [p \in 0 .. n |->
                     [g \in [0 .. n -> X] |-> IF p = 0 THEN base ELSE step[p][g[p - 1]]]]
  <1>1. ASSUME NEW p \in 0 .. n, NEW g \in [0 .. n -> X]
        PROVE  (IF p = 0 THEN base ELSE step[p][g[p - 1]]) \in X
    <2>1. CASE p # 0
      <3>1. p \in 1 .. n /\ p - 1 \in 0 .. n
        BY <2>1
      <3>2. QED
        BY <2>1, <3>1
    <2>2. QED
      BY <2>1
  <1>2. s \in [0 .. n -> [[0 .. n -> X] -> X]]
    BY <1>1
  <1>3. ASSUME NEW p \in 0 .. n, NEW g \in [0 .. n -> X], NEW h \in [0 .. n -> X],
               \A q \in 0 .. n : q < p => g[q] = h[q]
        PROVE  s[p][g] = s[p][h]
    <2>1. s[p][g] = (IF p = 0 THEN base ELSE step[p][g[p - 1]])
      OBVIOUS
    <2>2. s[p][h] = (IF p = 0 THEN base ELSE step[p][h[p - 1]])
      OBVIOUS
    <2>3. CASE p # 0
      <3>1. p - 1 \in 0 .. n /\ p - 1 < p
        BY <2>3
      <3>2. g[p - 1] = h[p - 1]
        BY <1>3, <3>1
      <3>3. QED
        BY <2>1, <2>2, <3>2
    <2>4. QED
      BY <2>1, <2>2, <2>3
  <1>4. \A p \in 0 .. n : \A g \in [0 .. n -> X] :
            s[p][g] = (IF p = 0 THEN base ELSE step[p][g[p - 1]])
    OBVIOUS
  <1> HIDE DEF s
  <1>5. LooksBack(s, n, X) /\ X # {}
    BY <1>2, <1>3 DEF LooksBack
  <1>6. PICK f \in [0 .. n -> X] : Computes(f, s, n)
    BY <1>5, Recursion
  <1>7. \A i \in 1 .. n : i \in 0 .. n /\ i # 0
    OBVIOUS
  <1>8. f[0] = base /\ \A i \in 1 .. n : f[i] = step[i][f[i - 1]]
    BY <1>4, <1>6, <1>7 DEF Computes
  <1>9. QED
    BY <1>8 DEF Folds

(***************************************************************************)
(* Numbers and sequences.                                                  *)
(***************************************************************************)

\* The larger of two numbers.
LEMMA MaxOf ==
  ASSUME NEW a \in Int, NEW b \in Int
  PROVE  Max({a, b}) = IF a >= b THEN a ELSE b
  <1> DEFINE m == IF a >= b THEN a ELSE b
  <1>1. m \in {a, b} /\ \A y \in {a, b} : m >= y
    OBVIOUS
  <1>2. \A x \in {a, b} : (\A y \in {a, b} : x >= y) => x = m
    OBVIOUS
  <1> HIDE DEF m
  <1>3. Max({a, b}) = m
    BY <1>1, <1>2 DEF Max
  <1>4. QED
    BY <1>3 DEF m

\* The smaller of two numbers.
LEMMA MinOf ==
  ASSUME NEW a \in Int, NEW b \in Int
  PROVE  Min({a, b}) = IF a <= b THEN a ELSE b
  <1> DEFINE m == IF a <= b THEN a ELSE b
  <1>1. m \in {a, b} /\ \A y \in {a, b} : m <= y
    OBVIOUS
  <1>2. \A x \in {a, b} : (\A y \in {a, b} : x <= y) => x = m
    OBVIOUS
  <1> HIDE DEF m
  <1>3. Min({a, b}) = m
    BY <1>1, <1>2 DEF Min
  <1>4. QED
    BY <1>3 DEF m

\* What is used of the number of addresses; its value is not needed.
LEMMA WordIs ==
  /\ Word \in Nat /\ Word > 255 /\ Words \subseteq Nat
  /\ NoAddr \notin Words /\ 0 \in Words
  BY DEF Word, Words, NoAddr

\* The loop in FlattenSeq.
FlattensBy(f, ss, n) ==
  f[0] = <<>> /\ (\A i \in 1 .. n : f[i] = f[i - 1] \o ss[i]) /\ FlattenSeq(ss) = f[n]

\* FlattenSeq is the concatenation of its sequences.
LEMMA FlattenFold ==
  ASSUME NEW X, NEW n \in Nat, NEW ss \in [1 .. n -> Seq(X)]
  PROVE  \E f \in [0 .. n -> Seq(X)] : FlattensBy(f, ss, n)
  <1> DEFINE S == Seq(X)
             step == [i \in 1 .. n |-> [x \in S |-> x \o ss[i]]]
             h == CHOOSE h : h = [i \in 1 .. n |-> IF i = 1 THEN ss[i] ELSE h[i - 1] \o ss[i]]
  <1>1. ss \in Seq(S) /\ Len(ss) = n /\ <<>> \in S
    <2>1. ss \in Seq(S)
      BY SeqDef
    <2>2. DOMAIN ss = 1 .. n /\ DOMAIN ss = 1 .. Len(ss) /\ Len(ss) \in Nat
      BY <2>1, LenProperties
    <2>3. QED
      BY <2>1, <2>2, EmptySeq
  <1>2. \A i \in 1 .. n : \A x \in S : x \o ss[i] \in S
    BY ConcatProperties
  <1>3. step \in [1 .. n -> [S -> S]] /\ \A i \in 1 .. n : \A x \in S : step[i][x] = x \o ss[i]
    BY <1>2
  <1> HIDE DEF step
  <1>4. PICK f \in [0 .. n -> S] : Folds(f, <<>>, step, n)
    BY <1>1, <1>3, Fold
  <1>5. f[0] = <<>> /\ \A i \in 1 .. n : f[i] = f[i - 1] \o ss[i]
    <2>1. \A i \in 1 .. n : i - 1 \in 0 .. n
      OBVIOUS
    <2>2. QED
      BY <1>3, <1>4, <2>1 DEF Folds
  <1>8. 1 \in 1 .. n => f[1] = <<>> \o ss[1] /\ ss[1] \in S
    <2>1. ASSUME 1 \in 1 .. n PROVE f[1] = <<>> \o ss[1]
      <3>1. f[1] = f[1 - 1] \o ss[1]
        BY <1>5, <2>1
      <3>2. 1 - 1 = 0
        OBVIOUS
      <3>3. QED
        BY <1>5, <3>1, <3>2
    <2>2. QED
      BY <2>1
  <1>6. CASE n = 0
    <2>1. FlattenSeq(ss) = ss /\ ss = <<>>
      BY <1>1, <1>6, EmptySeq DEF FlattenSeq
    <2>2. FlattensBy(f, ss, n)
      BY <1>5, <1>6, <2>1 DEF FlattensBy
    <2>3. QED
      BY <2>2
  <1>7. CASE n # 0
    <2> DEFINE g == [i \in 1 .. n |-> f[i]]
    <2>1. g = [i \in 1 .. n |-> IF i = 1 THEN ss[i] ELSE g[i - 1] \o ss[i]]
      <3>1. ASSUME NEW i \in 1 .. n PROVE g[i] = IF i = 1 THEN ss[i] ELSE g[i - 1] \o ss[i]
        <4>1. CASE i = 1
          <5>1. f[1] = <<>> \o ss[1] /\ ss[1] \in S
            BY <1>8, <4>1
          <5>2. QED
            BY <4>1, <5>1, ConcatEmptySeq
        <4>2. CASE i # 1
          <5>1. i - 1 \in 1 .. n
            BY <4>2
          <5>2. QED
            BY <1>5, <4>2, <5>1
        <4>3. QED
          BY <4>1, <4>2
      <3>2. QED
        BY <3>1
    <2> HIDE DEF g
    <2>2. h = [i \in 1 .. n |-> IF i = 1 THEN ss[i] ELSE h[i - 1] \o ss[i]]
      BY <2>1
    <2>8. \A i \in 1 .. n : h[i] = IF i = 1 THEN ss[i] ELSE h[i - 1] \o ss[i]
      BY <2>2
    <2> HIDE DEF h
    <2>3. FlattenSeq(ss) = h[n]
      BY <1>1, <1>7 DEF FlattenSeq, h
    <2> DEFINE G == {i \in 0 .. n : i = 0 \/ h[i] = f[i]}
    <2>4. 0 .. n \subseteq G
      <3>1. 0 \in G
        OBVIOUS
      <3>2. ASSUME NEW i \in 1 .. n, i - 1 \in G PROVE i \in G
        <4>1. CASE i = 1
          <5>1. f[1] = <<>> \o ss[1] /\ ss[1] \in S
            BY <1>8, <4>1
          <5>2. h[1] = ss[1]
            BY <2>8, <4>1
          <5>3. QED
            BY <4>1, <5>1, <5>2, ConcatEmptySeq
        <4>2. CASE i # 1
          <5>1. h[i] = h[i - 1] \o ss[i]
            BY <2>8, <4>2
          <5>3. h[i - 1] = f[i - 1]
            BY <3>2, <4>2
          <5>2. f[i] = f[i - 1] \o ss[i]
            BY <1>5
          <5>4. h[i] = f[i]
            BY <5>1, <5>2, <5>3
          <5>5. QED
            BY <5>4
        <4>3. QED
          BY <4>1, <4>2
      <3> HIDE DEF G
      <3>3. QED
        BY <3>1, <3>2, UpTo
    <2>5. h[n] = f[n]
      BY <1>7, <2>4
    <2>6. FlattensBy(f, ss, n)
      BY <1>5, <2>3, <2>5 DEF FlattensBy
    <2>7. QED
      BY <2>6
  <1>9. QED
    BY <1>6, <1>7

\* A line is counted up or added.
LEMMA CountedType ==
  ASSUME NEW lines \in Seq(Shown), NEW e \in Entries
  PROVE  Counted(lines, e) \in Seq(Shown)
  <1>1. CASE lines # <<>>
    <2> DEFINE l == Len(lines)
               new == [lines[l] EXCEPT !.count = @ + 1]
    <2>1. l \in 1 .. Len(lines) /\ lines[l] \in Shown
      BY <1>1, EmptySeq, LenProperties, ElementOfSeq
    <2>2. new \in Shown
      BY <2>1 DEF Shown
    <2>3. [lines EXCEPT ![l].count = @ + 1] = [lines EXCEPT ![l] = new]
      BY <2>1
    <2>4. [lines EXCEPT ![l] = new] \in Seq(Shown)
      BY <2>1, <2>2, ExceptSeq
    <2>5. Append(lines, [count |-> 1, entry |-> e]) \in Seq(Shown)
      BY AppendProperties DEF Shown
    <2>6. QED
      BY <2>3, <2>4, <2>5 DEF Counted
  <1>2. CASE lines = <<>>
    <2>1. Append(lines, [count |-> 1, entry |-> e]) \in Seq(Shown)
      BY AppendProperties DEF Shown
    <2>2. QED
      BY <1>2, <2>1 DEF Counted
  <1>3. QED
    BY <1>1, <1>2

\* A range is extended or added.
LEMMA ExtendedType ==
  ASSUME NEW out \in Seq(Segs), NEW seg \in Segs, NEW byMode
  PROVE  Extended(out, seg, byMode) \in Seq(Segs)
  <1>1. Append(out, seg) \in Seq(Segs)
    BY AppendProperties
  <1>2. CASE out # <<>>
    <2> DEFINE l == Len(out)
               new == [out[l] EXCEPT !.e = Max({@, seg.e})]
    <2>1. l \in 1 .. Len(out) /\ out[l] \in Segs
      BY <1>2, EmptySeq, LenProperties, ElementOfSeq
    <2>2. out[l].e \in 1 .. Word /\ seg.e \in 1 .. Word
      BY <2>1 DEF Segs
    <2>3. Max({out[l].e, seg.e}) \in 1 .. Word /\ Max({out[l].e, seg.e}) >= out[l].e
      BY <2>2, MaxOf, WordIs
    <2>4. new \in Segs
      <3>1. out[l] \in [s : Words, e : 1 .. Word, mode : 2 .. 15] /\ out[l].s < out[l].e
        BY <2>1 DEF Segs
      <3>2. new = [s |-> out[l].s, e |-> Max({out[l].e, seg.e}), mode |-> out[l].mode]
        BY <3>1
      <3>3. out[l].s \in Words /\ out[l].mode \in 2 .. 15 /\ out[l].s < Max({out[l].e, seg.e})
        BY <2>2, <2>3, <3>1, WordIs DEF Words
      <3>4. QED
        BY <2>3, <3>2, <3>3 DEF Segs
    <2>5. [out EXCEPT ![l].e = Max({@, seg.e})] = [out EXCEPT ![l] = new]
      BY <2>1
    <2>6. [out EXCEPT ![l] = new] \in Seq(Segs)
      BY <2>1, <2>4, ExceptSeq
    <2>7. QED
      BY <1>1, <2>5, <2>6 DEF Extended
  <1>3. CASE out = <<>>
    BY <1>1, <1>3 DEF Extended
  <1>4. QED
    BY <1>2, <1>3

\* The members of a sequence.
LEMMA InSeq ==
  ASSUME NEW X, NEW s \in Seq(X)
  PROVE  /\ Len(s) \in Nat /\ DOMAIN s = 1 .. Len(s) /\ \A i \in 1 .. Len(s) : s[i] \in X
         /\ ToSet(s) \subseteq X /\ (s = <<>> <=> Len(s) = 0)
         /\ \A x : x \in ToSet(s) <=> \E i \in 1 .. Len(s) : x = s[i]
  <1>1. Len(s) \in Nat /\ DOMAIN s = 1 .. Len(s) /\ \A i \in 1 .. Len(s) : s[i] \in X
    BY LenProperties, ElementOfSeq
  <1>2. s = <<>> <=> Len(s) = 0
    BY EmptySeq
  <1>3. QED
    BY <1>1, <1>2 DEF ToSet

\* A number below the divisor is its own remainder.
LEMMA SmallMod ==
  ASSUME NEW a \in Nat, NEW b \in Nat, a < b
  PROVE  a % b = a
  OBVIOUS

\* A remainder is an address.
LEMMA ModIn ==
  ASSUME NEW a \in Int
  PROVE  a % Word \in 0 .. Word - 1
  BY DEF Word

\* Addresses wrap around.
LEMMA ModWord ==
  ASSUME NEW a \in Int
  PROVE  /\ a % Word \in Words
         /\ a \in Words => a % Word = a
         /\ (a - Word) % Word = a % Word
  <1>1. a % Word \in Words
    BY ModIn DEF Words
  <1>2. a \in Words => a % Word = a
    <2>1. ASSUME a \in Words PROVE a % Word = a
      <3>1. a \in Nat /\ Word \in Nat /\ a < Word
        BY <2>1, WordIs DEF Words
      <3>2. QED
        BY <3>1, SmallMod
    <2>2. QED
      BY <2>1
  <1>3. (a - Word) % Word = a % Word
    BY DEF Word
  <1>4. QED
    BY <1>1, <1>2, <1>3

\* The mode and the blank lines of an instruction are numbers in their bounds.
LEMMA ByteParts ==
  ASSUME NEW b \in 0 .. 255
  PROVE  Mode(b) \in 0 .. 15 /\ ((b \div 16) % 8) + 1 \in Nat
  BY DEF Mode

\* A line has between 1 and 48 bytes, and none in the modes without memory.
LEMMA ByteCounts ==
  ASSUME NEW width \in {32, 40, 48}, NEW mode \in 0 .. 15
  PROVE  /\ BytesPerLine(mode, width) \in 0 .. 48 /\ HscrolWidthBytes(width) \in {32, 40, 48}
         /\ mode \notin {0, 1} => BytesPerLine(mode, width) > 0
  <1>1. width \div 2 \in {16, 20, 24} /\ width \div 4 \in {8, 10, 12}
    OBVIOUS
  <1>2. QED
    BY <1>1 DEF BytesPerLine, HscrolWidthBytes

\* One instruction adds screen lines that are well formed.
LEMMA RowStepType ==
  ASSUME NEW acc \in Accs, NEW e \in Entries, NEW width \in {32, 40, 48}
  PROVE  RowStep(width, acc, e) \in Accs
  <1> DEFINE mode == Mode(e.cmd)
             addr == IF Loads(e.cmd) THEN e.arg ELSE acc.addr
             n == BytesPerLine(mode, IF Flag(e.cmd, 16) THEN HscrolWidthBytes(width) ELSE width)
             row == [addr |-> addr, length |-> n, mode |-> mode]
             k == ((e.cmd \div 16) % 8) + 1
             blanks == [i \in 1 .. k |-> Blank]
  <1>1. /\ e.cmd \in 0 .. 255 /\ e.arg \in Words /\ acc.rows \in Seq(Rows)
        /\ acc.addr \in Words \cup {NoAddr}
    BY DEF Entries, Accs, Bytes
  <1>2. mode \in 0 .. 15 /\ k \in Nat
    BY <1>1, ByteParts
  <1>3. addr \in Words \cup {NoAddr}
    BY <1>1
  <1>4. n \in 0 .. 48 /\ (mode \notin {0, 1} => n > 0)
    BY <1>2, ByteCounts
  <1>5. blanks \in Seq(Rows)
    <2>1. Blank \in Rows
      BY DEF Rows
    <2>2. blanks \in [1 .. k -> Rows]
      BY <2>1
    <2> HIDE DEF blanks, k
    <2>3. QED
      BY <1>2, <2>2, SeqDef
  <1>6. RowStep(width, acc, e) =
           CASE mode = 0 -> [acc EXCEPT !.rows = @ \o blanks]
             [] mode = 1 \/ addr = NoAddr -> acc
             [] OTHER -> [rows |-> Append(acc.rows, row), addr |-> (addr + n) % Word]
    BY DEF RowStep
  <1> HIDE DEF mode, addr, n, k, blanks, row
  <1>7. acc.rows \o blanks \in Seq(Rows)
    BY <1>1, <1>5, ConcatProperties
  <1>8. ASSUME addr # NoAddr, mode # 0, mode # 1
        PROVE  [rows |-> Append(acc.rows, row), addr |-> (addr + n) % Word] \in Accs
    <2>1. row \in Rows
      <3>1. addr \in Words /\ n \in 1 .. 48 /\ mode \in 2 .. 15
        BY <1>2, <1>3, <1>4, <1>8
      <3>2. QED
        BY <3>1 DEF Rows, Mapped, row
    <2>2. Append(acc.rows, row) \in Seq(Rows)
      BY <1>1, <2>1, AppendProperties
    <2>3. addr + n \in Int
      BY <1>3, <1>4, <1>8 DEF Words
    <2>4. (addr + n) % Word \in Words
      BY <2>3, ModWord
    <2>5. QED
      BY <2>2, <2>4 DEF Accs
  <1>9. [acc EXCEPT !.rows = @ \o blanks] \in Accs
    BY <1>7 DEF Accs
  <1>10. QED
    <2>1. CASE mode = 0
      BY <1>6, <1>9, <2>1
    <2>2. CASE mode # 0 /\ (mode = 1 \/ addr = NoAddr)
      BY <1>6, <2>2
    <2>3. CASE mode # 0 /\ mode # 1 /\ addr # NoAddr
      BY <1>6, <1>8, <2>3
    <2>4. QED
      BY <2>1, <2>2, <2>3

\* A range is put into a sorted sequence: it stays sorted and has that range more.
LEMMA InsertedIs ==
  ASSUME NEW t \in SortedSegs, NEW seg \in Segs
  PROVE  /\ Inserted(t, seg) \in SortedSegs
         /\ \A x : x \in ToSet(Inserted(t, seg)) <=> x \in ToSet(t) \/ x = seg
  <1> DEFINE n == Len(t)
             Here(k) == /\ \A i \in 1 .. k : t[i].s <= seg.s
                        /\ \A i \in k + 1 .. n : seg.s < t[i].s
  <1>1. /\ t \in Seq(Segs) /\ n \in Nat /\ \A i \in 1 .. n : t[i] \in Segs /\ t[i].s \in Nat
        /\ \A i, j \in 1 .. n : i < j => t[i].s <= t[j].s
        /\ seg.s \in Nat
    <2>1. t \in Seq(Segs)
      BY DEF SortedSegs
    <2>2. n \in Nat /\ DOMAIN t = 1 .. n /\ \A i \in 1 .. n : t[i] \in Segs
      BY <2>1, InSeq
    <2>3. \A r \in Segs : r.s \in Nat
      BY WordIs DEF Segs
    <2>4. QED
      BY <2>1, <2>2, <2>3 DEF SortedSegs
  <1> HIDE DEF n
  <1>2. \E k \in 0 .. n : Here(k)
    <2> DEFINE B == {k \in 0 .. n : \A i \in k + 1 .. n : seg.s < t[i].s}
    <2>1. n \in B
      BY <1>1
    <2>2. B \in SUBSET Nat
      BY <1>1
    <2>3. PICK k \in B : \A m \in B : k <= m
      BY <2>1, <2>2, LeastOf
    <2>4. ASSUME NEW i \in 1 .. k PROVE t[i].s <= seg.s
      <3>1. k \in 1 .. n /\ k - 1 \in 0 .. n /\ i \in 1 .. n /\ k - 1 \notin B
        BY <1>1, <2>3
      <3>2. PICK j \in k .. n : ~(seg.s < t[j].s)
        BY <3>1
      <3>3. j = k
        BY <2>3, <3>1, <3>2
      <3>4. t[k].s <= seg.s
        BY <1>1, <3>1, <3>2, <3>3
      <3>5. t[i].s <= t[k].s
        BY <1>1, <3>1
      <3>6. QED
        BY <1>1, <3>1, <3>4, <3>5
    <2>5. k \in 0 .. n /\ Here(k)
      BY <2>3, <2>4
    <2>6. QED
      BY <2>5
  <1> DEFINE at == CHOOSE k \in 0 .. n : Here(k)
             a == SubSeq(t, 1, at)
             b == SubSeq(t, at + 1, n)
             u == a \o <<seg>> \o b
  <1>3. at \in 0 .. n /\ Here(at)
    BY <1>2
  <1>4. Inserted(t, seg) = u
    BY DEF Inserted, n
  <1> HIDE DEF at, Here
  <1>5. /\ a \in Seq(Segs) /\ Len(a) = at /\ \A i \in 1 .. at : a[i] = t[i]
    BY <1>1, <1>3, SubSeqProperties
  <1>6. /\ b \in Seq(Segs) /\ Len(b) = n - at /\ \A i \in 1 .. n - at : b[i] = t[at + i]
    <2>1. \A i \in at + 1 .. n : t[i] \in Segs
      BY <1>1, <1>3
    <2>2. /\ b \in Seq(Segs) /\ Len(b) = (IF at + 1 <= n THEN n - (at + 1) + 1 ELSE 0)
          /\ \A i \in 1 .. n - (at + 1) + 1 : b[i] = t[at + 1 + i - 1]
      BY <1>1, <1>3, <2>1, SubSeqProperties
    <2>3. QED
      BY <1>1, <1>3, <2>2
  <1> HIDE DEF a, b
  <1>7. <<seg>> \in Seq(Segs) /\ Len(<<seg>>) = 1 /\ <<seg>>[1] = seg
    OBVIOUS
  <1>8. /\ a \o <<seg>> \in Seq(Segs) /\ Len(a \o <<seg>>) = at + 1
        /\ \A i \in 1 .. at + 1 : (a \o <<seg>>)[i] = IF i <= at THEN t[i] ELSE seg
    <2>1. /\ a \o <<seg>> \in Seq(Segs) /\ Len(a \o <<seg>>) = at + 1
          /\ \A i \in 1 .. at + 1 : (a \o <<seg>>)[i] = IF i <= at THEN a[i]
                                                        ELSE <<seg>>[i - at]
      BY <1>5, <1>7, ConcatProperties
    <2>2. ASSUME NEW i \in 1 .. at + 1 PROVE (a \o <<seg>>)[i] = IF i <= at THEN t[i] ELSE seg
      <3>1. CASE i <= at
        BY <1>3, <1>5, <2>1, <3>1
      <3>2. CASE ~(i <= at)
        <4>1. i - at = 1
          BY <1>3, <3>2
        <4>2. QED
          BY <1>7, <2>1, <3>2, <4>1
      <3>3. QED
        BY <3>1, <3>2
    <2>3. QED
      BY <2>1, <2>2
  <1>9. /\ u \in Seq(Segs) /\ Len(u) = n + 1
        /\ \A i \in 1 .. n + 1 :
               u[i] = IF i <= at THEN t[i] ELSE IF i = at + 1 THEN seg ELSE t[i - 1]
    <2> DEFINE c == a \o <<seg>>
    <2>a. c \in Seq(Segs) /\ Len(c) = at + 1 /\ u = c \o b
      BY <1>8
    <2> HIDE DEF c, u
    <2>b. at + 1 + (n - at) = n + 1
      BY <1>1, <1>3
    <2>c. /\ c \o b \in Seq(Segs) /\ Len(c \o b) = Len(c) + Len(b)
          /\ \A i \in 1 .. Len(c) + Len(b) :
                (c \o b)[i] = IF i <= Len(c) THEN c[i] ELSE b[i - Len(c)]
      BY <1>6, <2>a, ConcatProperties
    <2>1. /\ u \in Seq(Segs) /\ Len(u) = n + 1
          /\ \A i \in 1 .. n + 1 :
                u[i] = IF i <= at + 1 THEN c[i] ELSE b[i - (at + 1)]
      BY <1>6, <2>a, <2>b, <2>c
    <2>2. ASSUME NEW i \in 1 .. n + 1
          PROVE  u[i] = IF i <= at THEN t[i] ELSE IF i = at + 1 THEN seg ELSE t[i - 1]
      <3>1. CASE i <= at + 1
        <4>1. i \in 1 .. at + 1
          BY <1>1, <1>3, <3>1
        <4>2. u[i] = c[i] /\ c[i] = IF i <= at THEN t[i] ELSE seg
          BY <1>8, <2>1, <3>1, <4>1 DEF c
        <4>3. i <= at \/ i = at + 1
          BY <1>3, <4>1
        <4>4. QED
          BY <4>2, <4>3
      <3>2. CASE ~(i <= at + 1)
        <4>1. i - (at + 1) \in 1 .. n - at /\ at + (i - (at + 1)) = i - 1
          BY <1>1, <1>3, <3>2
        <4>2. u[i] = b[i - (at + 1)] /\ b[i - (at + 1)] = t[at + (i - (at + 1))]
          BY <1>6, <2>1, <3>2, <4>1
        <4>3. ~(i <= at) /\ i # at + 1
          BY <1>3, <3>2
        <4>4. QED
          BY <4>1, <4>2, <4>3
      <3>3. QED
        BY <3>1, <3>2
    <2>3. QED
      BY <2>1, <2>2
  <1> HIDE DEF u
  <1>10. ASSUME NEW i \in 1 .. n + 1, NEW j \in 1 .. n + 1, i < j PROVE u[i].s <= u[j].s
    <2>1. CASE j <= at
      BY <1>1, <1>3, <1>9, <1>10, <2>1
    <2>2. CASE j = at + 1
      BY <1>1, <1>3, <1>9, <1>10, <2>2 DEF Here
    <2>3. CASE j > at + 1 /\ i = at + 1
      <3>1. j - 1 \in at + 1 .. n
        BY <1>1, <1>3, <2>3
      <3>2. seg.s < t[j - 1].s
        BY <1>3, <3>1 DEF Here
      <3>3. u[i] = seg /\ u[j] = t[j - 1] /\ t[j - 1].s \in Nat
        BY <1>1, <1>3, <1>9, <2>3, <3>1
      <3>4. QED
        BY <1>1, <3>2, <3>3
    <2>4. CASE j > at + 1 /\ i <= at
      <3>1. j - 1 \in 1 .. n /\ i \in 1 .. n /\ i < j - 1
        BY <1>1, <1>3, <2>4
      <3>2. u[i] = t[i] /\ u[j] = t[j - 1]
        BY <1>3, <1>9, <2>4
      <3>3. QED
        BY <1>1, <3>1, <3>2
    <2>5. CASE i > at + 1
      <3>1. j - 1 \in 1 .. n /\ i - 1 \in 1 .. n /\ i - 1 < j - 1
        BY <1>1, <1>3, <1>10, <2>5
      <3>2. u[i] = t[i - 1] /\ u[j] = t[j - 1]
        BY <1>3, <1>9, <1>10, <2>5
      <3>3. QED
        BY <1>1, <3>1, <3>2
    <2>6. QED
      BY <1>3, <1>10, <2>1, <2>2, <2>3, <2>4, <2>5
  <1>11. u \in SortedSegs
    <2>1. DOMAIN u = 1 .. n + 1
      BY <1>9, InSeq
    <2>2. QED
      BY <1>9, <1>10, <2>1 DEF SortedSegs
  <1>12. ASSUME NEW x PROVE x \in ToSet(u) <=> x \in ToSet(t) \/ x = seg
    <2>1. /\ x \in ToSet(u) <=> \E i \in 1 .. n + 1 : x = u[i]
          /\ x \in ToSet(t) <=> \E i \in 1 .. n : x = t[i]
      BY <1>1, <1>9, InSeq DEF n
    <2>2. ASSUME x \in ToSet(u) PROVE x \in ToSet(t) \/ x = seg
      <3>1. PICK i \in 1 .. n + 1 : x = u[i]
        BY <2>1, <2>2
      <3>2. i <= at => i \in 1 .. n
        BY <1>1, <1>3
      <3>3. i > at + 1 => i - 1 \in 1 .. n
        BY <1>1, <1>3
      <3>4. i <= at \/ i = at + 1 \/ i > at + 1
        BY <1>3
      <3>5. QED
        BY <1>3, <1>9, <2>1, <3>1, <3>2, <3>3, <3>4
    <2>3. ASSUME x \in ToSet(t) PROVE x \in ToSet(u)
      <3>1. PICK i \in 1 .. n : x = t[i]
        BY <2>1, <2>3
      <3>2. CASE i <= at
        <4>1. i \in 1 .. n + 1 /\ u[i] = t[i]
          BY <1>1, <1>9, <3>2
        <4>2. QED
          BY <2>1, <3>1, <4>1
      <3>3. CASE i > at
        <4>1. i + 1 \in 1 .. n + 1 /\ ~(i + 1 <= at) /\ i + 1 # at + 1 /\ i + 1 - 1 = i
          BY <1>1, <1>3, <3>3
        <4>2. u[i + 1] = t[i]
          BY <1>9, <4>1
        <4>3. QED
          BY <2>1, <3>1, <4>1, <4>2
      <3>4. QED
        BY <1>3, <3>2, <3>3
    <2>4. seg \in ToSet(u)
      <3>1. at + 1 \in 1 .. n + 1 /\ ~(at + 1 <= at)
        BY <1>1, <1>3
      <3>2. u[at + 1] = seg
        BY <1>9, <3>1
      <3>3. \E i \in 1 .. n + 1 : seg = u[i]
        BY <3>1, <3>2
      <3>4. QED
        BY <1>9, <3>3, InSeq
    <2>5. QED
      BY <2>2, <2>3, <2>4
  <1>13. QED
    BY <1>4, <1>11, <1>12

(***************************************************************************)
(* The loops of the display list.                                          *)
(***************************************************************************)

\* The three widths of a playfield.
LEMMA Widths ==
  ASSUME NEW dmactl
  PROVE  WidthBytes(dmactl) \in {32, 40, 48}
  BY DEF WidthBytes

\* The loop in Merge.
MergesBy(f, segs, byMode) ==
  /\ f[0] = <<>> /\ \A i \in 1 .. Len(segs) : f[i] = Extended(f[i - 1], segs[i], byMode)
  /\ Merge(segs, byMode) = f[Len(segs)]

\* Merge extends its result range by range.
LEMMA MergesFold ==
  ASSUME NEW segs \in Seq(Segs), NEW byMode
  PROVE  \E f \in [0 .. Len(segs) -> Seq(Segs)] : MergesBy(f, segs, byMode)
  <1> DEFINE n == Len(segs)
             step == [i \in 1 .. n |-> [x \in Seq(Segs) |-> Extended(x, segs[i], byMode)]]
             h == CHOOSE h : h = [i \in 0 .. n |-> IF i = 0 THEN <<>>
                                                   ELSE Extended(h[i - 1], segs[i], byMode)]
  <1>1. n \in Nat /\ \A i \in 1 .. n : segs[i] \in Segs
    BY InSeq
  <1>2. <<>> \in Seq(Segs)
    BY EmptySeq
  <1>3. \A i \in 1 .. n : \A x \in Seq(Segs) : Extended(x, segs[i], byMode) \in Seq(Segs)
    BY <1>1, ExtendedType
  <1>4. /\ step \in [1 .. n -> [Seq(Segs) -> Seq(Segs)]]
        /\ \A i \in 1 .. n : \A x \in Seq(Segs) : step[i][x] = Extended(x, segs[i], byMode)
    BY <1>3
  <1> HIDE DEF step
  <1>5. PICK f \in [0 .. n -> Seq(Segs)] : Folds(f, <<>>, step, n)
    BY <1>1, <1>2, <1>4, Fold
  <1>6. f[0] = <<>> /\ \A i \in 1 .. n : f[i] = Extended(f[i - 1], segs[i], byMode)
    <2>1. \A i \in 1 .. n : f[i - 1] \in Seq(Segs)
      OBVIOUS
    <2>2. QED
      BY <1>4, <1>5, <2>1 DEF Folds
  <1>7. f = [i \in 0 .. n |-> IF i = 0 THEN <<>> ELSE Extended(f[i - 1], segs[i], byMode)]
    <2>1. \A i \in 0 .. n : i # 0 => i \in 1 .. n
      OBVIOUS
    <2>2. QED
      BY <1>6, <2>1
  <1>8. h = [i \in 0 .. n |-> IF i = 0 THEN <<>> ELSE Extended(h[i - 1], segs[i], byMode)]
    BY <1>7
  <1>9. Merge(segs, byMode) = h[n]
    BY DEF Merge
  <1> HIDE DEF h
  <1>10. h[0] = <<>> /\ \A i \in 1 .. n : h[i] = Extended(h[i - 1], segs[i], byMode)
    <2>1. \A i \in 1 .. n : i \in 0 .. n /\ i # 0
      OBVIOUS
    <2>2. 0 \in 0 .. n
      BY <1>1
    <2>3. \A i \in 0 .. n : h[i] = IF i = 0 THEN <<>> ELSE Extended(h[i - 1], segs[i], byMode)
      BY <1>8
    <2>4. QED
      BY <2>1, <2>2, <2>3
  <1> HIDE DEF n
  <1>11. h[n] = f[n]
    <2> DEFINE G == {i \in 0 .. n : h[i] = f[i]}
    <2>1. 0 \in G
      BY <1>1, <1>6, <1>10
    <2>2. ASSUME NEW i \in 1 .. n, i - 1 \in G PROVE i \in G
      <3>1. /\ h[i] = Extended(h[i - 1], segs[i], byMode)
            /\ f[i] = Extended(f[i - 1], segs[i], byMode) /\ h[i - 1] = f[i - 1]
        BY <1>6, <1>10, <2>2
      <3>2. i \in 0 .. n /\ h[i] = f[i]
        BY <3>1
      <3>3. QED
        BY <3>2
    <2>3. n \in 0 .. n
      BY <1>1
    <2> HIDE DEF G
    <2>4. n \in G
      BY <1>1, <2>1, <2>2, <2>3, UpTo
    <2>5. QED
      BY <2>4 DEF G
  <1>12. MergesBy(f, segs, byMode)
    BY <1>6, <1>9, <1>11 DEF MergesBy, n
  <1>13. QED
    BY <1>12 DEF n

\* The loop in Sorted.
SortsBy(f, segs) ==
  /\ f[0] = <<>> /\ \A i \in 1 .. Len(segs) : f[i] = Inserted(f[i - 1], segs[i])
  /\ Sorted(segs) = f[Len(segs)]

\* Sorted inserts range by range.
LEMMA SortsFold ==
  ASSUME NEW segs \in Seq(Segs)
  PROVE  \E f \in [0 .. Len(segs) -> SortedSegs] : SortsBy(f, segs)
  <1> DEFINE n == Len(segs)
             step == [i \in 1 .. n |-> [x \in SortedSegs |-> Inserted(x, segs[i])]]
             h == CHOOSE h : h = [i \in 0 .. n |-> IF i = 0 THEN <<>>
                                                   ELSE Inserted(h[i - 1], segs[i])]
  <1>1. n \in Nat /\ \A i \in 1 .. n : segs[i] \in Segs
    BY InSeq
  <1>2. <<>> \in SortedSegs
    BY EmptySeq DEF SortedSegs
  <1>3. \A i \in 1 .. n : \A x \in SortedSegs : Inserted(x, segs[i]) \in SortedSegs
    BY <1>1, InsertedIs
  <1>4. /\ step \in [1 .. n -> [SortedSegs -> SortedSegs]]
        /\ \A i \in 1 .. n : \A x \in SortedSegs : step[i][x] = Inserted(x, segs[i])
    BY <1>3
  <1> HIDE DEF step
  <1>5. PICK f \in [0 .. n -> SortedSegs] : Folds(f, <<>>, step, n)
    BY <1>1, <1>2, <1>4, Fold
  <1>6. f[0] = <<>> /\ \A i \in 1 .. n : f[i] = Inserted(f[i - 1], segs[i])
    <2>1. \A i \in 1 .. n : f[i - 1] \in SortedSegs
      OBVIOUS
    <2>2. QED
      BY <1>4, <1>5, <2>1 DEF Folds
  <1>7. f = [i \in 0 .. n |-> IF i = 0 THEN <<>> ELSE Inserted(f[i - 1], segs[i])]
    <2>1. \A i \in 0 .. n : i # 0 => i \in 1 .. n
      OBVIOUS
    <2>2. QED
      BY <1>6, <2>1
  <1>8. h = [i \in 0 .. n |-> IF i = 0 THEN <<>> ELSE Inserted(h[i - 1], segs[i])]
    BY <1>7
  <1>9. Sorted(segs) = h[n]
    BY DEF Sorted
  <1> HIDE DEF h
  <1>10. h[0] = <<>> /\ \A i \in 1 .. n : h[i] = Inserted(h[i - 1], segs[i])
    <2>1. \A i \in 1 .. n : i \in 0 .. n /\ i # 0
      OBVIOUS
    <2>2. 0 \in 0 .. n
      BY <1>1
    <2>3. \A i \in 0 .. n : h[i] = IF i = 0 THEN <<>> ELSE Inserted(h[i - 1], segs[i])
      BY <1>8
    <2>4. QED
      BY <2>1, <2>2, <2>3
  <1> HIDE DEF n
  <1>11. h[n] = f[n]
    <2> DEFINE G == {i \in 0 .. n : h[i] = f[i]}
    <2>1. 0 \in G
      BY <1>1, <1>6, <1>10
    <2>2. ASSUME NEW i \in 1 .. n, i - 1 \in G PROVE i \in G
      <3>1. /\ h[i] = Inserted(h[i - 1], segs[i]) /\ f[i] = Inserted(f[i - 1], segs[i])
            /\ h[i - 1] = f[i - 1]
        BY <1>6, <1>10, <2>2
      <3>2. i \in 0 .. n /\ h[i] = f[i]
        BY <3>1
      <3>3. QED
        BY <3>2
    <2>3. n \in 0 .. n
      BY <1>1
    <2> HIDE DEF G
    <2>4. n \in G
      BY <1>1, <2>1, <2>2, <2>3, UpTo
    <2>5. QED
      BY <2>4 DEF G
  <1>12. SortsBy(f, segs)
    BY <1>6, <1>9, <1>11 DEF SortsBy, n
  <1>13. QED
    BY <1>12 DEF n

\* The loop in Compacted.
CompactsBy(f, entries) ==
  /\ f[0] = <<>> /\ \A i \in 1 .. Len(entries) : f[i] = Counted(f[i - 1], entries[i])
  /\ Compacted(entries) = f[Len(entries)]

\* Compacted counts instruction by instruction.
LEMMA CompactsFold ==
  ASSUME NEW entries \in Seq(Entries)
  PROVE  \E f \in [0 .. Len(entries) -> Seq(Shown)] : CompactsBy(f, entries)
  <1> DEFINE n == Len(entries)
             step == [i \in 1 .. n |-> [x \in Seq(Shown) |-> Counted(x, entries[i])]]
             h == CHOOSE h : h = [i \in 0 .. n |-> IF i = 0 THEN <<>>
                                                   ELSE Counted(h[i - 1], entries[i])]
  <1>1. n \in Nat /\ \A i \in 1 .. n : entries[i] \in Entries
    BY InSeq
  <1>2. <<>> \in Seq(Shown)
    BY EmptySeq
  <1>3. \A i \in 1 .. n : \A x \in Seq(Shown) : Counted(x, entries[i]) \in Seq(Shown)
    BY <1>1, CountedType
  <1>4. /\ step \in [1 .. n -> [Seq(Shown) -> Seq(Shown)]]
        /\ \A i \in 1 .. n : \A x \in Seq(Shown) : step[i][x] = Counted(x, entries[i])
    BY <1>3
  <1> HIDE DEF step
  <1>5. PICK f \in [0 .. n -> Seq(Shown)] : Folds(f, <<>>, step, n)
    BY <1>1, <1>2, <1>4, Fold
  <1>6. f[0] = <<>> /\ \A i \in 1 .. n : f[i] = Counted(f[i - 1], entries[i])
    <2>1. \A i \in 1 .. n : f[i - 1] \in Seq(Shown)
      OBVIOUS
    <2>2. QED
      BY <1>4, <1>5, <2>1 DEF Folds
  <1>7. f = [i \in 0 .. n |-> IF i = 0 THEN <<>> ELSE Counted(f[i - 1], entries[i])]
    <2>1. \A i \in 0 .. n : i # 0 => i \in 1 .. n
      OBVIOUS
    <2>2. QED
      BY <1>6, <2>1
  <1>8. h = [i \in 0 .. n |-> IF i = 0 THEN <<>> ELSE Counted(h[i - 1], entries[i])]
    BY <1>7
  <1>9. Compacted(entries) = h[n]
    BY DEF Compacted
  <1> HIDE DEF h
  <1>10. h[0] = <<>> /\ \A i \in 1 .. n : h[i] = Counted(h[i - 1], entries[i])
    <2>1. \A i \in 1 .. n : i \in 0 .. n /\ i # 0
      OBVIOUS
    <2>2. 0 \in 0 .. n
      BY <1>1
    <2>3. \A i \in 0 .. n : h[i] = IF i = 0 THEN <<>> ELSE Counted(h[i - 1], entries[i])
      BY <1>8
    <2>4. QED
      BY <2>1, <2>2, <2>3
  <1> HIDE DEF n
  <1>11. h[n] = f[n]
    <2> DEFINE G == {i \in 0 .. n : h[i] = f[i]}
    <2>1. 0 \in G
      BY <1>1, <1>6, <1>10
    <2>2. ASSUME NEW i \in 1 .. n, i - 1 \in G PROVE i \in G
      <3>1. /\ h[i] = Counted(h[i - 1], entries[i]) /\ f[i] = Counted(f[i - 1], entries[i])
            /\ h[i - 1] = f[i - 1]
        BY <1>6, <1>10, <2>2
      <3>2. i \in 0 .. n /\ h[i] = f[i]
        BY <3>1
      <3>3. QED
        BY <3>2
    <2>3. n \in 0 .. n
      BY <1>1
    <2> HIDE DEF G
    <2>4. n \in G
      BY <1>1, <2>1, <2>2, <2>3, UpTo
    <2>5. QED
      BY <2>4 DEF G
  <1>12. CompactsBy(f, entries)
    BY <1>6, <1>9, <1>11 DEF CompactsBy, n
  <1>13. QED
    BY <1>12 DEF n

\* The accumulator at the start of RowRanges.
NoRows == [rows |-> <<>>, addr |-> NoAddr]

\* The loop in RowRanges.
RowedBy(f, entries, dmactl) ==
  /\ f[0] = NoRows
  /\ \A i \in 1 .. Len(entries) : f[i] = RowStep(WidthBytes(dmactl), f[i - 1], entries[i])
  /\ RowRanges(entries, dmactl) = f[Len(entries)].rows

\* RowRanges goes through the instructions one by one.
LEMMA RowedFold ==
  ASSUME NEW entries \in Seq(Entries), NEW dmactl \in Bytes
  PROVE  \E f \in [0 .. Len(entries) -> Accs] : RowedBy(f, entries, dmactl)
  <1> DEFINE n == Len(entries)
             step ==
                 [i \in 1 .. n |-> [x \in Accs |-> RowStep(WidthBytes(dmactl), x, entries[i])]]
             h == CHOOSE h : h = [i \in 0 .. n |-> IF i = 0 THEN NoRows
                                                   ELSE RowStep(WidthBytes(dmactl), h[i - 1], entries[i])]
  <1>1. n \in Nat /\ \A i \in 1 .. n : entries[i] \in Entries
    BY InSeq
  <1>2. NoRows \in Accs
    BY EmptySeq DEF Accs, NoRows
  <1>3. \A i \in 1 .. n : \A x \in Accs : RowStep(WidthBytes(dmactl), x, entries[i]) \in Accs
    BY <1>1, RowStepType, Widths
  <1>4. /\ step \in [1 .. n -> [Accs -> Accs]]
        /\ \A i \in 1 .. n : \A x \in Accs :
               step[i][x] = RowStep(WidthBytes(dmactl), x, entries[i])
    BY <1>3
  <1> HIDE DEF step
  <1>5. PICK f \in [0 .. n -> Accs] : Folds(f, NoRows, step, n)
    BY <1>1, <1>2, <1>4, Fold
  <1>6. /\ f[0] = NoRows
        /\ \A i \in 1 .. n : f[i] = RowStep(WidthBytes(dmactl), f[i - 1], entries[i])
    <2>1. \A i \in 1 .. n : f[i - 1] \in Accs
      OBVIOUS
    <2>2. QED
      BY <1>4, <1>5, <2>1 DEF Folds
  <1>7. f = [i \in 0 .. n |-> IF i = 0 THEN NoRows
                              ELSE RowStep(WidthBytes(dmactl), f[i - 1], entries[i])]
    <2>1. \A i \in 0 .. n : i # 0 => i \in 1 .. n
      OBVIOUS
    <2>2. QED
      BY <1>6, <2>1
  <1>8. h = [i \in 0 .. n |-> IF i = 0 THEN NoRows
                              ELSE RowStep(WidthBytes(dmactl), h[i - 1], entries[i])]
    BY <1>7
  <1>9. RowRanges(entries, dmactl) = h[n].rows
    BY DEF RowRanges, NoRows
  <1> HIDE DEF h
  <1>10. /\ h[0] = NoRows
         /\ \A i \in 1 .. n : h[i] = RowStep(WidthBytes(dmactl), h[i - 1], entries[i])
    <2>1. \A i \in 1 .. n : i \in 0 .. n /\ i # 0
      OBVIOUS
    <2>2. 0 \in 0 .. n
      BY <1>1
    <2>3. \A i \in 0 .. n : h[i] = IF i = 0 THEN NoRows
                                   ELSE RowStep(WidthBytes(dmactl), h[i - 1], entries[i])
      BY <1>8
    <2>4. QED
      BY <2>1, <2>2, <2>3
  <1> HIDE DEF n
  <1>11. h[n] = f[n]
    <2> DEFINE G == {i \in 0 .. n : h[i] = f[i]}
    <2>1. 0 \in G
      BY <1>1, <1>6, <1>10
    <2>2. ASSUME NEW i \in 1 .. n, i - 1 \in G PROVE i \in G
      <3>1. /\ h[i] = RowStep(WidthBytes(dmactl), h[i - 1], entries[i])
            /\ f[i] = RowStep(WidthBytes(dmactl), f[i - 1], entries[i]) /\ h[i - 1] = f[i - 1]
        BY <1>6, <1>10, <2>2
      <3>2. i \in 0 .. n /\ h[i] = f[i]
        BY <3>1
      <3>3. QED
        BY <3>2
    <2>3. n \in 0 .. n
      BY <1>1
    <2> HIDE DEF G
    <2>4. n \in G
      BY <1>1, <2>1, <2>2, <2>3, UpTo
    <2>5. QED
      BY <2>4 DEF G
  <1>12. RowedBy(f, entries, dmactl)
    BY <1>6, <1>9, <1>11 DEF RowedBy, n
  <1>13. QED
    BY <1>12 DEF n

\* An interval from 1 has one length.
LEMMA SameLen ==
  ASSUME NEW m \in Nat, NEW n \in Nat, 1 .. m = 1 .. n
  PROVE  m = n
  <1>1. m = 0 \/ m \in 1 .. n
    OBVIOUS
  <1>2. n = 0 \/ n \in 1 .. m
    OBVIOUS
  <1>3. QED
    BY <1>1, <1>2

\* Sorted sorts: its result is in order and has the same ranges.
LEMMA SortedIs ==
  ASSUME NEW segs \in Seq(Segs)
  PROVE  Sorted(segs) \in SortedSegs /\ \A x : x \in ToSet(Sorted(segs)) <=> x \in ToSet(segs)
  <1> DEFINE n == Len(segs)
  <1>1. /\ n \in Nat /\ \A i \in 1 .. n : segs[i] \in Segs
        /\ \A x : x \in ToSet(segs) <=> \E i \in 1 .. n : x = segs[i]
    BY InSeq
  <1>2. PICK f \in [0 .. n -> SortedSegs] : SortsBy(f, segs)
    BY SortsFold
  <1>3. /\ f[0] = <<>> /\ (\A i \in 1 .. n : f[i] = Inserted(f[i - 1], segs[i]))
        /\ Sorted(segs) = f[n]
    BY <1>2 DEF SortsBy
  <1> HIDE DEF n
  <1> DEFINE Good(i) == \A x : x \in ToSet(f[i]) <=> \E j \in 1 .. i : x = segs[j]
             G == {i \in 0 .. n : Good(i)}
  <1>4. 0 \in G
    <2>1. \A x : x \notin ToSet(<<>>)
      BY DEF ToSet
    <2>2. Good(0) /\ 0 \in 0 .. n
      BY <1>1, <1>3, <2>1
    <2>3. QED
      BY <2>2
  <1>5. ASSUME NEW i \in 1 .. n, i - 1 \in G PROVE i \in G
    <2>1. i - 1 \in 0 .. n /\ i \in 0 .. n /\ Good(i - 1)
      BY <1>5
    <2>2. f[i - 1] \in SortedSegs /\ segs[i] \in Segs /\ f[i] = Inserted(f[i - 1], segs[i])
      BY <1>1, <1>2, <1>3, <2>1
    <2>3. \A x : x \in ToSet(f[i]) <=> x \in ToSet(f[i - 1]) \/ x = segs[i]
      BY <2>2, InsertedIs
    <2>4. \A x : (\E j \in 1 .. i : x = segs[j]) <=>
              (\E j \in 1 .. i - 1 : x = segs[j]) \/ x = segs[i]
      <3>1. \A j : j \in 1 .. i <=> j \in 1 .. i - 1 \/ j = i
        OBVIOUS
      <3>2. QED
        BY <3>1
    <2>5. Good(i)
      BY <2>1, <2>3, <2>4
    <2>6. QED
      BY <2>1, <2>5
  <1>6. n \in 0 .. n
    BY <1>1
  <1> HIDE DEF G
  <1>7. n \in G
    BY <1>1, <1>4, <1>5, <1>6, UpTo
  <1>8. Good(n)
    BY <1>7 DEF G
  <1>9. f[n] \in SortedSegs
    BY <1>2, <1>6
  <1>10. QED
    BY <1>1, <1>3, <1>8, <1>9

\* The members of two sequences put together.
LEMMA ConcatSet ==
  ASSUME NEW X, NEW s \in Seq(X), NEW t \in Seq(X)
  PROVE  s \o t \in Seq(X) /\ \A x : x \in ToSet(s \o t) <=> x \in ToSet(s) \/ x \in ToSet(t)
  <1>1. /\ s \o t \in Seq(X) /\ Len(s \o t) = Len(s) + Len(t)
        /\ DOMAIN (s \o t) = 1 .. Len(s) + Len(t)
        /\ \A i \in 1 .. Len(s) + Len(t) : (s \o t)[i] = IF i <= Len(s) THEN s[i]
                                                         ELSE t[i - Len(s)]
        /\ Len(s) \in Nat /\ Len(t) \in Nat /\ DOMAIN s = 1 .. Len(s) /\ DOMAIN t = 1 .. Len(t)
    BY ConcatProperties, LenProperties
  <1> DEFINE u == s \o t
             m == Len(s)
             n == Len(t)
  <1>2. /\ DOMAIN u = 1 .. m + n
        /\ \A i \in 1 .. m + n : u[i] = IF i <= m THEN s[i] ELSE t[i - m]
        /\ m \in Nat /\ n \in Nat /\ DOMAIN s = 1 .. m /\ DOMAIN t = 1 .. n
    BY <1>1
  <1> HIDE DEF u, m, n
  <1>3. ASSUME NEW i \in 1 .. m + n PROVE u[i] \in ToSet(s) \/ u[i] \in ToSet(t)
    <2>1. CASE i <= m
      <3>1. i \in 1 .. m /\ u[i] = s[i]
        BY <1>2, <2>1
      <3>2. QED
        BY <1>2, <3>1 DEF ToSet
    <2>2. CASE ~(i <= m)
      <3>1. i - m \in 1 .. n /\ u[i] = t[i - m]
        BY <1>2, <2>2
      <3>2. QED
        BY <1>2, <3>1 DEF ToSet
    <2>3. QED
      BY <2>1, <2>2
  <1>4. ASSUME NEW i \in 1 .. m PROVE s[i] \in ToSet(u)
    <2>1. i \in 1 .. m + n /\ i <= m
      BY <1>2
    <2>2. u[i] = s[i]
      BY <1>2, <2>1
    <2>3. QED
      BY <1>2, <2>1, <2>2 DEF ToSet
  <1>5. ASSUME NEW i \in 1 .. n PROVE t[i] \in ToSet(u)
    <2>1. i + m \in 1 .. m + n /\ ~(i + m <= m) /\ i + m - m = i
      BY <1>2
    <2>2. u[i + m] = t[i]
      BY <1>2, <2>1
    <2>3. QED
      BY <1>2, <2>1, <2>2 DEF ToSet
  <1>6. \A x : x \in ToSet(u) <=> x \in ToSet(s) \/ x \in ToSet(t)
    <2>1. \A x : x \in ToSet(u) => \E i \in 1 .. m + n : x = u[i]
      BY <1>2 DEF ToSet
    <2>2. \A x : x \in ToSet(s) => \E i \in 1 .. m : x = s[i]
      BY <1>2 DEF ToSet
    <2>3. \A x : x \in ToSet(t) => \E i \in 1 .. n : x = t[i]
      BY <1>2 DEF ToSet
    <2>4. QED
      BY <1>3, <1>4, <1>5, <2>1, <2>2, <2>3
  <1>7. QED
    BY <1>1, <1>6 DEF u

\* The members of FlattenSeq are those of its sequences.
LEMMA FlattenIs ==
  ASSUME NEW X, NEW n \in Nat, NEW ss \in [1 .. n -> Seq(X)]
  PROVE  /\ FlattenSeq(ss) \in Seq(X)
         /\ \A x : x \in ToSet(FlattenSeq(ss)) <=> \E i \in 1 .. n : x \in ToSet(ss[i])
  <1>1. PICK f \in [0 .. n -> Seq(X)] : FlattensBy(f, ss, n)
    BY FlattenFold
  <1>2. f[0] = <<>> /\ (\A i \in 1 .. n : f[i] = f[i - 1] \o ss[i]) /\ FlattenSeq(ss) = f[n]
    BY <1>1 DEF FlattensBy
  <1> DEFINE Good(i) == \A x : x \in ToSet(f[i]) <=> \E j \in 1 .. i : x \in ToSet(ss[j])
             G == {i \in 0 .. n : Good(i)}
  <1>4. 0 \in G
    <2>1. \A x : x \notin ToSet(<<>>)
      BY DEF ToSet
    <2>2. Good(0) /\ 0 \in 0 .. n
      BY <1>2, <2>1
    <2>3. QED
      BY <2>2
  <1>5. ASSUME NEW i \in 1 .. n, i - 1 \in G PROVE i \in G
    <2>1. i - 1 \in 0 .. n /\ i \in 0 .. n /\ Good(i - 1)
      BY <1>5
    <2>2. f[i - 1] \in Seq(X) /\ ss[i] \in Seq(X) /\ f[i] = f[i - 1] \o ss[i]
      BY <1>1, <1>2, <2>1
    <2>3. \A x : x \in ToSet(f[i]) <=> x \in ToSet(f[i - 1]) \/ x \in ToSet(ss[i])
      BY <2>2, ConcatSet
    <2>4. \A x : (\E j \in 1 .. i : x \in ToSet(ss[j])) <=>
              (\E j \in 1 .. i - 1 : x \in ToSet(ss[j])) \/ x \in ToSet(ss[i])
      <3>1. \A j : j \in 1 .. i <=> j \in 1 .. i - 1 \/ j = i
        OBVIOUS
      <3>2. QED
        BY <3>1
    <2>5. Good(i)
      BY <2>1, <2>3, <2>4
    <2>6. QED
      BY <2>1, <2>5
  <1>6. n \in 0 .. n
    OBVIOUS
  <1> HIDE DEF G
  <1>7. n \in G
    BY <1>4, <1>5, <1>6, UpTo
  <1>8. Good(n)
    BY <1>7 DEF G
  <1>9. f[n] \in Seq(X)
    BY <1>1, <1>6
  <1>10. QED
    BY <1>2, <1>8, <1>9

\* A range with a mode is not empty and ends in memory.
LEMMA SegIs ==
  ASSUME NEW r \in Segs
  PROVE  r.s \in Nat /\ r.e \in Nat /\ r.s < r.e /\ r.e <= Word /\ r.mode \in 2 .. 15
  BY WordIs DEF Segs, Words

\* The address held by a range more, whether it is joined or appended; when ranges are joined
\* across modes, of all modes together.
LEMMA ExtendedIs ==
  ASSUME NEW out \in Seq(Segs), NEW seg \in Segs, NEW byMode \in BOOLEAN,
         NEW M \in SUBSET (2 .. 15), byMode \/ M = 2 .. 15, NEW a \in Int
  PROVE  Covers(ToSet(Extended(out, seg, byMode)), a, M) <=>
            Covers(ToSet(out), a, M) \/ Covers({seg}, a, M)
  <1> DEFINE l == Len(out)
             new == Extended(out, seg, byMode)
             Hits(r) == r.s <= a /\ a < r.e /\ r.mode \in M
  <1>1. /\ l \in Nat /\ DOMAIN out = 1 .. l /\ (\A i \in 1 .. l : out[i] \in Segs)
        /\ (out = <<>> <=> l = 0)
    BY InSeq
  <1>2. Covers(ToSet(out), a, M) <=> \E i \in 1 .. l : Hits(out[i])
    BY <1>1 DEF Covers, ToSet
  <1>3. Covers({seg}, a, M) <=> Hits(seg)
    BY DEF Covers
  <1>4. CASE new = Append(out, seg)
    <2>1. /\ new \in Seq(Segs) /\ Len(new) = l + 1 /\ \A i \in 1 .. l : new[i] = out[i]
          /\ new[l + 1] = seg
      BY <1>4, AppendProperties
    <2>2. DOMAIN new = 1 .. l + 1
      BY <2>1, InSeq
    <2> HIDE DEF new, l
    <2>3. Covers(ToSet(new), a, M) <=> \E i \in 1 .. l + 1 : Hits(new[i])
      BY <2>2 DEF Covers, ToSet
    <2> HIDE DEF Hits
    <2>4. (\E i \in 1 .. l + 1 : Hits(new[i])) <=> (\E i \in 1 .. l : Hits(out[i])) \/ Hits(seg)
      <3>1. \A i : i \in 1 .. l + 1 <=> i \in 1 .. l \/ i = l + 1
        BY <1>1
      <3>2. QED
        BY <2>1, <3>1
    <2>5. QED
      BY <1>2, <1>3, <2>3, <2>4 DEF new
  <1>5. CASE new # Append(out, seg)
    <2>1. /\ out # <<>> /\ out[l].s <= seg.s /\ seg.s <= out[l].e
          /\ (byMode => seg.mode = out[l].mode)
          /\ new = [out EXCEPT ![l].e = Max({@, seg.e})]
      BY <1>5 DEF Extended, Last
    <2>2. l \in 1 .. l /\ out[l] \in Segs
      BY <1>1, <2>1
    <2> DEFINE m == Max({out[l].e, seg.e})
               r == [out[l] EXCEPT !.e = m]
    <2>3. /\ out[l].s \in Nat /\ out[l].e \in Nat /\ out[l].mode \in 2 .. 15
          /\ seg.s \in Nat /\ seg.e \in Nat /\ seg.mode \in 2 .. 15
      BY <2>2, SegIs
    <2>4. m = IF out[l].e >= seg.e THEN out[l].e ELSE seg.e
      BY <2>3, MaxOf
    <2>5. r.s = out[l].s /\ r.e = m /\ r.mode = out[l].mode
      BY <2>2 DEF Segs
    <2>6. DOMAIN new = 1 .. l /\ \A i \in 1 .. l : new[i] = IF i = l THEN r ELSE out[i]
      BY <1>1, <2>1, <2>2
    <2> HIDE DEF new, l, m, r
    <2>7. Covers(ToSet(new), a, M) <=> \E i \in 1 .. l : Hits(new[i])
      BY <2>6 DEF Covers, ToSet
    <2>8. Hits(r) <=> Hits(out[l]) \/ Hits(seg)
      <3>1. (r.s <= a /\ a < r.e) <=>
                (out[l].s <= a /\ a < out[l].e) \/ (seg.s <= a /\ a < seg.e)
        BY <2>1, <2>3, <2>4, <2>5
      <3>2. (out[l].mode \in M) <=> (seg.mode \in M)
        BY <2>1, <2>3
      <3>3. QED
        BY <2>5, <3>1, <3>2
    <2> HIDE DEF Hits
    <2>9. (\E i \in 1 .. l : Hits(new[i])) <=> (\E i \in 1 .. l : Hits(out[i])) \/ Hits(seg)
      BY <2>2, <2>6, <2>8
    <2>10. QED
      BY <1>2, <1>3, <2>7, <2>9 DEF new
  <1>6. QED
    BY <1>4, <1>5

\* Merge neither loses an address nor adds one.
LEMMA MergeCovers ==
  ASSUME NEW segs \in Seq(Segs), NEW byMode \in BOOLEAN,
         NEW M \in SUBSET (2 .. 15), byMode \/ M = 2 .. 15, NEW a \in Int
  PROVE  /\ Merge(segs, byMode) \in Seq(Segs)
         /\ Covers(ToSet(Merge(segs, byMode)), a, M) <=> Covers(ToSet(segs), a, M)
  <1> DEFINE n == Len(segs)
  <1>1. /\ n \in Nat /\ \A i \in 1 .. n : segs[i] \in Segs
        /\ \A x : x \in ToSet(segs) <=> \E i \in 1 .. n : x = segs[i]
    BY InSeq
  <1>2. PICK f \in [0 .. n -> Seq(Segs)] : MergesBy(f, segs, byMode)
    BY MergesFold
  <1>3. /\ f[0] = <<>> /\ \A i \in 1 .. n : f[i] = Extended(f[i - 1], segs[i], byMode)
        /\ Merge(segs, byMode) = f[n]
    BY <1>2 DEF MergesBy
  <1> HIDE DEF n
  <1> DEFINE Good(i) == Covers(ToSet(f[i]), a, M) <=> \E j \in 1 .. i : Covers({segs[j]}, a, M)
             G == {i \in 0 .. n : Good(i)}
  <1>4. 0 \in G
    <2>1. \A x : x \notin ToSet(<<>>)
      BY DEF ToSet
    <2>2. ~Covers(ToSet(f[0]), a, M)
      BY <1>3, <2>1 DEF Covers
    <2>3. Good(0) /\ 0 \in 0 .. n
      BY <1>1, <2>2
    <2>4. QED
      BY <2>3
  <1>5. ASSUME NEW i \in 1 .. n, i - 1 \in G PROVE i \in G
    <2> HIDE DEF Good
    <2>1. i - 1 \in 0 .. n /\ i \in 0 .. n /\ Good(i - 1)
      BY <1>5
    <2> USE DEF Good
    <2>2. /\ f[i - 1] \in Seq(Segs) /\ segs[i] \in Segs
          /\ f[i] = Extended(f[i - 1], segs[i], byMode)
      BY <1>1, <1>2, <1>3, <2>1
    <2>3. Covers(ToSet(f[i]), a, M) <=> Covers(ToSet(f[i - 1]), a, M) \/ Covers({segs[i]}, a, M)
      BY <2>2, ExtendedIs
    <2>4. (\E j \in 1 .. i : Covers({segs[j]}, a, M)) <=>
             (\E j \in 1 .. i - 1 : Covers({segs[j]}, a, M)) \/ Covers({segs[i]}, a, M)
      <3>1. \A j : j \in 1 .. i <=> j \in 1 .. i - 1 \/ j = i
        OBVIOUS
      <3>2. QED
        BY <3>1
    <2>5. Good(i)
      BY <2>1, <2>3, <2>4
    <2>6. QED
      BY <2>1, <2>5
  <1>6. n \in 0 .. n
    BY <1>1
  <1> HIDE DEF G
  <1>7. n \in G
    BY <1>1, <1>4, <1>5, <1>6, UpTo
  <1>8. Good(n)
    BY <1>7 DEF G
  <1>9. f[n] \in Seq(Segs)
    BY <1>2, <1>6
  <1>10. Covers(ToSet(segs), a, M) <=> \E j \in 1 .. n : Covers({segs[j]}, a, M)
    BY <1>1 DEF Covers
  <1>11. QED
    BY <1>3, <1>8, <1>9, <1>10

\* Merged in order of their beginnings, no two ranges touch.
LEMMA MergeApart ==
  ASSUME NEW segs \in SortedSegs
  PROVE  Merge(segs, FALSE) \in Seq(Segs) /\ Apart(Merge(segs, FALSE))
  <1> DEFINE n == Len(segs)
  <1>1. /\ segs \in Seq(Segs) /\ n \in Nat /\ \A i \in 1 .. n : segs[i] \in Segs
        /\ \A i, j \in 1 .. n : i < j => segs[i].s <= segs[j].s
    <2>1. segs \in Seq(Segs)
      BY DEF SortedSegs
    <2>2. n \in Nat /\ DOMAIN segs = 1 .. n /\ \A i \in 1 .. n : segs[i] \in Segs
      BY <2>1, InSeq
    <2>3. QED
      BY <2>1, <2>2 DEF SortedSegs
  <1>2. PICK f \in [0 .. n -> Seq(Segs)] : MergesBy(f, segs, FALSE)
    BY <1>1, MergesFold
  <1>3. /\ f[0] = <<>> /\ \A i \in 1 .. n : f[i] = Extended(f[i - 1], segs[i], FALSE)
        /\ Merge(segs, FALSE) = f[n]
    BY <1>2 DEF MergesBy
  <1> HIDE DEF n
  <1> DEFINE Good(i) == /\ Apart(f[i])
                        /\ f[i] # <<>> => i > 0 /\ Last(f[i]).s <= segs[i].s
             G == {i \in 0 .. n : Good(i)}
  <1>4. 0 \in G
    BY <1>1, <1>3 DEF Apart
  <1>5. ASSUME NEW i \in 1 .. n, i - 1 \in G PROVE i \in G
    <2> DEFINE out == f[i - 1]
               seg == segs[i]
               new == f[i]
               l == Len(out)
    <2>1. i - 1 \in 0 .. n /\ i \in 0 .. n /\ i > 0 /\ Good(i - 1)
      BY <1>5
    <2>2. out \in Seq(Segs) /\ seg \in Segs /\ new = Extended(out, seg, FALSE)
      BY <1>1, <1>2, <1>3, <2>1
    <2>3. out # <<>> => Last(out).s <= seg.s
      <3>1. ASSUME out # <<>> PROVE Last(out).s <= seg.s
        <4>1. i - 1 > 0 /\ Last(out).s <= segs[i - 1].s
          BY <2>1, <3>1
        <4>2. segs[i - 1].s <= seg.s
          BY <1>1, <4>1
        <4>3. l \in 1 .. l /\ Last(out) \in Segs /\ segs[i - 1] \in Segs
          BY <1>1, <2>2, <3>1, <4>1, InSeq DEF Last
        <4>4. Last(out).s \in Nat /\ segs[i - 1].s \in Nat /\ seg.s \in Nat
          BY <2>2, <4>3, SegIs
        <4>5. QED
          BY <4>1, <4>2, <4>4
      <3>2. QED
        BY <3>1
    <2>4. Apart(out)
      BY <2>1
    <2>5. seg.s \in Nat
      BY <2>2, SegIs
    <2> HIDE DEF out, seg, new
    <2>6. /\ l \in Nat /\ DOMAIN out = 1 .. l /\ (\A k \in 1 .. l : out[k] \in Segs)
          /\ (out = <<>> <=> l = 0)
      BY <2>2, InSeq
    <2>61. Last(out) = out[l]
      BY DEF Last
    <2> HIDE DEF l
    <2>7. CASE new = Append(out, seg) /\ (out # <<>> => seg.s > Last(out).e)
      <3> USE DEF l
      <3>1. /\ new \in Seq(Segs) /\ Len(new) = l + 1 /\ \A k \in 1 .. l : new[k] = out[k]
            /\ new[l + 1] = seg
        <4>1. new = Append(out, seg) /\ out \in Seq(Segs) /\ seg \in Segs
          BY <2>2, <2>7
        <4>2. /\ Append(out, seg) \in Seq(Segs) /\ Len(Append(out, seg)) = Len(out) + 1
              /\ \A k \in 1 .. Len(out) : Append(out, seg)[k] = out[k]
              /\ Append(out, seg)[Len(out) + 1] = seg
          BY <4>1, AppendProperties
        <4>3. QED
          BY <4>1, <4>2
      <3> HIDE DEF l
      <3>2. DOMAIN new = 1 .. l + 1
        BY <3>1, InSeq
      <3>3. ASSUME NEW k \in 1 .. l PROVE out[k].e < seg.s
        <4>1. l \in 1 .. l /\ out # <<>> /\ out[l].e < seg.s
          BY <2>6, <2>61, <2>7
        <4>2. out[k].e \in Nat /\ out[l].e \in Nat /\ out[l].s \in Nat /\ out[l].s < out[l].e
          BY <2>6, <4>1, SegIs
        <4>3. k < l => out[k].e < out[l].s
          BY <2>4, <2>6, <4>1 DEF Apart
        <4>4. k < l \/ k = l
          BY <2>6
        <4>5. QED
          BY <2>5, <4>1, <4>2, <4>3, <4>4
      <3>4. ASSUME NEW k \in 1 .. l + 1, NEW j \in 1 .. l + 1, k < j PROVE new[k].e < new[j].s
        <4>1. k \in 1 .. l /\ (j \in 1 .. l \/ j = l + 1)
          BY <2>6, <3>4
        <4>2. QED
          BY <2>4, <2>6, <3>1, <3>3, <3>4, <4>1 DEF Apart
      <3>5. Apart(new)
        BY <3>2, <3>4 DEF Apart
      <3>6. Last(new) = seg
        BY <3>1 DEF Last
      <3>7. QED
        BY <2>1, <2>5, <3>5, <3>6 DEF new, seg
    <2>8. CASE /\ out # <<>> /\ new = [out EXCEPT ![l].e = Max({@, seg.e})]
      <3>1. l \in 1 .. l /\ out[l] \in Segs
        BY <2>6, <2>8
      <3> DEFINE r == [out[l] EXCEPT !.e = Max({@, seg.e})]
      <3>2. r.s = out[l].s
        BY <3>1 DEF Segs
      <3>3. DOMAIN new = 1 .. l /\ \A k \in 1 .. l : new[k] = IF k = l THEN r ELSE out[k]
        BY <2>6, <2>8, <3>1
      <3> HIDE DEF r
      <3>4. ASSUME NEW k \in 1 .. l, NEW j \in 1 .. l, k < j PROVE new[k].e < new[j].s
        <4>1. k # l
          BY <2>6, <3>4
        <4>2. new[k] = out[k] /\ new[j].s = out[j].s
          BY <3>2, <3>3, <4>1
        <4>3. QED
          BY <2>4, <2>6, <3>4, <4>2 DEF Apart
      <3>5. Apart(new)
        BY <3>3, <3>4 DEF Apart
      <3>6. new \in Seq(Segs)
        BY <2>2, ExtendedType
      <3>7. Len(new) = l
        <4>1. Len(new) \in Nat /\ DOMAIN new = 1 .. Len(new)
          BY <3>6, InSeq
        <4>2. 1 .. Len(new) = 1 .. l
          BY <3>3, <4>1
        <4>3. QED
          BY <2>6, <4>1, <4>2, SameLen
      <3>8. Last(new).s = Last(out).s
        BY <2>61, <3>1, <3>2, <3>3, <3>7 DEF Last
      <3>9. QED
        BY <2>1, <2>3, <2>8, <3>5, <3>8 DEF new, seg
    <2>9. QED
      <3>1. \/ /\ new = Append(out, seg)
               /\ ~(out # <<>> /\ Last(out).s <= seg.s /\ seg.s <= Last(out).e)
            \/ out # <<>> /\ new = [out EXCEPT ![l].e = Max({@, seg.e})]
        BY <2>2 DEF Extended, l
      <3>2. ASSUME out # <<>>, ~(Last(out).s <= seg.s /\ seg.s <= Last(out).e)
            PROVE  seg.s > Last(out).e
        <4>1. l \in 1 .. l /\ Last(out) \in Segs
          BY <2>6, <2>61, <3>2
        <4>2. Last(out).e \in Nat
          BY <4>1, SegIs
        <4>3. QED
          BY <2>3, <2>5, <3>2, <4>2
      <3>3. QED
        BY <2>7, <2>8, <3>1, <3>2
  <1>6. n \in 0 .. n
    BY <1>1
  <1> HIDE DEF G
  <1>7. n \in G
    BY <1>1, <1>4, <1>5, <1>6, UpTo
  <1>8. Apart(f[n])
    BY <1>7 DEF G
  <1>9. f[n] \in Seq(Segs)
    BY <1>2, <1>6
  <1>10. QED
    BY <1>3, <1>8, <1>9

(***************************************************************************)
(* Ranges of memory.                                                       *)
(***************************************************************************)

\* A range holds the address a.
Holds(S, a) == \E r \in S : r.s <= a /\ a < r.e

\* Products grow with their factors.
LEMMA Multiples ==
  ASSUME NEW K \in Nat, K > 0, NEW i \in Int, NEW j \in Int, i <= j
  PROVE  i * K <= j * K
  OBVIOUS

\* Division with remainder, without the remainder.
LEMMA Quotient ==
  ASSUME NEW K \in Nat, K > 0, NEW L \in Nat
  PROVE  L \div K \in Nat /\ (L \div K) * K <= L /\ L < (L \div K) * K + K
  <1>1. L = K * (L \div K) + (L % K) /\ 0 <= L % K /\ L % K < K
    <2>1. 0 <= L % K /\ L % K < K
      OBVIOUS
    <2>2. L = K * (L \div K) + (L % K)
      OBVIOUS
    <2>3. QED
      BY <2>1, <2>2
  <1>2. L \div K \in Int
    OBVIOUS
  <1>3. L \div K >= 0
    OBVIOUS
  <1>4. K * (L \div K) = (L \div K) * K
    BY <1>2
  <1>5. L % K \in Int
    OBVIOUS
  <1> DEFINE q == L \div K
             m == L % K
  <1> HIDE DEF q, m
  <1>6. q \in Int /\ q >= 0 /\ m \in Int /\ L = q * K + m /\ 0 <= m /\ m < K /\ q * K \in Int
    <2>1. q \in Int
      BY <1>2 DEF q
    <2>2. q * K \in Int
      BY <2>1
    <2>3. QED
      BY <1>1, <1>3, <1>4, <1>5, <2>1, <2>2 DEF q, m
  <1>7. q * K <= L /\ L < q * K + K
    BY <1>6
  <1>8. QED
    BY <1>6, <1>7 DEF q

\* The number of pieces of K bytes in L bytes.
LEMMA RoundedUp ==
  ASSUME NEW K \in Nat, K > 0, NEW L \in Nat, L > 0
  PROVE  LET q == (L + K - 1) \div K
         IN  q \in Nat /\ q > 0 /\ (q - 1) * K < L /\ L <= q * K
  <1> DEFINE q == (L + K - 1) \div K
  <1>1. L + K - 1 \in Nat
    OBVIOUS
  <1>2. q \in Nat /\ q * K <= L + K - 1 /\ L + K - 1 < q * K + K
    BY <1>1, Quotient
  <1> HIDE DEF q
  <1>3. (q - 1) * K = q * K - K /\ q * K \in Int
    BY <1>2
  <1>4. q > 0
    <2>1. q = 0 => q * K = 0
      OBVIOUS
    <2>2. QED
      BY <1>2, <2>1
  <1>5. (q - 1) * K < L /\ L <= q * K
    BY <1>2, <1>3
  <1>6. QED
    BY <1>2, <1>4, <1>5 DEF q

\* A range is cut into p: pieces in order, of at most K bytes, one behind the other, that hold
\* just its addresses.
CutsInto(seg, K, p) ==
  /\ p \in Seq(Ranges) /\ Len(p) > 0
  /\ \A i \in 1 .. Len(p) : /\ seg.s <= p[i].s /\ p[i].s < p[i].e /\ p[i].e <= seg.e
                            /\ p[i].e <= p[i].s + K
  /\ \A i, j \in 1 .. Len(p) : i < j => p[i].e <= p[j].s
  /\ \A i \in 2 .. Len(p) : p[i].s = p[i - 1].e
  /\ p[1].s = seg.s /\ p[Len(p)].e = seg.e
  /\ \A a \in Int : Holds(ToSet(p), a) <=> seg.s <= a /\ a < seg.e

\* Cut does that.
LEMMA CutIs ==
  ASSUME NEW seg, seg.s \in Nat, seg.e \in Nat, seg.s < seg.e, NEW K \in Nat, K > 0
  PROVE  CutsInto(seg, K, Cut(seg, K))
  <1> DEFINE L == seg.e - seg.s
             q == (L + K - 1) \div K
             p == Cut(seg, K)
             low(i) == (i - 1) * K
             piece(i) == [s |-> seg.s + low(i), e |-> Min({seg.e, seg.s + i * K})]
  <1>1. L \in Nat /\ L > 0 /\ seg.e = seg.s + L
    OBVIOUS
  <1>2. q \in Nat /\ q > 0 /\ (q - 1) * K < L /\ L <= q * K
    BY <1>1, RoundedUp
  <1>3. seg.e - seg.s + K - 1 = L + K - 1
    OBVIOUS
  <1>4. p = [i \in 1 .. q |-> piece(i)]
    BY <1>3 DEF Cut
  <1> HIDE DEF L, q, p
  <1>5. ASSUME NEW i \in 1 .. q
        PROVE  /\ low(i) \in Nat /\ low(i) < L /\ low(i) + K = i * K /\ i * K \in Nat
               /\ p[i].s = seg.s + low(i)
               /\ p[i].e = (IF i * K <= L THEN seg.s + i * K ELSE seg.e)
               /\ p[i] \in Ranges
               /\ i = q => ~(i * K < L)
               /\ i < q => i * K < L
    <2>1. /\ i - 1 \in Nat /\ 0 <= i - 1 /\ i - 1 <= q - 1 /\ q - 1 \in Int /\ 0 \in Int
          /\ i - 1 \in Int
      BY <1>2
    <2>2. low(i) \in Int /\ i * K \in Int /\ low(i) + K = i * K
      BY <2>1
    <2>3. 0 * K <= low(i) /\ low(i) <= (q - 1) * K
      BY <2>1, Multiples
    <2>4. 0 * K = 0 /\ (q - 1) * K \in Int
      BY <2>1
    <2>5. low(i) \in Nat /\ low(i) < L
      BY <1>1, <1>2, <2>2, <2>3, <2>4
    <2>6. i < q => i <= q - 1 /\ i * K <= (q - 1) * K
      BY <1>2, <2>1, Multiples
    <2> DEFINE z == i * K
               c == low(i)
    <2> HIDE DEF z, c
    <2>7. z \in Nat /\ c \in Nat /\ c < L /\ c + K = z
      BY <2>2, <2>5 DEF z, c
    <2>8. Min({seg.e, seg.s + z}) = IF z <= L THEN seg.s + z ELSE seg.e
      <3>1. seg.s + z \in Int /\ seg.e \in Int
        BY <2>7
      <3>2. Min({seg.e, seg.s + z}) = IF seg.e <= seg.s + z THEN seg.e ELSE seg.s + z
        BY <3>1, MinOf
      <3>3. QED
        BY <1>1, <2>7, <3>2
    <2>9. p[i] = [s |-> seg.s + c, e |-> Min({seg.e, seg.s + z})]
      BY <1>4 DEF z, c
    <2>10. /\ p[i].s = seg.s + c /\ p[i].e = (IF z <= L THEN seg.s + z ELSE seg.e)
           /\ p[i] \in Ranges
      BY <1>1, <2>7, <2>8, <2>9 DEF Ranges
    <2>11. i = q => ~(z < L)
      <3>1. i = q => z = q * K
        BY DEF z
      <3>2. q * K \in Int
        BY <1>2
      <3>3. QED
        BY <1>1, <1>2, <2>7, <3>1, <3>2
    <2>12. i < q => z < L
      BY <1>1, <1>2, <2>4, <2>6, <2>7 DEF z
    <2>13. QED
      BY <2>7, <2>10, <2>11, <2>12 DEF z, c
  <1>6. p \in Seq(Ranges) /\ Len(p) = q /\ DOMAIN p = 1 .. q
    <2>1. DOMAIN p = 1 .. q /\ p \in [1 .. q -> Ranges]
      BY <1>4, <1>5
    <2>2. p \in Seq(Ranges)
      BY <1>2, <2>1, SeqDef
    <2>3. Len(p) \in Nat /\ 1 .. Len(p) = 1 .. q
      BY <2>1, <2>2, InSeq
    <2>4. QED
      BY <1>2, <2>1, <2>2, <2>3, SameLen
  <1>7. ASSUME NEW i \in 1 .. q
        PROVE  seg.s <= p[i].s /\ p[i].s < p[i].e /\ p[i].e <= seg.e /\ p[i].e <= p[i].s + K
    <2> HIDE DEF low
    <2> DEFINE z == i * K
    <2> HIDE DEF z
    <2>1. /\ low(i) \in Nat /\ low(i) < L /\ low(i) + K = z /\ z \in Nat
          /\ p[i].s = seg.s + low(i) /\ p[i].e = (IF z <= L THEN seg.s + z ELSE seg.e)
      BY <1>5 DEF z
    <2>2. QED
      BY <1>1, <2>1
  <1>8. ASSUME NEW i \in 1 .. q, NEW j \in 1 .. q, i < j PROVE p[i].e <= p[j].s
    <2>1. i <= j - 1 /\ i \in Int /\ j - 1 \in Int /\ i < q
      BY <1>2, <1>8
    <2>2. i * K <= low(j)
      BY <2>1, Multiples
    <2>3. p[i].e = (IF i * K <= L THEN seg.s + i * K ELSE seg.e) /\ i * K \in Nat /\ i * K < L
      BY <1>5, <2>1
    <2>4. p[j].s = seg.s + low(j) /\ low(j) \in Nat
      BY <1>5
    <2> HIDE DEF low
    <2> DEFINE z == i * K
    <2> HIDE DEF z
    <2>5. z <= low(j) /\ p[i].e = (IF z <= L THEN seg.s + z ELSE seg.e) /\ z \in Nat /\ z < L
      BY <2>2, <2>3 DEF z
    <2>6. QED
      BY <1>1, <2>4, <2>5
  <1>9. ASSUME NEW i \in 2 .. q PROVE p[i].s = p[i - 1].e
    <2>1. i - 1 \in 1 .. q /\ i \in 1 .. q /\ i - 1 < q
      BY <1>2
    <2>2. /\ p[i - 1].e = (IF (i - 1) * K <= L THEN seg.s + (i - 1) * K ELSE seg.e)
          /\ (i - 1) * K < L
          /\ (i - 1) * K \in Nat
      BY <1>5, <2>1
    <2>3. p[i].s = seg.s + (i - 1) * K
      BY <1>5, <2>1
    <2> DEFINE z == (i - 1) * K
    <2> HIDE DEF z
    <2>4. /\ p[i - 1].e = (IF z <= L THEN seg.s + z ELSE seg.e) /\ z < L /\ z \in Nat
          /\ p[i].s = seg.s + z
      BY <2>2, <2>3 DEF z
    <2>5. QED
      BY <1>1, <2>4
  <1>10. p[1].s = seg.s
    <2>1. 1 \in 1 .. q /\ low(1) = 0
      BY <1>2
    <2>2. p[1].s = seg.s + low(1)
      BY <1>5, <2>1
    <2>3. QED
      BY <2>1, <2>2
  <1>11. p[q].e = seg.e
    <2> DEFINE z == q * K
    <2>1. q \in 1 .. q
      BY <1>2
    <2> HIDE DEF z
    <2>2. p[q].e = (IF z <= L THEN seg.s + z ELSE seg.e) /\ ~(z < L) /\ z \in Nat
      BY <1>5, <2>1 DEF z
    <2>3. QED
      BY <1>1, <2>2
  <1>12. ASSUME NEW a \in Int PROVE Holds(ToSet(p), a) <=> seg.s <= a /\ a < seg.e
    <2>1. Holds(ToSet(p), a) <=> \E i \in 1 .. q : p[i].s <= a /\ a < p[i].e
      BY <1>6, InSeq DEF Holds
    <2>2. ASSUME NEW i \in 1 .. q, p[i].s <= a, a < p[i].e PROVE seg.s <= a /\ a < seg.e
      <3>1. p[i].s \in Nat /\ p[i].e \in Nat
        BY <1>5 DEF Ranges
      <3>2. QED
        BY <1>7, <2>2, <3>1
    <2>3. ASSUME seg.s <= a, a < seg.e PROVE \E i \in 1 .. q : p[i].s <= a /\ a < p[i].e
      <3> DEFINE d == a - seg.s
                 k == d \div K
      <3>1. d \in Nat /\ d < L /\ a = seg.s + d
        BY <1>1, <2>3
      <3>2. k \in Nat /\ k * K <= d /\ d < k * K + K
        BY <3>1, Quotient
      <3> HIDE DEF k, d
      <3>3. k < q
        <4>1. ASSUME q <= k PROVE FALSE
          <5>1. q * K <= k * K
            BY <1>2, <3>2, <4>1, Multiples
          <5>2. q * K \in Int /\ k * K \in Int
            BY <1>2, <3>2
          <5>3. QED
            BY <1>1, <1>2, <3>1, <3>2, <5>1, <5>2
        <4>2. QED
          BY <1>2, <3>2, <4>1
      <3>4. k + 1 \in 1 .. q /\ k + 1 - 1 = k
        BY <1>2, <3>2, <3>3
      <3>5. /\ low(k + 1) = k * K /\ low(k + 1) + K = (k + 1) * K
            /\ p[k + 1].s = seg.s + low(k + 1)
            /\ p[k + 1].e = (IF (k + 1) * K <= L THEN seg.s + (k + 1) * K ELSE seg.e)
        <4> DEFINE j == k + 1
        <4>0. j \in 1 .. q /\ j - 1 = k
          BY <3>2, <3>4
        <4> HIDE DEF j
        <4>1. j \in 1 .. q /\ low(j) = k * K
          BY <4>0
        <4>2. /\ low(j) + K = j * K /\ p[j].s = seg.s + low(j)
              /\ p[j].e = (IF j * K <= L THEN seg.s + j * K ELSE seg.e)
          BY <1>5, <4>1
        <4> HIDE DEF low
        <4>3. QED
          BY <4>1, <4>2 DEF j
      <3> DEFINE y == k * K
                 z == (k + 1) * K
      <3> HIDE DEF y, z, low
      <3>6. /\ y \in Int /\ z = y + K /\ y <= d /\ d < y + K
            /\ p[k + 1].s = seg.s + y /\ p[k + 1].e = (IF z <= L THEN seg.s + z ELSE seg.e)
        BY <3>2, <3>5 DEF y, z
      <3>7. p[k + 1].s <= a /\ a < p[k + 1].e
        BY <1>1, <3>1, <3>6
      <3>8. QED
        BY <3>4, <3>7
    <2>4. QED
      BY <2>1, <2>2, <2>3
  <1>13. QED
    <2>1. CutsInto(seg, K, p)
      BY <1>2, <1>6, <1>7, <1>8, <1>9, <1>10, <1>11, <1>12 DEF CutsInto
    <2>2. QED
      BY <2>1 DEF p

\* Ranges in order, none overlapping.
Ordered(p) == \A i, j \in 1 .. Len(p) : i < j => p[i].e <= p[j].s

\* A line of a mode in M has the byte at the address a, which wraps around.
Shows(S, a, M) == \E r \in S : r.mode \in M /\ \E i \in 0 .. r.length - 1 :
    a = (r.addr + i) % Word

\* Two sequences in order, the first before the second.
LEMMA ConcatOrdered ==
  ASSUME NEW s \in Seq(Ranges), NEW t \in Seq(Ranges), Ordered(s), Ordered(t),
         \A x \in ToSet(s), y \in ToSet(t) : x.e <= y.s
  PROVE  Ordered(s \o t)
  <1> DEFINE u == s \o t
             m == Len(s)
             n == Len(t)
  <1>1. /\ Len(u) = m + n /\ m \in Nat /\ n \in Nat
        /\ \A i \in 1 .. m + n : u[i] = IF i <= m THEN s[i] ELSE t[i - m]
    BY ConcatProperties, LenProperties
  <1>2. (\A i \in 1 .. m : s[i] \in ToSet(s)) /\ (\A i \in 1 .. n : t[i] \in ToSet(t))
    BY InSeq
  <1>3. /\ \A i, j \in 1 .. m : i < j => s[i].e <= s[j].s
        /\ \A i, j \in 1 .. n : i < j => t[i].e <= t[j].s
    BY DEF Ordered
  <1> HIDE DEF u, m, n
  <1>4. ASSUME NEW i \in 1 .. m + n, NEW j \in 1 .. m + n, i < j PROVE u[i].e <= u[j].s
    <2>1. CASE j <= m
      <3>1. i \in 1 .. m /\ j \in 1 .. m /\ i <= m
        BY <1>1, <1>4, <2>1
      <3>2. u[i] = s[i] /\ u[j] = s[j]
        BY <1>1, <2>1, <3>1
      <3>3. QED
        BY <1>3, <1>4, <3>1, <3>2
    <2>2. CASE i <= m /\ ~(j <= m)
      <3>1. i \in 1 .. m /\ j - m \in 1 .. n
        BY <1>1, <1>4, <2>2
      <3>2. u[i] = s[i] /\ u[j] = t[j - m]
        BY <1>1, <2>2
      <3>3. QED
        BY <1>2, <3>1, <3>2
    <2>3. CASE ~(i <= m)
      <3>1. i - m \in 1 .. n /\ j - m \in 1 .. n /\ i - m < j - m /\ ~(j <= m)
        BY <1>1, <1>4, <2>3
      <3>2. u[i] = t[i - m] /\ u[j] = t[j - m]
        BY <1>1, <2>3, <3>1
      <3>3. QED
        BY <1>3, <3>1, <3>2
    <2>4. QED
      BY <2>1, <2>2, <2>3
  <1>5. QED
    BY <1>1, <1>4 DEF u, Ordered

\* All ranges cut: the same addresses in pieces that end in memory, in order when the ranges
\* are apart.
LEMMA PiecesIs ==
  ASSUME NEW segs \in Seq(Segs), NEW K \in Nat, K > 0
  PROVE  LET p == Pieces(segs, K)
         IN  /\ p \in Seq(Ranges)
             /\ \A a \in Int : Holds(ToSet(p), a) <=> Holds(ToSet(segs), a)
             /\ \A r \in ToSet(p) : r.s < r.e /\ r.e <= Word /\ r.e <= r.s + K
             /\ Apart(segs) => Ordered(p)
  <1> DEFINE n == Len(segs)
             cut == [i \in 1 .. n |-> Cut(segs[i], K)]
  <1>1. /\ n \in Nat /\ DOMAIN segs = 1 .. n /\ (\A i \in 1 .. n : segs[i] \in Segs)
        /\ \A x : x \in ToSet(segs) <=> \E i \in 1 .. n : x = segs[i]
    BY InSeq
  <1>2. Pieces(segs, K) = FlattenSeq(cut)
    BY <1>1 DEF Pieces
  <1>3. \A i \in 1 .. n :
            segs[i].s \in Nat /\ segs[i].e \in Nat /\ segs[i].s < segs[i].e /\ segs[i].e <= Word
    BY <1>1, SegIs
  <1>4. \A i \in 1 .. n : cut[i] = Cut(segs[i], K)
    OBVIOUS
  <1>5. \A i \in 1 .. n : CutsInto(segs[i], K, cut[i])
    BY <1>3, <1>4, CutIs
  <1>6. \A i \in 1 .. n : cut[i] \in Seq(Ranges)
    BY <1>5 DEF CutsInto
  <1>7. cut \in [1 .. n -> Seq(Ranges)]
    BY <1>6
  <1> DEFINE p == FlattenSeq(cut)
  <1> HIDE DEF n, cut, p
  <1>8. p \in Seq(Ranges) /\ \A x : x \in ToSet(p) <=> \E i \in 1 .. n : x \in ToSet(cut[i])
    BY <1>1, <1>7, FlattenIs DEF p
  <1>9. ASSUME NEW a \in Int PROVE Holds(ToSet(p), a) <=> Holds(ToSet(segs), a)
    <2>1. Holds(ToSet(p), a) <=> \E i \in 1 .. n : Holds(ToSet(cut[i]), a)
      BY <1>8 DEF Holds
    <2>2. Holds(ToSet(segs), a) <=> \E i \in 1 .. n : segs[i].s <= a /\ a < segs[i].e
      BY <1>1 DEF Holds
    <2>3. \A i \in 1 .. n : Holds(ToSet(cut[i]), a) <=> segs[i].s <= a /\ a < segs[i].e
      BY <1>5 DEF CutsInto
    <2>4. QED
      BY <2>1, <2>2, <2>3
  <1>10. ASSUME NEW i \in 1 .. n, NEW r \in ToSet(cut[i])
         PROVE  /\ r \in Ranges /\ segs[i].s <= r.s /\ r.s < r.e /\ r.e <= segs[i].e
                /\ r.e <= r.s + K
    <2>1. cut[i] \in Seq(Ranges)
      BY <1>6
    <2>2. PICK j \in 1 .. Len(cut[i]) : r = cut[i][j]
      BY <2>1, InSeq
    <2>3. r \in Ranges
      BY <2>1, <2>2, InSeq
    <2>4. QED
      BY <1>5, <2>2, <2>3 DEF CutsInto
  <1>11. ASSUME NEW r \in ToSet(p) PROVE r.s < r.e /\ r.e <= Word /\ r.e <= r.s + K
    <2>1. PICK i \in 1 .. n : r \in ToSet(cut[i])
      BY <1>8
    <2>2. r \in Ranges /\ r.s < r.e /\ r.e <= segs[i].e /\ r.e <= r.s + K
      BY <1>10, <2>1
    <2>3. r.e \in Nat
      BY <2>2 DEF Ranges
    <2>4. QED
      BY <1>3, <2>2, <2>3, WordIs
  <1>12. ASSUME Apart(segs) PROVE Ordered(p)
    <2>1. PICK f \in [0 .. n -> Seq(Ranges)] : FlattensBy(f, cut, n)
      BY <1>1, <1>7, FlattenFold
    <2>2. f[0] = <<>> /\ (\A i \in 1 .. n : f[i] = f[i - 1] \o cut[i]) /\ p = f[n]
      BY <2>1 DEF FlattensBy, p
    <2> DEFINE Good(i) == /\ Ordered(f[i])
                          /\ \A x \in ToSet(f[i]) : \E j \in 1 .. i : x.e <= segs[j].e
               G == {i \in 0 .. n : Good(i)}
    <2>3. 0 \in G
      <3>1. Ordered(<<>>)
        BY DEF Ordered
      <3>2. \A x : x \notin ToSet(<<>>)
        BY DEF ToSet
      <3>3. QED
        BY <1>1, <2>2, <3>1, <3>2
    <2>4. ASSUME NEW i \in 1 .. n, i - 1 \in G PROVE i \in G
      <3> HIDE DEF Good
      <3>1. i - 1 \in 0 .. n /\ i \in 0 .. n /\ Good(i - 1)
        BY <2>4
      <3> USE DEF Good
      <3>2. /\ f[i - 1] \in Seq(Ranges) /\ cut[i] \in Seq(Ranges) /\ f[i] = f[i - 1] \o cut[i]
            /\ f[i] \in Seq(Ranges)
        BY <1>6, <2>1, <2>2, <3>1
      <3>3. /\ Ordered(f[i - 1])
            /\ \A x \in ToSet(f[i - 1]) : \E j \in 1 .. i - 1 : x.e <= segs[j].e
        BY <3>1
      <3>4. Ordered(cut[i])
        BY <1>5 DEF CutsInto, Ordered
      <3>5. ASSUME NEW x \in ToSet(f[i - 1]), NEW y \in ToSet(cut[i]) PROVE x.e <= y.s
        <4>1. PICK j \in 1 .. i - 1 : x.e <= segs[j].e
          BY <3>3
        <4>2. j \in 1 .. n /\ j < i
          BY <1>1
        <4>3. segs[j].e < segs[i].s
          BY <1>1, <1>12, <4>2 DEF Apart
        <4>4. segs[i].s <= y.s /\ y \in Ranges
          BY <1>10
        <4>5. x \in Ranges
          BY <3>2, InSeq
        <4>6. x.e \in Nat /\ y.s \in Nat
          BY <4>4, <4>5 DEF Ranges
        <4>7. QED
          BY <1>3, <4>1, <4>2, <4>3, <4>4, <4>6
      <3>6. Ordered(f[i])
        BY <3>2, <3>3, <3>4, <3>5, ConcatOrdered
      <3>7. ASSUME NEW x \in ToSet(f[i]) PROVE \E j \in 1 .. i : x.e <= segs[j].e
        <4>1. x \in ToSet(f[i - 1]) \/ x \in ToSet(cut[i])
          BY <3>2, ConcatSet
        <4>2. CASE x \in ToSet(f[i - 1])
          <5>1. PICK j \in 1 .. i - 1 : x.e <= segs[j].e
            BY <3>3, <4>2
          <5>2. j \in 1 .. i
            BY <1>1
          <5>3. QED
            BY <5>1, <5>2
        <4>3. CASE x \in ToSet(cut[i])
          <5>1. x.e <= segs[i].e
            BY <1>10, <4>3
          <5>2. QED
            BY <5>1
        <4>4. QED
          BY <4>1, <4>2, <4>3
      <3>8. QED
        BY <3>1, <3>6, <3>7
    <2>5. n \in 0 .. n
      BY <1>1
    <2> HIDE DEF G
    <2>6. n \in G
      BY <1>1, <2>3, <2>4, <2>5, UpTo
    <2>7. QED
      BY <2>2, <2>6 DEF G
  <1>13. QED
    BY <1>2, <1>8, <1>9, <1>11, <1>12 DEF p

\* An address at most once around.
LEMMA Wraps ==
  ASSUME NEW x \in Int
  PROVE  /\ 0 <= x /\ x < Word => x % Word = x
         /\ Word <= x /\ x < Word + Word => x % Word = x - Word
  <1> DEFINE y == x - Word
  <1>1. Word \in Nat /\ y \in Int
    BY WordIs
  <1>2. y % Word = x % Word
    BY ModWord
  <1>3. 0 <= x /\ x < Word => x % Word = x
    <2>1. 0 <= x /\ x < Word => x \in Words
      BY <1>1 DEF Words
    <2>2. QED
      BY <2>1, ModWord
  <1>4. Word <= x /\ x < Word + Word => y % Word = y
    <2>1. Word <= x /\ x < Word + Word => y \in Words
      BY <1>1 DEF Words
    <2> HIDE DEF y
    <2>2. QED
      BY <1>1, <2>1, ModWord
  <1>5. QED
    BY <1>2, <1>3, <1>4

\* A line split at the end of memory has the same bytes.
LEMMA SplitIs ==
  ASSUME NEW r \in Rows, NEW M \in SUBSET (2 .. 15), NEW a \in Int
  PROVE  Split(r) \in Seq(Segs) /\ (Covers(ToSet(Split(r)), a, M) <=> Shows({r}, a, M))
  <1>1. CASE r = Blank
    <2>1. Split(r) = <<>>
      BY <1>1 DEF Split, Blank
    <2>2. Split(r) \in Seq(Segs) /\ \A x : x \notin ToSet(Split(r))
      BY <2>1 DEF ToSet
    <2>3. r.length = 0
      BY <1>1 DEF Blank
    <2>4. QED
      BY <2>2, <2>3 DEF Covers, Shows
  <1>2. CASE r \in Mapped
    <2> DEFINE e == r.addr + r.length
    <2>1. /\ r.addr \in Words /\ r.addr \in Nat /\ r.addr < Word /\ r.length \in 1 .. 48
          /\ r.mode \in 2 .. 15
          /\ r.addr # NoAddr /\ r.length # 0 /\ e \in Nat /\ Word \in Nat /\ Word > 255
      BY <1>2, WordIs DEF Mapped, Words
    <2>2. Shows({r}, a, M) <=>
              r.mode \in M /\ \E i \in 0 .. r.length - 1 : a = (r.addr + i) % Word
      BY DEF Shows
    <2>3. \A i \in 0 .. r.length - 1 :
             (r.addr + i) % Word = IF r.addr + i < Word THEN r.addr + i ELSE r.addr + i - Word
      <3>1. TAKE i \in 0 .. r.length - 1
      <3> DEFINE x == r.addr + i
      <3>2. x \in Int /\ 0 <= x /\ x < Word + Word
        BY <2>1
      <3> HIDE DEF x
      <3>3. x % Word = IF x < Word THEN x ELSE x - Word
        BY <2>1, <3>2, Wraps
      <3>4. x = r.addr + i
        BY DEF x
      <3>5. QED
        BY <2>1, <3>2, <3>3, <3>4
    <2>4. CASE e <= Word
      <3> DEFINE g == [s |-> r.addr, e |-> e, mode |-> r.mode]
      <3>1. Split(r) = <<g>>
        BY <2>1, <2>4 DEF Split
      <3>2. g \in Segs
        BY <2>1, <2>4 DEF Segs
      <3>3. ToSet(Split(r)) = {g}
        BY <3>1 DEF ToSet
      <3>4. Covers(ToSet(Split(r)), a, M) <=> r.addr <= a /\ a < e /\ r.mode \in M
        BY <3>3 DEF Covers
      <3>5. (\E i \in 0 .. r.length - 1 : a = (r.addr + i) % Word) <=> r.addr <= a /\ a < e
        <4>1. \A i \in 0 .. r.length - 1 : (r.addr + i) % Word = r.addr + i
          BY <2>1, <2>3, <2>4
        <4>2. (r.addr <= a /\ a < e) =>
                  a - r.addr \in 0 .. r.length - 1 /\ a = r.addr + (a - r.addr)
          BY <2>1
        <4>3. \A i \in 0 .. r.length - 1 : a = r.addr + i => r.addr <= a /\ a < e
          BY <2>1
        <4>4. QED
          BY <4>1, <4>2, <4>3
      <3>6. QED
        BY <2>2, <3>1, <3>2, <3>4, <3>5
    <2>5. CASE ~(e <= Word)
      <3> DEFINE w == e - Word
                 g == [s |-> r.addr, e |-> Word, mode |-> r.mode]
                 h == [s |-> 0, e |-> w, mode |-> r.mode]
      <3>1. e % Word = w
        <4>1. e \in Int /\ Word <= e /\ e < Word + Word
          BY <2>1, <2>5
        <4> HIDE DEF e
        <4>2. QED
          BY <4>1, Wraps
      <3>2. Split(r) = <<g, h>>
        BY <2>1, <2>5, <3>1 DEF Split
      <3>3. g \in Segs /\ h \in Segs
        BY <2>1, <2>5, WordIs DEF Segs
      <3>4. ToSet(Split(r)) = {g, h}
        BY <3>2 DEF ToSet
      <3>5. Covers(ToSet(Split(r)), a, M) <=>
                ((r.addr <= a /\ a < Word) \/ (0 <= a /\ a < w)) /\ r.mode \in M
        BY <3>4 DEF Covers
      <3>6. (\E i \in 0 .. r.length - 1 : a = (r.addr + i) % Word) <=>
                (r.addr <= a /\ a < Word) \/ (0 <= a /\ a < w)
        <4>1. ASSUME r.addr <= a, a < Word
              PROVE  \E i \in 0 .. r.length - 1 : a = (r.addr + i) % Word
          <5> DEFINE i == a - r.addr
          <5>1. i \in 0 .. r.length - 1 /\ r.addr + i = a
            BY <2>1, <2>5, <4>1
          <5> HIDE DEF i
          <5>2. (r.addr + i) % Word = IF r.addr + i < Word THEN r.addr + i
                                      ELSE r.addr + i - Word
            BY <2>3, <5>1
          <5>3. (r.addr + i) % Word = r.addr + i
            BY <4>1, <5>1, <5>2, Zenon
          <5>4. QED
            BY <5>1, <5>3, Zenon
        <4>2. ASSUME 0 <= a, a < w PROVE \E i \in 0 .. r.length - 1 : a = (r.addr + i) % Word
          <5> DEFINE i == a + Word - r.addr
          <5>1. i \in 0 .. r.length - 1 /\ r.addr + i = a + Word /\ ~(r.addr + i < Word)
            BY <2>1, <2>5, <4>2
          <5>2. a + Word - Word = a
            BY <2>1
          <5> HIDE DEF i
          <5>3. (r.addr + i) % Word = IF r.addr + i < Word THEN r.addr + i
                                      ELSE r.addr + i - Word
            BY <2>3, <5>1
          <5>4. (r.addr + i) % Word = r.addr + i - Word
            BY <5>1, <5>3, Zenon
          <5>5. r.addr + i - Word = a
            BY <2>1, <5>1
          <5>6. (r.addr + i) % Word = a
            BY <5>4, <5>5, Zenon
          <5>7. QED
            BY <5>1, <5>6, Zenon
        <4>3. ASSUME NEW i \in 0 .. r.length - 1, a = (r.addr + i) % Word
              PROVE  (r.addr <= a /\ a < Word) \/ (0 <= a /\ a < w)
          <5>1. a = IF r.addr + i < Word THEN r.addr + i ELSE r.addr + i - Word
            BY <2>3, <4>3
          <5>2. QED
            BY <2>1, <2>5, <5>1
        <4>4. QED
          BY <4>1, <4>2, <4>3
      <3>7. QED
        BY <2>2, <3>2, <3>3, <3>5, <3>6
    <2>6. QED
      BY <2>4, <2>5
  <1>3. QED
    BY <1>1, <1>2 DEF Rows

\* All lines split.
LEMMA SegmentsIs ==
  ASSUME NEW rows \in Seq(Rows), NEW M \in SUBSET (2 .. 15), NEW a \in Int
  PROVE  /\ Segments(rows) \in Seq(Segs)
         /\ Covers(ToSet(Segments(rows)), a, M) <=> Shows(ToSet(rows), a, M)
  <1> DEFINE n == Len(rows)
             parts == [i \in 1 .. n |-> Split(rows[i])]
  <1>1. /\ n \in Nat /\ DOMAIN rows = 1 .. n /\ (\A i \in 1 .. n : rows[i] \in Rows)
        /\ \A x : x \in ToSet(rows) <=> \E i \in 1 .. n : x = rows[i]
    BY InSeq
  <1>2. Segments(rows) = FlattenSeq(parts)
    BY <1>1 DEF Segments
  <1>3. \A i \in 1 .. n : parts[i] = Split(rows[i])
    OBVIOUS
  <1>4. \A i \in 1 .. n :
            parts[i] \in Seq(Segs) /\ (Covers(ToSet(parts[i]), a, M) <=> Shows({rows[i]}, a, M))
    BY <1>1, <1>3, SplitIs
  <1>5. parts \in [1 .. n -> Seq(Segs)]
    BY <1>4
  <1> HIDE DEF n, parts
  <1>6. /\ FlattenSeq(parts) \in Seq(Segs)
        /\ \A x : x \in ToSet(FlattenSeq(parts)) <=> \E i \in 1 .. n : x \in ToSet(parts[i])
    BY <1>1, <1>5, FlattenIs
  <1>7. Covers(ToSet(FlattenSeq(parts)), a, M) <=>
            \E i \in 1 .. n : Covers(ToSet(parts[i]), a, M)
    BY <1>6 DEF Covers
  <1>8. Shows(ToSet(rows), a, M) <=> \E i \in 1 .. n : Shows({rows[i]}, a, M)
    BY <1>1 DEF Shows
  <1>9. QED
    BY <1>2, <1>4, <1>6, <1>7, <1>8

(***************************************************************************)
(* The plan and the segments.                                              *)
(***************************************************************************)

\* The lines of a list are well formed.
LEMMA RowRangesIs ==
  ASSUME NEW entries \in Seq(Entries), NEW dmactl \in Bytes
  PROVE  RowRanges(entries, dmactl) \in Seq(Rows)
  <1>1. PICK f \in [0 .. Len(entries) -> Accs] : RowedBy(f, entries, dmactl)
    BY RowedFold
  <1>2. RowRanges(entries, dmactl) = f[Len(entries)].rows
    BY <1>1 DEF RowedBy
  <1>3. Len(entries) \in 0 .. Len(entries)
    BY InSeq
  <1>4. QED
    BY <1>1, <1>2, <1>3 DEF Accs

\* Only blank lines have no mode, no address and no length.
LEMMA MappedRow ==
  ASSUME NEW r \in Rows
  PROVE  (r.mode = 0 <=> r = Blank) /\ (r.addr = NoAddr \/ r.length = 0 <=> r = Blank)
  <1>1. CASE r = Blank
    BY <1>1 DEF Blank
  <1>2. CASE r \in Mapped
    <2>1. r.addr \in Words /\ r.length \in 1 .. 48 /\ r.mode \in 2 .. 15 /\ NoAddr \notin Words
      BY <1>2, WordIs DEF Mapped
    <2>2. Blank.mode = 0
      BY DEF Blank
    <2>3. QED
      BY <2>1, <2>2
  <1>3. QED
    BY <1>1, <1>2 DEF Rows

\* The lines that have memory are all but the blank ones.
LEMMA SlicesIs ==
  ASSUME NEW rows \in Seq(Rows)
  PROVE  /\ Slices(rows) \in Seq(Mapped)
         /\ \A x : x \in ToSet(Slices(rows)) <=> x \in ToSet(rows) /\ x # Blank
  <1> DEFINE n == Len(rows)
             parts == [i \in 1 .. n |-> IF rows[i].addr = NoAddr \/ rows[i].length = 0 THEN <<>>
                                        ELSE <<rows[i]>>]
  <1>1. /\ n \in Nat /\ DOMAIN rows = 1 .. n /\ (\A i \in 1 .. n : rows[i] \in Rows)
        /\ \A x : x \in ToSet(rows) <=> \E i \in 1 .. n : x = rows[i]
    BY InSeq
  <1>2. Slices(rows) = FlattenSeq(parts)
    BY <1>1 DEF Slices
  <1>3. \A i \in 1 .. n : parts[i] = IF rows[i] = Blank THEN <<>> ELSE <<rows[i]>>
    BY <1>1, MappedRow
  <1> HIDE DEF n, parts
  <1>4. ASSUME NEW i \in 1 .. n
        PROVE  /\ parts[i] \in Seq(Mapped)
               /\ \A x : x \in ToSet(parts[i]) <=> x = rows[i] /\ x # Blank
    <2>1. CASE rows[i] = Blank
      <3>0. parts[i] = <<>>
        BY <1>3, <2>1
      <3>1. parts[i] = <<>> /\ <<>> \in Seq(Mapped)
        BY <3>0
      <3>2. \A x : x \notin ToSet(<<>>)
        BY DEF ToSet
      <3>3. QED
        BY <2>1, <3>1, <3>2
    <2>2. CASE rows[i] # Blank
      <3>1. parts[i] = <<rows[i]>> /\ rows[i] \in Mapped
        BY <1>1, <1>3, <2>2 DEF Rows
      <3>2. ToSet(<<rows[i]>>) = {rows[i]}
        BY DEF ToSet
      <3>3. QED
        BY <2>2, <3>1, <3>2
    <2>3. QED
      BY <2>1, <2>2
  <1>5. parts \in [1 .. n -> Seq(Mapped)]
    BY <1>4 DEF parts
  <1>6. /\ FlattenSeq(parts) \in Seq(Mapped)
        /\ \A x : x \in ToSet(FlattenSeq(parts)) <=> \E i \in 1 .. n : x \in ToSet(parts[i])
    BY <1>1, <1>5, FlattenIs
  <1>7. QED
    BY <1>1, <1>2, <1>4, <1>6

\* And so are the lines with a mode.
LEMMA WithModesIs ==
  ASSUME NEW entries \in Seq(Entries), NEW dmactl \in Bytes
  PROVE  /\ RowRangesWithModes(entries, dmactl) \in Seq(Rows)
         /\ \A x : x \in ToSet(RowRangesWithModes(entries, dmactl)) <=>
                      x \in ToSet(RowRanges(entries, dmactl)) /\ x # Blank
  <1> DEFINE rows == RowRanges(entries, dmactl)
             n == Len(rows)
             parts == [i \in 1 .. n |-> IF rows[i].mode = 0 THEN <<>> ELSE <<rows[i]>>]
  <1>0. rows \in Seq(Rows)
    BY RowRangesIs
  <1> HIDE DEF rows
  <1>1. /\ n \in Nat /\ DOMAIN rows = 1 .. n /\ (\A i \in 1 .. n : rows[i] \in Rows)
        /\ \A x : x \in ToSet(rows) <=> \E i \in 1 .. n : x = rows[i]
    BY <1>0, InSeq
  <1>2. RowRangesWithModes(entries, dmactl) = FlattenSeq(parts)
    BY <1>1 DEF RowRangesWithModes, rows
  <1>3. \A i \in 1 .. n : parts[i] = IF rows[i] = Blank THEN <<>> ELSE <<rows[i]>>
    BY <1>1, MappedRow
  <1> HIDE DEF n, parts
  <1>4. ASSUME NEW i \in 1 .. n
        PROVE  /\ parts[i] \in Seq(Rows)
               /\ \A x : x \in ToSet(parts[i]) <=> x = rows[i] /\ x # Blank
    <2>1. CASE rows[i] = Blank
      <3>0. parts[i] = <<>>
        BY <1>3, <2>1
      <3>1. parts[i] = <<>> /\ <<>> \in Seq(Rows)
        BY <3>0
      <3>2. \A x : x \notin ToSet(<<>>)
        BY DEF ToSet
      <3>3. QED
        BY <2>1, <3>1, <3>2
    <2>2. CASE rows[i] # Blank
      <3>1. parts[i] = <<rows[i]>> /\ rows[i] \in Rows
        BY <1>1, <1>3, <2>2
      <3>2. ToSet(<<rows[i]>>) = {rows[i]}
        BY DEF ToSet
      <3>3. QED
        BY <2>2, <3>1, <3>2
    <2>3. QED
      BY <2>1, <2>2
  <1>5. parts \in [1 .. n -> Seq(Rows)]
    BY <1>4 DEF parts
  <1>6. /\ FlattenSeq(parts) \in Seq(Rows)
        /\ \A x : x \in ToSet(FlattenSeq(parts)) <=> \E i \in 1 .. n : x \in ToSet(parts[i])
    BY <1>1, <1>5, FlattenIs
  <1>7. QED
    BY <1>1, <1>2, <1>4, <1>6 DEF rows

\* The modes with memory.
AllModes == 2 .. 15

\* Plan fetches the bytes of the lines and no others, none twice, in calls of at most K bytes
\* that end in memory.
LEMMA PlanIs ==
  ASSUME NEW rows \in Seq(Rows), NEW K \in Nat, K > 0
  PROVE  LET p == Plan(rows, K)
         IN  /\ p.fetch \in Seq(Ranges) /\ Ordered(p.fetch)
             /\ \A r \in ToSet(p.fetch) : r.s < r.e /\ r.e <= Word /\ r.e <= r.s + K
             /\ \A a \in Int : Holds(ToSet(p.fetch), a) <=> Shows(ToSet(p.slices), a, AllModes)
             /\ p.slices \in Seq(Mapped)
             /\ \A x : x \in ToSet(p.slices) <=> x \in ToSet(rows) /\ x # Blank
  <1> DEFINE segs == Segments(rows)
             sorted == Sorted(segs)
             merged == Merge(sorted, FALSE)
             fetch == Pieces(merged, K)
             slices == Slices(rows)
  <1>1. Plan(rows, K).fetch = fetch /\ Plan(rows, K).slices = slices
    BY DEF Plan
  <1>2. AllModes \in SUBSET (2 .. 15) /\ AllModes = 2 .. 15 /\ FALSE \in BOOLEAN
    BY DEF AllModes
  <1>3. /\ segs \in Seq(Segs)
        /\ \A a \in Int : Covers(ToSet(segs), a, AllModes) <=> Shows(ToSet(rows), a, AllModes)
    <2>1. 0 \in Int
      OBVIOUS
    <2>2. segs \in Seq(Segs)
      BY <1>2, <2>1, SegmentsIs
    <2>3. \A a \in Int : Covers(ToSet(segs), a, AllModes) <=> Shows(ToSet(rows), a, AllModes)
      BY <1>2, SegmentsIs
    <2>4. QED
      BY <2>2, <2>3
  <1> HIDE DEF segs
  <1>4. sorted \in SortedSegs /\ \A x : x \in ToSet(sorted) <=> x \in ToSet(segs)
    BY <1>3, SortedIs
  <1> HIDE DEF sorted
  <1>5. sorted \in Seq(Segs)
    BY <1>4 DEF SortedSegs
  <1>6. merged \in Seq(Segs) /\ Apart(merged)
    BY <1>4, MergeApart
  <1>7. \A a \in Int : Covers(ToSet(merged), a, AllModes) <=> Covers(ToSet(sorted), a, AllModes)
    BY <1>2, <1>5, MergeCovers
  <1> HIDE DEF merged
  <1>8. /\ fetch \in Seq(Ranges) /\ Ordered(fetch)
        /\ \A r \in ToSet(fetch) : r.s < r.e /\ r.e <= Word /\ r.e <= r.s + K
        /\ \A a \in Int : Holds(ToSet(fetch), a) <=> Holds(ToSet(merged), a)
    BY <1>6, PiecesIs
  <1>9. slices \in Seq(Mapped) /\ \A x : x \in ToSet(slices) <=> x \in ToSet(rows) /\ x # Blank
    BY SlicesIs
  <1> HIDE DEF fetch, slices
  <1>10. ASSUME NEW a \in Int PROVE Holds(ToSet(fetch), a) <=> Shows(ToSet(slices), a, AllModes)
    <2>1. Holds(ToSet(merged), a) <=> Covers(ToSet(merged), a, AllModes)
      <3>1. \A r \in ToSet(merged) : r.mode \in AllModes
        BY <1>2, <1>6, InSeq, SegIs
      <3>2. QED
        BY <3>1 DEF Holds, Covers
    <2>2. Covers(ToSet(sorted), a, AllModes) <=> Covers(ToSet(segs), a, AllModes)
      BY <1>4 DEF Covers
    <2>3. Shows(ToSet(rows), a, AllModes) <=> Shows(ToSet(slices), a, AllModes)
      <3>1. Blank.mode \notin AllModes
        BY DEF Blank, AllModes
      <3>2. QED
        BY <1>9, <3>1 DEF Shows
    <2>4. QED
      BY <1>3, <1>7, <1>8, <2>1, <2>2, <2>3
  <1>11. QED
    BY <1>1, <1>8, <1>9, <1>10

\* ScreenSegments has, mode by mode, the bytes of the lines.
LEMMA ScreenSegmentsIs ==
  ASSUME NEW entries \in Seq(Entries), NEW dmactl \in Bytes
  PROVE  LET segs == ScreenSegments(entries, dmactl)
         IN  /\ segs \in Seq(Segs)
             /\ \A mode \in 2 .. 15, a \in Int :
                   Covers(ToSet(segs), a, {mode}) <=>
                       Shows(ToSet(RowRanges(entries, dmactl)), a, {mode})
  <1> DEFINE rows == RowRanges(entries, dmactl)
             shown == RowRangesWithModes(entries, dmactl)
             parts == Segments(shown)
             merged == Merge(parts, TRUE)
  <1>1. ScreenSegments(entries, dmactl) = merged
    BY DEF ScreenSegments
  <1>2. shown \in Seq(Rows) /\ \A x : x \in ToSet(shown) <=> x \in ToSet(rows) /\ x # Blank
    BY WithModesIs
  <1> HIDE DEF rows, shown
  <1>3. parts \in Seq(Segs)
    <2>1. {2} \in SUBSET (2 .. 15) /\ 0 \in Int
      OBVIOUS
    <2>2. QED
      BY <1>2, <2>1, SegmentsIs
  <1>4. \A M \in SUBSET (2 .. 15), a \in Int : Covers(ToSet(parts), a, M) <=>
            Shows(ToSet(shown), a, M)
    BY <1>2, SegmentsIs
  <1> HIDE DEF parts
  <1>5. merged \in Seq(Segs)
    <2>1. {2} \in SUBSET (2 .. 15) /\ 0 \in Int /\ TRUE \in BOOLEAN
      OBVIOUS
    <2>2. QED
      BY <1>3, <2>1, MergeCovers
  <1>6. \A M \in SUBSET (2 .. 15), a \in Int : Covers(ToSet(merged), a, M) <=>
            Covers(ToSet(parts), a, M)
    BY <1>3, MergeCovers
  <1> HIDE DEF merged
  <1>7. ASSUME NEW mode \in 2 .. 15, NEW a \in Int
        PROVE  Covers(ToSet(merged), a, {mode}) <=> Shows(ToSet(rows), a, {mode})
    <2>1. {mode} \in SUBSET (2 .. 15)
      OBVIOUS
    <2>2. Blank.mode \notin {mode}
      BY DEF Blank
    <2>3. Shows(ToSet(shown), a, {mode}) <=> Shows(ToSet(rows), a, {mode})
      BY <1>2, <2>2 DEF Shows
    <2>4. QED
      BY <1>4, <1>6, <2>1, <2>3
  <1>8. QED
    BY <1>1, <1>5, <1>7 DEF rows

(***************************************************************************)
(* Bytes out of a buffer.                                                  *)
(***************************************************************************)

\* The least member is a member.
LEMMA LeastIn ==
  ASSUME NEW S \in SUBSET Nat, S # {}
  PROVE  Min(S) \in S
  <1>1. \E x \in S : \A y \in S : x <= y
    BY LeastOf
  <1>2. QED
    BY <1>1 DEF Min

\* An entry of the index says where its bytes are.
LEMMA IndexIs ==
  ASSUME NEW buffer \in Seq(Cells), NEW index \in Seq(Fetched), BufferOK(buffer, index),
         NEW j \in DOMAIN index
  PROVE  /\ index[j] \in Fetched /\ index[j].s \in Nat /\ index[j].e \in Nat
         /\ index[j].off \in Nat
         /\ index[j].s <= index[j].e /\ index[j].off + (index[j].e - index[j].s) <= Len(buffer)
         /\ Len(buffer) \in Nat
         /\ \A k \in 0 .. index[j].e - index[j].s - 1 :
               buffer[index[j].off + k + 1][1] = (index[j].s + k) % Word
  <1>1. index[j] \in Fetched /\ Len(buffer) \in Nat
    BY InSeq
  <1>2. index[j].s \in Nat /\ index[j].e \in Nat /\ index[j].off \in Nat
    BY <1>1 DEF Fetched
  <1>3. QED
    BY <1>1, <1>2 DEF BufferOK

\* A piece of a sequence.
LEMMA SubSeqIs ==
  ASSUME NEW X, NEW s \in Seq(X), NEW b \in Nat, NEW n \in Nat, b + n <= Len(s)
  PROVE  LET d == SubSeq(s, b + 1, b + n)
         IN  d \in Seq(X) /\ Len(d) = n /\ \A i \in 1 .. n : d[i] = s[b + i]
  <1> DEFINE lo == b + 1
             hi == b + n
             d == SubSeq(s, lo, hi)
  <1>1. lo \in Int /\ hi \in Int /\ hi - lo + 1 = n /\ (lo <= hi <=> n > 0)
        /\ \A i \in 1 .. n : lo + i - 1 = b + i
    OBVIOUS
  <1>2. \A i \in lo .. hi : s[i] \in X
    BY InSeq
  <1> HIDE DEF lo, hi
  <1>3. /\ d \in Seq(X) /\ Len(d) = (IF lo <= hi THEN hi - lo + 1 ELSE 0)
        /\ \A i \in 1 .. hi - lo + 1 : d[i] = s[lo + i - 1]
    BY <1>1, <1>2, SubSeqProperties
  <1> HIDE DEF d
  <1>4. d \in Seq(X) /\ Len(d) = n /\ \A i \in 1 .. n : d[i] = s[b + i]
    <2>1. Len(d) = n
      BY <1>1, <1>3
    <2>2. ASSUME NEW i \in 1 .. n PROVE d[i] = s[b + i]
      <3>1. i \in 1 .. hi - lo + 1 /\ lo + i - 1 = b + i
        BY <1>1
      <3>2. d[i] = s[lo + i - 1]
        BY <1>3, <3>1
      <3>3. QED
        BY <3>1, <3>2
    <2>3. QED
      BY <1>3, <2>1, <2>2
  <1>5. QED
    BY <1>4 DEF d, lo, hi

\* n bytes in order from the address c.
RunsFrom(d, c, n) ==
  d \in Seq(Cells) /\ Len(d) = n /\ \A i \in 1 .. n : d[i][1] = (c + i - 1) % Word

\* An offset inside a part stays inside the whole.
LEMMA PlusWithin ==
  ASSUME NEW a \in Nat, NEW u \in Nat, NEW n \in Nat, NEW v \in Nat, NEW l \in Nat,
         u + n <= v, a + v <= l
  PROVE  a + u \in Nat /\ a + u + n <= l
  OBVIOUS

\* An offset into a part leaves room for what follows.
LEMMA OffsetWithin ==
  ASSUME NEW s \in Nat, NEW e \in Nat, NEW c \in Nat, NEW n \in Nat, s <= c, c + n <= e
  PROVE  c - s \in Nat /\ e - s \in Nat /\ c - s + n <= e - s
  OBVIOUS

\* The byte i of a piece is the byte k of its part.
LEMMA OffsetAt ==
  ASSUME NEW s \in Nat, NEW e \in Nat, NEW o \in Nat, NEW c \in Nat, NEW i \in Nat,
         s <= c, c + i <= e, i > 0
  PROVE  /\ c - s + i - 1 \in 0 .. e - s - 1
         /\ o + c - s + i = o + (c - s + i - 1) + 1
         /\ s + (c - s + i - 1) = c + i - 1
  OBVIOUS

\* A piece of one fetched range has its bytes.
LEMMA PieceIs ==
  ASSUME NEW buffer \in Seq(Cells), NEW index \in Seq(Fetched), BufferOK(buffer, index),
         NEW j \in DOMAIN index, NEW c \in Nat, NEW n \in Nat,
         index[j].s <= c, c + n <= index[j].e
  PROVE  LET from == index[j].off + c - index[j].s
             d == SubSeq(buffer, from + 1, from + n)
         IN  /\ from + n <= Len(buffer) /\ from \in Nat
             /\ RunsFrom(d, c, n)
  <1> DEFINE r == index[j]
             from == r.off + c - r.s
             d == SubSeq(buffer, from + 1, from + n)
             l == Len(buffer)
  <1>1. /\ r.s \in Nat /\ r.e \in Nat /\ r.off \in Nat /\ r.s <= r.e /\ r.off + (r.e - r.s) <= l
        /\ l \in Nat
        /\ \A k \in 0 .. r.e - r.s - 1 : buffer[r.off + k + 1][1] = (r.s + k) % Word
    BY IndexIs
  <1>2. r.s <= c /\ c + n <= r.e
    OBVIOUS
  <1> HIDE DEF r, l
  <1>0. /\ r.s \in Nat /\ r.e \in Nat /\ r.off \in Nat /\ l \in Nat
        /\ r.off + (r.e - r.s) <= l
    BY ONLY <1>1
  <1>3. from \in Nat /\ from + n <= l
    <2> DEFINE u == c - r.s
               v == r.e - r.s
    <2>1. u \in Nat /\ v \in Nat /\ u + n <= v
      BY ONLY <1>0, <1>2, c \in Nat, n \in Nat, OffsetWithin
    <2>2. from = r.off + u /\ r.off + v <= l
      BY ONLY <1>0, c \in Nat
    <2> HIDE DEF u, v
    <2>3. r.off + u \in Nat /\ r.off + u + n <= l
      BY ONLY <1>0, <2>1, <2>2, n \in Nat, PlusWithin
    <2>4. QED
      BY ONLY <2>2, <2>3
  <1>4. from \in Nat /\ n \in Nat /\ from + n <= Len(buffer) /\ buffer \in Seq(Cells)
    BY <1>3 DEF l
  <1> HIDE DEF from
  <1>6. d \in Seq(Cells) /\ Len(d) = n /\ \A i \in 1 .. n : d[i] = buffer[from + i]
    <2>1. LET e == SubSeq(buffer, from + 1, from + n)
          IN  e \in Seq(Cells) /\ Len(e) = n /\ \A i \in 1 .. n : e[i] = buffer[from + i]
      BY ONLY <1>4, SubSeqIs
    <2>2. QED
      BY <2>1 DEF d
  <1> USE DEF from
  <1> DEFINE k(i) == c - r.s + i - 1
  <1>8. ASSUME NEW i \in 1 .. n
        PROVE  /\ k(i) \in 0 .. r.e - r.s - 1 /\ from + i = r.off + k(i) + 1
               /\ r.s + k(i) = c + i - 1
    <2>1. i \in Nat /\ i > 0 /\ c + i <= r.e
      BY ONLY <1>0, <1>2, c \in Nat, n \in Nat, i \in 1 .. n
    <2> DEFINE s == r.s
               e == r.e
               o == r.off
    <2>2. s \in Nat /\ e \in Nat /\ o \in Nat /\ s <= c /\ c + i <= e
      BY ONLY <1>0, <1>2, <2>1
    <2> HIDE DEF s, e, o
    <2>3. /\ c - s + i - 1 \in 0 .. e - s - 1
          /\ o + c - s + i = o + (c - s + i - 1) + 1
          /\ s + (c - s + i - 1) = c + i - 1
      BY ONLY <2>1, <2>2, c \in Nat, OffsetAt
    <2>4. QED
      BY ONLY <2>3 DEF s, e, o
  <1> HIDE DEF d, from, k
  <1>9. ASSUME NEW i \in 1 .. n PROVE d[i][1] = (c + i - 1) % Word
    <2>1. d[i] = buffer[r.off + k(i) + 1]
      BY <1>6, <1>8
    <2>2. buffer[r.off + k(i) + 1][1] = (r.s + k(i)) % Word
      BY <1>1, <1>8
    <2>3. r.s + k(i) = c + i - 1
      BY <1>8
    <2>4. QED
      BY <2>1, <2>2, <2>3
  <1>10. QED
    BY <1>3, <1>6, <1>9 DEF RunsFrom, d, from, r, l

\* Each fetched range begins where the one before it ends.
Chained(index) == \A i \in DOMAIN index : i > 1 => index[i].s = index[i - 1].e

\* Then the buffer is one run of bytes.
LEMMA ChainIs ==
  ASSUME NEW buffer \in Seq(Cells), NEW index \in Seq(Fetched), BufferOK(buffer, index),
         Chained(index),
         index # <<>>
  PROVE  /\ \A x \in 1 .. Len(buffer) : buffer[x][1] = (index[1].s + x - 1) % Word
         /\ Len(buffer) = index[Len(index)].e - index[1].s
         /\ index[1].s \in Nat
  <1> DEFINE n == Len(index)
             end(j) == index[j].off + (index[j].e - index[j].s)
             Good(j) == /\ index[j].off = index[j].s - index[1].s
                        /\ \A x \in 1 .. end(j) : buffer[x][1] = (index[1].s + x - 1) % Word
             G == {j \in 0 .. n : j > 0 => Good(j)}
  <1>1. n \in Nat /\ n > 0 /\ DOMAIN index = 1 .. n
    BY InSeq
  <1> HIDE DEF n
  <1>2. \A j \in 1 .. n : /\ index[j].s \in Nat /\ index[j].e \in Nat /\ index[j].off \in Nat
                          /\ index[j].s <= index[j].e
                          /\ \A k \in 0 .. index[j].e - index[j].s - 1 :
                                buffer[index[j].off + k + 1][1] = (index[j].s + k) % Word
    BY <1>1, IndexIs
  <1>3. \A j \in 1 .. n : index[j].off = IF j = 1 THEN 0
                                         ELSE index[j - 1].off + (index[j - 1].e - index[j - 1].s)
    BY <1>1 DEF BufferOK
  <1>4. \A j \in 1 .. n : j > 1 => index[j].s = index[j - 1].e
    BY <1>1 DEF Chained
  <1>5. Len(buffer) = end(n)
    BY <1>1 DEF BufferOK, n
  <1>6. 0 \in G
    BY <1>1
  <1>7. ASSUME NEW j \in 1 .. n, j - 1 \in G PROVE j \in G
    <2> DEFINE s1 == index[1].s
               sj == index[j].s
               ej == index[j].e
               oj == index[j].off
    <2>1. j \in 0 .. n /\ (j > 1 => j - 1 \in 1 .. n /\ j - 1 > 0) /\ 1 \in 1 .. n
      BY <1>1
    <2>2. s1 \in Nat /\ sj \in Nat /\ ej \in Nat /\ oj \in Nat /\ sj <= ej
      BY <1>2, <2>1
    <2>3. \A k \in 0 .. ej - sj - 1 : buffer[oj + k + 1][1] = (sj + k) % Word
      BY <1>2
    <2>4. oj = sj - s1 /\ \A x \in 1 .. oj : buffer[x][1] = (s1 + x - 1) % Word
      <3>1. CASE j = 1
        <4>1. oj = 0 /\ sj = s1
          BY <1>3, <3>1
        <4>2. QED
          BY <2>2, <4>1
      <3>2. CASE j # 1
        <4>1. j > 1 /\ j - 1 \in 1 .. n /\ j - 1 > 0
          BY <2>1, <3>2
        <4> HIDE DEF Good, end
        <4>2. Good(j - 1)
          BY <1>7, <4>1
        <4>3. oj = end(j - 1)
          BY <1>3, <3>2 DEF end
        <4>4. /\ index[j - 1].off = index[j - 1].s - s1
              /\ \A x \in 1 .. end(j - 1) : buffer[x][1] = (s1 + x - 1) % Word
          BY <4>2 DEF Good
        <4>5. /\ sj = index[j - 1].e /\ index[j - 1].e \in Nat /\ index[j - 1].s \in Nat
              /\ index[j - 1].off \in Nat
          BY <1>2, <1>4, <4>1
        <4>6. oj = sj - s1
          BY <2>2, <4>3, <4>4, <4>5 DEF end
        <4>7. QED
          BY <4>3, <4>4, <4>6
      <3>3. QED
        BY <3>1, <3>2
    <2> HIDE DEF s1, sj, ej, oj
    <2>5. ASSUME NEW x \in 1 .. oj + (ej - sj) PROVE buffer[x][1] = (s1 + x - 1) % Word
      <3>1. CASE x <= oj
        <4>1. x \in 1 .. oj
          BY <2>2, <3>1
        <4>2. QED
          BY <2>4, <4>1
      <3>2. CASE ~(x <= oj)
        <4> DEFINE k == x - oj - 1
        <4>1. k \in 0 .. ej - sj - 1 /\ oj + k + 1 = x /\ sj + k = s1 + x - 1
          BY <2>2, <2>4, <3>2
        <4> HIDE DEF k
        <4>2. buffer[oj + k + 1][1] = (sj + k) % Word
          BY <2>3, <4>1
        <4>3. QED
          BY <4>1, <4>2
      <3>3. QED
        BY <3>1, <3>2
    <2>6. Good(j)
      BY <2>4, <2>5 DEF s1, sj, ej, oj
    <2>7. QED
      BY <2>1, <2>6
  <1>8. n \in 0 .. n /\ n \in 1 .. n /\ 1 \in 1 .. n
    BY <1>1
  <1> HIDE DEF G
  <1>9. n \in G
    BY <1>1, <1>6, <1>7, <1>8, UpTo
  <1>10. Good(n)
    BY <1>1, <1>9 DEF G
  <1>11. end(n) = index[n].e - index[1].s
    BY <1>2, <1>8, <1>10
  <1>12. QED
    BY <1>2, <1>5, <1>8, <1>10, <1>11 DEF n

\* A fetched range has the byte at c.
Held(index, c) == \E j \in DOMAIN index : index[j].s <= c /\ c < index[j].e

\* ReadRow cuts the line out of however many pieces it is in, or returns nothing when a byte
\* is missing.
LEMMA ReadRowIs ==
  ASSUME NEW buffer \in Seq(Cells), NEW index \in Seq(Fetched), BufferOK(buffer, index),
         NEW addr \in Nat, NEW ln \in Nat
  PROVE  LET d == ReadRow(buffer, index, addr, ln)
         IN  IF \A x \in addr .. addr + ln - 1 : Held(index, x) THEN RunsFrom(d, addr, ln)
             ELSE d = <<>>
  <1> DEFINE X == Seq(Cells)
             cur(n) == addr + ln - n
             held(n) == {i \in DOMAIN index : index[i].s <= cur(n) /\ cur(n) < index[i].e}
             it(n) == index[Min(held(n))]
             take(n) == Min({n, it(n).e - cur(n)})
             from(n) == it(n).off + cur(n) - it(n).s
             body(g, n) == CASE n = 0 -> <<>>
                             [] n > 0 /\ held(n) = {} -> <<>>
                             [] n > 0 /\ held(n) # {} /\ from(n) + take(n) > Len(buffer) -> <<>>
                             [] OTHER -> IF n > take(n) /\ g[n - take(n)] = <<>> THEN <<>>
                                         ELSE SubSeq(buffer, from(n) + 1, from(n) + take(n))
                                                   \o g[n - take(n)]
             h == CHOOSE h : h = [n \in 0 .. ln |-> body(h, n)]
             part(n) == SubSeq(buffer, from(n) + 1, from(n) + take(n))
  <1>1. ReadRow(buffer, index, addr, ln) = h[ln]
    BY DEF ReadRow
  <1> HIDE DEF h
  <1>2. ASSUME NEW n \in 1 .. ln, held(n) # {}
        PROVE  /\ take(n) \in 1 .. n /\ n - take(n) \in 0 .. ln /\ n - take(n) < n
               /\ ~(from(n) + take(n) > Len(buffer))
               /\ part(n) \in Seq(Cells) /\ Len(part(n)) = take(n)
               /\ \A i \in 1 .. take(n) : part(n)[i][1] = (cur(n) + i - 1) % Word
               /\ \A x \in cur(n) .. cur(n) + take(n) - 1 : Held(index, x)
    <2> DEFINE j == Min(held(n))
    <2>1. DOMAIN index \in SUBSET Nat /\ held(n) \in SUBSET Nat
      BY InSeq
    <2>2. j \in held(n)
      BY <1>2, <2>1, LeastIn
    <2>3. j \in DOMAIN index /\ it(n) = index[j] /\ index[j].s <= cur(n) /\ cur(n) < index[j].e
      BY <2>2
    <2>4. /\ index[j].s \in Nat /\ index[j].e \in Nat /\ index[j].off \in Nat
          /\ Len(buffer) \in Nat
      BY <2>3, IndexIs
    <2> HIDE DEF j
    <2> DEFINE c == cur(n)
               t == take(n)
               f == from(n)
    <2>5. c \in Nat /\ c = addr + ln - n
      OBVIOUS
    <2>6. f = index[j].off + c - index[j].s
      BY <2>3
    <2>7. t = Min({n, index[j].e - c})
      BY <2>3
    <2> HIDE DEF c, t, f
    <2>8. index[j].s <= c /\ c < index[j].e
      BY <2>3 DEF c
    <2>9. t = IF n <= index[j].e - c THEN n ELSE index[j].e - c
      BY <2>4, <2>5, <2>7, MinOf
    <2>10. t \in 1 .. n /\ t \in Nat /\ c + t <= index[j].e
      BY <2>4, <2>5, <2>8, <2>9
    <2>11. /\ f + t <= Len(buffer) /\ f \in Nat
           /\ SubSeq(buffer, f + 1, f + t) \in Seq(Cells)
           /\ Len(SubSeq(buffer, f + 1, f + t)) = t
           /\ \A i \in 1 .. t : SubSeq(buffer, f + 1, f + t)[i][1] = (c + i - 1) % Word
      <3> DEFINE b == index[j].off + c - index[j].s
                 s == SubSeq(buffer, b + 1, b + t)
      <3>1. b + t <= Len(buffer) /\ b \in Nat /\ RunsFrom(s, c, t)
        BY <2>3, <2>5, <2>8, <2>10, PieceIs
      <3>2. f = b
        BY <2>6
      <3> HIDE DEF b
      <3>3. QED
        BY <3>1, <3>2 DEF RunsFrom
    <2>12. ~(f + t > Len(buffer)) /\ n - t \in 0 .. ln /\ n - t < n
      BY <2>4, <2>10, <2>11
    <2>13. \A x \in c .. c + t - 1 : Held(index, x)
      <3>1. TAKE x \in c .. c + t - 1
      <3>2. index[j].s <= x /\ x < index[j].e
        BY <2>4, <2>5, <2>8, <2>10
      <3>3. QED
        BY <2>3, <3>2 DEF Held
    <2>14. QED
      BY <2>10, <2>11, <2>12, <2>13 DEF c, t, f
  <1>3. ASSUME NEW n \in 1 .. ln, NEW g
        PROVE  /\ held(n) = {} => body(g, n) = <<>>
               /\ held(n) # {} => body(g, n) = IF n > take(n) /\ g[n - take(n)] = <<>> THEN <<>>
                                               ELSE part(n) \o g[n - take(n)]
    <2>1. n # 0 /\ n > 0
      OBVIOUS
    <2>2. held(n) # {} => ~(from(n) + take(n) > Len(buffer))
      BY <1>2
    <2> HIDE DEF held, take, from
    <2>3. QED
      BY <2>1, <2>2
  <1>4. ASSUME NEW g PROVE body(g, 0) = <<>>
    OBVIOUS
  <1> HIDE DEF held, take, body, part
  <1> DEFINE step == [n \in 0 .. ln |-> [g \in [0 .. ln -> X] |-> body(g, n)]]
  <1>5. ASSUME NEW n \in 0 .. ln, NEW g \in [0 .. ln -> X] PROVE body(g, n) \in X
    <2>1. CASE n = 0
      BY <1>4, <2>1, EmptySeq
    <2>2. CASE n # 0 /\ held(n) = {}
      <3>1. n \in 1 .. ln
        BY <2>2
      <3>2. QED
        BY <1>3, <2>2, <3>1, EmptySeq
    <2>3. CASE n # 0 /\ held(n) # {}
      <3>1. n \in 1 .. ln
        BY <2>3
      <3>2. part(n) \in Seq(Cells) /\ g[n - take(n)] \in Seq(Cells)
        BY <1>2, <2>3, <3>1
      <3>3. <<>> \in X /\ part(n) \o g[n - take(n)] \in X
        BY <3>2, ConcatProperties, EmptySeq
      <3>4. QED
        BY <1>3, <2>3, <3>1, <3>3
    <2>4. QED
      BY <2>1, <2>2, <2>3
  <1>6. ASSUME NEW n \in 0 .. ln, NEW g \in [0 .. ln -> X], NEW k \in [0 .. ln -> X],
               \A q \in 0 .. ln : q < n => g[q] = k[q]
        PROVE  body(g, n) = body(k, n)
    <2>1. CASE n = 0
      BY <1>4, <2>1
    <2>2. CASE n # 0 /\ held(n) = {}
      <3>1. n \in 1 .. ln
        BY <2>2
      <3>2. QED
        BY <1>3, <2>2, <3>1
    <2>3. CASE n # 0 /\ held(n) # {}
      <3>1. n \in 1 .. ln
        BY <2>3
      <3>2. g[n - take(n)] = k[n - take(n)]
        BY <1>2, <1>6, <2>3, <3>1
      <3>3. QED
        BY <1>3, <2>3, <3>1, <3>2
    <2>4. QED
      BY <2>1, <2>2, <2>3
  <1>7. \E f : f = [n \in 0 .. ln |-> body(f, n)]
    <2>1. step \in [0 .. ln -> [[0 .. ln -> X] -> X]]
      BY <1>5
    <2>2. \A n \in 0 .. ln : \A g \in [0 .. ln -> X] : step[n][g] = body(g, n)
      OBVIOUS
    <2> HIDE DEF step
    <2>3. LooksBack(step, ln, X) /\ X # {}
      <3>1. X # {}
        BY EmptySeq
      <3>2. \A n \in 0 .. ln : \A g, k \in [0 .. ln -> X] :
               (\A q \in 0 .. ln : q < n => g[q] = k[q]) => step[n][g] = step[n][k]
        <4>1. TAKE n \in 0 .. ln
        <4>2. TAKE g, k \in [0 .. ln -> X]
        <4>3. HAVE \A q \in 0 .. ln : q < n => g[q] = k[q]
        <4>4. body(g, n) = body(k, n)
          BY <1>6, <4>3
        <4>5. QED
          BY <2>2, <4>4
      <3> HIDE DEF X
      <3>3. QED
        BY <2>1, <3>1, <3>2 DEF LooksBack
    <2> HIDE DEF X
    <2>4. PICK f \in [0 .. ln -> X] : Computes(f, step, ln)
      BY <2>3, Recursion
    <2>5. \A n \in 0 .. ln : f[n] = body(f, n)
      BY <2>2, <2>4 DEF Computes
    <2>6. f = [n \in 0 .. ln |-> body(f, n)]
      BY <2>4, <2>5
    <2>7. QED
      BY <2>6
  <1>8. h = [n \in 0 .. ln |-> body(h, n)]
    BY <1>7 DEF h, body, held, take
  <1>9. \A n \in 0 .. ln : h[n] = body(h, n)
    BY <1>8
  <1> DEFINE All(n) == \A x \in cur(n) .. addr + ln - 1 : Held(index, x)
             Good(n) == IF All(n)
                        THEN h[n] \in Seq(Cells) /\ Len(h[n]) = n /\ \A i \in 1 .. n :
                                 h[n][i][1] = (cur(n) + i - 1) % Word
                        ELSE h[n] = <<>>
             G == {n \in 0 .. ln : Good(n)}
  <1>10. ASSUME NEW n \in 0 .. ln, \A q \in 0 .. ln : q < n => q \in G PROVE n \in G
    <2> HIDE DEF Good
    <2>0. \A q \in 0 .. ln : q < n => Good(q)
      BY <1>10
    <2>1. CASE n = 0
      <3>1. h[n] = <<>>
        BY <1>4, <1>9, <2>1
      <3>2. h[n] \in Seq(Cells) /\ Len(h[n]) = n /\ \A i \in 1 .. n : FALSE
        BY <2>1, <3>1, EmptySeq
      <3>3. Good(n)
        BY <3>1, <3>2 DEF Good
      <3>4. QED
        BY <3>3
    <2>2. CASE n # 0 /\ held(n) = {}
      <3>1. n \in 1 .. ln /\ cur(n) \in cur(n) .. addr + ln - 1
        BY <2>2
      <3>2. h[n] = <<>>
        BY <1>3, <1>9, <2>2, <3>1
      <3>3. ~Held(index, cur(n))
        BY <2>2 DEF Held, held
      <3>4. ~All(n)
        BY <3>1, <3>3
      <3>5. QED
        BY <3>2, <3>4 DEF Good
    <2>3. CASE n # 0 /\ held(n) # {}
      <3> DEFINE t == take(n)
                 m == n - t
                 c == cur(n)
                 d == part(n)
      <3>1. n \in 1 .. ln
        BY <2>3
      <3>2. /\ t \in 1 .. n /\ m \in 0 .. ln /\ m < n
            /\ d \in Seq(Cells) /\ Len(d) = t
            /\ (\A i \in 1 .. t : d[i][1] = (c + i - 1) % Word)
            /\ \A x \in c .. c + t - 1 : Held(index, x)
        BY <1>2, <2>3, <3>1
      <3>3. h[n] = IF n > t /\ h[m] = <<>> THEN <<>> ELSE d \o h[m]
        BY <1>3, <1>9, <2>3, <3>1
      <3>4. Good(m)
        BY <2>0, <3>2
      <3>5. cur(m) = c + t /\ m = n - t /\ c = addr + ln - n
        BY <3>2
      <3>6. c \in Nat
        OBVIOUS
      <3>7. All(n) <=> All(m)
        <4>1. \A x \in c .. addr + ln - 1 :
                  x \in c .. c + t - 1 \/ x \in cur(m) .. addr + ln - 1
          BY <3>2, <3>5, <3>6
        <4>2. \A x \in cur(m) .. addr + ln - 1 : x \in c .. addr + ln - 1
          BY <3>2, <3>5, <3>6
        <4>3. QED
          BY <3>2, <4>1, <4>2
      <3> HIDE DEF t, m, c, d, cur, All
      <3>8. CASE ~All(n)
        <4>1. h[m] = <<>>
          BY <3>4, <3>7, <3>8 DEF Good
        <4>2. m # 0
          <5>1. ASSUME m = 0 PROVE All(m)
            BY <5>1 DEF All, cur
          <5>2. QED
            BY <3>7, <3>8, <5>1
        <4>3. n > t
          BY <3>2, <3>5, <4>2
        <4>4. h[n] = <<>>
          BY <3>3, <4>1, <4>3
        <4>5. QED
          BY <3>8, <4>4 DEF Good
      <3>9. CASE All(n)
        <4>1. /\ h[m] \in Seq(Cells) /\ Len(h[m]) = m
              /\ \A i \in 1 .. m : h[m][i][1] = (cur(m) + i - 1) % Word
          BY <3>4, <3>7, <3>9 DEF Good
        <4>2. ~(n > t /\ h[m] = <<>>)
          <5>1. h[m] = <<>> => m = 0
            BY <4>1, InSeq
          <5>2. QED
            BY <3>2, <3>5, <5>1
        <4>3. h[n] = d \o h[m]
          BY <3>3, <4>2
        <4> DEFINE e == h[m]
                   u == d \o e
        <4>5. /\ e \in Seq(Cells) /\ Len(e) = m
              /\ \A i \in 1 .. m : e[i][1] = (c + t + i - 1) % Word
          BY <3>5, <4>1
        <4> HIDE DEF e
        <4>4. /\ u \in Seq(Cells) /\ Len(u) = t + m
              /\ \A i \in 1 .. t + m : u[i] = IF i <= t THEN d[i] ELSE e[i - t]
          <5>1. /\ u \in Seq(Cells) /\ Len(u) = Len(d) + Len(e)
                /\ \A i \in 1 .. Len(d) + Len(e) : u[i] = IF i <= Len(d) THEN d[i]
                                                          ELSE e[i - Len(d)]
            BY <3>2, <4>5, ConcatProperties
          <5>2. QED
            BY <3>2, <4>5, <5>1
        <4> HIDE DEF u
        <4>6. t + m = n
          BY <3>2, <3>5
        <4>7. ASSUME NEW i \in 1 .. n PROVE u[i][1] = (c + i - 1) % Word
          <5>1. CASE i <= t
            <6>0. i \in 1 .. t + m /\ i \in 1 .. t
              BY <3>2, <4>6, <5>1
            <6>1. i \in 1 .. t /\ u[i] = d[i]
              BY <4>4, <5>1, <6>0
            <6>2. QED
              BY <3>2, <6>1
          <5>2. CASE ~(i <= t)
            <6> DEFINE k == i - t
            <6>1. k \in 1 .. m /\ u[i] = e[k] /\ c + t + k - 1 = c + i - 1
              BY <3>2, <3>5, <3>6, <4>4, <4>6, <5>2
            <6> HIDE DEF k
            <6>2. QED
              BY <4>5, <6>1
          <5>3. QED
            BY <5>1, <5>2
        <4>8. h[n] = u
          BY <4>3 DEF u, e
        <4>9. QED
          BY <3>9, <4>4, <4>6, <4>7, <4>8 DEF Good, c
      <3>10. QED
        BY <3>8, <3>9
    <2>4. QED
      BY <2>1, <2>2, <2>3
  <1>11. ln \in 0 .. ln
    OBVIOUS
  <1> HIDE DEF G
  <1>12. ln \in G
    BY <1>10, <1>11, Strongly
  <1>13. Good(ln)
    BY <1>12 DEF G
  <1>14. cur(ln) = addr
    OBVIOUS
  <1>15. QED
    BY <1>1, <1>13, <1>14 DEF RunsFrom

(***************************************************************************)
(* The lines of the display list window, and decoding.                     *)
(***************************************************************************)

\* The sums of the counts.
LEMMA CountsIs ==
  ASSUME NEW lines \in Seq(Shown)
  PROVE  /\ Counts(lines)[0] = 0
         /\ \A i \in 1 .. Len(lines) : Counts(lines)[i] = Counts(lines)[i - 1] + lines[i].count
         /\ \A i \in 0 .. Len(lines) : Counts(lines)[i] \in Nat
  <1> DEFINE n == Len(lines)
             step == [i \in 1 .. n |-> [x \in Nat |-> x + lines[i].count]]
             h == CHOOSE h : h = [i \in 0 .. n |-> IF i = 0 THEN 0
                                                   ELSE h[i - 1] + lines[i].count]
  <1>1. n \in Nat /\ \A i \in 1 .. n : lines[i].count \in Nat
    <2>1. n \in Nat /\ \A i \in 1 .. n : lines[i] \in Shown
      BY InSeq
    <2>2. QED
      BY <2>1 DEF Shown
  <1>2. Counts(lines) = h
    BY DEF Counts
  <1>3. /\ step \in [1 .. n -> [Nat -> Nat]]
        /\ \A i \in 1 .. n : \A x \in Nat : step[i][x] = x + lines[i].count
    BY <1>1
  <1> HIDE DEF step
  <1>4. PICK f \in [0 .. n -> Nat] : Folds(f, 0, step, n)
    BY <1>1, <1>3, Fold
  <1>5. f = [i \in 0 .. n |-> IF i = 0 THEN 0 ELSE f[i - 1] + lines[i].count]
    <2>1. \A i \in 0 .. n : i # 0 => i \in 1 .. n
      OBVIOUS
    <2>2. \A i \in 1 .. n : f[i - 1] \in Nat
      OBVIOUS
    <2>3. f[0] = 0 /\ \A i \in 1 .. n : f[i] = f[i - 1] + lines[i].count
      BY <1>3, <1>4, <2>2 DEF Folds
    <2>4. QED
      BY <2>1, <2>3
  <1>6. h = [i \in 0 .. n |-> IF i = 0 THEN 0 ELSE h[i - 1] + lines[i].count]
    BY <1>5
  <1> HIDE DEF h
  <1>7. h[0] = 0 /\ \A i \in 1 .. n : h[i] = h[i - 1] + lines[i].count
    <2>1. \A i \in 1 .. n : i \in 0 .. n /\ i # 0
      OBVIOUS
    <2>2. 0 \in 0 .. n
      BY <1>1
    <2>3. \A i \in 0 .. n : h[i] = IF i = 0 THEN 0 ELSE h[i - 1] + lines[i].count
      BY <1>6
    <2>4. QED
      BY <2>1, <2>2, <2>3
  <1> HIDE DEF n
  <1> DEFINE G == {i \in 0 .. n : h[i] \in Nat}
  <1>8. 0 \in G
    BY <1>1, <1>7
  <1>9. ASSUME NEW i \in 1 .. n, i - 1 \in G PROVE i \in G
    <2>1. i \in 0 .. n /\ h[i - 1] \in Nat /\ h[i] = h[i - 1] + lines[i].count
      BY <1>7, <1>9
    <2>2. QED
      BY <1>1, <2>1
  <1> HIDE DEF G
  <1>10. 0 .. n \subseteq G
    BY <1>1, <1>8, <1>9, UpTo
  <1>11. \A i \in 0 .. n : h[i] \in Nat
    BY <1>10 DEF G
  <1>12. QED
    BY <1>2, <1>7, <1>11 DEF n

\* They agree where the counts do.
LEMMA CountsAgree ==
  ASSUME NEW lines \in Seq(Shown), NEW new \in Seq(Shown), NEW k \in Nat, k <= Len(lines),
         k <= Len(new),
         \A i \in 1 .. k : new[i].count = lines[i].count
  PROVE  Counts(new)[k] = Counts(lines)[k]
  <1> DEFINE G == {i \in 0 .. k : Counts(new)[i] = Counts(lines)[i]}
  <1>1. Len(lines) \in Nat /\ Len(new) \in Nat
    BY InSeq
  <1>2. 0 \in G
    BY CountsIs
  <1>3. ASSUME NEW i \in 1 .. k, i - 1 \in G PROVE i \in G
    <2>1. /\ i \in 0 .. k /\ i \in 1 .. Len(lines) /\ i \in 1 .. Len(new)
          /\ Counts(new)[i - 1] = Counts(lines)[i - 1]
      BY <1>1, <1>3
    <2>2. /\ Counts(lines)[i] = Counts(lines)[i - 1] + lines[i].count
          /\ Counts(new)[i] = Counts(new)[i - 1] + new[i].count
      BY <2>1, CountsIs
    <2>3. QED
      BY <2>1, <2>2
  <1>4. k \in 0 .. k
    OBVIOUS
  <1> HIDE DEF G
  <1>5. k \in G
    BY <1>2, <1>3, <1>4, UpTo
  <1>6. QED
    BY <1>5 DEF G

\* The lines begin with an instruction, and the last one has the code and operand of another.
Ends(lines, first, last) ==
  /\ lines # <<>>
  /\ lines[1].entry = first
  /\ lines[Len(lines)].entry.cmd = last.cmd /\ lines[Len(lines)].entry.arg = last.arg

\* One instruction more: it is counted, and the lines end with it.
LEMMA CountedIs ==
  ASSUME NEW lines \in Seq(Shown), NEW e \in Entries
  PROVE  LET new == Counted(lines, e)
         IN  /\ new \in Seq(Shown)
             /\ Counts(new)[Len(new)] = Counts(lines)[Len(lines)] + 1
             /\ lines = <<>> => Ends(new, e, e)
             /\ \A first, last : Ends(lines, first, last) => Ends(new, first, e)
  <1> DEFINE new == Counted(lines, e)
             l == Len(lines)
  <1>1. new \in Seq(Shown)
    BY CountedType
  <1>2. l \in Nat /\ (lines = <<>> <=> l = 0) /\ \A i \in 1 .. l : lines[i] \in Shown
    BY InSeq
  <1>3. CASE lines # <<>> /\ lines[l].entry.cmd = e.cmd /\ lines[l].entry.arg = e.arg
    <2> DEFINE r == [lines[l] EXCEPT !.count = @ + 1]
    <2>1. new = [lines EXCEPT ![l].count = @ + 1]
      BY <1>3 DEF Counted, Last
    <2>2. l \in 1 .. l /\ lines[l] \in Shown
      BY <1>2, <1>3
    <2>3. /\ r.count = lines[l].count + 1 /\ r.entry = lines[l].entry /\ r \in Shown
          /\ lines[l].count \in Nat
      BY <2>2 DEF Shown
    <2>4. new = [lines EXCEPT ![l] = r]
      BY <2>1
    <2> HIDE DEF r
    <2>5. Len(new) = l /\ \A j \in 1 .. l : new[j] = IF j = l THEN r ELSE lines[j]
      BY <2>2, <2>3, <2>4, ExceptSeq
    <2> HIDE DEF new, l
    <2>6. Counts(new)[l - 1] = Counts(lines)[l - 1]
      <3>1. l - 1 \in Nat /\ l - 1 <= Len(lines) /\ l - 1 <= Len(new)
        BY <2>2, <2>5 DEF l
      <3>2. \A i \in 1 .. l - 1 : new[i].count = lines[i].count
        BY <2>2, <2>5
      <3>3. QED
        BY <1>1, <3>1, <3>2, CountsAgree
    <2>7. /\ Counts(lines)[l] = Counts(lines)[l - 1] + lines[l].count
          /\ Counts(new)[l] = Counts(new)[l - 1] + r.count
      <3>1. l \in 1 .. Len(lines) /\ l \in 1 .. Len(new)
        BY <2>2, <2>5 DEF l
      <3>2. new[l] = r
        BY <2>2, <2>5
      <3>3. QED
        BY <1>1, <3>1, <3>2, CountsIs
    <2>8. Counts(lines)[l - 1] \in Nat
      <3>1. l - 1 \in 0 .. Len(lines)
        BY <2>2 DEF l
      <3>2. QED
        BY <3>1, CountsIs
    <2>9. Counts(new)[Len(new)] = Counts(lines)[l] + 1
      BY <2>3, <2>5, <2>6, <2>7, <2>8
    <2>10. ASSUME NEW first, NEW last, Ends(lines, first, last) PROVE Ends(new, first, e)
      <3>1. new # <<>>
        BY <1>1, <2>2, <2>5, InSeq
      <3>2. lines[1].entry = first /\ new[1].entry = lines[1].entry
        <4>1. 1 \in 1 .. l
          BY <2>2
        <4>2. QED
          BY <2>3, <2>5, <2>10, <4>1 DEF Ends
      <3>3. new[Len(new)].entry = lines[l].entry
        BY <2>2, <2>3, <2>5
      <3>4. QED
        BY <1>3, <3>1, <3>2, <3>3 DEF Ends
    <2>11. QED
      BY <1>1, <1>3, <2>9, <2>10 DEF new, l
  <1>4. CASE ~(lines # <<>> /\ lines[l].entry.cmd = e.cmd /\ lines[l].entry.arg = e.arg)
    <2> DEFINE r == [count |-> 1, entry |-> e]
    <2>1. new = Append(lines, r)
      BY <1>4 DEF Counted, Last
    <2>2. r \in Shown /\ r.count = 1 /\ r.entry = e
      BY DEF Shown
    <2> HIDE DEF r
    <2>3. /\ Len(Append(lines, r)) = Len(lines) + 1
          /\ \A i \in 1 .. Len(lines) : Append(lines, r)[i] = lines[i]
          /\ Append(lines, r)[Len(lines) + 1] = r
      BY <2>2, AppendProperties
    <2>4. Len(new) = l + 1 /\ (\A i \in 1 .. l : new[i] = lines[i]) /\ new[l + 1] = r
      BY <2>1, <2>3
    <2> HIDE DEF new, l
    <2>5. Counts(new)[l] = Counts(lines)[l]
      <3>1. l \in Nat /\ l <= Len(lines) /\ l <= Len(new)
        BY <1>2, <2>4 DEF l
      <3>2. \A i \in 1 .. l : new[i].count = lines[i].count
        BY <2>4
      <3>3. QED
        BY <1>1, <3>1, <3>2, CountsAgree
    <2>6. Counts(new)[l + 1] = Counts(new)[l + 1 - 1] + 1
      <3>1. l + 1 \in 1 .. Len(new)
        BY <1>2, <2>4
      <3>2. QED
        <4> DEFINE m == l + 1
        <4>0. m \in 1 .. Len(new)
          BY <3>1
        <4> HIDE DEF m
        <4>1. Counts(new)[m] = Counts(new)[m - 1] + new[m].count
          BY <1>1, <4>0, CountsIs
        <4>2. new[m].count = 1
          BY <2>2, <2>4 DEF m
        <4>3. Counts(new)[m] = Counts(new)[m - 1] + 1
          BY <4>1, <4>2
        <4>4. QED
          <5>1. m = l + 1
            BY DEF m
          <5>2. QED
            BY <1>2, <4>0, <4>3, <5>1
    <2>7. l + 1 - 1 = l
      BY <1>2
    <2>8. Counts(new)[Len(new)] = Counts(lines)[l] + 1
      BY <2>4, <2>5, <2>6, <2>7
    <2>9. new # <<>>
      BY <1>1, <1>2, <2>4, InSeq
    <2>10. new[Len(new)].entry = e
      BY <2>2, <2>4
    <2>11. lines = <<>> => Ends(new, e, e)
      <3>1. lines = <<>> => l = 0
        BY <1>2
      <3>2. lines = <<>> => Len(new) = 1
        BY <2>4, <3>1
      <3>3. QED
        BY <2>9, <2>10, <3>2 DEF Ends
    <2>12. ASSUME NEW first, NEW last, Ends(lines, first, last) PROVE Ends(new, first, e)
      <3>1. 1 \in 1 .. l
        BY <1>2, <2>12 DEF Ends
      <3>2. new[1].entry = first
        BY <2>4, <2>12, <3>1 DEF Ends
      <3>3. QED
        BY <2>9, <2>10, <3>2 DEF Ends
    <2>13. QED
      BY <1>1, <2>8, <2>11, <2>12 DEF new, l
  <1>5. QED
    BY <1>3, <1>4

\* The lines of the display list window stand for all instructions, and begin and end with the
\* first and the last.
LEMMA CompactedIs ==
  ASSUME NEW entries \in Seq(Entries)
  PROVE  Agrees(Compacted(entries), entries)
  <1> DEFINE n == Len(entries)
  <1>1. n \in Nat /\ (entries = <<>> <=> n = 0) /\ \A i \in 1 .. n : entries[i] \in Entries
    BY InSeq
  <1>2. PICK f \in [0 .. n -> Seq(Shown)] : CompactsBy(f, entries)
    BY CompactsFold
  <1>3. /\ f[0] = <<>> /\ (\A i \in 1 .. n : f[i] = Counted(f[i - 1], entries[i]))
        /\ Compacted(entries) = f[n]
    BY <1>2 DEF CompactsBy
  <1> HIDE DEF n
  <1> DEFINE Good(i) == /\ Counts(f[i])[Len(f[i])] = i
                        /\ i > 0 => Ends(f[i], entries[1], entries[i])
             G == {i \in 0 .. n : Good(i)}
  <1>4. 0 \in G
    <2>1. f[0] \in Seq(Shown) /\ Len(f[0]) = 0 /\ 0 \in 0 .. n
      BY <1>1, <1>3, EmptySeq
    <2>2. Counts(f[0])[0] = 0
      BY <2>1, CountsIs
    <2>3. Good(0)
      BY <2>1, <2>2
    <2>4. QED
      BY <2>1, <2>3
  <1>5. ASSUME NEW i \in 1 .. n, i - 1 \in G PROVE i \in G
    <2> HIDE DEF Good
    <2>1. i - 1 \in 0 .. n /\ i \in 0 .. n /\ Good(i - 1) /\ i - 1 + 1 = i
      BY <1>5
    <2>2. /\ f[i - 1] \in Seq(Shown) /\ entries[i] \in Entries
          /\ f[i] = Counted(f[i - 1], entries[i])
      BY <1>1, <1>3, <2>1
    <2>3. /\ Counts(f[i])[Len(f[i])] = Counts(f[i - 1])[Len(f[i - 1])] + 1
          /\ f[i - 1] = <<>> => Ends(f[i], entries[i], entries[i])
          /\ \A first, last : Ends(f[i - 1], first, last) => Ends(f[i], first, entries[i])
      BY <2>2, CountedIs
    <2>4. Counts(f[i])[Len(f[i])] = i
      BY <2>1, <2>3 DEF Good
    <2>5. Ends(f[i], entries[1], entries[i])
      <3>1. CASE i = 1
        <4>1. f[i - 1] = <<>>
          BY <1>3, <3>1
        <4>2. QED
          BY <2>3, <3>1, <4>1
      <3>2. CASE i # 1
        <4>1. i - 1 > 0
          BY <3>2
        <4>2. QED
          BY <2>1, <2>3, <4>1 DEF Good
      <3>3. QED
        BY <3>1, <3>2
    <2>6. QED
      BY <2>1, <2>4, <2>5 DEF Good
  <1>6. n \in 0 .. n
    BY <1>1
  <1> HIDE DEF G
  <1>7. n \in G
    BY <1>1, <1>4, <1>5, <1>6, UpTo
  <1>8. Good(n)
    BY <1>7 DEF G
  <1>9. entries # <<>> => Ends(f[n], Head(entries), Last(entries))
    BY <1>1, <1>8 DEF Last, n
  <1>10. f[n] # <<>> => Head(f[n]) = f[n][1]
    BY <1>2, <1>6
  <1>11. QED
    BY <1>3, <1>8, <1>9, <1>10 DEF Agrees, Ends, Last, n

\* The last address.
LEMMA LastWord == Word - 1 = 65535
  BY DEF Word

\* A number of 16 bits is an address.
LEMMA InWords ==
  ASSUME NEW v \in Int, 0 <= v, v <= 65535
  PROVE  v \in Words
  BY LastWord DEF Words

\* Two bytes are an address.
LEMMA LittleIs ==
  ASSUME NEW lo \in 0 .. 255, NEW hi \in 0 .. 255
  PROVE  Little(lo, hi) \in Words
  <1> DEFINE v == lo + 256 * hi
  <1>1. v \in Int /\ 0 <= v /\ v <= 65535
    OBVIOUS
  <1>2. Little(lo, hi) = v
    BY DEF Little
  <1> HIDE DEF v
  <1>3. v \in Words
    BY <1>1, InWords
  <1>4. QED
    BY <1>2, <1>3

\* Decode returns instructions, the first of them at the beginning of the list.
LEMMA DecodeIs ==
  ASSUME NEW start \in Words, NEW data \in Seq(Bytes)
  PROVE  /\ Decode(start, data) \in Seq(Entries)
         /\ Decode(start, data) # <<>> => Head(Decode(start, data)).addr = start
  <1> DEFINE X == Seq(Entries)
             l == Len(data)
             size(p) == IF HasArg(data[p]) THEN 3 ELSE 1
             entry(p) == [addr |-> (start + p - 1) % Word, cmd |-> data[p],
                          arg |-> IF HasArg(data[p]) THEN Little(data[p + 1], data[p + 2])
                                  ELSE 0]
             at(n) == l - n + 1
             body(g, n) == IF n = 0 \/ size(at(n)) > n THEN <<>>
                           ELSE <<entry(at(n))>> \o (IF EndsList(data[at(n)]) THEN <<>>
                                                     ELSE g[n - size(at(n))])
             h == CHOOSE h : h = [n \in 0 .. l |-> body(h, n)]
             step == [n \in 0 .. l |-> [g \in [0 .. l -> X] |-> body(g, n)]]
  <1>1. Decode(start, data) = h[l]
    BY DEF Decode
  <1> HIDE DEF h
  <1>2. l \in Nat /\ \A i \in 1 .. l : data[i] \in Bytes
    BY InSeq
  <1>3. ASSUME NEW n \in 0 .. l, ~(n = 0 \/ size(at(n)) > n)
        PROVE  /\ entry(at(n)) \in Entries /\ n - size(at(n)) \in 0 .. l /\ n - size(at(n)) < n
               /\ n = l => entry(at(n)).addr = start
    <2> DEFINE p == at(n)
    <2>1. p \in 1 .. l /\ p \in Int /\ p + n = l + 1 /\ n > 0
      BY <1>2, <1>3
    <2>2. size(p) \in {1, 3} /\ size(p) <= n
      BY <1>3
    <2>3. HasArg(data[p]) => p + 1 \in 1 .. l /\ p + 2 \in 1 .. l
      <3>1. HasArg(data[p]) => size(p) = 3
        OBVIOUS
      <3> HIDE DEF p, size
      <3>2. QED
        BY <1>2, <2>1, <2>2, <3>1
    <2> HIDE DEF p, size, at
    <2>4. entry(p).arg \in Words
      <3>1. CASE HasArg(data[p])
        <4> DEFINE lo == data[p + 1]
                   hi == data[p + 2]
        <4>1. lo \in 0 .. 255 /\ hi \in 0 .. 255
          BY <1>2, <2>3, <3>1 DEF Bytes
        <4>2. entry(p).arg = Little(lo, hi)
          BY <3>1
        <4> HIDE DEF lo, hi
        <4>3. Little(lo, hi) \in Words
          BY <4>1, LittleIs
        <4>4. QED
          BY <4>2, <4>3
      <3>2. CASE ~HasArg(data[p])
        BY <3>2, WordIs
      <3>3. QED
        BY <3>1, <3>2
    <2>5. start + p - 1 \in Int /\ start \in Int
      BY <2>1, WordIs
    <2>6. (start + p - 1) % Word \in Words /\ start % Word = start
      BY <2>5, ModWord
    <2>7. entry(p).addr = (start + p - 1) % Word /\ entry(p).cmd = data[p] /\ data[p] \in Bytes
      BY <1>2, <2>1
    <2>8. entry(p) \in Entries
      BY <2>4, <2>6, <2>7 DEF Entries
    <2>9. n = l => p = 1 /\ start + p - 1 = start
      BY <1>2, <2>1, <2>5
    <2>10. n = l => entry(p).addr = start
      BY <2>6, <2>7, <2>9
    <2>11. n - size(p) \in 0 .. l /\ n - size(p) < n
      BY <1>2, <2>2
    <2> HIDE DEF entry
    <2>12. QED
      BY <2>8, <2>10, <2>11 DEF p
  <1>4. ASSUME NEW n \in 0 .. l, NEW g, ~(n = 0 \/ size(at(n)) > n) => g[n - size(at(n))] \in X
        PROVE  body(g, n) \in X
    <2>1. CASE n = 0 \/ size(at(n)) > n
      BY <2>1, EmptySeq
    <2>2. CASE ~(n = 0 \/ size(at(n)) > n)
      <3> DEFINE tail == IF EndsList(data[at(n)]) THEN <<>> ELSE g[n - size(at(n))]
                 e == entry(at(n))
      <3>1. g[n - size(at(n))] \in X /\ <<>> \in X
        BY <1>4, <2>2, EmptySeq
      <3>2. tail \in X /\ e \in Entries
        BY <1>3, <2>2, <3>1
      <3>3. body(g, n) = <<e>> \o tail
        BY <2>2
      <3> HIDE DEF tail, e
      <3>4. <<e>> \in Seq(Entries)
        BY <3>2
      <3>5. <<e>> \o tail \in X
        BY <3>2, <3>4, ConcatProperties
      <3>6. QED
        BY <3>3, <3>5
    <2>3. QED
      BY <2>1, <2>2
  <1>5. ASSUME NEW n \in 0 .. l, NEW g \in [0 .. l -> X], NEW k \in [0 .. l -> X],
               \A q \in 0 .. l : q < n => g[q] = k[q]
        PROVE  body(g, n) = body(k, n)
    <2>1. CASE n = 0 \/ size(at(n)) > n
      BY <2>1
    <2>2. CASE ~(n = 0 \/ size(at(n)) > n)
      <3>1. g[n - size(at(n))] = k[n - size(at(n))]
        BY <1>3, <1>5, <2>2
      <3> HIDE DEF size, at, entry
      <3>2. QED
        BY <2>2, <3>1
    <2>3. QED
      BY <2>1, <2>2
  <1>6. ASSUME NEW g, body(g, l) # <<>>, ~(l = 0 \/ size(at(l)) > l) => g[l - size(at(l))] \in X
        PROVE  body(g, l)[1].addr = start
    <2>1. l \in 0 .. l /\ ~(l = 0 \/ size(at(l)) > l)
      BY <1>2, <1>6
    <2> DEFINE tail == IF EndsList(data[at(l)]) THEN <<>> ELSE g[l - size(at(l))]
               e == entry(at(l))
    <2>2. g[l - size(at(l))] \in X /\ <<>> \in X
      BY <1>6, <2>1, EmptySeq
    <2>3. tail \in X /\ e \in Entries /\ e.addr = start
      BY <1>3, <2>1, <2>2
    <2>4. body(g, l) = <<e>> \o tail
      BY <2>1
    <2> HIDE DEF tail, e, body
    <2>5. (<<e>> \o tail)[1] = e
      BY <2>3
    <2>6. QED
      BY <2>3, <2>4, <2>5
  <1> HIDE DEF body
  <1>7. \E f : f = [n \in 0 .. l |-> body(f, n)]
    <2>0. \A n \in 0 .. l : \A g \in [0 .. l -> X] : body(g, n) \in X
      <3>1. TAKE n \in 0 .. l
      <3>2. TAKE g \in [0 .. l -> X]
      <3>3. ~(n = 0 \/ size(at(n)) > n) => g[n - size(at(n))] \in X
        BY <1>3
      <3>4. QED
        BY <1>4, <3>3
    <2>1. step \in [0 .. l -> [[0 .. l -> X] -> X]]
      BY <2>0
    <2>2. \A n \in 0 .. l : \A g \in [0 .. l -> X] : step[n][g] = body(g, n)
      OBVIOUS
    <2> HIDE DEF step
    <2>3. LooksBack(step, l, X) /\ X # {}
      <3>1. X # {}
        BY EmptySeq
      <3>2. \A n \in 0 .. l : \A g, k \in [0 .. l -> X] :
               (\A q \in 0 .. l : q < n => g[q] = k[q]) => step[n][g] = step[n][k]
        <4>1. TAKE n \in 0 .. l
        <4>2. TAKE g, k \in [0 .. l -> X]
        <4>3. HAVE \A q \in 0 .. l : q < n => g[q] = k[q]
        <4>4. body(g, n) = body(k, n)
          BY <1>5, <4>3
        <4>5. QED
          BY <2>2, <4>4
      <3> HIDE DEF X
      <3>3. QED
        BY <2>1, <3>1, <3>2 DEF LooksBack
    <2> HIDE DEF X, l
    <2>4. PICK f \in [0 .. l -> X] : Computes(f, step, l)
      BY <1>2, <2>3, Recursion
    <2>5. \A n \in 0 .. l : f[n] = body(f, n)
      BY <2>2, <2>4 DEF Computes
    <2>6. f = [n \in 0 .. l |-> body(f, n)]
      BY <2>4, <2>5
    <2>7. QED
      BY <2>4, <2>6
  <1>8. h = [n \in 0 .. l |-> body(h, n)]
    BY <1>7 DEF h, body
  <1>9. \A n \in 0 .. l : h[n] = body(h, n)
    BY <1>8
  <1> DEFINE G == {n \in 0 .. l : h[n] \in X}
  <1>10. ASSUME NEW n \in 0 .. l, \A q \in 0 .. l : q < n => q \in G PROVE n \in G
    <2>1. ~(n = 0 \/ size(at(n)) > n) => h[n - size(at(n))] \in X
      BY <1>3, <1>10
    <2>2. QED
      BY <1>4, <1>9, <2>1
  <1>11. l \in 0 .. l
    BY <1>2
  <1> HIDE DEF G
  <1>12. 0 .. l \subseteq G
    BY <1>2, <1>10, Strongly
  <1>13. \A n \in 0 .. l : h[n] \in X
    BY <1>12 DEF G
  <1>14. ASSUME h[l] # <<>> PROVE h[l][1].addr = start
    <2>1. ~(l = 0 \/ size(at(l)) > l) => h[l - size(at(l))] \in X
      BY <1>3, <1>11, <1>13
    <2>2. h[l] = body(h, l)
      BY <1>9, <1>11
    <2>3. QED
      BY <1>6, <1>14, <2>1, <2>2
  <1>15. h[l] # <<>> => Head(h[l]) = h[l][1]
    BY <1>11, <1>13
  <1>16. QED
    BY <1>1, <1>11, <1>13, <1>14, <1>15

(***************************************************************************)
(* The types of the variables.                                             *)
(***************************************************************************)

\* The types of two variables.
Readings == [start : Words, dump : Seq(Bytes), dmactl : Bytes,
             todo : Seq(Ranges), buffer : Seq(Cells), index : Seq(Fetched)]
Programs == [name : Names, pc : Places, changed : BOOLEAN, due : BOOLEAN]

\* What the emulator answers.
LEMMA EmulatorTypes ==
  ASSUME TypeOK
  PROVE  /\ emulator.list.start \in Words /\ emulator.list.bytes \in Seq(Bytes)
         /\ emulator.list.dmactl \in Bytes /\ emulator.list.hw \in Bytes
  <1>1. emulator.list \in Lists
    BY DEF TypeOK
  <1>2. emulator.list \in [start : 0 .. Word - 1, bytes : Seq(0 .. 255), dmactl : 0 .. 255,
                           hw : 0 .. 255]
    BY <1>1, BoundsAssumption
  <1>3. QED
    BY <1>2 DEF Words, Bytes

\* The plan of the list that was read.
LEMMA PlanTypes ==
  ASSUME TypeOK
  PROVE  LET p == ThePlan
         IN  /\ TheRows \in Seq(Rows)
             /\ p.fetch \in Seq(Ranges) /\ Ordered(p.fetch)
             /\ \A r \in ToSet(p.fetch) : r.s < r.e /\ r.e <= Word /\ r.e <= r.s + MaxRead
             /\ \A a \in Int : Holds(ToSet(p.fetch), a) <=> Shows(ToSet(p.slices), a, AllModes)
             /\ p.slices \in Seq(Mapped)
             /\ \A x : x \in ToSet(p.slices) <=> x \in ToSet(TheRows) /\ x # Blank
  <1>1. dlist.entries \in Seq(Entries) /\ dlist.dmactl \in Bytes
    BY DEF TypeOK
  <1>2. TheRows \in Seq(Rows)
    BY <1>1, RowRangesIs DEF TheRows
  <1>3. MaxRead \in Nat /\ MaxRead > 0
    BY BoundsAssumption
  <1>4. QED
    BY <1>2, <1>3, PlanIs DEF ThePlan

\* Its segments, in pieces.
LEMMA SegmentTypes ==
  ASSUME TypeOK
  PROVE  /\ TheSegments \in Seq(Segs) /\ (\A i \in DOMAIN TheSegments : TheSegments[i] \in Segs)
         /\ MaxRead \in Nat /\ MaxRead > 0
         /\ Pieces(TheSegments, MaxRead) \in Seq(Ranges)
         /\ \A r \in ToSet(Pieces(TheSegments, MaxRead)) : r.s < r.e
         /\ \A i \in DOMAIN TheSegments :
                CutsInto(TheSegments[i], MaxRead, Cut(TheSegments[i], MaxRead))
  <1>1. dlist.entries \in Seq(Entries) /\ dlist.dmactl \in Bytes
    BY DEF TypeOK
  <1>2. TheSegments \in Seq(Segs)
    BY <1>1, ScreenSegmentsIs DEF TheSegments
  <1>3. MaxRead \in Nat /\ MaxRead > 0
    BY BoundsAssumption
  <1>4. \A i \in DOMAIN TheSegments : TheSegments[i] \in Segs
    BY <1>2, InSeq
  <1>5. ASSUME NEW i \in DOMAIN TheSegments
        PROVE  CutsInto(TheSegments[i], MaxRead, Cut(TheSegments[i], MaxRead))
    BY <1>3, <1>4, SegIs, CutIs
  <1>6. /\ Pieces(TheSegments, MaxRead) \in Seq(Ranges)
        /\ \A r \in ToSet(Pieces(TheSegments, MaxRead)) : r.s < r.e
    BY <1>2, <1>3, PiecesIs
  <1>7. QED
    BY <1>2, <1>3, <1>4, <1>5, <1>6

\* The types of the initial states.
LEMMA TypeInit ==
  ASSUME Init
  PROVE  TypeOK
  <1>1. emulator \in [list : Lists, frame : Nat]
    BY DEF Init
  <1>2. program \in [name : Names, pc : Places, changed : BOOLEAN, due : BOOLEAN]
    BY DEF Init, Names, Places
  <1>3. reading \in [start : Words, dump : Seq(Bytes), dmactl : Bytes,
                     todo : Seq(Ranges), buffer : Seq(Cells), index : Seq(Fetched)]
    BY WordIs, EmptySeq DEF Init, Nothing, Bytes
  <1>4. dlist \in [start : Words, entries : Seq(Entries), dmactl : Bytes]
    BY WordIs, EmptySeq DEF Init, NoList, Bytes
  <1>5. QED
    BY <1>1, <1>2, <1>3, <1>4 DEF TypeOK

\* Before its calls a program has read nothing.
LEMMA NoReading ==
  Nothing \in [start : Words, dump : Seq(Bytes), dmactl : Bytes,
               todo : Seq(Ranges), buffer : Seq(Cells), index : Seq(Fetched)]
  BY WordIs, EmptySeq DEF Nothing, Bytes

\* READ_MEM returns the bytes asked for.
LEMMA MemoryIs ==
  ASSUME TypeOK, NEW s \in Nat, NEW n \in Nat
  PROVE  RunsFrom(Memory(s, n), s, n)
  <1> DEFINE m == Memory(s, n)
             cell(i) == <<(s + i - 1) % Word, emulator.frame>>
  <1>1. m = [i \in 1 .. n |-> cell(i)]
    BY DEF Memory
  <1>2. emulator.frame \in Nat
    BY DEF TypeOK
  <1>3. \A i \in 1 .. n : cell(i) \in Cells /\ cell(i)[1] = (s + i - 1) % Word
    <2> TAKE i \in 1 .. n
    <2>2. s + i - 1 \in Int
      OBVIOUS
    <2>3. (s + i - 1) % Word \in Words
      BY <2>2, ModWord
    <2>4. QED
      BY <1>2, <2>3 DEF Cells
  <1> HIDE DEF cell, m
  <1>4. m \in [1 .. n -> Cells] /\ \A i \in 1 .. n : m[i][1] = (s + i - 1) % Word
    BY <1>1, <1>3
  <1>5. m \in Seq(Cells)
    BY <1>4, SeqDef
  <1>6. Len(m) = n
    <2>1. DOMAIN m = 1 .. n /\ DOMAIN m = 1 .. Len(m) /\ Len(m) \in Nat
      BY <1>4, <1>5, InSeq
    <2>2. QED
      BY <2>1, SameLen
  <1>7. QED
    BY <1>4, <1>5, <1>6 DEF RunsFrom, m

\* A program sets out to fetch the ranges todo.
SetsOut(todo) ==
  /\ todo \in Seq(Ranges) /\ (\A i \in DOMAIN todo : todo[i].s <= todo[i].e) /\ Plans(todo)
  /\ reading' = [reading EXCEPT !.todo = todo, !.buffer = <<>>, !.index = <<>>]

\* With nothing fetched.
LEMMA SetsOutType ==
  ASSUME reading \in Readings, NEW todo, SetsOut(todo)
  PROVE  /\ reading' \in Readings
         /\ reading'.todo = todo /\ reading'.buffer = <<>> /\ reading'.index = <<>>
  <1>1. <<>> \in Seq(Cells) /\ <<>> \in Seq(Fetched)
    BY EmptySeq
  <1>2. /\ todo \in Seq(Ranges)
        /\ reading' = [reading EXCEPT !.todo = todo, !.buffer = <<>>, !.index = <<>>]
    BY DEF SetsOut
  <1>3. QED
    BY <1>1, <1>2 DEF Readings

\* Ranges that are not empty begin before they end.
LEMMA WellOrdered ==
  ASSUME NEW todo \in Seq(Ranges), \A r \in ToSet(todo) : r.s < r.e
  PROVE  \A i \in DOMAIN todo : todo[i].s <= todo[i].e
  <1>1. TAKE i \in DOMAIN todo
  <1>2. todo[i] \in ToSet(todo) /\ todo[i] \in Ranges
    BY InSeq
  <1>3. todo[i].s \in Nat /\ todo[i].e \in Nat /\ todo[i].s < todo[i].e
    BY <1>2 DEF Ranges
  <1>4. QED
    BY <1>3

\* ScreenBufferInspector.Update sets out to fetch the plan, or has nothing to fetch.
LEMMA ScreenPlans ==
  ASSUME TypeOK, PlanScreen
  PROVE  \/ reading' = reading /\ program'.pc = "render"
         \/ SetsOut(ThePlan.fetch)
  <1>1. \/ reading' = reading /\ program'.pc = "render"
        \/ reading' = [reading EXCEPT !.todo = ThePlan.fetch, !.buffer = <<>>, !.index = <<>>]
    <2>1. program \in Programs
      BY DEF TypeOK, Programs
    <2>2. QED
      BY <2>1 DEF PlanScreen, Fetches, ThePlan, TheRows, Goes, Programs
  <1>2. /\ ThePlan.fetch \in Seq(Ranges)
        /\ \A i \in DOMAIN ThePlan.fetch : ThePlan.fetch[i].s <= ThePlan.fetch[i].e
    BY PlanTypes, WellOrdered
  <1>3. Plans(ThePlan.fetch)
    BY DEF PlanScreen, InMonitor, Plans
  <1>4. QED
    BY <1>1, <1>2, <1>3 DEF SetsOut

\* A line with memory.
LEMMA MappedIs ==
  ASSUME NEW r \in Mapped
  PROVE  /\ r.addr \in Nat /\ r.addr < Word /\ r.length \in Nat /\ r.length > 0
         /\ r.length <= 48
         /\ r.mode \in AllModes /\ Word \in Nat
  <1>1. r.addr \in Words /\ r.length \in 1 .. 48 /\ r.mode \in 2 .. 15
    BY DEF Mapped
  <1>2. QED
    BY <1>1, WordIs DEF Words, AllModes

\* Its range.
LEMMA SlicesType ==
  ASSUME TypeOK
  PROVE  /\ SliceRanges \in Seq(Ranges) /\ Len(SliceRanges) = Len(ThePlan.slices)
         /\ \A i \in DOMAIN SliceRanges : SliceRanges[i].s <= SliceRanges[i].e
  <1> DEFINE rows == ThePlan.slices
             n == Len(rows)
             range(i) == [s |-> rows[i].addr, e |-> rows[i].addr + rows[i].length]
  <1>1. rows \in Seq(Mapped)
    BY PlanTypes
  <1> HIDE DEF rows
  <1>2. n \in Nat /\ DOMAIN rows = 1 .. n /\ \A i \in 1 .. n : rows[i] \in Mapped
    BY <1>1, InSeq
  <1>3. \A i \in 1 .. n : range(i) \in Ranges /\ range(i).s <= range(i).e
    <2> TAKE i \in 1 .. n
    <2>1. rows[i] \in Mapped
      BY <1>2
    <2>2. rows[i].addr \in Nat /\ rows[i].length \in Nat
      BY <2>1, MappedIs
    <2>3. QED
      BY <2>2 DEF Ranges
  <1>4. SliceRanges = [i \in 1 .. n |-> range(i)]
    BY <1>2 DEF SliceRanges, rows
  <1> HIDE DEF n, range
  <1>5. /\ SliceRanges \in [1 .. n -> Ranges]
        /\ \A i \in 1 .. n : SliceRanges[i].s <= SliceRanges[i].e
    BY <1>3, <1>4
  <1>6. SliceRanges \in Seq(Ranges)
    BY <1>2, <1>5, SeqDef
  <1>7. /\ DOMAIN SliceRanges = 1 .. n /\ DOMAIN SliceRanges = 1 .. Len(SliceRanges)
        /\ Len(SliceRanges) \in Nat
    BY <1>5, <1>6, InSeq
  <1>8. Len(SliceRanges) = n
    BY <1>2, <1>7, SameLen
  <1>9. QED
    BY <1>5, <1>6, <1>7, <1>8 DEF n, rows

\* A command sets out to fetch something, or stops.
LEMMA CommandPlans ==
  ASSUME TypeOK, PlanCommand
  PROVE  \/ reading' = reading /\ program'.pc = "stopped"
         \/ \E todo : SetsOut(todo)
  <1>0. program \in Programs /\ program.name # "monitor"
    BY DEF TypeOK, Programs, PlanCommand, InMonitor
  <1>1. CASE TheSegments = <<>> \/ program.name = "dlist"
    BY <1>0, <1>1 DEF PlanCommand, TheSegments, Goes, Programs
  <1>2. CASE TheSegments # <<>> /\ program.name = "screen"
    <2>1. reading' = [reading EXCEPT !.todo = SliceRanges, !.buffer = <<>>, !.index = <<>>]
      BY <1>2 DEF PlanCommand, TheSegments, Fetches, ThePlan, TheRows, SliceRanges
    <2>2. Plans(SliceRanges)
      BY <1>2 DEF Plans
    <2>3. SetsOut(SliceRanges)
      BY <2>1, <2>2, SlicesType DEF SetsOut
    <2>4. QED
      BY <2>3
  <1>3. CASE TheSegments # <<>> /\ program.name = "segment"
    <2>1. PICK i \in DOMAIN TheSegments :
             reading' = [reading EXCEPT !.todo = Cut(TheSegments[i], MaxRead),
                                        !.buffer = <<>>, !.index = <<>>]
      BY <1>3 DEF PlanCommand, TheSegments, Fetches
    <2> DEFINE todo == Cut(TheSegments[i], MaxRead)
    <2>2. Plans(todo)
      BY <1>3 DEF Plans
    <2>3. CutsInto(TheSegments[i], MaxRead, todo)
      BY SegmentTypes
    <2> HIDE DEF todo
    <2>4. todo \in Seq(Ranges) /\ \A k \in 1 .. Len(todo) : todo[k].s < todo[k].e
      BY <2>3 DEF CutsInto
    <2>5. \A r \in ToSet(todo) : r.s < r.e
      BY <2>4, InSeq
    <2>6. SetsOut(todo)
      BY <2>1, <2>2, <2>4, <2>5, WellOrdered DEF SetsOut, todo
    <2>7. QED
      BY <2>6
  <1>4. CASE TheSegments # <<>> /\ program.name \notin {"dlist", "screen", "segment"}
    <2> DEFINE todo == Pieces(TheSegments, MaxRead)
    <2>1. reading' = [reading EXCEPT !.todo = todo, !.buffer = <<>>, !.index = <<>>]
      BY <1>4 DEF PlanCommand, TheSegments, Fetches
    <2>2. Plans(todo)
      BY <1>0, <1>4 DEF Plans
    <2>3. todo \in Seq(Ranges) /\ \A r \in ToSet(todo) : r.s < r.e
      BY SegmentTypes
    <2> HIDE DEF todo
    <2>4. SetsOut(todo)
      BY <2>1, <2>2, <2>3, WellOrdered DEF SetsOut
    <2>5. QED
      BY <2>4
  <1>5. QED
    BY <1>1, <1>2, <1>3, <1>4

\* One call: its bytes are appended, and its range with their place.
LEMMA FetchIs ==
  ASSUME TypeOK, Fetch, \A i \in DOMAIN reading.todo : reading.todo[i].s <= reading.todo[i].e
  PROVE  LET r == Head(reading.todo)
             m == Memory(r.s, r.e - r.s)
             f == [s |-> r.s, e |-> r.e, off |-> Len(reading.buffer)]
         IN  /\ reading' = [reading EXCEPT !.todo = Tail(reading.todo),
                                           !.buffer = reading.buffer \o m,
                                           !.index = Append(reading.index, f)]
             /\ r \in Ranges /\ r.s <= r.e /\ RunsFrom(m, r.s, r.e - r.s) /\ f \in Fetched
             /\ Tail(reading.todo) \in Seq(Ranges) /\ reading.buffer \o m \in Seq(Cells)
             /\ Append(reading.index, f) \in Seq(Fetched)
  <1> DEFINE r == Head(reading.todo)
             m == Memory(r.s, r.e - r.s)
             f == [s |-> r.s, e |-> r.e, off |-> Len(reading.buffer)]
  <1>1. /\ reading.todo \in Seq(Ranges) /\ reading.todo # <<>> /\ reading.buffer \in Seq(Cells)
        /\ reading.index \in Seq(Fetched)
    BY DEF TypeOK, Fetch
  <1>2. r \in Ranges /\ Tail(reading.todo) \in Seq(Ranges)
    BY <1>1, HeadTailProperties
  <1>3. r = reading.todo[1] /\ 1 \in DOMAIN reading.todo
    BY <1>1, InSeq
  <1>4. r.s \in Nat /\ r.e \in Nat /\ r.s <= r.e /\ r.e - r.s \in Nat
    BY <1>2, <1>3 DEF Ranges
  <1>5. reading' = [reading EXCEPT !.todo = Tail(reading.todo), !.buffer = reading.buffer \o m,
                                  !.index = Append(reading.index, f)]
    BY DEF Fetch
  <1>6. RunsFrom(m, r.s, r.e - r.s)
    BY <1>4, MemoryIs
  <1>7. m \in Seq(Cells)
    BY <1>6 DEF RunsFrom
  <1>8. f \in Fetched
    BY <1>1, <1>4, InSeq DEF Fetched
  <1> HIDE DEF r, m, f
  <1>9. reading.buffer \o m \in Seq(Cells) /\ Append(reading.index, f) \in Seq(Fetched)
    BY <1>1, <1>7, <1>8, ConcatProperties, AppendProperties
  <1>10. QED
    BY <1>2, <1>4, <1>5, <1>6, <1>8, <1>9 DEF r, m, f

\* Every step keeps the types.
LEMMA TypeNext ==
  ASSUME TypeOK, Reads, [Next]_vars
  PROVE  TypeOK'
  <1> USE DEF Readings, Programs
  <1>0. emulator \in [list : Lists, frame : Nat] /\ program \in Programs /\ reading \in Readings
        /\ dlist \in [start : Words, entries : Seq(Entries), dmactl : Bytes]
    BY DEF TypeOK
  <1> SUFFICES /\ emulator' \in [list : Lists, frame : Nat] /\ program' \in Programs
               /\ reading' \in Readings
               /\ dlist' \in [start : Words, entries : Seq(Entries), dmactl : Bytes]
    BY DEF TypeOK
  <1>1. CASE EmulatorChanges
    BY <1>0, <1>1 DEF EmulatorChanges
  <1>2. CASE Start
    <2>1. program' \in Programs
      BY <1>0, <1>2 DEF Start, InMonitor, Places
    <2>2. QED
      BY <1>0, <1>2, <2>1, NoReading DEF Start
  <1>3. CASE ReadVector
    BY <1>0, <1>3, EmulatorTypes DEF ReadVector, Goes, Places
  <1>4. CASE ReadDisplayList
    BY <1>0, <1>4, EmulatorTypes DEF ReadDisplayList, Goes, Places
  <1>5. CASE ReadDMACTL
    BY <1>0, <1>5, EmulatorTypes DEF ReadDMACTL, Goes, Places
  <1>6. CASE ReadHardwareDMACTL
    BY <1>0, <1>6, EmulatorTypes DEF ReadHardwareDMACTL, Goes, Places
  <1>7. CASE CallFails
    BY <1>0, <1>7 DEF CallFails, Goes, Places
  <1>8. CASE DecodeList
    <2>1. Decode(reading.start, reading.dump) \in Seq(Entries)
      BY <1>0, DecodeIs
    <2>2. dlist' \in [start : Words, entries : Seq(Entries), dmactl : Bytes]
      BY <1>0, <1>8, <2>1 DEF DecodeList
    <2>3. program' \in Programs
      BY <1>0, <1>8 DEF DecodeList, Goes, Places
    <2>4. QED
      BY <1>0, <1>8, <2>2, <2>3 DEF DecodeList
  <1>9. CASE PlanScreen
    <2>1. program' \in Programs
      BY <1>0, <1>9 DEF PlanScreen, Goes, Places
    <2>2. reading' \in Readings
      BY <1>0, <1>9, ScreenPlans, SetsOutType
    <2>3. QED
      BY <1>0, <1>9, <2>1, <2>2 DEF PlanScreen
  <1>10. CASE PlanCommand
    <2>1. program' \in Programs
      BY <1>0, <1>10 DEF PlanCommand, Goes, Places
    <2>2. reading' \in Readings
      BY <1>0, <1>10, CommandPlans, SetsOutType
    <2>3. QED
      BY <1>0, <1>10, <2>1, <2>2 DEF PlanCommand
  <1>11. CASE Fetch
    <2>1. \A i \in DOMAIN reading.todo : reading.todo[i].s <= reading.todo[i].e
      BY <1>11 DEF Fetch, Reads, Planned
    <2>2. reading' \in Readings
      BY <1>0, <1>11, <2>1, FetchIs
    <2>3. QED
      BY <1>0, <1>11, <2>2 DEF Fetch
  <1>12. CASE TakeRows
    BY <1>0, <1>12 DEF TakeRows, Places
  <1>13. CASE Report
    BY <1>0, <1>13 DEF Report, Goes, Places
  <1>14. CASE Render
    BY <1>0, <1>14 DEF Render, Goes, Places
  <1>15. CASE UNCHANGED vars
    BY <1>0, <1>15 DEF vars
  <1>16. QED
    BY <1>1, <1>2, <1>3, <1>4, <1>5, <1>6, <1>7, <1>8, <1>9, <1>10, <1>11, <1>12, <1>13,
      <1>14, <1>15 DEF Next

(***************************************************************************)
(* What is fetched is what was planned.                                    *)
(***************************************************************************)

\* The ranges of an index, one by one.
LEMMA RangesOfIs ==
  ASSUME NEW index \in Seq(Fetched)
  PROVE  /\ RangesOf(index) \in Seq(Ranges) /\ Len(RangesOf(index)) = Len(index)
         /\ \A i \in 1 .. Len(index) : RangesOf(index)[i] = [s |-> index[i].s, e |-> index[i].e]
  <1> DEFINE n == Len(index)
             range(i) == [s |-> index[i].s, e |-> index[i].e]
             ranges == RangesOf(index)
  <1>1. n \in Nat /\ DOMAIN index = 1 .. n /\ \A i \in 1 .. n : index[i] \in Fetched
    BY InSeq
  <1>2. \A i \in 1 .. n : range(i) \in Ranges
    <2>1. TAKE i \in 1 .. n
    <2>2. index[i] \in Fetched
      BY <1>1
    <2>3. index[i].s \in Nat /\ index[i].e \in Nat
      BY <2>2 DEF Fetched
    <2>4. QED
      BY <2>3 DEF Ranges
  <1>3. ranges = [i \in 1 .. n |-> range(i)]
    BY <1>1 DEF RangesOf
  <1> HIDE DEF range, ranges, n
  <1>4. ranges \in [1 .. n -> Ranges] /\ \A i \in 1 .. n : ranges[i] = range(i)
    BY <1>2, <1>3
  <1>5. ranges \in Seq(Ranges)
    BY <1>1, <1>4, SeqDef
  <1>6. DOMAIN ranges = 1 .. n /\ DOMAIN ranges = 1 .. Len(ranges) /\ Len(ranges) \in Nat
    BY <1>4, <1>5, InSeq
  <1>7. Len(ranges) = n
    BY <1>1, <1>6, SameLen
  <1>8. QED
    BY <1>4, <1>5, <1>7 DEF range, ranges, n

\* Nothing fetched yet.
LEMMA RangesNone ==
  ASSUME NEW todo \in Seq(Ranges)
  PROVE  RangesOf(<<>>) \o todo = todo
  <1>1. RangesOf(<<>>) = <<>>
    <2>1. <<>> \in Seq(Fetched) /\ Len(<<>>) = 0
      BY EmptySeq
    <2>2. RangesOf(<<>>) \in Seq(Ranges) /\ Len(RangesOf(<<>>)) = 0
      BY <2>1, RangesOfIs
    <2>3. QED
      BY <2>2, InSeq
  <1>2. QED
    BY <1>1, ConcatEmptySeq

\* Nothing left to fetch.
LEMMA RangesAll ==
  ASSUME NEW index \in Seq(Fetched)
  PROVE  RangesOf(index) \o <<>> = RangesOf(index)
  BY RangesOfIs, ConcatEmptySeq

\* A call moves its range from what is left to what is fetched.
LEMMA RangesStep ==
  ASSUME NEW index \in Seq(Fetched), NEW todo \in Seq(Ranges), todo # <<>>, NEW f \in Fetched,
         f.s = Head(todo).s, f.e = Head(todo).e
  PROVE  RangesOf(Append(index, f)) \o Tail(todo) = RangesOf(index) \o todo
  <1> DEFINE new == Append(index, f)
             rest == Tail(todo)
             a == RangesOf(index)
             b == RangesOf(new)
             n == Len(index)
             l == Len(todo)
             before == a \o todo
             after == b \o rest
  <1>1. /\ new \in Seq(Fetched) /\ Len(new) = n + 1 /\ (\A i \in 1 .. n : new[i] = index[i])
        /\ new[n + 1] = f /\ n \in Nat
    BY AppendProperties, LenProperties
  <1>2. /\ rest \in Seq(Ranges) /\ Len(rest) = l - 1
        /\ (\A i \in 1 .. l - 1 : rest[i] = todo[i + 1])
        /\ Head(todo) \in Ranges /\ l \in Nat /\ l > 0 /\ Head(todo) = todo[1]
    <2>1. l \in Nat /\ l > 0
      BY InSeq
    <2>2. rest \in Seq(Ranges) /\ Len(rest) = l - 1 /\ Head(todo) \in Ranges
      BY HeadTailProperties
    <2>3. \A i \in 1 .. Len(rest) : rest[i] = todo[i + 1]
      BY HeadTailProperties
    <2>4. QED
      BY <2>1, <2>2, <2>3
  <1>3. /\ a \in Seq(Ranges) /\ Len(a) = n
        /\ \A i \in 1 .. n : a[i] = [s |-> index[i].s, e |-> index[i].e]
    BY RangesOfIs
  <1> HIDE DEF new, rest
  <1>4. /\ b \in Seq(Ranges) /\ Len(b) = n + 1
        /\ \A i \in 1 .. n + 1 : b[i] = [s |-> new[i].s, e |-> new[i].e]
    BY <1>1, RangesOfIs
  <1> HIDE DEF a, b
  <1>5. /\ before \in Seq(Ranges) /\ Len(before) = Len(a) + Len(todo)
        /\ \A i \in 1 .. Len(a) + Len(todo) : before[i] = IF i <= Len(a) THEN a[i]
                                                          ELSE todo[i - Len(a)]
    BY <1>3, ConcatProperties
  <1>6. /\ after \in Seq(Ranges) /\ Len(after) = Len(b) + Len(rest)
        /\ \A i \in 1 .. Len(b) + Len(rest) : after[i] = IF i <= Len(b) THEN b[i]
                                                         ELSE rest[i - Len(b)]
    BY <1>2, <1>4, ConcatProperties
  <1>7. Head(todo) = [s |-> f.s, e |-> f.e]
    BY <1>2 DEF Ranges
  <1> HIDE DEF before, after, n, l
  <1>8. Len(before) = n + l /\ Len(after) = n + l
    <2>1. Len(todo) = l /\ n + 1 + (l - 1) = n + l
      BY <1>1, <1>2 DEF l
    <2>2. QED
      BY <1>2, <1>3, <1>4, <1>5, <1>6, <2>1
  <1>9. ASSUME NEW i \in 1 .. n + l PROVE after[i] = before[i]
    <2>1. /\ Len(a) = n /\ Len(b) = n + 1 /\ Len(rest) = l - 1 /\ Len(todo) = l
          /\ n + 1 + (l - 1) = n + l
      BY <1>1, <1>2, <1>3, <1>4 DEF l
    <2>2. /\ before[i] = IF i <= n THEN a[i] ELSE todo[i - n]
          /\ after[i] = IF i <= n + 1 THEN b[i] ELSE rest[i - (n + 1)]
      BY <1>5, <1>6, <2>1
    <2>3. CASE i <= n
      <3>1. i \in 1 .. n /\ i \in 1 .. n + 1 /\ i <= n + 1
        BY <1>1, <2>3
      <3>2. before[i] = a[i] /\ after[i] = b[i] /\ new[i] = index[i]
        BY <1>1, <2>2, <2>3, <3>1
      <3>3. QED
        BY <1>3, <1>4, <3>1, <3>2
    <2>4. CASE i = n + 1
      <3>1. ~(i <= n) /\ i - n = 1 /\ i <= n + 1 /\ n + 1 \in 1 .. n + 1
        BY <1>1, <2>4
      <3>2. before[i] = todo[1] /\ after[i] = b[n + 1]
        BY <2>2, <2>4, <3>1
      <3>3. b[n + 1] = [s |-> f.s, e |-> f.e]
        BY <1>1, <1>4, <3>1
      <3>4. QED
        BY <1>2, <1>7, <3>2, <3>3
    <2>5. CASE ~(i <= n + 1)
      <3> DEFINE k == i - (n + 1)
      <3>1. ~(i <= n) /\ k \in 1 .. l - 1 /\ k + 1 = i - n
        BY <1>1, <1>2, <2>5
      <3>2. before[i] = todo[i - n] /\ after[i] = rest[k]
        BY <2>2, <2>5, <3>1
      <3> HIDE DEF k
      <3>3. QED
        BY <1>2, <3>1, <3>2
    <2>6. QED
      BY <1>1, <2>3, <2>4, <2>5
  <1>10. after = before
    BY <1>5, <1>6, <1>8, <1>9, SeqEqual
  <1>11. QED
    BY <1>10 DEF after, before, b, a, new, rest

\* An empty buffer.
LEMMA BufferStart == BufferOK(<<>>, <<>>)
  <1>1. Len(<<>>) = 0
    BY EmptySeq
  <1>2. DOMAIN <<>> = {}
    OBVIOUS
  <1>3. QED
    BY <1>1, <1>2 DEF BufferOK

\* Bytes appended with their entry in the index.
LEMMA BufferStep ==
  ASSUME NEW buffer \in Seq(Cells), NEW index \in Seq(Fetched), BufferOK(buffer, index),
         NEW s \in Nat, NEW e \in Nat, s <= e, NEW m, RunsFrom(m, s, e - s)
  PROVE  BufferOK(buffer \o m, Append(index, [s |-> s, e |-> e, off |-> Len(buffer)]))
  <1> DEFINE f == [s |-> s, e |-> e, off |-> Len(buffer)]
             new == Append(index, f)
             b == buffer \o m
             n == Len(index)
             l == Len(buffer)
             d == e - s
  <1>1. /\ m \in Seq(Cells) /\ Len(m) = d /\ (\A i \in 1 .. d : m[i][1] = (s + i - 1) % Word)
        /\ d \in Nat /\ e = s + d
    BY DEF RunsFrom
  <1>2. n \in Nat /\ DOMAIN index = 1 .. n /\ l \in Nat /\ (index = <<>> <=> n = 0)
    BY InSeq
  <1>3. f.s = s /\ f.e = e /\ f.off = l /\ f \in Fetched
    BY <1>2 DEF Fetched
  <1> HIDE DEF f
  <1>4. /\ new \in Seq(Fetched) /\ Len(new) = n + 1 /\ (\A i \in 1 .. n : new[i] = index[i])
        /\ new[n + 1] = f
    BY <1>3, AppendProperties
  <1>5. DOMAIN new = 1 .. n + 1 /\ new # <<>>
    BY <1>2, <1>4, InSeq
  <1>6. /\ Len(b) = Len(buffer) + Len(m)
        /\ \A i \in 1 .. Len(buffer) + Len(m) : b[i] = IF i <= Len(buffer) THEN buffer[i]
                                                       ELSE m[i - Len(buffer)]
    BY <1>1, ConcatProperties
  <1>7. Len(b) = l + d /\ \A i \in 1 .. l + d : b[i] = IF i <= l THEN buffer[i] ELSE m[i - l]
    BY <1>1, <1>6
  <1>8. \A j \in 1 .. n : /\ index[j].s \in Nat /\ index[j].e \in Nat /\ index[j].off \in Nat
                          /\ index[j].s <= index[j].e
                          /\ index[j].off + (index[j].e - index[j].s) <= l
                          /\ \A k \in 0 .. index[j].e - index[j].s - 1 :
                                buffer[index[j].off + k + 1][1] = (index[j].s + k) % Word
    BY <1>2, IndexIs
  <1>9. \A j \in 1 .. n : index[j].off = IF j = 1 THEN 0
                                         ELSE index[j - 1].off + (index[j - 1].e - index[j - 1].s)
    BY <1>2 DEF BufferOK
  <1>10. l = IF n = 0 THEN 0 ELSE index[n].off + (index[n].e - index[n].s)
    BY <1>2 DEF BufferOK
  <1> HIDE DEF new, b, n, l, d
  <1>11. ASSUME NEW j \in 1 .. n + 1
         PROVE  /\ new[j].s <= new[j].e
                /\ new[j].off + (new[j].e - new[j].s) <= l + d
                /\ \A k \in 0 .. new[j].e - new[j].s - 1 :
                       b[new[j].off + k + 1][1] = (new[j].s + k) % Word
                /\ new[j].off = IF j = 1 THEN 0
                                ELSE new[j - 1].off + (new[j - 1].e - new[j - 1].s)
    <2>1. CASE j \in 1 .. n
      <3>1. new[j] = index[j]
        BY <1>4, <2>1
      <3> DEFINE sj == index[j].s
                 ej == index[j].e
                 oj == index[j].off
      <3>2. sj \in Nat /\ ej \in Nat /\ oj \in Nat /\ sj <= ej /\ oj + (ej - sj) <= l
        BY <1>8, <2>1
      <3>3. \A k \in 0 .. ej - sj - 1 : buffer[oj + k + 1][1] = (sj + k) % Word
        BY <1>8, <2>1
      <3>4. oj = IF j = 1 THEN 0 ELSE index[j - 1].off + (index[j - 1].e - index[j - 1].s)
        BY <1>9, <2>1
      <3>5. j # 1 => new[j - 1] = index[j - 1]
        <4>1. j # 1 => j - 1 \in 1 .. n
          BY <1>2, <2>1
        <4>2. QED
          BY <1>4, <4>1
      <3> HIDE DEF sj, ej, oj
      <3>6. ASSUME NEW k \in 0 .. ej - sj - 1 PROVE b[oj + k + 1][1] = (sj + k) % Word
        <4> DEFINE x == oj + k + 1
        <4>1. x \in 1 .. l + d /\ x <= l
          BY <1>1, <1>2, <3>2
        <4> HIDE DEF x
        <4>2. b[x] = buffer[x]
          BY <1>7, <4>1
        <4>3. QED
          BY <3>3, <4>2 DEF x
      <3>7. oj + (ej - sj) <= l + d
        BY <1>1, <1>2, <3>2
      <3>8. QED
        BY <3>1, <3>2, <3>4, <3>5, <3>6, <3>7 DEF sj, ej, oj
    <2>2. CASE j = n + 1
      <3>1. new[j] = f
        BY <1>4, <2>2
      <3>2. ASSUME NEW k \in 0 .. d - 1 PROVE b[l + k + 1][1] = (s + k) % Word
        <4> DEFINE x == l + k + 1
                   i == k + 1
        <4>1. x \in 1 .. l + d /\ ~(x <= l) /\ x - l = i /\ i \in 1 .. d /\ s + i - 1 = s + k
          BY <1>1, <1>2
        <4> HIDE DEF x, i
        <4>2. b[x] = m[i] /\ m[i][1] = (s + i - 1) % Word
          BY <1>1, <1>7, <4>1
        <4>3. b[x][1] = (s + k) % Word
          BY <4>1, <4>2
        <4>4. QED
          BY <4>3 DEF x
      <3>3. l = IF j = 1 THEN 0 ELSE new[j - 1].off + (new[j - 1].e - new[j - 1].s)
        <4>1. CASE n = 0
          BY <1>10, <2>2, <4>1
        <4>2. CASE n # 0
          <5>1. n \in 1 .. n /\ j - 1 = n /\ j # 1
            BY <1>2, <2>2, <4>2
          <5>2. new[j - 1] = index[n]
            BY <1>4, <5>1
          <5>3. QED
            BY <1>10, <4>2, <5>1, <5>2
        <4>3. QED
          BY <4>1, <4>2
      <3>4. e - s = d
        BY DEF d
      <3>5. new[j].s = s /\ new[j].e = e /\ new[j].off = l
        BY <1>3, <3>1
      <3>6. new[j].s <= new[j].e /\ new[j].off + (new[j].e - new[j].s) <= l + d
        BY <1>1, <1>2, <3>4, <3>5
      <3>7. \A k \in 0 .. new[j].e - new[j].s - 1 :
                b[new[j].off + k + 1][1] = (new[j].s + k) % Word
        BY <3>2, <3>4, <3>5
      <3>8. QED
        BY <3>3, <3>5, <3>6, <3>7
    <2>3. QED
      BY <1>2, <2>1, <2>2
  <1>12. Len(new) = n + 1 /\ new[n + 1].off + (new[n + 1].e - new[n + 1].s) = l + d
    BY <1>1, <1>3, <1>4 DEF d
  <1>13. BufferOK(b, new)
    BY <1>5, <1>7, <1>11, <1>12 DEF BufferOK
  <1>14. QED
    BY <1>13 DEF b, new, f, l

\* Every step keeps the buffer, the index and the plan in step.
LEMMA ReadsNext ==
  ASSUME TypeOK, Reads, TypeOK', [Next]_vars
  PROVE  Reads'
  <1>0. program \in Programs /\ reading \in Readings
    BY DEF TypeOK, Programs, Readings
  <1> SUFFICES ASSUME program'.pc = "fetch"
               PROVE  BufferOK(reading'.buffer, reading'.index) /\ Planned'
    BY DEF Reads
  <1>1. ASSUME program.pc = "fetch", UNCHANGED <<program, reading, dlist>>
        PROVE  BufferOK(reading'.buffer, reading'.index) /\ Planned'
    <2>1. BufferOK(reading.buffer, reading.index) /\ Planned
      BY <1>1 DEF Reads
    <2>2. QED
      BY <1>1, <2>1 DEF Planned, Plans, SliceRanges, ThePlan, TheRows, TheSegments
  <1>2. ASSUME NEW todo, SetsOut(todo), program'.name = program.name, UNCHANGED dlist
        PROVE  BufferOK(reading'.buffer, reading'.index) /\ Planned'
    <2>1. reading'.todo = todo /\ reading'.buffer = <<>> /\ reading'.index = <<>>
      BY <1>0, <1>2, SetsOutType
    <2>2. todo \in Seq(Ranges) /\ (\A i \in DOMAIN todo : todo[i].s <= todo[i].e) /\ Plans(todo)
      BY <1>2 DEF SetsOut
    <2>3. RangesOf(reading'.index) \o reading'.todo = todo
      BY <2>1, <2>2, RangesNone
    <2>4. Plans(todo)'
      BY <1>2, <2>2 DEF Plans, SliceRanges, ThePlan, TheRows, TheSegments
    <2>5. QED
      BY <2>1, <2>2, <2>3, <2>4, BufferStart DEF Planned
  <1>3. CASE PlanScreen
    <2>1. SetsOut(ThePlan.fetch)
      BY <1>3, ScreenPlans
    <2>2. program'.name = program.name /\ UNCHANGED dlist
      BY <1>0, <1>3 DEF PlanScreen, Goes, Programs
    <2>3. QED
      BY <1>2, <2>1, <2>2
  <1>4. CASE PlanCommand
    <2>1. PICK todo : SetsOut(todo)
      BY <1>4, CommandPlans
    <2>2. program'.name = program.name /\ UNCHANGED dlist
      BY <1>0, <1>4 DEF PlanCommand, Goes, Programs
    <2>3. QED
      BY <1>2, <2>1, <2>2
  <1>5. CASE Fetch
    <2> DEFINE r == Head(reading.todo)
               m == Memory(r.s, r.e - r.s)
               f == [s |-> r.s, e |-> r.e, off |-> Len(reading.buffer)]
    <2>1. /\ BufferOK(reading.buffer, reading.index) /\ Planned /\ UNCHANGED <<program, dlist>>
          /\ reading.todo # <<>>
      BY <1>5 DEF Fetch, Reads
    <2>2. \A i \in DOMAIN reading.todo : reading.todo[i].s <= reading.todo[i].e
      BY <2>1 DEF Planned
    <2>3. /\ reading' = [reading EXCEPT !.todo = Tail(reading.todo),
                                        !.buffer = reading.buffer \o m,
                                       !.index = Append(reading.index, f)]
          /\ r \in Ranges /\ r.s <= r.e /\ RunsFrom(m, r.s, r.e - r.s) /\ f \in Fetched
      BY <1>5, <2>2, FetchIs
    <2>4. /\ reading.todo \in Seq(Ranges) /\ reading.buffer \in Seq(Cells)
          /\ reading.index \in Seq(Fetched)
          /\ r.s \in Nat /\ r.e \in Nat
      BY <1>0, <2>3 DEF Readings, Ranges
    <2> HIDE DEF r, m
    <2>5. BufferOK(reading.buffer \o m, Append(reading.index, f))
      BY <2>1, <2>3, <2>4, BufferStep
    <2>6. f.s = r.s /\ f.e = r.e
      OBVIOUS
    <2> HIDE DEF f
    <2>7. RangesOf(Append(reading.index, f)) \o Tail(reading.todo) =
              RangesOf(reading.index) \o reading.todo
      BY <2>1, <2>3, <2>4, <2>6, RangesStep DEF r
    <2>8. /\ reading'.todo = Tail(reading.todo) /\ reading'.buffer = reading.buffer \o m
          /\ reading'.index = Append(reading.index, f)
      BY <1>0, <2>3 DEF Readings
    <2>9. \A i \in DOMAIN Tail(reading.todo) :
              Tail(reading.todo)[i].s <= Tail(reading.todo)[i].e
      <3> DEFINE l == Len(reading.todo)
                 rest == Tail(reading.todo)
      <3>1. /\ rest \in Seq(Ranges) /\ Len(rest) = l - 1
            /\ \A i \in 1 .. Len(rest) : rest[i] = reading.todo[i + 1]
        BY <2>1, <2>4, HeadTailProperties
      <3>2. l \in Nat /\ DOMAIN reading.todo = 1 .. l /\ DOMAIN rest = 1 .. Len(rest)
        BY <2>4, <3>1, InSeq
      <3> HIDE DEF rest, l
      <3>3. \A i \in 1 .. Len(rest) : i + 1 \in 1 .. l
        BY <3>1, <3>2
      <3>4. \A i \in DOMAIN rest : rest[i].s <= rest[i].e
        BY <2>2, <3>1, <3>2, <3>3
      <3>5. QED
        BY <3>4 DEF rest
    <2>10. Plans(RangesOf(reading.index) \o reading.todo)
      BY <2>1 DEF Planned
    <2> DEFINE all == RangesOf(reading.index) \o reading.todo
    <2>11. RangesOf(reading'.index) \o reading'.todo = all
      BY <2>7, <2>8
    <2>12. Planned'
      <3>1. Plans(all)
        BY <2>10
      <3>2. /\ program'.name = program.name /\ ThePlan' = ThePlan /\ TheSegments' = TheSegments
            /\ SliceRanges' = SliceRanges
        BY <2>1 DEF SliceRanges, ThePlan, TheRows, TheSegments
      <3>3. /\ program'.name = "monitor" => all = ThePlan'.fetch
            /\ program'.name = "screen" => all = SliceRanges'
            /\ program'.name = "segment" =>
                   \E i \in DOMAIN TheSegments' : all = Cut(TheSegments'[i], MaxRead)
            /\ program'.name # "dlist"
        BY <3>1, <3>2 DEF Plans
      <3> HIDE DEF all
      <3>4. QED
        BY <2>8, <2>9, <2>11, <3>3 DEF Planned, Plans
    <2>13. QED
      BY <2>5, <2>8, <2>12
  <1>6. CASE EmulatorChanges
    BY <1>1, <1>6 DEF EmulatorChanges
  <1>7. CASE UNCHANGED vars
    BY <1>1, <1>7 DEF vars
  <1>8. CASE \/ Start \/ ReadVector \/ ReadDisplayList \/ ReadDMACTL
             \/ ReadHardwareDMACTL \/ CallFails
             \/ DecodeList \/ TakeRows \/ Report \/ Render
    <2>1. program'.pc # "fetch"
      BY <1>0, <1>8 DEF Programs, Goes, Start, ReadVector, ReadDisplayList, ReadDMACTL,
        ReadHardwareDMACTL,
                        CallFails, DecodeList, TakeRows, Report, Render
    <2>2. QED
      BY <2>1
  <1>9. QED
    BY <1>3, <1>4, <1>5, <1>6, <1>7, <1>8 DEF Next

(***************************************************************************)
(* The screen window.                                                      *)
(***************************************************************************)

\* What is held by an index is held by its ranges.
LEMMA HeldIs ==
  ASSUME NEW index \in Seq(Fetched), NEW x
  PROVE  Held(index, x) <=> Holds(ToSet(RangesOf(index)), x)
  <1> DEFINE ranges == RangesOf(index)
             n == Len(index)
  <1>1. DOMAIN index = 1 .. n
    BY InSeq
  <1>2. /\ ranges \in Seq(Ranges) /\ Len(ranges) = n
        /\ \A i \in 1 .. n : ranges[i] = [s |-> index[i].s, e |-> index[i].e]
    BY RangesOfIs
  <1> HIDE DEF ranges, n
  <1>3. \A r : r \in ToSet(ranges) <=> \E i \in 1 .. n : r = ranges[i]
    BY <1>2, InSeq
  <1>4. \A i \in 1 .. n : ranges[i].s = index[i].s /\ ranges[i].e = index[i].e
    BY <1>2
  <1>5. Held(index, x) <=> \E i \in 1 .. n : index[i].s <= x /\ x < index[i].e
    BY <1>1 DEF Held
  <1>6. Holds(ToSet(ranges), x) <=> \E i \in 1 .. n : ranges[i].s <= x /\ x < ranges[i].e
    BY <1>3 DEF Holds
  <1>7. QED
    BY <1>4, <1>5, <1>6 DEF ranges

\* The line of a row, as the window cuts it out of what was fetched.
Line(r) == [addr |-> r.addr, data |-> ReadRow(reading.buffer, reading.index, r.addr, r.length)]

\* After the fetch every line that does not wrap is there and in order; one that wraps is
\* missing, since readRow does not wrap.
LEMMA LineIs ==
  ASSUME TypeOK, Reads, program.pc = "fetch", program.name = "monitor", reading.todo = <<>>,
         NEW r \in ToSet(ThePlan.slices)
  PROVE  /\ r \in Mapped /\ Line(r) \in Lines
         /\ r.addr + r.length <= Word => RunsFrom(Line(r).data, r.addr, r.length)
         /\ ~(r.addr + r.length <= Word) => Line(r).data = <<>>
  <1> DEFINE d == ReadRow(reading.buffer, reading.index, r.addr, r.length)
             fetch == ThePlan.fetch
             slices == ThePlan.slices
             a == r.addr
             ln == r.length
  <1>1. reading.buffer \in Seq(Cells) /\ reading.index \in Seq(Fetched)
    BY DEF TypeOK
  <1>2. BufferOK(reading.buffer, reading.index) /\ Planned
    BY DEF Reads
  <1>3. RangesOf(reading.index) = fetch
    BY <1>1, <1>2, RangesAll DEF Planned, Plans
  <1>4. /\ (\A q \in ToSet(fetch) : q.e <= Word) /\ fetch \in Seq(Ranges)
        /\ slices \in Seq(Mapped)
        /\ \A x \in Int : Holds(ToSet(fetch), x) <=> Shows(ToSet(slices), x, AllModes)
    BY PlanTypes
  <1>5. r \in Mapped
    BY <1>4, InSeq
  <1>6. /\ a \in Nat /\ a < Word /\ ln \in Nat /\ ln > 0 /\ ln <= 48 /\ r.mode \in AllModes
        /\ Word \in Nat
    BY <1>5, MappedIs
  <1>7. IF \A x \in a .. a + ln - 1 : Held(reading.index, x) THEN RunsFrom(d, a, ln)
        ELSE d = <<>>
    BY <1>1, <1>2, <1>6, ReadRowIs
  <1>8. \A x : Held(reading.index, x) <=> Holds(ToSet(fetch), x)
    BY <1>1, <1>3, HeldIs
  <1>9. Line(r).data = d /\ Line(r).addr = a /\ Line(r) = [addr |-> a, data |-> d]
    BY DEF Line
  <1> HIDE DEF d, fetch, slices
  <1>10. ASSUME a + ln <= Word PROVE RunsFrom(d, a, ln)
    <2>1. ASSUME NEW x \in a .. a + ln - 1 PROVE Held(reading.index, x)
      <3> DEFINE i == x - a
      <3>1. i \in 0 .. ln - 1 /\ a + i = x /\ x \in Int /\ 0 <= x /\ x < Word
        BY <1>6, <1>10
      <3>2. x % Word = x
        BY <3>1, Wraps
      <3> HIDE DEF i
      <3>3. x = (a + i) % Word
        BY <3>1, <3>2
      <3>4. Shows(ToSet(slices), x, AllModes)
        BY <1>6, <3>1, <3>3 DEF Shows, slices
      <3>5. QED
        BY <1>4, <1>8, <3>1, <3>4
    <2>2. QED
      BY <1>7, <2>1
  <1>11. ASSUME ~(a + ln <= Word) PROVE d = <<>>
    <2>1. Word \in a .. a + ln - 1
      BY <1>6, <1>11
    <2>2. ~Holds(ToSet(fetch), Word)
      <3>1. \A q \in ToSet(fetch) : q \in Ranges
        BY <1>4, InSeq
      <3>2. \A q \in ToSet(fetch) : q.e \in Nat
        BY <3>1 DEF Ranges
      <3>3. QED
        BY <1>4, <1>6, <3>2 DEF Holds
    <2>3. QED
      BY <1>7, <1>8, <2>1, <2>2
  <1>12. Line(r) \in Lines
    <2>1. d \in Seq(Cells)
      BY <1>10, <1>11, EmptySeq DEF RunsFrom
    <2>2. a \in Int
      BY <1>6
    <2>3. QED
      BY <1>9, <2>1, <2>2 DEF Lines
  <1>13. QED
    BY <1>5, <1>9, <1>10, <1>11, <1>12

\* A run of bytes from its address is a line in order.
LEMMA RunInOrder ==
  ASSUME NEW l, NEW n \in Nat, RunsFrom(l.data, l.addr, n)
  PROVE  InOrder(l) /\ Len(l.data) = n
  <1>1. /\ l.data \in Seq(Cells) /\ Len(l.data) = n
        /\ \A i \in 1 .. n : l.data[i][1] = (l.addr + i - 1) % Word
    BY DEF RunsFrom
  <1>2. DOMAIN l.data = 1 .. n
    BY <1>1, InSeq
  <1>3. QED
    BY <1>1, <1>2 DEF InOrder

\* The rows of the window after a fetch.
LEMMA CuttingIs ==
  ASSUME TypeOK, Reads, program.pc = "fetch", program.name = "monitor", reading.todo = <<>>
  PROVE  LET rows == Cutting(ThePlan.slices)
         IN  /\ rows \in Seq(Lines) /\ \A l \in ToSet(rows) : InOrder(l)
             /\ {<<l.addr, Len(l.data)>> : l \in ToSet(rows)} =
                   {<<r.addr, r.length>> :
                       r \in {p \in ToSet(ThePlan.slices) : p.addr + p.length <= Word}}
  <1> DEFINE slices == ThePlan.slices
             n == Len(slices)
             rows == Cutting(slices)
             data(r) == ReadRow(reading.buffer, reading.index, r.addr, r.length)
             parts == [i \in 1 .. n |-> IF data(slices[i]) = <<>> THEN <<>>
                                        ELSE <<[addr |-> slices[i].addr, data |-> data(slices[i])]>>]
             Fits(r) == r.addr + r.length <= Word
  <1>1. slices \in Seq(Mapped)
    BY PlanTypes
  <1>2. /\ n \in Nat /\ DOMAIN slices = 1 .. n
        /\ \A x : x \in ToSet(slices) <=> \E i \in 1 .. n : x = slices[i]
    BY <1>1, InSeq
  <1>3. rows = FlattenSeq(parts)
    BY <1>2 DEF Cutting
  <1>4. \A i \in 1 .. n : parts[i] = IF Line(slices[i]).data = <<>> THEN <<>>
                                     ELSE <<Line(slices[i])>>
    BY DEF Line
  <1>5. \A r \in ToSet(slices) : /\ r \in Mapped /\ Line(r) \in Lines
                                 /\ Fits(r) => RunsFrom(Line(r).data, r.addr, r.length)
                                 /\ ~Fits(r) => Line(r).data = <<>>
    BY LineIs
  <1>6. \A r \in ToSet(slices) : Fits(r) => Line(r).data # <<>> /\ Len(Line(r).data) = r.length
    <2>1. TAKE r \in ToSet(slices)
    <2>2. HAVE Fits(r)
    <2>3. RunsFrom(Line(r).data, r.addr, r.length) /\ r.length \in Nat /\ r.length > 0
      BY <1>5, <2>2, MappedIs
    <2>4. Line(r).data \in Seq(Cells) /\ Len(Line(r).data) = r.length
      BY <2>3 DEF RunsFrom
    <2>5. QED
      BY <2>3, <2>4, InSeq
  <1>7. \A r : Line(r).addr = r.addr
    BY DEF Line
  <1> HIDE DEF slices, n, parts, rows, Fits, data
  <1>8. ASSUME NEW i \in 1 .. n
        PROVE  /\ parts[i] \in Seq(Lines)
               /\ \A x : x \in ToSet(parts[i]) <=> x = Line(slices[i]) /\ Fits(slices[i])
    <2> DEFINE r == slices[i]
    <2>1. r \in ToSet(slices)
      BY <1>2
    <2>2. parts[i] = IF Line(r).data = <<>> THEN <<>> ELSE <<Line(r)>>
      BY <1>4
    <2> HIDE DEF r
    <2>3. CASE Fits(r)
      <3>1. parts[i] = <<Line(r)>> /\ Line(r) \in Lines
        BY <1>5, <1>6, <2>1, <2>2, <2>3
      <3>2. ToSet(<<Line(r)>>) = {Line(r)}
        BY DEF ToSet
      <3>3. QED
        BY <2>3, <3>1, <3>2 DEF r
    <2>4. CASE ~Fits(r)
      <3>1. parts[i] = <<>>
        BY <1>5, <2>1, <2>2, <2>4
      <3>2. <<>> \in Seq(Lines) /\ \A x : x \notin ToSet(<<>>)
        BY EmptySeq DEF ToSet
      <3>3. QED
        BY <2>4, <3>1, <3>2 DEF r
    <2>5. QED
      BY <2>3, <2>4
  <1>9. parts \in [1 .. n -> Seq(Lines)]
    BY <1>8 DEF parts
  <1>10. /\ rows \in Seq(Lines)
         /\ \A x : x \in ToSet(rows) <=> \E i \in 1 .. n : x \in ToSet(parts[i])
    BY <1>2, <1>3, <1>9, FlattenIs
  <1>11. \A x : x \in ToSet(rows) <=> \E r \in ToSet(slices) : x = Line(r) /\ Fits(r)
    <2>1. ASSUME NEW x, x \in ToSet(rows) PROVE \E r \in ToSet(slices) : x = Line(r) /\ Fits(r)
      <3>1. PICK i \in 1 .. n : x \in ToSet(parts[i])
        BY <1>10, <2>1
      <3>2. x = Line(slices[i]) /\ Fits(slices[i]) /\ slices[i] \in ToSet(slices)
        BY <1>2, <1>8, <3>1
      <3>3. QED
        BY <3>2
    <2>2. ASSUME NEW r \in ToSet(slices), Fits(r) PROVE Line(r) \in ToSet(rows)
      <3>1. PICK i \in 1 .. n : r = slices[i]
        BY <1>2
      <3>2. Line(slices[i]) \in ToSet(parts[i])
        BY <1>8, <2>2, <3>1
      <3>3. QED
        BY <1>10, <3>1, <3>2
    <2>3. QED
      BY <2>1, <2>2
  <1>12. \A l \in ToSet(rows) : InOrder(l)
    <2>1. TAKE l \in ToSet(rows)
    <2>2. PICK r \in ToSet(slices) : l = Line(r) /\ Fits(r)
      BY <1>11
    <2>3. RunsFrom(l.data, l.addr, r.length) /\ r.length \in Nat
      BY <1>5, <1>7, <2>2, MappedIs
    <2>4. QED
      BY <2>3, RunInOrder
  <1>13. {<<l.addr, Len(l.data)>> : l \in ToSet(rows)} =
            {<<r.addr, r.length>> : r \in {p \in ToSet(slices) : Fits(p)}}
    <2>1. ASSUME NEW l \in ToSet(rows)
          PROVE  \E r \in {p \in ToSet(slices) : Fits(p)} :
                     <<l.addr, Len(l.data)>> = <<r.addr, r.length>>
      <3>1. PICK r \in ToSet(slices) : l = Line(r) /\ Fits(r)
        BY <1>11
      <3>2. l.addr = r.addr /\ Len(l.data) = r.length
        BY <1>6, <1>7, <3>1
      <3>3. QED
        BY <3>1, <3>2
    <2>2. ASSUME NEW r \in {p \in ToSet(slices) : Fits(p)}
          PROVE  \E l \in ToSet(rows) : <<r.addr, r.length>> = <<l.addr, Len(l.data)>>
      <3>1. Line(r) \in ToSet(rows)
        BY <1>11, <2>2
      <3>2. Line(r).addr = r.addr /\ Len(Line(r).data) = r.length
        BY <1>6, <1>7, <2>2
      <3>3. QED
        BY <3>1, <3>2
    <2>3. QED
      BY <2>1, <2>2
  <1>14. QED
    BY <1>10, <1>12, <1>13 DEF rows, slices, Fits

\* The type of a snapshot.
LEMMA SnapshotIs ==
  ASSUME NEW d \in [start : Words, entries : Seq(Entries), dmactl : Bytes]
  PROVE  Snapshot(d) \in Snapshots
  <1> DEFINE es == d.entries
             ends == IF es = <<>> THEN <<>>
                     ELSE <<Head(es).cmd, Head(es).arg, Last(es).cmd, Last(es).arg>>
  <1>1. es \in Seq(Entries) /\ Len(es) \in Nat /\ d.start \in Words /\ d.dmactl \in Bytes
    BY InSeq
  <1> HIDE DEF es
  <1>2. ends \in {<<>>} \cup Bytes \X Words \X Bytes \X Words
    <2>1. CASE es = <<>>
      BY <2>1
    <2>2. CASE es # <<>>
      <3>1. 1 \in 1 .. Len(es) /\ Len(es) \in 1 .. Len(es)
        BY <1>1, <2>2, InSeq
      <3>2. es[1] \in Entries /\ es[Len(es)] \in Entries
        BY <1>1, <3>1, InSeq
      <3>3. Head(es) = es[1] /\ Last(es) = es[Len(es)]
        BY <1>1, <2>2 DEF Last
      <3>4. QED
        BY <2>2, <3>2, <3>3 DEF Entries
    <2>3. QED
      BY <2>1, <2>2
  <1>3. Snapshot(d) = <<d.start, d.dmactl, Len(es), ends>>
    BY DEF Snapshot, es
  <1> HIDE DEF ends
  <1>4. QED
    BY <1>1, <1>2, <1>3 DEF Snapshots

\* The type of the lines of the display list window.
LEMMA CompactedType ==
  ASSUME NEW entries \in Seq(Entries)
  PROVE  Compacted(entries) \in Seq(Shown)
  <1>1. PICK f \in [0 .. Len(entries) -> Seq(Shown)] : CompactsBy(f, entries)
    BY CompactsFold
  <1>2. Len(entries) \in 0 .. Len(entries)
    BY InSeq
  <1>3. QED
    BY <1>1, <1>2 DEF CompactsBy

\* The rest of ScreenBufferInspector.Update.
LEMMA TakesRows ==
  ASSUME TypeOK, Reads, WindowsOK, TakeRows
  PROVE  LET rows == Cutting(ThePlan.slices)
         IN  /\ screenWindow' = [screenWindow EXCEPT !.rows = rows, !.snapshot = {rows},
                                                     !.planned = ToSet(ThePlan.slices)]
             /\ rows \in Seq(Lines) /\ \A l \in ToSet(rows) : InOrder(l)
             /\ {<<l.addr, Len(l.data)>> : l \in ToSet(rows)} =
                   {<<r.addr, r.length>> :
                       r \in {p \in ToSet(ThePlan.slices) : p.addr + p.length <= Word}}
  <1>1. program.pc = "fetch" /\ program.name = "monitor" /\ reading.todo = <<>>
    BY DEF TakeRows, InMonitor
  <1>2. screenWindow' = [screenWindow EXCEPT !.rows = Cutting(ThePlan.slices),
                                             !.snapshot = {Cutting(ThePlan.slices)},
                                             !.planned = ToSet(ThePlan.slices)]
    BY DEF TakeRows, ThePlan, TheRows
  <1>3. QED
    BY <1>1, <1>2, CuttingIs

\* Every step keeps the types of the windows.
LEMMA WindowsNext ==
  ASSUME TypeOK, Reads, WindowsOK, TypeOK', [Next]_vars
  PROVE  WindowsOK'
  <1> DEFINE Screens == [rows : Seq(Lines), snapshot : SUBSET Seq(Lines), shown : Seq(Lines),
                         planned : SUBSET Mapped]
             ListWindows == [snapshot : SUBSET Snapshots, shown : Seq(Shown)]
  <1>0. /\ screenWindow \in Screens /\ listWindow \in ListWindows /\ program \in Programs
        /\ dlist \in [start : Words, entries : Seq(Entries), dmactl : Bytes]
        /\ dlist' \in [start : Words, entries : Seq(Entries), dmactl : Bytes]
    BY DEF WindowsOK, TypeOK, Programs
  <1> SUFFICES screenWindow' \in Screens /\ listWindow' \in ListWindows
    BY DEF WindowsOK
  <1>1. CASE DecodeList
    <2>1. Snapshot(dlist') \in Snapshots
      BY <1>0, SnapshotIs
    <2>2. \/ listWindow' = listWindow
          \/ listWindow' = [listWindow EXCEPT !.snapshot = {Snapshot(dlist')}]
      BY <1>1 DEF DecodeList
    <2>3. listWindow' \in ListWindows
      BY <1>0, <2>1, <2>2
    <2>4. QED
      BY <1>0, <1>1, <2>3 DEF DecodeList
  <1>2. CASE PlanScreen
    <2>1. <<>> \in Seq(Lines)
      BY EmptySeq
    <2>2. \/ screenWindow' = screenWindow
          \/ screenWindow' = [screenWindow EXCEPT !.rows = <<>>, !.snapshot = {},
                                                  !.planned = {}]
      BY <1>2 DEF PlanScreen
    <2>3. QED
      BY <1>0, <1>2, <2>1, <2>2 DEF PlanScreen
  <1>3. CASE TakeRows
    <2> DEFINE rows == Cutting(ThePlan.slices)
               slices == ToSet(ThePlan.slices)
    <2>1. /\ screenWindow' = [screenWindow EXCEPT !.rows = rows, !.snapshot = {rows},
                                                  !.planned = slices]
          /\ rows \in Seq(Lines)
      BY <1>3, TakesRows
    <2>2. slices \subseteq Mapped
      BY PlanTypes, InSeq
    <2> HIDE DEF rows, slices
    <2>3. screenWindow' \in Screens
      BY <1>0, <2>1, <2>2
    <2>4. QED
      BY <1>0, <1>3, <2>3 DEF TakeRows
  <1>4. CASE Render
    <2>1. Compacted(dlist.entries) \in Seq(Shown)
      BY <1>0, CompactedType
    <2>2. \/ listWindow' = listWindow /\ screenWindow' = screenWindow
          \/ /\ listWindow' = [listWindow EXCEPT !.shown = Compacted(dlist.entries)]
             /\ screenWindow' = [screenWindow EXCEPT !.shown = screenWindow.rows]
      BY <1>4 DEF Render
    <2>3. QED
      BY <1>0, <2>1, <2>2
  <1>5. CASE UNCHANGED <<listWindow, screenWindow>>
    BY <1>0, <1>5
  <1>6. QED
    BY <1>1, <1>2, <1>3, <1>4, <1>5
       DEF Next, vars, EmulatorChanges, Start, ReadVector, ReadDisplayList, ReadDMACTL,
           ReadHardwareDMACTL,
           CallFails, PlanCommand, Fetch, Report

\* Every step keeps the rows of the window.
LEMMA WindowedNext ==
  ASSUME TypeOK, Reads, WindowsOK, Windowed, [Next]_vars
  PROVE  Windowed'
  <1>0. program \in Programs
    BY DEF TypeOK, Programs
  <1>1. ASSUME screenWindow'.rows = screenWindow.rows,
               screenWindow'.planned = screenWindow.planned
        PROVE  Windowed'
    BY <1>1 DEF Windowed, InOrder
  <1>2. ASSUME screenWindow'.rows = <<>>, screenWindow'.planned = {}
        PROVE  Windowed'
    <2>1. \A x : x \notin ToSet(<<>>)
      BY DEF ToSet
    <2>2. QED
      BY <1>2, <2>1 DEF Windowed
  <1>3. CASE TakeRows
    <2> DEFINE rows == Cutting(ThePlan.slices)
               slices == ToSet(ThePlan.slices)
    <2>1. /\ screenWindow' = [screenWindow EXCEPT !.rows = rows, !.snapshot = {rows},
                                                  !.planned = slices]
          /\ \A l \in ToSet(rows) : InOrder(l)
          /\ {<<l.addr, Len(l.data)>> : l \in ToSet(rows)} =
                   {<<r.addr, r.length>> : r \in {p \in slices : p.addr + p.length <= Word}}
      BY <1>3, TakesRows
    <2> HIDE DEF rows, slices
    <2>2. screenWindow'.rows = rows /\ screenWindow'.planned = slices
      BY <2>1 DEF WindowsOK
    <2>3. QED
      BY <2>1, <2>2 DEF Windowed, InOrder
  <1>4. CASE PlanScreen
    <2>1. \/ screenWindow' = screenWindow
          \/ screenWindow'.rows = <<>> /\ screenWindow'.planned = {}
      BY <1>4 DEF PlanScreen, WindowsOK
    <2>2. QED
      BY <1>1, <1>2, <2>1
  <1>5. CASE Render
    <2>1. screenWindow'.rows = screenWindow.rows /\ screenWindow'.planned = screenWindow.planned
      BY <1>5 DEF Render, WindowsOK
    <2>2. QED
      BY <1>1, <2>1
  <1>6. CASE UNCHANGED screenWindow
    BY <1>1, <1>6
  <1>7. QED
    BY <1>3, <1>4, <1>5, <1>6
       DEF Next, vars, EmulatorChanges, Start, ReadVector, ReadDisplayList, ReadDMACTL,
           ReadHardwareDMACTL,
           CallFails, DecodeList, PlanCommand, Fetch, Report

(***************************************************************************)
(* What a command prints.                                                  *)
(***************************************************************************)

\* The lines that begin in a segment, cut at its end, lie in it.
LEMMA SegmentRowsIs ==
  ASSUME NEW rows \in Seq(Mapped), NEW seg, seg.s \in Nat, seg.e \in Nat
  PROVE  /\ SegmentRows(rows, seg) \in Seq(Mapped)
         /\ \A r \in ToSet(SegmentRows(rows, seg)) :
                seg.s <= r.addr /\ r.addr + r.length <= seg.e
  <1> DEFINE n == Len(rows)
             begins(i) == seg.s <= rows[i].addr /\ rows[i].addr < seg.e
             cut(i) == [rows[i] EXCEPT !.length = Min({@, seg.e - rows[i].addr})]
             parts == [i \in 1 .. n |-> IF begins(i) THEN <<cut(i)>> ELSE <<>>]
             Good(r) == r \in Mapped /\ seg.s <= r.addr /\ r.addr + r.length <= seg.e
  <1>1. n \in Nat /\ DOMAIN rows = 1 .. n /\ \A i \in 1 .. n : rows[i] \in Mapped
    BY InSeq
  <1>2. SegmentRows(rows, seg) = FlattenSeq(parts)
    BY <1>1 DEF SegmentRows
  <1>3. ASSUME NEW i \in 1 .. n, begins(i) PROVE Good(cut(i))
    <2> DEFINE r == rows[i]
               ln == r.length
               a == r.addr
               left == seg.e - a
               m == Min({ln, left})
    <2>1. r \in Mapped /\ a \in Nat /\ ln \in 1 .. 48
      BY <1>1 DEF Mapped, Words
    <2>2. left \in Int /\ left > 0 /\ a + left = seg.e /\ seg.s <= a
      BY <1>3, <2>1
    <2>3. cut(i) = [r EXCEPT !.length = m]
      BY <2>1 DEF Mapped
    <2> HIDE DEF left, ln, a, r, cut
    <2>4. m = IF ln <= left THEN ln ELSE left
      BY <2>1, <2>2, MinOf
    <2> HIDE DEF m
    <2>5. m \in 1 .. 48 /\ a + m <= seg.e
      BY <2>1, <2>2, <2>4
    <2>6. cut(i) \in Mapped /\ cut(i).addr = a /\ cut(i).length = m
      BY <2>1, <2>3, <2>5 DEF Mapped, a
    <2>7. QED
      BY <2>2, <2>5, <2>6
  <1> HIDE DEF begins, cut, Good
  <1>4. \A i \in 1 .. n : parts[i] = IF begins(i) THEN <<cut(i)>> ELSE <<>>
    OBVIOUS
  <1>5. ASSUME NEW i \in 1 .. n
        PROVE  parts[i] \in Seq(Mapped) /\ \A x \in ToSet(parts[i]) : Good(x)
    <2>1. CASE begins(i)
      <3>1. parts[i] = <<cut(i)>> /\ Good(cut(i)) /\ cut(i) \in Mapped
        BY <1>3, <1>4, <2>1 DEF Good
      <3>2. ToSet(<<cut(i)>>) = {cut(i)}
        BY DEF ToSet
      <3>3. QED
        BY <3>1, <3>2
    <2>2. CASE ~begins(i)
      <3>1. parts[i] = <<>>
        BY <1>4, <2>2
      <3>2. <<>> \in Seq(Mapped) /\ ToSet(<<>>) = {}
        BY EmptySeq DEF ToSet
      <3>3. QED
        BY <3>1, <3>2
    <2>3. QED
      BY <2>1, <2>2
  <1>6. parts \in [1 .. n -> Seq(Mapped)]
    BY <1>5
  <1> HIDE DEF parts
  <1>7. /\ FlattenSeq(parts) \in Seq(Mapped)
        /\ \A x : x \in ToSet(FlattenSeq(parts)) <=> \E i \in 1 .. n : x \in ToSet(parts[i])
    BY <1>1, <1>6, FlattenIs
  <1>8. \A x \in ToSet(FlattenSeq(parts)) : Good(x)
    BY <1>5, <1>7
  <1>9. QED
    BY <1>2, <1>7, <1>8 DEF Good

\* The pieces of one segment are chained.
LEMMA CutChained ==
  ASSUME NEW index \in Seq(Fetched), NEW seg, NEW K, CutsInto(seg, K, RangesOf(index))
  PROVE  Chained(index) /\ index # <<>>
  <1> DEFINE n == Len(index)
             ranges == RangesOf(index)
  <1>1. n \in Nat /\ DOMAIN index = 1 .. n /\ (index = <<>> <=> n = 0)
    BY InSeq
  <1>2. Len(ranges) = n /\ \A i \in 1 .. n : ranges[i] = [s |-> index[i].s, e |-> index[i].e]
    BY RangesOfIs
  <1> HIDE DEF ranges, n
  <1>3. Len(ranges) > 0 /\ \A i \in 2 .. Len(ranges) : ranges[i].s = ranges[i - 1].e
    BY DEF CutsInto, ranges
  <1>4. ASSUME NEW i \in DOMAIN index, i > 1 PROVE index[i].s = index[i - 1].e
    <2>1. i \in 2 .. n /\ i \in 1 .. n /\ i - 1 \in 1 .. n
      BY <1>1, <1>4
    <2>2. ranges[i].s = ranges[i - 1].e
      BY <1>2, <1>3, <2>1
    <2>3. ranges[i].s = index[i].s /\ ranges[i - 1].e = index[i - 1].e
      BY <1>2, <2>1
    <2>4. QED
      BY <2>2, <2>3
  <1>5. QED
    BY <1>1, <1>2, <1>3, <1>4 DEF Chained

\* What "screen" prints.
PrintsLines(rows) ==
  [i \in DOMAIN rows |-> [addr |-> rows[i].addr,
      data |-> SubSeq(reading.buffer, reading.index[i].off + 1,
                      reading.index[i].off + rows[i].length)]]

\* What "screen -s" prints.
PrintsSegment(begins, first) ==
  [i \in DOMAIN begins |-> [addr |-> begins[i].addr,
      data |-> SubSeq(reading.buffer, begins[i].addr - first + 1,
                      begins[i].addr - first + begins[i].length)]]

\* Each line is what its own call returned.
LEMMA PrintsLinesIs ==
  ASSUME TypeOK, BufferOK(reading.buffer, reading.index), RangesOf(reading.index) = SliceRanges
  PROVE  \A l \in ToSet(PrintsLines(ThePlan.slices)) : InOrder(l)
  <1> DEFINE rows == ThePlan.slices
             n == Len(rows)
             index == reading.index
             buffer == reading.buffer
             out == PrintsLines(rows)
             d(i) == SubSeq(buffer, index[i].off + 1, index[i].off + rows[i].length)
  <1>1. index \in Seq(Fetched) /\ buffer \in Seq(Cells) /\ rows \in Seq(Mapped)
    BY PlanTypes DEF TypeOK
  <1>2. n \in Nat /\ DOMAIN rows = 1 .. n /\ \A i \in 1 .. n : rows[i] \in Mapped
    BY <1>1, InSeq
  <1>3. Len(index) = n /\ DOMAIN index = 1 .. Len(index)
    BY <1>1, RangesOfIs, SlicesType, InSeq
  <1>4. \A i \in 1 .. n :
            [s |-> index[i].s, e |-> index[i].e] =
                [s |-> rows[i].addr, e |-> rows[i].addr + rows[i].length]
    BY <1>1, <1>2, <1>3, RangesOfIs DEF SliceRanges
  <1>5. out = [i \in 1 .. n |-> [addr |-> rows[i].addr, data |-> d(i)]]
    BY <1>2 DEF PrintsLines
  <1>6. BufferOK(buffer, index)
    OBVIOUS
  <1> HIDE DEF rows, n, index, buffer, out
  <1>7. ASSUME NEW i \in 1 .. n PROVE InOrder([addr |-> rows[i].addr, data |-> d(i)])
    <2> DEFINE a == rows[i].addr
               ln == rows[i].length
               o == index[i].off
    <2>1. a \in Nat /\ ln \in Nat
      BY <1>2, MappedIs
    <2>2. index[i].s = a /\ index[i].e = a + ln
      BY <1>4
    <2>3. i \in DOMAIN index
      BY <1>3
    <2>4. o \in Nat
      BY <1>1, <1>6, <2>3, IndexIs
    <2>5. o + a - a = o
      BY <2>1, <2>4
    <2> HIDE DEF a, ln, o
    <2>6. RunsFrom(SubSeq(buffer, o + a - a + 1, o + a - a + ln), a, ln)
      <3>1. index[i].off = o
        BY DEF o
      <3>2. index[i].s <= a /\ a + ln <= index[i].e
        BY <2>1, <2>2
      <3>3. LET from == index[i].off + a - index[i].s
            IN  RunsFrom(SubSeq(buffer, from + 1, from + ln), a, ln)
        BY <1>1, <1>6, <2>1, <2>3, <3>2, PieceIs
      <3>4. QED
        BY <2>2, <3>1, <3>3
    <2>7. RunsFrom(d(i), a, ln)
      BY <2>5, <2>6 DEF o, ln
    <2> DEFINE l == [addr |-> a, data |-> d(i)]
    <2>8. l.addr = a /\ l.data = d(i)
      OBVIOUS
    <2> HIDE DEF l, d
    <2>9. InOrder(l)
      BY <2>1, <2>7, <2>8, RunInOrder
    <2>10. QED
      BY <2>9 DEF l, a
  <1> HIDE DEF d
  <1>8. ASSUME NEW l \in ToSet(out) PROVE InOrder(l)
    <2>1. PICK i \in 1 .. n : l = [addr |-> rows[i].addr, data |-> d(i)]
      BY <1>5 DEF ToSet
    <2>2. QED
      BY <1>7, <2>1
  <1>9. QED
    BY <1>8 DEF out, rows

\* Each line is cut out of the segment.
LEMMA PrintsSegmentIs ==
  ASSUME TypeOK, BufferOK(reading.buffer, reading.index), Chained(reading.index),
         reading.index # <<>>
  PROVE  LET seg == [s |-> Head(reading.index).s, e |-> Last(reading.index).e]
         IN  \A l \in ToSet(PrintsSegment(SegmentRows(ThePlan.slices, seg), seg.s)) : InOrder(l)
  <1> DEFINE index == reading.index
             buffer == reading.buffer
             seg == [s |-> Head(index).s, e |-> Last(index).e]
             begins == SegmentRows(ThePlan.slices, seg)
             out == PrintsSegment(begins, seg.s)
             n == Len(begins)
             first == seg.s
             d(i) == SubSeq(buffer, begins[i].addr - first + 1,
                            begins[i].addr - first + begins[i].length)
  <1>1. index \in Seq(Fetched) /\ buffer \in Seq(Cells) /\ ThePlan.slices \in Seq(Mapped)
    BY PlanTypes DEF TypeOK
  <1>2. /\ \A x \in 1 .. Len(buffer) : buffer[x][1] = (index[1].s + x - 1) % Word
        /\ Len(buffer) = index[Len(index)].e - index[1].s /\ index[1].s \in Nat
    BY <1>1, ChainIs
  <1>3. Len(index) \in DOMAIN index /\ 1 \in DOMAIN index
    BY <1>1, InSeq
  <1>4. seg.s = index[1].s /\ seg.e = index[Len(index)].e
    BY <1>1 DEF Last
  <1>5. seg.s \in Nat /\ seg.e \in Nat
    BY <1>1, <1>3, <1>4, IndexIs
  <1>6. /\ Len(buffer) = seg.e - seg.s
        /\ \A x \in 1 .. Len(buffer) : buffer[x][1] = (first + x - 1) % Word
    BY <1>2, <1>4
  <1> HIDE DEF seg, first
  <1>7. /\ begins \in Seq(Mapped)
        /\ \A r \in ToSet(begins) : seg.s <= r.addr /\ r.addr + r.length <= seg.e
    BY <1>1, <1>5, SegmentRowsIs
  <1> HIDE DEF begins
  <1>8. /\ DOMAIN begins = 1 .. n
        /\ \A i \in 1 .. n : begins[i] \in Mapped /\ begins[i] \in ToSet(begins)
    BY <1>7, InSeq
  <1>9. first = seg.s
    BY DEF first
  <1>10. out = [i \in 1 .. n |-> [addr |-> begins[i].addr, data |-> d(i)]]
    BY <1>8, <1>9 DEF PrintsSegment
  <1> HIDE DEF index, buffer, out, n
  <1>11. ASSUME NEW i \in 1 .. n PROVE InOrder([addr |-> begins[i].addr, data |-> d(i)])
    <2> DEFINE a == begins[i].addr
               ln == begins[i].length
               b == a - first
    <2>1. a \in Nat /\ ln \in Nat /\ first <= a /\ a + ln <= seg.e
      BY <1>7, <1>8, <1>9, MappedIs
    <2>3. d(i) = SubSeq(buffer, b + 1, b + ln)
      OBVIOUS
    <2> HIDE DEF a, ln, d
    <2>2. b \in Nat /\ b + ln <= Len(buffer) /\ a = first + b
      <3>1. first \in Nat /\ seg.e \in Nat /\ Len(buffer) = seg.e - first
        BY <1>5, <1>6, <1>9
      <3>2. QED
        BY <2>1, <3>1
    <2> HIDE DEF b
    <2>4. d(i) \in Seq(Cells) /\ Len(d(i)) = ln /\ \A k \in 1 .. ln : d(i)[k] = buffer[b + k]
      BY <1>1, <2>1, <2>2, <2>3, SubSeqIs
    <2>5. ASSUME NEW k \in 1 .. ln PROVE d(i)[k][1] = (a + k - 1) % Word
      <3> DEFINE x == b + k
      <3>1. Len(buffer) \in Nat
        BY <1>1, InSeq
      <3>2. x \in 1 .. Len(buffer) /\ first + x - 1 = a + k - 1
        BY <1>5, <1>9, <2>1, <2>2, <3>1
      <3>3. d(i)[k] = buffer[x]
        BY <2>4
      <3> HIDE DEF x
      <3>4. buffer[x][1] = (first + x - 1) % Word
        BY <1>6, <3>2
      <3>5. QED
        BY <3>2, <3>3, <3>4
    <2>6. RunsFrom(d(i), a, ln)
      BY <2>4, <2>5 DEF RunsFrom
    <2> DEFINE l == [addr |-> a, data |-> d(i)]
    <2>7. l.addr = a /\ l.data = d(i)
      OBVIOUS
    <2> HIDE DEF l
    <2>8. InOrder(l)
      BY <2>1, <2>6, <2>7, RunInOrder
    <2>9. QED
      BY <2>8 DEF l, a
  <1> HIDE DEF d
  <1>12. ASSUME NEW l \in ToSet(out) PROVE InOrder(l)
    <2>1. PICK i \in 1 .. n : l = [addr |-> begins[i].addr, data |-> d(i)]
      BY <1>10 DEF ToSet
    <2>2. QED
      BY <1>11, <2>1
  <1>13. QED
    BY <1>12 DEF out, begins, seg, index

\* All that was read, in one line.
LEMMA PrintsAllIs ==
  ASSUME TypeOK, BufferOK(reading.buffer, reading.index), Chained(reading.index)
  PROVE  \A l \in ToSet(<<[addr |-> Head(reading.index).s, data |-> reading.buffer]>>) :
             InOrder(l)
  <1> DEFINE index == reading.index
             buffer == reading.buffer
             line == [addr |-> Head(index).s, data |-> buffer]
  <1>1. index \in Seq(Fetched) /\ buffer \in Seq(Cells)
    BY DEF TypeOK
  <1>2. line.addr = Head(index).s /\ line.data = buffer /\ DOMAIN buffer = 1 .. Len(buffer)
    BY <1>1, InSeq
  <1>3. InOrder(line)
    <2>1. CASE index = <<>>
      <3>1. Len(buffer) = 0
        BY <2>1 DEF BufferOK
      <3>2. DOMAIN buffer = {}
        BY <1>2, <3>1
      <3> HIDE DEF line
      <3>3. QED
        BY <1>2, <3>2 DEF InOrder
    <2>2. CASE index # <<>>
      <3>1. \A x \in 1 .. Len(buffer) : buffer[x][1] = (index[1].s + x - 1) % Word
        BY <1>1, <2>2, ChainIs
      <3>2. Head(index) = index[1]
        BY <1>1, <2>2
      <3> HIDE DEF line
      <3>3. QED
        BY <1>2, <3>1, <3>2 DEF InOrder
    <2>3. QED
      BY <2>1, <2>2
  <1> HIDE DEF line
  <1>4. ToSet(<<line>>) = {line}
    BY DEF ToSet
  <1>5. \A l \in ToSet(<<line>>) : InOrder(l)
    BY <1>3, <1>4
  <1>6. QED
    BY <1>5 DEF line, index, buffer

\* Whatever a command prints is in order, unless it joined segments that lie apart.
LEMMA ReportIs ==
  ASSUME TypeOK, Reads, Report, ~Joined
  PROVE  \A l \in ToSet(output') : InOrder(l)
  <1> DEFINE index == reading.index
             seg == [s |-> Head(index).s, e |-> Last(index).e]
             begins == SegmentRows(ThePlan.slices, seg)
             whole == <<[addr |-> Head(index).s, data |-> reading.buffer]>>
  <1>1. /\ program \in Programs /\ program.name # "monitor" /\ program.pc = "fetch"
        /\ reading.todo = <<>>
        /\ index \in Seq(Fetched)
    BY DEF TypeOK, Programs, Report, InMonitor
  <1>2. BufferOK(reading.buffer, reading.index) /\ Planned
    BY <1>1 DEF Reads
  <1>3. Plans(RangesOf(index))
    BY <1>1, <1>2, RangesAll DEF Planned
  <1>4. output' = CASE program.name = "screen" -> PrintsLines(ThePlan.slices)
                    [] program.name = "segment" /\ begins # <<>> -> PrintsSegment(begins, seg.s)
                    [] OTHER -> whole
    BY DEF Report, PrintsLines, PrintsSegment, ThePlan, TheRows
  <1> HIDE DEF begins, seg, whole
  <1>5. CASE program.name = "screen"
    <2>1. RangesOf(index) = SliceRanges
      BY <1>3, <1>5 DEF Plans
    <2>2. output' = PrintsLines(ThePlan.slices)
      BY <1>4, <1>5
    <2>3. QED
      BY <1>2, <2>1, <2>2, PrintsLinesIs
  <1>6. CASE program.name = "segment"
    <2>1. PICK i \in DOMAIN TheSegments : RangesOf(index) = Cut(TheSegments[i], MaxRead)
      BY <1>3, <1>6 DEF Plans
    <2>2. CutsInto(TheSegments[i], MaxRead, RangesOf(index))
      BY <2>1, SegmentTypes
    <2>3. Chained(index) /\ index # <<>>
      BY <1>1, <2>2, CutChained
    <2>4. output' = IF begins # <<>> THEN PrintsSegment(begins, seg.s) ELSE whole
      BY <1>4, <1>6
    <2>5. \A l \in ToSet(whole) : InOrder(l)
      BY <1>2, <2>3, PrintsAllIs DEF whole
    <2>6. \A l \in ToSet(PrintsSegment(begins, seg.s)) : InOrder(l)
      BY <1>2, <2>3, PrintsSegmentIs DEF begins, seg
    <2>7. QED
      BY <2>4, <2>5, <2>6
  <1>7. CASE program.name = "raw"
    <2>1. Chained(index)
      BY <1>7 DEF Joined, Chained
    <2>2. output' = whole
      BY <1>4, <1>7
    <2>3. QED
      BY <1>2, <2>1, <2>2, PrintsAllIs DEF whole
  <1>8. program.name # "dlist"
    BY <1>3 DEF Plans
  <1>9. QED
    BY <1>1, <1>5, <1>6, <1>7, <1>8 DEF Programs, Names

\* Every step keeps that.
LEMMA PrintedNext ==
  ASSUME TypeOK, Reads, Printed, [Next]_vars
  PROVE  Printed'
  <1>0. program \in Programs
    BY DEF TypeOK, Programs
  <1>1. CASE program.pc = "stopped"
    <2>1. UNCHANGED <<program, reading, output>>
      BY <1>1 DEF Next, vars, EmulatorChanges, Start, ReadVector, ReadDisplayList, ReadDMACTL,
                  ReadHardwareDMACTL, CallFails, DecodeList, PlanScreen, PlanCommand, Fetch,
                  TakeRows,
                  Report, Render
    <2>2. QED
      BY <2>1 DEF Printed, Joined, InOrder
  <1>2. CASE Report
    <2>1. program'.pc = "stopped" /\ program'.name = program.name /\ UNCHANGED reading
      BY <1>0, <1>2 DEF Report, Goes, Programs
    <2>2. Joined' <=> Joined
      BY <2>1 DEF Joined
    <2>3. ~Joined => \A l \in ToSet(output') : InOrder(l)
      BY <1>2, ReportIs
    <2>4. QED
      BY <2>1, <2>2, <2>3 DEF Printed, InOrder
  <1>3. CASE program.pc # "stopped" /\ UNCHANGED output
    <2>1. output' = <<>>
      BY <1>3 DEF Printed
    <2>2. ToSet(<<>>) = {}
      BY DEF ToSet
    <2>3. QED
      BY <2>1, <2>2 DEF Printed
  <1>4. QED
    BY <1>1, <1>2, <1>3
       DEF Next, vars, EmulatorChanges, Start, ReadVector, ReadDisplayList, ReadDMACTL,
           ReadHardwareDMACTL, CallFails, DecodeList, PlanScreen, PlanCommand, Fetch, TakeRows,
           Render

(***************************************************************************)
(* What is on the screen.                                                  *)
(***************************************************************************)

\* A program stays what it is.
LEMMA SameName ==
  ASSUME TypeOK, [Next]_vars
  PROVE  program'.name = program.name
  <1>1. program \in Programs
    BY DEF TypeOK, Programs
  <1>2. CASE Start
    BY <1>2 DEF Start
  <1>3. CASE ~Start
    BY <1>1, <1>3 DEF Programs, Goes, Next, vars, EmulatorChanges, ReadVector,
      ReadDisplayList, ReadDMACTL,
          ReadHardwareDMACTL, CallFails, DecodeList, PlanScreen, PlanCommand, Fetch, TakeRows,
          Report, Render
  <1>4. QED
    BY <1>2, <1>3

\* What the planning changes in the screen window.
LEMMA MonitorPlans ==
  ASSUME TypeOK, WindowsOK, PlanScreen
  PROVE  /\ UNCHANGED <<dlist, listWindow>> /\ program'.pc \in {"fetch", "render"}
         /\ program.pc = "plan"
         /\ \/ program'.changed = program.changed /\ screenWindow' = screenWindow
            \/ /\ screenWindow' = [screenWindow EXCEPT !.rows = <<>>, !.snapshot = {},
                                                       !.planned = {}]
               /\ program'.changed = (program.changed \/ screenWindow.snapshot # {})
  <1>1. program \in Programs
    BY DEF TypeOK, Programs
  <1>2. QED
    BY <1>1 DEF PlanScreen, Programs, Goes

\* What the rows change in it.
LEMMA MonitorTakes ==
  ASSUME TypeOK, WindowsOK, TakeRows
  PROVE  LET rows == Cutting(ThePlan.slices)
         IN  /\ UNCHANGED <<dlist, listWindow>> /\ program'.pc = "render"
             /\ program.pc = "fetch"
             /\ screenWindow'.rows = rows /\ screenWindow'.snapshot = {rows}
             /\ screenWindow'.shown = screenWindow.shown
             /\ program'.changed = (program.changed \/ screenWindow.snapshot # {rows})
  <1> DEFINE rows == Cutting(ThePlan.slices)
  <1>1. program \in Programs
    BY DEF TypeOK, Programs
  <1>2. /\ UNCHANGED <<dlist, listWindow>> /\ program.pc = "fetch"
        /\ screenWindow' = [screenWindow EXCEPT !.rows = rows, !.snapshot = {rows},
                                                !.planned = ToSet(ThePlan.slices)]
        /\ program' = [program EXCEPT !.pc = "render",
                                      !.changed = @ \/ screenWindow.snapshot # {rows}]
    BY DEF TakeRows, ThePlan, TheRows
  <1> HIDE DEF rows
  <1>3. /\ program'.pc = "render"
        /\ program'.changed = (program.changed \/ screenWindow.snapshot # {rows})
    BY <1>1, <1>2 DEF Programs
  <1>4. /\ screenWindow'.rows = rows /\ screenWindow'.snapshot = {rows}
        /\ screenWindow'.shown = screenWindow.shown
    BY <1>2 DEF WindowsOK
  <1>5. QED
    BY <1>2, <1>3, <1>4 DEF rows

\* What a list that was read changes in the display list window.
LEMMA MonitorDecodes ==
  ASSUME TypeOK, WindowsOK, DecodeList, InMonitor
  PROVE  /\ dlist'.entries # <<>> => Head(dlist'.entries).addr = dlist'.start
         /\ dlist' \in [start : Words, entries : Seq(Entries), dmactl : Bytes]
         /\ program.pc = "decode" /\ program'.pc = "plan" /\ UNCHANGED screenWindow
         /\ listWindow'.snapshot = {Snapshot(dlist')} /\ listWindow'.shown = listWindow.shown
         /\ program'.changed = (program.changed \/ listWindow.snapshot # {Snapshot(dlist')})
  <1> DEFINE entries == Decode(reading.start, reading.dump)
             snap == {Snapshot(dlist')}
  <1>1. program \in Programs /\ reading \in Readings
    BY DEF TypeOK, Programs, Readings
  <1>2. dlist' = [start |-> reading.start, dmactl |-> reading.dmactl, entries |-> entries]
    BY DEF DecodeList
  <1>3. reading.start \in Words /\ reading.dump \in Seq(Bytes) /\ reading.dmactl \in Bytes
    BY <1>1 DEF Readings
  <1>4. entries \in Seq(Entries) /\ (entries # <<>> => Head(entries).addr = reading.start)
    BY <1>3, DecodeIs
  <1>5. /\ listWindow' = [listWindow EXCEPT !.snapshot = snap] /\ UNCHANGED screenWindow
        /\ program.pc = "decode"
        /\ program' = [program EXCEPT !.pc = "plan",
                                      !.changed = @ \/ listWindow.snapshot # snap]
    BY DEF DecodeList
  <1> HIDE DEF entries, snap
  <1>6. /\ program'.pc = "plan"
        /\ program'.changed = (program.changed \/ listWindow.snapshot # snap)
    BY <1>1, <1>5 DEF Programs
  <1>7. listWindow'.snapshot = snap /\ listWindow'.shown = listWindow.shown
    BY <1>5 DEF WindowsOK
  <1>8. QED
    BY <1>2, <1>3, <1>4, <1>5, <1>6, <1>7 DEF snap

\* Lists with the same snapshot have the same beginning, the same number of instructions and
\* the same code and operand at their end; and an instruction at the same address with the
\* same code and operand is the same.
LEMMA SameSnapshot ==
  ASSUME NEW d \in [start : Words, entries : Seq(Entries), dmactl : Bytes],
         NEW e \in [start : Words, entries : Seq(Entries), dmactl : Bytes],
         d.entries # <<>> => Head(d.entries).addr = d.start,
         e.entries # <<>> => Head(e.entries).addr = e.start,
         Snapshot(d) = Snapshot(e), NEW lines, Agrees(lines, d.entries)
  PROVE  Agrees(lines, e.entries)
  <1> DEFINE p == d.entries
             q == e.entries
             ends(s) == IF s = <<>> THEN <<>>
                        ELSE <<Head(s).cmd, Head(s).arg, Last(s).cmd, Last(s).arg>>
  <1>1. p \in Seq(Entries) /\ q \in Seq(Entries)
    OBVIOUS
  <1>2. d.start = e.start /\ Len(p) = Len(q) /\ ends(p) = ends(q)
    BY DEF Snapshot
  <1>3. ASSUME q # <<>>
        PROVE  /\ p # <<>> /\ Head(p) = Head(q) /\ Last(p).cmd = Last(q).cmd
               /\ Last(p).arg = Last(q).arg
    <2>1. p # <<>>
      BY <1>1, <1>2, <1>3, InSeq
    <2>2. Head(p) \in Entries /\ Head(q) \in Entries
      BY <1>1, <1>3, <2>1, HeadTailProperties
    <2>3. <<Head(p).cmd, Head(p).arg, Last(p).cmd, Last(p).arg>> =
              <<Head(q).cmd, Head(q).arg, Last(q).cmd, Last(q).arg>>
      BY <1>2, <1>3, <2>1
    <2>4. Head(p).addr = Head(q).addr
      BY <1>2, <1>3, <2>1
    <2> HIDE DEF p, q
    <2>5. /\ Head(p).cmd = Head(q).cmd /\ Head(p).arg = Head(q).arg /\ Last(p).cmd = Last(q).cmd
          /\ Last(p).arg = Last(q).arg
      BY <2>3
    <2>6. Head(p) = Head(q)
      BY <2>2, <2>4, <2>5 DEF Entries
    <2>7. QED
      BY <2>1, <2>5, <2>6
  <1>4. /\ Counts(lines)[Len(lines)] = Len(p)
        /\ p # <<>> => /\ Head(lines).entry = Head(p) /\ Last(lines).entry.cmd = Last(p).cmd
                       /\ Last(lines).entry.arg = Last(p).arg
    BY DEF Agrees
  <1> HIDE DEF p, q, ends
  <1>5. Agrees(lines, q)
    BY <1>2, <1>3, <1>4 DEF Agrees
  <1>6. QED
    BY <1>5 DEF q

\* Every step of the monitor notes a change, renders it, or leaves the screen as it is.
LEMMA MonitorNext ==
  ASSUME TypeOK, WindowsOK, InMonitor, Current, OnScreen, [Next]_vars
  PROVE  Current' /\ OnScreen'
  <1> DEFINE Late(p) == p.pc \in {"plan", "fetch", "render"} /\ p.changed
  <1>1. /\ program \in Programs /\ program.name = "monitor"
        /\ dlist \in [start : Words, entries : Seq(Entries), dmactl : Bytes]
    BY DEF TypeOK, Programs, InMonitor
  <1>2. ASSUME UNCHANGED <<dlist, listWindow, screenWindow>>, Late(program) => Late(program')
        PROVE  Current' /\ OnScreen'
    <2>1. Current'
      BY <1>2 DEF Current
    <2>2. OnScreen'
      BY <1>2 DEF OnScreen, Agrees
    <2>3. QED
      BY <2>1, <2>2
  <1>3. CASE DecodeList
    <2>1. /\ dlist'.entries # <<>> => Head(dlist'.entries).addr = dlist'.start
          /\ dlist' \in [start : Words, entries : Seq(Entries), dmactl : Bytes]
          /\ program.pc = "decode" /\ program'.pc = "plan" /\ UNCHANGED screenWindow
          /\ listWindow'.snapshot = {Snapshot(dlist')} /\ listWindow'.shown = listWindow.shown
          /\ program'.changed = (program.changed \/ listWindow.snapshot # {Snapshot(dlist')})
      BY <1>3, MonitorDecodes
    <2>2. Current'
      BY <2>1 DEF Current
    <2>3. CASE listWindow.snapshot # {Snapshot(dlist')}
      BY <2>1, <2>2, <2>3 DEF OnScreen
    <2>4. CASE listWindow.snapshot = {Snapshot(dlist')}
      <3>1. Snapshot(dlist) = Snapshot(dlist')
        BY <2>4 DEF Current
      <3>2. Agrees(listWindow.shown, dlist.entries) /\ screenWindow.shown = screenWindow.rows
        BY <2>1 DEF OnScreen
      <3>3. dlist.entries # <<>> => Head(dlist.entries).addr = dlist.start
        BY DEF Current
      <3>4. Agrees(listWindow.shown, dlist'.entries)
        BY <1>1, <2>1, <3>1, <3>2, <3>3, SameSnapshot
      <3>5. OnScreen'
        BY <2>1, <3>2, <3>4 DEF OnScreen, Agrees
      <3>6. QED
        BY <2>2, <3>5
    <2>5. QED
      BY <2>3, <2>4
  <1>4. CASE PlanScreen
    <2>1. /\ UNCHANGED <<dlist, listWindow>> /\ program'.pc \in {"fetch", "render"}
          /\ program.pc = "plan"
          /\ \/ program'.changed = program.changed /\ screenWindow' = screenWindow
             \/ /\ screenWindow' = [screenWindow EXCEPT !.rows = <<>>, !.snapshot = {},
                                                        !.planned = {}]
                /\ program'.changed = (program.changed \/ screenWindow.snapshot # {})
      BY <1>4, MonitorPlans
    <2>2. CASE program'.changed = program.changed /\ screenWindow' = screenWindow
      BY <1>2, <2>1, <2>2
    <2>3. CASE /\ screenWindow' =
                    [screenWindow EXCEPT !.rows = <<>>, !.snapshot = {}, !.planned = {}]
               /\ program'.changed = (program.changed \/ screenWindow.snapshot # {})
      <3>1. /\ screenWindow'.rows = <<>> /\ screenWindow'.snapshot = {}
            /\ screenWindow'.shown = screenWindow.shown
        BY <2>3 DEF WindowsOK
      <3>2. Current'
        BY <2>1, <3>1 DEF Current
      <3>3. CASE program.changed \/ screenWindow.snapshot # {}
        BY <2>1, <2>3, <3>2, <3>3 DEF OnScreen
      <3>4. CASE ~program.changed /\ screenWindow.snapshot = {}
        <4>1. screenWindow.rows = <<>>
          BY <3>4 DEF Current
        <4>2. Agrees(listWindow.shown, dlist.entries) /\ screenWindow.shown = screenWindow.rows
          BY <3>4 DEF OnScreen
        <4>3. OnScreen'
          BY <2>1, <3>1, <4>1, <4>2 DEF OnScreen, Agrees
        <4>4. QED
          BY <3>2, <4>3
      <3>5. QED
        BY <1>1, <3>3, <3>4 DEF Programs
    <2>4. QED
      BY <2>1, <2>2, <2>3
  <1>5. CASE TakeRows
    <2> DEFINE rows == Cutting(ThePlan.slices)
    <2>1. /\ UNCHANGED <<dlist, listWindow>> /\ program'.pc = "render" /\ program.pc = "fetch"
          /\ screenWindow'.rows = rows /\ screenWindow'.snapshot = {rows}
          /\ screenWindow'.shown = screenWindow.shown
          /\ program'.changed = (program.changed \/ screenWindow.snapshot # {rows})
      BY <1>5, MonitorTakes
    <2> HIDE DEF rows
    <2>2. Current'
      BY <2>1 DEF Current
    <2>3. CASE program.changed \/ screenWindow.snapshot # {rows}
      BY <2>1, <2>2, <2>3 DEF OnScreen
    <2>4. CASE ~program.changed /\ screenWindow.snapshot = {rows}
      <3>1. screenWindow.rows = rows
        BY <2>4 DEF Current
      <3>2. Agrees(listWindow.shown, dlist.entries) /\ screenWindow.shown = screenWindow.rows
        BY <2>4 DEF OnScreen
      <3>3. OnScreen'
        BY <2>1, <3>1, <3>2 DEF OnScreen, Agrees
      <3>4. QED
        BY <2>2, <3>3
    <2>5. QED
      BY <1>1, <2>3, <2>4 DEF Programs
  <1>6. CASE Render
    <2>1. UNCHANGED dlist /\ program.pc = "render"
      BY <1>6 DEF Render
    <2>2. CASE program.changed
      <3>1. /\ listWindow'.shown = Compacted(dlist.entries)
            /\ listWindow'.snapshot = listWindow.snapshot
            /\ screenWindow'.shown = screenWindow.rows /\ screenWindow'.rows = screenWindow.rows
            /\ screenWindow'.snapshot = screenWindow.snapshot
        BY <1>6, <2>2 DEF Render, WindowsOK
      <3>2. Agrees(Compacted(dlist.entries), dlist.entries)
        BY <1>1, CompactedIs
      <3>3. OnScreen'
        BY <2>1, <3>1, <3>2 DEF OnScreen, Agrees
      <3>4. Current'
        BY <2>1, <3>1 DEF Current
      <3>5. QED
        BY <3>3, <3>4
    <2>3. CASE ~program.changed
      <3>1. UNCHANGED <<dlist, listWindow, screenWindow>>
        BY <1>6, <2>3 DEF Render
      <3>2. QED
        BY <1>2, <2>3, <3>1
    <2>4. QED
      BY <1>1, <2>2, <2>3 DEF Programs
  <1>7. CASE CallFails
    <2>1. UNCHANGED <<dlist, listWindow, screenWindow>> /\ (Late(program) => Late(program'))
      BY <1>1, <1>7 DEF CallFails, Goes, Programs, InMonitor
    <2>2. QED
      BY <1>2, <2>1
  <1>8. CASE \/ EmulatorChanges \/ UNCHANGED vars \/ Fetch
    <2>1. UNCHANGED <<program, dlist, listWindow, screenWindow>>
      BY <1>8 DEF EmulatorChanges, vars, Fetch
    <2>2. QED
      BY <1>2, <2>1
  <1>9. CASE Start \/ ReadVector \/ ReadDisplayList \/ ReadDMACTL \/ ReadHardwareDMACTL
    <2>1. UNCHANGED <<dlist, listWindow, screenWindow>> /\ ~Late(program)
      BY <1>9 DEF Start, ReadVector, ReadDisplayList, ReadDMACTL, ReadHardwareDMACTL
    <2>2. QED
      BY <1>2, <2>1
  <1>10. ~PlanCommand /\ ~Report
    BY DEF PlanCommand, Report, InMonitor
  <1>11. QED
    BY <1>3, <1>4, <1>5, <1>6, <1>7, <1>8, <1>9, <1>10 DEF Next

(***************************************************************************)
(* The theorems.                                                           *)
(***************************************************************************)

\* The invariant holds initially.
LEMMA IInvInit ==
  ASSUME Init
  PROVE  IInv
  <1>1. TypeOK
    BY TypeInit
  <1>2. /\ listWindow = [snapshot |-> {}, shown |-> <<>>] /\ dlist = NoList /\ output = <<>>
        /\ screenWindow = [rows |-> <<>>, snapshot |-> {}, shown |-> <<>>, planned |-> {}]
        /\ program.pc = "start"
    BY DEF Init
  <1>3. <<>> \in Seq(Lines) /\ <<>> \in Seq(Shown) /\ Len(<<>>) = 0 /\ ToSet(<<>>) = {}
    BY EmptySeq DEF ToSet
  <1>4. WindowsOK
    BY <1>2, <1>3 DEF WindowsOK
  <1>5. Reads
    BY <1>2 DEF Reads
  <1>6. Windowed
    BY <1>2, <1>3 DEF Windowed
  <1>7. Printed
    BY <1>2, <1>3 DEF Printed
  <1>8. dlist.entries = <<>>
    BY <1>2 DEF NoList
  <1>9. Current
    BY <1>2, <1>8 DEF Current
  <1>10. Agrees(<<>>, <<>>)
    <2>1. Counts(<<>>)[0] = 0
      BY <1>3, CountsIs
    <2>2. QED
      BY <1>3, <2>1 DEF Agrees
  <1>11. OnScreen
    BY <1>2, <1>8, <1>10 DEF OnScreen
  <1>12. QED
    BY <1>1, <1>4, <1>5, <1>6, <1>7, <1>9, <1>11 DEF IInv

\* Every step keeps it.
LEMMA IInvNext ==
  ASSUME IInv, [Next]_vars
  PROVE  IInv'
  <1>1. /\ TypeOK /\ WindowsOK /\ Reads /\ Windowed /\ Printed
        /\ (InMonitor => Current /\ OnScreen)
    BY DEF IInv
  <1>2. TypeOK'
    BY <1>1, TypeNext
  <1>3. WindowsOK'
    BY <1>1, <1>2, WindowsNext
  <1>4. Reads'
    BY <1>1, <1>2, ReadsNext
  <1>5. Windowed'
    BY <1>1, WindowedNext
  <1>6. Printed'
    BY <1>1, PrintedNext
  <1>7. InMonitor' => Current' /\ OnScreen'
    <2>1. InMonitor' => InMonitor
      BY <1>1, SameName DEF InMonitor
    <2>2. QED
      BY <1>1, <2>1, MonitorNext
  <1>8. QED
    BY <1>2, <1>3, <1>4, <1>5, <1>6, <1>7 DEF IInv

\* The inductive invariant holds in every reachable state.
THEOREM Invariance == Spec => []IInv
  <1>1. Init => IInv
    BY IInvInit
  <1>2. IInv /\ [Next]_vars => IInv'
    BY IInvNext
  <1>3. QED
    BY <1>1, <1>2, PTL DEF Spec

\* Every variable has its type, for every display list the emulator may give.
THEOREM TypeCorrect == Spec => [](TypeOK /\ WindowsOK)
  <1>1. IInv => TypeOK /\ WindowsOK
    BY DEF IInv
  <1>2. QED
    BY <1>1, Invariance, PTL

\* The lines of the screen window, and of what a command prints, hold the bytes of their
\* addresses in order, however the ranges were sorted, merged and cut; and the window has all
\* lines but those that wrap (ScreenBufferInspector.Update, readRow, cmdScreen, cmdDumpDList).
THEOREM Reassembly == Spec => []LinesReassembled
  <1>1. ASSUME IInv PROVE LinesReassembled
    <2>1. Windowed /\ Printed
      BY <1>1 DEF IInv
    <2> DEFINE lines == ToSet(screenWindow.rows) \cup (IF Joined THEN {} ELSE ToSet(output))
    <2>2. \A l \in lines : InOrder(l)
      BY <2>1 DEF Windowed, Printed
    <2> HIDE DEF lines
    <2>3. \A l \in lines : \A i \in DOMAIN l.data : l.data[i][1] = (l.addr + i - 1) % Word
      BY <2>2 DEF InOrder
    <2>4. QED
      BY <2>1, <2>3 DEF LinesReassembled, Windowed, Joined, lines
  <1>2. QED
    BY <1>1, Invariance, PTL

\* The addresses of lines.
LEMMA AddressesIs ==
  ASSUME NEW S
  PROVE  \A x : x \in AddressesOf(S) <=>
             \E r \in S : \E i \in 0 .. r.length - 1 : x = (r.addr + i) % Word
  BY DEF AddressesOf

\* The addresses of ranges.
LEMMA RangesAre ==
  ASSUME NEW S
  PROVE  \A x : x \in UNION {RangeOf(r) : r \in S} <=> \E r \in S : x \in r.s .. r.e - 1
  BY DEF RangeOf

\* The plan holds just the addresses of its lines.
LEMMA FetchesTheLines ==
  ASSUME TypeOK
  PROVE  UNION {RangeOf(r) : r \in ToSet(ThePlan.fetch)} = AddressesOf(ToSet(ThePlan.slices))
  <1> DEFINE F == ToSet(ThePlan.fetch)
             S == ToSet(ThePlan.slices)
  <1>1. /\ ThePlan.fetch \in Seq(Ranges) /\ ThePlan.slices \in Seq(Mapped)
        /\ \A a \in Int : Holds(F, a) <=> Shows(S, a, AllModes)
    BY PlanTypes
  <1>2. F \subseteq Ranges /\ S \subseteq Mapped
    BY <1>1, InSeq
  <1> HIDE DEF F, S
  <1>3. ASSUME NEW x PROVE x \in UNION {RangeOf(r) : r \in F} <=> x \in Int /\ Holds(F, x)
    <2>1. \A r \in F : r.s \in Nat /\ r.e \in Nat
      BY <1>2 DEF Ranges
    <2>2. \A r \in F : x \in r.s .. r.e - 1 <=> x \in Int /\ r.s <= x /\ x < r.e
      BY <2>1
    <2>3. x \in UNION {RangeOf(r) : r \in F} <=> \E r \in F : x \in r.s .. r.e - 1
      BY RangesAre
    <2>4. QED
      BY <2>2, <2>3 DEF Holds
  <1>4. ASSUME NEW x PROVE x \in AddressesOf(S) <=> x \in Int /\ Shows(S, x, AllModes)
    <2>1. \A r \in S : r.addr \in Nat /\ r.mode \in AllModes
      BY <1>2, MappedIs
    <2>2. \A r \in S : \A i \in 0 .. r.length - 1 : (r.addr + i) % Word \in Int
      <3>1. TAKE r \in S
      <3>2. TAKE i \in 0 .. r.length - 1
      <3>3. r.addr + i \in Int
        BY <2>1
      <3>4. (r.addr + i) % Word \in Words
        BY <3>3, ModWord
      <3>5. QED
        BY <3>4, WordIs DEF Words
    <2>3. x \in AddressesOf(S) <=>
              \E r \in S : \E i \in 0 .. r.length - 1 : x = (r.addr + i) % Word
      BY AddressesIs
    <2>4. QED
      BY <2>1, <2>2, <2>3 DEF Shows
  <1>5. \A x : x \in UNION {RangeOf(r) : r \in F} <=> x \in AddressesOf(S)
    BY <1>1, <1>3, <1>4
  <1>6. UNION {RangeOf(r) : r \in F} = AddressesOf(S)
    BY <1>5
  <1>7. QED
    BY <1>6 DEF F, S

\* The window fetches every byte its lines need, no other and none twice, in calls of at most
\* MaxRead bytes that stay below the end of memory (displaylist.Plan).
THEOREM FetchesTheScreen == Spec => []FetchesWhatIsShown
  <1>1. ASSUME IInv PROVE FetchesWhatIsShown
    <2>0. TypeOK /\ Reads
      BY <1>1 DEF IInv
    <2> SUFFICES ASSUME program.name = "monitor", program.pc = "fetch"
                 PROVE  LET ranges == RangesOf(reading.index) \o reading.todo
                        IN  /\ UNION {RangeOf(r) : r \in ToSet(ranges)} =
                                   AddressesOf(ToSet(ThePlan.slices))
                            /\ \A i \in DOMAIN ranges :
                                 /\ ranges[i].s < ranges[i].e
                                 /\ ranges[i].e <= Min({Word, ranges[i].s + MaxRead})
                                 /\ i > 1 => ranges[i - 1].e <= ranges[i].s
      BY DEF FetchesWhatIsShown, InMonitor, RangesOf, ThePlan, TheRows
    <2> DEFINE f == ThePlan.fetch
    <2>1. RangesOf(reading.index) \o reading.todo = f
      BY <2>0 DEF Reads, Planned, Plans
    <2>2. UNION {RangeOf(r) : r \in ToSet(f)} = AddressesOf(ToSet(ThePlan.slices))
      BY <2>0, FetchesTheLines
    <2>3. /\ f \in Seq(Ranges) /\ Ordered(f)
          /\ \A r \in ToSet(f) : r.s < r.e /\ r.e <= Word /\ r.e <= r.s + MaxRead
      BY <2>0, PlanTypes
    <2> HIDE DEF f
    <2>4. /\ DOMAIN f = 1 .. Len(f) /\ Len(f) \in Nat
          /\ \A i \in 1 .. Len(f) : f[i] \in Ranges /\ f[i] \in ToSet(f)
      BY <2>3, InSeq
    <2>5. ASSUME NEW i \in DOMAIN f
          PROVE  /\ f[i].s < f[i].e /\ f[i].e <= Min({Word, f[i].s + MaxRead})
                 /\ i > 1 => f[i - 1].e <= f[i].s
      <3> DEFINE far == f[i].s + MaxRead
                 e == f[i].e
      <3>1. e \in Nat /\ far \in Nat /\ Word \in Nat /\ f[i].s < e /\ e <= Word /\ e <= far
        BY <2>3, <2>4, WordIs, BoundsAssumption DEF Ranges
      <3> HIDE DEF far, e
      <3>2. e <= Min({Word, far})
        <4>1. Min({Word, far}) = IF Word <= far THEN Word ELSE far
          BY <3>1, MinOf
        <4>2. QED
          BY <3>1, <4>1
      <3>3. i > 1 => f[i - 1].e <= f[i].s
        <4>1. i > 1 => i - 1 \in 1 .. Len(f) /\ i - 1 < i
          BY <2>4
        <4>2. QED
          BY <2>3, <2>4, <4>1 DEF Ordered
      <3>4. QED
        BY <3>1, <3>2, <3>3 DEF far, e
    <2>6. QED
      BY <2>1, <2>2, <2>5
  <1>2. QED
    BY <1>1, Invariance, PTL

\* The segments of one mode hold just the addresses of its lines.
LEMMA SegmentsOfMode ==
  ASSUME TypeOK, NEW mode \in 2 .. 15
  PROVE  UNION {RangeOf(s) : s \in {t \in ToSet(TheSegments) : t.mode = mode}} =
         AddressesOf({r \in ToSet(TheRows) : r.mode = mode})
  <1> DEFINE F == {t \in ToSet(TheSegments) : t.mode = mode}
             S == {r \in ToSet(TheRows) : r.mode = mode}
  <1>1. dlist.entries \in Seq(Entries) /\ dlist.dmactl \in Bytes
    BY DEF TypeOK
  <1>2. /\ TheSegments \in Seq(Segs)
        /\ \A a \in Int : Covers(ToSet(TheSegments), a, {mode}) <=>
               Shows(ToSet(TheRows), a, {mode})
    BY <1>1, ScreenSegmentsIs DEF TheSegments, TheRows
  <1>3. F \subseteq Segs
    BY <1>2, InSeq
  <1>4. S \subseteq Mapped
    <2>1. ToSet(TheRows) \subseteq Rows
      BY PlanTypes, InSeq
    <2>2. Blank.mode # mode
      BY DEF Blank
    <2>3. QED
      BY <2>1, <2>2 DEF Rows
  <1>5. \A a : Covers(ToSet(TheSegments), a, {mode}) <=> \E r \in F : r.s <= a /\ a < r.e
    BY DEF Covers
  <1>6. \A a : Shows(ToSet(TheRows), a, {mode}) <=>
            \E r \in S : \E i \in 0 .. r.length - 1 : a = (r.addr + i) % Word
    BY DEF Shows
  <1> HIDE DEF F, S
  <1>7. ASSUME NEW x
        PROVE  x \in UNION {RangeOf(r) : r \in F} <=>
                   x \in Int /\ \E r \in F : r.s <= x /\ x < r.e
    <2>1. \A r \in F : r.s \in Nat /\ r.e \in Nat
      BY <1>3, SegIs
    <2>2. \A r \in F : x \in r.s .. r.e - 1 <=> x \in Int /\ r.s <= x /\ x < r.e
      BY <2>1
    <2>3. x \in UNION {RangeOf(r) : r \in F} <=> \E r \in F : x \in r.s .. r.e - 1
      BY RangesAre
    <2>4. QED
      BY <2>2, <2>3
  <1>8. ASSUME NEW x, x \in AddressesOf(S) PROVE x \in Int
    <2>1. PICK r \in S : \E i \in 0 .. r.length - 1 : x = (r.addr + i) % Word
      BY <1>8, AddressesIs
    <2>2. r.addr \in Nat
      BY <1>4, MappedIs
    <2>3. PICK i \in 0 .. r.length - 1 : x = (r.addr + i) % Word
      BY <2>1
    <2>4. r.addr + i \in Int
      BY <2>2
    <2>5. (r.addr + i) % Word \in Words
      BY <2>4, ModWord
    <2>6. QED
      BY <2>3, <2>5, WordIs DEF Words
  <1>9. \A x : x \in AddressesOf(S) <=> x \in Int /\ Shows(ToSet(TheRows), x, {mode})
    BY <1>6, <1>8, AddressesIs
  <1>10. \A x : x \in UNION {RangeOf(r) : r \in F} <=> x \in AddressesOf(S)
    BY <1>2, <1>5, <1>7, <1>9
  <1>11. UNION {RangeOf(r) : r \in F} = AddressesOf(S)
    BY <1>10
  <1>12. QED
    BY <1>11 DEF F, S

\* The segments that the commands list are, mode by mode, the memory of the lines, those that
\* wrap included (displaylist.ScreenSegments).
THEOREM SegmentsCover == Spec => []SegmentsAreTheScreen
  <1>1. ASSUME IInv PROVE SegmentsAreTheScreen
    <2>1. TypeOK
      BY <1>1 DEF IInv
    <2>2. \A mode \in 2 .. 15 :
             UNION {RangeOf(s) : s \in {t \in ToSet(TheSegments) : t.mode = mode}} =
             AddressesOf({r \in ToSet(TheRows) : r.mode = mode})
      BY <2>1, SegmentsOfMode
    <2>3. QED
      BY <2>2 DEF SegmentsAreTheScreen, TheSegments, TheRows
  <1>2. QED
    BY <1>1, Invariance, PTL

\* After each iteration the screen window shows its rows, and the list on the screen is the
\* last one read, or differs from it only inside, between its ends (DisplayListViewer.Update,
\* App.renderComponents).
THEOREM StaleInside == Spec => []StaleOnlyInside
  <1>1. ASSUME IInv PROVE StaleOnlyInside
    <2>1. InMonitor => Current /\ OnScreen
      BY <1>1 DEF IInv
    <2>2. QED
      BY <2>1 DEF StaleOnlyInside, OnScreen, Agrees
  <1>2. QED
    BY <1>1, Invariance, PTL
==============================================================================
