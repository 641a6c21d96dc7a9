--------------------------- MODULE WindowsProofs ---------------------------
(***************************************************************************)
(* What holds of the focus, of the input line and of the watchers and the  *)
(* history window for every size of the terminal, every search line, every *)
(* memory and every history: TLAPS proofs of the invariants of Windows.    *)
(***************************************************************************)
EXTENDS Windows, SequenceTheorems, WellFoundedInduction, TLAPS

(***************************************************************************)
(* The inductive invariant.                                                *)
(***************************************************************************)

\* The grids of both windows: rows can be selected, not edited.
GridType(S) ==
    [rows : Seq(S), ih : Int, offset : Int, selected : Int, highlighted : {NoRow},
     selectable : {TRUE}, editable : {0}, editing : {FALSE}, editRow : {0},
     editValue : {<<>>}, view : [y : Int, h : Int], virtual : {NoScroll}]

\* The selected row is one of the grid's.
InRange(g) == g.selected = NoRow \/ g.selected \in 0 .. Len(g.rows) - 1

\* The watchers; a line that stands for no address leaves NoAddr.
WatchAddrs == {Address[t] : t \in SeqOf(Chars, SearchWidth)} \cup {NoAddr}
WatchRow == [addr : WatchAddrs, value : Values \cup {0}]

WatchSnapshots ==
    {<<>>} \cup (Seq(WatchRow) \X WatchAddrs \X Int \X BOOLEAN \X SeqOf(Chars, SearchWidth))
WatchType ==
    [rows : Seq(WatchRow), pending : WatchAddrs, active : BOOLEAN,
     text : SeqOf(Chars, SearchWidth), snapshot : WatchSnapshots, grid : GridType(WatchRow)]

\* The history; the program counter may be one that Init takes.
PCVals == PCs \cup {Min(PCs)}
HistSnapshots == {<<>>} \cup (PCVals \X Seq(PCVals) \X (PCVals \cup {NoAddr}))
HistType ==
    [entries : Seq(PCVals), next : PCVals \cup {NoAddr}, follow : BOOLEAN,
     snapshot : HistSnapshots, grid : GridType(PCVals)]

\* The watchers window is typed and agrees with the window that has all keys.
WatchOK(w, owner) ==
    /\ w \in WatchType /\ InRange(w.grid)
    /\ w.active <=> owner = "watch"
    /\ w.pending = IF w.active THEN Address[w.text] ELSE NoAddr

\* The history window's snapshot is of what the window holds.
HistOK(h) ==
    /\ h \in HistType
    /\ h.snapshot = <<>> \/ h.snapshot = <<h.snapshot[1], h.entries, h.next>>

\* What holds of the focus, and of the window that has all keys.
FocusInv ==
    /\ visible \subseteq AllWindows
    /\ focused \in visible \cup {None} /\ focusIndex = IndexOf[focused]

OwnerInv == inputOwner # None => focused = inputOwner \/ (inputOwner = "bp" /\ focused = None)

\* Where the loop stands, and what the windows were told of the program counter.
LoopInv ==
    /\ lines \in Sizes /\ loop \in {"input", "update", "render"}
    /\ loop = "update" => ~frozen
    /\ loop = "render" => frozen
    /\ cpuPC \in PCVals /\ cpuShown \in {NoAddr, cpuPC}

\* Only then do the windows have to show what they hold: not after a key that no
\* iteration has followed, and not while the interface is frozen.
Settled == loop = "input" /\ ~frozen

\* Besides the addresses the values are shown, and the snapshot is of the rows, when no
\* read was missed: an unchanged snapshot then means that there is nothing to render.
WatchShown ==
    /\ SelectionInView(watch.grid)
    /\ Addrs(watch.grid.rows) = Addrs(watch.rows)
    /\ ~missed => /\ watch.grid.rows = watch.rows
                  /\ watch.snapshot = <<>> \/ watch.snapshot[1] = watch.rows

HistShown ==
    /\ SelectionInView(hist.grid)
    /\ hist.grid.rows = HistoryRows(hist, cpuPC)
    /\ hist.follow => hist.grid.selected = LastRow(hist.grid)

ScreenInv == FocusInv /\ OwnerInv /\ WatchOK(watch, inputOwner) /\ HistOK(hist)
IInv == LoopInv /\ ScreenInv /\ (Settled => WatchShown /\ HistShown)

(***************************************************************************)
(* Grids.                                                                  *)
(***************************************************************************)

\* The rows of a grid are counted by a natural number.
LEMMA RowsCounted ==
  ASSUME NEW S, NEW g \in GridType(S)
  PROVE  /\ Len(g.rows) \in Nat /\ g.rows \in Seq(S)
         /\ g.rows # <<>> => Len(g.rows) > 0
         /\ g.rows = <<>> => Len(g.rows) = 0
  <1>1. g.rows \in Seq(S)
    BY DEF GridType
  <1>2. QED
    BY <1>1, EmptySeq, LenProperties

\* The lines of a grid that can be seen.
LEMMA ViewHeight ==
  ASSUME NEW S, NEW g \in GridType(S)
  PROVE  ViewH(g) \in Int /\ ViewH(g) >= 0
  <1>1. g.ih \in Int /\ g.view.y \in Int /\ g.view.h \in Int
    BY DEF GridType
  <1>2. CASE g.ih <= 0 \/ g.view = NoView
    BY <1>1, <1>2 DEF ViewH, Metrics, AtLeast
  <1>3. CASE ~(g.ih <= 0 \/ g.view = NoView)
    <2>1. Within(g.view.y, 0, g.ih) \in Int
      BY <1>1 DEF Within, AtLeast
    <2>2. /\ Within(g.view.h, 0, g.ih - Within(g.view.y, 0, g.ih)) \in Int
          /\ Within(g.view.h, 0, g.ih - Within(g.view.y, 0, g.ih)) >= 0
      BY <1>1, <2>1 DEF Within, AtLeast
    <2>3. QED
      BY <1>3, <2>2 DEF ViewH, Metrics
  <1>4. QED
    BY <1>2, <1>3

\* What EnsureRowVisible, clampState and SetSelectedRow do to a grid.
Moved(g, o, s) == [g EXCEPT !.offset = o, !.selected = s]

\* Moving the offset and the selection keeps the rows and the view.
LEMMA MovedKeeps ==
  ASSUME NEW S, NEW g \in GridType(S), NEW o \in Int, NEW s \in Int
  PROVE  /\ Moved(g, o, s) \in GridType(S)
         /\ Moved(g, o, s).rows = g.rows
         /\ Moved(g, o, s).offset = o /\ Moved(g, o, s).selected = s
         /\ ViewH(Moved(g, o, s)) = ViewH(g)
         /\ \A p, t \in Int : Moved(Moved(g, o, s), p, t) = Moved(g, p, t)
         /\ g = Moved(g, g.offset, g.selected)
  <1>1. /\ Moved(g, o, s) \in GridType(S)
        /\ Moved(g, o, s).rows = g.rows
        /\ Moved(g, o, s).offset = o /\ Moved(g, o, s).selected = s
        /\ Moved(g, o, s).ih = g.ih /\ Moved(g, o, s).view = g.view
    BY DEF GridType, Moved
  <1>2. ViewH(Moved(g, o, s)) = ViewH(g)
    BY <1>1 DEF ViewH, Metrics
  <1>3. \A p, t \in Int : Moved(Moved(g, o, s), p, t) = Moved(g, p, t)
    BY DEF GridType, Moved
  <1>4. g = Moved(g, g.offset, g.selected)
    BY DEF GridType, Moved
  <1>5. QED
    BY <1>1, <1>2, <1>3, <1>4

\* ui.go clamps a row to the rows there are.
LEMMA InRowsRange ==
  ASSUME NEW S, NEW g \in GridType(S), NEW row \in Int
  PROVE  /\ InRows(g, row) \in Int
         /\ g.rows # <<>> => InRows(g, row) \in 0 .. Len(g.rows) - 1
         /\ row \in 0 .. Len(g.rows) - 1 => InRows(g, row) = row
  BY RowsCounted DEF InRows, LastRow, Within, AtLeast

\* EnsureRowVisible moves the offset only, and until the row is in view.
LEMMA EnsureRowMoves ==
  ASSUME NEW S, NEW g \in GridType(S), NEW row \in Int
  PROVE  \E o \in Int :
            /\ EnsureRowVisible(g, row) = Moved(g, o, g.selected)
            /\ g.rows # <<>> /\ ViewH(g) > 0 => InRows(g, row) \in o .. o + ViewH(g) - 1
  <1> DEFINE r == InRows(g, row)
             v == ViewH(g)
  <1>1. r \in Int /\ v \in Int /\ v >= 0
    BY InRowsRange, ViewHeight
  <1>2. g.offset \in Int /\ g.selected \in Int
    BY DEF GridType
  <1>3. g = Moved(g, g.offset, g.selected)
    BY <1>2, MovedKeeps
  <1>4. ASSUME NEW o \in Int PROVE [g EXCEPT !.offset = o] = Moved(g, o, g.selected)
    BY DEF GridType, Moved
  <1> HIDE DEF r, v
  <1>5. CASE v <= 0 \/ g.rows = <<>>
    BY <1>1, <1>2, <1>3, <1>5 DEF EnsureRowVisible, r, v
  <1>6. CASE ~(v <= 0 \/ g.rows = <<>>) /\ r < g.offset
    <2>1. EnsureRowVisible(g, row) = Moved(g, r, g.selected)
      BY <1>6, <1>1, <1>4 DEF EnsureRowVisible, r, v
    <2>2. r \in r .. r + v - 1
      BY <1>1, <1>6
    <2>3. QED
      BY <1>1, <2>1, <2>2 DEF r, v
  <1>7. CASE ~(v <= 0 \/ g.rows = <<>>) /\ ~(r < g.offset) /\ r > g.offset + v - 1
    <2>0. r - v + 1 \in Int
      BY <1>1
    <2>1. EnsureRowVisible(g, row) = Moved(g, r - v + 1, g.selected)
      BY <1>7, <2>0, <1>4 DEF EnsureRowVisible, r, v
    <2>2. r \in (r - v + 1) .. (r - v + 1) + v - 1
      BY <1>1, <1>7
    <2>3. QED
      BY <2>0, <2>1, <2>2 DEF r, v
  <1>8. CASE ~(v <= 0 \/ g.rows = <<>>) /\ ~(r < g.offset) /\ ~(r > g.offset + v - 1)
    <2>1. EnsureRowVisible(g, row) = Moved(g, g.offset, g.selected)
      BY <1>8, <1>3 DEF EnsureRowVisible, r, v
    <2>2. r \in g.offset .. g.offset + v - 1
      BY <1>1, <1>2, <1>8
    <2>3. QED
      BY <1>2, <2>1, <2>2 DEF r, v
  <1>9. QED
    BY <1>5, <1>6, <1>7, <1>8

\* clampState leaves a selection that is a row and in view.
LEMMA ClampMoves ==
  ASSUME NEW S, NEW g \in GridType(S)
  PROVE  \E o, s \in Int :
            /\ ClampState(g) = Moved(g, o, s)
            /\ s = NoRow \/ s \in 0 .. Len(g.rows) - 1
            /\ s # NoRow /\ ViewH(g) > 0 => s \in o .. o + ViewH(g) - 1
            /\ InRange(g) => s = g.selected
  <1> DEFINE s == IF g.rows = <<>> \/ g.selected = NoRow THEN NoRow ELSE InRows(g, g.selected)
             o == Within(g.offset, 0, MaxOffset(g))
             h == Moved(g, o, s)
  <1>1. g.offset \in Int /\ g.selected \in Int /\ g.highlighted = NoRow
    BY DEF GridType
  <1>2. o \in Int
    <2>1. MaxOffset(g) \in Int
      BY RowsCounted, ViewHeight DEF MaxOffset, AtLeast
    <2>2. QED
      BY <1>1, <2>1 DEF Within, AtLeast
  <1>3. /\ s \in Int
        /\ s = NoRow \/ s \in 0 .. Len(g.rows) - 1
        /\ InRange(g) => s = g.selected
        /\ s # NoRow => g.rows # <<>>
    <2>1. CASE g.rows = <<>> \/ g.selected = NoRow
      BY <1>1, <2>1, RowsCounted DEF InRange, NoRow
    <2>2. CASE ~(g.rows = <<>> \/ g.selected = NoRow)
      BY <1>1, <2>2, InRowsRange DEF InRange
    <2>3. QED
      BY <2>1, <2>2
  <1>4. h = [g EXCEPT !.selected = s, !.highlighted = NoRow, !.offset = o]
    BY <1>1 DEF GridType, Moved
  <1>5. h \in GridType(S) /\ h.rows = g.rows /\ h.selected = s /\ ViewH(h) = ViewH(g)
        /\ \A p, t \in Int : Moved(h, p, t) = Moved(g, p, t)
    BY <1>2, <1>3, MovedKeeps
  <1>6. ClampState(g) = IF h.selected = NoRow THEN h ELSE EnsureRowVisible(h, h.selected)
    <2> HIDE DEF h
    <2> DEFINE c == [g EXCEPT !.selected = IF g.rows = <<>> \/ @ = NoRow
                                           THEN NoRow ELSE InRows(g, @),
                              !.highlighted = IF g.rows = <<>> \/ @ = NoRow
                                              THEN NoRow ELSE InRows(g, @),
                              !.offset = Within(@, 0, MaxOffset(g))]
    <2>1. ClampState(g) = IF c.selected = NoRow THEN c ELSE EnsureRowVisible(c, c.selected)
      BY DEF ClampState
    <2>2. c = h
      BY <1>1, <1>4
    <2> HIDE DEF c
    <2>3. QED
      BY <2>1, <2>2
  <1> HIDE DEF h, s, o
  <1>7. CASE s = NoRow
    <2>1. ClampState(g) = Moved(g, o, s)
      BY <1>6, <1>5, <1>7 DEF h
    <2>2. QED
      BY <2>1, <1>2, <1>3, <1>7
  <1>8. CASE s # NoRow
    <2>1. PICK p \in Int :
             /\ EnsureRowVisible(h, s) = Moved(h, p, h.selected)
             /\ h.rows # <<>> /\ ViewH(h) > 0 => InRows(h, s) \in p .. p + ViewH(h) - 1
      BY <1>3, <1>5, EnsureRowMoves
    <2>2. ClampState(g) = Moved(g, p, s)
      BY <2>1, <1>3, <1>5, <1>6, <1>8
    <2>3. InRows(h, s) = s
      BY <1>3, <1>5, <1>8, InRowsRange
    <2>4. QED
      BY <2>1, <2>2, <2>3, <1>3, <1>5, <1>8
  <1>9. QED
    BY <1>7, <1>8

\* SetSelectedRow selects the row, clamped, or none.
LEMMA SelectMoves ==
  ASSUME NEW S, NEW g \in GridType(S), NEW row \in Int
  PROVE  \E o, s \in Int :
            /\ SetSelectedRow(g, row) = Moved(g, o, s)
            /\ s = IF row = NoRow \/ g.rows = <<>> THEN NoRow ELSE InRows(g, row)
  <1> DEFINE r == InRows(g, row)
  <1>1. g.offset \in Int /\ g.selected \in Int
    BY DEF GridType
  <1>2. r \in Int
    BY InRowsRange
  <1>3. g = Moved(g, g.offset, g.selected)
    BY <1>1, MovedKeeps
  <1> HIDE DEF r
  <1>4. CASE (row = NoRow \/ g.rows = <<>>) /\ g.selected = NoRow
    BY <1>1, <1>3, <1>4 DEF SetSelectedRow, NoRow
  <1>5. CASE (row = NoRow \/ g.rows = <<>>) /\ g.selected # NoRow
    <2>1. SetSelectedRow(g, row) = Moved(g, g.offset, NoRow)
      BY <1>5 DEF SetSelectedRow, GridType, Moved
    <2>2. QED
      BY <1>1, <1>5, <2>1 DEF NoRow
  <1>6. CASE ~(row = NoRow \/ g.rows = <<>>) /\ g.selected = r
    BY <1>1, <1>3, <1>6 DEF SetSelectedRow, r
  <1>7. CASE ~(row = NoRow \/ g.rows = <<>>) /\ g.selected # r
    <2> DEFINE h == Moved(g, g.offset, r)
    <2>1. h = [g EXCEPT !.selected = r, !.editing = FALSE]
      BY <1>1 DEF Moved, GridType
    <2>2. SetSelectedRow(g, row) = EnsureRowVisible(h, row)
      BY <1>7, <2>1 DEF SetSelectedRow, r
    <2>3. /\ h \in GridType(S) /\ h.selected = r
          /\ \A p, t \in Int : Moved(h, p, t) = Moved(g, p, t)
      BY <1>1, <1>2, MovedKeeps
    <2> HIDE DEF h
    <2>4. PICK o \in Int : EnsureRowVisible(h, row) = Moved(h, o, h.selected)
      BY <2>3, EnsureRowMoves
    <2>5. SetSelectedRow(g, row) = Moved(g, o, r)
      BY <2>2, <2>3, <2>4, <1>2
    <2>6. QED
      BY <2>5, <1>2, <1>7 DEF r
  <1>8. QED
    BY <1>4, <1>5, <1>6, <1>7

\* SetSelectedRow leaves a grid whose selection is one of its rows.
LEMMA SelectKeeps ==
  ASSUME NEW S, NEW g \in GridType(S), NEW row \in Int
  PROVE  /\ SetSelectedRow(g, row) \in GridType(S)
         /\ SetSelectedRow(g, row).rows = g.rows
         /\ InRange(SetSelectedRow(g, row))
  <1>1. PICK o, s \in Int :
           /\ SetSelectedRow(g, row) = Moved(g, o, s)
           /\ s = IF row = NoRow \/ g.rows = <<>> THEN NoRow ELSE InRows(g, row)
    BY SelectMoves
  <1>2. s = NoRow \/ s \in 0 .. Len(g.rows) - 1
    BY <1>1, InRowsRange
  <1>3. QED
    BY <1>1, <1>2, MovedKeeps DEF InRange

\* No key a grid takes changes the rows, or moves the selection off them.
LEMMA KeyKeeps ==
  ASSUME NEW S, NEW g \in GridType(S), NEW key
  PROVE  /\ GridInput(g, key, Chars) \in GridType(S)
         /\ GridInput(g, key, Chars).rows = g.rows
         /\ InRange(g) => InRange(GridInput(g, key, Chars))
  <1>1. g.editable = 0 /\ g.selectable = TRUE /\ g.selected \in Int
    BY DEF GridType
  <1>2. GridInput(g, key, Chars) = IF key \in NavigationKeys THEN Navigate(g, key) ELSE g
    BY <1>1 DEF GridInput, EditTakes
  <1>3. LastRow(g) \in Int /\ NoRow \in Int /\ 0 \in Int
    BY RowsCounted DEF LastRow, NoRow
  <1>4. ASSUME NEW by \in Int
        PROVE  \E row \in Int : MoveSelected(g, by) = SetSelectedRow(g, row)
    <2>1. InRows(g, g.selected + by) \in Int
      BY <1>1, InRowsRange
    <2>2. QED
      BY <1>3, <2>1 DEF MoveSelected
  <1>5. Page(g) \in Int
    BY ViewHeight DEF Page, AtLeast
  <1>6. ASSUME key \in NavigationKeys
        PROVE  \E row \in Int : Navigate(g, key) = SetSelectedRow(g, row)
    <2>1. CASE key = "Home"
      BY <1>1, <1>3, <2>1 DEF Navigate
    <2>2. CASE key = "End"
      BY <1>1, <1>3, <2>2 DEF Navigate
    <2>3. CASE key \notin {"Home", "End"}
      <3> DEFINE by == CASE key = "Up" -> -1 [] key = "Down" -> 1 [] key = "PageUp" -> -Page(g)
                         [] key = "PageDown" -> Page(g) [] OTHER -> 0
      <3>1. by \in Int
        BY <1>5
      <3>2. Navigate(g, key) = MoveSelected(g, by)
        BY <1>1, <2>3 DEF Navigate
      <3> HIDE DEF by
      <3>3. QED
        BY <3>1, <3>2, <1>4
    <2>4. QED
      BY <2>1, <2>2, <2>3
  <1>7. QED
    BY <1>2, <1>6, SelectKeeps

\* SetData leaves the new rows with a selection that is one of them and in view.
LEMMA DataShown ==
  ASSUME NEW S, NEW g \in GridType(S), NEW rows \in Seq(S)
  PROVE  /\ SetData(g, rows) \in GridType(S)
         /\ SetData(g, rows).rows = rows
         /\ InRange(SetData(g, rows)) /\ SelectionInView(SetData(g, rows))
  <1> DEFINE h == [g EXCEPT !.rows = rows]
  <1>1. h \in GridType(S) /\ h.rows = rows
    BY DEF GridType
  <1>2. SetData(g, rows) = ClampState(h)
    <2>1. [StopsEditing(g) EXCEPT !.rows = rows] = h
      BY DEF StopsEditing, GridType
    <2>2. QED
      BY <2>1 DEF SetData
  <1> HIDE DEF h
  <1>3. PICK o, s \in Int :
           /\ ClampState(h) = Moved(h, o, s)
           /\ s = NoRow \/ s \in 0 .. Len(h.rows) - 1
           /\ s # NoRow /\ ViewH(h) > 0 => s \in o .. o + ViewH(h) - 1
    BY <1>1, ClampMoves
  <1>4. QED
    BY <1>1, <1>2, <1>3, MovedKeeps, RowsCounted DEF InRange, SelectionInView

\* Rendering a grid brings the selection into view and changes nothing else.
LEMMA Rendered ==
  ASSUME NEW S, NEW g \in GridType(S), InRange(g)
  PROVE  /\ RenderGrid(g) \in GridType(S)
         /\ RenderGrid(g).rows = g.rows /\ RenderGrid(g).selected = g.selected
         /\ SelectionInView(RenderGrid(g))
  <1>1. CASE ViewH(g) <= 0
    BY <1>1, RowsCounted, ViewHeight DEF RenderGrid, InRange, SelectionInView
  <1>2. CASE ~(ViewH(g) <= 0)
    <2>1. PICK o, s \in Int :
             /\ ClampState(g) = Moved(g, o, s)
             /\ s = NoRow \/ s \in 0 .. Len(g.rows) - 1
             /\ s # NoRow /\ ViewH(g) > 0 => s \in o .. o + ViewH(g) - 1
             /\ s = g.selected
      BY ClampMoves
    <2>2. RenderGrid(g) = Moved(g, o, s)
      BY <1>2, <2>1 DEF RenderGrid
    <2>3. QED
      BY <2>1, <2>2, MovedKeeps, RowsCounted DEF SelectionInView
  <1>3. QED
    BY <1>1, <1>2

\* The input line on top of a window only changes the view.
LEMMA ViewportKeeps ==
  ASSUME NEW S, NEW g \in GridType(S), NEW y \in Int, NEW h \in Int
  PROVE  SetViewport(g, y, h) \in GridType(S)
  <1> DEFINE v == [y |-> AtLeast(0, y), h |-> AtLeast(0, h)]
  <1>1. v \in [y : Int, h : Int]
    BY DEF AtLeast
  <1>2. SetViewport(g, y, h) = [g EXCEPT !.view = v]
    BY DEF SetViewport
  <1> HIDE DEF v
  <1>3. QED
    BY <1>1, <1>2 DEF GridType

(***************************************************************************)
(* Rendering.                                                              *)
(***************************************************************************)

\* Rendering the watchers window hands the rows to the grid.
LEMMA WatchRendered ==
  ASSUME NEW w \in WatchType
  PROVE  /\ RenderWatch(w) \in WatchType
         /\ \E g \in GridType(WatchRow) :
               /\ RenderWatch(w) = [w EXCEPT !.grid = g]
               /\ g.rows = w.rows /\ InRange(g) /\ SelectionInView(g)
  <1> DEFINE overlay == (IF w.active THEN 1 ELSE 0) + (IF w.pending # NoAddr THEN 1 ELSE 0)
             view == SetViewport(w.grid, overlay, w.grid.ih - overlay)
             d == SetData(view, w.rows)
             g == RenderGrid(d)
  <1>1. w.grid \in GridType(WatchRow) /\ w.rows \in Seq(WatchRow)
    BY DEF WatchType
  <1>2. overlay \in Int /\ w.grid.ih \in Int
    <2>1. overlay \in Int
      OBVIOUS
    <2>2. w.grid.ih \in Int
      BY <1>1 DEF GridType
    <2>3. QED
      BY <2>1, <2>2
  <1>3. view \in GridType(WatchRow)
    BY <1>1, <1>2, ViewportKeeps
  <1>4. RenderWatch(w) = [w EXCEPT !.grid = g]
    BY DEF RenderWatch
  <1> HIDE DEF view
  <1>5. d \in GridType(WatchRow) /\ d.rows = w.rows /\ InRange(d)
    BY <1>1, <1>3, DataShown
  <1> HIDE DEF d
  <1>6. /\ g \in GridType(WatchRow) /\ g.rows = d.rows /\ g.selected = d.selected
        /\ SelectionInView(g)
    BY <1>5, Rendered
  <1> HIDE DEF g
  <1>7. RenderWatch(w) \in WatchType
    BY <1>4, <1>6 DEF WatchType
  <1>8. QED
    BY <1>4, <1>5, <1>6, <1>7 DEF InRange

\* There is always a row in the history window, that of the next instruction.
LEMMA HistoryRowsTyped ==
  ASSUME NEW h \in HistType, NEW pc \in PCVals
  PROVE  HistoryRows(h, pc) \in Seq(PCVals) /\ HistoryRows(h, pc) # <<>>
  <1>1. h.entries \in Seq(PCVals) /\ h.next \in PCVals \cup {NoAddr}
    BY DEF HistType
  <1>2. Reverse(h.entries) \in Seq(PCVals)
    <2>1. Len(h.entries) \in Nat
      BY <1>1, LenProperties
    <2>2. \A i \in 1 .. Len(h.entries) : h.entries[(Len(h.entries) - i) + 1] \in PCVals
      BY <1>1, <2>1, ElementOfSeq
    <2>3. QED
      BY <2>1, <2>2, IsASeq DEF Reverse
  <1>3. (IF h.next = NoAddr THEN pc ELSE h.next) \in PCVals
    BY <1>1
  <1>4. QED
    BY <1>2, <1>3, AppendProperties DEF HistoryRows

\* Rendering the history window hands the rows to the grid, and selects the last one if it
\* follows.
LEMMA HistoryRendered ==
  ASSUME NEW h \in HistType, NEW pc \in PCVals
  PROVE  /\ RenderHistory(h, pc) \in HistType
         /\ \E g \in GridType(PCVals) :
               /\ RenderHistory(h, pc) = [h EXCEPT !.grid = g]
               /\ g.rows = HistoryRows(h, pc) /\ SelectionInView(g)
               /\ h.follow => g.selected = LastRow(g)
  <1> DEFINE d == SetData(h.grid, HistoryRows(h, pc))
             e == IF h.follow \/ d.selected = NoRow THEN SetSelectedRow(d, LastRow(d)) ELSE d
             g == RenderGrid(e)
  <1>1. h.grid \in GridType(PCVals) /\ h.follow \in BOOLEAN
    BY DEF HistType
  <1>2. HistoryRows(h, pc) \in Seq(PCVals) /\ HistoryRows(h, pc) # <<>>
    BY HistoryRowsTyped
  <1>3. RenderHistory(h, pc) = [h EXCEPT !.grid = g]
    BY DEF RenderHistory
  <1>4. d \in GridType(PCVals) /\ d.rows = HistoryRows(h, pc) /\ InRange(d)
    BY <1>1, <1>2, DataShown
  <1> HIDE DEF d
  <1>5. LastRow(d) \in Int /\ LastRow(d) \in 0 .. Len(d.rows) - 1
    BY <1>2, <1>4, RowsCounted DEF LastRow
  <1>6. /\ e \in GridType(PCVals) /\ e.rows = d.rows /\ InRange(e)
        /\ h.follow => e.selected = LastRow(d)
    <2>1. CASE h.follow \/ d.selected = NoRow
      <3>1. PICK o, s \in Int :
               /\ SetSelectedRow(d, LastRow(d)) = Moved(d, o, s)
               /\ s = IF LastRow(d) = NoRow \/ d.rows = <<>>
                      THEN NoRow ELSE InRows(d, LastRow(d))
        BY <1>4, <1>5, SelectMoves
      <3>2. s = LastRow(d)
        BY <3>1, <1>2, <1>4, <1>5, InRowsRange DEF NoRow
      <3>3. e.selected = LastRow(d)
        <4>1. e = Moved(d, o, s)
          BY <2>1, <3>1
        <4>2. Moved(d, o, s).selected = s
          BY <1>4, MovedKeeps
        <4>3. QED
          BY <4>1, <4>2, <3>2
      <3>4. QED
        BY <2>1, <3>3, <1>4, <1>5, SelectKeeps
    <2>2. CASE ~(h.follow \/ d.selected = NoRow)
      BY <2>2, <1>4
    <2>3. QED
      BY <2>1, <2>2
  <1> HIDE DEF e
  <1>7. /\ g \in GridType(PCVals) /\ g.rows = e.rows /\ g.selected = e.selected
        /\ SelectionInView(g)
    BY <1>6, Rendered
  <1> HIDE DEF g
  <1>8. RenderHistory(h, pc) \in HistType
    BY <1>3, <1>7 DEF HistType
  <1>9. g.rows = HistoryRows(h, pc) /\ (h.follow => g.selected = LastRow(g))
    BY <1>4, <1>6, <1>7 DEF LastRow
  <1>10. QED
    BY <1>3, <1>7, <1>8, <1>9

(***************************************************************************)
(* Data: lines, addresses, heights, places.                                *)
(***************************************************************************)

\* SeqOf has the sequences up to a length.
LEMMA BoundedSeqs ==
  ASSUME NEW C, NEW n \in Nat, NEW t
  PROVE  t \in SeqOf(C, n) <=> t \in Seq(C) /\ Len(t) <= n
  <1>1. ASSUME t \in SeqOf(C, n) PROVE t \in Seq(C) /\ Len(t) <= n
    <2>1. PICK m \in 0 .. n : t \in [1 .. m -> C]
      BY <1>1 DEF SeqOf
    <2>2. t \in Seq(C) /\ Len(t) = m
      BY <2>1, SeqDef
    <2>3. QED
      BY <2>2
  <1>2. ASSUME t \in Seq(C), Len(t) <= n PROVE t \in SeqOf(C, n)
    <2>1. Len(t) \in 0 .. n /\ t \in [1 .. Len(t) -> C]
      BY <1>2, LenProperties
    <2>2. QED
      BY <2>1 DEF SeqOf
  <1>3. QED
    BY <1>1, <1>2

\* A search line stands for an address of a watcher, or for none.
LEMMA AddressesAre ==
  ASSUME NEW t \in SeqOf(Chars, SearchWidth)
  PROVE  Address[t] \in WatchAddrs
  BY DEF WatchAddrs

\* An empty search line stands for no address (memorymap.go:25-30).
LEMMA EmptyLine == <<>> \in SeqOf(Chars, SearchWidth) /\ Address[<<>>] = NoAddr
  <1>1. <<>> \in SeqOf(Chars, SearchWidth)
    <2>1. SearchWidth \in Nat
      BY BoundsAssumption
    <2>2. <<>> \in Seq(Chars) /\ Len(<<>>) = 0
      BY EmptySeq
    <2> DEFINE e == <<>>
    <2>3. e \in Seq(Chars) /\ Len(e) <= SearchWidth
      BY <2>1, <2>2
    <2> HIDE DEF e
    <2>4. e \in SeqOf(Chars, SearchWidth)
      BY <2>1, <2>3, BoundedSeqs
    <2>5. QED
      BY <2>4 DEF e
  <1>2. Query(<<>>) = <<>>
    <2>1. SelectInSeq(<<>>, LAMBDA c : c # " ") = 0
      BY DEF SelectInSeq
    <2>2. QED
      BY <2>1 DEF Query
  <1>3. Blank(<<>>)
    <2>1. DOMAIN <<>> = 1 .. Len(<<>>) /\ Len(<<>>) = 0
      BY EmptySeq, LenProperties
    <2>2. DOMAIN <<>> = {}
      BY <2>1
    <2>3. QED
      BY <2>2 DEF Blank
  <1>4. FindSymbolOrAddress(<<>>) = NoAddr
    BY <1>2, <1>3 DEF FindSymbolOrAddress
  <1>5. QED
    BY <1>1, <1>4 DEF Address

\* A set of natural numbers that is not empty has a least element, which Min picks.
LEMMA LeastOf ==
  ASSUME NEW S \in SUBSET Nat, S # {}
  PROVE  Min(S) \in Nat /\ Min(S) \in S /\ \A y \in S : Min(S) <= y
  <1> DEFINE R == {ss \in Nat \X Nat : ss[1] < ss[2]}
  <1>1. IsWellFoundedOn(R, Nat)
    BY NatLessThanWellFounded DEF OpToRel
  <1>2. PICK x \in S : \A y \in S : <<y, x>> \notin R
    BY <1>1, WFMin
  <1>3. \A y \in S : x <= y
    <2> TAKE y \in S
    <2>1. x \in Nat /\ y \in Nat /\ <<y, x>> \in Nat \X Nat
      BY <1>2
    <2>2. <<y, x>>[1] = y /\ <<y, x>>[2] = x
      OBVIOUS
    <2>3. ~(y < x)
      BY <1>2, <2>1, <2>2
    <2>4. QED
      BY <2>1, <2>3
  <1>4. QED
    BY <1>3 DEF Min

\* The lesser of two.
LEMMA LessOf ==
  ASSUME NEW a \in Int, NEW b \in Int
  PROVE  Min({a, b}) \in Int
  <1>1. \E x \in {a, b} : \A y \in {a, b} : x =< y
    OBVIOUS
  <1>2. QED
    BY <1>1 DEF Min

\* The heights of the windows are numbers.
LEMMA Layout ==
  ASSUME NEW n \in Sizes, NEW bp
  PROVE  WatchLines[n] \in Int /\ HistoryLines(n, bp) \in Int
  <1>1. n \in Nat
    <2>1. Sizes \subseteq Nat
      BY BoundsAssumption
    <2>2. QED
      BY <2>1
  <1>2. UpperH(n) \in Int
    BY <1>1 DEF UpperH, AtLeast
  <1>3. \A h \in Int : Inside(h) \in Int
    BY DEF Inside
  <1>4. \A h \in Int : AtLeast(1, h) \in Int /\ AtLeast(2, h) \in Int
    BY DEF AtLeast
  <1>5. WatchLines[n] \in Int
    <2> DEFINE left == AtLeast(2, UpperH(n))
               h == left - AtLeast(1, left \div 2) + 1
               m == Min({4, h - 1})
    <2>1. left \in Int
      BY <1>2, <1>4
    <2> HIDE DEF left
    <2>2. left \div 2 \in Int
      BY <2>1
    <2>3. h \in Int
      BY <1>4, <2>1, <2>2
    <2> HIDE DEF h
    <2>4. m \in Int
      BY <2>3, LessOf
    <2> HIDE DEF m
    <2>5. Inside(AtLeast(1, h - m)) \in Int
      BY <1>3, <1>4, <2>3, <2>4
    <2>6. QED
      BY <2>5 DEF WatchLines, left, h, m
  <1>6. HistoryLines(n, bp) \in Int
    <2> DEFINE h == UpperH(n) + 1
               m == Min({13, h - 1})
               x == IF bp THEN AtLeast(1, h - m) ELSE h
    <2>1. h \in Int
      BY <1>2
    <2> HIDE DEF h
    <2>2. m \in Int
      BY <2>1, LessOf
    <2> HIDE DEF m
    <2>3. x \in Int
      BY <1>4, <2>1, <2>2
    <2> HIDE DEF x
    <2>4. Inside(x) \in Int
      BY <1>3, <2>3
    <2>5. QED
      BY <2>4 DEF HistoryLines, h, m, x
  <1>7. QED
    BY <1>5, <1>6

\* Every window has its place in the order of the focus.
LEMMA Places ==
  /\ IndexOf[None] = -1
  /\ \A w \in AllWindows : /\ w # None
                           /\ IndexOf[w] \in 0 .. 5 /\ FocusOrder[IndexOf[w] + 1] = w
  <1>1. DOMAIN FocusOrder = 1 .. 6 /\ Len(FocusOrder) = 6
    BY DEF FocusOrder
  <1>2. AllWindows = {FocusOrder[i] : i \in 1 .. 6}
    BY <1>1 DEF AllWindows, ToSet
  <1>3. \A i \in 1 .. 6 : FocusOrder[i] # None
    BY DEF FocusOrder, None
  <1>4. IndexOf[None] = -1
    <2>1. SelectInSeq(FocusOrder, LAMBDA x : x = None) = 0
      BY <1>1, <1>3 DEF SelectInSeq
    <2>2. QED
      BY <2>1 DEF IndexOf
  <1>5. ASSUME NEW w \in AllWindows
        PROVE  w # None /\ IndexOf[w] \in 0 .. 5 /\ FocusOrder[IndexOf[w] + 1] = w
    <2> DEFINE places == {i \in 1 .. 6 : FocusOrder[i] = w}
    <2>1. PICK k \in 1 .. 6 : FocusOrder[k] = w
      BY <1>2
    <2>2. places = {k}
      <3>1. \A i, j \in 1 .. 6 : FocusOrder[i] = FocusOrder[j] => i = j
        BY DEF FocusOrder
      <3>2. QED
        BY <2>1, <3>1
    <2> HIDE DEF places
    <2>3. Min(places) = k
      BY <2>2 DEF Min
    <2>4. SelectInSeq(FocusOrder, LAMBDA x : x = w) = k
      <3>1. {i \in 1 .. Len(FocusOrder) : FocusOrder[i] = w} = places
        BY <1>1 DEF places
      <3>2. QED
        BY <3>1, <2>2, <2>3 DEF SelectInSeq
    <2>5. IndexOf[w] = k - 1
      BY <2>4 DEF IndexOf
    <2>6. QED
      BY <1>3, <2>1, <2>5
  <1>6. QED
    BY <1>4, <1>5

(***************************************************************************)
(* What keeps the windows consistent.                                      *)
(***************************************************************************)

\* A window may be given any grid of its type.
LEMMA GridReplaced ==
  ASSUME NEW w, NEW owner, WatchOK(w, owner), NEW g \in GridType(WatchRow), InRange(g)
  PROVE  WatchOK([w EXCEPT !.grid = g], owner)
  BY DEF WatchOK, WatchType

\* Rendering keeps the watchers window consistent.
LEMMA WatchRenderedOK ==
  ASSUME NEW w, NEW owner, WatchOK(w, owner)
  PROVE  WatchOK(RenderWatch(w), owner)
  <1>1. w \in WatchType
    BY DEF WatchOK
  <1>2. PICK g \in GridType(WatchRow) : RenderWatch(w) = [w EXCEPT !.grid = g] /\ InRange(g)
    BY <1>1, WatchRendered
  <1>3. QED
    BY <1>2, GridReplaced

\* So does a selection.
LEMMA WatchSelectedOK ==
  ASSUME NEW w, NEW owner, WatchOK(w, owner), NEW row \in Int
  PROVE  WatchOK([w EXCEPT !.grid = SetSelectedRow(@, row)], owner)
  <1>1. w.grid \in GridType(WatchRow)
    BY DEF WatchOK, WatchType
  <1> DEFINE g == SetSelectedRow(w.grid, row)
  <1>2. g \in GridType(WatchRow) /\ InRange(g)
    BY <1>1, SelectKeeps
  <1> HIDE DEF g
  <1>3. WatchOK([w EXCEPT !.grid = g], owner)
    BY <1>2, GridReplaced
  <1>4. QED
    BY <1>3 DEF g

\* Opening the search line goes with taking all keys.
LEMMA OpenedOK ==
  ASSUME NEW w, WatchOK(w, None)
  PROVE  WatchOK(OpenSearch(w), "watch")
  <1>1. NoAddr \in WatchAddrs
    BY DEF WatchAddrs
  <1>2. QED
    BY <1>1, EmptyLine DEF WatchOK, WatchType, OpenSearch

\* Closing it goes with giving them back, and forgets the address.
LEMMA ClosedOK ==
  ASSUME NEW w, NEW owner, WatchOK(w, owner)
  PROVE  WatchOK(CloseSearch(w), None)
  <1>1. NoAddr \in WatchAddrs
    BY DEF WatchAddrs
  <1>2. QED
    BY <1>1, EmptyLine DEF WatchOK, WatchType, CloseSearch, None

\* onSearchChange looks the address of the line up after every change of it.
LEMMA TypedOK ==
  ASSUME NEW w, WatchOK(w, "watch"), NEW text \in SeqOf(Chars, SearchWidth)
  PROVE  WatchOK(Typed(w, text), "watch")
  BY AddressesAre DEF WatchOK, WatchType, Typed

\* Every key on the search line goes through onSearchChange, or changes nothing.
LEMMA SearchedOK ==
  ASSUME NEW w, WatchOK(w, "watch"), NEW key
  PROVE  WatchOK(SearchKey(w, key), "watch")
  <1>1. SearchWidth \in Nat
    BY BoundsAssumption
  <1>2. w.text \in SeqOf(Chars, SearchWidth)
    BY DEF WatchOK, WatchType
  <1>3. w.text \in Seq(Chars) /\ Len(w.text) <= SearchWidth /\ Len(w.text) \in Nat
    BY <1>1, <1>2, BoundedSeqs, LenProperties
  <1>4. w.text # <<>> => WatchOK(Typed(w, Front(w.text)), "watch")
    <2> HAVE w.text # <<>>
    <2>1. Len(w.text) # 0
      BY <1>3, EmptySeq
    <2>2. \A i \in 1 .. Len(w.text) - 1 : w.text[i] \in Chars
      BY <1>3, ElementOfSeq
    <2>3. Front(w.text) \in Seq(Chars) /\ Len(Front(w.text)) <= SearchWidth
      BY <1>1, <1>3, <2>1, <2>2, SubSeqProperties DEF Front
    <2>4. Front(w.text) \in SeqOf(Chars, SearchWidth)
      BY <1>1, <2>3, BoundedSeqs
    <2>5. QED
      BY <2>4, TypedOK
  <1>5. key \in Chars /\ Len(w.text) < SearchWidth
            => WatchOK(Typed(w, Append(w.text, key)), "watch")
    <2> HAVE key \in Chars /\ Len(w.text) < SearchWidth
    <2>1. Append(w.text, key) \in Seq(Chars) /\ Len(Append(w.text, key)) = Len(w.text) + 1
      BY <1>3, AppendProperties
    <2>2. Len(Append(w.text, key)) <= SearchWidth
      BY <1>1, <1>3, <2>1
    <2>3. Append(w.text, key) \in SeqOf(Chars, SearchWidth)
      BY <1>1, <2>1, <2>2, BoundedSeqs
    <2>4. QED
      BY <2>3, TypedOK
  <1>6. \/ w.text # <<>> /\ SearchKey(w, key) = Typed(w, Front(w.text))
        \/ /\ key \in Chars /\ Len(w.text) < SearchWidth
           /\ SearchKey(w, key) = Typed(w, Append(w.text, key))
        \/ SearchKey(w, key) = w
    BY DEF SearchKey
  <1>7. QED
    BY <1>4, <1>5, <1>6

\* The watchers may be any.
LEMMA RowsReplaced ==
  ASSUME NEW w, NEW owner, WatchOK(w, owner), NEW rows \in Seq(WatchRow)
  PROVE  WatchOK([w EXCEPT !.rows = rows], owner)
  BY DEF WatchOK, WatchType

\* Enter adds at most one watcher, and loses none.
LEMMA CommittedOK ==
  ASSUME NEW w, NEW owner, WatchOK(w, owner)
  PROVE  WatchOK(CommitPending(w), owner) /\ Len(CommitPending(w).rows) >= Len(w.rows)
  <1> DEFINE at == SelectInSeq(w.rows, LAMBDA r : r.addr = w.pending)
             new == <<[addr |-> w.pending, value |-> 0]>>
             v == [w EXCEPT !.rows = new \o @]
  <1>1. w.rows \in Seq(WatchRow) /\ w.pending \in WatchAddrs
    BY DEF WatchOK, WatchType
  <1>2. Len(w.rows) \in Nat
    BY <1>1, LenProperties
  <1>3. new \in Seq(WatchRow) /\ Len(new) = 1
    BY <1>1 DEF WatchRow
  <1> HIDE DEF new
  <1>4. new \o w.rows \in Seq(WatchRow) /\ Len(new \o w.rows) = 1 + Len(w.rows)
    <2>1. new \o w.rows \in Seq(WatchRow) /\ Len(new \o w.rows) = Len(new) + Len(w.rows)
      BY <1>1, <1>3, ConcatProperties
    <2>2. QED
      BY <2>1, <1>3
  <1>5. WatchOK(v, owner) /\ v.rows = new \o w.rows
    <2>1. v.rows = new \o w.rows
      BY DEF WatchOK, WatchType
    <2>2. QED
      BY <1>4, <2>1, RowsReplaced
  <1>6. CASE w.pending = NoAddr
    BY <1>2, <1>6 DEF CommitPending
  <1>7. CASE w.pending # NoAddr /\ at # 0
    <2> DEFINE x == [w EXCEPT !.grid = SetSelectedRow(@, at - 1)]
    <2>1. CommitPending(w) = x
      BY <1>7 DEF CommitPending
    <2>2. at \in Int
      <3> DEFINE I == {i \in 1 .. Len(w.rows) : w.rows[i].addr = w.pending}
      <3>1. at = IF I # {} THEN Min(I) ELSE 0
        BY DEF SelectInSeq
      <3>2. I \in SUBSET Nat
        BY <1>2
      <3> HIDE DEF I
      <3>3. ASSUME I # {} PROVE Min(I) \in Int
        <4>1. Min(I) \in Nat
          BY <3>2, <3>3, LeastOf, Zenon
        <4>2. QED
          BY <4>1
      <3>4. QED
        BY <3>1, <3>3
    <2> HIDE DEF at
    <2>3. WatchOK(x, owner)
      BY <2>2, WatchSelectedOK
    <2>4. x.rows = w.rows
      BY DEF WatchOK, WatchType
    <2>5. QED
      BY <1>2, <2>1, <2>3, <2>4
  <1>8. CASE w.pending # NoAddr /\ at = 0
    <2> DEFINE x == [v EXCEPT !.grid = SetSelectedRow(@, NoRow)]
    <2>1. CommitPending(w) = x
      <3>1. CommitPending(w) = [w EXCEPT !.rows = new \o @, !.grid = SetSelectedRow(@, NoRow)]
        BY <1>8 DEF CommitPending, new
      <3>2. QED
        BY <3>1 DEF WatchOK, WatchType
    <2>2. NoRow \in Int
      BY DEF NoRow
    <2>3. WatchOK(x, owner)
      BY <1>5, <2>2, WatchSelectedOK
    <2>4. x.rows = v.rows
      BY <1>5 DEF WatchOK, WatchType
    <2>5. QED
      BY <1>2, <1>4, <1>5, <2>1, <2>3, <2>4
  <1>9. QED
    BY <1>6, <1>7, <1>8

\* Removing an element: the elements after it move up.
LEMMA RemovedAt ==
  ASSUME NEW S, NEW s \in Seq(S), NEW i \in 1 .. Len(s)
  PROVE  /\ RemoveAt(s, i) \in Seq(S) /\ Len(RemoveAt(s, i)) = Len(s) - 1
         /\ \A k \in 1 .. Len(s) - 1 : RemoveAt(s, i)[k] = IF k < i THEN s[k] ELSE s[k + 1]
  <1> DEFINE a == SubSeq(s, 1, i - 1)
             b == SubSeq(s, i + 1, Len(s))
             n == Len(s)
  <1>1. n \in Nat /\ i \in 1 .. n
    BY LenProperties
  <1>2. \A k \in 1 .. n : s[k] \in S
    BY ElementOfSeq
  <1>3. /\ a \in Seq(S) /\ Len(a) = i - 1
        /\ \A k \in 1 .. i - 1 : a[k] = s[k]
    <2>1. \A k \in 1 .. i - 1 : s[k] \in S
      BY <1>1, <1>2
    <2>2. 1 \in Int /\ i - 1 \in Int
      BY <1>1
    <2>3. /\ a \in Seq(S) /\ Len(a) = (IF 1 <= i - 1 THEN (i - 1) - 1 + 1 ELSE 0)
          /\ \A k \in 1 .. (i - 1) - 1 + 1 : a[k] = s[1 + k - 1]
      BY <2>1, <2>2, SubSeqProperties
    <2>4. QED
      BY <1>1, <2>3
  <1>4. /\ b \in Seq(S) /\ Len(b) = n - i
        /\ \A k \in 1 .. n - i : b[k] = s[i + k]
    <2>1. \A k \in i + 1 .. n : s[k] \in S
      BY <1>1, <1>2
    <2>2. i + 1 \in Int /\ n \in Int
      BY <1>1
    <2>3. /\ b \in Seq(S) /\ Len(b) = (IF i + 1 <= n THEN n - (i + 1) + 1 ELSE 0)
          /\ \A k \in 1 .. n - (i + 1) + 1 : b[k] = s[(i + 1) + k - 1]
      BY <2>1, <2>2, SubSeqProperties
    <2>4. QED
      BY <1>1, <2>3
  <1> HIDE DEF a, b, n
  <1>5. /\ a \o b \in Seq(S) /\ Len(a \o b) = n - 1
        /\ \A k \in 1 .. n - 1 : (a \o b)[k] = IF k <= i - 1 THEN a[k] ELSE b[k - (i - 1)]
    <2>1. /\ a \o b \in Seq(S) /\ Len(a \o b) = Len(a) + Len(b)
          /\ \A k \in 1 .. Len(a) + Len(b) :
                (a \o b)[k] = IF k <= Len(a) THEN a[k] ELSE b[k - Len(a)]
      BY <1>3, <1>4, ConcatProperties
    <2>2. Len(a) + Len(b) = n - 1
      BY <1>1, <1>3, <1>4
    <2>3. QED
      BY <2>1, <2>2, <1>3
  <1>6. RemoveAt(s, i) = a \o b
    BY DEF RemoveAt, a, b, n
  <1>7. ASSUME NEW k \in 1 .. n - 1
        PROVE  (a \o b)[k] = IF k < i THEN s[k] ELSE s[k + 1]
    <2>1. CASE k < i
      <3>1. k \in 1 .. i - 1 /\ k <= i - 1
        BY <1>1, <2>1
      <3>2. QED
        BY <1>3, <1>5, <2>1, <3>1
    <2>2. CASE ~(k < i)
      <3>1. k - (i - 1) \in 1 .. n - i /\ ~(k <= i - 1) /\ i + (k - (i - 1)) = k + 1
        BY <1>1, <2>2
      <3>2. b[k - (i - 1)] = s[k + 1]
        BY <1>4, <3>1
      <3>3. QED
        BY <1>5, <2>2, <3>1, <3>2
    <2>3. QED
      BY <2>1, <2>2
  <1>8. QED
    BY <1>5, <1>6, <1>7 DEF n

\* The addresses of rows are as many as the rows.
LEMMA AddressesTyped ==
  ASSUME NEW s \in Seq(WatchRow)
  PROVE  /\ Addrs(s) \in Seq(WatchAddrs) /\ Len(Addrs(s)) = Len(s)
         /\ \A i \in 1 .. Len(s) : Addrs(s)[i] = s[i].addr
  <1>1. Len(s) \in Nat /\ DOMAIN s = 1 .. Len(s)
    BY LenProperties
  <1>2. \A i \in 1 .. Len(s) : s[i].addr \in WatchAddrs
    <2> TAKE i \in 1 .. Len(s)
    <2>1. s[i] \in WatchRow
      BY ElementOfSeq
    <2>2. QED
      BY <2>1 DEF WatchRow
  <1>3. Addrs(s) = [i \in 1 .. Len(s) |-> s[i].addr]
    BY <1>1 DEF Addrs
  <1>4. [i \in 1 .. Len(s) |-> s[i].addr] \in Seq(WatchAddrs)
    BY <1>1, <1>2, IsASeq
  <1>5. Addrs(s) \in [1 .. Len(s) -> WatchAddrs]
    BY <1>2, <1>3
  <1>6. Len(Addrs(s)) = Len(s)
    <2>1. DOMAIN Addrs(s) = 1 .. Len(Addrs(s)) /\ Len(Addrs(s)) \in Nat
      BY <1>3, <1>4, LenProperties
    <2>2. DOMAIN Addrs(s) = 1 .. Len(s)
      BY <1>5
    <2>3. \A m, n \in Nat : 1 .. m = 1 .. n => m = n
      <3> SUFFICES ASSUME NEW m \in Nat, NEW n \in Nat, 1 .. m = 1 .. n PROVE m = n
        OBVIOUS
      <3>1. m \in 1 .. m \/ m = 0
        OBVIOUS
      <3>2. n \in 1 .. n \/ n = 0
        OBVIOUS
      <3>3. m <= n /\ n <= m
        BY <3>1, <3>2
      <3>4. QED
        BY <3>3
    <2>4. QED
      BY <1>1, <2>1, <2>2, <2>3
  <1>7. QED
    BY <1>3, <1>4, <1>6

\* Removing a row removes its address.
LEMMA AddressesRemoved ==
  ASSUME NEW s \in Seq(WatchRow), NEW i \in 1 .. Len(s)
  PROVE  Addrs(RemoveAt(s, i)) = RemoveAt(Addrs(s), i)
  <1> DEFINE n == Len(s)
             r == RemoveAt(s, i)
             a == Addrs(s)
             x == Addrs(r)
             y == RemoveAt(a, i)
  <1>1. n \in Nat /\ i \in 1 .. n
    BY LenProperties
  <1>2. /\ r \in Seq(WatchRow) /\ Len(r) = n - 1
        /\ \A k \in 1 .. n - 1 : r[k] = IF k < i THEN s[k] ELSE s[k + 1]
    BY RemovedAt
  <1>3. a \in Seq(WatchAddrs) /\ Len(a) = n /\ \A k \in 1 .. n : a[k] = s[k].addr
    BY AddressesTyped
  <1> HIDE DEF n, r, a
  <1>4. x \in Seq(WatchAddrs) /\ Len(x) = n - 1 /\ \A k \in 1 .. n - 1 : x[k] = r[k].addr
    BY <1>2, AddressesTyped
  <1>5. /\ y \in Seq(WatchAddrs) /\ Len(y) = n - 1
        /\ \A k \in 1 .. n - 1 : y[k] = IF k < i THEN a[k] ELSE a[k + 1]
    <2>1. i \in 1 .. Len(a)
      BY <1>1, <1>3
    <2>2. QED
      BY <1>3, <2>1, RemovedAt
  <1> HIDE DEF x, y
  <1>6. ASSUME NEW k \in 1 .. n - 1 PROVE x[k] = y[k]
    <2>1. k \in 1 .. n /\ k + 1 \in 1 .. n
      BY <1>1
    <2>2. CASE k < i
      BY <2>1, <2>2, <1>2, <1>3, <1>4, <1>5
    <2>3. CASE ~(k < i)
      BY <2>1, <2>3, <1>2, <1>3, <1>4, <1>5
    <2>4. QED
      BY <2>2, <2>3
  <1>7. x = y
    BY <1>4, <1>5, <1>6, SeqEqual
  <1>8. QED
    BY <1>7 DEF x, y, r, a

\* Delete keeps the window consistent, and removes the selected row or nothing.
LEMMA DeletedOK ==
  ASSUME NEW w, NEW owner, WatchOK(w, owner)
  PROVE  /\ WatchOK(DeleteSelected(w), owner)
         /\ DeleteSelected(w) = w
            \/ /\ w.grid.selected + 1 \in 1 .. Len(w.rows)
               /\ DeleteSelected(w).rows = RemoveAt(w.rows, w.grid.selected + 1)
  <1> DEFINE i == w.grid.selected + 1
             v == [w EXCEPT !.rows = RemoveAt(@, i)]
             x == [v EXCEPT !.grid = SetSelectedRow(@, w.grid.selected)]
  <1>1. w.rows \in Seq(WatchRow) /\ w.grid \in GridType(WatchRow) /\ InRange(w.grid)
    BY DEF WatchOK, WatchType
  <1>2. w.grid.selected \in Int /\ Len(w.rows) \in Nat
    BY <1>1, LenProperties DEF GridType
  <1>3. CASE w.grid.selected = NoRow \/ DeletePanics(w)
    BY <1>3 DEF DeleteSelected
  <1>4. CASE ~(w.grid.selected = NoRow \/ DeletePanics(w))
    <2>1. i \in 1 .. Len(w.rows)
      <3>1. w.grid.selected >= 0
        BY <1>1, <1>4, RowsCounted DEF InRange
      <3>2. w.grid.selected < Len(w.rows)
        BY <1>2, <1>4 DEF DeletePanics
      <3>3. QED
        BY <1>2, <3>1, <3>2
    <2>2. DeleteSelected(w) = x
      <3>1. DeleteSelected(w) = [w EXCEPT !.rows = RemoveAt(@, w.grid.selected + 1),
                                          !.grid = SetSelectedRow(@, @.selected)]
        BY <1>4 DEF DeleteSelected
      <3>2. QED
        BY <3>1 DEF WatchOK, WatchType
    <2> HIDE DEF i
    <2>3. RemoveAt(w.rows, i) \in Seq(WatchRow)
      BY <1>1, <2>1, RemovedAt
    <2>4. WatchOK(v, owner)
      BY <2>3, RowsReplaced
    <2>5. v.rows = RemoveAt(w.rows, i)
      BY DEF WatchOK, WatchType
    <2> HIDE DEF v
    <2>6. WatchOK(x, owner)
      BY <1>2, <2>4, WatchSelectedOK
    <2>7. x.rows = v.rows
      BY <2>4 DEF WatchOK, WatchType
    <2>8. QED
      BY <2>1, <2>2, <2>5, <2>6, <2>7 DEF i
  <1>5. QED
    BY <1>3, <1>4

\* A history window may be given any grid of its type.
LEMMA HistGridOK ==
  ASSUME NEW h, HistOK(h), NEW g \in GridType(PCVals)
  PROVE  HistOK([h EXCEPT !.grid = g])
  BY DEF HistOK, HistType

\* Rendering keeps the history window consistent.
LEMMA HistRenderedOK ==
  ASSUME NEW h, HistOK(h), NEW pc \in PCVals
  PROVE  HistOK(RenderHistory(h, pc))
  <1>1. h \in HistType
    BY DEF HistOK
  <1>2. PICK g \in GridType(PCVals) : RenderHistory(h, pc) = [h EXCEPT !.grid = g]
    BY <1>1, HistoryRendered
  <1>3. QED
    BY <1>2, HistGridOK

\* So does a key.
LEMMA HistKeyOK ==
  ASSUME NEW h, HistOK(h), NEW key
  PROVE  HistOK(HistoryKey(h, key))
  <1> DEFINE g == GridInput(h.grid, key, Chars)
  <1>1. h.grid \in GridType(PCVals)
    BY DEF HistOK, HistType
  <1>2. g \in GridType(PCVals)
    BY <1>1, KeyKeeps
  <1> HIDE DEF g
  <1>3. HistoryKey(h, key) = [h EXCEPT !.grid = g, !.follow = (key = "End")]
    BY DEF HistoryKey, g
  <1>4. (key = "End") \in BOOLEAN
    OBVIOUS
  <1>5. QED
    BY <1>2, <1>3, <1>4 DEF HistOK, HistType

\* The height of the watchers window changes and it is rendered.
LEMMA WatchRebuilt ==
  ASSUME NEW w, NEW owner, WatchOK(w, owner), NEW n \in Sizes
  PROVE  /\ WatchOK(RebuiltWatch(w, n), owner)
         /\ \E g \in GridType(WatchRow) :
               /\ RebuiltWatch(w, n) = [w EXCEPT !.grid = g]
               /\ g.rows = w.rows /\ SelectionInView(g)
  <1> DEFINE f == [w.grid EXCEPT !.ih = WatchLines[n]]
             v == [w EXCEPT !.grid = f]
  <1>1. w \in WatchType /\ w.grid \in GridType(WatchRow) /\ InRange(w.grid)
    BY DEF WatchOK, WatchType
  <1>2. f \in GridType(WatchRow) /\ f.rows = w.grid.rows /\ f.selected = w.grid.selected
    BY <1>1, Layout DEF GridType
  <1>3. RebuiltWatch(w, n) = RenderWatch(v)
    BY DEF RebuiltWatch
  <1> HIDE DEF f
  <1>4. WatchOK(v, owner)
    BY <1>1, <1>2, GridReplaced DEF InRange
  <1>5. /\ v \in WatchType /\ v.rows = w.rows
        /\ \A g : [v EXCEPT !.grid = g] = [w EXCEPT !.grid = g]
    BY <1>1, <1>4 DEF WatchOK, WatchType
  <1> HIDE DEF v
  <1>6. PICK g \in GridType(WatchRow) :
           /\ RenderWatch(v) = [v EXCEPT !.grid = g]
           /\ g.rows = v.rows /\ SelectionInView(g)
    BY <1>5, WatchRendered
  <1>7. WatchOK(RenderWatch(v), owner)
    BY <1>4, WatchRenderedOK
  <1>8. QED
    BY <1>3, <1>5, <1>6, <1>7

\* The height of the history window changes and it is rendered.
LEMMA HistRebuilt ==
  ASSUME NEW h, HistOK(h), NEW n \in Sizes, NEW bp, NEW pc \in PCVals
  PROVE  /\ HistOK(RebuiltHistory(h, n, bp, pc))
         /\ \E g \in GridType(PCVals) :
               /\ RebuiltHistory(h, n, bp, pc) = [h EXCEPT !.grid = g]
               /\ g.rows = HistoryRows(h, pc) /\ SelectionInView(g)
               /\ h.follow => g.selected = LastRow(g)
  <1> DEFINE f == [h.grid EXCEPT !.ih = HistoryLines(n, bp)]
             v == [h EXCEPT !.grid = f]
  <1>1. h \in HistType /\ h.grid \in GridType(PCVals)
    BY DEF HistOK, HistType
  <1>2. f \in GridType(PCVals)
    BY <1>1, Layout DEF GridType
  <1>3. RebuiltHistory(h, n, bp, pc) = RenderHistory(v, pc)
    BY DEF RebuiltHistory
  <1> HIDE DEF f
  <1>4. HistOK(v)
    BY <1>2, HistGridOK
  <1>5. /\ v \in HistType /\ v.follow = h.follow /\ v.entries = h.entries /\ v.next = h.next
        /\ \A g : [v EXCEPT !.grid = g] = [h EXCEPT !.grid = g]
    BY <1>1, <1>4 DEF HistOK, HistType
  <1> HIDE DEF v
  <1>6. HistoryRows(v, pc) = HistoryRows(h, pc)
    BY <1>5 DEF HistoryRows
  <1>7. PICK g \in GridType(PCVals) :
           /\ RenderHistory(v, pc) = [v EXCEPT !.grid = g]
           /\ g.rows = HistoryRows(v, pc) /\ SelectionInView(g)
           /\ v.follow => g.selected = LastRow(g)
    BY <1>5, HistoryRendered
  <1>8. HistOK(RenderHistory(v, pc))
    BY <1>4, HistRenderedOK
  <1>9. QED
    BY <1>3, <1>5, <1>6, <1>7, <1>8

(***************************************************************************)
(* Keys.                                                                   *)
(***************************************************************************)

\* After a key an iteration has to follow, unless the interface is frozen.
LEMMA HandledIsUnsettled ==
  ASSUME IInv, NEW f, Handled(f)
  PROVE  LoopInv' /\ ~Settled'
  BY DEF IInv, LoopInv, Handled, Settled

\* A handled key leaves the invariant to what the windows and the focus make of it.
LEMMA KeyStep ==
  ASSUME IInv, NEW f, Handled(f), ScreenInv'
  PROVE  IInv'
  <1>1. LoopInv' /\ ~Settled'
    BY HandledIsUnsettled
  <1>2. QED
    BY <1>1 DEF IInv

\* Screen.Focus keeps the focus consistent, and the watchers window.
LEMMA FocusMoves ==
  ASSUME FocusInv, WatchOK(watch, None), NEW w, Focus(w), UNCHANGED visible
  PROVE  FocusInv' /\ WatchOK(watch', None)
  <1>1. CASE (w # None /\ w \notin visible) \/ w = focused
    BY <1>1 DEF Focus, FocusInv
  <1>2. CASE ~((w # None /\ w \notin visible) \/ w = focused)
    <2>1. FocusInv'
      BY <1>2 DEF Focus, FocusInv
    <2>2. NoRow \in Int
      BY DEF NoRow
    <2>3. WatchOK([watch EXCEPT !.grid = SetSelectedRow(@, NoRow)], None)
      BY <2>2, WatchSelectedOK
    <2>4. WatchOK(watch', None)
      BY <1>2, <2>3 DEF Focus
    <2>5. QED
      BY <2>1, <2>4
  <1>3. QED
    BY <1>1, <1>2

\* Keys that move the focus, which no input line lets through.
LEMMA FocusKey ==
  ASSUME IInv, Shortcut, NEW w, Focus(w), UNCHANGED <<visible, inputOwner, hist>>
  PROVE  IInv'
  <1>1. inputOwner = None /\ Handled(frozen)
    BY DEF Shortcut, Pressed
  <1>2. FocusInv /\ WatchOK(watch, None) /\ HistOK(hist)
    BY <1>1 DEF IInv, ScreenInv
  <1>3. FocusInv' /\ WatchOK(watch', None)
    BY <1>2, FocusMoves
  <1>4. HistOK(hist')
    BY <1>2
  <1>5. ScreenInv'
    BY <1>1, <1>3, <1>4 DEF ScreenInv, OwnerInv
  <1>6. QED
    BY <1>1, <1>5, KeyStep

\* Hot keys, Tab and Shift-Tab.
LEMMA FocusKeys ==
  ASSUME IInv, (\E key \in DOMAIN Hotkeys : Hotkey(key)) \/ NextWindow \/ PreviousWindow
  PROVE  IInv'
  <1>1. ASSUME NEW step, FocusStep(step) PROVE \E w : Focus(w)
    BY <1>1 DEF FocusStep
  <1>2. Shortcut /\ (\E w : Focus(w)) /\ UNCHANGED <<visible, inputOwner, hist>>
    BY <1>1 DEF Hotkey, NextWindow, PreviousWindow
  <1>3. QED
    BY <1>2, FocusKey

\* Keys that leave the two windows alone.
LEMMA PlainKeys ==
  ASSUME IInv, ShutdownKey \/ OpenInput \/ CloseInput
  PROVE  IInv'
  <1>1. Handled(frozen)
    BY DEF ShutdownKey, OpenInput, CloseInput, Shortcut, Pressed
  <1>2. FocusInv'
    BY DEF ShutdownKey, OpenInput, CloseInput, screenVars, IInv, ScreenInv, FocusInv
  <1>3. OwnerInv'
    BY DEF ShutdownKey, OpenInput, CloseInput, screenVars, IInv, ScreenInv, OwnerInv
  <1>4. WatchOK(watch', inputOwner')
    <2>1. WatchOK(watch, inputOwner) /\ watch' = watch
      BY DEF ShutdownKey, OpenInput, CloseInput, IInv, ScreenInv
    <2>2. (inputOwner' = "watch") <=> (inputOwner = "watch")
      BY DEF ShutdownKey, OpenInput, CloseInput, Shortcut, screenVars, None
    <2>3. QED
      BY <2>1, <2>2 DEF WatchOK
  <1>5. HistOK(hist')
    BY DEF ShutdownKey, OpenInput, CloseInput, IInv, ScreenInv
  <1>6. QED
    BY <1>1, <1>2, <1>3, <1>4, <1>5, KeyStep DEF ScreenInv

\* The key that freezes and the one that goes on: the windows are rendered later.
LEMMA FreezeKey ==
  ASSUME IInv, ToggleFreeze
  PROVE  IInv'
  <1>1. Handled(~frozen) /\ UNCHANGED <<screenVars, watch, hist>>
    BY DEF ToggleFreeze
  <1>2. ScreenInv
    BY DEF IInv
  <1>3. ScreenInv'
    BY <1>1, <1>2 DEF screenVars, ScreenInv, FocusInv, OwnerInv
  <1>4. QED
    BY <1>1, <1>3, KeyStep

\* The keys of the watchers window.
LEMMA WatchKeys ==
  ASSUME IInv, NEW key, WatchKey(key)
  PROVE  IInv'
  <1>1. /\ Handled(frozen) /\ inputOwner = None /\ focused = "watch"
        /\ UNCHANGED <<visible, focused, focusIndex, hist>>
    BY DEF WatchKey, Shortcut, Pressed
  <1>2. WatchOK(watch, None) /\ FocusInv /\ HistOK(hist)
    BY <1>1 DEF IInv, ScreenInv
  <1>3. WatchOK(watch', inputOwner') /\ inputOwner' \in {None, "watch"}
    <2>1. CASE key = "/"
      BY <1>2, <2>1, OpenedOK DEF WatchKey
    <2>2. CASE key = "Delete"
      BY <1>1, <1>2, <2>2, DeletedOK DEF WatchKey
    <2>3. CASE key \notin {"/", "Delete"}
      <3> DEFINE g == GridInput(watch.grid, key, Chars)
      <3>1. watch.grid \in GridType(WatchRow) /\ InRange(watch.grid)
        BY <1>2 DEF WatchOK, WatchType
      <3>2. g \in GridType(WatchRow) /\ InRange(g)
        BY <3>1, KeyKeeps
      <3>3. watch' = [watch EXCEPT !.grid = g] /\ inputOwner' = None
        BY <1>1, <2>3 DEF WatchKey
      <3> HIDE DEF g
      <3>4. QED
        BY <1>2, <3>2, <3>3, GridReplaced
    <2>4. QED
      BY <2>1, <2>2, <2>3
  <1>4. FocusInv' /\ OwnerInv'
    BY <1>1, <1>2, <1>3 DEF FocusInv, OwnerInv
  <1>5. HistOK(hist')
    BY <1>1, <1>2
  <1>6. QED
    BY <1>1, <1>3, <1>4, <1>5, KeyStep DEF ScreenInv

\* The keys on its search line, none of which removes a watcher.
LEMMA SearchLineKeys ==
  ASSUME IInv, NEW key, SearchLineKey(key)
  PROVE  /\ IInv'
         /\ Len(watch'.rows) >= Len(watch.rows) /\ Len(watch.rows) \in Nat
  <1>1. /\ Handled(frozen) /\ inputOwner = "watch"
        /\ UNCHANGED <<visible, focused, focusIndex, hist>>
    BY DEF SearchLineKey, Pressed
  <1>2. WatchOK(watch, "watch") /\ FocusInv /\ OwnerInv /\ HistOK(hist)
    BY <1>1 DEF IInv, ScreenInv
  <1> DEFINE w == IF key = "Enter" THEN CommitPending(watch) ELSE watch
  <1>3. Len(watch.rows) \in Nat
    BY <1>2, LenProperties DEF WatchOK, WatchType
  <1>4. WatchOK(w, "watch") /\ Len(w.rows) >= Len(watch.rows)
    BY <1>2, <1>3, CommittedOK
  <1>5. CASE key \in {"Esc", "Enter"}
    <2>1. watch' = CloseSearch(w) /\ inputOwner' = None
      BY <1>5 DEF SearchLineKey
    <2> HIDE DEF w
    <2>2. WatchOK(watch', inputOwner')
      BY <1>4, <2>1, ClosedOK
    <2>3. watch'.rows = w.rows
      BY <1>4, <2>1 DEF CloseSearch, WatchOK, WatchType
    <2>4. FocusInv' /\ OwnerInv' /\ HistOK(hist')
      BY <1>1, <1>2, <2>1 DEF FocusInv, OwnerInv
    <2>5. QED
      BY <1>1, <1>3, <1>4, <2>2, <2>3, <2>4, KeyStep DEF ScreenInv
  <1>6. CASE key \notin {"Esc", "Enter"}
    <2>1. watch' = SearchKey(watch, key) /\ inputOwner' = inputOwner
      BY <1>6 DEF SearchLineKey
    <2>2. WatchOK(watch', inputOwner')
      BY <1>1, <1>2, <2>1, SearchedOK
    <2>3. watch'.rows = watch.rows
      BY <1>2, <2>1 DEF SearchKey, Typed, WatchOK, WatchType
    <2>4. FocusInv' /\ OwnerInv' /\ HistOK(hist')
      BY <1>1, <1>2, <2>1 DEF FocusInv, OwnerInv
    <2>5. QED
      BY <1>1, <1>3, <2>2, <2>3, <2>4, KeyStep DEF ScreenInv
  <1>7. QED
    BY <1>5, <1>6

\* The keys of the history window.
LEMMA HistoryKeys ==
  ASSUME IInv, NEW key, HistoryWindowKey(key)
  PROVE  IInv'
  <1>1. Handled(frozen) /\ UNCHANGED <<screenVars, watch>> /\ hist' = HistoryKey(hist, key)
    BY DEF HistoryWindowKey, Shortcut, Pressed
  <1>2. ScreenInv
    BY DEF IInv
  <1>3. HistOK(hist')
    BY <1>1, <1>2, HistKeyOK DEF ScreenInv
  <1>4. FocusInv' /\ OwnerInv' /\ WatchOK(watch', inputOwner')
    BY <1>1, <1>2 DEF ScreenInv, screenVars, FocusInv, OwnerInv
  <1>5. QED
    BY <1>1, <1>3, <1>4, KeyStep DEF ScreenInv

(***************************************************************************)
(* Iterations.                                                             *)
(***************************************************************************)

\* RebuildScreen renders what the windows hold, whatever is frozen and wherever the
\* iteration stands; after a key the values are those of an earlier read.
LEMMA Resizing ==
  ASSUME IInv, Resize
  PROVE  IInv'
  <1>1. /\ lines' \in Sizes /\ watch' = RebuiltWatch(watch, lines')
        /\ hist' = RebuiltHistory(hist, lines', "bp" \in visible, cpuPC)
        /\ loop' = "input" /\ missed' = (missed \/ loop = "update")
        /\ UNCHANGED <<screenVars, stateVars, cpuShown>>
    BY DEF Resize
  <1>2. /\ FocusInv /\ OwnerInv /\ WatchOK(watch, inputOwner) /\ HistOK(hist)
        /\ LoopInv /\ cpuPC \in PCVals /\ (Settled => WatchShown /\ HistShown)
    BY DEF IInv, ScreenInv, LoopInv
  <1>3. /\ LoopInv' /\ FocusInv' /\ OwnerInv' /\ inputOwner' = inputOwner
        /\ Settled' => Settled \/ loop = "update"
    BY <1>1, <1>2 DEF screenVars, stateVars, LoopInv, FocusInv, OwnerInv, Settled
  <1>4. PICK g \in GridType(WatchRow) :
           watch' = [watch EXCEPT !.grid = g] /\ g.rows = watch.rows /\ SelectionInView(g)
    BY <1>1, <1>2, WatchRebuilt
  <1>5. PICK k \in GridType(PCVals) :
           /\ hist' = [hist EXCEPT !.grid = k]
           /\ k.rows = HistoryRows(hist, cpuPC) /\ SelectionInView(k)
           /\ hist.follow => k.selected = LastRow(k)
    BY <1>1, <1>2, HistRebuilt
  <1>6. WatchOK(watch', inputOwner') /\ HistOK(hist')
    BY <1>1, <1>2, <1>3, WatchRebuilt, HistRebuilt
  <1>7. Settled' => WatchShown'
    <2>1. watch'.grid = g /\ watch'.rows = watch.rows /\ watch'.snapshot = watch.snapshot
      BY <1>2, <1>4 DEF WatchOK, WatchType
    <2>2. CASE Settled
      BY <1>1, <1>2, <1>4, <2>1, <2>2 DEF WatchShown
    <2>3. CASE loop = "update"
      BY <1>1, <1>4, <2>1, <2>3 DEF WatchShown
    <2>4. QED
      BY <1>3, <2>2, <2>3
  <1>8. HistShown'
    <2>1. /\ hist'.grid = k /\ hist'.follow = hist.follow
          /\ hist'.entries = hist.entries /\ hist'.next = hist.next
      BY <1>2, <1>5 DEF HistOK, HistType
    <2>2. cpuPC' = cpuPC
      BY <1>1 DEF stateVars
    <2>3. QED
      BY <1>5, <2>1, <2>2 DEF HistShown, HistoryRows
  <1>9. QED
    BY <1>3, <1>6, <1>7, <1>8 DEF IInv, ScreenInv

\* The key that froze the interface is followed by one more rendering.
LEMMA RenderingFrozen ==
  ASSUME IInv, RenderFrozen
  PROVE  IInv'
  <1>1. /\ loop = "render" /\ loop' = "input"
        /\ watch' = RenderWatch(watch) /\ hist' = RenderHistory(hist, cpuPC)
        /\ UNCHANGED <<lines, screenVars, stateVars, cpuShown>>
    BY DEF RenderFrozen
  <1>2. /\ FocusInv /\ OwnerInv /\ WatchOK(watch, inputOwner) /\ HistOK(hist)
        /\ LoopInv /\ cpuPC \in PCVals
    BY DEF IInv, ScreenInv, LoopInv
  <1>3. WatchOK(watch', inputOwner) /\ HistOK(hist')
    BY <1>1, <1>2, WatchRenderedOK, HistRenderedOK
  <1>4. LoopInv' /\ ~Settled' /\ FocusInv' /\ OwnerInv' /\ inputOwner' = inputOwner
    BY <1>1, <1>2 DEF screenVars, stateVars, LoopInv, FocusInv, OwnerInv, Settled
  <1>5. QED
    BY <1>3, <1>4 DEF IInv, ScreenInv

\* Rows that were read, with their snapshot.
ReadInto(w, rows) ==
    [w EXCEPT !.rows = rows,
              !.snapshot = <<rows, w.pending, w.grid.selected, w.active, w.text>>]

\* A read replaces the values of the watchers and takes a new snapshot.
LEMMA ReadsAre ==
  ASSUME WatchOK(watch, inputOwner), NEW w \in WatchReads
  PROVE  \E rows \in Seq(WatchRow) :
            Addrs(rows) = Addrs(watch.rows) /\ w = ReadInto(watch, rows)
  <1>1. watch \in WatchType /\ watch.rows \in Seq(WatchRow)
    BY DEF WatchOK, WatchType
  <1>2. PICK vs \in [DOMAIN watch.rows -> Values] :
           LET r == [watch EXCEPT !.rows = [i \in DOMAIN @ |-> [@[i] EXCEPT !.value = vs[i]]]]
           IN  w = [r EXCEPT !.snapshot = WatchSnapshot(r)]
    BY DEF WatchReads
  <1> DEFINE rows == [i \in DOMAIN watch.rows |-> [watch.rows[i] EXCEPT !.value = vs[i]]]
             r == [watch EXCEPT !.rows = rows]
  <1>3. w = [r EXCEPT !.snapshot = WatchSnapshot(r)]
    BY <1>2
  <1>4. DOMAIN watch.rows = 1 .. Len(watch.rows) /\ Len(watch.rows) \in Nat
    BY <1>1, LenProperties
  <1>5. \A i \in 1 .. Len(watch.rows) : watch.rows[i] \in WatchRow /\ vs[i] \in Values
    BY <1>1, <1>4, ElementOfSeq
  <1>6. \A i \in 1 .. Len(watch.rows) :
           /\ [watch.rows[i] EXCEPT !.value = vs[i]] \in WatchRow
           /\ [watch.rows[i] EXCEPT !.value = vs[i]].addr = watch.rows[i].addr
    BY <1>5 DEF WatchRow
  <1>7. rows \in Seq(WatchRow)
    <2>1. rows = [i \in 1 .. Len(watch.rows) |-> [watch.rows[i] EXCEPT !.value = vs[i]]]
      BY <1>4
    <2>2. [i \in 1 .. Len(watch.rows) |-> [watch.rows[i] EXCEPT !.value = vs[i]]]
             \in Seq(WatchRow)
      BY <1>4, <1>6, IsASeq
    <2>3. QED
      BY <2>1, <2>2
  <1>8. Addrs(rows) = Addrs(watch.rows)
    BY <1>4, <1>6 DEF Addrs
  <1> HIDE DEF rows
  <1>9. /\ r \in WatchType /\ r.rows = rows /\ r.pending = watch.pending
        /\ r.grid = watch.grid /\ r.active = watch.active /\ r.text = watch.text
    BY <1>1, <1>7 DEF WatchType
  <1>10. WatchSnapshot(r) =
            <<rows, watch.pending, watch.grid.selected, watch.active, watch.text>>
    BY <1>9 DEF WatchSnapshot
  <1>11. w = ReadInto(watch, rows)
    BY <1>1, <1>3, <1>10 DEF ReadInto, WatchType
  <1>12. QED
    BY <1>7, <1>8, <1>11

\* The window stays consistent, and its snapshot is of the rows that were read.
LEMMA ReadOK ==
  ASSUME NEW w, NEW owner, WatchOK(w, owner), NEW rows \in Seq(WatchRow)
  PROVE  /\ WatchOK(ReadInto(w, rows), owner)
         /\ ReadInto(w, rows).rows = rows /\ ReadInto(w, rows).grid = w.grid
         /\ ReadInto(w, rows).snapshot = <<rows, w.pending, w.grid.selected, w.active, w.text>>
  <1> DEFINE snap == <<rows, w.pending, w.grid.selected, w.active, w.text>>
  <1>1. /\ w \in WatchType /\ w.pending \in WatchAddrs /\ w.active \in BOOLEAN
        /\ w.text \in SeqOf(Chars, SearchWidth) /\ w.grid \in GridType(WatchRow)
    BY DEF WatchOK, WatchType
  <1>2. w.grid.selected \in Int
    BY <1>1 DEF GridType
  <1>3. snap \in WatchSnapshots
    BY <1>1, <1>2 DEF WatchSnapshots
  <1>4. ReadInto(w, rows) = [w EXCEPT !.rows = rows, !.snapshot = snap]
    BY DEF ReadInto
  <1> HIDE DEF snap
  <1>5. WatchOK(ReadInto(w, rows), owner)
    BY <1>3, <1>4 DEF WatchOK, WatchType
  <1>6. /\ ReadInto(w, rows).rows = rows /\ ReadInto(w, rows).grid = w.grid
        /\ ReadInto(w, rows).snapshot = snap
    BY <1>1, <1>4 DEF WatchType
  <1>7. QED
    BY <1>5, <1>6 DEF snap

\* A history that was read, with its snapshot.
HistoryInto(h, pc, es, n) == [h EXCEPT !.entries = es, !.next = n, !.snapshot = <<pc, es, n>>]

\* The window stays consistent, and its snapshot is of what was read.
LEMMA HistoryReadOK ==
  ASSUME NEW h, HistOK(h), NEW pc \in PCVals, NEW es \in Seq(PCVals),
         NEW n \in PCVals \cup {NoAddr}
  PROVE  /\ HistOK(HistoryInto(h, pc, es, n))
         /\ HistoryInto(h, pc, es, n).entries = es /\ HistoryInto(h, pc, es, n).next = n
         /\ HistoryInto(h, pc, es, n).follow = h.follow
         /\ HistoryInto(h, pc, es, n).snapshot = <<pc, es, n>>
  <1> DEFINE snap == <<pc, es, n>>
             k == HistoryInto(h, pc, es, n)
  <1>1. snap \in HistSnapshots /\ snap[1] = pc
    BY DEF HistSnapshots
  <1>2. k = [h EXCEPT !.entries = es, !.next = n, !.snapshot = snap]
    BY DEF HistoryInto
  <1>3. snap = <<snap[1], es, n>>
    BY <1>1
  <1> HIDE DEF snap, k
  <1>4. /\ k \in HistType /\ k.entries = es /\ k.next = n /\ k.follow = h.follow
        /\ k.snapshot = snap
    BY <1>1, <1>2 DEF HistOK, HistType
  <1>5. HistOK(k)
    BY <1>3, <1>4 DEF HistOK
  <1>6. QED
    BY <1>4, <1>5 DEF snap, k

\* What Update of the history window may do.
LEMMA HistoryUpdatesAre ==
  ASSUME HistOK(hist), cpuPC \in PCVals, cpuPC' \in PCVals, NEW h \in HistoryUpdates
  PROVE  \/ h = hist
         \/ \E es \in Seq(PCVals), n \in PCVals \cup {NoAddr} :
               h = HistoryInto(hist, cpuPC', es, n)
  <1>1. hist.next \in PCVals \cup {NoAddr}
    BY DEF HistOK, HistType
  <1>2. <<>> \in Seq(PCVals)
    BY EmptySeq
  <1>3. \A es \in SeqOf(PCs, MaxHistory) : es \in Seq(PCVals)
    <2> TAKE es \in SeqOf(PCs, MaxHistory)
    <2>1. MaxHistory \in Nat
      BY BoundsAssumption
    <2>2. es \in Seq(PCs)
      BY <2>1, BoundedSeqs
    <2>3. PCs \subseteq PCVals
      BY DEF PCVals
    <2>4. QED
      BY <2>2, <2>3, SeqMonotonic
  <1>4. CASE work # "history"
    <2>1. h = HistoryInto(hist, cpuPC', <<>>, cpuPC)
      BY <1>4 DEF HistoryUpdates, HistoryInto
    <2>2. QED
      BY <1>2, <2>1
  <1>5. CASE work = "history"
    <2>1. h = hist \/ \E x \in SeqOf(PCs, MaxHistory) \X {cpuPC', hist.next} :
                         h = HistoryInto(hist, cpuPC', x[1], x[2])
      BY <1>5 DEF HistoryUpdates, HistoryInto
    <2>2. \A x \in SeqOf(PCs, MaxHistory) \X {cpuPC', hist.next} :
              x[1] \in Seq(PCVals) /\ x[2] \in PCVals \cup {NoAddr}
      BY <1>1, <1>3
    <2>3. QED
      BY <2>1, <2>2
  <1>6. QED
    BY <1>4, <1>5

\* Whether it is rendered or not, the watchers window shows its rows after an iteration:
\* without a key, with no rendering, its snapshot has not changed, so its rows have not.
LEMMA WatchIterates ==
  ASSUME WatchOK(watch, inputOwner), Settled => WatchShown,
         NEW w \in WatchReads \cup {watch}, WatchUpdate(w), NEW render,
         watch' = IF render THEN RenderWatch(w) ELSE w,
         loop = "update" \/ (loop = "input" /\ ~frozen),
         render \/ (loop = "input" /\ w.snapshot = watch.snapshot)
  PROVE  WatchOK(watch', inputOwner) /\ WatchShown' /\ Len(watch'.rows) = Len(watch.rows)
  <1>1. \/ w = watch
        \/ \E rows \in Seq(WatchRow) :
              Addrs(rows) = Addrs(watch.rows) /\ w = ReadInto(watch, rows)
    BY ReadsAre
  <1>2. /\ WatchOK(w, inputOwner) /\ w.grid = watch.grid
        /\ Addrs(w.rows) = Addrs(watch.rows)
        /\ w.rows \in Seq(WatchRow) /\ watch.rows \in Seq(WatchRow)
    <2>1. CASE w = watch
      BY <2>1 DEF WatchOK, WatchType
    <2>2. CASE \E rows \in Seq(WatchRow) :
                  Addrs(rows) = Addrs(watch.rows) /\ w = ReadInto(watch, rows)
      BY <2>2, ReadOK DEF WatchOK, WatchType
    <2>3. QED
      BY <1>1, <2>1, <2>2
  <1>3. w \in WatchReads =>
           w.snapshot = <<w.rows, watch.pending, watch.grid.selected, watch.active, watch.text>>
    BY ReadsAre, ReadOK
  <1>4. \/ w \in WatchReads /\ missed' = (missed /\ w.snapshot = watch.snapshot)
        \/ w = watch /\ missed' = (missed \/ loop = "update")
    BY DEF WatchUpdate
  <1>5. Len(w.rows) = Len(watch.rows)
    <2>1. Len(Addrs(w.rows)) = Len(w.rows) /\ Len(Addrs(watch.rows)) = Len(watch.rows)
      BY <1>2, AddressesTyped
    <2>2. QED
      BY <1>2, <2>1
  <1>6. CASE render
    <2>1. w \in WatchType
      BY <1>2 DEF WatchOK
    <2>2. PICK g \in GridType(WatchRow) :
             RenderWatch(w) = [w EXCEPT !.grid = g] /\ g.rows = w.rows /\ SelectionInView(g)
      BY <2>1, WatchRendered
    <2>3. watch'.grid = g /\ watch'.rows = w.rows /\ watch'.snapshot = w.snapshot
      BY <1>6, <2>1, <2>2 DEF WatchType
    <2>4. WatchOK(watch', inputOwner)
      BY <1>2, <1>6, WatchRenderedOK
    <2>5. ~missed' => w.snapshot = <<>> \/ w.snapshot[1] = w.rows
      <3>1. CASE w \in WatchReads
        BY <1>3, <3>1
      <3>2. CASE w = watch /\ missed' = (missed \/ loop = "update")
        BY <3>2 DEF Settled, WatchShown
      <3>3. QED
        BY <1>4, <3>1, <3>2
    <2>6. WatchShown'
      BY <2>2, <2>3, <2>5 DEF WatchShown
    <2>7. QED
      BY <1>5, <2>3, <2>4, <2>6
  <1>7. CASE ~render
    <2>1. /\ watch' = w /\ w.snapshot = watch.snapshot /\ loop = "input"
          /\ WatchShown
      BY <1>7 DEF Settled
    <2>2. ~missed' => ~missed
      BY <1>4, <2>1
    <2>3. ~missed' => w.rows = watch.rows
      <3>1. CASE w = watch
        BY <3>1
      <3>2. CASE w \in WatchReads
        <4>1. watch.snapshot # <<>> /\ watch.snapshot[1] = w.rows
          BY <1>3, <2>1, <3>2
        <4>2. QED
          BY <2>1, <2>2, <4>1 DEF WatchShown
      <3>3. QED
        BY <3>1, <3>2
    <2>4. SelectionInView(watch'.grid) /\ Addrs(watch'.grid.rows) = Addrs(watch'.rows)
      BY <1>2, <2>1 DEF WatchShown
    <2>5. ~missed' => /\ watch'.grid.rows = watch'.rows
                      /\ watch'.snapshot = <<>> \/ watch'.snapshot[1] = watch'.rows
      BY <1>2, <2>1, <2>2, <2>3 DEF WatchShown
    <2>6. QED
      BY <1>2, <1>5, <2>1, <2>4, <2>5 DEF WatchShown
  <1>8. QED
    BY <1>6, <1>7

\* The same for the history window, which may have been rebuilt before; the program counter
\* has not changed when nothing is rendered.
LEMMA HistIterates ==
  ASSUME HistOK(hist), Settled => HistShown, LoopInv, cpuPC' \in PCVals,
         NEW before, NEW rebuilt \in BOOLEAN, NEW bp,
         before = IF rebuilt THEN RebuiltHistory(hist, lines, bp, cpuPC') ELSE hist,
         NEW h \in HistoryUpdates, NEW render,
         hist' = IF render THEN RenderHistory([h EXCEPT !.grid = before.grid], cpuPC')
                           ELSE [h EXCEPT !.grid = before.grid],
         \/ render
         \/ /\ loop = "input" /\ ~frozen /\ ~rebuilt
            /\ cpuPC' = cpuPC /\ h.snapshot = hist.snapshot
  PROVE  HistOK(hist') /\ HistShown'
  <1> DEFINE k == [h EXCEPT !.grid = before.grid]
  <1>1. lines \in Sizes /\ cpuPC \in PCVals
    BY DEF LoopInv
  <1>2. HistOK(before)
    <2>1. CASE rebuilt
      BY <1>1, <2>1, HistRebuilt
    <2>2. CASE ~rebuilt
      BY <2>2
    <2>3. QED
      BY <2>1, <2>2
  <1>3. before.grid \in GridType(PCVals)
    BY <1>2 DEF HistOK, HistType
  <1>4. \/ h = hist
        \/ \E es \in Seq(PCVals), n \in PCVals \cup {NoAddr} :
              h = HistoryInto(hist, cpuPC', es, n)
    BY <1>1, HistoryUpdatesAre
  <1>5. HistOK(h) /\ h.follow = hist.follow
    BY <1>4, HistoryReadOK
  <1>6. HistOK(k)
    BY <1>3, <1>5, HistGridOK
  <1>7. /\ k.entries = h.entries /\ k.next = h.next /\ k.follow = h.follow
        /\ k.grid = before.grid /\ k \in HistType
    BY <1>5, <1>6 DEF HistOK, HistType
  <1>8. hist' = IF render THEN RenderHistory(k, cpuPC') ELSE k
    OBVIOUS
  <1> HIDE DEF k
  <1>9. CASE render
    <2>1. PICK g \in GridType(PCVals) :
             /\ RenderHistory(k, cpuPC') = [k EXCEPT !.grid = g]
             /\ g.rows = HistoryRows(k, cpuPC') /\ SelectionInView(g)
             /\ k.follow => g.selected = LastRow(g)
      BY <1>7, HistoryRendered
    <2>2. /\ hist'.grid = g /\ hist'.follow = k.follow
          /\ hist'.entries = k.entries /\ hist'.next = k.next
      BY <1>7, <1>8, <1>9, <2>1 DEF HistType
    <2>3. HistOK(hist')
      BY <1>6, <1>8, <1>9, HistRenderedOK
    <2>4. HistShown'
      BY <2>1, <2>2 DEF HistShown, HistoryRows
    <2>5. QED
      BY <2>3, <2>4
  <1>10. CASE ~render
    <2>1. /\ hist' = k /\ before = hist /\ HistShown
          /\ cpuPC' = cpuPC /\ h.snapshot = hist.snapshot
      BY <1>8, <1>10 DEF Settled
    <2>2. h.entries = hist.entries /\ h.next = hist.next
      <3>1. CASE h = hist
        BY <3>1
      <3>2. CASE \E es \in Seq(PCVals), n \in PCVals \cup {NoAddr} :
                    h = HistoryInto(hist, cpuPC', es, n)
        <4>1. PICK es \in Seq(PCVals), n \in PCVals \cup {NoAddr} :
                 h = HistoryInto(hist, cpuPC', es, n)
          BY <3>2
        <4>2. h.entries = es /\ h.next = n /\ h.snapshot = <<cpuPC', es, n>>
          BY <4>1, HistoryReadOK
        <4>3. hist.snapshot = <<cpuPC', es, n>>
          BY <2>1, <4>2
        <4>4. hist.snapshot # <<>>
          BY <4>3
        <4>5. hist.snapshot = <<hist.snapshot[1], hist.entries, hist.next>>
          BY <4>4 DEF HistOK
        <4>6. es = hist.entries /\ n = hist.next
          BY <4>3, <4>5
        <4>7. QED
          BY <4>2, <4>6
      <3>3. QED
        BY <1>4, <3>1, <3>2
    <2>3. HistShown'
      BY <1>5, <1>7, <2>1, <2>2 DEF HistShown, HistoryRows
    <2>4. QED
      BY <1>6, <2>1, <2>3
  <1>11. QED
    BY <1>9, <1>10

\* Poll, Update and Render: the focus leaves the breakpoints window when it is hidden, and
\* both windows show what they hold.
LEMMA Iterating ==
  ASSUME IInv, Iteration
  PROVE  IInv' /\ Len(watch'.rows) = Len(watch.rows)
  <1>1. /\ FocusInv /\ OwnerInv /\ WatchOK(watch, inputOwner) /\ HistOK(hist)
        /\ LoopInv /\ (Settled => WatchShown) /\ (Settled => HistShown)
    BY DEF IInv, ScreenInv
  <1>2. /\ loop = "update" \/ (loop = "input" /\ ~frozen)
        /\ loop' = "input" /\ cpuShown' = cpuPC' /\ BreakpointsWindow
        /\ cpuPC' \in (IF work = "history" THEN PCs ELSE {cpuPC})
        /\ UNCHANGED <<lines, inputOwner, frozen, work>>
    BY DEF Iteration
  <1>3. cpuPC' \in PCVals /\ (cpuShown = cpuPC' => cpuPC' = cpuPC)
    <2>1. cpuPC \in PCVals /\ cpuShown \in {NoAddr, cpuPC}
      BY <1>1 DEF LoopInv
    <2>2. PCs \subseteq Nat
      BY BoundsAssumption
    <2>3. \A x \in PCs : x # NoAddr
      BY <2>2 DEF NoAddr
    <2>4. QED
      BY <1>2, <2>1, <2>3 DEF PCVals
  <1>4. LoopInv' /\ Settled' = ~frozen
    BY <1>1, <1>2, <1>3 DEF LoopInv, Settled
  <1>5. FocusInv'
    <2>1. "bp" \in AllWindows
      <3>1. FocusOrder[6] = "bp" /\ 6 \in DOMAIN FocusOrder
        BY DEF FocusOrder
      <3>2. QED
        BY <3>1 DEF AllWindows, ToSet
    <2>2. QED
      BY <1>1, <1>2, <2>1, Places DEF FocusInv, BreakpointsWindow, None
  <1>6. OwnerInv'
    BY <1>1, <1>2 DEF OwnerInv, BreakpointsWindow, None
  <1> DEFINE rebuilt == visible' # visible
             before == IF rebuilt THEN RebuiltHistory(hist, lines, supported', cpuPC') ELSE hist
  <1>7. PICK w \in WatchReads \cup {watch}, render \in BOOLEAN, h \in HistoryUpdates :
           /\ WatchUpdate(w)
           /\ watch' = IF render THEN RenderWatch(w) ELSE w
           /\ hist' = IF render THEN RenderHistory([h EXCEPT !.grid = before.grid], cpuPC')
                                ELSE [h EXCEPT !.grid = before.grid]
           /\ \/ render
              \/ /\ loop = "input" /\ ~rebuilt /\ cpuShown = cpuPC'
                 /\ w.snapshot = watch.snapshot /\ h.snapshot = hist.snapshot
    BY DEF Iteration
  <1>8. WatchOK(watch', inputOwner) /\ WatchShown' /\ Len(watch'.rows) = Len(watch.rows)
    BY <1>1, <1>2, <1>7, WatchIterates
  <1>9. HistOK(hist') /\ HistShown'
    <2>1. /\ rebuilt \in BOOLEAN
          /\ before = IF rebuilt THEN RebuiltHistory(hist, lines, supported', cpuPC') ELSE hist
      OBVIOUS
    <2> HIDE DEF rebuilt, before
    <2>2. \/ render
          \/ /\ loop = "input" /\ ~frozen /\ ~rebuilt
             /\ cpuPC' = cpuPC /\ h.snapshot = hist.snapshot
      <3>1. loop = "input" => ~frozen
        BY <1>2
      <3>2. QED
        BY <1>3, <1>7, <3>1
    <2>3. hist' = IF render THEN RenderHistory([h EXCEPT !.grid = before.grid], cpuPC')
                            ELSE [h EXCEPT !.grid = before.grid]
      BY <1>7
    <2>4. QED
      BY <1>1, <1>3, <2>1, <2>2, <2>3, HistIterates
  <1>10. QED
    BY <1>2, <1>4, <1>5, <1>6, <1>8, <1>9 DEF IInv, ScreenInv

(***************************************************************************)
(* The theorems.                                                           *)
(***************************************************************************)

\* The invariant holds of the screen that was just built.
LEMMA InitIInv == Init => IInv
  <1> SUFFICES ASSUME Init PROVE IInv
    OBVIOUS
  <1>1. lines \in Sizes /\ cpuPC \in PCVals
    BY DEF Init, PCVals
  <1>2. LoopInv
    BY <1>1 DEF Init, LoopInv
  <1>3. FocusInv /\ OwnerInv
    BY Places DEF Init, FocusInv, OwnerInv
  <1> DEFINE gw == NewGrid(WatchLines[lines], TRUE, 0)
             gh == NewGrid(HistoryLines(lines, supported), TRUE, 0)
  <1>4. ASSUME NEW S, NEW n \in Int
        PROVE  NewGrid(n, TRUE, 0) \in GridType(S) /\ InRange(NewGrid(n, TRUE, 0))
    <2>1. <<>> \in Seq(S)
      BY EmptySeq
    <2>2. NoView \in [y : Int, h : Int]
      BY DEF NoView, NoRow
    <2>3. QED
      BY <2>1, <2>2 DEF NewGrid, GridType, InRange, NoRow
  <1>5. WatchOK(NewWatch(lines), inputOwner)
    <2>1. gw \in GridType(WatchRow) /\ InRange(gw)
      BY <1>1, <1>4, Layout
    <2> HIDE DEF gw
    <2>2. /\ <<>> \in Seq(WatchRow) /\ NoAddr \in WatchAddrs
          /\ <<>> \in SeqOf(Chars, SearchWidth) /\ <<>> \in WatchSnapshots
      BY EmptySeq, EmptyLine DEF WatchAddrs, WatchSnapshots
    <2>3. NewWatch(lines) = [rows |-> <<>>, pending |-> NoAddr, active |-> FALSE, text |-> <<>>,
                             snapshot |-> <<>>, grid |-> gw]
      BY DEF NewWatch, gw
    <2>4. inputOwner # "watch"
      BY DEF Init, None
    <2>5. QED
      BY <2>1, <2>2, <2>3, <2>4 DEF WatchOK, WatchType
  <1>6. HistOK(NewHistory(lines, supported))
    <2>1. gh \in GridType(PCVals)
      BY <1>1, <1>4, Layout
    <2> HIDE DEF gh
    <2>2. <<>> \in Seq(PCVals) /\ <<>> \in HistSnapshots
      BY EmptySeq DEF HistSnapshots
    <2>3. NewHistory(lines, supported) = [entries |-> <<>>, next |-> NoAddr, follow |-> TRUE,
                                          snapshot |-> <<>>, grid |-> gh]
      BY DEF NewHistory, gh
    <2>4. QED
      BY <2>1, <2>2, <2>3 DEF HistOK, HistType
  <1>7. /\ watch = RenderWatch(NewWatch(lines))
        /\ hist = RenderHistory(NewHistory(lines, supported), cpuPC)
    BY DEF Init
  <1>8. WatchOK(watch, inputOwner) /\ HistOK(hist)
    BY <1>1, <1>5, <1>6, <1>7, WatchRenderedOK, HistRenderedOK
  <1>9. WatchShown
    <2> DEFINE w == NewWatch(lines)
    <2>1. w \in WatchType
      BY <1>5 DEF WatchOK
    <2>2. w.rows = <<>> /\ w.snapshot = <<>>
      BY DEF NewWatch
    <2> HIDE DEF w
    <2>3. PICK g \in GridType(WatchRow) :
             /\ RenderWatch(w) = [w EXCEPT !.grid = g]
             /\ g.rows = w.rows /\ SelectionInView(g)
      BY <2>1, WatchRendered
    <2>4. watch.grid = g /\ watch.rows = w.rows /\ watch.snapshot = w.snapshot
      BY <1>7, <2>1, <2>3 DEF WatchType, w
    <2>5. QED
      BY <2>2, <2>3, <2>4 DEF WatchShown
  <1>10. HistShown
    <2> DEFINE h == NewHistory(lines, supported)
    <2>1. h \in HistType
      BY <1>6 DEF HistOK
    <2> HIDE DEF h
    <2>2. PICK g \in GridType(PCVals) :
             /\ RenderHistory(h, cpuPC) = [h EXCEPT !.grid = g]
             /\ g.rows = HistoryRows(h, cpuPC) /\ SelectionInView(g)
             /\ h.follow => g.selected = LastRow(g)
      BY <1>1, <2>1, HistoryRendered
    <2>3. /\ hist.grid = g /\ hist.follow = h.follow
          /\ hist.entries = h.entries /\ hist.next = h.next
      BY <1>7, <2>1, <2>2 DEF HistType, h
    <2>4. HistoryRows(hist, cpuPC) = HistoryRows(h, cpuPC)
      BY <2>3 DEF HistoryRows
    <2>5. QED
      BY <2>2, <2>3, <2>4 DEF HistShown
  <1>11. QED
    BY <1>2, <1>3, <1>8, <1>9, <1>10 DEF IInv, ScreenInv

\* Every key, every resize and every iteration keeps the invariant.
LEMMA NextIInv == IInv /\ [Next]_vars => IInv'
  <1> SUFFICES ASSUME IInv, [Next]_vars PROVE IInv'
    OBVIOUS
  <1>1. CASE \E key \in DOMAIN Hotkeys : Hotkey(key)
    BY <1>1, FocusKeys
  <1>2. CASE NextWindow \/ PreviousWindow
    BY <1>2, FocusKeys
  <1>3. CASE ShutdownKey \/ OpenInput \/ CloseInput
    BY <1>3, PlainKeys
  <1>4. CASE ToggleFreeze
    BY <1>4, FreezeKey
  <1>5. CASE \E key \in {"/", "Delete"} \cup NavigationKeys : WatchKey(key)
    BY <1>5, WatchKeys
  <1>6. CASE \E key \in {"Esc", "Enter", "Backspace"} \cup Chars : SearchLineKey(key)
    BY <1>6, SearchLineKeys
  <1>7. CASE \E key \in NavigationKeys : HistoryWindowKey(key)
    BY <1>7, HistoryKeys
  <1>8. CASE Resize
    BY <1>8, Resizing
  <1>9. CASE Iteration
    BY <1>9, Iterating
  <1>10. CASE RenderFrozen
    BY <1>10, RenderingFrozen
  <1>11. CASE UNCHANGED vars
    BY <1>11 DEF vars, screenVars, stateVars, IInv, ScreenInv, LoopInv, FocusInv, OwnerInv,
                 Settled, WatchShown, HistShown
  <1>12. QED
    BY <1>1, <1>2, <1>3, <1>4, <1>5, <1>6, <1>7, <1>8, <1>9, <1>10, <1>11 DEF Next

\* The invariant of the windows.
THEOREM Invariance == Spec => []IInv
  BY InitIInv, NextIInv, PTL DEF Spec

\* ui.go:268-342, main.go:58-70: the focus is on a window that is shown, and Tab goes on from
\* it.
THEOREM FocusStays == Spec => []FocusIsConsistent
  <1>1. IInv => FocusIsConsistent
    <2> SUFFICES ASSUME IInv PROVE FocusIsConsistent
      OBVIOUS
    <2>1. FocusInv
      BY DEF IInv, ScreenInv
    <2>2. QED
      BY <2>1, Places DEF FocusInv, FocusIsConsistent
  <1>2. QED
    BY <1>1, Invariance, PTL

\* watchers.go:149-161, watchers.go:261-268: the window with the input line has the focus, and
\* what Enter adds is what the line stands for.
THEOREM InputLineFollows == Spec => []InputLineIsCurrent
  <1>1. IInv => InputLineIsCurrent
    BY DEF IInv, ScreenInv, OwnerInv, WatchOK, InputLineIsCurrent
  <1>2. QED
    BY <1>1, Invariance, PTL

\* Row by row, the addresses that are shown are those of the watchers.
LEMMA ShownAddresses ==
  ASSUME IInv, Settled
  PROVE  /\ Len(watch.grid.rows) = Len(watch.rows)
         /\ \A i \in DOMAIN watch.rows : watch.grid.rows[i].addr = watch.rows[i].addr
  <1>1. watch.rows \in Seq(WatchRow) /\ watch.grid.rows \in Seq(WatchRow)
    BY DEF IInv, ScreenInv, WatchOK, WatchType, GridType
  <1>2. Addrs(watch.grid.rows) = Addrs(watch.rows)
    BY DEF IInv, WatchShown
  <1>3. Len(watch.grid.rows) = Len(watch.rows)
    BY <1>1, <1>2, AddressesTyped
  <1>4. DOMAIN watch.rows = 1 .. Len(watch.rows)
    BY <1>1, LenProperties
  <1>5. \A i \in 1 .. Len(watch.rows) : watch.grid.rows[i].addr = watch.rows[i].addr
    BY <1>1, <1>2, <1>3, AddressesTyped
  <1>6. QED
    BY <1>3, <1>4, <1>5

\* app.go, watchers.go, history.go: the snapshots by which a window is rendered or not miss no
\* change that is shown.
THEOREM ScreenIsCurrent == Spec => []WindowsShowTheirState
  <1>1. IInv => WindowsShowTheirState
    <2> SUFFICES ASSUME IInv, Settled PROVE WindowsShowTheirState
      BY DEF Settled, WindowsShowTheirState
    <2>1. WatchShown /\ HistShown
      BY DEF IInv
    <2>2. QED
      BY <2>1, ShownAddresses DEF WatchShown, HistShown, WindowsShowTheirState
  <1>2. QED
    BY <1>1, Invariance, PTL

\* In an interface that is not frozen Delete takes the row shown as selected, and never one
\* out of bounds.
LEMMA DeletionIsOfTheShown ==
  ASSUME IInv, ~frozen, NEW key, WatchKey(key),
         Len(watch'.rows) < Len(watch.rows) \/ panicked'
  PROVE  /\ ~panicked'
         /\ Addrs(watch'.rows) = RemoveAt(Addrs(watch.grid.rows), watch.grid.selected + 1)
  <1>1. inputOwner = None /\ loop = "input" /\ Handled(frozen)
    BY DEF WatchKey, Shortcut, Pressed, Handled
  <1>2. /\ WatchOK(watch, None) /\ watch.rows \in Seq(WatchRow)
        /\ watch.grid \in GridType(WatchRow)
        /\ InRange(watch.grid) /\ Settled /\ Addrs(watch.grid.rows) = Addrs(watch.rows)
    BY <1>1 DEF IInv, ScreenInv, WatchOK, WatchType, Settled, WatchShown
  <1>3. Len(watch.rows) \in Nat /\ Len(watch.grid.rows) = Len(watch.rows)
    BY <1>2, ShownAddresses, LenProperties
  <1>4. watch.grid.selected # NoRow => ~DeletePanics(watch)
    BY <1>2, <1>3 DEF InRange, DeletePanics
  <1>5. ~panicked'
    BY <1>4 DEF WatchKey
  <1>6. CASE key = "/"
    <2>1. watch'.rows = watch.rows
      BY <1>2, <1>6 DEF WatchKey, OpenSearch, WatchOK, WatchType
    <2>2. QED
      BY <1>3, <1>5, <2>1
  <1>7. CASE key = "Delete"
    <2>1. watch' = DeleteSelected(watch)
      BY <1>7 DEF WatchKey
    <2>2. /\ watch.grid.selected + 1 \in 1 .. Len(watch.rows)
          /\ watch'.rows = RemoveAt(watch.rows, watch.grid.selected + 1)
      <3>1. watch' # watch
        BY <1>3, <1>5
      <3>2. QED
        BY <1>2, <2>1, <3>1, DeletedOK
    <2>3. QED
      BY <1>2, <1>5, <2>2, AddressesRemoved
  <1>8. CASE key \notin {"/", "Delete"}
    <2>1. watch'.rows = watch.rows
      BY <1>2, <1>8 DEF WatchKey, WatchOK, WatchType
    <2>2. QED
      BY <1>3, <1>5, <2>1
  <1>9. QED
    BY <1>6, <1>7, <1>8

\* Nothing else removes a watcher, and nothing else panics.
LEMMA OthersKeepTheRows ==
  ASSUME IInv, [Next]_vars, \A key : ~WatchKey(key)
  PROVE  ~(Len(watch'.rows) < Len(watch.rows)) /\ (panicked' => panicked)
  <1>1. WatchOK(watch, inputOwner) /\ HistOK(hist)
    BY DEF IInv, ScreenInv
  <1>2. watch.rows \in Seq(WatchRow) /\ watch \in WatchType
    BY <1>1 DEF WatchOK, WatchType
  <1>3. Len(watch.rows) \in Nat
    BY <1>2, LenProperties
  <1>4. ASSUME NEW w, Focus(w) PROVE watch'.rows = watch.rows
    BY <1>2, <1>4 DEF Focus, WatchType
  <1>5. CASE (\E key \in DOMAIN Hotkeys : Hotkey(key)) \/ NextWindow \/ PreviousWindow
    <2>1. ASSUME NEW step, FocusStep(step) PROVE \E w : Focus(w)
      BY <2>1 DEF FocusStep
    <2>2. (\E w : Focus(w)) /\ panicked' = panicked
      BY <1>5, <2>1 DEF Hotkey, NextWindow, PreviousWindow
    <2>3. QED
      BY <1>3, <1>4, <2>2
  <1>6. CASE \/ ShutdownKey \/ OpenInput \/ CloseInput
             \/ \E key \in NavigationKeys : HistoryWindowKey(key)
    BY <1>3, <1>6 DEF ShutdownKey, OpenInput, CloseInput, HistoryWindowKey
  <1>7. CASE ToggleFreeze \/ RenderFrozen
    <2>1. RenderWatch(watch).rows = watch.rows
      BY <1>2 DEF RenderWatch, WatchType
    <2>2. QED
      BY <1>3, <1>7, <2>1 DEF ToggleFreeze, RenderFrozen
  <1>8. CASE \E key \in {"Esc", "Enter", "Backspace"} \cup Chars : SearchLineKey(key)
    <2>1. panicked' = panicked
      BY <1>8 DEF SearchLineKey
    <2>2. Len(watch'.rows) >= Len(watch.rows)
      BY <1>8, SearchLineKeys
    <2>3. watch' \in WatchType
      BY <1>8, SearchLineKeys DEF IInv, ScreenInv, WatchOK
    <2>4. Len(watch'.rows) \in Nat
      BY <2>3, LenProperties DEF WatchType
    <2>5. QED
      BY <1>3, <2>1, <2>2, <2>4
  <1>9. CASE Resize
    <2>1. lines' \in Sizes /\ watch' = RebuiltWatch(watch, lines') /\ panicked' = panicked
      BY <1>9 DEF Resize
    <2>2. watch'.rows = watch.rows
      BY <1>2, <2>1 DEF RebuiltWatch, RenderWatch, WatchType
    <2>3. QED
      BY <1>3, <2>1, <2>2
  <1>10. CASE Iteration
    <2>1. Len(watch'.rows) = Len(watch.rows) /\ panicked' = panicked
      BY <1>10, Iterating DEF Iteration
    <2>2. QED
      BY <1>3, <2>1
  <1>11. CASE UNCHANGED vars
    BY <1>3, <1>11 DEF vars
  <1>12. QED
    BY <1>5, <1>6, <1>7, <1>8, <1>9, <1>10, <1>11 DEF Next

\* watchers.go:218-225: a watcher that goes is the one shown as selected, unless the interface
\* was frozen.
THEOREM DeletionIsOfTheShownRow == Spec => DeletesTheShown
  <1> DEFINE Prop == Len(watch'.rows) < Len(watch.rows) \/ panicked' =>
                       \/ frozen
                       \/ /\ ~panicked'
                          /\ Addrs(watch'.rows) =
                                RemoveAt(Addrs(watch.grid.rows), watch.grid.selected + 1)
  <1>1. IInv /\ [Next]_vars => [Prop]_vars
    <2> SUFFICES ASSUME IInv, [Next]_vars, ~frozen,
                        Len(watch'.rows) < Len(watch.rows) \/ panicked',
                        vars' # vars
                 PROVE  /\ ~panicked'
                        /\ Addrs(watch'.rows) =
                              RemoveAt(Addrs(watch.grid.rows), watch.grid.selected + 1)
      OBVIOUS
    <2>1. CASE \E key : WatchKey(key)
      BY <2>1, DeletionIsOfTheShown
    <2>2. CASE \A key : ~WatchKey(key)
      <3>1. ~(Len(watch'.rows) < Len(watch.rows)) /\ (panicked' => panicked)
        BY <2>2, OthersKeepTheRows
      <3>2. ~panicked
        BY DEF Next, Hotkey, NextWindow, PreviousWindow, ShutdownKey, OpenInput, CloseInput,
               ToggleFreeze, WatchKey, SearchLineKey, HistoryWindowKey, Resize, RenderFrozen,
               Iteration, Shortcut, Pressed, Handled
      <3>3. QED
        BY <3>1, <3>2
    <2>3. QED
      BY <2>1, <2>2
  <1>2. QED
    BY <1>1, Invariance, PTL DEF Spec, DeletesTheShown, Prop

=============================================================================
