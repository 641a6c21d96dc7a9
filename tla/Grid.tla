-------------------------------- MODULE Grid --------------------------------
(***************************************************************************)
(* ui.go: the grid every window of the monitor shows its rows with, as     *)
(* operators on a record: the rows, the scroll offset, the selected and    *)
(* the highlighted row, the cell that is edited, the part of the window    *)
(* the grid may use and the scroll bar of a list longer than its rows.     *)
(* Drawing is left out but for what it does to that state.                 *)
(***************************************************************************)
EXTENDS Integers, Sequences, FiniteSetsExt

NoRow == -1
NoView == [y |-> NoRow, h |-> 0]
NoScroll == [total |-> 0, offset |-> 0, page |-> 0]

\* ih is the inner height of its window, lines wide the cell that is edited.
NewGrid(ih, selectable, editable) ==
    [rows |-> <<>>, ih |-> ih, offset |-> 0, selected |-> NoRow, highlighted |-> NoRow,
     selectable |-> selectable, editable |-> editable, editing |-> FALSE, editRow |-> 0,
     editValue |-> <<>>, view |-> NoView, virtual |-> NoScroll]

\* x, or the nearest of lo..hi; the lower bound wins when there is none.
AtLeast(lo, x) == IF x < lo THEN lo ELSE x
Within(x, lo, hi) == AtLeast(lo, IF x > hi THEN hi ELSE x)

\* viewportMetrics: the lines of the window the grid may use.
Metrics(g) ==
    IF g.ih <= 0 \/ g.view = NoView THEN [y |-> 0, h |-> AtLeast(0, g.ih)]
    ELSE LET y == Within(g.view.y, 0, g.ih)
         IN  [y |-> y, h |-> Within(g.view.h, 0, g.ih - y)]

ViewH(g) == Metrics(g).h
MaxOffset(g) == AtLeast(0, Len(g.rows) - ViewH(g))
LastRow(g) == Len(g.rows) - 1
InRows(g, row) == Within(row, 0, LastRow(g))

EnsureRowVisible(g, row) ==
    LET r == InRows(g, row)
    IN  IF ViewH(g) <= 0 \/ g.rows = <<>> THEN g
        ELSE IF r < g.offset THEN [g EXCEPT !.offset = r]
        ELSE IF r > g.offset + ViewH(g) - 1 THEN [g EXCEPT !.offset = r - ViewH(g) + 1]
        ELSE g

\* Mutant: the selection is left where it was when the rows get fewer.
ClampState_KeepsSelection(g) ==
    LET kept(row) == IF g.rows = <<>> \/ row = NoRow THEN NoRow ELSE InRows(g, row)
    IN  [g EXCEPT !.highlighted = kept(@), !.offset = Within(@, 0, MaxOffset(g))]

ClampState(g) ==
    LET kept(row) == IF g.rows = <<>> \/ row = NoRow THEN NoRow ELSE InRows(g, row)
        h == [g EXCEPT !.selected = kept(@), !.highlighted = kept(@),
                       !.offset = Within(@, 0, MaxOffset(g))]
    IN  IF h.selected = NoRow THEN h ELSE EnsureRowVisible(h, h.selected)

StopsEditing(g) == [g EXCEPT !.editing = FALSE, !.editRow = 0, !.editValue = <<>>]

SetData(g, rows) == ClampState([StopsEditing(g) EXCEPT !.rows = rows])

\* NoRow stands for the nil of the code.
SetSelectedRow(g, row) ==
    IF row = NoRow \/ g.rows = <<>>
    THEN IF g.selected = NoRow THEN g ELSE [g EXCEPT !.selected = NoRow, !.editing = FALSE]
    ELSE IF g.selected = InRows(g, row) THEN g
    ELSE EnsureRowVisible([g EXCEPT !.selected = InRows(g, row), !.editing = FALSE], row)

SetHighlightedRow(g, row) ==
    [g EXCEPT !.highlighted = IF row = NoRow \/ g.rows = <<>> THEN NoRow ELSE InRows(g, row)]

SetOffset(g, offset) == [g EXCEPT !.offset = Within(offset, 0, MaxOffset(g))]
SetViewport(g, y, h) == [g EXCEPT !.view = [y |-> AtLeast(0, y), h |-> AtLeast(0, h)]]

SetVirtualScroll(g, total, offset, page) ==
    LET t == AtLeast(1, total)
        p == Within(page, 1, t)
    IN  [g EXCEPT !.virtual = [total |-> t, page |-> p, offset |-> Within(offset, 0, t - p)]]

MoveSelected(g, delta) ==
    CASE g.rows = <<>> -> SetSelectedRow(g, NoRow)
      [] g.rows # <<>> /\ g.selected = NoRow -> SetSelectedRow(g, IF delta < 0 THEN LastRow(g) ELSE 0)
      [] OTHER -> SetSelectedRow(g, InRows(g, g.selected + delta))

Page(g) == AtLeast(1, ViewH(g))

NavigationKeys == {"Up", "Down", "PageUp", "PageDown", "Home", "End"}

\* HandleNavigationInput: a grid without selection scrolls.
Navigate(g, key) ==
    LET by == CASE key = "Up" -> -1 [] key = "Down" -> 1 [] key = "PageUp" -> -Page(g)
                [] key = "PageDown" -> Page(g) [] OTHER -> 0
    IN  CASE key = "Home" -> IF g.selectable THEN SetSelectedRow(g, IF g.rows = <<>> THEN NoRow ELSE 0)
                                             ELSE SetOffset(g, 0)
          [] key = "End" -> IF g.selectable THEN SetSelectedRow(g, LastRow(g))
                                            ELSE SetOffset(g, MaxOffset(g))
          [] OTHER -> IF g.selectable THEN MoveSelected(g, by) ELSE SetOffset(g, g.offset + by)

BeginEdit(g, row, value) ==
    IF g.editable = 0 \/ row \notin 0..LastRow(g) THEN g
    ELSE [g EXCEPT !.editing = TRUE, !.editRow = row, !.editValue = value]

\* handleEditInput takes every key of an edited row that is still there; keys
\* that are characters are those of Chars.  A callback learns the new value.
EditTakes(g) == g.editable > 0 /\ g.editing /\ g.editRow \in 0..LastRow(g)

EditInput(g, key, Chars) ==
    CASE key \in {"Enter", "Esc"} -> StopsEditing(g)
      [] key = "Backspace" /\ g.editValue # <<>> ->
             [g EXCEPT !.editValue = SubSeq(@, 1, Len(@) - 1)]
      [] key \in Chars /\ Len(g.editValue) < g.editable ->
             [g EXCEPT !.editValue = Append(@, key)]
      [] OTHER -> g

\* HandleInput: an edit first, navigation else; a key of neither is not taken.
GridInput(g, key, Chars) ==
    IF EditTakes(g) THEN EditInput(g, key, Chars)
    ELSE LET h == IF g.editable > 0 /\ g.editing THEN [g EXCEPT !.editing = FALSE] ELSE g
         IN  IF key \in NavigationKeys THEN Navigate(h, key) ELSE h

GridTakes(g, key) == EditTakes(g) \/ key \in NavigationKeys

\* Render clamps before it draws rows offset..offset + h - 1.
RenderGrid(g) == IF ViewH(g) <= 0 THEN g ELSE ClampState(g)

\* The scroll bar: what it stands for and where its thumb is drawn.
ScrollbarMetrics(g) ==
    IF g.virtual # NoScroll THEN g.virtual
    ELSE [total |-> Len(g.rows), page |-> Page(g),
          offset |-> Within(g.offset, 0, AtLeast(0, Len(g.rows) - Page(g)))]

Thumb(g) ==
    LET m == ScrollbarMetrics(g)
        h == Min({ViewH(g), AtLeast(1, (ViewH(g) * m.page) \div m.total)})
    IN  [h |-> h, top |-> (m.offset * (ViewH(g) - h)) \div AtLeast(1, m.total - m.page)]
==============================================================================
