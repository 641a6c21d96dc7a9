------------------------------- MODULE Windows -------------------------------
(***************************************************************************)
(* Which window of the Go monitor gets a key, and what the watchers window *)
(* and the history window do with theirs: ui.go (focus, input focus),      *)
(* shortcuts.go, monitor/main.go (layout, hot keys, the breakpoints window *)
(* that comes and goes), monitor/app.go (handleInput and the order of an   *)
(* iteration), monitor/watchers.go, monitor/history.go.                    *)
(*                                                                         *)
(* An iteration of the loop handles a key, polls, updates the windows and  *)
(* renders them; a frozen user interface handles keys and nothing else.    *)
(* The other windows are in BreakpointsViewer, Disassembly, ScreenWindows: *)
(* here they take a key, open an input line or close it.                   *)
(***************************************************************************)
EXTENDS Grid, SymbolSearch

CONSTANTS
    Chars,          \* the characters that are typed
    SearchWidth,    \* length of the search line (8 in the code)
    Values,         \* what a byte of memory may hold
    PCs,            \* values of the program counter
    MaxHistory,     \* bound: the emulator's history
    MaxRows,        \* bound: rows of the watchers window
    MaxFrozenKeys,  \* bound: keys pressed before the interface is not frozen any more
    Sizes           \* bound: lines of the terminal

ASSUME BoundsAssumption ==
    /\ {SearchWidth, MaxHistory, MaxRows, MaxFrozenKeys} \subseteq Nat
    /\ Sizes \subseteq Nat /\ \A n \in Sizes : n > 5
    /\ PCs \subseteq Nat

VARIABLES
    lines,       \* of the terminal
    supported,   \* State().BreakpointsSupported
    visible,     \* the windows that are shown
    focused, focusIndex,
    inputOwner,  \* the window whose handler has all keys
    shutdown,    \* State().ActiveMode is the shutdown mode
    frozen,      \* State().UIFrozen
    cpuPC,       \* State().CPU.PC
    cpuShown,    \* CpuStateViewer.lastSnapshot
    watch,       \* the watchers window
    hist,        \* the history window, and State().History
    loop,        \* where the application loop stands: "update" after a key, "render"
                 \* after the key that freezes, "input" when the next key is read
    panicked,    \* a slice out of its bounds
    frozenKeys,  \* bound: keys pressed since the interface was frozen
    missed,      \* history: the watchers were rendered after a key without being
                 \* read, since the read failed or the terminal was resized with the
                 \* key, and their snapshot is still that of an earlier screen
    work         \* bound: what the user works with in a behaviour

screenVars == <<visible, focused, focusIndex, inputOwner>>
stateVars  == <<supported, shutdown, frozen, cpuPC>>
vars == <<lines, screenVars, stateVars, cpuShown, watch, hist, loop, panicked, frozenKeys, missed, work>>

None == "none"
FocusOrder == <<"dlist", "watch", "screen", "disasm", "history", "bp">>
AllWindows == ToSet(FocusOrder)
IndexOf == [w \in AllWindows \cup {None} |-> SelectInSeq(FocusOrder, LAMBDA x : x = w) - 1]

(***************************************************************************)
(* The layout of main.go, and the lines inside the frames.                 *)
(***************************************************************************)
Inside(h) == IF h >= 3 THEN h - 2 ELSE 1

UpperH(n) == AtLeast(1, n - 6)

WatchLines ==
    [n \in Sizes |->
        LET left == AtLeast(2, UpperH(n))
            h == left - AtLeast(1, left \div 2) + 1
        IN  Inside(AtLeast(1, h - Min({4, h - 1})))]

HistoryLines(n, bp) ==
    LET h == UpperH(n) + 1
    IN  Inside(IF bp THEN AtLeast(1, h - Min({13, h - 1})) ELSE h)

(***************************************************************************)
(* The watchers window.                                                    *)
(***************************************************************************)
NewWatch(n) ==
    [rows |-> <<>>, pending |-> NoAddr, active |-> FALSE, text |-> <<>>, snapshot |-> <<>>,
     grid |-> NewGrid(WatchLines[n], TRUE, 0)]

WatchSnapshot(w) == <<w.rows, w.pending, w.grid.selected, w.active, w.text>>

RenderWatch(w) ==
    LET overlay == (IF w.active THEN 1 ELSE 0) + (IF w.pending # NoAddr THEN 1 ELSE 0)
        view == SetViewport(w.grid, overlay, w.grid.ih - overlay)
    IN  [w EXCEPT !.grid = RenderGrid(SetData(view, w.rows))]

\* What a search line stands for.
Address == [text \in SeqOf(Chars, SearchWidth) |-> FindSymbolOrAddress(text)]

\* onSearchChange after every change of the line.
Typed(w, text) == [w EXCEPT !.text = text, !.pending = Address[text]]

\* Mutant: Backspace does not look for the address again.
SearchKey_KeepsPending(w, key) ==
    CASE key = "Backspace" /\ w.text # <<>> -> [w EXCEPT !.text = Front(@)]
      [] key \in Chars /\ Len(w.text) < SearchWidth -> Typed(w, Append(w.text, key))
      [] OTHER -> w

SearchKey(w, key) ==
    CASE key = "Backspace" /\ w.text # <<>> -> Typed(w, Front(w.text))
      [] key \in Chars /\ Len(w.text) < SearchWidth -> Typed(w, Append(w.text, key))
      [] OTHER -> w

OpenSearch(w) == [w EXCEPT !.active = TRUE, !.text = <<>>, !.pending = NoAddr]
CloseSearch(w) == [w EXCEPT !.active = FALSE, !.text = <<>>, !.pending = NoAddr]

\* An address that is there is selected, another one is put before the rest.
CommitPending(w) ==
    LET at == SelectInSeq(w.rows, LAMBDA r : r.addr = w.pending)
    IN  CASE w.pending = NoAddr -> w
          [] w.pending # NoAddr /\ at # 0 -> [w EXCEPT !.grid = SetSelectedRow(@, at - 1)]
          [] OTHER -> [w EXCEPT !.rows = <<[addr |-> w.pending, value |-> 0]>> \o @,
                                !.grid = SetSelectedRow(@, NoRow)]

\* The row is one of the grid, which may have more rows than the window.
DeletePanics(w) == w.grid.selected >= Len(w.rows)

\* Mutant: the row after the selected one is taken.
DeleteSelected_Next(w) ==
    IF w.grid.selected = NoRow \/ w.grid.selected + 2 > Len(w.rows) THEN w
    ELSE [w EXCEPT !.rows = RemoveAt(@, w.grid.selected + 2)]

DeleteSelected(w) ==
    IF w.grid.selected = NoRow \/ DeletePanics(w) THEN w
    ELSE [w EXCEPT !.rows = RemoveAt(@, w.grid.selected + 1),
                   !.grid = SetSelectedRow(@, @.selected)]

(***************************************************************************)
(* The history window, newest entry last.                                  *)
(***************************************************************************)
NewHistory(n, bp) ==
    [entries |-> <<>>, next |-> NoAddr, follow |-> TRUE, snapshot |-> <<>>,
     grid |-> NewGrid(HistoryLines(n, bp), TRUE, 0)]

HistoryRows(h, pc) == Append(Reverse(h.entries), IF h.next = NoAddr THEN pc ELSE h.next)

RenderHistory(h, pc) ==
    LET g == SetData(h.grid, HistoryRows(h, pc))
    IN  [h EXCEPT !.grid = RenderGrid(IF h.follow \/ g.selected = NoRow
                                      THEN SetSelectedRow(g, LastRow(g)) ELSE g)]

HistoryKey(h, key) ==
    [h EXCEPT !.grid = GridInput(@, key, Chars), !.follow = (key = "End")]

-----------------------------------------------------------------------------
Init ==
    /\ work \in {"focus", "watch", "history"}
    /\ lines \in Sizes /\ supported \in (IF work = "watch" THEN {FALSE} ELSE BOOLEAN)
    /\ visible = IF supported THEN AllWindows ELSE AllWindows \ {"bp"}
    /\ focused = None /\ focusIndex = -1 /\ inputOwner = None
    /\ shutdown = FALSE /\ frozen = FALSE
    /\ cpuPC \in (IF work = "history" THEN PCs ELSE {Min(PCs)}) /\ cpuShown = NoAddr
    /\ watch = RenderWatch(NewWatch(lines))
    /\ hist = RenderHistory(NewHistory(lines, supported), cpuPC)
    /\ loop = "input" /\ panicked = FALSE /\ frozenKeys = 0
    /\ missed = FALSE

(***************************************************************************)
(* Keys.  A key goes to the owner of the input, or to the focused window   *)
(* first, to the shortcuts of the mode then, to the global ones last.      *)
(***************************************************************************)

\* Handled; the iteration goes on to the update unless the interface is frozen now:
\* the key that freezes it renders once more, one while it is frozen does nothing else.
Handled(nowFrozen) ==
    /\ loop = "input" /\ ~panicked
    /\ frozen' = nowFrozen
    /\ frozenKeys' = IF frozen THEN frozenKeys + 1 ELSE 0
    /\ frozenKeys' <= MaxFrozenKeys
    /\ loop' = IF ~nowFrozen THEN "update" ELSE IF frozen THEN "input" ELSE "render"
    /\ UNCHANGED <<lines, supported, cpuPC, cpuShown, missed, work>>

Pressed == Handled(frozen)
Shortcut == Pressed /\ inputOwner = None

\* Keys that a focused window takes before the shortcuts see them.
Takes(key) ==
    \/ focused = "watch" /\ (key \in {"/", "Delete"} \/ GridTakes(watch.grid, key))
    \/ focused = "history" /\ GridTakes(hist.grid, key)

\* Screen.Focus; the watchers window forgets its selection when it gets the focus.
Focus(w) ==
    IF (w # None /\ w \notin visible) \/ w = focused
    THEN UNCHANGED <<focused, focusIndex, watch>>
    ELSE /\ focused' = w
         /\ focusIndex' = IndexOf[w]
         /\ watch' = IF w = "watch" THEN [watch EXCEPT !.grid = SetSelectedRow(@, NoRow)] ELSE watch

\* Screen.focusStep over the six windows, the hidden one left out.
FocusStep(step) ==
    LET total == Len(FocusOrder)
        from == IF focusIndex \in 0 .. total - 1 THEN focusIndex ELSE IF step > 0 THEN -1 ELSE 0
        at(i) == FocusOrder[((from + i * step + i * total) % total) + 1]
        tries == {i \in 1 .. total : at(i) \in visible}
    IN  Focus(at(Min(tries)))

Hotkeys == [l |-> "dlist", w |-> "watch", s |-> "screen", d |-> "disasm", h |-> "history", b |-> "bp"]

\* The shutdown mode has a 'w' of its own.
Hotkey(key) ==
    /\ Shortcut /\ ~(shutdown /\ key = "w")
    /\ work # "focus" => key \in {"w", "h"}
    /\ Focus(Hotkeys[key])
    /\ UNCHANGED <<visible, inputOwner, shutdown, hist, panicked>>

NextWindow ==
    /\ work = "focus" /\ Shortcut /\ FocusStep(1)
    /\ UNCHANGED <<visible, inputOwner, shutdown, hist, panicked>>

PreviousWindow ==
    /\ work = "focus" /\ Shortcut /\ FocusStep(-1)
    /\ UNCHANGED <<visible, inputOwner, shutdown, hist, panicked>>

\* Escape enters and leaves the shutdown mode; 'c', 'w' and 't' leave it too.
ShutdownKey ==
    /\ work = "focus" /\ Shortcut
    /\ shutdown' = ~shutdown
    /\ UNCHANGED <<screenVars, watch, hist, panicked>>

ToggleFreeze ==
    /\ Handled(~frozen) /\ inputOwner = None
    /\ UNCHANGED <<screenVars, shutdown, watch, hist, panicked>>

WatchKey(key) ==
    /\ work = "watch" /\ Shortcut /\ focused = "watch" /\ Takes(key)
    /\ panicked' = (key = "Delete" /\ watch.grid.selected # NoRow /\ DeletePanics(watch))
    /\ watch' = CASE key = "/" -> OpenSearch(watch)
                  [] key = "Delete" -> DeleteSelected(watch)
                  [] OTHER -> [watch EXCEPT !.grid = GridInput(@, key, Chars)]
    /\ inputOwner' = IF key = "/" THEN "watch" ELSE inputOwner
    /\ UNCHANGED <<visible, focused, focusIndex, shutdown, hist>>

SearchLineKey(key) ==
    /\ Pressed /\ inputOwner = "watch"
    /\ key = "Enter" => Len(watch.rows) < MaxRows
    /\ LET w == IF key = "Enter" THEN CommitPending(watch) ELSE watch
       IN  watch' = IF key \in {"Esc", "Enter"} THEN CloseSearch(w) ELSE SearchKey(w, key)
    /\ inputOwner' = IF key \in {"Esc", "Enter"} THEN None ELSE inputOwner
    /\ UNCHANGED <<visible, focused, focusIndex, shutdown, hist, panicked>>

HistoryWindowKey(key) ==
    /\ work = "history" /\ Shortcut /\ focused = "history" /\ Takes(key)
    /\ hist' = HistoryKey(hist, key)
    /\ UNCHANGED <<screenVars, shutdown, watch, panicked>>

\* The other two windows with an input line open it and close it.
OpenInput ==
    /\ work = "focus" /\ Shortcut /\ focused \in {"disasm", "bp"}
    /\ inputOwner' = focused
    /\ UNCHANGED <<visible, focused, focusIndex, shutdown, watch, hist, panicked>>

CloseInput ==
    /\ Pressed /\ inputOwner \in {"disasm", "bp"}
    /\ inputOwner' = None
    /\ UNCHANGED <<visible, focused, focusIndex, shutdown, watch, hist, panicked>>

\* App.RebuildScreen: layout and render, whatever is frozen.
RebuiltWatch(w, n) == RenderWatch([w EXCEPT !.grid.ih = WatchLines[n]])
RebuiltHistory(h, n, bp, pc) == RenderHistory([h EXCEPT !.grid.ih = HistoryLines(n, bp)], pc)

\* Such an iteration ends here, with a key or without; only the columns may change.
Resize ==
    /\ work # "focus" /\ ~panicked
    /\ lines' \in Sizes
    /\ watch' = RebuiltWatch(watch, lines')
    /\ hist' = RebuiltHistory(hist, lines', "bp" \in visible, cpuPC)
    /\ loop' = "input"
    /\ missed' = (missed \/ loop = "update")
    /\ UNCHANGED <<screenVars, stateVars, cpuShown, panicked, frozenKeys, work>>

\* The rest of the iteration whose key froze the interface.
RenderFrozen ==
    /\ loop = "render" /\ ~panicked
    /\ watch' = RenderWatch(watch) /\ hist' = RenderHistory(hist, cpuPC)
    /\ loop' = "input"
    /\ UNCHANGED <<lines, screenVars, stateVars, cpuShown, panicked, frozenKeys, missed, work>>

(***************************************************************************)
(* The rest of an iteration: the poll, and Update and Render of all        *)
(* windows in the order main.go adds them in.                              *)
(***************************************************************************)

\* What Update makes of the watchers window: a read that fails leaves it all.
WatchReads ==
    LET read(vs) == [watch EXCEPT !.rows = [i \in DOMAIN @ |-> [@[i] EXCEPT !.value = vs[i]]]]
    IN  {[read(vs) EXCEPT !.snapshot = WatchSnapshot(read(vs))] : vs \in [DOMAIN watch.rows -> Values]}

WatchUpdate(w) ==
    \/ w \in WatchReads /\ missed' = (missed /\ w.snapshot = watch.snapshot)
    \/ /\ watch.rows # <<>> \/ watch.pending # NoAddr
       /\ w = watch
       /\ missed' = (missed \/ loop = "update")

\* The history, and the instruction at the program counter when it can be read.
HistoryUpdates ==
    LET read(es, n) == [hist EXCEPT !.entries = es, !.next = n, !.snapshot = <<cpuPC', es, n>>]
    IN  IF work # "history" THEN {read(<<>>, cpuPC)}
        ELSE {hist} \cup {read(x[1], x[2]) : x \in SeqOf(PCs, MaxHistory) \X {cpuPC', hist.next}}

\* Mutant: the window is hidden with the focus on it.
BreakpointsWindow_KeepsFocus ==
    /\ UNCHANGED <<focused, focusIndex>>
    /\ visible' = IF supported' THEN visible \cup {"bp"} ELSE visible \ {"bp"}

\* BreakpointsWindowUpdater.
BreakpointsWindow ==
    /\ IF ~supported' /\ focused = "bp" THEN focused' = None /\ focusIndex' = -1
                                       ELSE UNCHANGED <<focused, focusIndex>>
    /\ visible' = IF supported' THEN visible \cup {"bp"} ELSE visible \ {"bp"}

\* Nothing is rendered when no window says that it changed and no key was handled;
\* the screen is rebuilt before the history window is updated.
Iteration ==
    /\ loop = "update" \/ (loop = "input" /\ ~frozen)
    /\ ~panicked
    /\ loop' = "input"
    /\ supported' \in (IF work = "watch" THEN {supported} ELSE BOOLEAN)
    /\ cpuPC' \in (IF work = "history" THEN PCs ELSE {cpuPC})
    /\ BreakpointsWindow
    /\ cpuShown' = cpuPC'
    /\ LET rebuilt == visible' # visible
           before == IF rebuilt THEN RebuiltHistory(hist, lines, supported', cpuPC') ELSE hist
           after(h) == [h EXCEPT !.grid = before.grid]
       IN  \E w \in WatchReads \cup {watch}, render \in BOOLEAN :      \* another window may have changed
              /\ WatchUpdate(w)
              /\ watch' = IF render THEN RenderWatch(w) ELSE w
              /\ \E h \in HistoryUpdates :
                    /\ hist' = IF render THEN RenderHistory(after(h), cpuPC') ELSE after(h)
                    /\ \/ render
                       \/ /\ loop = "input" /\ ~rebuilt /\ cpuShown = cpuPC'
                          /\ w.snapshot = watch.snapshot /\ h.snapshot = hist.snapshot
    /\ UNCHANGED <<lines, inputOwner, shutdown, frozen, panicked, frozenKeys, work>>

Next ==
    \/ \E key \in DOMAIN Hotkeys : Hotkey(key)
    \/ NextWindow \/ PreviousWindow \/ ShutdownKey \/ ToggleFreeze
    \/ \E key \in {"/", "Delete"} \cup NavigationKeys : WatchKey(key)
    \/ \E key \in {"Esc", "Enter", "Backspace"} \cup Chars : SearchLineKey(key)
    \/ \E key \in NavigationKeys : HistoryWindowKey(key)
    \/ OpenInput \/ CloseInput \/ Resize \/ RenderFrozen \/ Iteration

Spec == Init /\ [][Next]_vars

-----------------------------------------------------------------------------
\* The focus is on a window that is shown and where Tab goes on from, though
\* the breakpoints window comes and goes (main.go:58-70).
FocusIsConsistent ==
    /\ focused # None => focused \in visible /\ FocusOrder[focusIndex + 1] = focused
    /\ focused = None => focusIndex = -1

\* The window with the input line has the focus, unless it is the breakpoints
\* window and was hidden; what Enter adds to the watchers is the address the
\* line stands for (onSearchChange).
InputLineIsCurrent ==
    /\ inputOwner # None => focused = inputOwner \/ (inputOwner = "bp" /\ focused = None)
    /\ watch.active <=> inputOwner = "watch"
    /\ watch.pending = IF watch.active THEN Address[watch.text] ELSE NoAddr

SelectionInView(g) ==
    g.selected = NoRow \/ (g.selected < Len(g.rows) /\
                           (ViewH(g) > 0 => g.selected \in g.offset .. g.offset + ViewH(g) - 1))

\* Between two iterations of a loop that is not frozen both windows show what they
\* hold, with the selected row in view, and the history its newest row unless the
\* user moved away from it: the snapshots miss no change, and a smaller window or a
\* shorter list takes the selection along.  But the values of the watchers may be
\* those before the last read (watchers.go:107) when no read followed a key: it failed,
\* or the terminal was resized with the key (app.go:100-113).
WindowsShowTheirState ==
    loop = "input" /\ ~frozen =>
        /\ Len(watch.grid.rows) = Len(watch.rows)
        /\ \A i \in DOMAIN watch.rows :
              \/ watch.grid.rows[i] = watch.rows[i]
              \/ missed /\ watch.grid.rows[i].addr = watch.rows[i].addr
        /\ hist.grid.rows = HistoryRows(hist, cpuPC)
        /\ SelectionInView(watch.grid) /\ SelectionInView(hist.grid)
        /\ hist.follow => hist.grid.selected = LastRow(hist.grid)

Addrs(rows) == [i \in DOMAIN rows |-> rows[i].addr]

\* Delete takes the row that is shown as selected, unless the interface is frozen:
\* its grid then still has rows that the window has not, and the index may even be
\* out of bounds (watchers.go:223).
DeletesTheShown ==
    [][Len(watch'.rows) < Len(watch.rows) \/ panicked' =>
          \/ frozen
          \/ /\ ~panicked'
             /\ Addrs(watch'.rows) = RemoveAt(Addrs(watch.grid.rows), watch.grid.selected + 1)]_vars
==============================================================================
