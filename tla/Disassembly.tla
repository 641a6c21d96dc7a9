----------------------------- MODULE Disassembly -----------------------------
(***************************************************************************)
(* monitor/disassembly.go: the window that shows the program as 6502       *)
(* instructions.  It follows the program counter or is moved by keys, goes *)
(* to an address that is typed, and writes an instruction that is typed in *)
(* place of a shown one into the emulator's memory.                        *)
(*                                                                         *)
(* Update writes the confirmed instruction, moves, reads and, to follow,   *)
(* reads again: each is a call that may fail, and the emulator runs        *)
(* between them.  Render follows Update and shows State().                 *)
(***************************************************************************)
EXTENDS Grid, Assembler

CONSTANTS
    Programs,    \* what the emulator may run: its memory, its program counters, the changes
                 \* it makes; bounds: the keys used with it and how many presses there are
    Heights,     \* lines inside the window
    Digits,      \* bound: digits that are typed
    Texts,       \* bound: statements typed in place of a shown one
    MaxChanges,  \* bound: changes the running program makes to its memory
    MaxFails     \* bound: calls that fail

ASSUME BoundsAssumption ==
    /\ {MaxChanges, MaxFails} \subseteq Nat
    /\ Heights \subseteq Nat \ {0} /\ Digits \subseteq 0 .. 15

ASSUME ProgramsAssumption ==
    \A p \in Programs :
        /\ p.pcs \subseteq Addresses
        /\ \A b \in DOMAIN p.mem : p.mem[b] \in 0 .. 255
        /\ \A c \in p.changes : c.addr \in Addresses /\ c.value \in 0 .. 255

\* What a statement that is typed can be.
Typed == [mnemonic : STRING, operand : [form : STRING, digits : Nat, values : Seq(Addresses)]]

ASSUME TextsAssumption == Texts \subseteq Typed

VARIABLES
    mem,        \* the bytes of the emulator's memory that are not 0
    program,    \* the one of Programs that runs
    cpu,        \* State().CPU.PC
    rows, addr, \* State().DisassemblyRows and DisassemblyAddr
    height,
    view,       \* the DisassemblyViewer
    phase,      \* how far the iteration of the application loop is
    renders,    \* all windows are rendered in this iteration: a key was handled, or the
                \* line of the CPU has changed (cpustate.go)
    frozen,     \* State().UIFrozen
    confirmed,  \* history: the edit Enter confirmed, as it was shown, until it is sent
    written,    \* history: what the last write wrote, and how many there were
    torn,       \* history: memory changed between the two reads of an update
    followed,   \* history: the window was updated last, and follows
    stale,      \* history: it was rendered without an update after it was rendered with one
    keys, changes, fails

stateVars  == <<cpu, rows, addr>>
emulatorVars == <<mem, program>>
historyVars == <<confirmed, written, torn, followed, stale>>
vars == <<emulatorVars, stateVars, height, view, phase, renders, frozen, historyVars, keys, changes, fails>>

NoAddr == -1
Smaller(a, b) == IF a < b THEN a ELSE b

Byte(a) == IF a \in DOMAIN mem THEN mem[a] ELSE 0
Read(a, length) == [i \in 1 .. length |-> Byte(Wrap(a + i - 1))]
Stored(a, data) ==
    LET new == {Wrap(a + i - 1) : i \in DOMAIN data}
    IN  [b \in DOMAIN mem \cup new |-> IF b \in new THEN data[((b - a) % Word) + 1] ELSE mem[b]]

\* linearAddrs and fetchRows: instructions up to the end of memory.
UpToFirst(decoded, at) == IF at = {} THEN decoded ELSE SubSeq(decoded, 1, Min(at) - 1)
Linear(decoded) ==
    UpToFirst(decoded, {i \in 2 .. Len(decoded) : decoded[i].addr < decoded[i - 1].addr})

FetchRows(a) == Linear(Decode(a, Read(a, AtLeast(3, height * 3))))

\* findAddrIndex and findRowByAddr, from 0; no two rows have the same address.
FindRow(rs, a) ==
    LET at == {i \in DOMAIN rs : rs[i].addr = a}
    IN  IF at = {} THEN NoRow ELSE (CHOOSE i \in at : TRUE) - 1

VisCount == Smaller(Len(rows), height)

(***************************************************************************)
(* Where a move of the window leads.                                       *)
(***************************************************************************)
EndLookbacks == <<64, 128, 256, 512, 1024, 2048, 4096, 8192, 16384, 32768, 65535>>
PrevLookbacks(steps) ==
    <<steps * 3 + 16, steps * 6 + 32, steps * 12 + 64, steps * 24 + 128,
      1024, 2048, 4096, 8192, 16384, 32768, 65535>>

\* The addresses read from back before a on, which rise, up to the first at or after limit.
Before(a, back, limit) ==
    LET low == AtLeast(0, a - back)
        all == Linear(Decode(low, Read(low, a - low + 3)))
    IN  UpToFirst(all, {i \in DOMAIN all : all[i].addr >= limit})

\* The n-th address from the end, found with the first lookback that reaches it.
FromEnd(a, limit, lookbacks, n, otherwise) ==
    LET at[k \in 1 .. Len(lookbacks) + 1] ==
            IF k > Len(lookbacks) THEN otherwise
            ELSE LET found == Before(a, lookbacks[k], limit)
                     low == a - lookbacks[k]
                 IN  IF Len(found) >= n THEN found[Len(found) - n + 1].addr
                     ELSE IF low <= 0 THEN (IF found = <<>> THEN 0 ELSE found[1].addr)
                     ELSE at[k + 1]
    IN  at[1]

FindEndStart == FromEnd(Word - 1, Word, EndLookbacks, height, Word - 1)

FindPrevStartN(a, steps) ==
    IF a = 0 \/ steps <= 0 THEN a ELSE FromEnd(a, a, PrevLookbacks(steps), steps, a)

MoveDown(a, steps) ==
    IF rows = <<>> THEN a ELSE rows[Smaller(AtLeast(1, steps), Len(rows) - 1) + 1].addr

(***************************************************************************)
(* The viewer.                                                             *)
(***************************************************************************)
NoText == [mnemonic |-> "", operand |-> Bare("none")]
NoEdit == [addr |-> NoAddr, text |-> NoText]

NewViewer ==
    [follow |-> TRUE, mode |-> "", selectedAddr |-> NoAddr, hint |-> NoRow,
     buffer |-> <<>>, fresh |-> FALSE, before |-> NoAddr,
     currentAddr |-> NoAddr, snapshot |-> <<>>, nav |-> "none", steps |-> 0,
     pendingAddr |-> NoAddr, pendingData |-> <<>>,
     editAddr |-> NoAddr, editSnapshot |-> NoText, editText |-> NoText, editBytes |-> <<>>,
     grid |-> NewGrid(height, TRUE, 19)]

\* A text that does not assemble has no bytes.
Assembled(a, text) == IF a = NoAddr THEN Refused ELSE AssembleOne(a, text)

\* Mutant: the bytes of the last text that did assemble stay.
UpdateEditBuffer_KeepsBytes(v, text) ==
    LET bytes == Assembled(v.editAddr, text)
    IN  [v EXCEPT !.editText = text, !.editBytes = IF bytes = Refused THEN @ ELSE bytes]

UpdateEditBuffer(v, text) ==
    [v EXCEPT !.editText = text, !.editBytes = Assembled(v.editAddr, text)]

CurrentSelectedRow(v) ==
    LET at == IF v.selectedAddr = NoAddr THEN NoRow ELSE FindRow(rows, v.selectedAddr)
        seen(row) == Within(row, 0, VisCount - 1)
    IN  CASE VisCount <= 0 -> NoRow
          [] VisCount > 0 /\ at # NoRow -> seen(at)
          [] VisCount > 0 /\ at = NoRow /\ v.hint # NoRow -> seen(v.hint)
          [] OTHER -> seen(v.grid.selected)

Selects(v, row) == [v EXCEPT !.hint = row, !.selectedAddr = rows[row + 1].addr]
QueueNav(v, nav, steps) == [v EXCEPT !.nav = nav, !.steps = steps]

\* The selection moves inside of the window, or the window moves.
MoveSelectedRows(v, nav, steps) ==
    LET cur == CurrentSelectedRow(v)
        next == Within(IF nav = "Down" THEN cur + steps ELSE cur - steps, 0, VisCount - 1)
    IN  CASE cur = NoRow -> QueueNav([v EXCEPT !.selectedAddr = NoAddr, !.hint = NoRow], nav, steps)
          [] cur # NoRow /\ next # cur -> [Selects(v, next) EXCEPT !.grid = SetSelectedRow(@, next)]
          [] OTHER -> QueueNav([v EXCEPT !.hint = cur, !.selectedAddr = NoAddr], nav, steps)

\* HandleInput: the keys that move.
Moved(v, key) ==
    LET u == [v EXCEPT !.follow = FALSE]
        page == AtLeast(1, height - 1)
        to(nav, row) == QueueNav([u EXCEPT !.hint = row, !.selectedAddr = NoAddr], nav, 0)
    IN  CASE key = "Home" -> to("Home", 0)
          [] key = "End" -> to("End", AtLeast(0, height - 1))
          [] key = "Down" -> MoveSelectedRows(u, "Down", 1)
          [] key = "PageDown" -> MoveSelectedRows(u, "Down", page)
          [] key = "Up" -> MoveSelectedRows(u, "Up", 1)
          [] key = "PageUp" -> MoveSelectedRows(u, "Up", page)

\* closeInput.
CloseInput(v) ==
    [v EXCEPT !.fresh = FALSE, !.mode = "", !.editAddr = NoAddr, !.editSnapshot = NoText,
              !.editText = NoText, !.editBytes = <<>>, !.buffer = <<>>, !.grid = StopsEditing(@)]

\* openEditInput on the row that is selected.
OpenEditInput(v) ==
    LET row == CurrentSelectedRow(v)
        ins == rows[row + 1]
        u == [Selects(v, row) EXCEPT !.follow = FALSE, !.editAddr = ins.addr, !.mode = "edit",
                 !.editSnapshot = Statement(ins), !.fresh = FALSE]
    IN  [UpdateEditBuffer(u, Statement(ins)) EXCEPT !.grid = BeginEdit(@, row, Statement(ins))]

\* onGridEditChange, for the text of the row that is edited.
TypedInRow(v, text) ==
    LET at == FindRow(rows, v.editAddr)
        row == IF at = NoRow THEN CurrentSelectedRow(v) ELSE at
        u == [v EXCEPT !.grid.editValue = text]
    IN  IF v.grid.editRow = row THEN UpdateEditBuffer(u, text) ELSE u

\* Enter, on bytes there are.
ConfirmEdit(v) ==
    IF v.editBytes = <<>> THEN v
    ELSE [v EXCEPT !.pendingAddr = v.editAddr, !.pendingData = v.editBytes,
                   !.selectedAddr = v.editAddr, !.hint = NoRow]

\* '/' and the line it opens; formatHex16 writes four digits, ParseHex reads them.
HexDigits(a) == <<a \div 4096, (a \div 256) % 16, (a \div 16) % 16, a % 16>>
HexValue(digits) ==
    LET place(k) == IF k < Len(digits) THEN digits[Len(digits) - k] ELSE 0
    IN  place(0) + 16 * place(1) + 256 * place(2) + 4096 * place(3)

OpenAddressInput(v) ==
    LET a == IF v.currentAddr # NoAddr THEN v.currentAddr ELSE IF addr # NoAddr THEN addr ELSE cpu
    IN  [v EXCEPT !.before = a, !.fresh = TRUE, !.mode = "addr", !.buffer = HexDigits(a)]

\* updateAddressInput: the window goes there while it is typed.
GoesTo(v, a) ==
    [v EXCEPT !.follow = FALSE, !.currentAddr = a, !.selectedAddr = a, !.hint = 0,
              !.nav = "none", !.steps = 0, !.snapshot = <<>>]

Backspace == 16  \* no digit

AddressKey(v, key) ==
    LET kept == IF v.fresh THEN <<>> ELSE v.buffer
    IN  CASE key = Backspace ->
                 [v EXCEPT !.fresh = FALSE,
                           !.buffer = IF @ = <<>> THEN @ ELSE SubSeq(@, 1, Len(@) - 1)]
          [] key # Backspace /\ Len(kept) < 4 ->
                 [v EXCEPT !.fresh = FALSE, !.buffer = Append(kept, key)]
          [] OTHER -> v

(***************************************************************************)
(* Render.                                                                 *)
(***************************************************************************)
ActiveRow(v, rs, pc) ==
    LET row == FindRow(rs, pc) IN IF v.mode = "addr" /\ row = 0 THEN NoRow ELSE row

\* The bar stands for the bytes of the instructions that are seen, placed at the
\* program counter when it is among the rows.
VirtualScroll(g, rs, vis, active, current) ==
    IF rs = <<>> THEN SetVirtualScroll(g, Word, current, 1)
    ELSE LET end == Smaller(Word, rs[vis].addr + Size(rs[vis]))
         IN  SetVirtualScroll(g, Word, IF active = NoRow THEN rs[1].addr ELSE rs[active + 1].addr,
                              AtLeast(1, end - rs[1].addr))

Rendered(v, rs, pc, h) ==
    LET vis == Smaller(Len(rs), h)
        active == ActiveRow(v, rs, pc)
        byAddr == IF v.selectedAddr = NoAddr THEN NoRow ELSE FindRow(rs, v.selectedAddr)
        chosen == CASE byAddr # NoRow -> byAddr
                    [] byAddr = NoRow /\ v.hint # NoRow -> v.hint
                    [] byAddr = NoRow /\ v.hint = NoRow /\ v.follow /\ active # NoRow -> active
                    [] OTHER -> 0
        row == IF vis = 0 THEN NoRow ELSE Within(chosen, 0, vis - 1)
        data == SetData([v.grid EXCEPT !.ih = h], rs)
        marked == SetHighlightedRow(SetSelectedRow(data, row), active)
        placed == SetOffset(VirtualScroll(marked, rs, vis, active, v.currentAddr), 0)
        edited == IF v.mode = "edit" /\ FindRow(rs, v.editAddr) # NoRow
                  THEN BeginEdit(placed, FindRow(rs, v.editAddr), v.editText) ELSE placed
    IN  [v EXCEPT !.hint = row, !.selectedAddr = IF row = NoRow THEN NoAddr ELSE rs[row + 1].addr,
                  !.grid = RenderGrid(edited)]

-----------------------------------------------------------------------------
Init ==
    /\ program \in Programs /\ mem = program.mem
    /\ cpu \in program.pcs /\ rows = <<>> /\ addr = NoAddr
    /\ height \in Heights
    /\ view = Rendered(NewViewer, <<>>, cpu, height)
    /\ phase = "keys" /\ renders = FALSE /\ frozen = FALSE
    /\ confirmed = NoEdit /\ written = [addr |-> NoAddr, data |-> <<>>, count |-> 0]
    /\ torn = FALSE /\ followed = FALSE /\ stale = FALSE
    /\ keys = 0 /\ changes = 0 /\ fails = 0

(***************************************************************************)
(* Keys.  One that is handled is followed by the rest of the iteration,    *)
(* unless the interface is frozen or the terminal was resized.             *)
(***************************************************************************)
Allowed(key) == key \in program.keys

Pressed(key, v) ==
    /\ phase = "keys" /\ Allowed(key) /\ keys < program.presses
    /\ keys' = keys + 1
    /\ view' = v
    /\ phase' = IF frozen THEN "keys" ELSE "update"
    /\ renders' = ~frozen
    /\ followed' = FALSE
    /\ UNCHANGED <<emulatorVars, cpu, rows, height, frozen, written, torn, stale, changes, fails>>

FollowKey ==
    /\ view.mode = "" /\ Pressed("f", [view EXCEPT !.follow = ~@])
    /\ UNCHANGED <<addr, confirmed>>

MoveKey(key) ==
    /\ view.mode = "" /\ Pressed(key, Moved(view, key))
    /\ UNCHANGED <<addr, confirmed>>

OpenAddress ==
    /\ view.mode = "" /\ Pressed("/", OpenAddressInput(view))
    /\ UNCHANGED <<addr, confirmed>>

\* A line that changed is gone to, if there is an address in it.
TypeAddress(key) ==
    LET typed == AddressKey(view, key)
        there == HexValue(typed.buffer)
        goes == typed.buffer # view.buffer /\ typed.buffer # <<>>
    IN  /\ view.mode = "addr"
        /\ Pressed(IF key = Backspace THEN "Backspace" ELSE "digit", IF goes THEN GoesTo(typed, there) ELSE typed)
        /\ addr' = IF goes THEN there ELSE addr
        /\ UNCHANGED confirmed

\* Escape goes back to where the line was opened, without following again.
CloseAddress(key) ==
    LET there == CASE key = "Esc" -> view.before
                   [] key = "Enter" /\ view.buffer # <<>> -> HexValue(view.buffer)
                   [] OTHER -> NoAddr
    IN  /\ view.mode = "addr"
        /\ Pressed(key, CloseInput(IF there = NoAddr THEN view ELSE GoesTo(view, there)))
        /\ addr' = IF there = NoAddr THEN addr ELSE there
        /\ UNCHANGED confirmed

OpenEdit ==
    /\ view.mode = "" /\ CurrentSelectedRow(view) # NoRow
    /\ Pressed("Enter", OpenEditInput(view))
    /\ UNCHANGED <<addr, confirmed>>

\* Keys that are typed into the row make another statement of it.
TypeInRow(text) ==
    /\ view.mode = "edit" /\ EditTakes(view.grid) /\ view.grid.editValue # text
    /\ Pressed("text", TypedInRow(view, text))
    /\ UNCHANGED <<addr, confirmed>>

\* The edited row is gone: keys move the selection of the grid until it is rendered.
MoveInGrid(key) ==
    /\ view.mode = "edit" /\ ~EditTakes(view.grid)
    /\ Pressed(key, [view EXCEPT !.grid = Navigate([@ EXCEPT !.editing = FALSE], key)])
    /\ UNCHANGED <<addr, confirmed>>

CloseEdit(key) ==
    /\ view.mode = "edit"
    /\ Pressed(key, CloseInput(IF key = "Enter" THEN ConfirmEdit(view) ELSE view))
    /\ confirmed' = IF key = "Enter" /\ view.editBytes # <<>>
                    THEN [addr |-> view.editAddr,
                          text |-> IF view.grid.editing THEN view.grid.editValue ELSE view.editText]
                    ELSE confirmed
    /\ UNCHANGED addr

ToggleFreeze ==
    /\ phase = "keys" /\ view.mode = "" /\ Allowed("freeze") /\ keys < program.presses
    /\ keys' = keys + 1
    /\ frozen' = ~frozen
    /\ phase' = IF frozen' THEN "freeze" ELSE "update"
    /\ renders' = ~frozen'
    /\ UNCHANGED <<emulatorVars, stateVars, height, view, historyVars, changes, fails>>

\* The iteration that froze the interface renders once more.
RenderFrozen ==
    /\ phase = "freeze"
    /\ view' = Rendered(view, rows, cpu, height)
    /\ phase' = "keys"
    /\ UNCHANGED <<emulatorVars, stateVars, height, renders, frozen, historyVars, keys, changes, fails>>

\* Everything is rendered at once, and what would follow the key of this iteration is
\* left out.
Resize ==
    /\ phase \in {"keys", "update", "freeze"} /\ Allowed("resize") /\ keys < program.presses
    /\ keys' = keys + 1
    /\ height' \in Heights
    /\ view' = Rendered(view, rows, cpu, height')
    /\ phase' = "keys" /\ renders' = FALSE
    /\ followed' = FALSE /\ stale' = TRUE
    /\ UNCHANGED <<emulatorVars, stateVars, frozen, confirmed, written, torn, changes, fails>>

(***************************************************************************)
(* The emulator.                                                           *)
(***************************************************************************)
EmulatorRuns ==
    /\ changes < MaxChanges /\ phase \notin {"keys", "freeze"}
    /\ \E c \in program.changes :
          /\ Byte(c.addr) # c.value
          /\ mem' = Stored(c.addr, <<c.value>>)
    /\ changes' = changes + 1
    /\ torn' = (phase = "refetch")
    /\ UNCHANGED <<program, stateVars, height, view, phase, renders, frozen, confirmed, written, followed, stale, keys, fails>>

(***************************************************************************)
(* Update.                                                                 *)
(***************************************************************************)

\* A call is carried out and answered, is not, or is and its answer is lost.
Outcomes == {"answered"} \cup (IF fails < MaxFails THEN {"refused", "lost"} ELSE {})
Counts(outcome) == fails' = IF outcome = "answered" THEN fails ELSE fails + 1

\* Where the window is: at first at the address State() has, or at the program
\* counter, which the poll before this may have moved.
Placed(v) ==
    LET first == IF addr # NoAddr THEN addr ELSE cpu'
    IN  CASE v.currentAddr = NoAddr ->
                 [v EXCEPT !.currentAddr = first, !.selectedAddr = first, !.hint = 0]
          [] v.currentAddr # NoAddr /\ ~v.follow /\ addr # NoAddr -> [v EXCEPT !.currentAddr = addr]
          [] OTHER -> v

\* The edit that waits is forgotten before it is written.
BeginUpdate ==
    /\ phase \in {"keys", "update"} /\ ~frozen
    /\ cpu' \in program.pcs
    /\ renders' = (renders \/ cpu' # cpu)
    /\ LET data == view.pendingData
           sent == [view EXCEPT !.pendingAddr = NoAddr, !.pendingData = <<>>]
       IN  \E outcome \in Outcomes :
              /\ data = <<>> => outcome = "answered"
              /\ Counts(outcome)
              /\ IF data # <<>> /\ outcome # "refused"
                 THEN /\ mem' = Stored(view.pendingAddr, data)
                      /\ written' = [addr |-> view.pendingAddr, data |-> data, count |-> written.count + 1]
                 ELSE UNCHANGED <<mem, written>>
              /\ confirmed' = IF data = <<>> THEN confirmed ELSE NoEdit
              /\ view' = Placed([sent EXCEPT !.snapshot = IF data # <<>> /\ outcome = "answered" THEN <<>> ELSE @])
    /\ phase' = IF view.nav = "none" THEN "fetch" ELSE "nav"
    /\ torn' = FALSE
    /\ UNCHANGED <<program, rows, addr, height, frozen, followed, stale, keys, changes>>

\* Render, when the window changed or all are rendered; another one may have changed.
Ends(v, rs, changed, updated) ==
    /\ \E render \in BOOLEAN :
          /\ changed \/ renders => render
          /\ stale' = CASE ~updated -> TRUE [] updated /\ render -> FALSE [] OTHER -> stale
          /\ view' = IF render THEN Rendered(v, rs, cpu, height) ELSE v
    /\ rows' = rs
    /\ phase' = "keys" /\ renders' = FALSE

Gives(v) == Ends(v, rows, FALSE, FALSE) /\ followed' = FALSE /\ UNCHANGED addr

\* applyPendingNav: the move is forgotten before it is tried.
ApplyPendingNav ==
    LET v == QueueNav(view, "none", 0)
        down == MoveDown(v.currentAddr, view.steps)
        to == CASE view.nav = "Home" -> 0
                [] view.nav = "End" -> FindEndStart
                [] view.nav = "Down" -> Smaller(down, FindEndStart)
                [] view.nav = "Up" -> FindPrevStartN(v.currentAddr, view.steps)
    IN  /\ phase = "nav"
        /\ \E outcome \in Outcomes \ {"lost"} :
              /\ view.nav = "Home" => outcome = "answered"
              /\ Counts(outcome)
              /\ IF outcome = "answered"
                 THEN /\ view' = [v EXCEPT !.currentAddr = to] /\ addr' = to
                      /\ phase' = "fetch"
                      /\ UNCHANGED <<rows, renders, followed, stale>>
                 ELSE Gives(IF view.nav = "Down" THEN [v EXCEPT !.currentAddr = down] ELSE v)
        /\ UNCHANGED <<emulatorVars, cpu, height, frozen, confirmed, written, torn, keys, changes>>

\* The rows go to State(), and are compared with those of the last update.
Finishes(v, rs) ==
    LET snapshot == <<cpu, v.currentAddr, rs>>
        u == IF v.follow THEN [v EXCEPT !.selectedAddr = NoAddr, !.hint = NoRow] ELSE v
    IN  /\ Ends([u EXCEPT !.snapshot = snapshot], rs, snapshot # v.snapshot, TRUE)
        /\ addr' = v.currentAddr
        /\ followed' = v.follow

\* Mutant: a program counter just below the window is taken for a row of it.
FollowFrom_LastRow(a, rs) ==
    LET row == FindRow(rs, cpu)
    IN  CASE cpu < a \/ row = NoRow -> cpu
          [] cpu >= a /\ row > height -> rs[row - height + 2].addr
          [] OTHER -> a

\* Where the window must start to have the program counter in it.
FollowFrom(a, rs) ==
    LET row == FindRow(rs, cpu)
    IN  CASE cpu < a \/ row = NoRow -> cpu
          [] cpu >= a /\ row >= height -> rs[row - height + 2].addr
          [] OTHER -> a

Fetch ==
    LET rs == FetchRows(view.currentAddr)
        from == IF view.follow THEN FollowFrom(view.currentAddr, rs) ELSE view.currentAddr
    IN  /\ phase = "fetch"
        /\ \E outcome \in Outcomes \ {"lost"} :
              /\ Counts(outcome)
              /\ CASE outcome = "refused" -> Gives(view)
                   [] outcome = "answered" /\ from = view.currentAddr -> Finishes(view, rs)
                   [] OTHER -> /\ view' = [view EXCEPT !.currentAddr = from] /\ phase' = "refetch"
                               /\ UNCHANGED <<rows, addr, renders, followed, stale>>
        /\ torn' = FALSE
        /\ UNCHANGED <<emulatorVars, cpu, height, frozen, confirmed, written, keys, changes>>

\* The second read of a window that follows, from another address.
Refetch ==
    /\ phase = "refetch"
    /\ \E outcome \in Outcomes \ {"lost"} :
          /\ Counts(outcome)
          /\ IF outcome = "refused" THEN Gives(view) ELSE Finishes(view, FetchRows(view.currentAddr))
    /\ UNCHANGED <<emulatorVars, cpu, height, frozen, confirmed, written, torn, keys, changes>>

Next ==
    \/ FollowKey \/ OpenAddress \/ OpenEdit \/ ToggleFreeze \/ RenderFrozen \/ Resize
    \/ \E key \in NavigationKeys : MoveKey(key) \/ MoveInGrid(key)
    \/ \E key \in Digits \cup {Backspace} : TypeAddress(key)
    \/ \E key \in {"Esc", "Enter"} : CloseAddress(key) \/ CloseEdit(key)
    \/ \E text \in Texts : TypeInRow(text)
    \/ EmulatorRuns
    \/ BeginUpdate \/ ApplyPendingNav \/ Fetch \/ Refetch

Spec == Init /\ [][Next]_vars

-----------------------------------------------------------------------------
\* A window that follows has the program counter on a row that is seen and marked,
\* unless memory changed between the two reads of the update (disassembly.go:124-151).
\* The row is selected too, if every render since it was came from an update: the
\* snapshot has no selection in it, so one that a failed update or a resize moved
\* stays until something else changes (disassembly.go:176).
FollowsPC ==
    followed /\ ~torn =>
        /\ FindRow(rows, cpu) \in 0 .. height - 1
        /\ view.grid.highlighted = ActiveRow(view, rows, cpu)
        /\ ~stale => view.grid.selected = FindRow(rows, cpu)

\* Between two iterations the window shows the rows of State() and what is typed
\* into one of them; the selected row is in view and so is the thumb of the bar.
ShowsTheProgram ==
    phase = "keys" =>
        /\ FollowsPC
        /\ view.grid.rows = rows
        /\ rows # <<>> => view.grid.selected \in 0 .. VisCount - 1
        /\ view.grid.offset = 0
        /\ view.grid.editing => /\ rows[view.grid.editRow + 1].addr = view.editAddr
                                /\ view.grid.editValue = view.editText
        /\ LET thumb == Thumb(view.grid)
           IN  rows # <<>> => thumb.top >= 0 /\ thumb.h > 0 /\ thumb.top + thumb.h <= height

\* The emulator gets the bytes of the statement that was in the row when Enter was
\* pressed, at the address of that row, and gets them once: whatever was typed
\* before, changed behind the edited row or failed (disassembly.go:418-434, 644-664).
WritesWhatWasConfirmed ==
    [][written' # written =>
          /\ confirmed # NoEdit
          /\ written'.count = written.count + 1
          /\ written'.addr = confirmed.addr
          /\ written'.data = AssembleOne(confirmed.addr, confirmed.text)]_vars

\* An instruction that Enter opens and Enter confirms again stays what it is, with
\* three exceptions: an address below 256 written with four digits becomes one of the
\* zero page, one byte shorter; a branch around the end of memory is refused
\* (assemble.go:207-282 against disasm.go:134-204); and the last row, of which a byte
\* was not read, is seen when the window has grown since, which a frozen interface
\* or a failed read leaves as it is (disassembly.go:188, app.go:110-113).
ReassemblesTheSame ==
    \A i \in 1 .. VisCount :
        LET ins == rows[i]
            op == ins.raw[1]
            short == \E zp \in Opcodes : /\ MnemonicOf[zp] = MnemonicOf[op]
                                        /\ <<ModeOf[zp], ModeOf[op]>> \in
                                             {<<"zpg", "abs">>, <<"zpx", "abx">>, <<"zpy", "aby">>}
            around == ModeOf[op] = "rel" /\ ins.addr + 2 + Signed(ins.raw[2]) \notin Addresses
            cut == Size(ins) < ModeSize[ModeOf[op]]
        IN  view.mode = "edit" /\ view.editAddr = ins.addr /\ view.editText = Statement(ins) =>
                \/ view.editBytes = ins.raw
                \/ cut /\ stale /\ i = Len(rows)
                \/ around /\ view.editBytes = <<>>
                \/ /\ short /\ Size(ins) = 3 /\ ins.raw[3] = 0
                   /\ Len(view.editBytes) = 2 /\ view.editBytes[2] = ins.raw[2]
==============================================================================
