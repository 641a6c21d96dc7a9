# a800mon in TLA+

a800mon is a terminal front end for the remote monitor of the Atari800 emulator: a
command line and a full-screen monitor that talk to the emulator over a UNIX socket
(`SOCKET_PROTOCOL.md`).  There are two implementations of it, `go800mon` and `py800mon`.
This directory holds TLA+ models of the parts where timing, failure and stale state
matter, the TLC instances that check them, and proofs, for every value of the constants,
of what matters most about the two clients, the loop, five windows, the trainer and the
debug shell.

Paths below are relative to `src/`.

## The system

| Part | State it keeps | Operations | Talks to |
|---|---|---|---|
| Emulator (external) | connections, paused flag, breakpoint table, `state_seq` | answers requests in order, coalesces queued `STATUS`, closes slow connections | every client |
| Go client, `go800mon/internal/rpc/client.go` | mutex, connection, last error, features | `Call`, `BuildFeatures`, `Close`, one method per command | the emulator |
| Python client, `py800mon/rpc.py`, `socket.py` | lock, transport, last error | `call`, `send`, the connect handshake | the emulator |
| Application loop, `go800mon/a800mon/monitor/app.go` | previous size, component lists | input, poll, update, render, over and over | all components of the monitor |
| `StatusUpdater` | last poll, forced refresh, features known | `Tick` | client, state store |
| `ActionDispatcher`, `AppModeUpdater` | command queue, stop flag, last paused flag | `Dispatch`, `Update` | client, state store |
| Windows (breakpoints, watchers, disassembly, history, display list, screen) | snapshots, pending work, grid | `HandleInput`, `Update`, `Render` | client, state store, screen |
| `ui.go`, `shortcuts.go` | focus, selection, dialogs, key layers | key routing, drawing | windows |
| Trainer, debug shell, breakpoint commands (`cli/`, `trainer.go`) | snapshot and candidates; none; none | sessions of several calls | client |
| `internal/displaylist`, `internal/disasm`, `internal/memorymap`, `breakpoints.go` | none | pure functions | windows, command line |

One goroutine runs the Go monitor, so its components see each other's state through the
store only between calls; what can change during a call is the emulator.  The Python
monitor has two asyncio tasks (status pump, application loop) that interleave at every
await, and an input pump.

What is hard, and what each part must keep:

* clients: a reply goes to the call it answers; a command is executed at most once for a
  call; a connection with anything left on it is not used again; every call ends;
* breakpoints window: an index taken from an old table must not hit another clause; the
  window comes to show the table; a failing call neither repeats nor loses an operation;
* loop: commands keep their order across failures, resizes and freezes; the mode, the
  registers and the features on the screen agree with the emulator that is there; quitting
  ends the loop and sends nothing more;
* windows: each shows what it holds, or the case in which it does not can be named; a
  selection stays within the rows; a deletion takes the row that is shown; keys go to the
  window that shows it has the focus;
* display list and memory mapping: the ranges fetched are the bytes needed, and their pieces
  put every row together again;
* disassembly: the program counter stays in view, an instruction is read back as it is
  written, and what was confirmed is written once, where it was shown;
* sessions of the command line: the trainer's candidates are the addresses that satisfied
  every filter; what the shell and the breakpoint commands print is true of the emulator.

`PROJECT.json` lists every component, the hazards by source line, and the code lines of
each definition.

## Modules

| Module | What it is |
|---|---|
| `RpcServer` | The emulator's side of the protocol as the clients rely on it (external). |
| `RpcClient` | The Go client: goroutines, mutex, connection, handshake. `EXTENDS RpcServer`. |
| `RpcService` | What a call promises, with no connection in sight. `RpcClient` implements it. |
| `PyRpcClient` | The Python client against the same server. |
| `BreakpointsViewer` | The breakpoints window with its emulator, its loop and another client. |
| `MonitorLoop` | The application loop, `StatusUpdater`, `ActionDispatcher`, `AppModeUpdater`. |
| `Windows` | Focus, key routing, layout; the watchers and the history window. `EXTENDS Grid, SymbolSearch`. |
| `Grid` | The grid of `ui.go` as operators: selection, scrolling, the edited cell, the scroll bar. |
| `SymbolSearch` | The address a line of text stands for. |
| `Disassembly` | The disassembly window and a program that changes itself. `EXTENDS Grid, Assembler`. |
| `Assembler` | The 6502 table, disassembler and assembler as operators. |
| `ScreenWindows` | The display list and screen windows, `dlist` and `screen`. `EXTENDS DisplayList`. |
| `DisplayList` | Decoding a display list and mapping its lines to memory, as operators. |
| `CliSessions` | The trainer, the debug shell, the breakpoint commands. `EXTENDS BreakpointText`. |
| `BreakpointText` | Clauses as text and as bytes, as operators. |
| `MCRpcClient`, `MCPyRpcClient` | Symmetry for TLC. |
| `MCWindows`, `MCDisassembly`, `MCScreenWindows`, `MCCliSessions` | Symbols, programs, display lists and texts for TLC; examples of the operators as assumptions TLC evaluates. |
| `RpcClientProofs` | The inductive invariant of `RpcClient` and what follows from it; `RpcClient` implements `RpcService`; features track the connection. |
| `PyRpcClientProofs` | When the Python client misreads a reply; that it executes a call at most once. |
| `MonitorLoopProofs` | Commands, mode, registers, features, quit and freeze of the application loop. |
| `BreakpointsViewerProofs` | Deletions and additions of the breakpoints window. |
| `WindowsProofs` | Focus, input line, what the watchers and the history window show, deletions. |
| `DisassemblyProofs` | Rows, round trip, writes and what is shown of the disassembly window. |
| `CliSessionsProofs` | Clauses written and parsed again, sent and read again; the trainer's candidates; what the debug shell and the breakpoint commands print. |
| `ScreenWindowsProofs` | Planning, fetching and reassembling the screen; the segments; what can be stale. |

**RpcServer.**  `reqs[c]` is what the emulator has still to answer on connection `c`,
`stream` what is on the client's connection unread: a header chunk and, if the reply has
any, a data chunk.  A request is handled, coalesced (a `STATUS` with another behind it), or
costs its connection when the reply cannot be sent (`SOCKET_PROTOCOL.md`:42-43).  The
emulator may crash and restart.

**RpcClient.**  `pc[p]` is where goroutine `p` stands in `Call`.  `Lock` is `mu.Lock` with
`ensureConnectedLocked`'s test, `Dial` and the `Handshake*` actions the rest of it, `Write`,
`ReadHeader`, `ReadData` the exchange.  A deadline and a broken connection are the same to
the code (`disconnectLocked`, error) and are `IoFails`, possible at any moment, also when
the reply has arrived already.  Payloads, lengths and decoding are left out; a reply is the
identity of its request, its status and whether it has data.

**PyRpcClient.**  Same shape; the handshake swallows its errors.  A mere timeout keeps the
connection (`HandshakeTimeout`), a broken one has been given up (`HandshakeBroken`).

**BreakpointsViewer.**  Keys are actions that record pending work; `Update*` do it call by
call in the code's order; `List`, `ListFails`, `ListNotNeeded` end the update.  A call
succeeds, is refused, or fails and may still be executed later (`late`, `LateExecution`).
The grid is its selected row, 1 for the first.  `misdeleted`, `disturbed`, `missed`, `unseen`, `typed` and
`added` are history: no action of the window reads them.

**MonitorLoop.**  `pc` names the call the loop is at.  A STATUS reply is the number `ver`
of the emulator's state, which stands for `emu_ms`, `reset_ms`, `crashed` and `state_seq`
together.  `STEP` stands for the three step commands, `COLDSTART` for both starts.  The
viewers' calls are one step that works, fails or is not needed.  Rendering and
actions that only set a display option are left out.

**Windows, Grid, SymbolSearch.**  `loop` is how far an iteration of `App.Loop` is: at its
input, to be rendered because a key froze the interface (`RenderFrozen`), or to go on
(`Iteration`).  A resize may come at any of these places; it rebuilds the screen and ends the
iteration, so a key handled before it is not followed by an update.  `Iteration` is the rest in
its order: the poll, the breakpoints window that comes or goes (and rebuilds the screen), the
updates of the watchers and the history, and a render of all of them if any reports a change.
A read succeeds with any value, or fails.  `focused`, `focusIndex` and `inputOwner` are
`Screen.focused`, its index and the input focus.  `work` picks at the start what the user does
in a behaviour (moves the focus, works with the watchers, or with the history), since the
three touch each other only through the focus.  `missed` is history: the watchers were
rendered after a key but not read, since the read failed or a resize came with the key, and
their snapshot is still that of an earlier screen.

**Disassembly, Assembler.**  `phase` is how far the iteration is; a resize ends it as in
`Windows`.  In `Update` the write, the move, the read and the second read are calls between
which the emulator runs.  `view` holds the fields of `DisassemblyViewer`.  Memory is the
function of the bytes that are not 0.  An operand is its notation, its values and the digits
it is written with, which is what decides the addressing mode; `Statement` prints,
`AssembleOne` parses.  `confirmed`, `written`, `torn`, `followed` and `stale` are history.

**ScreenWindows, DisplayList.**  `program.pc` is the next call of the monitor's iteration
(`AppState.DList` is read, then the screen) or of a command.  A byte of the screen is its
address and the frame it was read in, so that a byte out of place shows.  The hash of the
lines is taken to be the lines.

**CliSessions, BreakpointText.**  `cmd` is the command that runs with what it has so far;
each of its calls is an action, and others act between them.  PAUSE and CONTINUE are
answered at once and take effect later, as `pauseRPC` assumes by polling.  A text is a
sequence of tokens.  The emulator adds no clause that the count of BP_LIST could not tell
(`MaxClauses`).  A call that fails may still be carried out later, after other commands
(`late`, `LateExecution`).  `answered`, `seen`, `others` and `overtaken` (what was carried out
late since the shell's last call) are history.

## Runs

| Run | Question | Bounds | States |
|---|---|---|---|
| `RpcClient_safety` | framing, quiet connections, errors, refinement of `RpcService` | 2 goroutines, 3 calls, 2 connections, 1 crash; symmetric | 926 k |
| `RpcClient_single` | features match the connection; every call returns | 1 goroutine, 3 calls, 2 connections, 1 crash | 37 k |
| `PyRpcClient` | when a reply can be misread; at most once | 2 tasks, 2 calls, 2 connections, 1 crash; symmetric | 217 k |
| `PyRpcClient_reply` | *violated*: a reply answers its request | 2 tasks, 3 calls, 2 connections, 1 crash | - |
| `BreakpointsViewer` | deletions and additions hit what was meant; the window comes to show the table | 2 clauses, table of 2, 3 keys, 1 foreign change, 1 failure, 1 change of features | 955 k |
| `BreakpointsViewer_stale` | *violated*: the same without exception | 1 clause, no key, 1 foreign change, 1 failure | 404 |
| `MonitorLoop` | commands, mode, registers, features, quit, freeze | 2 keys, 1 change, 1 failure, 1 restart | 5.0 M |
| `MonitorLoop_live` | quitting ends; the screen catches up | 2 keys, 1 change, 1 failure | 458 k |
| `Windows` | focus and input line agree; what is shown is held; deletions under a freeze | 2 sizes, 2 symbols, 2 rows, history of 1, 2 keys while frozen | 279 k |
| `Disassembly` | the window shows the program; round trip of every opcode; writes | 1029 programs, heights 1 and 3, up to 6 presses, 1 change, 1 failure | 228 k |
| `ScreenWindows` | lines are put together; fetches are what is needed; what can be stale | 6 lists, reads of 12 bytes, 2 frames, 1 failure | 554 k |
| `CliSessions` | candidates; what the shell and `bp` print | 3 addresses, chunks of 2, 3 commands, 3 changes, 1 failure | 673 k |

*Why the bounds are enough.*  Two calls are enough for a reply to reach the wrong caller,
which is what the Python client does.  Three calls over two connections let a timed-out call, its
successor on a new connection and a third on the same one overlap with late work of the
emulator, and two goroutines let one wait while the other fails.  Two clauses and two rows
tell an index that has shifted from one that has not; three keys are a freeze, a deletion
and a change of the selection, or two deletions.  Two keys, a failure and a restart give
the loop a command that fails, one that follows it in the same batch, and a reconnection in
any of its calls.  `MaxFails` and the like bound what the environment does, never what the
program does.  `Windows` has a terminal in which the watchers have one line and one in which
they have two; the history has one line beside the breakpoints window, more without it.
Two keys pressed under a freeze are two deletions, or a move and a deletion.
The programs of `Disassembly` hold each opcode with an operand in and one out of the
zero page, in the middle and at the end of memory; the others are a longer one that rewrites
its own instructions, each with other keys: those that move, follow, go to an address, edit, and edit in a
window that grows.  Two heights make the counter leave the window or fill it.  The lists of
`ScreenWindows` have lines that wrap at FFFF, overlap, lie inside each other, need more than one
read, or lack an operand, and two that differ only in the middle.  Three addresses ending
at FFFF with chunks of two make the last chunk a short one at the end of memory.

*Fairness.*  `RpcClient`: a goroutine's step inside `Call` is weakly fair because every
read and write has a deadline (`setDeadlineLocked`), and `mu` is a Go mutex, which does
not starve a waiter; nothing is asked of the server.  `BreakpointsViewer` and
`MonitorLoop`: the loop goes round, since `GetInputChar` returns after its timeout and calls
have deadlines; the poll interval elapses; no key is ever required, and an iteration that
is always a resize is excluded.  Promises about a screen that stays frozen are not made:
the properties assume `[]<>~frozen`.

*Deadlock.*  The instances of the clients and of the breakpoints window stop when the callers
make no more calls, or when the user froze the screen and presses nothing more, so their
configurations turn the test off.  So do those of the other windows, whose panic is an end,
and of the commands, which end.  It is on for `MonitorLoop`, whose end is the explicit
`Finished`.

### What the runs show

* The Go client gives each call its own reply, or none, under any delay, crash, closing or
  coalescing: a failing exchange always costs the connection, the handshake included.
  `LastError` says "I/O" only when no connection is left.  With two goroutines the features
  could be stored for a connection already gone (`BuildFeatures` stores them after
  `Call` has unlocked); with the one this program has they cannot.
* The Python client does not: after a handshake that timed out every call gets its
  predecessor's reply (`PyRpcClient_reply`).  That is the only way to it.
* The breakpoints window records a new `state_seq` before it has read the table, so one
  failing `BP_LIST` leaves it with the old table (`BreakpointsViewer_stale`); it is the
  only way to it, and the window's own changes are always read back.
* In the loop no command is lost or reordered, and none is sent after `q`.  The mode can
  stay wrong in two cases, named in `ModeFollowsEmulator`: a PAUSE or CONTINUE that failed,
  and an emulator that stopped and went on between two polls.  The features can stay those
  of the previous emulator when a viewer's call or a queued command was the one that met
  the restart (`CapsFollowEmulator`).
* Keys go to the window that shows the focus, though the breakpoints window may vanish; but
  its input line, open when it vanishes, keeps all keys (`InputLineIsCurrent`).  Delete takes
  the row shown, except on a frozen screen, where a second one takes another row or panics
  (`watchers.go`:223, `DeletesTheShown`).  A value read again after failed reads around a
  key press, or after a key whose iteration was also a resize (`app.go`:110), can stay unshown,
  since the snapshot it is compared with is an earlier screen's (`missed`).
* The disassembly window keeps the program counter in view and marked unless memory changes
  between its two reads; its selection can stay behind after a failed update or a resize,
  because the snapshot does not hold it (`FollowsPC`).  Enter and Enter again leave an
  instruction as it was but for an absolute address below 256, which becomes a byte shorter
  (the byte that followed is then decoded as an instruction), and for branches around the end
  of memory, which are refused.  The last row a window reads may lack bytes, and is seen
  when the window has grown without an update (`disassembly.go`:188).  A confirmed instruction is written at most once, and is
  lost when the call fails.
* The screen window drops lines that wrap at FFFF, although their bytes are fetched; every other line
  is put together right under all merges and cuts.  `screen --json` and `--columns` number
  all segments from the first one's address, right only while they lie one behind the other.
  The display list window can show old entries in the middle of a list (`StaleOnlyInside`).
* The trainer's candidates are those of its filters under any change of memory; a short or
  failed read ends the session.  The shell's registers after `pause` are those of a paused
  emulator unless another client acts, and after `continue` it runs, unless another client acts
  or a `PAUSE` that had timed out is carried out after it; its "still running" may be out of date, since the
  last PAUSE is sent after the last STATUS, and after `stepvbl` and `untilret` it prints the
  registers right after the reply, maybe of a running emulator.  `bp add` that fails halfway leaves
  the earlier clauses in the table, unreported; `bp del 65537` deletes clause 1.

## Proofs

TLAPS proves the following for every value of the constants: any callers, tasks, clauses,
windows, symbols, bytes and bounds.  Each module states an inductive invariant `IInv`, whose
conjuncts are named, shows that the initial states have it and that every action keeps it
(one lemma per action or group of actions), and concludes `Invariance`; the theorems follow
from that.  TLC checked each `IInv` on the instances above before it was proved.

| Module | Theorems | Stated property |
|---|---|---|
| `RpcClientProofs` | `TypeCorrect`, `ReplyFraming`, `Quiet`, `OneRequest`, `ErrorsDisconnect`, `Implements`, `CapsTrackConnection` | `TypeOK`, `RepliesInFrame`, `QuietBetweenCalls`, `OneOutstanding`, `ErrorMatchesConnection`, `ImplementsService`, `CapsOfConnection` |
| `PyRpcClientProofs` | `TypeCorrect`, `MisreadsAreExcused`, `QuietBetweenCalls`, `ExecutesAtMostOnce` | `TypeOK`, `MisreadOnlyAfterSilentHandshake`, `QuietUnlessSilent`, `AtMostOnce` |
| `MonitorLoopProofs` | `TypeCorrect`, `CommandsStayInOrder`, `CpuIsCurrent`, `ModeIsTheEmulators`, `CapsAreTheEmulators`, `QuitIsSilent`, `FreezeIsStill` | `TypeOK`, `CommandsInOrder`, `CpuMatchesStatus`, `ModeFollowsEmulator`, `CapsFollowEmulator`, `QuitSendsNothing`, `FrozenShowsNothingNew` |
| `BreakpointsViewerProofs` | `TypeCorrect`, `DeletionHitsItsTarget`, `NothingIsAddedTwice` | `TypeOK`, `DeletesTheSelected`, `AddsOnce` |
| `WindowsProofs` | `FocusStays`, `InputLineFollows`, `ScreenIsCurrent`, `DeletionIsOfTheShownRow` | `FocusIsConsistent`, `InputLineIsCurrent`, `WindowsShowTheirState`, `DeletesTheShown` |
| `DisassemblyProofs` | `WindowShowsTheProgram`, `StaysTheSame`, `SendsWhatWasConfirmed` | `ShowsTheProgram`, `ReassemblesTheSame`, `WritesWhatWasConfirmed` |
| `CliSessionsProofs` | `LinesText`, `ServerReads`, `ListRead`, `TrainerKeepsMatches`, `ShellIsTruthful`, `ListsTheTable` | (operators), `KeepsMatches`, `ShellTellsTheTruth`, `ReportsTheTable` |
| `ScreenWindowsProofs` | `TypeCorrect`, `Reassembly`, `FetchesTheScreen`, `SegmentsCover`, `StaleInside` | (types), `LinesReassembled`, `FetchesWhatIsShown`, `SegmentsAreTheScreen`, `StaleOnlyInside` |

Why each invariant is what it is:

* **Clients.**  Framing is not inductive by itself.  The invariant adds who may hold the
  connection (the owner of the mutex is the only one inside an exchange), and for each place
  in the exchange what may be in `reqs` and in `stream`: at most the one request, then its
  header, then its data, with the header in `head` matching the data still to come.  The
  Python client has the same for connections that are not `silent`; on a silent one nothing is
  claimed.  That a call is executed at most once needs another invariant, which holds of
  silent connections too (`OnceInv`): a call not yet sent is not executed and has no request
  on any connection, and no two requests have the same number.
* **Refinement.**  `Implements` is that `Spec` implies `Service!SvcSpec`: a call is pending
  from `Start` to `Return`, and every step is one of the service or a stutter.  It needs the
  history invariant that a request or a reply on a live connection belongs to a call that was
  made, and that a reply's status is that of its execution.  `CapsTrackConnection` is for one
  caller.
* **Loop.**  The mode is the hard one.  While it disagrees with the emulator, either the
  command that makes it true is in one of the two queues, or a `STATUS` that will see the
  difference is due (`ModeInv`: the forced refresh after a flush, or the error that makes the next
  poll unconditional); what is left are the two cases that the property names.  `CountInv`
  bounds the states of the emulator by what causes them.  `FrozenShowsNothingNew` and
  `QuitSendsNothing` are action properties and need that a frozen loop is at its input, and
  that a loop that is sending commands has not been asked to quit.
* **Breakpoints window.**  The clause meant is the one shown at the recorded index, and the
  window shows the table unless somebody else changed it or the window's own commands of this
  `Update` did; those run in an order (clear, delete, add) that leaves the index right or the
  table empty.  Additions are counted: those made, waiting, and still to come from a call that
  failed are no more than those typed.
* **Windows.**  What is shown is compared with a snapshot, and a render is skipped when that is
  unchanged.  `Settled` says when it has to be right (an iteration has followed the
  key, and nothing is frozen; `LoopInv` says what a key leaves to be done), and `WatchShown`, `HistShown` that an unchanged snapshot then
  means unchanged rows.  The lemmas on `Grid` (`ClampMoves`, `EnsureRowMoves`, `SelectMoves`)
  give the range and visibility of a selection for every number of rows and any height.
* **Disassembly.**  Two thirds are lemmas on operators.  The assembler reads what the
  disassembler prints, for every opcode, operand and address (`RoundTrip`), from the table by cases of the
  mode.  `Decode` cuts what was read into instructions whose places rise (`Chain`,
  `PlacesRise`), so the rows' addresses rise until memory wraps (`FetchIs`); and a read from the address of
  one of them gives the rows behind it again (`Resumes`), which is why the second read of a window
  that follows has the counter in it.  The invariant says what is assembled of the
  edited row (`EditOK`), that the edit that waits is the confirmed one (`PendingInv`), what each
  phase can rely on (`PhaseInv`), and what is shown when nothing is to be rendered (`ShownInv`).
* **Trainer.**  `Filtered` relates candidates and snapshot to all filters so far; `ReadInv`
  says that a read has the bytes it gave in their places unless an answer was short, which
  is then seen from the length.  `KeptIs` is the loop that narrows the candidates, for every
  sequence: `Kept` is a recursive function, and the lemma is proved by induction on a set of
  numbers (`UpTo`, from the least element of a set of naturals).
* **Debug shell.**  Nothing sent can undo what a command waits for: while `pause` polls
  no CONTINUE is outstanding, and the other way round (`ShellInv`), unless a call that had
  timed out was carried out since the last one was sent (`overtaken`, with the late calls
  typed by `LateInv`).
* **Breakpoint commands.**  `BpInv` says that the numbers `bp add` has so far are the places
  of its clauses (`Placed`), and that a printed list is the text of the table.  The rest is
  about operators: splitting what was joined gives the parts back when no part has the word in it
  (`SplitJoined`); a condition that is formatted is parsed to itself, since the operators
  are tried longest first and none is at the beginning (`ParseFormat`); a record of six
  bytes is read as the condition it was made from (`RecordIs`, `ConditionRead`); and `BPList`, after
  i clauses, is at the end of the i-th (`DecodeClauseIs`).  Loops over a text or a table are recursive
  functions again, with lemmas for their existence and for equal ones (`LoopExists`, `Alike`).
* **Screen.**  The invariants of `ScreenWindows` are about functions of data, so most of the
  proof is lemmas on `DisplayList`: `Decode` gives instructions, the first where the list
  begins; `RowRanges` lines that lie in memory; sorting keeps the ranges and orders them; `Merge` keeps the bytes
  they cover, with gaps between the results once they are sorted; `Pieces` cuts them without loss;
  and `ReadRow` gets a line's bytes back from any such pieces, or nothing if one is missing.
  These are recursive functions, and each lemma is proved by induction on a set of numbers, with the
  existence of the function shown first (`UpTo`, `Recursion`), over their partial results: the first
  i segments, the last n bytes.  The inductive invariant then says what every call has left behind: the
  ranges already read and still to be read are the plan (`Reads`), a read range holds the bytes of its
  addresses, the window's rows are those of its plan (`Windowed`), a command's output those of its
  segments (`Printed`), and what is rendered is what is held, or differs where the snapshot does not look
  (`Current`, `OnScreen`).

Assumptions, all of them evaluated by TLC: the marker for a free mutex is no caller
(`CallersAssumption`, and the same of tasks and clauses); bounds are naturals, the
table of the emulator has room for a clause; program counters are naturals; the range of the
trainer lies in 64 KiB and a READ_MEM asks for at least one byte; expressions are sequences
of tokens and clause numbers integers; a display list is bytes at
an address, with a byte for each DMACTL; a program's counters are addresses, its memory and
changes bytes, a statement that is typed a mnemonic and an operand (`ProgramsAssumption`,
`TextsAssumption`).

Five attempts failed on the model and corrected it.  `DeletesTheSelected` assumed that
the window has read the table: a window that is frozen before its first `BP_LIST` has a row
"No breakpoint clauses." that can be deleted (`breakpoints.go`:141), so until then the index means no clause of
the table (`disturbed` is true at the start).  In `Disassembly` an Enter with nothing assembled
was recorded as a confirmation when an earlier one was still waiting, which the code does not
do (`disassembly.go`:645), and `ReassemblesTheSame` did not except the last row of a window
that has grown (`disassembly.go`:188).  `Plan` sorted its ranges with a library operator that leaves open what
becomes of ranges that begin at the same byte; it is the code's insertion sort now (`Inserted`,
`displaylist.go`:325).  In `BreakpointText` an operator was looked for behind the beginning of a condition, while the code passes over
one that is at the beginning, wherever else it is (`breakpoints.go`:77), and an address above FFFF was
taken (`breakpoints.go`:104).

Two cases were missing from the models at first and weakened what holds: an iteration that is
resized after its key (`app.go`:105-113), which leaves out the update, and in `CliSessions` a
call that failed at its deadline and is carried out after the next command.
`WindowsShowTheirState` and `ShellTellsTheTruth` name them as exceptions now.

Model-checked only:

* liveness (fairness and ENABLED are out of the prover's reach): `EveryCallReturns`,
  `OwnChangesShown` and `ShowsTableUnlessMissed`, `QuitEnds` and `ShowsEmulator`;
* the operators of `SymbolSearch`, which the runs evaluate for each kind of line, and examples of
  which TLC evaluates as assumptions (`SearchExamples`, and `ConditionExamples` of `BreakpointText`).

## Not modelled

* Drawing: characters, colours, the bars, the glyphs of the screen and ATASCII, the layout of
  a memory dump.  They keep no state and nothing is decided by them.
* The decoding of replies that are only printed (CPU history, stack, jumps, GTIA, ANTIC, PIA,
  POKEY, cartridges) and the commands that make one such call and print it; the parsing of
  arguments.
* The generated map of symbols: a constant of `SymbolSearch`.
* Python: the monitor with its two tasks, and its windows and commands, most of them
  counterparts of the Go ones.  In the Python client, cancellation of a task inside a call.
* Restarted emulators never repeat a state number in `MonitorLoop`.

## Plan

1. Done: clients, service, all windows of the Go monitor, loop, display list, assembler,
   symbols, trainer, debug shell, breakpoint commands; the proofs above.
2. `PyMonitor`: two tasks, the event queue and the wake event, the refresh of the features
   every second (`statusupdater.py`:52-53).
3. Small counters in `MonitorLoop`, so that a restarted emulator repeats a state number.
