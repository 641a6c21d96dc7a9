---------------------------- MODULE ScreenWindows ----------------------------
(***************************************************************************)
(* The display list and screen buffer windows of the monitor, and the      *)
(* commands "dlist" and "screen", on an emulator that changes its display  *)
(* list and its screen between any two of their calls.                     *)
(*                                                                         *)
(* A program reads the list in three or four calls (DLPTRS, the dump,      *)
(* DMACTL and, when its shadow turns DMA off, the hardware register), plans*)
(* the memory it needs and fetches that range by range.  The monitor does  *)
(* so in every iteration of its loop and renders when some component       *)
(* reports a change; a command does it once.  A byte of the screen is the  *)
(* pair of its address and of the frame it was read in.  The hash of the   *)
(* screen's lines is taken to be the lines themselves.                     *)
(***************************************************************************)
EXTENDS DisplayList

CONSTANTS
    Lists,       \* display lists: records [start, bytes, dmactl, hw]
    MaxRead,     \* most bytes of one READ_MEM (0x400 in the code)
    MaxFrames,   \* bound: changes of the emulator's screen
    MaxFails     \* bound: calls that fail

ASSUME BoundsAssumption ==
    /\ MaxRead \in Nat \ {0} /\ MaxFrames \in Nat /\ MaxFails \in Nat
    /\ Lists \subseteq [start : 0..Word - 1, bytes : Seq(0..255), dmactl : 0..255, hw : 0..255]

VARIABLES
    emulator,    \* its display list and frame
    program,     \* which program runs, and its next call
    reading,     \* what its calls have returned
    dlist,       \* AppState.DList and DMACTL; a command's decoded list
    listWindow,  \* DisplayListViewer: lastSnapshot and the lines on the screen
    screenWindow,\* ScreenBufferInspector: rows, lastSnapshot, the lines on the
                 \* screen and, to state properties, what they were planned for
    output,      \* the lines a command has printed
    fails

vars == <<emulator, program, reading, dlist, listWindow, screenWindow, output, fails>>

NoList == [start |-> 0, entries |-> <<>>, dmactl |-> 0]
Nothing == [start |-> 0, dump |-> <<>>, dmactl |-> 0,
            todo |-> <<>>, buffer |-> <<>>, index |-> <<>>]

Init ==
    /\ emulator \in [list : Lists, frame : {0}]
    /\ program \in [name : {"monitor", "dlist", "screen", "segment", "raw"},
                    pc : {"start"}, changed : {FALSE}, due : {TRUE}]
    /\ reading = Nothing
    /\ dlist = NoList
    /\ listWindow = [snapshot |-> {}, shown |-> <<>>]
    /\ screenWindow = [rows |-> <<>>, snapshot |-> {}, shown |-> <<>>, planned |-> {}]
    /\ output = <<>>
    /\ fails = 0

EmulatorChanges ==
    /\ emulator.frame < MaxFrames
    /\ \E l \in Lists : emulator' = [list |-> l, frame |-> emulator.frame + 1]
    /\ UNCHANGED <<program, reading, dlist, listWindow, screenWindow, output, fails>>

Memory(s, n) == [i \in 1..n |-> <<(s + i - 1) % Word, emulator.frame>>]

Goes(pc) == program' = [program EXCEPT !.pc = pc]
InMonitor == program.name = "monitor"

-----------------------------------------------------------------------------
(* Reading the list. *)

\* An iteration of the loop; another component may report a change itself.
Start ==
    /\ program.pc = "start"
    /\ program' \in [name : {program.name}, pc : {"vector"}, due : BOOLEAN,
                     changed : IF InMonitor THEN BOOLEAN ELSE {FALSE}]
    /\ reading' = Nothing
    /\ UNCHANGED <<emulator, dlist, listWindow, screenWindow, output, fails>>

ReadVector ==
    /\ program.pc = "vector"
    /\ reading' = [reading EXCEPT !.start = emulator.list.start]
    /\ Goes("dump")
    /\ UNCHANGED <<emulator, dlist, listWindow, screenWindow, output, fails>>

ReadDisplayList ==
    /\ program.pc = "dump"
    /\ reading' = [reading EXCEPT !.dump = emulator.list.bytes]
    /\ Goes("dmactl")
    /\ UNCHANGED <<emulator, dlist, listWindow, screenWindow, output, fails>>

ReadDMACTL ==
    /\ program.pc = "dmactl"
    /\ reading' = [reading EXCEPT !.dmactl = emulator.list.dmactl]
    /\ Goes(IF emulator.list.dmactl % 4 = 0 THEN "hw" ELSE "decode")
    /\ UNCHANGED <<emulator, dlist, listWindow, screenWindow, output, fails>>

\* The hardware register is not read back on every build: an error is ignored.
ReadHardwareDMACTL ==
    /\ program.pc = "hw"
    /\ \/ reading' = [reading EXCEPT !.dmactl = emulator.list.hw] /\ UNCHANGED fails
       \/ fails < MaxFails /\ fails' = fails + 1 /\ UNCHANGED reading
    /\ Goes("decode")
    /\ UNCHANGED <<emulator, dlist, listWindow, screenWindow, output>>

\* Any other failed call ends a command, and the window's update without a
\* change; the loop goes on to the next component.
CallFails ==
    /\ program.pc \in {"vector", "dump", "dmactl", "fetch"}
    /\ fails < MaxFails
    /\ fails' = fails + 1
    /\ Goes(IF ~InMonitor THEN "stopped" ELSE IF program.pc = "fetch" THEN "render" ELSE "plan")
    /\ UNCHANGED <<emulator, reading, dlist, listWindow, screenWindow, output>>

\* Mutant: the number of instructions is not compared.
Snapshot_Ends(d) ==
    <<d.start, d.dmactl, IF d.entries = <<>> THEN <<>>
                         ELSE <<Head(d.entries).cmd, Head(d.entries).arg,
                                Last(d.entries).cmd, Last(d.entries).arg>> >>

\* What is compared is less than what is shown.
Snapshot(d) ==
    <<d.start, d.dmactl, Len(d.entries),
      IF d.entries = <<>> THEN <<>>
      ELSE <<Head(d.entries).cmd, Head(d.entries).arg, Last(d.entries).cmd, Last(d.entries).arg>> >>

\* DisplayListViewer.Update after its calls: the action ActionSetDList and the
\* comparison with the last snapshot.  The commands decode the same way.
DecodeList ==
    /\ program.pc = "decode"
    /\ dlist' = [start |-> reading.start, dmactl |-> reading.dmactl,
                 entries |-> Decode(reading.start, reading.dump)]
    /\ IF InMonitor
       THEN /\ program' = [program EXCEPT !.pc = "plan",
                               !.changed = @ \/ listWindow.snapshot # {Snapshot(dlist')}]
            /\ listWindow' = [listWindow EXCEPT !.snapshot = {Snapshot(dlist')}]
       ELSE Goes("plan") /\ UNCHANGED listWindow
    /\ UNCHANGED <<emulator, reading, screenWindow, output, fails>>

-----------------------------------------------------------------------------
(* The screen's memory. *)

Fetches(ranges) == reading' = [reading EXCEPT !.todo = ranges, !.buffer = <<>>, !.index = <<>>]

\* ScreenBufferInspector.Update up to its first call.
PlanScreen ==
    /\ program.pc = "plan" /\ InMonitor
    /\ LET fetch == Plan(RowRanges(dlist.entries, dlist.dmactl), MaxRead).fetch
       IN  IF ~program.due
           THEN Goes("render") /\ UNCHANGED <<reading, screenWindow>>
           ELSE IF fetch = <<>>
           THEN /\ screenWindow' = [screenWindow EXCEPT !.rows = <<>>, !.snapshot = {}, !.planned = {}]
                /\ program' = [program EXCEPT !.pc = "render",
                                              !.changed = @ \/ screenWindow.snapshot # {}]
                /\ UNCHANGED reading
           ELSE Fetches(fetch) /\ Goes("fetch") /\ UNCHANGED screenWindow
    /\ UNCHANGED <<emulator, dlist, listWindow, output, fails>>

\* The lines a segment holds the beginning of, cut at its end.
SegmentRows(rows, seg) ==
    FlattenSeq([i \in DOMAIN rows |->
        IF seg.s <= rows[i].addr /\ rows[i].addr < seg.e
        THEN <<[rows[i] EXCEPT !.length = Min({@, seg.e - rows[i].addr})]>> ELSE <<>>])

\* cmdDumpDList and cmdScreen: the lines one by one, one segment, or (raw) all
\* segments; a segment longer than MaxRead is read in pieces.
PlanCommand ==
    /\ program.pc = "plan" /\ ~InMonitor
    /\ LET rows == Plan(RowRanges(dlist.entries, dlist.dmactl), MaxRead).slices
           segs == ScreenSegments(dlist.entries, dlist.dmactl)
       IN  CASE segs = <<>> \/ program.name = "dlist" ->
                    Goes("stopped") /\ UNCHANGED reading
             [] segs # <<>> /\ program.name = "screen" ->
                    Goes("fetch") /\ Fetches([i \in DOMAIN rows |->
                                                 [s |-> rows[i].addr, e |-> rows[i].addr + rows[i].length]])
             [] segs # <<>> /\ program.name = "segment" ->
                    \E i \in DOMAIN segs : Goes("fetch") /\ Fetches(Cut(segs[i], MaxRead))
             [] OTHER ->
                    Goes("fetch") /\ Fetches(Pieces(segs, MaxRead))
    /\ UNCHANGED <<emulator, dlist, listWindow, screenWindow, output, fails>>

\* One READ_MEM.
Fetch ==
    /\ program.pc = "fetch" /\ reading.todo # <<>>
    /\ LET r == Head(reading.todo)
       IN  reading' = [reading EXCEPT !.todo = Tail(@), !.buffer = @ \o Memory(r.s, r.e - r.s),
                           !.index = Append(@, [s |-> r.s, e |-> r.e, off |-> Len(reading.buffer)])]
    /\ UNCHANGED <<emulator, program, dlist, listWindow, screenWindow, output, fails>>

Cutting(slices) ==
    LET data(r) == ReadRow(reading.buffer, reading.index, r.addr, r.length)
    IN  FlattenSeq([i \in DOMAIN slices |->
            IF data(slices[i]) = <<>> THEN <<>>
            ELSE <<[addr |-> slices[i].addr, data |-> data(slices[i])]>>])

\* The rest of ScreenBufferInspector.Update.
TakeRows ==
    /\ program.pc = "fetch" /\ reading.todo = <<>> /\ InMonitor
    /\ LET slices == Plan(RowRanges(dlist.entries, dlist.dmactl), MaxRead).slices
           rows == Cutting(slices)
       IN  /\ screenWindow' = [screenWindow EXCEPT !.rows = rows, !.snapshot = {rows},
                                                   !.planned = ToSet(slices)]
           /\ program' = [program EXCEPT !.pc = "render", !.changed = @ \/ screenWindow.snapshot # {rows}]
    /\ UNCHANGED <<emulator, reading, dlist, listWindow, output, fails>>

\* The lines a command prints: for "screen" what each call returned, for a
\* segment the lines that begin in it, and else all that was read.
Report ==
    /\ program.pc = "fetch" /\ reading.todo = <<>> /\ ~InMonitor
    /\ LET rows == Plan(RowRanges(dlist.entries, dlist.dmactl), MaxRead).slices
           seg == [s |-> Head(reading.index).s, e |-> Last(reading.index).e]
           begins == SegmentRows(rows, seg)
       IN  output' = CASE program.name = "screen" ->
                             [i \in DOMAIN rows |-> [addr |-> rows[i].addr,
                                 data |-> SubSeq(reading.buffer, reading.index[i].off + 1,
                                                 reading.index[i].off + rows[i].length)]]
                       [] program.name = "segment" /\ begins # <<>> ->
                             [i \in DOMAIN begins |-> [addr |-> begins[i].addr,
                                 data |-> SubSeq(reading.buffer, begins[i].addr - seg.s + 1,
                                                 begins[i].addr - seg.s + begins[i].length)]]
                       [] OTHER -> <<[addr |-> seg.s, data |-> reading.buffer]>>
    /\ Goes("stopped")
    /\ UNCHANGED <<emulator, reading, dlist, listWindow, screenWindow, fails>>

\* App.renderComponents: everything is rendered when something has changed.
Render ==
    /\ program.pc = "render"
    /\ Goes("start")
    /\ IF program.changed
       THEN /\ listWindow' = [listWindow EXCEPT !.shown = Compacted(dlist.entries)]
            /\ screenWindow' = [screenWindow EXCEPT !.shown = screenWindow.rows]
       ELSE UNCHANGED <<listWindow, screenWindow>>
    /\ UNCHANGED <<emulator, reading, dlist, output, fails>>

Next ==
    \/ EmulatorChanges
    \/ Start \/ ReadVector \/ ReadDisplayList \/ ReadDMACTL \/ ReadHardwareDMACTL \/ CallFails
    \/ DecodeList \/ PlanScreen \/ PlanCommand \/ Fetch \/ TakeRows \/ Report \/ Render

Spec == Init /\ [][Next]_vars

-----------------------------------------------------------------------------
(* What should hold. *)

AddressesOf(rows) == UNION {{(r.addr + i) % Word : i \in 0..r.length - 1} : r \in rows}
RangeOf(r) == r.s..r.e - 1

\* A line of the screen window, or of a command's output, holds the bytes of
\* its addresses in order, however the fetched ranges were merged and cut; and
\* the window has all lines but those that wrap at the end of memory, which
\* readRow drops.  The command that joins all segments numbers them from the
\* first one's address, right only while they lie one behind the other.
LinesReassembled ==
    LET joined == program.name = "raw" /\ \E i \in DOMAIN reading.index :
                      i > 1 /\ reading.index[i].s # reading.index[i - 1].e
        lines == ToSet(screenWindow.rows) \cup (IF joined THEN {} ELSE ToSet(output))
    IN  /\ \A l \in lines : \A i \in DOMAIN l.data : l.data[i][1] = (l.addr + i - 1) % Word
        /\ {<<l.addr, Len(l.data)>> : l \in ToSet(screenWindow.rows)} =
               {<<r.addr, r.length>> : r \in {p \in screenWindow.planned : p.addr + p.length <= Word}}

\* The window fetches every byte its lines need, no other and none twice, in
\* calls of at most MaxRead bytes that stay below the end of memory.
FetchesWhatIsShown ==
    InMonitor /\ program.pc = "fetch" =>
        LET ranges == [i \in DOMAIN reading.index |->
                          [s |-> reading.index[i].s, e |-> reading.index[i].e]] \o reading.todo
        IN  /\ UNION {RangeOf(r) : r \in ToSet(ranges)} =
                   AddressesOf(ToSet(Plan(RowRanges(dlist.entries, dlist.dmactl), MaxRead).slices))
            /\ \A i \in DOMAIN ranges :
                   /\ ranges[i].s < ranges[i].e /\ ranges[i].e <= Min({Word, ranges[i].s + MaxRead})
                   /\ i > 1 => ranges[i - 1].e <= ranges[i].s

\* The segments a command lists are the memory of the lines, mode by mode,
\* those that wrap included.
SegmentsAreTheScreen ==
    ~InMonitor /\ program.pc \in {"fetch", "stopped"} =>
        LET segs == ToSet(ScreenSegments(dlist.entries, dlist.dmactl))
            rows == ToSet(RowRanges(dlist.entries, dlist.dmactl))
        IN  \A mode \in 2..15 :
                UNION {RangeOf(s) : s \in {t \in segs : t.mode = mode}} =
                AddressesOf({r \in rows : r.mode = mode})

\* How many instructions the first n lines of the display list window stand for.
Counts(lines) ==
    LET total[n \in 0..Len(lines)] == IF n = 0 THEN 0 ELSE total[n - 1] + lines[n].count
    IN  total

\* After each iteration the screen window shows its lines, and the list on the
\* screen is the last one read, or differs from it only where the snapshot of
\* the display list window does not look: inside, between its ends.
StaleOnlyInside ==
    InMonitor /\ program.pc = "start" =>
        LET lines == listWindow.shown
            entries == dlist.entries
        IN  /\ screenWindow.shown = screenWindow.rows
            /\ Counts(lines)[Len(lines)] = Len(entries)
            /\ entries # <<>> =>
                   /\ Head(lines).entry = Head(entries)
                   /\ Last(lines).entry.cmd = Last(entries).cmd
                   /\ Last(lines).entry.arg = Last(entries).arg
==============================================================================
