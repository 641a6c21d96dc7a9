-------------------------- MODULE BreakpointsViewer --------------------------
(***************************************************************************)
(* The breakpoints window of the Go monitor,                               *)
(* go800mon/a800mon/monitor/breakpoints.go, against an emulator whose      *)
(* breakpoint table other clients change too.                              *)
(*                                                                         *)
(* Keys only record what is to be done (pendingClear, pendingDelete,       *)
(* pendingAdd, pendingEnabled); Update, which the application loop calls   *)
(* after the keys and the STATUS poll of an iteration, does it, call by    *)
(* call, and reads the table again when state_seq or one of its own calls  *)
(* says so.  The table may change between any two of those calls.          *)
(***************************************************************************)
EXTENDS Naturals, Sequences, SequencesExt

CONSTANTS
    Clauses,      \* the clauses one can add
    MaxClauses,   \* bound: size of the emulator's table
    MaxKeys,      \* bound: keys pressed in a behaviour
    MaxOthers,    \* bound: changes of the table by other clients
    MaxFails,     \* bound: calls that fail
    MaxFlips      \* bound: changes of the emulator's capabilities

ASSUME BoundsAssumption ==
    /\ MaxClauses \in Nat \ {0}
    /\ {MaxKeys, MaxOthers, MaxFails, MaxFlips} \subseteq Nat

VARIABLES
    table,      \* the emulator's clauses
    tableOn,    \* its global enabled flag
    seq,        \* its state_seq
    late,       \* commands whose call failed and that may still be executed
    others, fails, flips, keys,   \* how much of each bound is used up
    stateSeq,   \* State().StateSeq, what the last STATUS said
    supported,  \* State().BreakpointsSupported
    frozen,     \* State().UIFrozen
    pc,         \* where the application loop stands
    pending,    \* pendingClear, pendingDelete, pendingAdd, pendingEnabled
    refreshRequested,
    lastStateSeq,
    shown,      \* lastSnapshot, clauses and enabled, which are set together
    selected,   \* the grid's selected row, from 1; 0 when none is
    overlay,    \* the clear dialog or the input line
    \* history
    target,     \* the clause that was selected when its deletion was asked for
    disturbed,  \* the viewer has not read the table yet; or since it last did, somebody
                \* else changed it or a read failed
    missed,     \* the last read of the table failed, and nothing asks for another
    unseen,     \* a command of the viewer succeeded and was not read back yet
    typed, added,   \* clauses the user entered; of those, added to the table
    misdeleted  \* a deletion removed another clause than the one selected

emuVars  == <<table, tableOn, seq, late>>
budgets  == <<others, fails, flips, keys>>
stVars   == <<stateSeq, supported, frozen>>
viewVars == <<refreshRequested, lastStateSeq, shown, selected>>
history  == <<target, disturbed, missed, unseen, typed, added, misdeleted>>
vars == <<emuVars, budgets, stVars, pc, pending, viewVars, overlay, history>>

None      == "none"
NoPending == [clear |-> FALSE, delete |-> 0, add |-> <<>>, enabled |-> None]
NoShown   == [has |-> FALSE, on |-> FALSE, clauses |-> <<>>]
NoClause  == "no clause"

Tables   == SeqOf(Clauses, MaxClauses)
Entries  == SeqOf(Clauses, 2) \ {<<>>}
Commands == {"clear", "delete", "add", "enable", "disable"}
Cmd(op, row, clause) == [op |-> op, row |-> row, clause |-> clause]

TypeOK ==
    /\ table \in Tables /\ tableOn \in BOOLEAN /\ seq \in Nat
    /\ late \subseteq [op : Commands, row : 0 .. MaxClauses, clause : Clauses \cup {NoClause},
                       n : 1 .. MaxFails]
    /\ others \in 0 .. MaxOthers /\ fails \in 0 .. MaxFails
    /\ flips \in 0 .. MaxFlips /\ keys \in 0 .. MaxKeys
    /\ stateSeq \in 0 .. seq /\ supported \in BOOLEAN /\ frozen \in BOOLEAN
    /\ pc \in {"input", "poll", "update"}
    /\ pending \in [clear : BOOLEAN, delete : 0 .. MaxClauses, add : Entries \cup {<<>>},
                    enabled : {None, "enable", "disable"}]
    /\ refreshRequested \in BOOLEAN /\ lastStateSeq \in 0 .. seq
    /\ shown \in [has : BOOLEAN, on : BOOLEAN, clauses : Tables]
    /\ selected \in 0 .. MaxClauses
    /\ overlay \in {None, "dialog", "input"}
    /\ target \in Clauses \cup {NoClause}
    /\ {disturbed, missed, unseen, misdeleted} \subseteq BOOLEAN
    /\ typed \in Nat /\ added \in Nat

Init ==
    /\ table \in Tables /\ tableOn \in BOOLEAN
    /\ seq = 0 /\ late = {}
    /\ others = 0 /\ fails = 0 /\ flips = 0 /\ keys = 0
    /\ stateSeq = 0 /\ supported \in BOOLEAN /\ frozen = FALSE
    /\ pc = "input"
    /\ pending = NoPending /\ refreshRequested = FALSE /\ lastStateSeq = 0
    /\ shown = NoShown /\ selected = 0 /\ overlay = None
    /\ target = NoClause /\ disturbed = TRUE /\ missed = FALSE /\ unseen = FALSE
    /\ typed = 0 /\ added = 0 /\ misdeleted = FALSE

(***************************************************************************)
(* The emulator.                                                           *)
(***************************************************************************)

\* A command the emulator accepts; it answers the others with an error.
Valid(c) ==
    /\ c.op = "delete" => c.row \in DOMAIN table
    /\ c.op = "add" => Len(table) < MaxClauses

\* state_seq grows with every change a command makes.
Execute(c) ==
    /\ table' = CASE c.op = "clear"  -> <<>>
                  [] c.op = "delete" -> RemoveAt(table, c.row)
                  [] c.op = "add"    -> Append(table, c.clause)
                  [] OTHER           -> table
    /\ tableOn' = CASE c.op = "enable"  -> TRUE
                    [] c.op = "disable" -> FALSE
                    [] OTHER            -> tableOn
    /\ seq' = seq + 1

\* Another client's command.
OtherClient ==
    /\ others < MaxOthers
    /\ others' = others + 1
    /\ \E op \in Commands, row \in 1 .. MaxClauses, clause \in Clauses :
          /\ Valid(Cmd(op, row, clause))
          /\ Execute(Cmd(op, row, clause))
    /\ disturbed' = TRUE
    /\ UNCHANGED <<late, fails, flips, keys, stVars, pc, pending, viewVars, overlay,
                   target, missed, unseen, typed, added, misdeleted>>

\* A command whose call failed is executed after all.
LateExecution ==
    /\ \E c \in late :
          /\ late' = late \ {c}
          /\ Valid(c)
          /\ Execute(c)
          /\ added' = IF c.op = "add" THEN added + 1 ELSE added
    /\ disturbed' = TRUE
    /\ UNCHANGED <<budgets, stVars, pc, pending, viewVars, overlay,
                   target, missed, unseen, typed, misdeleted>>

\* The three outcomes of a call of the viewer: it succeeds, the emulator refuses
\* it, or it fails and may be executed later or never.
Succeeds(c) ==
    /\ Valid(c)
    /\ Execute(c)
    /\ UNCHANGED <<late, fails>>

Fails(c) ==
    \/ ~Valid(c) /\ UNCHANGED <<emuVars, fails>>
    \/ /\ fails < MaxFails
       /\ fails' = fails + 1
       /\ late' = late \cup {[op |-> c.op, row |-> c.row, clause |-> c.clause, n |-> fails']}
       /\ UNCHANGED <<table, tableOn, seq>>

(***************************************************************************)
(* Keys (HandleInput, handleTextInput).  An iteration of the loop goes on  *)
(* to the STATUS poll and to Update unless the user interface is frozen.   *)
(***************************************************************************)

\* The grid's rows: the clauses, or one row that says there are none.
Rows == IF shown.clauses = <<>> THEN 1 ELSE Len(shown.clauses)

Pressed ==
    /\ pc = "input"
    /\ keys < MaxKeys
    /\ keys' = keys + 1
    /\ UNCHANGED <<emuVars, others, fails, flips, stateSeq, supported, refreshRequested,
                   lastStateSeq, shown, disturbed, missed, unseen, added, misdeleted>>

\* A key that reaches the window: it is visible, and neither the dialog nor the
\* input line takes the keys.
WindowKey == Pressed /\ supported /\ overlay = None /\ UNCHANGED <<frozen, typed>>

GoOn == pc' = IF frozen THEN "input" ELSE "poll"

Up ==
    /\ WindowKey /\ GoOn
    /\ selected' = CASE selected = 0 -> Rows [] selected = 1 -> 1 [] OTHER -> selected - 1
    /\ UNCHANGED <<pending, overlay, target>>

\* Mutant: the selection is not clamped to the rows.
Down_PastTheEnd ==
    /\ WindowKey /\ GoOn
    /\ selected' = selected + 1
    /\ UNCHANGED <<pending, overlay, target>>

Down ==
    /\ WindowKey /\ GoOn
    /\ selected' = IF selected < Rows THEN selected + 1 ELSE Rows
    /\ UNCHANGED <<pending, overlay, target>>

\* queueDeleteSelected.
Delete ==
    /\ WindowKey /\ GoOn
    /\ selected # 0
    /\ pending' = [pending EXCEPT !.delete = selected]
    /\ target' = IF selected \in DOMAIN shown.clauses THEN shown.clauses[selected] ELSE NoClause
    /\ selected' = CASE selected < Len(shown.clauses) -> selected
                     [] Len(shown.clauses) <= 1       -> 0
                     [] OTHER                         -> Len(shown.clauses) - 1
    /\ UNCHANGED overlay

ToggleEnabled ==
    /\ WindowKey /\ GoOn
    /\ pending' = [pending EXCEPT !.enabled = IF shown.on THEN "disable" ELSE "enable"]
    /\ UNCHANGED <<selected, overlay, target>>

OpenOverlay ==
    /\ WindowKey /\ GoOn
    /\ overlay' \in {"dialog", "input"}
    /\ UNCHANGED <<pending, selected, target>>

\* The dialog belongs to the window; the input line has the keys wherever the
\* focus is, even when the window is gone.
ConfirmClear ==
    /\ Pressed /\ GoOn
    /\ supported /\ overlay = "dialog"
    /\ overlay' = None
    /\ pending' = [pending EXCEPT !.clear = TRUE]
    /\ UNCHANGED <<frozen, selected, target, typed>>

\* Enter on a valid line.
CommitInput ==
    /\ Pressed /\ GoOn
    /\ overlay = "input"
    /\ overlay' = None
    /\ \E e \in Entries : /\ pending' = [pending EXCEPT !.add = e]
                          /\ typed' = typed + Len(e)
    /\ UNCHANGED <<frozen, selected, target>>

\* Escape, or Enter on an empty line.
CloseOverlay ==
    /\ Pressed /\ GoOn
    /\ overlay = "input" \/ (overlay = "dialog" /\ supported)
    /\ overlay' = None
    /\ UNCHANGED <<frozen, pending, selected, target, typed>>

ToggleFreeze ==
    /\ Pressed
    /\ overlay # "input"
    /\ frozen' = ~frozen
    /\ pc' = IF frozen' THEN "input" ELSE "poll"
    /\ UNCHANGED <<pending, selected, overlay, target, typed>>

Key == \/ Up \/ Down \/ Delete \/ ToggleEnabled \/ OpenOverlay
       \/ ConfirmClear \/ CommitInput \/ CloseOverlay \/ ToggleFreeze

(***************************************************************************)
(* The STATUS poll of an iteration, with or without a key before it.  When *)
(* it fails, or when it is not due after a key, the state stays as it was. *)
(* It may find an emulator built with or without breakpoints.              *)
(***************************************************************************)
Polled == UNCHANGED <<emuVars, others, keys, frozen, pending, viewVars, overlay, history>>

Poll ==
    /\ pc = "poll" \/ (pc = "input" /\ ~frozen)
    /\ stateSeq' = seq
    /\ \/ UNCHANGED <<supported, flips>>
       \/ flips < MaxFlips /\ flips' = flips + 1 /\ supported' = ~supported
    /\ pc' = "update"
    /\ UNCHANGED fails /\ Polled

PollFails ==
    /\ pc = "poll" \/ (pc = "input" /\ ~frozen)
    /\ fails < MaxFails
    /\ fails' = fails + 1
    /\ pc' = "update"
    /\ UNCHANGED <<stateSeq, supported, flips>> /\ Polled

PollNotDue ==
    /\ pc = "poll"
    /\ pc' = "update"
    /\ UNCHANGED <<stateSeq, supported, flips, fails>> /\ Polled

(***************************************************************************)
(* Update.  The pending work is done in a fixed order, each part of it     *)
(* forgotten before its call is made; then the table is read, if needed.   *)
(***************************************************************************)
Updating == pc = "update" /\ supported

Unsupported ==
    /\ pc = "update" /\ ~supported
    /\ pc' = "input"
    /\ UNCHANGED <<emuVars, budgets, stVars, pending, viewVars, overlay, history>>

\* What no command of the viewer changes.
CommandFrame == UNCHANGED <<others, flips, keys, stVars, pc, lastStateSeq, shown, overlay,
                            target, disturbed, missed, typed>>

\* Mutant: the viewer leaves it to state_seq to tell it of its own changes.
Done_NoRequest(c) == Succeeds(c) /\ UNCHANGED refreshRequested /\ unseen' = TRUE

Done(c) == Succeeds(c) /\ refreshRequested' = TRUE /\ unseen' = TRUE
NotDone(c) == Fails(c) /\ UNCHANGED <<refreshRequested, unseen>>

UpdateClear ==
    /\ Updating /\ pending.clear
    /\ pending' = [pending EXCEPT !.clear = FALSE]
    /\ LET c == Cmd("clear", 0, NoClause) IN
          \/ Done(c) /\ selected' = 0
          \/ NotDone(c) /\ UNCHANGED selected
    /\ CommandFrame /\ UNCHANGED <<added, misdeleted>>

\* Mutant: the deletion is not forgotten.
UpdateDelete_KeepsPending ==
    /\ Updating /\ ~pending.clear /\ pending.delete # 0
    /\ LET c == Cmd("delete", pending.delete, NoClause) IN
          \/ /\ Done(c)
             /\ misdeleted' = (misdeleted \/ (~disturbed /\ table[c.row] # target))
          \/ NotDone(c) /\ UNCHANGED misdeleted
    /\ CommandFrame /\ UNCHANGED <<pending, selected, added>>

UpdateDelete ==
    /\ Updating /\ ~pending.clear /\ pending.delete # 0
    /\ pending' = [pending EXCEPT !.delete = 0]
    /\ LET c == Cmd("delete", pending.delete, NoClause) IN
          \/ /\ Done(c)
             /\ misdeleted' = (misdeleted \/ (~disturbed /\ table[c.row] # target))
          \/ NotDone(c) /\ UNCHANGED misdeleted
    /\ CommandFrame /\ UNCHANGED <<selected, added>>

\* Mutant: a clause whose call failed is tried again.
UpdateAdd_Retries ==
    /\ Updating /\ ~pending.clear /\ pending.delete = 0 /\ pending.add # <<>>
    /\ LET c == Cmd("add", 0, Head(pending.add)) IN
          \/ /\ Done(c)
             /\ pending' = [pending EXCEPT !.add = Tail(@)]
             /\ added' = added + 1
          \/ NotDone(c) /\ UNCHANGED <<pending, added>>
    /\ CommandFrame /\ UNCHANGED <<selected, misdeleted>>

\* The first clause that cannot be added ends the loop: the rest is dropped.
UpdateAdd ==
    /\ Updating /\ ~pending.clear /\ pending.delete = 0 /\ pending.add # <<>>
    /\ LET c == Cmd("add", 0, Head(pending.add)) IN
          \/ /\ Done(c)
             /\ pending' = [pending EXCEPT !.add = Tail(@)]
             /\ added' = added + 1
          \/ /\ NotDone(c)
             /\ pending' = [pending EXCEPT !.add = <<>>]
             /\ UNCHANGED added
    /\ CommandFrame /\ UNCHANGED <<selected, misdeleted>>

UpdateEnabled ==
    /\ Updating /\ ~pending.clear /\ pending.delete = 0 /\ pending.add = <<>>
    /\ pending.enabled # None
    /\ pending' = [pending EXCEPT !.enabled = None]
    /\ LET c == Cmd(pending.enabled, 0, NoClause) IN Done(c) \/ NotDone(c)
    /\ CommandFrame /\ UNCHANGED <<selected, added, misdeleted>>

CommandsDone == Updating /\ pending = NoPending

\* Mutant: only the viewer's own changes make it read the table again.
NeedsList_OwnOnly == ~shown.has \/ refreshRequested

NeedsList == ~shown.has \/ refreshRequested \/ lastStateSeq # stateSeq

\* What Render leaves selected of the rows it is given.
Settled(clauses) == IF selected > Len(clauses) THEN Len(clauses) ELSE selected

ListFrame == UNCHANGED <<emuVars, others, flips, keys, stVars, pending, overlay,
                         target, typed, added, misdeleted>>

ListNotNeeded ==
    /\ CommandsDone /\ ~NeedsList
    /\ pc' = "input"
    /\ selected' = Settled(shown.clauses)
    /\ UNCHANGED <<fails, refreshRequested, lastStateSeq, shown, disturbed, missed, unseen>>
    /\ ListFrame

List ==
    /\ CommandsDone /\ NeedsList
    /\ pc' = "input"
    /\ lastStateSeq' = stateSeq
    /\ refreshRequested' = FALSE
    /\ shown' = [has |-> TRUE, on |-> tableOn, clauses |-> table]
    /\ selected' = Settled(table)
    /\ disturbed' = FALSE /\ missed' = FALSE /\ unseen' = FALSE
    /\ UNCHANGED fails
    /\ ListFrame

\* The state_seq of a read that fails is recorded all the same.
ListFails ==
    /\ CommandsDone /\ NeedsList
    /\ fails < MaxFails
    /\ fails' = fails + 1
    /\ pc' = "input"
    /\ lastStateSeq' = stateSeq
    /\ selected' = Settled(shown.clauses)
    /\ disturbed' = TRUE
    /\ missed' = (shown.has /\ ~refreshRequested)
    /\ UNCHANGED <<refreshRequested, shown, unseen>>
    /\ ListFrame

Update == \/ Unsupported \/ UpdateClear \/ UpdateDelete \/ UpdateAdd \/ UpdateEnabled
          \/ ListNotNeeded \/ List \/ ListFails

Loop == Poll \/ PollFails \/ PollNotDue \/ Update

Next == Key \/ Loop \/ OtherClient \/ LateExecution

\* The loop goes round: GetInputChar returns after 20 ms, a poll falls due, calls
\* have deadlines.  Nothing is asked of the user or of other clients.
Spec == Init /\ [][Next]_vars /\ WF_vars(Loop)

-----------------------------------------------------------------------------
(***************************************************************************)
(* Properties.                                                             *)
(***************************************************************************)

\* A deletion removes the clause that was selected when the key was pressed, however
\* long the freeze and whatever else was pending, unless somebody else changed the
\* table or the viewer failed to read it in between: BP_DELETE_CLAUSE has nothing but
\* an index (breakpoints.go:61-68, 216-230).  Before the first read it promises nothing:
\* the row "No breakpoint clauses." can be selected in a monitor frozen at once, and its
\* deletion removes the first clause of a table nobody has seen.
DeletesTheSelected == ~misdeleted

\* A clause typed once is added at most once, though a failed BP_ADD_CLAUSE may be
\* executed later: Update never tries again (breakpoints.go:69-82).
AddsOnce == added <= typed

\* The conditions of the two promises below: the user does not freeze the monitor for
\* ever, and the emulator stays one with breakpoints.
Watched == []<>~frozen /\ <>[]supported

\* What the viewer itself changed is read back, even when reads of the table fail:
\* refreshRequested stays until one succeeds (breakpoints.go:91-100).
OwnChangesShown == Watched => (unseen ~> ~unseen)

Current == shown.has /\ shown.on = tableOn /\ shown.clauses = table

\* Once the table stops changing, the window shows it, except after a failed read that
\* nothing made the viewer repeat.
ShowsTableUnlessMissed == Watched => <>[](missed \/ Current)

\* SOCKET_PROTOCOL.md:1134: "Clients can poll `STATUS` and refresh when `state_seq`
\* changes", so that once the table stops changing, the window shows it.
ShowsTable == Watched => <>[]Current
=============================================================================
