----------------------- MODULE BreakpointsViewerProofs -----------------------
(***************************************************************************)
(* What holds of the breakpoints window for every table, every number of   *)
(* keys, of failing calls and of other clients' commands: TLAPS proofs of  *)
(* the invariants of BreakpointsViewer.                                    *)
(***************************************************************************)
EXTENDS BreakpointsViewer, FiniteSetTheorems, SequenceTheorems, TLAPS

(***************************************************************************)
(* The inductive invariant.                                                *)
(***************************************************************************)
LateCommands == [op : Commands, row : 0 .. MaxClauses, clause : Clauses \cup {NoClause},
                 n : 1 .. MaxFails]
TableOK ==
    /\ table \in Seq(Clauses) /\ Len(table) <= MaxClauses
    /\ tableOn \in BOOLEAN /\ seq \in Nat
LateOK ==
    /\ late \subseteq LateCommands /\ IsFiniteSet(late)
    /\ \A c \in late : c.op = "add" => c.clause \in Clauses
BudgetOK ==
    /\ others \in 0 .. MaxOthers /\ fails \in 0 .. MaxFails
    /\ flips \in 0 .. MaxFlips /\ keys \in 0 .. MaxKeys
LoopOK ==
    /\ supported \in BOOLEAN /\ frozen \in BOOLEAN /\ refreshRequested \in BOOLEAN
    /\ pc \in {"input", "poll", "update"}
    /\ stateSeq \in 0 .. seq /\ lastStateSeq \in 0 .. seq
\* What the keys have asked for.
PendingType == [clear : BOOLEAN, delete : 0 .. MaxClauses, add : Seq(Clauses),
                enabled : {None, "enable", "disable"}]
PendingOK ==
    /\ pending \in PendingType
    /\ Len(pending.add) <= 2
WindowOK ==
    /\ shown \in [has : BOOLEAN, on : BOOLEAN, clauses : Seq(Clauses)]
    /\ Len(shown.clauses) <= MaxClauses
    /\ selected \in 0 .. MaxClauses
    /\ overlay \in {None, "dialog", "input"}
    /\ target \in Clauses \cup {NoClause}
HistoryOK ==
    /\ disturbed \in BOOLEAN /\ missed \in BOOLEAN /\ unseen \in BOOLEAN
    /\ misdeleted = FALSE /\ typed \in Nat /\ added \in Nat
Typed == TableOK /\ LateOK /\ BudgetOK /\ LoopOK /\ PendingOK /\ WindowOK /\ HistoryOK

\* The clause that is to be deleted is the one the window shows at its index; and the window
\* shows the table, unless the commands of an Update that is under way have changed it.
DeleteInv ==
    /\ pending.delete # 0 =>
          target = IF pending.delete \in DOMAIN shown.clauses
                   THEN shown.clauses[pending.delete] ELSE NoClause
    /\ ~disturbed =>
          IF unseen THEN /\ pc = "update" /\ supported /\ refreshRequested
                         /\ pending.delete = 0 \/ table = <<>>
                    ELSE shown.clauses = table

\* A clause that was typed waits to be added, has been added, or may still be added late.
LateAdds == {c \in late : c.op = "add"}
AddInv == added + Len(pending.add) + Cardinality(LateAdds) <= typed

IInv == Typed /\ DeleteInv /\ AddInv

(***************************************************************************)
(* Data: sequences and finite sets.                                        *)
(***************************************************************************)

\* The sequences of at most n elements, as SeqOf builds them.
LEMMA IsSeqOf ==
  ASSUME NEW S, NEW n \in Nat, NEW s
  PROVE  s \in SeqOf(S, n) <=> s \in Seq(S) /\ Len(s) <= n
<1>1. ASSUME s \in Seq(S), Len(s) <= n PROVE s \in SeqOf(S, n)
  <2>1. s \in [1 .. Len(s) -> S] /\ Len(s) \in 0 .. n
    BY <1>1, LenProperties
  <2>2. QED
    BY <2>1 DEF SeqOf
<1>2. ASSUME s \in SeqOf(S, n) PROVE s \in Seq(S) /\ Len(s) <= n
  <2>1. PICK m \in 0 .. n : s \in [1 .. m -> S]
    BY <1>2 DEF SeqOf
  <2>2. QED
    BY <2>1
<1>3. QED
  BY <1>1, <1>2

\* Removing an element leaves a sequence shorter by one.
LEMMA Removed ==
  ASSUME NEW S, NEW s \in Seq(S), NEW i \in DOMAIN s
  PROVE  RemoveAt(s, i) \in Seq(S) /\ Len(RemoveAt(s, i)) = Len(s) - 1
<1>1. i \in 1 .. Len(s) /\ Len(s) \in Nat /\ \A j \in 1 .. Len(s) : s[j] \in S
  BY LenProperties, ElementOfSeq
<1>2. SubSeq(s, 1, i - 1) \in Seq(S) /\ Len(SubSeq(s, 1, i - 1)) = i - 1
  BY <1>1, SubSeqProperties
<1>3. SubSeq(s, i + 1, Len(s)) \in Seq(S) /\ Len(SubSeq(s, i + 1, Len(s))) = Len(s) - i
  BY <1>1, SubSeqProperties
<1> DEFINE a == SubSeq(s, 1, i - 1)
           b == SubSeq(s, i + 1, Len(s))
<1>4. a \o b \in Seq(S) /\ Len(a \o b) = Len(a) + Len(b)
  BY <1>2, <1>3, ConcatProperties
<1>5. RemoveAt(s, i) = a \o b
  BY DEF RemoveAt
<1> HIDE DEF a, b
<1>6. Len(s) \in Nat /\ i \in 1 .. Len(s)
  BY <1>1
<1>7. Len(a) = i - 1 /\ Len(b) = Len(s) - i
  BY <1>2, <1>3 DEF a, b
<1>8. Len(a \o b) = Len(s) - 1
  BY <1>4, <1>6, <1>7
<1>9. QED
  BY <1>4, <1>5, <1>8

\* The bounds, one by one.
LEMMA Bounds ==
  /\ MaxClauses \in Nat /\ MaxClauses >= 1 /\ MaxKeys \in Nat /\ MaxOthers \in Nat
  /\ MaxFails \in Nat /\ MaxFlips \in Nat
BY BoundsAssumption

(***************************************************************************)
(* The emulator.                                                           *)
(***************************************************************************)

\* Whatever command the emulator executes, its table stays one.
LEMMA Executes ==
  ASSUME TableOK, NEW c, c.op \in Commands, Valid(c), Execute(c),
         c.op = "add" => c.clause \in Clauses
  PROVE  TableOK' /\ seq' = seq + 1
<1>1. table' \in Seq(Clauses) /\ Len(table') <= MaxClauses
  <2>1. CASE c.op = "clear"
    BY <2>1, EmptySeq, Bounds DEF Execute, TableOK
  <2>2. CASE c.op = "delete"
    <3>1. table' = RemoveAt(table, c.row) /\ c.row \in DOMAIN table
      BY <2>2 DEF Execute, Valid
    <3>2. QED
      BY <3>1, Removed, LenProperties, Bounds DEF TableOK
  <2>3. CASE c.op = "add"
    BY <2>3, AppendProperties, Bounds DEF Execute, Valid, TableOK
  <2>4. CASE c.op \notin {"clear", "delete", "add"}
    BY <2>4 DEF Execute, TableOK
  <2>5. QED
    BY <2>1, <2>2, <2>3, <2>4
<1>2. tableOn' \in BOOLEAN /\ seq' = seq + 1
  BY DEF Execute, TableOK
<1>3. QED
  BY <1>1, <1>2 DEF TableOK

\* How many additions may still be executed, when a late command goes or comes.
LEMMA LateCounts ==
  ASSUME LateOK
  PROVE  /\ IsFiniteSet(LateAdds) /\ Cardinality(LateAdds) \in Nat
         /\ \A c \in late : Cardinality({d \in late \ {c} : d.op = "add"})
                             = Cardinality(LateAdds) - (IF c.op = "add" THEN 1 ELSE 0)
         /\ \A c : Cardinality({d \in late \cup {c} : d.op = "add"})
                      <= Cardinality(LateAdds) + (IF c.op = "add" THEN 1 ELSE 0)
<1>1. IsFiniteSet(LateAdds) /\ Cardinality(LateAdds) \in Nat
  BY FS_Subset, FS_CardinalityType DEF LateAdds, LateOK
<1>2. ASSUME NEW c \in late
      PROVE  Cardinality({d \in late \ {c} : d.op = "add"})
                             = Cardinality(LateAdds) - (IF c.op = "add" THEN 1 ELSE 0)
  <2>1. CASE c.op = "add"
    <3>1. {d \in late \ {c} : d.op = "add"} = LateAdds \ {c} /\ c \in LateAdds
      BY <2>1 DEF LateAdds
    <3>2. Cardinality(LateAdds \ {c}) = Cardinality(LateAdds) - 1
      BY <1>1, <3>1, FS_RemoveElement
    <3>3. QED
      BY <2>1, <3>1, <3>2
  <2>2. CASE c.op # "add"
    <3>1. {d \in late \ {c} : d.op = "add"} = LateAdds
      BY <2>2 DEF LateAdds
    <3>2. QED
      BY <1>1, <2>2, <3>1
  <2>3. QED
    BY <2>1, <2>2
<1>3. ASSUME NEW c
      PROVE  Cardinality({d \in late \cup {c} : d.op = "add"})
                      <= Cardinality(LateAdds) + (IF c.op = "add" THEN 1 ELSE 0)
  <2>1. CASE c.op = "add"
    <3>1. {d \in late \cup {c} : d.op = "add"} = LateAdds \cup {c}
      BY <2>1 DEF LateAdds
    <3>2. Cardinality(LateAdds \cup {c}) <= Cardinality(LateAdds) + 1
      BY <1>1, FS_AddElement
    <3>3. QED
      BY <2>1, <3>1, <3>2
  <2>2. CASE c.op # "add"
    <3>1. {d \in late \cup {c} : d.op = "add"} = LateAdds
      BY <2>2 DEF LateAdds
    <3>2. \A n \in Nat : n <= n + 0
      OBVIOUS
    <3>3. QED
      BY <1>1, <2>2, <3>1, <3>2
  <2>3. QED
    BY <2>1, <2>2
<1>4. QED
  BY <1>1, <1>2, <1>3

(***************************************************************************)
(* Keys and polls.                                                         *)
(***************************************************************************)

\* What no key changes.
keyKeeps == <<table, tableOn, seq, late, others, fails, flips, stateSeq, supported,
              refreshRequested, lastStateSeq, shown, disturbed, missed, unseen, added,
              misdeleted>>

\* Keys only record what is to be done.
LEMMA KeyKeeps == Key => pc = "input" /\ UNCHANGED keyKeeps
BY DEF keyKeeps, emuVars, Key, Up, Down, Delete, ToggleEnabled, OpenOverlay, ConfirmClear,
  CommitInput, CloseOverlay, ToggleFreeze, WindowKey, Pressed, GoOn

\* A key asks for the deletion of the row that is selected, and for no more additions than the
\* user typed clauses.
LEMMA KeyPending ==
  ASSUME Typed, Key
  PROVE  /\ PendingOK' /\ typed' \in Nat
         /\ Len(pending'.add) - Len(pending.add) <= typed' - typed
         /\ \/ pending'.delete = pending.delete /\ target' = target
            \/ /\ pending'.delete = selected
               /\ target' = IF selected \in DOMAIN shown.clauses THEN shown.clauses[selected]
                                                                 ELSE NoClause
<1>0. /\ pending \in PendingType
      /\ Len(pending.add) \in Nat /\ Len(pending.add) <= 2 /\ typed \in Nat
  BY LenProperties DEF Typed, PendingOK, HistoryOK
<1>1. CASE CommitInput
  <2>1. PICK e \in Entries : /\ pending' = [pending EXCEPT !.add = e] /\ typed' = typed + Len(e)
                             /\ target' = target
    BY <1>1 DEF CommitInput
  <2>2. e \in Seq(Clauses) /\ Len(e) <= 2 /\ Len(e) \in Nat
    BY IsSeqOf, LenProperties DEF Entries
  <2>3. /\ pending'.add = e /\ pending'.delete = pending.delete
        /\ pending' \in PendingType
    BY <1>0, <2>1, <2>2 DEF PendingType
  <2>4. QED
    BY <1>0, <2>1, <2>2, <2>3 DEF PendingOK, PendingType
<1>2. CASE Delete
  <2>1. /\ pending' = [pending EXCEPT !.delete = selected] /\ selected \in 0 .. MaxClauses
        /\ typed' = typed
        /\ target' = IF selected \in DOMAIN shown.clauses
                     THEN shown.clauses[selected] ELSE NoClause
    BY <1>2 DEF Delete, WindowKey, Typed, WindowOK
  <2>2. QED
    BY <1>0, <2>1 DEF PendingOK, PendingType
<1>3. CASE ToggleEnabled
  <2>1. PICK e \in {"enable", "disable"} : pending' = [pending EXCEPT !.enabled = e]
    BY <1>3 DEF ToggleEnabled
  <2>2. target' = target /\ typed' = typed
    BY <1>3 DEF ToggleEnabled, WindowKey
  <2>3. QED
    BY <1>0, <2>1, <2>2 DEF PendingOK, PendingType
<1>4. CASE ConfirmClear
  <2>1. pending' = [pending EXCEPT !.clear = TRUE] /\ target' = target /\ typed' = typed
    BY <1>4 DEF ConfirmClear
  <2>2. pending'.add = pending.add /\ pending'.delete = pending.delete
    BY <1>0, <2>1 DEF PendingType
  <2>3. pending' \in PendingType
    BY <1>0, <2>1 DEF PendingType
  <2>4. QED
    BY <1>0, <2>1, <2>2, <2>3 DEF PendingOK, PendingType
<1>5. CASE Up \/ Down \/ OpenOverlay \/ CloseOverlay \/ ToggleFreeze
  <2>1. UNCHANGED <<pending, target, typed>>
    BY <1>5 DEF Up, Down, OpenOverlay, CloseOverlay, ToggleFreeze, WindowKey
  <2>2. QED
    BY <1>0, <2>1 DEF PendingOK, PendingType
<1>6. QED
  BY <1>1, <1>2, <1>3, <1>4, <1>5 DEF Key

\* A key keeps every variable's type; the selection stays within the rows.
LEMMA KeyTyped ==
  ASSUME Typed, Key
  PROVE  Typed'
<1>0. pc = "input" /\ UNCHANGED keyKeeps
  BY KeyKeeps
<1>1. TableOK' /\ LateOK'
  BY <1>0 DEF keyKeeps, Typed, TableOK, LateOK
<1>2. BudgetOK'
  <2>1. keys < MaxKeys /\ keys' = keys + 1
    BY DEF Key, Up, Down, Delete, ToggleEnabled, OpenOverlay, ConfirmClear, CommitInput,
      CloseOverlay, ToggleFreeze, WindowKey, Pressed, GoOn
  <2>2. QED
    BY <1>0, <2>1, Bounds DEF keyKeeps, Typed, BudgetOK
<1>3. LoopOK'
  <2>1. frozen' \in BOOLEAN /\ pc' \in {"input", "poll"}
    BY DEF Typed, LoopOK, Key, Up, Down, Delete, ToggleEnabled, OpenOverlay, ConfirmClear,
      CommitInput, CloseOverlay, ToggleFreeze, WindowKey, Pressed, GoOn
  <2>2. QED
    BY <1>0, <2>1 DEF keyKeeps, Typed, LoopOK
<1>4. PendingOK' /\ HistoryOK'
  BY <1>0, KeyPending DEF keyKeeps, Typed, HistoryOK
<1>5. WindowOK'
  <2>1. selected' \in 0 .. MaxClauses
    <3>1. /\ selected \in 0 .. MaxClauses /\ Len(shown.clauses) \in Nat
          /\ Len(shown.clauses) <= MaxClauses
          /\ Rows \in 1 .. MaxClauses
      BY Bounds, LenProperties, EmptySeq DEF Typed, WindowOK, Rows
    <3>2. QED
      BY <3>1, Bounds DEF Key, Up, Down, Delete, ToggleEnabled, OpenOverlay, ConfirmClear,
        CommitInput, CloseOverlay, ToggleFreeze
  <2>2. overlay' \in {None, "dialog", "input"}
    BY DEF Typed, WindowOK, Key, Up, Down, Delete, ToggleEnabled, OpenOverlay, ConfirmClear,
      CommitInput, CloseOverlay, ToggleFreeze, WindowKey, Pressed, GoOn
  <2>3. target' \in Clauses \cup {NoClause}
    <3>1. \A i \in DOMAIN shown.clauses : shown.clauses[i] \in Clauses
      BY ElementOfSeq, LenProperties DEF Typed, WindowOK
    <3>2. QED
      BY <3>1, KeyPending DEF Typed, WindowOK
  <2>4. QED
    BY <1>0, <2>1, <2>2, <2>3 DEF keyKeeps, Typed, WindowOK
<1>6. QED
  BY <1>1, <1>2, <1>3, <1>4, <1>5 DEF Typed

\* Between Updates an undisturbed window shows the table, so the target of a deletion is the
\* clause in the selected row.
LEMMA KeyStep ==
  ASSUME IInv, Key
  PROVE  IInv'
<1>0. pc = "input" /\ UNCHANGED keyKeeps /\ Typed'
  BY KeyKeeps, KeyTyped DEF IInv
<1>1. DeleteInv'
  <2>1. ~disturbed => ~unseen /\ shown.clauses = table
    BY <1>0 DEF IInv, DeleteInv
  <2>2. pending'.delete # 0 =>
          target' = IF pending'.delete \in DOMAIN shown.clauses
                    THEN shown.clauses[pending'.delete] ELSE NoClause
    BY <1>0, KeyPending DEF IInv, DeleteInv
  <2>3. QED
    BY <1>0, <2>1, <2>2 DEF keyKeeps, DeleteInv
<1>2. AddInv'
  <2>1. late' = late /\ added' = added
    BY <1>0 DEF keyKeeps
  <2>2. IsFiniteSet(LateAdds) /\ LateAdds' = LateAdds
    BY <2>1, FS_Subset DEF LateAdds, IInv, Typed, LateOK
  <2>3. Len(pending.add) \in Nat /\ Len(pending'.add) \in Nat /\ Cardinality(LateAdds) \in Nat
        /\ added \in Nat /\ typed \in Nat /\ typed' \in Nat
    BY <1>0, <2>2, LenProperties, FS_CardinalityType DEF IInv, Typed, PendingOK, HistoryOK
  <2>4. added + Len(pending.add) + Cardinality(LateAdds) <= typed
    BY DEF IInv, AddInv
  <2>5. Len(pending'.add) - Len(pending.add) <= typed' - typed
    BY KeyPending DEF IInv
  <2>6. added + Len(pending'.add) + Cardinality(LateAdds) <= typed'
    <3>1. \A a, b, c, d, e, f \in Nat : a + b + c <= d /\ e - b <= f - d => a + e + c <= f
      OBVIOUS
    <3>2. QED
      BY <2>3, <2>4, <2>5, <3>1
  <2>7. QED
    BY <2>1, <2>2, <2>6 DEF AddInv
<1>3. QED
  BY <1>0, <1>1, <1>2 DEF IInv

\* The poll finds out about the emulator and touches nothing of the window.
LEMMA PollStep ==
  ASSUME IInv, Poll \/ PollFails \/ PollNotDue
  PROVE  IInv'
<1>1. /\ UNCHANGED <<emuVars, others, keys, frozen, pending, viewVars, overlay, history>>
      /\ pc \in {"input", "poll"} /\ pc' = "update" /\ stateSeq' \in {stateSeq, seq}
  BY DEF Poll, PollFails, PollNotDue, Polled
<1>2. /\ supported' \in BOOLEAN /\ fails' \in 0 .. MaxFails /\ flips' \in 0 .. MaxFlips
  <2>1. fails \in 0 .. MaxFails /\ flips \in 0 .. MaxFlips /\ supported \in BOOLEAN
    BY DEF IInv, Typed, LoopOK, BudgetOK
  <2>2. \/ UNCHANGED <<supported, flips>>
        \/ flips < MaxFlips /\ flips' = flips + 1 /\ supported' = ~supported
    BY DEF Poll, PollFails, PollNotDue
  <2>3. fails' = fails \/ (fails < MaxFails /\ fails' = fails + 1)
    BY DEF Poll, PollFails, PollNotDue
  <2>4. fails' \in 0 .. MaxFails
    BY <2>1, <2>3, Bounds
  <2>5. flips' \in 0 .. MaxFlips
    BY <2>1, <2>2, Bounds
  <2>6. supported' \in BOOLEAN
    BY <2>1, <2>2
  <2>7. QED
    BY <2>4, <2>5, <2>6
<1>3. Typed'
  <2>1. TableOK' /\ LateOK' /\ PendingOK' /\ WindowOK' /\ HistoryOK'
    BY <1>1 DEF IInv, Typed, TableOK, LateOK, PendingOK, WindowOK, HistoryOK, emuVars,
      viewVars, history
  <2>2. BudgetOK'
    BY <1>1, <1>2 DEF IInv, Typed, BudgetOK
  <2>3. LoopOK'
    BY <1>1, <1>2 DEF IInv, Typed, LoopOK, TableOK, emuVars, viewVars
  <2>4. QED
    BY <2>1, <2>2, <2>3 DEF Typed
<1>4. DeleteInv'
  BY <1>1 DEF IInv, DeleteInv, emuVars, viewVars, history
<1>5. AddInv'
  BY <1>1 DEF IInv, AddInv, LateAdds, emuVars, history
<1>6. QED
  BY <1>3, <1>4, <1>5 DEF IInv

(***************************************************************************)
(* Commands of others.                                                     *)
(***************************************************************************)

\* A command, as the emulator takes it.
Command(c) ==
    /\ c.op \in Commands /\ c.row \in 0 .. MaxClauses /\ c.clause \in Clauses \cup {NoClause}
    /\ c.op = "add" => c.clause \in Clauses

\* A command that is not the window's own.
LEMMA Disturbs ==
  ASSUME IInv, NEW c, Command(c), Valid(c), Execute(c), disturbed' = TRUE,
         UNCHANGED <<stVars, pc, pending, viewVars, overlay, target, missed, unseen, typed,
                     misdeleted>>,
         LateOK', BudgetOK', added' \in Nat
  PROVE  Typed' /\ DeleteInv'
<1>1. TableOK' /\ seq' = seq + 1
  BY Executes DEF Command, IInv, Typed
<1>2. PendingOK' /\ WindowOK' /\ HistoryOK'
  BY DEF IInv, Typed, PendingOK, WindowOK, HistoryOK, viewVars
<1>3. LoopOK'
  BY <1>1 DEF IInv, Typed, LoopOK, TableOK, viewVars, stVars
<1>4. DeleteInv'
  BY DEF IInv, DeleteInv, viewVars
<1>5. QED
  BY <1>1, <1>2, <1>3, <1>4 DEF Typed

\* Another client's command.
LEMMA OthersStep ==
  ASSUME IInv, OtherClient
  PROVE  IInv'
<1>1. PICK op \in Commands, row \in 1 .. MaxClauses, clause \in Clauses :
         Valid(Cmd(op, row, clause)) /\ Execute(Cmd(op, row, clause))
  BY DEF OtherClient
<1>2. Command(Cmd(op, row, clause))
  BY Bounds DEF Command, Cmd
<1>3. /\ UNCHANGED <<late, stVars, pc, pending, viewVars, overlay, target, missed, unseen,
                     typed, added, misdeleted>>
      /\ disturbed' = TRUE
  BY DEF OtherClient
<1>4. LateOK' /\ AddInv' /\ added' \in Nat
  BY <1>3 DEF IInv, Typed, LateOK, AddInv, LateAdds, HistoryOK
<1>5. BudgetOK'
  BY Bounds DEF OtherClient, IInv, Typed, BudgetOK
<1>6. QED
  BY <1>1, <1>2, <1>3, <1>4, <1>5, Disturbs DEF IInv

\* A command of the window that is executed after its call failed: it was counted before.
LEMMA LateStep ==
  ASSUME IInv, LateExecution
  PROVE  IInv'
<1>1. PICK c \in late :
         /\ late' = late \ {c} /\ Valid(c) /\ Execute(c)
         /\ added' = IF c.op = "add" THEN added + 1 ELSE added
  BY DEF LateExecution
<1>2. Command(c)
  BY <1>1 DEF Command, IInv, Typed, LateOK, LateCommands
<1>3. /\ UNCHANGED <<budgets, stVars, pc, pending, viewVars, overlay, target, missed, unseen,
                     typed, misdeleted>>
      /\ disturbed' = TRUE
  BY DEF LateExecution
<1>4. added \in Nat /\ typed \in Nat /\ added' \in Nat /\ Len(pending.add) \in Nat
  BY <1>1, LenProperties DEF IInv, Typed, HistoryOK, PendingOK
<1>5. LateOK'
  <2>1. late' \subseteq late
    BY <1>1
  <2>2. QED
    BY <2>1, FS_Subset DEF IInv, Typed, LateOK
<1>6. BudgetOK'
  BY <1>3 DEF IInv, Typed, BudgetOK, budgets
<1>7. AddInv'
  <2>1. /\ Cardinality(LateAdds') = Cardinality(LateAdds) - (IF c.op = "add" THEN 1 ELSE 0)
        /\ Cardinality(LateAdds) \in Nat
    BY <1>1, LateCounts DEF LateAdds, IInv, Typed
  <2>2. added + Len(pending.add) + Cardinality(LateAdds) <= typed
    BY DEF IInv, AddInv
  <2>3. added' + Len(pending.add) + Cardinality(LateAdds') <= typed
    <3>1. \A a, b, n, d \in Nat :
             a + b + n <= d => a + 1 + b + (n - 1) <= d /\ a + b + (n - 0) <= d
      OBVIOUS
    <3>2. QED
      BY <1>1, <1>4, <2>1, <2>2, <3>1
  <2>4. QED
    BY <1>3, <2>3 DEF AddInv
<1>8. QED
  BY <1>1, <1>2, <1>3, <1>4, <1>5, <1>6, <1>7, Disturbs DEF IInv

(***************************************************************************)
(* Update.                                                                 *)
(***************************************************************************)

\* Without breakpoints Update does nothing; and none of its commands was done, because the
\* features change between Updates only.
LEMMA UnsupportedStep ==
  ASSUME IInv, Unsupported
  PROVE  IInv'
<1>1. /\ UNCHANGED <<emuVars, budgets, stVars, pending, viewVars, overlay, history>>
      /\ pc' = "input"
      /\ pc = "update" /\ ~supported
  BY DEF Unsupported
<1>2. Typed'
  <2>1. TableOK' /\ LateOK' /\ PendingOK' /\ WindowOK' /\ HistoryOK'
    BY <1>1 DEF IInv, Typed, TableOK, LateOK, PendingOK, WindowOK, HistoryOK, emuVars,
      viewVars, history
  <2>2. BudgetOK'
    BY <1>1 DEF IInv, Typed, BudgetOK, budgets
  <2>3. LoopOK'
    BY <1>1 DEF IInv, Typed, LoopOK, emuVars, viewVars, stVars
  <2>4. QED
    BY <2>1, <2>2, <2>3 DEF Typed
<1>3. DeleteInv'
  BY <1>1 DEF IInv, DeleteInv, emuVars, viewVars, history, stVars
<1>4. AddInv'
  BY <1>1 DEF IInv, AddInv, LateAdds, emuVars, history
<1>5. QED
  BY <1>2, <1>3, <1>4 DEF IInv

\* Reading the table keeps the types, and comes after the commands.
LEMMA ListTypes ==
  ASSUME Typed, ListNotNeeded \/ List \/ ListFails
  PROVE  /\ Typed'
         /\ UNCHANGED <<emuVars, stVars, pending, target, added, typed>>
         /\ pc' = "input" /\ pending.delete = 0
<1>1. /\ UNCHANGED <<emuVars, others, flips, keys, stVars, pending, overlay, target, typed,
                     added, misdeleted>>
      /\ pc' = "input" /\ pending = NoPending
  BY DEF ListNotNeeded, List, ListFails, ListFrame, CommandsDone
<1>2. TableOK' /\ LateOK' /\ PendingOK'
  BY <1>1 DEF Typed, TableOK, LateOK, PendingOK, emuVars
<1>3. BudgetOK'
  <2>1. fails' = fails \/ (fails < MaxFails /\ fails' = fails + 1)
    BY DEF ListNotNeeded, List, ListFails
  <2>2. QED
    BY <1>1, <2>1, Bounds DEF Typed, BudgetOK
<1>4. LoopOK'
  <2>1. /\ lastStateSeq' \in {lastStateSeq, stateSeq}
        /\ refreshRequested' \in {refreshRequested, FALSE}
    BY DEF ListNotNeeded, List, ListFails
  <2>2. QED
    BY <1>1, <2>1 DEF Typed, LoopOK, emuVars, stVars
<1>5. WindowOK'
  <2>1. /\ shown' \in [has : BOOLEAN, on : BOOLEAN, clauses : Seq(Clauses)]
        /\ Len(shown'.clauses) <= MaxClauses
        /\ Len(shown.clauses) \in Nat /\ Len(table) \in Nat
        /\ Len(shown.clauses) <= MaxClauses /\ Len(table) <= MaxClauses
    <3>1. shown' = shown \/ shown' = [has |-> TRUE, on |-> tableOn, clauses |-> table]
      BY DEF ListNotNeeded, List, ListFails
    <3>2. /\ shown \in [has : BOOLEAN, on : BOOLEAN, clauses : Seq(Clauses)]
          /\ table \in Seq(Clauses) /\ tableOn \in BOOLEAN
          /\ Len(shown.clauses) <= MaxClauses /\ Len(table) <= MaxClauses
      BY DEF Typed, WindowOK, TableOK
    <3>3. Len(shown.clauses) \in Nat /\ Len(table) \in Nat
      BY <3>2, LenProperties
    <3>4. CASE shown' = shown
      BY <3>2, <3>3, <3>4
    <3>5. CASE shown' = [has |-> TRUE, on |-> tableOn, clauses |-> table]
      BY <3>2, <3>3, <3>5
    <3>6. QED
      BY <3>1, <3>4, <3>5
  <2>2. selected' = Settled(shown.clauses) \/ selected' = Settled(table)
    BY DEF ListNotNeeded, List, ListFails
  <2>3. selected' \in 0 .. MaxClauses
    BY <2>1, <2>2, Bounds DEF Settled, Typed, WindowOK
  <2>4. QED
    BY <1>1, <2>1, <2>3 DEF Typed, WindowOK
<1>6. HistoryOK'
  <2>1. disturbed' \in BOOLEAN /\ missed' \in BOOLEAN /\ unseen' \in BOOLEAN
    BY DEF ListNotNeeded, List, ListFails, Typed, HistoryOK
  <2>2. QED
    BY <1>1, <2>1 DEF Typed, HistoryOK
<1>7. QED
  BY <1>1, <1>2, <1>3, <1>4, <1>5, <1>6 DEF Typed, NoPending

\* What Update leaves is read back, or counts as disturbed.
LEMMA ListStep ==
  ASSUME IInv, ListNotNeeded \/ List \/ ListFails
  PROVE  IInv'
<1>1. /\ Typed' /\ UNCHANGED <<emuVars, stVars, pending, target, added, typed>>
      /\ pc' = "input" /\ pending.delete = 0
  BY ListTypes DEF IInv
<1>2. DeleteInv'
  <2>1. CASE ListNotNeeded
    BY <1>1, <2>1 DEF ListNotNeeded, NeedsList, IInv, DeleteInv, emuVars
  <2>2. CASE List
    BY <1>1, <2>2 DEF List, DeleteInv, emuVars
  <2>3. CASE ListFails
    BY <1>1, <2>3 DEF ListFails, DeleteInv
  <2>4. QED
    BY <2>1, <2>2, <2>3
<1>3. AddInv'
  BY <1>1 DEF IInv, AddInv, LateAdds, emuVars
<1>4. QED
  BY <1>1, <1>2, <1>3 DEF IInv

\* What comes of a command is a table, and a set of late commands.
LEMMA CommandTypes ==
  ASSUME Typed, NEW c, Command(c), Done(c) \/ NotDone(c)
  PROVE  /\ TableOK' /\ LateOK'
         /\ fails' \in 0 .. MaxFails /\ seq' \in {seq, seq + 1}
         /\ refreshRequested' \in BOOLEAN /\ unseen' \in BOOLEAN
         /\ Cardinality(LateAdds) \in Nat /\ Cardinality(LateAdds') \in Nat
<1>1. CASE Done(c)
  <2>1. TableOK' /\ seq' = seq + 1 /\ UNCHANGED <<late, fails>>
    BY <1>1, Executes DEF Done, Succeeds, Command, Typed
  <2>2. LateOK' /\ fails' \in 0 .. MaxFails
    BY <2>1 DEF Typed, LateOK, BudgetOK
  <2>3. LateAdds' = LateAdds
    BY <2>1 DEF LateAdds
  <2>4. QED
    BY <1>1, <2>1, <2>2, <2>3, LateCounts DEF Done, Typed
<1>2. CASE NotDone(c)
  <2>1. UNCHANGED <<table, tableOn, seq>>
    BY <1>2 DEF NotDone, Fails, emuVars
  <2>2. CASE late' = late /\ fails' = fails
    <3>1. LateOK' /\ fails' \in 0 .. MaxFails /\ LateAdds' = LateAdds
      BY <2>2 DEF Typed, LateOK, BudgetOK, LateAdds
    <3>2. QED
      BY <1>2, <2>1, <3>1, LateCounts DEF NotDone, Typed, TableOK, LoopOK, HistoryOK
  <2>3. CASE /\ fails < MaxFails /\ fails' = fails + 1
             /\ late' = late \cup
                   {[op |-> c.op, row |-> c.row, clause |-> c.clause, n |-> fails']}
    <3> DEFINE e == [op |-> c.op, row |-> c.row, clause |-> c.clause, n |-> fails']
    <3>1. fails' \in 1 .. MaxFails
      BY <2>3, Bounds DEF Typed, BudgetOK
    <3>2. e \in LateCommands /\ (e.op = "add" => e.clause \in Clauses)
      BY <3>1 DEF Command, LateCommands
    <3>3. LateOK'
      BY <2>3, <3>2, FS_AddElement DEF Typed, LateOK
    <3>4. Cardinality(LateAdds) \in Nat /\ Cardinality(LateAdds') \in Nat
      <4>1. LateOK /\ LateOK'
        BY <3>3 DEF Typed
      <4>2. IsFiniteSet(LateAdds) /\ IsFiniteSet(LateAdds')
        BY <4>1, FS_Subset DEF LateOK, LateAdds
      <4>3. QED
        BY <4>2, FS_CardinalityType
    <3>5. QED
      BY <1>2, <2>1, <3>1, <3>3, <3>4 DEF NotDone, Typed, TableOK, LoopOK, HistoryOK
  <2>4. QED
    BY <1>2, <2>2, <2>3 DEF NotDone, Fails, emuVars
<1>3. QED
  BY <1>1, <1>2

\* A command that fails adds at most itself to those that may be executed late.
LEMMA CommandCounts ==
  ASSUME LateOK, NEW c, Done(c) \/ NotDone(c)
  PROVE  /\ Done(c) => LateAdds' = LateAdds
         /\ c.op # "add" => Cardinality(LateAdds') <= Cardinality(LateAdds)
         /\ Cardinality(LateAdds') <= Cardinality(LateAdds) + 1
<1>0. Cardinality(LateAdds) \in Nat /\ \A n \in Nat : n <= n /\ n <= n + 1
  BY LateCounts
<1>1. CASE late' = late
  BY <1>0, <1>1 DEF LateAdds
<1>2. CASE Done(c)
  BY <1>1, <1>2 DEF Done, Succeeds
<1>3. CASE NotDone(c) /\ late' # late
  <2>1. PICK e : late' = late \cup {e} /\ e.op = c.op
    BY <1>3 DEF NotDone, Fails, emuVars
  <2>2. LateAdds' = {d \in late \cup {e} : d.op = "add"}
    BY <2>1 DEF LateAdds
  <2>3. Cardinality(LateAdds') <= Cardinality(LateAdds) + (IF c.op = "add" THEN 1 ELSE 0)
    BY <2>1, <2>2, LateCounts
  <2>4. Done(c) => late' = late
    BY DEF Done, Succeeds
  <2>5. Cardinality(LateAdds') \in Nat
    <3>1. IsFiniteSet(late')
      BY <2>1, FS_AddElement DEF LateOK
    <3>2. IsFiniteSet(LateAdds')
      BY <3>1, FS_Subset DEF LateAdds
    <3>3. QED
      BY <3>2, FS_CardinalityType
  <2>6. QED
    BY <1>0, <1>3, <2>3, <2>4, <2>5
<1>4. QED
  BY <1>1, <1>2, <1>3

\* A command of Update keeps the types, as far as the rest of the action does.
LEMMA CommandKeeps ==
  ASSUME Typed, NEW c, Command(c), Done(c) \/ NotDone(c), CommandFrame,
         PendingOK', selected' \in 0 .. MaxClauses, added' \in Nat, misdeleted' = FALSE
  PROVE  Typed'
<1>1. /\ TableOK' /\ LateOK' /\ fails' \in 0 .. MaxFails /\ seq' \in {seq, seq + 1}
      /\ refreshRequested' \in BOOLEAN /\ unseen' \in BOOLEAN
  BY CommandTypes
<1>2. UNCHANGED <<others, flips, keys, stVars, pc, lastStateSeq, shown, overlay, target,
                  disturbed, missed, typed>>
  BY DEF CommandFrame
<1>3. BudgetOK'
  BY <1>1, <1>2 DEF Typed, BudgetOK
<1>4. LoopOK'
  BY <1>1, <1>2 DEF Typed, LoopOK, TableOK, stVars
<1>5. WindowOK' /\ HistoryOK'
  BY <1>1, <1>2 DEF Typed, WindowOK, HistoryOK
<1>6. QED
  BY <1>1, <1>3, <1>4, <1>5 DEF Typed

\* After a command that was done there is no deletion to come, or nothing to be deleted.
LEMMA CommandDelete ==
  ASSUME IInv, NEW c, Done(c) \/ NotDone(c), CommandFrame, Updating,
         pending'.delete \in {0, pending.delete},
         Done(c) => pending'.delete = 0 \/ table' = <<>>
  PROVE  DeleteInv'
<1>1. UNCHANGED <<others, flips, keys, stVars, pc, lastStateSeq, shown, overlay, target,
                  disturbed, missed, typed>>
      /\ pc = "update" /\ supported
  BY DEF CommandFrame, Updating
<1>2. CASE Done(c)
  BY <1>1, <1>2 DEF Done, IInv, DeleteInv, stVars
<1>3. CASE NotDone(c)
  <2>1. table' = table /\ UNCHANGED <<refreshRequested, unseen>>
    BY <1>3 DEF NotDone, Fails, emuVars
  <2>2. QED
    BY <1>1, <2>1 DEF IInv, DeleteInv, stVars
<1>4. QED
  BY <1>2, <1>3

\* A clause that leaves pendingAdd has been added, may be added late, or is dropped.
LEMMA CommandSums ==
  ASSUME IInv, NEW c, Command(c), Done(c) \/ NotDone(c), CommandFrame, Typed',
         \/ added' = added /\ pending'.add = pending.add /\ c.op # "add"
         \/ Done(c) /\ added' = added + 1 /\ Len(pending'.add) = Len(pending.add) - 1
         \/ added' = added /\ Len(pending'.add) = 0 /\ Len(pending.add) >= 1
  PROVE  AddInv'
<1> DEFINE w == Len(pending.add)
           n == Cardinality(LateAdds)
           x == Len(pending'.add)
           m == Cardinality(LateAdds')
<1>1. /\ w \in Nat /\ x \in Nat /\ n \in Nat /\ m \in Nat
      /\ added \in Nat /\ added' \in Nat /\ typed \in Nat /\ typed' = typed
  <2>1. n \in Nat /\ m \in Nat
    BY CommandTypes DEF IInv
  <2>2. w \in Nat /\ x \in Nat
    BY LenProperties DEF IInv, Typed, PendingOK
  <2>3. QED
    BY <2>1, <2>2 DEF IInv, Typed, HistoryOK, CommandFrame
<1>2. (Done(c) => m = n) /\ (c.op # "add" => m <= n) /\ m <= n + 1
  BY CommandCounts DEF IInv, Typed
<1>3. added + w + n <= typed
  BY DEF IInv, AddInv
<1>4. \A i, j, p, q, r, s, d \in Nat :
         /\ i + p + r <= d
         /\ \/ j = i /\ q = p /\ s <= r
            \/ j = i + 1 /\ q = p - 1 /\ s = r
            \/ j = i /\ q = 0 /\ p >= 1 /\ s <= r + 1
         => j + q + s <= d
  OBVIOUS
<1>5. \/ added' = added /\ x = w /\ m <= n
      \/ added' = added + 1 /\ x = w - 1 /\ m = n
      \/ added' = added /\ x = 0 /\ w >= 1 /\ m <= n + 1
  BY <1>2
<1> DEFINE y == added'
<1>6. y + x + m <= typed
  <2>1. y \in Nat /\ (\/ y = added /\ x = w /\ m <= n
                      \/ y = added + 1 /\ x = w - 1 /\ m = n
                      \/ y = added /\ x = 0 /\ w >= 1 /\ m <= n + 1)
    BY <1>1, <1>5
  <2> HIDE DEF w, n, x, m, y
  <2>2. QED
    BY <1>1, <1>3, <1>4, <2>1
<1>7. QED
  BY <1>1, <1>6 DEF AddInv

\* Every command of Update keeps the invariant: clear, delete, add, enable.
LEMMA CommandStep ==
  ASSUME IInv, UpdateClear \/ UpdateDelete \/ UpdateAdd \/ UpdateEnabled
  PROVE  IInv'
<1>0. /\ pending \in PendingType /\ Len(pending.add) \in Nat /\ Len(pending.add) <= 2
      /\ selected \in 0 .. MaxClauses /\ added \in Nat /\ misdeleted = FALSE
      /\ 0 \in 0 .. MaxClauses
  BY LenProperties, Bounds DEF IInv, Typed, PendingOK, WindowOK, HistoryOK, PendingType
<1>1. CASE UpdateClear
  <2> DEFINE c == Cmd("clear", 0, NoClause)
  <2>1. /\ Done(c) \/ NotDone(c)
        /\ CommandFrame /\ Updating /\ selected' \in {0, selected}
        /\ UNCHANGED <<added, misdeleted>>
        /\ pending' = [pending EXCEPT !.clear = FALSE]
    BY <1>1 DEF UpdateClear
  <2>2. Command(c) /\ c.op = "clear"
    BY <1>0 DEF Command, Cmd, Commands
  <2>3. /\ pending' \in PendingType /\ pending'.delete = pending.delete
        /\ pending'.add = pending.add
    BY <1>0, <2>1 DEF PendingType
  <2>4. Done(c) => table' = <<>>
    BY <2>2 DEF Done, Succeeds, Execute
  <2>5. PendingOK'
    BY <1>0, <2>3 DEF PendingOK, PendingType
  <2> HIDE DEF c
  <2>6. Typed'
    BY <1>0, <2>1, <2>2, <2>5, CommandKeeps DEF IInv
  <2>7. DeleteInv'
    BY <2>1, <2>3, <2>4, CommandDelete
  <2>8. AddInv'
    BY <2>1, <2>2, <2>3, <2>6, CommandSums
  <2>9. QED
    BY <2>6, <2>7, <2>8 DEF IInv
<1>2. CASE UpdateDelete
  <2> DEFINE c == Cmd("delete", pending.delete, NoClause)
  <2>1. /\ Done(c) \/ NotDone(c)
        /\ CommandFrame /\ Updating /\ UNCHANGED <<selected, added>>
        /\ pending' = [pending EXCEPT !.delete = 0] /\ pending.delete # 0
    BY <1>2 DEF UpdateDelete
  <2>2. Command(c) /\ c.op = "delete" /\ c.row = pending.delete
    BY <1>0 DEF Command, Cmd, Commands, PendingType
  <2>3. pending' \in PendingType /\ pending'.delete = 0 /\ pending'.add = pending.add
    BY <1>0, <2>1 DEF PendingType
  <2>4. misdeleted' = FALSE
    <3>1. CASE NotDone(c) /\ UNCHANGED misdeleted
      BY <1>0, <3>1
    <3>2. CASE Done(c) /\ misdeleted' = (misdeleted \/ (~disturbed /\ table[c.row] # target))
      <4>1. c.row \in DOMAIN table
        BY <2>2, <3>2 DEF Done, Succeeds, Valid
      <4>2. ~disturbed => shown.clauses = table
        BY <2>1, <4>1, EmptySeq DEF IInv, DeleteInv
      <4>3. ~disturbed => table[c.row] = target
        BY <2>1, <2>2, <4>1, <4>2 DEF IInv, DeleteInv
      <4>4. QED
        BY <1>0, <3>2, <4>3
    <3>3. QED
      BY <1>2, <3>1, <3>2 DEF UpdateDelete
  <2>5. PendingOK'
    BY <1>0, <2>3 DEF PendingOK, PendingType
  <2> HIDE DEF c
  <2>6. Typed'
    BY <1>0, <2>1, <2>2, <2>4, <2>5, CommandKeeps DEF IInv
  <2>7. DeleteInv'
    BY <2>1, <2>3, CommandDelete
  <2>8. AddInv'
    BY <2>1, <2>2, <2>3, <2>6, CommandSums
  <2>9. QED
    BY <2>6, <2>7, <2>8 DEF IInv
<1>3. CASE UpdateAdd
  <2> DEFINE c == Cmd("add", 0, Head(pending.add))
  <2>1. /\ \/ /\ Done(c)
              /\ pending' = [pending EXCEPT !.add = Tail(pending.add)]
              /\ added' = added + 1
           \/ /\ NotDone(c)
              /\ pending' = [pending EXCEPT !.add = <<>>]
              /\ UNCHANGED added
        /\ CommandFrame /\ Updating /\ UNCHANGED <<selected, misdeleted>>
        /\ pending.add # <<>>
    BY <1>3 DEF UpdateAdd
  <2>2. /\ Head(pending.add) \in Clauses /\ Tail(pending.add) \in Seq(Clauses)
        /\ Len(Tail(pending.add)) = Len(pending.add) - 1 /\ Len(pending.add) >= 1
        /\ <<>> \in Seq(Clauses) /\ Len(<<>>) = 0
    <3>1. pending.add \in Seq(Clauses) /\ pending.add # <<>>
      BY <1>0, <2>1 DEF PendingType
    <3>2. QED
      BY <1>0, <3>1, HeadTailProperties, EmptySeq
  <2>3. Command(c)
    BY <1>0, <2>2 DEF Command, Cmd, Commands
  <2>4. /\ pending' \in PendingType /\ pending'.delete = pending.delete
        /\ pending'.add \in {Tail(pending.add), <<>>}
    BY <1>0, <2>1, <2>2 DEF PendingType
  <2>5. PendingOK'
    BY <1>0, <2>2, <2>4 DEF PendingOK, PendingType
  <2>6. added' \in Nat
    BY <1>0, <2>1
  <2>7. pending.delete = 0
    BY <1>3 DEF UpdateAdd
  <2>8. \/ Done(c) /\ added' = added + 1 /\ Len(pending'.add) = Len(pending.add) - 1
        \/ added' = added /\ Len(pending'.add) = 0 /\ Len(pending.add) >= 1
    BY <1>0, <2>1, <2>2 DEF PendingType
  <2> HIDE DEF c
  <2>9. Typed'
    BY <1>0, <2>1, <2>3, <2>5, <2>6, CommandKeeps DEF IInv
  <2>10. DeleteInv'
    BY <2>1, <2>4, <2>7, CommandDelete
  <2>11. AddInv'
    BY <2>1, <2>3, <2>8, <2>9, CommandSums
  <2>12. QED
    BY <2>9, <2>10, <2>11 DEF IInv
<1>4. CASE UpdateEnabled
  <2> DEFINE c == Cmd(pending.enabled, 0, NoClause)
  <2>1. /\ Done(c) \/ NotDone(c)
        /\ CommandFrame /\ Updating /\ UNCHANGED <<selected, added, misdeleted>>
        /\ pending' = [pending EXCEPT !.enabled = None]
        /\ pending.delete = 0 /\ pending.enabled # None
    BY <1>4 DEF UpdateEnabled
  <2>2. Command(c) /\ c.op # "add"
    BY <1>0, <2>1 DEF Command, Cmd, Commands, PendingType
  <2>3. /\ pending' \in PendingType /\ pending'.delete = pending.delete
        /\ pending'.add = pending.add
    BY <1>0, <2>1 DEF PendingType
  <2>5. PendingOK'
    BY <1>0, <2>3 DEF PendingOK, PendingType
  <2> HIDE DEF c
  <2>6. Typed'
    BY <1>0, <2>1, <2>2, <2>5, CommandKeeps DEF IInv
  <2>7. DeleteInv'
    BY <2>1, <2>3, CommandDelete
  <2>8. AddInv'
    BY <2>1, <2>2, <2>3, <2>6, CommandSums
  <2>9. QED
    BY <2>6, <2>7, <2>8 DEF IInv
<1>5. QED
  BY <1>1, <1>2, <1>3, <1>4

(***************************************************************************)
(* The theorems.                                                           *)
(***************************************************************************)

\* The invariant holds of a window that has read nothing.
LEMMA InitIInv == Init => IInv
<1>1. SUFFICES ASSUME Init PROVE IInv
  OBVIOUS
<1>2. TableOK /\ LateOK
  BY <1>1, IsSeqOf, Bounds, FS_EmptySet DEF Init, TableOK, LateOK, Tables
<1>3. BudgetOK /\ LoopOK /\ HistoryOK
  <2>1. BudgetOK
    BY <1>1, Bounds DEF Init, BudgetOK
  <2>2. LoopOK
    <3>1. supported \in BOOLEAN /\ frozen \in BOOLEAN /\ refreshRequested \in BOOLEAN
      BY <1>1 DEF Init
    <3>2. stateSeq \in 0 .. seq /\ lastStateSeq \in 0 .. seq
      BY <1>1 DEF Init
    <3>3. QED
      BY <1>1, <3>1, <3>2 DEF Init, LoopOK
  <2>3. HistoryOK
    BY <1>1 DEF Init, HistoryOK
  <2>4. QED
    BY <2>1, <2>2, <2>3
<1>4. PendingOK /\ WindowOK
  BY <1>1, Bounds, EmptySeq DEF Init, PendingOK, PendingType, WindowOK, NoPending, NoShown
<1>5. DeleteInv
  BY <1>1 DEF Init, DeleteInv, NoPending
<1>6. AddInv
  <2>1. LateAdds = {} /\ added = 0 /\ typed = 0 /\ pending.add = <<>>
    BY <1>1 DEF Init, LateAdds, NoPending
  <2>2. Cardinality({}) = 0 /\ Len(<<>>) = 0
    BY FS_EmptySet
  <2>3. QED
    BY <2>1, <2>2 DEF AddInv
<1>7. QED
  BY <1>2, <1>3, <1>4, <1>5, <1>6 DEF IInv, Typed

\* Every step of the loop, of the emulator and of other clients keeps it.
LEMMA NextIInv == IInv /\ [Next]_vars => IInv'
<1>1. ASSUME IInv, UNCHANGED vars PROVE IInv'
  <2>1. UNCHANGED <<emuVars, budgets, stVars, pc, pending, viewVars, overlay, history>>
    BY <1>1 DEF vars
  <2>2. Typed'
    BY <1>1, <2>1 DEF IInv, Typed, TableOK, LateOK, BudgetOK, LoopOK, PendingOK, WindowOK,
      HistoryOK,
      emuVars, budgets, stVars, viewVars, history
  <2>3. DeleteInv' /\ AddInv'
    BY <1>1, <2>1 DEF IInv, DeleteInv, AddInv, LateAdds, emuVars, stVars, viewVars, history
  <2>4. QED
    BY <2>2, <2>3 DEF IInv
<1>2. QED
  BY <1>1, KeyStep, PollStep, OthersStep, LateStep, UnsupportedStep, CommandStep, ListStep
    DEF Next, Loop, Update

\* The invariant of the breakpoints window.
THEOREM Invariance == Spec => []IInv
BY InitIInv, NextIInv, PTL DEF Spec

\* Type correctness: the selection never points past the largest table (ui.go:1590), and state
\* numbers are never ahead of the emulator.
THEOREM TypeCorrect == Spec => []TypeOK
<1>1. ASSUME IInv PROVE TypeOK
  <2>1. table \in Tables /\ shown \in [has : BOOLEAN, on : BOOLEAN, clauses : Tables]
    BY <1>1, IsSeqOf, Bounds DEF IInv, Typed, TableOK, WindowOK, Tables
  <2>2. pending \in [clear : BOOLEAN, delete : 0 .. MaxClauses, add : Entries \cup {<<>>},
                     enabled : {None, "enable", "disable"}]
    BY <1>1, IsSeqOf DEF IInv, Typed, PendingOK, PendingType, Entries
  <2>3. QED
    BY <1>1, <2>1, <2>2 DEF IInv, Typed, TableOK, LateOK, LateCommands, BudgetOK, LoopOK,
      WindowOK,
      HistoryOK, TypeOK
<1>2. QED
  BY <1>1, Invariance, PTL

\* breakpoints.go:61-68: a deletion removes the clause that was selected, on a table that was
\* read and that nobody else has changed since.
THEOREM DeletionHitsItsTarget == Spec => []DeletesTheSelected
<1>1. IInv => DeletesTheSelected
  BY DEF IInv, Typed, HistoryOK, DeletesTheSelected
<1>2. QED
  BY <1>1, Invariance, PTL

\* breakpoints.go:69-82: a clause typed once is added at most once.
THEOREM NothingIsAddedTwice == Spec => []AddsOnce
<1>1. ASSUME IInv PROVE AddsOnce
  <2>1. /\ added \in Nat /\ typed \in Nat /\ Len(pending.add) \in Nat
        /\ Cardinality(LateAdds) \in Nat
    BY <1>1, LenProperties, LateCounts DEF IInv, Typed, HistoryOK, PendingOK
  <2>2. added + Len(pending.add) + Cardinality(LateAdds) <= typed
    BY <1>1 DEF IInv, AddInv
  <2>3. \A a, b, c, d \in Nat : a + b + c <= d => a <= d
    OBVIOUS
  <2>4. QED
    BY <2>1, <2>2, <2>3 DEF AddsOnce
<1>2. QED
  BY <1>1, Invariance, PTL

=============================================================================
