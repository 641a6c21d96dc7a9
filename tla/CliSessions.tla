----------------------------- MODULE CliSessions -----------------------------
(***************************************************************************)
(* The commands that talk to the emulator in several calls: the trainer    *)
(* (a800mon/trainer.go, cli/commands_trainer.go), the debug shell          *)
(* (cli/commands_debugger.go) and the breakpoint commands                  *)
(* (cli/commands_breakpoints.go).  One of them runs; between two of its    *)
(* calls the emulator goes on and other clients act on it.                 *)
(*                                                                         *)
(* The emulator (external): STEP is done when it is answered; PAUSE and    *)
(* CONTINUE are answered at once and take effect later, the last one that  *)
(* was sent wins; STEP_FRAME and RUN_UNTIL_RETURN let it run and pause it  *)
(* later.  A call that fails at its deadline may still be carried out,     *)
(* whatever was sent since.  A command line the parser refuses changes     *)
(* nothing and is left out.                                                *)
(***************************************************************************)
EXTENDS BreakpointText

CONSTANTS
    Start, Stop, Values,       \* the trainer's range and the bytes in it
    MaxChunk,                  \* bytes of one READ_MEM
    Texts, Indices,            \* expressions for add, numbers for delete
    MaxCommands, MaxChanges, MaxFails

ASSUME CliSessionsAssumption ==
    /\ Start \in 0 .. Word - 1 /\ Stop \in Start .. Word - 1 /\ MaxChunk \in Nat \ {0}
    /\ MaxCommands \in Nat /\ MaxChanges \in Nat /\ MaxFails \in Nat
    /\ Texts \subseteq Seq(Tokens) /\ Indices \subseteq Int

VARIABLES
    tool,                      \* "trainer", "debug" or "bp"
    emulator,                  \* [mem, paused, wanted, pc, enabled, table]
    trainer,                   \* [snapshot, candidates]
    cmd,                       \* the command that runs, or [name |-> "prompt" or "exit"]
    out,                       \* what was printed last
    answered, seen,            \* history: the bytes READ_MEM gave, all filters with theirs
    late,                      \* calls that failed and may still be carried out
    others,                    \* history: somebody else acted since STATUS or since the add,
                               \* or a breakpoint command that had ended
    overtaken,                 \* history: the shell's late calls since it sent the last one
    commands, changes, fails

vars == <<tool, emulator, trainer, cmd, out, answered, seen, late, others, overtaken,
          commands, changes, fails>>
counts == <<commands, changes, fails>>

Addresses == Start .. Stop
length == Stop - Start + 1
Prompt == [name |-> "prompt"]
Exit == [name |-> "exit"]
Nothing == [kind |-> "nothing"]
Parsed == [text \in Texts |-> ParseBPClauses(text)]
MaxConditions == 20
\* Clauses that the count of BP_LIST can tell (external); no more are added.
MaxClauses == Word - 1
Running(name) == cmd.name = name

Reading(filter, value) ==
    [name |-> "read", filter |-> filter, value |-> value, asked |-> 0, data |-> <<>>]

Init ==
    /\ tool \in {"trainer", "debug", "bp"}
    /\ emulator = [mem |-> [a \in Addresses |-> 0], paused |-> FALSE, wanted |-> "", pc |-> 0,
                   enabled |-> FALSE, table |-> <<>>]
    /\ trainer = [snapshot |-> <<>>, candidates |-> <<>>]
    /\ IF tool = "trainer" THEN \E v \in Values : cmd = Reading("start", v) ELSE cmd = Prompt
    /\ out = Nothing
    /\ answered = [a \in Addresses |-> 0] /\ seen = <<>>
    /\ late = {} /\ others = FALSE /\ overtaken = {}
    /\ commands = 0 /\ changes = 0 /\ fails = 0

(***************************************************************************)
(* The emulator and its other clients.                                     *)
(***************************************************************************)
Elapse == changes < MaxChanges /\ changes' = changes + 1

MemoryChanges ==
    /\ tool = "trainer" /\ Elapse
    /\ \E a \in Addresses, v \in Values : emulator' = [emulator EXCEPT !.mem[a] = v]
    /\ UNCHANGED <<tool, trainer, cmd, out, answered, seen, late, others, overtaken, commands, fails>>

\* It runs an instruction, or does what it was asked to.
EmulatorRuns ==
    /\ tool = "debug"
    /\ \/ ~emulator.paused /\ emulator' = [emulator EXCEPT !.pc = 1 - @]
       \/ /\ emulator.wanted # ""
          /\ emulator' = [emulator EXCEPT !.paused = (emulator.wanted = "pause"), !.wanted = ""]
    /\ UNCHANGED <<tool, trainer, cmd, out, answered, seen, late, others, overtaken, counts>>

\* A breakpoint, or another client.
OthersAct ==
    /\ tool # "trainer" /\ Elapse
    /\ others' = TRUE
    /\ \/ /\ tool = "debug"
          /\ emulator' \in {[emulator EXCEPT !.paused = ~@], [emulator EXCEPT !.pc = 1 - @]}
       \/ /\ tool = "bp"
          /\ \/ \E t \in Texts : \E c \in Range(Parsed[t]) :
                    /\ Len(c) <= MaxConditions /\ Len(emulator.table) < MaxClauses
                    /\ emulator' = [emulator EXCEPT !.table = Append(@, c)]
             \/ \E i \in DOMAIN emulator.table :
                    emulator' = [emulator EXCEPT !.table = RemoveAt(@, i)]
    /\ UNCHANGED <<tool, trainer, cmd, out, answered, seen, late, overtaken, commands, fails>>

(***************************************************************************)
(* The trainer.                                                            *)
(***************************************************************************)
\* The loop of all three: the indices of s that are in S, in their order.
Kept(s, S) ==
    LET kept[i \in 0 .. Len(s)] ==
            IF i = 0 THEN <<>>
            ELSE IF s[i] \in S THEN Append(kept[i - 1], s[i]) ELSE kept[i - 1]
    IN  kept[Len(s)]

AllIndices == [i \in 1 .. length |-> i]

TrainerStart(data, value) ==
    [snapshot |-> data, candidates |-> Kept(AllIndices, {i \in 1 .. length : data[i] = value})]

\* Mutant: the snapshot stays that of the filter before.
TrainerChanged_KeepsSnapshot(t, data, value) ==
    [t EXCEPT !.candidates =
                  Kept(@, {i \in 1 .. length : data[i] # t.snapshot[i] /\ data[i] = value})]

TrainerChanged(t, data, value) ==
    [snapshot |-> data,
     candidates |-> Kept(t.candidates,
                         {i \in 1 .. length : data[i] # t.snapshot[i] /\ data[i] = value})]

TrainerNotChanged(t, data) ==
    [snapshot |-> data,
     candidates |-> Kept(t.candidates, {i \in 1 .. length : data[i] = t.snapshot[i]})]

\* The first ones; all with no limit.
Rows(t, limit) ==
    LET n == Len(t.candidates)
        shown == IF limit = 0 \/ limit > n THEN n ELSE limit
    IN  [k \in 1 .. shown |-> [addr |-> (Start + t.candidates[k] - 1) % Word,
                               value |-> t.snapshot[t.candidates[k]]]]

TrainerCommand ==
    /\ tool = "trainer" /\ Running("prompt")
    /\ \/ \E v \in Values : cmd' = Reading("c", v) /\ UNCHANGED out
       \/ cmd' = Reading("nc", 0) /\ UNCHANGED out
       \/ \E limit \in 1 .. 2 :
              out' = [kind |-> "rows", limit |-> limit, rows |-> Rows(trainer, limit)] /\ UNCHANGED cmd
       \/ cmd' = Exit /\ UNCHANGED out      \* q, or the input ends
    /\ commands < MaxCommands /\ commands' = commands + 1
    /\ UNCHANGED <<tool, emulator, trainer, answered, seen, late, others, overtaken, changes, fails>>

\* ReadMemoryChunked: one READ_MEM; its answer may be short.
ReadChunk ==
    /\ Running("read") /\ cmd.asked < length
    /\ LET take == IF length - cmd.asked < MaxChunk THEN length - cmd.asked ELSE MaxChunk
           first == Start + cmd.asked
       IN  \E n \in {take, take - 1} :
               /\ n < take => fails < MaxFails
               /\ fails' = fails + (take - n)
               /\ cmd' = [cmd EXCEPT !.asked = @ + take,
                                     !.data = @ \o [i \in 1 .. n |-> emulator.mem[first + i - 1]]]
               /\ answered' = [a \in Addresses |->
                                  IF a \in first .. first + n - 1 THEN emulator.mem[a] ELSE answered[a]]
    /\ UNCHANGED <<tool, emulator, trainer, out, seen, late, others, overtaken, commands, changes>>

\* The rest of Start, Changed or NotChanged, and of the loop of cmdTrainer.
TakeBytes ==
    /\ Running("read") /\ cmd.asked = length
    /\ IF Len(cmd.data) < length
       THEN cmd' = Exit /\ UNCHANGED <<trainer, out, seen>>
       ELSE /\ trainer' = CASE cmd.filter = "start" -> TrainerStart(cmd.data, cmd.value)
                            [] cmd.filter = "c" -> TrainerChanged(trainer, cmd.data, cmd.value)
                            [] cmd.filter = "nc" -> TrainerNotChanged(trainer, cmd.data)
            /\ seen' = Append(seen, [filter |-> cmd.filter, value |-> cmd.value, bytes |-> answered])
            /\ cmd' = IF trainer'.candidates = <<>> THEN Exit ELSE Prompt
            /\ out' = IF Len(trainer'.candidates) = 1
                      THEN [kind |-> "rows", limit |-> 1, rows |-> Rows(trainer', 1)]
                      ELSE [kind |-> "matches", n |-> Len(trainer'.candidates)]
    /\ UNCHANGED <<tool, emulator, answered, late, others, overtaken, counts>>

(***************************************************************************)
(* Calls that change the emulator, and calls that fail.                    *)
(***************************************************************************)
\* What the emulator does about a call of the shell (external).
Obey(e, call) ==
    CASE call = "PAUSE" -> [e EXCEPT !.wanted = IF e.paused THEN "" ELSE "pause"]
      [] call = "CONTINUE" -> [e EXCEPT !.wanted = "run"]
      [] call = "STEP" -> [e EXCEPT !.wanted = "", !.paused = TRUE, !.pc = 1 - @]
      [] OTHER -> [e EXCEPT !.wanted = "pause", !.paused = FALSE]

\* The clause that cmdBPAdd adds next; the one uint16(args.Index-1) names.
NextClause(c) == c.clauses[Len(c.added) + 1]
Place(c) == ((c.index - 1) % Word) + 1

\* What it does about a call of a breakpoint command (external).
Edited(e, c) ==
    CASE c.name = "add" ->
             [e EXCEPT !.table = Append(@, ServerClause(AddClausePayload(NextClause(c))))]
      [] c.name = "delete" ->
             IF Place(c) \in DOMAIN e.table THEN [e EXCEPT !.table = RemoveAt(@, Place(c))] ELSE e
      [] c.name = "clear" -> [e EXCEPT !.table = <<>>]
      [] OTHER -> [e EXCEPT !.enabled = (c.name = "on")]

Changing ==
    CASE tool = "debug" -> cmd.at \in {"first", "again"}
      [] tool = "bp" -> cmd.name # "list" /\ (cmd.name = "add" => Len(NextClause(cmd)) <= MaxConditions)
      [] OTHER -> FALSE

\* A call of any command fails: the trainer and the breakpoint commands end, the shell asks on.
CallFails ==
    /\ ~Running("prompt") /\ ~Running("exit") /\ fails < MaxFails
    /\ fails' = fails + 1
    /\ late' = IF Changing THEN late \cup {[number |-> fails', cmd |-> cmd]} ELSE late
    /\ cmd' = IF tool = "trainer" THEN Exit ELSE Prompt
    /\ out' = Nothing
    /\ UNCHANGED <<tool, emulator, trainer, answered, seen, others, overtaken, commands, changes>>

\* The emulator gets to a call that its sender has given up (client.go:396-406). In the
\* shell it is one of its own; a breakpoint command's process has ended.
LateExecution ==
    \E call \in late :
        /\ late' = late \ {call}
        /\ \/ /\ tool = "debug"
              /\ emulator' = Obey(emulator, call.cmd.name)
              /\ overtaken' = overtaken \cup {call.cmd.name} /\ UNCHANGED others
           \/ /\ tool = "bp"
              /\ call.cmd.name = "add" => Len(emulator.table) < MaxClauses
              /\ emulator' = Edited(emulator, call.cmd)
              /\ others' = TRUE /\ UNCHANGED overtaken
        /\ UNCHANGED <<tool, trainer, cmd, out, answered, seen, counts>>

(***************************************************************************)
(* The debug shell; "stack" prints one answer and is left out.             *)
(***************************************************************************)
At(place) == tool = "debug" /\ cmd.name \notin {"prompt", "exit"} /\ cmd.at = place

ShellCommand ==
    /\ tool = "debug" /\ Running("prompt")
    /\ \/ \E name \in {"PAUSE", "CONTINUE", "STEP", "STEP_FRAME", "RUN_UNTIL_RETURN"} :
              cmd' = [name |-> name, at |-> "first"]
       \/ cmd' = Exit
    /\ out' = Nothing
    /\ UNCHANGED <<tool, emulator, trainer, answered, seen, late, others, overtaken, counts>>

\* The first call; pauseRPC sends PAUSE again when STATUS does not say so, continueRPC only once.
Send ==
    /\ At("first") \/ At("again")
    /\ emulator' = Obey(emulator, cmd.name)
    /\ cmd' = [cmd EXCEPT !.at = CASE cmd.at = "again" -> "ping"
                                   [] cmd.name \in {"PAUSE", "CONTINUE"} -> "status"
                                   [] OTHER -> "cpu"]
    /\ overtaken' = {}
    /\ UNCHANGED <<tool, trainer, out, answered, seen, late, others, counts>>

\* Mutant: any answer will do.
Reached_Any(name) == TRUE

Reached(name) == emulator.paused = (name = "PAUSE")

\* The top of the loop: 500 ms are over, or STATUS is asked.
Poll ==
    /\ At("status")
    /\ \/ /\ cmd' = Prompt
          /\ out' = [kind |-> IF cmd.name = "PAUSE" THEN "still running" ELSE "still paused"]
          /\ UNCHANGED others
       \/ /\ others' = FALSE
          /\ CASE Reached(cmd.name) /\ cmd.name = "PAUSE" ->
                      cmd' = [cmd EXCEPT !.at = "cpu"] /\ UNCHANGED out
               [] Reached(cmd.name) /\ cmd.name = "CONTINUE" ->
                      cmd' = Prompt /\ out' = [kind |-> "resumed"]
               [] ~Reached(cmd.name) ->
                      /\ cmd' = [cmd EXCEPT !.at = IF cmd.name = "PAUSE" THEN "again" ELSE "ping"]
                      /\ UNCHANGED out
    /\ UNCHANGED <<tool, emulator, trainer, answered, seen, late, overtaken, counts>>

Ping ==
    /\ At("ping")
    /\ cmd' = [cmd EXCEPT !.at = "status"]
    /\ UNCHANGED <<tool, emulator, trainer, out, answered, seen, late, others, overtaken, counts>>

PrintCPUState ==
    /\ At("cpu")
    /\ out' = [kind |-> "cpu", of |-> cmd.name, pc |-> emulator.pc]
    /\ cmd' = Prompt
    /\ UNCHANGED <<tool, emulator, trainer, answered, seen, late, others, overtaken, counts>>

(***************************************************************************)
(* The breakpoint commands, each of them a process of its own.             *)
(***************************************************************************)
BreakpointCommand ==
    /\ tool = "bp" /\ Running("prompt")
    /\ commands < MaxCommands /\ commands' = commands + 1
    /\ \/ \E kind \in {"list", "clear", "on", "off"} : cmd' = [name |-> kind]
       \/ \E i \in Indices : cmd' = IF i <= 0 THEN Prompt ELSE [name |-> "delete", index |-> i]
       \/ \E text \in Texts :
              cmd' = IF Parsed[text] = Refused THEN Prompt
                     ELSE [name |-> "add", clauses |-> Parsed[text], added |-> <<>>]
    /\ out' = Nothing /\ others' = FALSE
    /\ UNCHANGED <<tool, emulator, trainer, answered, seen, late, overtaken, changes, fails>>

\* cmdBPAdd: one call per clause; what a failure leaves behind is not reported.
AddClause ==
    /\ Running("add")
    /\ IF Len(NextClause(cmd)) > MaxConditions
       THEN cmd' = Prompt /\ UNCHANGED <<emulator, out>>
       ELSE /\ Len(emulator.table) < MaxClauses
            /\ emulator' = Edited(emulator, cmd)
            /\ LET numbers == Append(cmd.added, Len(emulator'.table))
               IN  IF Len(numbers) < Len(cmd.clauses)
                   THEN cmd' = [cmd EXCEPT !.added = numbers] /\ UNCHANGED out
                   ELSE /\ cmd' = Prompt
                        /\ out' = [kind |-> "added", numbers |-> numbers, clauses |-> cmd.clauses]
    /\ UNCHANGED <<tool, trainer, answered, seen, late, others, overtaken, counts>>

\* cmdBPDelete, cmdBPClear, cmdBPSetEnabled: the list follows, unless there is no such clause.
ChangeTable ==
    /\ \E name \in {"delete", "clear", "on", "off"} : Running(name)
    /\ emulator' = Edited(emulator, cmd)
    /\ cmd' = IF Running("delete") /\ Place(cmd) \notin DOMAIN emulator.table
              THEN Prompt ELSE [name |-> "list"]
    /\ UNCHANGED <<tool, trainer, out, answered, seen, late, others, overtaken, counts>>

\* cmdBPList.
ListClauses ==
    /\ Running("list")
    /\ LET data == ServerList(emulator.enabled, emulator.table)
           clauses == DecodedList(data)
       IN  out' = [kind |-> "list", enabled |-> data[1] # 0, table |-> emulator.table,
                   lines |-> [i \in DOMAIN clauses |-> FormatClause(clauses[i])]]
    /\ cmd' = Prompt
    /\ UNCHANGED <<tool, emulator, trainer, answered, seen, late, others, overtaken, counts>>

Next ==
    \/ MemoryChanges \/ EmulatorRuns \/ OthersAct \/ CallFails \/ LateExecution
    \/ TrainerCommand \/ ReadChunk \/ TakeBytes
    \/ ShellCommand \/ Send \/ Poll \/ Ping \/ PrintCPUState
    \/ BreakpointCommand \/ AddClause \/ ChangeTable \/ ListClauses

Spec == Init /\ [][Next]_vars

(***************************************************************************)
(* Properties.                                                             *)
(***************************************************************************)

\* The k-th filter, applied to the bytes it was given and those before.
Passes(filters, a, k) ==
    LET new == filters[k].bytes[a]
        old == filters[k - 1].bytes[a]
    IN  CASE filters[k].filter = "start" -> new = filters[k].value
          [] filters[k].filter = "c" -> new # old /\ new = filters[k].value
          [] filters[k].filter = "nc" -> new = old

Matches(filters) == {a \in Addresses : \A k \in DOMAIN filters : Passes(filters, a, k)}

\* The trainer's candidates are, in order and with their last values, the addresses whose bytes,
\* each at the moment the emulator gave it, pass every filter since the start (Trainer.Start,
\* Changed, NotChanged): whatever the range is read in, however the memory changes between the
\* chunks, and no short or failed read is filtered with.
KeepsMatches ==
    (tool = "trainer" /\ seen # <<>>) =>
        LET all == Rows(trainer, 0)
        IN  /\ {row.addr : row \in Range(all)} = Matches(seen)
            /\ \A i, j \in DOMAIN all : i < j => all[i].addr < all[j].addr
            /\ \A row \in Range(all) : row.value = seen[Len(seen)].bytes[row.addr]
            /\ out.kind = "rows" => IsPrefix(out.rows, all)

\* Since the shell sent its last call no other one has been carried out that had timed out.
NoneBut(name) == overtaken \subseteq {name}

\* What the shell prints after "pause" are the registers of a paused emulator, and after a
\* "continue" without a complaint the emulator runs (pauseRPC, continueRPC), also when PAUSE takes
\* effect late, when it was sent several times or when one that had timed out is carried out as
\* well. There are two exceptions: somebody else acted on the emulator since STATUS was answered,
\* or a call of another kind that had timed out was carried out after the command's own last one.
ShellTellsTheTruth ==
    (tool = "debug" /\ ~others) =>
        /\ (out.kind = "cpu" /\ out.of = "PAUSE" /\ NoneBut("PAUSE")) =>
               emulator.paused /\ emulator.pc = out.pc
        /\ (out.kind = "resumed" /\ NoneBut("CONTINUE")) => ~emulator.paused

\* The lines of "bp list" typed in again give the emulator's clauses of that moment, and the
\* numbers "bp add" reports are the places of its clauses, while nobody else edits the table and
\* no call of an earlier command, one that timed out, does (FormatBPCondition, ParseBPClauses,
\* BPAddClause, BPList).
ReportsTheTable ==
    /\ (out.kind = "list" /\ out.lines # <<>>) =>
           ParseBPClauses(Joined(out.lines, Or)) = out.table
    /\ (out.kind = "list" /\ out.lines = <<>>) => out.table = <<>>
    /\ (out.kind = "added" /\ ~others) =>
           \A k \in DOMAIN out.numbers :
               out.numbers[k] \in DOMAIN emulator.table /\ emulator.table[out.numbers[k]] = out.clauses[k]
==============================================================================
