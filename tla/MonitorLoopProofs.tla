-------------------------- MODULE MonitorLoopProofs --------------------------
(***************************************************************************)
(* What holds of App.Loop for every number of keys, changes, failures and  *)
(* restarts: TLAPS proofs of the invariants and of the action properties   *)
(* of MonitorLoop.                                                         *)
(***************************************************************************)
EXTENDS MonitorLoop, SequenceTheorems, FiniteSetTheorems, TLAPS

(***************************************************************************)
(* The inductive invariant.                                                *)
(***************************************************************************)
EmuFlags     == emuPaused \in BOOLEAN /\ hasBp \in BOOLEAN /\ connected \in BOOLEAN
ShownFlags   == paused \in BOOLEAN /\ rpcError \in BOOLEAN /\ supported \in BOOLEAN
KeyFlags     == frozen \in BOOLEAN /\ stopLoop \in BOOLEAN
TickFlags    == /\ forceRefresh \in BOOLEAN /\ forced \in BOOLEAN /\ clientError \in BOOLEAN
                /\ cpuMissed \in BOOLEAN
LoopFlags    == hadTick \in BOOLEAN /\ due \in BOOLEAN /\ flushed \in BOOLEAN
HistoryFlags == modeExcused \in BOOLEAN /\ unnoticed \in BOOLEAN

ControlOK ==
    /\ mode \in {"normal", "debug", "shutdown"}
    /\ pc \in {"input", "tick", "status", "cpu", "mem", "caps", "update", "flush", "viewers",
               "modes", "done"}
    /\ caps \in {"never", "tried", "synced"}
    /\ lastPaused \in {"none", "paused", "running"}

NumbersOK ==
    /\ ver \in Nat /\ statusVer \in Nat /\ cpu \in Nat
    /\ late \subseteq Commands
    /\ keys \in 0 .. MaxKeys /\ changes \in 0 .. MaxVer
    /\ fails \in 0 .. MaxFails /\ restarts \in 0 .. MaxRestarts

SeqsOK ==
    /\ queue \in Seq(Commands) /\ batch \in Seq(Commands)
    /\ dispatched \in Seq(Commands) /\ sent \in Seq(Commands)

Typed ==
    /\ EmuFlags /\ ShownFlags /\ KeyFlags /\ TickFlags /\ LoopFlags /\ HistoryFlags
    /\ ControlOK /\ NumbersOK /\ SeqsOK

\* Every command is in one of three places, in order; a key gives at most one; and what is
\* being sent is empty but while it is sent.
QueueInv ==
    /\ CommandsInOrder
    /\ Len(dispatched) <= keys
    /\ pc = "flush" <=> batch # <<>>

\* What the states of the emulator are counted by: each has a cause of its own.
CountInv == ver + Cardinality(late) <= 1 + changes + restarts + Len(sent)

\* A loop that is sending commands has not been asked to quit.
QuitInv == pc = "flush" => ~stopLoop

\* A frozen loop does not get past its input.
FreezeInv == frozen => pc \in {"input", "done"}

\* The registers are older than the STATUS they are shown with only while they are read.
CpuInv == statusVer <= ver /\ cpu <= ver /\ (pc # "cpu" => cpu >= statusVer \/ cpuMissed)

\* A reply that changes nothing shows what the emulator is.
PollInv == statusVer = ver => paused = emuPaused

\* The poll in which the features are missing asks for them before it clears the error.
CapsInv ==
    connected /\ ~rpcError /\ caps = "synced" => supported = hasBp \/ unnoticed \/ pc = "caps"

\* A mode unlike the one that was polled is corrected: by the command that makes it true,
\* which is waiting; or by a STATUS that will see the emulator otherwise than it is shown,
\* which is asked for, or will be when the commands on their way are sent.
Shown      == IF paused THEN "paused" ELSE "running"
Settles    == IF mode = "debug" THEN "PAUSE" ELSE "CONTINUE"
Waits(c)   == Contains(batch, c) \/ Contains(queue, c)
ModeAgrees == mode \in {"shutdown", ModeOf(paused)} \/ modeExcused \/ lastPaused # Shown
PollComes  ==
    \/ batch # <<>> \/ queue # <<>>
    \/ pc \in {"viewers", "modes"} /\ flushed
    \/ pc = "status"
    \/ pc \notin {"cpu", "mem", "caps"} /\ (forceRefresh \/ rpcError)

ModeInv ==
    /\ pc \in {"input", "tick", "status"} => lastPaused \in {"none", Shown}
    /\ ModeAgrees \/ Waits(Settles) \/ (emuPaused # paused /\ PollComes)

IInv ==
    /\ Typed /\ QueueInv /\ CountInv /\ QuitInv /\ FreezeInv
    /\ CpuInv /\ PollInv /\ CapsInv /\ ModeInv

(***************************************************************************)
(* Data: sequences and finite sets.                                        *)
(***************************************************************************)
\* The sequences of at most n elements, as SeqOf builds them.
LEMMA IsSeqOf ==
  ASSUME NEW S, NEW n \in Nat, NEW s \in Seq(S), Len(s) <= n
  PROVE  s \in SeqOf(S, n)
<1>1. s \in [1 .. Len(s) -> S] /\ Len(s) \in 0 .. n
  BY LenProperties
<1>2. QED
  BY <1>1 DEF SeqOf

\* Moving the head of one sequence to the end of another changes nothing of the two.
LEMMA MoveHead == ASSUME NEW S, NEW s \in Seq(S), NEW t \in Seq(S), t # <<>>
  PROVE /\ Append(s, Head(t)) \o Tail(t) = s \o t
        /\ Tail(t) \in Seq(S) /\ Head(t) \in S /\ Append(s, Head(t)) \in Seq(S)
        /\ Len(Tail(t)) = Len(t) - 1
<1>1. /\ Head(t) \in S /\ Tail(t) \in Seq(S)
      /\ t = <<Head(t)>> \o Tail(t) /\ Len(Tail(t)) = Len(t) - 1
  BY HeadTailProperties
<1>2. s \o (<<Head(t)>> \o Tail(t)) = (s \o <<Head(t)>>) \o Tail(t)
  BY <1>1, ConcatAssociative
<1>3. Append(s, Head(t)) = s \o <<Head(t)>>
  BY <1>1, AppendIsConcat
<1>4. QED
  BY <1>1, <1>2, <1>3

\* An element stays when another is appended, and the one appended is there.
LEMMA ContainsAppend ==
  ASSUME NEW S, NEW s \in Seq(S), NEW c \in S, NEW d, Contains(s, d) \/ c = d
  PROVE  Contains(Append(s, c), d)
BY AppendProperties DEF Contains

\* What is in a sequence is its head or is in the rest.
LEMMA ContainsTail ==
  ASSUME NEW S, NEW s \in Seq(S), NEW d, Contains(s, d)
  PROVE  s # <<>> /\ (Head(s) = d \/ Contains(Tail(s), d))
BY DEF Contains

\* How many commands may still be executed, when one more may and when one is.
LEMMA LateCardinality ==
  ASSUME NumbersOK
  PROVE /\ Cardinality(late) \in Nat
        /\ \A c \in Commands :
              Cardinality(late \cup {c}) \in {Cardinality(late), Cardinality(late) + 1}
        /\ \A c \in late : Cardinality(late \ {c}) = Cardinality(late) - 1
        /\ Cardinality({}) = 0
<1>1. IsFiniteSet(Commands)
  <2>1. IsFiniteSet({"PAUSE"}) /\ IsFiniteSet({"CONTINUE"}) /\ IsFiniteSet({"STEP"})
        /\ IsFiniteSet({"COLDSTART"}) /\ IsFiniteSet({"STOP_EMULATOR"})
    BY FS_Singleton
  <2>2. Commands = ((({"PAUSE"} \cup {"CONTINUE"}) \cup {"STEP"}) \cup {"COLDSTART"})
                      \cup {"STOP_EMULATOR"}
    BY DEF Commands
  <2>3. QED
    BY <2>1, <2>2, FS_Union
<1>2. IsFiniteSet(late)
  BY <1>1, FS_Subset DEF NumbersOK
<1>3. QED
  BY <1>2, FS_CardinalityType, FS_AddElement, FS_RemoveElement, FS_EmptySet

(***************************************************************************)
(* Frames: what each part of the loop leaves alone.                        *)
(***************************************************************************)

\* A key or the lack of one changes what the user asks for and nothing of the poll.
LEMMA InputKeeps ==
  Input => UNCHANGED <<emuVars, bounds, stVars, tickVars, flushVars, lastPaused, due,
                       unnoticed>>
BY DEF Input, Pressed, StepKey, PauseKey, ContinueKey, EnterShutdown, ExitShutdown, ColdStart,
       Terminate, ToggleFreeze, Quit, NoKey, Interrupt

\* The poll only reads: the emulator, the keys and the commands are as they were.
LEMMA TickKeeps == Tick => UNCHANGED <<emuPaused, ver, hasBp, late, tickKeeps>>
BY DEF Tick, TickNotDue, TickDue, StatusWorks, StatusFails, CPUWorks, CPUFails, MemoryRead,
       CapsWork, CapsFail, cpuKeeps, capsKeep, CallWorks, CallFails, ConnectionFails, emuVars

\* The dispatcher, the viewers and the mode change nothing of what was polled.
LEMMA UpdateKeeps == Update => UNCHANGED updateKeeps
BY DEF Update, Stop, TakeQueue, FlushWorks, FlushFails, NextCommand, Viewers, Modes, takeKeeps

\* The emulator does not touch the monitor.
LEMMA EmulatorKeeps == Emulator => UNCHANGED <<loopVars, due>>
BY DEF Emulator, EmulatorChanges, EmulatorRestarts, LateExecution

\* The clock changes only whether a poll is due.
LEMMA IdleKeeps ==
  IntervalElapses \/ Finished \/ UNCHANGED vars
  => UNCHANGED <<emuVars, bounds, loopVars, modeExcused>>
BY DEF IntervalElapses, Finished, vars

(***************************************************************************)
(* Types.                                                                  *)
(***************************************************************************)

\* The emulator's and the connection's flags.
LEMMA EmuFlagsStep == ASSUME EmuFlags, [Next]_vars PROVE EmuFlags'
<1>1. CASE Input
  BY <1>1, InputKeeps DEF EmuFlags, emuVars
<1>2. CASE Tick
  BY <1>2 DEF EmuFlags, emuVars, Tick, TickNotDue, TickDue, StatusWorks, StatusFails,
    CPUWorks, CPUFails, MemoryRead, CapsWork, CapsFail, CallWorks, CallFails, ConnectionFails
<1>3. CASE Update
  BY <1>3 DEF EmuFlags, emuVars, Update, Stop, TakeQueue, takeKeeps, FlushWorks, FlushFails,
    CommandFails, Viewers, CallWorks, CallFails, ConnectionFails, Modes, Execute, Becomes,
    Replaced
<1>4. CASE Emulator
  BY <1>4 DEF EmuFlags, Emulator, EmulatorChanges, EmulatorRestarts, LateExecution, Execute,
    Becomes, Replaced
<1>5. CASE IntervalElapses \/ Finished \/ UNCHANGED vars
  BY <1>5, IdleKeeps DEF EmuFlags, emuVars
<1>6. QED
  BY <1>1, <1>2, <1>3, <1>4, <1>5 DEF Next

\* The flags the keys set.
LEMMA KeyFlagsStep == ASSUME KeyFlags, [Next]_vars PROVE KeyFlags'
<1>1. CASE Input
  BY <1>1 DEF KeyFlags, keyVars, Input, StepKey, PauseKey, ContinueKey, EnterShutdown,
    ExitShutdown, ColdStart, Terminate, ToggleFreeze, Quit, NoKey, Interrupt
<1>2. CASE Tick
  BY <1>2, TickKeeps DEF KeyFlags, tickKeeps, keyVars
<1>3. CASE Update
  BY <1>3, UpdateKeeps DEF KeyFlags, updateKeeps
<1>4. CASE Emulator
  BY <1>4, EmulatorKeeps DEF KeyFlags, loopVars, keyVars
<1>5. CASE IntervalElapses \/ Finished \/ UNCHANGED vars
  BY <1>5, IdleKeeps DEF KeyFlags, loopVars, keyVars
<1>6. QED
  BY <1>1, <1>2, <1>3, <1>4, <1>5 DEF Next

\* The flags of the poll.
LEMMA TickFlagsStep ==
  ASSUME ShownFlags, EmuFlags, KeyFlags, TickFlags, LoopFlags, [Next]_vars
  PROVE  TickFlags'
<1>1. CASE Input
  BY <1>1, InputKeeps DEF TickFlags, tickVars
<1>2. CASE Tick
  BY <1>2 DEF TickFlags, Tick, TickNotDue, TickDue, StatusWorks, StatusFails, CPUWorks,
    CPUFails, MemoryRead, CapsWork, CapsFail, tickVars, cpuKeeps, capsKeep
<1>3. CASE Update
  BY <1>3 DEF TickFlags, LoopFlags, Update, Stop, TakeQueue, takeKeeps, updateKeeps,
    FlushWorks, FlushFails, NextCommand, CommandFails, Viewers, Modes, RequestRefresh
<1>4. CASE Emulator
  BY <1>4, EmulatorKeeps DEF TickFlags, loopVars, tickVars
<1>5. CASE IntervalElapses \/ Finished \/ UNCHANGED vars
  BY <1>5, IdleKeeps DEF TickFlags, loopVars, tickVars
<1>6. QED
  BY <1>1, <1>2, <1>3, <1>4, <1>5 DEF Next

\* The flags on the screen.
LEMMA ShownFlagsStep == ASSUME ShownFlags, EmuFlags, TickFlags, [Next]_vars PROVE ShownFlags'
<1>1. CASE Input
  BY <1>1, InputKeeps DEF ShownFlags, stVars
<1>2. CASE Tick
  BY <1>2 DEF EmuFlags, ShownFlags, TickFlags, Tick, TickNotDue, TickDue, StatusWorks,
    StatusFails, CPUWorks, CPUFails, MemoryRead, CapsWork, CapsFail, stVars, cpuKeeps,
    capsKeep, syncRPCError, AfterCPU, EndTick
<1>3. CASE Update
  BY <1>3, UpdateKeeps DEF ShownFlags, updateKeeps
<1>4. CASE Emulator
  BY <1>4, EmulatorKeeps DEF ShownFlags, loopVars, stVars
<1>5. CASE IntervalElapses \/ Finished \/ UNCHANGED vars
  BY <1>5, IdleKeeps DEF ShownFlags, loopVars, stVars
<1>6. QED
  BY <1>1, <1>2, <1>3, <1>4, <1>5 DEF Next

\* The flags of the loop.
LEMMA LoopFlagsStep == ASSUME LoopFlags, [Next]_vars PROVE LoopFlags'
<1>1. CASE Input
  BY <1>1, InputKeeps DEF LoopFlags, flushVars, Input, StepKey, PauseKey, ContinueKey,
    EnterShutdown, ExitShutdown, ColdStart, Terminate, ToggleFreeze, Quit, NoKey, Interrupt,
    Pressed, AfterInput
<1>2. CASE Tick
  BY <1>2, TickKeeps DEF LoopFlags, Tick, TickNotDue, TickDue, StatusWorks, StatusFails,
    CPUWorks, CPUFails, MemoryRead, CapsWork, CapsFail, tickKeeps, flushVars, cpuKeeps,
    capsKeep
<1>3. CASE Update
  BY <1>3 DEF LoopFlags, Update, Stop, TakeQueue, takeKeeps, updateKeeps, FlushWorks,
    FlushFails, NextCommand, CommandFails, Viewers, Modes, RequestRefresh
<1>4. CASE Emulator
  BY <1>4, EmulatorKeeps DEF LoopFlags, loopVars, flushVars
<1>5. CASE IntervalElapses \/ Finished \/ UNCHANGED vars
  BY <1>5 DEF LoopFlags, IntervalElapses, Finished, vars, loopVars, flushVars
<1>6. QED
  BY <1>1, <1>2, <1>3, <1>4, <1>5 DEF Next

\* The flags of the history.
LEMMA HistoryFlagsStep == ASSUME HistoryFlags, [Next]_vars PROVE HistoryFlags'
<1>1. CASE Input
  BY <1>1, InputKeeps DEF HistoryFlags, Input, StepKey, PauseKey, ContinueKey, EnterShutdown,
    ExitShutdown, ColdStart, Terminate, ToggleFreeze, Quit, NoKey, Interrupt, ExitMode
<1>2. CASE Tick
  BY <1>2, TickKeeps DEF HistoryFlags, Tick, TickNotDue, TickDue, StatusWorks, StatusFails,
    CPUWorks, CPUFails, MemoryRead, CapsWork, CapsFail, tickKeeps, cpuKeeps, capsKeep
<1>3. CASE Update
  BY <1>3 DEF HistoryFlags, Update, Stop, TakeQueue, takeKeeps, updateKeeps, FlushWorks,
    FlushFails, NextCommand, CommandFails, Viewers, Modes, Execute, Becomes, Replaced
<1>4. CASE Emulator
  BY <1>4, EmulatorKeeps DEF HistoryFlags, loopVars, Emulator, EmulatorChanges,
    EmulatorRestarts, LateExecution, Execute, Becomes, Replaced
<1>5. CASE IntervalElapses \/ Finished \/ UNCHANGED vars
  BY <1>5, IdleKeeps DEF HistoryFlags, loopVars
<1>6. QED
  BY <1>1, <1>2, <1>3, <1>4, <1>5 DEF Next

\* The mode, the place in the loop and what is remembered of the last poll.
LEMMA ControlStep == ASSUME ControlOK, [Next]_vars PROVE ControlOK'
<1>1. CASE Input
  BY <1>1 DEF ControlOK, tickVars, keyVars, Input, StepKey, PauseKey, ContinueKey,
    EnterShutdown, ExitShutdown, ColdStart, Terminate, ToggleFreeze, Quit, NoKey, Interrupt,
    ExitMode, ModeOf, Pressed, AfterInput
<1>2. CASE Tick
  BY <1>2 DEF ControlOK, Tick, TickNotDue, TickDue, StatusWorks, StatusFails, CPUWorks,
    CPUFails, MemoryRead, CapsWork, CapsFail, AfterCPU, EndTick, tickVars, tickKeeps, keyVars,
    cpuKeeps, capsKeep
<1>3. CASE Update
  BY <1>3 DEF ControlOK, Update, Stop, TakeQueue, takeKeeps, updateKeeps, FlushWorks,
    FlushFails, NextCommand, CommandFails, Viewers, Modes, ModeOf
<1>4. CASE Emulator
  BY <1>4, EmulatorKeeps DEF ControlOK, loopVars, keyVars, tickVars
<1>5. CASE IntervalElapses \/ Finished \/ UNCHANGED vars
  BY <1>5, IdleKeeps DEF ControlOK, loopVars, keyVars, tickVars
<1>6. QED
  BY <1>1, <1>2, <1>3, <1>4, <1>5 DEF Next

\* A key that enqueues a command keeps the types, and adds it at the end.
LEMMA EnqueueTypes == ASSUME SeqsOK, NEW c \in Commands, enqueue(c)
  PROVE /\ queue' \in Seq(Commands) /\ dispatched' \in Seq(Commands)
        /\ Len(dispatched') = Len(dispatched) + 1
        /\ sent \o batch \o queue' = Append(sent \o batch \o queue, c)
<1>1. /\ queue \in Seq(Commands) /\ dispatched \in Seq(Commands)
      /\ sent \o batch \in Seq(Commands)
      /\ queue' = Append(queue, c) /\ dispatched' = Append(dispatched, c)
      /\ sent \o batch \o queue \in Seq(Commands) /\ <<c>> \in Seq(Commands)
  BY ConcatProperties DEF SeqsOK, enqueue
<1>2. (sent \o batch) \o (queue \o <<c>>) = ((sent \o batch) \o queue) \o <<c>>
  BY <1>1, ConcatAssociative
<1>3. /\ queue \o <<c>> = Append(queue, c)
      /\ (sent \o batch \o queue) \o <<c>> = Append(sent \o batch \o queue, c)
  BY <1>1, AppendIsConcat
<1>4. QED
  BY <1>1, <1>2, <1>3, AppendProperties

\* The four sequences hold commands only.
LEMMA SeqsStep == ASSUME ControlOK, SeqsOK, QueueInv, [Next]_vars PROVE SeqsOK'
<1>1. CASE Input
  <2>1. UNCHANGED <<batch, sent>>
    BY <1>1, InputKeeps DEF flushVars
  <2>2. UNCHANGED <<queue, dispatched>> \/ \E c \in Commands : enqueue(c)
    BY <1>1 DEF Commands, Input, StepKey, PauseKey, ContinueKey, EnterShutdown,
      ExitShutdown, ColdStart, Terminate, ToggleFreeze, Quit, NoKey, Interrupt, keyVars
  <2>3. QED
    BY <2>1, <2>2, EnqueueTypes DEF SeqsOK
<1>2. CASE Tick
  BY <1>2, TickKeeps DEF SeqsOK, tickKeeps, keyVars, flushVars
<1>3. CASE Update
  <2>1. CASE Stop \/ Viewers \/ Modes
     BY <2>1 DEF SeqsOK, Stop, takeKeeps, updateKeeps, Viewers, Modes
  <2>2. CASE TakeQueue
     BY <2>2, EmptySeq DEF SeqsOK, TakeQueue, takeKeeps, updateKeeps
  <2>3. CASE FlushWorks \/ FlushFails
     <3>1. NextCommand(Tail(batch))
       BY <2>3 DEF FlushWorks, FlushFails
     <3>2. batch # <<>>
       BY <3>1 DEF NextCommand, QueueInv
     <3>3. sent' \in Seq(Commands) /\ batch' \in Seq(Commands)
       BY <3>1, <3>2, MoveHead DEF NextCommand, SeqsOK
     <3>4. QED
       BY <3>1, <3>3 DEF SeqsOK, NextCommand, updateKeeps
  <2>4. QED
    BY <1>3, <2>1, <2>2, <2>3 DEF Update
<1>4. CASE Emulator
  BY <1>4, EmulatorKeeps DEF SeqsOK, loopVars, keyVars, flushVars
<1>5. CASE IntervalElapses \/ Finished \/ UNCHANGED vars
  BY <1>5, IdleKeeps DEF SeqsOK, loopVars, keyVars, flushVars
<1>6. QED
  BY <1>1, <1>2, <1>3, <1>4, <1>5 DEF Next

\* Executing a command makes a state of the emulator that was not there before.
LEMMA ExecuteChanges == ASSUME NEW c, Execute(c) PROVE ver' = ver + 1
BY DEF Execute, Becomes, Replaced

\* The emulator does not change without its state being another.
LEMMA VerGrows == ASSUME [Next]_vars PROVE ver' = ver + 1 \/ UNCHANGED <<ver, emuPaused, hasBp>>
<1>1. CASE Input
  BY <1>1, InputKeeps DEF emuVars
<1>2. CASE Tick
  BY <1>2, TickKeeps
<1>3. CASE Update
  BY <1>3, ExecuteChanges DEF emuVars, Update, Stop, TakeQueue, FlushWorks, FlushFails,
    CommandFails, Viewers, CallWorks, CallFails, ConnectionFails, Modes, takeKeeps
<1>4. CASE Emulator
  BY <1>4, ExecuteChanges DEF Emulator, EmulatorChanges, EmulatorRestarts, LateExecution,
    Becomes, Replaced
<1>5. CASE IntervalElapses \/ Finished \/ UNCHANGED vars
  BY <1>5, IdleKeeps DEF emuVars
<1>6. QED
  BY <1>1, <1>2, <1>3, <1>4, <1>5 DEF Next

\* The numbers keep to their bounds.
LEMMA NumbersStep == ASSUME NumbersOK, SeqsOK, QueueInv, [Next]_vars PROVE NumbersOK'
<1>0. MaxKeys \in Nat /\ MaxVer \in Nat /\ MaxFails \in Nat /\ MaxRestarts \in Nat
  BY BoundsAssumption
<1>1. ver' \in Nat
  BY VerGrows DEF NumbersOK
<1>2. statusVer' \in {statusVer, ver} /\ cpu' \in {cpu, ver}
  <2>1. CASE Input
    BY <2>1, InputKeeps DEF stVars
  <2>2. CASE Tick
    BY <2>2, TickKeeps DEF Tick, TickNotDue, TickDue, StatusWorks, StatusFails, CPUWorks,
      CPUFails, MemoryRead, CapsWork, CapsFail, stVars, cpuKeeps, capsKeep
  <2>3. CASE Update
    BY <2>3, UpdateKeeps DEF updateKeeps
  <2>4. CASE Emulator
    BY <2>4, EmulatorKeeps DEF loopVars, stVars
  <2>5. CASE IntervalElapses \/ Finished \/ UNCHANGED vars
    BY <2>5, IdleKeeps DEF loopVars, stVars
  <2>6. QED
    BY <2>1, <2>2, <2>3, <2>4, <2>5 DEF Next
<1>3. keys' \in 0 .. MaxKeys
  <2>1. keys' = keys \/ (keys < MaxKeys /\ keys' = keys + 1)
    <3>1. CASE Input
      BY <3>1 DEF Input, Pressed, StepKey, PauseKey, ContinueKey, EnterShutdown, ExitShutdown,
        ColdStart, Terminate, ToggleFreeze, Quit, NoKey, Interrupt, keyVars
    <3>2. CASE Tick
      BY <3>2, TickKeeps DEF tickKeeps, keyVars
    <3>3. CASE Update
      BY <3>3, UpdateKeeps DEF updateKeeps
    <3>4. CASE Emulator
      BY <3>4, EmulatorKeeps DEF loopVars, keyVars
    <3>5. CASE IntervalElapses \/ Finished \/ UNCHANGED vars
      BY <3>5, IdleKeeps DEF loopVars, keyVars
    <3>6. QED
      BY <3>1, <3>2, <3>3, <3>4, <3>5 DEF Next
  <2>2. QED
    BY <1>0, <2>1 DEF NumbersOK
<1>4. changes' \in 0 .. MaxVer /\ restarts' \in 0 .. MaxRestarts
  <2>1. CASE Emulator
    BY <1>0, <2>1 DEF NumbersOK, Emulator, EmulatorChanges, EmulatorRestarts, LateExecution,
      bounds
  <2>2. CASE ~Emulator
    <3>1. UNCHANGED bounds
      BY <2>2, InputKeeps, TickKeeps, UpdateKeeps, IdleKeeps DEF Next, tickKeeps, updateKeeps
    <3>2. QED
      BY <3>1 DEF NumbersOK, bounds
  <2>3. QED
    BY <2>1, <2>2
<1>5. late' \subseteq Commands /\ fails' \in 0 .. MaxFails
  <2>1. CASE Input \/ IntervalElapses \/ Finished \/ UNCHANGED vars
    BY <2>1, InputKeeps, IdleKeeps DEF NumbersOK, emuVars
  <2>2. CASE Tick
    BY <1>0, <2>2 DEF NumbersOK, emuVars, Tick, TickNotDue, TickDue, StatusWorks, StatusFails,
      CPUWorks, CPUFails, MemoryRead, CapsWork, CapsFail, CallWorks, CallFails, ConnectionFails
  <2>3. CASE Stop \/ TakeQueue \/ Viewers \/ Modes
    BY <1>0, <2>3 DEF NumbersOK, emuVars, Stop, TakeQueue, takeKeeps, Viewers, Modes, CallWorks,
      CallFails, ConnectionFails
  <2>4. CASE FlushWorks
    BY <2>4 DEF NumbersOK, FlushWorks
  <2>5. CASE FlushFails
    <3>1. Head(batch) \in Commands
      BY <2>5, MoveHead DEF FlushFails, NextCommand, QueueInv, SeqsOK
    <3>2. QED
      BY <1>0, <2>5, <3>1 DEF NumbersOK, FlushFails, CommandFails, ConnectionFails
  <2>6. CASE Emulator
    BY <2>6 DEF NumbersOK, Emulator, EmulatorChanges, EmulatorRestarts, LateExecution
  <2>7. QED
    BY <2>1, <2>2, <2>3, <2>4, <2>5, <2>6 DEF Next, Update
<1>6. QED
  BY <1>1, <1>2, <1>3, <1>4, <1>5 DEF NumbersOK

\* Every variable keeps its type.
LEMMA TypedStep == ASSUME Typed, QueueInv, [Next]_vars PROVE Typed'
BY EmuFlagsStep, ShownFlagsStep, KeyFlagsStep, TickFlagsStep, LoopFlagsStep, HistoryFlagsStep,
   ControlStep, NumbersStep, SeqsStep DEF Typed

(***************************************************************************)
(* The commands, the quit, the freeze.                                     *)
(***************************************************************************)

\* The commands stay in order, and no more than the keys gave.
LEMMA QueueStep == ASSUME NumbersOK, ControlOK, SeqsOK, QueueInv, [Next]_vars PROVE QueueInv'
<1>0. /\ keys \in Nat /\ Len(dispatched) \in Nat
      /\ sent \in Seq(Commands) /\ batch \in Seq(Commands) /\ queue \in Seq(Commands)
  BY BoundsAssumption, LenProperties DEF NumbersOK, SeqsOK
<1>1. CASE Input
  <2>1. UNCHANGED <<batch, sent>> /\ batch = <<>>
    BY <1>1, InputKeeps DEF flushVars, QueueInv, Input, StepKey, PauseKey, ContinueKey,
      EnterShutdown, ExitShutdown, ColdStart, Terminate, ToggleFreeze, Quit, NoKey,
      Interrupt, Pressed
  <2>2. pc' # "flush"
    BY <1>1 DEF Input, StepKey, PauseKey, ContinueKey, EnterShutdown, ExitShutdown,
      ColdStart, Terminate, ToggleFreeze, Quit, NoKey, Interrupt, Pressed, AfterInput
  <2>3. CASE StepKey \/ PauseKey \/ ContinueKey \/ ColdStart \/ Terminate
    <3>1. PICK c \in Commands : enqueue(c) /\ Pressed
      BY <2>3 DEF StepKey, PauseKey, ContinueKey, ColdStart, Terminate, Commands
    <3>2. CommandsInOrder'
      BY <2>1, <3>1, EnqueueTypes DEF QueueInv, CommandsInOrder, enqueue
    <3>3. Len(dispatched') = Len(dispatched) + 1 /\ keys' = keys + 1
      BY <3>1, EnqueueTypes DEF Pressed
    <3>4. QED
      BY <1>0, <2>1, <2>2, <3>2, <3>3 DEF QueueInv
  <2>4. CASE EnterShutdown \/ ExitShutdown \/ ToggleFreeze \/ Quit \/ NoKey \/ Interrupt
    <3>1. UNCHANGED <<queue, dispatched>> /\ keys' \in {keys, keys + 1}
      BY <2>4 DEF EnterShutdown, ExitShutdown, ToggleFreeze, Quit, NoKey, Interrupt,
        Pressed, keyVars
    <3>2. QED
      BY <1>0, <2>1, <2>2, <3>1 DEF QueueInv, CommandsInOrder
  <2>5. QED
    BY <1>1, <2>3, <2>4 DEF Input
<1>2. CASE Tick
  BY <1>2, TickKeeps DEF QueueInv, CommandsInOrder, Tick, TickNotDue, TickDue, StatusWorks,
    StatusFails, CPUWorks, CPUFails, MemoryRead, CapsWork, CapsFail, AfterCPU, EndTick,
    tickKeeps, keyVars, flushVars
<1>3. CASE Update
  <2>1. CASE Stop \/ Viewers \/ Modes
     BY <2>1 DEF QueueInv, CommandsInOrder, Stop, takeKeeps, updateKeeps, Viewers, Modes
  <2>3. CASE TakeQueue
     <3>1. batch = <<>>
       BY <2>3 DEF QueueInv, TakeQueue
     <3>2. sent \o <<>> \o queue = sent \o queue \o <<>>
       BY ConcatEmptySeq, ConcatProperties DEF SeqsOK
     <3>9. QED
       BY <2>3, <3>1, <3>2 DEF QueueInv, CommandsInOrder, TakeQueue, takeKeeps, updateKeeps
  <2>2. CASE FlushWorks \/ FlushFails
     <3>1. NextCommand(Tail(batch))
       BY <2>2 DEF FlushWorks, FlushFails
     <3>2. batch # <<>>
       BY <3>1 DEF NextCommand, QueueInv
     <3>0. sent' = Append(sent, Head(batch)) /\ batch' = Tail(batch)
       BY <3>1 DEF NextCommand
     <3>3. sent' \o batch' = sent \o batch
       BY <1>0, <3>0, <3>2, MoveHead
     <3>4. sent' \o batch' \o queue' = dispatched'
       BY <3>1, <3>3 DEF QueueInv, CommandsInOrder, NextCommand, updateKeeps
     <3>9. QED
       BY <3>1, <3>4 DEF QueueInv, CommandsInOrder, NextCommand, updateKeeps
  <2>9. QED
    BY <1>3, <2>1, <2>2, <2>3 DEF Update
<1>4. CASE Emulator
  BY <1>4, EmulatorKeeps DEF QueueInv, CommandsInOrder, loopVars, keyVars, flushVars
<1>5. CASE IntervalElapses \/ Finished \/ UNCHANGED vars
  BY <1>5, IdleKeeps DEF QueueInv, CommandsInOrder, loopVars, keyVars, flushVars
<1>6. QED
  BY <1>1, <1>2, <1>3, <1>4, <1>5 DEF Next

\* Every state of the emulator is accounted for.
LEMMA CountStep == ASSUME NumbersOK, SeqsOK, QueueInv, CountInv, [Next]_vars PROVE CountInv'
<1>0. /\ Len(sent) \in Nat /\ Cardinality(late) \in Nat
      /\ ver \in Nat /\ changes \in Nat /\ restarts \in Nat
  BY LenProperties, LateCardinality, BoundsAssumption DEF SeqsOK, NumbersOK
<1>1. CASE Input
  BY <1>1, InputKeeps DEF CountInv, emuVars, bounds, flushVars
<1>2. CASE Tick
  BY <1>2, TickKeeps DEF CountInv, tickKeeps, bounds, flushVars
<1>3. CASE Stop \/ TakeQueue \/ Viewers \/ Modes
  BY <1>3 DEF CountInv, Stop, TakeQueue, Viewers, Modes, takeKeeps, updateKeeps, emuVars,
    CallWorks, CallFails, ConnectionFails, bounds
<1>4. CASE FlushWorks \/ FlushFails
  <2>1. /\ UNCHANGED <<changes, restarts>>
        /\ Len(sent') = Len(sent) + 1 /\ Head(batch) \in Commands
    <3>1. NextCommand(Tail(batch))
      BY <1>4 DEF FlushWorks, FlushFails
    <3>2. sent' = Append(sent, Head(batch)) /\ batch # <<>> /\ UNCHANGED bounds
      BY <3>1 DEF NextCommand, QueueInv, updateKeeps
    <3>3. QED
      BY <3>2, AppendProperties, HeadTailProperties DEF SeqsOK, bounds
  <2>2. CASE FlushWorks
    BY <2>1, <2>2, <1>0, ExecuteChanges DEF CountInv, FlushWorks
  <2>3. CASE FlushFails
    <3>1. ver' = ver /\ (late' = late \/ late' = late \cup {Head(batch)})
      BY <2>3 DEF FlushFails, CommandFails, ConnectionFails
    <3>2. QED
      BY <3>1, <2>1, <1>0, LateCardinality DEF CountInv
  <2>4. QED
    BY <1>4, <2>2, <2>3
<1>5. CASE EmulatorChanges
  BY <1>0, <1>5 DEF CountInv, EmulatorChanges, Becomes, loopVars, flushVars
<1>6. CASE EmulatorRestarts
  BY <1>0, <1>6, LateCardinality DEF CountInv, EmulatorRestarts, Replaced, Becomes, loopVars,
    flushVars
<1>7. CASE LateExecution
  BY <1>0, <1>7, LateCardinality, ExecuteChanges DEF CountInv, LateExecution, bounds,
    loopVars, flushVars
<1>8. CASE IntervalElapses \/ Finished \/ UNCHANGED vars
  BY <1>8, IdleKeeps DEF CountInv, emuVars, bounds, loopVars, flushVars
<1>9. QED
  BY <1>1, <1>2, <1>3, <1>4, <1>5, <1>6, <1>7, <1>8 DEF Next, Update, Emulator

\* Nothing is being sent when 'q' is pressed.
LEMMA QuitStep == ASSUME QuitInv, ControlOK, [Next]_vars PROVE QuitInv'
<1>1. CASE Input
  BY <1>1 DEF QuitInv, Input, StepKey, PauseKey, ContinueKey, EnterShutdown, ExitShutdown,
    ColdStart, Terminate, ToggleFreeze, Quit, NoKey, Interrupt, Pressed, AfterInput
<1>2. CASE Tick
  BY <1>2 DEF QuitInv, Tick, TickNotDue, TickDue, StatusWorks, StatusFails, CPUWorks,
    CPUFails, MemoryRead, CapsWork, CapsFail, AfterCPU, EndTick
<1>3. CASE Update
  BY <1>3 DEF QuitInv, Update, Stop, TakeQueue, FlushWorks, FlushFails, NextCommand, Viewers,
    Modes, takeKeeps, updateKeeps
<1>4. CASE Emulator
  BY <1>4, EmulatorKeeps DEF QuitInv, loopVars, keyVars
<1>5. CASE IntervalElapses \/ Finished \/ UNCHANGED vars
  BY <1>5, IdleKeeps DEF QuitInv, loopVars, keyVars
<1>6. QED
  BY <1>1, <1>2, <1>3, <1>4, <1>5 DEF Next

\* The keys are the only way into a freeze, and there is no way on from it.
LEMMA FreezeStep == ASSUME FreezeInv, KeyFlags, ControlOK, [Next]_vars PROVE FreezeInv'
<1>1. CASE Input
  BY <1>1 DEF FreezeInv, Input, StepKey, PauseKey, ContinueKey, EnterShutdown, ExitShutdown,
    ColdStart, Terminate, ToggleFreeze, Quit, NoKey, Interrupt, Pressed, AfterInput
<1>2. CASE Tick
  <2>1. pc \notin {"input", "done"}
    BY <1>2 DEF Tick, TickNotDue, TickDue, StatusWorks, StatusFails, CPUWorks, CPUFails,
      MemoryRead, CapsWork, CapsFail
  <2>2. QED
    BY <1>2, <2>1, TickKeeps DEF FreezeInv, tickKeeps, keyVars
<1>3. CASE Update
  <2>1. pc \notin {"input", "done"}
    BY <1>3 DEF Update, Stop, TakeQueue, FlushWorks, FlushFails, NextCommand, Viewers, Modes
  <2>2. QED
    BY <1>3, <2>1, UpdateKeeps DEF FreezeInv, updateKeeps
<1>4. CASE Emulator
  BY <1>4, EmulatorKeeps DEF FreezeInv, loopVars, keyVars
<1>5. CASE IntervalElapses \/ Finished \/ UNCHANGED vars
  BY <1>5, IdleKeeps DEF FreezeInv, loopVars, keyVars
<1>6. QED
  BY <1>1, <1>2, <1>3, <1>4, <1>5 DEF Next

(***************************************************************************)
(* The poll.                                                               *)
(***************************************************************************)

\* CPU_STATE follows a STATUS that changed, before anything else.
LEMMA CpuStep == ASSUME NumbersOK, TickFlags, CpuInv, [Next]_vars PROVE CpuInv'
<1>0. ver' = ver + 1 \/ ver' = ver
  BY VerGrows
<1>1. CASE Input
  BY <1>1, InputKeeps DEF CpuInv, emuVars, stVars, tickVars,Input, StepKey, PauseKey,
    ContinueKey, EnterShutdown, ExitShutdown, ColdStart, Terminate, ToggleFreeze, Quit, NoKey,
    Interrupt, Pressed
<1>2. CASE Tick
  BY <1>2, TickKeeps DEF NumbersOK, CpuInv, Tick, TickNotDue, TickDue, StatusWorks, Changed,
    ReadsCPU, StatusFails, CPUWorks, CPUFails, MemoryRead, CapsWork, CapsFail, AfterCPU,
    EndTick, stVars, tickVars, cpuKeeps, capsKeep
<1>3. CASE Update
  <2>1. pc # "cpu"
    BY <1>3 DEF Update, Stop, TakeQueue, FlushWorks, FlushFails, NextCommand, Viewers, Modes
  <2>2. QED
    BY <1>0, <1>3, <2>1, UpdateKeeps DEF NumbersOK, CpuInv, updateKeeps
<1>4. CASE Emulator
  BY <1>0, <1>4, EmulatorKeeps DEF NumbersOK, CpuInv, loopVars, stVars, tickVars
<1>5. CASE IntervalElapses \/ Finished \/ UNCHANGED vars
  BY <1>5, IdleKeeps DEF CpuInv, emuVars, loopVars, stVars, tickVars
<1>6. QED
  BY <1>1, <1>2, <1>3, <1>4, <1>5 DEF Next

\* A state once polled is known until the emulator leaves it.
LEMMA PollStep == ASSUME NumbersOK, CpuInv, PollInv, [Next]_vars PROVE PollInv'
<1>0. ver' = ver + 1 \/ UNCHANGED <<ver, emuPaused, hasBp>>
  BY VerGrows
<1>1. CASE UNCHANGED <<paused, statusVer>>
  BY <1>0, <1>1 DEF PollInv, CpuInv, NumbersOK
<1>2. CASE StatusWorks
  BY <1>2 DEF PollInv, StatusWorks, CallWorks, Changed, emuVars
<1>3. StatusWorks \/ UNCHANGED <<paused, statusVer>>
  <2>1. CASE Input
    BY <2>1, InputKeeps DEF stVars
  <2>2. CASE Tick
    BY <2>2 DEF Tick, TickNotDue, TickDue, StatusFails, CPUWorks, CPUFails, MemoryRead,
      CapsWork, CapsFail, stVars, cpuKeeps, capsKeep
  <2>3. CASE Update
    BY <2>3, UpdateKeeps DEF updateKeeps
  <2>4. CASE Emulator
    BY <2>4, EmulatorKeeps DEF loopVars, stVars
  <2>5. CASE IntervalElapses \/ Finished \/ UNCHANGED vars
    BY <2>5, IdleKeeps DEF loopVars, stVars
  <2>6. QED
    BY <2>1, <2>2, <2>3, <2>4, <2>5 DEF Next
<1>4. QED
  BY <1>1, <1>2, <1>3

\* The features are those of the emulator the connection is one to, unless a failure went
\* unnoticed by the poll.
LEMMA CapsStep ==
  ASSUME EmuFlags, ShownFlags, TickFlags, HistoryFlags, ControlOK, CapsInv, [Next]_vars
  PROVE  CapsInv'
<1>1. CASE Input
  BY <1>1, InputKeeps DEF CapsInv, emuVars, stVars, tickVars, Input, StepKey, PauseKey,
    ContinueKey, EnterShutdown, ExitShutdown, ColdStart, Terminate, ToggleFreeze, Quit, NoKey,
    Interrupt, Pressed
<1>2. CASE Tick
  <2>1. CASE TickNotDue
    BY <2>1 DEF EmuFlags, ShownFlags, TickFlags, HistoryFlags, ControlOK, CapsInv,
      TickNotDue, tickKeeps, keyVars, flushVars, bounds, stVars, tickVars, emuVars, stVars,
      tickVars
  <2>2. CASE TickDue
    BY <2>2 DEF EmuFlags, ShownFlags, TickFlags, HistoryFlags, ControlOK, CapsInv, TickDue,
      tickKeeps, keyVars, flushVars, bounds, stVars, tickVars, emuVars, stVars, tickVars
  <2>3. CASE StatusWorks
    BY <2>3 DEF EmuFlags, ShownFlags, TickFlags, HistoryFlags, ControlOK, CapsInv,
      StatusWorks, Changed, ReadsCPU, tickKeeps, keyVars, flushVars, bounds, emuVars,
      CallWorks, CallFails, ConnectionFails, syncRPCError, NeedsCaps, AfterCPU, EndTick,
      stVars, tickVars
  <2>4. CASE StatusFails
    BY <2>4 DEF EmuFlags, ShownFlags, TickFlags, HistoryFlags, ControlOK, CapsInv,
      StatusFails, tickKeeps, keyVars, flushVars, bounds, emuVars, CallWorks, CallFails,
      ConnectionFails, syncRPCError, NeedsCaps, AfterCPU, EndTick, stVars, tickVars
  <2>5. CASE CPUWorks
    BY <2>5 DEF EmuFlags, ShownFlags, TickFlags, HistoryFlags, ControlOK, CapsInv, CPUWorks,
      cpuKeeps, tickKeeps, keyVars, flushVars, bounds, emuVars, CallWorks, CallFails,
      ConnectionFails, syncRPCError, NeedsCaps, AfterCPU, EndTick, stVars, tickVars
  <2>6. CASE CPUFails
    BY <2>6 DEF EmuFlags, ShownFlags, TickFlags, HistoryFlags, ControlOK, CapsInv, CPUFails,
      cpuKeeps, tickKeeps, keyVars, flushVars, bounds, emuVars, CallWorks, CallFails,
      ConnectionFails, syncRPCError, NeedsCaps, AfterCPU, EndTick, stVars, tickVars
  <2>7. CASE MemoryRead
    BY <2>7 DEF EmuFlags, ShownFlags, TickFlags, HistoryFlags, ControlOK, CapsInv,
      MemoryRead, cpuKeeps, tickKeeps, keyVars, flushVars, bounds, emuVars, CallWorks,
      CallFails, ConnectionFails, syncRPCError, NeedsCaps, AfterCPU, EndTick, stVars,
      tickVars
  <2>8. CASE CapsWork
    BY <2>8 DEF EmuFlags, ShownFlags, TickFlags, HistoryFlags, ControlOK, CapsInv, CapsWork,
      capsKeep, tickKeeps, keyVars, flushVars, bounds, emuVars, CallWorks, CallFails,
      ConnectionFails, syncRPCError, NeedsCaps, AfterCPU, EndTick, stVars, tickVars
  <2>9. CASE CapsFail
    BY <2>9 DEF EmuFlags, ShownFlags, TickFlags, HistoryFlags, ControlOK, CapsInv, CapsFail,
      capsKeep, tickKeeps, keyVars, flushVars, bounds, emuVars, CallWorks, CallFails,
      ConnectionFails, syncRPCError, NeedsCaps, AfterCPU, EndTick, stVars, tickVars
  <2>10. QED
    BY <1>2, <2>1, <2>2, <2>3, <2>4, <2>5, <2>6, <2>7, <2>8, <2>9 DEF Tick
<1>3. CASE Update
  BY <1>3 DEF CapsInv, EmuFlags, ShownFlags, HistoryFlags, emuVars, Update, Stop, TakeQueue,
    takeKeeps, FlushWorks, FlushFails, NextCommand, CommandFails, Viewers, CallWorks,
    CallFails, ConnectionFails, Modes, Execute, Becomes, Replaced, updateKeeps
<1>4. CASE Emulator
  BY <1>4, EmulatorKeeps DEF CapsInv, loopVars, stVars, tickVars, Emulator, EmulatorChanges,
    EmulatorRestarts, LateExecution, Execute, Becomes, Replaced
<1>5. CASE IntervalElapses \/ Finished \/ UNCHANGED vars
  BY <1>5, IdleKeeps DEF CapsInv, emuVars, loopVars, stVars, tickVars
<1>6. QED
  BY <1>1, <1>2, <1>3, <1>4, <1>5 DEF Next

(***************************************************************************)
(* The mode.                                                               *)
(***************************************************************************)

\* An emulator that is otherwise than shown stays so, or comes to be what is shown unseen.
LEMMA BecomesKeeps ==
  ASSUME EmuFlags, ShownFlags, NEW p \in BOOLEAN, Becomes(p),
         emuPaused # paused, UNCHANGED paused
  PROVE  emuPaused' # paused' \/ modeExcused'
BY DEF Becomes, EmuFlags, ShownFlags

\* So it does when it executes a command.
LEMMA ExecuteKeeps ==
  ASSUME EmuFlags, ShownFlags, NEW c, Execute(c), emuPaused # paused, UNCHANGED paused
  PROVE  emuPaused' # paused' \/ modeExcused'
<1>1. PICK p \in BOOLEAN : Becomes(p)
  BY DEF Execute, Replaced, EmuFlags
<1>2. QED
  BY <1>1, BecomesKeeps

\* A command that a key enqueues waits; the ones that wait go on waiting.
LEMMA EnqueueWaits == ASSUME SeqsOK, NEW c \in Commands, enqueue(c), UNCHANGED batch
  PROVE /\ Contains(queue', c)
        /\ \A d : Contains(batch, d) \/ Contains(queue, d)
                    => Contains(batch', d) \/ Contains(queue', d)
        /\ queue' # <<>>
<1>1. queue' = Append(queue, c) /\ queue \in Seq(Commands)
  BY DEF enqueue, SeqsOK
<1>2. Contains(queue', c) /\ \A d : Contains(queue, d) => Contains(queue', d)
  BY <1>1, ContainsAppend
<1>3. queue' # <<>>
  BY <1>1, AppendProperties
<1>4. QED
  BY <1>2, <1>3

\* F8 changes the mode and enqueues the command that makes it true.
LEMMA ModeInput == ASSUME Typed, ModeInv, Input PROVE ModeInv'
<1> USE DEF Typed
<1>1. UNCHANGED <<emuPaused, paused, batch, flushed, forceRefresh, rpcError, lastPaused>>
  BY InputKeeps DEF emuVars, stVars, flushVars, tickVars
<1>2. pc = "input" /\ pc' \in {"input", "tick", "done"}
  BY DEF Input, StepKey, PauseKey, ContinueKey, EnterShutdown, ExitShutdown, ColdStart,
    Terminate, ToggleFreeze, Quit, NoKey, Interrupt, Pressed, AfterInput
<1>3. pc' \in {"input", "tick", "status"} => lastPaused' \in {"none", Shown'}
  BY <1>1, <1>2 DEF ModeInv, PollComes, Shown
<1>4. CASE StepKey
  BY <1>1, <1>2, <1>3, <1>4, EnqueueWaits DEF Commands, StepKey, ModeInv, PollComes,
    ModeAgrees, Waits, Settles, Shown, ModeOf
<1>5. CASE PauseKey
  BY <1>1, <1>2, <1>3, <1>5, EnqueueWaits DEF Commands, PauseKey, ModeInv, PollComes,
    ModeAgrees, Waits, Settles, Shown, ModeOf
<1>6. CASE ContinueKey
  BY <1>1, <1>2, <1>3, <1>6, EnqueueWaits DEF Commands, ContinueKey, ModeInv, PollComes,
    ModeAgrees, Waits, Settles, Shown, ModeOf
<1>7. CASE EnterShutdown
  BY <1>3, <1>7 DEF EnterShutdown, ModeInv, PollComes, ModeAgrees
<1>8. CASE ExitShutdown \/ ColdStart \/ Terminate
  BY <1>1, <1>3, <1>8 DEF ExitShutdown, ColdStart, Terminate, ExitMode, ModeInv, PollComes,
    ModeAgrees, ModeOf
<1>9. CASE ToggleFreeze \/ Quit \/ NoKey \/ Interrupt
  BY <1>1, <1>2, <1>3, <1>9 DEF ToggleFreeze, Quit, NoKey, Interrupt, keyVars, ModeInv,
    PollComes, ModeAgrees, Waits, Settles, Shown, ModeOf
<1>10. QED
  BY <1>4, <1>5, <1>6, <1>7, <1>8, <1>9 DEF Input

\* A STATUS that finds the emulator otherwise makes AppModeUpdater act; one that fails is
\* repeated.
LEMMA ModeTick == ASSUME Typed, PollInv, ModeInv, Tick PROVE ModeInv'
<1> USE DEF Typed
<1>1. UNCHANGED <<emuPaused, mode, queue, batch, flushed, lastPaused, modeExcused>>
  BY TickKeeps DEF tickKeeps, keyVars, flushVars
<1>2. ASSUME UNCHANGED paused
      PROVE UNCHANGED <<Shown, ModeAgrees, Waits(Settles)>>
  BY <1>1, <1>2 DEF Shown, ModeAgrees, Waits, Settles, ModeOf
<1>3. CASE TickNotDue
  BY <1>1, <1>2, <1>3 DEF TickNotDue, ModeInv, PollComes, stVars, tickVars
<1>4. CASE TickDue
  BY <1>1, <1>2, <1>4 DEF TickDue, ModeInv, PollComes, stVars
<1>5. CASE StatusWorks
  <2>1. pc' \notin {"input", "tick", "status"}
    BY <1>5 DEF StatusWorks, AfterCPU, EndTick
  <2>2. CASE UNCHANGED paused
    <3>1. emuPaused = paused
      BY <1>5, <2>2 DEF StatusWorks, Changed, PollInv
    <3>2. QED
      BY <1>2, <2>1, <2>2, <3>1 DEF ModeInv, PollComes
  <2>3. CASE paused' # paused
    BY <1>1, <1>5, <2>1, <2>3 DEF StatusWorks, ModeInv, PollComes, ModeAgrees, Shown,
      ShownFlags, EmuFlags, ControlOK
  <2>4. QED
    BY <2>2, <2>3
<1>6. CASE StatusFails
  BY <1>1, <1>2, <1>6 DEF StatusFails, syncRPCError, ModeInv, PollComes
<1>7. CASE CPUWorks \/ CPUFails \/ MemoryRead \/ CapsWork \/ CapsFail
  <2>1. /\ pc \in {"cpu", "mem", "caps"} /\ UNCHANGED paused
        /\ pc' \notin {"input", "tick", "status"}
    BY <1>7 DEF CPUWorks, CPUFails, MemoryRead, CapsWork, CapsFail, cpuKeeps, capsKeep,
      AfterCPU, EndTick
  <2>2. ModeAgrees \/ Waits(Settles) \/ (emuPaused # paused /\ (batch # <<>> \/ queue # <<>>))
    <3>1. pc # "status" /\ pc \in {"cpu", "mem", "caps"}
      BY <2>1
    <3>2. QED
      BY <3>1 DEF ModeInv, PollComes
  <2>3. QED
    BY <1>1, <1>2, <2>1, <2>2 DEF ModeInv, PollComes
<1>8. QED
  BY <1>3, <1>4, <1>5, <1>6, <1>7 DEF Tick

\* A command that makes the mode true makes the emulator differ from the screen, and a
\* STATUS is asked for once the batch is sent.
LEMMA ModeUpdate == ASSUME Typed, QueueInv, ModeInv, Update PROVE ModeInv'
<1> USE DEF Typed
<1>1. UNCHANGED paused /\ rpcError' = rpcError
  BY UpdateKeeps DEF updateKeeps
<1>2. CASE Stop
  BY <1>1, <1>2 DEF Stop, takeKeeps, emuVars, ModeInv, PollComes, ModeAgrees, Waits, Settles,
    Shown, ModeOf
<1>3. CASE TakeQueue
  <2>1. batch = <<>> /\ batch' = queue /\ pc = "update" /\ pc' \in {"viewers", "flush"}
        /\ UNCHANGED <<emuPaused, mode, flushed, forceRefresh, lastPaused, modeExcused>>
    BY <1>3 DEF TakeQueue, QueueInv, takeKeeps, emuVars
  <2>2. \A c : ~Contains(batch, c)
    BY <2>1 DEF Contains
  <2>3. UNCHANGED <<Shown, ModeAgrees, Settles>>
    BY <1>1, <2>1 DEF Shown, ModeAgrees, Settles, ModeOf
  <2>4. QED
    BY <1>1, <2>1, <2>2, <2>3 DEF ModeInv, PollComes, Waits
<1>4. CASE FlushWorks
  <2>1. /\ pc = "flush" /\ batch # <<>> /\ batch' = Tail(batch) /\ queue' = queue
        /\ pc' = (IF batch' = <<>> THEN "viewers" ELSE "flush") /\ flushed' = (batch' = <<>>)
        /\ UNCHANGED <<mode, forceRefresh, lastPaused>> /\ Execute(Head(batch))
    BY <1>4 DEF FlushWorks, NextCommand, QueueInv
  <2>0. PollComes' /\ pc' \in {"viewers", "flush"}
    BY <2>1 DEF PollComes
  <2>2. modeExcused => modeExcused'
    BY <2>1 DEF Execute, Becomes, Replaced
  <2>3. ModeAgrees => ModeAgrees'
    BY <1>1, <2>1, <2>2 DEF ModeAgrees, Shown, ModeOf
  <2>4. Settles' = Settles
    BY <2>1 DEF Settles
  <2>5. CASE emuPaused # paused
    <3>1. emuPaused' # paused' \/ modeExcused'
      BY <1>1, <2>1, <2>5, ExecuteKeeps
    <3>2. QED
      BY <2>0, <2>1, <3>1 DEF ModeInv, ModeAgrees
  <2>6. CASE ~ModeAgrees /\ Head(batch) = Settles
    <3>1. CASE paused
      <4>1. Head(batch) = "CONTINUE"
        BY <2>6, <3>1 DEF ModeAgrees, Settles, ModeOf, ControlOK
      <4>2. emuPaused' = FALSE
        BY <2>1, <4>1 DEF Execute, Becomes
      <4>3. QED
        BY <1>1, <2>0, <2>1, <3>1, <4>2 DEF ModeInv
    <3>2. CASE ~paused
      <4>1. Head(batch) = "PAUSE"
        BY <2>6, <3>2 DEF ModeAgrees, Settles, ModeOf, ControlOK
      <4>2. emuPaused' = TRUE
        BY <2>1, <4>1 DEF Execute, Becomes
      <4>3. QED
        BY <1>1, <2>0, <2>1, <3>2, <4>2 DEF ModeInv
    <3>3. QED
      BY <3>1, <3>2
  <2>7. CASE Waits(Settles) /\ Head(batch) # Settles
    BY <2>1, <2>4, <2>7, ContainsTail DEF Waits, SeqsOK, ModeInv, PollComes
  <2>8. QED
    BY <2>1, <2>3, <2>5, <2>6, <2>7, ContainsTail DEF ModeInv, PollComes
<1>5. CASE FlushFails
  BY <1>5 DEF FlushFails, NextCommand, CommandFails, ModeInv, PollComes, ModeAgrees
<1>6. CASE Viewers
  BY <1>1, <1>6 DEF Viewers, CallWorks, CallFails, ConnectionFails, emuVars, ModeInv,
    PollComes, ModeAgrees, Waits, Settles, Shown, ModeOf
<1>7. CASE Modes
  <2>1. pc' = "input" /\ lastPaused' = Shown' /\ UNCHANGED <<emuPaused, queue, batch>>
    BY <1>1, <1>7 DEF Modes, Shown, emuVars
  <2>2. CASE lastPaused # Shown
    BY <1>1, <1>7, <2>1, <2>2 DEF Modes, Shown, ModeInv, PollComes, ModeAgrees, ModeOf
  <2>3. CASE lastPaused = Shown
    <3>1. UNCHANGED <<mode, modeExcused, lastPaused>> /\ pc = "modes"
          /\ forceRefresh' = (forceRefresh \/ flushed)
      BY <1>7, <2>3 DEF Modes, Shown, RequestRefresh
    <3>2. UNCHANGED <<ModeAgrees, Waits(Settles)>>
      BY <1>1, <2>1, <3>1 DEF ModeAgrees, Waits, Settles, Shown, ModeOf
    <3>3. QED
      BY <1>1, <2>1, <3>1, <3>2 DEF ModeInv, PollComes
  <2>4. QED
    BY <2>2, <2>3
<1>8. QED
  BY <1>2, <1>3, <1>4, <1>5, <1>6, <1>7 DEF Update

\* The emulator changes by itself.
LEMMA ModeEmulator == ASSUME Typed, ModeInv, Emulator PROVE ModeInv'
<1> USE DEF Typed
<1>1. UNCHANGED <<paused, rpcError, mode, queue, batch, flushed, forceRefresh, lastPaused, pc>>
  BY EmulatorKeeps DEF loopVars, stVars, keyVars, tickVars, flushVars
<1>2. PICK p \in BOOLEAN : Becomes(p)
  BY DEF Emulator, EmulatorChanges, EmulatorRestarts, LateExecution, Execute, Replaced, EmuFlags
<1>3. modeExcused => modeExcused'
  BY <1>2 DEF Becomes
<1>4. (ModeAgrees => ModeAgrees') /\ UNCHANGED <<Shown, Waits(Settles)>>
  BY <1>1, <1>3 DEF ModeAgrees, Waits, Settles, Shown, ModeOf
<1>5. emuPaused # paused => emuPaused' # paused' \/ modeExcused'
  BY <1>1, <1>2, BecomesKeeps
<1>6. modeExcused' => ModeAgrees'
  BY DEF ModeAgrees
<1>7. QED
  BY <1>1, <1>4, <1>5, <1>6 DEF ModeInv, PollComes

\* Every step keeps what the mode relies on.
LEMMA ModeStep == ASSUME Typed, PollInv, QueueInv, ModeInv, [Next]_vars PROVE ModeInv'
<1>1. CASE IntervalElapses \/ Finished \/ UNCHANGED vars
  BY <1>1, IdleKeeps DEF emuVars, loopVars, stVars, keyVars, tickVars, flushVars, ModeInv,
    PollComes, ModeAgrees, Waits, Settles, Shown, ModeOf
<1>2. QED
  BY <1>1, ModeInput, ModeTick, ModeUpdate, ModeEmulator DEF Next

(***************************************************************************)
(* The theorems.                                                           *)
(***************************************************************************)

\* The invariant holds when MonitorRun has set up the loop.
LEMMA InitIInv == Init => IInv
<1>1. SUFFICES ASSUME Init PROVE IInv
  OBVIOUS
<1>2. Typed
  <2>1. EmuFlags /\ ShownFlags /\ KeyFlags /\ TickFlags /\ LoopFlags /\ HistoryFlags
    BY <1>1 DEF Init, EmuFlags, ShownFlags, KeyFlags, TickFlags, LoopFlags, HistoryFlags
  <2>2. ControlOK /\ NumbersOK /\ SeqsOK
    BY <1>1, BoundsAssumption, EmptySeq DEF Init, ControlOK, NumbersOK, SeqsOK
  <2>3. QED
    BY <2>1, <2>2 DEF Typed
<1>3. QueueInv
  BY <1>1, EmptySeq, ConcatEmptySeq DEF Init, QueueInv, CommandsInOrder
<1>4. CountInv
  BY <1>1, EmptySeq, FS_EmptySet DEF Init, CountInv
<1>5. QuitInv /\ FreezeInv /\ CpuInv /\ PollInv /\ CapsInv
  BY <1>1 DEF Init, QuitInv, FreezeInv, CpuInv, PollInv, CapsInv
<1>6. ModeInv
  BY <1>1 DEF Init, ModeInv, PollComes, ModeAgrees, ModeOf
<1>7. QED
  BY <1>2, <1>3, <1>4, <1>5, <1>6 DEF IInv

\* Every step of the loop, of the emulator and of the clock keeps it.
LEMMA NextIInv == IInv /\ [Next]_vars => IInv'
<1>1. SUFFICES ASSUME IInv, [Next]_vars PROVE IInv'
  OBVIOUS
<1>2. Typed' /\ QueueInv' /\ CountInv'
  BY <1>1, TypedStep, QueueStep, CountStep DEF IInv, Typed
<1>3. QuitInv' /\ FreezeInv'
  BY <1>1, QuitStep, FreezeStep DEF IInv, Typed
<1>4. CpuInv' /\ PollInv' /\ CapsInv'
  BY <1>1, CpuStep, PollStep, CapsStep DEF IInv, Typed
<1>5. ModeInv'
  BY <1>1, ModeStep DEF IInv
<1>6. QED
  BY <1>2, <1>3, <1>4, <1>5 DEF IInv

\* The invariant of App.Loop.
THEOREM Invariance == Spec => []IInv
BY InitIInv, NextIInv, PTL DEF Spec

\* The commands that were called are among those given, so no more than the keys.
LEMMA SequenceBounds ==
  ASSUME Typed, QueueInv
  PROVE /\ Len(sent) <= MaxKeys /\ Len(batch) <= MaxKeys /\ Len(queue) <= MaxKeys
        /\ Len(dispatched) <= MaxKeys
<1>1. Len(sent) \in Nat /\ Len(batch) \in Nat /\ Len(queue) \in Nat /\ Len(dispatched) \in Nat
  BY LenProperties DEF Typed, SeqsOK
<1>2. Len(dispatched) = Len(sent) + Len(batch) + Len(queue)
  BY ConcatProperties DEF Typed, SeqsOK, QueueInv, CommandsInOrder
<1>3. Len(dispatched) <= MaxKeys
  BY <1>1, BoundsAssumption DEF QueueInv, Typed, NumbersOK
<1>4. QED
  BY <1>1, <1>2, <1>3, BoundsAssumption

\* Type correctness: the emulator's states are counted within Vers, and the queues of the
\* dispatcher hold no more than was typed.
THEOREM TypeCorrect == Spec => []TypeOK
<1>1. ASSUME IInv PROVE TypeOK
  <2>1. Typed /\ QueueInv /\ CountInv /\ CpuInv
    BY <1>1 DEF IInv
  <2>2. {queue, batch, dispatched, sent} \subseteq SeqOf(Commands, MaxKeys)
    BY <2>1, SequenceBounds, IsSeqOf, BoundsAssumption DEF Typed, SeqsOK
  <2>3. {ver, statusVer, cpu} \subseteq Vers
    <3>1. Len(sent) \in Nat /\ Len(sent) <= MaxKeys /\ Cardinality(late) \in Nat
      BY <2>1, SequenceBounds, LenProperties, LateCardinality DEF Typed, SeqsOK
    <3>2. ver <= 1 + MaxVer + MaxRestarts + MaxKeys
      BY <2>1, <3>1, BoundsAssumption DEF Typed, NumbersOK, CountInv
    <3>3. QED
      BY <2>1, <3>2, BoundsAssumption DEF Typed, NumbersOK, CpuInv, Vers
  <2>4. QED
    BY <2>1, <2>2, <2>3 DEF TypeOK, Typed, EmuFlags, ShownFlags, KeyFlags, TickFlags, LoopFlags,
      HistoryFlags, ControlOK, NumbersOK
<1>2. QED
  BY <1>1, Invariance, PTL

\* No command the user gave is lost, repeated or overtaken, whatever calls fail.
THEOREM CommandsStayInOrder == Spec => []CommandsInOrder
<1>1. IInv => CommandsInOrder
  BY DEF IInv, QueueInv
<1>2. QED
  BY <1>1, Invariance, PTL

\* The registers shown between iterations are not older than the STATUS shown with them.
THEOREM CpuIsCurrent == Spec => []CpuMatchesStatus
<1>1. IInv => CpuMatchesStatus
  BY DEF IInv, CpuInv, CpuMatchesStatus
<1>2. QED
  BY <1>1, Invariance, PTL

\* When nothing is under way the mode is that of the emulator as it was polled.
THEOREM ModeIsTheEmulators == Spec => []ModeFollowsEmulator
<1>1. ASSUME IInv PROVE ModeFollowsEmulator
  <2>1. SUFFICES ASSUME pc = "input", queue = <<>>, ~forceRefresh, ~rpcError,
                        mode # "shutdown", lastPaused # "none"
                 PROVE  mode = ModeOf(paused) \/ modeExcused
    BY DEF ModeFollowsEmulator
  <2>2. pc \in {"input", "tick", "status"} /\ pc # "flush" /\ pc # "status" /\ pc # "modes"
    BY <2>1
  <2>3. batch = <<>> /\ lastPaused = Shown
    BY <1>1, <2>1, <2>2 DEF IInv, QueueInv, ModeInv, PollComes
  <2>4. ~Waits(Settles)
    BY <2>1, <2>3 DEF Waits, Contains
  <2>5. QED
    BY <1>1, <2>1, <2>2, <2>3, <2>4 DEF IInv, ModeInv, ModeAgrees, PollComes
<1>2. QED
  BY <1>1, Invariance, PTL

\* On a connection that stands, without an error shown, the breakpoints window is there for
\* an emulator with breakpoints only, unless a failure went unnoticed.
THEOREM CapsAreTheEmulators == Spec => []CapsFollowEmulator
<1>1. IInv => CapsFollowEmulator
  BY DEF IInv, CapsInv, CapsFollowEmulator
<1>2. QED
  BY <1>1, Invariance, PTL

\* After 'q' no command is sent: the loop looks at stopLoop before it takes the queue.
THEOREM QuitIsSilent == Spec => QuitSendsNothing
<1>1. ASSUME IInv, [Next]_vars, stopLoop PROVE UNCHANGED sent
  <2>1. QuitInv
    BY <1>1 DEF IInv
  <2>2. CASE FlushWorks \/ FlushFails
    BY <1>1, <2>1, <2>2 DEF QuitInv, FlushWorks, FlushFails, NextCommand
  <2>3. CASE Stop \/ TakeQueue \/ Viewers \/ Modes
    BY <2>3 DEF Stop, TakeQueue, Viewers, Modes, takeKeeps
  <2>4. CASE ~Update
    BY <1>1, <2>4, InputKeeps, TickKeeps, EmulatorKeeps, IdleKeeps
      DEF Next, tickKeeps, loopVars, flushVars
  <2>5. QED
    BY <2>2, <2>3, <2>4 DEF Update
<1>2. IInv /\ [Next]_vars => [stopLoop => UNCHANGED sent]_vars
  BY <1>1
<1>3. QED
  BY <1>2, Invariance, PTL DEF Spec, QuitSendsNothing

\* Nothing on a frozen screen changes: no poll begins or ends under it.
THEOREM FreezeIsStill == Spec => FrozenShowsNothingNew
<1>1. ASSUME IInv, [Next]_vars, frozen PROVE UNCHANGED stVars
  <2>1. pc \in {"input", "done"}
    BY <1>1 DEF IInv, FreezeInv
  <2>2. ~Tick
    BY <2>1 DEF Tick, TickNotDue, TickDue, StatusWorks, StatusFails, CPUWorks, CPUFails,
      MemoryRead, CapsWork, CapsFail
  <2>3. QED
    BY <1>1, <2>2, InputKeeps, UpdateKeeps, EmulatorKeeps, IdleKeeps
      DEF Next, updateKeeps, loopVars, stVars
<1>2. IInv /\ [Next]_vars => [frozen => UNCHANGED stVars]_vars
  BY <1>1
<1>3. QED
  BY <1>2, Invariance, PTL DEF Spec, FrozenShowsNothingNew

=============================================================================
