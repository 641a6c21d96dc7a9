----------------------------- MODULE MonitorLoop -----------------------------
(***************************************************************************)
(* The application loop of the Go monitor: App.Loop (monitor/app.go) with  *)
(* the StatusUpdater, the ActionDispatcher and the AppModeUpdater, against *)
(* an emulator that runs, stops at breakpoints, serves other clients and   *)
(* restarts between any two calls.                                         *)
(*                                                                         *)
(* One goroutine goes through the iterations.  A step ends where a call    *)
(* does: what the loop read before it may be out of date after it.  ver    *)
(* numbers the states of the emulator; a STATUS reply tells it apart from  *)
(* the one before by emu_ms, reset_ms, crashed and state_seq.              *)
(***************************************************************************)
EXTENDS Naturals, Sequences, SequencesExt

CONSTANTS
    MaxKeys,      \* bound: keys pressed in a behaviour
    MaxVer,       \* bound: changes of the emulator that are not the monitor's
    MaxFails,     \* bound: calls that fail though the emulator is there
    MaxRestarts   \* bound: restarts of the emulator that are not the monitor's

ASSUME BoundsAssumption == {MaxKeys, MaxVer, MaxFails, MaxRestarts} \subseteq Nat

VARIABLES
    emuPaused, ver, hasBp,     \* the emulator: paused, its state, built with breakpoints
    connected,                 \* the client's connection is one to this emulator
    late,                      \* commands whose call failed and that may still be executed
    keys, changes, fails, restarts,   \* how much of each bound is used up
    \* AppStateData
    paused, statusVer, cpu, rpcError, mode, frozen, supported,
    \* App.Loop: the call it is at, and whether a key was handled
    pc, hadTick,
    \* StatusUpdater: the poll interval is over, forceRefresh, and its value when Tick
    \* began; the client's last error; capsSynced and lastCapsAttempt
    due, forceRefresh, forced, clientError, caps,
    \* ActionDispatcher: rpcQueue, the part of it being sent, rpcFlushed, stopLoop
    queue, batch, flushed, stopLoop,
    lastPaused,                \* AppModeUpdater
    \* history
    dispatched, sent,          \* commands the user gave, and those that were called
    cpuMissed,                 \* the last attempt to read the CPU failed
    modeExcused,               \* see ModeFollowsEmulator
    unnoticed                  \* a call outside the poll failed since the features were read

emuVars   == <<emuPaused, ver, hasBp, connected, late, fails>>
stVars    == <<paused, statusVer, cpu, rpcError, supported>>
keyVars   == <<keys, mode, frozen, queue, stopLoop, dispatched>>
tickVars  == <<forceRefresh, forced, clientError, caps, cpuMissed>>
flushVars == <<batch, flushed, sent>>
bounds    == <<changes, restarts>>
loopVars  == <<stVars, keyVars, tickVars, flushVars, pc, hadTick, lastPaused, unnoticed>>
vars      == <<emuVars, bounds, loopVars, due, modeExcused>>

Commands == {"PAUSE", "CONTINUE", "STEP", "COLDSTART", "STOP_EMULATOR"}
Vers     == 0 .. MaxVer + MaxRestarts + MaxKeys + 1

TypeOK ==
    /\ {emuPaused, hasBp, connected, paused, rpcError, frozen, supported, hadTick, due,
        forceRefresh, forced, clientError, flushed, stopLoop, cpuMissed, modeExcused, unnoticed} \subseteq BOOLEAN
    /\ {ver, statusVer, cpu} \subseteq Vers
    /\ late \subseteq Commands
    /\ keys \in 0 .. MaxKeys /\ changes \in 0 .. MaxVer
    /\ fails \in 0 .. MaxFails /\ restarts \in 0 .. MaxRestarts
    /\ mode \in {"normal", "debug", "shutdown"}
    /\ pc \in {"input", "tick", "status", "cpu", "mem", "caps", "update", "flush", "viewers",
               "modes", "done"}
    /\ caps \in {"never", "tried", "synced"}
    /\ {queue, batch, dispatched, sent} \subseteq SeqOf(Commands, MaxKeys)
    /\ lastPaused \in {"none", "paused", "running"}

\* MonitorRun has asked for the features once, in vain perhaps.
Init ==
    /\ emuPaused \in BOOLEAN /\ ver = 1 /\ hasBp \in BOOLEAN /\ late = {}
    /\ connected = TRUE
    /\ keys = 0 /\ changes = 0 /\ fails = 0 /\ restarts = 0
    /\ paused = FALSE /\ statusVer = 0 /\ cpu = 0 /\ rpcError = FALSE
    /\ mode = "normal" /\ frozen = FALSE
    /\ supported \in {hasBp, FALSE}
    /\ pc = "input" /\ hadTick = FALSE
    /\ due = TRUE /\ forceRefresh = FALSE /\ forced = FALSE /\ clientError = FALSE
    /\ caps = "never"
    /\ queue = <<>> /\ batch = <<>> /\ flushed = FALSE /\ stopLoop = FALSE
    /\ lastPaused = "none"
    /\ dispatched = <<>> /\ sent = <<>>
    /\ cpuMissed = FALSE /\ modeExcused = FALSE /\ unnoticed = FALSE

(***************************************************************************)
(* The emulator and the clock.                                             *)
(***************************************************************************)

\* The emulator becomes paused or running, what the screen shows it to be perhaps: the
\* monitor will not see then that it has been otherwise.
Becomes(p) ==
    /\ emuPaused' = p
    /\ ver' = ver + 1
    /\ modeExcused' = (modeExcused \/ (p # emuPaused /\ p = paused))

\* Another emulator process answers from now on, another build perhaps.
Replaced ==
    /\ Becomes(FALSE)
    /\ connected' = FALSE
    /\ hasBp' \in BOOLEAN

Execute(c) ==
    IF c = "STOP_EMULATOR" THEN Replaced
    ELSE /\ Becomes(CASE c \in {"PAUSE", "STEP"} -> TRUE
                      [] c = "CONTINUE"          -> FALSE
                      [] OTHER                   -> emuPaused)
         /\ UNCHANGED <<connected, hasBp>>

\* It runs, stops at a breakpoint, or another client steps, stops or continues it.
EmulatorChanges ==
    /\ changes < MaxVer
    /\ changes' = changes + 1
    /\ \E p \in BOOLEAN : Becomes(p)
    /\ UNCHANGED <<hasBp, connected, late, fails, restarts, loopVars, due>>

EmulatorRestarts ==
    /\ restarts < MaxRestarts
    /\ restarts' = restarts + 1
    /\ Replaced
    /\ late' = {}
    /\ UNCHANGED <<fails, changes, loopVars, due>>

LateExecution ==
    /\ \E c \in late : Execute(c) /\ late' = late \ {c}
    /\ UNCHANGED <<fails, bounds, loopVars, due>>

IntervalElapses ==
    /\ ~due
    /\ due' = TRUE
    /\ UNCHANGED <<emuVars, bounds, loopVars, modeExcused>>

\* A call that only reads.  One that fails drops the connection; the next one dials again.
CallWorks == connected /\ UNCHANGED emuVars
ConnectionFails ==
    /\ connected' = TRUE
    /\ \/ ~connected /\ UNCHANGED fails
       \/ connected /\ fails < MaxFails /\ fails' = fails + 1
    /\ UNCHANGED <<emuPaused, ver, hasBp>>
CallFails == ConnectionFails /\ UNCHANGED late

(***************************************************************************)
(* Input: the first part of an iteration.                                  *)
(***************************************************************************)

\* Mutant: the frozen screen is polled.
AfterInput_FrozenGoesOn(had) == pc' = "tick" /\ hadTick' = had

\* What follows the key.  An iteration in which the terminal was resized ends there, and
\* so does every one of a frozen screen; what the key asked for waits.
AfterInput(had) ==
    \/ pc' = "input" /\ UNCHANGED hadTick                          \* resized
    \/ frozen' /\ pc' = "input" /\ UNCHANGED hadTick
    \/ ~frozen' /\ pc' = "tick" /\ hadTick' = had

Pressed ==
    /\ pc = "input"
    /\ keys < MaxKeys
    /\ keys' = keys + 1
    /\ AfterInput(TRUE)
    /\ UNCHANGED <<emuVars, bounds, stVars, tickVars, flushVars, lastPaused, due, unnoticed>>

\* Mutant: the key's callback runs in the layer and again in the globals.
enqueue_Twice(c) == queue' = queue \o <<c, c>> /\ dispatched' = Append(dispatched, c)

enqueue(c) == queue' = Append(queue, c) /\ dispatched' = Append(dispatched, c)

ModeOf(p) == IF p THEN "debug" ELSE "normal"

StepKey ==
    /\ mode # "shutdown"
    /\ enqueue("STEP")
    /\ UNCHANGED <<mode, frozen, stopLoop, modeExcused>>
    /\ Pressed

\* F8: Pause in the NORMAL layer, Continue in the DEBUG layer.  The mode follows at once.
PauseKey ==
    /\ mode = "normal"
    /\ enqueue("PAUSE")
    /\ mode' = "debug"
    /\ UNCHANGED <<frozen, stopLoop, modeExcused>>
    /\ Pressed

ContinueKey ==
    /\ mode = "debug"
    /\ enqueue("CONTINUE")
    /\ mode' = "normal"
    /\ UNCHANGED <<frozen, stopLoop, modeExcused>>
    /\ Pressed

EnterShutdown ==
    /\ mode # "shutdown"
    /\ mode' = "shutdown"
    /\ UNCHANGED <<frozen, stopLoop, queue, dispatched, modeExcused>>
    /\ Pressed

ExitMode == mode' = ModeOf(paused) /\ modeExcused' = FALSE

ExitShutdown ==
    /\ mode = "shutdown"
    /\ ExitMode
    /\ UNCHANGED <<frozen, stopLoop, queue, dispatched>>
    /\ Pressed

ColdStart ==
    /\ mode = "shutdown"
    /\ enqueue("COLDSTART")
    /\ ExitMode
    /\ UNCHANGED <<frozen, stopLoop>>
    /\ Pressed

Terminate ==
    /\ mode = "shutdown"
    /\ enqueue("STOP_EMULATOR")
    /\ ExitMode
    /\ UNCHANGED <<frozen, stopLoop>>
    /\ Pressed

ToggleFreeze ==
    /\ frozen' = ~frozen
    /\ UNCHANGED <<mode, stopLoop, queue, dispatched, modeExcused>>
    /\ Pressed

Quit ==
    /\ stopLoop' = TRUE
    /\ UNCHANGED <<mode, frozen, queue, dispatched, modeExcused>>
    /\ Pressed

\* No key within the input timeout.
NoKey ==
    /\ pc = "input"
    /\ UNCHANGED keyVars
    /\ AfterInput(FALSE)
    /\ UNCHANGED <<emuVars, bounds, stVars, tickVars, flushVars, lastPaused, due, unnoticed,
                   modeExcused>>

\* Ctrl-C, or the context is cancelled.
Interrupt ==
    /\ pc = "input"
    /\ pc' = "done"
    /\ UNCHANGED <<emuVars, bounds, stVars, keyVars, tickVars, flushVars, hadTick, lastPaused,
                   due, unnoticed, modeExcused>>

Input ==
    \/ StepKey \/ PauseKey \/ ContinueKey \/ EnterShutdown \/ ExitShutdown \/ ColdStart
    \/ Terminate \/ ToggleFreeze \/ Quit \/ NoKey \/ Interrupt

(***************************************************************************)
(* StatusUpdater.Tick.                                                     *)
(***************************************************************************)
tickKeeps == <<bounds, keyVars, flushVars, lastPaused, modeExcused>>

TickNotDue ==
    /\ pc = "tick" /\ ~due /\ ~forceRefresh
    /\ pc' = IF hadTick THEN "update" ELSE "input"
    /\ hadTick' = FALSE
    /\ UNCHANGED <<emuVars, stVars, tickVars, tickKeeps, due, unnoticed>>

TickDue ==
    /\ pc = "tick" /\ (due \/ forceRefresh)
    /\ due' = FALSE
    /\ forced' = forceRefresh
    /\ forceRefresh' = FALSE
    /\ hadTick' = FALSE
    /\ pc' = "status"
    /\ UNCHANGED <<emuVars, stVars, clientError, caps, cpuMissed, tickKeeps, unnoticed>>

\* syncRPCError
syncRPCError == rpcError' = clientError'

\* Mutant: once.
NeedsCaps_Once == caps # "synced"

\* The features are asked for again after an error, and until they are known: at most
\* once a second, so perhaps not now.
NeedsCaps == rpcError \/ caps # "synced"
AfterCPU  == NeedsCaps /\ pc' = "caps" /\ UNCHANGED rpcError
EndTick ==
    /\ ~NeedsCaps \/ (~rpcError /\ caps = "tried")
    /\ syncRPCError
    /\ pc' = "update"

\* mutants: the times and state_seq are not compared; the CPU is read after a command only.
Changed_PausedOnly == paused # emuPaused
ReadsCPU_WhenForced == forced

\* A reply unlike the one before it is stored.
Changed  == statusVer # ver
ReadsCPU == Changed \/ forced

StatusWorks ==
    /\ pc = "status"
    /\ CallWorks
    /\ IF Changed THEN paused' = emuPaused /\ statusVer' = ver
                  ELSE UNCHANGED <<paused, statusVer>>
    /\ clientError' = FALSE
    /\ IF ReadsCPU THEN pc' = "cpu" /\ UNCHANGED rpcError ELSE AfterCPU \/ EndTick
    /\ forced' = FALSE
    /\ UNCHANGED <<cpu, supported, forceRefresh, caps, cpuMissed, tickKeeps, hadTick, due,
                   unnoticed>>

StatusFails ==
    /\ pc = "status"
    /\ CallFails
    /\ clientError' = TRUE
    /\ syncRPCError
    /\ pc' = "update"
    /\ forced' = FALSE
    /\ UNCHANGED <<paused, statusVer, cpu, supported, forceRefresh, caps, cpuMissed, tickKeeps,
                   hadTick, due, unnoticed>>

cpuKeeps == <<paused, statusVer, supported, forceRefresh, forced, caps, tickKeeps, hadTick,
              due, unnoticed>>

\* updateCPU: CPU_STATE, and the memory at PC, which may be missing on the screen.
CPUWorks ==
    /\ pc = "cpu"
    /\ CallWorks
    /\ cpu' = ver /\ cpuMissed' = FALSE
    /\ clientError' = FALSE
    /\ pc' = "mem"
    /\ UNCHANGED <<rpcError, cpuKeeps>>

CPUFails ==
    /\ pc = "cpu"
    /\ CallFails
    /\ cpuMissed' = TRUE
    /\ clientError' = TRUE
    /\ AfterCPU \/ EndTick
    /\ UNCHANGED <<cpu, cpuKeeps>>

MemoryRead ==
    /\ pc = "mem"
    /\ \/ CallWorks /\ clientError' = FALSE
       \/ CallFails /\ clientError' = TRUE
    /\ AfterCPU \/ EndTick
    /\ UNCHANGED <<cpu, cpuMissed, cpuKeeps>>

capsKeep == <<paused, statusVer, cpu, forceRefresh, forced, cpuMissed, tickKeeps, hadTick,
              due>>

\* updateCapabilities
CapsWork ==
    /\ pc = "caps"
    /\ CallWorks
    /\ supported' = hasBp
    /\ caps' = "synced" /\ unnoticed' = FALSE
    /\ clientError' = FALSE
    /\ syncRPCError
    /\ pc' = "update"
    /\ UNCHANGED capsKeep

CapsFail ==
    /\ pc = "caps"
    /\ CallFails
    /\ caps' = IF caps = "synced" THEN caps ELSE "tried"
    /\ clientError' = TRUE
    /\ syncRPCError
    /\ pc' = "update"
    /\ UNCHANGED <<supported, unnoticed, capsKeep>>

Tick ==
    \/ TickNotDue \/ TickDue \/ StatusWorks \/ StatusFails \/ CPUWorks \/ CPUFails
    \/ MemoryRead \/ CapsWork \/ CapsFail

(***************************************************************************)
(* App.updateState: the dispatcher, the viewers, the mode; then the        *)
(* request for another STATUS.                                             *)
(***************************************************************************)
updateKeeps == <<bounds, paused, statusVer, cpu, rpcError, supported, keys, frozen, stopLoop,
                 dispatched, forced, caps, cpuMissed, hadTick, due>>

takeKeeps == <<emuVars, flushed, sent, mode, forceRefresh, clientError, lastPaused, unnoticed,
               modeExcused, updateKeeps>>

\* Mutant: the empty queue is looked at before stopLoop.
Stop_WithCommands ==
    /\ pc = "update" /\ stopLoop
    /\ pc' = IF queue = <<>> THEN "viewers" ELSE "done"
    /\ UNCHANGED <<queue, batch, takeKeeps>>

\* The loop is left with what is in the queue.
Stop ==
    /\ pc = "update" /\ stopLoop
    /\ pc' = "done"
    /\ UNCHANGED <<queue, batch, takeKeeps>>

\* Mutant: stopLoop is looked at after the queue.
TakeQueue_WhileStopping ==
    /\ pc = "update"
    /\ batch' = queue /\ queue' = <<>>
    /\ pc' = IF queue = <<>> THEN "viewers" ELSE "flush"
    /\ UNCHANGED takeKeeps

TakeQueue ==
    /\ pc = "update" /\ ~stopLoop
    /\ batch' = queue /\ queue' = <<>>
    /\ pc' = IF queue = <<>> THEN "viewers" ELSE "flush"
    /\ UNCHANGED takeKeeps

\* The first of the batch is called; what is left of it after that.
NextCommand(rest) ==
    /\ pc = "flush"
    /\ sent' = Append(sent, Head(batch))
    /\ batch' = rest
    /\ flushed' = (rest = <<>>)
    /\ pc' = IF rest = <<>> THEN "viewers" ELSE "flush"
    /\ UNCHANGED <<queue, mode, forceRefresh, lastPaused, updateKeeps>>

FlushWorks ==
    /\ NextCommand(Tail(batch))
    /\ connected /\ Execute(Head(batch))
    /\ clientError' = FALSE
    /\ UNCHANGED <<late, fails, unnoticed>>

CommandFails ==
    /\ ConnectionFails
    /\ \/ UNCHANGED late
       \/ connected /\ late' = late \cup {Head(batch)}
    /\ clientError' = TRUE
    /\ unnoticed' = TRUE /\ modeExcused' = TRUE

\* Mutant: Update returns with the error.
FlushFails_DropsTheRest == NextCommand(<<>>) /\ CommandFails

\* The error is dropped, and the next command goes out on a connection of its own.
FlushFails == NextCommand(Tail(batch)) /\ CommandFails

\* The calls of the viewers, each of which drops its error.
Viewers ==
    /\ pc = "viewers"
    /\ pc' = "modes"
    /\ \/ CallWorks /\ clientError' = FALSE /\ UNCHANGED unnoticed
       \/ CallFails /\ clientError' = TRUE /\ unnoticed' = TRUE
       \/ UNCHANGED <<emuVars, clientError, unnoticed>>            \* nothing to ask for
    /\ UNCHANGED <<queue, batch, flushed, sent, mode, forceRefresh, lastPaused, modeExcused,
                   updateKeeps>>

\* Mutant: no STATUS is asked for after a flush.
RequestRefresh_Lost == UNCHANGED forceRefresh

\* TakeRPCFlushed and RequestRefresh
RequestRefresh == forceRefresh' = (forceRefresh \/ flushed)

\* AppModeUpdater.Update; then the iteration ends.
Modes ==
    /\ pc = "modes"
    /\ IF lastPaused # (IF paused THEN "paused" ELSE "running")
       THEN /\ lastPaused' = IF paused THEN "paused" ELSE "running"
            /\ mode' = IF mode = "shutdown" THEN mode ELSE ModeOf(paused)
            /\ modeExcused' = FALSE
       ELSE UNCHANGED <<lastPaused, mode, modeExcused>>
    /\ RequestRefresh /\ flushed' = FALSE
    /\ pc' = "input"
    /\ UNCHANGED <<emuVars, queue, batch, sent, clientError, unnoticed, updateKeeps>>

Update == Stop \/ TakeQueue \/ FlushWorks \/ FlushFails \/ Viewers \/ Modes

Finished == pc = "done" /\ UNCHANGED vars

Emulator == EmulatorChanges \/ EmulatorRestarts \/ LateExecution

Next == Input \/ Tick \/ Update \/ Emulator \/ IntervalElapses \/ Finished

Spec == Init /\ [][Next]_vars

\* The loop's goroutine is scheduled, its calls return, the clock runs.  No key need ever
\* be pressed, and the emulator need not change.
FairSpec ==
    /\ Spec
    /\ WF_vars(NoKey /\ (frozen \/ pc' = "tick"))
    /\ WF_vars(Tick)
    /\ WF_vars(Update)
    /\ WF_vars(IntervalElapses)

(***************************************************************************)
(* Properties.                                                             *)
(***************************************************************************)

\* The emulator is given the user's commands, each once and in the order of the keys: none
\* is lost to a failing call, a resize, a freeze or a key pressed while others are sent.
CommandsInOrder == sent \o batch \o queue = dispatched

\* After 'q' no command of the user reaches the emulator any more, those included that
\* were waiting in rpcQueue.
QuitSendsNothing == [][stopLoop => UNCHANGED sent]_vars

\* What a frozen screen shows stays: no poll runs under it.
FrozenShowsNothingNew == [][frozen => UNCHANGED stVars]_vars

\* Between iterations the registers on the screen are never from before the STATUS they
\* are shown with, unless CPU_STATE failed.
CpuMatchesStatus == pc = "input" => cpu >= statusVer \/ cpuMissed

\* When nothing is under way, the mode is the one of the emulator as it was last polled:
\* the guess ActionPause and ActionContinue make about a command still to be sent has been
\* confirmed or corrected.  Not when the call failed, and not when the emulator stopped
\* and went on, or the reverse, between two polls: AppModeUpdater sees no change then.
ModeFollowsEmulator ==
    /\ pc = "input" /\ queue = <<>> /\ ~forceRefresh /\ ~rpcError
    /\ mode # "shutdown" /\ lastPaused # "none"
    => mode = ModeOf(paused) \/ modeExcused

\* Between iterations, on a connection that stands and without an error on the screen, the
\* breakpoints window is there for an emulator with breakpoints only.  A failure that a
\* viewer or the dispatcher met first is one the poll never hears of.
CapsFollowEmulator ==
    pc = "input" /\ connected /\ ~rpcError /\ caps = "synced"
    => supported = hasBp \/ unnoticed

\* A loop asked to quit ends, whatever fails, unless the screen stays frozen.
QuitEnds == []<>~frozen => (stopLoop ~> pc = "done")

\* In the end the screen shows the state the emulator is in.
ShowsEmulator ==
    []<>~frozen => <>[](pc = "done" \/ (statusVer = ver /\ paused = emuPaused /\ ~rpcError))

=============================================================================
