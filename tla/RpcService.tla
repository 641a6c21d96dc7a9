----------------------------- MODULE RpcService -----------------------------
(***************************************************************************)
(* What a remote procedure call promises its caller: the abstract          *)
(* specification RpcClient implements.  A command is executed at most once *)
(* per call.  A call that returns a result returns the result of that      *)
(* execution, so it was executed.  A call that fails says nothing: the     *)
(* command may have been executed, may never be, or may still be executed  *)
(* long after the caller was told of the failure.                          *)
(***************************************************************************)
EXTENDS Naturals

CONSTANTS Callers, MaxCalls

VARIABLES
    phase,   \* phase[p]: whether caller p is inside a call
    calls,   \* calls made so far
    callId,  \* the call each caller makes, or made last
    kind,    \* what each caller's last call returned
    done     \* done[i]: what the execution of call i came to

svcVars == <<phase, calls, callId, kind, done>>

SvcInit ==
    /\ phase = [p \in Callers |-> "idle"]
    /\ calls = 0
    /\ callId = [p \in Callers |-> 0]
    /\ kind = [p \in Callers |-> "none"]
    /\ done = [i \in 1 .. MaxCalls |-> "no"]

Invoke(p) ==
    /\ phase[p] = "idle"
    /\ calls < MaxCalls
    /\ calls' = calls + 1
    /\ phase' = [phase EXCEPT ![p] = "pending"]
    /\ callId' = [callId EXCEPT ![p] = calls + 1]
    /\ UNCHANGED <<kind, done>>

Execute(i, s) ==
    /\ i <= calls
    /\ done[i] = "no"
    /\ done' = [done EXCEPT ![i] = s]
    /\ UNCHANGED <<phase, calls, callId, kind>>

Respond(p, k) ==
    /\ phase[p] = "pending"
    /\ k \in {"ok", "err"} => done[callId[p]] = k
    /\ phase' = [phase EXCEPT ![p] = "idle"]
    /\ kind' = [kind EXCEPT ![p] = k]
    /\ UNCHANGED <<calls, callId, done>>

SvcNext ==
    \/ \E p \in Callers : Invoke(p)
    \/ \E i \in 1 .. MaxCalls, s \in {"ok", "err"} : Execute(i, s)
    \/ \E p \in Callers, k \in {"ok", "err", "fail"} : Respond(p, k)

SvcSpec == SvcInit /\ [][SvcNext]_svcVars
=============================================================================
