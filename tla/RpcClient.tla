------------------------------ MODULE RpcClient ------------------------------
(***************************************************************************)
(* The Go client of the remote-monitor protocol,                           *)
(* go800mon/internal/rpc/client.go: goroutines that share one Client, its  *)
(* mutex, its lazily opened connection and the BUILD_FEATURES handshake    *)
(* that every new connection starts with.                                  *)
(*                                                                         *)
(* A blocking read or write ends in one of three ways: the bytes are       *)
(* there, the 500 ms deadline passes, the connection fails.  The last two  *)
(* are the same to the code and are one action here, possible at any       *)
(* moment, whether or not the reply is on its way or has arrived already.  *)
(***************************************************************************)
EXTENDS RpcServer

CONSTANTS
    Callers,     \* the goroutines that use the client
    NoCaller

ASSUME CallersAssumption == NoCaller \notin Callers

VARIABLES
    owner,      \* the goroutine that holds Client.mu
    pc,         \* where each goroutine stands
    calls,      \* calls made so far; it numbers them
    callId,     \* the call each goroutine makes, or made last
    cmd,        \* the command of that call
    head,       \* the reply header the holder of mu has just read
    conns,      \* connections opened so far; it numbers them
    lastError,  \* Client.lastError
    capsOf,     \* Client.configCaps: the connection whose reply it is, or NoConn
    result      \* what each goroutine's last call returned

clientVars == <<owner, pc, calls, callId, cmd, head, conns, lastError, capsOf, result>>
vars == <<serverVars, conn, clientVars>>

NoHead   == [id |-> 0, part |-> "none", status |-> "ok", more |-> FALSE]
NoResult == [kind |-> "none", id |-> 0, on |-> NoConn]

Results  == [kind : {"none", "ok", "err", "fail"}, id : 0 .. MaxCalls,
             on : Conns \cup {NoConn}]

ConnStates == {"hsWrite", "hsHdr", "hsData", "write", "hdr", "data"}
Locked     == {"dial"} \cup ConnStates
PcStates   == {"idle", "lock", "caps"} \cup Locked

TypeOK ==
    /\ ServerTypeOK
    /\ owner \in Callers \cup {NoCaller}
    /\ pc \in [Callers -> PcStates]
    /\ calls \in 0 .. MaxCalls
    /\ callId \in [Callers -> 0 .. MaxCalls]
    /\ cmd \in [Callers -> Commands]
    /\ head \in Chunk \cup {NoHead}
    /\ conns \in 0 .. MaxConns
    /\ lastError \in {"nil", "dial", "io", "command"}
    /\ capsOf \in Conns \cup {NoConn}
    /\ result \in [Callers -> Results]

Init ==
    /\ ServerInit
    /\ owner = NoCaller
    /\ pc = [p \in Callers |-> "idle"]
    /\ calls = 0
    /\ callId = [p \in Callers |-> 0]
    /\ cmd = [p \in Callers |-> "STEP"]
    /\ head = NoHead
    /\ conns = 0
    /\ lastError = "nil"
    /\ capsOf = NoConn
    /\ result = [p \in Callers |-> NoResult]

\* Mutant: the features survive the connection that reported them.
Disconnect_KeepsCaps ==
    /\ conn' = NoConn
    /\ stream' = <<>>
    /\ UNCHANGED capsOf

(***************************************************************************)
(* Client.disconnectLocked: the connection goes, and the features with it. *)
(***************************************************************************)
Disconnect ==
    /\ conn' = NoConn
    /\ stream' = <<>>
    /\ capsOf' = NoConn

GoTo(p, l) == pc' = [pc EXCEPT ![p] = l]

\* Call returns: the deferred Unlock runs, BuildFeatures still has to store the
\* features of a successful reply.
Return(p, kind, id) ==
    /\ owner' = NoCaller
    /\ head' = NoHead
    /\ result' = [result EXCEPT ![p] = [kind |-> kind, id |-> id, on |-> conn]]
    /\ GoTo(p, IF kind = "ok" /\ cmd[p] = "BUILD_FEATURES" THEN "caps" ELSE "idle")

(***************************************************************************)
(* Actions of a goroutine p.                                               *)
(***************************************************************************)
Start(p) ==
    /\ pc[p] = "idle"
    /\ calls < MaxCalls
    /\ calls' = calls + 1
    /\ callId' = [callId EXCEPT ![p] = calls']
    /\ \E k \in Commands : cmd' = [cmd EXCEPT ![p] = k]
    /\ GoTo(p, "lock")
    /\ UNCHANGED <<serverVars, conn, owner, head, conns, lastError, capsOf, result>>

\* Mutant: Call does not wait for the mutex.
Lock_Free(p) ==
    /\ pc[p] = "lock"
    /\ owner' = p
    /\ GoTo(p, IF conn = NoConn THEN "dial" ELSE "write")
    /\ UNCHANGED <<serverVars, conn, calls, callId, cmd, head, conns, lastError, capsOf, result>>

\* c.mu.Lock() and the test of ensureConnectedLocked.
Lock(p) ==
    /\ pc[p] = "lock"
    /\ owner = NoCaller
    /\ owner' = p
    /\ GoTo(p, IF conn = NoConn THEN "dial" ELSE "write")
    /\ UNCHANGED <<serverVars, conn, calls, callId, cmd, head, conns, lastError, capsOf, result>>

Dial(p) ==
    /\ pc[p] = "dial"
    /\ up
    /\ conns < MaxConns
    /\ conns' = conns + 1
    /\ conn' = conns'
    /\ open' = [open EXCEPT ![conns'] = TRUE]
    /\ stream' = <<>>
    /\ GoTo(p, "hsWrite")
    /\ UNCHANGED <<up, crashes, reqs, done, owner, calls, callId, cmd, head, lastError, capsOf, result>>

DialFails(p) ==
    /\ pc[p] = "dial"
    /\ lastError' = "dial"
    /\ Return(p, "fail", 0)
    /\ UNCHANGED <<serverVars, conn, calls, callId, cmd, conns, capsOf>>

Send(p, id, k) ==
    /\ open[conn]
    /\ reqs' = [reqs EXCEPT ![conn] = Append(@, [id |-> id, cmd |-> k])]
    /\ UNCHANGED <<up, crashes, open, conn, stream, done, owner, calls, callId, cmd,
                   head, conns, lastError, capsOf, result>>

\* readConfigOnConnectLocked sends BUILD_FEATURES.
HandshakeWrite(p) ==
    /\ pc[p] = "hsWrite"
    /\ Send(p, Handshake, "BUILD_FEATURES")
    /\ GoTo(p, "hsHdr")

ReadChunk ==
    /\ stream # <<>>
    /\ stream' = Tail(stream)

\* The features of a successful reply are kept if its data parses, and an error
\* reply or a malformed one leaves none.
HandshakeDone(p, status, data) ==
    /\ capsOf' \in IF status = "ok" /\ data THEN {conn, NoConn} ELSE {NoConn}
    /\ head' = NoHead
    /\ GoTo(p, "write")

HandshakeHeader(p) ==
    /\ pc[p] = "hsHdr"
    /\ ReadChunk
    /\ IF Head(stream).more
       THEN /\ head' = Head(stream)
            /\ GoTo(p, "hsData")
            /\ UNCHANGED capsOf
       ELSE HandshakeDone(p, Head(stream).status, FALSE)
    /\ UNCHANGED <<up, crashes, open, reqs, done, conn, owner, calls, callId, cmd, conns,
                   lastError, result>>

HandshakeData(p) ==
    /\ pc[p] = "hsData"
    /\ ReadChunk
    /\ HandshakeDone(p, head.status, TRUE)
    /\ UNCHANGED <<up, crashes, open, reqs, done, conn, owner, calls, callId, cmd, conns,
                   lastError, result>>

Write(p) ==
    /\ pc[p] = "write"
    /\ Send(p, callId[p], cmd[p])
    /\ GoTo(p, "hdr")

\* Mutant: lastError keeps the status of an error reply, not a CommandError.
Reply_RawStatus(p, status, id) ==
    /\ lastError' = IF status = "ok" THEN "nil" ELSE status
    /\ Return(p, status, id)

\* Mutant: a successful call does not clear the last error.
Reply_KeepsError(p, status, id) ==
    /\ lastError' = IF status = "ok" THEN lastError ELSE "command"
    /\ Return(p, status, id)

\* A complete reply: an error status becomes a CommandError and keeps the
\* connection.
Reply(p, status, id) ==
    /\ lastError' = IF status = "ok" THEN "nil" ELSE "command"
    /\ Return(p, status, id)

\* Mutant: an error reply returns before its text is read.
ReadHeader_LeavesErrorText(p) ==
    /\ pc[p] = "hdr"
    /\ ReadChunk
    /\ IF Head(stream).more /\ Head(stream).status = "ok"
       THEN /\ head' = Head(stream)
            /\ GoTo(p, "data")
            /\ UNCHANGED <<owner, lastError, result>>
       ELSE Reply(p, Head(stream).status, Head(stream).id)
    /\ UNCHANGED <<up, crashes, open, reqs, done, conn, calls, callId, cmd, conns, capsOf>>

ReadHeader(p) ==
    /\ pc[p] = "hdr"
    /\ ReadChunk
    /\ IF Head(stream).more
       THEN /\ head' = Head(stream)
            /\ GoTo(p, "data")
            /\ UNCHANGED <<owner, lastError, result>>
       ELSE Reply(p, Head(stream).status, Head(stream).id)
    /\ UNCHANGED <<up, crashes, open, reqs, done, conn, calls, callId, cmd, conns, capsOf>>

ReadData(p) ==
    /\ pc[p] = "data"
    /\ ReadChunk
    /\ Reply(p, head.status, head.id)
    /\ UNCHANGED <<up, crashes, open, reqs, done, conn, calls, callId, cmd, conns, capsOf>>

\* Mutant: a deadline does not cost the connection.
IoFails_KeepsConnection(p) ==
    /\ pc[p] \in ConnStates
    /\ lastError' = "io"
    /\ Return(p, "fail", 0)
    /\ UNCHANGED <<serverVars, conn, capsOf, calls, callId, cmd, conns>>

\* Mutant: a failed exchange is tried again on a new connection.
IoFails_Retries(p) ==
    /\ pc[p] \in ConnStates
    /\ Disconnect
    /\ lastError' = "io"
    /\ head' = NoHead
    /\ GoTo(p, "dial")
    /\ UNCHANGED <<up, crashes, open, reqs, done, owner, calls, callId, cmd, conns, result>>

\* Mutant: no deadline is set, only a broken connection ends a wait.
IoFails_NoDeadline(p) ==
    /\ pc[p] \in ConnStates
    /\ ~open[conn]
    /\ Disconnect
    /\ lastError' = "io"
    /\ Return(p, "fail", 0)
    /\ UNCHANGED <<up, crashes, open, reqs, done, calls, callId, cmd, conns>>

\* A deadline or an error in the middle of an exchange, the handshake's included:
\* the connection is given up, with whatever is still on it.
IoFails(p) ==
    /\ pc[p] \in ConnStates
    /\ Disconnect
    /\ lastError' = "io"
    /\ Return(p, "fail", 0)
    /\ UNCHANGED <<up, crashes, open, reqs, done, calls, callId, cmd, conns>>

\* BuildFeatures takes the mutex again to store what its call returned, or
\* returns without it when the data does not parse.
StoreCaps(p) ==
    /\ pc[p] = "caps"
    /\ GoTo(p, "idle")
    /\ \/ /\ owner = NoCaller
          /\ capsOf' = result[p].on
       \/ UNCHANGED capsOf
    /\ UNCHANGED <<serverVars, conn, owner, calls, callId, cmd, head, conns, lastError, result>>

\* Client.Close.
Close(p) ==
    /\ pc[p] = "idle"
    /\ owner = NoCaller
    /\ conn # NoConn
    /\ Disconnect
    /\ UNCHANGED <<up, crashes, open, reqs, done, owner, pc, calls, callId, cmd, head,
                   conns, lastError, result>>

Proceed(p) ==
    \/ Dial(p) \/ DialFails(p)
    \/ HandshakeWrite(p) \/ HandshakeHeader(p) \/ HandshakeData(p)
    \/ Write(p) \/ ReadHeader(p) \/ ReadData(p)
    \/ IoFails(p)

Next ==
    \/ ServerNext /\ UNCHANGED clientVars
    \/ \E p \in Callers : Start(p) \/ Lock(p) \/ Proceed(p) \/ StoreCaps(p) \/ Close(p)

Spec == Init /\ [][Next]_vars

(***************************************************************************)
(* Every wait of the holder of the mutex ends by its deadline, and a       *)
(* goroutine that waits for a Go mutex is not starved.  Nothing is asked   *)
(* of the server.                                                          *)
(***************************************************************************)
FairSpec ==
    /\ Spec
    /\ \A p \in Callers : /\ SF_vars(Lock(p))
                          /\ WF_vars(Proceed(p))
                          /\ SF_vars(StoreCaps(p))

-----------------------------------------------------------------------------
(***************************************************************************)
(* Properties.                                                             *)
(***************************************************************************)

\* The goroutine that waits for a reply finds nothing on the connection but the
\* reply to its own request, header first: bytes of an earlier exchange, one that
\* timed out for instance, are never taken for it (client.go:394-415).
RepliesInFrame ==
    \A p \in Callers :
        /\ pc[p] \in {"hsHdr", "hdr"} /\ stream # <<>> =>
              /\ Head(stream).part = "hdr"
              /\ Head(stream).id = IF pc[p] = "hdr" THEN callId[p] ELSE Handshake
        /\ pc[p] \in {"hsData", "data"} /\ stream # <<>> =>
              /\ Head(stream).part = "data"
              /\ Head(stream).id = head.id

\* Between calls, nothing is in flight on the connection that is kept for the
\* next one: no unanswered request and no unread byte.
QuietBetweenCalls ==
    owner = NoCaller /\ conn # NoConn => reqs[conn] = <<>> /\ stream = <<>>

\* No connection ever holds two requests, so the server has no STATUS to coalesce
\* and every reply the client waits for is owed to it.
OneOutstanding == \A c \in Conns : Len(reqs[c]) <= 1

\* The features the client remembers are those its current connection reported,
\* and a client without a connection remembers none (disconnectLocked clears
\* them).  It holds for a client one goroutine uses, as every command of this
\* program does: with two, StoreCaps can run after the other one's disconnect.
CapsOfConnection == capsOf # NoConn => capsOf = conn

\* LastError tells a failed exchange from an error reply: as long as it reports an
\* I/O or dial error, no connection is left for the next call to reuse.
ErrorMatchesConnection ==
    owner = NoCaller /\ lastError \in {"io", "dial"} => conn = NoConn

\* Refinement mapping: a call is pending from Start until Call returns; storing
\* the features afterwards is BuildFeatures' own business.
Service == INSTANCE RpcService WITH
    phase <- [p \in Callers |-> IF pc[p] \in {"idle", "caps"} THEN "idle" ELSE "pending"],
    kind  <- [p \in Callers |-> result[p].kind]

\* The client implements the service: a command is executed at most once per call
\* and a call returns the result of its own execution or fails.
ImplementsService == Service!SvcSpec

\* Every call returns, whatever the emulator does or does not do: reads and writes
\* have a deadline, and no exit path of Call keeps the mutex.
EveryCallReturns == \A p \in Callers : pc[p] # "idle" ~> pc[p] = "idle"
=============================================================================
