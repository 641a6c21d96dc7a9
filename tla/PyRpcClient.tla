----------------------------- MODULE PyRpcClient -----------------------------
(***************************************************************************)
(* The Python client of the same protocol, py800mon/rpc.py and             *)
(* py800mon/socket.py: asyncio tasks that share one RpcClient, its         *)
(* asyncio.Lock and one SocketTransport.                                   *)
(*                                                                         *)
(* It differs from the Go client in what a failing handshake does.         *)
(* _read_config_on_connect swallows every error; a broken connection has   *)
(* been given up by _read_exact before, but after a mere timeout the       *)
(* connection stays, with the reply of BUILD_FEATURES still to come.       *)
(***************************************************************************)
EXTENDS RpcServer

CONSTANTS
    Tasks,     \* the asyncio tasks that make calls
    NoTask

ASSUME TasksAssumption == NoTask \notin Tasks

VARIABLES
    owner,      \* the task that holds _call_lock
    pc,         \* where each task stands
    calls,      \* calls made so far
    callId,     \* the call each task makes, or made last
    cmd,        \* the command of that call
    head,       \* status and presence of data of the header just read
    conns,      \* connections opened so far
    lastError,  \* RpcClient.last_error
    result,     \* what each task's last call returned
    silent      \* history: connections whose handshake was given up on a timeout

clientVars == <<owner, pc, calls, callId, cmd, head, conns, lastError, result, silent>>
vars == <<serverVars, conn, clientVars>>

ConnStates == {"hsWrite", "hsHdr", "hsData", "write", "hdr", "data"}
NoHead   == [status |-> "ok", id |-> 0]
NoResult == [kind |-> "none", id |-> 0, on |-> NoConn]

TypeOK ==
    /\ ServerTypeOK
    /\ owner \in Tasks \cup {NoTask}
    /\ pc \in [Tasks -> {"idle", "lock", "dial"} \cup ConnStates]
    /\ calls \in 0 .. MaxCalls
    /\ callId \in [Tasks -> 0 .. MaxCalls]
    /\ cmd \in [Tasks -> Commands]
    /\ head \in [status : Statuses, id : 0 .. MaxCalls]
    /\ conns \in 0 .. MaxConns
    /\ lastError \in {"None", "dial", "io"}
    /\ result \in [Tasks -> [kind : {"none", "ok", "err", "fail"},
                             id : 0 .. MaxCalls, on : Conns \cup {NoConn}]]
    /\ silent \subseteq Conns

Init ==
    /\ ServerInit
    /\ owner = NoTask
    /\ pc = [t \in Tasks |-> "idle"]
    /\ calls = 0
    /\ callId = [t \in Tasks |-> 0]
    /\ cmd = [t \in Tasks |-> "STEP"]
    /\ head = NoHead
    /\ conns = 0
    /\ lastError = "None"
    /\ result = [t \in Tasks |-> NoResult]
    /\ silent = {}

GoTo(t, l) == pc' = [pc EXCEPT ![t] = l]

Return(t, kind, id) ==
    /\ owner' = NoTask
    /\ head' = NoHead
    /\ result' = [result EXCEPT ![t] = [kind |-> kind, id |-> id, on |-> conn]]
    /\ GoTo(t, "idle")

\* SocketTransport._disconnect.
Disconnect == conn' = NoConn /\ stream' = <<>>

Start(t) ==
    /\ pc[t] = "idle"
    /\ calls < MaxCalls
    /\ calls' = calls + 1
    /\ callId' = [callId EXCEPT ![t] = calls']
    /\ \E k \in Commands : cmd' = [cmd EXCEPT ![t] = k]
    /\ GoTo(t, "lock")
    /\ UNCHANGED <<serverVars, conn, owner, head, conns, lastError, result, silent>>

\* async with self._lock(), then the test of _ensure_connected.
Lock(t) ==
    /\ pc[t] = "lock"
    /\ owner = NoTask
    /\ owner' = t
    /\ GoTo(t, IF conn = NoConn THEN "dial" ELSE "write")
    /\ UNCHANGED <<serverVars, conn, calls, callId, cmd, head, conns, lastError, result, silent>>

Dial(t) ==
    /\ pc[t] = "dial"
    /\ up
    /\ conns < MaxConns
    /\ conns' = conns + 1
    /\ conn' = conns'
    /\ open' = [open EXCEPT ![conns'] = TRUE]
    /\ stream' = <<>>
    /\ GoTo(t, "hsWrite")
    /\ UNCHANGED <<up, crashes, reqs, done, owner, calls, callId, cmd, head, lastError,
                   result, silent>>

DialFails(t) ==
    /\ pc[t] = "dial"
    /\ lastError' = "dial"
    /\ Return(t, "fail", 0)
    /\ UNCHANGED <<serverVars, conn, calls, callId, cmd, conns, silent>>

Send(t, id, k) ==
    /\ open[conn]
    /\ reqs' = [reqs EXCEPT ![conn] = Append(@, [id |-> id, cmd |-> k])]
    /\ UNCHANGED <<up, crashes, open, conn, stream, done, owner, calls, callId, cmd,
                   head, conns, lastError, result, silent>>

HandshakeWrite(t) ==
    /\ pc[t] = "hsWrite"
    /\ Send(t, Handshake, "BUILD_FEATURES")
    /\ GoTo(t, "hsHdr")

\* drain() fails: the error is swallowed and the transport keeps its writer.
HandshakeWriteFails(t) ==
    /\ pc[t] = "hsWrite"
    /\ ~open[conn]
    /\ GoTo(t, "write")
    /\ UNCHANGED <<serverVars, conn, owner, calls, callId, cmd, head, conns, lastError,
                   result, silent>>

ReadChunk ==
    /\ stream # <<>>
    /\ stream' = Tail(stream)

\* The three bytes a read takes for a header: a header, or the beginning of data
\* that was left behind, which can say anything.
HeaderRead ==
    IF Head(stream).part = "hdr" THEN {[status |-> Head(stream).status, more |-> Head(stream).more]}
                                 ELSE [status : Statuses, more : BOOLEAN]

HandshakeHeader(t) ==
    /\ pc[t] = "hsHdr"
    /\ ReadChunk
    /\ GoTo(t, IF Head(stream).more THEN "hsData" ELSE "write")
    /\ UNCHANGED <<up, crashes, open, reqs, done, conn, owner, calls, callId, cmd, head,
                   conns, lastError, result, silent>>

HandshakeData(t) ==
    /\ pc[t] = "hsData"
    /\ ReadChunk
    /\ GoTo(t, "write")
    /\ UNCHANGED <<up, crashes, open, reqs, done, conn, owner, calls, callId, cmd, head,
                   conns, lastError, result, silent>>

\* "Packet timeout" during the handshake: swallowed, and the connection is kept.
HandshakeTimeout(t) ==
    /\ pc[t] \in {"hsHdr", "hsData"}
    /\ silent' = silent \cup {conn}
    /\ GoTo(t, "write")
    /\ UNCHANGED <<serverVars, conn, owner, calls, callId, cmd, head, conns, lastError, result>>

\* The connection breaks during the handshake: _read_exact disconnects, and send
\* then finds no writer.
HandshakeBroken(t) ==
    /\ pc[t] \in {"hsHdr", "hsData"}
    /\ ~open[conn]
    /\ Disconnect
    /\ lastError' = "io"
    /\ Return(t, "fail", 0)
    /\ UNCHANGED <<up, crashes, open, reqs, done, calls, callId, cmd, conns, silent>>

Write(t) ==
    /\ pc[t] = "write"
    /\ Send(t, callId[t], cmd[t])
    /\ GoTo(t, "hdr")

\* Mutant: last_error keeps the status of the reply.
Reply_RawStatus(t, status, id) ==
    /\ lastError' = IF status = "ok" THEN "None" ELSE status
    /\ Return(t, status, id)

\* A reply, an error reply included, clears last_error.
Reply(t, status, id) ==
    /\ lastError' = "None"
    /\ Return(t, status, id)

\* Mutant: an error reply returns before its text is read.
ReadHeader_LeavesErrorText(t) ==
    /\ pc[t] = "hdr"
    /\ ReadChunk
    /\ \E h \in HeaderRead :
          IF h.more /\ h.status = "ok"
          THEN /\ head' = [status |-> h.status, id |-> Head(stream).id]
               /\ GoTo(t, "data")
               /\ UNCHANGED <<owner, lastError, result>>
          ELSE Reply(t, h.status, Head(stream).id)
    /\ UNCHANGED <<up, crashes, open, reqs, done, conn, calls, callId, cmd, conns, silent>>

ReadHeader(t) ==
    /\ pc[t] = "hdr"
    /\ ReadChunk
    /\ \E h \in HeaderRead :
          IF h.more
          THEN /\ head' = [status |-> h.status, id |-> Head(stream).id]
               /\ GoTo(t, "data")
               /\ UNCHANGED <<owner, lastError, result>>
          ELSE Reply(t, h.status, Head(stream).id)
    /\ UNCHANGED <<up, crashes, open, reqs, done, conn, calls, callId, cmd, conns, silent>>

ReadData(t) ==
    /\ pc[t] = "data"
    /\ ReadChunk
    /\ Reply(t, head.status, head.id)
    /\ UNCHANGED <<up, crashes, open, reqs, done, conn, calls, callId, cmd, conns, silent>>

\* Mutant: a timeout of the call's own exchange keeps the connection, as that of
\* the handshake does.
IoFails_KeepsConnection(t) ==
    /\ pc[t] \in {"write", "hdr", "data"}
    /\ lastError' = "io"
    /\ Return(t, "fail", 0)
    /\ UNCHANGED <<serverVars, conn, calls, callId, cmd, conns, silent>>

\* Mutant: a failed exchange is tried again on a new connection.
IoFails_Retries(t) ==
    /\ pc[t] \in {"write", "hdr", "data"}
    /\ Disconnect
    /\ lastError' = "io"
    /\ head' = NoHead
    /\ GoTo(t, "dial")
    /\ UNCHANGED <<up, crashes, open, reqs, done, owner, calls, callId, cmd, conns, silent, result>>

\* Any error of send's own exchange, a timeout included, disconnects.
IoFails(t) ==
    /\ pc[t] \in {"write", "hdr", "data"}
    /\ Disconnect
    /\ lastError' = "io"
    /\ Return(t, "fail", 0)
    /\ UNCHANGED <<up, crashes, open, reqs, done, calls, callId, cmd, conns, silent>>

Proceed(t) ==
    \/ Dial(t) \/ DialFails(t)
    \/ HandshakeWrite(t) \/ HandshakeWriteFails(t)
    \/ HandshakeHeader(t) \/ HandshakeData(t) \/ HandshakeTimeout(t) \/ HandshakeBroken(t)
    \/ Write(t) \/ ReadHeader(t) \/ ReadData(t)
    \/ IoFails(t)

Next ==
    \/ ServerNext /\ UNCHANGED clientVars
    \/ \E t \in Tasks : Start(t) \/ Lock(t) \/ Proceed(t)

Spec == Init /\ [][Next]_vars

-----------------------------------------------------------------------------
(***************************************************************************)
(* Properties.                                                             *)
(***************************************************************************)

\* "Model: request/response (no unsolicited server messages)",
\* SOCKET_PROTOCOL.md:14: what a call returns is the reply to its own request.
\* The handshake timeout breaks it (socket.py:156-158 and 181-182): the late
\* reply of BUILD_FEATURES is taken for the reply to the next request, and every
\* later call gets its predecessor's reply.
ReplyAnswersRequest ==
    \A t \in Tasks :
        pc[t] = "idle" /\ result[t].kind \in {"ok", "err"} => result[t].id = callId[t]

\* A call gets a reply that is not its own only on a connection whose handshake
\* was given up on a timeout.
MisreadOnlyAfterSilentHandshake ==
    \A t \in Tasks :
        pc[t] = "idle" /\ result[t].kind \in {"ok", "err"} /\ result[t].id # callId[t]
            => result[t].on \in silent

\* Between calls nothing is in flight on the connection, unless its handshake was
\* given up: a timeout in a call's own exchange leaves nothing behind.
QuietUnlessSilent ==
    owner = NoTask /\ conn \notin silent \cup {NoConn} => reqs[conn] = <<>> /\ stream = <<>>

\* Whatever the client misreads, no command is executed twice for one call.
AtMostOnce == \A i \in Calls : done[i] # "twice"
=============================================================================
