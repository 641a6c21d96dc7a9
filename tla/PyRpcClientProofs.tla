-------------------------- MODULE PyRpcClientProofs --------------------------
(***************************************************************************)
(* What holds of the Python client for every number of tasks, calls,       *)
(* connections and crashes: TLAPS proofs of the invariants of PyRpcClient. *)
(***************************************************************************)
EXTENDS PyRpcClient, SequenceTheorems, TLAPS

(***************************************************************************)
(* The inductive invariant.                                                *)
(***************************************************************************)
PcStates == {"idle", "lock", "dial"} \cup ConnStates
Locked == {"dial"} \cup ConnStates
Results == [kind : {"none", "ok", "err", "fail"}, id : 0 .. MaxCalls, on : Conns \cup {NoConn}]
ClientStep(t) == Start(t) \/ Lock(t) \/ Proceed(t)

\* Only the task that holds _call_lock is inside send.
MutexInv == \A t \in Tasks : pc[t] \in Locked <=> owner = t

\* A connection is dialled only when there is none, and the ones that were not yet dialled
\* carry nothing.
ConnInv ==
    /\ \A t \in Tasks : /\ pc[t] = "dial" => conn = NoConn
                        /\ pc[t] \in ConnStates => conn # NoConn
    /\ conn <= conns
    /\ \A c \in Conns : c > conns => reqs[c] = <<>> /\ c \notin silent

\* A task that makes a call has given it a number.
CallInv == \A t \in Tasks : pc[t] # "idle" => callId[t] \in Calls

Typed == TypeOK /\ MutexInv /\ ConnInv /\ CallInv

\* Nothing is in flight.
Clear == reqs[conn] = <<>> /\ stream = <<>>

\* One exchange is under way on the connection: nothing is sent yet, the request waits, or
\* its reply is on its way, whole or broken off after the header.
AwaitsReply(id) ==
    \/ Clear
    \/ stream = <<>> /\ \E r \in Request : r.id = id /\ reqs[conn] = <<r>>
    \/ /\ reqs[conn] = <<>>
       /\ \E h \in Chunk :
             /\ h.part = "hdr" /\ h.id = id
             /\ \/ stream = <<h>>
                \/ /\ h.more
                   /\ \E d \in Chunk : d.part = "data" /\ d.id = id /\ stream = <<h, d>>

\* The header has been read; the data follow, unless the connection breaks.
AwaitsData(id) ==
    /\ reqs[conn] = <<>>
    /\ \/ stream = <<>>
       \/ \E d \in Chunk : d.part = "data" /\ d.id = id /\ stream = <<d>>

\* The call whose reply t waits for.
Expected(t) == IF pc[t] \in {"hdr", "data"} THEN callId[t] ELSE Handshake

\* On a connection whose handshake was not given up, what is in flight belongs to the exchange
\* of the task that holds the lock.
WireInv ==
    conn \notin silent \cup {NoConn} =>
    /\ owner = NoTask => Clear
    /\ \A t \in Tasks :
          /\ pc[t] \in {"hsWrite", "write"} => Clear
          /\ pc[t] \in {"hsHdr", "hdr"} => AwaitsReply(Expected(t))
          /\ pc[t] \in {"hsData", "data"} => AwaitsData(Expected(t))
          /\ pc[t] = "data" => head.id = callId[t]

IInv == Typed /\ WireInv /\ MisreadOnlyAfterSilentHandshake

\* Where a call has not been sent.
Unsent == {"lock", "dial", "hsWrite", "hsHdr", "hsData", "write"}

\* Calls have different numbers.
IdInv ==
    /\ \A t \in Tasks : callId[t] <= calls
    /\ \A t, u \in Tasks : t # u /\ callId[t] = callId[u] => callId[t] = 0

\* A call that waits to be sent, or whose request waits for the server, has not been executed;
\* and no two requests are for the same call.
OnceInv ==
    /\ AtMostOnce
    /\ \A i \in Calls : i > calls => done[i] = "no"
    /\ \A t \in Tasks : pc[t] \in Unsent => done[callId[t]] = "no"
    /\ \A c \in Conns : \A k \in DOMAIN reqs[c] : reqs[c][k].id # Handshake =>
          /\ reqs[c][k].id <= calls /\ done[reqs[c][k].id] = "no"
          /\ \A t \in Tasks : pc[t] \in Unsent => callId[t] # reqs[c][k].id
          /\ \A d \in Conns : \A m \in DOMAIN reqs[d] :
                reqs[d][m].id = reqs[c][k].id => d = c /\ m = k

(***************************************************************************)
(* Steps of the client: types, lock and connection.                        *)
(***************************************************************************)

\* What is read from the stream is a chunk.
LEMMA ChunkType ==
  ASSUME ServerTypeOK, stream # <<>>
  PROVE  /\ Head(stream) \in Chunk
         /\ Tail(stream) \in Seq(Chunk)
         /\ Head(stream).id \in 0 .. MaxCalls
         /\ HeaderRead \subseteq [status : Statuses, more : BOOLEAN]
<1>1. Head(stream) \in Chunk /\ Tail(stream) \in Seq(Chunk)
  BY DEF ServerTypeOK
<1>2. QED
  BY <1>1, BoundsAssumption DEF Chunk, Calls, Handshake, HeaderRead

\* A request that is sent is one.
LEMMA SendType ==
  ASSUME ServerTypeOK, conn # NoConn, NEW t \in Tasks,
         NEW id \in Calls \cup {Handshake}, NEW k \in Commands, Send(t, id, k)
  PROVE  ServerTypeOK'
<1>1. [id |-> id, cmd |-> k] \in Request
  BY DEF Request
<1>2. reqs[conn] \in Seq(Request)
  BY DEF ServerTypeOK
<1>3. Append(reqs[conn], [id |-> id, cmd |-> k]) \in Seq(Request)
  BY <1>1, <1>2
<1>4. QED
  BY <1>3 DEF Send, ServerTypeOK

\* Every variable keeps its type.
LEMMA TypeStep ==
  ASSUME Typed, NEW t \in Tasks, ClientStep(t)
  PROVE  TypeOK'
<1>0. /\ pc \in [Tasks -> {"idle", "lock", "dial"} \cup ConnStates]
      /\ callId \in [Tasks -> 0 .. MaxCalls]
      /\ calls \in Nat /\ MaxCalls \in Nat /\ conns \in Nat /\ MaxConns \in Nat /\ ServerTypeOK
      /\ conn \in Conns \cup {NoConn} /\ conn \in 0 .. MaxConns
  BY BoundsAssumption DEF Typed, TypeOK, ServerTypeOK, Conns, NoConn
<1>1. ServerTypeOK'
  <2>1. CASE HandshakeWrite(t) \/ Write(t)
    BY <1>0, <2>1, SendType DEF HandshakeWrite, Write, Commands, Typed, TypeOK, ConnInv,
      CallInv, ConnStates
  <2>2. CASE HandshakeHeader(t) \/ HandshakeData(t) \/ ReadHeader(t) \/ ReadData(t)
    BY <1>0, <2>2, ChunkType DEF HandshakeHeader, HandshakeData, ReadHeader, ReadData,
      ReadChunk, ServerTypeOK
  <2>3. CASE Dial(t)
    BY <1>0, <2>3, EmptySeq DEF Dial, ServerTypeOK, Conns
  <2>4. CASE HandshakeBroken(t) \/ IoFails(t)
    BY <1>0, <2>4, EmptySeq DEF HandshakeBroken, IoFails, Disconnect, ServerTypeOK
  <2>5. CASE \/ Start(t) \/ Lock(t) \/ DialFails(t)
             \/ HandshakeWriteFails(t) \/ HandshakeTimeout(t)
    BY <1>0, <2>5 DEF Start, Lock, DialFails, HandshakeWriteFails, HandshakeTimeout,
      serverVars, ServerTypeOK
  <2>6. QED
    BY <2>1, <2>2, <2>3, <2>4, <2>5 DEF ClientStep, Proceed
<1>2. /\ owner' \in Tasks \cup {NoTask}
      /\ calls' \in 0 .. MaxCalls
      /\ conns' \in 0 .. MaxConns
      /\ lastError' \in {"None", "dial", "io"}
  BY <1>0 DEF Typed, TypeOK, ClientStep, Proceed, Start, GoTo, Lock, Dial, DialFails, Return,
    HandshakeWrite, Send, HandshakeWriteFails, HandshakeHeader, ReadChunk, HandshakeData,
    HandshakeTimeout, HandshakeBroken, Disconnect, Write, ReadHeader, Reply, ReadData, IoFails
<1>a. pc' \in [Tasks -> {"idle", "lock", "dial"} \cup ConnStates]
  BY <1>0 DEF ConnStates, ClientStep, Proceed, Start, GoTo, Lock, Dial, DialFails, Return,
    HandshakeWrite, Send, HandshakeWriteFails, HandshakeHeader, ReadChunk, HandshakeData,
    HandshakeTimeout, HandshakeBroken, Disconnect, Write, ReadHeader, Reply, ReadData, IoFails
<1>b. callId' \in [Tasks -> 0 .. MaxCalls]
  BY <1>0 DEF ClientStep, Proceed, Start, GoTo, Lock, Dial, DialFails, Return, HandshakeWrite,
    Send, HandshakeWriteFails, HandshakeHeader, ReadChunk, HandshakeData, HandshakeTimeout,
    HandshakeBroken, Disconnect, Write, ReadHeader, Reply, ReadData, IoFails
<1>c. cmd' \in [Tasks -> Commands]
  <2>1. cmd \in [Tasks -> Commands]
    BY DEF Typed, TypeOK
  <2>2. QED
    BY <2>1 DEF ClientStep, Proceed, Start, GoTo, Lock, Dial, DialFails, Return,
      HandshakeWrite, Send, HandshakeWriteFails, HandshakeHeader, ReadChunk, HandshakeData,
      HandshakeTimeout, HandshakeBroken, Disconnect, Write, ReadHeader, Reply, ReadData,
      IoFails
<1>3. silent' \subseteq Conns
  <2>1. silent \subseteq Conns
    BY DEF Typed, TypeOK
  <2>2. CASE HandshakeTimeout(t)
    BY <1>0, <2>1, <2>2 DEF HandshakeTimeout, Typed, ConnInv, ConnStates
  <2>3. HandshakeTimeout(t) \/ silent' = silent
    BY DEF ClientStep, Proceed, Start, GoTo, Lock, Dial, DialFails, Return, HandshakeWrite,
      Send, HandshakeWriteFails, HandshakeHeader, ReadChunk, HandshakeData,
      HandshakeTimeout, HandshakeBroken, Disconnect, Write, ReadHeader, Reply, ReadData,
      IoFails
  <2>4. QED
    BY <2>1, <2>2, <2>3
<1>4. head' \in [status : Statuses, id : 0 .. MaxCalls]
  BY <1>0, ChunkType DEF Typed, TypeOK, NoHead, Statuses, ClientStep, Proceed, Start, GoTo,
    Lock, Dial, DialFails, Return, HandshakeWrite, Send, HandshakeWriteFails, HandshakeHeader,
    ReadChunk, HandshakeData, HandshakeTimeout, HandshakeBroken, Disconnect, Write,
    ReadHeader, Reply, ReadData, IoFails
<1>5. result' \in [Tasks -> [kind : {"none", "ok", "err", "fail"},
                             id : 0 .. MaxCalls, on : Conns \cup {NoConn}]]
  BY <1>0, ChunkType DEF Typed, TypeOK, Statuses, ClientStep, Proceed, Start, GoTo, Lock,
    Dial, DialFails, Return, HandshakeWrite, Send, HandshakeWriteFails, HandshakeHeader,
    ReadChunk, HandshakeData, HandshakeTimeout, HandshakeBroken, Disconnect, Write,
    ReadHeader, Reply, ReadData, IoFails
<1>6. QED
  BY <1>1, <1>2, <1>a, <1>b, <1>c, <1>3, <1>4, <1>5 DEF TypeOK

\* The lock is taken by one task and given back by it.
LEMMA MutexStep ==
  ASSUME TypeOK, MutexInv, NEW t \in Tasks, ClientStep(t)
  PROVE  MutexInv'
<1>0. pc \in [Tasks -> PcStates] /\ NoTask \notin Tasks
  BY TasksAssumption DEF TypeOK, PcStates
<1>1. QED
  BY <1>0 DEF MutexInv, PcStates, Locked, ConnStates, serverVars, ClientStep, Proceed, Start,
    GoTo, Lock, Dial, DialFails, Return, HandshakeWrite, Send, HandshakeWriteFails,
    HandshakeHeader, ReadChunk, HandshakeData, HandshakeTimeout, HandshakeBroken, Disconnect,
    Write, ReadHeader, Reply, ReadData, IoFails

\* A task inside send holds the lock, and no other does.
LEMMA Others == ASSUME MutexInv, NEW t \in Tasks, pc[t] \in Locked
  PROVE owner = t /\ t # NoTask /\ \A q \in Tasks : q # t => pc[q] \notin Locked
BY TasksAssumption DEF MutexInv

\* A task dials only without a connection, and uses the one it has dialled.
LEMMA ConnStep ==
  ASSUME Typed, NEW t \in Tasks, ClientStep(t)
  PROVE  ConnInv'
<1>0. /\ pc \in [Tasks -> PcStates] /\ reqs \in [Conns -> Seq(Request)]
      /\ conns \in Nat /\ conn \in Nat /\ NoTask \notin Tasks
  BY TasksAssumption, BoundsAssumption DEF Typed, TypeOK, PcStates, ServerTypeOK, Conns, NoConn
<1>1. CASE Start(t)
  BY <1>1, <1>0, Others DEF Typed, MutexInv, ConnInv, PcStates, Locked, ConnStates, NoConn,
    Conns, Start, GoTo, serverVars
<1>2. CASE Lock(t)
  BY <1>2, <1>0, Others DEF Typed, MutexInv, ConnInv, PcStates, Locked, ConnStates, NoConn,
    Conns, Lock, GoTo, serverVars
<1>3. CASE Dial(t)
  BY <1>3, <1>0, Others DEF Typed, MutexInv, ConnInv, PcStates, Locked, ConnStates, NoConn,
    Conns, Dial, GoTo, serverVars
<1>4. CASE DialFails(t)
  BY <1>4, <1>0, Others DEF Typed, MutexInv, ConnInv, PcStates, Locked, ConnStates, NoConn,
    Conns, DialFails, Return, GoTo, serverVars
<1>5. CASE HandshakeWrite(t)
  BY <1>5, <1>0, Others DEF Typed, MutexInv, ConnInv, PcStates, Locked, ConnStates, NoConn,
    Conns, HandshakeWrite, Send, GoTo, serverVars
<1>6. CASE HandshakeWriteFails(t)
  BY <1>6, <1>0, Others DEF Typed, MutexInv, ConnInv, PcStates, Locked, ConnStates, NoConn,
    Conns, HandshakeWriteFails, GoTo, serverVars
<1>7. CASE HandshakeHeader(t)
  BY <1>7, <1>0, Others DEF Typed, MutexInv, ConnInv, PcStates, Locked, ConnStates, NoConn,
    Conns, HandshakeHeader, ReadChunk, GoTo, serverVars
<1>8. CASE HandshakeData(t)
  BY <1>8, <1>0, Others DEF Typed, MutexInv, ConnInv, PcStates, Locked, ConnStates, NoConn,
    Conns, HandshakeData, ReadChunk, GoTo, serverVars
<1>9. CASE HandshakeTimeout(t)
  BY <1>9, <1>0, Others DEF Typed, MutexInv, ConnInv, PcStates, Locked, ConnStates, NoConn,
    Conns, HandshakeTimeout, GoTo, serverVars
<1>10. CASE HandshakeBroken(t)
  BY <1>10, <1>0, Others DEF Typed, MutexInv, ConnInv, PcStates, Locked, ConnStates, NoConn,
    Conns, HandshakeBroken, Disconnect, Return, GoTo, serverVars
<1>11. CASE Write(t)
  BY <1>11, <1>0, Others DEF Typed, MutexInv, ConnInv, PcStates, Locked, ConnStates, NoConn,
    Conns, Write, Send, GoTo, serverVars
<1>12. CASE ReadHeader(t)
  BY <1>12, <1>0, Others DEF Typed, MutexInv, ConnInv, PcStates, Locked, ConnStates, NoConn,
    Conns, ReadHeader, ReadChunk, Reply, Return, GoTo, serverVars
<1>13. CASE ReadData(t)
  BY <1>13, <1>0, Others DEF Typed, MutexInv, ConnInv, PcStates, Locked, ConnStates, NoConn,
    Conns, ReadData, ReadChunk, Reply, Return, GoTo, serverVars
<1>14. CASE IoFails(t)
  BY <1>14, <1>0, Others DEF Typed, MutexInv, ConnInv, PcStates, Locked, ConnStates, NoConn,
    Conns, IoFails, Disconnect, Return, GoTo, serverVars
<1>15. QED
  BY <1>1, <1>2, <1>3, <1>4, <1>5, <1>6, <1>7, <1>8, <1>9, <1>10, <1>11, <1>12, <1>13, <1>14
    DEF ClientStep, Proceed

\* A call is given a number when it starts.
LEMMA CallStep ==
  ASSUME Typed, NEW t \in Tasks, ClientStep(t)
  PROVE  CallInv'
<1>0. /\ pc \in [Tasks -> PcStates] /\ callId \in [Tasks -> 0 .. MaxCalls]
      /\ calls \in Nat /\ MaxCalls \in Nat
  BY BoundsAssumption DEF Typed, TypeOK, PcStates
<1>1. CASE Start(t)
  BY <1>1, <1>0 DEF Typed, CallInv, PcStates, ConnStates, Calls, Start, GoTo, serverVars
<1>2. CASE Lock(t)
  BY <1>2, <1>0 DEF Typed, CallInv, PcStates, ConnStates, Calls, Lock, GoTo, serverVars
<1>3. CASE Dial(t)
  BY <1>3, <1>0 DEF Typed, CallInv, PcStates, ConnStates, Calls, Dial, GoTo, serverVars
<1>4. CASE DialFails(t)
  BY <1>4, <1>0 DEF Typed, CallInv, PcStates, ConnStates, Calls, DialFails, Return, GoTo,
    serverVars
<1>5. CASE HandshakeWrite(t)
  BY <1>5, <1>0 DEF Typed, CallInv, PcStates, ConnStates, Calls, HandshakeWrite, Send, GoTo,
    serverVars
<1>6. CASE HandshakeWriteFails(t)
  BY <1>6, <1>0 DEF Typed, CallInv, PcStates, ConnStates, Calls, HandshakeWriteFails, GoTo,
    serverVars
<1>7. CASE HandshakeHeader(t)
  BY <1>7, <1>0 DEF Typed, CallInv, PcStates, ConnStates, Calls, HandshakeHeader, ReadChunk,
    GoTo, serverVars
<1>8. CASE HandshakeData(t)
  BY <1>8, <1>0 DEF Typed, CallInv, PcStates, ConnStates, Calls, HandshakeData, ReadChunk,
    GoTo, serverVars
<1>9. CASE HandshakeTimeout(t)
  BY <1>9, <1>0 DEF Typed, CallInv, PcStates, ConnStates, Calls, HandshakeTimeout, GoTo,
    serverVars
<1>10. CASE HandshakeBroken(t)
  BY <1>10, <1>0 DEF Typed, CallInv, PcStates, ConnStates, Calls, HandshakeBroken, Disconnect,
    Return, GoTo, serverVars
<1>11. CASE Write(t)
  BY <1>11, <1>0 DEF Typed, CallInv, PcStates, ConnStates, Calls, Write, Send, GoTo, serverVars
<1>12. CASE ReadHeader(t)
  BY <1>12, <1>0 DEF Typed, CallInv, PcStates, ConnStates, Calls, ReadHeader, ReadChunk,
    Reply, Return, GoTo, serverVars
<1>13. CASE ReadData(t)
  BY <1>13, <1>0 DEF Typed, CallInv, PcStates, ConnStates, Calls, ReadData, ReadChunk, Reply,
    Return, GoTo, serverVars
<1>14. CASE IoFails(t)
  BY <1>14, <1>0 DEF Typed, CallInv, PcStates, ConnStates, Calls, IoFails, Disconnect, Return,
    GoTo, serverVars
<1>15. QED
  BY <1>1, <1>2, <1>3, <1>4, <1>5, <1>6, <1>7, <1>8, <1>9, <1>10, <1>11, <1>12, <1>13, <1>14
    DEF ClientStep, Proceed

(***************************************************************************)
(* Steps of the client: the connection in order.                           *)
(***************************************************************************)

\* A header that is read is that of the reply which is awaited.
LEMMA HeaderTaken ==
  ASSUME NEW id, AwaitsReply(id), ReadChunk
  PROVE  /\ reqs[conn] = <<>>
         /\ Head(stream).part = "hdr" /\ Head(stream).id = id
         /\ HeaderRead = {[status |-> Head(stream).status, more |-> Head(stream).more]}
         /\ ~Head(stream).more => stream' = <<>>
         /\ \/ stream' = <<>>
            \/ \E d \in Chunk : d.part = "data" /\ d.id = id /\ stream' = <<d>>
<1>1. PICK h \in Chunk :
         /\ reqs[conn] = <<>> /\ h.part = "hdr" /\ h.id = id
         /\ \/ stream = <<h>>
            \/ h.more /\ \E d \in Chunk : d.part = "data" /\ d.id = id /\ stream = <<h, d>>
  BY DEF AwaitsReply, Clear, ReadChunk
<1>2. CASE stream = <<h>>
  BY <1>1, <1>2 DEF ReadChunk, HeaderRead
<1>3. ASSUME h.more, NEW d \in Chunk, d.part = "data", d.id = id, stream = <<h, d>>
      PROVE  Head(stream) = h /\ stream' = <<d>>
  BY <1>3 DEF ReadChunk
<1>4. QED
  BY <1>1, <1>2, <1>3 DEF HeaderRead

\* Nothing is left when the data have been read.
LEMMA DataTaken ==
  ASSUME NEW id, AwaitsData(id), ReadChunk
  PROVE  reqs[conn] = <<>> /\ stream' = <<>>
<1>1. PICK d \in Chunk : reqs[conn] = <<>> /\ stream = <<d>>
  BY DEF AwaitsData, ReadChunk
<1>2. QED
  BY <1>1 DEF ReadChunk

\* A request that is sent on a clear connection is the only one awaited.
LEMMA RequestSent ==
  ASSUME ServerTypeOK, conn \in Conns, Clear,
         NEW t, NEW id \in Calls \cup {Handshake}, NEW k \in Commands, Send(t, id, k)
  PROVE  AwaitsReply(id)' /\ UNCHANGED <<conn, stream, owner, callId, silent>>
<1> DEFINE r == [id |-> id, cmd |-> k]
<1>1. r \in Request /\ r.id = id
  BY DEF Request
<1>2. reqs' = [reqs EXCEPT ![conn] = <<r>>] /\ reqs \in [Conns -> Seq(Request)]
  BY DEF Send, Clear, ServerTypeOK
<1>3. reqs'[conn'] = <<r>> /\ stream' = <<>>
  BY <1>2 DEF Send, Clear
<1>4. QED
  BY <1>1, <1>3 DEF AwaitsReply, Send

\* The step of a task that calls moves no other, and the others are outside.
LEMMA OnlyHolder ==
  ASSUME Typed, NEW t \in Tasks, ClientStep(t), ~Start(t)
  PROVE  \A q \in Tasks : q # t => pc'[q] \notin Locked /\ pc'[q] = pc[q]
<1>1. pc \in [Tasks -> PcStates]
  BY DEF Typed, TypeOK, PcStates
<1>2. \A q \in Tasks : q # t => pc[q] \notin Locked
  <2>1. CASE Lock(t)
    BY <2>1, TasksAssumption DEF Lock, Typed, MutexInv
  <2>2. CASE Proceed(t)
    <3>1. pc[t] \in Locked
      BY <2>2 DEF Locked, ConnStates, ClientStep, Proceed, Start, GoTo, Lock, Dial,
        DialFails, Return, HandshakeWrite, Send, HandshakeWriteFails, HandshakeHeader,
        ReadChunk, HandshakeData, HandshakeTimeout, HandshakeBroken, Disconnect, Write,
        ReadHeader, Reply, ReadData, IoFails
    <3>2. QED
      BY <3>1, Others DEF Typed
  <2>3. QED
    BY <2>1, <2>2 DEF ClientStep
<1>3. \A q \in Tasks : q # t => pc'[q] = pc[q]
  BY <1>1 DEF ClientStep, Proceed, Start, GoTo, Lock, Dial, DialFails, Return, HandshakeWrite,
    Send, HandshakeWriteFails, HandshakeHeader, ReadChunk, HandshakeData, HandshakeTimeout,
    HandshakeBroken, Disconnect, Write, ReadHeader, Reply, ReadData, IoFails
<1>4. QED
  BY <1>2, <1>3

\* Every step of the client keeps its connection in order: a call that fails half way gives
\* it up, but for the handshake that ends by a timeout.
LEMMA WireStep ==
  ASSUME Typed, WireInv, NEW t \in Tasks, ClientStep(t)
  PROVE  WireInv'
<1>0. /\ pc \in [Tasks -> PcStates] /\ reqs \in [Conns -> Seq(Request)] /\ ServerTypeOK
      /\ conn \in Conns \cup {NoConn} /\ NoTask \notin Tasks
  BY TasksAssumption DEF Typed, TypeOK, PcStates, ServerTypeOK
<1>1. CASE Start(t)
  <2>1. /\ UNCHANGED <<reqs, conn, stream, silent, owner, head>>
        /\ \A q \in Tasks : pc'[q] \in ConnStates => pc'[q] = pc[q] /\ callId'[q] = callId[q]
    BY <1>0, <1>1 DEF Start, GoTo, serverVars, Typed, TypeOK, ConnStates
  <2>2. QED
    BY <2>1 DEF WireInv, Clear, AwaitsReply, AwaitsData, Expected, ConnStates
<1>a. ASSUME ~Start(t), conn' \notin silent' \cup {NoConn},
             owner' = NoTask \/ pc'[t] \in {"hsWrite", "write"} => Clear',
             pc'[t] \in {"hsHdr", "hdr"} => AwaitsReply(Expected(t))',
             pc'[t] \in {"hsData", "data"} => AwaitsData(Expected(t))',
             pc'[t] = "data" => head'.id = callId'[t]
      PROVE  WireInv'
  BY <1>a, OnlyHolder DEF WireInv, Locked, ConnStates
<1>2. CASE Lock(t)
  <2>1. UNCHANGED <<reqs, conn, stream, silent>> /\ owner = NoTask /\ owner' = t
        /\ pc'[t] \in {"dial", "write"} /\ ~Start(t)
    BY <1>0, <1>2 DEF Lock, GoTo, serverVars, Start
  <2>2. QED
    BY <1>0, <1>a, <2>1 DEF WireInv, Clear
<1>3. CASE Dial(t)
  <2>1. /\ conn' = conns + 1 /\ conn' \in Conns /\ stream' = <<>> /\ UNCHANGED <<reqs, silent>>
        /\ pc'[t] = "hsWrite" /\ ~Start(t)
    BY <1>0, <1>3, BoundsAssumption DEF Dial, GoTo, Start, Typed, TypeOK, Conns
  <2>2. Clear'
    <3>1. conns \in Nat
      BY BoundsAssumption DEF Typed, TypeOK
    <3>2. QED
      BY <2>1, <3>1 DEF Clear, Typed, ConnInv
  <2>3. QED
    BY <1>a, <2>1, <2>2 DEF WireInv
<1>4. CASE DialFails(t) \/ HandshakeBroken(t) \/ IoFails(t)
  BY <1>4 DEF DialFails, HandshakeBroken, IoFails, Disconnect, WireInv, Typed, ConnInv
<1>5. CASE HandshakeWrite(t)
  <2>1. /\ pc[t] = "hsWrite" /\ pc'[t] = "hsHdr"
        /\ Send(t, Handshake, "BUILD_FEATURES") /\ ~Start(t)
    BY <1>0, <1>5 DEF HandshakeWrite, GoTo, Start
  <2>2. conn \in Conns
    BY <1>0, <2>1 DEF Typed, ConnInv, ConnStates
  <2>3. CASE conn \in silent
    BY <2>1, <2>3 DEF WireInv, Send
  <2>4. CASE conn \notin silent
    <3>1. Clear /\ owner = t
      BY <2>1, <2>2, <2>4, Others DEF WireInv, Typed, Locked, ConnStates, NoConn, Conns
    <3>2. AwaitsReply(Handshake)' /\ owner' = t
      BY <1>0, <2>1, <2>2, <3>1, RequestSent DEF Commands
    <3>3. Expected(t)' = Handshake
      BY <2>1 DEF Expected
    <3>4. QED
      BY <1>0, <1>a, <2>1, <3>2, <3>3 DEF WireInv, AwaitsReply
  <2>5. QED
    BY <2>3, <2>4
<1>6. CASE HandshakeWriteFails(t)
  <2>1. /\ pc[t] = "hsWrite" /\ pc'[t] = "write"
        /\ UNCHANGED <<reqs, conn, stream, silent>> /\ ~Start(t)
    BY <1>0, <1>6 DEF HandshakeWriteFails, GoTo, Start, serverVars
  <2>2. QED
    BY <1>a, <2>1 DEF WireInv, Clear
<1>7. CASE HandshakeHeader(t)
  <2>1. pc[t] = "hsHdr" /\ ReadChunk /\ UNCHANGED <<reqs, conn, silent, owner>> /\ ~Start(t)
        /\ pc'[t] = (IF Head(stream).more THEN "hsData" ELSE "write") /\ owner' # NoTask
    BY <1>0, <1>7, Others DEF HandshakeHeader, GoTo, Start, Typed, Locked, ConnStates
  <2>2. ASSUME conn \notin silent \cup {NoConn} PROVE AwaitsReply(Handshake)
    BY <2>1, <2>2 DEF WireInv, Expected
  <2>3. Expected(t)' = Handshake
    BY <2>1 DEF Expected
  <2>4. ASSUME conn \notin silent \cup {NoConn}
        PROVE  pc'[t] = "hsData" => AwaitsData(Expected(t))'
    BY <2>1, <2>2, <2>3, <2>4, HeaderTaken DEF AwaitsData
  <2>5. ASSUME conn \notin silent \cup {NoConn} PROVE pc'[t] = "write" => Clear'
    BY <2>1, <2>2, <2>5, HeaderTaken DEF Clear
  <2>6. QED
    BY <1>a, <2>1, <2>4, <2>5 DEF WireInv
<1>8. CASE HandshakeData(t)
  <2>1. pc[t] = "hsData" /\ ReadChunk /\ UNCHANGED <<reqs, conn, silent>> /\ ~Start(t)
        /\ pc'[t] = "write"
    BY <1>0, <1>8 DEF HandshakeData, GoTo, Start
  <2>2. ASSUME conn \notin silent \cup {NoConn} PROVE Clear'
    BY <2>1, <2>2, DataTaken DEF WireInv, Clear
  <2>3. QED
    BY <1>a, <2>1, <2>2 DEF WireInv
<1>9. CASE HandshakeTimeout(t)
  BY <1>9 DEF HandshakeTimeout, WireInv, serverVars
<1>10. CASE Write(t)
  <2>1. pc[t] = "write" /\ pc'[t] = "hdr" /\ Send(t, callId[t], cmd[t]) /\ ~Start(t)
    BY <1>0, <1>10 DEF Write, GoTo, Start
  <2>2. conn \in Conns
    BY <1>0, <2>1 DEF Typed, ConnInv, ConnStates
  <2>3. CASE conn \in silent
    BY <2>1, <2>3 DEF WireInv, Send
  <2>4. CASE conn \notin silent
    <3>1. Clear /\ owner = t
      BY <2>1, <2>2, <2>4, Others DEF WireInv, Typed, Locked, ConnStates, NoConn, Conns
    <3>2. AwaitsReply(callId[t])' /\ owner' = t /\ callId' = callId
      <4>1. callId[t] \in Calls /\ cmd[t] \in Commands
        BY <2>1 DEF Typed, CallInv, TypeOK
      <4>2. QED
        BY <1>0, <2>1, <2>2, <3>1, <4>1, RequestSent
    <3>3. Expected(t)' = callId'[t]
      BY <2>1 DEF Expected
    <3>4. QED
      BY <1>0, <1>a, <2>1, <3>2, <3>3 DEF WireInv, AwaitsReply
  <2>5. QED
    BY <2>3, <2>4
<1>11. CASE ReadHeader(t)
  <2>1. pc[t] = "hdr" /\ ReadChunk /\ UNCHANGED <<reqs, conn, silent, callId>> /\ ~Start(t)
    BY <1>11 DEF ReadHeader, Start
  <2>2. PICK h \in HeaderRead :
          IF h.more
          THEN /\ head' = [status |-> h.status, id |-> Head(stream).id]
               /\ pc'[t] = "data" /\ owner' = owner
          ELSE pc'[t] = "idle"
    BY <1>0, <1>11 DEF ReadHeader, Reply, Return, GoTo
  <2>3. SUFFICES ASSUME conn \notin silent \cup {NoConn} PROVE WireInv'
    BY <2>1 DEF WireInv
  <2>4. AwaitsReply(callId[t]) /\ owner = t
    BY <2>1, <2>3, Others DEF WireInv, Expected, Typed, Locked, ConnStates
  <2>5. h.more = Head(stream).more /\ Head(stream).id = callId[t] /\ reqs[conn] = <<>>
    BY <2>1, <2>2, <2>4, HeaderTaken
  <2>6. CASE h.more
    <3>1. AwaitsData(callId[t])'
      BY <2>1, <2>4, HeaderTaken DEF AwaitsData
    <3>2. Expected(t)' = callId'[t] /\ pc'[t] = "data" /\ owner' = t /\ head'.id = callId'[t]
      BY <2>1, <2>2, <2>4, <2>5, <2>6 DEF Expected
    <3>3. QED
      BY <1>0, <1>a, <2>1, <2>3, <3>1, <3>2 DEF AwaitsData
  <2>7. CASE ~h.more
    <3>1. Clear'
      BY <2>1, <2>4, <2>5, <2>7, HeaderTaken DEF Clear
    <3>2. QED
      BY <1>a, <2>1, <2>2, <2>3, <2>7, <3>1
  <2>8. QED
    BY <2>6, <2>7
<1>12. CASE ReadData(t)
  <2>1. pc[t] = "data" /\ ReadChunk /\ UNCHANGED <<reqs, conn, silent>> /\ ~Start(t)
        /\ pc'[t] = "idle"
    BY <1>0, <1>12 DEF ReadData, Reply, Return, GoTo, Start
  <2>2. ASSUME conn \notin silent \cup {NoConn} PROVE Clear'
    BY <2>1, <2>2, DataTaken DEF WireInv, Clear
  <2>3. QED
    BY <1>a, <2>1, <2>2 DEF WireInv
<1>13. QED
  BY <1>1, <1>2, <1>3, <1>4, <1>5, <1>6, <1>7, <1>8, <1>9, <1>10, <1>11, <1>12
    DEF ClientStep, Proceed

\* A task returns a reply that is not its own only on a connection given up before.
LEMMA MisreadStep ==
  ASSUME Typed, WireInv, MisreadOnlyAfterSilentHandshake, NEW t \in Tasks, ClientStep(t)
  PROVE  MisreadOnlyAfterSilentHandshake'
<1>0. /\ pc \in [Tasks -> PcStates] /\ result \in [Tasks -> Results]
      /\ callId \in [Tasks -> 0 .. MaxCalls]
  BY DEF Typed, TypeOK, PcStates, Results
<1>1. /\ silent \subseteq silent'
      /\ \A q \in Tasks : q # t =>
            pc'[q] = pc[q] /\ result'[q] = result[q] /\ callId'[q] = callId[q]
  BY <1>0 DEF ClientStep, Proceed, Start, GoTo, Lock, Dial, DialFails, Return, HandshakeWrite,
    Send, HandshakeWriteFails, HandshakeHeader, ReadChunk, HandshakeData, HandshakeTimeout,
    HandshakeBroken, Disconnect, Write, ReadHeader, Reply, ReadData, IoFails
<1>2. SUFFICES ASSUME pc'[t] = "idle", result'[t].kind \in {"ok", "err"},
                      result'[t].id # callId'[t]
               PROVE  result'[t].on \in silent'
  BY <1>1 DEF MisreadOnlyAfterSilentHandshake
<1>3. ReadHeader(t) \/ ReadData(t)
  <2>1. CASE DialFails(t) \/ HandshakeBroken(t) \/ IoFails(t)
    BY <1>0, <1>2, <2>1 DEF DialFails, HandshakeBroken, IoFails, Return
  <2>2. CASE \/ Start(t) \/ Lock(t) \/ Dial(t) \/ HandshakeWrite(t) \/ HandshakeWriteFails(t)
             \/ HandshakeHeader(t) \/ HandshakeData(t) \/ HandshakeTimeout(t) \/ Write(t)
    BY <1>0, <1>2, <2>2 DEF Start, Lock, Dial, HandshakeWrite, HandshakeWriteFails,
      HandshakeHeader,
      HandshakeData, HandshakeTimeout, Write, GoTo
  <2>3. QED
    BY <2>1, <2>2 DEF ClientStep, Proceed
<1>4. CASE ReadHeader(t)
  <2>1. pc[t] = "hdr" /\ ReadChunk /\ callId' = callId
    BY <1>4 DEF ReadHeader
  <2>2. result'[t].id = Head(stream).id /\ result'[t].on = conn
    BY <1>0, <1>2, <1>4 DEF ReadHeader, Reply, Return, GoTo
  <2>3. conn # NoConn
    BY <2>1 DEF Typed, ConnInv, ConnStates
  <2>4. conn \notin silent => AwaitsReply(callId[t])
    BY <2>1, <2>3 DEF WireInv, Expected
  <2>5. QED
    BY <1>1, <1>2, <2>1, <2>2, <2>4, HeaderTaken
<1>5. CASE ReadData(t)
  <2>1. pc[t] = "data" /\ callId' = callId /\ result'[t].id = head.id /\ result'[t].on = conn
    BY <1>0, <1>5 DEF ReadData, Reply, Return
  <2>2. conn # NoConn
    BY <2>1 DEF Typed, ConnInv, ConnStates
  <2>3. QED
    BY <1>1, <1>2, <2>1, <2>2 DEF WireInv
<1>6. QED
  BY <1>3, <1>4, <1>5

(***************************************************************************)
(* Steps of the server.                                                    *)
(***************************************************************************)

\* The frames of a reply are chunks of its request.
LEMMA FrameType ==
  ASSUME NEW r \in Request, NEW st \in Statuses
  PROVE  /\ \A more \in BOOLEAN :
               /\ Header(r, st, more) \in Chunk /\ Header(r, st, more).id = r.id
               /\ Header(r, st, more).part = "hdr" /\ Header(r, st, more).more = more
         /\ Data(r, st) \in Chunk /\ Data(r, st).id = r.id /\ Data(r, st).part = "data"
         /\ \A more \in BOOLEAN : Frame(r, st, more) \in Seq(Chunk)
<1>1. /\ \A more \in BOOLEAN :
                 /\ Header(r, st, more) \in Chunk /\ Header(r, st, more).id = r.id
                 /\ Header(r, st, more).part = "hdr" /\ Header(r, st, more).more = more
           /\ Data(r, st) \in Chunk /\ Data(r, st).id = r.id /\ Data(r, st).part = "data"
  BY DEF Header, Data, Chunk, Request
<1>2. /\ <<Header(r, st, TRUE), Data(r, st)>> \in Seq(Chunk)
      /\ <<Header(r, st, FALSE)>> \in Seq(Chunk) /\ <<Header(r, st, TRUE)>> \in Seq(Chunk)
  <2>1. \A h, d \in Chunk : <<h>> \in Seq(Chunk) /\ <<h, d>> \in Seq(Chunk)
    OBVIOUS
  <2>2. Header(r, st, TRUE) \in Chunk /\ Header(r, st, FALSE) \in Chunk /\ Data(r, st) \in Chunk
    BY <1>1
  <2>3. QED
    BY <2>1, <2>2
<1>3. QED
  BY <1>1, <1>2 DEF Frame

\* The outcomes of the calls are outcomes.
LEMMA ExecutedType ==
  ASSUME ServerTypeOK, NEW r, NEW st \in Statuses
  PROVE  Executed(r, st) \in [Calls -> {"no", "ok", "err", "twice"}]
BY DEF ServerTypeOK, Executed, Statuses

\* What a step of the server does to one queue and to the stream.
Takes(c) ==
    /\ reqs[c] # <<>> /\ reqs' = [reqs EXCEPT ![c] = Tail(reqs[c])]
    /\ \/ Coalesced(c) /\ stream' = stream
       \/ c # conn /\ stream' = stream
       \/ /\ c = conn
          /\ \E st \in Statuses, more \in BOOLEAN :
                stream' = stream \o Frame(Head(reqs[c]), st, more)
Breaks(c) ==
    /\ reqs[c] # <<>> /\ reqs' = [reqs EXCEPT ![c] = <<>>]
    /\ \/ stream' = stream
       \/ /\ c = conn
          /\ \E st \in Statuses : stream' = Append(stream, Header(Head(reqs[c]), st, TRUE))
Stops == /\ \A c \in Conns : reqs'[c] \in {reqs[c], <<>>}
         /\ reqs' \in [Conns -> Seq(Request)] /\ stream' = stream

\* The server does one of the three.
LEMMA ServerEffect ==
  ASSUME ServerTypeOK, ServerNext
  PROVE  /\ conn' = conn
         /\ Stops \/ \E c \in Conns : Takes(c) \/ Breaks(c)
<1>1. conn' = conn
  BY DEF ServerNext, ServerHandle, ServerCoalesce, ServerSendFails, ServerCrash, ServerRestart
<1>2. ASSUME NEW c \in Conns, ServerHandle(c) \/ ServerCoalesce(c) PROVE Takes(c)
  BY <1>2 DEF ServerHandle, ServerCoalesce, Takes
<1>3. ASSUME NEW c \in Conns, ServerSendFails(c) PROVE Breaks(c)
  BY <1>3 DEF ServerSendFails, Breaks
<1>4. CASE ServerCrash
  BY <1>4, EmptySeq DEF ServerCrash, Stops
<1>5. CASE ServerRestart
  BY <1>5 DEF ServerRestart, Stops, ServerTypeOK
<1>6. QED
  BY <1>1, <1>2, <1>3, <1>4, <1>5 DEF ServerNext

\* The server keeps the types.
LEMMA ServerType ==
  ASSUME ServerTypeOK, ServerNext
  PROVE  ServerTypeOK'
<1>0. /\ open \in [Conns -> BOOLEAN] /\ up \in BOOLEAN /\ crashes \in 0 .. MaxCrashes
      /\ done \in [Calls -> {"no", "ok", "err", "twice"}] /\ MaxCrashes \in Nat
      /\ reqs \in [Conns -> Seq(Request)] /\ stream \in Seq(Chunk)
      /\ conn \in Conns \cup {NoConn}
  BY BoundsAssumption DEF ServerTypeOK
<1>1. /\ up' \in BOOLEAN /\ crashes' \in 0 .. MaxCrashes /\ open' \in [Conns -> BOOLEAN]
      /\ done' \in [Calls -> {"no", "ok", "err", "twice"}]
  <2>1. ASSUME NEW c \in Conns, ServerHandle(c)
        PROVE  /\ done' \in [Calls -> {"no", "ok", "err", "twice"}]
               /\ UNCHANGED <<up, crashes, open>>
    BY <2>1, ExecutedType DEF ServerHandle
  <2>2. ASSUME NEW c \in Conns, ServerSendFails(c)
        PROVE  /\ done' \in [Calls -> {"no", "ok", "err", "twice"}] /\ UNCHANGED <<up, crashes>>
               /\ open' \in [Conns -> BOOLEAN]
    BY <1>0, <2>2, ExecutedType DEF ServerSendFails
  <2>3. ASSUME NEW c \in Conns, ServerCoalesce(c) PROVE UNCHANGED <<up, crashes, open, done>>
    BY <2>3 DEF ServerCoalesce
  <2>4. CASE ServerCrash
    <3>1. up' = FALSE /\ crashes' = crashes + 1 /\ crashes < MaxCrashes /\ done' = done
      BY <2>4 DEF ServerCrash
    <3>2. open' \in [Conns -> BOOLEAN]
      BY <2>4 DEF ServerCrash
    <3>3. crashes' \in 0 .. MaxCrashes
      BY <1>0, <3>1
    <3>4. up' \in BOOLEAN /\ done' \in [Calls -> {"no", "ok", "err", "twice"}]
      BY <1>0, <3>1
    <3>5. QED
      BY <3>2, <3>3, <3>4
  <2>5. CASE ServerRestart
    BY <1>0, <2>5 DEF ServerRestart
  <2>6. QED
    BY <1>0, <2>1, <2>2, <2>3, <2>4, <2>5 DEF ServerNext
<1>2. ASSUME NEW c \in Conns, Takes(c)
      PROVE  reqs' \in [Conns -> Seq(Request)] /\ stream' \in Seq(Chunk)
  <2>1. Head(reqs[c]) \in Request /\ Tail(reqs[c]) \in Seq(Request)
    BY <1>0, <1>2, HeadTailProperties DEF Takes
  <2>2. ASSUME NEW st \in Statuses, NEW more \in BOOLEAN
        PROVE  stream \o Frame(Head(reqs[c]), st, more) \in Seq(Chunk)
    BY <1>0, <2>1, FrameType, ConcatProperties
  <2>3. QED
    BY <1>0, <1>2, <2>1, <2>2 DEF Takes
<1>3. ASSUME NEW c \in Conns, Breaks(c)
      PROVE  reqs' \in [Conns -> Seq(Request)] /\ stream' \in Seq(Chunk)
  <2>1. Head(reqs[c]) \in Request
    BY <1>0, <1>3, HeadTailProperties DEF Breaks
  <2>2. ASSUME NEW st \in Statuses
        PROVE  Append(stream, Header(Head(reqs[c]), st, TRUE)) \in Seq(Chunk)
    BY <1>0, <2>1, FrameType, AppendProperties
  <2>3. QED
    BY <1>0, <1>3, <2>2, EmptySeq DEF Breaks
<1>4. QED
  BY <1>0, <1>1, <1>2, <1>3, ServerEffect DEF ServerTypeOK, Stops

\* The server adds nothing to a connection but the reply to its request.
LEMMA ServerWire ==
  ASSUME ServerTypeOK, ServerNext, conn \in Conns
  PROVE  /\ Clear => Clear'
         /\ \A id : AwaitsReply(id) => AwaitsReply(id)'
         /\ \A id : AwaitsData(id) => AwaitsData(id)'
<1>0. reqs \in [Conns -> Seq(Request)] /\ conn' = conn
  BY ServerEffect DEF ServerTypeOK
<1>1. reqs[conn] = <<>> => reqs'[conn] = <<>> /\ stream' = stream
  BY <1>0, ServerEffect DEF Stops, Takes, Breaks
<1>2. ASSUME NEW id, NEW r \in Request, r.id = id, reqs[conn] = <<r>>, stream = <<>>
      PROVE  AwaitsReply(id)'
  <2>1. Head(reqs[conn]) = r /\ Tail(reqs[conn]) = <<>> /\ ~Coalesced(conn)
    BY <1>2 DEF Coalesced
  <2>2. CASE Stops
    BY <1>0, <1>2, <2>2 DEF Stops, AwaitsReply, Clear
  <2>3. ASSUME NEW c \in Conns, Takes(c) \/ Breaks(c), c # conn PROVE AwaitsReply(id)'
    BY <1>0, <1>2, <2>3 DEF Takes, Breaks, AwaitsReply, Clear
  <2>4. CASE Takes(conn)
    <3>1. PICK st \in Statuses, more \in BOOLEAN : stream' = stream \o Frame(r, st, more)
      BY <2>1, <2>4 DEF Takes
    <3>2. reqs'[conn'] = <<>> /\ stream' = Frame(r, st, more)
      BY <1>0, <1>2, <2>1, <2>4, <3>1, FrameType, ConcatEmptySeq DEF Takes
    <3>3. /\ Header(r, st, more) \in Chunk /\ Header(r, st, more).id = id
          /\ Header(r, st, more).part = "hdr" /\ Header(r, st, more).more = more
          /\ Data(r, st) \in Chunk /\ Data(r, st).id = id /\ Data(r, st).part = "data"
      BY <1>2, <3>1, FrameType
    <3>4. stream' = IF more THEN <<Header(r, st, more), Data(r, st)>>
                            ELSE <<Header(r, st, more)>>
      BY <3>1, <3>2 DEF Frame
    <3>5. CASE more
      BY <3>2, <3>3, <3>4, <3>5 DEF AwaitsReply
    <3>6. CASE ~more
      BY <3>2, <3>3, <3>4, <3>6 DEF AwaitsReply
    <3>7. QED
      BY <3>5, <3>6
  <2>5. CASE Breaks(conn)
    <3>1. reqs'[conn'] = <<>>
      BY <1>0, <2>5 DEF Breaks
    <3>2. CASE stream' = stream
      BY <1>2, <3>1, <3>2 DEF AwaitsReply, Clear
    <3>3. CASE \E st \in Statuses : stream' = Append(stream, Header(r, st, TRUE))
      <4>1. PICK st \in Statuses : stream' = Append(stream, Header(r, st, TRUE))
        BY <3>3
      <4>2. stream' = <<Header(r, st, TRUE)>>
        BY <1>2, <4>1
      <4>3. /\ Header(r, st, TRUE) \in Chunk /\ Header(r, st, TRUE).id = id
            /\ Header(r, st, TRUE).part = "hdr"
        BY <1>2, <4>1, FrameType
      <4>4. QED
        BY <3>1, <4>2, <4>3 DEF AwaitsReply
    <3>4. QED
      BY <2>1, <2>5, <3>2, <3>3 DEF Breaks
  <2>6. QED
    BY <2>2, <2>3, <2>4, <2>5, ServerEffect
<1>3. QED
  BY <1>0, <1>1, <1>2 DEF Clear, AwaitsReply, AwaitsData

\* The server keeps the invariant of its client.
LEMMA ServerStep ==
  ASSUME IInv, ServerNext, UNCHANGED clientVars
  PROVE  IInv'
<1>0. /\ UNCHANGED <<owner, pc, calls, callId, cmd, head, conns, lastError, result, silent>>
      /\ ServerTypeOK /\ ServerTypeOK' /\ conn' = conn /\ conn \in Conns \cup {NoConn}
  BY ServerType, ServerEffect DEF clientVars, IInv, Typed, TypeOK, ServerTypeOK
<1>1. TypeOK'
  BY <1>0 DEF IInv, Typed, TypeOK
<1>2. MutexInv' /\ CallInv'
  BY <1>0 DEF IInv, Typed, MutexInv, CallInv
<1>3. ConnInv'
  <2>1. \A c \in Conns : reqs[c] = <<>> => reqs'[c] = <<>>
    BY <1>0, ServerEffect DEF Stops, Takes, Breaks, ServerTypeOK
  <2>2. QED
    BY <1>0, <2>1 DEF IInv, Typed, ConnInv
<1>4. WireInv'
  <2>1. SUFFICES ASSUME conn \in Conns, conn \notin silent PROVE WireInv'
    BY <1>0 DEF WireInv
  <2>2. \A t \in Tasks : Expected(t)' = Expected(t)
    BY <1>0 DEF Expected
  <2>3. /\ Clear => Clear'
        /\ \A id : AwaitsReply(id) => AwaitsReply(id)'
        /\ \A id : AwaitsData(id) => AwaitsData(id)'
    BY <1>0, <2>1, ServerWire
  <2>4. ASSUME NEW t \in Tasks
        PROVE  /\ AwaitsReply(Expected(t)) => AwaitsReply(Expected(t))'
               /\ AwaitsData(Expected(t)) => AwaitsData(Expected(t))'
    BY <2>2, <2>3 DEF AwaitsReply, AwaitsData, Clear
  <2>5. QED
    BY <1>0, <2>1, <2>3, <2>4 DEF IInv, WireInv, NoConn, Conns
<1>5. MisreadOnlyAfterSilentHandshake'
  BY <1>0 DEF IInv, MisreadOnlyAfterSilentHandshake
<1>6. QED
  BY <1>1, <1>2, <1>3, <1>4, <1>5 DEF IInv, Typed

(***************************************************************************)
(* One execution for a call.                                               *)
(***************************************************************************)

\* The requests that the server leaves are those which were there before.
LEMMA Shrinks ==
  ASSUME ServerTypeOK, NEW c \in Conns, reqs[c] # <<>>,
         reqs' = [reqs EXCEPT ![c] = Tail(reqs[c])] \/ reqs' = [reqs EXCEPT ![c] = <<>>]
  PROVE  \A d \in Conns : \A k \in DOMAIN reqs'[d] :
            IF d = c THEN /\ k + 1 \in DOMAIN reqs[d] /\ reqs'[d][k] = reqs[d][k + 1]
                          /\ k >= 1 /\ k \in Int
                     ELSE k \in DOMAIN reqs[d] /\ reqs'[d][k] = reqs[d][k]
<1>1. reqs \in [Conns -> Seq(Request)] /\ reqs[c] \in Seq(Request)
  BY DEF ServerTypeOK
<1>2. \A k \in DOMAIN Tail(reqs[c]) :
         /\ k + 1 \in DOMAIN reqs[c] /\ Tail(reqs[c])[k] = reqs[c][k + 1]
         /\ k >= 1 /\ k \in Int
  BY <1>1
<1>3. QED
  BY <1>1, <1>2

\* The server executes the request that it takes from a queue.
LEMMA ServerOnce ==
  ASSUME Typed, OnceInv, ServerNext, UNCHANGED clientVars
  PROVE  OnceInv'
<1>0. /\ reqs \in [Conns -> Seq(Request)] /\ done \in [Calls -> {"no", "ok", "err", "twice"}]
      /\ callId \in [Tasks -> 0 .. MaxCalls] /\ UNCHANGED <<pc, calls, callId>>
      /\ ServerTypeOK /\ MaxCalls \in Nat
  BY BoundsAssumption DEF Typed, TypeOK, ServerTypeOK, clientVars
<1>1. ASSUME NEW c \in Conns, reqs[c] # <<>>,
             reqs' = [reqs EXCEPT ![c] = Tail(reqs[c])] \/ reqs' = [reqs EXCEPT ![c] = <<>>],
             done' = done \/ \E s \in Statuses : done' = Executed(Head(reqs[c]), s)
      PROVE  OnceInv'
  <2> DEFINE r == Head(reqs[c])
  <2>1. reqs[c] \in Seq(Request) /\ 1 \in DOMAIN reqs[c] /\ r = reqs[c][1] /\ r \in Request
    BY <1>0, <1>1
  <2>2. \A i \in Calls : i # r.id => done'[i] = done[i]
    BY <1>0, <1>1 DEF Executed
  <2>3. r.id \in Calls => /\ done[r.id] = "no" /\ r.id <= calls
                          /\ \A t \in Tasks : pc[t] \in Unsent => callId[t] # r.id
    BY <1>0, <2>1 DEF OnceInv, Calls, Handshake
  <2>4. r.id \in Calls => done'[r.id] \in {"no", "ok", "err"}
    BY <1>0, <1>1, <2>3 DEF Executed, Statuses
  <2>5. AtMostOnce'
    BY <2>2, <2>4 DEF AtMostOnce, OnceInv
  <2>6. \A i \in Calls : i > calls' => done'[i] = "no"
    <3>1. calls \in Nat
      BY BoundsAssumption DEF Typed, TypeOK
    <3>2. QED
      BY <1>0, <2>2, <2>3, <3>1 DEF OnceInv, Calls
  <2>7. \A t \in Tasks : pc'[t] \in Unsent => done'[callId'[t]] = "no"
    <3>1. \A t \in Tasks : pc[t] \in Unsent => callId[t] \in Calls
      BY DEF Typed, CallInv, Unsent
    <3>2. r.id \in Calls \cup {Handshake}
      BY <2>1 DEF Request
    <3>3. \A t \in Tasks : pc[t] \in Unsent => callId[t] # r.id
      BY <2>3, <3>1, <3>2 DEF Calls, Handshake
    <3>4. QED
      BY <1>0, <2>2, <3>1, <3>3 DEF OnceInv
  <2>8. \A d \in Conns : \A k \in DOMAIN reqs'[d] :
            IF d = c THEN /\ k + 1 \in DOMAIN reqs[d] /\ reqs'[d][k] = reqs[d][k + 1]
                          /\ k >= 1 /\ k \in Int
                     ELSE k \in DOMAIN reqs[d] /\ reqs'[d][k] = reqs[d][k]
    BY <1>0, <1>1, Shrinks
  <2>9. ASSUME NEW d \in Conns, NEW k \in DOMAIN reqs'[d], reqs'[d][k].id # Handshake
        PROVE  /\ reqs'[d][k].id <= calls /\ done'[reqs'[d][k].id] = "no"
               /\ \A t \in Tasks : pc[t] \in Unsent => callId[t] # reqs'[d][k].id
    <3> DEFINE j == IF d = c THEN k + 1 ELSE k
    <3>1. j \in DOMAIN reqs[d] /\ reqs'[d][k] = reqs[d][j] /\ (d # c \/ j # 1)
      BY <2>8
    <3>2. /\ reqs[d][j].id <= calls /\ done[reqs[d][j].id] = "no"
          /\ \A t \in Tasks : pc[t] \in Unsent => callId[t] # reqs[d][j].id
          /\ \A m \in DOMAIN reqs[c] : reqs[c][m].id = reqs[d][j].id => c = d /\ m = j
      BY <2>9, <3>1 DEF OnceInv
    <3>3. r.id # reqs[d][j].id
      BY <2>1, <3>1, <3>2
    <3>4. reqs[d][j] \in Request
      BY <1>0, <3>1
    <3>5. reqs[d][j].id \in Calls
      BY <2>9, <3>1, <3>4 DEF Request
    <3>6. QED
      BY <2>2, <3>1, <3>2, <3>3, <3>5
  <2>10. ASSUME NEW d \in Conns, NEW k \in DOMAIN reqs'[d], reqs'[d][k].id # Handshake,
                NEW e \in Conns, NEW m \in DOMAIN reqs'[e], reqs'[e][m].id = reqs'[d][k].id
         PROVE  e = d /\ m = k
    <3> DEFINE j == IF d = c THEN k + 1 ELSE k
               n == IF e = c THEN m + 1 ELSE m
    <3>1. j \in DOMAIN reqs[d] /\ reqs'[d][k] = reqs[d][j] /\ (d = c => k \in Int)
      BY <2>8
    <3>2. n \in DOMAIN reqs[e] /\ reqs'[e][m] = reqs[e][n] /\ (e = c => m \in Int)
      BY <2>8
    <3>3. e = d /\ n = j
      BY <2>10, <3>1, <3>2 DEF OnceInv
    <3>4. QED
      BY <3>1, <3>2, <3>3
  <2>11. QED
    BY <1>0, <2>5, <2>6, <2>7, <2>9, <2>10 DEF OnceInv
<1>2. ASSUME done' = done, \A c \in Conns : reqs'[c] \in {reqs[c], <<>>} PROVE OnceInv'
  <2>1. \A c \in Conns : \A k \in DOMAIN reqs'[c] :
           k \in DOMAIN reqs[c] /\ reqs'[c][k] = reqs[c][k]
    BY <1>2
  <2>2. QED
    BY <1>0, <1>2, <2>1 DEF OnceInv, AtMostOnce
<1>3. ASSUME NEW c \in Conns, ServerHandle(c) PROVE OnceInv'
  BY <1>1, <1>3 DEF ServerHandle
<1>4. ASSUME NEW c \in Conns, ServerCoalesce(c) PROVE OnceInv'
  BY <1>1, <1>4 DEF ServerCoalesce
<1>5. ASSUME NEW c \in Conns, ServerSendFails(c) PROVE OnceInv'
  BY <1>1, <1>5 DEF ServerSendFails
<1>6. CASE ServerCrash \/ ServerRestart
  BY <1>2, <1>6 DEF ServerCrash, ServerRestart
<1>7. QED
  BY <1>3, <1>4, <1>5, <1>6 DEF ServerNext

\* Every call has a number of its own.
LEMMA IdStep ==
  ASSUME Typed, IdInv, NEW t \in Tasks, ClientStep(t) PROVE IdInv'
<1>0. calls \in Nat /\ callId \in [Tasks -> 0 .. MaxCalls] /\ MaxCalls \in Nat
  BY BoundsAssumption DEF Typed, TypeOK
<1>1. CASE Start(t)
  BY <1>0, <1>1 DEF Start, IdInv
<1>2. CASE ~Start(t)
  <2>1. UNCHANGED <<calls, callId>>
    BY <1>2 DEF ClientStep, Proceed, Start, GoTo, Lock, Dial, DialFails, Return,
      HandshakeWrite, Send, HandshakeWriteFails, HandshakeHeader, ReadChunk, HandshakeData,
      HandshakeTimeout, HandshakeBroken, Disconnect, Write, ReadHeader, Reply, ReadData,
      IoFails
  <2>2. QED
    BY <2>1 DEF IdInv
<1>3. QED
  BY <1>1, <1>2

\* A step that sends nothing and starts no call.
LEMMA OnceKept ==
  ASSUME OnceInv, UNCHANGED <<reqs, done, calls, callId>>,
         \A q \in Tasks : pc'[q] \in Unsent => pc[q] \in Unsent
  PROVE  OnceInv'
BY DEF OnceInv, AtMostOnce

\* The client sends a call once.
LEMMA OnceStep ==
  ASSUME Typed, IdInv, OnceInv, NEW t \in Tasks, ClientStep(t) PROVE OnceInv'
<1>0. /\ calls \in Nat /\ callId \in [Tasks -> 0 .. MaxCalls] /\ MaxCalls \in Nat
      /\ reqs \in [Conns -> Seq(Request)] /\ pc \in [Tasks -> PcStates] /\ ServerTypeOK
  BY BoundsAssumption DEF Typed, TypeOK, ServerTypeOK, PcStates
<1>1. CASE Start(t)
  <2>1. /\ calls' = calls + 1 /\ calls' \in Calls /\ callId' = [callId EXCEPT ![t] = calls + 1]
        /\ UNCHANGED <<reqs, done>> /\ \A q \in Tasks : q # t => pc'[q] = pc[q]
    BY <1>0, <1>1 DEF Start, GoTo, serverVars, Calls
  <2>2. done[calls + 1] = "no"
    BY <1>0, <2>1 DEF OnceInv
  <2>3. \A q \in Tasks : pc'[q] \in Unsent => done'[callId'[q]] = "no"
    BY <1>0, <2>1, <2>2 DEF OnceInv
  <2>4. ASSUME NEW c \in Conns, NEW k \in DOMAIN reqs[c], reqs[c][k].id # Handshake
        PROVE  /\ reqs[c][k].id <= calls /\ reqs[c][k].id \in Nat
               /\ \A q \in Tasks : pc'[q] \in Unsent => callId'[q] # reqs[c][k].id
    <3>1. reqs[c][k].id \in Nat
      <4>1. reqs[c][k] \in Request
        BY <1>0
      <4>2. QED
        BY <4>1 DEF Request, Calls, Handshake
    <3>2. /\ reqs[c][k].id <= calls
          /\ \A q \in Tasks : pc[q] \in Unsent => callId[q] # reqs[c][k].id
      BY <2>4 DEF OnceInv
    <3>3. QED
      BY <1>0, <2>1, <3>1, <3>2
  <2>5. AtMostOnce' /\ \A i \in Calls : i > calls' => done'[i] = "no"
    BY <1>0, <2>1 DEF OnceInv, AtMostOnce, Calls
  <2>6. QED
    BY <1>0, <2>1, <2>3, <2>4, <2>5 DEF OnceInv
<1>2. CASE Write(t) \/ HandshakeWrite(t)
  <2>1. PICK r \in Request :
          /\ r.id = (IF Write(t) THEN callId[t] ELSE Handshake)
          /\ reqs' = [reqs EXCEPT ![conn] = Append(@, r)]
          /\ UNCHANGED <<done, calls, callId>> /\ conn \in Conns
    <3>1. conn \in Conns
      BY <1>2 DEF Typed, TypeOK, ServerTypeOK, ConnInv, ConnStates, Write, HandshakeWrite
    <3>2. CASE Write(t)
      <4>1. [id |-> callId[t], cmd |-> cmd[t]] \in Request
        BY <3>2 DEF Write, Typed, CallInv, TypeOK, Request
      <4>2. QED
        BY <3>1, <3>2, <4>1 DEF Write, Send
    <3>3. CASE ~Write(t)
      <4>1. [id |-> Handshake, cmd |-> "BUILD_FEATURES"] \in Request
        BY DEF Commands, Request
      <4>2. QED
        BY <1>2, <3>1, <3>3, <4>1 DEF HandshakeWrite, Send
    <3>4. QED
      BY <3>2, <3>3
  <2>2. /\ pc[t] \in Unsent
        /\ \A q \in Tasks : pc'[q] \in Unsent => pc[q] \in Unsent /\ (q = t => ~Write(t))
    BY <1>0, <1>2 DEF Write, HandshakeWrite, GoTo, Unsent
  <2> DEFINE new == Len(reqs[conn]) + 1
  <2>3. \A c \in Conns : \A k \in DOMAIN reqs'[c] :
           \/ k \in DOMAIN reqs[c] /\ reqs'[c][k] = reqs[c][k]
           \/ c = conn /\ k = new /\ reqs'[c][k] = r
    <3>1. reqs[conn] \in Seq(Request)
      BY <1>0, <2>1
    <3>2. \A k \in DOMAIN Append(reqs[conn], r) :
             \/ k \in DOMAIN reqs[conn] /\ Append(reqs[conn], r)[k] = reqs[conn][k]
             \/ k = new /\ Append(reqs[conn], r)[k] = r
      BY <3>1, AppendProperties
    <3>3. QED
      BY <1>0, <2>1, <3>2
  <2>4. r.id # Handshake => Write(t) /\ r.id = callId[t] /\ r.id <= calls /\ done[r.id] = "no"
    BY <2>1, <2>2 DEF OnceInv, IdInv
  <2>5. r.id # Handshake => \A q \in Tasks : pc'[q] \in Unsent => callId[q] # r.id
    BY <1>0, <2>2, <2>4 DEF IdInv, Handshake
  <2>6. r.id # Handshake => \A c \in Conns : \A k \in DOMAIN reqs[c] : reqs[c][k].id # r.id
    BY <2>2, <2>4 DEF OnceInv
  <2>7. \A q \in Tasks : pc'[q] \in Unsent => done'[callId'[q]] = "no"
    BY <2>1, <2>2 DEF OnceInv
  <2>8. AtMostOnce' /\ \A i \in Calls : i > calls' => done'[i] = "no"
    BY <2>1 DEF OnceInv, AtMostOnce
  <2>9. ASSUME NEW c \in Conns, NEW k \in DOMAIN reqs'[c], reqs'[c][k].id # Handshake
        PROVE  /\ reqs'[c][k].id <= calls /\ done[reqs'[c][k].id] = "no"
               /\ \A q \in Tasks : pc'[q] \in Unsent => callId[q] # reqs'[c][k].id
    BY <2>2, <2>3, <2>4, <2>5, <2>9 DEF OnceInv
  <2>10. ASSUME NEW c \in Conns, NEW k \in DOMAIN reqs'[c], reqs'[c][k].id # Handshake,
                NEW d \in Conns, NEW m \in DOMAIN reqs'[d], reqs'[d][m].id = reqs'[c][k].id
         PROVE  d = c /\ m = k
    BY <2>3, <2>6, <2>10 DEF OnceInv
  <2>11. QED
    BY <2>1, <2>7, <2>8, <2>9, <2>10 DEF OnceInv
<1>3. CASE ~Start(t) /\ ~Write(t) /\ ~HandshakeWrite(t)
  <2>1. UNCHANGED <<reqs, done, calls, callId>>
    BY <1>3 DEF serverVars, ClientStep, Proceed, Start, GoTo, Lock, Dial, DialFails, Return,
      HandshakeWrite, Send, HandshakeWriteFails, HandshakeHeader, ReadChunk, HandshakeData,
      HandshakeTimeout, HandshakeBroken, Disconnect, Write, ReadHeader, Reply, ReadData,
      IoFails
  <2>2. \A q \in Tasks : pc'[q] \in Unsent => pc[q] \in Unsent
    BY <1>0, <1>3 DEF Unsent, ClientStep, Proceed, Start, GoTo, Lock, Dial, DialFails,
      Return, HandshakeWrite, Send, HandshakeWriteFails, HandshakeHeader, ReadChunk,
      HandshakeData, HandshakeTimeout, HandshakeBroken, Disconnect, Write, ReadHeader,
      Reply, ReadData, IoFails
  <2>3. QED
    BY <2>1, <2>2, OnceKept
<1>4. QED
  BY <1>1, <1>2, <1>3

(***************************************************************************)
(* The theorems.                                                           *)
(***************************************************************************)

\* The invariant holds of a client that has made no call.
LEMMA InitIInv == Init => IInv /\ IdInv /\ OnceInv
<1>1. SUFFICES ASSUME Init PROVE IInv /\ IdInv /\ OnceInv
  OBVIOUS
<1>2. TypeOK
  <2>1. ServerTypeOK
    BY <1>1, EmptySeq, BoundsAssumption DEF Init, ServerInit, ServerTypeOK
  <2>2. QED
    BY <1>1, <2>1, BoundsAssumption DEF Init, TypeOK, ConnStates, Commands, NoHead,
      Statuses, NoResult
<1>3. MutexInv /\ ConnInv /\ CallInv
  BY <1>1, TasksAssumption DEF Init, ServerInit, MutexInv, ConnInv, CallInv, Locked, ConnStates,
    Conns, NoConn
<1>4. WireInv /\ MisreadOnlyAfterSilentHandshake
  BY <1>1 DEF Init, ServerInit, WireInv, MisreadOnlyAfterSilentHandshake, NoResult
<1>5. IdInv
  BY <1>1 DEF Init, IdInv
<1>6. OnceInv
  BY <1>1 DEF Init, ServerInit, OnceInv, AtMostOnce, Unsent
<1>7. QED
  BY <1>2, <1>3, <1>4, <1>5, <1>6 DEF IInv, Typed

\* Every step of a task and of the server keeps it.
LEMMA NextIInv == IInv /\ [Next]_vars => IInv'
<1>1. ASSUME IInv, NEW t \in Tasks, ClientStep(t) PROVE IInv'
  BY <1>1, TypeStep, MutexStep, ConnStep, CallStep, WireStep, MisreadStep DEF IInv, Typed
<1>2. ASSUME IInv, UNCHANGED vars PROVE IInv'
  BY <1>2 DEF IInv, Typed, TypeOK, ServerTypeOK, MutexInv, ConnInv, CallInv, WireInv, Clear,
    AwaitsReply, AwaitsData, Expected, MisreadOnlyAfterSilentHandshake, vars, serverVars,
    clientVars
<1>3. QED
  BY <1>1, <1>2, ServerStep DEF Next, ClientStep

\* And what it needs for executing once.
LEMMA NextOnce == IInv /\ IdInv /\ OnceInv /\ [Next]_vars => IdInv' /\ OnceInv'
<1>1. ASSUME IInv, IdInv, OnceInv, NEW t \in Tasks, ClientStep(t) PROVE IdInv' /\ OnceInv'
  BY <1>1, IdStep, OnceStep DEF IInv
<1>2. ASSUME IInv, IdInv, OnceInv, ServerNext, UNCHANGED clientVars PROVE IdInv' /\ OnceInv'
  BY <1>2, ServerOnce DEF IInv, IdInv, clientVars
<1>3. ASSUME IdInv, OnceInv, UNCHANGED vars PROVE IdInv' /\ OnceInv'
  BY <1>3 DEF IdInv, OnceInv, AtMostOnce, vars, serverVars, clientVars
<1>4. QED
  BY <1>1, <1>2, <1>3 DEF Next, ClientStep

\* The invariant of the Python client.
THEOREM Invariance == Spec => [](IInv /\ IdInv /\ OnceInv)
BY InitIInv, NextIInv, NextOnce, PTL DEF Spec

\* Type correctness: call and connection numbers stay within their bounds, and what is taken
\* for a header is one, or a guess at one.
THEOREM TypeCorrect == Spec => []TypeOK
<1>1. IInv => TypeOK
  BY DEF IInv, Typed
<1>2. QED
  BY <1>1, Invariance, PTL

\* socket.py:156-158: a reply that is not to the request of its call was read on a connection
\* whose handshake was given up on a timeout.
THEOREM MisreadsAreExcused == Spec => []MisreadOnlyAfterSilentHandshake
<1>1. IInv => MisreadOnlyAfterSilentHandshake
  BY DEF IInv
<1>2. QED
  BY <1>1, Invariance, PTL

\* Between calls nothing is in flight on a connection whose handshake came to an end: every
\* other failure gives up the connection.
THEOREM QuietBetweenCalls == Spec => []QuietUnlessSilent
<1>1. IInv => QuietUnlessSilent
  BY DEF IInv, WireInv, Clear, QuietUnlessSilent
<1>2. QED
  BY <1>1, Invariance, PTL

\* No command is executed twice for one call, whatever is misread or lost.
THEOREM ExecutesAtMostOnce == Spec => []AtMostOnce
<1>1. OnceInv => AtMostOnce
  BY DEF OnceInv
<1>2. QED
  BY <1>1, Invariance, PTL

=============================================================================
