--------------------------- MODULE RpcClientProofs ---------------------------
(***************************************************************************)
(* Theorems about the Go client, for any number of goroutines, calls,      *)
(* connections and crashes.                                                *)
(*                                                                         *)
(* The invariants of RpcClient are not inductive.  What makes them so is   *)
(* the state of the wire: which requests and which reply chunks can be on  *)
(* the current connection, given where the holder of the mutex stands.     *)
(***************************************************************************)
EXTENDS RpcClient, TLAPS

\* The mutex: its holder is the one goroutine between Lock and Return.
MutexInv == \A p \in Callers : pc[p] \in Locked <=> owner = p

\* The connection is there exactly while it is used, and connections not opened
\* yet have never carried anything.
ConnInv ==
    /\ \A p \in Callers : /\ pc[p] = "dial" => conn = NoConn
                          /\ pc[p] \in ConnStates => conn # NoConn
    /\ conn <= conns
    /\ \A c \in Conns : c > conns => reqs[c] = <<>>

Clear == reqs[conn] = <<>> /\ stream = <<>>

\* One request waits for the server, or its reply, whole or cut short by a closed
\* connection, waits for the client, or neither will ever come.
AwaitsReply(id) ==
    \/ Clear
    \/ stream = <<>> /\ \E r \in Request : r.id = id /\ reqs[conn] = <<r>>
    \/ /\ reqs[conn] = <<>>
       /\ \E h \in Chunk :
             /\ h.part = "hdr" /\ h.id = id
             /\ \/ stream = <<h>>
                \/ /\ h.more
                   /\ \E d \in Chunk : d.part = "data" /\ d.id = id /\ stream = <<h, d>>

AwaitsData(id) ==
    /\ reqs[conn] = <<>>
    /\ head.id = id
    /\ \/ stream = <<>>
       \/ \E d \in Chunk : d.part = "data" /\ d.id = id /\ stream = <<d>>

Expected(p) == IF pc[p] \in {"hdr", "data"} THEN callId[p] ELSE Handshake

WireInv ==
    /\ QuietBetweenCalls
    /\ \A p \in Callers :
          /\ pc[p] \in {"hsWrite", "write"} => Clear
          /\ pc[p] \in {"hsHdr", "hdr"} => AwaitsReply(Expected(p))
          /\ pc[p] \in {"hsData", "data"} => AwaitsData(Expected(p))

CallInv == \A p \in Callers : pc[p] # "idle" => callId[p] \in Calls

IInv ==
    /\ TypeOK
    /\ MutexInv
    /\ ConnInv
    /\ WireInv
    /\ CallInv
    /\ OneOutstanding
    /\ ErrorMatchesConnection

\* A step that leaves the server alone keeps its type.
LEMMA ServerStutter == ASSUME ServerTypeOK, UNCHANGED <<serverVars, conn>> PROVE ServerTypeOK'
BY DEF ServerTypeOK, serverVars

\* GoTo keeps pc a function into PcStates.
LEMMA GoToType ==
    ASSUME pc \in [Callers -> PcStates], NEW p \in Callers, NEW l \in PcStates, GoTo(p, l)
    PROVE  pc' \in [Callers -> PcStates]
BY DEF GoTo

\* Return keeps the types of what it assigns.
LEMMA ReturnType ==
    ASSUME TypeOK, NEW p \in Callers, NEW kind \in {"ok", "err", "fail"},
           NEW id \in 0 .. MaxCalls, Return(p, kind, id)
    PROVE  /\ owner' \in Callers \cup {NoCaller}
           /\ pc' \in [Callers -> PcStates]
           /\ head' \in Chunk \cup {NoHead}
           /\ result' \in [Callers -> Results]
<1>1. pc \in [Callers -> PcStates] /\ result \in [Callers -> Results] /\ conn \in Conns \cup {NoConn}
  BY DEF TypeOK, ServerTypeOK
<1>2. [kind |-> kind, id |-> id, on |-> conn] \in Results
  BY <1>1 DEF Results
<1>3. result' \in [Callers -> Results]
  BY <1>1, <1>2 DEF Return
<1>4. pc' \in [Callers -> PcStates]
  BY <1>1, GoToType DEF Return, PcStates
<1>5. QED
  BY <1>3, <1>4 DEF Return

\* The chunk a read takes is a chunk, and what is left is a sequence of them.
LEMMA ChunkType ==
    ASSUME ServerTypeOK, stream # <<>>
    PROVE  /\ Head(stream) \in Chunk
           /\ Tail(stream) \in Seq(Chunk)
           /\ Head(stream).id \in 0 .. MaxCalls
           /\ Head(stream).status \in {"ok", "err"}
           /\ Head(stream).more \in BOOLEAN
<1>1. Head(stream) \in Chunk /\ Tail(stream) \in Seq(Chunk)
  BY DEF ServerTypeOK
<1>2. QED
  BY <1>1, BoundsAssumption DEF Chunk, Calls, Handshake, Statuses

\* Sending a well-typed request keeps the server's type.
LEMMA SendType ==
    ASSUME ServerTypeOK, conn # NoConn, NEW p \in Callers,
           NEW id \in Calls \cup {Handshake}, NEW k \in Commands, Send(p, id, k)
    PROVE  ServerTypeOK'
<1>1. [id |-> id, cmd |-> k] \in Request
  BY DEF Request
<1>2. reqs[conn] \in Seq(Request)
  BY DEF ServerTypeOK
<1>3. Append(reqs[conn], [id |-> id, cmd |-> k]) \in Seq(Request)
  BY <1>1, <1>2
<1>4. QED
  BY <1>3 DEF Send, ServerTypeOK

\* Mutual exclusion: only one goroutine stands between Lock and Return.
LEMMA Others ==
    ASSUME IInv, NEW p \in Callers, pc[p] \in Locked
    PROVE  /\ owner = p /\ p # NoCaller
           /\ \A q \in Callers : q # p => pc[q] \notin Locked
BY CallersAssumption DEF IInv, MutexInv

\* Reading a header takes the header of the awaited reply and leaves at most its data.
LEMMA HeaderTaken ==
    ASSUME NEW id, AwaitsReply(id), ReadChunk
    PROVE  /\ reqs[conn] = <<>>
           /\ Head(stream).part = "hdr" /\ Head(stream).id = id
           /\ ~Head(stream).more => stream' = <<>>
           /\ \/ stream' = <<>>
              \/ \E d \in Chunk : d.part = "data" /\ d.id = id /\ stream' = <<d>>
<1>1. PICK h \in Chunk :
         /\ reqs[conn] = <<>> /\ h.part = "hdr" /\ h.id = id
         /\ \/ stream = <<h>>
            \/ h.more /\ \E d \in Chunk : d.part = "data" /\ d.id = id /\ stream = <<h, d>>
  BY DEF AwaitsReply, Clear, ReadChunk
<1>2. CASE stream = <<h>>
  BY <1>1, <1>2 DEF ReadChunk
<1>3. ASSUME h.more, NEW d \in Chunk, d.part = "data", d.id = id, stream = <<h, d>>
      PROVE  Head(stream) = h /\ stream' = <<d>>
  BY <1>3 DEF ReadChunk
<1>4. QED
  BY <1>1, <1>2, <1>3

\* Reading the data leaves the connection empty.
LEMMA DataTaken ==
    ASSUME NEW id, AwaitsData(id), ReadChunk
    PROVE  reqs[conn] = <<>> /\ stream' = <<>>
BY DEF AwaitsData, ReadChunk

\* A request on the current connection is the one the holder of the mutex waits on.
LEMMA WireBusy ==
    ASSUME IInv, conn \in Conns, reqs[conn] # <<>>
    PROVE  \E p \in Callers, r \in Request :
              /\ owner = p /\ pc[p] \in {"hsHdr", "hdr"}
              /\ r.id = Expected(p)
              /\ reqs[conn] = <<r>> /\ stream = <<>>
<1>1. owner \in Callers
  BY BoundsAssumption DEF IInv, TypeOK, WireInv, QuietBetweenCalls, Conns, NoConn
<1>2. pc[owner] \in {"hsHdr", "hdr"}
  BY <1>1, BoundsAssumption DEF IInv, MutexInv, ConnInv, WireInv, Clear, AwaitsData, Locked, ConnStates, Conns, NoConn
<1>3. AwaitsReply(Expected(owner))
  BY <1>1, <1>2 DEF IInv, WireInv
<1>4. QED
  BY <1>1, <1>2, <1>3 DEF AwaitsReply, Clear

\* The wire invariant survives a step that moves nobody who uses the wire.
LEMMA WireKept ==
    ASSUME WireInv, QuietBetweenCalls', UNCHANGED <<reqs, conn, stream, head>>,
           \A q \in Callers : pc'[q] \in ConnStates => pc'[q] = pc[q] /\ callId'[q] = callId[q]
    PROVE  WireInv'
<1>1. ASSUME NEW q \in Callers, pc'[q] \in {"hsWrite", "write"} PROVE Clear'
  BY <1>1 DEF WireInv, Clear, ConnStates
<1>2. ASSUME NEW q \in Callers, pc'[q] \in {"hsHdr", "hdr"} PROVE AwaitsReply(Expected(q))'
  <2>1. AwaitsReply(Expected(q)) /\ pc'[q] = pc[q] /\ callId'[q] = callId[q]
    BY <1>2 DEF WireInv, ConnStates
  <2>2. QED
    BY <2>1 DEF AwaitsReply, Clear, Expected
<1>3. ASSUME NEW q \in Callers, pc'[q] \in {"hsData", "data"} PROVE AwaitsData(Expected(q))'
  <2>1. AwaitsData(Expected(q)) /\ pc'[q] = pc[q] /\ callId'[q] = callId[q]
    BY <1>3 DEF WireInv, ConnStates
  <2>2. QED
    BY <2>1 DEF AwaitsData, Expected
<1>4. QED
  BY <1>1, <1>2, <1>3 DEF WireInv

\* Start preserves the inductive invariant.
LEMMA StartStep == ASSUME IInv, NEW p \in Callers, Start(p) PROVE IInv'
<1> USE BoundsAssumption, CallersAssumption DEF Locked, ConnStates, PcStates, Conns, NoConn, Calls, Handshake
<1>1. TypeOK'
  <2>1. ServerTypeOK'
    BY ServerStutter DEF Start, IInv, TypeOK
  <2>2. calls' \in 0 .. MaxCalls
    BY DEF Start, IInv, TypeOK
  <2>3. callId' \in [Callers -> 0 .. MaxCalls]
    BY <2>2 DEF Start, IInv, TypeOK
  <2>4. pc' \in [Callers -> PcStates]
    BY GoToType DEF Start, IInv, TypeOK
  <2>5. QED
    BY <2>1, <2>2, <2>3, <2>4 DEF Start, IInv, TypeOK
<1>2. MutexInv'
  BY DEF IInv, TypeOK, MutexInv, Start, GoTo
<1>3. ConnInv'
  BY DEF IInv, TypeOK, ServerTypeOK, MutexInv, ConnInv, Start, GoTo, serverVars
<1>4. WireInv'
  <2>1. \A q \in Callers : pc'[q] \in ConnStates => pc'[q] = pc[q] /\ callId'[q] = callId[q]
    BY DEF Start, GoTo, IInv, TypeOK
  <2>2. UNCHANGED <<reqs, conn, stream, head>> /\ QuietBetweenCalls'
    BY DEF Start, IInv, WireInv, QuietBetweenCalls, serverVars
  <2>3. QED
    BY <2>1, <2>2, WireKept DEF IInv
<1>5. CallInv'
  BY DEF IInv, TypeOK, CallInv, Start, GoTo
<1>6. OneOutstanding'
  BY DEF IInv, TypeOK, OneOutstanding, Start, GoTo, serverVars
<1>7. ErrorMatchesConnection'
  BY DEF IInv, TypeOK, MutexInv, ConnInv, ErrorMatchesConnection, Start, GoTo, serverVars
<1>8. QED
  BY <1>1, <1>2, <1>3, <1>4, <1>5, <1>6, <1>7 DEF IInv

\* Lock preserves the inductive invariant.
LEMMA LockStep == ASSUME IInv, NEW p \in Callers, Lock(p) PROVE IInv'
<1> USE BoundsAssumption, CallersAssumption DEF Locked, ConnStates, PcStates, Conns, NoConn, Calls, Handshake
<1>1. TypeOK'
  <2>1. ServerTypeOK'
    BY ServerStutter DEF Lock, IInv, TypeOK
  <2>2. pc' \in [Callers -> PcStates]
    BY GoToType DEF Lock, IInv, TypeOK
  <2>3. QED
    BY <2>1, <2>2 DEF Lock, IInv, TypeOK
<1>2. MutexInv'
  BY DEF IInv, TypeOK, MutexInv, Lock, GoTo
<1>3. ConnInv'
  BY DEF IInv, TypeOK, ServerTypeOK, MutexInv, ConnInv, Lock, GoTo, serverVars
<1>4. WireInv'
  BY DEF IInv, TypeOK, ServerTypeOK, MutexInv, ConnInv, WireInv, QuietBetweenCalls, Clear, AwaitsReply, AwaitsData, Expected, Lock, GoTo, serverVars
<1>5. CallInv'
  BY DEF IInv, TypeOK, CallInv, Lock, GoTo
<1>6. OneOutstanding'
  BY DEF IInv, TypeOK, OneOutstanding, Lock, GoTo, serverVars
<1>7. ErrorMatchesConnection'
  BY DEF IInv, TypeOK, MutexInv, ConnInv, ErrorMatchesConnection, Lock, GoTo, serverVars
<1>8. QED
  BY <1>1, <1>2, <1>3, <1>4, <1>5, <1>6, <1>7 DEF IInv

\* Dial preserves the inductive invariant.
LEMMA DialStep == ASSUME IInv, NEW p \in Callers, Dial(p) PROVE IInv'
<1> USE BoundsAssumption, CallersAssumption DEF Locked, ConnStates, PcStates, Conns, NoConn, Calls, Handshake
<1>1. TypeOK'
  <2>1. conns' \in Conns
    BY DEF Dial, IInv, TypeOK
  <2>2. ServerTypeOK'
    BY <2>1 DEF Dial, IInv, TypeOK, ServerTypeOK
  <2>3. pc' \in [Callers -> PcStates]
    BY GoToType DEF Dial, IInv, TypeOK
  <2>4. QED
    BY <2>1, <2>2, <2>3 DEF Dial, IInv, TypeOK
<1>2. MutexInv'
  BY DEF IInv, TypeOK, MutexInv, Dial, GoTo
<1>3. ConnInv'
  <2>1. conns' \in Nat /\ conns' = conns + 1 /\ conns \in Nat
    BY DEF Dial, IInv, TypeOK
  <2>2. pc' = [pc EXCEPT ![p] = "hsWrite"] /\ pc \in [Callers -> PcStates]
    BY DEF Dial, GoTo, IInv, TypeOK
  <2>3. \A q \in Callers : q # p => pc[q] \notin Locked
    BY Others DEF Dial
  <2>4. QED
    BY <2>1, <2>2, <2>3 DEF Dial, IInv, ConnInv
<1>4. WireInv'
  BY DEF IInv, TypeOK, ServerTypeOK, MutexInv, ConnInv, WireInv, QuietBetweenCalls, Clear, AwaitsReply, AwaitsData, Expected, Dial, GoTo, serverVars
<1>5. CallInv'
  BY DEF IInv, TypeOK, CallInv, Dial, GoTo
<1>6. OneOutstanding'
  BY DEF IInv, TypeOK, OneOutstanding, Dial, GoTo, serverVars
<1>7. ErrorMatchesConnection'
  BY DEF IInv, TypeOK, MutexInv, ConnInv, ErrorMatchesConnection, Dial, GoTo, serverVars
<1>8. QED
  BY <1>1, <1>2, <1>3, <1>4, <1>5, <1>6, <1>7 DEF IInv

\* DialFails preserves the inductive invariant.
LEMMA DialFailsStep == ASSUME IInv, NEW p \in Callers, DialFails(p) PROVE IInv'
<1> USE BoundsAssumption, CallersAssumption DEF Locked, ConnStates, PcStates, Conns, NoConn, Calls, Handshake
<1>1. TypeOK'
  <2>1. ServerTypeOK'
    BY ServerStutter DEF DialFails, IInv, TypeOK
  <2>2. QED
    BY <2>1, ReturnType DEF DialFails, IInv, TypeOK
<1>2. MutexInv'
  BY DEF IInv, TypeOK, MutexInv, DialFails, Return, GoTo
<1>3. ConnInv'
  BY DEF IInv, TypeOK, ServerTypeOK, MutexInv, ConnInv, DialFails, Return, GoTo, serverVars
<1>4. WireInv'
  BY DEF IInv, TypeOK, ServerTypeOK, MutexInv, ConnInv, WireInv, QuietBetweenCalls, Clear, AwaitsReply, AwaitsData, Expected, DialFails, Return, GoTo, serverVars
<1>5. CallInv'
  BY DEF IInv, TypeOK, CallInv, DialFails, Return, GoTo
<1>6. OneOutstanding'
  BY DEF IInv, TypeOK, OneOutstanding, DialFails, Return, GoTo, serverVars
<1>7. ErrorMatchesConnection'
  BY DEF IInv, TypeOK, MutexInv, ConnInv, ErrorMatchesConnection, DialFails, Return, GoTo, serverVars
<1>8. QED
  BY <1>1, <1>2, <1>3, <1>4, <1>5, <1>6, <1>7 DEF IInv

\* HandshakeWrite preserves the inductive invariant.
LEMMA HandshakeWriteStep == ASSUME IInv, NEW p \in Callers, HandshakeWrite(p) PROVE IInv'
<1> USE BoundsAssumption, CallersAssumption DEF Locked, ConnStates, PcStates, Conns, NoConn, Calls, Handshake
<1> DEFINE r == [id |-> Handshake, cmd |-> "BUILD_FEATURES"]
<1>0. /\ conn \in Conns /\ reqs[conn] = <<>> /\ stream = <<>>
      /\ owner = p /\ p # NoCaller /\ r \in Request
      /\ pc \in [Callers -> PcStates] /\ reqs \in [Conns -> Seq(Request)] /\ conns \in Nat
      /\ \A q \in Callers : q # p => pc[q] \notin Locked
  <2>1. conn \in Conns /\ reqs[conn] = <<>> /\ stream = <<>>
    BY DEF HandshakeWrite, IInv, TypeOK, ServerTypeOK, ConnInv, WireInv, Clear
  <2>2. r \in Request
    BY DEF Request, Commands, IInv, TypeOK, CallInv, HandshakeWrite
  <2>3. pc \in [Callers -> PcStates] /\ reqs \in [Conns -> Seq(Request)] /\ conns \in Nat
    BY DEF IInv, TypeOK, ServerTypeOK
  <2>4. /\ owner = p /\ p # NoCaller
        /\ \A q \in Callers : q # p => pc[q] \notin Locked
    BY Others DEF HandshakeWrite
  <2>5. QED
    BY <2>1, <2>2, <2>3, <2>4
<1>a. /\ reqs' = [reqs EXCEPT ![conn] = <<r>>]
      /\ UNCHANGED <<conn, conns, stream, owner, callId>>
      /\ pc' = [pc EXCEPT ![p] = "hsHdr"]
  BY <1>0 DEF HandshakeWrite, Send, GoTo
<1>1. TypeOK'
  <2>1. conn # NoConn
    BY DEF HandshakeWrite, IInv, ConnInv
  <2>2. ServerTypeOK'
    BY <2>1, SendType DEF HandshakeWrite, IInv, TypeOK, Commands
  <2>3. pc' \in [Callers -> PcStates]
    BY GoToType DEF HandshakeWrite, IInv, TypeOK
  <2>4. QED
    BY <2>2, <2>3 DEF HandshakeWrite, Send, IInv, TypeOK
<1>2. MutexInv'
  BY DEF IInv, TypeOK, MutexInv, HandshakeWrite, Send, GoTo
<1>3. ConnInv'
  BY <1>0, <1>a DEF HandshakeWrite, IInv, ConnInv
<1>4. WireInv'
  <2>1. AwaitsReply(Handshake)'
    BY <1>0, <1>a DEF AwaitsReply
  <2>2. QED
    BY <1>0, <1>a, <2>1 DEF WireInv, QuietBetweenCalls, Expected
<1>5. CallInv'
  BY DEF IInv, TypeOK, CallInv, HandshakeWrite, Send, GoTo
<1>6. OneOutstanding'
  BY <1>0, <1>a DEF IInv, OneOutstanding
<1>7. ErrorMatchesConnection'
  BY DEF IInv, TypeOK, MutexInv, ConnInv, ErrorMatchesConnection, HandshakeWrite, Send, GoTo, serverVars
<1>8. QED
  BY <1>1, <1>2, <1>3, <1>4, <1>5, <1>6, <1>7 DEF IInv

\* HandshakeHeader preserves the inductive invariant.
LEMMA HandshakeHeaderStep == ASSUME IInv, NEW p \in Callers, HandshakeHeader(p) PROVE IInv'
<1> USE BoundsAssumption, CallersAssumption DEF Locked, ConnStates, PcStates, Conns, NoConn, Calls, Handshake
<1>1. TypeOK'
  <2>1. Tail(stream) \in Seq(Chunk) /\ Head(stream) \in Chunk
    BY ChunkType DEF HandshakeHeader, ReadChunk, IInv, TypeOK
  <2>2. ServerTypeOK'
    BY <2>1 DEF HandshakeHeader, ReadChunk, IInv, TypeOK, ServerTypeOK
  <2>3. capsOf' \in Conns \cup {NoConn} /\ head' \in Chunk \cup {NoHead}
    BY <2>1 DEF HandshakeHeader, HandshakeDone, IInv, TypeOK, ServerTypeOK
  <2>4. pc' \in [Callers -> PcStates]
    BY GoToType DEF HandshakeHeader, HandshakeDone, IInv, TypeOK
  <2>5. QED
    BY <2>2, <2>3, <2>4 DEF HandshakeHeader, IInv, TypeOK
<1>2. MutexInv'
  BY DEF IInv, TypeOK, MutexInv, HandshakeHeader, ReadChunk, HandshakeDone, GoTo
<1>3. ConnInv'
  BY DEF IInv, TypeOK, ServerTypeOK, MutexInv, ConnInv, HandshakeHeader, ReadChunk, HandshakeDone, GoTo, serverVars
<1>4. WireInv'
  <2>0. /\ owner = p /\ p # NoCaller
        /\ \A q \in Callers : q # p => pc[q] \notin Locked
        /\ pc \in [Callers -> PcStates]
    BY Others DEF HandshakeHeader, IInv, TypeOK
  <2>1. AwaitsReply(Handshake)
    BY DEF HandshakeHeader, IInv, WireInv, Expected
  <2>2. /\ reqs[conn] = <<>> /\ Head(stream).id = Handshake
        /\ ~Head(stream).more => stream' = <<>>
        /\ \/ stream' = <<>>
           \/ \E d \in Chunk : d.part = "data" /\ d.id = Handshake /\ stream' = <<d>>
    BY <2>1, HeaderTaken DEF HandshakeHeader
  <2>3. UNCHANGED <<reqs, conn, owner>>
    BY DEF HandshakeHeader
  <2>4. CASE Head(stream).more
    <3>1. pc' = [pc EXCEPT ![p] = "hsData"] /\ head' = Head(stream)
      BY <2>4 DEF HandshakeHeader, GoTo
    <3>2. AwaitsData(Handshake)'
      BY <2>2, <2>3, <3>1 DEF AwaitsData
    <3>3. QED
      BY <2>0, <2>3, <3>1, <3>2 DEF WireInv, QuietBetweenCalls, Expected
  <2>5. CASE ~Head(stream).more
    <3>1. pc' = [pc EXCEPT ![p] = "write"]
      BY <2>5 DEF HandshakeHeader, HandshakeDone, GoTo
    <3>2. Clear'
      BY <2>2, <2>3, <2>5 DEF Clear
    <3>3. QED
      BY <2>0, <2>3, <3>1, <3>2 DEF WireInv, QuietBetweenCalls, Expected
  <2>6. QED
    BY <2>4, <2>5
<1>5. CallInv'
  BY DEF IInv, TypeOK, CallInv, HandshakeHeader, ReadChunk, HandshakeDone, GoTo
<1>6. OneOutstanding'
  BY DEF IInv, TypeOK, OneOutstanding, HandshakeHeader, ReadChunk, HandshakeDone, GoTo, serverVars
<1>7. ErrorMatchesConnection'
  BY DEF IInv, TypeOK, MutexInv, ConnInv, ErrorMatchesConnection, HandshakeHeader, ReadChunk, HandshakeDone, GoTo, serverVars
<1>8. QED
  BY <1>1, <1>2, <1>3, <1>4, <1>5, <1>6, <1>7 DEF IInv

\* HandshakeData preserves the inductive invariant.
LEMMA HandshakeDataStep == ASSUME IInv, NEW p \in Callers, HandshakeData(p) PROVE IInv'
<1> USE BoundsAssumption, CallersAssumption DEF Locked, ConnStates, PcStates, Conns, NoConn, Calls, Handshake
<1>1. TypeOK'
  <2>1. Tail(stream) \in Seq(Chunk) /\ Head(stream) \in Chunk
    BY ChunkType DEF HandshakeData, ReadChunk, IInv, TypeOK
  <2>2. ServerTypeOK'
    BY <2>1 DEF HandshakeData, ReadChunk, IInv, TypeOK, ServerTypeOK
  <2>3. capsOf' \in Conns \cup {NoConn} /\ head' \in Chunk \cup {NoHead}
    BY <2>1 DEF HandshakeData, HandshakeDone, IInv, TypeOK, ServerTypeOK
  <2>4. pc' \in [Callers -> PcStates]
    BY GoToType DEF HandshakeData, HandshakeDone, IInv, TypeOK
  <2>5. QED
    BY <2>2, <2>3, <2>4 DEF HandshakeData, IInv, TypeOK
<1>2. MutexInv'
  BY DEF IInv, TypeOK, MutexInv, HandshakeData, ReadChunk, HandshakeDone, GoTo
<1>3. ConnInv'
  BY DEF IInv, TypeOK, ServerTypeOK, MutexInv, ConnInv, HandshakeData, ReadChunk, HandshakeDone, GoTo, serverVars
<1>4. WireInv'
  <2>0. /\ owner = p /\ p # NoCaller
        /\ \A q \in Callers : q # p => pc[q] \notin Locked
        /\ pc \in [Callers -> PcStates]
    BY Others DEF HandshakeData, IInv, TypeOK
  <2>1. AwaitsData(Handshake)
    BY DEF HandshakeData, IInv, WireInv, Expected
  <2>2. UNCHANGED <<reqs, conn, owner>> /\ pc' = [pc EXCEPT ![p] = "write"]
    BY DEF HandshakeData, HandshakeDone, GoTo
  <2>3. Clear'
    BY <2>1, <2>2, DataTaken DEF HandshakeData, Clear
  <2>4. QED
    BY <2>0, <2>2, <2>3 DEF WireInv, QuietBetweenCalls, Expected
<1>5. CallInv'
  BY DEF IInv, TypeOK, CallInv, HandshakeData, ReadChunk, HandshakeDone, GoTo
<1>6. OneOutstanding'
  BY DEF IInv, TypeOK, OneOutstanding, HandshakeData, ReadChunk, HandshakeDone, GoTo, serverVars
<1>7. ErrorMatchesConnection'
  BY DEF IInv, TypeOK, MutexInv, ConnInv, ErrorMatchesConnection, HandshakeData, ReadChunk, HandshakeDone, GoTo, serverVars
<1>8. QED
  BY <1>1, <1>2, <1>3, <1>4, <1>5, <1>6, <1>7 DEF IInv

\* Write preserves the inductive invariant.
LEMMA WriteStep == ASSUME IInv, NEW p \in Callers, Write(p) PROVE IInv'
<1> USE BoundsAssumption, CallersAssumption DEF Locked, ConnStates, PcStates, Conns, NoConn, Calls, Handshake
<1> DEFINE r == [id |-> callId[p], cmd |-> cmd[p]]
<1>0. /\ conn \in Conns /\ reqs[conn] = <<>> /\ stream = <<>>
      /\ owner = p /\ p # NoCaller /\ r \in Request
      /\ pc \in [Callers -> PcStates] /\ reqs \in [Conns -> Seq(Request)] /\ conns \in Nat
      /\ \A q \in Callers : q # p => pc[q] \notin Locked
  <2>1. conn \in Conns /\ reqs[conn] = <<>> /\ stream = <<>>
    BY DEF Write, IInv, TypeOK, ServerTypeOK, ConnInv, WireInv, Clear
  <2>2. r \in Request
    BY DEF Request, Commands, IInv, TypeOK, CallInv, Write
  <2>3. pc \in [Callers -> PcStates] /\ reqs \in [Conns -> Seq(Request)] /\ conns \in Nat
    BY DEF IInv, TypeOK, ServerTypeOK
  <2>4. /\ owner = p /\ p # NoCaller
        /\ \A q \in Callers : q # p => pc[q] \notin Locked
    BY Others DEF Write
  <2>5. QED
    BY <2>1, <2>2, <2>3, <2>4
<1>a. /\ reqs' = [reqs EXCEPT ![conn] = <<r>>]
      /\ UNCHANGED <<conn, conns, stream, owner, callId>>
      /\ pc' = [pc EXCEPT ![p] = "hdr"]
  BY <1>0 DEF Write, Send, GoTo
<1>1. TypeOK'
  <2>1. conn # NoConn /\ callId[p] \in Calls /\ cmd[p] \in Commands
    BY DEF Write, IInv, TypeOK, ConnInv, CallInv
  <2>2. ServerTypeOK'
    BY <2>1, SendType DEF Write, IInv, TypeOK
  <2>3. pc' \in [Callers -> PcStates]
    BY GoToType DEF Write, IInv, TypeOK
  <2>4. QED
    BY <2>2, <2>3 DEF Write, Send, IInv, TypeOK
<1>2. MutexInv'
  BY DEF IInv, TypeOK, MutexInv, Write, Send, GoTo
<1>3. ConnInv'
  BY <1>0, <1>a DEF Write, IInv, ConnInv
<1>4. WireInv'
  <2>1. AwaitsReply(callId[p])'
    BY <1>0, <1>a DEF AwaitsReply
  <2>2. QED
    BY <1>0, <1>a, <2>1 DEF WireInv, QuietBetweenCalls, Expected
<1>5. CallInv'
  BY DEF IInv, TypeOK, CallInv, Write, Send, GoTo
<1>6. OneOutstanding'
  BY <1>0, <1>a DEF IInv, OneOutstanding
<1>7. ErrorMatchesConnection'
  BY DEF IInv, TypeOK, MutexInv, ConnInv, ErrorMatchesConnection, Write, Send, GoTo, serverVars
<1>8. QED
  BY <1>1, <1>2, <1>3, <1>4, <1>5, <1>6, <1>7 DEF IInv

\* ReadHeader preserves the inductive invariant.
LEMMA ReadHeaderStep == ASSUME IInv, NEW p \in Callers, ReadHeader(p) PROVE IInv'
<1> USE BoundsAssumption, CallersAssumption DEF Locked, ConnStates, PcStates, Conns, NoConn, Calls, Handshake
<1>1. TypeOK'
  <2>1. /\ Tail(stream) \in Seq(Chunk) /\ Head(stream) \in Chunk
        /\ Head(stream).id \in 0 .. MaxCalls /\ Head(stream).status \in {"ok", "err"}
    BY ChunkType DEF ReadHeader, ReadChunk, IInv, TypeOK
  <2>2. ServerTypeOK'
    BY <2>1 DEF ReadHeader, ReadChunk, IInv, TypeOK, ServerTypeOK
  <2>3. CASE Head(stream).more
    <3>1. pc' \in [Callers -> PcStates]
      BY <2>3, GoToType DEF ReadHeader, IInv, TypeOK
    <3>2. QED
      BY <2>1, <2>2, <2>3, <3>1 DEF ReadHeader, IInv, TypeOK
  <2>4. CASE ~Head(stream).more
    <3>1. Reply(p, Head(stream).status, Head(stream).id)
      BY <2>4 DEF ReadHeader
    <3>2. QED
      BY <2>1, <2>2, <3>1, ReturnType DEF ReadHeader, Reply, IInv, TypeOK
  <2>5. QED
    BY <2>3, <2>4
<1>2. MutexInv'
  BY DEF IInv, TypeOK, MutexInv, ReadHeader, ReadChunk, Reply, Return, GoTo
<1>3. ConnInv'
  BY DEF IInv, TypeOK, ServerTypeOK, MutexInv, ConnInv, ReadHeader, ReadChunk, Reply, Return, GoTo, serverVars
<1>4. WireInv'
  <2>0. /\ owner = p /\ p # NoCaller
        /\ \A q \in Callers : q # p => pc[q] \notin Locked
        /\ pc \in [Callers -> PcStates]
    BY Others DEF ReadHeader, IInv, TypeOK
  <2>1. AwaitsReply(callId[p])
    BY DEF ReadHeader, IInv, WireInv, Expected
  <2>2. /\ reqs[conn] = <<>> /\ Head(stream).id = callId[p]
        /\ ~Head(stream).more => stream' = <<>>
        /\ \/ stream' = <<>>
           \/ \E d \in Chunk : d.part = "data" /\ d.id = callId[p] /\ stream' = <<d>>
    BY <2>1, HeaderTaken DEF ReadHeader
  <2>3. UNCHANGED <<reqs, conn, callId>>
    BY DEF ReadHeader
  <2>4. CASE Head(stream).more
    <3>1. pc' = [pc EXCEPT ![p] = "data"] /\ head' = Head(stream) /\ owner' = owner
      BY <2>4 DEF ReadHeader, GoTo
    <3>2. AwaitsData(callId[p])'
      BY <2>2, <2>3, <3>1 DEF AwaitsData
    <3>3. QED
      BY <2>0, <2>3, <3>1, <3>2 DEF WireInv, QuietBetweenCalls, Expected
  <2>5. CASE ~Head(stream).more
    <3>1. pc'[p] \in {"caps", "idle"} /\ \A q \in Callers : q # p => pc'[q] = pc[q]
      BY <2>0, <2>5 DEF ReadHeader, Reply, Return, GoTo
    <3>2. Clear'
      BY <2>2, <2>3, <2>5 DEF Clear
    <3>3. QED
      BY <2>0, <2>3, <3>1, <3>2 DEF WireInv, QuietBetweenCalls, Clear
  <2>6. QED
    BY <2>4, <2>5
<1>5. CallInv'
  BY DEF IInv, TypeOK, CallInv, ReadHeader, ReadChunk, Reply, Return, GoTo
<1>6. OneOutstanding'
  BY DEF IInv, TypeOK, OneOutstanding, ReadHeader, ReadChunk, Reply, Return, GoTo, serverVars
<1>7. ErrorMatchesConnection'
  BY DEF IInv, TypeOK, MutexInv, ConnInv, ErrorMatchesConnection, ReadHeader, ReadChunk, Reply, Return, GoTo, serverVars
<1>8. QED
  BY <1>1, <1>2, <1>3, <1>4, <1>5, <1>6, <1>7 DEF IInv

\* ReadData preserves the inductive invariant.
LEMMA ReadDataStep == ASSUME IInv, NEW p \in Callers, ReadData(p) PROVE IInv'
<1> USE BoundsAssumption, CallersAssumption DEF Locked, ConnStates, PcStates, Conns, NoConn, Calls, Handshake
<1>1. TypeOK'
  <2>1. /\ Tail(stream) \in Seq(Chunk)
        /\ head.id \in 0 .. MaxCalls /\ head.status \in {"ok", "err"}
    BY ChunkType DEF ReadData, ReadChunk, IInv, TypeOK, NoHead, Chunk, Statuses
  <2>2. ServerTypeOK'
    BY <2>1 DEF ReadData, ReadChunk, IInv, TypeOK, ServerTypeOK
  <2>3. QED
    BY <2>1, <2>2, ReturnType DEF ReadData, Reply, IInv, TypeOK
<1>2. MutexInv'
  BY DEF IInv, TypeOK, MutexInv, ReadData, ReadChunk, Reply, Return, GoTo
<1>3. ConnInv'
  BY DEF IInv, TypeOK, ServerTypeOK, MutexInv, ConnInv, ReadData, ReadChunk, Reply, Return, GoTo, serverVars
<1>4. WireInv'
  <2>0. /\ owner = p /\ p # NoCaller
        /\ \A q \in Callers : q # p => pc[q] \notin Locked
        /\ pc \in [Callers -> PcStates]
    BY Others DEF ReadData, IInv, TypeOK
  <2>1. AwaitsData(callId[p])
    BY DEF ReadData, IInv, WireInv, Expected
  <2>2. UNCHANGED <<reqs, conn>>
    BY DEF ReadData
  <2>3. Clear'
    BY <2>1, <2>2, DataTaken DEF ReadData, Clear
  <2>4. pc'[p] \in {"caps", "idle"} /\ \A q \in Callers : q # p => pc'[q] = pc[q]
    BY <2>0 DEF ReadData, Reply, Return, GoTo
  <2>5. QED
    BY <2>0, <2>2, <2>3, <2>4 DEF WireInv, QuietBetweenCalls, Clear
<1>5. CallInv'
  BY DEF IInv, TypeOK, CallInv, ReadData, ReadChunk, Reply, Return, GoTo
<1>6. OneOutstanding'
  BY DEF IInv, TypeOK, OneOutstanding, ReadData, ReadChunk, Reply, Return, GoTo, serverVars
<1>7. ErrorMatchesConnection'
  BY DEF IInv, TypeOK, MutexInv, ConnInv, ErrorMatchesConnection, ReadData, ReadChunk, Reply, Return, GoTo, serverVars
<1>8. QED
  BY <1>1, <1>2, <1>3, <1>4, <1>5, <1>6, <1>7 DEF IInv

\* IoFails preserves the inductive invariant.
LEMMA IoFailsStep == ASSUME IInv, NEW p \in Callers, IoFails(p) PROVE IInv'
<1> USE BoundsAssumption, CallersAssumption DEF Locked, ConnStates, PcStates, Conns, NoConn, Calls, Handshake
<1>1. TypeOK'
  <2>1. <<>> \in Seq(Chunk)
    OBVIOUS
  <2>2. ServerTypeOK'
    BY <2>1 DEF IoFails, Disconnect, IInv, TypeOK, ServerTypeOK
  <2>3. QED
    BY <2>2, ReturnType DEF IoFails, Disconnect, IInv, TypeOK
<1>2. MutexInv'
  BY DEF IInv, TypeOK, MutexInv, IoFails, Disconnect, Return, GoTo
<1>3. ConnInv'
  BY DEF IInv, TypeOK, ServerTypeOK, MutexInv, ConnInv, IoFails, Disconnect, Return, GoTo, serverVars
<1>4. WireInv'
  BY DEF IInv, TypeOK, ServerTypeOK, MutexInv, ConnInv, WireInv, QuietBetweenCalls, Clear, AwaitsReply, AwaitsData, Expected, IoFails, Disconnect, Return, GoTo, serverVars
<1>5. CallInv'
  BY DEF IInv, TypeOK, CallInv, IoFails, Disconnect, Return, GoTo
<1>6. OneOutstanding'
  BY DEF IInv, TypeOK, OneOutstanding, IoFails, Disconnect, Return, GoTo, serverVars
<1>7. ErrorMatchesConnection'
  BY DEF IInv, TypeOK, MutexInv, ConnInv, ErrorMatchesConnection, IoFails, Disconnect, Return, GoTo, serverVars
<1>8. QED
  BY <1>1, <1>2, <1>3, <1>4, <1>5, <1>6, <1>7 DEF IInv

\* StoreCaps preserves the inductive invariant.
LEMMA StoreCapsStep == ASSUME IInv, NEW p \in Callers, StoreCaps(p) PROVE IInv'
<1> USE BoundsAssumption, CallersAssumption DEF Locked, ConnStates, PcStates, Conns, NoConn, Calls, Handshake
<1>1. TypeOK'
  <2>1. ServerTypeOK'
    BY ServerStutter DEF StoreCaps, IInv, TypeOK
  <2>2. capsOf' \in Conns \cup {NoConn}
    BY DEF StoreCaps, IInv, TypeOK, Results
  <2>3. pc' \in [Callers -> PcStates]
    BY GoToType DEF StoreCaps, IInv, TypeOK
  <2>4. QED
    BY <2>1, <2>2, <2>3 DEF StoreCaps, IInv, TypeOK
<1>2. MutexInv'
  BY DEF IInv, TypeOK, MutexInv, StoreCaps, GoTo
<1>3. ConnInv'
  BY DEF IInv, TypeOK, ServerTypeOK, MutexInv, ConnInv, StoreCaps, GoTo, serverVars
<1>4. WireInv'
  <2>1. \A q \in Callers : pc'[q] \in ConnStates => pc'[q] = pc[q] /\ callId'[q] = callId[q]
    BY DEF StoreCaps, GoTo, IInv, TypeOK
  <2>2. UNCHANGED <<reqs, conn, stream, head>> /\ QuietBetweenCalls'
    BY DEF StoreCaps, IInv, WireInv, QuietBetweenCalls, serverVars
  <2>3. QED
    BY <2>1, <2>2, WireKept DEF IInv
<1>5. CallInv'
  BY DEF IInv, TypeOK, CallInv, StoreCaps, GoTo
<1>6. OneOutstanding'
  BY DEF IInv, TypeOK, OneOutstanding, StoreCaps, GoTo, serverVars
<1>7. ErrorMatchesConnection'
  BY DEF IInv, TypeOK, MutexInv, ConnInv, ErrorMatchesConnection, StoreCaps, GoTo, serverVars
<1>8. QED
  BY <1>1, <1>2, <1>3, <1>4, <1>5, <1>6, <1>7 DEF IInv

\* Close preserves the inductive invariant.
LEMMA CloseStep == ASSUME IInv, NEW p \in Callers, Close(p) PROVE IInv'
<1> USE BoundsAssumption, CallersAssumption DEF Locked, ConnStates, PcStates, Conns, NoConn, Calls, Handshake
<1>1. TypeOK'
  <2>1. <<>> \in Seq(Chunk)
    OBVIOUS
  <2>2. ServerTypeOK'
    BY <2>1 DEF Close, Disconnect, IInv, TypeOK, ServerTypeOK
  <2>3. QED
    BY <2>2 DEF Close, Disconnect, IInv, TypeOK
<1>2. MutexInv'
  BY DEF IInv, TypeOK, MutexInv, Close, Disconnect
<1>3. ConnInv'
  BY DEF IInv, TypeOK, ServerTypeOK, MutexInv, ConnInv, Close, Disconnect, serverVars
<1>4. WireInv'
  BY DEF IInv, TypeOK, ServerTypeOK, MutexInv, ConnInv, WireInv, QuietBetweenCalls, Clear, AwaitsReply, AwaitsData, Expected, Close, Disconnect, serverVars
<1>5. CallInv'
  BY DEF IInv, TypeOK, CallInv, Close, Disconnect
<1>6. OneOutstanding'
  BY DEF IInv, TypeOK, OneOutstanding, Close, Disconnect, serverVars
<1>7. ErrorMatchesConnection'
  BY DEF IInv, TypeOK, MutexInv, ConnInv, ErrorMatchesConnection, Close, Disconnect, serverVars
<1>8. QED
  BY <1>1, <1>2, <1>3, <1>4, <1>5, <1>6, <1>7 DEF IInv


(***************************************************************************)
(* The server's steps.  A server can only touch the current connection     *)
(* while a request waits on it, that is while the holder of the mutex      *)
(* waits for the header of the reply.                                      *)
(***************************************************************************)
LEMMA TailOfOne ==
    ASSUME NEW S, NEW s \in Seq(S), s # <<>>, Len(s) <= 1
    PROVE  Tail(s) = <<>>
<1>1. Len(s) \in Nat
  OBVIOUS
<1>2. Len(s) # 0
  OBVIOUS
<1>3. Tail(s) \in Seq(S) /\ Len(Tail(s)) = 0
  BY <1>1, <1>2
<1>4. QED
  BY <1>3

\* One and two elements make a sequence.
LEMMA ShortSeqs ==
    ASSUME NEW S, NEW x \in S, NEW y \in S
    PROVE  <<x>> \in Seq(S) /\ <<x, y>> \in Seq(S)
OBVIOUS

\* Concatenation with the empty sequence.
LEMMA EmptyConcat == ASSUME NEW S, NEW t \in Seq(S) PROVE <<>> \o t = t
OBVIOUS

\* Headers and data of a reply are chunks with the request's number.
LEMMA FrameType ==
    ASSUME NEW r \in Request, NEW st \in Statuses
    PROVE  /\ \A more \in BOOLEAN :
                 /\ Header(r, st, more) \in Chunk /\ Header(r, st, more).id = r.id
                 /\ Header(r, st, more).part = "hdr" /\ Header(r, st, more).more = more
           /\ Data(r, st) \in Chunk /\ Data(r, st).id = r.id /\ Data(r, st).part = "data"
BY DEF Header, Data, Chunk, Request

\* The server takes a request and sends a reply, a part of it or nothing.
LEMMA ServerTakes ==
    ASSUME IInv, NEW c \in Conns, reqs[c] # <<>>, UNCHANGED <<conn, clientVars>>,
           \/ reqs' = [reqs EXCEPT ![c] = Tail(@)]
           \/ reqs' = [reqs EXCEPT ![c] = <<>>],
           \/ c # conn /\ stream' = stream
           \/ \E st \in Statuses, more \in BOOLEAN :
                 c = conn /\ stream' = stream \o Frame(Head(reqs[c]), st, more)
           \/ \E st \in Statuses :
                 c = conn /\ stream' = Append(stream, Header(Head(reqs[c]), st, TRUE))
           \/ c = conn /\ stream' = stream /\ reqs' = [reqs EXCEPT ![c] = <<>>],
           open' \in [Conns -> BOOLEAN], up' \in BOOLEAN, crashes' \in 0 .. MaxCrashes,
           done' \in [Calls -> {"no", "ok", "err", "twice"}]
    PROVE  IInv'
<1> USE BoundsAssumption, CallersAssumption DEF Locked, ConnStates, NoConn
<1>1. /\ reqs \in [Conns -> Seq(Request)] /\ stream \in Seq(Chunk)
      /\ reqs[c] \in Seq(Request)
  BY DEF IInv, TypeOK, ServerTypeOK
<1>2. Tail(reqs[c]) = <<>>
  <2>1. Len(reqs[c]) <= 1
    BY DEF IInv, OneOutstanding
  <2>2. QED
    BY <1>1, <2>1, TailOfOne
<1>3. reqs' = [reqs EXCEPT ![c] = <<>>] /\ reqs' \in [Conns -> Seq(Request)]
  <2>1. <<>> \in Seq(Request)
    OBVIOUS
  <2>2. QED
    BY <1>1, <1>2, <2>1
<1>4. CASE c # conn
  <2>1. stream' = stream /\ reqs' \in [Conns -> Seq(Request)]
    BY <1>3, <1>4
  <2>2. TypeOK'
    BY <2>1 DEF IInv, TypeOK, ServerTypeOK, clientVars
  <2>3. conn \in Conns => reqs'[conn] = reqs[conn]
    BY <1>1, <1>3, <1>4
  <2>4. WireInv'
    <3>1. QuietBetweenCalls'
      BY <2>1, <2>3 DEF IInv, TypeOK, ServerTypeOK, WireInv, QuietBetweenCalls, clientVars
    <3>2. ASSUME NEW q \in Callers, pc[q] \in ConnStates PROVE reqs'[conn] = reqs[conn]
      BY <2>3, <3>2 DEF IInv, ConnInv, TypeOK, ServerTypeOK
    <3>3. QED
      BY <2>1, <3>1, <3>2 DEF IInv, WireInv, AwaitsReply, AwaitsData, Clear, Expected, clientVars
  <2>5. MutexInv' /\ CallInv' /\ ErrorMatchesConnection'
    BY DEF IInv, MutexInv, CallInv, ErrorMatchesConnection, clientVars
  <2>6. ConnInv' /\ OneOutstanding'
    BY <1>1, <1>3 DEF IInv, ConnInv, OneOutstanding, clientVars
  <2>7. QED
    BY <2>2, <2>4, <2>5, <2>6 DEF IInv
<1>5. CASE c = conn
  <2>1. PICK p \in Callers, r \in Request :
           /\ owner = p /\ pc[p] \in {"hsHdr", "hdr"}
           /\ r.id = Expected(p)
           /\ reqs[conn] = <<r>> /\ stream = <<>>
    BY <1>5, WireBusy
  <2>2. Head(reqs[c]) = r /\ reqs'[conn] = <<>>
    BY <1>1, <1>3, <1>5, <2>1
  <2>3. \/ stream' = <<>>
        \/ \E h \in Chunk : h.part = "hdr" /\ h.id = r.id /\ stream' = <<h>>
        \/ \E h, d \in Chunk : /\ h.part = "hdr" /\ h.id = r.id /\ h.more
                               /\ d.part = "data" /\ d.id = r.id /\ stream' = <<h, d>>
    <3>1. CASE \E st \in Statuses, more \in BOOLEAN : stream' = stream \o Frame(r, st, more)
      <4>1. PICK st \in Statuses, more \in BOOLEAN : stream' = stream \o Frame(r, st, more)
        BY <3>1
      <4>2. /\ Header(r, st, TRUE) \in Chunk /\ Header(r, st, TRUE).id = r.id
            /\ Header(r, st, TRUE).part = "hdr" /\ Header(r, st, TRUE).more
            /\ Header(r, st, FALSE) \in Chunk /\ Header(r, st, FALSE).id = r.id
            /\ Header(r, st, FALSE).part = "hdr"
            /\ Data(r, st) \in Chunk /\ Data(r, st).id = r.id /\ Data(r, st).part = "data"
        BY <2>1, <4>1, FrameType
      <4>3. <<Header(r, st, TRUE), Data(r, st)>> \in Seq(Chunk) /\ <<Header(r, st, FALSE)>> \in Seq(Chunk)
        BY <4>2, ShortSeqs
      <4>4. CASE more
        <5>1. stream' = <<Header(r, st, TRUE), Data(r, st)>>
          BY <2>1, <4>1, <4>3, <4>4, EmptyConcat DEF Frame
        <5>2. QED
          BY <5>1, <4>2
      <4>5. CASE ~more
        <5>1. stream' = <<Header(r, st, FALSE)>>
          BY <2>1, <4>1, <4>3, <4>5, EmptyConcat DEF Frame
        <5>2. QED
          BY <5>1, <4>2
      <4>6. QED
        BY <4>4, <4>5
    <3>2. CASE \E st \in Statuses : stream' = Append(stream, Header(r, st, TRUE))
      <4>1. PICK st \in Statuses : stream' = Append(stream, Header(r, st, TRUE))
        BY <3>2
      <4>2. stream' = <<Header(r, st, TRUE)>>
        BY <2>1, <4>1
      <4>3. /\ Header(r, st, TRUE) \in Chunk /\ Header(r, st, TRUE).id = r.id
            /\ Header(r, st, TRUE).part = "hdr"
        BY <2>1, <4>1, FrameType
      <4>4. QED
        BY <4>2, <4>3
    <3>3. QED
      BY <1>5, <2>1, <2>2, <3>1, <3>2
  <2>4. stream' \in Seq(Chunk)
    <3>1. <<>> \in Seq(Chunk)
      OBVIOUS
    <3>2. \A h, d \in Chunk : <<h>> \in Seq(Chunk) /\ <<h, d>> \in Seq(Chunk)
      OBVIOUS
    <3>3. QED
      BY <2>3, <3>1, <3>2
  <2>5. TypeOK'
    BY <1>3, <2>4 DEF IInv, TypeOK, ServerTypeOK, clientVars
  <2>6. AwaitsReply(r.id)'
    BY <2>2, <2>3 DEF AwaitsReply, Clear
  <2>7. WireInv'
    <3>1. \A q \in Callers : q # p => pc[q] \notin Locked
      BY <2>1, Others
    <3>2. QED
      BY <2>1, <2>6, <3>1 DEF WireInv, QuietBetweenCalls, Expected, clientVars
  <2>8. MutexInv' /\ CallInv' /\ ErrorMatchesConnection'
    BY DEF IInv, MutexInv, CallInv, ErrorMatchesConnection, clientVars
  <2>9. ConnInv' /\ OneOutstanding'
    BY <1>1, <1>3 DEF IInv, ConnInv, OneOutstanding, clientVars
  <2>10. QED
    BY <2>5, <2>7, <2>8, <2>9 DEF IInv
<1>6. QED
  BY <1>4, <1>5

\* Executing a request keeps the type of done.
LEMMA ExecutedType ==
    ASSUME ServerTypeOK, NEW r, NEW st \in Statuses
    PROVE  Executed(r, st) \in [Calls -> {"no", "ok", "err", "twice"}]
BY DEF ServerTypeOK, Executed, Statuses

\* The server's steps preserve the inductive invariant.
LEMMA ServerStep == ASSUME IInv, ServerNext, UNCHANGED clientVars PROVE IInv'
<1> USE BoundsAssumption
<1>0. /\ open \in [Conns -> BOOLEAN] /\ up \in BOOLEAN /\ crashes \in 0 .. MaxCrashes
      /\ done \in [Calls -> {"no", "ok", "err", "twice"}] /\ ServerTypeOK
      /\ reqs \in [Conns -> Seq(Request)]
  BY DEF IInv, TypeOK, ServerTypeOK
<1>1. ASSUME NEW c \in Conns, ServerHandle(c) PROVE IInv'
  <2>1. done' \in [Calls -> {"no", "ok", "err", "twice"}]
    BY <1>0, <1>1, ExecutedType DEF ServerHandle
  <2>2. \/ c # conn /\ stream' = stream
        \/ \E st \in Statuses, more \in BOOLEAN :
              c = conn /\ stream' = stream \o Frame(Head(reqs[c]), st, more)
    BY <1>1 DEF ServerHandle
  <2>3. /\ reqs[c] # <<>> /\ reqs' = [reqs EXCEPT ![c] = Tail(@)]
        /\ UNCHANGED <<up, crashes, open, conn>>
    BY <1>1 DEF ServerHandle
  <2>4. QED
    BY <1>0, <2>1, <2>2, <2>3, ServerTakes
<1>2. ASSUME NEW c \in Conns, ServerCoalesce(c) PROVE FALSE
  <2>1. reqs[c] \in Seq(Request) /\ reqs[c] # <<>> /\ Len(reqs[c]) <= 1
    BY <1>0, <1>2 DEF IInv, OneOutstanding, ServerCoalesce
  <2>2. Tail(reqs[c]) = <<>>
    BY <2>1
  <2>3. DOMAIN Tail(reqs[c]) = {}
    BY <2>2
  <2>4. QED
    BY <1>2, <2>3 DEF ServerCoalesce, Coalesced
<1>3. ASSUME NEW c \in Conns, ServerSendFails(c) PROVE IInv'
  <2>1. done' \in [Calls -> {"no", "ok", "err", "twice"}]
    BY <1>0, <1>3, ExecutedType DEF ServerSendFails
  <2>2. \/ c # conn /\ stream' = stream
        \/ \E st \in Statuses :
              c = conn /\ stream' = Append(stream, Header(Head(reqs[c]), st, TRUE))
        \/ c = conn /\ stream' = stream /\ reqs' = [reqs EXCEPT ![c] = <<>>]
    BY <1>3 DEF ServerSendFails
  <2>3. /\ reqs[c] # <<>> /\ reqs' = [reqs EXCEPT ![c] = <<>>]
        /\ open' = [open EXCEPT ![c] = FALSE]
        /\ UNCHANGED <<up, crashes, conn>>
    BY <1>3 DEF ServerSendFails
  <2>4. open' \in [Conns -> BOOLEAN]
    BY <1>0, <2>3
  <2>5. QED
    BY <1>0, <2>1, <2>2, <2>3, <2>4, ServerTakes
<1>4. CASE ServerCrash
  <2>1. /\ \A c \in Conns : reqs'[c] = <<>>
        /\ reqs' \in [Conns -> Seq(Request)] /\ open' \in [Conns -> BOOLEAN]
        /\ UNCHANGED <<conn, stream, done>>
        /\ up' = FALSE /\ crashes' \in 0 .. MaxCrashes
    BY <1>0, <1>4 DEF ServerCrash
  <2>2. ServerTypeOK'
    BY <1>0, <2>1 DEF ServerTypeOK
  <2>9. TypeOK'
    BY <2>2 DEF IInv, TypeOK, clientVars
  <2>3. \A q \in Callers : pc[q] \in ConnStates => conn \in Conns
    BY DEF IInv, TypeOK, ServerTypeOK, ConnInv
  <2>4. WireInv'
    <3>1. QuietBetweenCalls'
      BY <2>1 DEF IInv, TypeOK, ServerTypeOK, WireInv, QuietBetweenCalls, clientVars
    <3>2. ASSUME NEW q \in Callers, pc[q] \in {"hsHdr", "hdr"} PROVE AwaitsReply(Expected(q))'
      <4>1. AwaitsReply(Expected(q)) /\ conn \in Conns
        BY <2>3, <3>2 DEF IInv, WireInv, ConnStates
      <4>2. QED
        BY <2>1, <4>1 DEF AwaitsReply, Clear, Expected, clientVars
    <3>3. ASSUME NEW q \in Callers, pc[q] \in {"hsData", "data"} PROVE AwaitsData(Expected(q))'
      <4>1. AwaitsData(Expected(q)) /\ conn \in Conns
        BY <2>3, <3>3 DEF IInv, WireInv, ConnStates
      <4>2. QED
        BY <2>1, <4>1 DEF AwaitsData, Expected, clientVars
    <3>4. ASSUME NEW q \in Callers, pc[q] \in {"hsWrite", "write"} PROVE Clear'
      BY <2>1, <2>3, <3>4 DEF IInv, WireInv, Clear, ConnStates
    <3>5. QED
      BY <3>1, <3>2, <3>3, <3>4 DEF WireInv, clientVars
  <2>5. MutexInv' /\ CallInv' /\ ErrorMatchesConnection' /\ ConnInv'
    BY <2>1 DEF IInv, MutexInv, CallInv, ErrorMatchesConnection, ConnInv, clientVars
  <2>6. OneOutstanding'
    BY <2>1 DEF OneOutstanding
  <2>7. QED
    BY <2>9, <2>4, <2>5, <2>6 DEF IInv
<1>5. CASE ServerRestart
  <2>1. UNCHANGED <<reqs, conn, stream, clientVars, crashes, open, done>> /\ up' = TRUE
    BY <1>5 DEF ServerRestart
  <2>2. TypeOK'
    BY <2>1 DEF IInv, TypeOK, ServerTypeOK, clientVars
  <2>3. QuietBetweenCalls'
    BY <2>1 DEF IInv, WireInv, QuietBetweenCalls, clientVars
  <2>4. WireInv'
    BY <2>1, <2>3, WireKept DEF IInv, clientVars
  <2>5. MutexInv' /\ CallInv' /\ ErrorMatchesConnection' /\ ConnInv' /\ OneOutstanding'
    BY <2>1 DEF IInv, MutexInv, CallInv, ErrorMatchesConnection, ConnInv, OneOutstanding, clientVars
  <2>6. QED
    BY <2>2, <2>4, <2>5 DEF IInv
<1>6. QED
  BY <1>1, <1>2, <1>3, <1>4, <1>5 DEF ServerNext

\* The inductive invariant holds initially.
LEMMA InitIInv == Init => IInv
<1> SUFFICES ASSUME Init PROVE IInv
  OBVIOUS
<1> USE BoundsAssumption DEF Init, ServerInit
<1>1. ServerTypeOK
  BY DEF ServerTypeOK
<1>2. TypeOK
  BY <1>1 DEF TypeOK, Results, NoResult, PcStates, Commands
<1>3. \A p \in Callers : pc[p] = "idle"
  OBVIOUS
<1>4. MutexInv
  BY <1>3, CallersAssumption DEF MutexInv, Locked, ConnStates
<1>5. ConnInv
  BY <1>3 DEF ConnInv, ConnStates, NoConn
<1>6. WireInv /\ CallInv
  BY <1>3 DEF WireInv, QuietBetweenCalls, CallInv
<1>7. OneOutstanding /\ ErrorMatchesConnection
  BY DEF OneOutstanding, ErrorMatchesConnection
<1>8. QED
  BY <1>2, <1>4, <1>5, <1>6, <1>7 DEF IInv

\* Every step preserves the inductive invariant.
LEMMA NextIInv == IInv /\ [Next]_vars => IInv'
<1> SUFFICES ASSUME IInv, [Next]_vars PROVE IInv'
  OBVIOUS
<1>1. CASE ServerNext /\ UNCHANGED clientVars
  BY <1>1, ServerStep
<1>2. ASSUME NEW p \in Callers, Start(p) \/ Lock(p) \/ Proceed(p) \/ StoreCaps(p) \/ Close(p)
      PROVE  IInv'
  BY <1>2, StartStep, LockStep, DialStep, DialFailsStep, HandshakeWriteStep, HandshakeHeaderStep,
     HandshakeDataStep, WriteStep, ReadHeaderStep, ReadDataStep, IoFailsStep, StoreCapsStep,
     CloseStep DEF Proceed
<1>3. CASE UNCHANGED vars
  <2>1. UNCHANGED <<serverVars, conn, clientVars>>
    BY <1>3 DEF vars
  <2>2. TypeOK'
    BY <2>1, ServerStutter DEF IInv, TypeOK, clientVars
  <2>3. UNCHANGED <<reqs, conn, stream, head>> /\ QuietBetweenCalls'
    BY <2>1 DEF serverVars, clientVars, IInv, WireInv, QuietBetweenCalls
  <2>4. WireInv'
    BY <2>1, <2>3, WireKept DEF IInv, clientVars
  <2>5. MutexInv' /\ CallInv' /\ ErrorMatchesConnection' /\ ConnInv' /\ OneOutstanding'
    BY <2>1 DEF IInv, MutexInv, CallInv, ErrorMatchesConnection, ConnInv, OneOutstanding,
                serverVars, clientVars
  <2>6. QED
    BY <2>2, <2>4, <2>5 DEF IInv
<1>4. QED
  BY <1>1, <1>2, <1>3 DEF Next

-----------------------------------------------------------------------------
\* The inductive invariant holds: the mutex, the connection and the wire agree
\* with where the holder of the mutex stands in Client.Call.
THEOREM Invariance == Spec => []IInv
BY InitIInv, NextIInv, PTL DEF Spec

\* Every variable keeps its type.
THEOREM TypeCorrect == Spec => []TypeOK
<1>1. IInv => TypeOK
  BY DEF IInv
<1>2. QED
  BY <1>1, Invariance, PTL

\* A goroutine never takes bytes of another exchange for its reply, however many
\* exchanges before it timed out.
THEOREM ReplyFraming == Spec => []RepliesInFrame
<1>1. IInv => RepliesInFrame
  <2> SUFFICES ASSUME IInv, NEW p \in Callers, stream # <<>>
               PROVE  /\ pc[p] \in {"hsHdr", "hdr"} =>
                            /\ Head(stream).part = "hdr"
                            /\ Head(stream).id = IF pc[p] = "hdr" THEN callId[p] ELSE Handshake
                      /\ pc[p] \in {"hsData", "data"} =>
                            /\ Head(stream).part = "data"
                            /\ Head(stream).id = head.id
    BY DEF RepliesInFrame
  <2>1. CASE pc[p] \in {"hsHdr", "hdr"}
    <3>1. AwaitsReply(Expected(p))
      BY <2>1 DEF IInv, WireInv
    <3>2. PICK h \in Chunk :
             /\ h.part = "hdr" /\ h.id = Expected(p)
             /\ stream = <<h>> \/ \E d \in Chunk : stream = <<h, d>>
      BY <3>1 DEF AwaitsReply, Clear
    <3>3. Head(stream) = h
      BY <3>2
    <3>4. QED
      BY <2>1, <3>2, <3>3 DEF Expected
  <2>2. CASE pc[p] \in {"hsData", "data"}
    <3>1. AwaitsData(Expected(p))
      BY <2>2 DEF IInv, WireInv
    <3>2. QED
      BY <2>2, <3>1 DEF AwaitsData
  <2>3. QED
    BY <2>1, <2>2
<1>2. QED
  BY <1>1, Invariance, PTL

\* A connection kept for the next call carries nothing of the calls before.
THEOREM Quiet == Spec => []QuietBetweenCalls
<1>1. IInv => QuietBetweenCalls
  BY DEF IInv, WireInv
<1>2. QED
  BY <1>1, Invariance, PTL

\* No connection, current or abandoned, holds more than one request.
THEOREM OneRequest == Spec => []OneOutstanding
<1>1. IInv => OneOutstanding
  BY DEF IInv
<1>2. QED
  BY <1>1, Invariance, PTL

\* After a failed exchange or dial there is no connection left to reuse.
THEOREM ErrorsDisconnect == Spec => []ErrorMatchesConnection
<1>1. IInv => ErrorMatchesConnection
  BY DEF IInv
<1>2. QED
  BY <1>1, Invariance, PTL

(***************************************************************************)
(* The client implements RpcService, and what it remembers of the features *)
(* belongs to its connection.  Besides the wire this needs the record of   *)
(* what was executed: which calls are queued, and which were carried out.  *)
(***************************************************************************)

Unsent == {"lock", "dial", "hsWrite", "hsHdr", "hsData", "write"}

Queued(c, i) == reqs[c] # <<>> /\ Head(reqs[c]).id = i

\* Calls have different numbers.
IdInv ==
    /\ \A p \in Callers : callId[p] <= calls
    /\ \A p, q \in Callers : p # q /\ callId[p] = callId[q] => callId[p] = 0

\* A call is queued at most once, on one connection, from Write until its only
\* execution, and not executed before.
ExecInv ==
    /\ \A p \in Callers : pc[p] \in Unsent =>
          done[callId[p]] = "no" /\ \A c \in Conns : ~Queued(c, callId[p])
    /\ \A c \in Conns, i \in Calls : Queued(c, i) => i <= calls /\ done[i] = "no"
    /\ \A c, d \in Conns, i \in Calls : Queued(c, i) /\ Queued(d, i) => c = d
    /\ \A i \in Calls : i > calls => done[i] = "no"

\* A header on its way, or read already, tells what its call came to.
TruthInv ==
    \A p \in Callers :
        /\ pc[p] = "hdr" /\ stream # <<>> => Head(stream).status = done[callId[p]]
        /\ pc[p] = "data" => head.status = done[callId[p]]

HInv == IdInv /\ ExecInv /\ TruthInv

\* With one goroutine, what BuildFeatures is about to store is the reply of the
\* connection that is still there.
CapsInv ==
    /\ CapsOfConnection
    /\ \A p \in Callers : pc[p] = "caps" => result[p].on = conn

\* The types the proofs below use.
LEMMA Types ==
    ASSUME IInv
    PROVE  /\ pc \in [Callers -> PcStates] /\ callId \in [Callers -> 0 .. MaxCalls]
           /\ calls \in 0 .. MaxCalls /\ conn \in Conns \cup {NoConn}
           /\ reqs \in [Conns -> Seq(Request)] /\ stream \in Seq(Chunk)
           /\ done \in [Calls -> {"no", "ok", "err", "twice"}]
           /\ result \in [Callers -> Results]
BY DEF IInv, TypeOK, ServerTypeOK

\* A step that executes, queues and numbers nothing keeps the record of executions.
LEMMA ExecKept ==
    ASSUME IdInv, ExecInv, UNCHANGED <<reqs, done, calls, callId>>,
           \A q \in Callers : pc'[q] \in Unsent => pc[q] \in Unsent
    PROVE  IdInv' /\ ExecInv'
BY DEF IdInv, ExecInv, Queued

\* Lock preserves HInv.
LEMMA LockHInv == ASSUME IInv, HInv, NEW p \in Callers, Lock(p) PROVE HInv'
<1>1. IdInv' /\ ExecInv'
  <2>1. UNCHANGED <<reqs, done, calls, callId>>
    BY DEF Lock, serverVars
  <2>2. \A q \in Callers : pc'[q] \in Unsent => pc[q] \in Unsent
    BY Types DEF Lock, GoTo, Unsent
  <2>3. QED
    BY <2>1, <2>2, ExecKept DEF HInv
<1>2. TruthInv'
  <2>1. \A q \in Callers : pc[q] \notin Locked
    BY CallersAssumption DEF Lock, IInv, MutexInv
  <2>2. QED
    BY <2>1, Types DEF Lock, GoTo, TruthInv, Locked, ConnStates
<1>3. QED
  BY <1>1, <1>2 DEF HInv

\* Dial preserves HInv.
LEMMA DialHInv == ASSUME IInv, HInv, NEW p \in Callers, Dial(p) PROVE HInv'
<1>1. IdInv' /\ ExecInv'
  <2>1. UNCHANGED <<reqs, done, calls, callId>>
    BY DEF Dial, serverVars
  <2>2. \A q \in Callers : pc'[q] \in Unsent => pc[q] \in Unsent
    BY Types DEF Dial, GoTo, Unsent
  <2>3. QED
    BY <2>1, <2>2, ExecKept DEF HInv
<1>2. TruthInv'
  <2>1. \A q \in Callers : q # p => pc[q] \notin Locked
    BY Others DEF Dial, Locked, ConnStates
  <2>2. \A q \in Callers : pc'[q] \notin {"hdr", "data"}
    BY <2>1, Types DEF Dial, GoTo, Locked, ConnStates
  <2>3. QED
    BY <2>2 DEF TruthInv
<1>3. QED
  BY <1>1, <1>2 DEF HInv

\* DialFails preserves HInv.
LEMMA DialFailsHInv == ASSUME IInv, HInv, NEW p \in Callers, DialFails(p) PROVE HInv'
<1>1. IdInv' /\ ExecInv'
  <2>1. UNCHANGED <<reqs, done, calls, callId>>
    BY DEF DialFails, serverVars
  <2>2. \A q \in Callers : pc'[q] \in Unsent => pc[q] \in Unsent
    BY Types DEF DialFails, Return, GoTo, Unsent
  <2>3. QED
    BY <2>1, <2>2, ExecKept DEF HInv
<1>2. TruthInv'
  <2>1. \A q \in Callers : q # p => pc[q] \notin Locked
    BY Others DEF DialFails, Locked, ConnStates
  <2>2. \A q \in Callers : pc'[q] \notin {"hdr", "data"}
    BY <2>1, Types DEF DialFails, Return, GoTo, Locked, ConnStates
  <2>3. QED
    BY <2>2 DEF TruthInv
<1>3. QED
  BY <1>1, <1>2 DEF HInv

\* HandshakeHeader preserves HInv.
LEMMA HandshakeHeaderHInv == ASSUME IInv, HInv, NEW p \in Callers, HandshakeHeader(p) PROVE HInv'
<1>1. IdInv' /\ ExecInv'
  <2>1. UNCHANGED <<reqs, done, calls, callId>>
    BY DEF HandshakeHeader, serverVars
  <2>2. \A q \in Callers : pc'[q] \in Unsent => pc[q] \in Unsent
    BY Types DEF HandshakeHeader, ReadChunk, HandshakeDone, GoTo, Unsent
  <2>3. QED
    BY <2>1, <2>2, ExecKept DEF HInv
<1>2. TruthInv'
  <2>1. \A q \in Callers : q # p => pc[q] \notin Locked
    BY Others DEF HandshakeHeader, Locked, ConnStates
  <2>2. \A q \in Callers : pc'[q] \notin {"hdr", "data"}
    BY <2>1, Types DEF HandshakeHeader, ReadChunk, HandshakeDone, GoTo, Locked, ConnStates
  <2>3. QED
    BY <2>2 DEF TruthInv
<1>3. QED
  BY <1>1, <1>2 DEF HInv

\* HandshakeData preserves HInv.
LEMMA HandshakeDataHInv == ASSUME IInv, HInv, NEW p \in Callers, HandshakeData(p) PROVE HInv'
<1>1. IdInv' /\ ExecInv'
  <2>1. UNCHANGED <<reqs, done, calls, callId>>
    BY DEF HandshakeData, serverVars
  <2>2. \A q \in Callers : pc'[q] \in Unsent => pc[q] \in Unsent
    BY Types DEF HandshakeData, ReadChunk, HandshakeDone, GoTo, Unsent
  <2>3. QED
    BY <2>1, <2>2, ExecKept DEF HInv
<1>2. TruthInv'
  <2>1. \A q \in Callers : q # p => pc[q] \notin Locked
    BY Others DEF HandshakeData, Locked, ConnStates
  <2>2. \A q \in Callers : pc'[q] \notin {"hdr", "data"}
    BY <2>1, Types DEF HandshakeData, ReadChunk, HandshakeDone, GoTo, Locked, ConnStates
  <2>3. QED
    BY <2>2 DEF TruthInv
<1>3. QED
  BY <1>1, <1>2 DEF HInv

\* ReadHeader preserves HInv.
LEMMA ReadHeaderHInv == ASSUME IInv, HInv, NEW p \in Callers, ReadHeader(p) PROVE HInv'
<1>1. IdInv' /\ ExecInv'
  <2>1. UNCHANGED <<reqs, done, calls, callId>>
    BY DEF ReadHeader, serverVars
  <2>2. \A q \in Callers : pc'[q] \in Unsent => pc[q] \in Unsent
    BY Types DEF ReadHeader, ReadChunk, Reply, Return, GoTo, Unsent
  <2>3. QED
    BY <2>1, <2>2, ExecKept DEF HInv
<1>2. TruthInv'
  <2>1. \A q \in Callers : q # p => pc[q] \notin Locked
    BY Others DEF ReadHeader, Locked, ConnStates
  <2>2. Head(stream).status = done[callId[p]]
    BY DEF ReadHeader, ReadChunk, HInv, TruthInv
  <2>3. pc'[p] # "hdr" /\ (pc'[p] = "data" => head' = Head(stream))
    BY Types DEF ReadHeader, Reply, Return, GoTo
  <2>4. \A q \in Callers : q # p => pc'[q] = pc[q]
    BY Types DEF ReadHeader, Reply, Return, GoTo
  <2>5. QED
    BY <2>1, <2>2, <2>3, <2>4 DEF ReadHeader, TruthInv, Locked, ConnStates
<1>3. QED
  BY <1>1, <1>2 DEF HInv

\* ReadData preserves HInv.
LEMMA ReadDataHInv == ASSUME IInv, HInv, NEW p \in Callers, ReadData(p) PROVE HInv'
<1>1. IdInv' /\ ExecInv'
  <2>1. UNCHANGED <<reqs, done, calls, callId>>
    BY DEF ReadData, serverVars
  <2>2. \A q \in Callers : pc'[q] \in Unsent => pc[q] \in Unsent
    BY Types DEF ReadData, ReadChunk, Reply, Return, GoTo, Unsent
  <2>3. QED
    BY <2>1, <2>2, ExecKept DEF HInv
<1>2. TruthInv'
  <2>1. \A q \in Callers : q # p => pc[q] \notin Locked
    BY Others DEF ReadData, Locked, ConnStates
  <2>2. \A q \in Callers : pc'[q] \notin {"hdr", "data"}
    BY <2>1, Types DEF ReadData, ReadChunk, Reply, Return, GoTo, Locked, ConnStates
  <2>3. QED
    BY <2>2 DEF TruthInv
<1>3. QED
  BY <1>1, <1>2 DEF HInv

\* IoFails preserves HInv.
LEMMA IoFailsHInv == ASSUME IInv, HInv, NEW p \in Callers, IoFails(p) PROVE HInv'
<1>1. IdInv' /\ ExecInv'
  <2>1. UNCHANGED <<reqs, done, calls, callId>>
    BY DEF IoFails, serverVars
  <2>2. \A q \in Callers : pc'[q] \in Unsent => pc[q] \in Unsent
    BY Types DEF IoFails, Disconnect, Return, GoTo, Unsent
  <2>3. QED
    BY <2>1, <2>2, ExecKept DEF HInv
<1>2. TruthInv'
  <2>1. \A q \in Callers : q # p => pc[q] \notin Locked
    BY Others DEF IoFails, Locked, ConnStates
  <2>2. \A q \in Callers : pc'[q] \notin {"hdr", "data"}
    BY <2>1, Types DEF IoFails, Disconnect, Return, GoTo, Locked, ConnStates
  <2>3. QED
    BY <2>2 DEF TruthInv
<1>3. QED
  BY <1>1, <1>2 DEF HInv

\* StoreCaps preserves HInv.
LEMMA StoreCapsHInv == ASSUME IInv, HInv, NEW p \in Callers, StoreCaps(p) PROVE HInv'
<1>1. IdInv' /\ ExecInv'
  <2>1. UNCHANGED <<reqs, done, calls, callId>>
    BY DEF StoreCaps, serverVars
  <2>2. \A q \in Callers : pc'[q] \in Unsent => pc[q] \in Unsent
    BY Types DEF StoreCaps, GoTo, Unsent
  <2>3. QED
    BY <2>1, <2>2, ExecKept DEF HInv
<1>2. TruthInv'
  BY Types DEF StoreCaps, GoTo, HInv, TruthInv, serverVars
<1>3. QED
  BY <1>1, <1>2 DEF HInv

\* Close preserves HInv.
LEMMA CloseHInv == ASSUME IInv, HInv, NEW p \in Callers, Close(p) PROVE HInv'
<1>1. IdInv' /\ ExecInv'
  <2>1. UNCHANGED <<reqs, done, calls, callId>>
    BY DEF Close, serverVars
  <2>2. \A q \in Callers : pc'[q] \in Unsent => pc[q] \in Unsent
    BY Types DEF Close, Disconnect, Unsent
  <2>3. QED
    BY <2>1, <2>2, ExecKept DEF HInv
<1>2. TruthInv'
  <2>1. \A q \in Callers : pc[q] \notin Locked
    BY CallersAssumption DEF Close, IInv, MutexInv
  <2>2. QED
    BY <2>1 DEF Close, TruthInv, Locked, ConnStates
<1>3. QED
  BY <1>1, <1>2 DEF HInv

\* Start preserves HInv.
LEMMA StartHInv == ASSUME IInv, HInv, NEW p \in Callers, Start(p) PROVE HInv'
<1> USE BoundsAssumption
<1>1. /\ calls' = calls + 1 /\ calls \in Nat /\ calls' \in Calls
      /\ callId' = [callId EXCEPT ![p] = calls'] /\ pc' = [pc EXCEPT ![p] = "lock"]
      /\ UNCHANGED <<reqs, done, stream, head>>
  BY Types DEF Start, GoTo, serverVars, Calls
<1>2. IdInv'
  BY <1>1, Types DEF HInv, IdInv
<1>3. ExecInv'
  <2>1. done[calls'] = "no" /\ \A c \in Conns : ~Queued(c, calls')
    BY <1>1 DEF HInv, ExecInv
  <2>2. ASSUME NEW q \in Callers, pc'[q] \in Unsent
        PROVE  done[callId'[q]] = "no" /\ \A c \in Conns : ~Queued(c, callId'[q])
    BY <1>1, <2>1, <2>2, Types DEF HInv, ExecInv
  <2>3. \A c \in Conns, i \in Calls : Queued(c, i) => i <= calls' /\ done[i] = "no"
    BY <1>1 DEF HInv, ExecInv, Calls
  <2>4. \A i \in Calls : i > calls' => done[i] = "no"
    BY <1>1 DEF HInv, ExecInv, Calls
  <2>5. QED
    BY <1>1, <2>2, <2>3, <2>4 DEF HInv, ExecInv, Queued
<1>4. TruthInv'
  BY <1>1, Types DEF HInv, TruthInv
<1>5. QED
  BY <1>2, <1>3, <1>4 DEF HInv

\* Sending puts one request on an empty, current connection.
LEMMA SendQueues ==
    ASSUME IInv, NEW p \in Callers, pc[p] \in {"hsWrite", "write"},
           NEW id \in Calls \cup {Handshake}, NEW k \in Commands, Send(p, id, k)
    PROVE  /\ conn \in Conns
           /\ \A i : Queued(conn, i)' <=> i = id
           /\ \A c \in Conns : \A i : c # conn => (Queued(c, i)' <=> Queued(c, i))
<1>1. conn \in Conns /\ reqs[conn] = <<>>
  BY Types DEF IInv, ConnInv, WireInv, Clear, ConnStates
<1>2. reqs' = [reqs EXCEPT ![conn] = <<[id |-> id, cmd |-> k]>>]
  BY <1>1 DEF Send
<1>3. reqs'[conn] = <<[id |-> id, cmd |-> k]>> /\ \A c \in Conns : c # conn => reqs'[c] = reqs[c]
  BY <1>1, <1>2, Types
<1>4. reqs'[conn] # <<>> /\ Head(reqs'[conn]).id = id /\ conn' = conn
  BY <1>3 DEF Send
<1>5. QED
  BY <1>1, <1>3, <1>4 DEF Queued

\* HandshakeWrite preserves HInv.
LEMMA HandshakeWriteHInv == ASSUME IInv, HInv, NEW p \in Callers, HandshakeWrite(p) PROVE HInv'
<1> USE BoundsAssumption
<1>1. /\ conn \in Conns
      /\ \A i : Queued(conn, i)' <=> i = Handshake
      /\ \A c \in Conns : \A i : c # conn => (Queued(c, i)' <=> Queued(c, i))
  BY SendQueues DEF HandshakeWrite, Commands
<1>2. /\ UNCHANGED <<conn, done, calls, callId, stream, head>>
      /\ pc' = [pc EXCEPT ![p] = "hsHdr"] /\ pc[p] \in Unsent
  BY DEF HandshakeWrite, Send, GoTo, Unsent
<1>3. \A c \in Conns, i \in Calls : Queued(c, i)' => Queued(c, i)
  BY <1>1, <1>2 DEF Calls, Handshake
<1>4. \A q \in Callers : pc'[q] \in Unsent => pc[q] \in Unsent /\ callId[q] \in Calls
  BY <1>2, Types DEF IInv, CallInv, Unsent
<1>5. IdInv'
  BY <1>2 DEF HInv, IdInv
<1>6. ExecInv'
  <2>1. ASSUME NEW q \in Callers, pc'[q] \in Unsent
        PROVE  done[callId[q]] = "no" /\ \A c \in Conns : ~Queued(c, callId[q])'
    BY <1>2, <1>3, <1>4, <2>1 DEF HInv, ExecInv
  <2>2. QED
    BY <1>2, <1>3, <2>1 DEF HInv, ExecInv
<1>7. TruthInv'
  BY <1>2, Types DEF HInv, TruthInv
<1>8. QED
  BY <1>5, <1>6, <1>7 DEF HInv

\* Write preserves HInv.
LEMMA WriteHInv == ASSUME IInv, HInv, NEW p \in Callers, Write(p) PROVE HInv'
<1> USE BoundsAssumption
<1>1. callId[p] \in Calls /\ cmd[p] \in Commands
  BY DEF Write, IInv, TypeOK, CallInv
<1>2. /\ conn \in Conns
      /\ \A i : Queued(conn, i)' <=> i = callId[p]
      /\ \A c \in Conns : \A i : c # conn => (Queued(c, i)' <=> Queued(c, i))
  BY <1>1, SendQueues DEF Write
<1>3. /\ UNCHANGED <<conn, done, calls, callId, stream, head>>
      /\ pc' = [pc EXCEPT ![p] = "hdr"] /\ pc[p] \in Unsent /\ stream = <<>>
  BY DEF Write, Send, GoTo, Unsent, IInv, WireInv, Clear
<1>4. done[callId[p]] = "no" /\ \A c \in Conns : ~Queued(c, callId[p])
  BY <1>3 DEF HInv, ExecInv
<1>5. IdInv'
  BY <1>3 DEF HInv, IdInv
<1>6. ExecInv'
  <2>1. ASSUME NEW q \in Callers, pc'[q] \in Unsent
        PROVE  done[callId[q]] = "no" /\ \A c \in Conns : ~Queued(c, callId[q])'
    <3>1. q # p /\ pc[q] \in Unsent
      BY <1>3, <2>1, Types DEF Unsent
    <3>2. callId[q] # callId[p]
      BY <1>1, <3>1 DEF HInv, IdInv, Calls
    <3>3. QED
      BY <1>2, <1>3, <3>1, <3>2 DEF HInv, ExecInv
  <2>2. \A c \in Conns, i \in Calls : Queued(c, i)' => i <= calls /\ done[i] = "no"
    BY <1>2, <1>3, <1>4 DEF HInv, ExecInv, IdInv
  <2>3. \A c, d \in Conns, i \in Calls : Queued(c, i)' /\ Queued(d, i)' => c = d
    BY <1>2, <1>3, <1>4 DEF HInv, ExecInv
  <2>4. QED
    BY <1>3, <2>1, <2>2, <2>3 DEF HInv, ExecInv
<1>7. TruthInv'
  BY <1>3, Types DEF HInv, TruthInv
<1>8. QED
  BY <1>5, <1>6, <1>7 DEF HInv

(***************************************************************************)
(* The server's steps: executing the request at the head of a queue.       *)
(***************************************************************************)
LEMMA ServerExecutes ==
    ASSUME IInv, HInv, NEW c \in Conns, reqs[c] # <<>>, NEW st \in Statuses,
           NEW more \in BOOLEAN,
           done' = Executed(Head(reqs[c]), st),
           \/ stream' = stream
           \/ c = conn /\ stream' = stream \o Frame(Head(reqs[c]), st, more)
           \/ c = conn /\ stream' = Append(stream, Header(Head(reqs[c]), st, TRUE)),
           reqs'[c] = <<>>, \A d \in Conns : d # c => reqs'[d] = reqs[d],
           UNCHANGED <<conn, clientVars>>
    PROVE  HInv' /\ [\E i \in 1 .. MaxCalls, k \in {"ok", "err"} : Service!Execute(i, k)]_(Service!svcVars)
<1> USE BoundsAssumption
<1> DEFINE r == Head(reqs[c])
<1>1. r \in Request
  BY Types
<1>2. UNCHANGED <<pc, callId, calls, head, result, owner>>
  BY DEF clientVars
<1>3. \A d \in Conns : \A i : Queued(d, i)' <=> d # c /\ Queued(d, i)
  BY DEF Queued
<1>4. Queued(c, r.id)
  BY DEF Queued
<1>5. CASE r.id = Handshake
  <2>1. \A i \in Calls : i # r.id
    BY <1>5 DEF Calls, Handshake
  <2>2. done' = done
    BY <2>1, Types DEF Executed
  <2>3. IdInv' /\ ExecInv'
    BY <1>2, <1>3, <2>2 DEF HInv, IdInv, ExecInv
  <2>4. TruthInv'
    <3>1. CASE stream' = stream
      BY <1>2, <2>2, <3>1 DEF HInv, TruthInv
    <3>2. CASE c = conn
      <4>1. PICK p \in Callers : owner = p /\ pc[p] \in {"hsHdr", "hdr"} /\ Head(reqs[conn]).id = Expected(p)
        BY <3>2, WireBusy
      <4>2. pc[p] = "hsHdr"
        BY <1>5, <3>2, <4>1 DEF Expected, IInv, CallInv, Calls, Handshake
      <4>3. \A q \in Callers : pc[q] \notin {"hdr", "data"}
        BY <4>1, <4>2, Others DEF Locked, ConnStates
      <4>4. QED
        BY <1>2, <4>3 DEF TruthInv
    <3>3. QED
      BY <3>1, <3>2
  <2>5. UNCHANGED Service!svcVars
    BY <1>2, <2>2 DEF Service!svcVars
  <2>6. QED
    BY <2>3, <2>4, <2>5 DEF HInv
<1>6. CASE r.id # Handshake
  <2>1. r.id \in Calls
    BY <1>1, <1>6 DEF Request
  <2>2. r.id <= calls /\ done[r.id] = "no"
    BY <1>4, <2>1 DEF HInv, ExecInv
  <2>3. done' = [done EXCEPT ![r.id] = st]
    BY <2>1, <2>2, Types DEF Executed
  <2>4. ExecInv'
    <3>1. ASSUME NEW q \in Callers, pc[q] \in Unsent
          PROVE  done'[callId[q]] = "no" /\ \A d \in Conns : ~Queued(d, callId[q])'
      <4>1. done[callId[q]] = "no" /\ \A d \in Conns : ~Queued(d, callId[q])
        BY <3>1 DEF HInv, ExecInv
      <4>2. callId[q] # r.id /\ callId[q] \in Calls
        BY <1>4, <3>1, <4>1 DEF IInv, CallInv, Unsent
      <4>3. done'[callId[q]] = "no"
        BY <2>3, <4>1, <4>2, Types
      <4>4. QED
        BY <1>2, <1>3, <4>1, <4>3
    <3>2. ASSUME NEW d \in Conns, NEW i \in Calls, Queued(d, i)'
          PROVE  i <= calls /\ done'[i] = "no"
      <4>1. d # c /\ Queued(d, i)
        BY <1>3, <3>2
      <4>2. i # r.id
        BY <1>4, <4>1 DEF HInv, ExecInv
      <4>3. QED
        BY <2>3, <4>1, <4>2, Types DEF HInv, ExecInv
    <3>3. \A i \in Calls : i > calls => done'[i] = "no"
      BY <2>1, <2>2, <2>3, Types DEF HInv, ExecInv, Calls
    <3>4. \A d, e \in Conns, i \in Calls : Queued(d, i)' /\ Queued(e, i)' => d = e
      BY <1>3 DEF HInv, ExecInv
    <3>5. QED
      BY <1>2, <3>1, <3>2, <3>3, <3>4 DEF ExecInv
  <2>5. TruthInv'
    <3>1. ASSUME NEW p \in Callers, pc[p] \in {"hdr", "data"}, done[callId[p]] # "no"
          PROVE  done'[callId[p]] = done[callId[p]]
      BY <2>1, <2>2, <2>3, <3>1, Types DEF IInv, CallInv
    <3>2. CASE stream' = stream
      <4>1. ASSUME NEW p \in Callers, pc[p] = "hdr", stream # <<>>
            PROVE  Head(stream).status = done'[callId[p]]
        <5>1. Head(stream).status = done[callId[p]] /\ Head(stream) \in Chunk
          BY <4>1, Types DEF HInv, TruthInv
        <5>2. QED
          BY <3>1, <4>1, <5>1 DEF Chunk, Statuses
      <4>2. ASSUME NEW p \in Callers, pc[p] = "data"
            PROVE  head.status = done'[callId[p]]
        <5>1. head.status = done[callId[p]] /\ head \in Chunk \cup {NoHead}
          BY <4>2 DEF HInv, TruthInv, IInv, TypeOK
        <5>2. QED
          BY <3>1, <4>2, <5>1 DEF Chunk, Statuses, NoHead
      <4>3. QED
        BY <1>2, <3>2, <4>1, <4>2 DEF TruthInv
    <3>3. CASE c = conn /\ stream' # stream
      <4>1. PICK p \in Callers : /\ owner = p /\ pc[p] \in {"hsHdr", "hdr"}
                                 /\ Head(reqs[conn]).id = Expected(p) /\ stream = <<>>
        BY <3>3, WireBusy
      <4>2. pc[p] = "hdr" /\ callId[p] = r.id
        BY <1>6, <3>3, <4>1 DEF Expected
      <4>3. Head(stream').status = st
        <5>1. CASE stream' = Append(stream, Header(r, st, TRUE))
          <6>1. stream' = <<Header(r, st, TRUE)>>
            BY <4>1, <5>1
          <6>2. QED
            BY <6>1 DEF Header
        <5>2. CASE stream' = stream \o Frame(r, st, more) /\ more
          <6>1. <<Header(r, st, TRUE), Data(r, st)>> \in Seq(Chunk)
            BY <1>1, FrameType, ShortSeqs
          <6>2. Frame(r, st, more) = <<Header(r, st, TRUE), Data(r, st)>>
            BY <5>2 DEF Frame
          <6>3. stream' = <<Header(r, st, TRUE), Data(r, st)>>
            BY <4>1, <5>2, <6>1, <6>2, EmptyConcat
          <6>4. QED
            BY <6>3 DEF Header
        <5>3. CASE stream' = stream \o Frame(r, st, more) /\ ~more
          <6>1. <<Header(r, st, FALSE)>> \in Seq(Chunk)
            BY <1>1, FrameType, ShortSeqs
          <6>2. Frame(r, st, more) = <<Header(r, st, FALSE)>>
            BY <5>3 DEF Frame
          <6>3. stream' = <<Header(r, st, FALSE)>>
            BY <4>1, <5>3, <6>1, <6>2, EmptyConcat
          <6>4. QED
            BY <6>3 DEF Header
        <5>4. QED
          BY <3>3, <5>1, <5>2, <5>3
      <4>4. done'[callId[p]] = st
        BY <2>1, <2>3, <4>2, Types
      <4>5. \A q \in Callers : q # p => pc[q] \notin Locked
        BY <4>1, <4>2, Others DEF Locked, ConnStates
      <4>6. QED
        BY <1>2, <4>2, <4>3, <4>4, <4>5 DEF TruthInv, Locked, ConnStates
    <3>4. QED
      BY <3>2, <3>3
  <2>6. IdInv'
    BY <1>2 DEF HInv, IdInv
  <2>7. Service!Execute(r.id, st)
    BY <1>2, <2>2, <2>3 DEF Service!Execute
  <2>8. QED
    BY <2>1, <2>4, <2>5, <2>6, <2>7 DEF HInv, Calls, Statuses
<1>7. QED
  BY <1>5, <1>6

\* A queue holds one request: taking it leaves none.
LEMMA QueueEmptied ==
    ASSUME IInv, NEW c \in Conns, reqs[c] # <<>>,
           \/ reqs' = [reqs EXCEPT ![c] = Tail(@)]
           \/ reqs' = [reqs EXCEPT ![c] = <<>>]
    PROVE  reqs'[c] = <<>> /\ \A d \in Conns : d # c => reqs'[d] = reqs[d]
<1>1. reqs[c] \in Seq(Request) /\ Len(reqs[c]) <= 1
  BY Types DEF IInv, OneOutstanding
<1>2. Tail(reqs[c]) = <<>>
  BY <1>1, TailOfOne
<1>3. QED
  BY <1>2, Types

\* The service's Execute, or nothing it sees: what a server step is to it.
ExecuteStep ==
    [\E i \in 1 .. MaxCalls, k \in {"ok", "err"} : Service!Execute(i, k)]_(Service!svcVars)

\* A server step executes at most one call, and truly reports it.
LEMMA ServerHInv ==
    ASSUME IInv, HInv, ServerNext, UNCHANGED clientVars
    PROVE  HInv' /\ ExecuteStep
<1> USE BoundsAssumption
<1>1. ASSUME NEW c \in Conns, ServerHandle(c) PROVE HInv' /\ ExecuteStep
  <2>1. PICK st \in Statuses, more \in BOOLEAN :
           /\ done' = Executed(Head(reqs[c]), st)
           /\ stream' = IF c = conn THEN stream \o Frame(Head(reqs[c]), st, more) ELSE stream
    BY <1>1 DEF ServerHandle
  <2>2. /\ reqs[c] # <<>> /\ reqs' = [reqs EXCEPT ![c] = Tail(@)]
        /\ UNCHANGED <<conn, clientVars>>
    BY <1>1 DEF ServerHandle
  <2>3. reqs'[c] = <<>> /\ \A d \in Conns : d # c => reqs'[d] = reqs[d]
    BY <2>2, QueueEmptied
  <2>4. QED
    BY <2>1, <2>2, <2>3, ServerExecutes DEF ExecuteStep
<1>2. ASSUME NEW c \in Conns, ServerCoalesce(c) PROVE FALSE
  <2>1. reqs[c] \in Seq(Request) /\ reqs[c] # <<>> /\ Len(reqs[c]) <= 1
    BY <1>2, Types DEF IInv, OneOutstanding, ServerCoalesce
  <2>2. DOMAIN Tail(reqs[c]) = {}
    BY <2>1, TailOfOne
  <2>3. QED
    BY <1>2, <2>2 DEF ServerCoalesce, Coalesced
<1>3. ASSUME NEW c \in Conns, ServerSendFails(c) PROVE HInv' /\ ExecuteStep
  <2>1. PICK st \in Statuses, sent \in BOOLEAN :
           /\ done' = Executed(Head(reqs[c]), st)
           /\ stream' = IF c = conn /\ sent
                        THEN Append(stream, Header(Head(reqs[c]), st, TRUE)) ELSE stream
    BY <1>3 DEF ServerSendFails
  <2>2. /\ reqs[c] # <<>> /\ reqs' = [reqs EXCEPT ![c] = <<>>]
        /\ UNCHANGED <<conn, clientVars>>
    BY <1>3 DEF ServerSendFails
  <2>3. reqs'[c] = <<>> /\ \A d \in Conns : d # c => reqs'[d] = reqs[d]
    BY <2>2, QueueEmptied
  <2>4. QED
    BY <2>1, <2>2, <2>3, ServerExecutes DEF ExecuteStep
<1>4. CASE ServerCrash \/ ServerRestart
  <2>1. /\ UNCHANGED <<conn, stream, done, clientVars>>
        /\ \A c \in Conns : reqs'[c] \in {reqs[c], <<>>}
    BY <1>4 DEF ServerCrash, ServerRestart
  <2>2. UNCHANGED <<pc, callId, calls, head, result>>
    BY <2>1 DEF clientVars
  <2>3. \A c \in Conns : \A i : Queued(c, i)' => Queued(c, i)
    BY <2>1 DEF Queued
  <2>4. IdInv' /\ TruthInv'
    BY <2>1, <2>2 DEF HInv, IdInv, TruthInv
  <2>5. ExecInv'
    <3>1. \A q \in Callers : pc[q] \in Unsent =>
             done[callId[q]] = "no" /\ \A c \in Conns : ~Queued(c, callId[q])'
      BY <2>2, <2>3 DEF HInv, ExecInv
    <3>2. \A c \in Conns, i \in Calls : Queued(c, i)' => i <= calls /\ done[i] = "no"
      BY <2>3 DEF HInv, ExecInv
    <3>3. \A c, d \in Conns, i \in Calls : Queued(c, i)' /\ Queued(d, i)' => c = d
      BY <2>3 DEF HInv, ExecInv
    <3>4. QED
      BY <2>1, <2>2, <3>1, <3>2, <3>3 DEF HInv, ExecInv
  <2>6. UNCHANGED Service!svcVars
    BY <2>1, <2>2 DEF Service!svcVars
  <2>7. QED
    BY <2>4, <2>5, <2>6 DEF HInv, ExecuteStep
<1>5. QED
  BY <1>1, <1>2, <1>3, <1>4 DEF ServerNext

\* HInv holds initially.
LEMMA InitHInv == Init => HInv
<1> SUFFICES ASSUME Init PROVE HInv
  OBVIOUS
<1> USE BoundsAssumption DEF Init, ServerInit
<1>1. IdInv /\ TruthInv
  BY DEF IdInv, TruthInv
<1>2. ExecInv
  BY DEF ExecInv, Unsent, Queued, Calls
<1>3. QED
  BY <1>1, <1>2 DEF HInv

\* Every step preserves HInv.
LEMMA NextHInv == IInv /\ HInv /\ [Next]_vars => HInv'
<1> SUFFICES ASSUME IInv, HInv, [Next]_vars PROVE HInv'
  OBVIOUS
<1>1. CASE ServerNext /\ UNCHANGED clientVars
  BY <1>1, ServerHInv
<1>2. ASSUME NEW p \in Callers, Start(p) \/ Lock(p) \/ Proceed(p) \/ StoreCaps(p) \/ Close(p)
      PROVE  HInv'
  BY <1>2, StartHInv, LockHInv, DialHInv, DialFailsHInv, HandshakeWriteHInv, HandshakeHeaderHInv,
     HandshakeDataHInv, WriteHInv, ReadHeaderHInv, ReadDataHInv, IoFailsHInv, StoreCapsHInv,
     CloseHInv DEF Proceed
<1>3. CASE UNCHANGED vars
  <2>1. UNCHANGED <<reqs, done, stream, pc, callId, calls, head>>
    BY <1>3 DEF vars, serverVars, clientVars
  <2>2. QED
    BY <2>1 DEF HInv, IdInv, ExecInv, TruthInv, Queued
<1>4. QED
  BY <1>1, <1>2, <1>3 DEF Next

(***************************************************************************)
(* The refinement: each step of the client is one of the service, or       *)
(* changes nothing the service sees.                                       *)
(***************************************************************************)

\* phase of the refinement mapping.
Phase == [p \in Callers |-> IF pc[p] \in {"idle", "caps"} THEN "idle" ELSE "pending"]
Kind  == [p \in Callers |-> result[p].kind]

\* A step that moves p inside a call, or after it, is invisible.
LEMMA Stutters ==
    ASSUME IInv, NEW p \in Callers, NEW l \in PcStates, GoTo(p, l),
           l \in {"idle", "caps"} <=> pc[p] \in {"idle", "caps"},
           UNCHANGED <<result, done, calls, callId>>
    PROVE  UNCHANGED Service!svcVars
<1>1. \A q \in Callers : pc'[q] \in {"idle", "caps"} <=> pc[q] \in {"idle", "caps"}
  BY Types DEF GoTo
<1>2. QED
  BY <1>1 DEF Service!svcVars

\* Call's return is a Respond of the service.
LEMMA Responds ==
    ASSUME IInv, NEW p \in Callers, NEW k \in {"ok", "err", "fail"}, NEW id \in 0 .. MaxCalls,
           pc[p] \in Locked, Return(p, k, id), k \in {"ok", "err"} => done[callId[p]] = k,
           UNCHANGED <<done, calls, callId>>
    PROVE  Service!Respond(p, k)
<1>1. PICK l \in {"idle", "caps"} : pc' = [pc EXCEPT ![p] = l]
  BY DEF Return, GoTo
<1>2. pc[p] \notin {"idle", "caps"}
  BY DEF Locked, ConnStates
<1>3. Phase' = [Phase EXCEPT ![p] = "idle"] /\ Phase[p] = "pending"
  BY <1>1, <1>2, Types DEF Phase
<1>4. Kind' = [Kind EXCEPT ![p] = k]
  BY Types DEF Return, Kind
<1>5. QED
  BY <1>3, <1>4 DEF Service!Respond, Phase, Kind

\* A goroutine's step is a step of the service or a stutter.
LEMMA CallerSimulates ==
    ASSUME IInv, HInv, NEW p \in Callers,
           Start(p) \/ Lock(p) \/ Proceed(p) \/ StoreCaps(p) \/ Close(p)
    PROVE  [Service!SvcNext]_(Service!svcVars)
<1> USE BoundsAssumption
<1> USE DEF PcStates, Locked, ConnStates
<1>1. CASE Start(p)
  <2>1. pc' = [pc EXCEPT ![p] = "lock"] /\ calls' = calls + 1
        /\ callId' = [callId EXCEPT ![p] = calls + 1] /\ UNCHANGED <<result, done>>
    BY <1>1 DEF Start, GoTo, serverVars
  <2>2. Phase' = [Phase EXCEPT ![p] = "pending"] /\ Phase[p] = "idle"
    BY <1>1, <2>1, Types DEF Start, Phase
  <2>3. Service!Invoke(p)
    BY <1>1, <2>1, <2>2 DEF Start, Service!Invoke, Phase
  <2>4. QED
    BY <2>3 DEF Service!SvcNext
<1>2. CASE Lock(p) \/ Dial(p) \/ StoreCaps(p)
  <2>1. PICK l \in PcStates : GoTo(p, l) /\ (l \in {"idle", "caps"} <=> pc[p] \in {"idle", "caps"})
    BY <1>2 DEF Lock, Dial, StoreCaps
  <2>2. UNCHANGED <<result, done, calls, callId>>
    BY <1>2 DEF Lock, Dial, StoreCaps, serverVars
  <2>3. QED
    BY <2>1, <2>2, Stutters
<1>3. CASE HandshakeWrite(p) \/ Write(p)
  <2>1. PICK l \in PcStates : GoTo(p, l) /\ (l \in {"idle", "caps"} <=> pc[p] \in {"idle", "caps"})
    BY <1>3 DEF HandshakeWrite, Write
  <2>2. UNCHANGED <<result, done, calls, callId>>
    BY <1>3 DEF HandshakeWrite, Write, Send
  <2>3. QED
    BY <2>1, <2>2, Stutters
<1>4. CASE HandshakeHeader(p) \/ HandshakeData(p)
  <2>1. PICK l \in PcStates : GoTo(p, l) /\ (l \in {"idle", "caps"} <=> pc[p] \in {"idle", "caps"})
    BY <1>4 DEF HandshakeHeader, HandshakeData, HandshakeDone
  <2>2. UNCHANGED <<result, done, calls, callId>>
    BY <1>4 DEF HandshakeHeader, HandshakeData
  <2>3. QED
    BY <2>1, <2>2, Stutters
<1>5. CASE DialFails(p) \/ IoFails(p)
  <2>1. pc[p] \in Locked /\ Return(p, "fail", 0) /\ UNCHANGED <<done, calls, callId>>
    BY <1>5 DEF DialFails, IoFails, serverVars
  <2>2. Service!Respond(p, "fail")
    BY <2>1, Responds
  <2>3. QED
    BY <2>2 DEF Service!SvcNext
<1>6. CASE ReadHeader(p)
  <2>1. CASE Head(stream).more
    <3>1. GoTo(p, "data") /\ pc[p] = "hdr" /\ UNCHANGED <<result, done, calls, callId>>
      BY <1>6, <2>1 DEF ReadHeader
    <3>2. QED
      BY <3>1, Stutters
  <2>2. CASE ~Head(stream).more
    <3>1. Head(stream).id \in 0 .. MaxCalls /\ Head(stream).status \in {"ok", "err"}
      BY <1>6, ChunkType DEF ReadHeader, ReadChunk, IInv, TypeOK
    <3>2. PICK st \in {"ok", "err"}, id \in 0 .. MaxCalls :
             st = Head(stream).status /\ id = Head(stream).id
      BY <3>1
    <3>3. pc[p] \in Locked /\ UNCHANGED <<done, calls, callId>> /\ Return(p, st, id)
      BY <1>6, <2>2, <3>2 DEF ReadHeader, Reply
    <3>4. st = done[callId[p]]
      BY <1>6, <3>2 DEF ReadHeader, ReadChunk, HInv, TruthInv
    <3>5. Service!Respond(p, st)
      BY <3>2, <3>3, <3>4, Responds
    <3>6. QED
      BY <3>2, <3>5 DEF Service!SvcNext
  <2>3. QED
    BY <2>1, <2>2
<1>7. CASE ReadData(p)
  <2>1. head.id \in 0 .. MaxCalls /\ head.status \in {"ok", "err"}
    BY DEF IInv, TypeOK, Chunk, NoHead, Calls, Handshake, Statuses
  <2>2. PICK st \in {"ok", "err"}, id \in 0 .. MaxCalls : st = head.status /\ id = head.id
    BY <2>1
  <2>3. pc[p] \in Locked /\ UNCHANGED <<done, calls, callId>> /\ Return(p, st, id)
    BY <1>7, <2>2 DEF ReadData, Reply
  <2>4. st = done[callId[p]]
    BY <1>7, <2>2 DEF ReadData, HInv, TruthInv
  <2>5. Service!Respond(p, st)
    BY <2>2, <2>3, <2>4, Responds
  <2>6. QED
    BY <2>2, <2>5 DEF Service!SvcNext
<1>8. CASE Close(p)
  BY <1>8 DEF Close, Service!svcVars
<1>9. QED
  BY <1>1, <1>2, <1>3, <1>4, <1>5, <1>6, <1>7, <1>8 DEF Proceed

\* An initial state of the client is one of the service.
LEMMA InitSimulates == Init => Service!SvcInit
BY DEF Init, ServerInit, Service!SvcInit, NoResult, Calls

\* Every step of the client is a step of the service or a stutter.
LEMMA NextSimulates == IInv /\ HInv /\ [Next]_vars => [Service!SvcNext]_(Service!svcVars)
<1> SUFFICES ASSUME IInv, HInv, [Next]_vars PROVE [Service!SvcNext]_(Service!svcVars)
  OBVIOUS
<1>1. CASE ServerNext /\ UNCHANGED clientVars
  BY <1>1, ServerHInv DEF ExecuteStep, Service!SvcNext
<1>2. ASSUME NEW p \in Callers, Start(p) \/ Lock(p) \/ Proceed(p) \/ StoreCaps(p) \/ Close(p)
      PROVE  [Service!SvcNext]_(Service!svcVars)
  BY <1>2, CallerSimulates
<1>3. CASE UNCHANGED vars
  BY <1>3 DEF vars, serverVars, clientVars, Service!svcVars
<1>4. QED
  BY <1>1, <1>2, <1>3 DEF Next

-----------------------------------------------------------------------------
\* What the wire carries is the truth about executions: a reply a caller has
\* begun to read has the status its own command came to.
THEOREM History == Spec => []HInv
BY InitHInv, NextHInv, Invariance, PTL DEF Spec

\* The Go client implements the remote-call service: a command is executed at most
\* once per call, a result is that of the call's own execution, and only a failed
\* call leaves it open whether the command was or will be executed.
THEOREM Implements == Spec => ImplementsService
<1>1. Spec => [](IInv /\ HInv)
  BY Invariance, History, PTL
<1>2. QED
  BY <1>1, InitSimulates, NextSimulates, PTL DEF Spec, ImplementsService, Service!SvcSpec

-----------------------------------------------------------------------------

\* No features are remembered initially.
LEMMA InitCaps == Init => CapsInv
BY DEF Init, ServerInit, CapsInv, CapsOfConnection

\* With one goroutine, every step keeps the features those of the connection.
LEMMA NextCaps ==
    ASSUME NEW p \in Callers, Callers = {p}, IInv, CapsInv, [Next]_vars
    PROVE  CapsInv'
<1> USE BoundsAssumption DEF CapsInv, CapsOfConnection, ConnStates, Locked
<1>1. CASE UNCHANGED <<conn, capsOf, result, pc>>
  BY <1>1
<1>2. CASE ServerNext /\ UNCHANGED clientVars
  BY <1>1, <1>2 DEF ServerNext, ServerHandle, ServerCoalesce, ServerSendFails, ServerCrash,
                    ServerRestart, clientVars
<1>3. CASE Start(p) \/ Lock(p)
  BY <1>3, Types DEF Start, Lock, GoTo, serverVars
<1>4. CASE Dial(p)
  BY <1>4, Types DEF Dial, GoTo, IInv, ConnInv
<1>5. CASE DialFails(p) \/ IoFails(p)
  BY <1>5, Types DEF DialFails, IoFails, Disconnect, Return, GoTo
<1>6. CASE HandshakeWrite(p) \/ Write(p)
  BY <1>6, Types DEF HandshakeWrite, Write, Send, GoTo
<1>7. CASE HandshakeHeader(p) \/ HandshakeData(p)
  BY <1>7, Types DEF HandshakeHeader, HandshakeData, HandshakeDone, GoTo
<1>8. CASE ReadHeader(p) \/ ReadData(p)
  BY <1>8, Types DEF ReadHeader, ReadData, Reply, Return, GoTo
<1>9. CASE StoreCaps(p)
  BY <1>9, Types DEF StoreCaps, GoTo, serverVars
<1>10. CASE Close(p)
  BY <1>10 DEF Close, Disconnect
<1>11. CASE UNCHANGED vars
  BY <1>1, <1>11 DEF vars, clientVars
<1>12. QED
  BY <1>2, <1>3, <1>4, <1>5, <1>6, <1>7, <1>8, <1>9, <1>10, <1>11 DEF Next, Proceed

\* A client that one goroutine uses remembers the features of the connection it
\* holds, and none of any other.
THEOREM CapsTrackConnection ==
    ASSUME NEW p \in Callers, Callers = {p}
    PROVE  Spec => []CapsOfConnection
<1>1. IInv /\ CapsInv /\ [Next]_vars => CapsInv'
  BY NextCaps
<1>2. CapsInv => CapsOfConnection
  BY DEF CapsInv
<1>3. QED
  BY <1>1, <1>2, InitCaps, Invariance, PTL DEF Spec
=============================================================================
