------------------------------ MODULE RpcServer ------------------------------
(***************************************************************************)
(* The emulator's remote-monitor server, as both clients of this           *)
(* repository see it through one UNIX stream socket (SOCKET_PROTOCOL.md).  *)
(* The server is not part of the repository: its actions are external.     *)
(*                                                                         *)
(* A connection carries request frames one way and reply frames the other. *)
(* A reply frame is a header chunk, followed by a data chunk when the      *)
(* header announces data; a client reads them separately.  Only the        *)
(* replies of the client's current connection are kept: what is sent on a  *)
(* connection the client has closed is never read by anybody.              *)
(***************************************************************************)
EXTENDS Naturals, Sequences

CONSTANTS
    MaxCalls,    \* bound: RPC calls made in a behaviour
    MaxConns,    \* bound: connections opened in a behaviour
    MaxCrashes   \* bound: emulator crashes in a behaviour

ASSUME BoundsAssumption ==
    /\ MaxCalls \in Nat \ {0}
    /\ MaxConns \in Nat \ {0}
    /\ MaxCrashes \in Nat

VARIABLES
    up,       \* the emulator is running
    crashes,  \* how many times it has crashed
    open,     \* open[c]: the server side of connection c is open
    reqs,     \* reqs[c]: request frames sent on c and not handled yet
    conn,     \* the connection the client holds, NoConn when it holds none
    stream,   \* reply chunks of conn that the client has not read yet
    done      \* done[i]: what executing call i came to

serverVars == <<up, crashes, open, reqs, stream, done>>

Conns  == 1 .. MaxConns
NoConn == 0
Calls  == 1 .. MaxCalls

\* The handshake request belongs to no call.
Handshake == 0

(***************************************************************************)
(* Three commands stand for the protocol's 42: STATUS is coalesced by the  *)
(* server, the reply of BUILD_FEATURES is kept by the client, STEP stands  *)
(* for every command that changes the emulator.                            *)
(***************************************************************************)
Commands == {"STATUS", "BUILD_FEATURES", "STEP"}
Statuses == {"ok", "err"}

Request == [id : Calls \cup {Handshake}, cmd : Commands]
Chunk   == [id : Calls \cup {Handshake}, part : {"hdr", "data"},
            status : Statuses, more : BOOLEAN]

ServerTypeOK ==
    /\ up \in BOOLEAN
    /\ crashes \in 0 .. MaxCrashes
    /\ open \in [Conns -> BOOLEAN]
    /\ reqs \in [Conns -> Seq(Request)]
    /\ conn \in Conns \cup {NoConn}
    /\ stream \in Seq(Chunk)
    /\ done \in [Calls -> {"no", "ok", "err", "twice"}]

ServerInit ==
    /\ up = TRUE
    /\ crashes = 0
    /\ open = [c \in Conns |-> FALSE]
    /\ reqs = [c \in Conns |-> <<>>]
    /\ conn = NoConn
    /\ stream = <<>>
    /\ done = [i \in Calls |-> "no"]

Header(r, s, more) == [id |-> r.id, part |-> "hdr", status |-> s, more |-> more]
Data(r, s) == [id |-> r.id, part |-> "data", status |-> s, more |-> FALSE]
Frame(r, s, more) ==
    IF more THEN <<Header(r, s, TRUE), Data(r, s)>> ELSE <<Header(r, s, FALSE)>>

\* Executing the request leaves its mark on its call.
Executed(r, s) ==
    [i \in Calls |-> IF i # r.id THEN done[i]
                     ELSE IF done[i] = "no" THEN s ELSE "twice"]

\* SOCKET_PROTOCOL.md, "Limits and Behavior": only the newest of the queued
\* STATUS requests is handled.
Coalesced(c) ==
    /\ Head(reqs[c]).cmd = "STATUS"
    /\ \E k \in DOMAIN Tail(reqs[c]) : Tail(reqs[c])[k].cmd = "STATUS"

\* The server handles the oldest request of c and sends its reply.  It does not
\* know whether the client still holds c.
ServerHandle(c) ==
    /\ up /\ open[c]
    /\ reqs[c] # <<>> /\ ~Coalesced(c)
    /\ reqs' = [reqs EXCEPT ![c] = Tail(@)]
    /\ \E s \in Statuses, more \in BOOLEAN :
          /\ done' = Executed(Head(reqs[c]), s)
          /\ stream' = IF c = conn THEN stream \o Frame(Head(reqs[c]), s, more)
                                   ELSE stream
    /\ UNCHANGED <<up, crashes, open, conn>>

ServerCoalesce(c) ==
    /\ up /\ open[c]
    /\ reqs[c] # <<>> /\ Coalesced(c)
    /\ reqs' = [reqs EXCEPT ![c] = Tail(@)]
    /\ UNCHANGED <<up, crashes, open, conn, stream, done>>

\* A send that fails half way: the request was executed, at most its header
\* gets through, and the server closes the connection.
ServerSendFails(c) ==
    /\ up /\ open[c]
    /\ reqs[c] # <<>> /\ ~Coalesced(c)
    /\ open' = [open EXCEPT ![c] = FALSE]
    /\ reqs' = [reqs EXCEPT ![c] = <<>>]
    /\ \E s \in Statuses, sent \in BOOLEAN :
          /\ done' = Executed(Head(reqs[c]), s)
          /\ stream' = IF c = conn /\ sent
                       THEN Append(stream, Header(Head(reqs[c]), s, TRUE))
                       ELSE stream
    /\ UNCHANGED <<up, crashes, conn>>

\* The emulator stops: what it has not handled is lost, what it has sent can
\* still be read.
ServerCrash ==
    /\ up
    /\ crashes < MaxCrashes
    /\ up' = FALSE
    /\ crashes' = crashes + 1
    /\ open' = [c \in Conns |-> FALSE]
    /\ reqs' = [c \in Conns |-> <<>>]
    /\ UNCHANGED <<conn, stream, done>>

ServerRestart ==
    /\ ~up
    /\ up' = TRUE
    /\ UNCHANGED <<crashes, open, reqs, conn, stream, done>>

ServerNext ==
    \/ \E c \in Conns : ServerHandle(c) \/ ServerCoalesce(c) \/ ServerSendFails(c)
    \/ ServerCrash
    \/ ServerRestart
=============================================================================
