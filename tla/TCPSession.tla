----------------------------- MODULE TCPSession -----------------------------
(***************************************************************************)
(* A session of the TCP protocol: Transport with the bodies of             *)
(* TCPHandler.HandleRequest and TCPHandler.HandleResponse                  *)
(* (pkg/protocol/tcp.go).  Each is one io.CopyBuffer, a loop that reads    *)
(* some bytes from one connection and then writes them to the other; a     *)
(* stream is represented by how many bytes have passed each point.         *)
(*                                                                         *)
(* The two peers are external.  A peer is "open", "half" once it has shut  *)
(* its sending side (FIN) and still reads, or "gone" once it has closed.   *)
(* Peers are assumed to drain what is written to them: a write does not    *)
(* block for ever.  Bytes are counted as written when the kernel took them.*)
(***************************************************************************)
EXTENDS Transport

CONSTANT MaxBytes    \* bound: bytes each peer sends in one session
ASSUME MaxBytesAssumption == MaxBytes \in Nat

VARIABLES
    cli, srv,              \* the peers
    cliSent, srvSent,      \* bytes they have sent
    upRead, upWritten,     \* HandleRequest's copy loop
    dnRead, dnWritten      \* HandleResponse's copy loop

peers == <<cli, srv, cliSent, srvSent>>
up == <<upRead, upWritten>>
down == <<dnRead, dnWritten>>
svars == <<tvars, peers, up, down>>

TCPInit ==
    /\ Init
    /\ cli = "open" /\ srv = "open"
    /\ cliSent = 0 /\ srvSent = 0
    /\ upRead = 0 /\ upWritten = 0 /\ dnRead = 0 /\ dnWritten = 0

-----------------------------------------------------------------------------
(* The peers.                                                              *)
ClientSends ==
    /\ cli = "open" /\ conn = "open" /\ cliSent < MaxBytes
    /\ cliSent' = cliSent + 1
    /\ UNCHANGED <<tvars, cli, srv, srvSent, up, down>>

ServerSends ==
    /\ srv = "open" /\ dialled = 1 /\ target[1] = "open" /\ srvSent < MaxBytes
    /\ srvSent' = srvSent + 1
    /\ UNCHANGED <<tvars, cli, srv, cliSent, up, down>>

ClientCloses ==
    /\ \/ cli = "open" /\ cli' \in {"half", "gone"}
       \/ cli = "half" /\ cli' = "gone"
    /\ UNCHANGED <<tvars, srv, cliSent, srvSent, up, down>>

ServerCloses ==
    /\ dialled = 1
    /\ \/ srv = "open" /\ srv' \in {"half", "gone"}
       \/ srv = "half" /\ srv' = "gone"
    /\ UNCHANGED <<tvars, cli, cliSent, srvSent, up, down>>

-----------------------------------------------------------------------------
(* TCPHandler.HandleRequest without an upstream asks for the original      *)
(* destination; SendConn hands it over, SendNil makes the handler return.  *)
TCPAsk ==
    /\ w = nil /\ AskConn
    /\ UNCHANGED <<peers, up, down>>

(* io.CopyBuffer(w, r, buf): r.Read returns some of what the client sent.  *)
RequestReads ==
    /\ reqPc = "handle" /\ w # nil
    /\ conn = "open" /\ upRead = upWritten
    /\ \E n \in 1..(cliSent - upRead) : upRead' = upRead + n
    /\ UNCHANGED <<tvars, peers, upWritten, down>>

(* Mutant: the write passes on more of the buffer than was read.           *)
RequestWritesTooMuch ==
    /\ reqPc = "handle" /\ upWritten < upRead
    /\ target[w] = "open"
    /\ upWritten' = upRead + 1
    /\ UNCHANGED <<tvars, peers, upRead, down>>

(* ... and w.Write passes them on; a gone peer may still accept them.      *)
RequestWrites ==
    /\ reqPc = "handle" /\ upWritten < upRead
    /\ target[w] = "open"
    /\ upWritten' = upRead
    /\ UNCHANGED <<tvars, peers, upRead, down>>

(* Mutant: the copy also stops when the last Read came together with EOF.  *)
RequestEndsDropsTail ==
    /\ reqPc = "handle" /\ w # nil
    /\ \/ conn = "closed" \/ cli = "gone" \/ (cli = "half" /\ upRead = cliSent)
       \/ upWritten < upRead /\ (target[w] = "closed" \/ srv = "gone")
    /\ ReturnRequest
    /\ UNCHANGED <<peers, up, down>>

(* The copy ends: EOF once everything was read, a reset or a connection    *)
(* closed under the reader, or a failed write.                             *)
RequestEnds ==
    /\ reqPc = "handle" /\ w # nil
    /\ \/ /\ upRead = upWritten
          /\ conn = "closed" \/ cli = "gone" \/ (cli = "half" /\ upRead = cliSent)
       \/ upWritten < upRead /\ (target[w] = "closed" \/ srv = "gone")
    /\ ReturnRequest
    /\ UNCHANGED <<peers, up, down>>

(* TCPHandler.HandleResponse: the same copy in the other direction.        *)
ResponseReads ==
    /\ respPc = "handle" /\ target[cur] = "open" /\ dnRead = dnWritten
    /\ \E n \in 1..(srvSent - dnRead) : dnRead' = dnRead + n
    /\ UNCHANGED <<tvars, peers, up, dnWritten>>

ResponseWrites ==
    /\ respPc = "handle" /\ dnWritten < dnRead
    /\ conn = "open"
    /\ dnWritten' = dnRead
    /\ UNCHANGED <<tvars, peers, up, dnRead>>

(* Mutant: the copy also stops when the last Read came together with EOF.  *)
ResponseEndsDropsTail ==
    /\ respPc = "handle"
    /\ \/ target[cur] = "closed" \/ srv = "gone"
          \/ (srv = "half" /\ dnRead = srvSent)
       \/ dnWritten < dnRead /\ (conn = "closed" \/ cli = "gone")
    /\ ReturnResponse
    /\ UNCHANGED <<peers, up, down>>

ResponseEnds ==
    /\ respPc = "handle"
    /\ \/ /\ dnRead = dnWritten
          /\ target[cur] = "closed" \/ srv = "gone"
             \/ (srv = "half" /\ dnRead = srvSent)
       \/ dnWritten < dnRead /\ (conn = "closed" \/ cli = "gone")
    /\ ReturnResponse
    /\ UNCHANGED <<peers, up, down>>

-----------------------------------------------------------------------------
(* Mutant: CloseResponse of TcpCopyResponse forgets the client connection. *)
TCPCloseResponseKeepsConn ==
    /\ respPc = "close" /\ respPc' = IF routing THEN "recv" ELSE "done"
    /\ target' = closeConn(cur)
    /\ wg' = IF routing THEN wg - 1 ELSE wg
    /\ UNCHANGED <<routing, hcPc, reqPc, w, cur, dialled, conn, file, addrCh,
                   connCh, callCh, callClosed, peers, up, down>>

TCPCloseResponse == CloseResponse /\ UNCHANGED <<peers, up, down>>

TCPBroker == Broker /\ UNCHANGED <<peers, up, down>>

TCPRequest ==
    \/ TCPAsk \/ RequestReads \/ RequestWrites \/ RequestEnds
    \/ (CloseAddr \/ CloseRequest) /\ UNCHANGED <<peers, up, down>>

TCPResponse ==
    \/ ResponseReads \/ ResponseWrites \/ ResponseEnds \/ TCPCloseResponse
    \/ (RecvCall \/ RangeEnds) /\ UNCHANGED <<peers, up, down>>

TCPPeers == ClientSends \/ ServerSends \/ ClientCloses \/ ServerCloses

TCPFinished == SessionOver /\ UNCHANGED svars

TCPNext == TCPBroker \/ TCPRequest \/ TCPResponse \/ TCPPeers \/ TCPFinished

TCPSpec == TCPInit /\ [][TCPNext]_svars

(* Each goroutine runs while it can; nothing is assumed of the peers.      *)
TCPFairSpec ==
    /\ TCPSpec
    /\ WF_svars(TCPBroker) /\ WF_svars(TCPRequest) /\ WF_svars(TCPResponse)

-----------------------------------------------------------------------------
(* Types, and each copy loop holds at most what it has read and not yet    *)
(* written.                                                                *)
TCPTypeOK ==
    /\ TypeOK
    /\ cli \in {"open", "half", "gone"} /\ srv \in {"open", "half", "gone"}
    /\ cliSent \in 0..MaxBytes /\ srvSent \in 0..MaxBytes
    /\ upRead \in 0..cliSent /\ upWritten \in 0..upRead
    /\ dnRead \in 0..srvSent /\ dnWritten \in 0..dnRead

(* Nothing the client sent is lost on the way up: when the request         *)
(* goroutine has ended although neither peer failed or stopped sending     *)
(* first, the upstream was handed every byte.  The response goroutine must *)
(* not tear the session down earlier.                                      *)
UpstreamComplete ==
    reqPc = "done" /\ w # nil /\ srv = "open" /\ cli # "gone"
        => upWritten = cliSent

(* The same on the way down, for a client that has not closed.             *)
DownstreamComplete ==
    respPc # "handle" /\ cur = 1 /\ cli = "open" /\ srv # "gone"
        => dnWritten = srvSent

(* A close is propagated: the session ends once the client has closed, and *)
(* in direct mode also once the server has ("Fixed read deadlock when      *)
(* client doesn't close connection by itself", CHANGELOG 0.0.2).           *)
CloseEnds ==
    /\ cli # "open" ~> SessionOver
    /\ (~routing /\ srv # "open") ~> SessionOver

(* The comment in closeConn, "to avoid waiting for never ending read       *)
(* operation when client doesn't close connection", for every mode: when   *)
(* the upstream has closed, the client connection gets closed too.         *)
ServerCloseReachesClient == srv # "open" ~> conn = "closed"
=============================================================================
