--------------------------- MODULE TCPSessionProofs ---------------------------
(***************************************************************************)
(* TCPSession implements Transport, and its copy loops lose nothing, for   *)
(* every number of bytes.  Neither completeness property is inductive: a   *)
(* goroutine may only stop early if the other one tore the session down,   *)
(* so the invariants say that as long as both peers behave the connections *)
(* stay open under a goroutine that still copies.                          *)
(***************************************************************************)
EXTENDS TCPSession, TransportProofs

(* A TCP session dials once.                                               *)
OneUpstream ==
    /\ dialled <= 1
    /\ w = nil /\ reqPc \in {"handle", "sendAddr"} => dialled = 0
    /\ hcPc \in {"setup", "dial", "sendNil"} => dialled = 0
    /\ respPc \in {"handle", "close"} => cur = 1
    /\ w # nil => reqPc \notin {"idle", "sendAddr", "recvConn"}

(* Neither peer has failed, and the server has not stopped sending.        *)
UpHealthy == srv = "open" /\ cli # "gone"

UpPast == reqPc \in {"return", "close", "done"}

UpInv ==
    /\ UpHealthy /\ ~UpPast /\ (reqPc # "idle" \/ hcPc \in {"setup", "dial"})
         => /\ conn = "open"
            /\ \A t \in Conns : target[t] # "closed"
            /\ respPc \notin {"close", "done"}
    /\ UpHealthy /\ UpPast /\ w # nil => cli = "half" /\ upWritten = cliSent

(* Neither peer has failed, and the client has not stopped sending.        *)
DownHealthy == cli = "open" /\ srv # "gone"

DownPast == cur = 1 /\ respPc # "handle"

DownInv ==
    /\ dialled = 0 /\ hcPc \notin {"cleanup", "done"}
         => conn = "open" /\ ~UpPast
    /\ dialled = 0 => srvSent = 0 /\ srv = "open"
    /\ DownHealthy /\ dialled = 1 /\ ~DownPast
         => /\ conn = "open" /\ target[1] = "open" /\ ~UpPast
    /\ DownHealthy /\ DownPast => srv = "half" /\ dnWritten = srvSent

TCPInv == IInv /\ OneUpstream /\ UpInv /\ DownInv

-----------------------------------------------------------------------------
(* Every step of the TCP handlers and of the peers is a step of the        *)
(* session or leaves the session's own variables alone.                    *)
LEMMA TCPStep == TCPNext => Next \/ UNCHANGED tvars
<1> SUFFICES ASSUME TCPNext PROVE Next \/ UNCHANGED tvars
    OBVIOUS
<1>1. CASE TCPBroker
    BY <1>1 DEF TCPBroker, Next
<1>2. CASE TCPRequest
    BY <1>2 DEF TCPRequest, TCPAsk, RequestReads, RequestWrites, RequestEnds,
       Next, Request
<1>3. CASE TCPResponse
    BY <1>3 DEF TCPResponse, ResponseReads, ResponseWrites, ResponseEnds,
       TCPCloseResponse, Next, Response
<1>4. CASE TCPPeers
    BY <1>4 DEF TCPPeers, ClientSends, ServerSends, ClientCloses, ServerCloses
<1>5. CASE TCPFinished
    BY <1>5 DEF TCPFinished, svars
<1> QED BY <1>1, <1>2, <1>3, <1>4, <1>5 DEF TCPNext

(* A TCP session is a session of transport/handler.go.                     *)
THEOREM TCPImplementsTransport == TCPSpec => Spec
<1>1. TCPInit => Init
    BY DEF TCPInit
<1>2. [TCPNext]_svars => [Next]_tvars
    BY TCPStep DEF svars
<1> QED BY <1>1, <1>2, PTL DEF TCPSpec, Spec

(* The invariants hold before anything has been dialled.                   *)
LEMMA TCPInitInv == TCPInit => TCPInv
<1> SUFFICES ASSUME TCPInit PROVE TCPInv
    OBVIOUS
<1>1. IInv
    BY InitIInv DEF TCPInit
<1>2. OneUpstream /\ UpInv /\ DownInv
    BY DEF TCPInit, Init, OneUpstream, UpInv, UpPast, UpHealthy, DownInv,
       DownPast, DownHealthy, nil, Conns
<1> QED BY <1>1, <1>2 DEF TCPInv

(* What IInv says about the numbers of the upstreams.                      *)
LEMMA Numbers ==
    ASSUME IInv, OneUpstream
    PROVE  /\ dialled \in {0, 1} /\ cur \in {0, 1} /\ w \in {0, 1}
           /\ cur <= dialled /\ w <= dialled
           /\ 1 \in Conns /\ MaxConns \in Nat
<1>1. dialled \in {0, 1} /\ cur \in Nat /\ w \in Nat /\ Len(callCh) \in Nat
    BY MaxConnsAssumption, LenProperties DEF IInv, TypeOK, OneUpstream
<1>2. cur <= dialled
    BY <1>1 DEF IInv, Order, Bit
<1>3. w <= dialled
    BY DEF IInv, Open
<1> QED BY <1>1, <1>2, <1>3, MaxConnsAssumption DEF Conns

(* The broker's steps keep the invariants.                                 *)
LEMMA BrokerInv ==
    ASSUME TCPInv, IInv', TCPBroker PROVE OneUpstream' /\ UpInv' /\ DownInv'
<1> USE Numbers DEF TCPInv
<1> USE DEF OneUpstream, UpInv, UpPast, UpHealthy, DownInv, DownPast,
        DownHealthy, nil, peers, up, down
<1>1. UNCHANGED <<cli, srv, cliSent, srvSent, upRead, upWritten, dnRead, dnWritten>>
    BY DEF TCPBroker
<1>2. CASE SetupFails \/ StartRouted \/ StartDirect
    BY <1>1, <1>2 DEF SetupFails, StartRouted, StartDirect, IInv, Control
<1>3. CASE SendAddr \/ SendConn \/ SendNil
    BY <1>1, <1>3 DEF SendAddr, SendConn, SendNil, IInv, Control
<1>4. CASE DialOK
    BY <1>1, <1>4 DEF DialOK, IInv, Control, TypeOK, Open, Conns
<1>5. CASE DialFails
    BY <1>1, <1>5 DEF DialFails, IInv, Control
<1>6. CASE Enqueue \/ AddrClosed \/ Cleanup
    BY <1>1, <1>6 DEF Enqueue, AddrClosed, Cleanup, IInv, Control
<1> QED BY <1>2, <1>3, <1>4, <1>5, <1>6 DEF TCPBroker, Broker

(* The request goroutine's steps keep the invariants.                      *)
LEMMA RequestInv ==
    ASSUME TCPInv, IInv', TCPRequest PROVE OneUpstream' /\ UpInv' /\ DownInv'
<1> USE Numbers DEF TCPInv
<1> USE DEF OneUpstream, UpInv, UpPast, UpHealthy, DownInv, DownPast,
        DownHealthy, nil, peers, up, down
<1>1. CASE TCPAsk
    BY <1>1 DEF TCPAsk, AskConn
<1>2. CASE RequestReads \/ RequestWrites
    BY <1>2 DEF RequestReads, RequestWrites, tvars
<1>3. CASE RequestEnds
    BY <1>3 DEF RequestEnds, ReturnRequest
<1>4. CASE (CloseAddr \/ CloseRequest) /\ UNCHANGED <<peers, up, down>>
  <2>1. /\ UpPast /\ reqPc' \in {"close", "done"}
        /\ UNCHANGED <<hcPc, respPc, w, cur, dialled, cli, srv, cliSent, srvSent,
                       upWritten, dnWritten>>
      BY <1>4 DEF CloseAddr, CloseRequest
  <2>2. OneUpstream'
      BY <2>1
  <2>3. UpInv'
      BY <2>1
  <2>4. DownInv'
      BY <2>1
  <2> QED BY <2>2, <2>3, <2>4
<1> QED BY <1>1, <1>2, <1>3, <1>4 DEF TCPRequest

(* The response goroutine's steps keep the invariants.                     *)
LEMMA ResponseInv ==
    ASSUME TCPInv, IInv', TCPResponse PROVE OneUpstream' /\ UpInv' /\ DownInv'
<1> USE Numbers DEF TCPInv
<1> USE DEF OneUpstream, UpInv, UpPast, UpHealthy, DownInv, DownPast,
        DownHealthy, nil, peers, up, down
<1>1. CASE ResponseReads \/ ResponseWrites
    BY <1>1 DEF ResponseReads, ResponseWrites, tvars
<1>2. CASE ResponseEnds
    BY <1>2 DEF ResponseEnds, ReturnResponse
<1>3. CASE TCPCloseResponse
    BY <1>3 DEF TCPCloseResponse, CloseResponse
<1>4. CASE RecvCall /\ UNCHANGED <<peers, up, down>>
  <2>1. cur' = cur + 1 /\ Len(callCh') \in Nat
      BY <1>4, RecvCallOrder, LenProperties DEF IInv
  <2>2. cur' <= dialled' /\ dialled' = dialled
      BY <1>4, <2>1 DEF RecvCall, IInv, Order, Bit
  <2>3. cur = 0 /\ cur' = 1 /\ dialled = 1
      BY <2>1, <2>2
  <2> QED BY <1>4, <2>3 DEF RecvCall
<1>5. CASE RangeEnds /\ UNCHANGED <<peers, up, down>>
  <2>1. /\ respPc = "recv" /\ respPc' = "done"
        /\ UNCHANGED <<hcPc, reqPc, w, cur, dialled, conn, target, cli, srv,
                       cliSent, srvSent, upWritten, dnWritten>>
      BY <1>5 DEF RangeEnds
  <2>2. UpPast
      BY <1>5 DEF RangeEnds, IInv, Control, TypeOK, ReqPcs
  <2>3. OneUpstream'
      BY <2>1
  <2>4. UpInv'
      BY <2>1, <2>2
  <2>5. DownInv'
      BY <2>1
  <2> QED BY <2>3, <2>4, <2>5
<1> QED BY <1>1, <1>2, <1>3, <1>4, <1>5 DEF TCPResponse

(* The peers' steps keep the invariants.                                   *)
LEMMA PeersInv ==
    ASSUME TCPInv, TCPPeers PROVE OneUpstream' /\ UpInv' /\ DownInv'
<1> USE Numbers DEF TCPInv
<1> USE DEF OneUpstream, UpInv, UpPast, UpHealthy, DownInv, DownPast,
        DownHealthy, nil, up, down, tvars
<1>1. CASE ClientSends
    BY <1>1 DEF ClientSends
<1>2. CASE ServerSends
    BY <1>2 DEF ServerSends
<1>3. CASE ClientCloses
    BY <1>3 DEF ClientCloses
<1>4. CASE ServerCloses
    BY <1>4 DEF ServerCloses
<1> QED BY <1>1, <1>2, <1>3, <1>4 DEF TCPPeers

(* TCPInv is an inductive invariant of a TCP session.                      *)
LEMMA TCPInvariance == TCPSpec => []TCPInv
<1>1. TCPInv /\ [TCPNext]_svars => TCPInv'
  <2> SUFFICES ASSUME TCPInv, [TCPNext]_svars PROVE TCPInv'
      OBVIOUS
  <2>1. IInv'
      BY TCPStep, NextIInv DEF TCPInv, svars
  <2>2. CASE TCPFinished \/ UNCHANGED svars
      BY <2>1, <2>2 DEF TCPFinished, svars, tvars, peers, up, down, TCPInv,
         OneUpstream, UpInv, UpPast, UpHealthy, DownInv, DownPast, DownHealthy
  <2> QED BY <2>1, <2>2, BrokerInv, RequestInv, ResponseInv, PeersInv
          DEF TCPNext, TCPInv
<1> QED BY <1>1, TCPInitInv, PTL DEF TCPSpec

-----------------------------------------------------------------------------
(* The variables of a TCP session keep their types, and no copy loop       *)
(* writes what it has not read or reads what was not sent.                 *)
THEOREM TCPTypes == TCPSpec => []TCPTypeOK
<1>1. TCPInit => TCPTypeOK
  <2>1. TCPInit => TypeOK
      BY InitIInv DEF TCPInit, IInv
  <2> QED BY <2>1, MaxBytesAssumption DEF TCPInit, TCPTypeOK
<1>2. TCPTypeOK /\ IInv' /\ [TCPNext]_svars => TCPTypeOK'
  <2> SUFFICES ASSUME TCPTypeOK, IInv', [TCPNext]_svars PROVE TCPTypeOK'
      OBVIOUS
  <2> USE MaxBytesAssumption DEF peers, up, down
  <2>1. TypeOK'
      BY DEF IInv
  <2>2. CASE \/ UNCHANGED <<peers, up, down>>
             \/ ClientSends \/ ServerSends \/ ClientCloses \/ ServerCloses
      BY <2>1, <2>2 DEF ClientSends, ServerSends, ClientCloses, ServerCloses, TCPTypeOK
  <2>3. CASE RequestReads \/ RequestWrites
      BY <2>1, <2>3 DEF RequestReads, RequestWrites, TCPTypeOK
  <2>4. CASE ResponseReads \/ ResponseWrites
      BY <2>1, <2>4 DEF ResponseReads, ResponseWrites, TCPTypeOK
  <2> QED BY <2>2, <2>3, <2>4 DEF TCPNext, TCPBroker, TCPRequest, TCPResponse,
          TCPPeers, TCPFinished, TCPAsk, RequestEnds, ResponseEnds, TCPCloseResponse, svars
<1>3. TCPInv => IInv
    BY DEF TCPInv
<1> QED BY <1>1, <1>2, <1>3, TCPInvariance, PTL DEF TCPSpec

(* Nothing the client sent is lost on the way up.                          *)
THEOREM NothingLostUpstream == TCPSpec => []UpstreamComplete
<1>1. TCPInv => UpstreamComplete
    BY DEF TCPInv, UpInv, UpPast, UpHealthy, UpstreamComplete
<1> QED BY <1>1, TCPInvariance, PTL

(* Nothing the server sent is lost on the way to a client that listens.    *)
THEOREM NothingLostDownstream == TCPSpec => []DownstreamComplete
<1>1. TCPInv => DownstreamComplete
    BY DEF TCPInv, DownInv, DownPast, DownHealthy, DownstreamComplete
<1> QED BY <1>1, TCPInvariance, PTL
=============================================================================
