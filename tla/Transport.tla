------------------------------ MODULE Transport ------------------------------
(***************************************************************************)
(* One proxied TCP session: pkg/transport/handler.go.  Three goroutines    *)
(* share the accepted connection `conn', its duplicated descriptor `file'  *)
(* (f := conn.File()) and the upstream connections `target':               *)
(*                                                                         *)
(*   hcPc    HandleConnection itself, the broker that dials upstreams;     *)
(*   reqPc   TcpCopyRequest, which runs the protocol's HandleRequest;      *)
(*   respPc  TcpCopyResponse (direct mode), or the worker that ranges over *)
(*           callCh and runs one respRoutine at a time (routing mode).     *)
(*                                                                         *)
(* The protocol handlers appear only through what they do to the session:  *)
(* HandleRequest asks for an upstream (AskConn) or returns, HandleResponse *)
(* closes its upstream (ForceClose) or returns.  HTTPSession and           *)
(* TCPSession give the handlers their bodies and implement this module.    *)
(***************************************************************************)
EXTENDS Naturals, Sequences, FiniteSets

CONSTANTS
    Modes,      \* the values of HTTPConfig.RoutingEnabled to consider
    MaxConns,   \* bound: upstream connections dialled in one session
    CallCap     \* capacity of callCh (10 in the code)

ASSUME ModesAssumption == Modes \in SUBSET BOOLEAN
ASSUME MaxConnsAssumption == MaxConns \in Nat \ {0}
ASSUME CallCapAssumption == CallCap \in Nat \ {0}

VARIABLES
    routing,    \* config.GetHTTPConfig().RoutingEnabled, fixed at start-up
    hcPc, reqPc, respPc,
    w,          \* the upstream HandleRequest writes to; nil before the first
    cur,        \* the upstream whose responses are being handled (last one)
    dialled,    \* number of upstreams dialled; upstreams are 1..dialled
    conn, file, \* accepted connection and the descriptor f
    target,     \* the upstream connections
    addrCh, connCh,  \* the unbuffered channels: "open" or "closed"
    callCh,     \* queued respRoutines, by the upstream they serve
    callClosed, \* close(callCh) was called
    wg          \* counter of the sync.WaitGroup

tvars == <<routing, hcPc, reqPc, respPc, w, cur, dialled, conn, file, target,
           addrCh, connCh, callCh, callClosed, wg>>

Conns == 1..MaxConns
nil == 0

HcPcs == {"setup", "recvAddr", "dial", "sendConn", "sendNil", "enqueue",
          "cleanup", "done"}
ReqPcs == {"idle", "handle", "sendAddr", "recvConn", "return", "close", "done"}
RespPcs == {"idle", "recv", "handle", "close", "done"}

-----------------------------------------------------------------------------
Init ==
    /\ routing \in Modes
    /\ hcPc = "setup" /\ reqPc = "idle" /\ respPc = "idle"
    /\ w = nil /\ cur = nil /\ dialled = 0
    /\ conn = "open" /\ file = "none"
    /\ target = [t \in Conns |-> "none"]
    /\ addrCh = "open" /\ connCh = "open"
    /\ callCh = <<>> /\ callClosed = FALSE /\ wg = 0

(* closeConn: shut both directions down and close; closing again is a no-op. *)
closeConn(t) == IF t = nil THEN target ELSE [target EXCEPT ![t] = "closed"]

(***************************************************************************)
(* HandleConnection                                                        *)
(***************************************************************************)

(* conn.File() fails, or getsockopt(SO_ORIGINAL_DST) does: the connection  *)
(* (and the descriptor, if there is one) is closed and nothing is started. *)
SetupFails ==
    /\ hcPc = "setup"
    /\ hcPc' = "done"
    /\ conn' = "closed"
    /\ file' \in {"none", "closed"}
    /\ UNCHANGED <<routing, reqPc, respPc, w, cur, dialled, target, addrCh,
                   connCh, callCh, callClosed, wg>>

(* Routing mode: the request goroutine starts without an upstream and the  *)
(* worker starts on an empty callCh.                                       *)
StartRouted ==
    /\ hcPc = "setup" /\ routing
    /\ hcPc' = "recvAddr" /\ reqPc' = "handle" /\ respPc' = "recv"
    /\ file' = "open"
    /\ UNCHANGED <<routing, w, cur, dialled, conn, target, addrCh, connCh,
                   callCh, callClosed, wg>>

(* Direct mode: the original destination is dialled before anything runs.  *)
StartDirect ==
    /\ hcPc = "setup" /\ ~routing
    /\ hcPc' = "dial"
    /\ file' = "open"
    /\ UNCHANGED <<routing, reqPc, respPc, w, cur, dialled, conn, target,
                   addrCh, connCh, callCh, callClosed, wg>>

(* addrCh rendezvous: HandleRequest's send meets the broker's receive.     *)
SendAddr ==
    /\ reqPc = "sendAddr" /\ hcPc = "recvAddr"
    /\ reqPc' = "recvConn" /\ hcPc' = "dial"
    /\ UNCHANGED <<routing, respPc, w, cur, dialled, conn, file, target,
                   addrCh, connCh, callCh, callClosed, wg>>

(* net.ResolveTCPAddr and net.DialTCP succeed.  In direct mode both copy   *)
(* goroutines start on the one upstream and HandleConnection returns.      *)
DialOK ==
    /\ hcPc = "dial" /\ dialled < MaxConns
    /\ dialled' = dialled + 1
    /\ target' = [target EXCEPT ![dialled + 1] = "open"]
    /\ \/ /\ routing
          /\ hcPc' = "sendConn"
          /\ UNCHANGED <<reqPc, respPc, w, cur>>
       \/ /\ ~routing
          /\ hcPc' = "done" /\ reqPc' = "handle" /\ respPc' = "handle"
          /\ w' = dialled + 1 /\ cur' = dialled + 1
    /\ UNCHANGED <<routing, conn, file, addrCh, connCh, callCh, callClosed, wg>>

(* Resolving or dialling fails.                                            *)
DialFails ==
    /\ hcPc = "dial"
    /\ \/ /\ routing
          /\ hcPc' = "sendNil"
          /\ UNCHANGED <<conn, file>>
       \/ /\ ~routing
          /\ hcPc' = "done"
          /\ conn' = "closed" /\ file' = "closed"
    /\ UNCHANGED <<routing, reqPc, respPc, w, cur, dialled, target, addrCh,
                   connCh, callCh, callClosed, wg>>

(* connCh <- targetConn meets w = <-connCh; then wg.Add(1).                *)
SendConn ==
    /\ hcPc = "sendConn" /\ reqPc = "recvConn"
    /\ w' = dialled
    /\ hcPc' = "enqueue" /\ reqPc' = "handle"
    /\ wg' = wg + 1
    /\ UNCHANGED <<routing, respPc, cur, dialled, conn, file, target, addrCh,
                   connCh, callCh, callClosed>>

(* Mutant: the handler goes on after receiving a nil connection.           *)
SendNilHandlerGoesOn ==
    /\ hcPc = "sendNil" /\ reqPc = "recvConn"
    /\ w' = nil
    /\ hcPc' = "cleanup" /\ reqPc' = "handle"
    /\ UNCHANGED <<routing, respPc, cur, dialled, conn, file, target, addrCh,
                   connCh, callCh, callClosed, wg>>

(* connCh <- nil: the handler returns a nil upstream.                      *)
SendNil ==
    /\ hcPc = "sendNil" /\ reqPc = "recvConn"
    /\ w' = nil
    /\ hcPc' = "cleanup" /\ reqPc' = "return"
    /\ UNCHANGED <<routing, respPc, cur, dialled, conn, file, target, addrCh,
                   connCh, callCh, callClosed, wg>>

(* Mutant: the newest response routine is served first.                    *)
EnqueueLIFO ==
    /\ hcPc = "enqueue" /\ Len(callCh) < CallCap
    /\ callCh' = <<dialled>> \o callCh
    /\ hcPc' = "recvAddr"
    /\ UNCHANGED <<routing, reqPc, respPc, w, cur, dialled, conn, file, target,
                   addrCh, connCh, callClosed, wg>>

(* Mutant: the queue of response routines has no limit.                    *)
EnqueueUnbounded ==
    /\ hcPc = "enqueue"
    /\ callCh' = Append(callCh, dialled)
    /\ hcPc' = "recvAddr"
    /\ UNCHANGED <<routing, reqPc, respPc, w, cur, dialled, conn, file, target,
                   addrCh, connCh, callClosed, wg>>

(* callCh <- respRoutine: blocks while CallCap routines are queued.        *)
Enqueue ==
    /\ hcPc = "enqueue" /\ Len(callCh) < CallCap
    /\ callCh' = Append(callCh, dialled)
    /\ hcPc' = "recvAddr"
    /\ UNCHANGED <<routing, reqPc, respPc, w, cur, dialled, conn, file, target,
                   addrCh, connCh, callClosed, wg>>

(* A receive from the closed addrCh yields "": the session is over.        *)
AddrClosed ==
    /\ hcPc = "recvAddr" /\ addrCh = "closed"
    /\ hcPc' = "cleanup"
    /\ UNCHANGED <<routing, reqPc, respPc, w, cur, dialled, conn, file, target,
                   addrCh, connCh, callCh, callClosed, wg>>

(* Mutant: callCh is never closed (the leak CHANGELOG 0.6.2 fixed).        *)
CleanupKeepsCallCh ==
    /\ hcPc = "cleanup"
    /\ hcPc' = "done"
    /\ conn' = "closed" /\ file' = "closed"
    /\ connCh' = "closed"
    /\ UNCHANGED <<routing, reqPc, respPc, w, cur, dialled, target, addrCh,
                   callCh, callClosed, wg>>

(* The broker's exit: f.Close, closeConn(conn), close both channels.       *)
Cleanup ==
    /\ hcPc = "cleanup"
    /\ hcPc' = "done"
    /\ conn' = "closed" /\ file' = "closed"
    /\ connCh' = "closed" /\ callClosed' = TRUE
    /\ UNCHANGED <<routing, reqPc, respPc, w, cur, dialled, target, addrCh,
                   callCh, wg>>

(***************************************************************************)
(* TcpCopyRequest                                                          *)
(***************************************************************************)

(* HandleRequest wants an upstream for the request it has just read.       *)
AskConn ==
    /\ reqPc = "handle" /\ routing /\ dialled < MaxConns
    /\ reqPc' = "sendAddr"
    /\ UNCHANGED <<routing, hcPc, respPc, w, cur, dialled, conn, file, target,
                   addrCh, connCh, callCh, callClosed, wg>>

(* HandleRequest is about to return w.                                     *)
ReturnRequest ==
    /\ reqPc = "handle"
    /\ reqPc' = "return"
    /\ UNCHANGED <<routing, hcPc, respPc, w, cur, dialled, conn, file, target,
                   addrCh, connCh, callCh, callClosed, wg>>

(* The deferred close(addrCh) of HandleRequest.                            *)
CloseAddr ==
    /\ reqPc = "return"
    /\ reqPc' = "close"
    /\ addrCh' = IF routing THEN "closed" ELSE addrCh
    /\ UNCHANGED <<routing, hcPc, respPc, w, cur, dialled, conn, file, target,
                   connCh, callCh, callClosed, wg>>

(* Mutant: the upstream is left to the response goroutine.                 *)
CloseRequestKeepsUpstream ==
    /\ reqPc = "close"
    /\ reqPc' = "done"
    /\ conn' = "closed" /\ file' = "closed"
    /\ UNCHANGED <<routing, hcPc, respPc, w, cur, dialled, target, addrCh, connCh,
                   callCh, callClosed, wg>>

(* TcpCopyRequest after HandleRequest: f, r and a non-nil w are closed.    *)
CloseRequest ==
    /\ reqPc = "close"
    /\ reqPc' = "done"
    /\ conn' = "closed" /\ file' = "closed"
    /\ target' = closeConn(w)
    /\ UNCHANGED <<routing, hcPc, respPc, w, cur, dialled, addrCh, connCh,
                   callCh, callClosed, wg>>

(***************************************************************************)
(* TcpCopyResponse and the worker behind callCh                            *)
(***************************************************************************)

(* for f := range callCh { f() ... }: take the oldest queued respRoutine.  *)
RecvCall ==
    /\ respPc = "recv" /\ callCh # <<>>
    /\ cur' = Head(callCh) /\ callCh' = Tail(callCh)
    /\ respPc' = "handle"
    /\ UNCHANGED <<routing, hcPc, reqPc, w, dialled, conn, file, target,
                   addrCh, connCh, callClosed, wg>>

(* The range loop ends once callCh is closed and drained.                  *)
RangeEnds ==
    /\ respPc = "recv" /\ callCh = <<>> /\ callClosed
    /\ respPc' = "done"
    /\ UNCHANGED <<routing, hcPc, reqPc, w, cur, dialled, conn, file, target,
                   addrCh, connCh, callCh, callClosed, wg>>

(* HandleResponse(forceClose = true) closes its upstream and goes on.      *)
ForceClose ==
    /\ respPc = "handle" /\ routing
    /\ target' = closeConn(cur)
    /\ UNCHANGED <<routing, hcPc, reqPc, respPc, w, cur, dialled, conn, file,
                   addrCh, connCh, callCh, callClosed, wg>>

(* HandleResponse returns.                                                 *)
ReturnResponse ==
    /\ respPc = "handle"
    /\ respPc' = "close"
    /\ UNCHANGED <<routing, hcPc, reqPc, w, cur, dialled, conn, file, target,
                   addrCh, connCh, callCh, callClosed, wg>>

(* Mutant: respRoutine leaves its upstream open.                           *)
CloseResponseKeepsTarget ==
    /\ respPc = "close"
    /\ \/ /\ routing
          /\ respPc' = "recv" /\ wg' = wg - 1
          /\ UNCHANGED <<conn, file, target>>
       \/ /\ ~routing
          /\ respPc' = "done"
          /\ conn' = "closed" /\ file' = "closed"
          /\ target' = closeConn(cur)
          /\ UNCHANGED wg
    /\ UNCHANGED <<routing, hcPc, reqPc, w, cur, dialled, addrCh, connCh,
                   callCh, callClosed>>

(* Mutant: wg.Done is also called for the connection just queued.          *)
CloseResponseDoneTwice ==
    /\ respPc = "close"
    /\ target' = closeConn(cur)
    /\ \/ /\ routing
          /\ respPc' = "recv" /\ wg' = wg - 2
          /\ UNCHANGED <<conn, file>>
       \/ /\ ~routing
          /\ respPc' = "done"
          /\ conn' = "closed" /\ file' = "closed"
          /\ UNCHANGED wg
    /\ UNCHANGED <<routing, hcPc, reqPc, w, cur, dialled, addrCh, connCh,
                   callCh, callClosed>>

(* After HandleResponse: respRoutine closes its upstream only and the      *)
(* worker calls wg.Done; TcpCopyResponse closes f, r and w.                *)
CloseResponse ==
    /\ respPc = "close"
    /\ target' = closeConn(cur)
    /\ \/ /\ routing
          /\ respPc' = "recv" /\ wg' = wg - 1
          /\ UNCHANGED <<conn, file>>
       \/ /\ ~routing
          /\ respPc' = "done"
          /\ conn' = "closed" /\ file' = "closed"
          /\ UNCHANGED wg
    /\ UNCHANGED <<routing, hcPc, reqPc, w, cur, dialled, addrCh, connCh,
                   callCh, callClosed>>

-----------------------------------------------------------------------------
SessionOver ==
    /\ hcPc = "done"
    /\ reqPc \in {"idle", "done"}
    /\ respPc \in {"idle", "done"}

(* All goroutines have ended: the session's final states.                  *)
Finished == SessionOver /\ UNCHANGED tvars

Broker == \/ SetupFails \/ StartRouted \/ StartDirect \/ SendAddr
          \/ DialOK \/ DialFails \/ SendConn \/ SendNil
          \/ Enqueue \/ AddrClosed \/ Cleanup

Request == AskConn \/ ReturnRequest \/ CloseAddr \/ CloseRequest

Response == RecvCall \/ RangeEnds \/ ForceClose \/ ReturnResponse
            \/ CloseResponse

Next == Broker \/ Request \/ Response \/ Finished

Spec == Init /\ [][Next]_tvars

(* The scheduler runs every goroutine that can move; the two Return        *)
(* conjuncts are the handlers' obligation to return in the end.            *)
FairSpec ==
    /\ Spec
    /\ WF_tvars(Broker)
    /\ WF_tvars(ReturnRequest) /\ WF_tvars(CloseAddr) /\ WF_tvars(CloseRequest)
    /\ WF_tvars(RecvCall) /\ WF_tvars(RangeEnds)
    /\ WF_tvars(ReturnResponse) /\ WF_tvars(CloseResponse)

-----------------------------------------------------------------------------
(* Types; wg in Nat is WaitGroup's own demand, which panics below zero.    *)
TypeOK ==
    /\ routing \in BOOLEAN
    /\ hcPc \in HcPcs /\ reqPc \in ReqPcs /\ respPc \in RespPcs
    /\ w \in 0..MaxConns /\ cur \in 0..MaxConns /\ dialled \in 0..MaxConns
    /\ conn \in {"open", "closed"} /\ file \in {"none", "open", "closed"}
    /\ target \in [Conns -> {"none", "open", "closed"}]
    /\ addrCh \in {"open", "closed"} /\ connCh \in {"open", "closed"}
    /\ callCh \in Seq(Conns) /\ callClosed \in BOOLEAN
    /\ wg \in Nat

(* Nobody is left alone on an unbuffered channel: a request goroutine that *)
(* sends on addrCh has a broker that will come back to receive, one that   *)
(* waits on connCh has a broker about to answer, and the broker answers    *)
(* only somebody who waits.                                                *)
NoOrphan ==
    /\ reqPc = "sendAddr" => hcPc \in {"recvAddr", "enqueue"}
    /\ reqPc = "recvConn" => hcPc \in {"dial", "sendConn", "sendNil"}
    /\ hcPc \in {"sendConn", "sendNil"} => reqPc = "recvConn"

(* When the last goroutine has ended nothing is left open: neither the     *)
(* accepted connection, nor its duplicated descriptor, nor any upstream,   *)
(* on every path through dial failures, early returns and late responses.  *)
Released ==
    SessionOver =>
        /\ conn = "closed" /\ file # "open"
        /\ \A t \in Conns : target[t] # "open"

(* Back-pressure: callCh limits how many upstream connections a session    *)
(* holds open: the queued ones, the one being handled and the one that     *)
(* waits to be queued.                                                     *)
Backlog == Cardinality({t \in Conns : target[t] = "open"}) <= CallCap + 2

(* Every upstream gets its response routine exactly once and in the order  *)
(* of the requests ("Fixed response race condition with routing logic      *)
(* enabled", CHANGELOG 0.6.3).                                             *)
ServedInOrder == [][cur' = cur + 1]_cur

(* If the handlers return, every goroutine of the session ends.            *)
Terminates == <>SessionOver
=============================================================================
