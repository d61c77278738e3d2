--------------------------- MODULE TransportProofs ---------------------------
(***************************************************************************)
(* Proofs about Transport, for every number of upstreams and every         *)
(* capacity of callCh.  None of the safety properties is inductive: all    *)
(* follow from IInv, which adds which program points may coexist           *)
(* (Control), what the queue of response routines holds (Order, Pending)   *)
(* and which connections may still be open (Open).                         *)
(***************************************************************************)
EXTENDS Transport, FiniteSetTheorems, SequenceTheorems, TLAPS

Bit(b) == IF b THEN 1 ELSE 0

(* Which program points of the three goroutines coexist.                   *)
Control ==
    /\ reqPc = "idle" <=> respPc = "idle"
    /\ hcPc = "setup" => reqPc = "idle" /\ file = "none"
    /\ hcPc \in {"recvAddr", "sendConn", "sendNil", "enqueue", "cleanup"}
         => routing /\ reqPc # "idle"
    /\ hcPc = "dial" => IF routing THEN reqPc = "recvConn" ELSE reqPc = "idle"
    /\ hcPc \in {"sendConn", "sendNil"} => reqPc = "recvConn"
    /\ hcPc = "cleanup" => reqPc \in {"return", "close", "done"}
    /\ reqPc = "handle" /\ routing => hcPc \in {"recvAddr", "enqueue"}
    /\ reqPc = "sendAddr" => routing /\ hcPc \in {"recvAddr", "enqueue"}
    /\ reqPc = "recvConn" => routing /\ hcPc \in {"dial", "sendConn", "sendNil"}
    /\ respPc = "recv" => routing
    /\ respPc # "idle" /\ ~routing => hcPc = "done"
    /\ addrCh = "closed" => reqPc \in {"close", "done"}
    /\ callClosed => hcPc = "done"
    /\ respPc = "done" /\ routing => callCh = <<>> /\ callClosed

(* The queue holds the upstreams after cur, in order and without gaps.     *)
Order ==
    /\ \A k \in 1..Len(callCh) : callCh[k] = cur + k
    /\ dialled = cur + Len(callCh) + Bit(hcPc \in {"sendConn", "enqueue"})
    /\ Len(callCh) <= CallCap
    /\ ~routing => callCh = <<>>
    /\ respPc = "idle" => dialled = 0
    /\ respPc \in {"handle", "close"} => cur # nil

(* What wg counts.                                                         *)
Pending ==
    wg = IF routing
         THEN Len(callCh) + Bit(hcPc = "enqueue")
              + Bit(respPc \in {"handle", "close"})
         ELSE 0

(* Which connections may still be open.                                    *)
Open ==
    /\ w <= dialled
    /\ \A t \in Conns : t > dialled => target[t] = "none"
    /\ \A t \in Conns : t < cur => target[t] # "open"
    /\ \A t \in Conns :
          t = cur /\ respPc \notin {"handle", "close"} => target[t] # "open"
    /\ hcPc = "done" /\ (routing \/ reqPc = "idle")
         => conn = "closed" /\ file # "open"
    /\ reqPc = "done" => conn = "closed" /\ file = "closed"

IInv == TypeOK /\ Control /\ Order /\ Pending /\ Open

-----------------------------------------------------------------------------
(* IInv holds before HandleConnection has done anything.                   *)
LEMMA InitIInv == Init => IInv
<1> SUFFICES ASSUME Init PROVE IInv
    OBVIOUS
<1> USE MaxConnsAssumption, CallCapAssumption DEF Init
<1>1. routing \in BOOLEAN
    BY ModesAssumption
<1>2. TypeOK
  <2>1. target \in [Conns -> {"none", "open", "closed"}]
      OBVIOUS
  <2>2. callCh \in Seq(Conns)
      BY EmptySeq
  <2>3. callClosed \in BOOLEAN
      OBVIOUS
  <2> QED BY <1>1, <2>1, <2>2, <2>3 DEF TypeOK, nil, HcPcs, ReqPcs, RespPcs
<1>3. Control
    BY DEF Control
<1>4. Order
    BY DEF Order, Bit, nil
<1>5. Pending
    BY DEF Pending, Bit
<1>6. Open
    BY DEF Open, Conns, nil
<1> QED BY <1>2, <1>3, <1>4, <1>5, <1>6 DEF IInv

(* A step that leaves the session alone keeps IInv.                        *)
LEMMA StutterIInv == IInv /\ UNCHANGED tvars => IInv'
<1> SUFFICES ASSUME IInv, UNCHANGED tvars PROVE IInv'
    OBVIOUS
<1> USE DEF tvars
<1>1. TypeOK'
    BY DEF IInv, TypeOK
<1>2. Control'
    BY DEF IInv, Control
<1>3. Order'
    BY DEF IInv, Order, Bit
<1>4. Pending'
    BY DEF IInv, Pending, Bit
<1>5. Open'
    BY DEF IInv, Open
<1> QED BY <1>1, <1>2, <1>3, <1>4, <1>5 DEF IInv

(* Appending the newest upstream keeps the queue in order.                 *)
LEMMA EnqueueOrder ==
    ASSUME TypeOK, Control, Order, Enqueue PROVE Order'
<1> USE CallCapAssumption DEF TypeOK, Conns
<1>1. dialled = cur + Len(callCh) + 1 /\ dialled \in Conns /\ routing
    BY LenProperties DEF Enqueue, Order, Bit, Control
<1>2. /\ Len(callCh') = Len(callCh) + 1
      /\ \A k \in 1..Len(callCh) : callCh'[k] = callCh[k]
      /\ callCh'[Len(callCh) + 1] = dialled
    BY <1>1, AppendProperties DEF Enqueue
<1>3. Len(callCh) \in Nat
    BY LenProperties
<1>4. \A k \in 1..Len(callCh') : callCh'[k] = cur' + k
    BY <1>1, <1>2, <1>3 DEF Enqueue, Order
<1>5. respPc' # "idle"
    BY <1>1 DEF Enqueue, Order, Bit
<1> QED BY <1>1, <1>2, <1>3, <1>4, <1>5 DEF Enqueue, Order, Bit

(* Taking the oldest routine moves cur to the next upstream.               *)
LEMMA RecvCallOrder ==
    ASSUME TypeOK, Control, Order, RecvCall
    PROVE  /\ callCh' \in Seq(Conns) /\ cur' = cur + 1 /\ cur' \in Conns
           /\ Len(callCh) = Len(callCh') + 1 /\ Order'
<1> USE CallCapAssumption DEF TypeOK, Conns
<1>1. Len(callCh) \in Nat /\ Len(callCh) > 0
    BY EmptySeq, LenProperties DEF RecvCall
<1>2. /\ callCh' \in Seq(Conns)
      /\ Len(callCh') = Len(callCh) - 1
      /\ \A k \in 1..Len(callCh') : callCh'[k] = callCh[k + 1]
    BY HeadTailProperties DEF RecvCall
<1>3. cur' = cur + 1 /\ cur' \in Conns
  <2>1. 1 \in 1..Len(callCh) /\ cur' = callCh[1]
      BY <1>1 DEF RecvCall
  <2>2. callCh[1] \in Conns
      BY <2>1, ElementOfSeq
  <2> QED BY <2>1, <2>2 DEF Order
<1>4. \A k \in 1..Len(callCh') : callCh'[k] = cur' + k
    BY <1>1, <1>2, <1>3 DEF Order
<1>5. Order'
  <2>1. dialled' = cur' + Len(callCh') + Bit(hcPc' \in {"sendConn", "enqueue"})
    <3>1. dialled' = dialled /\ hcPc' = hcPc
        BY DEF RecvCall
    <3>2. Bit(hcPc \in {"sendConn", "enqueue"}) \in Nat
        BY DEF Bit
    <3> QED BY <1>1, <1>2, <1>3, <3>1, <3>2 DEF Order
  <2>2. Len(callCh') <= CallCap
      BY <1>1, <1>2 DEF Order
  <2>3. routing' /\ respPc' # "idle"
      BY DEF Control, RecvCall
  <2> QED BY <1>3, <1>4, <2>1, <2>2, <2>3 DEF Order, nil
<1> QED BY <1>1, <1>2, <1>3, <1>5

(* Every step of the broker, of the request goroutine and of the response  *)
(* worker keeps IInv: the induction step, one case per action.             *)
LEMMA NextIInv == IInv /\ [Next]_tvars => IInv'
<1> SUFFICES ASSUME IInv, [Next]_tvars PROVE IInv'
    OBVIOUS
<1> USE MaxConnsAssumption, CallCapAssumption
    DEF IInv, TypeOK, Control, Order, Pending, Open, Bit, Conns, nil,
        HcPcs, ReqPcs, RespPcs, closeConn
<1>1. CASE SetupFails
    BY <1>1 DEF SetupFails
<1>2. CASE StartRouted
    BY <1>2 DEF StartRouted
<1>3. CASE StartDirect
    BY <1>3 DEF StartDirect
<1>4. CASE SendAddr
    BY <1>4 DEF SendAddr
<1>5. CASE DialOK
  <2>1. TypeOK'
      BY <1>5 DEF DialOK
  <2>2. Control'
      BY <1>5 DEF DialOK
  <2>3. Order'
      BY <1>5 DEF DialOK
  <2>4. Pending'
      BY <1>5 DEF DialOK
  <2>5. Open'
      BY <1>5 DEF DialOK
  <2> QED BY <2>1, <2>2, <2>3, <2>4, <2>5
<1>6. CASE DialFails
    BY <1>6 DEF DialFails
<1>7. CASE SendConn
    BY <1>7 DEF SendConn
<1>8. CASE SendNil
    BY <1>8 DEF SendNil
<1>9. CASE Enqueue
  <2>1. TypeOK'
      BY <1>9 DEF Enqueue
  <2>2. Control'
      BY <1>9 DEF Enqueue
  <2>3. Order'
      BY <1>9, EnqueueOrder
  <2>4. Pending'
      BY <1>9 DEF Enqueue
  <2>5. Open'
      BY <1>9 DEF Enqueue
  <2> QED BY <2>1, <2>2, <2>3, <2>4, <2>5
<1>10. CASE AddrClosed
    BY <1>10 DEF AddrClosed
<1>11. CASE Cleanup
    BY <1>11 DEF Cleanup
<1>12. CASE AskConn
    BY <1>12 DEF AskConn
<1>13. CASE ReturnRequest
    BY <1>13 DEF ReturnRequest
<1>14. CASE CloseAddr
    BY <1>14 DEF CloseAddr
<1>15. CASE CloseRequest
  <2>1. TypeOK'
      BY <1>15 DEF CloseRequest
  <2>2. Control'
      BY <1>15 DEF CloseRequest
  <2>3. Order'
      BY <1>15 DEF CloseRequest
  <2>4. Pending'
      BY <1>15 DEF CloseRequest
  <2>5. Open'
      BY <1>15 DEF CloseRequest
  <2> QED BY <2>1, <2>2, <2>3, <2>4, <2>5
<1>16. CASE RecvCall
  <2>a. callCh' \in Seq(Conns) /\ cur' = cur + 1 /\ cur' \in Conns
        /\ Len(callCh) = Len(callCh') + 1 /\ Order'
      BY <1>16, RecvCallOrder
  <2>1. TypeOK'
      BY <1>16 DEF RecvCall
  <2>2. Control'
      BY <1>16 DEF RecvCall
  <2>3. Order'
      BY <2>a
  <2>4. Pending'
    <3>1. /\ routing /\ routing' /\ hcPc' = hcPc /\ wg' = wg
          /\ respPc = "recv" /\ respPc' = "handle"
        BY <1>16 DEF RecvCall
    <3>2. Len(callCh') \in Nat /\ Len(callCh) = Len(callCh') + 1
        BY <2>a, LenProperties
    <3> QED BY <3>1, <3>2
  <2>5. Open'
    <3>1. respPc = "recv" /\ respPc' = "handle" /\ target' = target
        BY <1>16 DEF RecvCall
    <3>2. cur' = cur + 1
        BY <2>a
    <3>3. \A t \in Conns : t < cur' => target'[t] # "open"
        BY <3>1, <3>2
    <3> QED BY <1>16, <3>1, <3>3 DEF RecvCall
  <2> QED BY <2>1, <2>2, <2>3, <2>4, <2>5
<1>17. CASE RangeEnds
    BY <1>17 DEF RangeEnds
<1>18. CASE ForceClose
    BY <1>18 DEF ForceClose
<1>19. CASE ReturnResponse
    BY <1>19 DEF ReturnResponse
<1>20. CASE CloseResponse
  <2>1. TypeOK'
      BY <1>20 DEF CloseResponse
  <2>2. Control'
      BY <1>20 DEF CloseResponse
  <2>3. Order'
      BY <1>20 DEF CloseResponse
  <2>4. Pending'
    <3>1. CASE routing
        BY <1>20, <3>1 DEF CloseResponse
    <3>2. CASE ~routing
        BY <1>20, <3>2 DEF CloseResponse
    <3> QED BY <3>1, <3>2
  <2>5. Open'
      BY <1>20 DEF CloseResponse
  <2> QED BY <2>1, <2>2, <2>3, <2>4, <2>5
<1>21. CASE Finished \/ UNCHANGED tvars
    BY <1>21, StutterIInv DEF Finished
<1>22. QED
    BY <1>1, <1>2, <1>3, <1>4, <1>5, <1>6, <1>7, <1>8, <1>9, <1>10, <1>11,
       <1>12, <1>13, <1>14, <1>15, <1>16, <1>17, <1>18, <1>19, <1>20, <1>21
    DEF Next, Broker, Request, Response

(* IInv is an inductive invariant of the session.                          *)
LEMMA Invariance == Spec => []IInv
BY InitIInv, NextIInv, PTL DEF Spec

-----------------------------------------------------------------------------
(* The session's variables keep their types; in particular the WaitGroup   *)
(* counter of the response worker never goes below zero.                   *)
THEOREM TypeCorrect == Spec => []TypeOK
<1>1. IInv => TypeOK
    BY DEF IInv
<1> QED BY <1>1, Invariance, PTL

(* The addrCh / connCh handshake between HandleRequest and the broker      *)
(* never leaves one side blocked without a partner.                        *)
THEOREM HandshakeSafe == Spec => []NoOrphan
<1>1. IInv => NoOrphan
    BY DEF IInv, Control, NoOrphan
<1> QED BY <1>1, Invariance, PTL

(* Whatever the handlers do and whichever dial fails, a session whose      *)
(* goroutines have ended holds no open connection or descriptor.           *)
THEOREM EverythingReleased == Spec => []Released
<1>1. IInv => Released
  <2> SUFFICES ASSUME IInv, SessionOver
               PROVE  /\ conn = "closed" /\ file # "open"
                      /\ \A t \in Conns : target[t] # "open"
      BY DEF Released
  <2>1. conn = "closed" /\ file # "open"
      BY DEF IInv, Open, SessionOver
  <2>2. callCh = <<>>
    <3>1. CASE respPc = "idle"
      <4>1. dialled = 0 /\ cur \in Nat /\ Len(callCh) \in Nat
          BY <3>1, LenProperties DEF IInv, Order, TypeOK
      <4>2. Len(callCh) = 0
          BY <4>1 DEF IInv, Order, Bit
      <4> QED BY <4>2, EmptySeq DEF IInv, TypeOK
    <3>2. CASE respPc = "done"
        BY <3>2 DEF IInv, Order, Control
    <3> QED BY <3>1, <3>2 DEF SessionOver
  <2>3. dialled = cur /\ dialled \in Nat
    <3>1. dialled = cur + Len(callCh) /\ cur \in Nat
        BY DEF IInv, Order, Bit, SessionOver, TypeOK
    <3> QED BY <2>2, <3>1, EmptySeq
  <2>4. ASSUME NEW t \in Conns PROVE target[t] # "open"
      BY <2>3 DEF IInv, Open, SessionOver, Conns
  <2> QED BY <2>1, <2>4
<1> QED BY <1>1, Invariance, PTL

(* callCh bounds the upstream connections a session holds open.            *)
THEOREM BacklogBounded == Spec => []Backlog
<1>1. IInv => Backlog
  <2> SUFFICES ASSUME IInv PROVE Backlog
      OBVIOUS
  <2> DEFINE S == {t \in Conns : target[t] = "open"}
  <2>1. cur \in Nat /\ dialled \in Nat /\ Len(callCh) \in Nat /\ CallCap \in Nat
      BY LenProperties, CallCapAssumption DEF IInv, TypeOK
  <2>2. cur <= dialled /\ dialled <= cur + CallCap + 1
      BY <2>1 DEF IInv, Order, Bit
  <2>3. S \in SUBSET (cur..dialled)
      BY <2>1 DEF IInv, Open, Conns
  <2>4. IsFiniteSet(cur..dialled) /\ Cardinality(cur..dialled) <= CallCap + 2
      BY <2>1, <2>2, FS_Interval
  <2>5. Cardinality(S) <= Cardinality(cur..dialled) /\ Cardinality(S) \in Nat
        /\ Cardinality(cur..dialled) \in Nat
      BY <2>3, <2>4, FS_Subset, FS_CardinalityType
  <2> QED BY <2>1, <2>4, <2>5 DEF Backlog
<1> QED BY <1>1, Invariance, PTL

(* The response worker moves to the next upstream or stays.                *)
LEMMA CurStep == IInv /\ [Next]_tvars => cur' = cur + 1 \/ cur' = cur
<1> SUFFICES ASSUME IInv, Next PROVE cur' = cur + 1 \/ cur' = cur
    BY DEF tvars
<1>1. CASE RecvCall
    BY <1>1, RecvCallOrder DEF IInv
<1>2. CASE DialOK
  <2>1. CASE ~routing
    <3>1. respPc = "idle"
        BY <1>2, <2>1 DEF IInv, Control, DialOK
    <3>2. dialled = 0 /\ cur = 0
        BY <3>1, LenProperties DEF IInv, Order, Bit, TypeOK
    <3> QED BY <1>2, <2>1, <3>2 DEF DialOK
  <2>2. CASE routing
      BY <1>2, <2>2 DEF DialOK
  <2> QED BY <2>1, <2>2
<1>3. CASE Next /\ ~RecvCall /\ ~DialOK
    BY <1>3 DEF Next, Broker, Request, Response, Finished, tvars,
       SetupFails, StartRouted, StartDirect, SendAddr, DialFails, SendConn,
       SendNil, Enqueue, AddrClosed, Cleanup, AskConn, ReturnRequest,
       CloseAddr, CloseRequest, RangeEnds, ForceClose, ReturnResponse,
       CloseResponse
<1> QED BY <1>1, <1>2, <1>3

(* Each dialled upstream is handed to the response worker exactly once,    *)
(* in the order in which the requests asked for it.                        *)
THEOREM ResponsesServedInOrder == Spec => ServedInOrder
<1>1. IInv /\ [Next]_tvars => [cur' = cur + 1]_cur
    BY CurStep
<1> QED BY <1>1, Invariance, PTL DEF Spec, ServedInOrder

(* A closed client connection stays closed; while it is open nothing but   *)
(* the upstream in turn is closed, and that by the response worker.        *)
LEMMA ClosingStep ==
    ASSUME IInv, [Next]_tvars, conn' = "open"
    PROVE  /\ conn = "open"
           /\ \A t \in Conns : t > cur /\ target'[t] = "closed" => target[t] = "closed"
           /\ \A t \in Conns : target'[t] = "closed" /\ target[t] # "closed" =>
                 t = cur /\ (ForceClose \/ CloseResponse)
<1>1. target \in [Conns -> {"none", "open", "closed"}] /\ cur \in Nat /\ dialled \in Nat
    BY MaxConnsAssumption DEF IInv, TypeOK
<1>2. CASE ForceClose \/ CloseResponse
  <2>1. conn = "open" /\ target' = closeConn(cur)
      BY <1>2 DEF ForceClose, CloseResponse
  <2>2. \A t \in Conns : t # cur => target'[t] = target[t]
      BY <1>1, <2>1 DEF closeConn
  <2> QED BY <1>1, <1>2, <2>1, <2>2 DEF Conns
<1>3. CASE DialOK
    BY <1>1, <1>3 DEF DialOK
<1>4. CASE CloseRequest
    BY <1>4 DEF CloseRequest
<1>5. CASE Next /\ ~ForceClose /\ ~CloseResponse /\ ~DialOK /\ ~CloseRequest
    BY <1>5 DEF Next, Broker, Request, Response, Finished, tvars,
       SetupFails, StartRouted, StartDirect, SendAddr, DialFails, SendConn,
       SendNil, Enqueue, AddrClosed, Cleanup, AskConn, ReturnRequest,
       CloseAddr, RangeEnds, RecvCall, ReturnResponse
<1>6. CASE UNCHANGED tvars
    BY <1>6 DEF tvars
<1> QED BY <1>2, <1>3, <1>4, <1>5, <1>6
=============================================================================
