--------------------------- MODULE HTTPSpanProofs ---------------------------
(***************************************************************************)
(* The queues of NetHTTPRequest stay aligned in every regular session, for *)
(* any number of requests and upstreams: SpanPairing and AnswersWhole.     *)
(*                                                                         *)
(* The request goroutine pushes requests and spans, the response           *)
(* goroutines pop them, and nothing but the order of the responses ties    *)
(* the two ends together.  So the argument counts: with n spans finished   *)
(* the queues hold the requests and spans after n, up to the one in        *)
(* HandleRequest's hands (Queues), the response in HandleResponse's hands  *)
(* answers request n + 1 (InProgress), the responses not read yet answer   *)
(* the requests after that, one each (Incoming), and an upstream is left   *)
(* with n equal to its own number, or it is the last one (Turn).  A        *)
(* request that went to the fallback is in no queue; it is the last of the *)
(* session, and its answer may be copied or, if it can be parsed, handled  *)
(* with nothing to pop (Declined, Spent).                                  *)
(***************************************************************************)
EXTENDS HTTPSessionProofs

Ended == {"return", "close", "done"}

(* An upgrade or what cannot be parsed is not put in a queue: nothing      *)
(* follows it, and it is copied to the upstream.  No upstream has received *)
(* more than was written, and what was answered was sent.                  *)
Sending ==
    /\ \A i \in 1..Len(sent) : Foreign(i) => i = Len(sent)
    /\ Foreign(rd) => hr \in {"addr", "fallback", "tunnel"} \/ reqPc \in Ended
    /\ hr \in {"fallback", "tunnel"} => Foreign(rd)
    /\ \A t \in Conns : \A k \in 1..Len(arrived[t]) : arrived[t][k] <= Written
    /\ raw \subseteq 1..Len(sent)

(* The number of upstreams follows the number of requests, and an upstream *)
(* not handled yet is closed only when the request goroutine ends.         *)
Dialling ==
    /\ routing => dialled <= rd /\ rd <= dialled + 1
    /\ reqPc \in Ended /\ w # nil => w = dialled
    /\ \A t \in Conns :
          t > cur /\ target[t] = "closed" => t = dialled /\ reqPc = "done"

(* How many requests and spans HandleRequest has pushed, and how many      *)
(* requests and responses HandleResponse has taken.                        *)
Pushed == IF hr \in {"addr", "set"} \/ Foreign(rd) THEN rd - 1 ELSE rd
Spanned == IF hr \in {"start", "span"} THEN rd - 1 ELSE Pushed
Popped == Len(finished) + Bit(hs = "finish")
Taken == Len(finished) + Bit(hs \in {"deliver", "respond", "stop", "finish", "tunnel"})

(* The response in hand is one to the last request, which went to the      *)
(* fallback; and such a response has been handled.                         *)
Declined == Taken = rd /\ Foreign(rd)
Spent ==
    /\ hs \in {"read", "after"} /\ Taken + 1 = rd /\ Foreign(rd)
    /\ wire[cur] = <<>> /\ cur - 1 + served[cur] = rd

Queues ==
    /\ Len(httpRequests) = Pushed - Popped
    /\ \A k \in 1..Len(httpRequests) : httpRequests[k] = Popped + k
    /\ Len(spans) = Spanned - Len(finished)
    /\ \A k \in 1..Len(spans) : spans[k].for = Len(finished) + k
    /\ httpResponses = IF hs = "stop" THEN <<rs>> ELSE <<>>
    /\ \A k \in 1..Len(finished) :
          finished[k].req = k /\ finished[k].resp.req = k /\ finished[k].span.for = k

InProgress ==
    /\ hs # "body" /\ ~lost
    /\ respPc # "handle" => hs = "read"
    /\ hs \in {"deliver", "respond", "stop"} => rs = [req |-> Taken, code |-> "final"]
    /\ hs = "finish" => stopped.req = Taken /\ stopped.resp.req = Taken
    /\ hs \in {"read", "finish", "after"} => Taken <= Spanned
    /\ hs \in {"deliver", "respond", "stop"} => Taken <= Spanned \/ Declined
    /\ hs = "tunnel" => Declined

Incoming ==
    /\ \A t \in Conns : \A k \in 1..Len(wire[t]) :
          /\ wire[t][k].req \in 1..Written
          /\ wire[t][k].code \in {"raw", "final"}
          /\ wire[t][k].code = "raw" => Foreign(wire[t][k].req)
    /\ \A t \in Conns : t > cur =>
          /\ Len(wire[t]) = served[t]
          /\ \A k \in 1..Len(wire[t]) : wire[t][k].req = t - 1 + k
    /\ respPc = "handle" /\ ~Spent =>
          /\ Taken + Len(wire[cur]) = cur - 1 + served[cur]
          /\ \A k \in 1..Len(wire[cur]) : wire[cur][k].req = Taken + k

(* No further upstream will be dialled.                                    *)
LastTurn == dialled = cur /\ (reqPc \in Ended \/ hr = "tunnel")

Turn ==
    /\ respPc = "idle" => Len(finished) = 0
    /\ routing /\ respPc # "handle" => LastTurn \/ Len(finished) = cur
    /\ routing /\ respPc = "handle" =>
          /\ Len(finished) \in {cur - 1, cur}
          /\ hs \in {"deliver", "respond", "stop"} =>
                Len(finished) = cur - 1 \/ (LastTurn /\ Declined)
          /\ hs = "finish" => Len(finished) = cur - 1
          /\ hs = "after" => Len(finished) = cur \/ LastTurn
          /\ hs = "tunnel" => LastTurn
          /\ target[cur] = "closed" => LastTurn \/ Taken = cur

(* What the client has of the requests in the queues.                      *)
Shown == Len(finished) + Bit(hs \in {"respond", "stop", "finish"})

Received ==
    \A k \in 1..Len(got) :
        /\ got[k].code = "final" => Foreign(got[k].req) \/ got[k].req \in 1..Shown
        /\ got[k].code = "garbled" => Foreign(got[k].req)

Aligned == Queues /\ InProgress /\ Incoming /\ Turn /\ Received

SpanInv == OrderInv /\ Sending /\ Dialling /\ (Regular => Aligned)


-----------------------------------------------------------------------------
(* The types of what the request side speaks of.                           *)
LEMMA RequestTypes ==
    ASSUME OrderInv
    PROVE  /\ Len(sent) \in Nat /\ rd \in Nat /\ rd <= Len(sent)
           /\ sent \in Seq(Kinds) /\ routing \in BOOLEAN
           /\ w \in Nat /\ cur \in Nat /\ dialled \in Nat
           /\ target \in [Conns -> {"none", "open", "closed"}]
           /\ arrived \in [Conns -> Seq(Reqs)] /\ Written \in Int /\ Written <= rd
           /\ HTTPInv /\ HTTPTypeOK /\ TypeOK /\ IInv
<1>1. HTTPInv /\ HTTPTypeOK /\ TypeOK /\ IInv /\ Counts
    BY DEF OrderInv, HTTPInv, IInv
<1>2. /\ rd \in Nat /\ sent \in Seq(Kinds) /\ routing \in BOOLEAN
      /\ w \in Nat /\ cur \in Nat /\ dialled \in Nat
      /\ target \in [Conns -> {"none", "open", "closed"}]
      /\ arrived \in [Conns -> Seq(Reqs)]
    BY <1>1, MaxConnsAssumption, MaxReqsAssumption DEF HTTPTypeOK, TypeOK
<1>3. Len(sent) \in Nat
    BY <1>2, LenProperties
<1> QED BY <1>1, <1>2, <1>3 DEF Counts, Written

(* Steps that leave the request side alone.                                *)
LEMMA SendingFrame ==
    ASSUME OrderInv, Sending, UNCHANGED <<sent, rd, hr, arrived>>, raw' \subseteq 1..Len(sent),
           reqPc \in Ended => reqPc' \in Ended
    PROVE  Sending'
<1>1. \A i : Foreign(i)' <=> Foreign(i)
    BY DEF Foreign
<1>2. Written' = Written
    BY DEF Written
<1> QED BY <1>1, <1>2 DEF Sending

(* What a client sends comes after what it has sent, which was plain.      *)
LEMMA ClientSending ==
    ASSUME OrderInv, Sending, ClientSends PROVE Sending'
<1>1. /\ Len(sent) \in Nat /\ rd \in Nat /\ rd <= Len(sent) /\ sent \in Seq(Kinds)
    BY RequestTypes
<1>2. PICK k : sent' = Append(sent, k)
    BY DEF ClientSends
<1>3. /\ Len(sent') = Len(sent) + 1
      /\ \A i \in 1..Len(sent) : sent'[i] = sent[i]
    BY <1>1, <1>2
<1>4. UNCHANGED <<rd, hr, arrived, reqPc, raw>>
    BY DEF ClientSends, tvars, server, handleRequest
<1>5. \A i \in 1..Len(sent) : ~Foreign(i) /\ ~Foreign(i)'
    BY <1>3 DEF ClientSends, Foreign
<1>6. Foreign(rd)' <=> Foreign(rd)
    BY <1>1, <1>4, <1>5 DEF Foreign
<1>7. Written' = Written
    BY <1>4 DEF Written
<1>8. \A i \in 1..Len(sent') : Foreign(i)' => i = Len(sent')
    BY <1>1, <1>3, <1>5
<1>9. raw' \subseteq 1..Len(sent')
    BY <1>1, <1>3, <1>4 DEF Sending
<1> QED BY <1>4, <1>6, <1>7, <1>8, <1>9 DEF Sending


(* What HandleRequest writes arrives as the request in hand, if it does.   *)
LEMMA ArriveBound ==
    ASSUME OrderInv, Sending, Arrive, Written' = rd, w # nil, w \in Conns
    PROVE  \A t \in Conns : \A k \in 1..Len(arrived'[t]) : arrived'[t][k] <= Written'
<1>1. /\ rd \in Nat /\ arrived \in [Conns -> Seq(Reqs)] /\ Written \in Int /\ Written <= rd
    BY RequestTypes
<1>2. ASSUME NEW t \in Conns, NEW k \in 1..Len(arrived[t]) PROVE arrived[t][k] <= rd
  <2>1. arrived[t] \in Seq(Reqs)
      BY <1>1
  <2>2. arrived[t][k] \in Nat
      BY <2>1, ElementOfSeq, MaxReqsAssumption, MaxConnsAssumption DEF Reqs
  <2> QED BY <1>1, <2>2 DEF Sending
<1>3. ASSUME NEW t \in Conns, NEW k \in 1..Len(arrived'[t]), t = w,
             arrived' = [arrived EXCEPT ![w] = Append(@, rd)]
      PROVE  arrived'[t][k] <= rd
  <2>1. arrived'[t] = Append(arrived[t], rd) /\ arrived[t] \in Seq(Reqs)
      BY <1>1, <1>3
  <2> QED BY <1>1, <1>2, <2>1
<1>4. ASSUME NEW t \in Conns, t # w \/ arrived' = arrived PROVE arrived'[t] = arrived[t]
    BY <1>1, <1>4 DEF Arrive
<1> QED BY <1>2, <1>3, <1>4 DEF Arrive

(* The request goroutine keeps Sending.                                    *)
LEMMA RequestSending ==
    ASSUME OrderInv, Sending, HTTPRequest PROVE Sending'
<1>1. /\ Len(sent) \in Nat /\ rd \in Nat /\ rd <= Len(sent) /\ sent \in Seq(Kinds)
      /\ arrived \in [Conns -> Seq(Reqs)] /\ Written \in Int /\ Written <= rd
      /\ w \in Nat /\ TypeOK /\ IInv /\ Asking
    BY RequestTypes DEF OrderInv
<1>2. sent' = sent
    BY DEF HTTPRequest, ReadRequest, ReadBadRequest, ReadEnds, SetRemoteAddr,
       SetHTTPRequest, PeekRequest, PushSpan, WriteRequest, WriteBody, Fallback,
       FallbackEnds, hvars, client
<1>3. \A i \in Nat : (i \in 1..Len(sent') /\ sent'[i] \in {"upgrade", "bad"}) <=> Foreign(i)
    BY <1>2 DEF Foreign
<1>4. \A i \in 1..Len(sent') : Foreign(i)' => i = Len(sent')
    BY <1>2, <1>3 DEF Sending, Foreign
<1>5. \A t \in Conns : \A k \in 1..Len(arrived[t]) : arrived[t][k] \in Nat
  <2> SUFFICES ASSUME NEW t \in Conns, NEW k \in 1..Len(arrived[t]) PROVE arrived[t][k] \in Nat
      OBVIOUS
  <2>1. arrived[t] \in Seq(Reqs)
      BY <1>1
  <2> QED BY <2>1, ElementOfSeq, MaxReqsAssumption, MaxConnsAssumption DEF Reqs
<1>10. raw' = raw /\ raw' \subseteq 1..Len(sent')
  <2>1. raw' = raw
      BY DEF HTTPRequest, ReadRequest, ReadBadRequest, ReadEnds, SetRemoteAddr,
         SetHTTPRequest, PeekRequest, PushSpan, WriteRequest, WriteBody, Fallback,
         FallbackEnds, hvars, server
  <2> QED BY <1>2, <2>1 DEF Sending
<1>6. CASE ReadRequest \/ ReadBadRequest
  <2>1. /\ rd' = rd + 1 /\ arrived' = arrived /\ rd < Len(sent) /\ hr = "read"
        /\ \/ hr' = "addr" /\ (sent[rd + 1] = "bad" => reqPc' = reqPc)
           \/ hr' = hr /\ reqPc' = "return"
      BY <1>6 DEF ReadRequest, ReadBadRequest, ReturnRequest, server, tvars
  <2>2. Written = rd /\ Written' >= rd
      BY <1>1, <2>1 DEF Written
  <2>3. \A t \in Conns : \A k \in 1..Len(arrived'[t]) : arrived'[t][k] <= Written'
    <3>1. Written' \in Int
        BY <1>1, <2>1 DEF Written
    <3> QED BY <1>1, <1>5, <2>1, <2>2, <3>1 DEF Sending
  <2>4. Foreign(rd)' => hr' \in {"addr", "fallback", "tunnel"} \/ reqPc' \in Ended
      BY <2>1 DEF Ended
  <2>5. hr' \notin {"fallback", "tunnel"}
      BY <2>1
  <2> QED BY <1>4, <1>10, <2>3, <2>4, <2>5 DEF Sending
<1>7. CASE SetRemoteAddr \/ SetHTTPRequest \/ PeekRequest \/ PushSpan \/ WriteBody
  <2>1. /\ rd' = rd /\ arrived' = arrived /\ reqPc' = reqPc /\ reqPc = "handle"
      BY <1>7 DEF SetRemoteAddr, SetHTTPRequest, PeekRequest, PushSpan, WriteBody, server, tvars
  <2>2. \/ hr = "addr" /\ hr' = IF sent[rd] \in {"bad", "upgrade"} THEN "fallback" ELSE "set"
        \/ hr \in {"set", "start", "span"} /\ hr' \in {"start", "span", "write"}
        \/ hr = "body" /\ hr' = "read"
      BY <1>7 DEF SetRemoteAddr, SetHTTPRequest, PeekRequest, PushSpan, WriteBody
  <2>3. Written' = Written
      BY <2>1, <2>2 DEF Written
  <2>4. Foreign(rd)' <=> Foreign(rd)
      BY <1>2, <2>1 DEF Foreign
  <2>5. rd \in 1..Len(sent)
      BY <1>1, <2>2 DEF OrderInv, HTTPInv, Counts
  <2>6. Foreign(rd) => hr' \in {"addr", "fallback", "tunnel"}
      BY <2>1, <2>2 DEF Sending, Ended, Foreign
  <2>7. hr' \in {"fallback", "tunnel"} => Foreign(rd)
      BY <2>2, <2>5 DEF Foreign
  <2> QED BY <1>4, <1>10, <2>1, <2>3, <2>4, <2>6, <2>7 DEF Sending
<1>8. CASE WriteRequest \/ Fallback
  <2>1. /\ rd' = rd /\ reqPc' = reqPc /\ reqPc = "handle" /\ Arrive
        /\ \/ hr = "write" /\ hr' \in {"body", "read"}
           \/ hr = "fallback" /\ hr' = "tunnel"
      BY <1>8 DEF WriteRequest, Fallback, tvars
  <2>2. Written' = rd
      BY <2>1 DEF Written
  <2>3. w # nil /\ w \in Conns
    <3>1. rd # 0
        BY <2>1 DEF OrderInv, HTTPInv, Counts
    <3>2. w # nil
        BY <1>1, <2>1, <3>1 DEF Asking, nil
    <3> QED BY <1>1, <3>2, MaxConnsAssumption DEF TypeOK, nil, Conns
  <2>4. Foreign(rd)' <=> Foreign(rd)
      BY <1>2, <2>1 DEF Foreign
  <2>5. Foreign(rd) => hr' = "tunnel"
      BY <2>1 DEF Sending, Ended
  <2>6. hr' = "tunnel" => Foreign(rd)
      BY <2>1 DEF Sending
  <2>7. \A t \in Conns : \A k \in 1..Len(arrived'[t]) : arrived'[t][k] <= Written'
      BY <2>1, <2>2, <2>3, ArriveBound
  <2>8. hr' # "fallback"
      BY <2>1
  <2> QED BY <1>4, <1>10, <2>1, <2>4, <2>5, <2>6, <2>7, <2>8 DEF Sending
<1>9. CASE ReadEnds \/ FallbackEnds \/ ((CloseAddr \/ CloseRequest) /\ UNCHANGED hvars)
  <2>1. UNCHANGED <<sent, rd, hr, arrived>> /\ reqPc' \in Ended
      BY <1>9 DEF ReadEnds, FallbackEnds, ReturnRequest, CloseAddr, CloseRequest, hvars,
         client, server, handleRequest, Ended
  <2> QED BY <1>2, <1>10, <2>1, SendingFrame
<1> QED BY <1>6, <1>7, <1>8, <1>9 DEF HTTPRequest


(* The request a server answers has been sent and written, and its number  *)
(* follows from the upstream's and from how many were answered before.     *)
LEMMA UnansweredIs ==
    ASSUME OrderInv, Sending, NEW t \in Conns, served[t] < Len(arrived[t])
    PROVE  /\ Unanswered(t) = t + served[t] /\ Unanswered(t) \in 1..Written
           /\ Unanswered(t) \in 1..Len(sent)
<1>1. /\ arrived \in [Conns -> Seq(Reqs)] /\ Written \in Int /\ Written <= rd
      /\ served[t] \in Nat /\ rd \in Nat /\ rd <= Len(sent) /\ Len(sent) \in Nat
    BY RequestTypes, MaxConnsAssumption, MaxReqsAssumption DEF HTTPTypeOK
<1>2. Len(arrived[t]) \in Nat /\ t \in Nat /\ t >= 1
    BY <1>1, LenProperties, MaxConnsAssumption DEF Conns
<1>3. PICK k \in 1..Len(arrived[t]) : k = served[t] + 1
    BY <1>1, <1>2
<1>4. arrived[t][k] = t - 1 + k /\ arrived[t][k] <= Written
    BY DEF OrderInv, Arrivals, Sending
<1> QED BY <1>1, <1>2, <1>3, <1>4 DEF Unanswered

(* Every step keeps Sending.                                               *)
LEMMA NextSending ==
    ASSUME OrderInv, Sending, [HTTPNext]_svars PROVE Sending'
<1>1. CASE HTTPRequest
    BY <1>1, RequestSending
<1>2. CASE ClientSends
    BY <1>2, ClientSending
<1>3. CASE HTTPBroker
  <2>1. UNCHANGED <<sent, rd, hr, arrived, raw>>
      BY <1>3 DEF HTTPBroker, hvars, client, server, handleRequest
  <2>2. reqPc \in Ended => reqPc' \in Ended
      BY <1>3 DEF HTTPBroker, Broker, SetupFails, StartRouted, StartDirect, SendAddr,
         DialOK, DialFails, SendConn, SendNil, Enqueue, AddrClosed, Cleanup, Ended,
         OrderInv, HTTPInv, IInv, Control
  <2> QED BY <2>1, <2>2, SendingFrame DEF Sending
<1>4. CASE HTTPResponse
  <2>1. UNCHANGED <<sent, rd, hr, arrived, raw>>
      BY <1>4 DEF HTTPResponse, ReadResponse, CopyRaw, ResponseEnds, DeliverHead,
         Deliver, SwallowResponse, BodyFails, SetHTTPResponse, StopRequest, FinishSpan,
         AfterResponse, hvars, client, server, handleRequest
  <2>2. reqPc' = reqPc
      BY <1>4 DEF HTTPResponse, ReadResponse, CopyRaw, ResponseEnds, DeliverHead,
         Deliver, SwallowResponse, BodyFails, SetHTTPResponse, StopRequest, FinishSpan,
         AfterResponse, ForceClose, ReturnResponse, RecvCall, RangeEnds, CloseResponse, tvars
  <2> QED BY <2>1, <2>2, SendingFrame DEF Sending
<1>5. CASE HTTPPeers /\ ~ClientSends
  <2>1. /\ UNCHANGED <<sent, rd, hr, arrived, reqPc>>
        /\ \/ raw' = raw
           \/ \E t \in Conns : ServerAnswers(t) /\ raw' = raw \union {Unanswered(t)}
      BY <1>5 DEF HTTPPeers, ClientSendsBody, ClientCloses, ServerContinues,
         ServerAnswers, ServerCloses, tvars, client, server, handleRequest
  <2>2. ASSUME NEW t \in Conns, ServerAnswers(t) PROVE Unanswered(t) \in 1..Len(sent)
      BY <2>2, UnansweredIs DEF ServerAnswers
  <2>3. raw' \subseteq 1..Len(sent)
    <3>1. raw \subseteq 1..Len(sent)
        BY DEF Sending
    <3>2. CASE raw' = raw
        BY <3>1, <3>2
    <3>3. ASSUME NEW t \in Conns, ServerAnswers(t), raw' = raw \union {Unanswered(t)}
          PROVE  raw' \subseteq 1..Len(sent)
        BY <2>2, <3>1, <3>3
    <3> QED BY <2>1, <3>2, <3>3
  <2> QED BY <2>1, <2>3, SendingFrame
<1>6. CASE UNCHANGED svars
  <2>1. UNCHANGED <<sent, rd, hr, arrived, reqPc, raw>>
      BY <1>6 DEF svars, tvars, hvars, client, server, handleRequest
  <2> QED BY <2>1, SendingFrame DEF Sending
<1> QED BY <1>1, <1>2, <1>3, <1>4, <1>5, <1>6 DEF HTTPNext, HTTPFinished

-----------------------------------------------------------------------------
(* Steps that do not dial and close at most an upstream in turn.           *)
LEMMA DiallingFrame ==
    ASSUME OrderInv, Dialling, UNCHANGED <<routing, dialled, rd>>,
           cur' \in Nat, cur' >= cur,
           reqPc' \in Ended /\ w' # nil => w' = dialled,
           reqPc = "done" => reqPc' = "done",
           \A t \in Conns : t > cur' /\ target'[t] = "closed" => target[t] = "closed"
    PROVE  Dialling'
<1>1. cur \in Nat
    BY RequestTypes
<1> QED BY <1>1 DEF Dialling, Conns

(* The upstream in turn has been dialled.                                  *)
LEMMA CurDialled ==
    ASSUME OrderInv PROVE cur <= dialled
<1>1. TypeOK /\ Order /\ cur \in Nat /\ dialled \in Nat
    BY RequestTypes DEF IInv
<1>2. Len(callCh) \in Nat
    BY <1>1, LenProperties DEF TypeOK
<1> QED BY <1>1, <1>2 DEF Order, Bit

(* The broker keeps Dialling.                                              *)
LEMMA BrokerDialling ==
    ASSUME OrderInv, Dialling, HTTPBroker PROVE Dialling'
<1>1. /\ w \in Nat /\ cur \in Nat /\ dialled \in Nat /\ rd \in Nat /\ routing \in BOOLEAN
      /\ target \in [Conns -> {"none", "open", "closed"}] /\ TypeOK /\ IInv /\ Asking
    BY RequestTypes DEF OrderInv
<1>2. Broker /\ UNCHANGED <<rd, hr>>
    BY DEF HTTPBroker, hvars, handleRequest
<1>3. routing' = routing
    BY <1>2 DEF Broker, SetupFails, StartRouted, StartDirect, SendAddr,
         DialOK, DialFails, SendConn, SendNil, Enqueue, AddrClosed, Cleanup
<1>4. CASE DialOK
  <2>1. dialled' = dialled + 1 /\ target' = [target EXCEPT ![dialled + 1] = "open"]
        /\ cur' \in Nat /\ cur' >= cur /\ hcPc = "dial"
      BY <1>1, <1>4, CurDialled DEF DialOK
  <2>2. routing => dialled = w /\ rd = w + 1
      BY <1>1, <2>1 DEF Asking, IInv, Control
  <2>3. reqPc' \notin Ended /\ reqPc # "done"
      BY <1>1, <1>4, <2>1 DEF DialOK, IInv, Control, Ended
  <2>4. dialled + 1 \in Conns
      BY <1>1, <1>4, MaxConnsAssumption DEF DialOK, Conns
  <2>5. ASSUME NEW t \in Conns, t > cur', target'[t] = "closed" PROVE FALSE
    <3>1. target[t] = "closed" /\ t > cur
        BY <1>1, <2>1, <2>4, <2>5 DEF Conns
    <3> QED BY <2>3, <3>1 DEF Dialling
  <2> QED BY <1>1, <1>2, <1>3, <2>1, <2>2, <2>3, <2>5 DEF Dialling
<1>5. CASE ~DialOK
  <2>1. UNCHANGED <<dialled, cur, target>>
      BY <1>2, <1>5 DEF Broker, SetupFails, StartRouted, StartDirect, SendAddr,
         DialFails, SendConn, SendNil, Enqueue, AddrClosed, Cleanup
  <2>2. reqPc = "done" => reqPc' = "done"
      BY <1>1, <1>2, <1>5 DEF Broker, SetupFails, StartRouted, StartDirect, SendAddr,
         DialFails, SendConn, SendNil, Enqueue, AddrClosed, Cleanup, IInv, Control
  <2>3. reqPc' \in Ended => w' = nil \/ (reqPc \in Ended /\ w' = w)
      BY <1>2, <1>5 DEF Broker, SetupFails, StartRouted, StartDirect, SendAddr,
         DialFails, SendConn, SendNil, Enqueue, AddrClosed, Cleanup, Ended
  <2>4. reqPc' \in Ended /\ w' # nil => w' = dialled
      BY <2>3 DEF Dialling
  <2> QED BY <1>1, <1>2, <1>3, <2>1, <2>2, <2>4, DiallingFrame
<1> QED BY <1>4, <1>5

(* The request goroutine keeps Dialling: it asks for an upstream for every *)
(* request it can parse, and closes the last one when it ends.             *)
LEMMA RequestDialling ==
    ASSUME OrderInv, Sending, Dialling, HTTPRequest PROVE Dialling'
<1>1. /\ w \in Nat /\ cur \in Nat /\ dialled \in Nat /\ rd \in Nat /\ routing \in BOOLEAN
      /\ Len(sent) \in Nat
      /\ target \in [Conns -> {"none", "open", "closed"}] /\ TypeOK /\ IInv /\ Asking
    BY RequestTypes DEF OrderInv
<1>2. reqPc = "handle" => w = dialled
    BY <1>1 DEF Asking
<1>3. CASE ReadRequest \/ ReadBadRequest
  <2>1. /\ rd' = rd + 1 /\ hr = "read" /\ reqPc = "handle"
        /\ UNCHANGED <<routing, dialled, cur, target, w>> /\ reqPc # "done"
        /\ rd < Len(sent)
      BY <1>3 DEF ReadRequest, ReadBadRequest, ReturnRequest, AskConn, tvars
  <2>2. routing => rd = w
      BY <1>1, <2>1 DEF Asking
  <2>3. reqPc' \in Ended /\ w' # nil => w' = dialled
      BY <1>2, <2>1
  <2> QED BY <1>1, <1>2, <2>1, <2>2, <2>3 DEF Dialling
<1>4. CASE CloseRequest /\ UNCHANGED hvars
  <2>1. /\ UNCHANGED <<routing, dialled, cur, w, rd>> /\ reqPc = "close" /\ reqPc' = "done"
        /\ target' = closeConn(w)
      BY <1>4 DEF CloseRequest, hvars, handleRequest
  <2>2. w # nil => w = dialled
      BY <2>1 DEF Dialling, Ended
  <2>3. ASSUME NEW t \in Conns, t > cur, target'[t] = "closed" PROVE t = dialled
      BY <1>1, <2>1, <2>2, <2>3 DEF Dialling, closeConn
  <2> QED BY <2>1, <2>2, <2>3 DEF Dialling
<1>5. CASE \/ SetRemoteAddr \/ SetHTTPRequest \/ PeekRequest \/ PushSpan \/ WriteRequest
           \/ WriteBody \/ Fallback
  <2>1. UNCHANGED <<routing, dialled, cur, target, w, rd, reqPc>>
      BY <1>5 DEF SetRemoteAddr, SetHTTPRequest, PeekRequest, PushSpan, WriteRequest,
         WriteBody, Fallback, tvars
  <2> QED BY <1>1, <2>1, DiallingFrame DEF Dialling
<1>6. CASE ReadEnds \/ FallbackEnds
  <2>1. UNCHANGED <<routing, dialled, cur, target, w, rd>> /\ reqPc = "handle"
      BY <1>6 DEF ReadEnds, FallbackEnds, ReturnRequest, hvars, handleRequest
  <2> QED BY <1>1, <1>2, <2>1, DiallingFrame
<1>7. CASE CloseAddr /\ UNCHANGED hvars
  <2>1. UNCHANGED <<routing, dialled, cur, target, w, rd>> /\ reqPc = "return"
      BY <1>7 DEF CloseAddr, hvars, handleRequest
  <2>2. w # nil => w = dialled
      BY <2>1 DEF Dialling, Ended
  <2> QED BY <1>1, <2>1, <2>2, DiallingFrame
<1> QED BY <1>3, <1>4, <1>5, <1>6, <1>7 DEF HTTPRequest

(* Every step keeps Dialling.                                              *)
LEMMA NextDialling ==
    ASSUME OrderInv, Sending, Dialling, [HTTPNext]_svars PROVE Dialling'
<1>1. /\ cur \in Nat /\ TypeOK /\ IInv
      /\ target \in [Conns -> {"none", "open", "closed"}]
    BY RequestTypes
<1>2. CASE HTTPResponse
  <2>1. UNCHANGED <<routing, dialled, w, rd, reqPc>>
      BY <1>2 DEF HTTPResponse, ReadResponse, CopyRaw, ResponseEnds, DeliverHead,
         Deliver, SwallowResponse, BodyFails, SetHTTPResponse, StopRequest, FinishSpan,
         AfterResponse, ForceClose, ReturnResponse, RecvCall, RangeEnds, CloseResponse,
         tvars, hvars, handleRequest
  <2>2. CASE RecvCall
    <3>1. cur' = cur + 1
      <4>1. Len(callCh) # 0
          BY <1>1, <2>2, EmptySeq DEF RecvCall, TypeOK
      <4>2. Head(callCh) = callCh[1] /\ 1 \in 1..Len(callCh)
          BY <1>1, <2>2, <4>1, LenProperties DEF RecvCall, TypeOK
      <4> QED BY <1>1, <2>2, <4>2 DEF RecvCall, IInv, Order
    <3>2. target' = target
        BY <2>2 DEF RecvCall
    <3> QED BY <1>1, <2>1, <3>1, <3>2, DiallingFrame DEF Dialling
  <2>3. CASE ~RecvCall
    <3>1. cur' = cur
        BY <1>2, <2>3 DEF HTTPResponse, ReadResponse, CopyRaw, ResponseEnds, DeliverHead,
           Deliver, SwallowResponse, BodyFails, SetHTTPResponse, StopRequest, FinishSpan,
           AfterResponse, ForceClose, ReturnResponse, RangeEnds, CloseResponse, tvars
    <3>2. target' = target \/ target' = closeConn(cur)
      <4>1. CASE DeliverHead \/ AfterResponse \/ ResponseEnds
          BY <4>1 DEF DeliverHead, AfterResponse, ResponseEnds, ForceClose,
             ReturnResponse, tvars
      <4>2. CASE RangeEnds \/ CloseResponse
          BY <4>2 DEF RangeEnds, CloseResponse
      <4>3. CASE \/ ReadResponse \/ CopyRaw \/ Deliver \/ SwallowResponse \/ BodyFails
                 \/ SetHTTPResponse \/ StopRequest \/ FinishSpan
          BY <4>3 DEF ReadResponse, CopyRaw, Deliver, SwallowResponse, BodyFails,
             SetHTTPResponse, StopRequest, FinishSpan, tvars
      <4> QED BY <1>2, <2>3, <4>1, <4>2, <4>3 DEF HTTPResponse
    <3>3. \A t \in Conns : t > cur => target'[t] = target[t]
        BY <1>1, <3>2, MaxConnsAssumption DEF closeConn, Conns
    <3>4. reqPc' \in Ended /\ w' # nil => w' = dialled
        BY <2>1 DEF Dialling
    <3> QED BY <1>1, <2>1, <3>1, <3>3, <3>4, DiallingFrame
  <2> QED BY <2>2, <2>3
<1>3. CASE HTTPPeers \/ UNCHANGED svars
  <2>1. UNCHANGED <<routing, dialled, cur, target, w, rd, reqPc>>
      BY <1>3 DEF HTTPPeers, ClientSends, ClientSendsBody, ClientCloses, ServerContinues,
         ServerAnswers, ServerCloses, tvars, handleRequest, svars, hvars
  <2> QED BY <1>1, <2>1, DiallingFrame DEF Dialling
<1> QED BY <1>2, <1>3, BrokerDialling, RequestDialling DEF HTTPNext, HTTPFinished


-----------------------------------------------------------------------------
(* The types of what Aligned speaks of.                                    *)
LEMMA AlignedTypes ==
    ASSUME OrderInv
    PROVE  /\ Len(finished) \in Nat /\ Popped \in Nat /\ Taken \in Nat
           /\ Pushed \in Int /\ Spanned \in Int /\ Spanned <= Pushed /\ Pushed <= rd
           /\ Popped <= Taken /\ Taken <= Len(finished) + 1 /\ Len(finished) <= Popped
           /\ httpRequests \in Seq(Reqs) /\ httpResponses \in Seq(Responses)
           /\ spans \in Seq([for : Reqs, from : Reqs])
           /\ Len(httpRequests) \in Nat /\ Len(spans) \in Nat /\ Len(got) \in Nat
           /\ got \in Seq(Responses) /\ rs \in Responses
           /\ wire \in [Conns -> Seq(Responses)] /\ served \in [Conns -> Nat]
           /\ \A t \in Conns : Len(wire[t]) \in Nat /\ served[t] \in Nat
<1>1. HTTPTypeOK /\ rd \in Nat
    BY RequestTypes
<1>2. /\ httpRequests \in Seq(Reqs) /\ httpResponses \in Seq(Responses)
      /\ spans \in Seq([for : Reqs, from : Reqs])
      /\ got \in Seq(Responses) /\ rs \in Responses
      /\ wire \in [Conns -> Seq(Responses)] /\ served \in [Conns -> Nat]
    BY <1>1, MaxConnsAssumption, MaxReqsAssumption DEF HTTPTypeOK
<1>3. Len(finished) \in Nat
    BY <1>1, LenProperties DEF HTTPTypeOK
<1>4. Len(httpRequests) \in Nat /\ Len(spans) \in Nat /\ Len(got) \in Nat
    BY <1>2, LenProperties
<1>5. \A t \in Conns : Len(wire[t]) \in Nat /\ served[t] \in Nat
    BY <1>2, LenProperties
<1>6. /\ Popped \in Nat /\ Taken \in Nat /\ Popped <= Taken
      /\ Taken <= Len(finished) + 1 /\ Len(finished) <= Popped
    BY <1>3 DEF Popped, Taken, Bit
<1>7. Pushed \in Int /\ Spanned \in Int /\ Spanned <= Pushed /\ Pushed <= rd
    BY <1>1 DEF Pushed, Spanned
<1> QED BY <1>2, <1>3, <1>4, <1>5, <1>6, <1>7

(* A session that is regular has been regular all along.                   *)
LEMMA RegularBefore ==
    ASSUME OrderInv, Sending, [HTTPNext]_svars, Regular' PROVE Regular
<1>1. /\ Len(sent) \in Nat /\ sent \in Seq(Kinds) /\ dialled \in Nat
      /\ served \in [Conns -> Nat]
    BY RequestTypes, AlignedTypes
<1>2. /\ Len(sent) <= Len(sent') /\ Len(sent') \in Nat
      /\ \A i \in 1..Len(sent) : sent'[i] = sent[i]
  <2>1. sent' = sent \/ \E k : sent' = Append(sent, k)
    <3>1. CASE HTTPPeers
        BY <3>1 DEF HTTPPeers, ClientSends, ClientSendsBody, ClientCloses,
           ServerContinues, ServerAnswers, ServerCloses, client
    <3>2. CASE HTTPRequest
        BY <3>2 DEF HTTPRequest, ReadRequest, ReadBadRequest, ReadEnds, SetRemoteAddr,
           SetHTTPRequest, PeekRequest, PushSpan, WriteRequest, WriteBody, Fallback,
           FallbackEnds, hvars, client
    <3>3. CASE HTTPResponse
        BY <3>3 DEF HTTPResponse, ReadResponse, CopyRaw, ResponseEnds, DeliverHead,
           Deliver, SwallowResponse, BodyFails, SetHTTPResponse, StopRequest,
           FinishSpan, AfterResponse, hvars, client
    <3>4. CASE HTTPBroker \/ UNCHANGED svars
        BY <3>4 DEF HTTPBroker, svars, hvars, client
    <3> QED BY <3>1, <3>2, <3>3, <3>4 DEF HTTPNext, HTTPFinished
  <2> QED BY <1>1, <2>1
<1>3. routing' = routing /\ dialled' \in Nat /\ dialled <= dialled'
  <2>1. [Next]_tvars
      BY HTTPStep DEF svars
  <2>2. routing' = routing /\ (dialled' = dialled \/ dialled' = dialled + 1)
    <3>1. CASE Broker
        BY <3>1 DEF Broker, SetupFails, StartRouted, StartDirect, SendAddr,
           DialOK, DialFails, SendConn, SendNil, Enqueue, AddrClosed, Cleanup
    <3>2. CASE Request \/ Response
        BY <3>2 DEF Request, AskConn, ReturnRequest, CloseAddr, CloseRequest, Response,
           RecvCall, RangeEnds, ForceClose, ReturnResponse, CloseResponse
    <3>3. CASE UNCHANGED tvars
        BY <3>3 DEF tvars
    <3> QED BY <2>1, <3>1, <3>2, <3>3 DEF Next, Finished
  <2> QED BY <1>1, <2>2
<1>4. \A t \in Conns : srvFin[t] => srvFin'[t] /\ served'[t] = served[t]
  <2> SUFFICES ASSUME NEW t \in Conns, srvFin[t] PROVE srvFin'[t] /\ served'[t] = served[t]
      OBVIOUS
  <2>1. CASE \E s \in Conns : ServerAnswers(s)
      BY <1>1, <2>1 DEF ServerAnswers
  <2>2. CASE \E s \in Conns : ServerCloses(s)
    <3>1. srvFin \in [Conns -> BOOLEAN]
        BY RequestTypes DEF HTTPTypeOK
    <3> QED BY <2>2, <3>1 DEF ServerCloses
  <2>3. CASE UNCHANGED <<srvFin, served>>
      BY <2>3
  <2>4. CASE \/ ClientSends \/ ClientSendsBody \/ ClientCloses
             \/ \E s \in Conns : ServerContinues(s)
      BY <2>3, <2>4 DEF ClientSends, ClientSendsBody, ClientCloses, ServerContinues, server
  <2>5. CASE HTTPRequest
      BY <2>3, <2>5 DEF HTTPRequest, ReadRequest, ReadBadRequest, ReadEnds, SetRemoteAddr,
         SetHTTPRequest, PeekRequest, PushSpan, WriteRequest, WriteBody, Fallback,
         FallbackEnds, hvars, server
  <2>6. CASE HTTPResponse
      BY <2>3, <2>6 DEF HTTPResponse, ReadResponse, CopyRaw, ResponseEnds, DeliverHead,
         Deliver, SwallowResponse, BodyFails, SetHTTPResponse, StopRequest,
         FinishSpan, AfterResponse, hvars, server
  <2>7. CASE HTTPBroker \/ UNCHANGED svars
      BY <2>3, <2>7 DEF HTTPBroker, svars, hvars, server
  <2> QED BY <2>1, <2>2, <2>4, <2>5, <2>6, <2>7 DEF HTTPNext, HTTPFinished, HTTPPeers
<1>5. dialled <= MaxConns /\ MaxConns \in Nat
    BY RequestTypes, MaxConnsAssumption DEF TypeOK
<1>6. \A i \in 1..Len(sent) : sent[i] # "expect" /\ (sent[i] = "head" => routing)
    BY <1>1, <1>2, <1>3 DEF Regular
<1>7. ASSUME routing, NEW t \in 1..dialled, srvFin[t] PROVE served[t] = 1
  <2>1. t \in Conns /\ t \in 1..dialled'
      BY <1>1, <1>3, <1>5 DEF Conns
  <2> QED BY <1>3, <1>4, <1>7, <2>1 DEF Regular
<1>8. ASSUME NEW i \in raw PROVE Foreign(i)
  <2>1. i \in raw' /\ i \in 1..Len(sent)
      BY RawGrows DEF Sending
  <2>2. i \in 1..Len(sent') /\ sent'[i] \in {"upgrade", "bad"}
      BY <2>1 DEF Regular, Foreign
  <2> QED BY <1>2, <2>1, <2>2 DEF Foreign
<1> QED BY <1>6, <1>7, <1>8 DEF Regular


-----------------------------------------------------------------------------
(* Steps that leave the queues alone.                                      *)
LEMMA QueuesFrame ==
    ASSUME Queues, UNCHANGED <<httpRequests, httpResponses, spans, finished, hs, rs>>,
           Pushed' = Pushed, Spanned' = Spanned
    PROVE  Queues'
<1>1. Popped' = Popped
    BY DEF Popped
<1> QED BY <1>1 DEF Queues

(* Steps that leave HandleResponse alone.                                  *)
LEMMA InProgressFrame ==
    ASSUME OrderInv, InProgress, UNCHANGED <<hs, lost, rs, stopped, finished>>,
           respPc' # "handle" => hs = "read", Spanned' \in Int, Spanned' >= Spanned,
           Foreign(rd) => rd' = rd /\ Foreign(rd)'
    PROVE  InProgress'
<1>1. Taken' = Taken
    BY DEF Taken
<1>2. Taken \in Nat /\ Spanned \in Int
    BY AlignedTypes
<1>3. Declined => Declined'
    BY <1>1 DEF Declined
<1> QED BY <1>1, <1>2, <1>3 DEF InProgress

(* Steps that leave the responses under way alone.                         *)
LEMMA IncomingFrame ==
    ASSUME OrderInv, Incoming, UNCHANGED <<wire, served, cur, respPc, hs, finished>>,
           Written' \in Int, Written' >= Written,
           \A i \in 1..Written : Foreign(i)' <=> Foreign(i),
           Foreign(rd) => rd' = rd /\ Foreign(rd)'
    PROVE  Incoming'
<1>1. Taken' = Taken
    BY DEF Taken
<1>2. Written \in Int
    BY RequestTypes
<1>3. ASSUME NEW t \in Conns, NEW k \in 1..Len(wire[t])
      PROVE  /\ wire[t][k].req \in 1..Written'
             /\ wire[t][k].code \in {"raw", "final"} /\ (wire[t][k].code = "raw" => Foreign(wire[t][k].req)')
  <2>1. PICK i \in 1..Written : i = wire[t][k].req
      BY DEF Incoming
  <2>2. Foreign(i)' <=> Foreign(i)
      BY <2>1
  <2>3. wire[t][k].req' = i
      BY <2>1
  <2>4. i \in 1..Written' /\ wire[t][k].code \in {"raw", "final"}
        /\ (wire[t][k].code = "raw" => Foreign(i))
      BY <1>2, <2>1 DEF Incoming
  <2> QED BY <2>1, <2>2, <2>3, <2>4
<1>4. Spent => Spent'
    BY <1>1 DEF Spent
<1> QED BY <1>1, <1>3, <1>4 DEF Incoming


(* Once the last turn has come it stays.                                   *)
LEMMA LastTurnStays ==
    ASSUME OrderInv, Sending, [HTTPNext]_svars, routing, cur' = cur, LastTurn
    PROVE  LastTurn'
<1>1. IInv /\ Asking
    BY RequestTypes DEF OrderInv
<1>2. hcPc # "dial"
    BY <1>1 DEF LastTurn, Ended, IInv, Control, Asking
<1>3. CASE HTTPBroker
  <2>1. hr' = hr /\ Broker
      BY <1>3 DEF HTTPBroker, hvars, handleRequest
  <2>2. dialled' = dialled /\ (reqPc \in Ended => reqPc' \in Ended)
      BY <1>1, <1>2, <2>1 DEF Broker, SetupFails, StartRouted, StartDirect, SendAddr,
         DialOK, DialFails, SendConn, SendNil, Enqueue, AddrClosed, Cleanup, Ended,
         IInv, Control
  <2> QED BY <2>1, <2>2 DEF LastTurn
<1>4. CASE HTTPRequest
  <2>1. CASE hr = "tunnel" /\ reqPc \notin Ended
    <3>1. FallbackEnds
        BY <1>4, <2>1 DEF HTTPRequest, ReadRequest, ReadBadRequest, ReadEnds,
           SetRemoteAddr, SetHTTPRequest, PeekRequest, PushSpan, WriteRequest, WriteBody,
           Fallback, CloseAddr, CloseRequest, Ended
    <3> QED BY <3>1 DEF FallbackEnds, ReturnRequest, LastTurn, Ended
  <2>2. CASE reqPc \in Ended
    <3>1. (CloseAddr \/ CloseRequest) /\ UNCHANGED hvars
        BY <1>4, <2>2 DEF HTTPRequest, ReadRequest, ReadBadRequest, ReadEnds,
           SetRemoteAddr, SetHTTPRequest, PeekRequest, PushSpan, WriteRequest, WriteBody,
           Fallback, FallbackEnds, ReturnRequest, Ended
    <3> QED BY <3>1 DEF CloseAddr, CloseRequest, LastTurn, Ended
  <2> QED BY <2>1, <2>2 DEF LastTurn
<1>5. CASE HTTPResponse
  <2>1. UNCHANGED <<dialled, reqPc, hr>>
      BY <1>5 DEF HTTPResponse, ReadResponse, CopyRaw, ResponseEnds, DeliverHead,
         Deliver, SwallowResponse, BodyFails, SetHTTPResponse, StopRequest, FinishSpan,
         AfterResponse, ForceClose, ReturnResponse, RecvCall, RangeEnds, CloseResponse,
         tvars, hvars, handleRequest
  <2> QED BY <2>1 DEF LastTurn
<1>6. CASE HTTPPeers \/ UNCHANGED svars
  <2>1. UNCHANGED <<dialled, reqPc, hr>>
      BY <1>6 DEF HTTPPeers, ClientSends, ClientSendsBody, ClientCloses, ServerContinues,
         ServerAnswers, ServerCloses, tvars, handleRequest, svars, hvars
  <2> QED BY <2>1 DEF LastTurn
<1> QED BY <1>3, <1>4, <1>5, <1>6 DEF HTTPNext, HTTPFinished

(* Steps that leave the turns alone.                                       *)
LEMMA TurnFrame ==
    ASSUME OrderInv, Turn, UNCHANGED <<routing, respPc, cur, hs, finished>>,
           routing /\ LastTurn => LastTurn', Foreign(rd) => rd' = rd /\ Foreign(rd)',
           routing /\ respPc = "handle" /\ target'[cur] = "closed" =>
              target[cur] = "closed" \/ LastTurn'
    PROVE  Turn'
<1>1. Taken' = Taken
    BY DEF Taken
<1>2. routing \in BOOLEAN
    BY RequestTypes
<1>3. Declined => Declined'
    BY <1>1 DEF Declined
<1> QED BY <1>1, <1>2, <1>3 DEF Turn

(* Steps that give the client nothing.                                     *)
LEMMA ReceivedFrame ==
    ASSUME Received, UNCHANGED <<got, hs, finished>>, \A i : Foreign(i) => Foreign(i)'
    PROVE  Received'
<1> SUFFICES ASSUME NEW k \in 1..Len(got)
             PROVE  /\ got[k].code = "final" => Foreign(got[k].req)' \/ got[k].req \in 1..Shown
                    /\ got[k].code = "garbled" => Foreign(got[k].req)'
    BY DEF Received, Shown
<1>1. PICK i : i = got[k].req
    OBVIOUS
<1>2. got[k].req' = i /\ (Foreign(i) => Foreign(i)')
    BY <1>1
<1> QED BY <1>1, <1>2 DEF Received

-----------------------------------------------------------------------------
(* Steps of the peers that change nothing Aligned speaks of.               *)
LEMMA OthersAligned ==
    ASSUME OrderInv, Sending, Aligned, [HTTPNext]_svars,
           UNCHANGED <<tvars, sent, got, wire, served, arrived, handleRequest,
                       handleResponse, netRequest>>
    PROVE  Aligned'
<1>1. /\ UNCHANGED <<httpRequests, httpResponses, spans, finished, hs, rs, lost, stopped>>
      /\ UNCHANGED <<sent, rd, hr, wire, served, got>>
      /\ UNCHANGED <<routing, respPc, cur, target>>
    BY DEF tvars, handleRequest, handleResponse, netRequest
<1>2. Pushed' = Pushed /\ Spanned' = Spanned /\ Written' = Written
    BY <1>1 DEF Pushed, Spanned, Written, Foreign
<1>3. \A i : Foreign(i)' <=> Foreign(i)
    BY <1>1 DEF Foreign
<1>4. Foreign(rd)' <=> Foreign(rd)
    BY <1>1 DEF Foreign
<1>5. Spanned \in Int /\ Written \in Int /\ routing \in BOOLEAN
    BY AlignedTypes, RequestTypes
<1>6. Queues'
    BY <1>1, <1>2, QueuesFrame DEF Aligned
<1>7. InProgress'
    BY <1>1, <1>2, <1>4, <1>5, InProgressFrame DEF Aligned, InProgress
<1>8. Incoming'
    BY <1>1, <1>2, <1>3, <1>4, <1>5, IncomingFrame DEF Aligned
<1>9. Turn'
    BY <1>1, <1>4, <1>5, LastTurnStays, TurnFrame DEF Aligned
<1>10. Received'
    BY <1>1, <1>3, ReceivedFrame DEF Aligned
<1> QED BY <1>6, <1>7, <1>8, <1>9, <1>10 DEF Aligned

(* What a client sends next is behind everything that is under way.        *)
LEMMA ClientAligned ==
    ASSUME OrderInv, Sending, Aligned, ClientSends PROVE Aligned'
<1>1. /\ UNCHANGED <<httpRequests, httpResponses, spans, finished, hs, rs, lost, stopped>>
      /\ UNCHANGED <<rd, hr, wire, served, got>>
      /\ UNCHANGED <<routing, respPc, cur, target>>
    BY DEF ClientSends, tvars, server, handleRequest, handleResponse, netRequest
<1>2. /\ Len(sent) \in Nat /\ rd \in Nat /\ rd <= Len(sent) /\ sent \in Seq(Kinds)
      /\ Written \in Int /\ Written <= rd /\ Spanned \in Int /\ routing \in BOOLEAN
    BY RequestTypes, AlignedTypes
<1>3. PICK k : sent' = Append(sent, k)
    BY DEF ClientSends
<1>4. /\ Len(sent') = Len(sent) + 1
      /\ \A i \in 1..Len(sent) : sent'[i] = sent[i]
    BY <1>2, <1>3
<1>5. \A i \in 1..Len(sent) : ~Foreign(i) /\ ~Foreign(i)'
    BY <1>4 DEF ClientSends, Foreign
<1>6. ~Foreign(rd)' /\ ~Foreign(rd)
    BY <1>1, <1>2, <1>5 DEF Foreign
<1>7. Pushed' = Pushed /\ Written' = Written
    BY <1>1, <1>6 DEF Pushed, Written
<1>8. Spanned' = Spanned
    BY <1>1, <1>7 DEF Spanned
<1>9. Queues'
    BY <1>1, <1>7, <1>8, QueuesFrame DEF Aligned
<1>10. InProgress'
    BY <1>1, <1>2, <1>6, <1>8, InProgressFrame DEF Aligned, InProgress
<1>11. Incoming'
  <2>1. \A i \in 1..Written : Foreign(i)' <=> Foreign(i)
      BY <1>2, <1>5
  <2> QED BY <1>1, <1>2, <1>6, <1>7, <2>1, IncomingFrame DEF Aligned
<1>12. Turn'
  <2>1. HTTPNext
      BY DEF HTTPNext, HTTPPeers
  <2> QED BY <1>1, <1>2, <1>6, <2>1, LastTurnStays, TurnFrame DEF Aligned
<1>13. Received'
  <2>1. \A i : Foreign(i) => Foreign(i)'
      BY <1>5 DEF Foreign
  <2> QED BY <1>1, <2>1, ReceivedFrame DEF Aligned
<1> QED BY <1>9, <1>10, <1>11, <1>12, <1>13 DEF Aligned


(* A server's answer takes its place behind those to earlier requests.     *)
LEMMA ServerAligned ==
    ASSUME OrderInv, Sending, Aligned, NEW t \in Conns, ServerAnswers(t), Regular'
    PROVE  Aligned'
<1> DEFINE q == Unanswered(t)
<1>0. PICK c \in {"final", "raw"} :
            /\ wire' = [wire EXCEPT ![t] = Append(@, [req |-> q, code |-> c])]
            /\ c = "raw" => q \in raw'
    BY DEF ServerAnswers
<1> DEFINE r == [req |-> q, code |-> c]
<1>1. /\ UNCHANGED <<httpRequests, httpResponses, spans, finished, hs, rs, lost, stopped>>
      /\ UNCHANGED <<sent, rd, hr, got>>
      /\ UNCHANGED <<routing, respPc, cur, target>>
      /\ wire' = [wire EXCEPT ![t] = Append(@, r)]
      /\ served' = [served EXCEPT ![t] = @ + 1]
    BY <1>0 DEF ServerAnswers, tvars, client, handleRequest, handleResponse, netRequest
<1>2. q = t + served[t] /\ q \in 1..Written /\ q \in 1..Len(sent)
    BY UnansweredIs DEF ServerAnswers
<1> HIDE DEF q
<1>3. /\ Pushed' = Pushed /\ Spanned' = Spanned /\ Written' = Written
      /\ Taken' = Taken
    BY <1>1 DEF Pushed, Spanned, Written, Foreign, Taken
<1>4. /\ Spanned \in Int /\ Written \in Int /\ Taken \in Nat /\ cur \in Nat
      /\ routing \in BOOLEAN
      /\ wire \in [Conns -> Seq(Responses)] /\ served \in [Conns -> Nat]
      /\ \A s \in Conns : Len(wire[s]) \in Nat /\ served[s] \in Nat
    BY AlignedTypes, RequestTypes
<1>5. r.req = q /\ r.code \in {"raw", "final"} /\ (r.code = "raw" => Foreign(q))
  <2>1. PICK i : i = q
      OBVIOUS
  <2>2. ASSUME c = "raw" PROVE i \in 1..Len(sent') /\ sent'[i] \in {"upgrade", "bad"}
      BY <1>0, <2>1, <2>2 DEF Regular, Foreign
  <2> QED BY <1>1, <2>1, <2>2 DEF Foreign
<1> HIDE DEF r
<1>6. \A s \in Conns : s # t => wire'[s] = wire[s] /\ served'[s] = served[s]
    BY <1>1, <1>4
<1>7. /\ served'[t] = served[t] + 1 /\ Len(wire'[t]) = Len(wire[t]) + 1
      /\ \A k \in 1..Len(wire[t]) : wire'[t][k] = wire[t][k]
      /\ wire'[t][Len(wire[t]) + 1] = r
  <2>1. wire'[t] = Append(wire[t], r) /\ wire[t] \in Seq(Responses) /\ served'[t] = served[t] + 1
      BY <1>1, <1>4
  <2> QED BY <1>4, <2>1
<1>8. Incoming'
  <2>1. \A i : Foreign(i)' <=> Foreign(i)
      BY <1>1 DEF Foreign
  <2>2. ASSUME NEW s \in Conns, NEW k \in 1..Len(wire'[s])
        PROVE  /\ wire'[s][k].req \in 1..Written'
               /\ wire'[s][k].code \in {"raw", "final"} /\ (wire'[s][k].code = "raw" => Foreign(wire[s][k].req)')
    <3>1. CASE s # t \/ k \in 1..Len(wire[t])
      <4>1. k \in 1..Len(wire[s]) /\ wire'[s][k] = wire[s][k]
          BY <1>6, <1>7, <3>1, <2>2
      <4>2. PICK i : i = wire[s][k].req /\ i = wire'[s][k].req
          BY <4>1
      <4>3. wire[s][k].code \in {"raw", "final"} /\ (wire[s][k].code = "raw" => Foreign(i))
          BY <4>1, <4>2 DEF Aligned, Incoming
      <4>4. Foreign(wire[s][k].req)' <=> Foreign(i)
          BY <1>1, <4>2 DEF Foreign
      <4> QED BY <1>3, <4>1, <4>3, <4>4 DEF Aligned, Incoming
    <3>2. CASE s = t /\ k = Len(wire[t]) + 1
      <4>1. wire'[s][k] = r
          BY <1>7, <3>2
      <4>2. Foreign(wire[s][k].req)' <=> Foreign(q)
          BY <1>1, <1>5, <4>1 DEF Foreign
      <4> QED BY <1>2, <1>3, <1>5, <4>1, <4>2
    <3> QED BY <1>4, <1>7, <3>1, <3>2
  <2>3. ASSUME NEW s \in Conns, s > cur'
        PROVE  /\ Len(wire'[s]) = served'[s]
               /\ \A k \in 1..Len(wire'[s]) : wire'[s][k].req = s - 1 + k
    <3>1. /\ Len(wire[s]) = served[s]
          /\ \A k \in 1..Len(wire[s]) : wire[s][k].req = s - 1 + k
        BY <1>1, <2>3 DEF Aligned, Incoming
    <3>2. t \in Nat
        BY MaxConnsAssumption DEF Conns
    <3>3. CASE s # t
        BY <1>6, <3>1, <3>3
    <3>4. CASE s = t
      <4>1. PICK m \in Nat : m = Len(wire[t])
          BY <1>4
      <4>2. Len(wire'[t]) = m + 1 /\ served'[t] = m + 1 /\ r.req = t + m
          BY <1>2, <1>5, <1>7, <3>1, <3>4, <4>1
      <4>3. ASSUME NEW k \in 1..(m + 1) PROVE wire'[t][k].req = t - 1 + k
        <5>1. CASE k \in 1..m
            BY <1>7, <3>1, <3>4, <4>1, <5>1
        <5>2. CASE k = m + 1
            BY <1>7, <3>2, <4>1, <4>2, <5>2
        <5> QED BY <5>1, <5>2
      <4> QED BY <3>4, <4>2, <4>3
    <3> QED BY <3>3, <3>4
  <2>4. ASSUME respPc' = "handle", ~Spent'
        PROVE  /\ Taken' + Len(wire'[cur']) = cur' - 1 + served'[cur']
               /\ \A k \in 1..Len(wire'[cur']) : wire'[cur'][k].req = Taken' + k
    <3>2. cur \in Conns
        BY <1>1, <1>4, <2>4, RequestTypes, MaxConnsAssumption DEF IInv, TypeOK, Order, nil, Conns
    <3>0. ~Spent
      <4> SUFFICES ASSUME Spent PROVE FALSE
          OBVIOUS
      <4>1. Foreign(rd)' <=> Foreign(rd)
          BY <1>1 DEF Foreign
      <4>2. cur = t
          BY <1>1, <1>3, <1>6, <2>4, <3>2, <4>1 DEF Spent
      <4>3. q = rd + 1 /\ rd \in Nat /\ Written <= rd
          BY <1>2, <1>4, <4>2, RequestTypes DEF Spent
      <4> QED BY <1>2, <1>4, <4>3
    <3>1. /\ Taken + Len(wire[cur]) = cur - 1 + served[cur]
          /\ \A k \in 1..Len(wire[cur]) : wire[cur][k].req = Taken + k
        BY <1>1, <2>4, <3>0 DEF Aligned, Incoming
    <3>3. CASE cur # t
        BY <1>1, <1>3, <1>6, <3>1, <3>2, <3>3
    <3>4. CASE cur = t
      <4>1. PICK m \in Nat : m = Len(wire[t])
          BY <1>4
      <4>2. PICK v \in Nat : v = served[t]
          BY <1>4
      <4>3. /\ Len(wire'[t]) = m + 1 /\ served'[t] = v + 1 /\ r.req = cur + v
            /\ Taken + m = cur - 1 + v
          BY <1>2, <1>5, <1>7, <3>1, <3>4, <4>1, <4>2
      <4>4. ASSUME NEW k \in 1..(m + 1) PROVE wire'[t][k].req = Taken + k
        <5>1. CASE k \in 1..m
            BY <1>7, <3>1, <3>4, <4>1, <5>1
        <5>2. CASE k = m + 1
          <6>1. wire'[t][k] = r
              BY <1>7, <4>1, <5>2
          <6>2. r.req = Taken + k
              BY <1>4, <4>3, <5>2
          <6> QED BY <6>1, <6>2
        <5> QED BY <5>1, <5>2
      <4>5. Taken + (m + 1) = cur - 1 + (v + 1)
          BY <1>4, <4>3
      <4> QED BY <1>1, <1>3, <3>4, <4>3, <4>4, <4>5
    <3> QED BY <3>3, <3>4
  <2> QED BY <2>2, <2>3, <2>4 DEF Incoming
<1>9. Queues'
    BY <1>1, <1>3, QueuesFrame DEF Aligned
<1>10. InProgress'
  <2>1. Foreign(rd)' <=> Foreign(rd)
      BY <1>1 DEF Foreign
  <2> QED BY <1>1, <1>3, <1>4, <2>1, InProgressFrame DEF Aligned, InProgress
<1>11. Turn'
  <2>1. HTTPNext
      BY DEF HTTPNext, HTTPPeers
  <2>2. Foreign(rd)' <=> Foreign(rd)
      BY <1>1 DEF Foreign
  <2> QED BY <1>1, <1>4, <2>1, <2>2, LastTurnStays, TurnFrame DEF Aligned
<1>12. Received'
  <2>1. \A i : Foreign(i) => Foreign(i)'
      BY <1>1 DEF Foreign
  <2> QED BY <1>1, <2>1, ReceivedFrame DEF Aligned
<1> QED BY <1>8, <1>9, <1>10, <1>11, <1>12 DEF Aligned

(* Client and servers keep Aligned.                                        *)
LEMMA PeersAligned ==
    ASSUME OrderInv, Sending, Regular, Aligned, HTTPPeers, Regular' PROVE Aligned'
<1>1. CASE ClientSendsBody \/ ClientCloses \/ \E t \in Conns : ServerCloses(t)
  <2>1. HTTPNext
      BY DEF HTTPNext
  <2>2. UNCHANGED <<tvars, sent, got, wire, served, arrived, handleRequest,
                    handleResponse, netRequest>>
      BY <1>1 DEF ClientSendsBody, ClientCloses, ServerCloses, client, server
  <2> QED BY <2>1, <2>2, OthersAligned
<1>2. ASSUME NEW t \in Conns, ServerContinues(t) PROVE FALSE
    BY <1>2, UnansweredIs DEF ServerContinues, Regular
<1> QED BY <1>1, <1>2, ClientAligned, ServerAligned DEF HTTPPeers


-----------------------------------------------------------------------------
(* The counters of the request goroutine, step by step.                    *)
LEMMA RequestCounts ==
    ASSUME OrderInv, Sending, HTTPRequest
    PROVE  /\ Written' \in Int /\ Written' >= Written
           /\ Spanned' \in Int /\ Pushed' \in Int
           /\ ~SetHTTPRequest => Pushed' = Pushed
           /\ SetHTTPRequest => Pushed = rd - 1 /\ Pushed' = rd
           /\ ~PushSpan /\ ~PeekRequest => Spanned' = Spanned
           /\ PeekRequest => Spanned = rd - 1 /\ Pushed = rd /\ ~Foreign(rd)
                             /\ (hr' = "span" => Spanned' = Spanned)
           /\ PushSpan => Spanned = rd - 1 /\ Spanned' = rd
           /\ Foreign(rd) => rd' = rd /\ Foreign(rd)'
<1>1. /\ Len(sent) \in Nat /\ rd \in Nat /\ rd <= Len(sent) /\ sent \in Seq(Kinds)
      /\ hr # "read" => rd # 0
    BY RequestTypes DEF OrderInv, HTTPInv, Counts
<1>2. sent' = sent
    BY DEF HTTPRequest, ReadRequest, ReadBadRequest, ReadEnds, SetRemoteAddr,
       SetHTTPRequest, PeekRequest, PushSpan, WriteRequest, WriteBody, Fallback,
       FallbackEnds, hvars, client
<1>3. CASE ReadRequest \/ ReadBadRequest
  <2>1. /\ rd' = rd + 1 /\ rd < Len(sent) /\ hr = "read"
        /\ \/ hr' = "addr"
           \/ hr' = "read" /\ sent[rd + 1] = "bad"
      BY <1>3 DEF ReadRequest, ReadBadRequest
  <2>2. ~Foreign(rd)
      BY <1>1, <2>1 DEF Sending, Foreign
  <2>3. hr' = "addr" \/ Foreign(rd)'
      BY <1>1, <1>2, <2>1 DEF Foreign
  <2>4. Pushed = rd /\ Pushed' = rd /\ Spanned = rd /\ Spanned' = rd
      BY <1>1, <2>1, <2>2, <2>3 DEF Pushed, Spanned
  <2>5. Written = rd /\ Written' \in {rd, rd + 1}
      BY <1>1, <2>1 DEF Written
  <2>6. ~SetHTTPRequest /\ ~PushSpan /\ ~PeekRequest
      BY <2>1 DEF SetHTTPRequest, PushSpan, PeekRequest
  <2> QED BY <1>1, <2>2, <2>4, <2>5, <2>6
<1>4. CASE SetHTTPRequest
  <2>1. hr = "set" /\ hr' = "start" /\ rd' = rd /\ ~Foreign(rd)
      BY <1>4 DEF SetHTTPRequest, Sending, Ended
  <2>2. ~Foreign(rd)'
      BY <1>2, <2>1 DEF Foreign
  <2>3. Pushed = rd - 1 /\ Pushed' = rd /\ Spanned = rd - 1 /\ Spanned' = rd - 1
      BY <1>1, <2>1, <2>2 DEF Pushed, Spanned
  <2>4. Written' = rd - 1 /\ Written = rd - 1
      BY <2>1 DEF Written
  <2>5. ~PushSpan /\ ~PeekRequest
      BY <2>1 DEF PushSpan, PeekRequest
  <2> QED BY <1>1, <1>4, <2>1, <2>3, <2>4, <2>5
<1>5. CASE PeekRequest \/ PushSpan
  <2>1. /\ rd' = rd /\ ~Foreign(rd) /\ hr' \in {"span", "write"}
        /\ PeekRequest => hr = "start"
        /\ PushSpan => hr = "span" /\ hr' = "write"
        /\ hr \in {"start", "span"}
      BY <1>5 DEF PeekRequest, PushSpan, Sending, Ended
  <2>2. ~Foreign(rd)'
      BY <1>2, <2>1 DEF Foreign
  <2>3. Pushed = rd /\ Pushed' = rd /\ Spanned = rd - 1
        /\ Spanned' = IF hr' = "span" THEN rd - 1 ELSE rd
      BY <1>1, <2>1, <2>2 DEF Pushed, Spanned
  <2>4. Written' = rd - 1 /\ Written = rd - 1
      BY <2>1 DEF Written
  <2>5. ~SetHTTPRequest
      BY <2>1 DEF SetHTTPRequest
  <2> QED BY <1>1, <1>5, <2>1, <2>3, <2>4, <2>5
<1>6. CASE SetRemoteAddr \/ WriteRequest \/ WriteBody \/ Fallback
  <2>1. /\ rd' = rd
        /\ \/ hr = "addr" /\ hr' = IF sent[rd] \in {"bad", "upgrade"} THEN "fallback" ELSE "set"
           \/ hr = "write" /\ hr' \in {"body", "read"}
           \/ hr = "body" /\ hr' = "read"
           \/ hr = "fallback" /\ hr' = "tunnel"
      BY <1>6 DEF SetRemoteAddr, WriteRequest, WriteBody, Fallback
  <2>2. Foreign(rd)' <=> Foreign(rd)
      BY <1>2, <2>1 DEF Foreign
  <2>3. hr = "addr" => hr' = "set" \/ Foreign(rd)
      BY <1>1, <2>1 DEF Foreign
  <2>4. hr = "fallback" => Foreign(rd)
      BY DEF Sending
  <2>5. Pushed' = Pushed /\ Pushed \in Int
      BY <1>1, <2>1, <2>2, <2>3, <2>4 DEF Pushed
  <2>6. Spanned' = Spanned /\ Spanned \in Int
      BY <2>1, <2>5 DEF Spanned
  <2>7. Written' \in Int /\ Written' >= Written
      BY <1>1, <2>1 DEF Written
  <2>8. ~SetHTTPRequest /\ ~PushSpan /\ ~PeekRequest
      BY <2>1 DEF SetHTTPRequest, PushSpan, PeekRequest
  <2> QED BY <2>1, <2>2, <2>5, <2>6, <2>7, <2>8
<1>7. CASE ReadEnds \/ FallbackEnds \/ ((CloseAddr \/ CloseRequest) /\ UNCHANGED hvars)
  <2>1. UNCHANGED <<rd, hr, httpRequests, spans>>
      BY <1>7 DEF ReadEnds, FallbackEnds, hvars, handleRequest, netRequest
  <2>2. Pushed' = Pushed /\ Spanned' = Spanned /\ Written' = Written
      BY <1>2, <2>1 DEF Pushed, Spanned, Written, Foreign
  <2>3. Foreign(rd)' <=> Foreign(rd)
      BY <1>2, <2>1 DEF Foreign
  <2>4. ~SetHTTPRequest /\ ~PushSpan /\ ~PeekRequest
      BY <2>1 DEF SetHTTPRequest, PushSpan, PeekRequest
  <2>5. Pushed \in Int /\ Spanned \in Int /\ Written \in Int
      BY RequestTypes, AlignedTypes
  <2> QED BY <2>1, <2>2, <2>3, <2>4, <2>5
<1> QED BY <1>3, <1>4, <1>5, <1>6, <1>7 DEF HTTPRequest


(* StartRequest finds a request in the queue.                              *)
LEMMA PeekFinds ==
    ASSUME OrderInv, Sending, Aligned, PeekRequest PROVE hr' = "span"
<1>1. Spanned = rd - 1 /\ Pushed = rd /\ ~Foreign(rd) /\ rd \in Nat
    BY RequestCounts, RequestTypes DEF HTTPRequest
<1>2. Taken <= rd - 1
    BY <1>1, RequestTypes DEF HTTPTypeOK, Aligned, InProgress, Declined
<1>3. Len(httpRequests) # 0
    BY <1>1, <1>2, AlignedTypes DEF Aligned, Queues
<1>4. httpRequests # <<>> /\ httpRequests \in Seq(Reqs)
    BY <1>3, AlignedTypes
<1>5. Front(httpRequests, nil) \in Reqs
    BY <1>4, QueueTypes
<1>6. Front(httpRequests, nil) # nil
    BY <1>5, MaxReqsAssumption, MaxConnsAssumption DEF Reqs, nil
<1> QED BY <1>6 DEF PeekRequest

(* The request goroutine keeps the queues aligned: it pushes the request   *)
(* and the span after the last ones.                                       *)
LEMMA RequestQueues ==
    ASSUME OrderInv, Sending, Aligned, HTTPRequest PROVE Queues'
<1>1. /\ Len(finished) \in Nat /\ Popped \in Nat /\ rd \in Nat
      /\ httpRequests \in Seq(Reqs) /\ spans \in Seq([for : Reqs, from : Reqs])
      /\ Len(httpRequests) \in Nat /\ Len(spans) \in Nat
    BY RequestTypes, AlignedTypes
<1>2. UNCHANGED <<httpResponses, finished, hs, rs>> /\ Popped' = Popped
    BY DEF HTTPRequest, ReadRequest, ReadBadRequest, ReadEnds, SetRemoteAddr,
       SetHTTPRequest, PeekRequest, PushSpan, WriteRequest, WriteBody, Fallback,
       FallbackEnds, hvars, handleResponse, netRequest, Popped
<1>3. CASE SetHTTPRequest
  <2>1. /\ httpRequests' = Append(httpRequests, rd) /\ spans' = spans
        /\ Pushed = rd - 1 /\ Pushed' = rd /\ Spanned' = Spanned
    <3>1. ~PushSpan /\ ~PeekRequest
        BY <1>3 DEF SetHTTPRequest, PushSpan, PeekRequest
    <3> QED BY <1>3, <3>1, RequestCounts DEF SetHTTPRequest
  <2>2. PICK m \in Nat : m = Len(httpRequests)
      BY <1>1
  <2>3. /\ Len(httpRequests') = m + 1 /\ httpRequests'[m + 1] = rd
        /\ \A k \in 1..m : httpRequests'[k] = httpRequests[k]
      BY <1>1, <2>1, <2>2
  <2>4. m = (rd - 1) - Popped
      BY <2>1, <2>2 DEF Aligned, Queues
  <2>5. \A k \in 1..(m + 1) : httpRequests'[k] = Popped + k
    <3> SUFFICES ASSUME NEW k \in 1..(m + 1) PROVE httpRequests'[k] = Popped + k
        OBVIOUS
    <3>1. CASE k = m + 1
        BY <1>1, <2>3, <2>4, <3>1
    <3>2. CASE k \in 1..m
        BY <2>2, <2>3, <3>2 DEF Aligned, Queues
    <3> QED BY <3>1, <3>2
  <2>6. m + 1 = rd - Popped
      BY <1>1, <2>4
  <2> QED BY <1>2, <2>1, <2>3, <2>5, <2>6 DEF Aligned, Queues
<1>4. CASE PushSpan
  <2>1. /\ spans' = Append(spans, [for |-> rd, from |-> peeked])
        /\ httpRequests' = httpRequests
        /\ Spanned = rd - 1 /\ Spanned' = rd /\ Pushed' = Pushed
    <3>1. ~SetHTTPRequest
        BY <1>4 DEF SetHTTPRequest, PushSpan
    <3> QED BY <1>4, <3>1, RequestCounts DEF PushSpan
  <2>2. PICK m \in Nat : m = Len(spans)
      BY <1>1
  <2>3. /\ Len(spans') = m + 1 /\ spans'[m + 1] = [for |-> rd, from |-> peeked]
        /\ \A k \in 1..m : spans'[k] = spans[k]
      BY <1>1, <2>1, <2>2
  <2>4. m = (rd - 1) - Len(finished)
      BY <2>1, <2>2 DEF Aligned, Queues
  <2>5. \A k \in 1..(m + 1) : spans'[k].for = Len(finished) + k
    <3> SUFFICES ASSUME NEW k \in 1..(m + 1) PROVE spans'[k].for = Len(finished) + k
        OBVIOUS
    <3>1. CASE k = m + 1
      <4>1. spans'[k].for = rd
          BY <2>3, <3>1
      <4>2. Len(finished) + k = rd
          BY <1>1, <2>4, <3>1
      <4> QED BY <4>1, <4>2
    <3>2. CASE k \in 1..m
        BY <2>2, <2>3, <3>2 DEF Aligned, Queues
    <3> QED BY <3>1, <3>2
  <2>6. m + 1 = rd - Len(finished)
      BY <1>1, <2>4
  <2> QED BY <1>2, <2>1, <2>3, <2>5, <2>6 DEF Aligned, Queues
<1>5. CASE ~SetHTTPRequest /\ ~PushSpan
  <2>1. UNCHANGED <<httpRequests, spans>>
      BY <1>5 DEF HTTPRequest, ReadRequest, ReadBadRequest, ReadEnds, SetRemoteAddr,
         PeekRequest, WriteRequest, WriteBody, Fallback, FallbackEnds, hvars, netRequest
  <2>2. Pushed' = Pushed /\ Spanned' = Spanned
    <3>1. PeekRequest => Spanned' = Spanned
        BY RequestCounts, PeekFinds
    <3> QED BY <1>5, <3>1, RequestCounts
  <2> QED BY <1>2, <2>1, <2>2, QueuesFrame DEF Aligned
<1> QED BY <1>3, <1>4, <1>5

(* The request goroutine keeps Aligned.                                    *)
LEMMA RequestAligned ==
    ASSUME OrderInv, Sending, Dialling, Aligned, HTTPRequest PROVE Aligned'
<1>1. /\ UNCHANGED <<finished, hs, rs, lost, stopped, wire, served, got, sent>>
    BY DEF HTTPRequest, ReadRequest, ReadBadRequest, ReadEnds, SetRemoteAddr,
       SetHTTPRequest, PeekRequest, PushSpan, WriteRequest, WriteBody, Fallback,
       FallbackEnds, hvars, client, server, handleResponse, netRequest
<1>2. UNCHANGED <<routing, respPc, cur>>
    BY DEF HTTPRequest, ReadRequest, ReadBadRequest, ReadEnds, SetRemoteAddr,
       SetHTTPRequest, PeekRequest, PushSpan, WriteRequest, WriteBody, Fallback,
       FallbackEnds, CloseAddr, CloseRequest, AskConn, ReturnRequest, tvars
<1>3. /\ Spanned \in Int /\ Written \in Int /\ routing \in BOOLEAN /\ rd \in Nat
      /\ cur \in Nat /\ target \in [Conns -> {"none", "open", "closed"}]
    BY RequestTypes, AlignedTypes
<1>4. Queues'
    BY RequestQueues
<1>5. InProgress'
  <2>1. Spanned' \in Int /\ Spanned' >= Spanned
    <3>1. PeekRequest => Spanned' = Spanned
        BY RequestCounts, PeekFinds
    <3>2. PushSpan => Spanned' = Spanned + 1
        BY <1>3, RequestCounts
    <3> QED BY <1>3, <3>1, <3>2, RequestCounts
  <2>2. Foreign(rd) => rd' = rd /\ Foreign(rd)'
      BY RequestCounts
  <2> QED BY <1>1, <1>2, <2>1, <2>2, InProgressFrame DEF Aligned, InProgress
<1>6. Incoming'
  <2>1. \A i \in 1..Written : Foreign(i)' <=> Foreign(i)
      BY <1>1 DEF Foreign
  <2>2. Written' \in Int /\ Written' >= Written
      BY RequestCounts
  <2> QED BY <1>1, <1>2, <2>1, <2>2, RequestCounts, IncomingFrame DEF Aligned
<1>7. Turn'
  <2>1. HTTPNext
      BY DEF HTTPNext
  <2>2. ASSUME respPc = "handle", target'[cur] = "closed", target[cur] # "closed"
        PROVE  LastTurn'
    <3>1. CloseRequest
        BY <2>2 DEF HTTPRequest, ReadRequest, ReadBadRequest, ReadEnds, SetRemoteAddr,
           SetHTTPRequest, PeekRequest, PushSpan, WriteRequest, WriteBody, Fallback,
           FallbackEnds, CloseAddr, AskConn, ReturnRequest, tvars
    <3>2. w # nil /\ w = cur
        BY <1>3, <2>2, <3>1 DEF CloseRequest, closeConn
    <3>3. w = dialled
        BY <3>1, <3>2 DEF CloseRequest, Dialling, Ended
    <3> QED BY <3>1, <3>2, <3>3 DEF CloseRequest, LastTurn, Ended
  <2>3. Foreign(rd) => rd' = rd /\ Foreign(rd)'
      BY RequestCounts
  <2> QED BY <1>1, <1>2, <1>3, <2>1, <2>2, <2>3, LastTurnStays, TurnFrame DEF Aligned
<1>8. Received'
  <2>1. \A i : Foreign(i) => Foreign(i)'
      BY <1>1 DEF Foreign
  <2> QED BY <1>1, <2>1, ReceivedFrame DEF Aligned
<1> QED BY <1>4, <1>5, <1>6, <1>7, <1>8 DEF Aligned

(* The broker keeps Aligned.                                               *)
LEMMA BrokerAligned ==
    ASSUME OrderInv, Sending, Dialling, Aligned, HTTPBroker PROVE Aligned'
<1>1. /\ UNCHANGED <<httpRequests, httpResponses, spans, finished, hs, rs, lost, stopped>>
      /\ UNCHANGED <<sent, rd, hr, wire, served, got>> /\ Broker
    BY DEF HTTPBroker, hvars, client, server, handleRequest, handleResponse, netRequest
<1>2. /\ Pushed' = Pushed /\ Spanned' = Spanned /\ Written' = Written /\ Taken' = Taken
    BY <1>1 DEF Pushed, Spanned, Written, Foreign, Taken
<1>3. /\ Spanned \in Int /\ Written \in Int /\ routing \in BOOLEAN /\ IInv /\ TypeOK
      /\ cur \in Nat /\ dialled \in Nat /\ Asking /\ Len(finished) \in Nat
      /\ target \in [Conns -> {"none", "open", "closed"}]
    BY RequestTypes, AlignedTypes DEF OrderInv
<1>4. \A i : Foreign(i)' <=> Foreign(i)
    BY <1>1 DEF Foreign
<1>5. Foreign(rd)' <=> Foreign(rd)
    BY <1>1 DEF Foreign
<1>6. Queues'
    BY <1>1, <1>2, QueuesFrame DEF Aligned
<1>7. Received'
    BY <1>1, <1>4, ReceivedFrame DEF Aligned
<1>8. respPc' # "handle" => hs = "read"
    BY <1>1, <1>3 DEF Broker, SetupFails, StartRouted, StartDirect, SendAddr,
       DialOK, DialFails, SendConn, SendNil, Enqueue, AddrClosed, Cleanup, IInv, Control,
       Aligned, InProgress
<1>9. InProgress'
    BY <1>1, <1>2, <1>3, <1>5, <1>8, InProgressFrame DEF Aligned, InProgress
<1>10. CASE ~routing /\ DialOK
  <2>1. /\ routing' = routing /\ respPc = "idle" /\ respPc' = "handle"
        /\ cur = 0 /\ cur' = 1 /\ 1 \in Conns
    <3>1. routing' = routing /\ hcPc = "dial" /\ cur' = dialled + 1 /\ respPc' = "handle"
        BY <1>10 DEF DialOK
    <3>2. respPc = "idle"
        BY <1>3, <1>10, <3>1 DEF IInv, Control
    <3>3. dialled = 0
        BY <1>3, <3>2 DEF IInv, Order
    <3>4. cur = 0
        BY <1>3, <3>3, CurDialled
    <3> QED BY <3>1, <3>2, <3>3, <3>4, MaxConnsAssumption DEF Conns
  <2>2. Len(finished) = 0 /\ hs = "read"
      BY <2>1 DEF Aligned, Turn, InProgress
  <2>3. Taken = 0
      BY <2>2 DEF Taken, Bit
  <2>4. Turn'
      BY <1>1, <1>10, <2>1 DEF Turn
  <2>5. /\ Len(wire[1]) = served[1] /\ served[1] \in Nat
        /\ \A k \in 1..Len(wire[1]) : wire[1][k].req = 1 - 1 + k
      BY <2>1, AlignedTypes DEF Aligned, Incoming
  <2>6. /\ Taken' + Len(wire'[1]) = 1 - 1 + served'[1]
        /\ \A k \in 1..Len(wire'[1]) : wire'[1][k].req = Taken' + k
      BY <1>1, <1>2, <2>3, <2>5
  <2>7. ASSUME NEW t \in Conns, t > cur' PROVE t > cur
      BY <2>1, <2>7, MaxConnsAssumption DEF Conns
  <2>8. ASSUME NEW t \in Conns, NEW k \in 1..Len(wire'[t])
        PROVE  /\ wire'[t][k].req \in 1..Written'
               /\ wire'[t][k].code \in {"raw", "final"} /\ (wire'[t][k].code = "raw" => Foreign(wire[t][k].req)')
    <3>1. Foreign(wire[t][k].req)' <=> Foreign(wire[t][k].req)
        BY <1>1 DEF Foreign
    <3> QED BY <1>1, <1>2, <3>1 DEF Aligned, Incoming
  <2>9. ASSUME NEW t \in Conns, t > cur'
        PROVE  /\ Len(wire'[t]) = served'[t]
               /\ \A k \in 1..Len(wire'[t]) : wire'[t][k].req = t - 1 + k
      BY <1>1, <2>7, <2>9 DEF Aligned, Incoming
  <2>10. Incoming'
      BY <2>1, <2>6, <2>8, <2>9 DEF Incoming
  <2> QED BY <1>6, <1>7, <1>9, <2>4, <2>10 DEF Aligned
<1>11. CASE routing \/ ~DialOK
  <2>1. /\ UNCHANGED <<routing, cur>>
        /\ hcPc # "setup" => respPc' = respPc
        /\ hcPc = "setup" => respPc' \in {respPc, "recv"} /\ target' = target
        /\ target' = target \/ target' = [target EXCEPT ![dialled + 1] = "open"]
      BY <1>1, <1>11 DEF Broker, SetupFails, StartRouted, StartDirect, SendAddr,
         DialOK, DialFails, SendConn, SendNil, Enqueue, AddrClosed, Cleanup
  <2>2. hcPc = "setup" => respPc = "idle"
      BY <1>3 DEF IInv, Control
  <2>3. HTTPNext
      BY DEF HTTPNext
  <2>4. CASE hcPc = "setup"
    <3>1. Incoming'
      <4>1. respPc' # "handle"
          BY <2>1, <2>2, <2>4
      <4>2. ASSUME NEW t \in Conns, NEW k \in 1..Len(wire'[t])
            PROVE  /\ wire'[t][k].req \in 1..Written'
                   /\ wire'[t][k].code \in {"raw", "final"} /\ (wire'[t][k].code = "raw" => Foreign(wire[t][k].req)')
        <5>1. Foreign(wire[t][k].req)' <=> Foreign(wire[t][k].req)
            BY <1>1 DEF Foreign
        <5> QED BY <1>1, <1>2, <5>1 DEF Aligned, Incoming
      <4> QED BY <1>1, <2>1, <4>1, <4>2 DEF Aligned, Incoming
    <3>2. Turn'
      <4>1. Len(finished) = 0 /\ cur = 0
        <5>1. dialled = 0
            BY <1>3, <2>2, <2>4 DEF IInv, Order
        <5> QED BY <1>3, <2>2, <2>4, <5>1, CurDialled DEF Aligned, Turn
      <4> QED BY <1>1, <2>1, <2>2, <2>4, <4>1 DEF Turn
    <3> QED BY <1>6, <1>7, <1>9, <3>1, <3>2 DEF Aligned
  <2>5. CASE hcPc # "setup"
    <3>1. Incoming'
        BY <1>1, <1>2, <1>3, <1>4, <1>5, <2>1, <2>5, IncomingFrame DEF Aligned
    <3>2. respPc = "handle" /\ target'[cur] = "closed" => target[cur] = "closed"
      <4>1. respPc = "handle" => cur \in Conns
          BY <1>3, MaxConnsAssumption DEF IInv, TypeOK, Order, nil, Conns
      <4> QED BY <1>3, <2>1, <4>1
    <3>3. Turn'
        BY <1>1, <1>3, <1>5, <2>1, <2>3, <2>5, <3>2, LastTurnStays, TurnFrame DEF Aligned
    <3> QED BY <1>6, <1>7, <1>9, <3>1, <3>3 DEF Aligned
  <2> QED BY <2>4, <2>5
<1> QED BY <1>3, <1>10, <1>11


-----------------------------------------------------------------------------
(* The response goroutines leave the request side alone.                   *)
LEMMA ResponseKeeps ==
    ASSUME OrderInv, HTTPResponse
    PROVE  /\ UNCHANGED <<sent, rd, hr, reqPc, routing, dialled, served>>
           /\ Pushed' = Pushed /\ Spanned' = Spanned /\ Written' = Written
           /\ \A i : Foreign(i)' <=> Foreign(i)
           /\ (Foreign(rd)' <=> Foreign(rd)) /\ (Taken' = Taken /\ Declined => Declined')
           /\ cur' = cur => (LastTurn' <=> LastTurn)
<1>1. UNCHANGED <<sent, rd, hr, served>>
    BY DEF HTTPResponse, ReadResponse, CopyRaw, ResponseEnds, DeliverHead,
       Deliver, SwallowResponse, BodyFails, SetHTTPResponse, StopRequest, FinishSpan,
       AfterResponse, hvars, client, server, handleRequest
<1>2. UNCHANGED <<reqPc, routing, dialled>>
    BY DEF HTTPResponse, ReadResponse, CopyRaw, ResponseEnds, DeliverHead,
       Deliver, SwallowResponse, BodyFails, SetHTTPResponse, StopRequest, FinishSpan,
       AfterResponse, ForceClose, ReturnResponse, RecvCall, RangeEnds, CloseResponse, tvars
<1>3. Pushed' = Pushed /\ Spanned' = Spanned /\ Written' = Written
    BY <1>1 DEF Pushed, Spanned, Written, Foreign
<1>4. \A i : Foreign(i)' <=> Foreign(i)
    BY <1>1 DEF Foreign
<1>5. cur' = cur => (LastTurn' <=> LastTurn)
    BY <1>1, <1>2 DEF LastTurn
<1>6. (Foreign(rd)' <=> Foreign(rd)) /\ (Taken' = Taken /\ Declined => Declined')
    BY <1>1 DEF Foreign, Declined
<1> QED BY <1>1, <1>2, <1>3, <1>4, <1>5, <1>6

(* The client has what it had.                                             *)
LEMMA ReceivedStay ==
    ASSUME OrderInv, Received, HTTPResponse, got' = got,
           \A i \in 1..Shown : Foreign(i) \/ i \in 1..Shown'
    PROVE  Received'
<1> SUFFICES ASSUME NEW k \in 1..Len(got)
             PROVE  /\ got[k].code = "final" => Foreign(got[k].req)' \/ got[k].req \in 1..Shown'
                    /\ got[k].code = "garbled" => Foreign(got[k].req)'
    BY DEF Received
<1>1. PICK i : i = got[k].req
    OBVIOUS
<1>2. got[k].req' = i /\ (Foreign(i) <=> Foreign(i)')
    BY <1>1, ResponseKeeps
<1> QED BY <1>1, <1>2 DEF Received

(* The client gets one response more, whole unless it answers a request    *)
(* that went to the fallback.                                              *)
LEMMA ReceivedMore ==
    ASSUME OrderInv, Received, HTTPResponse, NEW r \in Responses, got' = Receive(<<r>>),
           r.code = "final" => Foreign(r.req) \/ r.req \in 1..Shown',
           r.code = "garbled" => Foreign(r.req),
           \A i \in 1..Shown : Foreign(i) \/ i \in 1..Shown'
    PROVE  Received'
<1>1. got \in Seq(Responses) /\ Len(got) \in Nat
    BY AlignedTypes
<1>2. CASE got' = got
    BY <1>2, ReceivedStay
<1>3. CASE got' = got \o <<r>>
  <2>1. PICK m \in Nat : m = Len(got)
      BY <1>1
  <2>2. /\ Len(got') = m + 1 /\ got'[m + 1] = r
        /\ \A k \in 1..m : got'[k] = got[k]
      BY <1>1, <1>3, <2>1
  <2>3. \A k \in 1..(m + 1) : k \in 1..m \/ k = m + 1
      OBVIOUS
  <2>4. \A i : Foreign(i) <=> Foreign(i)'
      BY ResponseKeeps
  <2>5. ASSUME NEW k \in 1..(m + 1)
        PROVE  /\ got'[k].code = "final" => Foreign(got[k].req)' \/ got'[k].req \in 1..Shown'
               /\ got'[k].code = "garbled" => Foreign(got[k].req)'
    <3>1. PICK i : i = got'[k].req
        OBVIOUS
    <3>2. got[k].req' = i /\ (Foreign(i) <=> Foreign(i)')
        BY <2>4, <3>1
    <3>3. CASE k = m + 1
        BY <2>2, <3>1, <3>2, <3>3
    <3>4. CASE k \in 1..m
      <4>1. got'[k] = got[k]
          BY <2>2, <3>4
      <4>2. /\ got[k].code = "final" => Foreign(i) \/ i \in 1..Shown
            /\ got[k].code = "garbled" => Foreign(i)
          BY <2>1, <3>1, <3>4, <4>1 DEF Received
      <4> QED BY <3>1, <3>2, <4>1, <4>2
    <3> QED BY <2>3, <3>3, <3>4
  <2> QED BY <2>2, <2>5 DEF Received
<1> QED BY <1>2, <1>3 DEF Receive

(* A step of HandleResponse that reads nothing from its upstream.          *)
LEMMA IncomingKept ==
    ASSUME OrderInv, Incoming, HTTPResponse, UNCHANGED <<wire, cur>>,
           respPc' = "handle" =>
              respPc = "handle" /\ (Spent' \/ (Taken' = Taken /\ (Spent => Spent')))
    PROVE  Incoming'
<1>1. UNCHANGED <<sent, served>> /\ Written' = Written
    BY ResponseKeeps
<1>2. ASSUME NEW t \in Conns, NEW k \in 1..Len(wire'[t])
      PROVE  /\ wire'[t][k].req \in 1..Written'
             /\ wire'[t][k].code \in {"raw", "final"} /\ (wire'[t][k].code = "raw" => Foreign(wire[t][k].req)')
  <2>1. Foreign(wire[t][k].req)' <=> Foreign(wire[t][k].req)
      BY <1>1 DEF Foreign
  <2> QED BY <1>1, <2>1 DEF Incoming
<1> QED BY <1>1, <1>2 DEF Incoming

(* What has been written and is plain has its span.                        *)
LEMMA WrittenSpanned ==
    ASSUME OrderInv, Sending, NEW q \in 1..Written, ~Foreign(q)
    PROVE  q <= Spanned
<1>1. rd \in Nat /\ Written \in Int
    BY RequestTypes
<1>2. CASE q = rd
    BY <1>1, <1>2 DEF Written, Spanned, Pushed
<1>3. CASE q # rd
    BY <1>1, <1>3 DEF Written, Spanned, Pushed
<1> QED BY <1>2, <1>3

(* The response to be read next answers the request after those taken.     *)
LEMMA NextResponse ==
    ASSUME OrderInv, Sending, Aligned, respPc = "handle", wire[cur] # <<>>
    PROVE  /\ cur \in Conns /\ wire[cur] \in Seq(Responses) /\ Len(wire[cur]) >= 1
           /\ Head(wire[cur]).req = Taken + 1 /\ Taken + 1 \in 1..Written
           /\ Head(wire[cur]) \in Responses
           /\ Head(wire[cur]).code \in {"raw", "final"}
           /\ Head(wire[cur]).code = "raw" => Foreign(Taken + 1)
           /\ Taken + Len(wire[cur]) = cur - 1 + served[cur]
<1>1. cur \in Conns
    BY RequestTypes, MaxConnsAssumption DEF IInv, TypeOK, Order, nil, Conns
<1>2. wire[cur] \in Seq(Responses) /\ Len(wire[cur]) \in Nat /\ Taken \in Nat
    BY <1>1, AlignedTypes
<1>3. Len(wire[cur]) >= 1 /\ Head(wire[cur]) = wire[cur][1] /\ 1 \in 1..Len(wire[cur])
    BY <1>2
<1>4. wire[cur][1].req = Taken + 1 /\ Taken + Len(wire[cur]) = cur - 1 + served[cur]
    BY <1>3 DEF Aligned, Incoming, Spent
<1>5. /\ wire[cur][1].req \in 1..Written
      /\ wire[cur][1].code \in {"raw", "final"}
      /\ wire[cur][1].code = "raw" => Foreign(wire[cur][1].req)
    BY <1>1, <1>3 DEF Aligned, Incoming
<1>6. wire[cur][1] \in Responses
    BY <1>2, <1>3, ElementOfSeq
<1> QED BY <1>1, <1>2, <1>3, <1>4, <1>5, <1>6

(* In routing mode the upstream that has answered a request that went to   *)
(* the fallback is the last one.                                           *)
LEMMA ForeignLast ==
    ASSUME OrderInv, Sending, Dialling, routing, cur \in Conns, Foreign(rd),
           rd <= cur - 1 + served[cur]
    PROVE  LastTurn
<1>1. /\ cur \in Nat /\ dialled \in Nat /\ rd \in Nat /\ served[cur] \in Nat
      /\ arrived \in [Conns -> Seq(Reqs)] /\ cur <= dialled /\ dialled <= rd
    BY AlignedTypes, RequestTypes, CurDialled DEF Dialling
<1>a. served[cur] <= Len(arrived[cur]) /\ Len(arrived[cur]) \in Nat
    BY <1>1, LenProperties DEF OrderInv, HTTPInv, Counts
<1>b. PICK k \in 1..Len(arrived[cur]) : k = rd - cur + 1
    BY <1>1, <1>a
<1>c. arrived[cur][k] = cur - 1 + k /\ arrived[cur][k] <= Written
    BY DEF OrderInv, Arrivals, Sending
<1>2. hr \notin {"addr", "fallback"}
    BY <1>1, <1>b, <1>c DEF Written
<1>3. hr = "tunnel" \/ reqPc \in Ended
    BY <1>2 DEF Sending
<1>4. CASE rd = cur
    BY <1>1, <1>3, <1>4 DEF LastTurn
<1>5. CASE rd # cur
  <2>1. served[cur] >= 2
      BY <1>1, <1>5
  <2>3. Len(arrived[cur]) >= 2
      BY <1>1, <1>a, <2>1
  <2>4. cur = dialled
      BY <2>3 DEF OrderInv, Arrivals
  <2> QED BY <1>3, <2>4 DEF LastTurn
<1> QED BY <1>4, <1>5

(* A request that went to the fallback is the last one, and in routing     *)
(* mode its answer comes from the last upstream.                           *)
LEMMA ForeignNext ==
    ASSUME OrderInv, Sending, Dialling, Aligned, respPc = "handle", wire[cur] # <<>>,
           Foreign(Taken + 1)
    PROVE  Taken + 1 = rd /\ Foreign(rd) /\ (routing => LastTurn)
<1>1. /\ cur \in Conns /\ Taken + 1 \in 1..Written /\ Len(wire[cur]) >= 1
      /\ Taken + Len(wire[cur]) = cur - 1 + served[cur]
    BY NextResponse
<1>2. /\ Taken \in Nat /\ Written \in Int /\ Written <= rd /\ rd \in Nat /\ rd <= Len(sent)
      /\ Len(sent) \in Nat /\ Len(wire[cur]) \in Nat /\ served[cur] \in Nat /\ cur \in Nat
    BY <1>1, AlignedTypes, RequestTypes
<1>3. Taken + 1 = Len(sent)
    BY DEF Sending, Foreign
<1>4. Taken + 1 = rd
    BY <1>1, <1>2, <1>3
<1>5. rd <= cur - 1 + served[cur]
    BY <1>1, <1>2, <1>4
<1>6. Foreign(rd)
    BY <1>4
<1> QED BY <1>1, <1>4, <1>5, <1>6, ForeignLast

(* In routing mode an upstream that has more to say than one answer is the *)
(* last one, and what it says was not parsed.                              *)
LEMMA SecondResponse ==
    ASSUME OrderInv, Sending, Dialling, Aligned, routing, respPc = "handle",
           wire[cur] # <<>>, hs = "read", Len(finished) = cur
    PROVE  cur = dialled /\ Foreign(Taken + 1)
<1>1. /\ cur \in Conns /\ Len(wire[cur]) >= 1 /\ Taken + 1 \in 1..Written
    BY NextResponse
<1>2. /\ Taken \in Nat /\ Len(wire[cur]) \in Nat /\ served[cur] \in Nat
      /\ rd \in Nat /\ dialled \in Nat /\ Written \in Int /\ Written <= rd
      /\ arrived \in [Conns -> Seq(Reqs)] /\ cur \in Nat
    BY <1>1, AlignedTypes, RequestTypes
<1>3. Taken = cur
    BY <1>2 DEF Taken, Bit
<1>4. Taken + Len(wire[cur]) = cur - 1 + served[cur]
    BY NextResponse
<1>5. served[cur] >= 2
    BY <1>1, <1>2, <1>3, <1>4
<1>6. Len(arrived[cur]) >= 2
  <2>1. served[cur] <= Len(arrived[cur])
      BY <1>1 DEF OrderInv, HTTPInv, Counts
  <2>2. Len(arrived[cur]) \in Nat
      BY <1>1, <1>2, LenProperties
  <2> QED BY <1>2, <1>5, <2>1, <2>2
<1>7. cur = dialled /\ hr = "tunnel"
    BY <1>1, <1>6 DEF OrderInv, Arrivals
<1>8. Foreign(rd) /\ rd <= dialled + 1
    BY <1>7 DEF Sending, Dialling
<1>9. Taken + 1 = rd
    BY <1>1, <1>2, <1>3, <1>7, <1>8
<1> QED BY <1>7, <1>8, <1>9

(* The request the response in hand answers is in front of the queue, and  *)
(* its span too, unless it is in none.                                     *)
LEMMA QueueFront ==
    ASSUME OrderInv, Aligned, hs \in {"deliver", "respond", "stop"}
    PROVE  /\ \/ httpRequests # <<>> /\ Head(httpRequests) = Taken /\ Taken <= Spanned
              \/ httpRequests = <<>> /\ Declined
           /\ Taken = Len(finished) + 1 /\ Taken \in 1..Len(sent)
           /\ rs.req = Taken /\ rs.code = "final"
<1>1. Len(finished) \in Nat
    BY AlignedTypes
<1>2. Taken = Len(finished) + 1 /\ Popped = Len(finished)
    BY <1>1 DEF Taken, Popped, Bit
<1>3. /\ Spanned <= Pushed /\ Pushed <= rd /\ rd <= Len(sent)
      /\ Spanned \in Int /\ Pushed \in Int /\ rd \in Nat /\ Len(sent) \in Nat
      /\ Taken <= Spanned \/ Declined
    BY AlignedTypes, RequestTypes DEF Aligned, InProgress
<1>4. Len(httpRequests) = Pushed - Popped
    BY DEF Aligned, Queues
<1>7. rs.req = Taken /\ rs.code = "final"
    BY DEF Aligned, InProgress
<1>8. Taken \in 1..Len(sent)
    BY <1>1, <1>2, <1>3 DEF Declined
<1>5. CASE Taken <= Spanned
  <2>1. Len(httpRequests) >= 1
      BY <1>1, <1>2, <1>3, <1>4, <1>5
  <2>2. httpRequests # <<>> /\ Head(httpRequests) = httpRequests[1] /\ 1 \in 1..Len(httpRequests)
      BY <2>1, AlignedTypes
  <2>3. httpRequests[1] = Popped + 1
      BY <2>2 DEF Aligned, Queues
  <2> QED BY <1>2, <1>5, <1>7, <1>8, <2>2, <2>3
<1>6. CASE Declined
  <2>1. Pushed = rd - 1 /\ Taken = rd
      BY <1>6 DEF Declined, Pushed
  <2>2. Len(httpRequests) = 0
      BY <1>1, <1>2, <1>3, <1>4, <2>1
  <2>3. httpRequests = <<>>
      BY <2>2, AlignedTypes
  <2> QED BY <1>2, <1>6, <1>7, <1>8, <2>3
<1> QED BY <1>3, <1>5, <1>6


(* Reading a response advances the upstream in turn by one.                *)
LEMMA IncomingRead ==
    ASSUME OrderInv, Sending, Aligned, HTTPResponse, respPc = "handle", respPc' = "handle",
           wire[cur] # <<>>, wire' = [wire EXCEPT ![cur] = Tail(@)], cur' = cur,
           Taken' = Taken + 1
    PROVE  Incoming'
<1>1. UNCHANGED <<sent, served>> /\ Written' = Written
    BY ResponseKeeps
<1>2. cur \in Conns /\ wire[cur] \in Seq(Responses) /\ Len(wire[cur]) >= 1
    BY NextResponse
<1>s. ~Spent
    BY DEF Spent
<1>3. /\ wire \in [Conns -> Seq(Responses)] /\ Taken \in Nat /\ cur \in Nat
      /\ served[cur] \in Nat
    BY <1>2, AlignedTypes, RequestTypes
<1>4. \A t \in Conns : t # cur => wire'[t] = wire[t]
    BY <1>3
<1>5. PICK m \in Nat : m = Len(wire[cur])
    BY <1>2, LenProperties
<1>6. wire'[cur] = Tail(wire[cur])
    BY <1>2, <1>3
<1>7. /\ Len(wire'[cur]) = m - 1
      /\ \A k \in 1..(m - 1) : wire'[cur][k] = wire[cur][k + 1]
  <2>1. /\ Len(Tail(wire[cur])) = m - 1
        /\ \A k \in 1..(m - 1) : Tail(wire[cur])[k] = wire[cur][k + 1]
      BY <1>2, <1>5, HeadTailProperties
  <2> QED BY <1>6, <2>1
<1>8. ASSUME NEW t \in Conns, NEW k \in 1..Len(wire'[t])
      PROVE  /\ wire'[t][k].req \in 1..Written'
             /\ wire'[t][k].code \in {"raw", "final"} /\ (wire'[t][k].code = "raw" => Foreign(wire[t][k].req)')
  <2>1. PICK j \in 1..Len(wire[t]) : wire'[t][k] = wire[t][j]
    <3>1. CASE t = cur
      <4>1. k + 1 \in 1..Len(wire[t])
          BY <1>5, <1>7, <3>1
      <4> QED BY <1>7, <3>1, <4>1
    <3>2. CASE t # cur
        BY <1>4, <3>2
    <3> QED BY <3>1, <3>2
  <2>2. Foreign(wire[t][k].req)' <=> Foreign(wire[t][j].req)
      BY <1>1, <2>1 DEF Foreign
  <2> QED BY <1>1, <2>1, <2>2 DEF Aligned, Incoming
<1>9. ASSUME NEW t \in Conns, t > cur'
      PROVE  /\ Len(wire'[t]) = served'[t]
             /\ \A k \in 1..Len(wire'[t]) : wire'[t][k].req = t - 1 + k
  <2>1. t # cur /\ t > cur
      BY <1>3, <1>9
  <2> QED BY <1>1, <1>4, <2>1 DEF Aligned, Incoming
<1>10. Taken' + Len(wire'[cur']) = cur' - 1 + served'[cur']
  <2>1. Taken + m = cur - 1 + served[cur]
      BY <1>5, <1>s DEF Aligned, Incoming
  <2>2. (Taken + 1) + (m - 1) = cur - 1 + served[cur]
      BY <1>3, <2>1
  <2> QED BY <1>1, <1>7, <2>2
<1>11. ASSUME NEW k \in 1..Len(wire'[cur']) PROVE wire'[cur'][k].req = Taken' + k
  <2>1. k \in 1..(m - 1) /\ k + 1 \in 1..m
      BY <1>5, <1>7
  <2>2. wire[cur][k + 1].req = Taken + (k + 1)
      BY <1>5, <1>s, <2>1 DEF Aligned, Incoming
  <2> QED BY <1>3, <1>7, <2>1, <2>2
<1> QED BY <1>8, <1>9, <1>10, <1>11 DEF Incoming

(* ReadResponse takes the answer to the request after the last one.        *)
LEMMA ReadResponseAligned ==
    ASSUME OrderInv, Sending, Dialling, Aligned, ReadResponse PROVE Aligned'
<1>1. /\ UNCHANGED <<httpRequests, httpResponses, spans, finished, got, lost, stopped>>
      /\ UNCHANGED <<respPc, cur, target>> /\ respPc = "handle"
      /\ hs = "read" /\ hs' = "deliver" /\ wire[cur] # <<>> /\ rs' = Head(wire[cur])
      /\ Head(wire[cur]).code # "raw"
    BY DEF ReadResponse, tvars, netRequest
<1>2. HTTPResponse
    BY DEF HTTPResponse
<1>3. /\ cur \in Conns /\ Head(wire[cur]).req = Taken + 1 /\ Taken + 1 \in 1..Written
      /\ Head(wire[cur]) \in Responses
      /\ Head(wire[cur]).code = "final"
    BY <1>1, NextResponse
<1>4. /\ Len(finished) \in Nat /\ routing \in BOOLEAN /\ cur \in Nat /\ Spanned \in Int
    BY AlignedTypes, RequestTypes
<1>5. Taken = Len(finished) /\ Taken' = Taken + 1 /\ Popped' = Popped
    BY <1>1, <1>4 DEF Taken, Popped, Bit
<1>6. rs'.code = "final" /\ rs'.req = Taken'
    BY <1>1, <1>3, <1>5
<1>7. rs' = [req |-> Taken', code |-> "final"]
    BY <1>1, <1>3, <1>6 DEF Responses
<1>f. Foreign(Taken + 1) => Declined' /\ (routing => LastTurn')
  <2>1. Foreign(Taken + 1) => Taken + 1 = rd /\ Foreign(rd) /\ (routing => LastTurn)
      BY <1>1, ForeignNext
  <2> QED BY <1>1, <1>2, <1>5, <2>1, ResponseKeeps DEF Declined
<1>8. Queues'
    BY <1>1, <1>2, <1>5, ResponseKeeps DEF Aligned, Queues
<1>9. InProgress'
  <2>1. Taken' <= Spanned' \/ Declined'
      BY <1>2, <1>3, <1>5, <1>f, WrittenSpanned, ResponseKeeps
  <2> QED BY <1>1, <1>7, <2>1 DEF Aligned, InProgress
<1>10. Incoming'
    BY <1>1, <1>2, <1>5, IncomingRead DEF ReadResponse
<1>11. Turn'
  <2>1. ASSUME routing, ~Foreign(Taken + 1) PROVE Len(finished) = cur - 1
    <3>1. Len(finished) \in {cur - 1, cur}
        BY <1>1, <2>1 DEF Aligned, Turn
    <3>2. Len(finished) # cur
        BY <1>1, <2>1, SecondResponse
    <3> QED BY <3>1, <3>2
  <2>2. routing => (Len(finished) = cur - 1 /\ Taken' = cur) \/ (LastTurn' /\ Declined')
      BY <1>4, <1>5, <1>f, <2>1
  <2> QED BY <1>1, <1>2, <2>2, ResponseKeeps DEF Aligned, Turn
<1>12. Received'
    BY <1>1, <1>2, ReceivedStay DEF Aligned, Shown
<1> QED BY <1>8, <1>9, <1>10, <1>11, <1>12 DEF Aligned


(* A raw response answers the last request of the session, on the last     *)
(* upstream of the session.                                                *)
LEMMA CopyRawAligned ==
    ASSUME OrderInv, Sending, Dialling, Aligned, CopyRaw PROVE Aligned'
<1>1. /\ UNCHANGED <<httpRequests, httpResponses, spans, finished, rs, lost, stopped>>
      /\ UNCHANGED <<respPc, cur, target>> /\ respPc = "handle"
      /\ hs' = "tunnel" /\ wire[cur] # <<>>
      /\ wire' = [wire EXCEPT ![cur] = Tail(@)]
      /\ \/ got' = Receive(<<Head(wire[cur])>>)
         \/ got' = Receive(<<Garbled(Head(wire[cur]))>>)
         \/ got' = got
      /\ hs = "tunnel" \/ (hs = "read" /\ (lost \/ Head(wire[cur]).code = "raw"))
    BY DEF CopyRaw, tvars, netRequest
<1>2. HTTPResponse
    BY DEF HTTPResponse
<1>3. /\ cur \in Conns /\ Head(wire[cur]).req = Taken + 1 /\ Taken + 1 \in 1..Written
      /\ Head(wire[cur]) \in Responses
      /\ Head(wire[cur]).code = "raw" => Foreign(Taken + 1)
    BY <1>1, NextResponse
<1>4. /\ Len(finished) \in Nat /\ routing \in BOOLEAN /\ cur \in Nat /\ dialled \in Nat
      /\ Written \in Int /\ Written <= rd /\ rd \in Nat /\ rd <= Len(sent)
      /\ Len(sent) \in Nat /\ Taken \in Nat
    BY AlignedTypes, RequestTypes
<1>5. hs = "read" /\ Head(wire[cur]).code = "raw"
  <2>1. hs # "tunnel"
      BY <1>3, <1>4 DEF Aligned, InProgress, Declined
  <2> QED BY <1>1, <2>1 DEF Aligned, InProgress
<1>6. Taken = Len(finished) /\ Taken' = Taken + 1 /\ Popped' = Popped
    BY <1>1, <1>4, <1>5 DEF Taken, Popped, Bit
<1>7. Foreign(Taken + 1)
    BY <1>3, <1>5
<1>8. Taken + 1 = rd /\ Foreign(rd) /\ (routing => LastTurn)
    BY <1>1, <1>7, ForeignNext
<1>9. Queues'
    BY <1>1, <1>2, <1>5, <1>6, ResponseKeeps DEF Aligned, Queues
<1>10. InProgress'
  <2>1. rd' = rd /\ Foreign(rd)'
      BY <1>2, <1>7, <1>8, ResponseKeeps DEF Foreign
  <2> QED BY <1>1, <1>6, <1>8, <2>1 DEF Aligned, InProgress, Declined
<1>11. Incoming'
    BY <1>1, <1>2, <1>6, IncomingRead
<1>12. Turn'
  <2>2. routing => LastTurn'
      BY <1>1, <1>2, <1>8, ResponseKeeps
  <2> QED BY <1>1, <1>2, <2>2, ResponseKeeps DEF Aligned, Turn
<1>13. Received'
  <2>1. PICK r : r = Head(wire[cur])
      OBVIOUS
  <2>2. r \in Responses /\ r.code = "raw" /\ Foreign(r.req)
      BY <1>3, <1>5, <1>7, <2>1
  <2>3. Garbled(r) \in Responses /\ Garbled(r).code = "garbled" /\ Garbled(r).req = r.req
      BY <2>2 DEF Garbled, IsAnswer, Responses
  <2>4. Shown' = Shown
      BY <1>1, <1>4, <1>5 DEF Shown
  <2>5. CASE got' = got
      BY <1>2, <2>4, <2>5, ReceivedStay DEF Aligned
  <2>6. CASE got' = Receive(<<r>>)
      BY <1>2, <2>2, <2>4, <2>6, ReceivedMore DEF Aligned
  <2>7. CASE got' = Receive(<<Garbled(r)>>)
    <3>1. PICK g \in Responses : g = Garbled(r)
        BY <2>3
    <3>2. g.code = "garbled" /\ Foreign(g.req) /\ got' = Receive(<<g>>)
        BY <2>2, <2>3, <2>7, <3>1
    <3> QED BY <1>2, <2>4, <3>2, ReceivedMore DEF Aligned
  <2> QED BY <1>1, <2>1, <2>5, <2>6, <2>7
<1> QED BY <1>9, <1>10, <1>11, <1>12, <1>13 DEF Aligned

(* HandleResponse leaves its upstream with its request's span finished, or *)
(* it was the last upstream.                                               *)
LEMMA ResponseEndsAligned ==
    ASSUME OrderInv, Sending, Dialling, Regular, Aligned, ResponseEnds PROVE Aligned'
<1>1. /\ UNCHANGED <<httpRequests, httpResponses, spans, finished, rs, stopped, got, wire>>
      /\ UNCHANGED <<cur, target>> /\ respPc = "handle" /\ respPc' = "close"
      /\ hs \in {"read", "tunnel"} /\ hs' = "read" /\ lost' = FALSE
      /\ target[cur] = "closed" \/ (srvFin[cur] /\ wire[cur] = <<>>)
    BY DEF ResponseEnds, ReturnResponse, netRequest
<1>2. HTTPResponse
    BY DEF HTTPResponse
<1>3. /\ Len(finished) \in Nat /\ routing \in BOOLEAN /\ cur \in Nat /\ dialled \in Nat
      /\ rd \in Nat /\ Spanned \in Int /\ IInv /\ TypeOK
    BY AlignedTypes, RequestTypes
<1>4. Taken' = Len(finished) /\ Popped' = Len(finished) /\ Popped = Len(finished)
    BY <1>1, <1>3 DEF Taken, Popped, Bit
<1>5. Queues'
    BY <1>1, <1>2, <1>4, ResponseKeeps DEF Aligned, Queues
<1>6. InProgress'
  <2>1. Len(finished) <= Spanned
    <3>1. CASE hs = "read"
        BY <1>3, <3>1 DEF Aligned, InProgress, Taken, Bit
    <3>2. CASE hs = "tunnel"
      <4>1. Len(finished) + 1 = rd /\ Foreign(rd)
          BY <3>2 DEF Aligned, InProgress, Declined, Taken, Bit
      <4>2. Spanned = rd - 1
          BY <4>1 DEF Spanned, Pushed
      <4> QED BY <1>3, <4>1, <4>2
    <3> QED BY <1>1, <3>1, <3>2
  <2> QED BY <1>1, <1>2, <1>4, <2>1, ResponseKeeps DEF InProgress
<1>7. Incoming'
    BY <1>1, <1>2, IncomingKept DEF Aligned
<1>8. Turn'
  <2>1. ASSUME routing PROVE LastTurn \/ Len(finished) = cur
    <3>1. CASE hs = "tunnel"
        BY <1>1, <2>1, <3>1 DEF Aligned, Turn
    <3>2. CASE hs = "read"
      <4>1. Taken = Len(finished)
          BY <1>3, <3>2 DEF Taken, Bit
      <4>2. CASE target[cur] = "closed"
          BY <1>1, <2>1, <4>1, <4>2 DEF Aligned, Turn
      <4>3. CASE srvFin[cur] /\ wire[cur] = <<>>
        <5>1. cur \in 1..dialled
            BY <1>1, <1>3, CurDialled DEF IInv, Order, nil
        <5>2. served[cur] = 1
            BY <2>1, <4>3, <5>1 DEF Regular
        <5>3. Len(wire[cur]) = 0
            BY <4>3
        <5>4. CASE ~Spent
          <6>1. Taken + Len(wire[cur]) = cur - 1 + served[cur]
              BY <1>1, <5>4 DEF Aligned, Incoming
          <6> QED BY <1>3, <4>1, <5>2, <5>3, <6>1
        <5>5. CASE Spent
          <6>1. cur \in Conns /\ Foreign(rd) /\ rd <= cur - 1 + served[cur]
              BY <1>1, <1>3, <5>5, MaxConnsAssumption DEF IInv, TypeOK, Order, nil, Conns, Spent
          <6> QED BY <2>1, <6>1, ForeignLast
        <5> QED BY <5>4, <5>5
      <4> QED BY <1>1, <4>2, <4>3
    <3> QED BY <1>1, <3>1, <3>2
  <2>2. routing => LastTurn' \/ Len(finished) = cur
      BY <1>1, <1>2, <2>1, ResponseKeeps
  <2> QED BY <1>1, <1>2, <2>2, ResponseKeeps DEF Turn
<1>9. Received'
  <2>1. Shown' = Shown
      BY <1>1 DEF Shown
  <2> QED BY <1>1, <1>2, <2>1, ReceivedStay DEF Aligned
<1> QED BY <1>5, <1>6, <1>7, <1>8, <1>9 DEF Aligned

(* Every response that is delivered is final and is followed by            *)
(* SetHTTPResponse; that to a HEAD request closes the upstream.            *)
LEMMA DeliverAligned ==
    ASSUME OrderInv, Sending, Dialling, Regular, Aligned, Deliver \/ DeliverHead
    PROVE  Aligned'
<1>1. /\ UNCHANGED <<httpRequests, httpResponses, spans, finished, rs, lost, stopped, wire>>
      /\ hs = "deliver" /\ respPc = "handle"
    BY DEF Deliver, DeliverHead, netRequest
<1>2. HTTPResponse
    BY DEF HTTPResponse
<1>3. /\ \/ httpRequests # <<>> /\ Head(httpRequests) = Taken /\ Taken <= Spanned
         \/ httpRequests = <<>> /\ Declined
      /\ Taken = Len(finished) + 1 /\ Taken \in 1..Len(sent)
      /\ rs.req = Taken /\ rs.code = "final"
    BY <1>1, QueueFront
<1>4. /\ Len(finished) \in Nat /\ routing \in BOOLEAN /\ cur \in Nat /\ rs \in Responses
      /\ target \in [Conns -> {"none", "open", "closed"}]
    BY AlignedTypes, RequestTypes
<1>5. /\ UNCHANGED <<cur, respPc>> /\ hs' = "respond" /\ got' = Receive(<<rs>>)
      /\ target' = target \/ (routing /\ target' = closeConn(cur))
  <2>1. CASE DeliverHead
    <3>1. sent[Taken] = "head"
        BY <1>3, <2>1 DEF DeliverHead
    <3>2. routing
        BY <1>3, <3>1 DEF Regular
    <3> QED BY <1>3, <2>1, <3>1, <3>2 DEF DeliverHead, ForceClose
  <2>2. CASE Deliver
    <3>1. ~AwaitsBody
        BY <1>3, <2>2 DEF Deliver, AwaitsBody, Declined, Foreign
    <3> QED BY <2>2, <3>1 DEF Deliver, tvars
  <2> QED BY <2>1, <2>2
<1>6. Taken' = Taken /\ Popped' = Popped
    BY <1>1, <1>5 DEF Taken, Popped, Bit
<1>7. Queues'
    BY <1>1, <1>2, <1>5, <1>6, ResponseKeeps DEF Aligned, Queues
<1>8. InProgress'
    BY <1>1, <1>2, <1>5, <1>6, ResponseKeeps DEF Aligned, InProgress
<1>9. Incoming'
    BY <1>1, <1>2, <1>5, <1>6, IncomingKept DEF Aligned, Spent
<1>10. Turn'
  <2>1. routing => \/ Len(finished) = cur - 1 /\ Taken = cur
                   \/ LastTurn /\ Declined
      BY <1>1, <1>3, <1>4 DEF Aligned, Turn
  <2>2. routing => Len(finished) \in {cur - 1, cur}
      BY <1>1 DEF Aligned, Turn
  <2> QED BY <1>1, <1>2, <1>5, <1>6, <2>1, <2>2, ResponseKeeps DEF Turn
<1>11. Received'
  <2>1. Shown = Len(finished) /\ Shown' = Len(finished) + 1
      BY <1>1, <1>4, <1>5 DEF Shown, Bit
  <2>2. rs.req \in 1..Shown' /\ \A i \in 1..Shown : i \in 1..Shown'
      BY <1>3, <1>4, <2>1
  <2> QED BY <1>2, <1>3, <1>4, <1>5, <2>2, ReceivedMore DEF Aligned
<1> QED BY <1>7, <1>8, <1>9, <1>10, <1>11 DEF Aligned


(* The response is put in its queue, which was empty.                      *)
LEMMA SetHTTPResponseAligned ==
    ASSUME OrderInv, Sending, Aligned, SetHTTPResponse PROVE Aligned'
<1>1. /\ UNCHANGED <<httpRequests, spans, finished, rs, lost, stopped, wire, got>>
      /\ UNCHANGED <<cur, respPc, target>> /\ httpResponses' = Append(httpResponses, rs)
      /\ hs = "respond" /\ hs' = "stop" /\ respPc = "handle"
    BY DEF SetHTTPResponse, tvars
<1>2. HTTPResponse
    BY DEF HTTPResponse
<1>3. httpResponses' = <<rs>>
  <2>1. httpResponses = <<>>
      BY <1>1 DEF Aligned, Queues
  <2> QED BY <1>1, <2>1
<1>4. Taken' = Taken /\ Popped' = Popped
    BY <1>1 DEF Taken, Popped, Bit
<1>5. Queues'
    BY <1>1, <1>2, <1>3, <1>4, ResponseKeeps DEF Aligned, Queues
<1>6. InProgress'
    BY <1>1, <1>2, <1>4, ResponseKeeps DEF Aligned, InProgress
<1>7. Incoming'
    BY <1>1, <1>2, <1>4, IncomingKept DEF Aligned, Spent
<1>8. Turn'
    BY <1>1, <1>2, <1>4, ResponseKeeps DEF Aligned, Turn
<1>9. Received'
  <2>1. Shown' = Shown
      BY <1>1 DEF Shown
  <2> QED BY <1>1, <1>2, <2>1, ReceivedStay DEF Aligned
<1> QED BY <1>5, <1>6, <1>7, <1>8, <1>9 DEF Aligned

(* StopRequest pops the request that the response answers.                 *)
LEMMA StopRequestAligned ==
    ASSUME OrderInv, Sending, Aligned, StopRequest, httpRequests # <<>> PROVE Aligned'
<1>1. /\ UNCHANGED <<spans, finished, rs, lost, wire, got>>
      /\ UNCHANGED <<cur, respPc, target>> /\ hs = "stop" /\ respPc = "handle"
      /\ httpRequests' = Rest(httpRequests) /\ httpResponses' = Rest(httpResponses)
      /\ stopped' = [req |-> Front(httpRequests, nil),
                     resp |-> Front(httpResponses, NoResponse)]
      /\ hs' = IF stopped'.req = nil THEN "after" ELSE "finish"
    BY DEF StopRequest, tvars
<1>2. HTTPResponse
    BY DEF HTTPResponse
<1>3. /\ httpRequests # <<>> /\ Head(httpRequests) = Taken
      /\ Taken = Len(finished) + 1 /\ rs.req = Taken /\ Taken <= Spanned
    BY <1>1, QueueFront
<1>4. /\ Len(finished) \in Nat /\ httpRequests \in Seq(Reqs) /\ Pushed \in Int
      /\ Popped \in Nat
    BY AlignedTypes
<1>5. httpResponses = <<rs>>
    BY <1>1 DEF Aligned, Queues
<1>6. /\ stopped'.req = Taken /\ stopped'.resp = rs
      /\ httpRequests' = Tail(httpRequests) /\ httpResponses' = <<>>
    BY <1>1, <1>3, <1>5 DEF Front, Rest
<1>7. hs' = "finish"
    BY <1>1, <1>3, <1>4, <1>6 DEF nil
<1>8. Taken' = Taken /\ Popped' = Popped + 1
    BY <1>1, <1>4, <1>7 DEF Taken, Popped, Bit
<1>9. /\ Len(httpRequests') = Pushed' - Popped'
      /\ \A k \in 1..Len(httpRequests') : httpRequests'[k] = Popped' + k
  <2>1. PICK m \in Nat : m = Len(httpRequests)
      BY <1>4, LenProperties
  <2>2. m = Pushed - Popped /\ \A k \in 1..m : httpRequests[k] = Popped + k
      BY <2>1 DEF Aligned, Queues
  <2>3. /\ Len(Tail(httpRequests)) = m - 1
        /\ \A k \in 1..(m - 1) : Tail(httpRequests)[k] = httpRequests[k + 1]
      BY <1>3, <1>4, <2>1, HeadTailProperties
  <2>4. \A k \in 1..(m - 1) : httpRequests[k + 1] = (Popped + 1) + k
    <3> SUFFICES ASSUME NEW k \in 1..(m - 1) PROVE httpRequests[k + 1] = (Popped + 1) + k
        OBVIOUS
    <3>1. k + 1 \in 1..m
        OBVIOUS
    <3>2. httpRequests[k + 1] = Popped + (k + 1)
        BY <2>2, <3>1
    <3> QED BY <1>4, <3>2
  <2>5. m - 1 = Pushed - (Popped + 1)
      BY <1>4, <2>2
  <2>6. Pushed' = Pushed
      BY <1>2, ResponseKeeps
  <2> QED BY <1>6, <1>8, <2>3, <2>4, <2>5, <2>6
<1>10. Queues'
    BY <1>1, <1>2, <1>6, <1>7, <1>9, ResponseKeeps DEF Aligned, Queues
<1>11. InProgress'
    BY <1>1, <1>2, <1>3, <1>6, <1>7, <1>8, ResponseKeeps DEF Aligned, InProgress
<1>12. Incoming'
    BY <1>1, <1>2, <1>8, IncomingKept DEF Aligned, Spent
<1>13. Turn'
  <2>1. ~Declined
    <3>1. Declined => Spanned <= rd - 1
        BY AlignedTypes, RequestTypes DEF Declined, Pushed
    <3> QED BY <1>3, <3>1, AlignedTypes, RequestTypes DEF Declined
  <2> QED BY <1>1, <1>2, <1>7, <1>8, <2>1, ResponseKeeps DEF Aligned, Turn
<1>14. Received'
  <2>1. Shown' = Shown
      BY <1>1, <1>7 DEF Shown
  <2> QED BY <1>1, <1>2, <2>1, ReceivedStay DEF Aligned
<1> QED BY <1>10, <1>11, <1>12, <1>13, <1>14 DEF Aligned

(* For a request that went to the fallback there is nothing to pop.        *)
LEMMA StopNothingAligned ==
    ASSUME OrderInv, Sending, Dialling, Aligned, StopRequest, httpRequests = <<>> PROVE Aligned'
<1>1. /\ UNCHANGED <<spans, finished, rs, lost, wire, got>>
      /\ UNCHANGED <<cur, respPc, target>> /\ hs = "stop" /\ respPc = "handle"
      /\ httpRequests' = <<>> /\ httpResponses' = Rest(httpResponses) /\ hs' = "after"
    BY DEF StopRequest, tvars, Front, Rest
<1>2. HTTPResponse
    BY DEF HTTPResponse
<1>3. /\ Declined /\ Taken = Len(finished) + 1
    BY <1>1, QueueFront
<1>4. /\ Len(finished) \in Nat /\ rd \in Nat /\ Spanned \in Int /\ Written \in Int
      /\ Written <= rd /\ cur \in Nat /\ routing \in BOOLEAN
    BY AlignedTypes, RequestTypes
<1>5. httpResponses' = <<>>
  <2>1. httpResponses = <<rs>>
      BY <1>1 DEF Aligned, Queues
  <2> QED BY <1>1, <2>1 DEF Rest
<1>6. Taken' = Len(finished) /\ Popped' = Popped /\ Popped = Len(finished)
    BY <1>1, <1>4 DEF Taken, Popped, Bit
<1>7. Taken = rd /\ Foreign(rd) /\ Len(finished) + 1 = rd
    BY <1>3 DEF Declined
<1>8. Queues'
    BY <1>1, <1>2, <1>5, <1>6, ResponseKeeps DEF Aligned, Queues
<1>9. InProgress'
  <2>1. Spanned = rd - 1
    <3>1. hr \notin {"start", "span"} \/ Spanned = rd - 1
        BY DEF Spanned
    <3> QED BY <1>7, <3>1 DEF Spanned, Pushed
  <2>2. Taken' <= Spanned'
      BY <1>2, <1>4, <1>6, <1>7, <2>1, ResponseKeeps
  <2> QED BY <1>1, <2>2 DEF Aligned, InProgress
<1>10. Incoming' /\ (routing => LastTurn)
  <2>1. cur \in Conns
      BY <1>1, RequestTypes, MaxConnsAssumption DEF IInv, TypeOK, Order, nil, Conns
  <2>2. wire[cur] \in Seq(Responses) /\ Len(wire[cur]) \in Nat /\ served[cur] \in Nat
      BY <2>1, AlignedTypes
  <2>3. /\ Taken + Len(wire[cur]) = cur - 1 + served[cur]
        /\ \A k \in 1..Len(wire[cur]) : wire[cur][k].req = Taken + k
      BY <1>1 DEF Aligned, Incoming, Spent
  <2>4. wire[cur] = <<>>
    <3> SUFFICES ASSUME wire[cur] # <<>> PROVE FALSE
        OBVIOUS
    <3>1. Taken + 1 \in 1..Written
        BY <1>1, NextResponse
    <3> QED BY <1>4, <1>7, <3>1
  <2>5. Len(wire[cur]) = 0
      BY <2>4
  <2>6. cur - 1 + served[cur] = rd
      BY <1>4, <1>7, <2>2, <2>3, <2>5
  <2>7. Spent'
      BY <1>1, <1>2, <1>6, <1>7, <2>4, <2>6, ResponseKeeps DEF Spent
  <2>8. routing => LastTurn
      BY <1>4, <1>7, <2>1, <2>6, ForeignLast
  <2> QED BY <1>1, <1>2, <2>7, <2>8, IncomingKept DEF Aligned
<1>11. Turn'
    BY <1>1, <1>2, <1>6, <1>10, ResponseKeeps DEF Aligned, Turn
<1>12. Received'
  <2>1. Shown = Len(finished) + 1 /\ Shown' = Len(finished)
      BY <1>1, <1>4 DEF Shown, Bit
  <2>2. \A i \in 1..Shown : Foreign(i) \/ i \in 1..Shown'
    <3> SUFFICES ASSUME NEW i \in 1..Shown PROVE Foreign(i) \/ i \in 1..Shown'
        OBVIOUS
    <3>1. i = rd \/ i \in 1..Shown'
        BY <1>4, <1>7, <2>1
    <3> QED BY <1>7, <3>1
  <2> QED BY <1>1, <1>2, <2>2, ReceivedStay DEF Aligned
<1> QED BY <1>8, <1>9, <1>10, <1>11, <1>12 DEF Aligned

(* The oldest span is finished: it was started for that request.           *)
LEMMA FinishSpanAligned ==
    ASSUME OrderInv, Sending, Aligned, FinishSpan PROVE Aligned'
<1> DEFINE rec == [req |-> stopped.req, resp |-> stopped.resp, span |-> Head(spans),
                   remote |-> remoteAddr, timeout |-> stopped.resp = NoResponse]
<1>1. /\ UNCHANGED <<rs, lost, stopped, httpRequests, httpResponses, wire, got>>
      /\ UNCHANGED <<cur, respPc, target>> /\ hs = "finish" /\ respPc = "handle"
      /\ hs' = "after" /\ spans' = Rest(spans)
      /\ finished' = IF spans = <<>> THEN finished ELSE Append(finished, rec)
    BY DEF FinishSpan, tvars
<1>2. HTTPResponse
    BY DEF HTTPResponse
<1>3. /\ spans \in Seq([for : Reqs, from : Reqs]) /\ Spanned \in Int
      /\ routing \in BOOLEAN /\ cur \in Nat
    BY AlignedTypes, RequestTypes
<1>4. PICK n \in Nat : n = Len(finished)
    BY AlignedTypes
<1>5. Taken = n + 1 /\ Popped = n + 1 /\ Taken <= Spanned
    BY <1>1, <1>4 DEF Taken, Popped, Bit, Aligned, InProgress
<1>6. PICK m \in Nat : m = Len(spans)
    BY <1>3, LenProperties
<1>7. m = Spanned - n /\ \A k \in 1..m : spans[k].for = n + k
    BY <1>4, <1>6 DEF Aligned, Queues
<1>8. m >= 1 /\ spans # <<>> /\ Head(spans) = spans[1]
  <2>1. m >= 1
      BY <1>3, <1>5, <1>7
  <2>2. Len(spans) # 0
      BY <1>6, <2>1
  <2>3. spans # <<>>
      BY <2>2
  <2> QED BY <1>3, <2>1, <2>3, HeadTailProperties
<1>9. spans' = Tail(spans) /\ finished' = Append(finished, rec)
    BY <1>1, <1>8 DEF Rest
<1>10. rec.req = n + 1 /\ rec.resp.req = n + 1 /\ rec.span.for = n + 1
  <2>1. stopped.req = n + 1 /\ stopped.resp.req = n + 1
      BY <1>1, <1>5 DEF Aligned, InProgress
  <2>2. Head(spans).for = n + 1
      BY <1>7, <1>8
  <2> QED BY <2>1, <2>2
<1> HIDE DEF rec
<1>11. /\ Len(finished') = n + 1 /\ finished'[n + 1] = rec
       /\ \A k \in 1..n : finished'[k] = finished[k]
  <2>1. \E S : finished \in Seq(S)
      BY RequestTypes DEF HTTPTypeOK
  <2> QED BY <1>4, <1>9, <2>1
<1>12. Taken' = n + 1 /\ Popped' = n + 1
    BY <1>1, <1>11 DEF Taken, Popped, Bit
<1>13. /\ Len(spans') = Spanned' - (n + 1)
       /\ \A k \in 1..Len(spans') : spans'[k].for = (n + 1) + k
  <2>1. /\ Len(Tail(spans)) = m - 1
        /\ \A k \in 1..(m - 1) : Tail(spans)[k] = spans[k + 1]
      BY <1>3, <1>6, <1>8, HeadTailProperties
  <2>2. \A k \in 1..(m - 1) : spans[k + 1].for = (n + 1) + k
    <3> SUFFICES ASSUME NEW k \in 1..(m - 1) PROVE spans[k + 1].for = (n + 1) + k
        OBVIOUS
    <3>1. k + 1 \in 1..m
        OBVIOUS
    <3>2. spans[k + 1].for = n + (k + 1)
        BY <1>7, <3>1
    <3> QED BY <3>2
  <2>3. m - 1 = Spanned - (n + 1) /\ Spanned' = Spanned
      BY <1>2, <1>3, <1>7, ResponseKeeps
  <2> QED BY <1>9, <2>1, <2>2, <2>3
<1>14. ASSUME NEW k \in 1..(n + 1)
       PROVE  finished'[k].req = k /\ finished'[k].resp.req = k /\ finished'[k].span.for = k
  <2>1. CASE k = n + 1
      BY <1>10, <1>11, <2>1
  <2>2. CASE k \in 1..n
      BY <1>4, <1>11, <2>2 DEF Aligned, Queues
  <2> QED BY <2>1, <2>2
<1>15. Queues'
  <2>1. Pushed' = Pushed
      BY <1>2, ResponseKeeps
  <2>2. httpResponses' = <<>>
      BY <1>1 DEF Aligned, Queues
  <2>3. /\ Len(httpRequests') = Pushed' - Popped'
        /\ \A k \in 1..Len(httpRequests') : httpRequests'[k] = Popped' + k
      BY <1>1, <1>5, <1>12, <2>1 DEF Aligned, Queues
  <2> QED BY <1>1, <1>11, <1>13, <1>14, <2>2, <2>3 DEF Queues
<1>16. InProgress'
    BY <1>1, <1>2, <1>5, <1>12, ResponseKeeps DEF Aligned, InProgress
<1>17. Incoming'
    BY <1>1, <1>2, <1>5, <1>12, IncomingKept DEF Aligned, Spent
<1>18. Turn'
  <2>1. routing => n = cur - 1 /\ n + 1 = cur
      BY <1>1, <1>3, <1>4 DEF Aligned, Turn
  <2> QED BY <1>1, <1>2, <1>3, <1>11, <1>12, <2>1, ResponseKeeps DEF Turn
<1>19. Received'
  <2>1. Shown' = n + 1 /\ Shown = n + 1
      BY <1>1, <1>4, <1>11 DEF Shown, Bit
  <2> QED BY <1>1, <1>2, <2>1, ReceivedStay DEF Aligned
<1> QED BY <1>15, <1>16, <1>17, <1>18, <1>19 DEF Aligned

(* After its answer the upstream of a routed request is closed.            *)
LEMMA AfterResponseAligned ==
    ASSUME OrderInv, Sending, Aligned, AfterResponse PROVE Aligned'
<1>1. /\ UNCHANGED <<httpRequests, httpResponses, spans, finished, lost, wire, got>>
      /\ UNCHANGED <<cur, respPc>> /\ hs = "after" /\ hs' = "read" /\ respPc = "handle"
    BY DEF AfterResponse, ForceClose, tvars, netRequest
<1>2. HTTPResponse
    BY DEF HTTPResponse
<1>3. Len(finished) \in Nat /\ routing \in BOOLEAN /\ cur \in Nat
    BY AlignedTypes, RequestTypes
<1>4. /\ Taken' = Len(finished) /\ Taken = Len(finished) /\ Popped' = Popped
    BY <1>1, <1>3 DEF Taken, Popped, Bit
<1>5. Queues'
    BY <1>1, <1>2, <1>4, ResponseKeeps DEF Aligned, Queues
<1>6. InProgress'
    BY <1>1, <1>2, <1>4, ResponseKeeps DEF Aligned, InProgress
<1>7. Incoming'
  <2>1. Spent => Spent'
      BY <1>1, <1>2, <1>4, ResponseKeeps DEF Spent
  <2> QED BY <1>1, <1>2, <1>4, <2>1, IncomingKept DEF Aligned
<1>8. Turn'
  <2>1. routing => /\ Len(finished) = cur \/ LastTurn
                   /\ Len(finished) \in {cur - 1, cur}
      BY <1>1 DEF Aligned, Turn
  <2> QED BY <1>1, <1>2, <1>3, <1>4, <2>1, ResponseKeeps DEF Turn
<1>9. Received'
  <2>1. Shown' = Shown
      BY <1>1 DEF Shown
  <2> QED BY <1>1, <1>2, <2>1, ReceivedStay DEF Aligned
<1> QED BY <1>5, <1>6, <1>7, <1>8, <1>9 DEF Aligned


(* The next upstream is handled when the request of the one before it has  *)
(* its span finished.                                                      *)
LEMMA RecvCallAligned ==
    ASSUME OrderInv, Sending, Dialling, Aligned, RecvCall, UNCHANGED hvars PROVE Aligned'
<1>1. /\ UNCHANGED <<httpRequests, httpResponses, spans, finished, hs, rs, lost, stopped>>
      /\ UNCHANGED <<wire, got, target>> /\ respPc = "recv" /\ respPc' = "handle"
    BY DEF RecvCall, hvars, handleResponse, netRequest
<1>2. HTTPResponse
    BY DEF HTTPResponse
<1>3. /\ Len(finished) \in Nat /\ routing \in BOOLEAN /\ cur \in Nat /\ dialled \in Nat
      /\ IInv /\ TypeOK /\ \A t \in Conns : Len(wire[t]) \in Nat /\ served[t] \in Nat
    BY AlignedTypes, RequestTypes
<1>4. cur' = cur + 1 /\ cur + 1 <= dialled /\ cur + 1 \in Conns
  <2>1. callCh \in Seq(Conns) /\ callCh # <<>>
      BY <1>3 DEF TypeOK, RecvCall
  <2>2. Len(callCh) >= 1 /\ Head(callCh) = callCh[1] /\ 1 \in 1..Len(callCh)
        /\ Head(callCh) \in Conns /\ Len(callCh) \in Nat
      BY <2>1
  <2>3. callCh[1] = cur + 1
      BY <1>3, <2>2 DEF IInv, Order
  <2>4. cur + 1 <= dialled
      BY <1>3, <2>2 DEF IInv, Order, Bit
  <2> QED BY <2>2, <2>3, <2>4 DEF RecvCall
<1>5. hs = "read" /\ routing
    BY <1>1, <1>3 DEF Aligned, InProgress, IInv, Control
<1>6. Len(finished) = cur
  <2>1. ~LastTurn
      BY <1>3, <1>4 DEF LastTurn
  <2> QED BY <1>1, <1>5, <2>1 DEF Aligned, Turn
<1>7. Taken = cur /\ Taken' = Taken /\ Popped' = Popped
    BY <1>1, <1>3, <1>5, <1>6 DEF Taken, Popped, Bit
<1>8. Queues'
    BY <1>1, <1>2, <1>7, ResponseKeeps DEF Aligned, Queues
<1>9. InProgress'
    BY <1>1, <1>2, <1>5, <1>7, ResponseKeeps DEF Aligned, InProgress
<1>10. Incoming'
  <2>1. UNCHANGED <<sent, served>> /\ Written' = Written
      BY <1>2, ResponseKeeps
  <2>2. ASSUME NEW t \in Conns, NEW k \in 1..Len(wire'[t])
        PROVE  /\ wire'[t][k].req \in 1..Written'
               /\ wire'[t][k].code \in {"raw", "final"} /\ (wire'[t][k].code = "raw" => Foreign(wire[t][k].req)')
    <3>1. Foreign(wire[t][k].req)' <=> Foreign(wire[t][k].req)
        BY <1>1, <2>1 DEF Foreign
    <3> QED BY <1>1, <2>1, <3>1 DEF Aligned, Incoming
  <2>3. PICK c \in Conns : c = cur + 1
      BY <1>4
  <2>4. Len(wire[c]) = served[c] /\ \A k \in 1..Len(wire[c]) : wire[c][k].req = c - 1 + k
    <3>1. c > cur
        BY <1>3, <2>3
    <3> QED BY <3>1 DEF Aligned, Incoming
  <2>5. c - 1 = cur
      BY <1>3, <2>3
  <2>6. /\ Taken' + Len(wire'[cur']) = cur' - 1 + served'[cur']
        /\ \A k \in 1..Len(wire'[cur']) : wire'[cur'][k].req = Taken' + k
      BY <1>1, <1>4, <1>7, <2>1, <2>3, <2>4, <2>5
  <2>7. ASSUME NEW t \in Conns, t > cur'
        PROVE  /\ Len(wire'[t]) = served'[t]
               /\ \A k \in 1..Len(wire'[t]) : wire'[t][k].req = t - 1 + k
    <3>1. t > cur
        BY <1>3, <1>4, <2>7, MaxConnsAssumption DEF Conns
    <3> QED BY <1>1, <2>1, <3>1 DEF Aligned, Incoming
  <2> QED BY <2>2, <2>6, <2>7 DEF Incoming
<1>11. Turn'
  <2>1. target[cur + 1] = "closed" => LastTurn'
    <3>1. cur + 1 > cur
        BY <1>3
    <3>2. target[cur + 1] = "closed" => cur + 1 = dialled /\ reqPc = "done"
        BY <1>4, <3>1 DEF Dialling
    <3> QED BY <1>2, <1>4, <3>2, ResponseKeeps DEF LastTurn, Ended
  <2>2. Len(finished') = cur' - 1
      BY <1>1, <1>3, <1>4, <1>6
  <2> QED BY <1>1, <1>4, <1>5, <2>1, <2>2 DEF Turn
<1>12. Received'
  <2>1. Shown' = Shown
      BY <1>1 DEF Shown
  <2> QED BY <1>1, <1>2, <2>1, ReceivedStay DEF Aligned
<1> QED BY <1>8, <1>9, <1>10, <1>11, <1>12 DEF Aligned

(* The end of a response routine and of the worker.                        *)
LEMMA WorkerAligned ==
    ASSUME OrderInv, Sending, Aligned, RangeEnds \/ CloseResponse, UNCHANGED hvars
    PROVE  Aligned'
<1>1. /\ UNCHANGED <<httpRequests, httpResponses, spans, finished, hs, rs, lost, stopped>>
      /\ UNCHANGED <<wire, got, cur>> /\ respPc \in {"recv", "close"}
      /\ respPc' \in {"recv", "done"}
    BY DEF RangeEnds, CloseResponse, hvars, handleResponse, netRequest
<1>2. HTTPResponse
    BY DEF HTTPResponse
<1>3. Taken' = Taken /\ Popped' = Popped
    BY <1>1 DEF Taken, Popped
<1>4. Queues'
    BY <1>1, <1>2, <1>3, ResponseKeeps DEF Aligned, Queues
<1>5. InProgress'
    BY <1>1, <1>2, <1>3, ResponseKeeps DEF Aligned, InProgress
<1>6. Incoming'
    BY <1>1, <1>2, IncomingKept DEF Aligned
<1>7. Turn'
    BY <1>1, <1>2, ResponseKeeps DEF Aligned, Turn
<1>8. Received'
  <2>1. Shown' = Shown
      BY <1>1 DEF Shown
  <2> QED BY <1>1, <1>2, <2>1, ReceivedStay DEF Aligned
<1> QED BY <1>4, <1>5, <1>6, <1>7, <1>8 DEF Aligned

(* The response goroutines keep Aligned.                                   *)
LEMMA ResponseAligned ==
    ASSUME OrderInv, Sending, Dialling, Regular, Aligned, HTTPResponse PROVE Aligned'
<1>1. ~SwallowResponse /\ ~BodyFails
    BY DEF SwallowResponse, BodyFails, Aligned, InProgress
<1> QED BY <1>1, ReadResponseAligned, CopyRawAligned, ResponseEndsAligned, DeliverAligned,
       SetHTTPResponseAligned, StopRequestAligned, StopNothingAligned, FinishSpanAligned,
       AfterResponseAligned,
       RecvCallAligned, WorkerAligned DEF HTTPResponse

-----------------------------------------------------------------------------
(* SpanInv holds before the session starts.                                *)
LEMMA InitSpanInv == HTTPInit => SpanInv
<1> SUFFICES ASSUME HTTPInit PROVE SpanInv
    OBVIOUS
<1>1. OrderInv
    BY InitOrderInv
<1>2. /\ sent = <<>> /\ rd = 0 /\ hr = "read" /\ reqPc = "idle" /\ respPc = "idle"
      /\ arrived = [t \in Conns |-> <<>>] /\ served = [t \in Conns |-> 0]
      /\ wire = [t \in Conns |-> <<>>] /\ target = [t \in Conns |-> "none"]
      /\ dialled = 0 /\ cur = 0 /\ w = nil /\ hs = "read" /\ lost = FALSE
      /\ httpRequests = <<>> /\ httpResponses = <<>> /\ spans = <<>>
      /\ finished = <<>> /\ got = <<>> /\ raw = {}
    BY DEF HTTPInit, Init, nil
<1>3. ~Foreign(rd) /\ Len(sent) = 0 /\ Len(finished) = 0 /\ Len(got) = 0
      /\ Len(httpRequests) = 0 /\ Len(spans) = 0
      /\ \A t \in Conns : Len(arrived[t]) = 0 /\ Len(wire[t]) = 0 /\ served[t] = 0
    BY <1>2 DEF Foreign
<1>4. Pushed = 0 /\ Spanned = 0 /\ Popped = 0 /\ Taken = 0
    BY <1>2, <1>3 DEF Pushed, Spanned, Popped, Taken, Bit
<1>5. Sending
    BY <1>2, <1>3 DEF Sending
<1>6. Dialling
    BY <1>2 DEF Dialling, Ended, nil
<1>7. Queues
  <2>1. Len(httpRequests) = Pushed - Popped /\ Len(spans) = Spanned - Len(finished)
      BY <1>3, <1>4
  <2>2. httpResponses = IF hs = "stop" THEN <<rs>> ELSE <<>>
      BY <1>2
  <2>3. 1..0 = {}
      OBVIOUS
  <2>4. 1..Len(httpRequests) = {} /\ 1..Len(spans) = {} /\ 1..Len(finished) = {}
      BY <1>3, <2>3
  <2> QED BY <2>1, <2>2, <2>4, Zenon DEF Queues
<1>8. InProgress
    BY <1>2, <1>4 DEF InProgress
<1>9. Incoming
    BY <1>2, <1>3 DEF Incoming
<1>10. Turn /\ Received
    BY <1>2, <1>3 DEF Turn, Received
<1> QED BY <1>1, <1>5, <1>6, <1>7, <1>8, <1>9, <1>10 DEF SpanInv, Aligned

(* Every step keeps SpanInv.                                               *)
LEMMA NextSpanInv == SpanInv /\ [HTTPNext]_svars => SpanInv'
<1> SUFFICES ASSUME SpanInv, [HTTPNext]_svars PROVE SpanInv'
    OBVIOUS
<1>1. OrderInv /\ Sending /\ Dialling
    BY DEF SpanInv
<1>2. OrderInv'
    BY <1>1, NextOrderInv
<1>3. Sending' /\ Dialling'
    BY <1>1, NextSending, NextDialling
<1>4. ASSUME Regular' PROVE Aligned'
  <2>1. Regular /\ Aligned
      BY <1>1, <1>4, RegularBefore DEF SpanInv
  <2>2. CASE UNCHANGED svars
    <3>1. UNCHANGED <<tvars, sent, got, wire, served, arrived, handleRequest,
                      handleResponse, netRequest>>
        BY <2>2 DEF svars, hvars, client, server
    <3> QED BY <1>1, <2>1, <3>1, OthersAligned
  <2> QED BY <1>1, <1>4, <2>1, <2>2, PeersAligned, RequestAligned, BrokerAligned,
         ResponseAligned DEF HTTPNext, HTTPFinished
<1> QED BY <1>2, <1>3, <1>4 DEF SpanInv

(* Every span of a regular session is finished with the request it was     *)
(* started for and with the response to that request, and every answered   *)
(* request has its span finished: the queues that two goroutines share     *)
(* without a key stay aligned, with or without routing and pipelining.     *)
THEOREM SpansArePaired == HTTPSpec => []SpanPairing
<1>1. SpanInv => SpanPairing
  <2> SUFFICES ASSUME SpanInv, Regular
               PROVE  /\ \A k \in 1..Len(finished) :
                            /\ finished[k].resp.req = finished[k].req
                            /\ finished[k].span.for = finished[k].req
                      /\ SessionOver => \A k \in 1..Len(got) :
                            got[k].code = "final" /\ ~Foreign(got[k].req) =>
                               \E j \in 1..Len(finished) : finished[j].req = got[k].req
      BY DEF SpanPairing
  <2>1. Aligned /\ Len(finished) \in Nat
      BY AlignedTypes DEF SpanInv
  <2>2. \A k \in 1..Len(finished) :
           finished[k].req = k /\ finished[k].resp.req = k /\ finished[k].span.for = k
      BY <2>1 DEF Aligned, Queues
  <2>3. ASSUME SessionOver, NEW k \in 1..Len(got), got[k].code = "final", ~Foreign(got[k].req)
        PROVE  got[k].req \in 1..Len(finished)
    <3>1. hs = "read"
        BY <2>1, <2>3 DEF SessionOver, Aligned, InProgress
    <3>2. Shown = Len(finished)
        BY <2>1, <3>1 DEF Shown, Bit
    <3> QED BY <2>1, <2>3, <3>2 DEF Aligned, Received
  <2> QED BY <2>2, <2>3
<1> QED BY <1>1, InitSpanInv, NextSpanInv, PTL DEF HTTPSpec

(* No answer of a regular session is cut short or mixed with another one,  *)
(* but for one to a request that went to the fallback: since the queues    *)
(* are aligned, the upstream is closed under the answer to a HEAD request  *)
(* and under no other.                                                     *)
THEOREM AnswersAreWhole == HTTPSpec => []AnswersWhole
<1>1. SpanInv => AnswersWhole
    BY DEF SpanInv, Aligned, Received, AnswersWhole
<1> QED BY <1>1, InitSpanInv, NextSpanInv, PTL DEF HTTPSpec
=============================================================================
