-------------------------- MODULE HTTPSessionProofs --------------------------
(***************************************************************************)
(* HTTPSession implements Transport: whatever the handlers of http.go do   *)
(* is a step Transport allows them, so the theorems of TransportProofs     *)
(* hold of every HTTP session, for any number of requests and any kinds.   *)
(* The second part proves that the answers reach the client in order.      *)
(***************************************************************************)
EXTENDS HTTPSession, TransportProofs

(* Every step of HandleRequest, of HandleResponse and of the peers is a    *)
(* step of the session or leaves the session's own variables alone.        *)
LEMMA HTTPStep == HTTPNext => Next \/ UNCHANGED tvars
<1> SUFFICES ASSUME HTTPNext PROVE Next \/ UNCHANGED tvars
    OBVIOUS
<1>1. CASE HTTPBroker
    BY <1>1 DEF HTTPBroker, Next
<1>2. CASE HTTPRequest
  <2>1. CASE ReadRequest \/ ReadBadRequest
      BY <2>1 DEF ReadRequest, ReadBadRequest, Next, Request
  <2>2. CASE ReadEnds \/ FallbackEnds
      BY <2>2 DEF ReadEnds, FallbackEnds, Next, Request
  <2>3. CASE \/ SetRemoteAddr \/ SetHTTPRequest \/ PeekRequest \/ PushSpan
             \/ WriteRequest \/ WriteBody \/ Fallback
      BY <2>3 DEF SetRemoteAddr, SetHTTPRequest, PeekRequest, PushSpan,
         WriteRequest, WriteBody, Fallback
  <2>4. CASE (CloseAddr \/ CloseRequest) /\ UNCHANGED hvars
      BY <2>4 DEF Next, Request
  <2> QED BY <1>2, <2>1, <2>2, <2>3, <2>4 DEF HTTPRequest
<1>3. CASE HTTPResponse
  <2>1. CASE ResponseEnds \/ DeliverHead \/ AfterResponse
      BY <2>1 DEF ResponseEnds, DeliverHead, AfterResponse, Next, Response
  <2>2. CASE \/ ReadResponse \/ CopyRaw \/ Deliver \/ SwallowResponse
             \/ BodyFails \/ SetHTTPResponse \/ StopRequest \/ FinishSpan
      BY <2>2 DEF ReadResponse, CopyRaw, Deliver, SwallowResponse, BodyFails,
         SetHTTPResponse, StopRequest, FinishSpan
  <2>3. CASE (RecvCall \/ RangeEnds \/ CloseResponse) /\ UNCHANGED hvars
      BY <2>3 DEF Next, Response
  <2> QED BY <1>3, <2>1, <2>2, <2>3 DEF HTTPResponse
<1>4. CASE HTTPPeers
    BY <1>4 DEF HTTPPeers, ClientSends, ClientSendsBody, ClientCloses,
       ServerContinues, ServerAnswers, ServerCloses
<1>5. CASE HTTPFinished
    BY <1>5 DEF HTTPFinished, svars
<1> QED BY <1>1, <1>2, <1>3, <1>4, <1>5 DEF HTTPNext

-----------------------------------------------------------------------------
(* An HTTP session is a session of transport/handler.go: the detailed      *)
(* specification implements the abstract one.                              *)
THEOREM HTTPImplementsTransport == HTTPSpec => Spec
<1>1. HTTPInit => Init
    BY DEF HTTPInit
<1>2. [HTTPNext]_svars => [Next]_tvars
    BY HTTPStep DEF svars
<1> QED BY <1>1, <1>2, PTL DEF HTTPSpec, Spec

(* No HTTP session leaves a connection or descriptor open when its         *)
(* goroutines have ended, whatever client and servers send.                *)
THEOREM HTTPReleased == HTTPSpec => []Released
BY HTTPImplementsTransport, EverythingReleased, PTL

(* The responses of an HTTP session are read from one upstream after the   *)
(* other, in the order of the requests.                                    *)
THEOREM HTTPServedInOrder == HTTPSpec => ServedInOrder
BY HTTPImplementsTransport, ResponsesServedInOrder, PTL

-----------------------------------------------------------------------------
(* The number of requests HandleRequest has passed on: the one in hand is  *)
(* not among them while it waits to be written.                            *)
Written ==
    IF hr \in {"addr", "set", "start", "span", "write", "fallback"}
    THEN rd - 1 ELSE rd

(* How far each party has come, and which registers are set.               *)
Counts ==
    /\ Len(sent) <= MaxReqs /\ rd <= Len(sent)
    /\ hr # "read" => rd # 0
    /\ hr = "span" => peeked # nil
    /\ hs = "finish" => stopped.req # nil
    /\ \A t \in Conns :
          served[t] <= Len(arrived[t]) /\ Len(arrived[t]) <= Written

HTTPInv == IInv /\ HTTPTypeOK /\ Counts

(* Peek and Pop return an element of the queue or nothing.                 *)
LEMMA QueueTypes ==
    ASSUME NEW S, NEW q \in Seq(S), NEW nothing
    PROVE  /\ Front(q, nothing) \in S \union {nothing}
           /\ q # <<>> => Front(q, nothing) \in S /\ Head(q) \in S
           /\ Rest(q) \in Seq(S)
BY HeadTailProperties DEF Front, Rest

(* What the client has received stays a sequence of responses.             *)
LEMMA ReceiveType ==
    ASSUME got \in Seq(Responses), NEW s \in Seq(Responses)
    PROVE  Receive(s) \in Seq(Responses)
BY ConcatProperties DEF Receive

(* A garbled response is still a response to its request, and an answer if *)
(* it was one.                                                             *)
LEMMA GarbledType ==
    ASSUME NEW r \in Responses
    PROVE  /\ Garbled(r) \in Responses /\ Garbled(r).req = r.req
           /\ IsAnswer(Garbled(r)) <=> IsAnswer(r)
BY DEF Garbled, Responses, IsAnswer

(* The session starts in HTTPInv.                                          *)
LEMMA InitHTTPInv == HTTPInit => HTTPInv
<1> SUFFICES ASSUME HTTPInit PROVE HTTPInv
    OBVIOUS
<1> USE MaxConnsAssumption, MaxReqsAssumption
<1>1. IInv
    BY InitIInv DEF HTTPInit
<1>2. NoResponse \in Responses /\ MaxReqs \in Nat
    BY DEF NoResponse, Responses, nil
<1>3. HTTPTypeOK
  <2>1. TypeOK
      BY <1>1 DEF IInv
  <2>2. arrived \in [Conns -> Seq(Reqs)] /\ wire \in [Conns -> Seq(Responses)]
        /\ served \in [Conns -> 0..MaxReqs] /\ srvFin \in [Conns -> BOOLEAN]
      BY <1>2, EmptySeq DEF HTTPInit
  <2>3. stopped \in [req : 0..MaxReqs, resp : Responses]
      BY <1>2 DEF HTTPInit, nil
  <2>4. bodySent \in BOOLEAN /\ cliFin \in BOOLEAN /\ lost \in BOOLEAN
      BY DEF HTTPInit
  <2>5. /\ sent \in Seq(Kinds) /\ got \in Seq(Responses) /\ held \in Seq(Responses)
        /\ httpRequests \in Seq(Reqs) /\ httpResponses \in Seq(Responses)
        /\ spans \in Seq([for : Reqs, from : Reqs])
        /\ finished \in Seq([req : Reqs, resp : Responses,
                             span : [for : Reqs, from : Reqs],
                             remote : 0..MaxConns, timeout : BOOLEAN])
      BY EmptySeq DEF HTTPInit
  <2>6. cont \subseteq Reqs /\ raw \subseteq Reqs /\ rd \in 0..MaxReqs /\ peeked \in 0..MaxReqs
        /\ remoteAddr \in 0..MaxConns /\ rs \in Responses
      BY <1>2 DEF HTTPInit, nil
  <2> QED BY <2>1, <2>2, <2>3, <2>4, <2>5, <2>6 DEF HTTPInit, HTTPTypeOK
<1>4. Counts
  <2>1. Len(sent) = 0 /\ rd = 0 /\ hr = "read" /\ hs = "read"
      BY EmptySeq DEF HTTPInit
  <2>2. \A t \in Conns : served[t] = 0 /\ Len(arrived[t]) = 0
      BY EmptySeq DEF HTTPInit
  <2> QED BY <1>2, <2>1, <2>2 DEF Counts, Written
<1> QED BY <1>1, <1>3, <1>4 DEF HTTPInv

(* Nothing HTTPInv speaks of, apart from the session, has changed.         *)
LEMMA StutterHTTP ==
    HTTPTypeOK /\ Counts /\ TypeOK' /\ UNCHANGED hvars => HTTPTypeOK' /\ Counts'
<1> SUFFICES ASSUME HTTPTypeOK, Counts, TypeOK', UNCHANGED hvars
             PROVE  HTTPTypeOK' /\ Counts'
    OBVIOUS
<1> USE DEF hvars, client, server, handleRequest, handleResponse, netRequest
<1>1. HTTPTypeOK'
    BY DEF HTTPTypeOK
<1>2. Counts'
    BY DEF Counts, Written
<1> QED BY <1>1, <1>2

(* What the client and the servers do keeps HTTPInv.                       *)
LEMMA PeersHTTPInv ==
    ASSUME HTTPInv, TypeOK', HTTPPeers PROVE HTTPTypeOK' /\ Counts'
<1>a. MaxReqs \in Nat
    BY MaxConnsAssumption, MaxReqsAssumption
<1>b. Len(sent) \in Nat /\ \A t \in Conns : Len(arrived[t]) \in Nat
    BY LenProperties DEF HTTPInv, HTTPTypeOK
<1> USE DEF HTTPInv, client, server, handleRequest, handleResponse, netRequest
<1>1. CASE ClientSends
  <2>1. PICK k \in Load[routing].kinds :
          sent' = Append(sent, k) /\ bodySent' = (k # "expect")
      BY <1>1 DEF ClientSends
  <2>2. /\ k \in Kinds /\ Load[routing].max \in 1..MaxReqs
      BY LoadAssumption DEF IInv, TypeOK
  <2>3. sent' \in Seq(Kinds) /\ Len(sent') = Len(sent) + 1
      BY <2>1, <2>2, AppendProperties DEF HTTPTypeOK
  <2>4. bodySent' \in BOOLEAN
      BY <2>1
  <2>5. HTTPTypeOK'
      BY <1>1, <2>3, <2>4 DEF HTTPTypeOK, ClientSends
  <2>6. Counts'
      BY <1>1, <1>a, <1>b, <2>2, <2>3 DEF HTTPTypeOK, Counts, Written, ClientSends
  <2> QED BY <2>5, <2>6
<1>2. CASE ClientSendsBody \/ ClientCloses
    BY <1>2, ZenonT(40) DEF HTTPTypeOK, Counts, Written, ClientSendsBody, ClientCloses
<1>3. ASSUME NEW t \in Conns, served[t] < Len(arrived[t])
      PROVE  Unanswered(t) \in Reqs
  <2>1. arrived[t] \in Seq(Reqs) /\ served[t] + 1 \in 1..Len(arrived[t])
      BY <1>3, <1>a, <1>b DEF HTTPTypeOK
  <2> QED BY <2>1, ElementOfSeq DEF Unanswered
<1>4. ASSUME NEW t \in Conns, ServerContinues(t)
      PROVE  HTTPTypeOK' /\ Counts'
  <2> DEFINE r == [req |-> Unanswered(t), code |-> "continue"]
  <2>1. r \in Responses /\ Unanswered(t) \in Reqs
      BY <1>3, <1>4, <1>a DEF ServerContinues, Responses, Reqs
  <2>2. Append(wire[t], r) \in Seq(Responses)
      BY <2>1, AppendProperties DEF HTTPTypeOK
  <2> HIDE DEF r
  <2>3. wire' = [wire EXCEPT ![t] = Append(@, r)]
      BY <1>4 DEF ServerContinues, r
  <2>4. HTTPTypeOK'
      BY <1>4, <2>1, <2>2, <2>3 DEF HTTPTypeOK, ServerContinues
  <2>5. Counts'
      BY <1>4 DEF Counts, Written, ServerContinues
  <2> QED BY <2>4, <2>5
<1>5. ASSUME NEW t \in Conns, ServerAnswers(t)
      PROVE  HTTPTypeOK' /\ Counts'
  <2>0. PICK c \in {"final", "raw"} :
          /\ wire' = [wire EXCEPT ![t] = Append(@, [req |-> Unanswered(t), code |-> c])]
          /\ raw' = IF c = "raw" THEN raw \union {Unanswered(t)} ELSE raw
      BY <1>5 DEF ServerAnswers
  <2> DEFINE r == [req |-> Unanswered(t), code |-> c]
  <2>1. r \in Responses /\ Unanswered(t) \in Reqs /\ raw' \subseteq Reqs
    <3>1. Unanswered(t) \in Reqs
        BY <1>3, <1>5 DEF ServerAnswers
    <3>2. r \in Responses
        BY <1>a, <3>1 DEF Responses, Reqs
    <3>3. raw' \subseteq Reqs
        BY <2>0, <3>1 DEF HTTPTypeOK
    <3> QED BY <3>1, <3>2, <3>3
  <2>2. Append(wire[t], r) \in Seq(Responses)
      BY <2>1, AppendProperties DEF HTTPTypeOK
  <2> HIDE DEF r
  <2>3. wire' = [wire EXCEPT ![t] = Append(@, r)]
      BY <2>0 DEF r
  <2>4. served[t] + 1 \in 0..MaxReqs
      BY <1>5, <1>a, <1>b, SMTT(30) DEF ServerAnswers, HTTPTypeOK, Counts, Written
  <2>5. HTTPTypeOK'
      BY <1>5, <2>1, <2>2, <2>3, <2>4 DEF HTTPTypeOK, ServerAnswers
  <2>6. Counts'
      BY <1>5, <1>a, <1>b, <2>4 DEF HTTPTypeOK, Counts, Written, ServerAnswers
  <2> QED BY <2>5, <2>6
<1>6. ASSUME NEW t \in Conns, ServerCloses(t)
      PROVE  HTTPTypeOK' /\ Counts'
    BY <1>6 DEF HTTPTypeOK, Counts, Written, ServerCloses
<1> QED BY <1>1, <1>2, <1>4, <1>5, <1>6 DEF HTTPPeers

(* What HandleRequest does keeps HTTPInv.                                  *)
LEMMA RequestHTTPInv ==
    ASSUME HTTPInv, TypeOK', HTTPRequest PROVE HTTPTypeOK' /\ Counts'
<1>a. MaxReqs \in Nat
    BY MaxConnsAssumption, MaxReqsAssumption
<1>b. Len(sent) \in Nat /\ \A t \in Conns : Len(arrived[t]) \in Nat
    BY LenProperties DEF HTTPInv, HTTPTypeOK
<1> USE DEF HTTPInv, client, server, handleRequest, handleResponse, netRequest
<1>1. CASE ReadRequest
  <2>1. HTTPTypeOK'
      BY <1>1, <1>a, <1>b DEF HTTPTypeOK, Counts, ReadRequest
  <2>2. Counts'
      BY <1>1, <1>a, <1>b DEF HTTPTypeOK, Counts, Written, ReadRequest
  <2> QED BY <2>1, <2>2
<1>2. CASE ReadBadRequest
  <2>1. HTTPTypeOK'
      BY <1>2, <1>a, <1>b DEF HTTPTypeOK, Counts, ReadBadRequest
  <2>2. Counts'
      BY <1>2, <1>a, <1>b DEF HTTPTypeOK, Counts, Written, ReadBadRequest
  <2> QED BY <2>1, <2>2
<1>3. CASE ReadEnds \/ FallbackEnds \/ ((CloseAddr \/ CloseRequest) /\ UNCHANGED hvars)
    BY <1>3, StutterHTTP DEF ReadEnds, FallbackEnds
<1>4. CASE SetRemoteAddr
  <2>1. remoteAddr' \in 0..MaxConns
      BY <1>4 DEF IInv, TypeOK, SetRemoteAddr
  <2>2. HTTPTypeOK'
      BY <1>4, <2>1 DEF HTTPTypeOK, SetRemoteAddr
  <2>3. Counts'
      BY <1>4 DEF Counts, Written, SetRemoteAddr
  <2> QED BY <2>2, <2>3
<1>5. CASE SetHTTPRequest
  <2>1. rd \in Reqs
      BY <1>5, <1>a DEF HTTPTypeOK, Counts, SetHTTPRequest, Reqs
  <2>2. httpRequests' \in Seq(Reqs)
      BY <1>5, <2>1, AppendProperties DEF HTTPTypeOK, SetHTTPRequest
  <2>3. HTTPTypeOK'
      BY <1>5, <2>2 DEF HTTPTypeOK, SetHTTPRequest
  <2>4. Counts'
      BY <1>5 DEF Counts, Written, SetHTTPRequest
  <2> QED BY <2>3, <2>4
<1>6. CASE PeekRequest
  <2>1. peeked' \in 0..MaxReqs
    <3>1. Front(httpRequests, nil) \in Reqs \union {nil}
        BY QueueTypes DEF HTTPTypeOK
    <3> QED BY <1>6, <1>a, <3>1 DEF PeekRequest, Reqs, nil
  <2>2. HTTPTypeOK'
      BY <1>6, <2>1 DEF HTTPTypeOK, PeekRequest
  <2>3. Counts'
      BY <1>6 DEF Counts, Written, PeekRequest
  <2> QED BY <2>2, <2>3
<1>7. CASE PushSpan
  <2>1. [for |-> rd, from |-> peeked] \in [for : Reqs, from : Reqs]
      BY <1>7, <1>a DEF HTTPTypeOK, Counts, PushSpan, Reqs, nil
  <2>2. spans' \in Seq([for : Reqs, from : Reqs])
      BY <1>7, <2>1, AppendProperties DEF HTTPTypeOK, PushSpan
  <2>3. HTTPTypeOK'
      BY <1>7, <1>a, <2>2 DEF HTTPTypeOK, PushSpan, nil
  <2>4. Counts'
      BY <1>7 DEF Counts, Written, PushSpan
  <2> QED BY <2>3, <2>4
<1>8. CASE WriteRequest \/ Fallback
  <2>1. Arrive /\ rd \in Reqs
      BY <1>8, <1>a DEF HTTPTypeOK, Counts, WriteRequest, Fallback, Reqs
  <2>2. /\ arrived' \in [Conns -> Seq(Reqs)]
        /\ \A t \in Conns : Len(arrived'[t]) \in {Len(arrived[t]), Len(arrived[t]) + 1}
    <3>1. CASE arrived' = arrived
        BY <3>1 DEF HTTPTypeOK
    <3>2. CASE arrived' = [arrived EXCEPT ![w] = Append(@, rd)]
      <4>1. \A t \in Conns : /\ Append(arrived[t], rd) \in Seq(Reqs)
                              /\ Len(Append(arrived[t], rd)) = Len(arrived[t]) + 1
          BY <2>1, AppendProperties DEF HTTPTypeOK
      <4> QED BY <3>2, <4>1 DEF HTTPTypeOK
    <3> QED BY <2>1, <3>1, <3>2 DEF Arrive
  <2>3. HTTPTypeOK'
      BY <1>8, <2>2 DEF HTTPTypeOK, WriteRequest, Fallback
  <2>4. Written = rd - 1 /\ Written' = rd /\ hr' # "span"
      BY <1>8 DEF WriteRequest, Fallback, Written
  <2>5. Counts'
    <3>1. \A t \in Conns : served'[t] <= Len(arrived'[t]) /\ Len(arrived'[t]) <= Written'
        BY <1>8, <1>a, <1>b, <2>2, <2>4 DEF HTTPTypeOK, Counts, WriteRequest, Fallback
    <3> QED BY <1>8, <2>4, <3>1 DEF Counts, WriteRequest, Fallback
  <2> QED BY <2>3, <2>5
<1>9. CASE WriteBody
  <2>1. HTTPTypeOK'
      BY <1>9 DEF HTTPTypeOK, WriteBody
  <2>2. Counts'
      BY <1>9 DEF Counts, Written, WriteBody
  <2> QED BY <2>1, <2>2
<1> QED BY <1>1, <1>2, <1>3, <1>4, <1>5, <1>6, <1>7, <1>8, <1>9 DEF HTTPRequest

(* What HandleResponse does keeps HTTPInv.                                 *)
LEMMA ResponseHTTPInv ==
    ASSUME HTTPInv, TypeOK', HTTPResponse PROVE HTTPTypeOK' /\ Counts'
<1>a. NoResponse \in Responses /\ nil \in 0..MaxReqs /\ MaxReqs \in Nat
    BY MaxConnsAssumption, MaxReqsAssumption DEF NoResponse, Responses, nil
<1>b. ASSUME NEW r \in Responses PROVE <<r>> \in Seq(Responses)
    BY <1>b
<1>c. ASSUME respPc = "handle", wire[cur] # <<>>
      PROVE  /\ cur \in Conns /\ Head(wire[cur]) \in Responses
             /\ [wire EXCEPT ![cur] = Tail(@)] \in [Conns -> Seq(Responses)]
  <2>1. cur \in Conns
      BY <1>c, MaxConnsAssumption DEF HTTPInv, IInv, TypeOK, Order, nil, Conns
  <2> QED BY <1>c, <2>1, HeadTailProperties DEF HTTPInv, HTTPTypeOK
<1> USE DEF HTTPInv, client, server, handleRequest, handleResponse, netRequest
<1>1. CASE ReadResponse
  <2>1. rs' \in Responses /\ wire' \in [Conns -> Seq(Responses)]
      BY <1>1, <1>c DEF ReadResponse
  <2>2. HTTPTypeOK'
      BY <1>1, <2>1 DEF HTTPTypeOK, ReadResponse
  <2>3. Counts'
      BY <1>1 DEF Counts, Written, ReadResponse
  <2> QED BY <2>2, <2>3
<1>2. CASE CopyRaw
  <2>0. /\ got \in Seq(Responses) /\ Receive(<<Head(wire[cur])>>) \in Seq(Responses)
        /\ Receive(<<Garbled(Head(wire[cur]))>>) \in Seq(Responses)
    <3>1. Head(wire[cur]) \in Responses /\ Garbled(Head(wire[cur])) \in Responses
        BY <1>2, <1>c, GarbledType DEF CopyRaw
    <3> QED BY <1>b, <3>1, ReceiveType DEF HTTPTypeOK
  <2>1. got' \in Seq(Responses) /\ wire' \in [Conns -> Seq(Responses)]
      BY <1>2, <1>c, <2>0 DEF CopyRaw
  <2>2. HTTPTypeOK'
      BY <1>2, <2>1 DEF HTTPTypeOK, CopyRaw
  <2>3. Counts'
      BY <1>2 DEF Counts, Written, CopyRaw
  <2> QED BY <2>2, <2>3
<1>3. CASE ResponseEnds
    BY <1>3 DEF HTTPTypeOK, Counts, Written, ResponseEnds
<1>4. CASE DeliverHead
  <2>0. Receive(<<rs>>) \in Seq(Responses) /\ Receive(<<Garbled(rs)>>) \in Seq(Responses)
    <3>1. rs \in Responses /\ Garbled(rs) \in Responses
        BY GarbledType DEF HTTPTypeOK
    <3> QED BY <1>b, <3>1, ReceiveType DEF HTTPTypeOK
  <2>1. got' \in Seq(Responses)
      BY <1>4, <2>0 DEF DeliverHead
  <2>2. HTTPTypeOK'
      BY <1>4, <2>1 DEF HTTPTypeOK, DeliverHead
  <2>3. Counts'
      BY <1>4 DEF Counts, Written, DeliverHead
  <2> QED BY <2>2, <2>3
<1>5. CASE Deliver
  <2>1. got' \in Seq(Responses) /\ held' \in Seq(Responses)
      BY <1>5, <1>b, ReceiveType DEF Deliver, HTTPTypeOK
  <2>2. HTTPTypeOK'
      BY <1>5, <2>1 DEF HTTPTypeOK, Deliver
  <2>3. Counts'
      BY <1>5 DEF Counts, Written, Deliver
  <2> QED BY <2>2, <2>3
<1>6. CASE SwallowResponse
  <2> DEFINE s == Append(held, Head(wire[cur]))
             g == Append(held, Garbled(Head(wire[cur])))
  <2>1. s \in Seq(Responses) /\ g \in Seq(Responses)
      BY <1>6, <1>c, GarbledType, AppendProperties DEF SwallowResponse, HTTPTypeOK
  <2>2. /\ Receive(s) \in Seq(Responses) /\ Receive(g) \in Seq(Responses)
        /\ <<>> \in Seq(Responses)
      BY <2>1, ReceiveType, EmptySeq DEF HTTPTypeOK
  <2>3. /\ wire' \in [Conns -> Seq(Responses)] /\ lost' \in BOOLEAN
        /\ hs' \in {"body", "respond"}
      BY <1>6, <1>c DEF SwallowResponse, HTTPTypeOK
  <2>4. got' \in Seq(Responses) /\ held' \in Seq(Responses)
      BY <1>6, <2>1, <2>2 DEF SwallowResponse, HTTPTypeOK
  <2>5. HTTPTypeOK'
      BY <1>6, <2>3, <2>4 DEF HTTPTypeOK, SwallowResponse
  <2>6. Counts'
      BY <1>6, <2>3 DEF Counts, Written, SwallowResponse
  <2> QED BY <2>5, <2>6
<1>7. CASE BodyFails
  <2>1. got' \in Seq(Responses) /\ held' \in Seq(Responses)
      BY <1>7, ReceiveType, EmptySeq DEF BodyFails, HTTPTypeOK
  <2>2. HTTPTypeOK'
      BY <1>7, <2>1 DEF HTTPTypeOK, BodyFails
  <2>3. Counts'
      BY <1>7 DEF Counts, Written, BodyFails
  <2> QED BY <2>2, <2>3
<1>8. CASE SetHTTPResponse
  <2>1. httpResponses' \in Seq(Responses)
      BY <1>8, AppendProperties DEF SetHTTPResponse, HTTPTypeOK
  <2>2. HTTPTypeOK'
      BY <1>8, <2>1 DEF HTTPTypeOK, SetHTTPResponse
  <2>3. Counts'
      BY <1>8 DEF Counts, Written, SetHTTPResponse
  <2> QED BY <2>2, <2>3
<1>9. CASE StopRequest
  <2>1. Front(httpRequests, nil) \in 0..MaxReqs
    <3>1. Front(httpRequests, nil) \in Reqs \union {nil}
        BY QueueTypes DEF HTTPTypeOK
    <3> QED BY <1>a, <3>1 DEF Reqs, nil
  <2>2. Front(httpResponses, NoResponse) \in Responses
      BY <1>a, QueueTypes DEF HTTPTypeOK
  <2>3. httpRequests' \in Seq(Reqs) /\ httpResponses' \in Seq(Responses)
      BY <1>9, QueueTypes DEF HTTPTypeOK, StopRequest
  <2>4. /\ stopped' \in [req : 0..MaxReqs, resp : Responses]
        /\ hs' = "finish" => stopped'.req # nil
      BY <1>9, <2>1, <2>2 DEF StopRequest
  <2>5. HTTPTypeOK'
      BY <1>9, <2>3, <2>4 DEF HTTPTypeOK, StopRequest
  <2>6. Counts'
      BY <1>9, <2>4 DEF Counts, Written, StopRequest
  <2> QED BY <2>5, <2>6
<1>10. CASE FinishSpan
  <2> DEFINE Span == [for : Reqs, from : Reqs]
  <2> DEFINE f == [req |-> stopped.req, resp |-> stopped.resp,
                   span |-> Head(spans), remote |-> remoteAddr,
                   timeout |-> stopped.resp = NoResponse]
  <2>1. spans' \in Seq(Span) /\ (spans # <<>> => Head(spans) \in Span)
      BY <1>10, QueueTypes DEF FinishSpan, HTTPTypeOK
  <2>2. stopped.req \in Reqs /\ stopped.resp \in Responses
      BY <1>10, <1>a DEF FinishSpan, HTTPTypeOK, Counts, Reqs, nil
  <2>3. finished' \in Seq([req : Reqs, resp : Responses, span : Span,
                           remote : 0..MaxConns, timeout : BOOLEAN])
    <3>1. CASE spans = <<>>
        BY <1>10, <3>1 DEF FinishSpan, HTTPTypeOK
    <3>2. CASE spans # <<>>
      <4>1. f \in [req : Reqs, resp : Responses, span : Span,
                   remote : 0..MaxConns, timeout : BOOLEAN]
          BY <2>1, <2>2, <3>2 DEF HTTPTypeOK
      <4>2. finished' = Append(finished, f)
          BY <1>10, <3>2 DEF FinishSpan
      <4> HIDE DEF f
      <4> QED BY <4>1, <4>2, AppendProperties DEF HTTPTypeOK
    <3> QED BY <3>1, <3>2
  <2>4. HTTPTypeOK'
      BY <1>10, <2>1, <2>3 DEF HTTPTypeOK, FinishSpan
  <2>5. Counts'
      BY <1>10 DEF Counts, Written, FinishSpan
  <2> QED BY <2>4, <2>5
<1>11. CASE AfterResponse
  <2>1. rs' \in Responses /\ stopped' \in [req : 0..MaxReqs, resp : Responses]
      BY <1>11, <1>a DEF AfterResponse
  <2>2. HTTPTypeOK'
      BY <1>11, <2>1 DEF HTTPTypeOK, AfterResponse
  <2>3. Counts'
      BY <1>11 DEF Counts, Written, AfterResponse
  <2> QED BY <2>2, <2>3
<1>12. CASE (RecvCall \/ RangeEnds \/ CloseResponse) /\ UNCHANGED hvars
    BY <1>12, StutterHTTP
<1> QED BY <1>1, <1>2, <1>3, <1>4, <1>5, <1>6, <1>7, <1>8, <1>9, <1>10, <1>11,
           <1>12 DEF HTTPResponse

(* HTTPInv is an inductive invariant of the session.                       *)
LEMMA NextHTTPInv == HTTPInv /\ [HTTPNext]_svars => HTTPInv'
<1> SUFFICES ASSUME HTTPInv, [HTTPNext]_svars PROVE HTTPInv'
    OBVIOUS
<1>1. IInv' /\ TypeOK'
    BY HTTPStep, NextIInv DEF HTTPInv, IInv, svars
<1>2. CASE HTTPPeers \/ HTTPRequest \/ HTTPResponse
    BY <1>1, <1>2, PeersHTTPInv, RequestHTTPInv, ResponseHTTPInv DEF HTTPInv
<1>3. CASE HTTPBroker \/ HTTPFinished \/ UNCHANGED svars
    BY <1>1, <1>3, StutterHTTP DEF HTTPInv, HTTPBroker, HTTPFinished, svars
<1> QED BY <1>2, <1>3 DEF HTTPNext

(* HTTPInv holds throughout.                                               *)
LEMMA HTTPInvariance == HTTPSpec => []HTTPInv
BY InitHTTPInv, NextHTTPInv, PTL DEF HTTPSpec

(* HandleRequest, HandleResponse and the queues they share never leave     *)
(* their types: no handler uses an upstream, a request or a span it does   *)
(* not have, however client and servers interleave.                        *)
THEOREM HTTPTypes == HTTPSpec => []HTTPTypeOK
<1>1. HTTPInv => HTTPTypeOK
    BY DEF HTTPInv
<1> QED BY <1>1, HTTPInvariance, PTL

-----------------------------------------------------------------------------
(***************************************************************************)
(* The answers of an HTTP session reach the client in the order of its     *)
(* requests, for any number of requests and upstreams: AnswersInOrder.     *)
(*                                                                         *)
(* The argument follows an answer from its request to the client.  The     *)
(* k-th request written to upstream t is request t - 1 + k (Asking,        *)
(* Arrivals), so the answers on the way from upstream t are consecutive    *)
(* and start at t (Wires).  What the client has, what HandleResponse       *)
(* holds and what is still to be read from the upstream in turn form one   *)
(* gapless sequence, the Pipe; a handler moves answers along the Pipe,     *)
(* where one may be garbled (Alike) and a raw one be lost (SegDrop), and   *)
(* leaves an upstream only when the client has the answer of its request   *)
(* or the upstream closed (Reading).                                       *)
(***************************************************************************)

(* The answers in s are those to the requests after lo up to hi, in order; *)
(* only answers to requests in skip are missing.                           *)
Seg(s, lo, hi, skip) ==
    /\ \A k \in 1..Len(s) : IsAnswer(s[k]) => lo < s[k].req /\ s[k].req <= hi
    /\ \A k \in 1..Len(s) : \A j \in 1..(k - 1) :
          IsAnswer(s[j]) /\ IsAnswer(s[k]) => s[j].req < s[k].req
    /\ \A i \in (lo + 1)..hi :
          i \in skip \/ \E k \in 1..Len(s) : IsAnswer(s[k]) /\ s[k].req = i

(* s has an answer to request n or to a later one.                         *)
Reaches(s, n) == \E k \in 1..Len(s) : IsAnswer(s[k]) /\ s[k].req >= n

-----------------------------------------------------------------------------
(* A response names a request.                                             *)
LEMMA ReqNat ==
    ASSUME NEW s \in Seq(Responses), NEW k \in 1..Len(s)
    PROVE  s[k] \in Responses /\ s[k].req \in Nat
<1>1. s[k] \in Responses
    BY ElementOfSeq
<1>2. \A r \in Responses : r.req \in Nat
    BY MaxReqsAssumption, MaxConnsAssumption DEF Responses
<1> QED BY <1>1, <1>2

(* No answers, no requests.                                                *)
LEMMA SegEmpty ==
    ASSUME NEW lo \in Nat, NEW skip PROVE Seg(<<>>, lo, lo, skip)
BY EmptySeq DEF Seg

(* One more response: the answer to the next request, or a 100.            *)
LEMMA SegAppend ==
    ASSUME NEW s \in Seq(Responses), NEW r \in Responses,
           NEW lo \in Nat, NEW hi \in Nat, lo <= hi, NEW skip, Seg(s, lo, hi, skip)
    PROVE  /\ IsAnswer(r) /\ r.req = hi + 1 => Seg(Append(s, r), lo, hi + 1, skip)
           /\ ~IsAnswer(r) => Seg(Append(s, r), lo, hi, skip)
<1> DEFINE a == Append(s, r)
<1>1. /\ Len(s) \in Nat /\ Len(a) = Len(s) + 1
      /\ \A k \in 1..Len(s) : a[k] = s[k]
      /\ a[Len(s) + 1] = r
    BY LenProperties, AppendProperties
<1>2. \A k \in 1..Len(s) : s[k].req \in Nat
    BY ReqNat
<1> HIDE DEF a
<1>3. CASE IsAnswer(r) /\ r.req = hi + 1
  <2>1. \A k \in 1..Len(a) : IsAnswer(a[k]) => lo < a[k].req /\ a[k].req <= hi + 1
      BY <1>1, <1>2, <1>3 DEF Seg
  <2>2. ASSUME NEW k \in 1..Len(a), NEW j \in 1..(k - 1), IsAnswer(a[j]), IsAnswer(a[k])
        PROVE  a[j].req < a[k].req
    <3>1. CASE k = Len(s) + 1
        BY <1>1, <1>2, <1>3, <2>2, <3>1 DEF Seg
    <3>2. CASE k # Len(s) + 1
        BY <1>1, <2>2, <3>2 DEF Seg
    <3> QED BY <3>1, <3>2
  <2>3. ASSUME NEW i \in (lo + 1)..(hi + 1), i \notin skip
        PROVE  \E k \in 1..Len(a) : IsAnswer(a[k]) /\ a[k].req = i
    <3>1. CASE i = hi + 1
        BY <1>1, <1>3, <3>1
    <3>2. CASE i # hi + 1
      <4>1. PICK k \in 1..Len(s) : IsAnswer(s[k]) /\ s[k].req = i
          BY <2>3, <3>2 DEF Seg
      <4> QED BY <1>1, <4>1
    <3> QED BY <3>1, <3>2
  <2> QED BY <1>3, <2>1, <2>2, <2>3 DEF Seg, a
<1>4. CASE ~IsAnswer(r)
  <2>1. \A k \in 1..Len(a) : IsAnswer(a[k]) => k \in 1..Len(s)
      BY <1>1, <1>4
  <2>2. ASSUME NEW k \in 1..Len(a), NEW j \in 1..(k - 1), IsAnswer(a[j]), IsAnswer(a[k])
        PROVE  a[j].req < a[k].req
      BY <1>1, <2>1, <2>2 DEF Seg
  <2>3. ASSUME NEW i \in (lo + 1)..hi, i \notin skip
        PROVE  \E k \in 1..Len(a) : IsAnswer(a[k]) /\ a[k].req = i
    <3>1. PICK k \in 1..Len(s) : IsAnswer(s[k]) /\ s[k].req = i
        BY <2>3 DEF Seg
    <3> QED BY <1>1, <3>1
  <2> QED BY <1>1, <1>4, <2>1, <2>2, <2>3 DEF Seg, a
<1> QED BY <1>3, <1>4 DEF a

(* Two pieces of the stream that meet make one.                            *)
LEMMA SegConcat ==
    ASSUME NEW s \in Seq(Responses), NEW u \in Seq(Responses),
           NEW lo \in Nat, NEW m \in Nat, NEW hi \in Nat, lo <= m, m <= hi,
           NEW skip, Seg(s, lo, m, skip), Seg(u, m, hi, {})
    PROVE  Seg(s \o u, lo, hi, skip)
<1> DEFINE c == s \o u
<1>1. /\ Len(s) \in Nat /\ Len(u) \in Nat /\ Len(c) = Len(s) + Len(u)
      /\ \A k \in 1..Len(s) : c[k] = s[k]
      /\ \A k \in 1..Len(u) : c[Len(s) + k] = u[k]
      /\ \A k \in 1..Len(c) : k > Len(s) => k - Len(s) \in 1..Len(u) /\ c[k] = u[k - Len(s)]
    BY LenProperties, ConcatProperties
<1>2. /\ \A k \in 1..Len(s) : s[k].req \in Nat
      /\ \A k \in 1..Len(u) : u[k].req \in Nat
    BY ReqNat
<1> HIDE DEF c
<1>3. ASSUME NEW k \in 1..Len(c), IsAnswer(c[k])
      PROVE  lo < c[k].req /\ c[k].req <= hi
  <2>1. CASE k <= Len(s)
    <3>1. k \in 1..Len(s)
        BY <1>1, <2>1
    <3> QED BY <1>1, <1>2, <1>3, <3>1 DEF Seg
  <2>2. CASE k > Len(s)
      BY <1>1, <1>2, <1>3, <2>2 DEF Seg
  <2> QED BY <1>1, <2>1, <2>2
<1>4. ASSUME NEW k \in 1..Len(c), NEW j \in 1..(k - 1), IsAnswer(c[j]), IsAnswer(c[k])
      PROVE  c[j].req < c[k].req
  <2>1. CASE k <= Len(s)
      BY <1>1, <1>4, <2>1 DEF Seg
  <2>2. CASE j > Len(s)
    <3>1. j - Len(s) \in 1..((k - Len(s)) - 1) /\ k - Len(s) \in 1..Len(u)
        BY <1>1, <2>2
    <3>2. c[j] = u[j - Len(s)] /\ c[k] = u[k - Len(s)]
        BY <1>1, <2>2
    <3> QED BY <1>4, <3>1, <3>2 DEF Seg
  <2>3. CASE j <= Len(s) /\ k > Len(s)
    <3>1. j \in 1..Len(s) /\ c[j] = s[j] /\ c[j].req <= m /\ c[j].req \in Nat
        BY <1>1, <1>2, <1>4, <2>3 DEF Seg
    <3>2. m < c[k].req /\ c[k].req \in Nat
        BY <1>1, <1>2, <1>4, <2>3 DEF Seg
    <3> QED BY <3>1, <3>2
  <2> QED BY <1>1, <2>1, <2>2, <2>3
<1>5. ASSUME NEW i \in (lo + 1)..hi, i \notin skip
      PROVE  \E k \in 1..Len(c) : IsAnswer(c[k]) /\ c[k].req = i
  <2>1. CASE i <= m
    <3>1. PICK k \in 1..Len(s) : IsAnswer(s[k]) /\ s[k].req = i
        BY <1>5, <2>1 DEF Seg
    <3> QED BY <1>1, <3>1
  <2>2. CASE i > m
    <3>1. PICK k \in 1..Len(u) : IsAnswer(u[k]) /\ u[k].req = i
        BY <2>2 DEF Seg
    <3>2. Len(s) + k \in 1..Len(c)
        BY <1>1
    <3> QED BY <1>1, <3>1, <3>2
  <2> QED BY <2>1, <2>2
<1> QED BY <1>3, <1>4, <1>5 DEF Seg, c

(* An upstream that has closed may leave its answer out.                   *)
LEMMA SegSkip ==
    ASSUME NEW s \in Seq(Responses), NEW lo \in Nat, NEW hi \in Nat, NEW skip,
           NEW more, skip \subseteq more, Seg(s, lo, hi, skip)
    PROVE  /\ Seg(s, lo, hi, more)
           /\ hi + 1 \in more => Seg(s, lo, hi + 1, more)
<1>1. \A k \in 1..Len(s) : s[k].req \in Nat
    BY ReqNat
<1>2. Seg(s, lo, hi, more)
    BY DEF Seg
<1>3. ASSUME hi + 1 \in more PROVE Seg(s, lo, hi + 1, more)
  <2>1. \A k \in 1..Len(s) : IsAnswer(s[k]) => lo < s[k].req /\ s[k].req <= hi + 1
      BY <1>1 DEF Seg
  <2>2. ASSUME NEW i \in (lo + 1)..(hi + 1), i \notin more
        PROVE  \E k \in 1..Len(s) : IsAnswer(s[k]) /\ s[k].req = i
    <3>1. i \in (lo + 1)..hi
        BY <1>3, <2>2
    <3> QED BY <1>2, <2>2, <3>1 DEF Seg
  <2> QED BY <2>1, <2>2 DEF Seg
<1> QED BY <1>2, <1>3

(* A prefix that reaches the last request lacks nothing.                   *)
LEMMA SegPrefix ==
    ASSUME NEW s \in Seq(Responses), NEW u \in Seq(Responses),
           NEW hi \in Nat, NEW skip, Seg(s \o u, 0, hi, skip), Reaches(s, hi)
    PROVE  Seg(s, 0, hi, skip)
<1> DEFINE c == s \o u
<1>1. /\ Len(s) \in Nat /\ Len(u) \in Nat /\ Len(c) = Len(s) + Len(u)
      /\ \A k \in 1..Len(s) : k \in 1..Len(c) /\ c[k] = s[k]
    BY LenProperties, ConcatProperties
<1>2. /\ \A k \in 1..Len(s) : s[k].req \in Nat
      /\ \A k \in 1..Len(c) : c[k].req \in Nat
    BY ReqNat, ConcatProperties
<1> HIDE DEF c
<1>3. Seg(c, 0, hi, skip)
    BY DEF c
<1>4. PICK n \in 1..Len(s) : IsAnswer(s[n]) /\ s[n].req >= hi
    BY DEF Reaches
<1>5. ASSUME NEW i \in 1..hi, i \notin skip
      PROVE  \E k \in 1..Len(s) : IsAnswer(s[k]) /\ s[k].req = i
  <2>1. PICK k \in 1..Len(c) : IsAnswer(c[k]) /\ c[k].req = i
      BY <1>3, <1>5 DEF Seg
  <2>2. CASE k > n
    <3>1. n \in 1..(k - 1) /\ c[n] = s[n] /\ c[n].req \in Nat
        BY <1>1, <1>2, <1>4, <2>2
    <3>2. c[n].req < c[k].req
        BY <1>3, <1>4, <2>1, <3>1 DEF Seg
    <3> QED BY <1>4, <2>1, <3>1, <3>2
  <2>3. CASE k <= n
    <3>1. k \in 1..Len(s)
        BY <1>1, <2>3
    <3> QED BY <1>1, <2>1, <3>1
  <2> QED BY <1>1, <2>2, <2>3
<1>6. \A k \in 1..Len(s) : IsAnswer(s[k]) => 0 < s[k].req /\ s[k].req <= hi
    BY <1>1, <1>3 DEF Seg
<1>7. \A k \in 1..Len(s) : \A j \in 1..(k - 1) :
          IsAnswer(s[j]) /\ IsAnswer(s[k]) => s[j].req < s[k].req
  <2> SUFFICES ASSUME NEW k \in 1..Len(s), NEW j \in 1..(k - 1),
                      IsAnswer(s[j]), IsAnswer(s[k])
               PROVE  s[j].req < s[k].req
      OBVIOUS
  <2>1. j \in 1..Len(s) /\ c[j] = s[j] /\ c[k] = s[k] /\ k \in 1..Len(c)
      BY <1>1
  <2> QED BY <1>3, <2>1 DEF Seg
<1> QED BY <1>5, <1>6, <1>7 DEF Seg

(* Equal but for what has been garbled on the way.                         *)
Alike(s, u) ==
    /\ Len(s) = Len(u)
    /\ \A k \in 1..Len(s) :
          s[k].req = u[k].req /\ (IsAnswer(s[k]) <=> IsAnswer(u[k]))

(* A garbled answer is still in its place.                                 *)
LEMMA SegAlike ==
    ASSUME NEW s \in Seq(Responses), NEW u \in Seq(Responses), Alike(s, u),
           NEW lo \in Nat, NEW hi \in Nat, NEW skip, Seg(s, lo, hi, skip)
    PROVE  Seg(u, lo, hi, skip)
<1>1. /\ Len(s) = Len(u) /\ Len(s) \in Nat
      /\ \A k \in 1..Len(s) :
            s[k].req = u[k].req /\ (IsAnswer(s[k]) <=> IsAnswer(u[k]))
    BY LenProperties DEF Alike
<1>2. \A k \in 1..Len(u) : IsAnswer(u[k]) => lo < u[k].req /\ u[k].req <= hi
    BY <1>1 DEF Seg
<1>3. ASSUME NEW k \in 1..Len(u), NEW j \in 1..(k - 1), IsAnswer(u[j]), IsAnswer(u[k])
      PROVE  u[j].req < u[k].req
  <2>1. j \in 1..Len(s) /\ k \in 1..Len(s)
      BY <1>1
  <2> QED BY <1>1, <1>3, <2>1 DEF Seg
<1>4. ASSUME NEW i \in (lo + 1)..hi, i \notin skip
      PROVE  \E k \in 1..Len(u) : IsAnswer(u[k]) /\ u[k].req = i
  <2>1. PICK k \in 1..Len(s) : IsAnswer(s[k]) /\ s[k].req = i
      BY <1>4 DEF Seg
  <2> QED BY <1>1, <2>1
<1> QED BY <1>2, <1>3, <1>4 DEF Seg

(* One response of a stream is garbled.                                    *)
LEMMA AlikeGarbled ==
    ASSUME NEW s \in Seq(Responses), NEW u \in Seq(Responses), NEW r \in Responses
    PROVE  Alike((s \o <<r>>) \o u, (s \o <<Garbled(r)>>) \o u)
<1>1. PICK q \in Responses :
          q = Garbled(r) /\ q.req = r.req /\ (IsAnswer(q) <=> IsAnswer(r))
    BY GarbledType
<1>2. /\ <<r>> \in Seq(Responses) /\ <<q>> \in Seq(Responses)
      /\ Len(<<r>>) = 1 /\ Len(<<q>>) = 1 /\ <<r>>[1] = r /\ <<q>>[1] = q
    OBVIOUS
<1>3. PICK a \in Seq(Responses) : a = s \o <<r>>
    BY <1>2, ConcatProperties
<1>4. PICK b \in Seq(Responses) : b = s \o <<q>>
    BY <1>2, ConcatProperties
<1>5. /\ Len(s) \in Nat /\ Len(u) \in Nat /\ Len(a) = Len(s) + 1 /\ Len(b) = Len(s) + 1
      /\ \A k \in 1..Len(s) : a[k] = s[k] /\ b[k] = s[k]
      /\ a[Len(s) + 1] = r /\ b[Len(s) + 1] = q
    BY <1>2, <1>3, <1>4, LenProperties, ConcatProperties
<1>6. /\ Len(a \o u) = Len(s) + 1 + Len(u) /\ Len(b \o u) = Len(s) + 1 + Len(u)
      /\ \A k \in 1..Len(a) : (a \o u)[k] = a[k] /\ (b \o u)[k] = b[k]
      /\ \A k \in 1..Len(a \o u) : k > Len(a) =>
            (a \o u)[k] = u[k - Len(a)] /\ (b \o u)[k] = u[k - Len(a)]
  <2>1. /\ Len(a \o u) = Len(a) + Len(u) /\ Len(b \o u) = Len(b) + Len(u)
        /\ \A k \in 1..(Len(a) + Len(u)) :
              (a \o u)[k] = IF k <= Len(a) THEN a[k] ELSE u[k - Len(a)]
        /\ \A k \in 1..(Len(b) + Len(u)) :
              (b \o u)[k] = IF k <= Len(b) THEN b[k] ELSE u[k - Len(b)]
      BY ConcatProperties
  <2> QED BY <1>5, <2>1
<1>7. ASSUME NEW k \in 1..Len(a \o u)
      PROVE  /\ (a \o u)[k].req = (b \o u)[k].req
             /\ IsAnswer((a \o u)[k]) <=> IsAnswer((b \o u)[k])
  <2>1. CASE k <= Len(s)
      BY <1>5, <1>6, <2>1
  <2>2. CASE k = Len(s) + 1
      BY <1>1, <1>5, <1>6, <2>2
  <2>3. CASE k > Len(s) + 1
      BY <1>5, <1>6, <2>3
  <2> QED BY <1>5, <2>1, <2>2, <2>3
<1>8. Alike(a \o u, b \o u)
    BY <1>6, <1>7 DEF Alike
<1> QED BY <1>1, <1>3, <1>4, <1>8

(* A response that may be missing is lost.                                 *)
LEMMA SegDrop ==
    ASSUME NEW s \in Seq(Responses), NEW u \in Seq(Responses), NEW r \in Responses,
           NEW lo \in Nat, NEW hi \in Nat, NEW skip, r.req \in skip,
           Seg((s \o <<r>>) \o u, lo, hi, skip)
    PROVE  Seg(s \o u, lo, hi, skip)
<1>1. /\ <<r>> \in Seq(Responses) /\ Len(<<r>>) = 1 /\ <<r>>[1] = r
    OBVIOUS
<1>2. PICK a \in Seq(Responses) : a = s \o <<r>>
    BY <1>1, ConcatProperties
<1>3. PICK c \in Seq(Responses) : c = a \o u
    BY <1>2, ConcatProperties
<1>4. PICK d \in Seq(Responses) : d = s \o u
    BY ConcatProperties
<1>5. /\ Len(s) \in Nat /\ Len(u) \in Nat /\ Len(a) = Len(s) + 1
      /\ \A k \in 1..Len(s) : a[k] = s[k]
      /\ a[Len(s) + 1] = r
    BY <1>1, <1>2, LenProperties, ConcatProperties
<1>6. /\ Len(c) = Len(s) + 1 + Len(u)
      /\ \A k \in 1..Len(a) : c[k] = a[k]
      /\ \A k \in 1..Len(c) : k > Len(a) => c[k] = u[k - Len(a)]
  <2>1. /\ Len(c) = Len(a) + Len(u)
        /\ \A k \in 1..(Len(a) + Len(u)) :
              c[k] = IF k <= Len(a) THEN a[k] ELSE u[k - Len(a)]
      BY <1>3, ConcatProperties
  <2> QED BY <1>5, <2>1
<1>7. /\ Len(d) = Len(s) + Len(u)
      /\ \A k \in 1..Len(s) : d[k] = s[k]
      /\ \A k \in 1..Len(d) : k > Len(s) => d[k] = u[k - Len(s)]
    BY <1>4, <1>5, ConcatProperties
<1> DEFINE At(k) == IF k <= Len(s) THEN k ELSE k + 1
<1>8. ASSUME NEW k \in 1..Len(d) PROVE At(k) \in 1..Len(c) /\ d[k] = c[At(k)]
  <2>1. CASE k <= Len(s)
      BY <1>5, <1>6, <1>7, <2>1
  <2>2. CASE k > Len(s)
    <3>1. /\ k + 1 \in 1..Len(c) /\ k + 1 > Len(a)
          /\ (k + 1) - Len(a) = k - Len(s) /\ At(k) = k + 1
        BY <1>5, <1>6, <1>7, <2>2
    <3> QED BY <1>6, <1>7, <2>2, <3>1
  <2> QED BY <1>5, <2>1, <2>2
<1>9. \A k \in 1..Len(d) : \A j \in 1..(k - 1) : j \in 1..Len(d) /\ At(j) \in 1..(At(k) - 1)
    BY <1>5, <1>7
<1>10. ASSUME NEW n \in 1..Len(c), n # Len(s) + 1
       PROVE  \E k \in 1..Len(d) : d[k] = c[n]
  <2>1. CASE n <= Len(s)
      BY <1>5, <1>6, <1>7, <2>1
  <2>2. CASE n > Len(s) + 1
    <3>1. /\ n - 1 \in 1..Len(d) /\ n - 1 > Len(s) /\ n > Len(a)
          /\ (n - 1) - Len(s) = n - Len(a)
        BY <1>5, <1>6, <1>7, <2>2
    <3> QED BY <1>6, <1>7, <3>1
  <2> QED BY <1>5, <1>10, <2>1, <2>2
<1>11. c[Len(s) + 1] = r
    BY <1>5, <1>6
<1> HIDE DEF At
<1>12. Seg(c, lo, hi, skip)
    BY <1>2, <1>3
<1>13. \A k \in 1..Len(d) : IsAnswer(d[k]) => lo < d[k].req /\ d[k].req <= hi
    BY <1>8, <1>12 DEF Seg
<1>14. ASSUME NEW k \in 1..Len(d), NEW j \in 1..(k - 1), IsAnswer(d[j]), IsAnswer(d[k])
       PROVE  d[j].req < d[k].req
  <2>1. j \in 1..Len(d) /\ At(j) \in 1..(At(k) - 1)
      BY <1>9
  <2>2. /\ At(k) \in 1..Len(c) /\ d[k] = c[At(k)] /\ d[j] = c[At(j)]
      BY <1>8, <2>1
  <2> QED BY <1>12, <1>14, <2>1, <2>2 DEF Seg
<1>15. ASSUME NEW i \in (lo + 1)..hi, i \notin skip
       PROVE  \E k \in 1..Len(d) : IsAnswer(d[k]) /\ d[k].req = i
  <2>1. PICK n \in 1..Len(c) : IsAnswer(c[n]) /\ c[n].req = i
      BY <1>12, <1>15 DEF Seg
  <2>2. n # Len(s) + 1
      BY <1>11, <1>15, <2>1
  <2> QED BY <1>10, <2>1, <2>2
<1>16. Seg(d, lo, hi, skip)
    BY <1>13, <1>14, <1>15 DEF Seg
<1> QED BY <1>4, <1>16

(* AnswersInOrder, of any sequence of responses.                           *)
InOrder(s, skip) ==
    \A k \in 1..Len(s) : IsAnswer(s[k]) =>
        /\ \A j \in 1..(k - 1) : IsAnswer(s[j]) => s[j].req < s[k].req
        /\ \A i \in 1..(s[k].req - 1) :
              i \in skip \/ \E j \in 1..(k - 1) : IsAnswer(s[j]) /\ s[j].req = i

(* What comes before the end of a gapless stream is in order.              *)
LEMMA PrefixInOrder ==
    ASSUME NEW s \in Seq(Responses), NEW u \in Seq(Responses),
           NEW hi \in Nat, NEW skip, Seg(s \o u, 0, hi, skip)
    PROVE  InOrder(s, skip)
<1> DEFINE c == s \o u
<1>1. /\ Len(s) \in Nat /\ Len(u) \in Nat /\ Len(c) = Len(s) + Len(u)
      /\ \A k \in 1..Len(s) : k \in 1..Len(c) /\ c[k] = s[k]
    BY LenProperties, ConcatProperties
<1>2. \A k \in 1..Len(s) : s[k].req \in Nat
    BY ReqNat
<1> HIDE DEF c
<1>3. Seg(c, 0, hi, skip)
    BY DEF c
<1> SUFFICES ASSUME NEW k \in 1..Len(s), IsAnswer(s[k])
             PROVE  /\ \A j \in 1..(k - 1) : IsAnswer(s[j]) => s[j].req < s[k].req
                    /\ \A i \in 1..(s[k].req - 1) : i \in skip \/
                          \E j \in 1..(k - 1) : IsAnswer(s[j]) /\ s[j].req = i
    BY DEF InOrder
<1>4. ASSUME NEW j \in 1..(k - 1), IsAnswer(s[j]) PROVE s[j].req < s[k].req
  <2>1. j \in 1..Len(s) /\ c[j] = s[j] /\ c[k] = s[k] /\ k \in 1..Len(c)
      BY <1>1
  <2> QED BY <1>3, <1>4, <2>1 DEF Seg
<1>5. ASSUME NEW i \in 1..(s[k].req - 1), i \notin skip
      PROVE  \E j \in 1..(k - 1) : IsAnswer(s[j]) /\ s[j].req = i
  <2>1. s[k].req <= hi /\ c[k] = s[k] /\ k \in 1..Len(c)
      BY <1>1, <1>3 DEF Seg
  <2>2. i \in 1..hi
      BY <1>2, <2>1
  <2>3. PICK j \in 1..Len(c) : IsAnswer(c[j]) /\ c[j].req = i
      BY <1>3, <1>5, <2>2 DEF Seg
  <2>4. j # k
      BY <1>2, <2>1, <2>3
  <2>5. ~(j > k)
    <3> SUFFICES ASSUME j > k PROVE FALSE
        OBVIOUS
    <3>1. k \in 1..(j - 1)
        OBVIOUS
    <3>2. c[k].req < c[j].req
        BY <1>3, <2>1, <2>3, <3>1 DEF Seg
    <3> QED BY <1>2, <2>1, <2>3, <3>2
  <2>6. j \in 1..(k - 1) /\ c[j] = s[j]
      BY <1>1, <2>4, <2>5
  <2> QED BY <2>3, <2>6
<1> QED BY <1>4, <1>5

(* Order survives when more upstreams close.                               *)
LEMMA InOrderMore ==
    ASSUME NEW s, NEW skip, NEW more, skip \subseteq more, InOrder(s, skip)
    PROVE  InOrder(s, more)
BY DEF InOrder

(* A longer stream reaches as far, and as far as its last answer.          *)
LEMMA ReachesMore ==
    ASSUME NEW s \in Seq(Responses), NEW u \in Seq(Responses), NEW n \in Nat
    PROVE  Reaches(s, n) \/ Reaches(u, n) => Reaches(s \o u, n)
<1>1. /\ Len(s) \in Nat /\ Len(u) \in Nat /\ Len(s \o u) = Len(s) + Len(u)
      /\ \A k \in 1..Len(s) : k \in 1..Len(s \o u) /\ (s \o u)[k] = s[k]
      /\ \A k \in 1..Len(u) : /\ Len(s) + k \in 1..Len(s \o u)
                               /\ (s \o u)[Len(s) + k] = u[k]
    BY LenProperties, ConcatProperties
<1>2. ASSUME Reaches(s, n) PROVE Reaches(s \o u, n)
    BY <1>1, <1>2 DEF Reaches
<1>3. ASSUME Reaches(u, n) PROVE Reaches(s \o u, n)
  <2>1. PICK k \in 1..Len(u) : IsAnswer(u[k]) /\ u[k].req >= n
      BY <1>3 DEF Reaches
  <2> QED BY <1>1, <2>1 DEF Reaches
<1> QED BY <1>2, <1>3

-----------------------------------------------------------------------------
(* The request side: which upstream the request in hand belongs to.  In    *)
(* routing mode request i has upstream i, except an unparseable request,   *)
(* which follows its predecessor.                                          *)
Asking ==
    /\ reqPc = "idle" => rd = 0 /\ hr = "read" /\ w = nil
    /\ reqPc \in {"sendAddr", "recvConn"} =>
          /\ hr = "addr" /\ rd = w + 1
          /\ dialled = IF hcPc = "sendConn" THEN w + 1 ELSE w
    /\ reqPc = "handle" /\ routing =>
          /\ w = dialled
          /\ \/ rd = w
             \/ /\ w # nil /\ rd = w + 1 /\ sent[rd] = "bad"
                /\ hr \in {"addr", "fallback", "tunnel"}
    /\ reqPc = "handle" /\ ~routing => w = 1 /\ dialled = 1

(* What each upstream has received: consecutive requests from its own on,  *)
(* all that HandleRequest has written while it could, and in routing mode  *)
(* a second one only if it is the last upstream of the session.            *)
Arrivals ==
    /\ \A t \in Conns : \A k \in 1..Len(arrived[t]) : arrived[t][k] = t - 1 + k
    /\ reqPc = "handle" /\ w # nil /\ target[w] = "open" /\ ~srvFin[w] =>
          Len(arrived[w]) = Written - w + 1
    /\ reqPc \in {"idle", "handle", "sendAddr", "recvConn"} =>
          \A t \in Conns : t > w => arrived[t] = <<>>
    /\ routing => \A t \in Conns :
          Len(arrived[t]) >= 2 => t = dialled /\ hr = "tunnel"

(* Steps that at most close a connection or lengthen sent.                 *)
LEMMA ArrivalsFrame ==
    ASSUME HTTPInv, Asking, Arrivals,
           UNCHANGED <<routing, hcPc, reqPc, w, dialled, arrived, hr, rd>>,
           rd # 0 => sent'[rd] = sent[rd],
           \A t \in Conns : target'[t] = "open" => target[t] = "open",
           \A t \in Conns : ~srvFin'[t] => ~srvFin[t]
    PROVE  Asking' /\ Arrivals'
<1>1. w \in 0..MaxConns /\ rd \in Nat /\ MaxConns \in Nat
    BY MaxConnsAssumption, MaxReqsAssumption DEF HTTPInv, HTTPTypeOK, TypeOK
<1>2. Asking'
    BY <1>1 DEF Asking
<1>3. Arrivals'
    BY <1>1 DEF Arrivals, Written, Conns, nil
<1> QED BY <1>2, <1>3

(* The broker hands every request an upstream of its own.                  *)
LEMMA BrokerArrivals ==
    ASSUME HTTPInv, Asking, Arrivals, HTTPBroker PROVE Asking' /\ Arrivals'
<1>1. /\ w \in 0..MaxConns /\ dialled \in 0..MaxConns /\ rd \in Nat /\ MaxConns \in Nat
      /\ IInv /\ TypeOK /\ UNCHANGED hvars
    BY MaxConnsAssumption, MaxReqsAssumption
    DEF HTTPInv, HTTPTypeOK, TypeOK, HTTPBroker
<1>2. UNCHANGED <<arrived, srvFin, hr, rd, sent>>
    BY <1>1 DEF hvars, server, handleRequest, client
<1>3. target \in [Conns -> {"none", "open", "closed"}]
    BY <1>1 DEF TypeOK
<1>e. Len(<<>>) = 0
    BY EmptySeq
<1>4. CASE SetupFails \/ StartDirect \/ AddrClosed \/ Cleanup \/ Enqueue \/ DialFails
  <2>1. /\ UNCHANGED <<routing, reqPc, w, dialled, target>>
        /\ reqPc \in {"sendAddr", "recvConn"} => hcPc # "sendConn" /\ hcPc' # "sendConn"
      BY <1>1, <1>4 DEF IInv, Control, SetupFails, StartDirect, AddrClosed,
         Cleanup, Enqueue, DialFails
  <2>2. Asking'
      BY <1>2, <2>1 DEF Asking
  <2>3. Arrivals'
      BY <1>2, <2>1 DEF Arrivals, Written
  <2> QED BY <2>2, <2>3
<1>5. CASE StartRouted
  <2>1. /\ reqPc = "idle" /\ reqPc' = "handle" /\ routing' = routing /\ routing
        /\ UNCHANGED <<w, dialled, target>> /\ dialled = 0
      BY <1>1, <1>5 DEF IInv, Control, Order, StartRouted
  <2>2. Asking'
      BY <1>2, <2>1 DEF Asking, nil
  <2>3. Arrivals'
      BY <1>2, <2>1 DEF Arrivals, Asking, Written
  <2> QED BY <2>2, <2>3
<1>6. CASE SendAddr
  <2>1. /\ reqPc = "sendAddr" /\ reqPc' = "recvConn" /\ hcPc # "sendConn"
        /\ hcPc' # "sendConn" /\ UNCHANGED <<routing, w, dialled, target>>
      BY <1>6 DEF SendAddr
  <2>2. Asking'
      BY <1>2, <2>1 DEF Asking
  <2>3. Arrivals'
      BY <1>2, <2>1 DEF Arrivals
  <2> QED BY <2>2, <2>3
<1>7. CASE DialOK
  <2>1. CASE routing
    <3>1. /\ reqPc = "recvConn" /\ hcPc # "sendConn" /\ hcPc' = "sendConn"
          /\ dialled' = dialled + 1 /\ UNCHANGED <<routing, w, reqPc>>
        BY <1>1, <1>7, <2>1 DEF IInv, Control, DialOK
    <3>2. hr = "addr" /\ dialled = w /\ rd = w + 1
        BY <3>1 DEF Asking
    <3>3. Asking'
        BY <1>1, <1>2, <3>1, <3>2 DEF Asking
    <3>4. Arrivals'
        BY <1>2, <3>1, <3>2 DEF Arrivals
    <3> QED BY <3>3, <3>4
  <2>2. CASE ~routing
    <3>1. /\ reqPc = "idle" /\ reqPc' = "handle" /\ dialled = 0
          /\ dialled' = 1 /\ w' = 1 /\ routing' = routing
        BY <1>1, <1>7, <2>2 DEF IInv, Control, Order, DialOK
    <3>2. Asking'
        BY <2>2, <3>1 DEF Asking
    <3>3. /\ 1 \in Conns /\ rd = 0 /\ hr = "read" /\ w = 0
          /\ \A t \in Conns : t > 0 /\ arrived[t] = <<>>
        BY <3>1, MaxConnsAssumption DEF Asking, Arrivals, Conns, nil
    <3>4. Written' = 0
        BY <1>2, <3>3 DEF Written
    <3>5. Arrivals'
        BY <1>2, <1>e, <2>2, <3>1, <3>3, <3>4 DEF Arrivals
    <3> QED BY <3>2, <3>5
  <2> QED BY <2>1, <2>2
<1>8. CASE SendConn
  <2>1. /\ reqPc = "recvConn" /\ reqPc' = "handle" /\ hcPc = "sendConn"
        /\ w' = dialled /\ routing /\ UNCHANGED <<routing, dialled, target>>
      BY <1>1, <1>8 DEF IInv, Control, SendConn
  <2>2. hr = "addr" /\ rd = w + 1 /\ dialled = w + 1
      BY <2>1 DEF Asking
  <2>3. Asking'
      BY <1>2, <2>1, <2>2 DEF Asking
  <2>4. w' \in Conns /\ arrived[w'] = <<>> /\ Written' - w' + 1 = 0
      BY <1>1, <1>2, <2>1, <2>2 DEF Arrivals, Written, Conns
  <2>5. Arrivals'
      BY <1>1, <1>2, <1>e, <2>1, <2>2, <2>4 DEF Arrivals, Conns
  <2> QED BY <2>3, <2>5
<1>9. CASE SendNil
  <2>1. reqPc' = "return" /\ UNCHANGED <<routing, dialled>>
      BY <1>9 DEF SendNil
  <2>2. Asking'
      BY <2>1 DEF Asking
  <2>3. Arrivals'
      BY <1>2, <2>1 DEF Arrivals
  <2> QED BY <2>2, <2>3
<1> QED BY <1>4, <1>5, <1>6, <1>7, <1>8, <1>9 DEF HTTPBroker, Broker

(* A request is written to its own upstream, or to the one before it.      *)
LEMMA RequestArrivals ==
    ASSUME HTTPInv, Asking, Arrivals, HTTPRequest PROVE Asking' /\ Arrivals'
<1>1. /\ w \in 0..MaxConns /\ dialled \in 0..MaxConns /\ rd \in Nat /\ MaxConns \in Nat
      /\ IInv /\ TypeOK /\ rd <= Len(sent) /\ (hr # "read" => rd # 0)
      /\ routing \in BOOLEAN /\ target \in [Conns -> {"none", "open", "closed"}]
    BY MaxConnsAssumption, MaxReqsAssumption
    DEF HTTPInv, HTTPTypeOK, TypeOK, Counts
<1> USE DEF client, server, handleRequest, handleResponse, netRequest
<1>2. CASE ReadRequest
  <2>1. /\ reqPc = "handle" /\ hr = "read" /\ rd' = rd + 1 /\ hr' = "addr"
        /\ UNCHANGED <<sent, arrived, srvFin, hcPc, w, dialled, target, routing>>
        /\ reqPc' = IF routing THEN "sendAddr" ELSE "handle"
      BY <1>2 DEF ReadRequest, AskConn, tvars
  <2>2. CASE routing
    <3>1. w = dialled /\ rd = w /\ hcPc # "sendConn"
        BY <1>1, <2>1, <2>2 DEF Asking, IInv, Control
    <3>2. Asking'
        BY <2>1, <2>2, <3>1 DEF Asking
    <3>3. Arrivals'
        BY <2>1, <2>2 DEF Arrivals
    <3> QED BY <3>2, <3>3
  <2>3. CASE ~routing
    <3>1. Written' = Written
        BY <1>1, <2>1 DEF Written
    <3>2. Asking'
        BY <2>1, <2>3 DEF Asking
    <3>3. Arrivals'
        BY <2>1, <2>3, <3>1 DEF Arrivals
    <3> QED BY <3>2, <3>3
  <2> QED BY <1>1, <2>2, <2>3
<1>3. CASE ReadBadRequest
  <2>1. /\ reqPc = "handle" /\ hr = "read" /\ rd' = rd + 1
        /\ UNCHANGED <<sent, arrived, srvFin, hcPc, w, dialled, target, routing>>
        /\ sent[rd + 1] = "bad"
      BY <1>3 DEF ReadBadRequest, ReturnRequest, tvars
  <2>2. CASE w = nil
    <3>1. reqPc' = "return" /\ hr' = hr
        BY <1>3, <2>2 DEF ReadBadRequest, ReturnRequest
    <3>2. Asking'
        BY <3>1 DEF Asking
    <3>3. Arrivals'
        BY <2>1, <3>1 DEF Arrivals
    <3> QED BY <3>2, <3>3
  <2>3. CASE w # nil
    <3>1. reqPc' = "handle" /\ hr' = "addr"
        BY <1>3, <2>1, <2>3 DEF ReadBadRequest, ReturnRequest, tvars
    <3>2. Written' = Written
        BY <1>1, <2>1, <3>1 DEF Written
    <3>3. Asking'
        BY <2>1, <2>3, <3>1 DEF Asking
    <3>4. Arrivals'
        BY <2>1, <3>1, <3>2 DEF Arrivals
    <3> QED BY <3>3, <3>4
  <2> QED BY <2>2, <2>3
<1>4. CASE ReadEnds \/ FallbackEnds \/ ((CloseAddr \/ CloseRequest) /\ UNCHANGED hvars)
  <2>1. /\ reqPc' \in {"return", "close", "done"}
        /\ UNCHANGED <<routing, dialled, hvars>>
      BY <1>4 DEF ReadEnds, FallbackEnds, ReturnRequest, CloseAddr, CloseRequest
  <2>2. Asking'
      BY <2>1 DEF Asking
  <2>3. Arrivals'
      BY <2>1 DEF Arrivals, hvars
  <2> QED BY <2>2, <2>3
<1>5. CASE SetRemoteAddr \/ SetHTTPRequest \/ PeekRequest \/ PushSpan \/ WriteBody
  <2>1. /\ reqPc = "handle" /\ UNCHANGED <<tvars, sent, arrived, srvFin, rd>>
        /\ hr \in {"addr", "set", "start", "span", "body"}
      BY <1>5 DEF SetRemoteAddr, SetHTTPRequest, PeekRequest, PushSpan, WriteBody
  <2>2. /\ Written' = Written
        /\ hr = "addr" /\ sent[rd] = "bad" => hr' = "fallback"
      BY <1>5 DEF SetRemoteAddr, SetHTTPRequest, PeekRequest, PushSpan, WriteBody,
         Written
  <2>3. Asking'
      BY <2>1, <2>2 DEF Asking, tvars
  <2>4. Arrivals'
      BY <2>1, <2>2 DEF Arrivals, tvars
  <2> QED BY <2>3, <2>4
<1>6. CASE WriteRequest \/ Fallback
  <2>1. /\ reqPc = "handle" /\ UNCHANGED <<tvars, sent, srvFin, rd>> /\ Arrive
        /\ hr = "write" \/ (hr = "fallback" /\ hr' = "tunnel")
      BY <1>6 DEF WriteRequest, Fallback
  <2>2. Written = rd - 1 /\ Written' = rd /\ rd # 0
      BY <1>1, <1>6 DEF WriteRequest, Fallback, Written
  <2>3. Asking'
      BY <2>1 DEF Asking, tvars
  <2>4. rd \in Reqs /\ \A t \in Conns : arrived[t] \in Seq(Reqs)
      BY <1>1, <2>2, MaxReqsAssumption DEF HTTPInv, HTTPTypeOK, Reqs
  <2>5. CASE arrived' = arrived /\ ~(target[w] = "open" /\ ~srvFin[w])
    <3>1. \A t \in Conns : Len(arrived[t]) >= 2 /\ routing => hr = "tunnel"
        BY DEF Arrivals
    <3> QED BY <2>1, <2>3, <2>5, <3>1 DEF Arrivals, tvars
  <2>6. CASE arrived' = [arrived EXCEPT ![w] = Append(@, rd)]
             /\ target[w] = "open" /\ ~srvFin[w]
    <3>1. w \in Conns /\ (routing => w = dialled)
      <4>1. w # nil
          BY <1>1, <2>1, <2>2 DEF Asking, nil, IInv, TypeOK
      <4> QED BY <1>1, <2>1, <4>1 DEF Asking, Conns, nil
    <3>2. Len(arrived[w]) = rd - w
        BY <1>1, <2>1, <2>2, <2>6, <3>1 DEF Arrivals, Conns, nil
    <3>3. /\ arrived'[w] = Append(arrived[w], rd)
          /\ \A t \in Conns : t # w => arrived'[t] = arrived[t]
        BY <2>6, <3>1 DEF HTTPInv, HTTPTypeOK
    <3>4. /\ Len(arrived'[w]) = rd - w + 1 /\ Len(arrived[w]) \in Nat
          /\ \A k \in 1..Len(arrived[w]) : arrived'[w][k] = arrived[w][k]
          /\ arrived'[w][Len(arrived[w]) + 1] = rd
        BY <2>4, <3>1, <3>2, <3>3, AppendProperties, LenProperties
    <3>5. ASSUME NEW t \in Conns, NEW k \in 1..Len(arrived'[t])
          PROVE  arrived'[t][k] = t - 1 + k
      <4>1. CASE t # w
          BY <3>3, <4>1 DEF Arrivals
      <4>2. CASE t = w /\ k = Len(arrived[w]) + 1
          BY <1>1, <3>2, <3>4, <4>2 DEF Conns
      <4>3. CASE t = w /\ k # Len(arrived[w]) + 1
        <5>1. k \in 1..Len(arrived[w])
            BY <3>2, <3>4, <4>3
        <5> QED BY <3>1, <3>4, <4>3, <5>1 DEF Arrivals
      <4> QED BY <4>1, <4>2, <4>3
    <3>6. Len(arrived'[w]) = Written' - w + 1
        BY <1>1, <2>2, <3>4
    <3>7. \A t \in Conns : t > w => arrived'[t] = <<>>
        BY <1>1, <2>1, <3>1, <3>3 DEF Arrivals, Conns
    <3>8. ASSUME routing, NEW t \in Conns, Len(arrived'[t]) >= 2
          PROVE  t = dialled /\ hr' = "tunnel"
      <4>1. CASE t = w
        <5>1. rd = w + 1
            BY <1>1, <2>1, <3>1, <3>4, <3>8, <4>1 DEF Asking
        <5> QED BY <2>1, <3>1, <3>8, <4>1, <5>1 DEF Asking
      <4>2. CASE t # w
          BY <2>1, <3>1, <3>3, <3>8, <4>2 DEF Arrivals
      <4> QED BY <4>1, <4>2
    <3> QED BY <2>1, <2>3, <3>5, <3>6, <3>7, <3>8 DEF Arrivals, tvars
  <2> QED BY <2>1, <2>5, <2>6 DEF Arrive
<1> QED BY <1>2, <1>3, <1>4, <1>5, <1>6 DEF HTTPRequest

(* Responses and peers leave the request side alone.                       *)
LEMMA OthersArrivals ==
    ASSUME HTTPInv, Asking, Arrivals, HTTPResponse \/ HTTPPeers
    PROVE  Asking' /\ Arrivals'
<1>1. target \in [Conns -> {"none", "open", "closed"}] /\ srvFin \in [Conns -> BOOLEAN]
    BY DEF HTTPInv, HTTPTypeOK, TypeOK
<1>2. /\ UNCHANGED <<routing, hcPc, reqPc, w, dialled, arrived, hr, rd>>
      /\ sent' = sent \/ ClientSends
    BY DEF HTTPResponse, HTTPPeers, ClientSends, ClientSendsBody, ClientCloses,
       ServerContinues, ServerAnswers, ServerCloses, ReadResponse, CopyRaw,
       ResponseEnds, DeliverHead, Deliver, SwallowResponse, BodyFails,
       SetHTTPResponse, StopRequest, FinishSpan, AfterResponse, RecvCall,
       RangeEnds, CloseResponse, ForceClose, ReturnResponse, tvars, hvars,
       client, server, handleRequest
<1>3. \A t \in Conns : target'[t] = "open" => target[t] = "open"
    BY <1>1 DEF HTTPResponse, HTTPPeers, ClientSends, ClientSendsBody, ClientCloses,
       ServerContinues, ServerAnswers, ServerCloses, ReadResponse, CopyRaw,
       ResponseEnds, DeliverHead, Deliver, SwallowResponse, BodyFails,
       SetHTTPResponse, StopRequest, FinishSpan, AfterResponse, RecvCall,
       RangeEnds, CloseResponse, ForceClose, ReturnResponse, tvars, closeConn
<1>4. \A t \in Conns : ~srvFin'[t] => ~srvFin[t]
    BY <1>1 DEF HTTPResponse, HTTPPeers, ClientSends, ClientSendsBody, ClientCloses,
       ServerContinues, ServerAnswers, ServerCloses, ReadResponse, CopyRaw,
       ResponseEnds, DeliverHead, Deliver, SwallowResponse, BodyFails,
       SetHTTPResponse, StopRequest, FinishSpan, AfterResponse, hvars, server
<1>5. rd # 0 => sent'[rd] = sent[rd]
  <2>1. CASE ClientSends
    <3>1. PICK k \in Load[routing].kinds : sent' = Append(sent, k)
        BY <2>1 DEF ClientSends
    <3>2. k \in Kinds
        BY LoadAssumption DEF HTTPInv, HTTPTypeOK, TypeOK
    <3>3. \A i \in 1..Len(sent) : sent'[i] = sent[i]
        BY <3>1, <3>2, AppendProperties DEF HTTPInv, HTTPTypeOK
    <3>4. rd \in Nat /\ rd <= Len(sent) /\ Len(sent) \in Nat
        BY LenProperties, MaxReqsAssumption, MaxConnsAssumption
        DEF HTTPInv, HTTPTypeOK, Counts
    <3> QED BY <3>3, <3>4
  <2> QED BY <1>2, <2>1
<1> QED BY <1>2, <1>3, <1>4, <1>5, ArrivalsFrame

-----------------------------------------------------------------------------
(* The response side, upstream by upstream: those not read yet have sent   *)
(* the answers from their own request on, and nobody has closed them.      *)
Wires ==
    /\ \A t \in Conns : t > cur => Seg(wire[t], t - 1, t - 1 + served[t], {})
    /\ \A t \in Conns : \A k \in 1..Len(wire[t]) :
          IsAnswer(wire[t][k]) => wire[t][k].req >= t
    /\ \A t \in Conns : \A k \in 1..Len(wire[t]) :
          wire[t][k].code = "raw" => wire[t][k].req \in raw
    /\ conn = "open" => \A t \in Conns : t > cur => target[t] # "closed"

(* Servers answer the oldest request first, and answer it once.            *)
LEMMA ServerStep ==
    ASSUME HTTPInv, Arrivals, NEW t \in Conns, ServerContinues(t) \/ ServerAnswers(t)
    PROVE  \E r \in Responses :
              /\ wire' = [wire EXCEPT ![t] = Append(@, r)]
              /\ target[t] = "open"
              /\ r.req = t + served[t]
              /\ r.code = "raw" => r.req \in raw'
              /\ \/ ~IsAnswer(r) /\ served' = served
                 \/ IsAnswer(r) /\ served' = [served EXCEPT ![t] = @ + 1]
<1>1. /\ served[t] \in Nat /\ Len(arrived[t]) \in Nat /\ served[t] < Len(arrived[t])
      /\ arrived[t] \in Seq(Reqs) /\ t \in Nat
    BY LenProperties, MaxReqsAssumption, MaxConnsAssumption
    DEF HTTPInv, HTTPTypeOK, ServerContinues, ServerAnswers, Conns
<1>2. Unanswered(t) = t + served[t] /\ Unanswered(t) \in Reqs
  <2>1. served[t] + 1 \in 1..Len(arrived[t])
      BY <1>1
  <2>2. Unanswered(t) = t - 1 + (served[t] + 1)
      BY <2>1 DEF Arrivals, Unanswered
  <2>3. Unanswered(t) \in Reqs
      BY <1>1, <2>1, ElementOfSeq DEF Unanswered
  <2> QED BY <1>1, <2>2, <2>3
<1>3. Unanswered(t) \in 0..MaxReqs
    BY <1>2, MaxReqsAssumption, MaxConnsAssumption DEF Reqs
<1>4. CASE ServerContinues(t)
  <2> DEFINE r == [req |-> Unanswered(t), code |-> "continue"]
  <2>1. r \in Responses /\ r.req = t + served[t] /\ ~IsAnswer(r) /\ r.code # "raw"
      BY <1>2, <1>3 DEF Responses, IsAnswer
  <2>2. /\ wire' = [wire EXCEPT ![t] = Append(@, r)]
        /\ target[t] = "open" /\ served' = served
      BY <1>4 DEF ServerContinues
  <2> QED BY <2>1, <2>2
<1>5. CASE ServerAnswers(t)
  <2>0. PICK c \in {"final", "raw"} :
          /\ wire' = [wire EXCEPT ![t] = Append(@, [req |-> Unanswered(t), code |-> c])]
          /\ raw' = IF c = "raw" THEN raw \union {Unanswered(t)} ELSE raw
      BY <1>5 DEF ServerAnswers
  <2> DEFINE r == [req |-> Unanswered(t), code |-> c]
  <2>1. r \in Responses /\ r.req = t + served[t] /\ IsAnswer(r)
      BY <1>2, <1>3 DEF Responses, IsAnswer
  <2>2. /\ wire' = [wire EXCEPT ![t] = Append(@, r)]
        /\ target[t] = "open" /\ served' = [served EXCEPT ![t] = @ + 1]
      BY <1>5, <2>0 DEF ServerAnswers
  <2>3. r.code = "raw" => r.req \in raw'
      BY <2>0
  <2> QED BY <2>1, <2>2, <2>3
<1> QED BY <1>4, <1>5

(* A raw answer stays one.                                                 *)
LEMMA RawGrows ==
    ASSUME HTTPNext \/ UNCHANGED svars PROVE raw \subseteq raw'
<1> USE DEF hvars, server
<1>1. CASE HTTPBroker \/ HTTPFinished \/ UNCHANGED svars
    BY <1>1 DEF HTTPBroker, HTTPFinished, svars
<1>2. CASE HTTPRequest
    BY <1>2 DEF HTTPRequest, ReadRequest, ReadBadRequest, ReadEnds, SetRemoteAddr,
       SetHTTPRequest, PeekRequest, PushSpan, WriteRequest, WriteBody, Fallback,
       FallbackEnds
<1>3. CASE HTTPPeers
    BY <1>3 DEF HTTPPeers, ClientSends, ClientSendsBody, ClientCloses, ServerCloses,
       ServerContinues, ServerAnswers
<1>4. CASE HTTPResponse
    BY <1>4 DEF HTTPResponse, ReadResponse, CopyRaw, ResponseEnds, DeliverHead,
       Deliver, SwallowResponse, BodyFails, SetHTTPResponse, StopRequest,
       FinishSpan, AfterResponse
<1> QED BY <1>1, <1>2, <1>3, <1>4 DEF HTTPNext

(* What else happens to the responses on their way.                        *)
LEMMA WireSteps ==
    ASSUME HTTPNext \/ UNCHANGED svars
    PROVE  \/ UNCHANGED <<wire, served>>
           \/ \E t \in Conns : ServerContinues(t) \/ ServerAnswers(t)
           \/ /\ respPc = "handle" /\ wire[cur] # <<>> /\ cur' = cur
              /\ wire' = [wire EXCEPT ![cur] = Tail(@)] /\ served' = served
<1> USE DEF tvars, hvars, client, server, handleRequest, handleResponse, netRequest
<1>1. CASE HTTPBroker \/ HTTPFinished \/ UNCHANGED svars
    BY <1>1 DEF HTTPBroker, HTTPFinished, svars
<1>2. CASE HTTPRequest
    BY <1>2 DEF HTTPRequest, ReadRequest, ReadBadRequest, ReadEnds, SetRemoteAddr,
       SetHTTPRequest, PeekRequest, PushSpan, WriteRequest, WriteBody, Fallback,
       FallbackEnds
<1>3. CASE HTTPPeers
    BY <1>3 DEF HTTPPeers, ClientSends, ClientSendsBody, ClientCloses, ServerCloses
<1>4. CASE HTTPResponse
    BY <1>4 DEF HTTPResponse, ReadResponse, CopyRaw, ResponseEnds, DeliverHead,
       Deliver, SwallowResponse, BodyFails, SetHTTPResponse, StopRequest,
       FinishSpan, AfterResponse
<1> QED BY <1>1, <1>2, <1>3, <1>4 DEF HTTPNext

(* The next upstreams' answers stay consecutive.                           *)
LEMMA NextWires ==
    ASSUME HTTPInv, Arrivals, Wires, HTTPNext \/ UNCHANGED svars
    PROVE  Wires'
<1>1. /\ cur \in Nat /\ \A t \in Conns : t \in Nat /\ t >= 1
      /\ wire \in [Conns -> Seq(Responses)] /\ served \in [Conns -> Nat]
      /\ IInv
    BY MaxConnsAssumption, MaxReqsAssumption
    DEF HTTPInv, HTTPTypeOK, TypeOK, Conns
<1>r. raw \subseteq raw'
    BY RawGrows
<1>2. [Next]_tvars
    BY HTTPStep DEF svars
<1>3. cur' = cur \/ cur' = cur + 1
    BY <1>1, <1>2, CurStep
<1>4. conn' = "open" => \A t \in Conns : t > cur' => target'[t] # "closed"
    BY <1>1, <1>2, <1>3, ClosingStep DEF Wires
<1>5. CASE UNCHANGED <<wire, served>>
    BY <1>1, <1>r, <1>3, <1>4, <1>5 DEF Wires
<1>6. ASSUME NEW t \in Conns, ServerContinues(t) \/ ServerAnswers(t)
      PROVE  Wires'
  <2>1. PICK r \in Responses :
              /\ wire' = [wire EXCEPT ![t] = Append(@, r)]
              /\ target[t] = "open"
              /\ r.req = t + served[t]
              /\ r.code = "raw" => r.req \in raw'
              /\ \/ ~IsAnswer(r) /\ served' = served
                 \/ IsAnswer(r) /\ served' = [served EXCEPT ![t] = @ + 1]
      BY <1>6, ServerStep
  <2>2. /\ wire'[t] = Append(wire[t], r) /\ wire[t] \in Seq(Responses)
        /\ \A u \in Conns : u # t => wire'[u] = wire[u] /\ served'[u] = served[u]
      BY <1>1, <2>1
  <2>3. /\ Len(wire[t]) \in Nat /\ Len(wire'[t]) = Len(wire[t]) + 1
        /\ \A k \in 1..Len(wire[t]) : wire'[t][k] = wire[t][k]
        /\ wire'[t][Len(wire[t]) + 1] = r
      BY <2>2, LenProperties, AppendProperties
  <2>4. \A u \in Conns : \A k \in 1..Len(wire'[u]) :
            IsAnswer(wire'[u][k]) => wire'[u][k].req >= u
    <3>1. ASSUME NEW k \in 1..Len(wire'[t]), IsAnswer(wire'[t][k])
          PROVE  wire'[t][k].req >= t
      <4>1. CASE k = Len(wire[t]) + 1
          BY <1>1, <2>1, <2>3, <4>1
      <4>2. CASE k # Len(wire[t]) + 1
          BY <2>3, <3>1, <4>2 DEF Wires
      <4> QED BY <4>1, <4>2
    <3> QED BY <2>2, <3>1 DEF Wires
  <2>r. \A u \in Conns : \A k \in 1..Len(wire'[u]) :
            wire'[u][k].code = "raw" => wire'[u][k].req \in raw'
    <3>1. ASSUME NEW k \in 1..Len(wire'[t]), wire'[t][k].code = "raw"
          PROVE  wire'[t][k].req \in raw'
      <4>1. CASE k = Len(wire[t]) + 1
          BY <2>1, <2>3, <3>1, <4>1
      <4>2. CASE k # Len(wire[t]) + 1
          BY <1>r, <2>3, <3>1, <4>2 DEF Wires
      <4> QED BY <4>1, <4>2
    <3> QED BY <1>r, <2>2, <3>1 DEF Wires
  <2>5. t > cur => Seg(wire'[t], t - 1, t - 1 + served'[t], {})
    <3> SUFFICES ASSUME t > cur PROVE Seg(wire'[t], t - 1, t - 1 + served'[t], {})
        OBVIOUS
    <3>1. PICK lo \in Nat, hi \in Nat : lo = t - 1 /\ hi = t - 1 + served[t] /\ lo <= hi
        BY <1>1
    <3>2. Seg(wire[t], lo, hi, {})
        BY <3>1 DEF Wires
    <3>3. CASE ~IsAnswer(r) /\ served' = served
      <4>1. Seg(Append(wire[t], r), lo, hi, {})
          BY <2>2, <3>1, <3>2, <3>3, SegAppend
      <4> QED BY <2>2, <3>1, <3>3, <4>1
    <3>4. CASE IsAnswer(r) /\ served' = [served EXCEPT ![t] = @ + 1]
      <4>1. r.req = hi + 1 /\ t - 1 + served'[t] = hi + 1
          BY <1>1, <2>1, <3>1, <3>4
      <4>2. Seg(Append(wire[t], r), lo, hi + 1, {})
          BY <2>2, <3>1, <3>2, <3>4, <4>1, SegAppend
      <4> QED BY <2>2, <3>1, <4>1, <4>2
    <3> QED BY <2>1, <3>3, <3>4
  <2>6. \A u \in Conns : u > cur => Seg(wire'[u], u - 1, u - 1 + served'[u], {})
      BY <2>2, <2>5 DEF Wires
  <2> QED BY <1>1, <1>3, <1>4, <2>4, <2>r, <2>6 DEF Wires
<1>7. CASE /\ respPc = "handle" /\ wire[cur] # <<>> /\ cur' = cur
           /\ wire' = [wire EXCEPT ![cur] = Tail(@)] /\ served' = served
  <2>1. cur \in Conns
      BY <1>7, MaxConnsAssumption DEF HTTPInv, IInv, TypeOK, Order, nil, Conns
  <2>2. /\ wire'[cur] = Tail(wire[cur]) /\ wire[cur] \in Seq(Responses)
        /\ \A u \in Conns : u # cur => wire'[u] = wire[u]
      BY <1>1, <1>7, <2>1
  <2>3. /\ Len(wire[cur]) \in Nat /\ Len(wire'[cur]) = Len(wire[cur]) - 1
        /\ \A k \in 1..Len(wire'[cur]) : /\ k + 1 \in 1..Len(wire[cur])
                                         /\ wire'[cur][k] = wire[cur][k + 1]
    <3>1. /\ Len(wire[cur]) \in Nat /\ Len(Tail(wire[cur])) = Len(wire[cur]) - 1
          /\ \A k \in 1..Len(Tail(wire[cur])) : Tail(wire[cur])[k] = wire[cur][k + 1]
        BY <1>7, <2>2, LenProperties, HeadTailProperties
    <3> QED BY <2>2, <3>1
  <2>4. \A u \in Conns : \A k \in 1..Len(wire'[u]) :
            IsAnswer(wire'[u][k]) => wire'[u][k].req >= u
      BY <2>1, <2>2, <2>3 DEF Wires
  <2>5. \A u \in Conns : u > cur => Seg(wire'[u], u - 1, u - 1 + served'[u], {})
      BY <1>1, <1>7, <2>2 DEF Wires
  <2>6. \A u \in Conns : \A k \in 1..Len(wire'[u]) :
            wire'[u][k].code = "raw" => wire'[u][k].req \in raw'
    <3> SUFFICES ASSUME NEW u \in Conns, NEW k \in 1..Len(wire'[u]),
                        wire'[u][k].code = "raw"
                 PROVE  wire'[u][k].req \in raw
        BY <1>r
    <3>1. CASE u = cur
      <4>1. k + 1 \in 1..Len(wire[cur]) /\ wire'[u][k] = wire[cur][k + 1]
          BY <2>3, <3>1
      <4> QED BY <2>1, <4>1 DEF Wires
    <3>2. CASE u # cur
      <4>1. wire'[u] = wire[u]
          BY <2>2, <3>2
      <4> QED BY <4>1 DEF Wires
    <3> QED BY <3>1, <3>2
  <2> QED BY <1>4, <1>7, <2>4, <2>5, <2>6 DEF Wires
<1> QED BY <1>5, <1>6, <1>7, WireSteps

-----------------------------------------------------------------------------
(* Requests whose answers may be missing: their upstream closed (routing   *)
(* mode), or the answer went to the fallback.                              *)
Skipped == {i \in Conns : routing /\ srvFin[i]} \union raw

InHand == IF hs = "deliver" THEN <<rs>> ELSE <<>>

(* Received, in bufioWriter, in HandleResponse's hand, still to be read.   *)
Flow(g, h, p, v) == ((g \o h) \o p) \o v

Pipe == Flow(got, held, InHand, wire[cur])

Buffers ==
    /\ hs # "body" => held = <<>>
    /\ respPc # "handle" => hs = "read"

(* While the upstream cur is being read the Pipe has no gap.               *)
Streaming ==
    conn = "open" /\ respPc = "handle" =>
        Seg(Pipe, 0, cur - 1 + served[cur], Skipped)

(* HandleResponse closes cur only after passing on an answer of cur.       *)
Reached ==
    conn = "open" /\ respPc = "handle" =>
        /\ hs = "deliver" /\ IsAnswer(rs) => rs.req >= cur
        /\ hs = "body" => Reaches(got \o held, cur)
        /\ hs \in {"respond", "stop", "finish", "after"} /\ IsAnswer(rs)
              => Reaches(got, cur)
        /\ routing /\ target[cur] = "closed" => Reaches(got, cur)

(* Between two upstreams the client has the answers up to cur, except      *)
(* after the last upstream of the session, which got two requests.         *)
Passed ==
    conn = "open" /\ respPc # "handle" /\ (routing \/ respPc = "idle") =>
        Seg(got, 0, cur, Skipped) \/ (cur # nil /\ Len(arrived[cur]) >= 2)

Reading == Buffers /\ Streaming /\ Reached /\ Passed

OrderInv ==
    HTTPInv /\ Asking /\ Arrivals /\ Wires /\ Reading /\ InOrder(got, Skipped)

(* Moving responses along the Pipe does not change it.                     *)
LEMMA FlowMoves ==
    ASSUME NEW g \in Seq(Responses), NEW h \in Seq(Responses),
           NEW v \in Seq(Responses), NEW r \in Responses
    PROVE  /\ Flow(g \o <<r>>, <<>>, <<>>, v) = Flow(g, <<>>, <<r>>, v)
           /\ Flow(g, <<r>>, <<>>, v) = Flow(g, <<>>, <<r>>, v)
           /\ Flow(g \o h, <<>>, <<>>, v) = Flow(g, h, <<>>, v)
           /\ v # <<>> =>
                /\ Flow(g, <<>>, <<Head(v)>>, Tail(v)) = Flow(g, <<>>, <<>>, v)
                /\ Flow(g \o <<Head(v)>>, <<>>, <<>>, Tail(v)) = Flow(g, <<>>, <<>>, v)
                /\ Flow(g, Append(h, Head(v)), <<>>, Tail(v)) = Flow(g, h, <<>>, v)
                /\ Flow(g \o Append(h, Head(v)), <<>>, <<>>, Tail(v)) = Flow(g, h, <<>>, v)
<1>1. \A x \in Seq(Responses) : <<>> \o x = x /\ x \o <<>> = x
    BY ConcatEmptySeq
<1>2. <<>> \in Seq(Responses) /\ \A x \in Responses : <<x>> \in Seq(Responses)
    BY EmptySeq
<1>3. g \o h \in Seq(Responses) /\ \A x \in Responses : g \o <<x>> \in Seq(Responses)
    BY <1>2, ConcatProperties
<1>4. /\ Flow(g \o <<r>>, <<>>, <<>>, v) = Flow(g, <<>>, <<r>>, v)
      /\ Flow(g, <<r>>, <<>>, v) = Flow(g, <<>>, <<r>>, v)
      /\ Flow(g \o h, <<>>, <<>>, v) = Flow(g, h, <<>>, v)
    BY <1>1, <1>2, <1>3 DEF Flow
<1>5. ASSUME v # <<>>
      PROVE  /\ Flow(g, <<>>, <<Head(v)>>, Tail(v)) = Flow(g, <<>>, <<>>, v)
             /\ Flow(g \o <<Head(v)>>, <<>>, <<>>, Tail(v)) = Flow(g, <<>>, <<>>, v)
             /\ Flow(g, Append(h, Head(v)), <<>>, Tail(v)) = Flow(g, h, <<>>, v)
             /\ Flow(g \o Append(h, Head(v)), <<>>, <<>>, Tail(v)) = Flow(g, h, <<>>, v)
  <2>1. PICK x \in Responses, y \in Seq(Responses) :
            x = Head(v) /\ y = Tail(v) /\ v = <<x>> \o y
    <3>1. Head(v) \in Responses /\ Tail(v) \in Seq(Responses)
        BY <1>5, HeadTailProperties
    <3>2. v = <<Head(v)>> \o Tail(v)
        BY <1>5
    <3> QED BY <3>1, <3>2
  <2>2. <<x>> \in Seq(Responses) /\ Append(h, x) = h \o <<x>> /\ h \o <<x>> \in Seq(Responses)
      BY <1>2, AppendIsConcat, ConcatProperties
  <2>3. (g \o <<x>>) \o y = g \o v
      BY <2>1, <2>2, ConcatAssociative
  <2>4. (g \o h) \o v = ((g \o h) \o <<x>>) \o y
      BY <1>3, <2>1, <2>2, ConcatAssociative
  <2>5. (g \o h) \o <<x>> = g \o (h \o <<x>>)
      BY <2>2, ConcatAssociative
  <2>6. (g \o h) \o <<x>> \in Seq(Responses)
      BY <1>3, <2>2, ConcatProperties
  <2>7. Flow(g, <<>>, <<x>>, y) = Flow(g, <<>>, <<>>, v)
      BY <1>1, <2>3 DEF Flow
  <2>8. Flow(g \o <<x>>, <<>>, <<>>, y) = Flow(g, <<>>, <<>>, v)
      BY <1>1, <1>3, <2>3 DEF Flow
  <2>9. Flow(g, h \o <<x>>, <<>>, y) = Flow(g, h, <<>>, v)
      BY <1>1, <1>3, <2>4, <2>5, <2>6 DEF Flow
  <2>10. Flow(g \o (h \o <<x>>), <<>>, <<>>, y) = Flow(g, h, <<>>, v)
      BY <1>1, <1>3, <2>4, <2>5, <2>6 DEF Flow
  <2> QED BY <2>1, <2>2, <2>7, <2>8, <2>9, <2>10
<1> QED BY <1>4, <1>5

(* What the upstream sends comes in at the end of the Pipe.                *)
LEMMA FlowAppend ==
    ASSUME NEW g \in Seq(Responses), NEW h \in Seq(Responses), NEW p \in Seq(Responses),
           NEW v \in Seq(Responses), NEW r \in Responses
    PROVE  /\ Flow(g, h, p, v) \in Seq(Responses)
           /\ Flow(g, h, p, Append(v, r)) = Append(Flow(g, h, p, v), r)
<1>1. PICK a \in Seq(Responses) : a = (g \o h) \o p
    BY ConcatProperties
<1>2. <<r>> \in Seq(Responses)
    OBVIOUS
<1>3. Append(v, r) = v \o <<r>> /\ a \o v \in Seq(Responses)
    BY AppendIsConcat, ConcatProperties
<1>4. Append(a \o v, r) = (a \o v) \o <<r>>
    BY <1>3, AppendIsConcat
<1>5. (a \o v) \o <<r>> = a \o (v \o <<r>>)
    BY <1>2, ConcatAssociative
<1>6. Flow(g, h, p, v) = a \o v /\ Flow(g, h, p, Append(v, r)) = a \o Append(v, r)
    BY <1>1 DEF Flow
<1> QED BY <1>3, <1>4, <1>5, <1>6

(* A response is garbled, or lost, on its way to the client.               *)
LEMMA FlowGarbled ==
    ASSUME NEW g \in Seq(Responses), NEW h \in Seq(Responses),
           NEW v \in Seq(Responses), NEW r \in Responses, NEW n \in Nat, NEW skip
    PROVE  /\ Seg(Flow(g \o <<r>>, <<>>, <<>>, v), 0, n, skip) =>
                 /\ Seg(Flow(g \o <<Garbled(r)>>, <<>>, <<>>, v), 0, n, skip)
                 /\ r.req \in skip => Seg(Flow(g, <<>>, <<>>, v), 0, n, skip)
           /\ Seg(Flow(g \o Append(h, r), <<>>, <<>>, v), 0, n, skip) =>
                 Seg(Flow(g \o Append(h, Garbled(r)), <<>>, <<>>, v), 0, n, skip)
<1>1. \A x \in Seq(Responses) : Flow(x, <<>>, <<>>, v) = x \o v
  <2> SUFFICES ASSUME NEW x \in Seq(Responses) PROVE Flow(x, <<>>, <<>>, v) = x \o v
      OBVIOUS
  <2>1. x \o <<>> = x
      BY ConcatEmptySeq
  <2> QED BY <2>1 DEF Flow
<1>2. PICK q \in Responses : q = Garbled(r)
    BY GarbledType
<1>3. <<r>> \in Seq(Responses) /\ <<q>> \in Seq(Responses)
    OBVIOUS
<1>4. ASSUME NEW a \in Seq(Responses)
      PROVE  /\ a \o <<r>> \in Seq(Responses) /\ a \o <<q>> \in Seq(Responses)
             /\ (a \o <<r>>) \o v \in Seq(Responses) /\ (a \o <<q>>) \o v \in Seq(Responses)
             /\ Seg((a \o <<r>>) \o v, 0, n, skip) => Seg((a \o <<q>>) \o v, 0, n, skip)
  <2>1. PICK b \in Seq(Responses) : b = a \o <<r>>
      BY <1>3, ConcatProperties
  <2>2. PICK c \in Seq(Responses) : c = a \o <<q>>
      BY <1>3, ConcatProperties
  <2>3. PICK x \in Seq(Responses) : x = b \o v
      BY ConcatProperties
  <2>4. PICK y \in Seq(Responses) : y = c \o v
      BY ConcatProperties
  <2>5. Alike(x, y)
      BY <1>2, <2>1, <2>2, <2>3, <2>4, AlikeGarbled
  <2>6. Seg(x, 0, n, skip) => Seg(y, 0, n, skip)
      BY <2>5, SegAlike
  <2> QED BY <2>1, <2>2, <2>3, <2>4, <2>6
<1>5. ASSUME Seg(Flow(g \o <<r>>, <<>>, <<>>, v), 0, n, skip)
      PROVE  /\ Seg(Flow(g \o <<q>>, <<>>, <<>>, v), 0, n, skip)
             /\ r.req \in skip => Seg(Flow(g, <<>>, <<>>, v), 0, n, skip)
  <2>1. Seg((g \o <<r>>) \o v, 0, n, skip)
      BY <1>1, <1>4, <1>5
  <2>2. Seg((g \o <<q>>) \o v, 0, n, skip)
      BY <1>4, <2>1
  <2>3. r.req \in skip => Seg(g \o v, 0, n, skip)
      BY <2>1, SegDrop
  <2> QED BY <1>1, <1>4, <2>2, <2>3
<1>6. ASSUME Seg(Flow(g \o Append(h, r), <<>>, <<>>, v), 0, n, skip)
      PROVE  Seg(Flow(g \o Append(h, q), <<>>, <<>>, v), 0, n, skip)
  <2>1. PICK a \in Seq(Responses) : a = g \o h
      BY ConcatProperties
  <2>2. Append(h, r) = h \o <<r>> /\ Append(h, q) = h \o <<q>>
      BY AppendIsConcat
  <2>3. g \o Append(h, r) = a \o <<r>> /\ g \o Append(h, q) = a \o <<q>>
      BY <1>3, <2>1, <2>2, ConcatAssociative
  <2>4. Seg((a \o <<r>>) \o v, 0, n, skip)
      BY <1>1, <1>4, <1>6, <2>3
  <2>5. Seg((a \o <<q>>) \o v, 0, n, skip)
      BY <1>4, <2>4
  <2> QED BY <1>1, <1>4, <2>3, <2>5
<1> QED BY <1>2, <1>5, <1>6

(* The sequence f begins with g.                                           *)
StartsWith(f, g) == \E u \in Seq(Responses) : f = g \o u

(* What the client has got is at the front of the Pipe.                    *)
LEMMA FlowStart ==
    ASSUME NEW g \in Seq(Responses), NEW h \in Seq(Responses), NEW p \in Seq(Responses),
           NEW v \in Seq(Responses)
    PROVE  StartsWith(Flow(g, h, p, v), g)
<1>1. h \o p \in Seq(Responses) /\ (h \o p) \o v \in Seq(Responses)
    BY ConcatProperties
<1>2. (g \o h) \o p = g \o (h \o p)
    BY ConcatAssociative
<1>3. (g \o (h \o p)) \o v = g \o ((h \o p) \o v)
  <2>1. PICK b \in Seq(Responses) : b = h \o p
      BY <1>1
  <2>2. (g \o b) \o v = g \o (b \o v)
      BY ConcatAssociative
  <2> QED BY <2>1, <2>2
<1>4. Flow(g, h, p, v) = g \o ((h \o p) \o v)
    BY <1>2, <1>3 DEF Flow
<1> QED BY <1>1, <1>4 DEF StartsWith

(* The types of what Reading speaks of.                                    *)
LEMMA ReadingTypes ==
    ASSUME HTTPInv
    PROVE  /\ got \in Seq(Responses) /\ held \in Seq(Responses)
           /\ InHand \in Seq(Responses) /\ rs \in Responses
           /\ cur \in Nat /\ routing \in BOOLEAN
           /\ wire \in [Conns -> Seq(Responses)] /\ served \in [Conns -> Nat]
           /\ target \in [Conns -> {"none", "open", "closed"}]
           /\ srvFin \in [Conns -> BOOLEAN] /\ IInv
           /\ respPc \in {"handle", "close"} =>
                 cur \in Conns /\ cur - 1 + served[cur] \in Nat
           /\ respPc = "handle" => Pipe \in Seq(Responses)
<1>1. /\ got \in Seq(Responses) /\ held \in Seq(Responses) /\ rs \in Responses
      /\ routing \in BOOLEAN /\ cur \in Nat /\ cur \in 0..MaxConns
      /\ wire \in [Conns -> Seq(Responses)] /\ served \in [Conns -> Nat]
      /\ target \in [Conns -> {"none", "open", "closed"}]
      /\ srvFin \in [Conns -> BOOLEAN] /\ IInv
    BY MaxConnsAssumption, MaxReqsAssumption DEF HTTPInv, HTTPTypeOK, TypeOK
<1>2. InHand \in Seq(Responses)
    BY <1>1, EmptySeq DEF InHand
<1>3. ASSUME respPc \in {"handle", "close"}
      PROVE  cur \in Conns /\ cur - 1 + served[cur] \in Nat
  <2>1. cur \in Conns
      BY <1>1, <1>3, MaxConnsAssumption DEF IInv, Order, nil, Conns
  <2> QED BY <1>1, <2>1 DEF Conns
<1>4. ASSUME respPc = "handle" PROVE Pipe \in Seq(Responses)
    BY <1>1, <1>2, <1>3, <1>4, FlowAppend DEF Pipe
<1> QED BY <1>1, <1>2, <1>3, <1>4

(* Steps outside the response path that change neither upstream in turn    *)
(* nor the worker's program point.                                         *)
LEMMA ReadingFrame ==
    ASSUME HTTPInv, Reading,
           UNCHANGED <<got, held, hs, rs, wire, served, routing, respPc, cur>>,
           Skipped \subseteq Skipped',
           conn' = "open" => conn = "open",
           cur \in Conns /\ conn' = "open" /\ target'[cur] = "closed" => target[cur] = "closed",
           cur \in Conns /\ Len(arrived[cur]) >= 2 => Len(arrived'[cur]) >= 2
    PROVE  Reading'
<1>1. /\ got \in Seq(Responses) /\ cur \in 0..MaxConns /\ cur \in Nat /\ MaxConns \in Nat
      /\ respPc = "handle" =>
            cur \in Conns /\ cur - 1 + served[cur] \in Nat /\ Pipe \in Seq(Responses)
    BY ReadingTypes, MaxConnsAssumption DEF HTTPInv, HTTPTypeOK, TypeOK
<1>2. Buffers'
    BY DEF Reading, Buffers
<1>3. Streaming'
  <2> SUFFICES ASSUME conn' = "open", respPc' = "handle"
               PROVE  Seg(Pipe', 0, cur' - 1 + served'[cur'], Skipped')
      BY DEF Streaming
  <2>1. Seg(Pipe, 0, cur - 1 + served[cur], Skipped)
      BY DEF Reading, Streaming
  <2>2. Pipe' = Pipe
      BY DEF Pipe, InHand
  <2>3. Seg(Pipe, 0, cur - 1 + served[cur], Skipped')
      BY <1>1, <2>1, SegSkip
  <2> QED BY <2>2, <2>3
<1>4. Reached'
    BY <1>1 DEF Reading, Reached
<1>5. Passed'
  <2> SUFFICES ASSUME conn' = "open", respPc' # "handle", routing' \/ respPc' = "idle"
               PROVE  Seg(got', 0, cur', Skipped') \/ (cur' # nil /\ Len(arrived'[cur']) >= 2)
      BY DEF Passed
  <2>1. Seg(got, 0, cur, Skipped) \/ (cur # nil /\ Len(arrived[cur]) >= 2)
      BY DEF Reading, Passed
  <2>2. CASE Seg(got, 0, cur, Skipped)
      BY <1>1, <2>2, SegSkip
  <2>3. CASE cur # nil /\ Len(arrived[cur]) >= 2
      BY <1>1, <2>3 DEF Conns, nil
  <2> QED BY <2>1, <2>2, <2>3
<1> QED BY <1>2, <1>3, <1>4, <1>5 DEF Reading

(* A new upstream in turn: the answers it has sent so far follow those the *)
(* client has.                                                             *)
LEMMA NextUpstream ==
    ASSUME HTTPInv, Wires, Reading, conn = "open", Seg(got, 0, cur, Skipped),
           UNCHANGED <<got, held, hs, rs, wire, served, srvFin, raw, routing, arrived>>,
           respPc # "handle", respPc' = "handle", cur' = cur + 1, cur' \in Conns,
           target'[cur'] # "closed"
    PROVE  Reading'
<1>1. /\ got \in Seq(Responses) /\ wire[cur'] \in Seq(Responses)
      /\ served[cur'] \in Nat /\ cur \in Nat
    BY ReadingTypes
<1>2. hs = "read" /\ held = <<>>
    BY DEF Reading, Buffers
<1>3. Pipe' = got \o wire[cur']
  <2>1. Pipe' = ((got \o <<>>) \o <<>>) \o wire[cur']
      BY <1>2 DEF Pipe, Flow, InHand
  <2>2. got \o <<>> = got
      BY <1>1, ConcatEmptySeq
  <2> QED BY <2>1, <2>2
<1>4. Skipped' = Skipped
    BY DEF Skipped
<1>5. Streaming'
  <2>0. cur' \in Nat /\ cur' - 1 = cur /\ cur + served[cur'] \in Nat
      BY <1>1
  <2>1. PICK n \in Nat, m \in Nat : n = cur' /\ m = cur + served[cur'] /\ cur <= m
      BY <1>1, <2>0
  <2>2. Seg(wire[n], n - 1, n - 1 + served[n], {})
    <3>1. n \in Conns /\ n > cur
        BY <1>1, <2>1
    <3> QED BY <3>1 DEF Wires
  <2>3. Seg(wire[cur'], cur, m, {})
      BY <1>1, <2>0, <2>1, <2>2
  <2>4. Seg(got \o wire[cur'], 0, m, Skipped)
      BY <1>1, <2>1, <2>3, SegConcat
  <2> QED BY <1>3, <1>4, <2>0, <2>1, <2>4 DEF Streaming
<1>6. Buffers' /\ Reached' /\ Passed'
    BY <1>2 DEF Buffers, Reached, Passed
<1> QED BY <1>5, <1>6 DEF Reading

(* Requests are only ever added to those an upstream has received.         *)
LEMMA ArrivedGrows ==
    ASSUME HTTPInv, HTTPRequest, NEW t \in Conns, Len(arrived[t]) >= 2
    PROVE  Len(arrived'[t]) >= 2
<1>1. CASE WriteRequest \/ Fallback
  <2>1. Arrive /\ rd \in Reqs
      BY <1>1, MaxReqsAssumption, MaxConnsAssumption
      DEF HTTPInv, HTTPTypeOK, Counts, WriteRequest, Fallback, Reqs
  <2>2. /\ arrived[t] \in Seq(Reqs) /\ Len(arrived[t]) \in Nat
        /\ Len(Append(arrived[t], rd)) = Len(arrived[t]) + 1
      BY <2>1, AppendProperties, LenProperties DEF HTTPInv, HTTPTypeOK
  <2>3. arrived'[t] = arrived[t] \/ arrived'[t] = Append(arrived[t], rd)
      BY <2>1 DEF Arrive, HTTPInv, HTTPTypeOK
  <2> QED BY <2>2, <2>3
<1>2. CASE ~(WriteRequest \/ Fallback)
    BY <1>2 DEF HTTPRequest, ReadRequest, ReadBadRequest, ReadEnds, SetRemoteAddr,
       SetHTTPRequest, PeekRequest, PushSpan, WriteBody, FallbackEnds, hvars, server
<1> QED BY <1>1, <1>2

(* HandleRequest does not touch the response path.                         *)
LEMMA RequestReading ==
    ASSUME HTTPInv, Reading, HTTPRequest PROVE Reading'
<1> USE DEF tvars, hvars, client, server, handleRequest, handleResponse, netRequest
<1>1. UNCHANGED <<got, held, hs, rs, wire, served, srvFin, raw>>
    BY DEF HTTPRequest, ReadRequest, ReadBadRequest, ReadEnds, SetRemoteAddr,
       SetHTTPRequest, PeekRequest, PushSpan, WriteRequest, WriteBody, Fallback,
       FallbackEnds
<1>2. /\ UNCHANGED <<routing, respPc, cur>>
      /\ conn' = "open" => conn = "open" /\ target' = target
    BY DEF HTTPRequest, ReadRequest, ReadBadRequest, ReadEnds, SetRemoteAddr,
       SetHTTPRequest, PeekRequest, PushSpan, WriteRequest, WriteBody, Fallback,
       FallbackEnds, AskConn, ReturnRequest, CloseAddr, CloseRequest
<1>3. Skipped' = Skipped
    BY <1>1, <1>2 DEF Skipped
<1>4. cur \in Conns /\ Len(arrived[cur]) >= 2 => Len(arrived'[cur]) >= 2
    BY ArrivedGrows
<1>5. cur \in Conns /\ conn' = "open" /\ target'[cur] = "closed" => target[cur] = "closed"
    BY <1>2
<1> QED BY <1>1, <1>2, <1>3, <1>4, <1>5, ReadingFrame

(* The broker starts the response side and hands it its upstreams.         *)
LEMMA BrokerReading ==
    ASSUME HTTPInv, Wires, Reading, HTTPBroker PROVE Reading'
<1>1. UNCHANGED <<got, held, hs, rs, wire, served, srvFin, raw, arrived>>
    BY DEF HTTPBroker, hvars, server, handleResponse
<1>2. /\ IInv /\ cur \in Nat /\ routing \in BOOLEAN
      /\ target \in [Conns -> {"none", "open", "closed"}]
    BY ReadingTypes
<1>3. CASE StartRouted
  <2>1. /\ respPc = "idle" /\ respPc' = "recv" /\ conn' = conn
        /\ UNCHANGED <<cur, routing>>
      BY <1>2, <1>3 DEF StartRouted, IInv, Control
  <2>2. Skipped' = Skipped
      BY <1>1, <2>1 DEF Skipped
  <2> QED BY <1>1, <2>1, <2>2 DEF Reading, Buffers, Streaming, Reached, Passed
<1>4. CASE DialOK /\ ~routing
  <2>1. /\ respPc = "idle" /\ respPc' = "handle" /\ dialled = 0 /\ cur' = dialled + 1
        /\ UNCHANGED <<conn, routing>> /\ target' = [target EXCEPT ![dialled + 1] = "open"]
      BY <1>2, <1>4 DEF DialOK, IInv, Control, Order
  <2>2. cur = 0 /\ cur' = 1 /\ cur' \in Conns /\ target'[cur'] = "open"
    <3>1. Len(callCh) \in Nat /\ dialled = cur + Len(callCh) + Bit(hcPc \in {"sendConn", "enqueue"})
        BY <1>2, LenProperties DEF IInv, TypeOK, Order
    <3>2. cur = 0
        BY <1>2, <2>1, <3>1 DEF Bit
    <3> QED BY <1>2, <2>1, <3>2, MaxConnsAssumption DEF Conns
  <2>3. CASE conn = "open"
    <3>1. Seg(got, 0, cur, Skipped)
        BY <2>1, <2>2, <2>3 DEF Reading, Passed, nil
    <3> QED BY <1>1, <2>1, <2>2, <2>3, <3>1, NextUpstream
  <2>4. CASE conn # "open"
      BY <1>1, <2>1, <2>4 DEF Reading, Buffers, Streaming, Reached, Passed
  <2> QED BY <2>3, <2>4
<1>5. CASE Broker /\ ~StartRouted /\ ~(DialOK /\ ~routing)
  <2>1. /\ UNCHANGED <<routing, respPc, cur>>
        /\ conn' = "open" => conn = "open"
        /\ target' = target \/ target' = [target EXCEPT ![dialled + 1] = "open"]
      BY <1>5 DEF Broker, SetupFails, StartDirect, SendAddr, DialOK, DialFails,
         SendConn, SendNil, Enqueue, AddrClosed, Cleanup
  <2>2. Skipped' = Skipped
      BY <1>1, <2>1 DEF Skipped
  <2>3. cur \in Conns /\ target'[cur] = "closed" => target[cur] = "closed"
      BY <1>2, <2>1
  <2> QED BY <1>1, <2>1, <2>2, <2>3, ReadingFrame
<1> QED BY <1>2, <1>3, <1>4, <1>5 DEF HTTPBroker

(* An upstream's answer comes in at the end of the Pipe; an upstream that  *)
(* closes may leave its answer out.                                        *)
LEMMA PeersReading ==
    ASSUME HTTPInv, Arrivals, Wires, Reading, HTTPPeers PROVE Reading'
<1> USE DEF tvars, client, server, handleRequest, handleResponse, netRequest
<1>1. /\ IInv /\ cur \in Nat /\ routing \in BOOLEAN /\ srvFin \in [Conns -> BOOLEAN]
      /\ wire \in [Conns -> Seq(Responses)] /\ served \in [Conns -> Nat]
      /\ got \in Seq(Responses) /\ held \in Seq(Responses) /\ InHand \in Seq(Responses)
      /\ respPc \in {"handle", "close"} => cur \in Conns /\ cur - 1 + served[cur] \in Nat
      /\ respPc = "handle" => Pipe \in Seq(Responses)
    BY ReadingTypes
<1>2. CASE ClientSends \/ ClientSendsBody \/ ClientCloses
  <2>1. UNCHANGED <<tvars, got, held, hs, rs, wire, served, srvFin, raw, arrived>>
      BY <1>2 DEF ClientSends, ClientSendsBody, ClientCloses
  <2>2. Skipped' = Skipped
      BY <2>1 DEF Skipped
  <2> QED BY <2>1, <2>2, ReadingFrame
<1>3. ASSUME NEW t \in Conns, ServerCloses(t) PROVE Reading'
  <2>1. UNCHANGED <<tvars, got, held, hs, rs, wire, served, arrived>>
      BY <1>3 DEF ServerCloses
  <2>2. Skipped \subseteq Skipped'
      BY <1>1, <1>3, <2>1 DEF Skipped, ServerCloses
  <2> QED BY <2>1, <2>2, ReadingFrame
<1>4. ASSUME NEW t \in Conns, ServerContinues(t) \/ ServerAnswers(t) PROVE Reading'
  <2>1. UNCHANGED <<tvars, got, held, hs, rs, srvFin, arrived>>
      BY <1>4 DEF ServerContinues, ServerAnswers
  <2>2. Skipped \subseteq Skipped' /\ InHand' = InHand
      BY <2>1, RawGrows DEF Skipped, InHand, HTTPNext
  <2>3. Buffers' /\ Reached' /\ Passed'
    <3>1. Buffers' /\ Reached'
        BY <2>1, <2>2 DEF Reading, Buffers, Reached
    <3>2. Seg(got, 0, cur, Skipped) => Seg(got, 0, cur, Skipped')
        BY <1>1, <2>2, SegSkip
    <3>3. Passed'
        BY <2>1, <3>2 DEF Reading, Passed
    <3> QED BY <3>1, <3>3
  <2>4. Streaming'
    <3> SUFFICES ASSUME conn = "open", respPc = "handle"
                 PROVE  Seg(Pipe', 0, cur - 1 + served'[cur], Skipped')
        BY <2>1 DEF Streaming
    <3>0. Seg(Pipe, 0, cur - 1 + served[cur], Skipped)
        BY DEF Reading, Streaming
    <3>1. Seg(Pipe, 0, cur - 1 + served[cur], Skipped')
        BY <1>1, <2>2, <3>0, SegSkip
    <3>2. PICK r \in Responses :
              /\ wire' = [wire EXCEPT ![t] = Append(@, r)]
              /\ target[t] = "open"
              /\ r.req = t + served[t]
              /\ r.code = "raw" => r.req \in raw'
              /\ \/ ~IsAnswer(r) /\ served' = served
                 \/ IsAnswer(r) /\ served' = [served EXCEPT ![t] = @ + 1]
        BY <1>4, ServerStep
    <3>3. CASE t # cur
      <4>1. wire'[cur] = wire[cur] /\ served'[cur] = served[cur]
          BY <1>1, <3>2, <3>3
      <4>2. Pipe' = Pipe
          BY <2>1, <2>2, <4>1 DEF Pipe
      <4> QED BY <3>1, <4>1, <4>2
    <3>4. CASE t = cur
      <4>1. wire'[cur] = Append(wire[cur], r) /\ wire[cur] \in Seq(Responses)
          BY <1>1, <3>2, <3>4
      <4>2. Pipe' = Append(Pipe, r)
          BY <1>1, <2>1, <2>2, <4>1, FlowAppend DEF Pipe
      <4>3. PICK n \in Nat : n = cur - 1 + served[cur]
          BY <1>1
      <4>4. CASE ~IsAnswer(r) /\ served' = served
          BY <1>1, <3>1, <4>2, <4>3, <4>4, SegAppend
      <4>5. CASE IsAnswer(r) /\ served' = [served EXCEPT ![t] = @ + 1]
        <5>1. r.req = n + 1 /\ cur - 1 + served'[cur] = n + 1
            BY <1>1, <3>2, <3>4, <4>3, <4>5
        <5>2. Seg(Append(Pipe, r), 0, n + 1, Skipped')
            BY <1>1, <3>1, <4>3, <4>5, <5>1, SegAppend
        <5> QED BY <4>2, <5>1, <5>2
      <4> QED BY <3>2, <4>4, <4>5
    <3> QED BY <3>3, <3>4
  <2> QED BY <2>3, <2>4 DEF Reading
<1> QED BY <1>2, <1>3, <1>4 DEF HTTPPeers

(* HandleResponse moves on: the Pipe stays as it is or at least without a  *)
(* gap, and what it needs to know about the answers it has passed on is    *)
(* re-established.                                                         *)
LEMMA PipeMoved ==
    ASSUME HTTPInv, Reading, respPc = "handle",
           UNCHANGED <<routing, respPc, cur, conn, served, srvFin, raw>>, Buffers',
           conn = "open" => /\ Reached'
                            /\ \/ Pipe' = Pipe
                               \/ Seg(Pipe', 0, cur - 1 + served[cur], Skipped)
    PROVE  Reading'
<1>1. Skipped' = Skipped
    BY DEF Skipped
<1>2. CASE conn = "open"
    BY <1>1, <1>2 DEF Reading, Streaming, Passed
<1>3. CASE conn # "open"
    BY <1>3 DEF Reading, Streaming, Reached, Passed
<1> QED BY <1>2, <1>3

(* HandleResponse passes answers on in the order it reads them, and leaves *)
(* an upstream only when the client has its answer or there is none.       *)
LEMMA ResponseReading ==
    ASSUME HTTPInv, Arrivals, Wires, Reading, HTTPResponse PROVE Reading'
<1> USE DEF tvars, client, server, handleRequest, netRequest
<1>1. /\ IInv /\ cur \in Nat /\ routing \in BOOLEAN /\ srvFin \in [Conns -> BOOLEAN]
      /\ wire \in [Conns -> Seq(Responses)] /\ served \in [Conns -> Nat]
      /\ target \in [Conns -> {"none", "open", "closed"}]
      /\ got \in Seq(Responses) /\ held \in Seq(Responses) /\ rs \in Responses
      /\ respPc \in {"handle", "close"} => cur \in Conns /\ cur - 1 + served[cur] \in Nat
      /\ respPc = "handle" => Pipe \in Seq(Responses)
    BY ReadingTypes
<1>2. \A r \in Responses : <<r>> \in Seq(Responses)
    OBVIOUS
<1>w. ASSUME respPc = "handle"
      PROVE  /\ Flow(got \o <<rs>>, <<>>, <<>>, wire[cur]) = Flow(got, <<>>, <<rs>>, wire[cur])
             /\ Flow(got, <<rs>>, <<>>, wire[cur]) = Flow(got, <<>>, <<rs>>, wire[cur])
             /\ Flow(got \o held, <<>>, <<>>, wire[cur]) = Flow(got, held, <<>>, wire[cur])
             /\ wire[cur] # <<>> =>
                  Flow(got \o Append(held, Head(wire[cur])), <<>>, <<>>, Tail(wire[cur]))
                    = Flow(got, held, <<>>, wire[cur])
  <2>1. PICK v \in Seq(Responses) : v = wire[cur]
      BY <1>1, <1>w
  <2>2. /\ Flow(got \o <<rs>>, <<>>, <<>>, v) = Flow(got, <<>>, <<rs>>, v)
        /\ Flow(got, <<rs>>, <<>>, v) = Flow(got, <<>>, <<rs>>, v)
        /\ Flow(got \o held, <<>>, <<>>, v) = Flow(got, held, <<>>, v)
      BY <1>1, FlowMoves, ZenonT(40)
  <2>3. v # <<>> =>
          Flow(got \o Append(held, Head(v)), <<>>, <<>>, Tail(v)) = Flow(got, held, <<>>, v)
      BY <1>1, FlowMoves
  <2> QED BY <2>1, <2>2, <2>3
<1>3. \A s \in Seq(Responses) : conn = "open" => Receive(s) = got \o s
    BY DEF Receive
<1>4. ASSUME respPc = "handle", wire[cur] # <<>>
      PROVE  /\ Head(wire[cur]) \in Responses /\ wire[cur] \in Seq(Responses)
             /\ [wire EXCEPT ![cur] = Tail(@)][cur] = Tail(wire[cur])
             /\ IsAnswer(Head(wire[cur])) => Head(wire[cur]).req >= cur
  <2>1. wire[cur] \in Seq(Responses) /\ Len(wire[cur]) > 0 /\ Len(wire[cur]) \in Nat
      BY <1>1, <1>4, EmptySeq
  <2>2. 1 \in 1..Len(wire[cur]) /\ Head(wire[cur]) = wire[cur][1]
      BY <2>1
  <2> QED BY <1>1, <1>4, <2>1, <2>2, HeadTailProperties DEF Wires
<1>5. ASSUME NEW r \in Responses, IsAnswer(r), r.req >= cur
      PROVE  /\ Reaches(got \o <<r>>, cur)
             /\ \A h \in Seq(Responses) : Reaches(h \o <<r>>, cur)
  <2>1. Len(<<r>>) = 1 /\ <<r>>[1] = r
      OBVIOUS
  <2>2. Reaches(<<r>>, cur)
      BY <1>5, <2>1 DEF Reaches
  <2> QED BY <1>1, <1>2, <2>2, ReachesMore
<1>6. CASE ReadResponse
  <2>1. /\ respPc = "handle" /\ hs = "read" /\ hs' = "deliver" /\ UNCHANGED <<got, held>>
        /\ rs' = Head(wire[cur]) /\ wire' = [wire EXCEPT ![cur] = Tail(@)]
        /\ wire[cur] # <<>> /\ held = <<>> /\ UNCHANGED <<tvars, served, srvFin, raw>>
      BY <1>6 DEF ReadResponse, Reading, Buffers
  <2>2. Pipe' = Pipe
    <3>1. Pipe' = Flow(got, <<>>, <<Head(wire[cur])>>, Tail(wire[cur]))
        BY <1>4, <2>1 DEF Pipe, InHand
    <3>2. Pipe = Flow(got, <<>>, <<>>, wire[cur])
        BY <2>1 DEF Pipe, InHand
    <3> QED BY <1>1, <1>4, <2>1, <3>1, <3>2, FlowMoves
  <2>3. Reached'
      BY <1>4, <2>1 DEF Reading, Reached
  <2> QED BY <2>1, <2>2, <2>3, PipeMoved DEF Buffers
<1>7. CASE CopyRaw
  <2> DEFINE x == Head(wire[cur])
             v == Tail(wire[cur])
             n == cur - 1 + served[cur]
  <2>1. /\ respPc = "handle" /\ hs \in {"read", "tunnel"} /\ hs' = "tunnel"
        /\ wire' = [wire EXCEPT ![cur] = Tail(@)]
        /\ wire[cur] # <<>> /\ held = <<>> /\ held' = held
        /\ UNCHANGED <<tvars, served, srvFin, raw>>
        /\ \/ got' = Receive(<<x>>) \/ got' = Receive(<<Garbled(x)>>)
           \/ got' = got /\ x.code = "raw"
      BY <1>7 DEF CopyRaw, Reading, Buffers
  <2>2. x \in Responses /\ v \in Seq(Responses) /\ n \in Nat /\ Garbled(x) \in Responses
      BY <1>1, <1>4, <2>1, HeadTailProperties, GarbledType
  <2>3. x.code = "raw" => x.req \in Skipped
    <3>1. 1 \in 1..Len(wire[cur]) /\ x = wire[cur][1]
        BY <1>1, <1>4, <2>1, EmptySeq
    <3> QED BY <1>1, <2>1, <3>1 DEF Wires, Skipped
  <2>4. wire'[cur] = v
      BY <1>4, <2>1
  <2>5. Pipe = Flow(got, <<>>, <<>>, wire[cur])
      BY <2>1 DEF Pipe, InHand
  <2>6. Pipe = Flow(got \o <<x>>, <<>>, <<>>, v)
      BY <1>1, <1>4, <2>1, <2>5, FlowMoves
  <2> HIDE DEF x, v, n
  <2>7. ASSUME conn = "open" PROVE Seg(Pipe', 0, n, Skipped) /\ Reached'
    <3>1. Seg(Flow(got \o <<x>>, <<>>, <<>>, v), 0, n, Skipped)
        BY <2>1, <2>6, <2>7 DEF Reading, Streaming, n
    <3>2. /\ Seg(Flow(got \o <<Garbled(x)>>, <<>>, <<>>, v), 0, n, Skipped)
          /\ x.req \in Skipped => Seg(Flow(got, <<>>, <<>>, v), 0, n, Skipped)
        BY <1>1, <2>2, <3>1, FlowGarbled
    <3>3. Pipe' = Flow(got', <<>>, <<>>, v)
        BY <2>1, <2>4 DEF Pipe, InHand
    <3>4. \/ got' = got \o <<x>> \/ got' = got \o <<Garbled(x)>>
          \/ got' = got /\ x.code = "raw"
        BY <1>2, <1>3, <2>1, <2>2, <2>7
    <3>5. Seg(Pipe', 0, n, Skipped)
        BY <2>3, <3>1, <3>2, <3>3, <3>4
    <3>6. Reaches(got, cur) => Reaches(got', cur)
        BY <1>1, <1>2, <2>2, <3>4, ReachesMore
    <3>7. Reached'
        BY <2>1, <2>7, <3>6 DEF Reading, Reached
    <3> QED BY <3>5, <3>7
  <2> QED BY <2>1, <2>7, PipeMoved DEF Buffers, n
<1>8. CASE DeliverHead
  <2> DEFINE n == cur - 1 + served[cur]
  <2>1. /\ respPc = "handle" /\ hs = "deliver"
        /\ held = <<>> /\ UNCHANGED <<held, rs, wire, served, srvFin, raw>>
        /\ UNCHANGED <<routing, respPc, cur, conn>>
        /\ got' = Receive(<<rs>>) \/ got' = Receive(<<Garbled(rs)>>)
        /\ \/ routing /\ IsAnswer(rs) /\ hs' = "respond"
           \/ target' = target /\ (hs' = "respond" \/ (hs' = "body" /\ IsAnswer(rs)))
      BY <1>8 DEF DeliverHead, ForceClose, AwaitsBody, IsAnswer, Reading, Buffers
  <2>2. PICK q \in Responses :
          /\ got' = Receive(<<q>>)
          /\ q = rs \/ q = Garbled(rs)
          /\ q.req = rs.req /\ (IsAnswer(q) <=> IsAnswer(rs))
      BY <1>1, <2>1, GarbledType
  <2>3. n \in Nat /\ wire[cur] \in Seq(Responses)
      BY <1>1, <2>1
  <2> HIDE DEF n
  <2>4. ASSUME conn = "open" PROVE Seg(Pipe', 0, n, Skipped) /\ Reached'
    <3>1. got' = got \o <<q>>
        BY <2>2, <2>4 DEF Receive
    <3>2. Pipe' = Flow(got \o <<q>>, <<>>, <<>>, wire[cur])
        BY <2>1, <3>1 DEF Pipe, InHand
    <3>3. Pipe = Flow(got, <<>>, <<rs>>, wire[cur])
        BY <2>1 DEF Pipe, InHand
    <3>4. Seg(Flow(got \o <<rs>>, <<>>, <<>>, wire[cur]), 0, n, Skipped)
        BY <1>w, <2>1, <2>4, <3>3 DEF Reading, Streaming, n
    <3>5. Seg(Flow(got \o <<Garbled(rs)>>, <<>>, <<>>, wire[cur]), 0, n, Skipped)
        BY <1>1, <2>3, <3>4, FlowGarbled
    <3>6. Seg(Pipe', 0, n, Skipped)
        BY <2>2, <3>2, <3>4, <3>5
    <3>7. /\ Reaches(got, cur) => Reaches(got', cur)
          /\ IsAnswer(rs) => Reaches(got', cur) /\ Reaches(got' \o held', cur)
      <4>0. got' \in Seq(Responses)
          BY <1>1, <1>2, <3>1, ConcatProperties
      <4>1. got' \o held' = got'
          BY <2>1, <4>0, ConcatEmptySeq
      <4>2. IsAnswer(rs) => IsAnswer(q) /\ q.req >= cur
          BY <2>1, <2>2, <2>4 DEF Reading, Reached
      <4> QED BY <1>1, <1>2, <1>5, <3>1, <4>1, <4>2, ReachesMore
    <3>8. Reached'
        BY <2>1, <2>4, <3>7 DEF Reading, Reached
    <3> QED BY <3>6, <3>8
  <2>5. Buffers'
      BY <2>1 DEF Buffers
  <2> QED BY <2>1, <2>4, <2>5, PipeMoved DEF n
<1>9. CASE Deliver
  <2>1. /\ respPc = "handle" /\ hs = "deliver" /\ held = <<>>
        /\ UNCHANGED <<tvars, rs, wire, served, srvFin, raw>>
        /\ \/ held' = <<rs>> /\ hs' = "body" /\ got' = got /\ IsAnswer(rs)
           \/ got' = Receive(<<rs>>) /\ hs' = "respond" /\ held' = held
      BY <1>9 DEF Deliver, AwaitsBody, IsAnswer, Reading, Buffers
  <2>2. ASSUME conn = "open" PROVE Pipe' = Pipe /\ Reached'
    <3>1. Pipe = Flow(got, <<>>, <<rs>>, wire[cur]) /\ wire[cur] \in Seq(Responses)
        BY <1>1, <2>1 DEF Pipe, InHand
    <3>2. IsAnswer(rs) => rs.req >= cur
        BY <2>1, <2>2 DEF Reading, Reached
    <3>3. CASE held' = <<rs>> /\ hs' = "body" /\ got' = got /\ IsAnswer(rs)
      <4>1. Pipe' = Flow(got, <<rs>>, <<>>, wire[cur])
          BY <2>1, <3>3 DEF Pipe, InHand
      <4>2. Reaches(got' \o held', cur)
          BY <1>1, <1>5, <3>2, <3>3
      <4>3. Reached'
          BY <2>1, <2>2, <3>3, <4>2 DEF Reading, Reached
      <4> QED BY <1>w, <2>1, <3>1, <4>1, <4>3
    <3>4. CASE got' = Receive(<<rs>>) /\ hs' = "respond" /\ held' = held
      <4>1. got' = got \o <<rs>>
          BY <1>1, <1>2, <1>3, <2>2, <3>4
      <4>2. Pipe' = Flow(got \o <<rs>>, <<>>, <<>>, wire[cur])
          BY <2>1, <3>4, <4>1 DEF Pipe, InHand
      <4>3. /\ Reaches(got, cur) => Reaches(got', cur)
            /\ IsAnswer(rs) => Reaches(got', cur)
          BY <1>1, <1>2, <1>5, <3>2, <4>1, ReachesMore
      <4>4. Reached'
          BY <2>1, <2>2, <3>4, <4>3 DEF Reading, Reached
      <4> QED BY <1>w, <2>1, <3>1, <4>2, <4>4
    <3> QED BY <2>1, <3>3, <3>4
  <2>3. Buffers'
      BY <2>1 DEF Buffers
  <2> QED BY <2>1, <2>2, <2>3, PipeMoved
<1>10. CASE SwallowResponse
  <2> DEFINE x == Head(wire[cur])
             v == Tail(wire[cur])
             n == cur - 1 + served[cur]
  <2>1. /\ respPc = "handle" /\ hs = "body" /\ wire[cur] # <<>>
        /\ wire' = [wire EXCEPT ![cur] = Tail(@)]
        /\ UNCHANGED <<tvars, rs, served, srvFin, raw>>
        /\ \/ /\ got' = Receive(Append(held, x)) \/ got' = Receive(Append(held, Garbled(x)))
              /\ held' = <<>> /\ hs' \in {"body", "respond"}
           \/ held' = Append(held, x) /\ UNCHANGED <<got, hs>>
      BY <1>10 DEF SwallowResponse
  <2>2. /\ x \in Responses /\ Garbled(x) \in Responses /\ n \in Nat
        /\ v \in Seq(Responses) /\ wire'[cur] = v
      BY <1>1, <1>4, <2>1, GarbledType, HeadTailProperties
  <2>3. Pipe = Flow(got, held, <<>>, wire[cur]) /\ wire[cur] \in Seq(Responses)
      BY <1>1, <2>1 DEF Pipe, InHand
  <2>4. /\ Pipe = Flow(got \o Append(held, x), <<>>, <<>>, v)
        /\ Pipe = Flow(got, Append(held, x), <<>>, v)
    <3>1. PICK y \in Seq(Responses) : y = wire[cur]
        BY <2>3
    <3>2. /\ Flow(got, Append(held, Head(y)), <<>>, Tail(y)) = Flow(got, held, <<>>, y)
          /\ Flow(got \o Append(held, Head(y)), <<>>, <<>>, Tail(y)) = Flow(got, held, <<>>, y)
        BY <1>1, <2>1, <3>1, FlowMoves
    <3> QED BY <2>3, <3>1, <3>2
  <2> HIDE DEF x, v, n
  <2>5. ASSUME NEW q \in Responses
        PROVE  /\ Append(held, q) \in Seq(Responses)
               /\ got \o Append(held, q) \in Seq(Responses)
               /\ Reaches(got \o held, cur) => Reaches(got \o Append(held, q), cur)
    <3>1. <<q>> \in Seq(Responses) /\ Append(held, q) = held \o <<q>>
          /\ Append(held, q) \in Seq(Responses)
        BY <1>1, AppendIsConcat, AppendProperties
    <3>2. got \o Append(held, q) \in Seq(Responses) /\ got \o held \in Seq(Responses)
        BY <1>1, <3>1, ConcatProperties
    <3>3. (got \o held) \o <<q>> = got \o (held \o <<q>>)
        BY <1>1, <3>1, ConcatAssociative
    <3>4. Reaches(got \o held, cur) => Reaches((got \o held) \o <<q>>, cur)
        BY <1>1, <3>1, <3>2, ReachesMore
    <3> QED BY <3>1, <3>2, <3>3, <3>4
  <2>6. ASSUME conn = "open" PROVE Seg(Pipe', 0, n, Skipped) /\ Reached'
    <3>1. Seg(Pipe, 0, n, Skipped) /\ Reaches(got \o held, cur)
        BY <2>1, <2>6 DEF Reading, Streaming, Reached, n
    <3>2. CASE /\ got' = Receive(Append(held, x)) \/ got' = Receive(Append(held, Garbled(x)))
               /\ held' = <<>> /\ hs' \in {"body", "respond"}
      <4>1. PICK q \in Responses :
              /\ got' = Receive(Append(held, q))
              /\ q = x \/ q = Garbled(x)
          BY <2>2, <3>2
      <4>2. got' = got \o Append(held, q) /\ Reaches(got', cur) /\ got' \in Seq(Responses)
          BY <2>5, <2>6, <3>1, <4>1 DEF Receive
      <4>3. got' \o held' = got'
          BY <3>2, <4>2, ConcatEmptySeq
      <4>4. Pipe' = Flow(got \o Append(held, q), <<>>, <<>>, v)
          BY <2>1, <2>2, <3>2, <4>2 DEF Pipe, InHand
      <4>5. Seg(Flow(got \o Append(held, x), <<>>, <<>>, v), 0, n, Skipped)
          BY <2>4, <3>1
      <4>6. Seg(Flow(got \o Append(held, Garbled(x)), <<>>, <<>>, v), 0, n, Skipped)
          BY <1>1, <2>2, <4>5, FlowGarbled
      <4>7. Seg(Pipe', 0, n, Skipped)
          BY <4>1, <4>4, <4>5, <4>6
      <4>8. Reached'
          BY <2>1, <2>6, <3>2, <4>2, <4>3 DEF Reading, Reached
      <4> QED BY <4>7, <4>8
    <3>3. CASE held' = Append(held, x) /\ UNCHANGED <<got, hs>>
      <4>1. Pipe' = Flow(got, Append(held, x), <<>>, v)
          BY <2>1, <2>2, <3>3 DEF Pipe, InHand
      <4>2. Reaches(got' \o held', cur)
          BY <2>2, <2>5, <3>1, <3>3
      <4>3. Reached'
          BY <2>1, <2>6, <3>3, <4>2 DEF Reading, Reached
      <4> QED BY <2>4, <3>1, <4>1, <4>3
    <3> QED BY <2>1, <3>2, <3>3
  <2>7. Buffers'
      BY <2>1 DEF Buffers
  <2> QED BY <2>1, <2>6, <2>7, PipeMoved DEF n
<1>11. CASE BodyFails
  <2>1. /\ respPc = "handle" /\ hs = "body" /\ hs' = "respond" /\ got' = Receive(held)
        /\ held' = <<>> /\ UNCHANGED <<tvars, rs, wire, served, srvFin, raw>>
      BY <1>11 DEF BodyFails
  <2>2. ASSUME conn = "open" PROVE Pipe' = Pipe /\ Reached'
    <3>1. got' = got \o held
        BY <1>1, <1>3, <2>1, <2>2
    <3>2. Pipe' = Flow(got \o held, <<>>, <<>>, wire[cur])
        BY <2>1, <3>1 DEF Pipe, InHand
    <3>3. Pipe = Flow(got, held, <<>>, wire[cur])
        BY <2>1 DEF Pipe, InHand
    <3>4. Pipe' = Pipe
        BY <1>w, <2>1, <3>2, <3>3
    <3>5. Reached'
        BY <2>1, <2>2, <3>1 DEF Reading, Reached
    <3> QED BY <3>4, <3>5
  <2> QED BY <2>1, <2>2, PipeMoved DEF Buffers
<1>12. CASE SetHTTPResponse \/ StopRequest \/ FinishSpan
  <2>1. /\ respPc = "handle" /\ hs \in {"respond", "stop", "finish"}
        /\ hs' \in {"stop", "finish", "after"}
        /\ UNCHANGED <<tvars, got, held, rs, wire, served, srvFin, raw>>
      BY <1>12 DEF SetHTTPResponse, StopRequest, FinishSpan
  <2>2. Pipe' = Pipe
      BY <2>1 DEF Pipe, InHand
  <2>3. Reached'
      BY <2>1 DEF Reading, Reached
  <2>4. Buffers'
      BY <2>1 DEF Reading, Buffers
  <2> QED BY <2>1, <2>2, <2>3, <2>4, PipeMoved
<1>13. CASE AfterResponse
  <2>1. /\ respPc = "handle" /\ hs = "after" /\ hs' = "read"
        /\ UNCHANGED <<got, held, wire, served, srvFin, raw>>
        /\ UNCHANGED <<routing, respPc, cur, conn>>
        /\ (routing /\ IsAnswer(rs)) \/ target' = target
      BY <1>13 DEF AfterResponse, ForceClose, IsAnswer
  <2>2. Pipe' = Pipe
      BY <2>1 DEF Pipe, InHand
  <2>3. Reached'
      BY <2>1 DEF Reading, Reached
  <2>4. Buffers'
      BY <2>1 DEF Reading, Buffers
  <2> QED BY <2>1, <2>2, <2>3, <2>4, PipeMoved
<1>14. CASE ResponseEnds
  <2>1. /\ respPc = "handle" /\ respPc' = "close" /\ hs \in {"read", "tunnel"} /\ hs' = "read"
        /\ UNCHANGED <<got, held, wire, served, srvFin, raw, arrived, routing, cur, conn>>
        /\ target[cur] = "closed" \/ (srvFin[cur] /\ wire[cur] = <<>>)
      BY <1>14 DEF ResponseEnds, ReturnResponse
  <2>2. Buffers' /\ Streaming' /\ Reached' /\ Skipped' = Skipped
      BY <2>1 DEF Reading, Buffers, Streaming, Reached, Skipped
  <2>3. ASSUME conn = "open", routing, ~(Len(arrived[cur]) >= 2)
        PROVE  Seg(got, 0, cur, Skipped)
    <3>1. /\ cur \in Conns /\ wire[cur] \in Seq(Responses) /\ served[cur] \in Nat
          /\ cur \in Nat /\ cur >= 1
        BY <1>1, <2>1 DEF Conns
    <3>2. Len(arrived[cur]) \in Nat /\ served[cur] \in {0, 1}
      <4>1. arrived[cur] \in Seq(Reqs) /\ served[cur] <= Len(arrived[cur])
          BY <3>1 DEF HTTPInv, HTTPTypeOK, Counts
      <4> QED BY <2>3, <3>1, <4>1, LenProperties
    <3>3. Pipe = got \o wire[cur]
      <4>1. Pipe = ((got \o <<>>) \o <<>>) \o wire[cur]
          BY <2>1 DEF Pipe, Flow, InHand, Reading, Buffers
      <4> QED BY <1>1, <4>1, ConcatEmptySeq
    <3>4. PICK n \in Nat : n = cur - 1 + served[cur] /\ Seg(got \o wire[cur], 0, n, Skipped)
        BY <1>1, <2>1, <2>3, <3>3 DEF Reading, Streaming
    <3>5. CASE target[cur] = "closed"
      <4>1. Reaches(got, cur)
          BY <2>1, <2>3, <3>5 DEF Reading, Reached
      <4>2. served[cur] = 1
        <5> SUFFICES ASSUME served[cur] = 0 PROVE FALSE
            BY <3>2
        <5>1. PICK k \in 1..Len(got) : IsAnswer(got[k]) /\ got[k].req >= cur
            BY <4>1 DEF Reaches
        <5>2. k \in 1..Len(got \o wire[cur]) /\ (got \o wire[cur])[k] = got[k]
            BY <1>1, <3>1, LenProperties, ConcatProperties
        <5>3. got[k].req <= n /\ got[k].req \in Nat
            BY <1>1, <3>4, <5>1, <5>2, ReqNat DEF Seg
        <5> QED BY <3>1, <3>4, <5>1, <5>3
      <4>3. n = cur
          BY <3>1, <3>4, <4>2
      <4> QED BY <1>1, <3>1, <3>4, <4>1, <4>3, SegPrefix
    <3>6. CASE srvFin[cur] /\ wire[cur] = <<>>
      <4>1. Seg(got, 0, n, Skipped) /\ cur \in Skipped
          BY <1>1, <2>3, <3>1, <3>4, <3>6, ConcatEmptySeq DEF Skipped
      <4>2. n = cur \/ n + 1 = cur
          BY <3>1, <3>2, <3>4
      <4> QED BY <1>1, <4>1, <4>2, SegSkip
    <3> QED BY <2>1, <3>5, <3>6
  <2>4. Passed'
    <3>1. cur # nil
        BY <1>1, <2>1 DEF Conns, nil
    <3> QED BY <2>1, <2>2, <2>3, <3>1 DEF Passed
  <2> QED BY <2>2, <2>4 DEF Reading
<1>15. CASE RecvCall /\ UNCHANGED hvars
  <2>1. UNCHANGED <<got, held, hs, rs, wire, served, srvFin, raw, arrived>>
      BY <1>15 DEF hvars, handleResponse
  <2>2. /\ respPc = "recv" /\ respPc' = "handle" /\ UNCHANGED <<routing, conn, target>>
        /\ routing /\ callCh # <<>>
      BY <1>1, <1>15 DEF RecvCall, IInv, Control
  <2>3. cur' = cur + 1 /\ cur' \in Conns
      BY <1>1, <1>15, RecvCallOrder DEF IInv
  <2>4. CASE conn = "open"
    <3>1. Seg(got, 0, cur, Skipped)
      <4> SUFFICES ASSUME cur # nil, Len(arrived[cur]) >= 2 PROVE FALSE
          BY <2>2, <2>4 DEF Reading, Passed
      <4>1. cur \in Conns
          BY <1>1, MaxConnsAssumption DEF IInv, TypeOK, Conns, nil
      <4>2. cur = dialled
          BY <2>2, <4>1 DEF Arrivals
      <4>3. Len(callCh) \in Nat \ {0}
          BY <1>1, <2>2, EmptySeq DEF IInv, TypeOK
      <4>4. dialled = cur + Len(callCh) + Bit(hcPc \in {"sendConn", "enqueue"})
          BY <1>1 DEF IInv, Order
      <4> QED BY <1>1, <4>2, <4>3, <4>4 DEF Bit
    <3>2. target'[cur'] # "closed"
      <4>1. cur' > cur
          BY <1>1, <2>3
      <4> QED BY <2>2, <2>3, <2>4, <4>1 DEF Wires
    <3> QED BY <2>1, <2>2, <2>3, <2>4, <3>1, <3>2, NextUpstream
  <2>5. CASE conn # "open"
      BY <2>1, <2>2, <2>5 DEF Reading, Buffers, Streaming, Reached, Passed
  <2> QED BY <2>4, <2>5
<1>16. CASE (RangeEnds \/ CloseResponse) /\ UNCHANGED hvars
  <2>1. UNCHANGED <<got, held, hs, rs, wire, served, srvFin, raw, arrived>>
      BY <1>16 DEF hvars, handleResponse
  <2>2. /\ respPc \in {"recv", "close"} /\ respPc' \in {"recv", "done"}
        /\ UNCHANGED <<routing, cur>>
        /\ conn' = "open" => conn = "open" /\ routing
      BY <1>1, <1>16 DEF RangeEnds, CloseResponse, IInv, Control
  <2>3. Skipped' = Skipped
      BY <2>1, <2>2 DEF Skipped
  <2> QED BY <2>1, <2>2, <2>3 DEF Reading, Buffers, Streaming, Reached, Passed
<1> QED BY <1>6, <1>7, <1>8, <1>9, <1>10, <1>11, <1>12, <1>13, <1>14, <1>15, <1>16
    DEF HTTPResponse

-----------------------------------------------------------------------------
(* The client receives something only while an upstream is being read.     *)
LEMMA GotStep ==
    ASSUME HTTPNext \/ UNCHANGED svars
    PROVE  got' = got \/ (conn' = "open" /\ respPc' = "handle")
<1> USE DEF tvars, hvars
<1>1. CASE HTTPBroker \/ HTTPFinished \/ UNCHANGED svars
    BY <1>1 DEF HTTPBroker, HTTPFinished, svars
<1>2. CASE HTTPRequest
    BY <1>2 DEF HTTPRequest, ReadRequest, ReadBadRequest, ReadEnds, SetRemoteAddr,
       SetHTTPRequest, PeekRequest, PushSpan, WriteRequest, WriteBody, Fallback,
       FallbackEnds
<1>3. CASE HTTPPeers
    BY <1>3 DEF HTTPPeers, ClientSends, ClientSendsBody, ClientCloses, ServerCloses,
       ServerContinues, ServerAnswers
<1>4. CASE HTTPResponse
    BY <1>4 DEF HTTPResponse, ReadResponse, CopyRaw, ResponseEnds, DeliverHead,
       Deliver, SwallowResponse, BodyFails, SetHTTPResponse, StopRequest,
       FinishSpan, AfterResponse, Receive, ForceClose
<1> QED BY <1>1, <1>2, <1>3, <1>4 DEF HTTPNext

(* A server that has closed stays closed, and a raw answer one.            *)
LEMMA SkippedGrows ==
    ASSUME HTTPInv, HTTPNext \/ UNCHANGED svars PROVE Skipped \subseteq Skipped'
<1>1. srvFin \in [Conns -> BOOLEAN]
    BY DEF HTTPInv, HTTPTypeOK
<1>2. srvFin' = srvFin \/ \E t \in Conns : ServerCloses(t)
  <2> USE DEF hvars, server
  <2>1. CASE HTTPBroker \/ HTTPFinished \/ UNCHANGED svars
      BY <2>1 DEF HTTPBroker, HTTPFinished, svars
  <2>2. CASE HTTPRequest
      BY <2>2 DEF HTTPRequest, ReadRequest, ReadBadRequest, ReadEnds, SetRemoteAddr,
         SetHTTPRequest, PeekRequest, PushSpan, WriteRequest, WriteBody, Fallback,
         FallbackEnds
  <2>3. CASE HTTPPeers
      BY <2>3 DEF HTTPPeers, ClientSends, ClientSendsBody, ClientCloses,
         ServerContinues, ServerAnswers
  <2>4. CASE HTTPResponse
      BY <2>4 DEF HTTPResponse, ReadResponse, CopyRaw, ResponseEnds, DeliverHead,
         Deliver, SwallowResponse, BodyFails, SetHTTPResponse, StopRequest,
         FinishSpan, AfterResponse
  <2> QED BY <2>1, <2>2, <2>3, <2>4 DEF HTTPNext
<1>3. \A t \in Conns : srvFin[t] => srvFin'[t]
    BY <1>1, <1>2 DEF ServerCloses
<1>4. routing' = routing
  <2>1. [Next]_tvars
      BY HTTPStep DEF svars
  <2> QED BY <2>1 DEF Next, Broker, Request, Response, Finished, tvars,
       SetupFails, StartRouted, StartDirect, SendAddr, DialOK, DialFails, SendConn,
       SendNil, Enqueue, AddrClosed, Cleanup, AskConn, ReturnRequest, CloseAddr,
       CloseRequest, RecvCall, RangeEnds, ForceClose, ReturnResponse, CloseResponse
<1> QED BY <1>3, <1>4, RawGrows DEF Skipped

(* OrderInv holds at the start ...                                         *)
LEMMA InitOrderInv == HTTPInit => OrderInv
<1> SUFFICES ASSUME HTTPInit PROVE OrderInv
    OBVIOUS
<1>1. HTTPInv
    BY InitHTTPInv
<1>2. /\ reqPc = "idle" /\ respPc = "idle" /\ w = 0 /\ cur = 0 /\ rd = 0 /\ hr = "read"
      /\ hs = "read" /\ held = <<>> /\ got = <<>>
      /\ \A t \in Conns : /\ arrived[t] = <<>> /\ wire[t] = <<>> /\ served[t] = 0
                           /\ target[t] = "none"
    BY DEF HTTPInit, Init, nil
<1>3. Asking
    BY <1>2 DEF Asking, nil
<1>4. Len(<<>>) = 0
    BY EmptySeq
<1>5. Arrivals
    BY <1>2, <1>4 DEF Arrivals
<1>6. Wires
  <2>1. ASSUME NEW t \in Conns PROVE Seg(wire[t], t - 1, t - 1 + served[t], {})
    <3>1. PICK n \in Nat : n = t - 1 /\ n = t - 1 + served[t]
        BY <1>2, MaxConnsAssumption DEF Conns
    <3> QED BY <1>2, <3>1, SegEmpty
  <2> QED BY <1>2, <1>4, <2>1 DEF Wires
<1>7. Reading
  <2>1. Seg(got, 0, cur, Skipped)
      BY <1>2, SegEmpty
  <2> QED BY <1>2, <2>1 DEF Reading, Buffers, Streaming, Reached, Passed
<1>8. InOrder(got, Skipped)
    BY <1>2, <1>4 DEF InOrder
<1> QED BY <1>1, <1>3, <1>5, <1>6, <1>7, <1>8 DEF OrderInv

(* ... and is kept by every step.                                          *)
LEMMA NextOrderInv == OrderInv /\ [HTTPNext]_svars => OrderInv'
<1> SUFFICES ASSUME OrderInv, HTTPNext \/ UNCHANGED svars PROVE OrderInv'
    OBVIOUS
<1> USE DEF OrderInv
<1>1. HTTPInv'
    BY NextHTTPInv
<1>2. Wires'
    BY NextWires
<1>3. Asking' /\ Arrivals' /\ Reading'
  <2>1. CASE HTTPBroker
      BY <2>1, BrokerArrivals, BrokerReading
  <2>2. CASE HTTPRequest
      BY <2>2, RequestArrivals, RequestReading
  <2>3. CASE HTTPResponse
      BY <2>3, OthersArrivals, ResponseReading
  <2>4. CASE HTTPPeers
      BY <2>4, OthersArrivals, PeersReading
  <2>5. CASE HTTPFinished \/ UNCHANGED svars
    <3>1. UNCHANGED <<tvars, hvars>>
        BY <2>5 DEF HTTPFinished, svars
    <3>2. Asking' /\ Arrivals'
      <4>1. UNCHANGED <<routing, hcPc, reqPc, w, dialled, arrived, hr, rd, sent,
                        target, srvFin, raw>>
          BY <3>1 DEF tvars, hvars, client, server, handleRequest
      <4> QED BY <4>1, ArrivalsFrame
    <3>3. Reading'
      <4>1. /\ UNCHANGED <<got, held, hs, rs, wire, served, routing, respPc, cur>>
            /\ UNCHANGED <<conn, target, arrived, srvFin, raw>>
          BY <3>1 DEF tvars, hvars, server, handleResponse
      <4>2. Skipped' = Skipped
          BY <4>1 DEF Skipped
      <4> QED BY <4>1, <4>2, ReadingFrame
    <3> QED BY <3>2, <3>3
  <2> QED BY <2>1, <2>2, <2>3, <2>4, <2>5 DEF HTTPNext
<1>4. InOrder(got', Skipped')
  <2>1. CASE got' = got
      BY <2>1, SkippedGrows, InOrderMore
  <2>2. CASE conn' = "open" /\ respPc' = "handle"
    <3>1. /\ got' \in Seq(Responses) /\ held' \in Seq(Responses) /\ rs' \in Responses
          /\ wire'[cur'] \in Seq(Responses) /\ served'[cur'] \in Nat
          /\ cur' \in Nat /\ cur' >= 1
      <4>1. cur' \in Conns /\ cur' \in Nat /\ cur' >= 1
          BY <1>1, <2>2, MaxConnsAssumption DEF HTTPInv, IInv, TypeOK, Order, nil, Conns
      <4> QED BY <1>1, <4>1, MaxReqsAssumption, MaxConnsAssumption
          DEF HTTPInv, HTTPTypeOK
    <3>2. InHand' \in Seq(Responses)
        BY <3>1, EmptySeq DEF InHand
    <3>3. PICK u \in Seq(Responses) : Pipe' = got' \o u
      <4>1. Pipe' = Flow(got', held', InHand', wire'[cur'])
          BY DEF Pipe
      <4>2. StartsWith(Pipe', got')
          BY <3>1, <3>2, <4>1, FlowStart
      <4> QED BY <4>2 DEF StartsWith
    <3>4. PICK n \in Nat : n = cur' - 1 + served'[cur']
        BY <3>1
    <3>5. Seg(got' \o u, 0, n, Skipped')
        BY <1>3, <2>2, <3>3, <3>4 DEF Reading, Streaming
    <3> QED BY <3>1, <3>5, PrefixInOrder
  <2> QED BY <2>1, <2>2, GotStep
<1> QED BY <1>1, <1>2, <1>3, <1>4

(* The client receives the answers to its requests in the order in which   *)
(* it sent them, whole or garbled, and lacks one only if that request's    *)
(* own upstream closed or its answer went to the fallback: one response    *)
(* routine at a time, however many upstreams answer at once, and whatever  *)
(* HandleResponse mistakes for the body of a HEAD response.                *)
THEOREM AnswersComeInOrder == HTTPSpec => []AnswersInOrder
<1>1. OrderInv => AnswersInOrder
  <2> SUFFICES ASSUME OrderInv, NEW k \in 1..Len(got), IsAnswer(got[k])
               PROVE  /\ \A j \in 1..(k - 1) : IsAnswer(got[j]) => got[j].req < got[k].req
                      /\ \A i \in 1..(got[k].req - 1) :
                            \/ \E j \in 1..(k - 1) : IsAnswer(got[j]) /\ got[j].req = i
                            \/ i \in raw
                            \/ routing /\ srvFin[i]
      BY DEF AnswersInOrder
  <2> QED BY DEF OrderInv, InOrder, Skipped
<1> QED BY <1>1, InitOrderInv, NextOrderInv, PTL DEF HTTPSpec
=============================================================================
