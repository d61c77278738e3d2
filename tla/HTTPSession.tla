----------------------------- MODULE HTTPSession -----------------------------
(***************************************************************************)
(* A session of the HTTP protocol: Transport with the bodies of            *)
(* HTTPHandler.HandleRequest and HTTPHandler.HandleResponse and the        *)
(* NetHTTPRequest they share (pkg/protocol/http.go).                       *)
(*                                                                         *)
(* Requests are numbered in the order the client sends them.  What the     *)
(* control flow depends on is a request's kind: "get" (anything plain),    *)
(* "head", "expect" (Expect: 100-continue, with a body), "upgrade", or     *)
(* "bad" (ReadRequest cannot parse it).  A response is the request it      *)
(* answers and a code: "continue" (status 100), "final", or "raw" (it      *)
(* cannot be parsed or says Connection: upgrade, whatever was asked).  The *)
(* answer to a HEAD request announces a body and has none; other bodies    *)
(* are well formed (HTTPRelay has those that are not).  What the client    *)
(* gets of a response is the response or "garbled": part of it is missing, *)
(* or it comes with bytes that are not its own.                            *)
(*                                                                         *)
(* Steps of a goroutine are separate where it touches state another one    *)
(* uses.  Client and servers are external and may be silent for ever.      *)
(***************************************************************************)
EXTENDS Transport

CONSTANTS
    MaxReqs,     \* bound: requests in one session
    Load,        \* the client's part, for each mode: how many requests it
                 \*   sends at most and which kinds it uses
    Pipelining   \* may the client send before it has all its answers?

Kinds == {"get", "head", "expect", "upgrade", "bad"}

ASSUME MaxReqsAssumption == MaxReqs \in 1..MaxConns
ASSUME LoadAssumption ==
    Load \in [BOOLEAN -> [max : 1..MaxReqs, kinds : SUBSET Kinds]]
ASSUME PipeliningAssumption == Pipelining \in BOOLEAN

VARIABLES
    sent, bodySent, cliFin, got,     \* client: requests sent (their kinds),
                                     \*   is no body owed, has it closed,
                                     \*   responses it has received
    arrived, served, cont, raw, wire, srvFin, \* each upstream: requests
                                     \*   received, number answered, 100s and
                                     \*   raw answers sent, responses not read
                                     \*   yet, has it closed
    hr, rd, peeked,                  \* HandleRequest: program point, request
                                     \*   in hand, what StartRequest peeked
    hs, rs, held, lost, stopped,     \* HandleResponse: program point, response
                                     \*   in hand, responses in bufioWriter,
                                     \*   has it lost the message boundaries,
                                     \*   what StopRequest popped
    httpRequests, httpResponses, spans, remoteAddr, finished  \* NetHTTPRequest

client == <<sent, bodySent, cliFin>>
server == <<arrived, served, cont, raw, srvFin>>
handleRequest == <<hr, rd, peeked>>
handleResponse == <<hs, rs, held, lost, stopped>>
netRequest == <<httpRequests, httpResponses, spans, remoteAddr, finished>>
hvars == <<client, got, server, wire, handleRequest, handleResponse, netRequest>>
svars == <<tvars, hvars>>

Reqs == 1..MaxReqs
NoResponse == [req |-> nil, code |-> "none"]

HTTPInit ==
    /\ Init
    /\ sent = <<>> /\ bodySent = TRUE /\ cliFin = FALSE /\ got = <<>>
    /\ arrived = [t \in Conns |-> <<>>] /\ served = [t \in Conns |-> 0]
    /\ wire = [t \in Conns |-> <<>>]
    /\ cont = {} /\ raw = {} /\ srvFin = [t \in Conns |-> FALSE]
    /\ hr = "read" /\ rd = 0 /\ peeked = nil
    /\ hs = "read" /\ rs = NoResponse /\ held = <<>> /\ lost = FALSE
    /\ stopped = [req |-> nil, resp |-> NoResponse]
    /\ httpRequests = <<>> /\ httpResponses = <<>> /\ spans = <<>>
    /\ remoteAddr = nil /\ finished = <<>>

-----------------------------------------------------------------------------
(* Queue: Peek and Pop return nothing on an empty queue.                   *)
Front(q, nothing) == IF q = <<>> THEN nothing ELSE Head(q)
Rest(q) == IF q = <<>> THEN q ELSE Tail(q)

(* What the client has received when responses s are written to conn.      *)
Receive(s) == IF conn = "open" THEN got \o s ELSE got

IsAnswer(r) == r.code # "continue"
Answers(s) == SelectSeq(s, IsAnswer)

Garbled(r) == IF IsAnswer(r) THEN [r EXCEPT !.code = "garbled"] ELSE r

(***************************************************************************)
(* Client and servers                                                      *)
(***************************************************************************)

(* Nothing parseable follows an upgrade or an unparseable request.         *)
ClientSends ==
    /\ ~cliFin /\ bodySent /\ conn = "open" /\ Len(sent) < Load[routing].max
    /\ \A i \in 1..Len(sent) : sent[i] \notin {"upgrade", "bad"}
    /\ Pipelining \/ Len(Answers(got)) = Len(sent)
    /\ \E k \in Load[routing].kinds :
          sent' = Append(sent, k) /\ bodySent' = (k # "expect")
    /\ UNCHANGED <<tvars, cliFin, got, server, wire, handleRequest,
                   handleResponse, netRequest>>

ClientSendsBody ==
    /\ ~cliFin /\ ~bodySent
    /\ bodySent' = TRUE
    /\ UNCHANGED <<tvars, sent, cliFin, got, server, wire, handleRequest,
                   handleResponse, netRequest>>

ClientCloses ==
    /\ ~cliFin /\ cliFin' = TRUE
    /\ UNCHANGED <<tvars, sent, bodySent, got, server, wire, handleRequest,
                   handleResponse, netRequest>>

(* The first unanswered request at upstream t.                             *)
Unanswered(t) == arrived[t][served[t] + 1]

ServerContinues(t) ==
    /\ target[t] = "open" /\ ~srvFin[t] /\ served[t] < Len(arrived[t])
    /\ sent[Unanswered(t)] = "expect" /\ Unanswered(t) \notin cont
    /\ cont' = cont \union {Unanswered(t)}
    /\ wire' = [wire EXCEPT ![t] =
                  Append(@, [req |-> Unanswered(t), code |-> "continue"])]
    /\ UNCHANGED <<tvars, client, got, arrived, served, raw, srvFin,
                   handleRequest, handleResponse, netRequest>>

(* A request of any kind may get an answer of either kind: also an upgrade *)
(* may be declined, and a GET be answered with what is not HTTP.           *)
ServerAnswers(t) ==
    /\ target[t] = "open" /\ ~srvFin[t] /\ served[t] < Len(arrived[t])
    /\ served' = [served EXCEPT ![t] = @ + 1]
    /\ \E c \in {"final", "raw"} :
          /\ wire' = [wire EXCEPT ![t] =
                         Append(@, [req |-> Unanswered(t), code |-> c])]
          /\ raw' = IF c = "raw" THEN raw \union {Unanswered(t)} ELSE raw
    /\ UNCHANGED <<tvars, client, got, arrived, cont, srvFin, handleRequest,
                   handleResponse, netRequest>>

ServerCloses(t) ==
    /\ t <= dialled /\ ~srvFin[t]
    /\ srvFin' = [srvFin EXCEPT ![t] = TRUE]
    /\ UNCHANGED <<tvars, client, got, arrived, served, cont, raw, wire,
                   handleRequest, handleResponse, netRequest>>

(***************************************************************************)
(* HTTPHandler.HandleRequest                                               *)
(***************************************************************************)

(* ReadRequest returns the next request.  In routing mode its destination  *)
(* is sent to the broker and w is received back before the handler goes    *)
(* on.  Requests in bufioHTTPReader are found even when r was closed.      *)
ReadRequest ==
    /\ reqPc = "handle" /\ hr = "read"
    /\ rd < Len(sent) /\ sent[rd + 1] # "bad"
    /\ rd' = rd + 1 /\ hr' = "addr"
    /\ IF routing THEN AskConn ELSE UNCHANGED tvars
    /\ UNCHANGED <<client, got, server, wire, peeked, handleResponse, netRequest>>

(* ReadRequest fails to parse: req is nil, so no upstream is asked for and *)
(* without one from an earlier request the handler returns.                *)
ReadBadRequest ==
    /\ reqPc = "handle" /\ hr = "read"
    /\ rd < Len(sent) /\ sent[rd + 1] = "bad"
    /\ rd' = rd + 1
    /\ \/ w = nil /\ ReturnRequest /\ UNCHANGED hr
       \/ w # nil /\ UNCHANGED tvars /\ hr' = "addr"
    /\ UNCHANGED <<client, got, server, wire, peeked, handleResponse, netRequest>>

(* Mutant: a closed client connection is not recognised.                   *)
ReadEndsOnlyOnEOF ==
    /\ hr = "read"
    /\ cliFin /\ rd = Len(sent) /\ conn = "open"
    /\ ReturnRequest
    /\ UNCHANGED hvars

(* io.EOF, or "use of closed network connection".                          *)
ReadEnds ==
    /\ hr = "read"
    /\ conn = "closed" \/ (cliFin /\ rd = Len(sent))
    /\ ReturnRequest
    /\ UNCHANGED hvars

(* netHTTPRequest.remoteAddr = w.RemoteAddr() (outbound sessions).         *)
SetRemoteAddr ==
    /\ reqPc = "handle" /\ hr = "addr"
    /\ remoteAddr' = w
    /\ hr' = IF sent[rd] \in {"bad", "upgrade"} THEN "fallback" ELSE "set"
    /\ UNCHANGED <<tvars, client, got, server, wire, rd, peeked, handleResponse,
                   httpRequests, httpResponses, spans, finished>>

SetHTTPRequest ==
    /\ reqPc = "handle" /\ hr = "set"
    /\ httpRequests' = Append(httpRequests, rd)
    /\ hr' = "start"
    /\ UNCHANGED <<tvars, client, got, server, wire, rd, peeked, handleResponse,
                   httpResponses, spans, remoteAddr, finished>>

(* Mutant: the empty queue is not considered.                              *)
PeekRequestUnchecked ==
    /\ reqPc = "handle" /\ hr = "start"
    /\ peeked' = Front(httpRequests, nil)
    /\ hr' = "span"
    /\ UNCHANGED <<tvars, client, got, server, wire, rd, handleResponse,
                   netRequest>>

(* StartRequest: the oldest request of the queue is looked at ...          *)
PeekRequest ==
    /\ reqPc = "handle" /\ hr = "start"
    /\ peeked' = Front(httpRequests, nil)
    /\ hr' = IF peeked' = nil THEN "write" ELSE "span"
    /\ UNCHANGED <<tvars, client, got, server, wire, rd, handleResponse,
                   netRequest>>

(* ... and a span with its operation and trace context is pushed.          *)
PushSpan ==
    /\ reqPc = "handle" /\ hr = "span"
    /\ spans' = Append(spans, [for |-> rd, from |-> peeked])
    /\ hr' = "write" /\ peeked' = nil
    /\ UNCHANGED <<tvars, client, got, server, wire, rd, handleResponse,
                   httpRequests, httpResponses, remoteAddr, finished>>

(* A write to upstream w arrives unless either end has closed it.          *)
Arrive ==
    arrived' = IF target[w] = "open" /\ ~srvFin[w]
               THEN [arrived EXCEPT ![w] = Append(@, rd)] ELSE arrived

(* req.Write(bufioWriter): an error is logged and the loop goes on.  The   *)
(* header of a request with a body is flushed before the body is copied.   *)
WriteRequest ==
    /\ reqPc = "handle" /\ hr = "write"
    /\ Arrive
    /\ hr' = IF sent[rd] = "expect" THEN "body" ELSE "read"
    /\ UNCHANGED <<tvars, client, got, served, cont, raw, srvFin, wire, rd, peeked,
                   handleResponse, netRequest>>

WriteBody ==
    /\ reqPc = "handle" /\ hr = "body"
    /\ bodySent \/ rd < Len(sent) \/ cliFin \/ conn = "closed"
    /\ hr' = "read"
    /\ UNCHANGED <<tvars, client, got, server, wire, rd, peeked, handleResponse,
                   netRequest>>

(* The TCP fallback: copy the recorded bytes, then the rest of the stream. *)
Fallback ==
    /\ reqPc = "handle" /\ hr = "fallback"
    /\ Arrive
    /\ hr' = "tunnel"
    /\ UNCHANGED <<tvars, client, got, served, cont, raw, srvFin, wire, rd, peeked,
                   handleResponse, netRequest>>

FallbackEnds ==
    /\ hr = "tunnel"
    /\ cliFin \/ conn = "closed"
    /\ ReturnRequest
    /\ UNCHANGED hvars

(***************************************************************************)
(* HTTPHandler.HandleResponse                                              *)
(***************************************************************************)

(* ReadResponse returns the next response of upstream cur.                 *)
ReadResponse ==
    /\ respPc = "handle" /\ hs = "read" /\ wire[cur] # <<>>
    /\ ~lost /\ Head(wire[cur]).code # "raw"
    /\ rs' = Head(wire[cur])
    /\ wire' = [wire EXCEPT ![cur] = Tail(@)]
    /\ hs' = "deliver"
    /\ UNCHANGED <<tvars, client, got, server, handleRequest, held, lost,
                   stopped, netRequest>>

(* ReadResponse fails, or the response is an upgrade: everything from here *)
(* on is copied, with the fallback's faults: what tmpWriter recorded of it *)
(* and bufioHTTPReader still holds is sent twice, and what was buffered    *)
(* before tmpWriter.Start and consumed by ReadResponse is not sent, be it  *)
(* a line of an unparseable response or all of one that says upgrade.      *)
CopyRaw ==
    /\ respPc = "handle" /\ wire[cur] # <<>>
    /\ hs = "tunnel" \/ (hs = "read" /\ (lost \/ Head(wire[cur]).code = "raw"))
    /\ \/ got' = Receive(<<Head(wire[cur])>>)
       \/ got' = Receive(<<Garbled(Head(wire[cur]))>>)
       \/ hs = "read" /\ ~lost /\ UNCHANGED got
    /\ wire' = [wire EXCEPT ![cur] = Tail(@)]
    /\ hs' = "tunnel"
    /\ UNCHANGED <<tvars, client, server, handleRequest, rs, held, lost,
                   stopped, netRequest>>

(* Nothing more can be read from the upstream: HandleResponse returns.  An *)
(* EOF is io.ErrUnexpectedEOF here, so the copy runs and copies nothing.   *)
ResponseEnds ==
    /\ respPc = "handle" /\ hs \in {"read", "tunnel"}
    /\ target[cur] = "closed" \/ (srvFin[cur] /\ wire[cur] = <<>>)
    /\ ReturnResponse
    /\ hs' = "read" /\ lost' = FALSE
    /\ UNCHANGED <<client, got, server, wire, handleRequest, rs, held, stopped,
                   netRequest>>

(* Does resp.Write wait for a body that never comes?                       *)
AwaitsBody == sent[rs.req] = "head" /\ rs.code = "final"

(* Mutant: in routing mode the upstream is closed before any response is   *)
(* written.                                                                *)
DeliverClosesFirst ==
    /\ respPc = "handle" /\ hs = "deliver" /\ routing /\ httpRequests # <<>>
    /\ ForceClose
    /\ \/ got' = Receive(<<rs>>)
       \/ sent[rs.req] # "head" /\ got' = Receive(<<Garbled(rs)>>)
    /\ hs' = "respond"
    /\ UNCHANGED <<client, server, wire, handleRequest, rs, held, lost, stopped,
                   netRequest>>

(* The request at the front of the queue is a HEAD: in routing mode the    *)
(* upstream is closed first, which ends the wait for a body, and the       *)
(* header is written to conn directly.  If the response is another one's,  *)
(* what has not been read of its body is missing.                          *)
DeliverHead ==
    /\ respPc = "handle" /\ hs = "deliver"
    /\ httpRequests # <<>> /\ sent[Head(httpRequests)] = "head"
    /\ \/ /\ routing /\ rs.code # "continue"
          /\ ForceClose
          /\ \/ got' = Receive(<<rs>>)
             \/ sent[rs.req] # "head" /\ got' = Receive(<<Garbled(rs)>>)
          /\ hs' = "respond"
       \/ /\ ~(routing /\ rs.code # "continue")
          /\ UNCHANGED tvars
          /\ got' = Receive(<<rs>>)
          /\ hs' = IF AwaitsBody THEN "body" ELSE "respond"
    /\ UNCHANGED <<client, server, wire, handleRequest, rs, held, lost, stopped,
                   netRequest>>

(* Mutant: HEAD gets no treatment of its own.                              *)
DeliverIgnoresHead ==
    /\ respPc = "handle" /\ hs = "deliver"
    /\ \/ /\ AwaitsBody
          /\ held' = <<rs>> /\ hs' = "body" /\ UNCHANGED got
       \/ /\ ~AwaitsBody
          /\ got' = Receive(<<rs>>) /\ hs' = "respond" /\ UNCHANGED held
    /\ UNCHANGED <<tvars, client, server, wire, handleRequest, rs, lost, stopped,
                   netRequest>>

(* Otherwise header and body go through bufioWriter, flushed at the end.   *)
Deliver ==
    /\ respPc = "handle" /\ hs = "deliver"
    /\ ~(httpRequests # <<>> /\ sent[Head(httpRequests)] = "head")
    /\ \/ /\ AwaitsBody
          /\ held' = <<rs>> /\ hs' = "body" /\ UNCHANGED got
       \/ /\ ~AwaitsBody
          /\ got' = Receive(<<rs>>) /\ hs' = "respond" /\ UNCHANGED held
    /\ UNCHANGED <<tvars, client, server, wire, handleRequest, rs, lost, stopped,
                   netRequest>>

(* Mutant: what follows the response is discarded.                         *)
SwallowResponseDiscards ==
    /\ respPc = "handle" /\ hs = "body" /\ wire[cur] # <<>>
    /\ wire' = [wire EXCEPT ![cur] = Tail(@)]
    /\ got' = Receive(held) /\ held' = <<>> /\ hs' = "respond"
    /\ UNCHANGED <<tvars, client, server, handleRequest, rs, lost, stopped,
                   netRequest>>

(* The next response is taken for the body.  If the announced length ends  *)
(* inside it, or it is no chunk, part of it is written; the rest stays in  *)
(* bufioHTTPReader, unrecorded, where ReadResponse will not find the start *)
(* of a message (lost).  Else it passes whole, and if the body is longer   *)
(* still it goes on; bufioWriter may fill up and be flushed.               *)
SwallowResponse ==
    /\ respPc = "handle" /\ hs = "body" /\ wire[cur] # <<>>
    /\ wire' = [wire EXCEPT ![cur] = Tail(@)]
    /\ LET r == Head(wire[cur]) IN
       \/ /\ got' = Receive(Append(held, Garbled(r))) /\ held' = <<>>
          /\ hs' = "respond" /\ lost' = TRUE
       \/ /\ got' = Receive(Append(held, r)) /\ held' = <<>>
          /\ hs' \in {"body", "respond"} /\ UNCHANGED lost
       \/ /\ held # <<>> /\ held' = Append(held, r)
          /\ UNCHANGED <<got, hs, lost>>
    /\ UNCHANGED <<tvars, client, server, handleRequest, rs, stopped, netRequest>>

(* Reading the body fails; what bufioWriter holds is flushed.              *)
BodyFails ==
    /\ respPc = "handle" /\ hs = "body"
    /\ target[cur] = "closed" \/ (srvFin[cur] /\ wire[cur] = <<>>)
    /\ got' = Receive(held) /\ held' = <<>>
    /\ hs' = "respond"
    /\ UNCHANGED <<tvars, client, server, wire, handleRequest, rs, lost, stopped,
                   netRequest>>

SetHTTPResponse ==
    /\ respPc = "handle" /\ hs = "respond"
    /\ httpResponses' = Append(httpResponses, rs)
    /\ hs' = "stop"
    /\ UNCHANGED <<tvars, client, got, server, wire, handleRequest, rs, held,
                   lost, stopped, httpRequests, spans, remoteAddr, finished>>

(* Mutant: the request stays at the front of its queue.                    *)
StopRequestPeeks ==
    /\ respPc = "handle" /\ hs = "stop"
    /\ stopped' = [req |-> Front(httpRequests, nil),
                   resp |-> Front(httpResponses, NoResponse)]
    /\ httpResponses' = Rest(httpResponses)
    /\ hs' = IF stopped'.req = nil THEN "after" ELSE "finish"
    /\ UNCHANGED <<tvars, client, got, server, wire, handleRequest, rs, held,
                   lost, httpRequests, spans, remoteAddr, finished>>

(* StopRequest pops a request and a response ...                           *)
StopRequest ==
    /\ respPc = "handle" /\ hs = "stop"
    /\ stopped' = [req |-> Front(httpRequests, nil),
                   resp |-> Front(httpResponses, NoResponse)]
    /\ httpRequests' = Rest(httpRequests)
    /\ httpResponses' = Rest(httpResponses)
    /\ hs' = IF stopped'.req = nil THEN "after" ELSE "finish"
    /\ UNCHANGED <<tvars, client, got, server, wire, handleRequest, rs, held,
                   lost, spans, remoteAddr, finished>>

(* ... and if there was a request finishes the oldest span with both, or   *)
(* with the timeout tag if there was no response.                          *)
FinishSpan ==
    /\ respPc = "handle" /\ hs = "finish"
    /\ finished' = IF spans = <<>> THEN finished
                   ELSE Append(finished, [req |-> stopped.req,
                                          resp |-> stopped.resp,
                                          span |-> Head(spans),
                                          remote |-> remoteAddr,
                                          timeout |-> stopped.resp = NoResponse])
    /\ spans' = Rest(spans)
    /\ hs' = "after"
    /\ UNCHANGED <<tvars, client, got, server, wire, handleRequest, rs, held,
                   lost, stopped, httpRequests, httpResponses, remoteAddr>>

(* In routing mode the upstream is closed, except after a 100.             *)
AfterResponse ==
    /\ respPc = "handle" /\ hs = "after"
    /\ IF routing /\ rs.code # "continue" THEN ForceClose ELSE UNCHANGED tvars
    /\ rs' = NoResponse /\ hs' = "read"
    /\ stopped' = [req |-> nil, resp |-> NoResponse]
    /\ UNCHANGED <<client, got, server, wire, handleRequest, held, lost,
                   netRequest>>

-----------------------------------------------------------------------------
HTTPBroker == Broker /\ UNCHANGED hvars

HTTPRequest ==
    \/ ReadRequest \/ ReadBadRequest \/ ReadEnds \/ SetRemoteAddr
    \/ SetHTTPRequest \/ PeekRequest \/ PushSpan \/ WriteRequest \/ WriteBody
    \/ Fallback \/ FallbackEnds
    \/ (CloseAddr \/ CloseRequest) /\ UNCHANGED hvars

HTTPResponse ==
    \/ ReadResponse \/ CopyRaw \/ ResponseEnds \/ DeliverHead \/ Deliver
    \/ SwallowResponse \/ BodyFails \/ SetHTTPResponse \/ StopRequest
    \/ FinishSpan \/ AfterResponse
    \/ (RecvCall \/ RangeEnds \/ CloseResponse) /\ UNCHANGED hvars

HTTPPeers ==
    \/ ClientSends \/ ClientSendsBody \/ ClientCloses
    \/ \E t \in Conns : ServerContinues(t) \/ ServerAnswers(t) \/ ServerCloses(t)

HTTPFinished == SessionOver /\ UNCHANGED svars

HTTPNext == HTTPBroker \/ HTTPRequest \/ HTTPResponse \/ HTTPPeers \/ HTTPFinished

HTTPSpec == HTTPInit /\ [][HTTPNext]_svars

(* Each goroutine runs while it can; nothing is assumed of the peers.      *)
HTTPFairSpec ==
    /\ HTTPSpec
    /\ WF_svars(HTTPBroker) /\ WF_svars(HTTPRequest) /\ WF_svars(HTTPResponse)
-----------------------------------------------------------------------------
Responses == [req : 0..MaxReqs, code : {"none", "continue", "final", "raw", "garbled"}]

HTTPTypeOK ==
    /\ TypeOK
    /\ sent \in Seq(Kinds) /\ bodySent \in BOOLEAN /\ cliFin \in BOOLEAN
    /\ got \in Seq(Responses) /\ held \in Seq(Responses)
    /\ arrived \in [Conns -> Seq(Reqs)] /\ served \in [Conns -> 0..MaxReqs]
    /\ cont \subseteq Reqs /\ raw \subseteq Reqs /\ wire \in [Conns -> Seq(Responses)]
    /\ srvFin \in [Conns -> BOOLEAN]
    /\ hr \in {"read", "addr", "set", "start", "span", "write", "body",
               "fallback", "tunnel"}
    /\ rd \in 0..MaxReqs /\ peeked \in 0..MaxReqs
    /\ hs \in {"read", "deliver", "body", "respond", "stop", "finish", "after",
               "tunnel"}
    /\ rs \in Responses /\ lost \in BOOLEAN
    /\ stopped \in [req : 0..MaxReqs, resp : Responses]
    /\ httpRequests \in Seq(Reqs) /\ httpResponses \in Seq(Responses)
    /\ spans \in Seq([for : Reqs, from : Reqs])
    /\ remoteAddr \in 0..MaxConns
    /\ finished \in Seq([req : Reqs, resp : Responses,
                         span : [for : Reqs, from : Reqs],
                         remote : 0..MaxConns, timeout : BOOLEAN])

Foreign(i) == i \in 1..Len(sent) /\ sent[i] \in {"upgrade", "bad"}

(* HTTP/1.1 answers come in the order of the requests, although in routing *)
(* mode every request has an upstream of its own and pipelined upstreams   *)
(* answer in any order.  Nothing at all comes of an answer only if its     *)
(* upstream closed or the fallback lost it; AnswersWhole says when it may  *)
(* be garbled.                                                             *)
AnswersInOrder ==
    \A k \in 1..Len(got) : IsAnswer(got[k]) =>
        /\ \A j \in 1..(k - 1) : IsAnswer(got[j]) => got[j].req < got[k].req
        /\ \A i \in 1..(got[k].req - 1) :
              \/ \E j \in 1..(k - 1) : IsAnswer(got[j]) /\ got[j].req = i
              \/ i \in raw
              \/ routing /\ srvFin[i]

(* One final response that can be parsed for every request that is relayed *)
(* as HTTP, and no HEAD response whose announced body is awaited in vain.  *)
Regular ==
    /\ \A i \in 1..Len(sent) :
          sent[i] # "expect" /\ (sent[i] = "head" => routing)
    /\ \A i \in raw : Foreign(i)
    /\ routing => \A t \in 1..dialled : srvFin[t] => served[t] = 1

(* In a regular session no answer is cut short: the front of the queue is  *)
(* the HEAD that the response belongs to when the upstream is closed under *)
(* it (http.go:284-291), and no response is taken for the body of another. *)
AnswersWhole ==
    Regular => \A k \in 1..Len(got) :
                  got[k].code = "garbled" => Foreign(got[k].req)

(* The three queues of NetHTTPRequest, filled by the request goroutine and *)
(* emptied by the response goroutines, stay aligned: a span is finished    *)
(* with the request it was started for and with the response to it, and    *)
(* every request answered in the session has its span finished.            *)
SpanPairing ==
    Regular =>
        /\ \A k \in 1..Len(finished) :
              /\ finished[k].resp.req = finished[k].req
              /\ finished[k].span.for = finished[k].req
        /\ SessionOver => \A k \in 1..Len(got) :
              got[k].code = "final" /\ ~Foreign(got[k].req) =>
                 \E j \in 1..Len(finished) : finished[j].req = got[k].req

(* Every goroutine ends after the client has closed, provided (routing     *)
(* mode) that no upstream stays open and silent for ever; in direct mode   *)
(* also after the server has closed.                                       *)
CloseEnds ==
    /\ (\A t \in Conns : []<>(~routing \/ target[t] # "open" \/ srvFin[t]))
          => (cliFin ~> SessionOver)
    /\ (~routing /\ srvFin[1]) ~> SessionOver

(* "Goroutine leak with routing logic fixed" (CHANGELOG 0.6.2): once the   *)
(* client has closed, every goroutine of the session ends, whatever the    *)
(* upstreams do.                                                           *)
ClientCloseEnds == cliFin ~> SessionOver

(* So it is for a client that waits for each answer before it goes on, but *)
(* for an upstream whose answer went to the fallback: HandleResponse then  *)
(* copies until that upstream closes (http.go:259, 273), and when the next *)
(* request has an upstream of its own nobody else closes it.               *)
SerialCloseEnds ==
    (\A t \in Conns :
        []<>(\/ target[t] # "open" \/ srvFin[t]
             \/ \A k \in 1..served[t] : arrived[t][k] \notin raw))
       => (cliFin ~> SessionOver)

Answered(i) == \E t \in Conns : \E k \in 1..served[t] : arrived[t][k] = i

ReachesClient(i) ==
    \E k \in 1..Len(got) : got[k].req = i /\ got[k].code \in {"final", "raw"}

Owed(i) == Answered(i) /\ ~cliFin /\ conn = "open" /\ ~ReachesClient(i)

(* "Fixed HTTP head requests with keep alive logic problem" (CHANGELOG     *)
(* 0.7), "if method == HEAD and content-length != 0, it will hang on read  *)
(* ... handle this" (http.go:282): as long as servers answer with what can *)
(* be parsed, every answer reaches a client that waits for it.             *)
HeadHandled ==
    \A i \in Reqs : Owed(i) ~> (~Owed(i) \/ raw # {})

(* What stands in the way of answer i: an answer that was handed over to   *)
(* the fallback, after which nothing is parsed and the worker stays with   *)
(* the upstream; the body of a HEAD answer, awaited in direct mode; a 100  *)
(* that has popped a request, so that the HEAD after it is not recognised. *)
Disturbed(i) ==
    \/ \E j \in 1..i : j \in raw
    \/ \E j \in 1..(i - 1) : \/ ~routing /\ sent[j] = "head"
                             \/ sent[j] = "expect" /\ sent[i] = "head"

(* Otherwise every answer reaches the client whole: no response is left in *)
(* a buffer waiting for a body that never comes, and the upstream of a 100 *)
(* is not closed before the final response (http.go:282-291, 307).         *)
Delivered ==
    \A i \in Reqs : Owed(i) ~> (~Owed(i) \/ Disturbed(i))

(* "tracing span context propagation" (CHANGELOG 0.0.3): the span started  *)
(* for a request is built from that request.                               *)
SpanFromOwnRequest == \A k \in 1..Len(spans) : spans[k].from = spans[k].for
=============================================================================
