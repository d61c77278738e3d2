# A verification project for netramesh

netramesh is a transparent TCP proxy (a service-mesh sidecar). Every intercepted
connection becomes a *session* of a few goroutines; HTTP sessions are parsed so
that tracing spans can be sent and, in routing mode, each request can go to its
own destination. This directory holds TLA+ models of the sessions, the TLC
configurations that check them, and TLAPS proofs.

## 1. Inventory of the system

| Part | Code | State | Operations | Interacts with |
|---|---|---|---|---|
| connection handling | `pkg/transport/handler.go` | accepted connection, its duplicated descriptor, upstream connections, `addrCh`, `connCh`, `callCh`, `wg` | `HandleConnection`, `TcpCopyRequest`, `TcpCopyResponse`, `closeConn` | starts the goroutines; calls the protocol handler |
| `MutexQueue` | `pkg/transport/handler.go` | a list of mutexes | `Lock`, `Unlock` | nothing at this commit |
| TCP handler | `pkg/protocol/tcp.go` | none but its copy buffers | `HandleRequest`, `HandleResponse` | connection handling through `addrCh`/`connCh` |
| HTTP handler | `pkg/protocol/http.go` | readers and writers per direction, fallback buffer | `HandleRequest`, `HandleResponse` | the same channels; `NetHTTPRequest`; the context caches |
| `NetHTTPRequest`, `Queue` | `pkg/protocol/http.go` | queues of requests, responses and spans, `remoteAddr` | `StartRequest`, `StopRequest`, `Set...`, `Push`/`Pop`/`Peek` | shared by the request goroutine and the response goroutine(s) |
| context caches | `pkg/protocol/http.go`, `cmd/main.go` | request id to trace context, request id to routing value, with expiry | `Get`, `SetDefault` | shared by all sessions |
| routing destination | `getRoutingDestination` | none | pure | HTTP handler |
| fallback buffer | `pkg/protocol/tempbuffer.go` | recorded bytes, `stopped` | `Write`, `Read`, `Start`, `Stop`, `Close` | both HTTP handlers |
| protocol selection | `factory.go`, `determiner.go` | handler singletons | lookup by port | connection handling |
| start-up, configuration | `cmd/main.go`, `internal/config/global.go` | global configuration | environment parsing, accept loop | everything |
| logger, `estabcache`, HTTP library fork, iptables | `pkg/log`, `pkg/estabcache`, `pkg/http`, `iptables-rules.sh` | — | — | leaf code; `estabcache` is not called |

What is hard here:

* three goroutines per session that rendezvous on unbuffered channels, hand over
  connections and close each other's connections;
* in routing mode one upstream connection per request, answered in any order,
  while HTTP demands the answers in request order;
* queues shared by two goroutines that are only aligned if every request has
  exactly one response;
* closes, half-closes, dial failures and silent peers at any point;
* HEAD, `100 Continue`, upgrades and unparseable messages;
* where a message ends, which depends on half a dozen header fields, and bytes of
  the next message that were read along with it;
* two caches shared by all sessions, whose entries expire.

What makes each part correct: no goroutine is left blocked when the session is
over and nothing stays open (connection handling); no byte is lost while both
peers behave, and a close ends the session (TCP); answers reach the client, in
order, and a span describes its own request and response (HTTP session); the
receiver finds the messages the sender sent (HTTP relay); requests an application
makes belong to the trace and follow the route of the request it serves (context
caches); a lock is granted in the order of the calls (`MutexQueue`).

## 2. Modules

| Module | Models | Builds on |
|---|---|---|
| `Transport` | `HandleConnection`, `TcpCopyRequest`, `TcpCopyResponse`, the response worker, in both modes; the protocol handler is abstract | — |
| `TCPSession` | the TCP handler's two copy loops and the peers | `Transport` |
| `HTTPSession` | the HTTP handler, `NetHTTPRequest` and the peers: who waits for whom, and which answer goes where | `Transport` |
| `Framing` | how the HTTP library finds the end of a message, and how it writes the message again | — |
| `HTTPRelay` | one direction of an HTTP session as a stream of units: the handler's loop, the fallback buffer, the buffered reader and writer, the body readers and writers | `Framing` |
| `ContextPropagation` | the two context caches, inbound and outbound sessions, `getRoutingDestination` | — |
| `MutexQueue` | the FIFO lock of `handler.go` | refines `FIFOLock` |
| `FIFOLock` | what `MutexQueue` promises | — |
| `MCHTTPSession`, `MCHTTPRelay`, `MCContextPropagation` | the requests, streams and values of the runs | the module of that name |
| `TransportProofs`, `TCPSessionProofs`, `HTTPSessionProofs`, `HTTPRelayProofs`, `MutexQueueProofs` | theorems | the module of that name |
| `HTTPSpanProofs` | the pairing of requests, responses and spans | `HTTPSessionProofs` |
| `HTTPMessageProofs` | the messages that the receiver finds | `HTTPRelayProofs` |
| `ContextProofs` | theorems | `ContextPropagation` |

There are two abstract specifications. `Transport` says what any protocol handler
may do to a session: ask for an upstream, close its upstream, or return, at any
time. `TCPSession` and `HTTPSession` extend it: each of their actions is an action
of `Transport` strengthened with what the handler really does, or a step that
leaves the session's variables alone. That they implement `Transport` is proved
(`TCPImplementsTransport`, `HTTPImplementsTransport`), so they inherit its
theorems. `FIFOLock` is the promise of `MutexQueue`, which refines it under a
mapping from the list of mutexes to the queue of their creators.

The HTTP handler appears three times, each time with other data left out:
`HTTPSession` has all the goroutines and no bytes, `HTTPRelay` has the bytes and
one goroutine, `ContextPropagation` has many sessions and only what ties requests
together.

### Transport

`hcPc`, `reqPc` and `respPc` are the program points of the three goroutines. In
direct mode (`RoutingEnabled` off) `HandleConnection` dials once and starts both
copy goroutines. In routing mode it stays as a *broker*: `SendAddr` is the
rendezvous on `addrCh`, `SendConn`/`SendNil` the one on `connCh`, `Enqueue` the
send to the buffered `callCh`, `Cleanup` the exit with its four closes. The
worker takes one routine at a time (`RecvCall` ... `CloseResponse`). Upstreams
are numbered in the order of dialling. `CloseRequest` and `CloseResponse` are the
whole tails of `TcpCopyRequest`, `TcpCopyResponse` and `respRoutine`; the closes
inside one tail are one step, because closing twice is harmless and nothing is
read between them. Obtaining the original destination is success or failure
(`SetupFails`).

### TCPSession

A stream is four numbers: bytes sent by the peer, read by the copy loop, written
by it. A peer is open, half-closed, or gone; a gone peer may or may not still
take a write. Peers are assumed to drain what is written to them. Bytes count as
written when the kernel has accepted them.

### HTTPSession

Requests are numbered in the order sent and have a kind (`get`, `head`,
`expect`, `upgrade`, `bad`); a response is the number of the request it answers
and a code: `final`, `continue` (status 100) or `raw`, an answer to any request that
sends `HandleResponse` into its fallback because it does not parse, has a
Transfer-Encoding or Trailer the library refuses, or says `Connection: upgrade`. The
client may receive an answer as it was sent, or `garbled`: incomplete, or with bytes
that are not its own. The handlers are split into steps where
they touch shared state: setting `remoteAddr`, pushing the request, peeking it,
pushing the span, writing; reading a response, peeking and writing, pushing the
response, popping both, popping the span, closing. Four details of the code carry
much of the behaviour:

* the response to a HEAD request announces a body that never comes.
  `Response.Write` then waits for it (`hs = "body"`). If the front of
  `httpRequests` is a HEAD, the header has been written directly, and in routing
  mode the upstream was closed first, which ends the wait; otherwise the header
  sits in `bufioWriter` (`held`). Whatever arrives next is taken for the body
  (`SwallowResponse`). If the announced length ends inside it, the rest stays in
  `bufioHTTPReader`, where `ReadResponse` finds no start of a message (`lost`) and,
  since `tmpWriter` was stopped when it was read, the fallback does not replay what
  `ReadResponse` consumes. The announced length may also end with a response or lie
  beyond it. The length is not in the model: each outcome is a disjunct;
* when the upstream is closed first, what `bufioHTTPReader` has not read yet of the
  body of the response in hand is missing. A HEAD response has none, but the front of
  the queue may be the HEAD while the response is another request's (`DeliverHead`);
* the fallback of `HandleResponse` pops no queue and does not close the upstream; it
  copies until the upstream closes, with the faults that `http_fallback` shows for
  requests: bytes twice, or the beginning lost (`CopyRaw`);
* `ReadResponse` reports an EOF as `io.ErrUnexpectedEOF`, so the test for `io.EOF`
  in `HandleResponse` never succeeds and the fallback copy runs on an exhausted
  reader (`ResponseEnds`).

Requests already in `bufioHTTPReader` are still found after the connection was
closed; the model always allows it. What a request contains (headers, cookies,
destination) does not appear: which destination is asked for does not change the
session's control flow. `remoteAddr` is modelled for outbound sessions, as the
upstream's number; inbound sessions store the client's address, which is the
same for the whole session.

Servers are assumed to answer the requests of a connection once each and in order, to
send a 100 only to a request with `Expect: 100-continue` and no other informational
response, and to send bodies that are well formed apart from that of a HEAD (`HTTPRelay`
has the others). They need not answer, and may close at any time.

### Framing and HTTPRelay

`Framing` is the pure part: `readTransfer` with `fixLength`, `shouldClose` and
their companions decides from method, status, version, the Transfer-Encoding lines
(each a list of codings), Content-Length, Connection and Trailer how the body is delimited, whether the
message is refused, and whether the connection persists; `WriteHeader` is the
header that `Request.Write` and `Response.Write` send for it. `RFCBody` and
`RFCPersists` are the reference, taken from RFC 7230. The library looks at the first
Transfer-Encoding line only and stops at the coding `identity`, so it takes
`identity, chunked` for a message that is not chunked; `Ordinary` headers are those
without `identity` and without a second line, on which library and RFC agree. `Headers` is the set of all
headers as far as framing depends on them; its Content-Length lines are the finite
set of values they give, and a response stands for one to a GET, since
`HandleResponse` passes `ReadResponse` no request.

`HTTPRelay` runs the loop of `HandleRequest` or `HandleResponse` over a stream of
`Units`: headers, pieces of a body, chunk-size lines, chunk ends, the last chunk,
trailers. `Fill` is a read from the network of any number of units, through the
tee into `tmp` (`TempWriter`) and into the reader's buffer (`rpos` to `pos`).
`ReadMessage`, `ReadFails` and `ReadEnds` are the three outcomes of
`ReadRequest`/`ReadResponse`; `Replay` and `Tunnel` are the TCP fallback;
`WriteHead`, `CopyBody`, `BodyEnds` write what is not chunked; `BeginChunk` ...
`ReadTrailer` are `chunkedReader`, `chunkedWriter` and the end of `writeBody`;
`NextMessage` is the tail of the loop. `BufferFull` and a `ReturnChunk` inside a
chunk are buffers running full, at any time. The sender may stop or close
anywhere, also inside a message, and the receiver may go away.

Where `chunkedReader` or `readTrailer` expects another unit (`MalformedSize`,
`MalformedEnd`, `MalformedTrailer`), or a line too long for its buffer, `Write` returns
an error; the handler logs it and looks for the next message wherever the reader has got
to, which may be inside the unit at fault (`rpos'` is any position in the buffer) or
inside what it has left of one (`ReadFails` with `~sync`). An empty line where a size is
due is read as the size 0, and the empty lines `crlf` and `end` stand for each other.
`sync` records whether the chunks so far have been well formed.

A unit arrives whole: a header that is cut off by a close is the unit `bad`. The
request direction has one destination (in routing mode each request has its own). The
receiver sees the stream end where the code passes the end on (`PeerEnds`): not in
routing mode, where the client stays connected when an upstream ends, so a body
delimited by the end of the stream never ends for that client.
Two kinds of message are left out of the streams because the library does not keep
the framing there: a chunked response to HEAD or with status 1xx, 204 or 304, after
which `Response.Write` sends a last chunk nobody expects, and the HTTP/2 preface,
which `ReadRequest` accepts as a request. `Framed` says which streams `SameMessages` is
asked of: the headers are `Ordinary` and those of the direction, a chunk holds the pieces
its size line announces as far as the stream goes, and a message without a body is not
chunked. Such a stream may break off anywhere and hold units nobody can parse, also in
the middle of a body; the run has streams that are not `Framed` as well.

### ContextPropagation

`tracing` and `routes` are the caches (go-cache, external: `SetDefault`, `Get`, the
janitors' `DeleteExpired`); an entry holds the ticks it has left. An inbound request
goes through `ReadInbound` (request id, routing value), `StoreRoute`,
`StartInbound` (the span from the request in front of the session's queue, its
context stored under that request's id) and `WriteInbound`. Then the application
may make requests for it, with or without the id and the tracing header:
`ReadOutbound` decides the destination, `StartOutbound` adds the stored context to
the header and starts the span. `Respond` pops a queue. `getRoutingDestination`
takes the first pair at which the loop stops, because it is incomplete or for the
host; `Destination` is the reference definition. A name is a record of host and
port. `RidsAssumption` says that no client sends a UUID that a sidecar is about to
make up, `ConnsAssumption` that the inbound and the outbound port accept different
connections, `ExpirationAssumption` that entries expire (go-cache takes a default
expiration of 0 for "never").

### MutexQueue

`Lock` is the part under `mq.mu`; `LockTail` and `UnlockTail` are the wait for the
mutex before one's own; `Unlock` removes and unlocks the first mutex. Nothing calls
`MutexQueue` at this commit; it is modelled because its order promise is easily
broken between `mq.mu.Unlock` and `tailMutex.Lock`.

## 3. Runs

| Run | Module | Bounds | Shows |
|---|---|---|---|
| `transport` | Transport | 5 upstreams, `callCh` of 2 | types, `NoOrphan`, `Released`, `Backlog`, `ServedInOrder`, `Terminates`, both modes |
| `tcp_session` | TCPSession | 2 bytes each way | `UpstreamComplete`, `DownstreamComplete`, `CloseEnds`, both modes |
| `http_pipelined` | MCHTTPSession | 3 pipelined requests in direct mode, 2 in routing mode with `callCh` of 2 | `AnswersInOrder`, `AnswersWhole`, `SpanPairing`, `CloseEnds` |
| `http_serial` | MCHTTPSession | 2 requests, one at a time | `Delivered`, `SerialCloseEnds`, both modes |
| `http_relay` | MCHTTPRelay | one or two messages, bodies of up to two pieces or two chunks, malformed ones too | `SameMessages`, `FallbackComplete`, `MessageReachesPeer`, `ChunkReachesServer`, `EndOfStream` |
| `context` | MCContextPropagation | 2 inbound and 1 outbound request or the reverse, 2 inbound connections, expiration of 1 tick | `TraceContinued`, `RouteFollows`, `CachesDrain` |
| `mutex_queue` | MutexQueue | 3 goroutines, 2 calls each | `HolderInFront`, `EveryLockReturns`, refinement of `FIFOLock` with its fairness |
| `tcp_server_close` | TCPSession | 1 byte, routing mode | violated: `ServerCloseReachesClient` |
| `http_leak` | MCHTTPSession | 2 pipelined requests, routing mode | violated: `ClientCloseEnds` |
| `http_head_hang` | MCHTTPSession | 2 requests, GET or HEAD, one at a time, direct mode | violated: `HeadHandled` |
| `http_span_context` | MCHTTPSession | 2 requests, one at a time, routing mode | violated: `SpanFromOwnRequest` |
| `http_fallback` | MCHTTPRelay | one request that is handed over | violated: `FallbackExact` |

Every passing run of a module also checks its type invariant (`http_serial` leaves
that to `http_pipelined`).

Why the bounds are enough. In `transport` five upstreams exceed what `callCh` (2),
the worker (1) and the broker (1) can hold, so the broker blocks on a full queue;
the code's capacity of 10 is covered by the proofs. Two bytes let a copy loop have
one byte read and unwritten while another arrives. Three requests on one
connection let an unrecognised HEAD response sit in the buffer while the next
response is taken for its body and another follows. Two routed requests of every kind let
one upstream be handled, or be copied from by the fallback, while the other is queued. In `http_relay` the first message
takes every way of delimiting a body (none, by length, by chunks, by the end of the
stream, in both versions, with contradictory fields) and the second shows whether
the first one's end was found; a chunk of two pieces can be split by a read. Size line,
chunk end and trailer are each malformed once, with and without a message before or
after. In
`context` two inbound requests can share a session's queue or a request id, two
outbound ones can share a queue, and an entry is fresh, in its last tick, expired
and removed. Three callers of `Lock` are the fewest of which one waits for a waiter.

Fairness. Each goroutine is weakly fair: the Go scheduler runs a goroutine that
can move, and a blocked one moves when its channel or connection is ready. Nothing
is assumed of clients and servers: they may stay silent for ever. `Transport` alone
also assumes that the protocol handlers return (`WF(ReturnRequest)`,
`WF(ReturnResponse)`); when they really do is what `CloseEnds`,
`SerialCloseEnds` and `ClientCloseEnds` say about the composed modules. Writes do not block for ever
(peers drain), and dialling ends (the operating system's timeout). In `HTTPRelay`
only the handler is fair: the network need not deliver, the sender need not close,
buffers need not fill. It notices a malformed size line or chunk end when the line is
over or the stream ends, and a trailer without an end only when the stream ends or the
buffer is full. In `ContextPropagation` the inbound sessions go on, the clock
does not stop and the janitors run, as go-cache starts them with a ticker. In
`MutexQueue` goroutines inside `Lock` run and holders unlock in the end. `Tick` and
the janitors are always enabled in `ContextPropagation`; `mutex_queue` does not
check for deadlock, because callers stop after `MaxCalls` calls.

### What the violated runs show

* `tcp_server_close`: in routing mode the server's close ends `respRoutine`, which
  closes only the upstream. The client connection stays open and the request
  goroutine keeps reading from it. A client that waits for the end of the stream
  (any TCP protocol; an HTTP response delimited by close) waits for ever. In direct
  mode the close is propagated (`CloseEnds` in `tcp_session`).
* `http_leak`: on exit only the upstream of the last request is closed. With
  pipelining, an earlier upstream that never answers keeps the worker, its
  connection and everything queued behind it.
* `http_head_hang`: in direct mode, the default, `resp.Write` of the answer to a HEAD
  waits for the body that its Content-Length announces. The client has the header and
  sends a GET on the same connection. The first bytes of its answer are written as the
  body of the HEAD's; what is left is read as if a message started there, so that
  `ReadResponse` waits for the end of a line or hands the tail over to the fallback.
  In routing mode the upstream is closed first and the answer arrives (`Delivered`).
* `http_span_context`: `StartRequest` peeks the front of the queue. The client may
  send its next request as soon as it has the response, before the response
  goroutine pops the previous request; the new span is built from the old request.
* `http_fallback`: the tee records everything that is read, also what
  `bufioHTTPReader` buffers beyond the message that is handed over. The fallback
  copies the recording and then the buffered rest, so what came in the same read as
  an upgrade request or an unparseable one is forwarded twice. Nothing is lost if the
  first message of the connection is handed over (`FallbackComplete`). If a later one
  is, `tmpWriter.Stop` after the previous message has discarded what had already been
  read of it, and its beginning is lost.

Related behaviour of the code that the models contain but no run claims or refutes:

* in direct mode a response that says `Connection: upgrade` or does not parse ends the
  HTTP handling of its connection; in routing mode it keeps the worker on that upstream
  until the upstream closes, so the answers to all later requests wait for it, its request
  and span stay at the front of the queues, and every later span is finished with another
  request (`Regular`, `Disturbed` and `SerialCloseEnds` exclude it);
* `StopRequest` pops a request also for a 100. The final response then pops whatever is
  at the front; if that is a HEAD that the client sent as soon as it had the response, its
  answer is not recognised as one and stays in `bufioWriter`, and with pipelining the
  response of a request in front of a HEAD can be cut short, because the upstream is
  closed before its body is read (`Disturbed`, and `Regular` in `AnswersWhole`);
* after a malformed chunk or trailer the rest of the body is parsed as messages, and an
  empty line in place of a size ends the body as if it were complete (`sync` in
  `SameMessages`);
* a message with `Transfer-Encoding: identity, chunked`, or with a second such line, is
  relayed as the library reads it, which is not what RFC 7230 says (`Ordinary`);
* in routing mode a response delimited by the end of the stream has no end for the
  client (`PeerEnds`);
* a client that half-closes loses the rest of the response in both modes
  (`DownstreamComplete` needs an open client);
* the span of a request without response is never finished, since `StopRequest` runs
  only after `SetHTTPResponse` and its timeout branch is unreachable;
* `remoteAddr` may be overwritten before a span is tagged (`finished[k].remote`);
* in routing mode a first request that does not parse is dropped (`ReadBadRequest`
  with `w = nil`), because no upstream was asked for;
* a streamed response stays in `bufioWriter` until it is complete or the buffer is
  full; a request's chunk is held back while part of the next chunk is outstanding
  (`ChunkReachesServer` excludes that case);
* when a write to the receiver fails inside a body, the rest of the body is taken for
  the next message (`SameMessages` needs `wOK`);
* in routing mode an informational response other than 100 is taken for the final
  one and the upstream is closed;
* trailers that were not announced are dropped, and requests become HTTP/1.1;
* with a shared request id, or with requests waiting in a session's queue, a trace
  context may be another request's (`UniqueRid`, `InFront` in `TraceContinued`); an
  application that sends a tracing header itself sends two of them;
* an inbound request that brings no routing value takes over the one stored under its
  id and keeps it alive.

## 4. Proofs

TLC checks small instances; the theorems hold for every number of upstreams,
requests, bytes, goroutines and calls, every capacity of `callCh`, every set of
request ids, every expiration and every stream of messages. They rest only on the
assumptions the modules name, most of which give a constant its type. These say more:

* `MaxConnsAssumption`, `CallCapAssumption`: `MaxConns` and `CallCap` are not 0
  (`callCh` is made with capacity 10);
* `MaxReqsAssumption`: `MaxReqs` is in `1..MaxConns`; a routed request takes one
  upstream, so the bound on upstreams never stops a request;
* `RidsAssumption`: nobody sends a request id that netra makes up itself, which is what
  a random UUID is for;
* `ConnsAssumption`: an inbound connection is not an outbound one;
* `ExpirationAssumption`: the expiration is not 0.

*`TransportProofs`*. None of the invariants is inductive. `IInv` adds four parts:
`Control` says which program points coexist (for instance that the broker offers a
connection only to a request goroutine that waits for it, and that `callCh` is
closed only by a broker that is done); `Order` says that the queue holds exactly
the upstreams after `cur`, in order and without gaps; `Pending` says what `wg`
counts; `Open` says which upstreams can still be open. `NextIInv` is the induction
step, one case per action. From it follow `TypeCorrect`, `HandshakeSafe`,
`EverythingReleased` (all queued upstreams are behind `cur` when the worker is
done, so each has been closed), `BacklogBounded` (the open upstreams lie in an
interval of at most `CallCap + 2` numbers) and `ResponsesServedInOrder`.

*`TCPSessionProofs`*. `TCPImplementsTransport`, then `NothingLostUpstream` and
`NothingLostDownstream`. A copy loop can lose data only if the other goroutine
closes a connection under it, so `UpInv` and `DownInv` say that both connections
are open under a goroutine that still copies as long as both peers behave, and
that the goroutine ended because it had copied everything.

`TCPTypes` follows from the same invariant.

*`HTTPSessionProofs`*. `HTTPImplementsTransport`, and with it `HTTPReleased` and
`HTTPServedInOrder`. `HTTPTypes` needs to know how far each party has come: `Counts`
says that an upstream has not answered more requests than it was sent, that it was
sent no more than `HandleRequest` has passed on, and which registers are set at which
program point. `HTTPInv` is `IInv`, `HTTPTypeOK` and `Counts`.

The second part proves `AnswersComeInOrder`: the client gets its answers in the order of
its requests, whole or garbled, and nothing at all of one only where its own upstream
closed or the fallback copied it (`Skipped`). `AnswersInOrder` speaks of what the client has; the invariant follows an answer all the way from the
request:

* `Asking`: which upstream the request in hand belongs to (with routing request i has
  upstream i, except an unparseable one, which follows its predecessor);
* `Arrivals`: the k-th request written to upstream t is request t - 1 + k, since with
  routing every request has its own upstream and without routing all go to the first;
* `Wires`: so an upstream that is not read yet has sent the answers from its own
  request on, without a gap, and nobody has closed it;
* `Reading`: what the client has, what the handler holds back and has in hand, and
  what is unread from the upstream in turn is one gapless sequence (`Pipe`). A handler
  moves responses along the `Pipe`, also when it mistakes a response for the body of
  a HEAD response and garbles it, and leaves an upstream only when its answer has been delivered or
  the upstream has closed.

The lemmas on `Seg` (append, concatenate, skip, take a prefix) carry the argument
about sequences; one lemma per actor carries each part through its steps.

*`HTTPSpanProofs`*. `SpansArePaired`: in a regular session (`Regular`: no
`Expect: 100-continue`, HEAD only with routing, no answer that goes to the fallback but
to an upgrade or an unparseable request, and with routing no upstream that closes
without an answer) a span is finished with its own request and response, and every
answered request has its span finished. The queues carry no key, so nothing in them says
that the fronts belong together; that follows from how many elements each side has
pushed and popped. With n spans finished, `SpanInv` says, besides `OrderInv`:

* `Sending` and `Dialling` (in every session): nothing follows a request that is not
  queued (an upgrade or an unparseable one), and an upstream that is not read yet is
  closed only by a request goroutine that is done;
* `Declined`, `Spent`: the answer to such a request may be copied by the fallback or be
  parsed, and then finds nothing to pop;
* `Queues`: the requests and spans in the queues are those after n up to the one in
  `HandleRequest`'s hands, and the k-th finished span is request k's;
* `InProgress`: the response in `HandleResponse`'s hands answers request n + 1;
* `Incoming`: the unread responses answer the requests after that, one each;
* `Turn`: with routing an upstream is left with n equal to its number, unless no other
  upstream follows;
* `Received`: the client has no answer beyond the one in hand, and none of a request in
  the queues is garbled. `AnswersAreWhole` follows from it: with the queues aligned, the
  front is a HEAD only when the response in hand answers it, so that closing the upstream
  before the write costs no body.

The last five hold as long as the session is regular. A step cannot make an irregular
session regular (`RegularBefore`), which lets the induction assume them of the state
before it.

*`MutexQueueProofs`*. `MutexQueueTypes`, `MutualExclusion` (`HolderInFront`) and
`MutexQueueIsFIFO`: with the mutexes of the list mapped to their goroutines every step
is a step of `FIFOLock` or a stutter, so the lock is granted in the order of the calls.
That is the safety part of `ImplementsFIFOLock`. `MQInv` adds that the list
holds the mutex of every goroutine that is not idle, once (`Listed`), that everyone
but the first waits for the locked mutex before its own (`Chain`), and that a mutex is
never used twice (`Past`).

*`HTTPRelayProofs`*. Three theorems are about the library's framing of any header:
`ReadsAsRFC` (an `Ordinary` header is read as RFC 7230 says: where the body ends, how
long it is, whether the connection persists), `FramingKept` (for every header the library
accepts, `Ordinary` or not, a reader by the RFC delimits the body under the rewritten
header as the library did when it read it, and keeps or closes the connection alike) and
`WrittenIsReadable` (the library of the next sidecar accepts the header). The first
two except a HEAD request with a chunked body, for which the library really does
differ from the RFC. Two are about the relay of one direction: `RelayTypes` and
`FallbackForwardsAll`. Their invariant `RelayInv` adds what is known of the message in
hand (`InHand`), that `TempWriter` has everything that was read before the first message
(`AtFirst`), and what the receiver is sent when the session falls back to copying
(`Handover`).

*`HTTPMessageProofs`*. `MessagesKept`: whenever the handler goes on to look for the
next message, also at the end of the stream, the receiver finds in what it gets the messages of the stream
that was read (`SameMessages`), for every `Framed` stream of any length, however the
reads, the chunks and the flushes fall, wherever the stream breaks off, and up to the
first malformed chunk or trailer. That nothing was malformed (`sync`) and no write has
failed (`wOK`) is part of `SameMessages` itself; neither comes back once it is lost
(`MalformedForGood`).

What a receiver finds is defined by recursion over the stream (`Ends`: each message
ends where its header says, counted from the end of the one before; `DataOf`: the body
pieces of a part of the stream). The library's induction theorems take a predicate as
a parameter; `LeastNumber` and `UpTo` say the same of a set of numbers, which the
provers can instantiate. With them `Ends` and `DataOf` are shown to satisfy their
equations, and it is enough to follow the relay from one message to the next:

* `Spans`, `Chain`: a list of positions each of which is the `NextEnd` of the one before
  is the list that `Ends` computes (`Marks`, `MessagesAre`);
* `Relayed`: what has been read and what has been written are two such chains of the
  same length whose messages agree one by one; `RelayedMore` adds one message to both,
  `RelayedSame` compares them at the end;
* `Begun`, `Copied`, `Rechunked`: the message in hand starts where both chains end, its
  written header delimits the body as the one that was read does (`FramingKept`), and
  the pieces written so far are the pieces read so far, in other chunks or in none;
* `ChunkedEnds`, `Unfinished`, `Broken`: where a chunked message ends, and that a message
  that is cut off is complete on neither side.

The invariant `Kept` says this at each program point (`AtWrite`, `AtBody`, `AtChunk`,
`AtEndOfMessage`, `AtRest`); one lemma per action carries it through, under `RelayInv`.
`SameMessages` alone is not inductive: it compares only complete states and says nothing
of the message in hand.

*`ContextProofs`*. `DestinationFound`: the loop of `getRoutingDestination` returns the
destination of the reference definition and fails exactly on the values that are not
acceptable. Then `ContextTypes`, `TraceIsContinued` and `RouteIsFollowed`. An outbound
request finds the context of its cause because nothing between the two steps removes
or overwrites it, so `ContextInv` says what the caches hold: the context
(`TraceKept`) and the route (`RouteKept`) of every request whose id nobody else uses
are there, with the lifetime that is left, until they expire, and there is nothing for an id
nobody has sent (`NoRoute`). `OwnIds` keeps the ids of clients apart from those that
netra makes up, `Caused` ties an outbound request to its inbound one, `OwnTrace` and
`Untouched` say what is recorded of a request and when.

Only model-checked is liveness (`Terminates`, `CloseEnds`, `SerialCloseEnds`, `Delivered`,
`MessageReachesPeer`, `ChunkReachesServer`, `EndOfStream`, `CachesDrain`,
`EveryLockReturns` and the fairness part of `ImplementsFIFOLock`), which is out of the
prover's reach.

## 5. Not modelled, and the plan

Not modelled, with the reason:

* start-up and configuration: parsing of the environment and an accept loop that
  starts a goroutine per connection; no state is changed afterwards;
* protocol selection: a lookup by port among handlers that never change;
* the logger and the pprof and metrics listeners: no effect on the sessions;
* `estabcache`: not called at this commit;
* iptables rules: configuration of the kernel;
* of the HTTP library fork: the text of header lines (whether one parses is an
  input), cookies and URLs; its server, client, HTTP/2 and file code, which netramesh
  never calls; the vendored text and network packages under `internal/patches`. This
  is more than nine tenths of the repository's Go code and not netramesh's logic, so
  the share of all lines that the modules stand for stays small although every
  operation of the session code is modelled;
* TCP back-pressure, and in `HTTPRelay` the upstream per request of routing mode.

Every safety invariant that the runs check is proved for every value of the constants.
