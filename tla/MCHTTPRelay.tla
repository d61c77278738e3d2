---------------------------- MODULE MCHTTPRelay ----------------------------
(***************************************************************************)
(* The streams of the runs of HTTPRelay: one or two messages, the first of *)
(* any kind and the second of a few that show whether the first one was    *)
(* delimited correctly, and messages that are malformed inside the body.   *)
(***************************************************************************)
EXTENDS HTTPRelay

Req(method, ver, te, cl, conn, trailer) ==
    HeadUnit([resp |-> FALSE, ver |-> ver, method |-> method, status |-> 200,
              te |-> te, cl |-> cl, conn |-> conn, trailer |-> trailer])

Resp(status, ver, te, cl, conn, trailer) ==
    HeadUnit([resp |-> TRUE, ver |-> ver, method |-> "GET", status |-> status,
              te |-> te, cl |-> cl, conn |-> conn, trailer |-> trailer])

Chunked == <<<<"chunked">>>>
Data(i) == [u |-> "data", id |-> i]
Size(n) == [u |-> "size", n |-> n]

(* One chunk of two pieces and one of one piece.                           *)
Chunks(tr) == <<Size(2), Data(1), Data(2), Unit("crlf"),
                Size(1), Data(3), Unit("crlf"), Unit("last"), Unit(tr)>>
OneChunk == <<Size(1), Data(8), Unit("crlf"), Unit("last"), Unit("end")>>

Requests == {
    <<Req("GET", 11, <<>>, {}, {}, FALSE)>>,
    <<Req("HEAD", 11, <<>>, {0}, {}, FALSE)>>,
    <<Req("GET", 10, <<>>, {}, {}, FALSE)>>,
    <<Req("POST", 11, <<>>, {0}, {}, FALSE)>>,
    <<Req("POST", 10, Chunked, {1}, {"keep-alive"}, FALSE), Data(1)>>,
    <<Req("POST", 11, <<>>, {2}, {"close"}, FALSE), Data(1), Data(2)>>,
    <<Req("POST", 11, Chunked, {1}, {}, TRUE)>> \o Chunks("trailer"),
    <<Req("POST", 11, Chunked, {}, {}, FALSE)>> \o Chunks("trailer")}

Responses == {
    <<Resp(100, 11, <<>>, {}, {}, FALSE)>>,
    <<Resp(103, 11, <<>>, {}, {}, FALSE)>>,
    <<Resp(204, 11, <<>>, {}, {}, FALSE)>>,
    <<Resp(304, 11, <<>>, {1}, {}, FALSE)>>,
    <<Resp(200, 11, <<>>, {0}, {}, FALSE)>>,
    <<Resp(200, 10, <<>>, {1}, {"keep-alive"}, FALSE), Data(1)>>,
    <<Resp(200, 11, <<>>, {2}, {}, FALSE), Data(1), Data(2)>>,
    <<Resp(200, 11, Chunked, {}, {}, TRUE)>> \o Chunks("trailer"),
    <<Resp(200, 11, Chunked, {}, {"close"}, FALSE)>> \o Chunks("end")}

(* A body that ends with the stream: nothing can follow it.                *)
ToTheEnd == {
    <<Resp(200, 11, <<>>, {}, {}, FALSE), Data(1), Data(2)>>,
    <<Resp(200, 10, <<>>, {}, {"keep-alive"}, FALSE), Data(1)>>}

NextRequests == {<<Req("POST", 11, <<>>, {1}, {}, FALSE), Data(9)>>,
                 <<Req("POST", 11, Chunked, {}, {}, FALSE)>> \o OneChunk}

NextResponses == {<<Resp(200, 11, <<>>, {1}, {}, FALSE), Data(9)>>,
                  <<Resp(200, 11, Chunked, {}, {}, FALSE)>> \o OneChunk}

(* What is not relayed as HTTP: requests and responses that ask for        *)
(* another protocol, that the library refuses, and what is not HTTP.       *)
Foreign == {
    <<Req("GET", 11, <<>>, {}, {"upgrade"}, FALSE), Data(5), Data(6)>>,
    <<Req("POST", 11, <<>>, {1, 2}, {}, FALSE), Data(5), Data(6)>>,
    <<Req("POST", 11, <<<<"other">>>>, {}, {}, FALSE), Data(5)>>,
    <<Unit("bad"), Data(5), Data(6)>>}

ForeignResponses == {
    <<Resp(101, 11, <<>>, {}, {"upgrade"}, FALSE), Data(5), Data(6)>>,
    <<Unit("bad"), Data(5), Data(6)>>}

(* A header that the library takes to be unchunked, or chunked although    *)
(* the coding is not the last one.                                         *)
Identity == {
    <<Req("POST", 11, <<<<"identity", "chunked">>>>, {1}, {}, FALSE), Data(1)>>,
    <<Req("POST", 11, <<<<"chunked">>, <<"other">>>>, {}, {}, FALSE)>> \o OneChunk}

IdentityResponses ==
    {<<Resp(200, 11, <<<<"chunked", "identity">>>>, {}, {}, FALSE)>> \o OneChunk}

(* Chunks that go wrong: no size line, an empty one, no end, no trailer.   *)
Wrong == {<<Size(1), Data(1), Unit("crlf"), Unit("bad")>>,
          <<Size(1), Data(1), Unit("crlf"), Unit("crlf"), Unit("end")>>,
          <<Size(1), Data(1), Unit("bad")>>,
          <<Unit("last"), Unit("bad")>>}

Malformed == {<<Req("POST", 11, Chunked, {}, {}, FALSE)>> \o w : w \in Wrong}
MalformedResponses == {<<Resp(200, 11, Chunked, {}, {}, FALSE)>> \o w : w \in Wrong}

(* The next message where the chunk size is due, or the end of a chunk.    *)
CutOff == {
    <<Req("POST", 11, Chunked, {}, {}, FALSE), Size(1), Data(1), Unit("crlf"),
      Req("GET", 11, <<>>, {}, {}, FALSE)>>,
    <<Req("POST", 11, Chunked, {}, {}, FALSE), Size(1), Data(1), Data(2)>>}

Pairs(A, B) == {a \o b : a \in A, b \in B}

RequestScripts ==
    Requests \union Foreign \union Pairs(Requests, NextRequests)
    \union Pairs(NextRequests, Foreign) \union Identity \union CutOff
    \union Malformed \union Pairs(NextRequests, Malformed)
    \union Pairs({m \in Malformed : Len(m) > 3}, NextRequests)

ResponseScripts ==
    Responses \union ToTheEnd \union ForeignResponses
    \union Pairs(Responses, NextResponses)
    \union Pairs({<<Resp(100, 11, <<>>, {}, {}, FALSE)>>}, ToTheEnd)
    \union Pairs(NextResponses, ForeignResponses) \union IdentityResponses
    \union MalformedResponses
    \union Pairs({m \in MalformedResponses : Len(m) > 3}, NextResponses)

AllScripts == ({"request"} \X RequestScripts) \union ({"response"} \X ResponseScripts)

Handovers == {"request"} \X Foreign
=============================================================================
