------------------------------- MODULE Framing -------------------------------
(***************************************************************************)
(* How the HTTP library (pkg/http/transfer.go, request.go, response.go)    *)
(* decides where a message ends when it reads one, and which framing it    *)
(* gives the message when it writes it again.                              *)
(*                                                                         *)
(* A header is a record of what this depends on:                           *)
(*   resp     is it a response?       ver      10 or 11                    *)
(*   method   of a request ("GET" for a response: ReadResponse gets nil)   *)
(*   status   of a response (200 for a request)                            *)
(*   te       its Transfer-Encoding lines, each a list of codings (what is *)
(*            neither "chunked" nor "identity", an empty one too, is "other")*)
(*   cl       the distinct values of its Content-Length lines              *)
(*   conn     the tokens of its Connection header                          *)
(*   trailer  does it announce trailers?                                   *)
(***************************************************************************)
EXTENDS Integers, FiniteSets, Sequences

Tokens == {"close", "keep-alive", "upgrade", "other"}

Codings == {"chunked", "identity", "other"}

Headers ==
    {h \in [resp : BOOLEAN, ver : {10, 11}, method : STRING, status : Nat,
            te : Seq(Seq(Codings) \ {<<>>}), cl : SUBSET Nat,
            conn : SUBSET Tokens, trailer : BOOLEAN] :
        /\ IsFiniteSet(h.cl)
        /\ IF h.resp THEN h.method = "GET" ELSE h.status = 200}

Unknown == -1    \* ContentLength of a message of unknown length

bodyAllowedForStatus(status) == ~(status \in 100..199 \/ status \in {204, 304})

noResponseBodyExpected(method) == method = "HEAD"

shouldClose(h) ==
    \/ "close" \in h.conn
    \/ h.ver = 10 /\ "keep-alive" \notin h.conn

(* fixTransferEncoding looks at the codings of the first line only, up to  *)
(* the first "identity"; the header of an HTTP/1.0 message is ignored.     *)
Encoded(h) == h.ver >= 11 /\ h.te # <<>>
Listed(h, k) == k \in 1..Len(h.te[1]) /\ \A j \in 1..k : h.te[1][j] # "identity"

(* Is "chunked" recorded?  Is it an error: another coding, or several?     *)
IsChunked(h) == Encoded(h) /\ h.te[1][1] = "chunked"
BadEncoding(h) ==
    /\ Encoded(h)
    /\ \E k \in 1..Len(h.te[1]) : Listed(h, k) /\ (h.te[1][k] = "other" \/ k > 1)

(* The Content-Length lines left after fixTransferEncoding.                *)
ContentLens(h) == IF IsChunked(h) THEN {} ELSE h.cl

(* fixLength: different lengths are an error, and so is a length on a HEAD *)
(* request.                                                                *)
BadLength(h) ==
    \/ Cardinality(ContentLens(h)) > 1
    \/ /\ ~h.resp /\ noResponseBodyExpected(h.method)
       /\ ContentLens(h) \notin {{}, {0}}

fixLength(h) ==
    IF noResponseBodyExpected(h.method) \/ ~bodyAllowedForStatus(h.status) THEN 0
    ELSE IF IsChunked(h) THEN Unknown
    ELSE IF ContentLens(h) # {} THEN CHOOSE n \in ContentLens(h) : TRUE
    ELSE IF h.resp THEN Unknown ELSE 0

(* fixTrailer                                                              *)
BadTrailer(h) == h.trailer /\ ~IsChunked(h)

ReadOK(h) == ~BadEncoding(h) /\ ~BadLength(h) /\ ~BadTrailer(h)

(* Mutant: a message without Content-Length is never read to the end of    *)
(* the stream.                                                             *)
readTransferPersistent(h) ==
    LET len == fixLength(h) IN
    [length |-> len, chunked |-> IsChunked(h), close |-> shouldClose(h),
     trailer |-> h.trailer,
     body |-> IF IsChunked(h) /\ bodyAllowedForStatus(h.status)
                 /\ ~noResponseBodyExpected(h.method) THEN "chunked"
              ELSE IF len > 0 THEN "limit" ELSE "none"]

(* readTransfer: the outcome of ReadRequest and ReadResponse.  `body' says *)
(* how the body reader finds the end of the body: there is none, after     *)
(* `length' bytes, by the chunks, or at the end of the stream.             *)
readTransfer(h) ==
    LET len == fixLength(h)
        unbounded == h.resp /\ len = Unknown /\ ~IsChunked(h)
                       /\ bodyAllowedForStatus(h.status)
    IN [length |-> len,
        chunked |-> IsChunked(h),
        close |-> shouldClose(h) \/ unbounded,
        trailer |-> h.trailer,
        body |-> IF IsChunked(h)
                 THEN IF noResponseBodyExpected(h.method)
                           \/ ~bodyAllowedForStatus(h.status)
                      THEN "none" ELSE "chunked"
                 ELSE IF len > 0 THEN "limit"
                 ELSE IF unbounded THEN "eof" ELSE "none"]

(* newTransferWriter on a message that was read: the length it writes.     *)
(* The body is never nil (at least NoBody), so chunked stays chunked.      *)
OutgoingLength(m) ==
    IF m.chunked THEN Unknown ELSE IF m.body = "none" THEN 0 ELSE m.length

shouldSendContentLength(h, m) ==
    \/ OutgoingLength(m) > 0
    \/ OutgoingLength(m) = 0 /\ ~h.resp /\ h.method \in {"POST", "PUT"}

(* Request.Write and Response.Write: the header written for a message h    *)
(* that was read as m.  Requests become HTTP/1.1; Content-Length,          *)
(* Transfer-Encoding and Trailer are written from m; the Connection header *)
(* of an HTTP/1.1 response that says "close" was removed by shouldClose;   *)
(* the status line, method and other fields are copied.                    *)
WriteHeader(h, m) ==
    [h EXCEPT
       !.ver = IF h.resp THEN h.ver ELSE 11,
       !.te = IF m.chunked THEN <<<<"chunked">>>> ELSE <<>>,
       !.cl = IF \/ shouldSendContentLength(h, m)
                 \/ /\ h.resp /\ ~m.chunked /\ OutgoingLength(m) = 0
                    /\ bodyAllowedForStatus(h.status)
              THEN {OutgoingLength(m)} ELSE {},
       !.conn = IF h.resp /\ h.ver >= 11 /\ "close" \in h.conn THEN {"close"}
                ELSE IF m.close THEN h.conn \union {"close"} ELSE h.conn,
       !.trailer = m.chunked /\ m.trailer]

(* Does Request.Write flush the header before it copies the body?          *)
FlushHeaders(h, m) == ~h.resp /\ m.body # "none"
-----------------------------------------------------------------------------
(* The reference: RFC 7230, section 3.3.3 (message body length) and        *)
(* section 6.3 (persistence), for a receiver that knows what it asked for  *)
(* (never HEAD here).  The codings of all Transfer-Encoding lines make one *)
(* list, and its last one decides; a request whose last coding is not      *)
(* "chunked" has no length that could be determined.                       *)
FinalCoding(h) == LET line == h.te[Len(h.te)] IN line[Len(line)]

RFCBody(h) ==
    IF h.resp /\ (h.status \in 100..199 \/ h.status \in {204, 304}) THEN "none"
    ELSE IF Encoded(h) THEN IF FinalCoding(h) = "chunked" THEN "chunked"
                            ELSE IF h.resp THEN "eof" ELSE "invalid"
    ELSE IF h.cl = {0} THEN "none"
    ELSE IF h.cl # {} THEN "limit"
    ELSE IF h.resp THEN "eof" ELSE "none"

RFCPersists(h) ==
    /\ "close" \notin h.conn
    /\ h.ver >= 11 \/ "keep-alive" \in h.conn
    /\ RFCBody(h) # "eof"

(* A header with at most one Transfer-Encoding line, without "identity",   *)
(* which RFC 7230 no longer knows: the library reads the others as if the  *)
(* lines after the first and the codings from "identity" on were absent.   *)
Ordinary(h) ==
    /\ Len(h.te) <= 1
    /\ \A i \in 1..Len(h.te) : \A k \in 1..Len(h.te[i]) : h.te[i][k] # "identity"
=============================================================================
