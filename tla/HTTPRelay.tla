------------------------------ MODULE HTTPRelay ------------------------------
(***************************************************************************)
(* One direction of an HTTP session, at the level of the bytes: the loops  *)
(* of HandleRequest and HandleResponse (pkg/protocol/http.go) with the     *)
(* fallback buffer (tempbuffer.go) and the library's body reader and       *)
(* writer (pkg/http/transfer.go, internal/chunked.go).                     *)
(*                                                                         *)
(* The stream is a sequence of units:                                      *)
(*   head     a header (see Framing)      bad      a line that is none     *)
(*   data     a piece of a body, numbered                                  *)
(*   size     a chunk-size line           crlf     the end of a chunk      *)
(*   last     the chunk of size 0         end      the empty trailer part  *)
(*   trailer  a trailer part with fields                                   *)
(* The sender need not keep to their order: a unit is malformed where the  *)
(* reader expects one of another kind, except that crlf and end are the    *)
(* same bytes, an empty line.                                              *)
(*                                                                         *)
(* Network reads go through io.TeeReader (which copies to tmpWriter) into  *)
(* bufioHTTPReader; one read returns any number of the units sent.  Writes *)
(* go through bufioWriter.  A session in routing mode gives every request  *)
(* an upstream of its own; here a request direction has one destination.   *)
(* Responses are responses to requests other than HEAD (HTTPSession has    *)
(* those).                                                                 *)
(***************************************************************************)
EXTENDS Framing

Units == [u : {"bad", "crlf", "last", "end", "trailer"}]
         \union [u : {"data"}, id : Nat]
         \union [u : {"size"}, n : Nat \ {0}]
         \union [u : {"head"}, h : Headers]

CONSTANT Scripts    \* what the sender sends: pairs of direction and units

ASSUME ScriptsAssumption == Scripts \subseteq {"request", "response"} \X Seq(Units)

VARIABLES
    dir,        \* "request" or "response"
    forceClose, \* HandleResponse in routing mode
    script,     \* what the sender sends
    pos,        \* units read from the connection so far
    fin,        \* has the sender closed?  (perhaps before it sent everything)
    closed,     \* has HandleResponse closed the connection it reads?
    rpos,       \* units taken out of bufioHTTPReader; the rest up to pos is in it
    tmp, stopped,   \* TempWriter
    pc,
    start, msg, \* where the message in hand starts, and what readTransfer said
    rem,        \* units of a limited body not read yet
    cn, checkEnd, acc,  \* chunkedReader: unread units of the chunk, is its
                        \*   end due, what the current Read has collected
    sync,       \* have the chunks and trailers so far been well formed?
    wbuf,       \* bufioWriter
    out,        \* what the receiver has been sent
    wOK         \* do writes to the receiver succeed?

source == <<dir, forceClose, script>>
chunk == <<cn, checkEnd, acc, sync>>
rvars == <<source, pos, fin, closed, rpos, tmp, stopped, pc, start, msg, rem,
           chunk, wbuf, out, wOK>>

NoMsg == [length |-> 0, chunked |-> FALSE, close |-> FALSE, trailer |-> FALSE,
          body |-> "none"]

RelayInit ==
    /\ \E s \in Scripts : dir = s[1] /\ script = s[2]
    /\ forceClose \in {FALSE} \union {dir = "response"}
    /\ pos = 0 /\ fin = FALSE /\ closed = FALSE /\ rpos = 0
    /\ tmp = <<>> /\ stopped = FALSE
    /\ pc = "read" /\ start = 0 /\ msg = NoMsg /\ rem = 0
    /\ cn = 0 /\ checkEnd = FALSE /\ acc = <<>> /\ sync = TRUE
    /\ wbuf = <<>> /\ out = <<>> /\ wOK = TRUE

-----------------------------------------------------------------------------
Unit(u) == [u |-> u]
HeadUnit(h) == [u |-> "head", h |-> h]
ChunkOf(s) == IF s = <<>> THEN <<>>
              ELSE <<[u |-> "size", n |-> Len(s)]>> \o s \o <<Unit("crlf")>>

Buffered == SubSeq(script, rpos + 1, pos)
Unread == script[rpos + 1]          \* the next unit in bufioHTTPReader
Header == script[start + 1].h       \* of the message in hand

(* A read fails: the buffer is empty and the connection closed.            *)
Drained == rpos = pos /\ (fin \/ closed)

(* The program points at which the handler waits for input.                *)
Reads ==
    \/ pc \in {"read", "tunnel", "trailer"}
    \/ pc = "body" /\ (rem > 0 \/ msg.body = "eof")
    \/ pc = "chunk" /\ (acc = <<>> \/ cn > 0)

(* TempWriter: Write records unless stopped, Stop also forgets.            *)
TempWrite(s) == tmp' = IF stopped THEN tmp ELSE tmp \o s
TempStop == tmp' = <<>> /\ stopped' = TRUE
TempStart == stopped' = FALSE /\ UNCHANGED tmp

(* bufioHTTPReader is empty and reads from the connection through the tee. *)
Fill ==
    /\ Reads /\ rpos = pos /\ ~fin /\ ~closed
    /\ \E n \in (pos + 1)..Len(script) :
          pos' = n /\ TempWrite(SubSeq(script, pos + 1, n))
    /\ UNCHANGED <<source, fin, closed, rpos, stopped, pc, start, msg, rem,
                   chunk, wbuf, out, wOK>>

(* s is sent at once, after what bufioWriter holds; or the write fails.    *)
Send(s) == out' = IF wOK THEN out \o wbuf \o s ELSE out

(* What no step of the handler changes.                                    *)
Keep == UNCHANGED <<source, pos, fin, wOK>>

Upgrades(h) == h.conn = {"upgrade"}

(* ReadRequest or ReadResponse returns a message; tmpWriter.Stop().        *)
ReadMessage ==
    /\ pc = "read" /\ rpos < pos
    /\ Unread.u = "head" /\ ReadOK(Unread.h) /\ ~Upgrades(Unread.h)
    /\ start' = rpos /\ rpos' = rpos + 1
    /\ msg' = readTransfer(Unread.h)
    /\ rem' = IF msg'.body = "limit" THEN msg'.length ELSE 0
    /\ TempStop
    /\ pc' = "write"
    /\ Keep /\ UNCHANGED <<closed, chunk, wbuf, out>>

(* The message cannot be parsed or asks for another protocol.  So may what *)
(* a malformed chunk has left of a unit.                                   *)
ReadFails ==
    /\ pc = "read" /\ rpos < pos
    /\ ~sync \/ ~(Unread.u = "head" /\ ReadOK(Unread.h) /\ ~Upgrades(Unread.h))
    /\ start' = rpos /\ rpos' = rpos + 1
    /\ pc' = "replay"
    /\ Keep /\ UNCHANGED <<closed, tmp, stopped, msg, rem, chunk, wbuf, out>>

(* Mutant: the loop goes on at the end of the stream.                      *)
ReadEndsContinues == pc = "read" /\ Drained /\ UNCHANGED rvars

(* The stream ends between messages: HandleRequest returns, and so does    *)
(* HandleResponse if it closed the connection itself.  ReadResponse makes  *)
(* any other end an unexpected one, which is taken for a parse error.      *)
ReadEnds ==
    /\ pc = "read" /\ Drained
    /\ pc' = IF dir = "request" \/ closed THEN "done" ELSE "replay"
    /\ Keep
    /\ UNCHANGED <<closed, rpos, tmp, stopped, start, msg, rem, chunk, wbuf, out>>

(* Mutant: tmpWriter.Stop() before its contents are copied.                *)
ReplayStopped ==
    /\ pc = "replay"
    /\ TempStop /\ pc' = "tunnel"
    /\ Keep /\ UNCHANGED <<closed, rpos, start, msg, rem, chunk, wbuf, out>>

(* io.CopyBuffer(w, tmpWriter, buf); tmpWriter.Stop()                      *)
Replay ==
    /\ pc = "replay"
    /\ Send(tmp)
    /\ TempStop /\ pc' = "tunnel"
    /\ Keep /\ UNCHANGED <<closed, rpos, start, msg, rem, chunk, wbuf>>

(* io.CopyBuffer(w, bufioHTTPReader, buf): the buffer, then the rest.      *)
Tunnel ==
    /\ pc = "tunnel" /\ rpos < pos
    /\ Send(Buffered)
    /\ rpos' = pos
    /\ pc' = IF wOK THEN "tunnel" ELSE "done"
    /\ Keep /\ UNCHANGED <<closed, tmp, stopped, start, msg, rem, chunk, wbuf>>

TunnelEnds ==
    /\ pc = "tunnel" /\ Drained
    /\ pc' = "done"
    /\ Keep
    /\ UNCHANGED <<closed, rpos, tmp, stopped, start, msg, rem, chunk, wbuf, out>>

(* Write of the header, and of the whole message if it has no body: a      *)
(* chunked message ends with the last chunk even then.  The header of a    *)
(* request with a body is flushed; if that fails the body stays unread.    *)
WriteHead ==
    /\ pc = "write"
    /\ LET h == HeadUnit(WriteHeader(Header, msg)) IN
       IF msg.body = "none"
       THEN /\ Send(<<h>> \o IF msg.chunked THEN <<Unit("last"), Unit("end")>>
                             ELSE <<>>)
            /\ pc' = "after" /\ UNCHANGED wbuf
       ELSE /\ IF FlushHeaders(Header, msg)
               THEN Send(<<h>>) /\ UNCHANGED wbuf
               ELSE wbuf' = <<h>> /\ UNCHANGED out
            /\ pc' = IF FlushHeaders(Header, msg) /\ ~wOK THEN "after"
                     ELSE IF msg.body = "chunked" THEN "chunk" ELSE "body"
    /\ Keep /\ UNCHANGED <<closed, rpos, tmp, stopped, start, msg, rem, chunk>>

(* Mutant: the body is copied without the limit of its length.             *)
CopyBodyUnlimited ==
    /\ pc = "body" /\ rpos < pos /\ (rem > 0 \/ msg.body = "eof")
    /\ rpos' = pos /\ rem' = rem - (pos - rpos)
    /\ Send(Buffered) /\ wbuf' = <<>>
    /\ Keep /\ UNCHANGED <<closed, tmp, stopped, pc, start, msg, chunk>>

(* Part of a body that is not chunked is copied: with the header flushed   *)
(* (requests) straight to the connection, else through bufioWriter.        *)
CopyBody ==
    /\ pc = "body" /\ rpos < pos /\ (rem > 0 \/ msg.body = "eof")
    /\ LET n == IF msg.body = "eof" \/ rem > pos - rpos THEN pos - rpos ELSE rem
           s == SubSeq(script, rpos + 1, rpos + n)
       IN /\ rpos' = rpos + n
          /\ rem' = IF msg.body = "eof" THEN 0 ELSE rem - n
          /\ IF dir = "request"
             THEN Send(s) /\ UNCHANGED wbuf
             ELSE wbuf' = wbuf \o s /\ UNCHANGED out
    /\ pc' = IF dir = "request" /\ ~wOK THEN "after" ELSE "body"
    /\ Keep /\ UNCHANGED <<closed, tmp, stopped, start, msg, chunk>>

(* Mutant: bufioWriter is not flushed.                                     *)
BodyEndsUnflushed ==
    /\ pc = "body"
    /\ (msg.body = "limit" /\ rem = 0) \/ Drained
    /\ wbuf' = <<>>
    /\ pc' = "after"
    /\ Keep /\ UNCHANGED <<closed, rpos, tmp, stopped, start, msg, rem, chunk, out>>

(* The body is complete, or its reader hit the end of the stream: what     *)
(* bufioWriter holds is flushed either way.                                *)
BodyEnds ==
    /\ pc = "body"
    /\ (msg.body = "limit" /\ rem = 0) \/ Drained
    /\ Send(<<>>) /\ wbuf' = <<>>
    /\ pc' = "after"
    /\ Keep /\ UNCHANGED <<closed, rpos, tmp, stopped, start, msg, rem, chunk>>

(* bufioWriter (responses) is full and is flushed; if that fails the rest  *)
(* of the body stays unread.                                               *)
BufferFull ==
    /\ pc \in {"body", "chunk"} /\ wbuf # <<>> /\ acc = <<>>
    /\ Send(<<>>) /\ wbuf' = <<>>
    /\ pc' = IF wOK THEN pc ELSE "after"
    /\ Keep /\ UNCHANGED <<closed, rpos, tmp, stopped, start, msg, rem, chunk>>

(* chunkedReader.beginChunk: a chunk-size line, or the last chunk.  An     *)
(* empty line is read as the size 0.                                       *)
BeginChunk ==
    /\ pc = "chunk" /\ cn = 0 /\ ~checkEnd /\ rpos < pos
    /\ Unread.u \in {"size", "last", "crlf", "end"}
    /\ cn' = IF Unread.u = "size" THEN Unread.n ELSE 0
    /\ pc' = IF Unread.u = "size" THEN "chunk" ELSE "trailer"
    /\ rpos' = rpos + 1
    /\ sync' = (sync /\ Unread.u \in {"size", "last"})
    /\ Keep /\ UNCHANGED <<closed, tmp, stopped, start, msg, rem, checkEnd, acc,
                           wbuf, out>>

(* chunkedReader.Read: data of the chunk.                                  *)
ReadChunk ==
    /\ pc = "chunk" /\ cn > 0 /\ rpos < pos
    /\ LET n == IF cn > pos - rpos THEN pos - rpos ELSE cn IN
       /\ acc' = acc \o SubSeq(script, rpos + 1, rpos + n)
       /\ rpos' = rpos + n /\ cn' = cn - n
       /\ checkEnd' = (cn = n)
    /\ Keep /\ UNCHANGED <<closed, tmp, stopped, pc, start, msg, rem, sync, wbuf,
                           out>>

EndChunk ==
    /\ pc = "chunk" /\ checkEnd /\ rpos < pos /\ Unread.u \in {"crlf", "end"}
    /\ checkEnd' = FALSE /\ rpos' = rpos + 1
    /\ sync' = (sync /\ Unread.u = "crlf")
    /\ Keep /\ UNCHANGED <<closed, tmp, stopped, pc, start, msg, rem, cn, acc,
                           wbuf, out>>

(* Mutant: no flush after a chunk.                                         *)
ReturnChunkHeld ==
    /\ pc = "chunk" /\ acc # <<>>
    /\ wbuf' = wbuf \o ChunkOf(acc) /\ acc' = <<>>
    /\ Keep /\ UNCHANGED <<closed, rpos, tmp, stopped, pc, start, msg, rem, cn,
                           checkEnd, sync, out>>

(* Read returns what it has, because more would have to be waited for or   *)
(* the caller's buffer is full; chunkedWriter makes it a chunk, flushed    *)
(* at once in a request.                                                   *)
ReturnChunk ==
    /\ pc = "chunk" /\ acc # <<>>
    /\ acc' = <<>>
    /\ IF dir = "request"
       THEN Send(ChunkOf(acc)) /\ UNCHANGED wbuf
       ELSE wbuf' = wbuf \o ChunkOf(acc) /\ UNCHANGED out
    /\ pc' = IF dir = "request" /\ ~wOK THEN "after" ELSE "chunk"
    /\ Keep /\ UNCHANGED <<closed, rpos, tmp, stopped, start, msg, rem, cn,
                           checkEnd, sync>>

(* The stream ends inside the body: no last chunk is written.              *)
ChunksBreakOff ==
    /\ pc \in {"chunk", "trailer"} /\ Drained
    /\ Send(ChunkOf(acc))
    /\ wbuf' = <<>> /\ acc' = <<>> /\ pc' = "after"
    /\ Keep /\ UNCHANGED <<closed, rpos, tmp, stopped, start, msg, rem, cn,
                           checkEnd, sync>>

(* body.readTrailer, then the rest of writeBody: the last chunk and the    *)
(* trailer, of which newTransferWriter only knows if it was announced.     *)
ReadTrailer ==
    /\ pc = "trailer" /\ rpos < pos /\ Unread.u \in {"trailer", "end", "crlf"}
    /\ Send(ChunkOf(acc) \o
            <<Unit("last"), IF msg.trailer /\ Unread.u = "trailer" THEN Unread
                            ELSE Unit("end")>>)
    /\ rpos' = rpos + 1
    /\ wbuf' = <<>> /\ acc' = <<>> /\ pc' = "after"
    /\ sync' = (sync /\ Unread.u # "crlf")
    /\ Keep /\ UNCHANGED <<closed, tmp, stopped, start, msg, rem, cn, checkEnd>>

(* A chunk or a trailer is malformed: what was read before is written, no  *)
(* last chunk, and the next message is looked for wherever the reader has  *)
(* got to, in the unit at fault or after some more.                        *)
ChunksFail ==
    /\ \E n \in rpos..pos : rpos' = n
    /\ Send(ChunkOf(acc))
    /\ wbuf' = <<>> /\ acc' = <<>> /\ pc' = "after" /\ sync' = FALSE
    /\ Keep /\ UNCHANGED <<closed, tmp, stopped, start, msg, rem, cn, checkEnd>>

(* beginChunk: the line is not a number, or too long.                      *)
MalformedSize ==
    /\ pc = "chunk" /\ cn = 0 /\ ~checkEnd /\ rpos < pos
    /\ Unread.u \notin {"size", "last", "crlf", "end"}
    /\ ChunksFail

(* chunkedReader.Read: the chunk is not followed by an empty line.         *)
MalformedEnd ==
    /\ pc = "chunk" /\ checkEnd /\ rpos < pos /\ Unread.u \notin {"crlf", "end"}
    /\ ChunksFail

(* readTrailer: no fields, or "suspiciously long".                         *)
MalformedTrailer ==
    /\ pc = "trailer" /\ rpos < pos /\ Unread.u \notin {"end", "crlf"}
    /\ ChunksFail

(* Errors are logged and the loop goes on; in routing mode HandleResponse  *)
(* closes the upstream after a response other than a 100.  tmpWriter.Start.*)
NextMessage ==
    /\ pc = "after"
    /\ closed' = (closed \/ (forceClose /\ Header.status # 100))
    /\ TempStart /\ pc' = "read"
    /\ msg' = NoMsg /\ rem' = 0 /\ cn' = 0 /\ checkEnd' = FALSE /\ acc' = <<>>
    /\ wbuf' = <<>>
    /\ Keep /\ UNCHANGED <<rpos, start, sync, out>>

(* The sender closes; the receiver goes away.                              *)
SenderCloses ==
    /\ ~fin /\ fin' = TRUE
    /\ UNCHANGED <<source, pos, closed, rpos, tmp, stopped, pc, start, msg, rem,
                   chunk, wbuf, out, wOK>>

ReceiverGone ==
    /\ wOK /\ wOK' = FALSE
    /\ UNCHANGED <<source, pos, fin, closed, rpos, tmp, stopped, pc, start, msg,
                   rem, chunk, wbuf, out>>

-----------------------------------------------------------------------------
Relay ==
    \/ ReadMessage \/ ReadFails \/ ReadEnds \/ Replay \/ Tunnel \/ TunnelEnds
    \/ WriteHead \/ CopyBody \/ BodyEnds \/ BeginChunk \/ ReadChunk \/ EndChunk
    \/ (cn = 0 /\ ReturnChunk) \/ ChunksBreakOff \/ ReadTrailer \/ NextMessage
    \/ (MalformedSize \/ MalformedEnd) /\ (fin \/ closed \/ Unread.u = "bad")
    \/ MalformedTrailer /\ (fin \/ closed)

Idle == (pc = "done" \/ (rpos = pos /\ pos = Len(script))) /\ UNCHANGED rvars

RelayNext ==
    \/ Fill \/ BufferFull \/ ReturnChunk \/ Relay \/ SenderCloses \/ ReceiverGone
    \/ MalformedSize \/ MalformedEnd \/ MalformedTrailer \/ Idle

RelaySpec == RelayInit /\ [][RelayNext]_rvars

(* The handler runs; the sender need not send or close.  Neither buffer    *)
(* need fill up: inside a chunk Read goes on until its end (cn = 0).  What *)
(* is malformed is found out when the line has ended ("bad" is a line);    *)
(* the end of a trailer is waited for until the buffer is full.            *)
RelayFairSpec == RelaySpec /\ WF_rvars(Relay)
-----------------------------------------------------------------------------
RelayTypeOK ==
    /\ dir \in {"request", "response"} /\ forceClose \in BOOLEAN
    /\ script \in Seq(Units)
    /\ pos \in 0..Len(script) /\ rpos \in 0..pos /\ start \in 0..rpos
    /\ fin \in BOOLEAN /\ closed \in BOOLEAN /\ stopped \in BOOLEAN
    /\ wOK \in BOOLEAN /\ checkEnd \in BOOLEAN /\ sync \in BOOLEAN
    /\ rem \in Nat /\ cn \in Nat
    /\ pc \in {"read", "replay", "tunnel", "write", "body", "chunk", "trailer",
               "after", "done"}
    /\ tmp \in Seq(Units) /\ acc \in Seq(Units)
    /\ wbuf \in Seq(Units) /\ out \in Seq(Units)
    /\ acc # <<>> => pc \in {"chunk", "trailer"}
    /\ tmp # <<>> => ~stopped

(***************************************************************************)
(* The reference reader of a stream s: BodyEnd(s, i) is where the message  *)
(* that starts after position i ends, or Len(s) + 1 if it is not complete. *)
(* A body delimited by the end of the stream ends with it.                 *)
(***************************************************************************)
BodyEnd(s, i, eof) ==
    LET h == s[i + 1].h
        ends == {j \in (i + 2)..Len(s) : s[j].u \in {"end", "trailer"}}
    IN CASE RFCBody(h) = "none"    -> i + 1
         [] RFCBody(h) = "limit"   -> i + 1 + CHOOSE n \in h.cl : TRUE
         [] RFCBody(h) = "chunked" -> IF ends = {} THEN Len(s) + 1
                                      ELSE CHOOSE j \in ends : \A k \in ends : j <= k
         [] RFCBody(h) = "eof"     -> IF eof THEN Len(s) ELSE Len(s) + 1
         [] RFCBody(h) = "invalid" -> Len(s) + 1

(* Where the message after position i ends, Len(s) + 1 if there is none.   *)
NextEnd(s, i, eof) ==
    IF i < Len(s) /\ s[i + 1].u = "head" /\ BodyEnd(s, i, eof) <= Len(s)
    THEN BodyEnd(s, i, eof) ELSE Len(s) + 1

(* The positions at which the k-th message ends.                           *)
Ends(s, eof) ==
    LET E[k \in 0..Len(s)] == IF k = 0 THEN 0 ELSE NextEnd(s, E[k - 1], eof)
    IN E

Boundaries(s, eof) == {Ends(s, eof)[k] : k \in 0..Len(s)} \ {Len(s) + 1}

(* The data in a part of a stream.                                         *)
DataOf(s) ==
    LET D[k \in 0..Len(s)] ==
          IF k = 0 THEN <<>>
          ELSE IF s[k].u = "data" THEN Append(D[k - 1], s[k]) ELSE D[k - 1]
    IN D[Len(s)]

(* What a receiver makes of the message between positions i and j.         *)
Message(s, i, j) ==
    LET h == s[i + 1].h IN
    [method |-> h.method, status |-> h.status, persists |-> RFCPersists(h),
     data |-> DataOf(SubSeq(s, i + 2, j)),
     trailer |-> h.trailer /\ s[j].u = "trailer"]

(* The complete messages of s.                                             *)
Messages(s, eof) ==
    LET E == Ends(s, eof)
        n == Cardinality({k \in 1..Len(s) : E[k] <= Len(s)})
    IN [k \in 1..n |-> Message(s, E[k - 1], E[k])]

(* What the handler has taken in so far.                                   *)
Taken == SubSeq(script, 1, rpos)

(* Will the receiver see the stream end here?  In routing mode the client  *)
(* connection stays open when an upstream ends (handler.go:181).           *)
PeerEnds == Drained /\ ~forceClose

(* Is this a unit the handler hands over to the fallback?                  *)
Foreigner(x) == ~(x.u = "head" /\ ReadOK(x.h) /\ ~Upgrades(x.h))
Fallback == rpos > start /\ Foreigner(script[start + 1])

(* The streams that `SameMessages' can be asked of: the headers are those  *)
(* of the direction, whose Transfer-Encoding the library reads as the RFC  *)
(* does (Ordinary); a chunk of n pieces holds n pieces of data; and no     *)
(* message is chunked that has no body (HEAD, 1xx, 204, 304), because      *)
(* Write sends a last chunk after it nevertheless.                         *)
Framed(d, s) ==
    \A i \in 1..Len(s) :
        /\ s[i].u = "head" =>
              /\ s[i].h.resp = (d = "response") /\ Ordinary(s[i].h)
              /\ IsChunked(s[i].h) => readTransfer(s[i].h).body = "chunked"
        /\ s[i].u = "size" =>
              \A k \in (i + 1)..(i + s[i].n) : k <= Len(s) => s[k].u = "data"

(* "write the same request to writer" (http.go:218), "write the same       *)
(* response to w" (http.go:295): although headers are rewritten and bodies *)
(* cut into other chunks, the receiver finds in what it gets the messages  *)
(* that a receiver of the original stream would have found, with the same  *)
(* bodies, announced trailers and persistence, and nothing between them; a *)
(* message that broke off does not look complete.  The next message is     *)
(* looked for where the previous one ends.  This is so until a malformed   *)
(* chunk or trailer: the loop then goes on in the middle of the body.      *)
SameMessages ==
    Framed(dir, script) /\ sync /\ pc = "read" /\ wOK =>
        /\ Messages(out, PeerEnds) = Messages(Taken, PeerEnds)
        /\ rpos \in Boundaries(script, fin) \/ Drained

(* When the first message is handed over to the fallback (http.go:160-193, *)
(* 252-278), everything after it reaches the receiver in order and nothing *)
(* is lost; at worst what was read together with it arrives twice.         *)
FallbackComplete ==
    Fallback /\ start = 0 /\ wOK /\ pc \in {"tunnel", "done"} =>
        \E j \in 1..pos : out = SubSeq(script, 1, j) \o SubSeq(script, 2, rpos)

(* The same bytes, no more and no less.                                    *)
FallbackExact ==
    Fallback /\ wOK /\ pc = "done" => out = SubSeq(script, 1, rpos)

(* A message that has been read completely is on the wire eventually,      *)
(* whatever the sender does next: bufioWriter is flushed (http.go:220,     *)
(* 297).                                                                   *)
MessageReachesPeer ==
    []<>(Framed(dir, script) /\ sync /\ wOK /\ ~Fallback =>
           Len(Messages(out, PeerEnds)) =
              Len(Messages(SubSeq(script, 1, pos), PeerEnds)))

(* A client that streams a request and waits for an answer to what it has  *)
(* sent so far is not held up: a chunk that has been read completely is on *)
(* the wire eventually (FlushAfterChunkWriter, transfer.go:359), unless    *)
(* part of the next chunk came along with it: Read then waits for the rest.*)
ChunkReachesServer ==
    []<>(dir = "request" /\ sync /\ wOK /\ ~Fallback /\ cn = 0 /\ pc # "trailer" =>
           \A i \in 1..pos :
              script[i].u = "size" /\ i + script[i].n <= pos =>
                 \A k \in (i + 1)..(i + script[i].n) : \E o \in 1..Len(out) : out[o] = script[k])

(* When the sender closes, the handler returns eventually.                 *)
EndOfStream == fin ~> (pc = "done")
=============================================================================
