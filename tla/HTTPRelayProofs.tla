--------------------------- MODULE HTTPRelayProofs ---------------------------
(***************************************************************************)
(* What the relay of one direction (HTTPRelay) does to any stream, however *)
(* it is cut into reads and wherever it is malformed: no read goes beyond  *)
(* the body in hand, and a first message that cannot be relayed is handed  *)
(* over to the fallback without losing anything; and what the library's    *)
(* framing does to any header: a receiver delimits the rewritten message   *)
(* as the library delimited the original one, and a receiver of the        *)
(* original does the same unless its Transfer-Encoding is an odd one.      *)
(***************************************************************************)
EXTENDS HTTPRelay, FiniteSetTheorems, SequenceTheorems, TLAPS

Handling == {"write", "body", "chunk", "trailer", "after"}

(* Between tmpWriter.Stop and tmpWriter.Start a message is in hand, and    *)
(* what is known of it is what readTransfer said of its header.            *)
InHand ==
    pc \in Handling =>
        /\ start < rpos /\ ~Foreigner(script[start + 1])
        /\ msg = readTransfer(Header)

(* Before the first message TempWriter has everything that was read, and   *)
(* nothing has been written.                                               *)
AtFirst ==
    /\ rpos = 0 /\ pc = "read" =>
          /\ start = 0 /\ ~stopped /\ tmp = SubSeq(script, 1, pos)
          /\ wbuf = <<>> /\ out = <<>>
    /\ rpos = 0 /\ pc \in {"replay", "tunnel"} => pos = 0 /\ (fin \/ closed)
    /\ rpos > start /\ pc = "read" => ~Foreigner(script[start + 1])

(* When the first message is handed over, TempWriter still has everything; *)
(* then the receiver is sent that, and what was read after the message.    *)
Handover ==
    Fallback /\ start = 0 =>
        /\ pc = "replay" => /\ rpos = 1 /\ tmp = SubSeq(script, 1, pos)
                            /\ wbuf = <<>> /\ out = <<>>
        /\ pc \in {"tunnel", "done"} =>
              /\ wbuf = <<>>
              /\ wOK => \E j \in 1..pos :
                           out = SubSeq(script, 1, j) \o SubSeq(script, 2, rpos)

RelayInv ==
    RelayTypeOK /\ InHand /\ AtFirst /\ Handover

-----------------------------------------------------------------------------
(* The Content-Length lines of a header the library accepts are none, or   *)
(* agree on one number.                                                    *)
LEMMA OneLength ==
    ASSUME NEW h \in Headers, ReadOK(h), ContentLens(h) # {}
    PROVE  \E n \in Nat : ContentLens(h) = {n}
<1> DEFINE S == ContentLens(h)
<1>1. IsFiniteSet(S) /\ S \subseteq Nat
    BY FS_EmptySet DEF Headers, ContentLens
<1>2. Cardinality(S) \in Nat /\ ~(Cardinality(S) > 1)
    BY <1>1, FS_CardinalityType DEF ReadOK, BadLength
<1>3. Cardinality(S) # 0
    BY <1>1, FS_EmptySet
<1>4. Cardinality(S) = 1
    BY <1>2, <1>3
<1>5. PICK n : S = {n}
    BY <1>1, <1>4, FS_Singleton
<1> QED BY <1>1, <1>5

(* fixLength returns a length, or that there is none to be known.          *)
LEMMA LengthType ==
    ASSUME NEW h \in Headers, ReadOK(h)
    PROVE  fixLength(h) \in Nat \union {Unknown}
<1>1. CASE ContentLens(h) = {}
    BY <1>1 DEF fixLength
<1>2. CASE ContentLens(h) # {}
  <2>1. PICK n \in Nat : ContentLens(h) = {n}
      BY <1>2, OneLength
  <2> QED BY <2>1 DEF fixLength
<1> QED BY <1>1, <1>2

(* A limited body has a length.                                            *)
LEMMA LimitType ==
    ASSUME NEW h \in Headers, ReadOK(h), readTransfer(h).body = "limit"
    PROVE  readTransfer(h).length \in Nat
<1>1. readTransfer(h).length = fixLength(h) /\ fixLength(h) > 0
    BY DEF readTransfer
<1> QED BY <1>1, LengthType DEF Unknown

(* The line that is written for a chunked message is a Transfer-Encoding.  *)
LEMMA ChunkedLine ==
    /\ <<<<"chunked">>>> \in Seq(Seq(Codings) \ {<<>>})
    /\ <<>> \in Seq(Seq(Codings) \ {<<>>})
<1>1. "chunked" \in Codings
    BY DEF Codings
<1>2. <<"chunked">> \in Seq(Codings) /\ <<"chunked">> # <<>>
    BY <1>1
<1> DEFINE S == Seq(Codings) \ {<<>>}
           x == <<"chunked">>
<1>3. x \in S
    BY <1>2
<1> HIDE DEF S, x
<1>4. <<x>> \in Seq(S) /\ <<>> \in Seq(S)
    BY <1>3
<1> QED BY <1>4 DEF S, x

(* What fixTransferEncoding makes of that line, or of none; a receiver     *)
(* makes the same of it.                                                   *)
LEMMA WrittenCoding ==
    ASSUME NEW w
    PROVE  /\ w.te = <<>> => ~Encoded(w) /\ ~IsChunked(w) /\ ~BadEncoding(w)
           /\ w.te = <<<<"chunked">>>> =>
                 /\ ~BadEncoding(w) /\ FinalCoding(w) = "chunked"
                 /\ (IsChunked(w) <=> w.ver >= 11) /\ (Encoded(w) <=> w.ver >= 11)
<1>1. w.te = <<>> => ~Encoded(w) /\ ~IsChunked(w) /\ ~BadEncoding(w)
    BY DEF Encoded, IsChunked, BadEncoding
<1>2. ASSUME w.te = <<<<"chunked">>>>
      PROVE  /\ ~BadEncoding(w) /\ FinalCoding(w) = "chunked"
             /\ (IsChunked(w) <=> w.ver >= 11) /\ (Encoded(w) <=> w.ver >= 11)
  <2>1. /\ Len(w.te) = 1 /\ w.te # <<>> /\ w.te[1] = <<"chunked">>
        /\ Len(w.te[1]) = 1 /\ w.te[1][1] = "chunked"
      BY <1>2
  <2>2. ~BadEncoding(w)
      BY <2>1 DEF BadEncoding
  <2>3. FinalCoding(w) = "chunked"
      BY <2>1 DEF FinalCoding
  <2>4. (IsChunked(w) <=> w.ver >= 11) /\ (Encoded(w) <=> w.ver >= 11)
      BY <2>1 DEF IsChunked, Encoded
  <2> QED BY <2>2, <2>3, <2>4
<1> QED BY <1>1, <1>2

(* An ordinary Transfer-Encoding that the library accepts is "chunked" to  *)
(* the library and to a receiver.                                          *)
LEMMA OrdinaryCoding ==
    ASSUME NEW h \in Headers, ReadOK(h), Ordinary(h), Encoded(h)
    PROVE  IsChunked(h) /\ FinalCoding(h) = "chunked"
<1>1. h.te \in Seq(Seq(Codings) \ {<<>>}) /\ h.te # <<>>
    BY DEF Headers, Encoded
<1>2. Len(h.te) = 1
  <2>1. PICK n : n = Len(h.te)
      OBVIOUS
  <2>2. n \in Nat /\ n # 0
      BY <1>1, <2>1, EmptySeq, LenProperties
  <2>3. n <= 1
      BY <2>1 DEF Ordinary
  <2>4. n = 1
      BY <2>2, <2>3
  <2> QED BY <2>1, <2>4
<1>3. PICK line : line = h.te[1]
    OBVIOUS
<1>4. line \in Seq(Codings) /\ line # <<>>
    BY <1>1, <1>2, <1>3
<1>5. Len(line) \in Nat /\ Len(line) > 0 /\ \A k \in 1..Len(line) : line[k] \in Codings
    BY <1>4
<1>6. \A k \in 1..Len(line) : line[k] # "identity"
    BY <1>2, <1>3 DEF Ordinary
<1>7. \A k \in 1..Len(line) : Listed(h, k)
    BY <1>3, <1>5, <1>6 DEF Listed
<1>8. \A k \in 1..Len(line) : ~(line[k] = "other" \/ k > 1)
    BY <1>3, <1>7 DEF ReadOK, BadEncoding
<1>9. Len(line) = 1
  <2>1. PICK n \in Nat : n = Len(line)
      BY <1>5
  <2>2. n > 0 /\ \A k \in 1..n : ~(k > 1)
      BY <1>5, <1>8, <2>1
  <2>3. n = 1
      BY <2>2
  <2> QED BY <2>1, <2>3
<1>10. line[1] = "chunked"
    BY <1>5, <1>6, <1>8, <1>9 DEF Codings
<1> QED BY <1>2, <1>3, <1>9, <1>10 DEF IsChunked, FinalCoding

(* The connection of a message that was read is kept unless the header     *)
(* says otherwise or only the end of the stream delimits the body.         *)
LEMMA ReadClose ==
    ASSUME NEW h
    PROVE  readTransfer(h).close <=> shouldClose(h) \/ readTransfer(h).body = "eof"
<1> DEFINE m == readTransfer(h)
           len == fixLength(h)
           unbounded == h.resp /\ len = Unknown /\ ~IsChunked(h)
                          /\ bodyAllowedForStatus(h.status)
<1>1. m.close <=> shouldClose(h) \/ unbounded
    BY DEF readTransfer
<1>2. m.body = "eof" <=> ~IsChunked(h) /\ ~(len > 0) /\ unbounded
    BY DEF readTransfer
<1>3. len = Unknown => ~(len > 0)
    BY DEF Unknown
<1> HIDE DEF m, len
<1>4. m.close <=> shouldClose(h) \/ m.body = "eof"
    BY <1>1, <1>2, <1>3
<1> QED BY <1>4 DEF m

(* ReadRequest and ReadResponse delimit the body of every header that they *)
(* accept as RFC 7230 does, with its length if it has one, and keep or     *)
(* close the connection as it does, if the Transfer-Encoding is ordinary   *)
(* (one line, no "identity"); only a HEAD request with a chunked body is   *)
(* taken to have none.                                                     *)
THEOREM ReadsAsRFC ==
    ASSUME NEW h \in Headers, ReadOK(h), Ordinary(h),
           ~(h.method = "HEAD" /\ IsChunked(h))
    PROVE  /\ readTransfer(h).body = RFCBody(h)
           /\ RFCBody(h) = "limit" => h.cl = {readTransfer(h).length}
           /\ RFCPersists(h) <=> ~readTransfer(h).close
<1>1. /\ h.method \in STRING /\ h.resp \in BOOLEAN /\ h.status \in Nat /\ h.ver \in {10, 11}
      /\ h.cl \in SUBSET Nat
    BY DEF Headers
<1>2. h.resp => h.method = "GET"
    BY DEF Headers
<1>3. ~h.resp => h.status = 200
    BY DEF Headers
<1>4. (IsChunked(h) <=> Encoded(h)) /\ (Encoded(h) => FinalCoding(h) = "chunked")
    BY OrdinaryCoding DEF IsChunked
<1>5. /\ readTransfer(h).body = RFCBody(h)
      /\ RFCBody(h) = "limit" => h.cl = {readTransfer(h).length}
  <2> USE DEF readTransfer, RFCBody, fixLength, bodyAllowedForStatus,
          noResponseBodyExpected, Unknown
  <2>1. CASE IsChunked(h)
      BY <1>1, <1>2, <1>3, <1>4, <2>1
  <2>2. CASE ~IsChunked(h) /\ h.cl = {}
      BY <1>1, <1>2, <1>3, <1>4, <2>2 DEF ContentLens
  <2>3. CASE ~IsChunked(h) /\ h.cl # {}
    <3>1. ContentLens(h) = h.cl
        BY <2>3 DEF ContentLens
    <3>2. PICK n \in Nat : h.cl = {n}
        BY <2>3, <3>1, OneLength
    <3>3. (CHOOSE x \in h.cl : TRUE) = n /\ (h.cl = {0} <=> n = 0)
        BY <3>2
    <3>4. h.method = "HEAD" => n = 0
        BY <1>2, <3>1, <3>2 DEF ReadOK, BadLength
    <3> QED BY <1>1, <1>2, <1>3, <1>4, <2>3, <3>1, <3>2, <3>3, <3>4
  <2> QED BY <2>1, <2>2, <2>3
<1>6. RFCPersists(h) <=> ~readTransfer(h).close
    BY <1>1, <1>5, ReadClose DEF RFCPersists, shouldClose
<1> QED BY <1>5, <1>6

(* Request.Write and Response.Write give every message that was read a     *)
(* header by which a receiver delimits the body that the library read,     *)
(* with its length, and keeps or closes the connection as the library says:*)
(* rewriting Transfer-Encoding, Content-Length, Connection and the version *)
(* does not change where the message ends, whatever its Transfer-Encoding  *)
(* was.                                                                    *)
THEOREM FramingKept ==
    ASSUME NEW h \in Headers, ReadOK(h), ~(h.method = "HEAD" /\ IsChunked(h))
    PROVE  LET m == readTransfer(h)
               w == WriteHeader(h, m)
           IN /\ RFCBody(w) = m.body
              /\ m.body = "limit" => w.cl = {m.length}
              /\ RFCPersists(w) <=> ~m.close
<1> DEFINE m == readTransfer(h)
           w == WriteHeader(h, m)
<1>1. /\ h.method \in STRING /\ h.resp \in BOOLEAN /\ h.status \in Nat /\ h.ver \in {10, 11}
      /\ h.cl \in SUBSET Nat /\ h.conn \in SUBSET Tokens
    BY DEF Headers
<1>2. (h.resp => h.method = "GET") /\ (~h.resp => h.status = 200)
    BY DEF Headers
<1>3. m.chunked = IsChunked(h) /\ m.body \in {"none", "limit", "chunked", "eof"}
    BY DEF readTransfer
<1>4. m.close <=> shouldClose(h) \/ m.body = "eof"
    BY ReadClose
<1>5. /\ w.resp = h.resp /\ w.status = h.status
      /\ w.ver = IF h.resp THEN h.ver ELSE 11
      /\ w.te = IF m.chunked THEN <<<<"chunked">>>> ELSE <<>>
      /\ w.cl = IF \/ shouldSendContentLength(h, m)
                   \/ /\ h.resp /\ ~m.chunked /\ OutgoingLength(m) = 0
                      /\ bodyAllowedForStatus(h.status)
                THEN {OutgoingLength(m)} ELSE {}
      /\ w.conn = IF h.resp /\ h.ver >= 11 /\ "close" \in h.conn THEN {"close"}
                  ELSE IF m.close THEN h.conn \union {"close"} ELSE h.conn
    BY DEF WriteHeader, Headers
<1>6. m.chunked => m.body = "chunked" \/ (h.resp /\ ~bodyAllowedForStatus(h.status))
    BY <1>1, <1>2 DEF readTransfer, noResponseBodyExpected, bodyAllowedForStatus
<1>7. /\ m.body = "chunked" => m.chunked /\ bodyAllowedForStatus(h.status)
      /\ m.body = "limit" => ~m.chunked /\ m.length > 0 /\ bodyAllowedForStatus(h.status)
      /\ m.body = "eof" => /\ ~m.chunked /\ m.length = Unknown /\ h.resp
                           /\ bodyAllowedForStatus(h.status)
    BY DEF readTransfer, fixLength
<1>8. m.body = "limit" => m.length \in Nat
    BY LimitType
<1>9. m.chunked => h.ver >= 11
    BY <1>3 DEF IsChunked, Encoded
<1> HIDE DEF m, w
<1>10. /\ ~m.chunked => ~Encoded(w)
       /\ m.chunked => Encoded(w) /\ FinalCoding(w) = "chunked"
  <2>1. m.chunked => w.ver >= 11
      BY <1>1, <1>5, <1>9
  <2> QED BY <1>5, <2>1, WrittenCoding
<1>11. bodyAllowedForStatus(h.status) <=> ~(h.status \in 100..199 \/ h.status \in {204, 304})
    BY DEF bodyAllowedForStatus
<1>12. RFCBody(w) = m.body /\ (m.body = "limit" => w.cl = {m.length})
  <2>1. CASE m.body = "limit"
    <3>1. OutgoingLength(m) = m.length
        BY <1>7, <2>1 DEF OutgoingLength
    <3>2. w.cl = {m.length}
        BY <1>5, <1>7, <2>1, <3>1 DEF shouldSendContentLength
    <3>3. w.cl # {0} /\ w.cl # {}
        BY <1>7, <1>8, <2>1, <3>2
    <3> QED BY <1>5, <1>7, <1>10, <1>11, <2>1, <3>2, <3>3 DEF RFCBody
  <2>2. CASE m.body = "eof"
    <3>1. OutgoingLength(m) = Unknown
        BY <1>7, <2>2 DEF OutgoingLength
    <3>2. w.cl = {}
        BY <1>5, <1>7, <2>2, <3>1 DEF shouldSendContentLength, Unknown
    <3> QED BY <1>5, <1>7, <1>10, <1>11, <2>2, <3>2 DEF RFCBody
  <2>3. CASE m.body = "chunked"
      BY <1>5, <1>7, <1>10, <1>11, <2>3 DEF RFCBody
  <2>4. CASE m.body = "none"
    <3>1. CASE m.chunked
        BY <1>5, <1>6, <1>11, <2>4, <3>1 DEF RFCBody
    <3>2. CASE ~m.chunked
      <4>1. OutgoingLength(m) = 0
          BY <2>4, <3>2 DEF OutgoingLength
      <4>2. w.cl = {} \/ w.cl = {0}
          BY <1>5, <4>1
      <4>3. h.resp /\ bodyAllowedForStatus(h.status) => w.cl = {0}
          BY <1>5, <3>2, <4>1
      <4> QED BY <1>1, <1>5, <1>10, <1>11, <2>4, <3>2, <4>2, <4>3 DEF RFCBody
    <3> QED BY <3>1, <3>2
  <2> QED BY <1>3, <2>1, <2>2, <2>3, <2>4
<1>13. RFCPersists(w) <=> ~m.close
  <2>1. "close" \in w.conn <=> "close" \in h.conn \/ m.close
      BY <1>5
  <2>2. "keep-alive" \in h.conn /\ "close" \notin w.conn => "keep-alive" \in w.conn
      BY <1>5, <2>1
  <2> QED BY <1>1, <1>4, <1>5, <1>12, <2>1, <2>2 DEF RFCPersists, shouldClose
<1> QED BY <1>12, <1>13 DEF m, w

-----------------------------------------------------------------------------
(* What is written for a header that was read is a header.                 *)
LEMMA WriteHeaderType ==
    ASSUME NEW h \in Headers, ReadOK(h)
    PROVE  WriteHeader(h, readTransfer(h)) \in Headers
<1> DEFINE m == readTransfer(h)
           w == WriteHeader(h, m)
           R == [resp : BOOLEAN, ver : {10, 11}, method : STRING, status : Nat,
                 te : Seq(Seq(Codings) \ {<<>>}), cl : SUBSET Nat,
                 conn : SUBSET Tokens, trailer : BOOLEAN]
<1>1. m.chunked \in BOOLEAN /\ m.length \in Nat \union {Unknown}
    BY LengthType DEF readTransfer, IsChunked
<1>2. OutgoingLength(m) \in Nat \union {Unknown}
    BY <1>1 DEF OutgoingLength
<1> DEFINE sent == \/ shouldSendContentLength(h, m)
                   \/ /\ h.resp /\ ~m.chunked /\ OutgoingLength(m) = 0
                      /\ bodyAllowedForStatus(h.status)
           cl == IF sent THEN {OutgoingLength(m)} ELSE {}
<1>3. sent => OutgoingLength(m) \in Nat
    BY <1>2 DEF shouldSendContentLength, Unknown
<1>4. cl \in SUBSET Nat /\ IsFiniteSet(cl)
    BY <1>3, FS_EmptySet, FS_Singleton
<1>5. h \in R /\ (IF h.resp THEN h.method = "GET" ELSE h.status = 200)
    BY DEF Headers
<1>6. w = [h EXCEPT
             !.ver = IF h.resp THEN h.ver ELSE 11,
             !.te = IF m.chunked THEN <<<<"chunked">>>> ELSE <<>>,
             !.cl = cl,
             !.conn = IF h.resp /\ h.ver >= 11 /\ "close" \in h.conn THEN {"close"}
                      ELSE IF m.close THEN h.conn \union {"close"} ELSE h.conn,
             !.trailer = m.chunked /\ m.trailer]
    BY DEF WriteHeader
<1> HIDE DEF m, w, cl
<1>7. w.cl = cl /\ w.resp = h.resp /\ w.method = h.method /\ w.status = h.status
    BY <1>5, <1>6
<1>8. w \in R
  <2> DEFINE ver == IF h.resp THEN h.ver ELSE 11
             te == IF m.chunked THEN <<<<"chunked">>>> ELSE <<>>
             conn == IF h.resp /\ h.ver >= 11 /\ "close" \in h.conn THEN {"close"}
                     ELSE IF m.close THEN h.conn \union {"close"} ELSE h.conn
             trailer == m.chunked /\ m.trailer
  <2>1. ver \in {10, 11} /\ te \in Seq(Seq(Codings) \ {<<>>}) /\ conn \in SUBSET Tokens
    <3>1. ver \in {10, 11}
        BY <1>5
    <3>2. te \in Seq(Seq(Codings) \ {<<>>})
        BY ChunkedLine
    <3>3. h.conn \in SUBSET Tokens
        BY <1>5
    <3>4. {"close"} \in SUBSET Tokens
        BY DEF Tokens
    <3> QED BY <3>1, <3>2, <3>3, <3>4
  <2>2. trailer \in BOOLEAN
      OBVIOUS
  <2>3. w = [h EXCEPT !.ver = ver, !.te = te, !.cl = cl, !.conn = conn, !.trailer = trailer]
      BY <1>6
  <2> HIDE DEF ver, te, conn, trailer
  <2> QED BY <1>4, <1>5, <2>1, <2>2, <2>3
<1> QED BY <1>4, <1>5, <1>7, <1>8 DEF Headers, w, m

(* The units a writer makes are units, and the fields of a unit are what   *)
(* its kind says.                                                          *)
LEMMA UnitTypes ==
    /\ \A u \in {"bad", "crlf", "last", "end", "trailer"} : Unit(u) \in Units
    /\ \A h \in Headers : HeadUnit(h) \in Units
    /\ \A n \in Nat \ {0} : [u |-> "size", n |-> n] \in Units
    /\ \A x \in Units : /\ x.u = "head" => x.h \in Headers
                        /\ x.u = "size" => x.n \in Nat \ {0}
BY DEF Units, Unit, HeadUnit

(* A chunk made of units is a sequence of units.                           *)
LEMMA ChunkType ==
    ASSUME NEW s \in Seq(Units)
    PROVE  ChunkOf(s) \in Seq(Units)
<1>1. CASE s = <<>>
    BY <1>1 DEF ChunkOf
<1>2. CASE s # <<>>
  <2>1. Len(s) \in Nat \ {0}
      BY <1>2, EmptySeq
  <2>2. [u |-> "size", n |-> Len(s)] \in Units /\ Unit("crlf") \in Units
      BY <2>1, UnitTypes
  <2> DEFINE size == [u |-> "size", n |-> Len(s)]
  <2> HIDE DEF size
  <2>3. <<size>> \in Seq(Units) /\ <<Unit("crlf")>> \in Seq(Units)
      BY <2>2 DEF size
  <2>4. <<size>> \o s \o <<Unit("crlf")>> \in Seq(Units)
      BY <2>3, ConcatProperties
  <2> QED BY <1>2, <2>4 DEF ChunkOf, size
<1> QED BY <1>1, <1>2

(* A part of a stream of units is one.                                     *)
LEMMA PartType ==
    ASSUME NEW s \in Seq(Units), NEW a \in Nat \ {0}, NEW b \in 0..Len(s)
    PROVE  SubSeq(s, a, b) \in Seq(Units)
<1>1. \A i \in a..b : s[i] \in Units
    BY ElementOfSeq
<1> QED BY <1>1, SubSeqProperties

(* The header that a sidecar writes is one that the next sidecar accepts:  *)
(* a request passes the sidecars of its sender and of its receiver.        *)
THEOREM WrittenIsReadable ==
    ASSUME NEW h \in Headers, ReadOK(h)
    PROVE  ReadOK(WriteHeader(h, readTransfer(h)))
<1> DEFINE m == readTransfer(h)
           w == WriteHeader(h, m)
<1>1. w \in Headers
    BY WriteHeaderType
<1>2. /\ w.resp = h.resp /\ w.method = h.method
      /\ w.ver = IF h.resp THEN h.ver ELSE 11
      /\ w.te = IF m.chunked THEN <<<<"chunked">>>> ELSE <<>>
      /\ w.cl = IF \/ shouldSendContentLength(h, m)
                   \/ /\ h.resp /\ ~m.chunked /\ OutgoingLength(m) = 0
                      /\ bodyAllowedForStatus(h.status)
                THEN {OutgoingLength(m)} ELSE {}
      /\ w.trailer = (m.chunked /\ m.trailer)
    BY DEF WriteHeader, Headers
<1>3. m.chunked = IsChunked(h) /\ h.ver \in {10, 11}
    BY DEF readTransfer, Headers
<1>4. h.method = "HEAD" => m.body = "none"
    BY DEF readTransfer, fixLength, noResponseBodyExpected, Unknown
<1> HIDE DEF m, w
<1>5. ~BadEncoding(w)
    BY <1>2, WrittenCoding
<1>6. ~BadTrailer(w)
  <2>1. w.trailer => m.chunked /\ IsChunked(h)
      BY <1>2, <1>3
  <2>2. m.chunked /\ IsChunked(h) => w.te = <<<<"chunked">>>> /\ w.ver >= 11
      BY <1>2, <1>3 DEF IsChunked, Encoded
  <2>3. m.chunked /\ IsChunked(h) => IsChunked(w)
      BY <2>2, WrittenCoding
  <2> QED BY <2>1, <2>3 DEF BadTrailer
<1>7. ~BadLength(w)
  <2>1. PICK n : w.cl = {} \/ w.cl = {n}
      BY <1>2
  <2>2. ContentLens(w) = {} \/ ContentLens(w) = {n}
      BY <2>1 DEF ContentLens
  <2>3. ~(Cardinality(ContentLens(w)) > 1)
    <3>1. Cardinality({}) = 0 /\ Cardinality({n}) = 1
        BY FS_EmptySet, FS_Singleton
    <3> QED BY <2>2, <3>1
  <2>4. ~w.resp /\ w.method = "HEAD" => w.cl = {}
      BY <1>2, <1>4 DEF OutgoingLength, shouldSendContentLength, Unknown
  <2> QED BY <2>3, <2>4 DEF BadLength, ContentLens, noResponseBodyExpected
<1> QED BY <1>5, <1>6, <1>7 DEF ReadOK, m, w

-----------------------------------------------------------------------------
(* The parts of the type invariant.                                        *)
Positions ==
    /\ script \in Seq(Units)
    /\ pos \in 0..Len(script) /\ rpos \in 0..pos /\ start \in 0..rpos

Contents ==
    tmp \in Seq(Units) /\ acc \in Seq(Units) /\ wbuf \in Seq(Units) /\ out \in Seq(Units)

Flags ==
    /\ dir \in {"request", "response"} /\ forceClose \in BOOLEAN
    /\ fin \in BOOLEAN /\ closed \in BOOLEAN /\ stopped \in BOOLEAN
    /\ wOK \in BOOLEAN /\ checkEnd \in BOOLEAN /\ sync \in BOOLEAN
    /\ pc \in {"read", "replay", "tunnel", "write", "body", "chunk", "trailer",
               "after", "done"}

Counters == rem \in Nat /\ cn \in Nat

Forgotten ==
    /\ acc # <<>> => pc \in {"chunk", "trailer"}
    /\ tmp # <<>> => ~stopped

(* The parts make the whole.                                               *)
LEMMA TypeParts ==
    RelayTypeOK <=> Positions /\ Contents /\ Flags /\ Counters /\ Forgotten
BY DEF RelayTypeOK, Positions, Contents, Flags, Counters, Forgotten

(* A malformed size line, chunk end or trailer.                            *)
Malformed == pc \in {"chunk", "trailer"} /\ ChunksFail

(* The steps of the relay, each once.                                      *)
LEMMA RelaySteps ==
    [RelayNext]_rvars =>
       \/ Fill \/ ReadMessage \/ ReadFails \/ ReadEnds \/ Replay \/ Tunnel
       \/ TunnelEnds \/ WriteHead \/ CopyBody \/ BodyEnds \/ BufferFull
       \/ BeginChunk \/ ReadChunk \/ EndChunk \/ ReturnChunk \/ ChunksBreakOff
       \/ ReadTrailer \/ Malformed \/ NextMessage \/ SenderCloses \/ ReceiverGone
       \/ UNCHANGED rvars
BY DEF RelayNext, Relay, Idle, Malformed, MalformedSize, MalformedEnd, MalformedTrailer

(* The sender's stream is what it is.                                      *)
LEMMA SourceKept == [RelayNext]_rvars => UNCHANGED source
BY RelaySteps DEF Fill, ReadMessage, ReadFails, ReadEnds, Replay, Tunnel, TunnelEnds,
   WriteHead, CopyBody, BodyEnds, BufferFull, BeginChunk, ReadChunk, EndChunk,
   ReturnChunk, ChunksBreakOff, ReadTrailer, Malformed, ChunksFail, NextMessage,
   SenderCloses, ReceiverGone, Keep, rvars

(* The next unit in bufioHTTPReader is one of the stream.                  *)
LEMMA UnreadType ==
    ASSUME Positions, rpos < pos
    PROVE  Unread \in Units
BY ElementOfSeq DEF Positions, Unread

(* The reader's position stays between the message in hand and what has    *)
(* been read from the connection.                                          *)
LEMMA PositionsStep == Positions /\ Counters /\ [RelayNext]_rvars => Positions'
<1> SUFFICES ASSUME Positions, Counters, [RelayNext]_rvars PROVE Positions'
    OBVIOUS
<1>1. script' = script
    BY SourceKept DEF source
<1>2. Len(script) \in Nat
    BY DEF Positions
<1>3. CASE Fill
    BY <1>1, <1>2, <1>3 DEF Fill, Positions
<1>4. CASE ReadMessage \/ ReadFails \/ BeginChunk \/ EndChunk \/ ReadTrailer
    BY <1>1, <1>2, <1>4 DEF ReadMessage, ReadFails, BeginChunk, EndChunk, ReadTrailer,
       Keep, Positions
<1>5. CASE Tunnel
    BY <1>1, <1>2, <1>5 DEF Tunnel, Keep, Positions
<1>6. CASE CopyBody
  <2> DEFINE n == IF msg.body = "eof" \/ rem > pos - rpos THEN pos - rpos ELSE rem
  <2>1. n \in 0..(pos - rpos)
      BY <1>2 DEF Positions, Counters
  <2>2. rpos' = rpos + n /\ pos' = pos /\ start' = start
      BY <1>6 DEF CopyBody, Keep
  <2> HIDE DEF n
  <2> QED BY <1>1, <1>2, <2>1, <2>2 DEF Positions
<1>7. CASE ReadChunk
  <2> DEFINE n == IF cn > pos - rpos THEN pos - rpos ELSE cn
  <2>1. n \in 0..(pos - rpos)
      BY <1>2 DEF Positions, Counters
  <2>2. rpos' = rpos + n /\ pos' = pos /\ start' = start
      BY <1>7 DEF ReadChunk, Keep
  <2> HIDE DEF n
  <2> QED BY <1>1, <1>2, <2>1, <2>2 DEF Positions
<1>8. CASE \/ ReadEnds \/ Replay \/ TunnelEnds \/ WriteHead \/ BodyEnds \/ BufferFull
           \/ ReturnChunk \/ ChunksBreakOff \/ NextMessage \/ SenderCloses
           \/ ReceiverGone \/ UNCHANGED rvars
    BY <1>1, <1>8 DEF ReadEnds, Replay, TunnelEnds, WriteHead, BodyEnds, BufferFull,
       ReturnChunk, ChunksBreakOff, NextMessage, SenderCloses, ReceiverGone, Keep, rvars,
       Positions
<1>9. CASE Malformed
    BY <1>1, <1>2, <1>9 DEF Malformed, ChunksFail, Keep, Positions
<1> QED BY <1>3, <1>4, <1>5, <1>6, <1>7, <1>8, <1>9, RelaySteps

(* The flags stay flags and the handler at one of its program points.      *)
LEMMA FlagsStep == Flags /\ [RelayNext]_rvars => Flags'
<1> SUFFICES ASSUME Flags, [RelayNext]_rvars PROVE Flags'
    OBVIOUS
<1>1. dir' = dir /\ forceClose' = forceClose
    BY SourceKept DEF source
<1>2. CASE Fill \/ SenderCloses \/ ReceiverGone \/ UNCHANGED rvars
    BY <1>1, <1>2, ZenonT(40) DEF Fill, SenderCloses, ReceiverGone, rvars, chunk, Flags
<1>3. CASE ReadMessage \/ ReadFails \/ ReadEnds \/ Replay \/ Tunnel \/ TunnelEnds
    BY <1>1, <1>3 DEF ReadMessage, ReadFails, ReadEnds, Replay, Tunnel, TunnelEnds,
       TempStop, Keep, chunk, Flags
<1>4. CASE WriteHead \/ CopyBody \/ BodyEnds \/ BufferFull
    BY <1>1, <1>4 DEF WriteHead, CopyBody, BodyEnds, BufferFull, Keep, chunk, Flags
<1>5. CASE ReadChunk
  <2>1. checkEnd' \in BOOLEAN
      BY <1>5 DEF ReadChunk
  <2> QED BY <1>1, <1>5, <2>1 DEF ReadChunk, Keep, Flags
<1>6. CASE \/ BeginChunk \/ EndChunk \/ ReturnChunk \/ ChunksBreakOff \/ ReadTrailer
           \/ Malformed
  <2>1. sync' \in BOOLEAN
      BY <1>6 DEF BeginChunk, EndChunk, ReturnChunk, ChunksBreakOff, ReadTrailer,
         Malformed, ChunksFail, Flags
  <2> QED BY <1>1, <1>6, <2>1 DEF BeginChunk, EndChunk, ReturnChunk, ChunksBreakOff,
             ReadTrailer, Malformed, ChunksFail, Keep, Flags
<1>7. CASE NextMessage
  <2>1. closed' \in BOOLEAN
      BY <1>7 DEF NextMessage
  <2> QED BY <1>1, <1>7, <2>1 DEF NextMessage, TempStart, Keep, Flags
<1> QED BY <1>2, <1>3, <1>4, <1>5, <1>6, <1>7, RelaySteps

(* What is left of a limited body or of a chunk is never negative: no read *)
(* takes more than that.                                                   *)
LEMMA CountersStep == Positions /\ Counters /\ [RelayNext]_rvars => Counters'
<1> SUFFICES ASSUME Positions, Counters, [RelayNext]_rvars PROVE Counters'
    OBVIOUS
<1>1. CASE ReadMessage
  <2>1. Unread.h \in Headers /\ ReadOK(Unread.h)
      BY <1>1, UnreadType, UnitTypes DEF ReadMessage
  <2>2. rem' \in Nat
      BY <1>1, <2>1, LimitType DEF ReadMessage
  <2> QED BY <1>1, <2>2 DEF ReadMessage, chunk, Counters
<1>2. CASE CopyBody
  <2> DEFINE n == IF msg.body = "eof" \/ rem > pos - rpos THEN pos - rpos ELSE rem
  <2>1. msg.body = "eof" \/ rem - n \in Nat
      BY DEF Positions, Counters
  <2>2. rem' = IF msg.body = "eof" THEN 0 ELSE rem - n
      BY <1>2 DEF CopyBody
  <2> HIDE DEF n
  <2> QED BY <1>2, <2>1, <2>2 DEF CopyBody, chunk, Counters
<1>3. CASE BeginChunk
  <2>1. Unread.u = "size" => Unread.n \in Nat
      BY <1>3, UnreadType, UnitTypes DEF BeginChunk
  <2> QED BY <1>3, <2>1 DEF BeginChunk, Counters
<1>4. CASE ReadChunk
  <2> DEFINE n == IF cn > pos - rpos THEN pos - rpos ELSE cn
  <2>1. cn - n \in Nat
      BY DEF Positions, Counters
  <2>2. cn' = cn - n
      BY <1>4 DEF ReadChunk
  <2> HIDE DEF n
  <2> QED BY <1>4, <2>1, <2>2 DEF ReadChunk, Counters
<1>5. CASE NextMessage
    BY <1>5 DEF NextMessage, Counters
<1>6. CASE \/ Fill \/ ReadFails \/ ReadEnds \/ Replay \/ Tunnel \/ TunnelEnds
           \/ WriteHead \/ BodyEnds \/ BufferFull \/ EndChunk \/ ReturnChunk
           \/ ChunksBreakOff \/ ReadTrailer \/ Malformed \/ SenderCloses
           \/ ReceiverGone \/ UNCHANGED rvars
    BY <1>6 DEF Malformed, ChunksFail, Fill, ReadFails, ReadEnds, Replay, Tunnel, TunnelEnds, WriteHead,
       BodyEnds, BufferFull, EndChunk, ReturnChunk, ChunksBreakOff, ReadTrailer,
       SenderCloses, ReceiverGone, rvars, chunk, Counters
<1> QED BY <1>1, <1>2, <1>3, <1>4, <1>5, <1>6, RelaySteps

(* chunkedReader holds nothing outside a chunked body, and TempWriter      *)
(* nothing while it is stopped.                                            *)
LEMMA ForgottenStep == Flags /\ Forgotten /\ [RelayNext]_rvars => Forgotten'
<1> SUFFICES ASSUME Flags, Forgotten, [RelayNext]_rvars PROVE Forgotten'
    OBVIOUS
<1>1. CASE Fill
    BY <1>1 DEF Fill, TempWrite, chunk, Forgotten
<1>2. CASE ReadMessage \/ Replay
    BY <1>2 DEF ReadMessage, Replay, TempStop, chunk, Forgotten
<1>3. CASE NextMessage
    BY <1>3 DEF NextMessage, TempStart, Forgotten
<1>4. CASE BeginChunk \/ ReadChunk \/ EndChunk \/ ReturnChunk \/ ChunksBreakOff
           \/ ReadTrailer \/ Malformed \/ BufferFull
    BY <1>4 DEF BeginChunk, ReadChunk, EndChunk, ReturnChunk, ChunksBreakOff, ReadTrailer,
       Malformed, ChunksFail, BufferFull, chunk, Forgotten
<1>5. CASE ReadFails \/ ReadEnds \/ Tunnel \/ TunnelEnds \/ WriteHead \/ CopyBody \/ BodyEnds
    BY <1>5 DEF ReadFails, ReadEnds, Tunnel, TunnelEnds, WriteHead, CopyBody, BodyEnds,
       chunk, Forgotten
<1>6. CASE SenderCloses \/ ReceiverGone \/ UNCHANGED rvars
    BY <1>6 DEF SenderCloses, ReceiverGone, rvars, chunk, Forgotten
<1> QED BY <1>1, <1>2, <1>3, <1>4, <1>5, <1>6, RelaySteps

(* What is sent is a sequence of units if the argument is one.             *)
LEMMA SendType ==
    ASSUME Contents, NEW s \in Seq(Units), Send(s)
    PROVE  out' \in Seq(Units)
<1>1. out \in Seq(Units) /\ wbuf \in Seq(Units)
    BY DEF Contents
<1>2. out \o wbuf \o s \in Seq(Units)
    BY <1>1, ConcatProperties
<1> QED BY <1>1, <1>2 DEF Send

(* The buffers and the receiver hold units.                                *)
LEMMA ContentsStep ==
    Positions /\ Counters /\ Contents /\ InHand /\ [RelayNext]_rvars => Contents'
<1> SUFFICES ASSUME Positions, Counters, Contents, InHand, [RelayNext]_rvars
             PROVE  Contents'
    OBVIOUS
<1> DEFINE T == Seq(Units)
<1>1. <<>> \in T /\ tmp \in T /\ acc \in T /\ wbuf \in T /\ out \in T
    BY DEF Contents
<1>2. ChunkOf(acc) \in T
    BY <1>1, ChunkType
<1>3. /\ <<Unit("last"), Unit("end")>> \in T
      /\ \A x \in Units : <<x>> \in T /\ <<Unit("last"), x>> \in T
    BY UnitTypes
<1>4. script \in T /\ pos \in 0..Len(script) /\ rpos \in 0..pos
    BY DEF Positions
<1>5. \A a \in Nat \ {0}, b \in 0..Len(script) : SubSeq(script, a, b) \in T
    BY <1>4, PartType
<1>6. CASE Fill
  <2>1. PICK n \in (pos + 1)..Len(script) : TempWrite(SubSeq(script, pos + 1, n))
      BY <1>6 DEF Fill
  <2>2. SubSeq(script, pos + 1, n) \in T
      BY <1>4, <1>5, <2>1
  <2>3. tmp \o SubSeq(script, pos + 1, n) \in T
      BY <1>1, <2>2, ConcatProperties
  <2>4. tmp' \in T
      BY <1>1, <2>1, <2>3 DEF TempWrite
  <2> QED BY <1>1, <1>6, <2>4 DEF Fill, chunk, Contents
<1>7. CASE ReadMessage
    BY <1>1, <1>7 DEF ReadMessage, TempStop, chunk, Contents
<1>8. CASE Replay
  <2>1. out' \in T
      BY <1>1, <1>8, SendType DEF Replay
  <2> QED BY <1>1, <1>8, <2>1 DEF Replay, TempStop, chunk, Contents
<1>9. CASE Tunnel
  <2>1. Buffered \in T
      BY <1>4, <1>5 DEF Buffered
  <2>2. out' \in T
      BY <1>9, <2>1, SendType DEF Tunnel
  <2> QED BY <1>1, <1>9, <2>2 DEF Tunnel, chunk, Contents
<1>10. CASE WriteHead
  <2> DEFINE h == HeadUnit(WriteHeader(Header, msg))
             t == IF msg.chunked THEN <<Unit("last"), Unit("end")>> ELSE <<>>
  <2>1. start < rpos /\ ~Foreigner(script[start + 1]) /\ msg = readTransfer(Header)
      BY <1>10 DEF WriteHead, InHand, Handling
  <2>2. script[start + 1] \in Units
      BY <1>4, <2>1, ElementOfSeq DEF Positions
  <2>3. Header \in Headers /\ ReadOK(Header)
      BY <2>1, <2>2, UnitTypes DEF Foreigner, Header
  <2>4. h \in Units
      BY <2>1, <2>3, WriteHeaderType, UnitTypes
  <2> HIDE DEF h
  <2>5. <<h>> \in T /\ t \in T
      BY <1>1, <1>3, <2>4
  <2>6. <<h>> \o t \in T
      BY <2>5, ConcatProperties
  <2>7. \/ Send(<<h>> \o t) /\ wbuf' = wbuf
        \/ Send(<<h>>) /\ wbuf' = wbuf
        \/ wbuf' = <<h>> /\ out' = out
      BY <1>10 DEF WriteHead, h
  <2> HIDE DEF t
  <2>8. out' \in T /\ wbuf' \in T
      BY <1>1, <2>5, <2>6, <2>7, SendType
  <2> QED BY <1>1, <1>10, <2>8 DEF WriteHead, chunk, Contents
<1>11. CASE CopyBody
  <2> DEFINE n == IF msg.body = "eof" \/ rem > pos - rpos THEN pos - rpos ELSE rem
             s == SubSeq(script, rpos + 1, rpos + n)
  <2>1. rpos + 1 \in Nat \ {0} /\ rpos + n \in 0..Len(script)
      BY <1>4 DEF Counters
  <2>2. s \in T
      BY <1>5, <2>1
  <2>3. (Send(s) /\ wbuf' = wbuf) \/ (wbuf' = wbuf \o s /\ out' = out)
      BY <1>11 DEF CopyBody
  <2> HIDE DEF s
  <2>4. wbuf \o s \in T
      BY <1>1, <2>2, ConcatProperties
  <2>5. out' \in T /\ wbuf' \in T
      BY <1>1, <2>2, <2>3, <2>4, SendType
  <2> QED BY <1>1, <1>11, <2>5 DEF CopyBody, chunk, Contents
<1>12. CASE BodyEnds \/ BufferFull
  <2>1. out' \in T
      BY <1>1, <1>12, SendType DEF BodyEnds, BufferFull
  <2> QED BY <1>1, <1>12, <2>1 DEF BodyEnds, BufferFull, chunk, Contents
<1>13. CASE ReadChunk
  <2> DEFINE n == IF cn > pos - rpos THEN pos - rpos ELSE cn
             s == SubSeq(script, rpos + 1, rpos + n)
  <2>1. rpos + 1 \in Nat \ {0} /\ rpos + n \in 0..Len(script)
      BY <1>4 DEF Counters
  <2>2. s \in T
      BY <1>5, <2>1
  <2>3. acc' = acc \o s
      BY <1>13 DEF ReadChunk
  <2> HIDE DEF s
  <2>4. acc' \in T
      BY <1>1, <2>2, <2>3, ConcatProperties
  <2> QED BY <1>1, <1>13, <2>4 DEF ReadChunk, Contents
<1>14. CASE ReturnChunk
  <2>1. wbuf \o ChunkOf(acc) \in T
      BY <1>1, <1>2, ConcatProperties
  <2>2. out' \in T /\ wbuf' \in T
    <3>1. (Send(ChunkOf(acc)) /\ wbuf' = wbuf) \/ (wbuf' = wbuf \o ChunkOf(acc) /\ out' = out)
        BY <1>14 DEF ReturnChunk
    <3>2. CASE Send(ChunkOf(acc)) /\ wbuf' = wbuf
        BY <1>1, <1>2, <3>2, SendType
    <3>3. CASE wbuf' = wbuf \o ChunkOf(acc) /\ out' = out
        BY <1>1, <2>1, <3>3
    <3> QED BY <3>1, <3>2, <3>3
  <2> QED BY <1>1, <1>14, <2>2 DEF ReturnChunk, Contents
<1>15. CASE ChunksBreakOff \/ Malformed
  <2>1. out' \in T
      BY <1>2, <1>15, SendType DEF ChunksBreakOff, Malformed, ChunksFail
  <2> QED BY <1>1, <1>15, <2>1 DEF ChunksBreakOff, Malformed, ChunksFail, Contents
<1>16. CASE ReadTrailer
  <2> DEFINE t == IF msg.trailer /\ Unread.u = "trailer" THEN Unread ELSE Unit("end")
  <2>1. t \in Units
      BY <1>16, UnreadType, UnitTypes DEF ReadTrailer
  <2>2. Send(ChunkOf(acc) \o <<Unit("last"), t>>)
      BY <1>16 DEF ReadTrailer
  <2> HIDE DEF t
  <2>3. ChunkOf(acc) \o <<Unit("last"), t>> \in T
      BY <1>2, <1>3, <2>1, ConcatProperties
  <2>4. out' \in T
      BY <2>2, <2>3, SendType
  <2> QED BY <1>1, <1>16, <2>4 DEF ReadTrailer, Contents
<1>17. CASE NextMessage
    BY <1>1, <1>17 DEF NextMessage, TempStart, Contents
<1>18. CASE \/ ReadFails \/ ReadEnds \/ TunnelEnds \/ BeginChunk \/ EndChunk
            \/ SenderCloses \/ ReceiverGone \/ UNCHANGED rvars
    BY <1>1, <1>18 DEF ReadFails, ReadEnds, TunnelEnds, BeginChunk, EndChunk,
       SenderCloses, ReceiverGone, rvars, chunk, Contents
<1> QED BY <1>6, <1>7, <1>8, <1>9, <1>10, <1>11, <1>12, <1>13, <1>14, <1>15, <1>16,
           <1>17, <1>18, RelaySteps

(* No unit is taken back: what the handler has read it has read.           *)
LEMMA NeverBack == Positions /\ Counters /\ [RelayNext]_rvars => rpos' >= rpos
<1> SUFFICES ASSUME Positions, Counters, [RelayNext]_rvars PROVE rpos' >= rpos
    OBVIOUS
<1>1. rpos \in Nat /\ pos \in Nat /\ rpos <= pos
    BY DEF Positions
<1>2. CASE ReadMessage \/ ReadFails \/ Tunnel \/ BeginChunk \/ EndChunk \/ ReadTrailer
    BY <1>1, <1>2 DEF ReadMessage, ReadFails, Tunnel, BeginChunk, EndChunk, ReadTrailer
<1>3. CASE CopyBody \/ ReadChunk
    BY <1>1, <1>3 DEF CopyBody, ReadChunk, Positions, Counters
<1>4. CASE \/ Fill \/ ReadEnds \/ Replay \/ TunnelEnds \/ WriteHead \/ BodyEnds
           \/ BufferFull \/ ReturnChunk \/ ChunksBreakOff \/ NextMessage
           \/ SenderCloses \/ ReceiverGone \/ UNCHANGED rvars
    BY <1>1, <1>4 DEF Fill, ReadEnds, Replay, TunnelEnds, WriteHead, BodyEnds, BufferFull,
       ReturnChunk, ChunksBreakOff, NextMessage, SenderCloses, ReceiverGone, rvars
<1>5. CASE Malformed
    BY <1>1, <1>5 DEF Malformed, ChunksFail
<1> QED BY <1>2, <1>3, <1>4, <1>5, RelaySteps

(* A message in hand stays the one that was read until the next one.       *)
LEMMA InHandStep ==
    Positions /\ Counters /\ InHand /\ [RelayNext]_rvars => InHand'
<1> SUFFICES ASSUME Positions, Counters, InHand, [RelayNext]_rvars PROVE InHand'
    OBVIOUS
<1>1. script' = script
    BY SourceKept DEF source
<1>2. start \in Nat /\ rpos \in Nat /\ pos \in Nat
    BY DEF Positions
<1>3. CASE ReadMessage
  <2>1. start' = rpos /\ rpos' = rpos + 1 /\ msg' = readTransfer(Unread.h)
      BY <1>3 DEF ReadMessage
  <2>2. script'[start' + 1] = Unread /\ ~Foreigner(Unread)
      BY <1>1, <1>3, <2>1 DEF Unread, ReadMessage, Foreigner
  <2>3. start' < rpos'
      BY <1>2, <2>1
  <2> QED BY <2>1, <2>2, <2>3 DEF InHand, Header, Foreigner
<1>4. CASE ReadFails \/ ReadEnds \/ Replay \/ Tunnel \/ TunnelEnds \/ NextMessage
    BY <1>4 DEF ReadFails, ReadEnds, Replay, Tunnel, TunnelEnds, NextMessage, InHand,
       Handling
<1>5. ASSUME pc' \in Handling => pc \in Handling, start' = start, msg' = msg, rpos' >= rpos,
             rpos' \in Nat
      PROVE  InHand'
    BY <1>1, <1>2, <1>5 DEF InHand, Header, Foreigner
<1>6. rpos' \in Nat /\ rpos' >= rpos
    BY PositionsStep, NeverBack DEF Positions
<1>7. CASE Fill \/ SenderCloses \/ ReceiverGone \/ UNCHANGED rvars
    BY <1>5, <1>6, <1>7 DEF Fill, SenderCloses, ReceiverGone, rvars
<1>8. CASE WriteHead \/ BodyEnds \/ BufferFull \/ ReturnChunk \/ ChunksBreakOff
    BY <1>5, <1>6, <1>8 DEF WriteHead, BodyEnds, BufferFull, ReturnChunk,
       ChunksBreakOff, Handling
<1>9. CASE BeginChunk \/ EndChunk \/ ReadTrailer \/ Malformed
    BY <1>5, <1>6, <1>9 DEF BeginChunk, EndChunk, ReadTrailer, Malformed, ChunksFail,
       Handling
<1>10. CASE CopyBody \/ ReadChunk
    BY <1>5, <1>6, <1>10 DEF CopyBody, ReadChunk, Handling
<1> QED BY <1>3, <1>4, <1>7, <1>8, <1>9, <1>10, RelaySteps

(* TempWriter has everything up to the first message, because every read   *)
(* goes through it.                                                        *)
LEMMA AtFirstStep ==
    Positions /\ Counters /\ InHand /\ AtFirst /\ [RelayNext]_rvars => AtFirst'
<1> SUFFICES ASSUME Positions, Counters, InHand, AtFirst, [RelayNext]_rvars PROVE AtFirst'
    OBVIOUS
<1>1. script' = script
    BY SourceKept DEF source
<1>2. /\ script \in Seq(Units) /\ pos \in 0..Len(script) /\ rpos \in Nat /\ rpos <= pos
      /\ start \in Nat /\ rpos' \in Nat /\ rpos' >= rpos
    BY NeverBack, PositionsStep DEF Positions
<1>3. CASE Fill
  <2>1. PICK n \in (pos + 1)..Len(script) :
           pos' = n /\ TempWrite(SubSeq(script, pos + 1, n))
      BY <1>3 DEF Fill
  <2>2. /\ pc' = pc /\ rpos' = rpos /\ start' = start /\ stopped' = stopped
        /\ wbuf' = wbuf /\ out' = out /\ ~fin /\ ~closed
      BY <1>3 DEF Fill
  <2>3. SubSeq(script, 1, pos) \o SubSeq(script, pos + 1, n) = SubSeq(script, 1, n)
      BY <1>2, <2>1, ConcatAdjacentSubSeq
  <2>4. ~stopped /\ tmp = SubSeq(script, 1, pos) => tmp' = SubSeq(script, 1, pos')
      BY <2>1, <2>3 DEF TempWrite
  <2> QED BY <1>1, <2>2, <2>4 DEF AtFirst, Foreigner
<1>4. CASE SenderCloses \/ ReceiverGone \/ UNCHANGED rvars
    BY <1>1, <1>4 DEF SenderCloses, ReceiverGone, rvars, AtFirst, Foreigner
<1>5. CASE ReadMessage \/ ReadFails \/ Tunnel
  <2>1. rpos' > 0 /\ pc' # "read"
      BY <1>2, <1>5 DEF ReadMessage, ReadFails, Tunnel
  <2> QED BY <1>2, <2>1 DEF AtFirst
<1>6. CASE ReadEnds \/ Replay \/ TunnelEnds
    BY <1>2, <1>6 DEF ReadEnds, Replay, TunnelEnds, Drained, Keep, AtFirst
<1>7. CASE pc \in Handling
  <2>1. rpos' > 0
      BY <1>2, <1>7 DEF InHand
  <2>2. pc' = "read" => start' = start /\ ~Foreigner(script[start + 1])
      BY <1>7, RelaySteps DEF Fill, ReadMessage, ReadFails, ReadEnds, Replay, Tunnel,
         TunnelEnds, WriteHead, CopyBody, BodyEnds, BufferFull, BeginChunk, ReadChunk,
         EndChunk, ReturnChunk, ChunksBreakOff, ReadTrailer, Malformed, ChunksFail,
         NextMessage, SenderCloses, ReceiverGone, rvars, InHand, Handling
  <2> QED BY <1>1, <1>2, <2>1, <2>2 DEF AtFirst, Foreigner
<1>8. CASE \/ WriteHead \/ CopyBody \/ BodyEnds \/ BufferFull \/ BeginChunk \/ ReadChunk
           \/ EndChunk \/ ReturnChunk \/ ChunksBreakOff \/ ReadTrailer \/ Malformed
           \/ NextMessage
  <2>1. pc \in Handling
      BY <1>8 DEF WriteHead, CopyBody, BodyEnds, BufferFull, BeginChunk, ReadChunk,
         EndChunk, ReturnChunk, ChunksBreakOff, ReadTrailer, Malformed, NextMessage,
         Handling
  <2> QED BY <1>7, <2>1
<1> QED BY <1>3, <1>4, <1>5, <1>6, <1>8, RelaySteps

(* The fallback sends what TempWriter has, which includes the message, and *)
(* then what the buffered reader has left and the connection still brings. *)
LEMMA HandoverStep ==
    Positions /\ Contents /\ Counters /\ InHand /\ AtFirst /\ Handover /\ [RelayNext]_rvars
        => Handover'
<1> SUFFICES ASSUME Positions, Contents, Counters, InHand, AtFirst, Handover,
                    [RelayNext]_rvars, Fallback', start' = 0
             PROVE  /\ pc' = "replay" => /\ rpos' = 1 /\ tmp' = SubSeq(script', 1, pos')
                                         /\ wbuf' = <<>> /\ out' = <<>>
                    /\ pc' \in {"tunnel", "done"} =>
                          /\ wbuf' = <<>>
                          /\ wOK' => \E j \in 1..pos' :
                               out' = SubSeq(script', 1, j) \o SubSeq(script', 2, rpos')
    BY DEF Handover
<1>1. script' = script
    BY SourceKept DEF source
<1>2. /\ script \in Seq(Units) /\ pos \in 0..Len(script) /\ rpos \in 0..pos /\ start \in Nat
      /\ Len(script) \in Nat /\ rpos' > 0 /\ Foreigner(script[1])
    BY <1>1 DEF Positions, Fallback, Foreigner
<1>3. ASSUME start' = start, rpos' = rpos PROVE Fallback /\ start = 0
    BY <1>1, <1>3 DEF Fallback, Foreigner
<1>4. CASE ReadFails
  <2>1. rpos = 0 /\ rpos' = 1 /\ pos' = pos /\ pc = "read" /\ pc' = "replay"
      BY <1>2, <1>4 DEF ReadFails, Keep
  <2> QED BY <1>1, <1>4, <2>1 DEF ReadFails, AtFirst
<1>5. CASE ReadEnds
  <2>1. Fallback /\ start = 0 /\ pc = "read"
      BY <1>3, <1>5 DEF ReadEnds
  <2> QED BY <2>1 DEF AtFirst, Fallback
<1>6. CASE Replay
  <2>1. Fallback /\ start = 0 /\ pc = "replay" /\ pos' = pos /\ wOK' = wOK /\ rpos' = rpos
      BY <1>3, <1>6 DEF Replay, Keep
  <2>2. rpos = 1 /\ tmp = SubSeq(script, 1, pos) /\ wbuf = <<>> /\ out = <<>>
      BY <2>1 DEF Handover
  <2>3. tmp \in Seq(Units) /\ <<>> \o <<>> \o tmp = tmp /\ tmp \o <<>> = tmp
      BY ConcatEmptySeq DEF Contents
  <2>4. wOK => out' = SubSeq(script, 1, pos) \o SubSeq(script, 2, 1)
      BY <1>6, <2>2, <2>3, SubSeqEmpty DEF Replay, Send
  <2>5. pos \in 1..pos
      BY <1>2, <2>2
  <2> QED BY <1>1, <1>6, <2>1, <2>2, <2>4, <2>5 DEF Replay
<1>7. CASE Tunnel
  <2>1. pc = "tunnel" /\ rpos' = pos /\ pos' = pos /\ start = 0 /\ wOK' = wOK /\ wbuf' = wbuf
        /\ pc' # "replay" /\ rpos < pos
      BY <1>7 DEF Tunnel, Keep
  <2>2. rpos > 0
      BY <1>2, <2>1 DEF AtFirst
  <2>3. Fallback
      BY <1>2, <2>1, <2>2 DEF Fallback
  <2>4. wbuf = <<>>
      BY <2>1, <2>3 DEF Handover
  <2>5. ASSUME wOK PROVE \E j \in 1..pos : out' = SubSeq(script, 1, j) \o SubSeq(script, 2, pos)
    <3>1. PICK j \in 1..pos : out = SubSeq(script, 1, j) \o SubSeq(script, 2, rpos)
        BY <2>1, <2>3, <2>5 DEF Handover
    <3> DEFINE a == SubSeq(script, 1, j)
               b == SubSeq(script, 2, rpos)
               c == SubSeq(script, rpos + 1, pos)
    <3>2. a \in Seq(Units) /\ b \in Seq(Units) /\ c \in Seq(Units)
        BY <1>2, PartType
    <3>3. b \o c = SubSeq(script, 2, pos)
        BY <1>2, <2>1, <2>2, ConcatAdjacentSubSeq
    <3>4. out' = out \o <<>> \o c
        BY <1>7, <2>4, <2>5 DEF Tunnel, Send, Buffered
    <3> HIDE DEF a, b, c
    <3>5. out \in Seq(Units) /\ out \o <<>> = out
        BY ConcatEmptySeq DEF Contents
    <3>6. out' = a \o (b \o c)
        BY <3>1, <3>2, <3>4, <3>5, ConcatAssociative, SMTT(30) DEF a, b
    <3> QED BY <3>3, <3>6 DEF a
  <2> QED BY <1>1, <2>1, <2>4, <2>5
<1>8. CASE TunnelEnds
  <2>1. Fallback /\ start = 0 /\ pc = "tunnel"
      BY <1>3, <1>8 DEF TunnelEnds
  <2> QED BY <1>1, <1>8, <2>1 DEF TunnelEnds, Keep, Handover
<1>9. CASE Fill
  <2>1. Fallback /\ start = 0 /\ pc' = pc /\ wbuf' = wbuf /\ out' = out /\ wOK' = wOK
        /\ pc # "replay" /\ rpos' = rpos
      BY <1>3, <1>9 DEF Fill, Reads
  <2>2. pos' \in Nat /\ pos' > pos
      BY <1>2, <1>9 DEF Fill
  <2>3. 1..pos \subseteq 1..pos'
      BY <1>2, <2>2
  <2> QED BY <1>1, <2>1, <2>3 DEF Handover
<1>10. CASE SenderCloses \/ ReceiverGone \/ UNCHANGED rvars
  <2>1. Fallback /\ start = 0 /\ (wOK' => wOK)
      BY <1>3, <1>10 DEF SenderCloses, ReceiverGone, rvars
  <2> QED BY <1>1, <1>10, <2>1 DEF SenderCloses, ReceiverGone, rvars, Handover
<1>11. CASE \/ ReadMessage \/ WriteHead \/ CopyBody \/ BodyEnds \/ BufferFull
            \/ BeginChunk \/ ReadChunk \/ EndChunk \/ ReturnChunk \/ ChunksBreakOff
            \/ ReadTrailer \/ Malformed \/ NextMessage
  <2>1. pc' \notin {"replay", "tunnel", "done"}
      BY <1>11 DEF ReadMessage, WriteHead, CopyBody, BodyEnds, BufferFull, BeginChunk,
         ReadChunk, EndChunk, ReturnChunk, ChunksBreakOff, ReadTrailer, Malformed,
         ChunksFail, NextMessage
  <2> QED BY <2>1
<1> QED BY <1>4, <1>5, <1>6, <1>7, <1>8, <1>9, <1>10, <1>11, RelaySteps

-----------------------------------------------------------------------------
(* The invariant holds when the handler starts.                            *)
LEMMA RelayInitInv == RelayInit => RelayInv
<1> SUFFICES ASSUME RelayInit PROVE RelayInv
    OBVIOUS
<1>1. PICK s \in Scripts : dir = s[1] /\ script = s[2]
    BY DEF RelayInit
<1>2. dir \in {"request", "response"} /\ script \in Seq(Units)
    BY <1>1, ScriptsAssumption
<1>3. Len(script) \in Nat /\ SubSeq(script, 1, 0) = <<>>
    BY <1>2, SubSeqEmpty
<1>4. Positions /\ Contents /\ Counters
    BY <1>2, <1>3 DEF RelayInit, Positions, Contents, Counters
<1>5. Flags
    BY <1>2 DEF RelayInit, Flags
<1>6. Forgotten /\ InHand
    BY DEF RelayInit, Forgotten, InHand, Handling
<1>7. AtFirst
    BY <1>3 DEF RelayInit, AtFirst
<1>8. Handover
    BY DEF RelayInit, Handover
<1> QED BY <1>4, <1>5, <1>6, <1>7, <1>8, TypeParts DEF RelayInv

(* Every step of the sender, the receiver and the handler keeps it.        *)
LEMMA RelayNextInv == RelayInv /\ [RelayNext]_rvars => RelayInv'
<1> SUFFICES ASSUME RelayInv, [RelayNext]_rvars PROVE RelayInv'
    OBVIOUS
<1>1. Positions /\ Contents /\ Flags /\ Counters /\ Forgotten
    BY TypeParts DEF RelayInv
<1>2. InHand /\ AtFirst /\ Handover
    BY DEF RelayInv
<1>3. Positions' /\ Contents' /\ Flags' /\ Counters' /\ Forgotten'
    BY <1>1, <1>2, PositionsStep, ContentsStep, FlagsStep, CountersStep, ForgottenStep
<1>4. RelayTypeOK'
    BY <1>3 DEF RelayTypeOK, Positions, Contents, Flags, Counters, Forgotten
<1>5. InHand' /\ AtFirst' /\ Handover'
    BY <1>1, <1>2, InHandStep, AtFirstStep, HandoverStep
<1> QED BY <1>4, <1>5 DEF RelayInv

(* The inductive invariant of the relay.                                   *)
LEMMA RelayInvariance == RelaySpec => []RelayInv
BY RelayInitInv, RelayNextInv, PTL DEF RelaySpec

(* The relay of every stream is well typed: no read takes more than the    *)
(* body or chunk in hand has left, the reader never runs ahead of the      *)
(* connection, and TempWriter keeps nothing while it is stopped.           *)
THEOREM RelayTypes == RelaySpec => []RelayTypeOK
<1>1. RelayInv => RelayTypeOK
    BY DEF RelayInv
<1> QED BY <1>1, RelayInvariance, PTL

(* When the first message cannot be relayed, the fallback forwards it and  *)
(* all that follows, in order and without loss, however the stream was cut *)
(* into reads; only what was read with it may be repeated.                 *)
THEOREM FallbackForwardsAll == RelaySpec => []FallbackComplete
<1>1. RelayInv => FallbackComplete
    BY DEF RelayInv, Handover, FallbackComplete
<1> QED BY <1>1, RelayInvariance, PTL
=============================================================================
