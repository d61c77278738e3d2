-------------------------- MODULE HTTPMessageProofs --------------------------
(***************************************************************************)
(* The relay of one direction (HTTPRelay) writes the messages it reads:    *)
(* for every well framed stream, however it is cut into reads, chunks and  *)
(* flushes and wherever it breaks off, the receiver finds in what it gets  *)
(* the messages that a receiver of the original stream would have found,   *)
(* until a chunk or a trailer is malformed.                                *)
(*                                                                         *)
(* The reference reader (Ends, DataOf, Messages) is defined by recursion   *)
(* over a stream of any length.  Its values are computed here by induction *)
(* over the positions, in the form of `UpTo': a set that holds 0 and with  *)
(* each number the next one holds all numbers up to n.                     *)
(***************************************************************************)
EXTENDS HTTPRelayProofs

(* A set of natural numbers has a least element: induction over data in a  *)
(* form that names a set instead of a predicate.                           *)
LEMMA LeastNumber ==
    ASSUME NEW T, T \subseteq Nat, T # {}
    PROVE  \E x \in T : \A y \in T : x <= y
<1>1. PICK x \in T : \A y \in T : ~ (<<y, x>> \in OpToRel(<, Nat))
    BY NatLessThanWellFounded, WFMin
<1>2. \A y \in T : ~(y < x)
    BY <1>1, Zenon DEF OpToRel
<1> QED BY <1>2

(* Step i of a recursion that looks one step back holds for all i up to n  *)
(* if it holds for 0 and each follows from the one before.                 *)
LEMMA UpTo ==
    ASSUME NEW n \in Nat, NEW S, 0 \in S, \A k \in 1..n : k - 1 \in S => k \in S
    PROVE  \A k \in 0..n : k \in S
<1> DEFINE T == {k \in 0..n : k \notin S}
<1> SUFFICES ASSUME T # {} PROVE FALSE
    OBVIOUS
<1>1. T \subseteq Nat
    OBVIOUS
<1>2. PICK x \in T : \A y \in T : x <= y
  <2> HIDE DEF T
  <2> QED BY <1>1, LeastNumber
<1>3. x \in 1..n /\ x \notin S
    OBVIOUS
<1>4. x - 1 \notin T
  <2> HIDE DEF T
  <2> QED BY <1>2, <1>3
<1>5. x - 1 \in S
    BY <1>3, <1>4
<1> QED BY <1>3, <1>5

(* Ends is well defined: each end is found from the one before.            *)
EndsTo(s, eof, n, E) == E = [k \in 0..n |-> IF k = 0 THEN 0 ELSE NextEnd(s, E[k - 1], eof)]

(* There is a function that satisfies the recursion.                       *)
LEMMA EndsExists ==
    ASSUME NEW s, NEW eof, NEW n \in Nat
    PROVE  \E E : EndsTo(s, eof, n, E)
<1> DEFINE S == {k \in Nat : \E E : EndsTo(s, eof, k, E)}
<1>1. 0 \in S
  <2>1. EndsTo(s, eof, 0, [k \in 0..0 |-> 0])
      BY DEF EndsTo
  <2> QED BY <2>1
<1>2. ASSUME NEW k \in 1..n, k - 1 \in S PROVE k \in S
  <2>1. PICK E : EndsTo(s, eof, k - 1, E)
      BY <1>2
  <2>2. EndsTo(s, eof, k, [j \in 0..k |-> IF j < k THEN E[j] ELSE NextEnd(s, E[k - 1], eof)])
      BY <2>1 DEF EndsTo
  <2> QED BY <2>2
<1> HIDE DEF S
<1>3. n \in S
    BY <1>1, <1>2, UpTo
<1> QED BY <1>3 DEF S

(* Ends is that function.                                                  *)
LEMMA EndsDef ==
    ASSUME NEW s \in Seq(Units), NEW eof
    PROVE  EndsTo(s, eof, Len(s), Ends(s, eof))
<1>1. \E E : EndsTo(s, eof, Len(s), E)
    BY EndsExists, LenProperties
<1>2. Ends(s, eof) = CHOOSE E : EndsTo(s, eof, Len(s), E)
    BY DEF Ends, EndsTo
<1> QED BY <1>1, <1>2

-----------------------------------------------------------------------------
(* The recursion that DataOf stands for, over the first n units.           *)
Longer(d, x) == IF x.u = "data" THEN Append(d, x) ELSE d

DataTo(s, n, D) == D = [k \in 0..n |-> IF k = 0 THEN <<>> ELSE Longer(D[k - 1], s[k])]

(* It defines a function.                                                  *)
LEMMA DataExists ==
    ASSUME NEW s, NEW n \in Nat
    PROVE  \E D : DataTo(s, n, D)
<1> DEFINE S == {k \in Nat : \E D : DataTo(s, k, D)}
<1>1. 0 \in S
  <2>1. DataTo(s, 0, [k \in 0..0 |-> <<>>])
      BY DEF DataTo
  <2> QED BY <2>1
<1>2. ASSUME NEW k \in 1..n, k - 1 \in S PROVE k \in S
  <2>1. PICK D : DataTo(s, k - 1, D)
      BY <1>2
  <2>2. DataTo(s, k, [j \in 0..k |-> IF j < k THEN D[j] ELSE Longer(D[k - 1], s[k])])
      BY <2>1 DEF DataTo
  <2> QED BY <2>2
<1> HIDE DEF S
<1>3. n \in S
    BY <1>1, <1>2, UpTo
<1> QED BY <1>3 DEF S

(* DataOf is its last value, whichever function is taken.                  *)
LEMMA DataDef ==
    ASSUME NEW s \in Seq(Units)
    PROVE  \E D : DataTo(s, Len(s), D) /\ DataOf(s) = D[Len(s)]
<1>1. \E D : DataTo(s, Len(s), D)
    BY DataExists, LenProperties
<1> DEFINE C == CHOOSE D : DataTo(s, Len(s), D)
<1>2. DataOf(s) = C[Len(s)]
    BY DEF DataOf, DataTo, Longer
<1>3. DataTo(s, Len(s), C)
    BY <1>1
<1> QED BY <1>2, <1>3

(* Streams that agree on their first n units agree on the data in them.    *)
LEMMA DataAgree ==
    ASSUME NEW s, NEW t, NEW m \in Nat, NEW n \in 0..m, NEW C, NEW D,
           DataTo(s, n, C), DataTo(t, m, D), \A k \in 1..n : s[k] = t[k]
    PROVE  C[n] = D[n]
<1> DEFINE S == {k \in 0..n : C[k] = D[k]}
<1>1. 0 \in S
    BY DEF DataTo
<1>2. ASSUME NEW k \in 1..n, k - 1 \in S PROVE k \in S
  <2>1. C[k] = Longer(C[k - 1], s[k])
      BY DEF DataTo
  <2>2. D[k] = Longer(D[k - 1], t[k])
      BY DEF DataTo
  <2> QED BY <1>2, <2>1, <2>2
<1> HIDE DEF S
<1>3. n \in S
    BY <1>1, <1>2, UpTo
<1> QED BY <1>3 DEF S

(* There is no data in nothing.                                            *)
LEMMA DataNil == DataOf(<<>>) = <<>>
<1>1. <<>> \in Seq(Units) /\ Len(<<>>) = 0
    OBVIOUS
<1>2. PICK D : DataTo(<<>>, 0, D) /\ DataOf(<<>>) = D[0]
    BY <1>1, DataDef
<1> QED BY <1>2 DEF DataTo

(* One unit more is one piece of data more if it is one.                   *)
LEMMA DataAppend ==
    ASSUME NEW s \in Seq(Units), NEW x \in Units
    PROVE  DataOf(Append(s, x)) = Longer(DataOf(s), x)
<1> DEFINE t == Append(s, x)
<1>1. PICK n \in Nat : n = Len(s)
    BY LenProperties
<1>2. t \in Seq(Units) /\ Len(t) = n + 1 /\ t[n + 1] = x /\ \A k \in 1..n : s[k] = t[k]
    BY <1>1, AppendProperties
<1> HIDE DEF t
<1>3. PICK C : DataTo(s, n, C) /\ DataOf(s) = C[n]
    BY <1>1, DataDef
<1>4. PICK D : DataTo(t, n + 1, D) /\ DataOf(t) = D[n + 1]
    BY <1>2, DataDef
<1>5. C[n] = D[n]
    BY <1>2, <1>3, <1>4, DataAgree
<1>6. D[n + 1] = Longer(D[n], t[n + 1])
    BY <1>4 DEF DataTo
<1> QED BY <1>2, <1>3, <1>4, <1>5, <1>6 DEF t

(* Longer adds at the end.                                                 *)
LEMMA LongerType ==
    ASSUME NEW d \in Seq(Units), NEW x \in Units
    PROVE  Longer(d, x) \in Seq(Units)
BY DEF Longer

(* Nor does what comes before make a difference.                           *)
LEMMA LongerConcat ==
    ASSUME NEW c \in Seq(Units), NEW d \in Seq(Units), NEW x \in Units
    PROVE  Longer(c \o d, x) = c \o Longer(d, x)
<1>1. Append(c \o d, x) = c \o Append(d, x)
    OBVIOUS
<1> QED BY <1>1 DEF Longer

(* The data of a stream is a stream of units.                              *)
LEMMA DataType ==
    ASSUME NEW s \in Seq(Units)
    PROVE  DataOf(s) \in Seq(Units)
<1>1. PICK n \in Nat : n = Len(s)
    BY LenProperties
<1> DEFINE P(k) == DataOf(SubSeq(s, 1, k)) \in Seq(Units)
           S == {k \in 0..n : P(k)}
<1>2. P(0)
  <2>1. SubSeq(s, 1, 0) = <<>>
      BY SubSeqEmpty
  <2>2. DataOf(<<>>) = <<>> /\ <<>> \in Seq(Units)
      BY DataNil
  <2> QED BY <2>1, <2>2, Zenon
<1>3. ASSUME NEW k \in 1..n, P(k - 1) PROVE P(k)
  <2> DEFINE u == SubSeq(s, 1, k - 1)
  <2>1. u \in Seq(Units) /\ s[k] \in Units /\ SubSeq(s, 1, k) = Append(u, s[k])
      BY <1>1
  <2>2. DataOf(Append(u, s[k])) = Longer(DataOf(u), s[k])
      BY <2>1, DataAppend
  <2>3. DataOf(u) \in Seq(Units)
      BY <1>3
  <2> HIDE DEF u
  <2> QED BY <2>1, <2>2, <2>3, LongerType
<1>4. P(n)
  <2> HIDE DEF P
  <2>1. 0 \in S
      BY <1>1, <1>2
  <2>2. \A k \in 1..n : k - 1 \in S => k \in S
      BY <1>3
  <2> HIDE DEF S
  <2>3. \A k \in 0..n : k \in S
      BY <2>1, <2>2, UpTo
  <2>4. n \in S
      BY <2>3
  <2> QED BY <2>4 DEF S
<1> QED BY <1>1, <1>4, SubSeqFull

(* The data of two streams together is that of the one and of the other.   *)
LEMMA DataConcat ==
    ASSUME NEW s \in Seq(Units), NEW t \in Seq(Units)
    PROVE  DataOf(s \o t) = DataOf(s) \o DataOf(t)
<1>1. PICK n \in Nat : n = Len(t)
    BY LenProperties
<1> DEFINE P(k) == DataOf(s \o SubSeq(t, 1, k)) = DataOf(s) \o DataOf(SubSeq(t, 1, k))
           S == {k \in 0..n : P(k)}
<1>2. P(0)
  <2>1. SubSeq(t, 1, 0) = <<>>
      BY SubSeqEmpty
  <2>2. DataOf(s) \in Seq(Units)
      BY DataType
  <2>3. s \o <<>> = s /\ DataOf(s) \o <<>> = DataOf(s)
      BY <2>2, ConcatEmptySeq
  <2> QED BY <2>1, <2>3, DataNil
<1>3. ASSUME NEW k \in 1..n, P(k - 1) PROVE P(k)
  <2> DEFINE u == SubSeq(t, 1, k - 1)
  <2>1. u \in Seq(Units) /\ t[k] \in Units /\ SubSeq(t, 1, k) = Append(u, t[k])
      BY <1>1
  <2>2. DataOf(s \o u) = DataOf(s) \o DataOf(u)
      BY <1>3
  <2> HIDE DEF u
  <2>3. s \o u \in Seq(Units) /\ s \o Append(u, t[k]) = Append(s \o u, t[k])
      BY <2>1
  <2>4. /\ DataOf(s) \in Seq(Units) /\ DataOf(u) \in Seq(Units)
        /\ DataOf(Append(u, t[k])) = Longer(DataOf(u), t[k])
      BY <2>1, DataAppend, DataType
  <2>5. DataOf(Append(s \o u, t[k])) = Longer(DataOf(s \o u), t[k])
      BY <2>1, <2>3, DataAppend
  <2>6. Longer(DataOf(s) \o DataOf(u), t[k]) = DataOf(s) \o Longer(DataOf(u), t[k])
      BY <2>1, <2>4, LongerConcat
  <2> QED BY <2>1, <2>2, <2>3, <2>4, <2>5, <2>6
<1>4. P(n)
  <2> HIDE DEF P
  <2>1. 0 \in S
      BY <1>1, <1>2
  <2>2. \A k \in 1..n : k - 1 \in S => k \in S
      BY <1>3
  <2> HIDE DEF S
  <2>3. \A k \in 0..n : k \in S
      BY <2>1, <2>2, UpTo
  <2>4. n \in S
      BY <2>3
  <2> QED BY <2>4 DEF S
<1>5. SubSeq(t, 1, Len(t)) = t
    BY SubSeqFull
<1> QED BY <1>1, <1>4, <1>5

(* Of one unit, and of nothing but data.                                   *)
LEMMA DataOne ==
    ASSUME NEW x \in Units
    PROVE  DataOf(<<x>>) = IF x.u = "data" THEN <<x>> ELSE <<>>
<1>1. <<>> \in Seq(Units) /\ <<x>> = Append(<<>>, x)
    OBVIOUS
<1>2. DataOf(<<x>>) = Longer(<<>>, x)
    BY <1>1, DataAppend, DataNil
<1> QED BY <1>1, <1>2 DEF Longer

(* There is nothing else in nothing but data.                              *)
LEMMA DataOnly ==
    ASSUME NEW s \in Seq(Units), \A k \in 1..Len(s) : s[k].u = "data"
    PROVE  DataOf(s) = s
<1>1. PICK n \in Nat : n = Len(s)
    BY LenProperties
<1> DEFINE P(k) == DataOf(SubSeq(s, 1, k)) = SubSeq(s, 1, k)
           S == {k \in 0..n : P(k)}
<1>2. P(0)
  <2>1. SubSeq(s, 1, 0) = <<>>
      BY SubSeqEmpty
  <2>2. DataOf(<<>>) = <<>> /\ <<>> \in Seq(Units)
      BY DataNil
  <2> QED BY <2>1, <2>2, Zenon
<1>3. ASSUME NEW k \in 1..n, P(k - 1) PROVE P(k)
  <2> DEFINE u == SubSeq(s, 1, k - 1)
  <2>1. u \in Seq(Units) /\ s[k] \in Units /\ SubSeq(s, 1, k) = Append(u, s[k])
      BY <1>1
  <2>2. DataOf(Append(u, s[k])) = Longer(DataOf(u), s[k])
      BY <2>1, DataAppend
  <2>3. DataOf(u) = u
      BY <1>3
  <2> HIDE DEF u
  <2> QED BY <1>1, <2>1, <2>2, <2>3 DEF Longer
<1>4. P(n)
  <2> HIDE DEF P
  <2>1. 0 \in S
      BY <1>1, <1>2
  <2>2. \A k \in 1..n : k - 1 \in S => k \in S
      BY <1>3
  <2> HIDE DEF S
  <2>3. \A k \in 0..n : k \in S
      BY <2>1, <2>2, UpTo
  <2>4. n \in S
      BY <2>3
  <2> QED BY <2>4 DEF S
<1> QED BY <1>1, <1>4, SubSeqFull

(* A chunk has the data that was put in it.                                *)
LEMMA DataOfChunk ==
    ASSUME NEW s \in Seq(Units), \A k \in 1..Len(s) : s[k].u = "data"
    PROVE  DataOf(ChunkOf(s)) = s
<1>1. CASE s = <<>>
    BY <1>1, DataNil DEF ChunkOf
<1>2. CASE s # <<>>
  <2> DEFINE size == [u |-> "size", n |-> Len(s)]
             crlf == Unit("crlf")
  <2>1. Len(s) \in Nat \ {0}
      BY <1>2, EmptySeq
  <2>2. size \in Units /\ crlf \in Units /\ size.u = "size" /\ crlf.u = "crlf"
      BY <2>1, UnitTypes DEF Unit
  <2>3. ChunkOf(s) = <<size>> \o s \o <<crlf>>
      BY <1>2 DEF ChunkOf
  <2> HIDE DEF size, crlf
  <2>4. DataOf(<<size>>) = <<>> /\ DataOf(<<crlf>>) = <<>> /\ DataOf(s) = s
      BY <2>2, DataOne, DataOnly
  <2>5. <<size>> \in Seq(Units) /\ <<crlf>> \in Seq(Units) /\ <<size>> \o s \in Seq(Units)
      BY <2>2
  <2>6. DataOf(<<size>> \o s) = <<>> \o s
      BY <2>4, <2>5, DataConcat
  <2>7. DataOf(<<size>> \o s \o <<crlf>>) = (<<>> \o s) \o <<>>
      BY <2>4, <2>5, <2>6, DataConcat
  <2>8. (<<>> \o s) \o <<>> = s
      BY ConcatEmptySeq
  <2> QED BY <2>3, <2>7, <2>8
<1> QED BY <1>1, <1>2

(* e[k] is where the k-th message of s ends, for the first n messages.     *)
Marks(s, eof, n, e) ==
    /\ e \in [0..n -> Nat] /\ e[0] = 0
    /\ \A k \in 1..n : e[k] = NextEnd(s, e[k - 1], eof) /\ e[k] \in k..Len(s)

(* The recursion, unfolded.                                                *)
LEMMA EndsStep ==
    ASSUME NEW s \in Seq(Units), NEW eof
    PROVE  /\ Ends(s, eof)[0] = 0
           /\ \A k \in 1..Len(s) : Ends(s, eof)[k] = NextEnd(s, Ends(s, eof)[k - 1], eof)
<1> DEFINE E == Ends(s, eof)
<1>1. Len(s) \in Nat
    OBVIOUS
<1>2. E = [k \in 0..Len(s) |-> IF k = 0 THEN 0 ELSE NextEnd(s, E[k - 1], eof)]
    BY EndsDef DEF EndsTo
<1> HIDE DEF E
<1>3. E[0] = 0 /\ \A k \in 1..Len(s) : E[k] = NextEnd(s, E[k - 1], eof)
    BY <1>1, <1>2
<1> QED BY <1>3 DEF E

(* Then Ends says so too.                                                  *)
LEMMA EndsMarks ==
    ASSUME NEW s \in Seq(Units), NEW eof, NEW n \in Nat, NEW e, Marks(s, eof, n, e)
    PROVE  n <= Len(s) /\ \A k \in 0..n : Ends(s, eof)[k] = e[k]
<1>1. PICK m \in Nat : m = Len(s)
    BY LenProperties
<1>2. PICK E : E = Ends(s, eof)
    OBVIOUS
<1>3. E[0] = 0 /\ \A k \in 1..m : E[k] = NextEnd(s, E[k - 1], eof)
    BY <1>1, <1>2, EndsStep
<1>4. n <= m
  <2>1. n # 0 => e[n] \in n..m
      BY <1>1 DEF Marks
  <2> QED BY <2>1
<1> DEFINE S == {k \in 0..n : E[k] = e[k]}
<1>5. 0 \in S
    BY <1>2, <1>3 DEF Marks
<1>6. ASSUME NEW k \in 1..n, k - 1 \in S PROVE k \in S
  <2>1. E[k] = NextEnd(s, E[k - 1], eof)
      BY <1>4, <1>3
  <2>2. e[k] = NextEnd(s, e[k - 1], eof)
      BY DEF Marks
  <2> QED BY <1>6, <2>1, <2>2
<1>7. \A k \in 0..n : k \in S
  <2> HIDE DEF S
  <2> QED BY <1>5, <1>6, UpTo
<1> QED BY <1>1, <1>2, <1>4, <1>7

(* If the message after the first n is not complete, they are all.         *)
LEMMA EndsBeyond ==
    ASSUME NEW s \in Seq(Units), NEW eof, NEW n \in Nat, NEW e, Marks(s, eof, n, e),
           NextEnd(s, e[n], eof) = Len(s) + 1
    PROVE  \A k \in (n + 1)..Len(s) : Ends(s, eof)[k] = Len(s) + 1
<1>1. PICK m \in Nat : m = Len(s)
    BY LenProperties
<1>2. PICK E : E = Ends(s, eof)
    OBVIOUS
<1>3. E[0] = 0 /\ \A k \in 1..m : E[k] = NextEnd(s, E[k - 1], eof)
    BY <1>1, <1>2, EndsStep
<1>4. n <= m /\ E[n] = e[n]
    BY <1>1, <1>2, EndsMarks
<1>5. NextEnd(s, m + 1, eof) = m + 1
    BY <1>1 DEF NextEnd
<1> DEFINE S == {k \in 0..(m - n) : k # 0 => E[n + k] = m + 1}
<1>6. 0 \in S
    BY <1>4
<1>7. ASSUME NEW k \in 1..(m - n), k - 1 \in S PROVE k \in S
  <2>1. n + k \in 1..m /\ (n + k) - 1 = n + (k - 1)
      BY <1>4
  <2>2. E[n + k] = NextEnd(s, E[n + (k - 1)], eof)
      BY <1>3, <2>1
  <2>3. CASE k = 1
      BY <1>1, <1>4, <2>2, <2>3
  <2>4. CASE k # 1
    <3>1. E[n + (k - 1)] = m + 1
        BY <1>7, <2>4
    <3> QED BY <1>5, <2>2, <3>1
  <2> QED BY <2>3, <2>4
<1>8. \A k \in 0..(m - n) : k \in S
  <2> HIDE DEF S
  <2>1. m - n \in Nat
      BY <1>4
  <2> QED BY <1>6, <1>7, <2>1, UpTo
<1>9. ASSUME NEW k \in (n + 1)..m PROVE E[k] = m + 1
  <2>1. k - n \in 0..(m - n) /\ k - n # 0 /\ n + (k - n) = k
      OBVIOUS
  <2>2. k - n \in S
      BY <1>8, <2>1
  <2> QED BY <2>1, <2>2
<1> QED BY <1>1, <1>2, <1>9

(* So a receiver finds these messages in s, and no others.                 *)
LEMMA MessagesAre ==
    ASSUME NEW s \in Seq(Units), NEW eof, NEW n \in Nat, NEW e, Marks(s, eof, n, e),
           NextEnd(s, e[n], eof) = Len(s) + 1
    PROVE  Messages(s, eof) = [k \in 1..n |-> Message(s, e[k - 1], e[k])]
<1>1. PICK m \in Nat : m = Len(s)
    BY LenProperties
<1>2. PICK E : E = Ends(s, eof)
    OBVIOUS
<1>3. n <= m /\ \A k \in 0..n : E[k] = e[k]
    BY <1>1, <1>2, EndsMarks
<1>4. \A k \in (n + 1)..m : E[k] = m + 1
    BY <1>1, <1>2, EndsBeyond
<1>5. {k \in 1..m : E[k] <= m} = 1..n
  <2>1. ASSUME NEW k \in 1..m PROVE E[k] <= m <=> k <= n
    <3>1. CASE k <= n
      <4>1. e[k] <= m
          BY <1>1, <3>1 DEF Marks
      <4> QED BY <1>3, <3>1, <4>1
    <3>2. CASE ~(k <= n)
      <4>1. E[k] = m + 1
          BY <1>4, <3>2
      <4> QED BY <3>2, <4>1
    <3> QED BY <3>1, <3>2
  <2> QED BY <1>3, <2>1
<1>6. Cardinality(1..n) = n
  <2>1. Cardinality(1..n) = IF 1 > n THEN 0 ELSE n - 1 + 1
      BY FS_Interval
  <2> QED BY <2>1
<1>7. Messages(s, eof) = [k \in 1..n |-> Message(s, E[k - 1], E[k])]
  <2>1. Messages(s, eof) =
           [k \in 1..Cardinality({k \in 1..m : E[k] <= m}) |-> Message(s, E[k - 1], E[k])]
      BY <1>1, <1>2 DEF Messages
  <2> QED BY <1>5, <1>6, <2>1
<1>8. \A k \in 1..n : E[k - 1] = e[k - 1] /\ E[k] = e[k]
    BY <1>3
<1> QED BY <1>7, <1>8

Closing == {"end", "trailer"}

(* A complete message of s stands between positions i and j, whatever      *)
(* comes after it.                                                         *)
Spans(s, i, j) ==
    /\ i \in Nat /\ j \in (i + 1)..Len(s) /\ s[i + 1].u = "head"
    /\ \/ RFCBody(s[i + 1].h) = "none" /\ j = i + 1
       \/ RFCBody(s[i + 1].h) = "limit" /\ j = i + 1 + CHOOSE n \in s[i + 1].h.cl : TRUE
       \/ /\ RFCBody(s[i + 1].h) = "chunked"
          /\ j >= i + 2 /\ s[j].u \in Closing
          /\ \A k \in (i + 2)..(j - 1) : s[k].u \notin Closing

(* The reader finds its end.                                               *)
LEMMA SpansNext ==
    ASSUME NEW s \in Seq(Units), NEW i, NEW j, NEW eof, Spans(s, i, j)
    PROVE  NextEnd(s, i, eof) = j
<1>1. PICK m \in Nat : m = Len(s)
    BY LenProperties
<1>2. i \in Nat /\ j \in (i + 1)..m /\ s[i + 1].u = "head"
    BY <1>1 DEF Spans
<1>3. BodyEnd(s, i, eof) = j
  <2>1. CASE RFCBody(s[i + 1].h) = "none"
      BY <2>1 DEF Spans, BodyEnd
  <2>2. CASE RFCBody(s[i + 1].h) = "limit"
      BY <2>2 DEF Spans, BodyEnd
  <2>3. CASE RFCBody(s[i + 1].h) = "chunked"
    <3> DEFINE ends == {k \in (i + 2)..m : s[k].u \in Closing}
               first(k) == \A l \in ends : k <= l
    <3>1. j >= i + 2 /\ s[j].u \in Closing /\ \A k \in (i + 2)..(j - 1) : s[k].u \notin Closing
        BY <2>3 DEF Spans
    <3>2. j \in ends
        BY <1>2, <3>1
    <3>3. \A l \in ends : j <= l
        BY <1>2, <3>1
    <3>4. \A k \in ends : first(k) => k = j
        BY <1>2, <3>2, <3>3
    <3>5. (CHOOSE k \in ends : first(k)) = j
        BY <3>2, <3>3, <3>4
    <3>6. BodyEnd(s, i, eof) = IF ends = {} THEN m + 1 ELSE CHOOSE k \in ends : first(k)
        BY <1>1, <2>3 DEF BodyEnd, Closing
    <3> QED BY <3>2, <3>5, <3>6
  <2> QED BY <2>1, <2>2, <2>3 DEF Spans
<1> QED BY <1>1, <1>2, <1>3 DEF NextEnd

(* A stream with the same beginning has the same message there.            *)
LEMMA SpansAgree ==
    ASSUME NEW s \in Seq(Units), NEW t \in Seq(Units), NEW i, NEW j, Spans(s, i, j),
           j <= Len(t), \A k \in 1..j : t[k] = s[k]
    PROVE  Spans(t, i, j) /\ Message(t, i, j) = Message(s, i, j)
<1>1. PICK m \in Nat, n \in Nat : m = Len(s) /\ n = Len(t)
    BY LenProperties
<1>2. i \in Nat /\ j \in (i + 1)..m /\ j \in (i + 1)..n
    BY <1>1 DEF Spans
<1>3. t[i + 1] = s[i + 1] /\ t[j] = s[j]
    BY <1>2
<1>4. \A k \in (i + 2)..(j - 1) : t[k] = s[k]
    BY <1>2
<1>5. Spans(t, i, j)
    BY <1>1, <1>2, <1>3, <1>4 DEF Spans
<1>6. SubSeq(t, i + 2, j) = SubSeq(s, i + 2, j)
  <2>1. \A k \in (i + 2)..j : t[k] = s[k] /\ s[k] \in Units /\ t[k] \in Units
      BY <1>1, <1>2
  <2>2. i + 2 \in Int /\ j \in Int
      BY <1>2
  <2> QED BY <2>1, <2>2
<1> QED BY <1>3, <1>5, <1>6 DEF Message

(* The first n messages of s end at e[1], ..., e[n].                       *)
Chain(s, n, e) ==
    /\ e \in [0..n -> Nat] /\ e[0] = 0
    /\ \A k \in 0..n : e[k] <= e[n]
    /\ \A k \in 1..n : k <= e[k] /\ Spans(s, e[k - 1], e[k])

(* The reader finds them.                                                  *)
LEMMA ChainMarks ==
    ASSUME NEW s \in Seq(Units), NEW n \in Nat, NEW e, NEW eof, Chain(s, n, e)
    PROVE  Marks(s, eof, n, e) /\ e[n] <= Len(s)
<1>1. Len(s) \in Nat /\ e \in [0..n -> Nat] /\ e[0] = 0
    BY DEF Chain
<1>2. ASSUME NEW k \in 1..n
      PROVE  e[k] = NextEnd(s, e[k - 1], eof) /\ e[k] \in k..Len(s)
  <2>1. Spans(s, e[k - 1], e[k]) /\ k <= e[k]
      BY DEF Chain
  <2>2. e[k] <= Len(s) /\ e[k] \in Nat
      BY <1>1, <2>1 DEF Spans
  <2> QED BY <1>1, <2>1, <2>2, SpansNext
<1>3. n # 0 => e[n] <= Len(s)
    BY <1>1, <1>2
<1> QED BY <1>1, <1>2, <1>3 DEF Marks

(* Another stream that begins like s has them, too.                        *)
LEMMA ChainAgree ==
    ASSUME NEW s \in Seq(Units), NEW t \in Seq(Units), NEW n \in Nat, NEW e, Chain(s, n, e),
           e[n] <= Len(t), \A k \in 1..e[n] : t[k] = s[k]
    PROVE  /\ Chain(t, n, e)
           /\ \A k \in 1..n : Message(t, e[k - 1], e[k]) = Message(s, e[k - 1], e[k])
<1>1. Len(t) \in Nat /\ e \in [0..n -> Nat] /\ e[0] = 0 /\ \A k \in 0..n : e[k] <= e[n]
    BY DEF Chain
<1>2. ASSUME NEW k \in 1..n
      PROVE  /\ Spans(t, e[k - 1], e[k]) /\ k <= e[k]
             /\ Message(t, e[k - 1], e[k]) = Message(s, e[k - 1], e[k])
  <2>1. Spans(s, e[k - 1], e[k]) /\ k <= e[k]
      BY DEF Chain
  <2>2. e[k] \in Nat /\ e[n] \in Nat /\ e[k] <= e[n]
      BY <1>1
  <2>3. e[k] <= Len(t) /\ \A l \in 1..e[k] : t[l] = s[l]
      BY <1>1, <2>2
  <2> QED BY <2>1, <2>3, SpansAgree
<1> QED BY <1>1, <1>2 DEF Chain

(* A chain and a message after it.                                         *)
LEMMA ChainExtend ==
    ASSUME NEW s, NEW n \in Nat, NEW e, NEW d, NEW g, Chain(s, n, e), Spans(s, e[n], d),
           g = [k \in 0..(n + 1) |-> IF k <= n THEN e[k] ELSE d]
    PROVE  Chain(s, n + 1, g)
<1>1. e \in [0..n -> Nat] /\ e[0] = 0 /\ \A k \in 0..n : e[k] <= e[n]
    BY DEF Chain
<1>2. e[n] \in Nat /\ d \in Nat /\ d >= e[n] + 1
    BY <1>1 DEF Spans
<1>3. g \in [0..(n + 1) -> Nat] /\ g[0] = 0 /\ g[n + 1] = d /\ \A k \in 0..n : g[k] = e[k]
    BY <1>1, <1>2
<1>4. \A k \in 0..(n + 1) : g[k] <= g[n + 1]
    BY <1>1, <1>2, <1>3
<1>5. ASSUME NEW k \in 1..(n + 1) PROVE k <= g[k] /\ Spans(s, g[k - 1], g[k])
  <2>1. CASE k = n + 1
    <3>1. n <= e[n]
        BY <1>1 DEF Chain
    <3> QED BY <1>2, <1>3, <2>1, <3>1
  <2>2. CASE k # n + 1
    <3>1. k \in 1..n
        BY <2>2
    <3> QED BY <1>3, <3>1 DEF Chain
  <2> QED BY <2>1, <2>2
<1> QED BY <1>3, <1>4, <1>5 DEF Chain

(* o is what the messages of s up to position c became: as many messages,  *)
(* the same to a receiver.                                                 *)
Same(s, o, n, e, f) ==
    \A k \in 1..n : Message(s, e[k - 1], e[k]) = Message(o, f[k - 1], f[k])

RelayedAs(s, c, o, n, e, f) ==
    /\ Chain(s, n, e) /\ e[n] = c
    /\ Chain(o, n, f) /\ f[n] = Len(o)
    /\ Same(s, o, n, e, f)

Relayed(s, c, o) == \E n \in Nat : \E e, f : RelayedAs(s, c, o, n, e, f)

(* p begins with o.                                                        *)
Begins(o, p) == Len(o) <= Len(p) /\ \A k \in 1..Len(o) : p[k] = o[k]

(* Nothing became nothing.                                                 *)
LEMMA RelayedNothing == ASSUME NEW s PROVE Relayed(s, 0, <<>>)
<1> DEFINE e == [k \in 0..0 |-> 0]
<1>1. e \in [0..0 -> Nat] /\ e[0] = 0
    OBVIOUS
<1>2. \A t : Chain(t, 0, e)
    BY <1>1 DEF Chain
<1>3. RelayedAs(s, 0, <<>>, 0, e, e)
    BY <1>1, <1>2 DEF RelayedAs, Same
<1> HIDE DEF e
<1> QED BY <1>3 DEF Relayed

(* One more message was relayed.                                           *)
LEMMA RelayedMore ==
    ASSUME NEW s \in Seq(Units), NEW o \in Seq(Units), NEW p \in Seq(Units), NEW c, NEW d,
           Begins(o, p), Relayed(s, c, o), Spans(s, c, d), Spans(p, Len(o), Len(p)),
           Message(s, c, d) = Message(p, Len(o), Len(p))
    PROVE  Relayed(s, d, p)
<1>1. PICK n \in Nat : \E e, f : RelayedAs(s, c, o, n, e, f)
    BY DEF Relayed
<1>2. PICK e, f : RelayedAs(s, c, o, n, e, f)
    BY <1>1
<1>3. Len(o) \in Nat /\ Len(p) \in Nat
    OBVIOUS
<1>4. /\ Chain(s, n, e) /\ e[n] = c /\ Chain(o, n, f) /\ f[n] = Len(o)
      /\ \A k \in 1..n : Message(s, e[k - 1], e[k]) = Message(o, f[k - 1], f[k])
    BY <1>1, <1>2 DEF RelayedAs, Same
<1>5. Len(o) <= Len(p) /\ \A k \in 1..Len(o) : p[k] = o[k]
    BY DEF Begins
<1>6. /\ Chain(p, n, f)
      /\ \A k \in 1..n : Message(p, f[k - 1], f[k]) = Message(o, f[k - 1], f[k])
    BY <1>4, <1>5, ChainAgree
<1> DEFINE g == [k \in 0..(n + 1) |-> IF k <= n THEN e[k] ELSE d]
           h == [k \in 0..(n + 1) |-> IF k <= n THEN f[k] ELSE Len(p)]
<1>7. /\ g = [k \in 0..(n + 1) |-> IF k <= n THEN e[k] ELSE d]
      /\ h = [k \in 0..(n + 1) |-> IF k <= n THEN f[k] ELSE Len(p)]
    OBVIOUS
<1>8. /\ g[n + 1] = d /\ h[n + 1] = Len(p)
      /\ \A k \in 0..n : g[k] = e[k] /\ h[k] = f[k]
    BY <1>1, <1>2
<1> HIDE DEF g, h
<1>9. Chain(s, n + 1, g)
  <2>1. Spans(s, e[n], d)
      BY <1>4
  <2> QED BY <1>7, <1>1, <1>2, <1>4, <2>1, ChainExtend
<1>10. Chain(p, n + 1, h)
  <2>1. Spans(p, f[n], Len(p))
      BY <1>4
  <2> QED BY <1>7, <1>1, <1>2, <1>6, <2>1, ChainExtend
<1>11. Same(s, p, n + 1, g, h)
  <2> SUFFICES ASSUME NEW k \in 1..(n + 1)
               PROVE  Message(s, g[k - 1], g[k]) = Message(p, h[k - 1], h[k])
      BY DEF Same
  <2>1. CASE k = n + 1
      BY <1>3, <1>4, <1>8, <2>1
  <2>2. CASE k # n + 1
    <3>1. k \in 1..n /\ k - 1 \in 0..n /\ k \in 0..n
        BY <2>2
    <3> QED BY <1>4, <1>6, <1>8, <3>1
  <2> QED BY <2>1, <2>2
<1>12. RelayedAs(s, d, p, n + 1, g, h)
    BY <1>9, <1>10, <1>8, <1>11 DEF RelayedAs
<1> QED BY <1>3, <1>12 DEF Relayed

(* What a receiver finds in the relayed messages and the beginning of one  *)
(* more is what it finds in the original ones and the beginning of one     *)
(* more.                                                                   *)
LEMMA RelayedSame ==
    ASSUME NEW s \in Seq(Units), NEW t \in Seq(Units), NEW o \in Seq(Units),
           NEW p \in Seq(Units), NEW c, NEW eof,
           Begins(t, s), Begins(o, p), Relayed(s, c, o), c <= Len(t),
           NextEnd(t, c, eof) = Len(t) + 1, NextEnd(p, Len(o), eof) = Len(p) + 1
    PROVE  Messages(p, eof) = Messages(t, eof)
<1>1. PICK n \in Nat : \E e, f : RelayedAs(s, c, o, n, e, f)
    BY DEF Relayed
<1>2. PICK e, f : RelayedAs(s, c, o, n, e, f)
    BY <1>1
<1>3. Len(o) \in Nat /\ Len(p) \in Nat
    OBVIOUS
<1>4. /\ Chain(s, n, e) /\ e[n] = c /\ Chain(o, n, f) /\ f[n] = Len(o)
      /\ \A k \in 1..n : Message(s, e[k - 1], e[k]) = Message(o, f[k - 1], f[k])
    BY <1>1, <1>2 DEF RelayedAs, Same
<1>5. Len(o) <= Len(p) /\ \A k \in 1..Len(o) : p[k] = o[k]
    BY DEF Begins
<1>6. c \in Nat /\ Len(t) \in Nat
    BY <1>4 DEF Chain
<1>7. \A k \in 1..Len(t) : t[k] = s[k]
    BY DEF Begins
<1>8. /\ Chain(p, n, f)
      /\ \A k \in 1..n : Message(p, f[k - 1], f[k]) = Message(o, f[k - 1], f[k])
    BY <1>4, <1>5, ChainAgree
<1>9. /\ Chain(t, n, e)
      /\ \A k \in 1..n : Message(t, e[k - 1], e[k]) = Message(s, e[k - 1], e[k])
  <2>1. e[n] <= Len(t) /\ \A k \in 1..e[n] : t[k] = s[k]
      BY <1>4, <1>6, <1>7
  <2> QED BY <1>4, <2>1, ChainAgree
<1>10. Marks(p, eof, n, f) /\ Marks(t, eof, n, e)
    BY <1>8, <1>9, ChainMarks
<1>11. Messages(p, eof) = [k \in 1..n |-> Message(p, f[k - 1], f[k])]
  <2>1. NextEnd(p, f[n], eof) = Len(p) + 1
      BY <1>4
  <2> QED BY <1>10, <2>1, MessagesAre
<1>12. Messages(t, eof) = [k \in 1..n |-> Message(t, e[k - 1], e[k])]
  <2>1. NextEnd(t, e[n], eof) = Len(t) + 1
      BY <1>4
  <2> QED BY <1>10, <2>1, MessagesAre
<1> QED BY <1>3, <1>4, <1>7, <1>8, <1>9, <1>11, <1>12

(* The same if the last message ends with the stream.                      *)
LEMMA RelayedToTheEnd ==
    ASSUME NEW s \in Seq(Units), NEW t \in Seq(Units), NEW o \in Seq(Units),
           NEW p \in Seq(Units), NEW c, NEW eof,
           Begins(t, s), Begins(o, p), Relayed(s, c, o), c < Len(t), Len(o) < Len(p),
           NextEnd(t, c, eof) = Len(t), NextEnd(p, Len(o), eof) = Len(p),
           Message(t, c, Len(t)) = Message(p, Len(o), Len(p))
    PROVE  Messages(p, eof) = Messages(t, eof)
<1>1. PICK n \in Nat : \E e, f : RelayedAs(s, c, o, n, e, f)
    BY DEF Relayed
<1>2. PICK e, f : RelayedAs(s, c, o, n, e, f)
    BY <1>1
<1>3. Len(o) \in Nat /\ Len(p) \in Nat
    OBVIOUS
<1>4. /\ Chain(s, n, e) /\ e[n] = c /\ Chain(o, n, f) /\ f[n] = Len(o)
      /\ \A k \in 1..n : Message(s, e[k - 1], e[k]) = Message(o, f[k - 1], f[k])
    BY <1>1, <1>2 DEF RelayedAs, Same
<1>5. Len(o) <= Len(p) /\ \A k \in 1..Len(o) : p[k] = o[k]
    BY DEF Begins
<1>6. c \in Nat /\ Len(t) \in Nat
    BY <1>4 DEF Chain
<1>7. \A k \in 1..Len(t) : t[k] = s[k]
    BY DEF Begins
<1>8. /\ Chain(p, n, f)
      /\ \A k \in 1..n : Message(p, f[k - 1], f[k]) = Message(o, f[k - 1], f[k])
    BY <1>4, <1>5, ChainAgree
<1>9. /\ Chain(t, n, e)
      /\ \A k \in 1..n : Message(t, e[k - 1], e[k]) = Message(s, e[k - 1], e[k])
  <2>1. e[n] <= Len(t) /\ \A k \in 1..e[n] : t[k] = s[k]
      BY <1>4, <1>6, <1>7
  <2> QED BY <1>4, <2>1, ChainAgree
<1>10. Marks(p, eof, n, f) /\ Marks(t, eof, n, e)
    BY <1>8, <1>9, ChainMarks
<1> DEFINE g == [k \in 0..(n + 1) |-> IF k <= n THEN e[k] ELSE Len(t)]
           h == [k \in 0..(n + 1) |-> IF k <= n THEN f[k] ELSE Len(p)]
<1>11. /\ g[n + 1] = Len(t) /\ h[n + 1] = Len(p)
       /\ \A k \in 0..n : g[k] = e[k] /\ h[k] = f[k]
    OBVIOUS
<1>12. n <= c /\ n <= Len(o)
    BY <1>4 DEF Chain
<1>13. Marks(t, eof, n + 1, g)
  <2>1. g \in [0..(n + 1) -> Nat] /\ g[0] = 0
      BY <1>6, <1>10 DEF Marks
  <2> HIDE DEF g
  <2>2. ASSUME NEW k \in 1..(n + 1)
        PROVE  g[k] = NextEnd(t, g[k - 1], eof) /\ g[k] \in k..Len(t)
    <3>1. CASE k = n + 1
      <4>1. g[k] = Len(t) /\ g[k - 1] = c
        <5>1. n \in 0..n /\ k - 1 = n
            BY <1>1, <1>2, <3>1
        <5> QED BY <1>4, <1>11, <3>1, <5>1
      <4> QED BY <1>6, <1>12, <3>1, <4>1
    <3>2. CASE k # n + 1
      <4>1. k \in 1..n /\ k - 1 \in 0..n /\ k \in 0..n
          BY <3>2
      <4> QED BY <1>10, <1>11, <4>1 DEF Marks
    <3> QED BY <3>1, <3>2
  <2> QED BY <2>1, <2>2 DEF Marks
<1>14. Marks(p, eof, n + 1, h)
  <2>1. h \in [0..(n + 1) -> Nat] /\ h[0] = 0
      BY <1>5, <1>10 DEF Marks
  <2> HIDE DEF h
  <2>2. ASSUME NEW k \in 1..(n + 1)
        PROVE  h[k] = NextEnd(p, h[k - 1], eof) /\ h[k] \in k..Len(p)
    <3>1. CASE k = n + 1
      <4>1. h[k] = Len(p) /\ h[k - 1] = Len(o)
        <5>1. n \in 0..n /\ k - 1 = n
            BY <1>1, <1>2, <3>1
        <5> QED BY <1>4, <1>11, <3>1, <5>1
      <4> QED BY <1>3, <1>12, <3>1, <4>1
    <3>2. CASE k # n + 1
      <4>1. k \in 1..n /\ k - 1 \in 0..n /\ k \in 0..n
          BY <3>2
      <4> QED BY <1>10, <1>11, <4>1 DEF Marks
    <3> QED BY <3>1, <3>2
  <2> QED BY <2>1, <2>2 DEF Marks
<1> HIDE DEF g, h
<1>15. NextEnd(t, g[n + 1], eof) = Len(t) + 1 /\ NextEnd(p, h[n + 1], eof) = Len(p) + 1
    BY <1>5, <1>6, <1>7, <1>11 DEF NextEnd
<1>16. Messages(p, eof) = [k \in 1..(n + 1) |-> Message(p, h[k - 1], h[k])]
    BY <1>14, <1>15, MessagesAre
<1>17. Messages(t, eof) = [k \in 1..(n + 1) |-> Message(t, g[k - 1], g[k])]
    BY <1>13, <1>15, MessagesAre
<1>18. ASSUME NEW k \in 1..(n + 1)
       PROVE  Message(p, h[k - 1], h[k]) = Message(t, g[k - 1], g[k])
  <2>1. CASE k = n + 1
      BY <1>3, <1>4, <1>7, <1>11, <2>1
  <2>2. CASE k # n + 1
    <3>1. k \in 1..n /\ k - 1 \in 0..n /\ k \in 0..n
        BY <2>2
    <3> QED BY <1>4, <1>8, <1>9, <1>11, <3>1
  <2> QED BY <2>1, <2>2
<1> QED BY <1>3, <1>7, <1>16, <1>17, <1>18

(* The end of what was relayed is one of the ends that a reader of the     *)
(* whole stream finds.                                                     *)
LEMMA RelayedBoundary ==
    ASSUME NEW s \in Seq(Units), NEW o, NEW c, NEW eof, Relayed(s, c, o)
    PROVE  c \in Boundaries(s, eof)
<1>1. PICK n \in Nat : \E e, f : RelayedAs(s, c, o, n, e, f)
    BY DEF Relayed
<1>2. PICK e, f : RelayedAs(s, c, o, n, e, f)
    BY <1>1
<1>3. Chain(s, n, e) /\ e[n] = c /\ c \in Nat
    BY <1>1, <1>2 DEF RelayedAs, Chain
<1>4. Marks(s, eof, n, e) /\ c <= Len(s) /\ Len(s) \in Nat
    BY <1>3, ChainMarks
<1>5. n <= Len(s) /\ Ends(s, eof)[n] = c
    BY <1>3, <1>4, EndsMarks
<1> QED BY <1>3, <1>4, <1>5 DEF Boundaries

(* After position c of s comes a header that the relay accepts.            *)
HeadAt(s, c) ==
    /\ c \in Nat /\ c + 1 <= Len(s) /\ s[c + 1].u = "head"
    /\ s[c + 1].h \in Headers /\ ReadOK(s[c + 1].h) /\ Ordinary(s[c + 1].h)
    /\ IsChunked(s[c + 1].h) => readTransfer(s[c + 1].h).body = "chunked"

(* How its body is delimited, its length, and the header written for it.   *)
BodyOf(s, c) == readTransfer(s[c + 1].h).body
LengthOf(s, c) == readTransfer(s[c + 1].h).length
Rewritten(s, c) == HeadUnit(WriteHeader(s[c + 1].h, readTransfer(s[c + 1].h)))

(* A receiver of the rewritten header sees what one of the original sees.  *)
LEMMA RewrittenSame ==
    ASSUME NEW s, NEW c, HeadAt(s, c)
    PROVE  LET h == s[c + 1].h
               x == Rewritten(s, c)
           IN /\ x \in Units /\ x.u = "head"
              /\ RFCBody(h) = BodyOf(s, c) /\ RFCBody(x.h) = BodyOf(s, c)
              /\ BodyOf(s, c) = "limit" =>
                    /\ h.cl = {LengthOf(s, c)} /\ x.h.cl = {LengthOf(s, c)}
                    /\ LengthOf(s, c) \in Nat \ {0}
              /\ RFCPersists(x.h) = RFCPersists(h)
              /\ x.h.method = h.method /\ x.h.status = h.status
              /\ x.h.trailer = h.trailer
              /\ h.trailer => BodyOf(s, c) = "chunked"
              /\ BodyOf(s, c) \in {"none", "limit", "chunked", "eof"}
<1> DEFINE h == s[c + 1].h
           m == readTransfer(h)
           w == WriteHeader(h, m)
<1>1. h \in Headers /\ ReadOK(h) /\ Ordinary(h) /\ (IsChunked(h) => m.body = "chunked")
    BY DEF HeadAt
<1>2. ~(h.method = "HEAD" /\ IsChunked(h))
    BY <1>1 DEF readTransfer, noResponseBodyExpected
<1>3. w \in Headers /\ HeadUnit(w) \in Units /\ HeadUnit(w).u = "head" /\ HeadUnit(w).h = w
    BY <1>1, WriteHeaderType, UnitTypes DEF HeadUnit
<1>4. /\ m.body = RFCBody(h) /\ (RFCBody(h) = "limit" => h.cl = {m.length})
      /\ RFCBody(w) = RFCBody(h) /\ (RFCBody(h) = "limit" => w.cl = h.cl)
      /\ RFCPersists(w) = RFCPersists(h)
  <2>1. /\ m.body = RFCBody(h) /\ (RFCBody(h) = "limit" => h.cl = {m.length})
        /\ RFCPersists(h) <=> ~m.close
      BY <1>1, <1>2, ReadsAsRFC
  <2>2. /\ RFCBody(w) = m.body /\ (m.body = "limit" => w.cl = {m.length})
        /\ RFCPersists(w) <=> ~m.close
      BY <1>1, <1>2, FramingKept
  <2>3. RFCPersists(w) \in BOOLEAN /\ RFCPersists(h) \in BOOLEAN
      BY DEF RFCPersists
  <2> HIDE DEF m, w, h
  <2> QED BY <2>1, <2>2, <2>3
<1>5. m.body = "limit" => m.length \in Nat \ {0}
  <2>1. m.body = "limit" => m.length \in Nat
      BY <1>1, LimitType
  <2>2. m.body = "limit" => m.length > 0
      BY DEF readTransfer
  <2> QED BY <2>1, <2>2
<1>6. w.method = h.method /\ w.status = h.status /\ w.trailer = (m.chunked /\ m.trailer)
    BY <1>1 DEF WriteHeader, Headers
<1>7. h.trailer \in BOOLEAN /\ m.trailer = h.trailer /\ m.chunked = IsChunked(h)
    BY <1>1 DEF readTransfer, Headers
<1>8. h.trailer => IsChunked(h)
    BY <1>1 DEF ReadOK, BadTrailer
<1>9. m.body \in {"none", "limit", "chunked", "eof"}
    BY DEF readTransfer
<1>10. w.trailer = h.trailer
    BY <1>6, <1>7, <1>8, Zenon DEF IsChunked
<1> HIDE DEF m, w, h
<1> QED BY <1>1, <1>3, <1>4, <1>5, <1>6, <1>8, <1>9, <1>10
        DEF m, w, h, BodyOf, LengthOf, Rewritten

(* The n units of s after position a.                                      *)
LEMMA Part ==
    ASSUME NEW s \in Seq(Units), NEW a \in Nat, NEW n \in Nat, a + n <= Len(s), NEW v,
           v = SubSeq(s, a + 1, a + n)
    PROVE  v \in Seq(Units) /\ Len(v) = n /\ \A k \in 1..n : v[k] = s[a + k]
<1>1. \A k \in (a + 1)..(a + n) : s[k] \in Units
    OBVIOUS
<1>2. a + 1 \in Int /\ a + n \in Int
    OBVIOUS
<1> DEFINE w == SubSeq(s, a + 1, a + n)
<1>3. w \in Seq(Units)
    BY <1>1, <1>2, SubSeqProperties
<1>4. Len(w) = IF a + 1 <= a + n THEN (a + n) - (a + 1) + 1 ELSE 0
    BY <1>1, <1>2, SubSeqProperties
<1>5. \A k \in 1..((a + n) - (a + 1) + 1) : w[k] = s[(a + 1) + k - 1]
    BY <1>1, <1>2, SubSeqProperties
<1> HIDE DEF w
<1>6. Len(w) = n
    BY <1>4
<1>7. (a + n) - (a + 1) + 1 = n /\ \A k \in 1..n : (a + 1) + k - 1 = a + k
    OBVIOUS
<1>8. \A k \in 1..n : w[k] = s[a + k]
    BY <1>5, <1>7
<1> QED BY <1>3, <1>6, <1>8 DEF w

(* Where the parts of a stream that was put together are.                  *)
LEMMA Joined ==
    ASSUME NEW o \in Seq(Units), NEW x \in Units, NEW p \in Seq(Units)
    PROVE  \E q \in Seq(Units) :
              /\ q = o \o <<x>> \o p /\ Len(q) = Len(o) + 1 + Len(p)
              /\ Begins(o, q) /\ q[Len(o) + 1] = x
              /\ \A k \in 1..Len(p) : q[Len(o) + 1 + k] = p[k]
              /\ SubSeq(q, Len(o) + 2, Len(q)) = p
<1>1. PICK l \in Nat, m \in Nat : l = Len(o) /\ m = Len(p)
    BY LenProperties
<1>2. PICK t, q : t = o \o <<x>> /\ q = t \o p
    OBVIOUS
<1>3. t \in Seq(Units) /\ Len(t) = l + 1 /\ t[l + 1] = x /\ \A k \in 1..l : t[k] = o[k]
    BY <1>1, <1>2
<1>4. /\ q \in Seq(Units) /\ Len(q) = l + 1 + m
      /\ \A k \in 1..(l + 1) : q[k] = t[k]
      /\ \A k \in 1..m : q[l + 1 + k] = p[k]
    BY <1>1, <1>2, <1>3, ConcatProperties
<1>5. Begins(o, q)
    BY <1>1, <1>3, <1>4 DEF Begins
<1>6. q[l + 1] = x
    BY <1>1, <1>3, <1>4
<1>7. SubSeq(q, l + 2, l + 1 + m) = p
  <2>1. PICK v : v = SubSeq(q, (l + 1) + 1, (l + 1) + m)
      OBVIOUS
  <2>2. v \in Seq(Units) /\ Len(v) = m /\ \A k \in 1..m : v[k] = q[(l + 1) + k]
      BY <1>1, <1>4, <2>1, Part
  <2>3. v = p
      BY <1>1, <1>4, <2>2, SeqEqual
  <2>4. (l + 1) + 1 = l + 2
      BY <1>1
  <2> QED BY <2>1, <2>3, <2>4
<1>8. /\ Len(q) = Len(o) + 1 + Len(p) /\ q[Len(o) + 1] = x
      /\ \A k \in 1..Len(p) : q[Len(o) + 1 + k] = p[k]
      /\ SubSeq(q, Len(o) + 2, Len(q)) = p
    BY <1>1, <1>4, <1>6, <1>7
<1>9. q = o \o <<x>> \o p
    BY <1>2
<1> QED BY <1>4, <1>5, <1>8, <1>9

(* o is what the messages before position c became, and q goes on with the *)
(* header of the next one and p.                                           *)
Begun(s, c, o, p, q) ==
    /\ HeadAt(s, c) /\ o \in Seq(Units) /\ p \in Seq(Units)
    /\ Relayed(s, c, o) /\ q = o \o <<Rewritten(s, c)>> \o p

(* What a receiver finds after o.                                          *)
LEMMA BegunParts ==
    ASSUME NEW s, NEW c, NEW o, NEW p, NEW q, Begun(s, c, o, p, q)
    PROVE  /\ q \in Seq(Units) /\ Len(q) = Len(o) + 1 + Len(p) /\ Begins(o, q)
           /\ q[Len(o) + 1] = Rewritten(s, c)
           /\ q[Len(o) + 1].u = "head" /\ RFCBody(q[Len(o) + 1].h) = BodyOf(s, c)
           /\ BodyOf(s, c) = "limit" => q[Len(o) + 1].h.cl = {LengthOf(s, c)}
           /\ \A k \in 1..Len(p) : q[Len(o) + 1 + k] = p[k]
           /\ SubSeq(q, Len(o) + 2, Len(q)) = p
<1>1. PICK x : x = Rewritten(s, c)
    OBVIOUS
<1>2. /\ HeadAt(s, c) /\ o \in Seq(Units) /\ p \in Seq(Units) /\ q = o \o <<x>> \o p
    BY <1>1 DEF Begun
<1>3. /\ x \in Units /\ x.u = "head" /\ RFCBody(x.h) = BodyOf(s, c)
      /\ BodyOf(s, c) = "limit" => x.h.cl = {LengthOf(s, c)}
    BY <1>1, <1>2, RewrittenSame
<1>4. o \in Seq(Units) /\ p \in Seq(Units) /\ x \in Units
    BY <1>2, <1>3
<1>5. PICK r \in Seq(Units) :
         /\ r = o \o <<x>> \o p /\ Len(r) = Len(o) + 1 + Len(p)
         /\ Begins(o, r) /\ r[Len(o) + 1] = x
         /\ \A k \in 1..Len(p) : r[Len(o) + 1 + k] = p[k]
         /\ SubSeq(r, Len(o) + 2, Len(r)) = p
    BY <1>4, Joined
<1>6. q = r
    BY <1>2, <1>5
<1>7. q \in Seq(Units) /\ Len(q) = Len(o) + 1 + Len(p) /\ Begins(o, q)
    BY <1>5, <1>6
<1>8. q[Len(o) + 1] = x /\ \A k \in 1..Len(p) : q[Len(o) + 1 + k] = p[k]
    BY <1>5, <1>6
<1>9. SubSeq(q, Len(o) + 2, Len(q)) = p
    BY <1>5, <1>6
<1> QED BY <1>1, <1>3, <1>7, <1>8, <1>9

(* If p makes it a message, it is the one that ends at position d of s.    *)
LEMMA BegunEnds ==
    ASSUME NEW s \in Seq(Units), NEW c, NEW d, NEW o, NEW p, NEW q, Begun(s, c, o, p, q),
           Spans(s, c, d), Spans(q, Len(o), Len(q)),
           DataOf(p) = DataOf(SubSeq(s, c + 2, d)),
           s[c + 1].h.trailer => ((q[Len(q)].u = "trailer") = (s[d].u = "trailer"))
    PROVE  Relayed(s, d, q)
<1>1. HeadAt(s, c) /\ o \in Seq(Units) /\ Relayed(s, c, o)
    BY DEF Begun
<1> DEFINE h == s[c + 1].h
<1>2. PICK x : x = Rewritten(s, c)
    OBVIOUS
<1>3. /\ RFCPersists(x.h) = RFCPersists(h) /\ x.h.method = h.method
      /\ x.h.status = h.status /\ x.h.trailer = h.trailer
    BY <1>1, <1>2, RewrittenSame
<1>4. h.trailer \in BOOLEAN
    BY <1>1 DEF HeadAt, Headers
<1>5. q \in Seq(Units) /\ Begins(o, q)
    BY BegunParts
<1>6. q[Len(o) + 1] = x
    BY <1>2, BegunParts
<1>7. SubSeq(q, Len(o) + 2, Len(q)) = p
    BY BegunParts
<1>8. (h.trailer /\ s[d].u = "trailer") = (x.h.trailer /\ q[Len(q)].u = "trailer")
    BY <1>3, <1>4
<1>9. Message(s, c, d) = Message(q, Len(o), Len(q))
    BY <1>3, <1>6, <1>7, <1>8 DEF Message
<1> QED BY <1>1, <1>5, <1>9, RelayedMore

(* The original message begins with a header that says the same.           *)
LEMMA HeadParts ==
    ASSUME NEW s, NEW c, HeadAt(s, c)
    PROVE  /\ c \in Nat /\ c + 1 <= Len(s) /\ s[c + 1].u = "head"
           /\ RFCBody(s[c + 1].h) = BodyOf(s, c)
           /\ BodyOf(s, c) = "limit" =>
                 s[c + 1].h.cl = {LengthOf(s, c)} /\ LengthOf(s, c) \in Nat \ {0}
           /\ s[c + 1].h.trailer => BodyOf(s, c) = "chunked"
           /\ BodyOf(s, c) \in {"none", "limit", "chunked", "eof"}
BY RewrittenSame DEF HeadAt

(* A message without a body is complete.                                   *)
LEMMA NoBodyEnds ==
    ASSUME NEW s \in Seq(Units), NEW c, NEW o, NEW p, NEW q, Begun(s, c, o, p, q),
           BodyOf(s, c) = "none", Len(p) = 0
    PROVE  Relayed(s, c + 1, q)
<1>1. HeadAt(s, c) /\ o \in Seq(Units) /\ p \in Seq(Units)
    BY DEF Begun
<1>2. PICK l \in Nat : l = Len(o)
    BY <1>1, LenProperties
<1>3. /\ c \in Nat /\ c + 1 <= Len(s) /\ s[c + 1].u = "head"
      /\ RFCBody(s[c + 1].h) = "none" /\ ~s[c + 1].h.trailer
    BY <1>1, HeadParts
<1>4. Len(q) = l + 1
  <2>1. Len(q) = Len(o) + 1 + Len(p)
      BY BegunParts
  <2> QED BY <1>2, <2>1
<1>5. q[l + 1].u = "head" /\ RFCBody(q[l + 1].h) = "none"
    BY <1>2, BegunParts
<1>6. Spans(s, c, c + 1)
    BY <1>3 DEF Spans
<1>7. Spans(q, Len(o), Len(q))
    BY <1>2, <1>4, <1>5 DEF Spans
<1>8. DataOf(p) = DataOf(SubSeq(s, c + 2, c + 1))
  <2>1. SubSeq(s, c + 2, c + 1) = <<>>
      BY <1>3, SubSeqEmpty
  <2>2. p = <<>>
      BY <1>1, EmptySeq
  <2> QED BY <2>1, <2>2, Zenon
<1> QED BY <1>3, <1>6, <1>7, <1>8, BegunEnds

(* A body that is copied as it is: q ends with the part read so far.       *)
Copied(s, c, r, q) ==
    /\ r \in (c + 1)..Len(s) /\ BodyOf(s, c) \in {"limit", "eof"}
    /\ \E o : Begun(s, c, o, SubSeq(s, c + 2, r), q)

(* A body of known length is complete when that much was copied.           *)
LEMMA LimitEnds ==
    ASSUME NEW s \in Seq(Units), NEW c, NEW r, NEW q, Copied(s, c, r, q),
           BodyOf(s, c) = "limit", r = c + 1 + LengthOf(s, c)
    PROVE  Relayed(s, r, q)
<1> DEFINE p == SubSeq(s, c + 2, r)
           n == LengthOf(s, c)
<1>1. PICK o : Begun(s, c, o, p, q)
    BY DEF Copied
<1>2. HeadAt(s, c) /\ o \in Seq(Units)
    BY <1>1 DEF Begun
<1>3. PICK l \in Nat : l = Len(o)
    BY <1>2, LenProperties
<1>4. /\ c \in Nat /\ s[c + 1].u = "head" /\ RFCBody(s[c + 1].h) = "limit"
      /\ s[c + 1].h.cl = {n} /\ n \in Nat \ {0} /\ ~s[c + 1].h.trailer
    BY <1>2, HeadParts
<1>5. r \in (c + 1)..Len(s) /\ r = c + 1 + n
    BY DEF Copied
<1>6. Len(p) = n
  <2>1. c + 2 = (c + 1) + 1 /\ c + 1 \in Nat
      BY <1>4
  <2>2. p = SubSeq(s, (c + 1) + 1, (c + 1) + n)
      BY <1>5, <2>1
  <2> HIDE DEF p, n
  <2> QED BY <1>4, <1>5, <2>1, <2>2, Part
<1> HIDE DEF p, n
<1>7. Len(q) = l + 1 + n
  <2>1. Len(q) = Len(o) + 1 + Len(p)
      BY <1>1, BegunParts
  <2> QED BY <1>3, <1>6, <2>1
<1>8. /\ q[l + 1].u = "head" /\ RFCBody(q[l + 1].h) = "limit" /\ q[l + 1].h.cl = {n}
    BY <1>1, <1>3, BegunParts DEF n
<1>9. (CHOOSE k \in {n} : TRUE) = n
    OBVIOUS
<1>10. Spans(s, c, r)
    BY <1>4, <1>5, <1>9 DEF Spans
<1>11. Spans(q, Len(o), Len(q))
    BY <1>3, <1>4, <1>7, <1>8, <1>9 DEF Spans
<1> QED BY <1>1, <1>4, <1>10, <1>11, BegunEnds DEF p

(* The units of s after a up to b, and those after b up to d.              *)
LEMMA PartConcat ==
    ASSUME NEW s \in Seq(Units), NEW a \in Nat, NEW b \in Nat, NEW d \in Nat,
           a <= b, b <= d, d <= Len(s), NEW t, t = SubSeq(s, a + 1, b),
           NEW u, u = SubSeq(s, b + 1, d)
    PROVE  t \o u = SubSeq(s, a + 1, d)
<1>1. PICK m \in Nat, n \in Nat : b = a + m /\ d = b + n
  <2>1. b - a \in Nat /\ d - b \in Nat /\ b = a + (b - a) /\ d = b + (d - b)
      OBVIOUS
  <2> QED BY <2>1
<1>2. t \in Seq(Units) /\ Len(t) = m /\ \A k \in 1..m : t[k] = s[a + k]
  <2>1. t = SubSeq(s, a + 1, a + m) /\ a + m <= Len(s)
      BY <1>1
  <2> QED BY <1>1, <2>1, Part
<1>3. u \in Seq(Units) /\ Len(u) = n /\ \A k \in 1..n : u[k] = s[b + k]
  <2>1. u = SubSeq(s, b + 1, b + n) /\ b + n <= Len(s)
      BY <1>1
  <2> QED BY <1>1, <2>1, Part
<1>4. PICK v : v = SubSeq(s, a + 1, d)
    OBVIOUS
<1>5. v \in Seq(Units) /\ Len(v) = m + n /\ \A k \in 1..(m + n) : v[k] = s[a + k]
  <2>1. v = SubSeq(s, a + 1, a + (m + n)) /\ a + (m + n) <= Len(s) /\ m + n \in Nat
      BY <1>1, <1>4
  <2> QED BY <2>1, Part
<1>6. PICK w : w = t \o u
    OBVIOUS
<1>7. /\ w \in Seq(Units) /\ Len(w) = m + n
      /\ \A k \in 1..m : w[k] = t[k]
      /\ \A k \in 1..n : w[m + k] = u[k]
    BY <1>1, <1>2, <1>3, <1>6, ConcatProperties
<1>8. ASSUME NEW k \in 1..(m + n) PROVE w[k] = v[k]
  <2>1. CASE k <= m
    <3>1. k \in 1..m
        BY <1>1, <2>1
    <3> QED BY <1>2, <1>5, <1>7, <3>1
  <2>2. CASE k > m
    <3>1. PICK j \in 1..n : k = m + j
      <4>1. k - m \in 1..n /\ k = m + (k - m)
          BY <1>1, <2>2
      <4> QED BY <4>1
    <3>2. w[k] = s[b + j]
        BY <1>3, <1>7, <3>1
    <3>3. b + j = a + k
        BY <1>1, <3>1
    <3> QED BY <1>5, <3>2, <3>3
  <2> QED BY <1>1, <2>1, <2>2
<1>9. w = v
    BY <1>5, <1>7, <1>8, SeqEqual
<1> QED BY <1>4, <1>6, <1>9

(* Only the header has been written.                                       *)
LEMMA BegunNow ==
    ASSUME NEW s, NEW c, NEW o \in Seq(Units), NEW q, NEW p, HeadAt(s, c), Relayed(s, c, o),
           q = o \o <<Rewritten(s, c)>>, p = <<>>
    PROVE  Begun(s, c, o, p, q)
<1>1. <<>> \in Seq(Units) /\ Rewritten(s, c) \in Units
    BY RewrittenSame
<1>2. q \in Seq(Units)
    BY <1>1
<1>3. q \o <<>> = q
    BY <1>2, ConcatEmptySeq
<1> QED BY <1>1, <1>3 DEF Begun

(* More of the message has been written.                                   *)
LEMMA BegunMore ==
    ASSUME NEW s, NEW c, NEW o, NEW p, NEW q, Begun(s, c, o, p, q), NEW t \in Seq(Units)
    PROVE  Begun(s, c, o, p \o t, q \o t)
<1>1. PICK z : z = o \o <<Rewritten(s, c)>>
    OBVIOUS
<1>2. /\ HeadAt(s, c) /\ o \in Seq(Units) /\ p \in Seq(Units) /\ Relayed(s, c, o)
      /\ q = z \o p
    BY <1>1 DEF Begun
<1>3. z \in Seq(Units)
  <2>1. Rewritten(s, c) \in Units
      BY <1>2, RewrittenSame
  <2> QED BY <1>1, <1>2, <2>1
<1>4. p \o t \in Seq(Units)
    BY <1>2
<1>5. (z \o p) \o t = z \o (p \o t)
    BY <1>2, <1>3, ConcatAssociative
<1>6. q \o t = o \o <<Rewritten(s, c)>> \o (p \o t)
    BY <1>1, <1>2, <1>5
<1> QED BY <1>2, <1>4, <1>6 DEF Begun

(* The header of a body that is copied is written.                         *)
LEMMA CopiedNothing ==
    ASSUME NEW s, NEW c, NEW o \in Seq(Units), NEW q, HeadAt(s, c), Relayed(s, c, o),
           q = o \o <<Rewritten(s, c)>>, BodyOf(s, c) \in {"limit", "eof"}, Len(s) \in Nat
    PROVE  Copied(s, c, c + 1, q)
<1>1. c \in Nat /\ c + 1 <= Len(s)
    BY DEF HeadAt
<1>2. SubSeq(s, c + 2, c + 1) = <<>>
    BY <1>1, SubSeqEmpty
<1>3. Begun(s, c, o, SubSeq(s, c + 2, c + 1), q)
    BY <1>2, BegunNow
<1> QED BY <1>1, <1>3 DEF Copied

(* The next part of it is copied.                                          *)
LEMMA CopiedMore ==
    ASSUME NEW s \in Seq(Units), NEW c, NEW r, NEW q, Copied(s, c, r, q), NEW d \in Nat,
           r <= d, d <= Len(s), NEW t, t = SubSeq(s, r + 1, d)
    PROVE  Copied(s, c, d, q \o t)
<1>1. r \in (c + 1)..Len(s) /\ BodyOf(s, c) \in {"limit", "eof"}
    BY DEF Copied
<1>2. PICK o : Begun(s, c, o, SubSeq(s, c + 2, r), q)
    BY DEF Copied
<1>3. c \in Nat /\ r \in Nat
    BY <1>1, <1>2 DEF Begun, HeadAt
<1>4. t \in Seq(Units)
  <2>1. r + 1 \in Nat \ {0} /\ d \in 0..Len(s)
      BY <1>3
  <2> QED BY <2>1, PartType
<1>5. PICK p : p = SubSeq(s, c + 2, r)
    OBVIOUS
<1>6. p \o t = SubSeq(s, c + 2, d)
  <2>1. c + 1 \in Nat /\ (c + 1) + 1 = c + 2 /\ c + 1 <= r
      BY <1>1, <1>3
  <2>2. p = SubSeq(s, (c + 1) + 1, r)
      BY <1>5, <2>1
  <2>3. p \o t = SubSeq(s, (c + 1) + 1, d)
      BY <1>3, <2>1, <2>2, PartConcat
  <2> QED BY <2>1, <2>3
<1>7. Begun(s, c, o, p \o t, q \o t)
    BY <1>2, <1>4, <1>5, BegunMore
<1>8. d \in (c + 1)..Len(s)
    BY <1>1, <1>3
<1>9. Begun(s, c, o, SubSeq(s, c + 2, d), q \o t)
    BY <1>6, <1>7
<1> QED BY <1>1, <1>8, <1>9 DEF Copied

(* No unit of p after a up to b ends a chunked body.                       *)
Open(p, a, b) == \A k \in (a + 1)..b : p[k].u \notin Closing

(* A chunked body: its end has neither been read nor written, and the data *)
(* read so far is what was written and a, which is still collected.        *)
Rechunked(s, c, r, q, a) ==
    /\ r \in (c + 1)..Len(s) /\ BodyOf(s, c) = "chunked" /\ Open(s, c + 1, r)
    /\ a \in Seq(Units) /\ \A k \in 1..Len(a) : a[k].u = "data"
    /\ \E o, p : /\ Begun(s, c, o, p, q) /\ Open(p, 0, Len(p))
                 /\ DataOf(p) \o a = DataOf(SubSeq(s, c + 2, r))

(* The header of a chunked message is written.                             *)
LEMMA RechunkedNothing ==
    ASSUME NEW s, NEW c, NEW o \in Seq(Units), NEW q, NEW a, HeadAt(s, c), Relayed(s, c, o),
           q = o \o <<Rewritten(s, c)>>, BodyOf(s, c) = "chunked", Len(s) \in Nat, a = <<>>
    PROVE  Rechunked(s, c, c + 1, q, a)
<1>1. c \in Nat /\ c + 1 <= Len(s)
    BY DEF HeadAt
<1>2. PICK p : p = <<>>
    OBVIOUS
<1>3. Begun(s, c, o, p, q)
    BY <1>2, BegunNow
<1>4. Open(p, 0, Len(p)) /\ Open(s, c + 1, c + 1)
    BY <1>1, <1>2 DEF Open
<1>5. SubSeq(s, c + 2, c + 1) = <<>>
    BY <1>1, SubSeqEmpty
<1>6. DataOf(p) = <<>> /\ DataOf(SubSeq(s, c + 2, c + 1)) = <<>>
    BY <1>2, <1>5, DataNil, Zenon
<1>7. DataOf(p) \o a = DataOf(SubSeq(s, c + 2, c + 1))
    BY <1>6
<1>8. a \in Seq(Units) /\ \A k \in 1..Len(a) : a[k].u = "data"
    OBVIOUS
<1> QED BY <1>1, <1>3, <1>4, <1>7, <1>8 DEF Rechunked

(* The data of a part of s is what comes before d and what comes after.    *)
LEMMA DataParts ==
    ASSUME NEW s \in Seq(Units), NEW a \in Nat, NEW b \in Nat, NEW d \in Nat,
           a <= b, b <= d, d <= Len(s)
    PROVE  /\ SubSeq(s, a + 1, b) \in Seq(Units) /\ SubSeq(s, b + 1, d) \in Seq(Units)
           /\ DataOf(SubSeq(s, a + 1, b)) \in Seq(Units)
           /\ DataOf(SubSeq(s, a + 1, d))
                = DataOf(SubSeq(s, a + 1, b)) \o DataOf(SubSeq(s, b + 1, d))
<1>1. PICK t, u : t = SubSeq(s, a + 1, b) /\ u = SubSeq(s, b + 1, d)
    OBVIOUS
<1>2. t \in Seq(Units) /\ u \in Seq(Units)
  <2>1. a + 1 \in Nat \ {0} /\ b + 1 \in Nat \ {0} /\ b \in 0..Len(s) /\ d \in 0..Len(s)
      OBVIOUS
  <2> QED BY <1>1, <2>1, PartType
<1>3. t \o u = SubSeq(s, a + 1, d)
    BY <1>1, PartConcat
<1>4. DataOf(t \o u) = DataOf(t) \o DataOf(u) /\ DataOf(t) \in Seq(Units)
    BY <1>2, DataConcat, DataType
<1> QED BY <1>1, <1>2, <1>3, <1>4

(* The same for a body whose header comes after position c.                *)
LEMMA BodyParts ==
    ASSUME NEW s \in Seq(Units), NEW c \in Nat, NEW r \in Nat, NEW d \in Nat,
           c + 1 <= r, r <= d, d <= Len(s)
    PROVE  /\ DataOf(SubSeq(s, c + 2, r)) \in Seq(Units)
           /\ DataOf(SubSeq(s, c + 2, d))
                = DataOf(SubSeq(s, c + 2, r)) \o DataOf(SubSeq(s, r + 1, d))
<1>1. PICK b : b = c + 1
    OBVIOUS
<1>2. b \in Nat /\ b + 1 = c + 2 /\ b <= r
    BY <1>1
<1>3. /\ DataOf(SubSeq(s, b + 1, r)) \in Seq(Units)
      /\ DataOf(SubSeq(s, b + 1, d))
           = DataOf(SubSeq(s, b + 1, r)) \o DataOf(SubSeq(s, r + 1, d))
    BY <1>2, DataParts, Zenon
<1> QED BY <1>2, <1>3, Zenon

(* One unit of s.                                                          *)
LEMMA PartOne ==
    ASSUME NEW s \in Seq(Units), NEW a \in Nat, a + 1 <= Len(s)
    PROVE  s[a + 1] \in Units /\ SubSeq(s, a + 1, a + 1) = <<s[a + 1]>>
<1>1. PICK v, x : v = SubSeq(s, a + 1, a + 1) /\ x = s[a + 1]
    OBVIOUS
<1>2. x \in Units
    BY <1>1
<1>3. v \in Seq(Units) /\ Len(v) = 1 /\ v[1] = x
    BY <1>1, Part
<1>4. <<x>> \in Seq(Units) /\ Len(<<x>>) = 1 /\ <<x>>[1] = x
    BY <1>2
<1>5. PICK w : w = <<x>>
    OBVIOUS
<1>6. v = w
    BY <1>3, <1>4, <1>5, SeqEqual
<1> QED BY <1>1, <1>2, <1>5, <1>6

(* A unit that is not data adds none.                                      *)
LEMMA BodyLine ==
    ASSUME NEW s \in Seq(Units), NEW c \in Nat, NEW r \in Nat, c + 1 <= r, r + 1 <= Len(s),
           s[r + 1].u # "data"
    PROVE  DataOf(SubSeq(s, c + 2, r + 1)) = DataOf(SubSeq(s, c + 2, r))
<1>1. r <= r + 1 /\ r + 1 \in Nat
    OBVIOUS
<1>2. /\ DataOf(SubSeq(s, c + 2, r)) \in Seq(Units)
      /\ DataOf(SubSeq(s, c + 2, r + 1))
           = DataOf(SubSeq(s, c + 2, r)) \o DataOf(SubSeq(s, r + 1, r + 1))
    BY <1>1, BodyParts, Zenon
<1>3. PICK x : x = s[r + 1]
    OBVIOUS
<1>4. x \in Units /\ SubSeq(s, r + 1, r + 1) = <<x>>
    BY <1>3, PartOne, Zenon
<1>5. DataOf(<<x>>) = <<>>
    BY <1>3, <1>4, DataOne, Zenon
<1>6. DataOf(SubSeq(s, r + 1, r + 1)) = <<>>
    BY <1>4, <1>5, Zenon
<1> QED BY <1>2, <1>6, ConcatEmptySeq

(* A chunk-size line, the end of a chunk or the last chunk is read.        *)
LEMMA RechunkedLine ==
    ASSUME NEW s \in Seq(Units), NEW c, NEW r, NEW q, NEW a, Rechunked(s, c, r, q, a),
           r + 1 <= Len(s), s[r + 1].u \in {"size", "crlf", "last"}
    PROVE  Rechunked(s, c, r + 1, q, a)
<1>1. /\ r \in (c + 1)..Len(s) /\ BodyOf(s, c) = "chunked" /\ Open(s, c + 1, r)
      /\ a \in Seq(Units) /\ \A k \in 1..Len(a) : a[k].u = "data"
    BY DEF Rechunked
<1>2. PICK o, p : /\ Begun(s, c, o, p, q) /\ Open(p, 0, Len(p))
                  /\ DataOf(p) \o a = DataOf(SubSeq(s, c + 2, r))
    BY DEF Rechunked
<1>3. c \in Nat /\ r \in Nat
    BY <1>1, <1>2 DEF Begun, HeadAt
<1>4. Open(s, c + 1, r + 1)
    BY <1>1, <1>3 DEF Open, Closing
<1>5. DataOf(SubSeq(s, c + 2, r + 1)) = DataOf(SubSeq(s, c + 2, r))
  <2>1. c + 1 <= r /\ s[r + 1].u # "data"
      BY <1>1, <1>3
  <2> QED BY <1>3, <2>1, BodyLine
<1>6. r + 1 \in (c + 1)..Len(s)
    BY <1>1, <1>3
<1>7. DataOf(p) \o a = DataOf(SubSeq(s, c + 2, r + 1))
    BY <1>2, <1>5
<1> QED BY <1>1, <1>2, <1>4, <1>6, <1>7 DEF Rechunked

(* Pieces of data and more pieces of data.                                 *)
LEMMA AllDataConcat ==
    ASSUME NEW a \in Seq(Units), NEW t \in Seq(Units),
           \A k \in 1..Len(a) : a[k].u = "data", \A k \in 1..Len(t) : t[k].u = "data"
    PROVE  a \o t \in Seq(Units) /\ \A k \in 1..Len(a \o t) : (a \o t)[k].u = "data"
<1>1. PICK m \in Nat, n \in Nat : m = Len(a) /\ n = Len(t)
    BY LenProperties
<1>2. PICK b : b = a \o t
    OBVIOUS
<1>3. /\ b \in Seq(Units) /\ Len(b) = m + n
      /\ \A k \in 1..m : b[k] = a[k]
      /\ \A k \in 1..n : b[m + k] = t[k]
    BY <1>1, <1>2, ConcatProperties
<1>4. ASSUME NEW k \in 1..(m + n) PROVE b[k].u = "data"
  <2>1. CASE k <= m
    <3>1. k \in 1..m
        BY <1>1, <2>1
    <3> QED BY <1>1, <1>3, <3>1
  <2>2. CASE k > m
    <3>1. PICK j \in 1..n : k = m + j
      <4>1. k - m \in 1..n /\ k = m + (k - m)
          BY <1>1, <2>2
      <4> QED BY <4>1
    <3> QED BY <1>1, <1>3, <3>1
  <2> QED BY <1>1, <2>1, <2>2
<1> QED BY <1>2, <1>3, <1>4

(* A part of s that is all data.                                           *)
LEMMA DataPart ==
    ASSUME NEW s \in Seq(Units), NEW r \in Nat, NEW d \in Nat, r <= d, d <= Len(s),
           \A k \in (r + 1)..d : s[k].u = "data"
    PROVE  \E t \in Seq(Units) : /\ t = SubSeq(s, r + 1, d) /\ DataOf(t) = t
                                 /\ \A k \in 1..Len(t) : t[k].u = "data"
<1>1. PICK n \in Nat : d = r + n
  <2>1. d - r \in Nat /\ d = r + (d - r)
      OBVIOUS
  <2> QED BY <2>1
<1>2. PICK t : t = SubSeq(s, r + 1, d)
    OBVIOUS
<1>3. t \in Seq(Units) /\ Len(t) = n /\ \A k \in 1..n : t[k] = s[r + k]
  <2>1. t = SubSeq(s, r + 1, r + n) /\ r + n <= Len(s)
      BY <1>1, <1>2
  <2> QED BY <1>1, <2>1, Part
<1>4. \A k \in 1..n : t[k].u = "data"
    BY <1>1, <1>3
<1>5. DataOf(t) = t
    BY <1>3, <1>4, DataOnly
<1> QED BY <1>2, <1>3, <1>4, <1>5

(* Data of a chunk is read.                                                *)
LEMMA RechunkedData ==
    ASSUME NEW s \in Seq(Units), NEW c, NEW r, NEW q, NEW a, Rechunked(s, c, r, q, a),
           NEW d \in Nat, r <= d, d <= Len(s), \A k \in (r + 1)..d : s[k].u = "data"
    PROVE  Rechunked(s, c, d, q, a \o SubSeq(s, r + 1, d))
<1>1. /\ r \in (c + 1)..Len(s) /\ BodyOf(s, c) = "chunked" /\ Open(s, c + 1, r)
      /\ a \in Seq(Units) /\ \A k \in 1..Len(a) : a[k].u = "data"
    BY DEF Rechunked
<1>2. PICK o, p : /\ Begun(s, c, o, p, q) /\ Open(p, 0, Len(p))
                  /\ DataOf(p) \o a = DataOf(SubSeq(s, c + 2, r))
    BY DEF Rechunked
<1>3. c \in Nat /\ r \in Nat /\ p \in Seq(Units) /\ c + 1 <= r
    BY <1>1, <1>2 DEF Begun, HeadAt
<1>4. Open(s, c + 1, d)
    BY <1>1, <1>3 DEF Open, Closing
<1>5. PICK t \in Seq(Units) : /\ t = SubSeq(s, r + 1, d) /\ DataOf(t) = t
                              /\ \A k \in 1..Len(t) : t[k].u = "data"
    BY <1>3, DataPart
<1>6. a \o t \in Seq(Units) /\ \A k \in 1..Len(a \o t) : (a \o t)[k].u = "data"
    BY <1>1, <1>5, AllDataConcat
<1>7. DataOf(p) \o (a \o t) = DataOf(SubSeq(s, c + 2, d))
  <2>1. DataOf(SubSeq(s, c + 2, d))
          = DataOf(SubSeq(s, c + 2, r)) \o DataOf(SubSeq(s, r + 1, d))
      BY <1>3, BodyParts
  <2>2. PICK e : e = DataOf(p)
      OBVIOUS
  <2>3. e \in Seq(Units) /\ a \in Seq(Units) /\ t \in Seq(Units)
      BY <1>1, <1>3, <1>5, <2>2, DataType
  <2>4. (e \o a) \o t = e \o (a \o t)
      BY <2>3, ConcatAssociative
  <2> QED BY <1>2, <1>5, <2>1, <2>2, <2>4, Zenon
<1>8. d \in (c + 1)..Len(s)
    BY <1>1, <1>3
<1>9. Rechunked(s, c, d, q, a \o t)
    BY <1>1, <1>2, <1>4, <1>6, <1>7, <1>8 DEF Rechunked
<1> QED BY <1>5, <1>9

(* Two open parts are an open part.                                        *)
LEMMA OpenConcat ==
    ASSUME NEW p \in Seq(Units), NEW t \in Seq(Units), Open(p, 0, Len(p)), Open(t, 0, Len(t))
    PROVE  Open(p \o t, 0, Len(p \o t))
<1>1. PICK m \in Nat, n \in Nat : m = Len(p) /\ n = Len(t)
    BY LenProperties
<1>2. PICK b : b = p \o t
    OBVIOUS
<1>3. /\ Len(b) = m + n
      /\ \A k \in 1..m : b[k] = p[k]
      /\ \A k \in 1..n : b[m + k] = t[k]
    BY <1>1, <1>2, ConcatProperties
<1>4. (\A k \in 1..m : p[k].u \notin Closing) /\ (\A k \in 1..n : t[k].u \notin Closing)
    BY <1>1 DEF Open
<1>5. ASSUME NEW k \in 1..(m + n) PROVE b[k].u \notin Closing
  <2>1. CASE k <= m
    <3>1. k \in 1..m
        BY <1>1, <2>1
    <3> QED BY <1>3, <1>4, <3>1
  <2>2. CASE k > m
    <3>1. PICK j \in 1..n : k = m + j
      <4>1. k - m \in 1..n /\ k = m + (k - m)
          BY <1>1, <2>2
      <4> QED BY <4>1
    <3> QED BY <1>3, <1>4, <3>1
  <2> QED BY <1>1, <2>1, <2>2
<1>6. Open(b, 0, Len(b))
    BY <1>3, <1>5 DEF Open
<1> QED BY <1>2, <1>6

(* A chunk is open.                                                        *)
LEMMA ChunkOpen ==
    ASSUME NEW a \in Seq(Units), \A k \in 1..Len(a) : a[k].u = "data"
    PROVE  Open(ChunkOf(a), 0, Len(ChunkOf(a)))
<1>1. CASE a = <<>>
    BY <1>1 DEF ChunkOf, Open
<1>2. CASE a # <<>>
  <2>1. PICK x, y : x = [u |-> "size", n |-> Len(a)] /\ y = Unit("crlf")
      OBVIOUS
  <2>2. x \in Units /\ y \in Units /\ x.u = "size" /\ y.u = "crlf"
    <3>1. Len(a) \in Nat \ {0}
        BY <1>2, EmptySeq
    <3> QED BY <2>1, <3>1, UnitTypes DEF Unit
  <2>3. PICK f, g : f = <<x>> /\ g = <<y>>
      OBVIOUS
  <2>4. /\ f \in Seq(Units) /\ g \in Seq(Units)
        /\ Open(f, 0, Len(f)) /\ Open(g, 0, Len(g)) /\ Open(a, 0, Len(a))
      BY <2>2, <2>3 DEF Open, Closing
  <2>5. f \o a \in Seq(Units) /\ Open(f \o a, 0, Len(f \o a))
      BY <2>4, OpenConcat
  <2>6. Open((f \o a) \o g, 0, Len((f \o a) \o g))
      BY <2>4, <2>5, OpenConcat
  <2>7. ChunkOf(a) = (f \o a) \o g
      BY <1>2, <2>1, <2>3 DEF ChunkOf
  <2> QED BY <2>6, <2>7
<1> QED BY <1>1, <1>2

(* What was collected is written as a chunk.                               *)
LEMMA RechunkedReturn ==
    ASSUME NEW s, NEW c, NEW r, NEW q, NEW a, Rechunked(s, c, r, q, a), NEW b, b = <<>>
    PROVE  Rechunked(s, c, r, q \o ChunkOf(a), b)
<1>1. /\ r \in (c + 1)..Len(s) /\ BodyOf(s, c) = "chunked" /\ Open(s, c + 1, r)
      /\ a \in Seq(Units) /\ \A k \in 1..Len(a) : a[k].u = "data"
    BY DEF Rechunked
<1>2. PICK o, p : /\ Begun(s, c, o, p, q) /\ Open(p, 0, Len(p))
                  /\ DataOf(p) \o a = DataOf(SubSeq(s, c + 2, r))
    BY DEF Rechunked
<1>3. PICK t : t = ChunkOf(a)
    OBVIOUS
<1>4. p \in Seq(Units) /\ t \in Seq(Units) /\ Open(t, 0, Len(t)) /\ DataOf(t) = a
    BY <1>1, <1>2, <1>3, ChunkType, ChunkOpen, DataOfChunk DEF Begun
<1>5. Begun(s, c, o, p \o t, q \o t)
    BY <1>2, <1>4, BegunMore
<1>6. Open(p \o t, 0, Len(p \o t))
    BY <1>2, <1>4, OpenConcat
<1>7. DataOf(p \o t) \o b = DataOf(SubSeq(s, c + 2, r))
  <2>1. DataOf(p \o t) = DataOf(p) \o DataOf(t)
      BY <1>4, DataConcat
  <2>2. DataOf(p) \o a \in Seq(Units)
      BY <1>1, <1>4, DataType
  <2>3. (DataOf(p) \o a) \o <<>> = DataOf(p) \o a
      BY <2>2, ConcatEmptySeq
  <2> QED BY <1>2, <1>4, <2>1, <2>3, Zenon
<1>8. b \in Seq(Units) /\ \A k \in 1..Len(b) : b[k].u = "data"
    OBVIOUS
<1> QED BY <1>1, <1>3, <1>5, <1>6, <1>7, <1>8 DEF Rechunked

(* A part of a stream that ends with its only unit that closes a body.     *)
LEMMA Closes ==
    ASSUME NEW p \in Seq(Units), NEW y \in Units, NEW z \in Units,
           Open(p, 0, Len(p)), y.u = "last", z.u \in Closing
    PROVE  \E v \in Seq(Units) :
              /\ v = p \o <<y, z>> /\ Len(v) = Len(p) + 2 /\ v[Len(p) + 2] = z
              /\ Open(v, 0, Len(p) + 1) /\ DataOf(v) = DataOf(p)
<1>1. PICK m \in Nat : m = Len(p)
    BY LenProperties
<1>2. PICK t, v : t = <<y, z>> /\ v = p \o t
    OBVIOUS
<1>3. t \in Seq(Units) /\ Len(t) = 2 /\ t[1] = y /\ t[2] = z
    BY <1>2
<1>4. /\ v \in Seq(Units) /\ Len(v) = m + 2
      /\ \A k \in 1..m : v[k] = p[k]
      /\ \A k \in 1..2 : v[m + k] = t[k]
  <2>1. v = p \o t
      BY <1>2
  <2> QED BY <1>1, <1>3, <2>1, ConcatProperties
<1>5. v[m + 1] = y /\ v[m + 2] = z
    BY <1>1, <1>3, <1>4
<1>6. Open(v, 0, m + 1)
  <2> SUFFICES ASSUME NEW k \in 1..(m + 1) PROVE v[k].u \notin Closing
      BY DEF Open
  <2>1. CASE k = m + 1
      BY <1>5, <2>1 DEF Closing
  <2>2. CASE k # m + 1
    <3>1. k \in 1..m
        BY <1>1, <2>2
    <3>2. p[k].u \notin Closing
        BY <1>1, <3>1 DEF Open
    <3> QED BY <1>4, <3>1, <3>2
  <2> QED BY <2>1, <2>2
<1>7. DataOf(v) = DataOf(p)
  <2>1. y.u # "data" /\ z.u # "data"
      BY DEF Closing
  <2>2. PICK f, g : f = <<y>> /\ g = <<z>>
      OBVIOUS
  <2>3. DataOf(f) = <<>>
      BY <2>1, <2>2, DataOne, Zenon
  <2>4. DataOf(g) = <<>>
      BY <2>1, <2>2, DataOne, Zenon
  <2>5. f \in Seq(Units) /\ g \in Seq(Units) /\ f \o g = t
    <3>1. f \in Seq(Units) /\ g \in Seq(Units)
        BY <2>2
    <3>2. Len(f) = 1 /\ Len(g) = 1 /\ f[1] = y /\ g[1] = z
        BY <2>2
    <3>3. PICK e : e = f \o g
        OBVIOUS
    <3>4. e \in Seq(Units) /\ Len(e) = 2 /\ e[1] = y /\ e[2] = z
        BY <3>1, <3>2, <3>3, ConcatProperties
    <3>5. \A k \in 1..Len(e) : e[k] = t[k]
        BY <1>3, <3>4
    <3>6. e = t
        BY <1>3, <3>4, <3>5, SeqEqual
    <3> QED BY <3>1, <3>3, <3>6
  <2>6. DataOf(t) = DataOf(f) \o DataOf(g)
    <3>1. DataOf(f \o g) = DataOf(f) \o DataOf(g)
        BY <2>5, DataConcat
    <3> QED BY <2>5, <3>1
  <2>7. DataOf(v) = DataOf(p) \o DataOf(t)
    <3>1. DataOf(p \o t) = DataOf(p) \o DataOf(t)
        BY <1>3, DataConcat
    <3> QED BY <1>2, <3>1
  <2>8. DataOf(t) = <<>>
      BY <2>3, <2>4, <2>6
  <2>9. DataOf(p) \in Seq(Units)
      BY DataType
  <2> QED BY <2>7, <2>8, <2>9, ConcatEmptySeq
<1> QED BY <1>1, <1>2, <1>4, <1>5, <1>6, <1>7

(* The end of a chunked body is read and written.                          *)
LEMMA ChunkedEnds ==
    ASSUME NEW s \in Seq(Units), NEW c, NEW r, NEW q, NEW a, Rechunked(s, c, r, q, a),
           r + 1 <= Len(s), s[r + 1].u \in Closing, Len(a) = 0,
           NEW y \in Units, NEW z \in Units, y.u = "last", z.u \in Closing,
           s[c + 1].h.trailer => z = s[r + 1]
    PROVE  Relayed(s, r + 1, q \o <<y, z>>)
<1>1. /\ r \in (c + 1)..Len(s) /\ BodyOf(s, c) = "chunked" /\ Open(s, c + 1, r)
      /\ a \in Seq(Units)
    BY DEF Rechunked
<1>2. PICK o, p : /\ Begun(s, c, o, p, q) /\ Open(p, 0, Len(p))
                  /\ DataOf(p) \o a = DataOf(SubSeq(s, c + 2, r))
    BY DEF Rechunked
<1>3. HeadAt(s, c) /\ o \in Seq(Units) /\ p \in Seq(Units)
    BY <1>2 DEF Begun
<1>4. /\ c \in Nat /\ s[c + 1].u = "head" /\ RFCBody(s[c + 1].h) = "chunked"
    BY <1>1, <1>3, HeadParts
<1>5. r \in Nat
    BY <1>1, <1>4
<1>6. PICK l \in Nat, m \in Nat : l = Len(o) /\ m = Len(p)
    BY <1>3, LenProperties
<1>7. PICK t, w : t = <<y, z>> /\ w = q \o t
    OBVIOUS
<1>8. PICK v \in Seq(Units) :
         /\ v = p \o <<y, z>> /\ Len(v) = Len(p) + 2 /\ v[Len(p) + 2] = z
         /\ Open(v, 0, Len(p) + 1) /\ DataOf(v) = DataOf(p)
    BY <1>2, <1>3, Closes
<1>9. /\ Len(v) = m + 2 /\ v[m + 2] = z
      /\ Open(v, 0, m + 1) /\ DataOf(v) = DataOf(p)
    BY <1>6, <1>8
<1>10. Begun(s, c, o, v, w)
  <2>1. t \in Seq(Units)
      BY <1>7
  <2>2. Begun(s, c, o, p \o t, q \o t)
      BY <1>2, <2>1, BegunMore
  <2> QED BY <1>7, <1>8, <2>2, Zenon
<1>11. Len(w) = l + 1 + (m + 2)
  <2>1. Len(w) = Len(o) + 1 + Len(v)
      BY <1>10, BegunParts
  <2> QED BY <1>6, <1>9, <2>1
<1>12. w[l + 1].u = "head" /\ RFCBody(w[l + 1].h) = "chunked"
    BY <1>1, <1>6, <1>10, BegunParts
<1>13. \A k \in 1..(m + 2) : w[l + 1 + k] = v[k]
    BY <1>6, <1>9, <1>10, BegunParts
<1>14. w[l + 1 + (m + 2)] = z
    BY <1>6, <1>9, <1>13
<1>15. \A k \in (l + 2)..(l + m + 2) : w[k].u \notin Closing
  <2> SUFFICES ASSUME NEW k \in (l + 2)..(l + m + 2) PROVE w[k].u \notin Closing
      OBVIOUS
  <2>1. PICK j \in 1..(m + 1) : k = l + 1 + j
    <3>1. k - (l + 1) \in 1..(m + 1) /\ k = l + 1 + (k - (l + 1))
        BY <1>6
    <3> QED BY <3>1
  <2>2. v[j].u \notin Closing
      BY <1>9, <2>1 DEF Open
  <2>3. w[l + 1 + j] = v[j]
      BY <1>6, <1>13, <2>1
  <2> QED BY <2>1, <2>2, <2>3
<1>16. Spans(w, Len(o), Len(w))
  <2>1. Len(w) \in (l + 1)..Len(w) /\ Len(w) >= l + 2 /\ Len(w) - 1 = l + m + 2
      BY <1>6, <1>11
  <2>2. w[Len(w)].u \in Closing
      BY <1>11, <1>14
  <2>3. \A k \in (l + 2)..(Len(w) - 1) : w[k].u \notin Closing
      BY <1>15, <2>1
  <2> QED BY <1>6, <1>12, <2>1, <2>2, <2>3 DEF Spans
<1>17. Spans(s, c, r + 1)
  <2>1. \A k \in (c + 2)..((r + 1) - 1) : s[k].u \notin Closing
    <3>1. \A k \in (c + 2)..((r + 1) - 1) : k \in (c + 1 + 1)..r
        BY <1>4, <1>5
    <3> QED BY <1>1, <3>1 DEF Open
  <2>2. r + 1 \in (c + 1)..Len(s) /\ r + 1 >= c + 2
      BY <1>1, <1>4, <1>5
  <2> QED BY <1>4, <2>1, <2>2 DEF Spans
<1>18. DataOf(v) = DataOf(SubSeq(s, c + 2, r + 1))
  <2>1. DataOf(p) = DataOf(SubSeq(s, c + 2, r))
    <3>1. a = <<>> /\ DataOf(p) \in Seq(Units)
        BY <1>1, <1>3, EmptySeq, DataType
    <3> QED BY <1>2, <3>1, ConcatEmptySeq
  <2>2. c + 1 <= r /\ s[r + 1].u # "data"
      BY <1>1, <1>4, <1>5 DEF Closing
  <2>3. DataOf(SubSeq(s, c + 2, r + 1)) = DataOf(SubSeq(s, c + 2, r))
      BY <1>4, <1>5, <2>2, BodyLine
  <2> QED BY <1>9, <2>1, <2>3
<1>19. s[c + 1].h.trailer => ((w[Len(w)].u = "trailer") = (s[r + 1].u = "trailer"))
    BY <1>11, <1>14
<1>20. Relayed(s, r + 1, w)
    BY <1>10, <1>16, <1>17, <1>18, <1>19, BegunEnds
<1> QED BY <1>7, <1>20

(* The receiver sees the stream end.                                       *)
AtEnd(eof) == eof

(* A message that a reader does not find complete: too little of a body of *)
(* known length, chunks without an end, or one that would end with a       *)
(* stream that does not end.                                               *)
Unfinished(t, i, eof) ==
    /\ i \in Nat /\ i + 1 <= Len(t) /\ t[i + 1].u = "head"
    /\ \/ /\ RFCBody(t[i + 1].h) = "limit"
          /\ \E n \in Nat : t[i + 1].h.cl = {n} /\ Len(t) < i + 1 + n
       \/ RFCBody(t[i + 1].h) = "chunked" /\ Open(t, i + 1, Len(t))
       \/ RFCBody(t[i + 1].h) = "eof" /\ ~AtEnd(eof)

(* The reader finds no end.                                                *)
LEMMA UnfinishedEnd ==
    ASSUME NEW t \in Seq(Units), NEW i, NEW eof, Unfinished(t, i, eof)
    PROVE  NextEnd(t, i, eof) = Len(t) + 1
<1>1. PICK m \in Nat : m = Len(t)
    BY LenProperties
<1>2. i \in Nat /\ i + 1 <= m /\ t[i + 1].u = "head"
    BY <1>1 DEF Unfinished
<1>3. BodyEnd(t, i, eof) > m /\ BodyEnd(t, i, eof) \in Nat
  <2>1. CASE RFCBody(t[i + 1].h) = "limit"
    <3>1. PICK n \in Nat : t[i + 1].h.cl = {n} /\ m < i + 1 + n
        BY <1>1, <2>1 DEF Unfinished
    <3>2. (CHOOSE k \in {n} : TRUE) = n
        OBVIOUS
    <3>3. BodyEnd(t, i, eof) = i + 1 + CHOOSE k \in t[i + 1].h.cl : TRUE
        BY <2>1 DEF BodyEnd
    <3>4. BodyEnd(t, i, eof) = i + 1 + n
        BY <3>1, <3>2, <3>3
    <3> QED BY <1>1, <1>2, <3>1, <3>4
  <2>2. CASE RFCBody(t[i + 1].h) = "chunked"
    <3> DEFINE ends == {k \in (i + 2)..m : t[k].u \in Closing}
    <3>1. \A k \in (i + 1 + 1)..m : t[k].u \notin Closing
        BY <1>1, <2>2 DEF Unfinished, Open
    <3>2. ends = {}
      <4>1. i + 1 + 1 = i + 2
          BY <1>2
      <4> QED BY <3>1, <4>1
    <3>3. BodyEnd(t, i, eof) = IF ends = {} THEN m + 1
                               ELSE CHOOSE j \in ends : \A k \in ends : j <= k
        BY <1>1, <2>2 DEF BodyEnd, Closing
    <3> QED BY <1>1, <3>2, <3>3
  <2>3. CASE RFCBody(t[i + 1].h) = "eof"
      BY <1>1, <2>3 DEF Unfinished, BodyEnd, AtEnd
  <2> QED BY <2>1, <2>2, <2>3 DEF Unfinished
<1> QED BY <1>1, <1>2, <1>3 DEF NextEnd

(* A body that ends with the stream.                                       *)
LEMMA ToTheEnd ==
    ASSUME NEW t \in Seq(Units), NEW i \in Nat, i + 1 <= Len(t), t[i + 1].u = "head",
           RFCBody(t[i + 1].h) = "eof", NEW eof, AtEnd(eof)
    PROVE  NextEnd(t, i, eof) = Len(t)
<1>1. PICK m \in Nat : m = Len(t)
    BY LenProperties
<1>2. BodyEnd(t, i, eof) = m
    BY <1>1 DEF BodyEnd, AtEnd
<1> QED BY <1>1, <1>2 DEF NextEnd

(* The first r units of s.                                                 *)
LEMMA Prefix ==
    ASSUME NEW s \in Seq(Units), NEW r \in 0..Len(s)
    PROVE  \E t \in Seq(Units) : /\ t = SubSeq(s, 1, r) /\ Len(t) = r
                                 /\ \A k \in 1..r : t[k] = s[k]
                                 /\ Begins(t, s)
<1>1. PICK t : t = SubSeq(s, 1, r)
    OBVIOUS
<1>2. r \in Nat /\ 0 + r <= Len(s) /\ 0 + 1 = 1 /\ 0 + r = r /\ \A k \in 1..r : 0 + k = k
    OBVIOUS
<1>3. t \in Seq(Units) /\ Len(t) = r /\ \A k \in 1..r : t[k] = s[0 + k]
  <2>1. t = SubSeq(s, 0 + 1, 0 + r) /\ 0 \in Nat
      BY <1>1, <1>2
  <2> QED BY <1>2, <2>1, Part
<1>4. Begins(t, s)
    BY <1>2, <1>3 DEF Begins
<1> QED BY <1>1, <1>2, <1>3, <1>4

(* If all that was taken in was relayed, the receiver has its messages.    *)
LEMMA CompleteSame ==
    ASSUME NEW s \in Seq(Units), NEW r \in 0..Len(s), NEW o \in Seq(Units), NEW eof,
           Relayed(s, r, o)
    PROVE  Messages(o, eof) = Messages(SubSeq(s, 1, r), eof)
<1>1. PICK t \in Seq(Units) : t = SubSeq(s, 1, r) /\ Len(t) = r /\ Begins(t, s)
    BY Prefix
<1>2. Len(o) \in Nat /\ r \in Nat
    OBVIOUS
<1>3. NextEnd(t, r, eof) = Len(t) + 1 /\ NextEnd(o, Len(o), eof) = Len(o) + 1
    BY <1>1, <1>2 DEF NextEnd
<1>4. Begins(o, o)
    BY <1>2 DEF Begins
<1>5. r <= Len(t)
    BY <1>1, <1>2
<1>6. Messages(o, eof) = Messages(t, eof)
  <2>1. t \in Seq(Units) /\ Begins(t, s)
      BY <1>1
  <2> QED BY <1>3, <1>4, <1>5, <2>1, RelayedSame
<1> QED BY <1>1, <1>6

(* The message after position c broke off at position r, and so did what   *)
(* was made of it; one that ends with the stream is relayed to the end.    *)
Broken(s, c, r, q) ==
    /\ r \in (c + 1)..Len(s)
    /\ \E o, p :
          /\ Begun(s, c, o, p, q)
          /\ \/ /\ BodyOf(s, c) = "limit" /\ r < c + 1 + LengthOf(s, c)
                /\ Len(p) < LengthOf(s, c)
             \/ BodyOf(s, c) = "eof" /\ p = SubSeq(s, c + 2, r)
             \/ /\ BodyOf(s, c) = "chunked" /\ Open(s, c + 1, r)
                /\ Open(p, 0, Len(p))

(* Then the receiver has the same messages, too.                           *)
LEMMA BrokenSame ==
    ASSUME NEW s \in Seq(Units), NEW c, NEW r, NEW q, NEW eof, Broken(s, c, r, q)
    PROVE  Messages(q, eof) = Messages(SubSeq(s, 1, r), eof)
<1>1. r \in (c + 1)..Len(s)
    BY DEF Broken
<1>2. PICK o, p :
          /\ Begun(s, c, o, p, q)
          /\ \/ /\ BodyOf(s, c) = "limit" /\ r < c + 1 + LengthOf(s, c)
                /\ Len(p) < LengthOf(s, c)
             \/ BodyOf(s, c) = "eof" /\ p = SubSeq(s, c + 2, r)
             \/ /\ BodyOf(s, c) = "chunked" /\ Open(s, c + 1, r)
                /\ Open(p, 0, Len(p))
    BY DEF Broken
<1>3. HeadAt(s, c) /\ o \in Seq(Units) /\ p \in Seq(Units) /\ Relayed(s, c, o)
    BY <1>2 DEF Begun
<1>4. /\ c \in Nat /\ s[c + 1].u = "head" /\ RFCBody(s[c + 1].h) = BodyOf(s, c)
      /\ BodyOf(s, c) = "limit" =>
            s[c + 1].h.cl = {LengthOf(s, c)} /\ LengthOf(s, c) \in Nat
      /\ s[c + 1].h.trailer => BodyOf(s, c) = "chunked"
    BY <1>3, HeadParts
<1>5. r \in Nat /\ r \in 0..Len(s) /\ c + 1 <= r
    BY <1>1, <1>4
<1>6. PICK t \in Seq(Units) : /\ t = SubSeq(s, 1, r) /\ Len(t) = r
                              /\ \A k \in 1..r : t[k] = s[k]
                              /\ Begins(t, s)
    BY <1>5, Prefix
<1>7. t[c + 1] = s[c + 1]
    BY <1>4, <1>5, <1>6
<1>8. PICK l \in Nat, m \in Nat : l = Len(o) /\ m = Len(p)
    BY <1>3, LenProperties
<1>9. q \in Seq(Units)
    BY <1>2, BegunParts
<1>10. Begins(o, q)
    BY <1>2, BegunParts
<1>11. Len(q) = l + 1 + m
    BY <1>2, <1>8, BegunParts
<1>12. q[l + 1].u = "head" /\ RFCBody(q[l + 1].h) = BodyOf(s, c)
    BY <1>2, <1>8, BegunParts
<1>13. BodyOf(s, c) = "limit" => q[l + 1].h.cl = {LengthOf(s, c)}
    BY <1>2, <1>8, BegunParts
<1>14. \A k \in 1..m : q[l + 1 + k] = p[k]
    BY <1>2, <1>8, BegunParts
<1>15. CASE BodyOf(s, c) \in {"limit", "chunked"} \/ ~AtEnd(eof)
  <2>1. Unfinished(t, c, eof)
    <3>1. CASE BodyOf(s, c) = "limit"
        BY <1>2, <1>4, <1>5, <1>6, <1>7, <3>1 DEF Unfinished
    <3>2. CASE BodyOf(s, c) = "chunked"
      <4>1. Open(t, c + 1, r)
          BY <1>2, <1>4, <1>5, <1>6, <3>2 DEF Open
      <4> QED BY <1>4, <1>5, <1>6, <1>7, <3>2, <4>1 DEF Unfinished
    <3>3. CASE BodyOf(s, c) = "eof"
        BY <1>4, <1>5, <1>6, <1>7, <1>15, <3>3 DEF Unfinished
    <3> QED BY <1>2, <3>1, <3>2, <3>3
  <2>2. Unfinished(q, l, eof)
    <3>1. CASE BodyOf(s, c) = "limit"
      <4>1. Len(q) < l + 1 + LengthOf(s, c)
          BY <1>2, <1>4, <1>8, <1>11, <3>1
      <4> QED BY <1>4, <1>8, <1>11, <1>12, <1>13, <3>1, <4>1 DEF Unfinished
    <3>2. CASE BodyOf(s, c) = "chunked"
      <4>1. Open(q, l + 1, l + 1 + m)
        <5> SUFFICES ASSUME NEW k \in (l + 1 + 1)..(l + 1 + m) PROVE q[k].u \notin Closing
            BY DEF Open
        <5>1. PICK j \in 1..m : k = l + 1 + j
          <6>1. k - (l + 1) \in 1..m /\ k = l + 1 + (k - (l + 1))
              BY <1>8
          <6> QED BY <6>1
        <5>2. p[j].u \notin Closing
            BY <1>2, <1>8, <3>2, <5>1 DEF Open
        <5> QED BY <1>14, <5>1, <5>2
      <4> QED BY <1>8, <1>11, <1>12, <3>2, <4>1 DEF Unfinished
    <3>3. CASE BodyOf(s, c) = "eof"
      <4>1. l + 1 <= Len(q)
          BY <1>8, <1>11
      <4> QED BY <1>8, <1>12, <1>15, <3>3, <4>1 DEF Unfinished
    <3> QED BY <1>2, <3>1, <3>2, <3>3
  <2>3. NextEnd(t, c, eof) = Len(t) + 1 /\ NextEnd(q, Len(o), eof) = Len(q) + 1
      BY <1>6, <1>8, <1>9, <2>1, <2>2, UnfinishedEnd
  <2>4. c <= Len(t)
      BY <1>4, <1>5, <1>6
  <2>5. Messages(q, eof) = Messages(t, eof)
    <3>1. t \in Seq(Units) /\ Begins(t, s)
        BY <1>6
    <3>2. o \in Seq(Units) /\ Relayed(s, c, o)
        BY <1>3
    <3> QED BY <1>9, <1>10, <2>3, <2>4, <3>1, <3>2, RelayedSame
  <2> QED BY <1>6, <2>5
<1>16. CASE BodyOf(s, c) = "eof" /\ AtEnd(eof)
  <2>1. p = SubSeq(s, c + 2, r)
      BY <1>2, <1>16
  <2>2. NextEnd(t, c, eof) = Len(t)
      BY <1>4, <1>5, <1>6, <1>7, <1>16, ToTheEnd
  <2>3. NextEnd(q, Len(o), eof) = Len(q)
    <3>1. l + 1 <= Len(q)
        BY <1>8, <1>11
    <3> QED BY <1>8, <1>9, <1>12, <1>16, <3>1, ToTheEnd
  <2>4. Message(t, c, Len(t)) = Message(q, Len(o), Len(q))
    <3>1. PICK h, x : h = s[c + 1].h /\ x = q[l + 1].h
        OBVIOUS
    <3>2. x = Rewritten(s, c).h
      <4>1. q[Len(o) + 1] = Rewritten(s, c)
          BY <1>2, BegunParts
      <4> QED BY <1>8, <3>1, <4>1
    <3>3. /\ RFCPersists(x) = RFCPersists(h) /\ x.method = h.method
          /\ x.status = h.status /\ x.trailer = h.trailer /\ ~h.trailer
        BY <1>3, <1>4, <1>16, <3>1, <3>2, RewrittenSame
    <3>4. SubSeq(q, Len(o) + 2, Len(q)) = p
        BY <1>2, BegunParts
    <3>5. SubSeq(t, c + 2, r) = p
      <4>1. \A k \in (c + 2)..r : t[k] = s[k] /\ s[k] \in Units /\ t[k] \in Units
          BY <1>4, <1>5, <1>6
      <4>2. c + 2 \in Int /\ r \in Int
          BY <1>4, <1>5
      <4>3. SubSeq(t, c + 2, r) = SubSeq(s, c + 2, r)
          BY <4>1, <4>2
      <4> QED BY <2>1, <4>3
    <3>6. Message(t, c, r) = [method |-> h.method, status |-> h.status,
                              persists |-> RFCPersists(h), data |-> DataOf(p),
                              trailer |-> FALSE]
        BY <1>7, <3>1, <3>3, <3>5 DEF Message
    <3>7. Message(q, l, Len(q)) = [method |-> x.method, status |-> x.status,
                              persists |-> RFCPersists(x), data |-> DataOf(p),
                              trailer |-> FALSE]
        BY <1>8, <3>1, <3>3, <3>4 DEF Message
    <3> QED BY <1>6, <1>8, <3>3, <3>6, <3>7
  <2>5. c < Len(t) /\ Len(o) < Len(q)
      BY <1>4, <1>5, <1>6, <1>8, <1>11
  <2>6. Messages(q, eof) = Messages(t, eof)
    <3>1. t \in Seq(Units) /\ Begins(t, s)
        BY <1>6
    <3>2. o \in Seq(Units) /\ Relayed(s, c, o)
        BY <1>3
    <3> QED BY <1>9, <1>10, <2>2, <2>3, <2>4, <2>5, <3>1, <3>2, RelayedToTheEnd
  <2> QED BY <1>6, <2>6
<1> QED BY <1>2, <1>15, <1>16

(* A chunked message that was not read to its end broke off.               *)
LEMMA RechunkedBroken ==
    ASSUME NEW s, NEW c, NEW r, NEW q, NEW a, Rechunked(s, c, r, q, a)
    PROVE  Broken(s, c, r, q)
<1>1. r \in (c + 1)..Len(s) /\ BodyOf(s, c) = "chunked" /\ Open(s, c + 1, r)
    BY DEF Rechunked
<1>2. PICK o, p : Begun(s, c, o, p, q) /\ Open(p, 0, Len(p))
    BY DEF Rechunked
<1> QED BY <1>1, <1>2 DEF Broken

(* So did one with a known length, unless the end of the stream is its end.*)
LEMMA CopiedBroken ==
    ASSUME NEW s \in Seq(Units), NEW c, NEW r, NEW q, Copied(s, c, r, q),
           BodyOf(s, c) = "limit" => r < c + 1 + LengthOf(s, c)
    PROVE  Broken(s, c, r, q)
<1>1. r \in (c + 1)..Len(s) /\ BodyOf(s, c) \in {"limit", "eof"}
    BY DEF Copied
<1>2. PICK o : Begun(s, c, o, SubSeq(s, c + 2, r), q)
    BY DEF Copied
<1>3. PICK p : p = SubSeq(s, c + 2, r)
    OBVIOUS
<1>4. HeadAt(s, c)
    BY <1>2 DEF Begun
<1>5. c \in Nat /\ (BodyOf(s, c) = "limit" => LengthOf(s, c) \in Nat)
    BY <1>4, HeadParts
<1>6. PICK b \in Nat, n \in Nat : b = c + 1 /\ r = b + n
  <2>1. c + 1 \in Nat /\ r - (c + 1) \in Nat /\ r = (c + 1) + (r - (c + 1))
      BY <1>1, <1>5
  <2> QED BY <2>1
<1>7. Len(p) = n
  <2>1. p = SubSeq(s, b + 1, b + n) /\ b + n <= Len(s)
    <3>1. b + 1 = c + 2 /\ b + n = r /\ r <= Len(s)
        BY <1>1, <1>5, <1>6
    <3> QED BY <1>3, <3>1, Zenon
  <2> QED BY <1>6, <2>1, Part
<1>8. BodyOf(s, c) = "limit" => Len(p) < LengthOf(s, c)
    BY <1>5, <1>6, <1>7
<1>9. Begun(s, c, o, p, q)
    BY <1>2, <1>3
<1> QED BY <1>1, <1>3, <1>8, <1>9 DEF Broken

(* A header of the direction that the relay accepts.                       *)
LEMMA AcceptedHead ==
    ASSUME NEW s \in Seq(Units), NEW d, NEW c \in Nat, c + 1 <= Len(s), Framed(d, s),
           ~Foreigner(s[c + 1])
    PROVE  HeadAt(s, c) /\ s[c + 1].h.resp = (d = "response")
<1>1. s[c + 1] \in Units /\ c + 1 \in 1..Len(s)
    OBVIOUS
<1>2. s[c + 1].u = "head" /\ ReadOK(s[c + 1].h)
    BY DEF Foreigner
<1>3. s[c + 1].h \in Headers
    BY <1>1, <1>2, UnitTypes
<1>4. /\ s[c + 1].h.resp = (d = "response") /\ Ordinary(s[c + 1].h)
      /\ IsChunked(s[c + 1].h) => readTransfer(s[c + 1].h).body = "chunked"
    BY <1>1, <1>2 DEF Framed
<1> QED BY <1>2, <1>3, <1>4 DEF HeadAt

-----------------------------------------------------------------------------
(* The parts of the invariant: what the receiver has been sent, or will be *)
(* when bufioWriter is flushed, at each point of the loop.  A message has  *)
(* been read; its body is being copied; or cut into chunks again; it is    *)
(* complete, or the stream broke off in it.                                *)
AtWrite ==
    pc = "write" =>
        /\ Relayed(script, start, out) /\ rpos = start + 1
        /\ rem = IF BodyOf(script, start) = "limit" THEN LengthOf(script, start) ELSE 0

AtBody ==
    pc = "body" =>
        /\ Copied(script, start, rpos, out \o wbuf)
        /\ BodyOf(script, start) = "limit" => rpos + rem = start + 1 + LengthOf(script, start)

AtChunk ==
    pc \in {"chunk", "trailer"} =>
        /\ Rechunked(script, start, rpos, out \o wbuf, acc)
        /\ \A k \in (rpos + 1)..(rpos + cn) : k <= Len(script) => script[k].u = "data"

AtEndOfMessage ==
    pc \in {"after", "read"} =>
        \/ Relayed(script, rpos, out)
        \/ Drained /\ Broken(script, start, rpos, out)

AtRest ==
    /\ dir = "request" \/ pc \in {"read", "write", "after"} => wbuf = <<>>
    /\ pc \in {"read", "write"} => cn = 0

Kept == AtWrite /\ AtBody /\ AtChunk /\ AtEndOfMessage /\ AtRest

(* The setting of a step: a well framed stream and a receiver that is      *)
(* there.                                                                  *)
Setting ==
    /\ Positions /\ Contents /\ Flags /\ Counters /\ Forgotten /\ InHand
    /\ wOK /\ Framed(dir, script) /\ Kept

(* A write reaches the receiver.                                           *)
LEMMA Sent ==
    ASSUME Setting, NEW s \in Seq(Units), Send(s)
    PROVE  /\ out' = (out \o wbuf) \o s
           /\ out \o wbuf \in Seq(Units) /\ wbuf \in Seq(Units) /\ out \in Seq(Units)
BY DEF Setting, Contents, Send

(* What is known of the message in hand.                                   *)
LEMMA MessageInHand ==
    ASSUME Setting, pc \in Handling
    PROVE  /\ HeadAt(script, start) /\ msg = readTransfer(script[start + 1].h)
           /\ Header = script[start + 1].h
           /\ msg.body = BodyOf(script, start) /\ msg.length = LengthOf(script, start)
           /\ Header.resp = (dir = "response")
           /\ msg.trailer = Header.trailer /\ (msg.chunked => msg.body = "chunked")
<1>1. /\ script \in Seq(Units) /\ start \in Nat /\ start + 1 <= Len(script)
      /\ ~Foreigner(script[start + 1]) /\ msg = readTransfer(Header)
    BY DEF Setting, Positions, InHand
<1>2. HeadAt(script, start) /\ script[start + 1].h.resp = (dir = "response")
    BY <1>1, AcceptedHead DEF Setting
<1>3. msg.trailer = Header.trailer /\ msg.chunked = IsChunked(Header)
    BY <1>1 DEF readTransfer
<1> QED BY <1>1, <1>2, <1>3 DEF Header, BodyOf, LengthOf, HeadAt

(* More of the stream arrives; the sender closes.                          *)
LEMMA KeptInput ==
    ASSUME Setting, Fill \/ SenderCloses \/ UNCHANGED rvars
    PROVE  Kept'
<1>1. /\ dir' = dir /\ script' = script /\ pc' = pc /\ start' = start /\ rpos' = rpos
      /\ rem' = rem /\ cn' = cn /\ acc' = acc /\ wbuf' = wbuf /\ out' = out
      /\ closed' = closed /\ out' \o wbuf' = out \o wbuf
    BY DEF Fill, SenderCloses, rvars, source, chunk
<1>2. AtWrite /\ AtBody /\ AtChunk /\ AtEndOfMessage /\ AtRest
    BY DEF Setting, Kept
<1>3. AtWrite' /\ AtBody' /\ AtChunk' /\ AtRest'
    BY <1>1, <1>2 DEF AtWrite, AtBody, AtChunk, AtRest
<1>4. AtEndOfMessage'
  <2>1. Drained => Drained'
      BY <1>1 DEF Fill, SenderCloses, rvars, Drained
  <2> QED BY <1>1, <1>2, <2>1 DEF AtEndOfMessage
<1> QED BY <1>3, <1>4 DEF Kept

(* A message is read.                                                      *)
LEMMA KeptReadMessage ==
    ASSUME Setting, ReadMessage
    PROVE  Kept'
<1>1. /\ dir' = dir /\ script' = script /\ pc = "read" /\ pc' = "write" /\ start' = rpos
      /\ rpos' = rpos + 1 /\ cn' = cn /\ acc' = acc /\ wbuf' = wbuf /\ out' = out
      /\ rpos < pos /\ msg' = readTransfer(script[rpos + 1].h)
      /\ rem' = IF msg'.body = "limit" THEN msg'.length ELSE 0
    BY DEF ReadMessage, Keep, source, chunk, Unread
<1>2. AtEndOfMessage /\ AtRest
    BY DEF Setting, Kept
<1>3. Relayed(script, rpos, out)
    BY <1>1, <1>2 DEF AtEndOfMessage, Drained, Setting, Positions
<1>4. AtWrite'
    BY <1>1, <1>3 DEF AtWrite, BodyOf, LengthOf
<1> QED BY <1>1, <1>2, <1>4 DEF Kept, AtBody, AtChunk, AtEndOfMessage, AtRest

(* The handler falls back or returns.                                      *)
LEMMA KeptFallback ==
    ASSUME Setting, ReadFails \/ ReadEnds \/ Replay \/ Tunnel \/ TunnelEnds
    PROVE  Kept'
<1>1. dir' = dir /\ pc' \in {"replay", "tunnel", "done"} /\ wbuf' = wbuf
    BY DEF ReadFails, ReadEnds, Replay, Tunnel, TunnelEnds, Keep, source
<1>2. AtRest
    BY DEF Setting, Kept
<1> QED BY <1>1, <1>2 DEF Kept, AtWrite, AtBody, AtChunk, AtEndOfMessage, AtRest

(* The loop goes on with the next message.                                 *)
LEMMA KeptNextMessage ==
    ASSUME Setting, NextMessage
    PROVE  Kept'
<1>1. /\ script' = script /\ pc = "after" /\ pc' = "read" /\ start' = start
      /\ rpos' = rpos /\ cn' = 0 /\ wbuf' = <<>> /\ out' = out /\ pos' = pos /\ fin' = fin
      /\ closed => closed'
    BY DEF NextMessage, Keep, source
<1>2. AtEndOfMessage
    BY DEF Setting, Kept
<1>3. Drained => Drained'
    BY <1>1 DEF Drained
<1> QED BY <1>1, <1>2, <1>3 DEF Kept, AtWrite, AtBody, AtChunk, AtEndOfMessage, AtRest

(* bufioWriter is flushed.                                                 *)
LEMMA KeptBufferFull ==
    ASSUME Setting, BufferFull
    PROVE  Kept'
<1>1. /\ dir' = dir /\ script' = script /\ pc' = pc /\ start' = start /\ rpos' = rpos
      /\ rem' = rem /\ cn' = cn /\ acc' = acc /\ wbuf' = <<>> /\ pc \in {"body", "chunk"}
    BY DEF BufferFull, Keep, source, chunk, Setting
<1>2. AtBody /\ AtChunk
    BY DEF Setting, Kept
<1>3. out' \o wbuf' = out \o wbuf
  <2>1. <<>> \in Seq(Units) /\ Send(<<>>)
      BY DEF BufferFull
  <2>2. out' = (out \o wbuf) \o <<>> /\ out \o wbuf \in Seq(Units)
      BY <2>1, Sent
  <2> QED BY <1>1, <2>2
<1>4. AtBody' /\ AtChunk'
    BY <1>1, <1>2, <1>3 DEF AtBody, AtChunk
<1> QED BY <1>1, <1>4 DEF Kept, AtWrite, AtEndOfMessage, AtRest

(* The header is written, and with it a message without a body.            *)
LEMMA KeptWriteHead ==
    ASSUME Setting, WriteHead
    PROVE  Kept'
<1>1. /\ dir' = dir /\ script' = script /\ pc = "write" /\ start' = start /\ rpos' = rpos
      /\ rem' = rem /\ cn' = cn /\ acc' = acc
    BY DEF WriteHead, Keep, source, chunk
<1>2. /\ HeadAt(script, start) /\ msg = readTransfer(script[start + 1].h)
      /\ Header = script[start + 1].h /\ msg.body = BodyOf(script, start)
      /\ Header.resp = (dir = "response") /\ (msg.chunked => msg.body = "chunked")
    BY <1>1, MessageInHand DEF Handling
<1>3. /\ Relayed(script, start, out) /\ rpos = start + 1 /\ wbuf = <<>> /\ cn = 0
      /\ rem = IF BodyOf(script, start) = "limit" THEN LengthOf(script, start) ELSE 0
    BY <1>1 DEF Setting, Kept, AtWrite, AtRest
<1>4. /\ script \in Seq(Units) /\ start \in Nat /\ Len(script) \in Nat /\ out \in Seq(Units)
      /\ wOK /\ acc = <<>> /\ dir \in {"request", "response"}
    BY <1>1 DEF Setting, Positions, Contents, Forgotten, Flags
<1>5. PICK x : x = Rewritten(script, start)
    OBVIOUS
<1>6. x = HeadUnit(WriteHeader(Header, msg)) /\ x \in Units
    BY <1>2, <1>5, RewrittenSame DEF Rewritten
<1>7. PICK t : t = <<x>>
    OBVIOUS
<1>8. t \in Seq(Units)
    BY <1>6, <1>7
<1>9. out \o wbuf = out
    BY <1>3, <1>4, ConcatEmptySeq
<1>10. CASE msg.body = "none"
  <2>1. Send(t \o <<>>) /\ pc' = "after" /\ wbuf' = wbuf
      BY <1>2, <1>6, <1>7, <1>10 DEF WriteHead
  <2>2. t \o <<>> = t
      BY <1>8, ConcatEmptySeq
  <2>3. out' = out \o t
      BY <1>8, <1>9, <2>1, <2>2, Sent
  <2>4. PICK p : p = <<>>
      OBVIOUS
  <2>5. PICK q : q = out \o t
      OBVIOUS
  <2>6. Begun(script, start, out, p, q)
    <3>1. q = out \o <<Rewritten(script, start)>>
        BY <1>5, <1>7, <2>5
    <3> QED BY <1>2, <1>3, <1>4, <2>4, <3>1, BegunNow
  <2>7. Len(p) = 0
      BY <2>4
  <2>8. Relayed(script, start + 1, q)
      BY <1>2, <1>4, <1>10, <2>6, <2>7, NoBodyEnds
  <2>9. Relayed(script', rpos', out')
      BY <1>1, <1>3, <2>3, <2>5, <2>8
  <2> QED BY <1>3, <2>1, <2>9 DEF Kept, AtWrite, AtBody, AtChunk, AtEndOfMessage, AtRest
<1>11. CASE msg.body # "none"
  <2>1. FlushHeaders(Header, msg) = (dir = "request")
      BY <1>2, <1>4, <1>11 DEF FlushHeaders
  <2>2. /\ IF dir = "request" THEN Send(t) /\ wbuf' = wbuf ELSE wbuf' = t /\ out' = out
        /\ pc' = IF msg.body = "chunked" THEN "chunk" ELSE "body"
      BY <1>4, <1>6, <1>7, <1>11, <2>1 DEF WriteHead
  <2>3. out' \o wbuf' = out \o t
    <3>1. CASE dir = "request"
      <4>1. out' = out \o t
          BY <1>8, <1>9, <2>2, <3>1, Sent
      <4>2. out' \in Seq(Units)
          BY <1>4, <1>8, <4>1
      <4> QED BY <1>3, <2>2, <3>1, <4>1, <4>2, ConcatEmptySeq
    <3>2. CASE dir # "request"
        BY <2>2, <3>2
    <3> QED BY <3>1, <3>2
  <2>4. PICK q : q = out \o t
      OBVIOUS
  <2>5. q = out \o <<Rewritten(script, start)>>
      BY <1>5, <1>7, <2>4
  <2>6. dir = "request" => wbuf' = <<>>
      BY <1>3, <2>2
  <2>7. CASE msg.body = "chunked"
    <3>1. Rechunked(script, start, start + 1, q, acc)
        BY <1>2, <1>3, <1>4, <2>5, <2>7, RechunkedNothing
    <3>2. Rechunked(script', start', rpos', out' \o wbuf', acc')
        BY <1>1, <1>3, <2>3, <2>4, <3>1
    <3>3. AtChunk'
        BY <1>1, <1>3, <1>4, <3>2 DEF AtChunk
    <3> QED BY <1>1, <2>2, <2>6, <2>7, <3>3 DEF Kept, AtWrite, AtBody, AtEndOfMessage, AtRest
  <2>8. CASE msg.body # "chunked"
    <3>1. BodyOf(script, start) \in {"limit", "eof"}
        BY <1>2, <1>11, <2>8, HeadParts
    <3>2. Copied(script, start, start + 1, q)
        BY <1>2, <1>3, <1>4, <2>5, <3>1, CopiedNothing
    <3>3. Copied(script', start', rpos', out' \o wbuf')
        BY <1>1, <1>3, <2>3, <2>4, <3>2
    <3>4. AtBody'
        BY <1>1, <1>3, <1>4, <3>3 DEF AtBody
    <3> QED BY <1>1, <2>2, <2>6, <2>8, <3>4 DEF Kept, AtWrite, AtChunk, AtEndOfMessage, AtRest
  <2> QED BY <2>7, <2>8
<1> QED BY <1>10, <1>11

(* Part of a body is copied.                                               *)
LEMMA KeptCopyBody ==
    ASSUME Setting, CopyBody
    PROVE  Kept'
<1>1. /\ dir' = dir /\ script' = script /\ pc = "body" /\ start' = start
      /\ cn' = cn /\ acc' = acc /\ rpos < pos /\ (rem > 0 \/ msg.body = "eof")
    BY DEF CopyBody, Keep, source, chunk
<1>2. /\ script \in Seq(Units) /\ pos \in Nat /\ rpos \in Nat /\ rem \in Nat
      /\ pos <= Len(script) /\ Len(script) \in Nat /\ wOK
    BY DEF Setting, Positions, Counters
<1>3. pc' = "body"
    BY <1>2 DEF CopyBody
<1>4. msg.body = BodyOf(script, start) /\ HeadAt(script, start)
    BY <1>1, MessageInHand DEF Handling
<1>5. /\ Copied(script, start, rpos, out \o wbuf)
      /\ BodyOf(script, start) = "limit" => rpos + rem = start + 1 + LengthOf(script, start)
      /\ dir = "request" => wbuf = <<>>
    BY <1>1 DEF Setting, Kept, AtBody, AtRest
<1> DEFINE n == IF msg.body = "eof" \/ rem > pos - rpos THEN pos - rpos ELSE rem
<1>6. n \in Nat /\ rpos + n <= pos /\ (msg.body # "eof" => n <= rem)
    BY <1>1, <1>2
<1>7. PICK d, t : d = rpos + n /\ t = SubSeq(script, rpos + 1, d)
    OBVIOUS
<1>8. /\ rpos' = d /\ rem' = IF msg.body = "eof" THEN 0 ELSE rem - n
      /\ IF dir = "request" THEN Send(t) /\ wbuf' = wbuf
         ELSE wbuf' = wbuf \o t /\ out' = out
    BY <1>7 DEF CopyBody
<1> HIDE DEF n
<1>9. d \in Nat /\ rpos <= d /\ d <= Len(script)
    BY <1>2, <1>6, <1>7
<1>10. t \in Seq(Units)
    BY <1>2, <1>7, <1>9, PartType
<1>11. out' \o wbuf' = (out \o wbuf) \o t
  <2>1. CASE dir = "request"
    <3>1. out' = (out \o wbuf) \o t /\ out \o wbuf \in Seq(Units)
        BY <1>8, <1>10, <2>1, Sent
    <3>2. out' \in Seq(Units)
        BY <1>10, <3>1
    <3> QED BY <1>5, <1>8, <2>1, <3>1, <3>2, ConcatEmptySeq
  <2>2. CASE dir # "request"
    <3>1. out \in Seq(Units) /\ wbuf \in Seq(Units)
        BY DEF Setting, Contents
    <3>2. (out \o wbuf) \o t = out \o (wbuf \o t)
        BY <1>10, <3>1, ConcatAssociative
    <3> QED BY <1>8, <2>2, <3>2
  <2> QED BY <2>1, <2>2
<1>12. Copied(script, start, d, (out \o wbuf) \o t)
    BY <1>2, <1>5, <1>7, <1>9, CopiedMore
<1>13. Copied(script', start', rpos', out' \o wbuf')
    BY <1>1, <1>8, <1>11, <1>12
<1>14. BodyOf(script, start) = "limit" => d + rem' = start + 1 + LengthOf(script, start)
    BY <1>2, <1>4, <1>5, <1>6, <1>7, <1>8
<1>15. AtBody'
    BY <1>1, <1>8, <1>13, <1>14 DEF AtBody
<1>16. dir' = "request" => wbuf' = <<>>
    BY <1>1, <1>5, <1>8
<1> QED BY <1>3, <1>15, <1>16 DEF Kept, AtWrite, AtChunk, AtEndOfMessage, AtRest

(* The body is complete, or the stream ends in it.                         *)
LEMMA KeptBodyEnds ==
    ASSUME Setting, BodyEnds
    PROVE  Kept'
<1>1. /\ dir' = dir /\ script' = script /\ pc = "body" /\ pc' = "after" /\ start' = start
      /\ rpos' = rpos /\ wbuf' = <<>> /\ pos' = pos /\ fin' = fin /\ closed' = closed
      /\ (msg.body = "limit" /\ rem = 0) \/ Drained
    BY DEF BodyEnds, Keep, source
<1>2. script \in Seq(Units) /\ rpos \in Nat /\ rem \in Nat /\ start \in Nat
    BY DEF Setting, Positions, Counters
<1>3. msg.body = BodyOf(script, start) /\ HeadAt(script, start)
    BY <1>1, MessageInHand DEF Handling
<1>4. /\ Copied(script, start, rpos, out \o wbuf)
      /\ BodyOf(script, start) = "limit" => rpos + rem = start + 1 + LengthOf(script, start)
    BY <1>1 DEF Setting, Kept, AtBody
<1>5. BodyOf(script, start) = "limit" => LengthOf(script, start) \in Nat
    BY <1>3, HeadParts
<1>6. out' = out \o wbuf
  <2>1. <<>> \in Seq(Units) /\ Send(<<>>)
      BY DEF BodyEnds
  <2>2. out' = (out \o wbuf) \o <<>> /\ out \o wbuf \in Seq(Units)
      BY <2>1, Sent
  <2> QED BY <2>2, ConcatEmptySeq
<1>7. CASE BodyOf(script, start) = "limit" /\ rem = 0
  <2>1. rpos = start + 1 + LengthOf(script, start)
      BY <1>2, <1>4, <1>5, <1>7
  <2>2. Relayed(script, rpos, out \o wbuf)
      BY <1>2, <1>4, <1>7, <2>1, LimitEnds
  <2>3. Relayed(script', rpos', out')
      BY <1>1, <1>6, <2>2
  <2> QED BY <1>1, <2>3 DEF Kept, AtWrite, AtBody, AtChunk, AtEndOfMessage, AtRest
<1>8. CASE ~(BodyOf(script, start) = "limit" /\ rem = 0)
  <2>1. BodyOf(script, start) = "limit" => rpos < start + 1 + LengthOf(script, start)
      BY <1>2, <1>4, <1>5, <1>8
  <2>2. Broken(script, start, rpos, out \o wbuf)
      BY <1>2, <1>4, <2>1, CopiedBroken
  <2>3. Broken(script', start', rpos', out')
      BY <1>1, <1>6, <2>2
  <2>4. Drained'
      BY <1>1, <1>3, <1>8 DEF Drained
  <2> QED BY <1>1, <2>3, <2>4 DEF Kept, AtWrite, AtBody, AtChunk, AtEndOfMessage, AtRest
<1> QED BY <1>7, <1>8

(* A chunk-size line, the last chunk or the end of a chunk is read.        *)
LEMMA KeptChunkLine ==
    ASSUME Setting, BeginChunk \/ EndChunk, sync'
    PROVE  Kept'
<1>1. /\ dir' = dir /\ script' = script /\ pc = "chunk" /\ start' = start
      /\ rpos' = rpos + 1 /\ rpos < pos /\ acc' = acc /\ wbuf' = wbuf /\ out' = out
      /\ pc' \in {"chunk", "trailer"} /\ out' \o wbuf' = out \o wbuf
    BY DEF BeginChunk, EndChunk, Keep, source
<1>2. /\ script \in Seq(Units) /\ rpos \in Nat /\ rpos + 1 <= Len(script)
      /\ Len(script) \in Nat /\ cn \in Nat
    BY <1>1 DEF Setting, Positions, Counters
<1>3. /\ Rechunked(script, start, rpos, out \o wbuf, acc)
      /\ \A k \in (rpos + 1)..(rpos + cn) : k <= Len(script) => script[k].u = "data"
      /\ dir = "request" => wbuf = <<>>
    BY <1>1 DEF Setting, Kept, AtChunk, AtRest
<1>4. script[rpos + 1].u \in {"size", "crlf", "last"}
    BY DEF BeginChunk, EndChunk, Unread
<1>5. Rechunked(script, start, rpos + 1, out \o wbuf, acc)
    BY <1>2, <1>3, <1>4, RechunkedLine
<1>6. ASSUME NEW k \in (rpos' + 1)..(rpos' + cn'), k <= Len(script)
      PROVE  script[k].u = "data"
  <2>1. CASE BeginChunk
    <3>1. cn' = IF script[rpos + 1].u = "size" THEN script[rpos + 1].n ELSE 0
        BY <2>1 DEF BeginChunk, Unread
    <3>2. script[rpos + 1].u = "size"
        BY <1>1, <1>2, <1>6, <3>1
    <3>3. rpos + 1 \in 1..Len(script)
        BY <1>2
    <3>4. \A j \in ((rpos + 1) + 1)..((rpos + 1) + script[rpos + 1].n) :
             j <= Len(script) => script[j].u = "data"
        BY <3>2, <3>3 DEF Setting, Framed
    <3> QED BY <1>1, <1>6, <3>1, <3>2, <3>4
  <2>2. CASE EndChunk
    <3>1. script[rpos + 1].u = "crlf" /\ cn' = cn
        BY <2>2 DEF EndChunk, Unread
    <3>2. ~(rpos + 1 \in (rpos + 1)..(rpos + cn))
        BY <1>2, <1>3, <3>1
    <3>3. cn = 0
        BY <1>2, <3>2
    <3> QED BY <1>1, <1>2, <1>6, <3>1, <3>3
  <2> QED BY <2>1, <2>2
<1>7. AtChunk'
    BY <1>1, <1>5, <1>6 DEF AtChunk
<1> QED BY <1>1, <1>3, <1>7 DEF Kept, AtWrite, AtBody, AtEndOfMessage, AtRest

(* Data of a chunk is read.                                                *)
LEMMA KeptReadChunk ==
    ASSUME Setting, ReadChunk
    PROVE  Kept'
<1>1. /\ dir' = dir /\ script' = script /\ pc = "chunk" /\ pc' = "chunk" /\ start' = start
      /\ rpos < pos /\ cn > 0 /\ wbuf' = wbuf /\ out' = out /\ out' \o wbuf' = out \o wbuf
    BY DEF ReadChunk, Keep, source
<1>2. /\ script \in Seq(Units) /\ rpos \in Nat /\ pos \in Nat /\ pos <= Len(script)
      /\ Len(script) \in Nat /\ cn \in Nat
    BY DEF Setting, Positions, Counters
<1>3. /\ Rechunked(script, start, rpos, out \o wbuf, acc)
      /\ \A k \in (rpos + 1)..(rpos + cn) : k <= Len(script) => script[k].u = "data"
      /\ dir = "request" => wbuf = <<>>
    BY <1>1 DEF Setting, Kept, AtChunk, AtRest
<1> DEFINE n == IF cn > pos - rpos THEN pos - rpos ELSE cn
<1>4. n \in Nat /\ rpos + n <= pos /\ n <= cn
    BY <1>1, <1>2
<1>5. PICK d : d = rpos + n
    OBVIOUS
<1>6. acc' = acc \o SubSeq(script, rpos + 1, d) /\ rpos' = d /\ cn' = cn - n
    BY <1>5 DEF ReadChunk
<1> HIDE DEF n
<1>7. d \in Nat /\ rpos <= d /\ d <= Len(script) /\ d + cn' = rpos + cn
    BY <1>2, <1>4, <1>5, <1>6
<1>8. \A k \in (rpos + 1)..d : script[k].u = "data"
    BY <1>2, <1>3, <1>4, <1>5, <1>7
<1>9. Rechunked(script, start, d, out \o wbuf, acc \o SubSeq(script, rpos + 1, d))
    BY <1>2, <1>3, <1>7, <1>8, RechunkedData
<1>10. Rechunked(script', start', rpos', out' \o wbuf', acc')
    BY <1>1, <1>6, <1>9
<1>11. \A k \in (d + 1)..(d + cn') : k <= Len(script) => script[k].u = "data"
    BY <1>2, <1>3, <1>7
<1>12. AtChunk'
    BY <1>1, <1>6, <1>10, <1>11 DEF AtChunk
<1> QED BY <1>1, <1>3, <1>12 DEF Kept, AtWrite, AtBody, AtEndOfMessage, AtRest

(* What was collected is written as a chunk.                               *)
LEMMA KeptReturnChunk ==
    ASSUME Setting, ReturnChunk
    PROVE  Kept'
<1>1. /\ dir' = dir /\ script' = script /\ pc = "chunk" /\ pc' = "chunk" /\ start' = start
      /\ rpos' = rpos /\ cn' = cn /\ acc' = <<>>
    BY DEF ReturnChunk, Keep, source, Setting
<1>2. out \in Seq(Units) /\ wbuf \in Seq(Units) /\ acc \in Seq(Units)
    BY DEF Setting, Contents
<1>3. /\ Rechunked(script, start, rpos, out \o wbuf, acc)
      /\ \A k \in (rpos + 1)..(rpos + cn) : k <= Len(script) => script[k].u = "data"
      /\ dir = "request" => wbuf = <<>>
    BY <1>1 DEF Setting, Kept, AtChunk, AtRest
<1>4. PICK t : t = ChunkOf(acc)
    OBVIOUS
<1>5. t \in Seq(Units)
    BY <1>2, <1>4, ChunkType
<1>6. IF dir = "request" THEN Send(t) /\ wbuf' = wbuf ELSE wbuf' = wbuf \o t /\ out' = out
    BY <1>4 DEF ReturnChunk
<1>7. out' \o wbuf' = (out \o wbuf) \o t
  <2>1. CASE dir = "request"
    <3>1. out' = (out \o wbuf) \o t /\ out \o wbuf \in Seq(Units)
        BY <1>5, <1>6, <2>1, Sent
    <3>2. out' \in Seq(Units)
        BY <1>5, <3>1
    <3> QED BY <1>3, <1>6, <2>1, <3>1, <3>2, ConcatEmptySeq
  <2>2. CASE dir # "request"
    <3>1. (out \o wbuf) \o t = out \o (wbuf \o t)
        BY <1>2, <1>5, ConcatAssociative
    <3> QED BY <1>6, <2>2, <3>1
  <2> QED BY <2>1, <2>2
<1>8. PICK b : b = <<>>
    OBVIOUS
<1>9. Rechunked(script, start, rpos, (out \o wbuf) \o ChunkOf(acc), b)
    BY <1>3, <1>8, RechunkedReturn
<1>10. Rechunked(script', start', rpos', out' \o wbuf', acc')
    BY <1>1, <1>4, <1>7, <1>8, <1>9
<1>11. AtChunk'
    BY <1>1, <1>3, <1>10 DEF AtChunk
<1>12. dir' = "request" => wbuf' = <<>>
    BY <1>1, <1>3, <1>6
<1> QED BY <1>1, <1>11, <1>12 DEF Kept, AtWrite, AtBody, AtEndOfMessage, AtRest

(* The stream ends inside the body.                                        *)
LEMMA KeptChunksBreakOff ==
    ASSUME Setting, ChunksBreakOff
    PROVE  Kept'
<1>1. /\ script' = script /\ pc \in {"chunk", "trailer"} /\ pc' = "after" /\ start' = start
      /\ rpos' = rpos /\ wbuf' = <<>> /\ pos' = pos /\ fin' = fin /\ closed' = closed
      /\ Drained /\ Send(ChunkOf(acc))
    BY DEF ChunksBreakOff, Keep, source
<1>2. Rechunked(script, start, rpos, out \o wbuf, acc)
    BY <1>1 DEF Setting, Kept, AtChunk
<1>3. PICK b : b = <<>>
    OBVIOUS
<1>4. Rechunked(script, start, rpos, (out \o wbuf) \o ChunkOf(acc), b)
    BY <1>2, <1>3, RechunkedReturn
<1>5. Broken(script, start, rpos, (out \o wbuf) \o ChunkOf(acc))
    BY <1>4, RechunkedBroken
<1>6. out' = (out \o wbuf) \o ChunkOf(acc)
    BY <1>1, ChunkType, Sent DEF Setting, Contents
<1>7. Broken(script', start', rpos', out')
    BY <1>1, <1>5, <1>6
<1>8. Drained'
    BY <1>1 DEF Drained
<1> QED BY <1>1, <1>7, <1>8 DEF Kept, AtWrite, AtBody, AtChunk, AtEndOfMessage, AtRest

(* The end of the body is read and written.                                *)
LEMMA KeptReadTrailer ==
    ASSUME Setting, ReadTrailer, sync'
    PROVE  Kept'
<1> DEFINE y == Unit("last")
           z == IF msg.trailer /\ Unread.u = "trailer" THEN Unread ELSE Unit("end")
<1>1. /\ script' = script /\ pc = "trailer" /\ pc' = "after" /\ start' = start
      /\ rpos' = rpos + 1 /\ wbuf' = <<>> /\ rpos < pos
      /\ script[rpos + 1].u \in {"trailer", "end"} /\ Send(ChunkOf(acc) \o <<y, z>>)
    BY DEF ReadTrailer, Keep, source, Unread
<1>2. /\ script \in Seq(Units) /\ rpos \in Nat /\ rpos + 1 <= Len(script)
      /\ acc \in Seq(Units) /\ out \in Seq(Units) /\ wbuf \in Seq(Units)
    BY <1>1 DEF Setting, Positions, Contents
<1>3. msg.trailer = script[start + 1].h.trailer
    BY <1>1, MessageInHand DEF Handling
<1>4. y \in Units /\ y.u = "last" /\ z \in Units /\ z.u \in Closing
  <2>1. script[rpos + 1] \in Units /\ Unit("end") \in Units /\ Unit("end").u = "end"
      BY <1>2, UnitTypes DEF Unit
  <2>2. y \in Units /\ y.u = "last"
      BY UnitTypes DEF Unit
  <2> QED BY <1>1, <2>1, <2>2 DEF Closing, Unread
<1>5. script[start + 1].h.trailer => z = script[rpos + 1]
  <2>1. script[rpos + 1] \in Units
      BY <1>2
  <2>2. script[rpos + 1].u = "end" => script[rpos + 1] = Unit("end")
      BY <2>1 DEF Units, Unit
  <2> QED BY <1>1, <1>3, <2>2 DEF Unread
<1> HIDE DEF y, z
<1>6. Rechunked(script, start, rpos, out \o wbuf, acc)
    BY <1>1 DEF Setting, Kept, AtChunk
<1>7. PICK b : b = <<>>
    OBVIOUS
<1>8. PICK q : q = (out \o wbuf) \o ChunkOf(acc)
    OBVIOUS
<1>9. Rechunked(script, start, rpos, q, b)
    BY <1>6, <1>7, <1>8, RechunkedReturn
<1>10. Relayed(script, rpos + 1, q \o <<y, z>>)
  <2>1. Len(b) = 0 /\ script[rpos + 1].u \in Closing
      BY <1>1, <1>7 DEF Closing
  <2> QED BY <1>2, <1>4, <1>5, <1>9, <2>1, ChunkedEnds
<1>11. out' = q \o <<y, z>>
  <2>1. PICK s, t : s = ChunkOf(acc) /\ t = <<y, z>>
      OBVIOUS
  <2>2. s \in Seq(Units) /\ t \in Seq(Units)
      BY <1>2, <1>4, <2>1, ChunkType
  <2>3. s \o t \in Seq(Units) /\ Send(s \o t)
      BY <1>1, <2>1, <2>2
  <2>4. out' = (out \o wbuf) \o (s \o t) /\ out \o wbuf \in Seq(Units)
      BY <2>3, Sent
  <2>5. ((out \o wbuf) \o s) \o t = (out \o wbuf) \o (s \o t)
      BY <2>2, <2>4, ConcatAssociative
  <2> QED BY <1>8, <2>1, <2>4, <2>5
<1>12. Relayed(script', rpos', out')
    BY <1>1, <1>10, <1>11
<1> QED BY <1>1, <1>12 DEF Kept, AtWrite, AtBody, AtChunk, AtEndOfMessage, AtRest

(* For every well framed stream, as long as the receiver is there and the  *)
(* chunks are well formed.                                                 *)
Keeping == wOK /\ sync /\ Framed(dir, script) => Kept

(* It holds before anything is read.                                       *)
LEMMA KeepingInit == RelayInit => Keeping
<1> SUFFICES ASSUME RelayInit PROVE Kept
    BY DEF Keeping
<1>1. pc = "read" /\ rpos = 0 /\ out = <<>> /\ wbuf = <<>> /\ cn = 0
    BY DEF RelayInit
<1>2. Relayed(script, rpos, out)
    BY <1>1, RelayedNothing
<1> QED BY <1>1, <1>2 DEF Kept, AtWrite, AtBody, AtChunk, AtEndOfMessage, AtRest

(* A receiver that is gone does not come back.                             *)
LEMMA GoneForGood == [RelayNext]_rvars /\ wOK' => wOK /\ ~ReceiverGone
BY RelaySteps DEF Fill, ReadMessage, ReadFails, ReadEnds, Replay, Tunnel, TunnelEnds,
   WriteHead, CopyBody, BodyEnds, BufferFull, BeginChunk, ReadChunk, EndChunk,
   ReturnChunk, ChunksBreakOff, ReadTrailer, Malformed, ChunksFail, NextMessage,
   SenderCloses, ReceiverGone, Keep, rvars

(* A stream that was malformed stays so.                                   *)
LEMMA MalformedForGood == [RelayNext]_rvars /\ sync' => sync /\ ~Malformed
<1> SUFFICES ASSUME [RelayNext]_rvars, sync' PROVE sync /\ ~Malformed
    OBVIOUS
<1>1. ~Malformed
    BY DEF Malformed, ChunksFail
<1>2. CASE BeginChunk \/ EndChunk \/ ReadTrailer
    BY <1>1, <1>2 DEF BeginChunk, EndChunk, ReadTrailer
<1>3. CASE \/ ReadChunk \/ ReturnChunk \/ ChunksBreakOff \/ NextMessage
    BY <1>1, <1>3 DEF ReadChunk, ReturnChunk, ChunksBreakOff, NextMessage
<1>4. CASE \/ Fill \/ ReadMessage \/ ReadFails \/ ReadEnds \/ Replay \/ Tunnel
           \/ TunnelEnds \/ WriteHead \/ CopyBody \/ BodyEnds \/ BufferFull
           \/ SenderCloses \/ ReceiverGone \/ UNCHANGED rvars
  <2>1. UNCHANGED chunk
      BY <1>4 DEF Fill, ReadMessage, ReadFails, ReadEnds, Replay, Tunnel, TunnelEnds,
         WriteHead, CopyBody, BodyEnds, BufferFull, SenderCloses, ReceiverGone, rvars
  <2> QED BY <1>1, <2>1 DEF chunk
<1> QED BY <1>1, <1>2, <1>3, <1>4, RelaySteps

(* Every step keeps it.                                                    *)
LEMMA KeepingStep == RelayInv /\ Keeping /\ [RelayNext]_rvars => Keeping'
<1> SUFFICES ASSUME RelayInv, Keeping, [RelayNext]_rvars, wOK', sync',
                    Framed(dir', script')
             PROVE  Kept'
    BY DEF Keeping
<1>1. wOK /\ ~ReceiverGone /\ sync /\ ~Malformed
    BY GoneForGood, MalformedForGood
<1>2. dir' = dir /\ script' = script
    BY SourceKept DEF source
<1>3. Framed(dir, script)
    BY <1>2
<1>4. Setting
    BY <1>1, <1>3, TypeParts DEF Setting, Keeping, RelayInv
<1> QED BY <1>1, <1>4, RelaySteps, KeptInput, KeptReadMessage, KeptFallback, KeptWriteHead,
           KeptCopyBody, KeptBodyEnds, KeptBufferFull, KeptChunkLine, KeptReadChunk,
           KeptReturnChunk, KeptChunksBreakOff, KeptReadTrailer, KeptNextMessage

(* Then the receiver has the messages that were taken in.                  *)
LEMMA KeptSame ==
    ASSUME RelayInv, Keeping
    PROVE  SameMessages
<1> SUFFICES ASSUME pc = "read", wOK, sync, Framed(dir, script)
             PROVE  /\ Messages(out, PeerEnds) = Messages(SubSeq(script, 1, rpos), PeerEnds)
                    /\ rpos \in Boundaries(script, fin) \/ Drained
    BY DEF SameMessages, Taken
<1>1. script \in Seq(Units) /\ out \in Seq(Units) /\ rpos \in 0..Len(script)
    BY TypeParts DEF RelayInv, Positions, Contents
<1>2. PICK e : e = PeerEnds
    OBVIOUS
<1>3. CASE Relayed(script, rpos, out)
  <2>1. rpos \in Boundaries(script, fin)
      BY <1>1, <1>3, RelayedBoundary
  <2>2. Messages(out, e) = Messages(SubSeq(script, 1, rpos), e)
      BY <1>1, <1>3, CompleteSame
  <2> QED BY <1>2, <2>1, <2>2
<1>4. CASE Drained /\ Broken(script, start, rpos, out)
  <2>1. Messages(out, e) = Messages(SubSeq(script, 1, rpos), e)
      BY <1>1, <1>4, BrokenSame
  <2> QED BY <1>2, <1>4, <2>1
<1> QED BY <1>3, <1>4 DEF Keeping, Kept, AtEndOfMessage

(* "write the same request to writer" (http.go:218), "write the same       *)
(* response to w" (http.go:295): for every well framed stream, however it  *)
(* is cut into reads and wherever it breaks off, and until a chunk or a    *)
(* trailer is malformed, the receiver finds the messages that a receiver   *)
(* of the original stream would have found, in direct and in routing mode. *)
THEOREM MessagesKept == RelaySpec => []SameMessages
<1>1. RelayInit => Keeping
    BY KeepingInit
<1>2. RelayInv /\ Keeping /\ [RelayNext]_rvars => Keeping'
    BY KeepingStep
<1>3. RelayInv /\ Keeping => SameMessages
    BY KeptSame
<1> QED BY <1>1, <1>2, <1>3, RelayInvariance, PTL DEF RelaySpec
=============================================================================
