---------------------------- MODULE ContextProofs ----------------------------
(***************************************************************************)
(* The request ids do their work, for any number of requests, connections  *)
(* and ids and any expiration: an outbound request joins the trace of the  *)
(* inbound request it is made for and follows its route, as long as the    *)
(* caches remember it (ContextPropagation).                                *)
(***************************************************************************)
EXTENDS ContextPropagation, SequenceTheorems, WellFoundedInduction, TLAPS

Started == {"started", "sent"}

(* Nobody sends an id that netra makes up for an outbound request.         *)
OwnIds == \A i \in DOMAIN in : in[i].rid \in Rids \union ({"uuid"} \X Nat)

(* What is not set before the span of a request is started.                *)
Untouched ==
    /\ \A i \in DOMAIN in :
          /\ in[i].st = "read" => in[i].stored = 0
          /\ in[i].st \notin Started => in[i].started = 0 /\ in[i].front = 0
    /\ \A o \in DOMAIN out : out[o].st = "routed" => out[o].front = 0

(* Outbound requests are made for inbound ones that the application has.   *)
Caused ==
    \A o \in DOMAIN out :
        /\ in[out[o].cause].st = "sent"
        /\ out[o].req.passes => out[o].rid = in[out[o].cause].rid

(* A request in front of its queue starts its span from its own header.    *)
OwnTrace ==
    \A i \in DOMAIN in :
        in[i].st \in Started /\ in[i].front = i /\ in[i].req.wire # None
            => in[i].trace = in[i].req.wire

(* The context of a request whose id nobody else uses is in the cache, as  *)
(* old as its span, until it expires.                                      *)
TraceKept ==
    \A i \in DOMAIN in :
        /\ in[i].st \in Started /\ UniqueRid(i) /\ InFront(in, i)
        /\ in[i].started <= Expiration
        => tracing[in[i].rid] = [val |-> [trace |-> in[i].trace, span |-> i],
                                 left |-> Expiration - in[i].started]

(* The cache has nothing for an id nobody has sent.                        *)
NoRoute ==
    \A r \in AllRids :
        (\A k \in DOMAIN in : in[k].rid # r) => routes[r] = NoEntry

(* The routing value of a request whose id nobody else uses is in the      *)
(* cache, if it was acceptable, until it expires; and no other is.         *)
Remembered(i) ==
    /\ Asked(in[i].req) # None /\ Acceptable(Asked(in[i].req), in[i].req.host)
    /\ in[i].stored <= Expiration

RouteKept ==
    \A i \in DOMAIN in :
        UniqueRid(i) =>
          /\ in[i].st = "read" =>
                in[i].value = Asked(in[i].req) /\ routes[in[i].rid] = NoEntry
          /\ in[i].st # "read" /\ Remembered(i) =>
                routes[in[i].rid] = [val |-> Asked(in[i].req),
                                     left |-> Expiration - in[i].stored]
          /\ in[i].st # "read" /\ ~Remembered(i) => Get(routes, in[i].rid) = None

ContextInv ==
    /\ ContextTypeOK /\ OwnIds /\ Untouched /\ Caused /\ OwnTrace /\ TraceKept
    /\ NoRoute /\ RouteKept /\ TraceContinued /\ RouteFollows

-----------------------------------------------------------------------------
(* A set of numbers that is not empty has a least one, and the choice of a *)
(* least one finds it.                                                     *)
LEMMA Least ==
    ASSUME NEW S \in SUBSET Nat, S # {}
    PROVE  /\ (CHOOSE k \in S : \A j \in S : k <= j) \in S
           /\ \A j \in S : (CHOOSE k \in S : \A i \in S : k <= i) <= j
<1> DEFINE R == {p \in Nat \X Nat : p[1] < p[2]}
<1>1. IsWellFoundedOn(R, Nat)
    BY NatLessThanWellFounded, Zenon DEF OpToRel
<1> HIDE DEF R
<1>2. PICK x \in S : \A y \in S : ~(<<y, x>> \in R)
    BY <1>1, WFMin
<1>3. \A k, j \in Nat : k < j => <<k, j>> \in R
    BY DEF R
<1>4. ASSUME NEW y \in S PROVE x <= y
  <2>1. x \in Nat /\ y \in Nat /\ ~(<<y, x>> \in R)
      BY <1>2
  <2>2. ~(y < x)
      BY <1>3, <2>1
  <2> QED BY <2>1, <2>2
<1> QED BY <1>4

(* The loop of getRoutingDestination finds the destination of the          *)
(* reference and fails exactly on the values that are not acceptable.      *)
THEOREM DestinationFound ==
    ASSUME NEW value \in Values, NEW host
    PROVE  LET dest == getRoutingDestination(value, host) IN
           /\ ~dest.err => dest.addr = Destination(value, host)
           /\ dest.err => Destination(value, host) = None
           /\ dest.err <=> ~Acceptable(value, host)
           /\ Destination(value, host) \in {None} \union Names
<1> DEFINE Stops(k) == \/ Len(value[k]) < 2
                       \/ value[k][1] # value[k][2] /\ host = value[k][1]
           Uses(k) == /\ \A j \in 1..k : Len(value[j]) >= 2
                      /\ value[k][1] = host /\ value[k][2] # host
           stops == {k \in DOMAIN value : Stops(k)}
           use == {k \in DOMAIN value : Uses(k)}
           s == CHOOSE k \in stops : \A j \in stops : k <= j
           u == CHOOSE k \in use : \A j \in use : k <= j
           dest == getRoutingDestination(value, host)
<1>1. /\ DOMAIN value = 1..Len(value) /\ Len(value) \in Nat
      /\ \A k \in DOMAIN value : value[k] \in Seq(Names) /\ Len(value[k]) \in Nat
    BY DEF Values
<1>2. stops \in SUBSET Nat /\ use \in SUBSET Nat /\ use \subseteq stops
    BY <1>1
<1> HIDE DEF Stops, Uses
<1>3. stops # {} => s \in stops /\ \A j \in stops : s <= j
    BY <1>2, Least
<1>4. use # {} => u \in use /\ \A j \in use : u <= j
    BY <1>2, Least
<1>5. dest = IF stops = {} THEN [err |-> FALSE, addr |-> None]
             ELSE IF Len(value[s]) < 2 THEN [err |-> TRUE, addr |-> None]
             ELSE [err |-> FALSE,
                   addr |-> IF value[s][2].port = 0 THEN [value[s][2] EXCEPT !.port = 80]
                            ELSE value[s][2]]
    BY DEF getRoutingDestination, Stops
<1>6. Destination(value, host) =
          IF use = {} THEN None
          ELSE [value[u][2] EXCEPT !.port = IF value[u][2].port = 0 THEN 80
                                            ELSE value[u][2].port]
    BY DEF Destination, Uses
<1> HIDE DEF stops, use, s, u, dest
<1>7. CASE stops = {}
  <2>1. use = {} /\ \A k \in DOMAIN value : Len(value[k]) >= 2
      BY <1>1, <1>2, <1>7 DEF stops, Stops
  <2> QED BY <1>5, <1>6, <1>7, <2>1 DEF Acceptable, dest
<1>8. CASE stops # {} /\ Len(value[s]) < 2
  <2>1. s \in DOMAIN value /\ s \in Nat
      BY <1>2, <1>3, <1>8 DEF stops
  <2>2. use = {}
    <3> SUFFICES ASSUME NEW k \in use PROVE FALSE
        OBVIOUS
    <3>1. k \in DOMAIN value /\ Uses(k) /\ s <= k /\ k \in Nat
        BY <1>2, <1>3, <1>8 DEF use
    <3>2. s \in 1..k
        BY <1>1, <2>1, <3>1
    <3> QED BY <1>1, <1>8, <2>1, <3>1, <3>2 DEF Uses
  <2>3. dest.err /\ Destination(value, host) = None
      BY <1>5, <1>6, <1>8, <2>2
  <2>4. ~(\A k \in DOMAIN value : Len(value[k]) >= 2)
      BY <1>1, <1>8, <2>1
  <2> QED BY <2>3, <2>4 DEF Acceptable, dest
<1>9. CASE stops # {} /\ ~(Len(value[s]) < 2)
  <2>1. s \in DOMAIN value /\ s \in Nat /\ Stops(s)
      BY <1>2, <1>3, <1>9 DEF stops
  <2>2. Len(value[s]) >= 2 /\ value[s][1] = host /\ value[s][2] # host
      BY <1>1, <1>9, <2>1 DEF Stops
  <2>3. \A j \in 1..s : Len(value[j]) >= 2
    <3> SUFFICES ASSUME NEW j \in 1..s, ~(Len(value[j]) >= 2) PROVE FALSE
        OBVIOUS
    <3>1. j \in DOMAIN value /\ j \in Nat /\ j <= s
        BY <1>1, <2>1
    <3>2. j \in stops
        BY <1>1, <3>1 DEF stops, Stops
    <3>3. j = s
        BY <1>3, <1>9, <2>1, <3>1, <3>2
    <3> QED BY <2>2, <3>3
  <2>4. s \in use
      BY <2>1, <2>2, <2>3 DEF use, Uses
  <2>5. u = s
    <3>1. u \in use /\ u <= s /\ u \in stops /\ u \in Nat
        BY <1>2, <1>4, <2>4
    <3>2. s <= u
        BY <1>3, <3>1
    <3> QED BY <2>1, <3>1, <3>2
  <2>6. value[s] \in Seq(Names) /\ 2 \in 1..Len(value[s])
      BY <1>1, <2>1, <2>2
  <2>7. value[s][2] \in Names
      BY <2>6, ElementOfSeq
  <2>8. /\ dest.err = FALSE
        /\ dest.addr = IF value[s][2].port = 0 THEN [value[s][2] EXCEPT !.port = 80]
                       ELSE value[s][2]
      BY <1>5, <1>9
  <2>9. dest.addr = Destination(value, host) /\ Destination(value, host) \in Names
    <3>1. PICK t \in Names : t = value[s][2]
        BY <2>7
    <3>2. Destination(value, host) = [t EXCEPT !.port = IF t.port = 0 THEN 80 ELSE t.port]
        BY <1>6, <2>4, <2>5, <3>1
    <3>3. [t EXCEPT !.port = IF t.port = 0 THEN 80 ELSE t.port] =
             IF t.port = 0 THEN [t EXCEPT !.port = 80] ELSE t
        BY DEF Names
    <3>4. [t EXCEPT !.port = IF t.port = 0 THEN 80 ELSE t.port] \in Names
        BY DEF Names
    <3> QED BY <2>8, <3>1, <3>2, <3>3, <3>4
  <2>10. \A t \in Names : t # None
      BY DEF Names, None
  <2> QED BY <2>8, <2>9, <2>10 DEF Acceptable, dest
<1> QED BY <1>7, <1>8, <1>9

-----------------------------------------------------------------------------
(* One element of a sequence is replaced.                                  *)
LEMMA Put ==
    ASSUME NEW S, NEW s \in Seq(S), NEW i \in DOMAIN s, NEW x \in S, NEW t,
           t = [s EXCEPT ![i] = x]
    PROVE  /\ t \in Seq(S) /\ Len(t) = Len(s) /\ DOMAIN t = DOMAIN s
           /\ t[i] = x /\ \A k \in DOMAIN s : k # i => t[k] = s[k]
<1>1. DOMAIN s = 1..Len(s)
    BY LenProperties
<1> QED BY <1>1, ExceptSeq

(* All elements of a sequence are replaced.                                *)
LEMMA PutAll ==
    ASSUME NEW S, NEW s \in Seq(S), NEW t, DOMAIN t = DOMAIN s,
           t = [k \in DOMAIN s |-> t[k]], \A k \in DOMAIN s : t[k] \in S
    PROVE  t \in Seq(S) /\ Len(t) = Len(s)
<1>1. DOMAIN s = 1..Len(s) /\ Len(s) \in Nat
    BY LenProperties
<1> QED BY <1>1

(* One element is appended to a sequence.                                  *)
LEMMA Added ==
    ASSUME NEW S, NEW s \in Seq(S), NEW x \in S, NEW t, t = Append(s, x)
    PROVE  /\ t \in Seq(S) /\ Len(t) = Len(s) + 1 /\ Len(t) \in Nat
           /\ Len(t) \notin DOMAIN s /\ Len(t) # 0
           /\ DOMAIN t = DOMAIN s \union {Len(t)}
           /\ t[Len(t)] = x /\ \A k \in DOMAIN s : t[k] = s[k]
<1>1. DOMAIN s = 1..Len(s) /\ Len(s) \in Nat
    BY LenProperties
<1>2. t \in Seq(S) /\ Len(t) = Len(s) + 1 /\ DOMAIN t = 1..(Len(s) + 1)
    BY AppendProperties, LenProperties
<1>3. t[Len(s) + 1] = x /\ \A k \in 1..Len(s) : t[k] = s[k]
    BY AppendProperties
<1> QED BY <1>1, <1>2, <1>3

(* The elements of the two sequences of requests.                          *)
LEMMA RequestTypes ==
    ASSUME ContextTypeOK
    PROVE  /\ \A k \in DOMAIN in : in[k] \in Inbounds /\ k \in Nat \ {0}
           /\ \A k \in DOMAIN out : out[k] \in Outbounds /\ k \in Nat \ {0}
<1>1. in \in Seq(Inbounds) /\ out \in Seq(Outbounds)
    BY DEF ContextTypeOK
<1> QED BY <1>1, LenProperties, ElementOfSeq

(* The fields of requests of either kind.                                  *)
LEMMA KindTypes ==
    /\ \A k \in InKinds : /\ k.rid \in Rids \union {None}
                          /\ k.cookie \in Values /\ k.header \in Values
                          /\ k.cookie \in Brought /\ k.header \in Brought
                          /\ k.wire \in Traces
    /\ \A k \in OutKinds : /\ k.cookie \in Values /\ k.header \in Values
                           /\ k.passes \in BOOLEAN /\ k.own \in BOOLEAN
    /\ Brought \subseteq Values /\ None \in Values
<1>1. InKinds \subseteq InRequests /\ OutKinds \subseteq OutRequests
    BY KindsAssumption
<1>2. \A k \in InKinds : k.rid \in Rids \union {None} /\ k.cookie \in Values /\ k.header \in Values
    BY <1>1 DEF InRequests
<1>3. \A k \in OutKinds : /\ k.cookie \in Values /\ k.header \in Values
                          /\ k.passes \in BOOLEAN /\ k.own \in BOOLEAN
    BY <1>1 DEF OutRequests
<1>4. None \in Values
    BY DEF None, Values
<1> QED BY <1>2, <1>3, <1>4 DEF Brought, Traces

(* A made-up id is one of the ids.                                         *)
LEMMA MadeUp ==
    /\ \A m, n \in Nat : m > 0 /\ Within(m, n) => <<"uuid", m>> \in AllRids
    /\ \A m, n \in Nat : n > 0 /\ Within(m, n) => <<"uuid_out", n>> \in AllRids
<1> SUFFICES ASSUME NEW m \in Nat, NEW n \in Nat, Within(m, n)
             PROVE  /\ m > 0 => <<"uuid", m>> \in AllRids
                    /\ n > 0 => <<"uuid_out", n>> \in AllRids
    OBVIOUS
<1>1. PICK bound \in Bounds : m <= bound[1] /\ n <= bound[2]
    BY DEF Within
<1>2. bound[1] \in Nat /\ bound[2] \in Nat
    BY BoundsAssumption
<1>3. m > 0 => m \in 1..bound[1]
    BY <1>1, <1>2
<1>4. n > 0 => n \in 1..bound[2]
    BY <1>1, <1>2
<1> QED BY <1>3, <1>4 DEF AllRids

(* A request's routing value is what it asks for, or what is remembered.   *)
LEMMA RoutingValueIs ==
    ASSUME NEW req, NEW r
    PROVE  RoutingValue(req, r) = IF Asked(req) # None THEN Asked(req) ELSE Get(routes, r)
BY DEF RoutingValue, Asked

(* What is found in the caches.                                            *)
LEMMA GetType ==
    ASSUME ContextTypeOK, NEW r \in AllRids
    PROVE  /\ Get(routes, r) \in {None} \union Brought
           /\ Get(tracing, r) \in {None} \union Contexts
           /\ routes[r] \in Entries(Brought) /\ tracing[r] \in Entries(Contexts)
<1>1. routes[r] \in Entries(Brought) /\ tracing[r] \in Entries(Contexts)
    BY DEF ContextTypeOK
<1> QED BY <1>1 DEF Get, Entries

(* What an inbound request is after any step: its identity stays, and once *)
(* its span is started so do its trace and its place in the queue.         *)
InKeeps ==
    /\ in' \in Seq(Inbounds) /\ DOMAIN in \subseteq DOMAIN in'
    /\ \A k \in DOMAIN in :
          /\ in'[k].req = in[k].req /\ in'[k].rid = in[k].rid /\ in'[k].value = in[k].value
          /\ in[k].st \in Started =>
                /\ in'[k].st \in Started
                /\ in'[k].trace = in[k].trace /\ in'[k].front = in[k].front
          /\ in[k].st = "sent" => in'[k].st = "sent"
          /\ in[k].st # "read" => in'[k].st # "read"
          /\ Tick \/ (in'[k].stored = in[k].stored /\ in'[k].started = in[k].started)

(* A new inbound request n.                                                *)
NewIn(n, req) ==
    /\ n \notin DOMAIN in /\ DOMAIN in' = DOMAIN in \union {n}
    /\ in'[n].st = "read" /\ in'[n].req = req /\ in'[n].rid \in AllRids
    /\ in'[n].rid \in Rids \union ({"uuid"} \X Nat)
    /\ in'[n].value = RoutingValue(req, in'[n].rid)
    /\ in'[n].stored = 0 /\ in'[n].started = 0 /\ in'[n].front = 0

(* A new inbound request is added and the others stay.                     *)
LEMMA ReadInboundIn ==
    ASSUME ContextTypeOK, NEW c \in InConns, NEW req \in InKinds, ReadInbound(c, req)
    PROVE  /\ InKeeps
           /\ \E n \in Nat \ {0} : NewIn(n, req)
           /\ \A k \in DOMAIN in : in'[k] = in[k]
<1> DEFINE i == Len(in) + 1
           rid == IF req.rid = None THEN <<"uuid", i>> ELSE req.rid
           x == [req |-> req, conn |-> c, rid |-> rid,
                 value |-> RoutingValue(req, rid), st |-> "read",
                 trace |-> None, front |-> 0, stored |-> 0, started |-> 0]
<1>1. in \in Seq(Inbounds) /\ i \in Nat /\ i > 0 /\ Len(out) \in Nat
    BY LenProperties DEF ContextTypeOK
<1>2. rid \in AllRids
  <2>1. <<"uuid", i>> \in AllRids
      BY <1>1, MadeUp DEF ReadInbound
  <2>2. req.rid # None => req.rid \in AllRids
      BY KindTypes DEF AllRids
  <2> QED BY <2>1, <2>2
<1>3. in' = Append(in, x)
    BY DEF ReadInbound
<1>0. rid \in Rids \union ({"uuid"} \X Nat)
    BY <1>1, KindTypes
<1> HIDE DEF i, rid
<1>4. RoutingValue(req, rid) \in {None} \union Brought
    BY <1>2, GetType, KindTypes DEF RoutingValue
<1>5. x \in Inbounds
    BY <1>2, <1>4, ExpirationAssumption DEF Inbounds, Traces
<1>6. /\ x.st = "read" /\ x.req = req /\ x.rid = rid /\ x.value = RoutingValue(req, rid)
      /\ x.stored = 0 /\ x.started = 0 /\ x.front = 0
    OBVIOUS
<1> HIDE DEF x
<1>7. PICK n \in Nat \ {0} :
         /\ n \notin DOMAIN in /\ DOMAIN in' = DOMAIN in \union {n} /\ in'[n] = x
    BY <1>1, <1>3, <1>5, Added
<1>8. in' \in Seq(Inbounds) /\ \A k \in DOMAIN in : in'[k] = in[k]
    BY <1>1, <1>3, <1>5, Added
<1>9. NewIn(n, req)
    BY <1>0, <1>2, <1>6, <1>7 DEF NewIn
<1>10. InKeeps
    BY <1>7, <1>8 DEF InKeeps
<1> QED BY <1>8, <1>9, <1>10

(* The steps of an inbound request after it is read.                       *)
LEMMA AdvanceIn ==
    ASSUME ContextTypeOK, NEW i \in DOMAIN in
    PROVE  /\ StoreRoute(i) => /\ InKeeps /\ DOMAIN in' = DOMAIN in
                               /\ in'[i] = [in[i] EXCEPT !.st = "routed"]
                               /\ \A k \in DOMAIN in : k # i => in'[k] = in[k]
           /\ WriteInbound(i) => /\ InKeeps /\ DOMAIN in' = DOMAIN in
                                 /\ in'[i] = [in[i] EXCEPT !.st = "sent"]
                                 /\ \A k \in DOMAIN in : k # i => in'[k] = in[k]
<1>1. in \in Seq(Inbounds) /\ in[i] \in Inbounds
    BY RequestTypes DEF ContextTypeOK
<1>2. ASSUME NEW s \in {"routed", "sent"}, in' = [in EXCEPT ![i].st = s],
             in[i].st = "read" \/ (in[i].st = "started" /\ s = "sent")
      PROVE  /\ InKeeps /\ DOMAIN in' = DOMAIN in
             /\ in'[i] = [in[i] EXCEPT !.st = s]
             /\ \A k \in DOMAIN in : k # i => in'[k] = in[k]
  <2> DEFINE x == [in[i] EXCEPT !.st = s]
  <2>1. x \in Inbounds
      BY <1>1 DEF Inbounds
  <2>2. /\ x.req = in[i].req /\ x.rid = in[i].rid /\ x.value = in[i].value /\ x.st = s
        /\ x.trace = in[i].trace /\ x.front = in[i].front
        /\ x.stored = in[i].stored /\ x.started = in[i].started
      BY <1>1 DEF Inbounds
  <2>3. in' = [in EXCEPT ![i] = x]
      BY <1>2
  <2> HIDE DEF x
  <2>4. /\ in' \in Seq(Inbounds) /\ DOMAIN in' = DOMAIN in
        /\ in'[i] = x /\ \A k \in DOMAIN in : k # i => in'[k] = in[k]
      BY <1>1, <2>1, <2>3, Put
  <2>5. InKeeps
      BY <1>2, <2>2, <2>4 DEF InKeeps, Started
  <2> QED BY <2>4, <2>5 DEF x
<1>3. CASE StoreRoute(i)
    BY <1>2, <1>3 DEF StoreRoute, WriteInbound
<1>4. CASE WriteInbound(i)
    BY <1>2, <1>4 DEF WriteInbound, StoreRoute
<1> QED BY <1>3, <1>4

(* The queue of a connection with one more request: what is in front.      *)
LEMMA FrontType ==
    ASSUME ContextTypeOK
    PROVE  /\ \A i \in DOMAIN in :
                /\ Append(queue[in[i].conn], i) \in Seq(DOMAIN in)
                /\ Head(Append(queue[in[i].conn], i)) \in DOMAIN in
           /\ \A o \in DOMAIN out :
                /\ Append(queue[out[o].conn], o) \in Seq(DOMAIN out)
                /\ Head(Append(queue[out[o].conn], o)) \in DOMAIN out
<1>1. ASSUME NEW S, NEW q \in Seq(S), NEW x \in S
      PROVE  Append(q, x) \in Seq(S) /\ Head(Append(q, x)) \in S
  <2>1. Append(q, x) \in Seq(S) /\ Len(Append(q, x)) = Len(q) + 1
      BY AppendProperties
  <2>2. Len(Append(q, x)) > 0
      BY <2>1, LenProperties
  <2>3. Append(q, x) # <<>>
      BY <2>2
  <2> QED BY <2>1, <2>3, HeadTailProperties
<1>2. ASSUME NEW i \in DOMAIN in PROVE queue[in[i].conn] \in Seq(DOMAIN in)
    BY RequestTypes DEF Inbounds, ContextTypeOK
<1>3. ASSUME NEW o \in DOMAIN out PROVE queue[out[o].conn] \in Seq(DOMAIN out)
    BY RequestTypes DEF Outbounds, ContextTypeOK
<1> QED BY <1>1, <1>2, <1>3

(* The trace of the span that is started for request i.                    *)
TraceOf(i, f) == IF in[f].req.wire # None THEN in[f].req.wire ELSE <<"in", i>>

(* The span of an inbound request is started.                              *)
LEMMA StartInboundIn ==
    ASSUME ContextTypeOK, NEW i \in DOMAIN in, StartInbound(i)
    PROVE  /\ InKeeps /\ DOMAIN in' = DOMAIN in
           /\ \A k \in DOMAIN in : k # i => in'[k] = in[k]
           /\ in[i].st = "routed" /\ in'[i].st = "started" /\ in'[i].front \in DOMAIN in
           /\ in'[i].trace = TraceOf(i, in'[i].front) /\ in'[i].trace \in Traces
           /\ in'[i].stored = in[i].stored /\ in'[i].started = in[i].started
           /\ tracing' = SetDefault(tracing, in[in'[i].front].rid,
                                    [trace |-> in'[i].trace, span |-> i])
<1> DEFINE q == Append(queue[in[i].conn], i)
           f == Head(q)
           t == TraceOf(i, f)
           x == [in[i] EXCEPT !.st = "started", !.trace = t, !.front = f]
<1>1. in \in Seq(Inbounds) /\ in[i] \in Inbounds /\ f \in DOMAIN in /\ f \in Nat
    BY RequestTypes, FrontType DEF ContextTypeOK
<1>2. t \in Traces
  <2>1. in[f].req \in InKinds /\ i \in Nat
      BY <1>1, RequestTypes DEF Inbounds
  <2> QED BY <2>1, KindTypes DEF Traces, TraceOf
<1>3. /\ in' = [in EXCEPT ![i].st = "started", ![i].trace = t, ![i].front = f]
      /\ tracing' = SetDefault(tracing, in[f].rid, [trace |-> t, span |-> i])
      /\ in[i].st = "routed"
    BY DEF StartInbound, TraceOf
<1> HIDE DEF f, t, q
<1>4. in' = [in EXCEPT ![i] = x]
    BY <1>1, <1>3 DEF Inbounds
<1>5. x \in Inbounds
    BY <1>1, <1>2 DEF Inbounds
<1>6. /\ x.req = in[i].req /\ x.rid = in[i].rid /\ x.value = in[i].value /\ x.st = "started"
      /\ x.trace = t /\ x.front = f /\ x.stored = in[i].stored /\ x.started = in[i].started
    BY <1>1 DEF Inbounds
<1> HIDE DEF x
<1>7. /\ in' \in Seq(Inbounds) /\ DOMAIN in' = DOMAIN in
      /\ in'[i] = x /\ \A k \in DOMAIN in : k # i => in'[k] = in[k]
    BY <1>1, <1>4, <1>5, Put
<1>8. InKeeps
    BY <1>3, <1>6, <1>7 DEF InKeeps, Started
<1> QED BY <1>1, <1>2, <1>3, <1>6, <1>7, <1>8 DEF t

(* Time passes for the inbound requests.                                   *)
LEMMA TickIn ==
    ASSUME ContextTypeOK, Tick
    PROVE  /\ InKeeps /\ DOMAIN in' = DOMAIN in
           /\ \A k \in DOMAIN in :
                /\ in'[k].st = in[k].st /\ in'[k].front = in[k].front
                /\ in'[k].trace = in[k].trace
                /\ in'[k].stored = IF in[k].st = "read" THEN 0 ELSE Aged(in[k].stored)
                /\ in'[k].started = IF in[k].st \in {"read", "routed"} THEN 0
                                    ELSE Aged(in[k].started)
<1>1. in \in Seq(Inbounds) /\ \A k \in DOMAIN in : in[k] \in Inbounds
    BY RequestTypes DEF ContextTypeOK
<1> DEFINE S(k) == IF in[k].st = "read" THEN 0 ELSE Aged(in[k].stored)
           T(k) == IF in[k].st \in {"read", "routed"} THEN 0 ELSE Aged(in[k].started)
<1>2. ASSUME NEW k \in DOMAIN in
      PROVE  S(k) \in 0..(Expiration + 1) /\ T(k) \in 0..(Expiration + 1)
  <2>1. in[k].stored \in 0..(Expiration + 1) /\ in[k].started \in 0..(Expiration + 1)
      BY <1>1, <1>2 DEF Inbounds
  <2>2. \A n \in 0..(Expiration + 1) : Aged(n) \in 0..(Expiration + 1)
      BY ExpirationAssumption DEF Aged
  <2> QED BY <2>1, <2>2, ExpirationAssumption
<1>3. /\ DOMAIN in' = DOMAIN in
      /\ \A k \in DOMAIN in : in'[k] = [in[k] EXCEPT !.stored = S(k), !.started = T(k)]
      /\ in' = [k \in DOMAIN in |-> in'[k]]
    BY DEF Tick
<1> HIDE DEF S, T
<1>4. ASSUME NEW k \in DOMAIN in
      PROVE  /\ in'[k] \in Inbounds
             /\ in'[k].req = in[k].req /\ in'[k].rid = in[k].rid /\ in'[k].value = in[k].value
             /\ in'[k].st = in[k].st /\ in'[k].front = in[k].front
             /\ in'[k].trace = in[k].trace /\ in'[k].stored = S(k) /\ in'[k].started = T(k)
  <2>1. in[k] \in Inbounds /\ in'[k] = [in[k] EXCEPT !.stored = S(k), !.started = T(k)]
      BY <1>1, <1>3
  <2> QED BY <1>2, <2>1 DEF Inbounds
<1>5. in' \in Seq(Inbounds)
    BY <1>1, <1>3, <1>4, PutAll
<1>6. InKeeps
    BY <1>3, <1>4, <1>5 DEF InKeeps
<1> QED BY <1>3, <1>4, <1>6 DEF S, T

(* The steps of the specification.                                         *)
LEMMA ContextSteps ==
    ASSUME [ContextNext]_cvars
    PROVE  \/ \E c \in InConns, req \in InKinds : ReadInbound(c, req)
           \/ \E i \in DOMAIN in : StoreRoute(i)
           \/ \E i \in DOMAIN in : StartInbound(i)
           \/ \E i \in DOMAIN in : WriteInbound(i)
           \/ \E i \in DOMAIN in, c \in OutConns, req \in OutKinds : ReadOutbound(i, c, req)
           \/ \E o \in DOMAIN out : StartOutbound(o)
           \/ \E c \in InConns \union OutConns : Respond(c)
           \/ Tick \/ CleanTracing \/ CleanRoutes \/ UNCHANGED cvars
BY DEF ContextNext

(* Every step keeps what an inbound request is.                            *)
LEMMA InStep == ContextTypeOK /\ [ContextNext]_cvars => InKeeps
<1> SUFFICES ASSUME ContextTypeOK, [ContextNext]_cvars PROVE InKeeps
    OBVIOUS
<1>1. in' = in => InKeeps
    BY DEF InKeeps, ContextTypeOK
<1>2. CASE \E c \in InConns, req \in InKinds : ReadInbound(c, req)
    BY <1>2, ReadInboundIn
<1>3. CASE \E i \in DOMAIN in : StoreRoute(i) \/ StartInbound(i) \/ WriteInbound(i)
    BY <1>3, AdvanceIn, StartInboundIn
<1>4. CASE Tick
    BY <1>4, TickIn
<1>5. CASE \/ \E i \in DOMAIN in, c \in OutConns, req \in OutKinds : ReadOutbound(i, c, req)
           \/ \E o \in DOMAIN out : StartOutbound(o)
           \/ \E c \in InConns \union OutConns : Respond(c)
           \/ CleanTracing \/ CleanRoutes \/ UNCHANGED cvars
  <2>1. in' = in
      BY <1>5 DEF ReadOutbound, StartOutbound, Respond, CleanTracing, CleanRoutes, cvars
  <2> QED BY <1>1, <2>1
<1> QED BY <1>2, <1>3, <1>4, <1>5, ContextSteps

(* What an outbound request is after any step.                             *)
OutKeeps ==
    /\ out' \in Seq(Outbounds) /\ DOMAIN out \subseteq DOMAIN out'
    /\ \A k \in DOMAIN out :
          /\ out'[k].req = out[k].req /\ out'[k].cause = out[k].cause
          /\ out'[k].rid = out[k].rid /\ out'[k].dst = out[k].dst
          /\ out'[k].inRoute = out[k].inRoute
          /\ out[k].st = "sent" =>
                /\ out'[k].st = "sent" /\ out'[k].trace = out[k].trace
                /\ out'[k].parent = out[k].parent /\ out'[k].front = out[k].front
                /\ out'[k].inTime = out[k].inTime

(* Where a request with a routing value goes.                              *)
LEMMA GoesTo ==
    ASSUME NEW value \in Values, NEW host
    PROVE  LET dest == getRoutingDestination(value, host)
               dst == IF value # None /\ ~dest.err THEN dest.addr ELSE None
           IN dst = Destination(value, host) /\ dst \in {None} \union Names
<1>1. Destination(None, host) = None
    BY DEF Destination, None
<1> QED BY <1>1, DestinationFound

(* A new outbound request n, made for inbound request i.                   *)
NewOut(n, i, req) ==
    /\ n \notin DOMAIN out /\ DOMAIN out' = DOMAIN out \union {n}
    /\ out'[n].st = "routed" /\ out'[n].cause = i /\ out'[n].front = 0
    /\ out'[n].req = req /\ out'[n].rid \in AllRids
    /\ out'[n].rid = IF req.passes THEN in[i].rid ELSE <<"uuid_out", n>>
    /\ out'[n].dst = Destination(RoutingValue(req, out'[n].rid), req.host)
    /\ out'[n].inRoute = (in[i].stored <= Expiration)

(* A new outbound request is added and the others stay.                    *)
LEMMA ReadOutboundOut ==
    ASSUME ContextTypeOK, NEW i \in DOMAIN in, NEW c \in OutConns, NEW req \in OutKinds,
           ReadOutbound(i, c, req)
    PROVE  /\ OutKeeps /\ \A k \in DOMAIN out : out'[k] = out[k]
           /\ in[i].st = "sent"
           /\ \E n \in Nat \ {0} : NewOut(n, i, req)
<1> DEFINE o == Len(out) + 1
           rid == IF req.passes THEN in[i].rid ELSE <<"uuid_out", o>>
           value == RoutingValue(req, rid)
           dest == getRoutingDestination(value, req.host)
           dst == IF value # None /\ ~dest.err THEN dest.addr ELSE None
           kept == in[i].stored <= Expiration
           x == [req |-> req, conn |-> c, cause |-> i, rid |-> rid, dst |-> dst,
                 st |-> "routed", header |-> {}, trace |-> None, parent |-> 0,
                 front |-> 0, inRoute |-> kept, inTime |-> FALSE]
<1>1. out \in Seq(Outbounds) /\ o \in Nat /\ o > 0 /\ Len(in) \in Nat /\ i \in Nat
      /\ in[i] \in Inbounds
    BY LenProperties, RequestTypes DEF ContextTypeOK
<1>2. rid \in AllRids
  <2>1. <<"uuid_out", o>> \in AllRids
      BY <1>1, MadeUp DEF ReadOutbound
  <2>2. in[i].rid \in AllRids
      BY <1>1 DEF Inbounds
  <2> QED BY <2>1, <2>2
<1>3. out' = Append(out, x) /\ in[i].st = "sent"
    BY DEF ReadOutbound
<1>4. value \in Values
    BY <1>2, GetType, KindTypes DEF RoutingValue
<1>5. dst = Destination(value, req.host) /\ dst \in {None} \union Names
    BY <1>4, GoesTo
<1>6. x \in Outbounds
  <2>1. kept \in BOOLEAN /\ FALSE \in BOOLEAN
      OBVIOUS
  <2>2. None \in Traces /\ {} \in SUBSET Contexts /\ 0 \in Nat
      BY DEF Traces
  <2> HIDE DEF kept, dst, value, rid
  <2> QED BY <1>1, <1>2, <1>5, <2>1, <2>2 DEF Outbounds
<1> HIDE DEF dst, value
<1>7. /\ x.st = "routed" /\ x.cause = i /\ x.front = 0 /\ x.req = req /\ x.rid = rid
      /\ x.dst = dst /\ x.inRoute = (in[i].stored <= Expiration)
    OBVIOUS
<1> HIDE DEF x
<1>8. /\ out' \in Seq(Outbounds) /\ \A k \in DOMAIN out : out'[k] = out[k]
      /\ o \in Nat \ {0} /\ o \notin DOMAIN out /\ DOMAIN out' = DOMAIN out \union {o}
      /\ out'[o] = x
    BY <1>1, <1>3, <1>6, Added
<1>9. OutKeeps
    BY <1>8 DEF OutKeeps
<1>10. out'[o].dst = Destination(RoutingValue(req, out'[o].rid), req.host)
    BY <1>5, <1>7, <1>8 DEF value
<1>11. NewOut(o, i, req)
    BY <1>2, <1>7, <1>8, <1>10 DEF NewOut
<1> QED BY <1>3, <1>8, <1>9, <1>11

(* The tracing headers a request carries when its span is started.         *)
HeaderOf(o) ==
    (IF out[o].req.own /\ in[out[o].cause].req.wire # None
     THEN {[trace |-> in[out[o].cause].req.wire, span |-> 0]} ELSE {})
    \union (IF Get(tracing, out[o].rid) # None THEN {Get(tracing, out[o].rid)} ELSE {})

(* The span of an outbound request is started.                             *)
LEMMA StartOutboundOut ==
    ASSUME ContextTypeOK, NEW o \in DOMAIN out, StartOutbound(o)
    PROVE  /\ OutKeeps /\ DOMAIN out' = DOMAIN out
           /\ \A k \in DOMAIN out : k # o => out'[k].st = out[k].st /\ out'[k].front = out[k].front
           /\ out[o].st = "routed" /\ out'[o].st = "sent"
           /\ out'[o].inTime = (in[out[o].cause].started <= Expiration)
           /\ out'[o].front = o /\ HeaderOf(o) # {} =>
                \E ctx \in HeaderOf(o) :
                    out'[o].trace = ctx.trace /\ out'[o].parent = ctx.span
<1> DEFINE header == HeaderOf(o)
           q == Append(queue[out[o].conn], o)
           f == Head(q)
           carried == IF f = o THEN header ELSE out[f].header
           choice == IF carried # {} THEN carried
                     ELSE {[trace |-> <<"out", o>>, span |-> 0]}
           i == out[o].cause
           X(ctx) == [out[o] EXCEPT !.st = "sent", !.trace = ctx.trace,
                                    !.parent = ctx.span, !.front = f,
                                    !.inTime = in[i].started <= Expiration,
                                    !.header = IF f = o /\ header = {} THEN {ctx} ELSE header]
           Y(k, ctx) == IF k = o THEN X(ctx)
                        ELSE IF k = f /\ carried = {} THEN [out[k] EXCEPT !.header = {ctx}]
                        ELSE out[k]
<1>1. /\ out \in Seq(Outbounds) /\ \A k \in DOMAIN out : out[k] \in Outbounds
      /\ f \in DOMAIN out /\ f \in Nat /\ o \in Nat /\ i \in DOMAIN in /\ in[i] \in Inbounds
    BY RequestTypes, FrontType DEF ContextTypeOK
<1>2. header \in SUBSET Contexts
  <2>1. in[i].req.wire \in Traces
      BY <1>1, KindTypes DEF Inbounds
  <2>2. out[o].rid \in AllRids
      BY <1>1 DEF Outbounds
  <2>3. Get(tracing, out[o].rid) \in {None} \union Contexts
      BY <2>2, GetType
  <2>4. [trace |-> in[i].req.wire, span |-> 0] \in Contexts
      BY <2>1 DEF Contexts
  <2> QED BY <2>3, <2>4 DEF HeaderOf
<1>3. choice \in SUBSET Contexts
  <2>1. <<"out", o>> \in Traces
      BY <1>1 DEF Traces
  <2>2. out[f].header \in SUBSET Contexts
      BY <1>1 DEF Outbounds
  <2> QED BY <1>2, <2>1, <2>2 DEF Contexts
<1>4. PICK ctx \in choice : out' = [k \in DOMAIN out |-> Y(k, ctx)]
    BY DEF StartOutbound, HeaderOf
<1>5. out[o].st = "routed"
    BY DEF StartOutbound
<1>6. ctx \in Contexts /\ ctx.trace \in Traces /\ ctx.span \in Nat
    BY <1>3, <1>4 DEF Contexts
<1>7. header # {} /\ f = o => ctx \in header
    BY <1>4
<1> HIDE DEF header, f, q, choice
<1>8. /\ X(ctx) \in Outbounds
      /\ X(ctx).req = out[o].req /\ X(ctx).cause = out[o].cause /\ X(ctx).rid = out[o].rid
      /\ X(ctx).dst = out[o].dst /\ X(ctx).inRoute = out[o].inRoute /\ X(ctx).st = "sent"
      /\ X(ctx).front = f /\ X(ctx).inTime = (in[i].started <= Expiration)
      /\ X(ctx).trace = ctx.trace /\ X(ctx).parent = ctx.span
  <2>1. out[o] \in Outbounds
      BY <1>1
  <2>2. (IF f = o /\ header = {} THEN {ctx} ELSE header) \in SUBSET Contexts
      BY <1>2, <1>6
  <2> DEFINE hd == IF f = o /\ header = {} THEN {ctx} ELSE header
             tm == in[i].started <= Expiration
  <2>3. tm \in BOOLEAN
      OBVIOUS
  <2> HIDE DEF hd, tm
  <2>4. X(ctx) = [out[o] EXCEPT !.st = "sent", !.trace = ctx.trace, !.parent = ctx.span,
                               !.front = f, !.inTime = tm, !.header = hd]
      BY DEF hd, tm
  <2>5. hd \in SUBSET Contexts
      BY <2>2 DEF hd
  <2> HIDE DEF X
  <2>6. X(ctx) \in Outbounds
    <3> DEFINE Sent(y, t, p, g, b, h) ==
                   [y EXCEPT !.st = "sent", !.trace = t, !.parent = p, !.front = g,
                             !.inTime = b, !.header = h]
    <3>1. ASSUME NEW y \in Outbounds, NEW t \in Traces, NEW p \in Nat, NEW g \in Nat,
                 NEW b \in BOOLEAN, NEW h \in SUBSET Contexts
          PROVE  Sent(y, t, p, g, b, h) \in Outbounds
        BY DEF Outbounds
    <3>2. X(ctx) = Sent(out[o], ctx.trace, ctx.span, f, tm, hd)
        BY <2>4
    <3> HIDE DEF Sent
    <3> QED BY <1>1, <1>6, <2>1, <2>3, <2>5, <3>1, <3>2
  <2> QED BY <2>1, <2>4, <2>6 DEF Outbounds, tm
<1>9. ASSUME NEW k \in DOMAIN out, k # o
      PROVE  /\ Y(k, ctx) \in Outbounds
             /\ \A y \in {Y(k, ctx)} :
                  /\ y.req = out[k].req /\ y.cause = out[k].cause /\ y.rid = out[k].rid
                  /\ y.dst = out[k].dst /\ y.inRoute = out[k].inRoute /\ y.st = out[k].st
                  /\ y.trace = out[k].trace /\ y.parent = out[k].parent
                  /\ y.front = out[k].front /\ y.inTime = out[k].inTime
  <2>1. out[k] \in Outbounds
      BY <1>1
  <2>2. Y(k, ctx) = out[k] \/ Y(k, ctx) = [out[k] EXCEPT !.header = {ctx}]
      BY <1>9
  <2> HIDE DEF Y
  <2> QED BY <1>6, <2>1, <2>2 DEF Outbounds
<1> HIDE DEF X
<1>10. DOMAIN out' = DOMAIN out /\ \A k \in DOMAIN out : out'[k] = Y(k, ctx)
    BY <1>4
<1>11. out'[o] = X(ctx)
    BY <1>10
<1> HIDE DEF Y
<1>12. out' \in Seq(Outbounds)
  <2>1. out' = [k \in DOMAIN out |-> out'[k]]
      BY <1>4, <1>10
  <2>2. \A k \in DOMAIN out : out'[k] \in Outbounds
      BY <1>8, <1>9, <1>10, <1>11
  <2> QED BY <1>1, <1>10, <2>1, <2>2, PutAll
<1>13. OutKeeps
    BY <1>5, <1>8, <1>9, <1>10, <1>11, <1>12 DEF OutKeeps
<1>14. \A k \in DOMAIN out : k # o => out'[k].st = out[k].st /\ out'[k].front = out[k].front
    BY <1>9, <1>10
<1> QED BY <1>5, <1>7, <1>8, <1>10, <1>11, <1>13, <1>14 DEF header

(* Every step keeps what an outbound request is.                           *)
LEMMA OutStep == ContextTypeOK /\ [ContextNext]_cvars => OutKeeps
<1> SUFFICES ASSUME ContextTypeOK, [ContextNext]_cvars PROVE OutKeeps
    OBVIOUS
<1>1. out' = out => OutKeeps
    BY DEF OutKeeps, ContextTypeOK
<1>2. CASE \E i \in DOMAIN in, c \in OutConns, req \in OutKinds : ReadOutbound(i, c, req)
    BY <1>2, ReadOutboundOut
<1>3. CASE \E o \in DOMAIN out : StartOutbound(o)
    BY <1>3, StartOutboundOut
<1>4. CASE \/ \E c \in InConns, req \in InKinds : ReadInbound(c, req)
           \/ \E i \in DOMAIN in : StoreRoute(i) \/ StartInbound(i) \/ WriteInbound(i)
           \/ \E c \in InConns \union OutConns : Respond(c)
           \/ Tick \/ CleanTracing \/ CleanRoutes \/ UNCHANGED cvars
  <2>1. out' = out
      BY <1>4 DEF ReadInbound, StoreRoute, StartInbound, WriteInbound, Respond, Tick,
         CleanTracing, CleanRoutes, cvars
  <2> QED BY <1>1, <2>1
<1> QED BY <1>2, <1>3, <1>4, ContextSteps

-----------------------------------------------------------------------------
(* What the operations of the cache do to it.                              *)
Passed(cache) == [r \in AllRids |-> [cache[r] EXCEPT !.left = Older(@)]]

(* The operations of the cache keep its type.                             *)
LEMMA CacheTypes ==
    ASSUME NEW V, NEW cache \in [AllRids -> Entries(V)]
    PROVE  /\ \A r \in AllRids, v \in V : SetDefault(cache, r, v) \in [AllRids -> Entries(V)]
           /\ \A r, k \in AllRids, v \in V :
                 SetDefault(cache, r, v)[k] = IF k = r THEN [val |-> v, left |-> Expiration]
                                              ELSE cache[k]
           /\ DeleteExpired(cache) \in [AllRids -> Entries(V)]
           /\ Passed(cache) \in [AllRids -> Entries(V)]
           /\ \A r \in AllRids :
                 /\ Passed(cache)[r] = [val |-> cache[r].val, left |-> Older(cache[r].left)]
                 /\ DeleteExpired(cache)[r] = IF cache[r].left < 0 THEN NoEntry ELSE cache[r]
<1>1. ASSUME NEW v \in V PROVE [val |-> v, left |-> Expiration] \in Entries(V)
    BY ExpirationAssumption DEF Entries
<1>2. \A r \in AllRids : cache[r] \in Entries(V)
    OBVIOUS
<1>3. NoEntry \in Entries(V)
    BY ExpirationAssumption DEF NoEntry, Entries
<1>4. ASSUME NEW r \in AllRids
      PROVE  /\ [cache[r] EXCEPT !.left = Older(@)] =
                   [val |-> cache[r].val, left |-> Older(cache[r].left)]
             /\ [cache[r] EXCEPT !.left = Older(@)] \in Entries(V)
  <2>1. cache[r] \in Entries(V)
      BY <1>2
  <2>2. Older(cache[r].left) \in -1..Expiration
      BY <2>1, ExpirationAssumption DEF Entries, Older
  <2> QED BY <2>1, <2>2 DEF Entries
<1>5. \A r \in AllRids, v \in V : SetDefault(cache, r, v) \in [AllRids -> Entries(V)]
    BY <1>1 DEF SetDefault
<1>6. \A r, k \in AllRids, v \in V :
         SetDefault(cache, r, v)[k] = IF k = r THEN [val |-> v, left |-> Expiration]
                                      ELSE cache[k]
    BY DEF SetDefault
<1>7. DeleteExpired(cache) \in [AllRids -> Entries(V)]
    BY <1>2, <1>3 DEF DeleteExpired
<1>8. Passed(cache) \in [AllRids -> Entries(V)]
    BY <1>4 DEF Passed
<1>9. \A r \in AllRids :
         /\ Passed(cache)[r] = [val |-> cache[r].val, left |-> Older(cache[r].left)]
         /\ DeleteExpired(cache)[r] = IF cache[r].left < 0 THEN NoEntry ELSE cache[r]
    BY <1>4 DEF Passed, DeleteExpired
<1> QED BY <1>5, <1>6, <1>7, <1>8, <1>9

(* The routing cache after a step.                                         *)
LEMMA RoutesStep ==
    ASSUME ContextTypeOK, [ContextNext]_cvars
    PROVE  /\ routes' \in [AllRids -> Entries(Brought)]
           /\ \/ routes' = routes
              \/ routes' = Passed(routes) /\ Tick
              \/ routes' = DeleteExpired(routes) /\ CleanRoutes
              \/ \E i \in DOMAIN in :
                    /\ StoreRoute(i) /\ in[i].value # None
                    /\ ~getRoutingDestination(in[i].value, in[i].req.host).err
                    /\ routes' = SetDefault(routes, in[i].rid, in[i].value)
<1>1. routes \in [AllRids -> Entries(Brought)]
    BY DEF ContextTypeOK
<1>2. CASE Tick
    BY <1>1, <1>2, CacheTypes DEF Tick, Passed
<1>3. CASE CleanRoutes
    BY <1>1, <1>3, CacheTypes DEF CleanRoutes
<1>4. CASE \E i \in DOMAIN in : StoreRoute(i)
  <2>1. PICK i \in DOMAIN in : StoreRoute(i)
      BY <1>4
  <2>2. CASE in[i].value # None /\ ~getRoutingDestination(in[i].value, in[i].req.host).err
    <3>1. in[i].rid \in AllRids /\ in[i].value \in Brought
        BY <2>2, RequestTypes DEF Inbounds
    <3>2. routes' = SetDefault(routes, in[i].rid, in[i].value)
        BY <2>1, <2>2 DEF StoreRoute
    <3> QED BY <1>1, <2>1, <2>2, <3>1, <3>2, CacheTypes
  <2>3. CASE ~(in[i].value # None /\ ~getRoutingDestination(in[i].value, in[i].req.host).err)
      BY <1>1, <2>1, <2>3 DEF StoreRoute
  <2> QED BY <2>2, <2>3
<1>5. CASE \/ \E c \in InConns, req \in InKinds : ReadInbound(c, req)
           \/ \E i \in DOMAIN in : StartInbound(i) \/ WriteInbound(i)
           \/ \E i \in DOMAIN in, c \in OutConns, req \in OutKinds : ReadOutbound(i, c, req)
           \/ \E o \in DOMAIN out : StartOutbound(o)
           \/ \E c \in InConns \union OutConns : Respond(c)
           \/ CleanTracing \/ UNCHANGED cvars
  <2>1. routes' = routes
      BY <1>5 DEF ReadInbound, StartInbound, WriteInbound, ReadOutbound, StartOutbound,
         Respond, CleanTracing, cvars
  <2> QED BY <1>1, <2>1
<1> QED BY <1>2, <1>3, <1>4, <1>5, ContextSteps

(* The tracing cache after a step.                                         *)
LEMMA TracingStep ==
    ASSUME ContextTypeOK, [ContextNext]_cvars
    PROVE  /\ tracing' \in [AllRids -> Entries(Contexts)]
           /\ \/ tracing' = tracing
              \/ tracing' = Passed(tracing) /\ Tick
              \/ tracing' = DeleteExpired(tracing) /\ CleanTracing
              \/ \E i \in DOMAIN in :
                    /\ StartInbound(i)
                    /\ tracing' = SetDefault(tracing, in[in'[i].front].rid,
                                             [trace |-> in'[i].trace, span |-> i])
           /\ \A r \in AllRids : tracing'[r].val # None => tracing'[r].val.span \in DOMAIN in
<1> DEFINE Spans(cache) == \A r \in AllRids : cache[r].val # None => cache[r].val.span \in DOMAIN in
<1>1. tracing \in [AllRids -> Entries(Contexts)] /\ Spans(tracing)
    BY DEF ContextTypeOK
<1>2. CASE Tick
  <2>1. tracing' = Passed(tracing)
      BY <1>2 DEF Tick, Passed
  <2>2. tracing' \in [AllRids -> Entries(Contexts)]
      BY <1>1, <2>1, CacheTypes
  <2>3. ASSUME NEW r \in AllRids PROVE tracing'[r].val = tracing[r].val
    <3>1. tracing'[r] = [val |-> tracing[r].val, left |-> Older(tracing[r].left)]
        BY <1>1, <2>1, CacheTypes
    <3> QED BY <3>1
  <2> QED BY <1>1, <1>2, <2>1, <2>2, <2>3
<1>3. CASE CleanTracing
  <2>1. tracing' = DeleteExpired(tracing)
      BY <1>3 DEF CleanTracing
  <2>2. tracing' \in [AllRids -> Entries(Contexts)]
      BY <1>1, <2>1, CacheTypes
  <2>3. \A r \in AllRids : tracing'[r] = NoEntry \/ tracing'[r] = tracing[r]
      BY <1>1, <2>1, CacheTypes
  <2>4. NoEntry.val = None
      BY DEF NoEntry
  <2>5. Spans(tracing')
      BY <1>1, <2>3, <2>4
  <2> QED BY <1>3, <2>1, <2>2, <2>5
<1>4. CASE \E i \in DOMAIN in : StartInbound(i)
  <2>1. PICK i \in DOMAIN in : StartInbound(i)
      BY <1>4
  <2>2. PICK v : v = [trace |-> in'[i].trace, span |-> i]
      OBVIOUS
  <2>3. PICK r : r = in[in'[i].front].rid
      OBVIOUS
  <2>4. v \in Contexts /\ v.span \in DOMAIN in
      BY <2>1, <2>2, StartInboundIn, RequestTypes DEF Contexts
  <2>5. r \in AllRids
      BY <2>1, <2>3, StartInboundIn, RequestTypes DEF Inbounds
  <2>6. tracing' = SetDefault(tracing, r, v)
      BY <2>1, <2>2, <2>3, StartInboundIn
  <2>7. \A k \in AllRids : tracing'[k] = IF k = r THEN [val |-> v, left |-> Expiration]
                                         ELSE tracing[k]
      BY <1>1, <2>4, <2>5, <2>6, CacheTypes
  <2>8. Spans(tracing')
      BY <1>1, <2>4, <2>7
  <2>9. tracing' \in [AllRids -> Entries(Contexts)]
      BY <1>1, <2>4, <2>5, <2>6, CacheTypes
  <2> QED BY <2>1, <2>2, <2>3, <2>6, <2>8, <2>9
<1>5. CASE \/ \E c \in InConns, req \in InKinds : ReadInbound(c, req)
           \/ \E i \in DOMAIN in : StoreRoute(i) \/ WriteInbound(i)
           \/ \E i \in DOMAIN in, c \in OutConns, req \in OutKinds : ReadOutbound(i, c, req)
           \/ \E o \in DOMAIN out : StartOutbound(o)
           \/ \E c \in InConns \union OutConns : Respond(c)
           \/ CleanRoutes \/ UNCHANGED cvars
  <2>1. tracing' = tracing
      BY <1>5 DEF ReadInbound, StoreRoute, WriteInbound, ReadOutbound, StartOutbound,
         Respond, CleanRoutes, cvars
  <2> QED BY <1>1, <2>1
<1> QED BY <1>2, <1>3, <1>4, <1>5, ContextSteps

(* The queues after a step: they hold requests of their connection's side. *)
LEMMA QueueStep ==
    ASSUME ContextTypeOK, [ContextNext]_cvars
    PROVE  /\ queue' \in [InConns \union OutConns -> Seq(Nat)]
           /\ \A c \in InConns : queue'[c] \in Seq(DOMAIN in)
           /\ \A c \in OutConns : queue'[c] \in Seq(DOMAIN out)
<1> DEFINE C == InConns \union OutConns
           D(c) == IF c \in InConns THEN DOMAIN in ELSE DOMAIN out
<1>1. /\ queue \in [C -> Seq(Nat)] /\ \A c \in C : queue[c] \in Seq(D(c))
      /\ \A c \in InConns : D(c) = DOMAIN in
      /\ \A c \in OutConns : D(c) = DOMAIN out
    BY ConnsAssumption DEF ContextTypeOK
<1>2. \A c \in C : D(c) \subseteq Nat
    BY RequestTypes
<1> SUFFICES /\ queue' \in [C -> Seq(Nat)]
             /\ \A c \in C : queue'[c] \in Seq(D(c))
    BY <1>1
<1> HIDE DEF D
<1>3. ASSUME NEW c \in C, NEW q \in Seq(D(c)), queue' = [queue EXCEPT ![c] = q]
      PROVE  queue' \in [C -> Seq(Nat)] /\ \A d \in C : queue'[d] \in Seq(D(d))
  <2>1. q \in Seq(Nat)
      BY <1>2, SeqMonotonic
  <2> QED BY <1>1, <1>3, <2>1
<1>4. CASE \E i \in DOMAIN in : StartInbound(i)
  <2>1. PICK i \in DOMAIN in : StartInbound(i)
      BY <1>4
  <2>2. PICK c \in InConns : c = in[i].conn
      BY RequestTypes DEF Inbounds
  <2>3. PICK q : q = Append(queue[in[i].conn], i)
      OBVIOUS
  <2>4. q \in Seq(D(c))
      BY <1>1, <2>2, <2>3, FrontType
  <2>5. queue' = [queue EXCEPT ![c] = q]
      BY <2>1, <2>2, <2>3 DEF StartInbound
  <2> QED BY <1>3, <2>4, <2>5
<1>5. CASE \E o \in DOMAIN out : StartOutbound(o)
  <2>1. PICK o \in DOMAIN out : StartOutbound(o)
      BY <1>5
  <2>2. PICK c \in OutConns : c = out[o].conn
      BY RequestTypes DEF Outbounds
  <2>3. PICK q : q = Append(queue[out[o].conn], o)
      OBVIOUS
  <2>4. q \in Seq(D(c))
      BY <1>1, <2>2, <2>3, FrontType
  <2>5. queue' = [queue EXCEPT ![c] = q]
      BY <2>1, <2>2, <2>3 DEF StartOutbound
  <2> QED BY <1>3, <2>4, <2>5
<1>6. CASE \E c \in C : Respond(c)
  <2>1. PICK c \in C : Respond(c)
      BY <1>6
  <2>2. queue[c] # <<>> /\ queue' = [queue EXCEPT ![c] = Tail(queue[c])]
      BY <1>1, <2>1 DEF Respond
  <2>3. Tail(queue[c]) \in Seq(D(c))
      BY <1>1, <2>2, HeadTailProperties
  <2> QED BY <1>3, <2>2, <2>3
<1>7. CASE \/ \E c \in InConns, req \in InKinds : ReadInbound(c, req)
           \/ \E i \in DOMAIN in : StoreRoute(i) \/ WriteInbound(i)
           \/ \E i \in DOMAIN in, c \in OutConns, req \in OutKinds : ReadOutbound(i, c, req)
           \/ Tick \/ CleanTracing \/ CleanRoutes \/ UNCHANGED cvars
  <2>1. queue' = queue
      BY <1>7 DEF ReadInbound, StoreRoute, WriteInbound, ReadOutbound, Tick,
         CleanTracing, CleanRoutes, cvars
  <2> QED BY <1>1, <2>1
<1> QED BY <1>4, <1>5, <1>6, <1>7, ContextSteps

(* Outbound requests keep the inbound request they were made for.          *)
LEMMA CausedStep ==
    ContextTypeOK /\ Caused /\ [ContextNext]_cvars =>
        /\ Caused'
        /\ \A o \in DOMAIN out' : out'[o].cause \in DOMAIN in'
<1> SUFFICES ASSUME ContextTypeOK, Caused, [ContextNext]_cvars, NEW o \in DOMAIN out'
             PROVE  /\ out'[o].cause \in DOMAIN in'
                    /\ in'[out'[o].cause].st = "sent"
                    /\ out'[o].req.passes => out'[o].rid = in'[out'[o].cause].rid
    BY DEF Caused
<1>1. InKeeps /\ OutKeeps
    BY InStep, OutStep
<1>2. CASE o \in DOMAIN out
  <2>1. out[o].cause \in DOMAIN in /\ out'[o].cause = out[o].cause
      BY <1>1, <1>2 DEF ContextTypeOK, OutKeeps
  <2> QED BY <1>1, <1>2, <2>1 DEF InKeeps, OutKeeps, Caused
<1>3. CASE o \notin DOMAIN out
  <2>1. \E i \in DOMAIN in, c \in OutConns, req \in OutKinds : ReadOutbound(i, c, req)
    <3>1. out' # out
        BY <1>3
    <3>2. ~(\E k \in DOMAIN out : StartOutbound(k))
        BY <1>3, StartOutboundOut
    <3> QED BY <3>1, <3>2, ContextSteps DEF ReadInbound, StoreRoute, StartInbound,
           WriteInbound, Respond, Tick, CleanTracing, CleanRoutes, cvars
  <2>2. PICK i \in DOMAIN in, c \in OutConns, req \in OutKinds : ReadOutbound(i, c, req)
      BY <2>1
  <2>3. /\ in[i].st = "sent" /\ out'[o].cause = i /\ out'[o].req = req
        /\ out'[o].rid = IF req.passes THEN in[i].rid ELSE <<"uuid_out", o>>
    <3>1. PICK n \in Nat \ {0} : NewOut(n, i, req)
        BY <2>2, ReadOutboundOut
    <3>2. o = n
        BY <1>3, <3>1 DEF NewOut
    <3> QED BY <2>2, <3>1, <3>2, ReadOutboundOut DEF NewOut
  <2>4. in' = in
      BY <2>2 DEF ReadOutbound
  <2> QED BY <2>3, <2>4
<1> QED BY <1>2, <1>3

(* The types of the variables are kept.                                    *)
LEMMA TypeStep == ContextTypeOK /\ Caused /\ [ContextNext]_cvars => ContextTypeOK'
<1> SUFFICES ASSUME ContextTypeOK, Caused, [ContextNext]_cvars PROVE ContextTypeOK'
    OBVIOUS
<1>1. InKeeps /\ OutKeeps
    BY InStep, OutStep
<1>2. in' \in Seq(Inbounds) /\ out' \in Seq(Outbounds)
    BY <1>1 DEF InKeeps, OutKeeps
<1>3. routes' \in [AllRids -> Entries(Brought)] /\ tracing' \in [AllRids -> Entries(Contexts)]
    BY RoutesStep, TracingStep
<1>4. \A r \in AllRids : tracing'[r].val # None => tracing'[r].val.span \in DOMAIN in'
    BY <1>1, TracingStep DEF InKeeps
<1>5. \A o \in DOMAIN out' : out'[o].cause \in DOMAIN in'
    BY CausedStep
<1>6. queue' \in [InConns \union OutConns -> Seq(Nat)]
    BY QueueStep
<1>7. ASSUME NEW c \in InConns PROVE queue'[c] \in Seq(DOMAIN in')
    BY <1>1, QueueStep, SeqMonotonic DEF InKeeps
<1>8. ASSUME NEW c \in OutConns PROVE queue'[c] \in Seq(DOMAIN out')
    BY <1>1, QueueStep, SeqMonotonic DEF OutKeeps
<1> QED BY <1>2, <1>3, <1>4, <1>5, <1>6, <1>7, <1>8 DEF ContextTypeOK

-----------------------------------------------------------------------------
(* An id that is not shared after a step was not shared before it.         *)
LEMMA UniqueBefore ==
    ASSUME InKeeps, NEW i \in DOMAIN in, UniqueRid(i)'
    PROVE  UniqueRid(i)
BY DEF InKeeps, UniqueRid

(* A started request that nobody was started behind after a step had       *)
(* nobody started behind it before the step.                               *)
LEMMA FrontBefore ==
    /\ ContextTypeOK /\ Untouched /\ InKeeps =>
         \A i \in DOMAIN in : in[i].st \in Started /\ InFront(in', i) => InFront(in, i)
    /\ ContextTypeOK /\ Untouched /\ OutKeeps =>
         \A o \in DOMAIN out : out[o].st = "sent" /\ InFront(out', o) => InFront(out, o)
<1>1. ASSUME ContextTypeOK, Untouched, InKeeps, NEW i \in DOMAIN in,
             in[i].st \in Started, InFront(in', i), NEW j \in DOMAIN in
      PROVE  in[j].front = i <=> j = i
  <2>1. (in'[j].front = i <=> j = i) /\ i # 0
      BY <1>1, RequestTypes DEF InKeeps, InFront
  <2> QED BY <1>1, <2>1 DEF InKeeps, Untouched
<1>2. ASSUME ContextTypeOK, Untouched, OutKeeps, NEW o \in DOMAIN out,
             out[o].st = "sent", InFront(out', o), NEW j \in DOMAIN out
      PROVE  out[j].front = o <=> j = o
  <2>1. (out'[j].front = o <=> j = o) /\ o # 0 /\ out[j].st \in {"routed", "sent"}
      BY <1>2, RequestTypes DEF OutKeeps, InFront, Outbounds
  <2> QED BY <1>2, <2>1 DEF OutKeeps, Untouched
<1> QED BY <1>1, <1>2 DEF InFront

(* A request is new only if it is read in this step.                       *)
LEMMA NewRequests ==
    ASSUME ContextTypeOK, [ContextNext]_cvars
    PROVE  /\ \A i \in DOMAIN in' : i \notin DOMAIN in =>
                /\ \E req \in InKinds : NewIn(i, req)
                /\ UNCHANGED <<tracing, routes>>
           /\ \A o \in DOMAIN out' : o \notin DOMAIN out =>
                /\ \E i \in DOMAIN in, req \in OutKinds :
                      NewOut(o, i, req) /\ in[i].st = "sent"
                /\ UNCHANGED <<tracing, routes, in>>
<1>1. ASSUME NEW i \in DOMAIN in', i \notin DOMAIN in
      PROVE  (\E req \in InKinds : NewIn(i, req)) /\ UNCHANGED <<tracing, routes>>
  <2>1. \E c \in InConns, req \in InKinds : ReadInbound(c, req)
    <3>1. in' # in
        BY <1>1
    <3>2. ~(\E k \in DOMAIN in : StoreRoute(k) \/ StartInbound(k) \/ WriteInbound(k))
        BY <1>1, AdvanceIn, StartInboundIn
    <3>3. ~Tick
        BY <1>1, TickIn
    <3> QED BY <3>1, <3>2, <3>3, ContextSteps DEF ReadOutbound, StartOutbound, Respond,
           CleanTracing, CleanRoutes, cvars
  <2>2. PICK c \in InConns, req \in InKinds : ReadInbound(c, req)
      BY <2>1
  <2>3. PICK n \in Nat \ {0} : NewIn(n, req)
      BY <2>2, ReadInboundIn
  <2>4. i = n
      BY <1>1, <2>3 DEF NewIn
  <2> QED BY <2>2, <2>3, <2>4 DEF ReadInbound
<1>2. ASSUME NEW o \in DOMAIN out', o \notin DOMAIN out
      PROVE  /\ \E i \in DOMAIN in, req \in OutKinds : NewOut(o, i, req) /\ in[i].st = "sent"
             /\ UNCHANGED <<tracing, routes, in>>
  <2>1. \E i \in DOMAIN in, c \in OutConns, req \in OutKinds : ReadOutbound(i, c, req)
    <3>1. out' # out
        BY <1>2
    <3>2. ~(\E k \in DOMAIN out : StartOutbound(k))
        BY <1>2, StartOutboundOut
    <3> QED BY <3>1, <3>2, ContextSteps DEF ReadInbound, StoreRoute, StartInbound,
           WriteInbound, Respond, Tick, CleanTracing, CleanRoutes, cvars
  <2>2. PICK i \in DOMAIN in, c \in OutConns, req \in OutKinds : ReadOutbound(i, c, req)
      BY <2>1
  <2>3. PICK n \in Nat \ {0} : NewOut(n, i, req) /\ in[i].st = "sent"
      BY <2>2, ReadOutboundOut
  <2>4. o = n
      BY <1>2, <2>3 DEF NewOut
  <2> QED BY <2>2, <2>3, <2>4 DEF ReadOutbound
<1> QED BY <1>1, <1>2

(* A span is started only by the step that starts it.                      *)
LEMMA NewSpans ==
    ASSUME ContextTypeOK, [ContextNext]_cvars
    PROVE  /\ \A i \in DOMAIN in :
                in[i].st \notin Started /\ in'[i].st \in Started => StartInbound(i)
           /\ \A i \in DOMAIN in :
                in[i].st \notin Started /\ in'[i].st \notin Started
                    => in'[i].front = in[i].front
           /\ \A i \in DOMAIN in :
                in[i].st = "read" /\ in'[i].st # "read" => StoreRoute(i)
           /\ \A o \in DOMAIN out :
                out[o].st = "routed" /\ out'[o].st = "sent" => StartOutbound(o)
           /\ \A o \in DOMAIN out :
                out[o].st = "routed" /\ out'[o].st = "routed"
                    => out'[o].front = out[o].front
<1>1. ASSUME NEW i \in DOMAIN in, in[i].st \notin Started
      PROVE  /\ in'[i].st \in Started => StartInbound(i)
             /\ in'[i].st \notin Started => in'[i].front = in[i].front
             /\ in[i].st = "read" /\ in'[i].st # "read" => StoreRoute(i)
  <2>1. CASE \E c \in InConns, req \in InKinds : ReadInbound(c, req)
      BY <1>1, <2>1, ReadInboundIn
  <2>2. CASE \E j \in DOMAIN in : StoreRoute(j)
    <3>1. PICK j \in DOMAIN in : StoreRoute(j)
        BY <2>2
    <3>2. /\ in'[j] = [in[j] EXCEPT !.st = "routed"]
          /\ \A k \in DOMAIN in : k # j => in'[k] = in[k]
        BY <3>1, AdvanceIn
    <3>3. in'[j].st = "routed" /\ in'[j].front = in[j].front
        BY <3>2, RequestTypes DEF Inbounds
    <3> QED BY <1>1, <3>1, <3>2, <3>3 DEF Started
  <2>3. CASE \E j \in DOMAIN in : StartInbound(j)
    <3>1. PICK j \in DOMAIN in : StartInbound(j)
        BY <2>3
    <3>2. /\ in[j].st = "routed" /\ in'[j].st = "started"
          /\ \A k \in DOMAIN in : k # j => in'[k] = in[k]
        BY <3>1, StartInboundIn
    <3> QED BY <1>1, <3>1, <3>2 DEF Started
  <2>4. CASE \E j \in DOMAIN in : WriteInbound(j)
    <3>1. PICK j \in DOMAIN in : WriteInbound(j)
        BY <2>4
    <3>2. in[j].st = "started" /\ \A k \in DOMAIN in : k # j => in'[k] = in[k]
        BY <3>1, AdvanceIn DEF WriteInbound
    <3> QED BY <1>1, <3>2 DEF Started
  <2>5. CASE Tick
      BY <1>1, <2>5, TickIn
  <2>6. CASE in' = in
      BY <1>1, <2>6
  <2> QED BY <2>1, <2>2, <2>3, <2>4, <2>5, <2>6, ContextSteps DEF ReadOutbound,
         StartOutbound, Respond, CleanTracing, CleanRoutes, cvars
<1>2. ASSUME NEW o \in DOMAIN out, out[o].st = "routed"
      PROVE  /\ out'[o].st = "sent" => StartOutbound(o)
             /\ out'[o].st = "routed" => out'[o].front = out[o].front
  <2>1. CASE \E i \in DOMAIN in, c \in OutConns, req \in OutKinds : ReadOutbound(i, c, req)
      BY <1>2, <2>1, ReadOutboundOut
  <2>2. CASE \E k \in DOMAIN out : StartOutbound(k)
      BY <1>2, <2>2, StartOutboundOut
  <2>3. CASE out' = out
      BY <1>2, <2>3
  <2> QED BY <2>1, <2>2, <2>3, ContextSteps DEF ReadInbound, StoreRoute, StartInbound,
         WriteInbound, Respond, Tick, CleanTracing, CleanRoutes, cvars
<1> QED BY <1>1, <1>2 DEF Started

(* Ids stay what they were given.                                          *)
LEMMA OwnIdsStep == ContextTypeOK /\ OwnIds /\ [ContextNext]_cvars => OwnIds'
<1> SUFFICES ASSUME ContextTypeOK, OwnIds, [ContextNext]_cvars, NEW i \in DOMAIN in'
             PROVE  in'[i].rid \in Rids \union ({"uuid"} \X Nat)
    BY DEF OwnIds
<1>1. CASE i \in DOMAIN in
    BY <1>1, InStep DEF InKeeps, OwnIds
<1>2. CASE i \notin DOMAIN in
    BY <1>2, NewRequests DEF NewIn
<1> QED BY <1>1, <1>2

(* Nothing is set before the span of a request is started.                 *)
LEMMA UntouchedStep == ContextTypeOK /\ Untouched /\ [ContextNext]_cvars => Untouched'
<1> SUFFICES ASSUME ContextTypeOK, Untouched, [ContextNext]_cvars PROVE Untouched'
    OBVIOUS
<1>1. InKeeps /\ OutKeeps
    BY InStep, OutStep
<1>2. ASSUME NEW i \in DOMAIN in'
      PROVE  /\ in'[i].st = "read" => in'[i].stored = 0
             /\ in'[i].st \notin Started => in'[i].started = 0 /\ in'[i].front = 0
  <2>1. CASE i \notin DOMAIN in
      BY <2>1, NewRequests DEF NewIn
  <2>2. CASE i \in DOMAIN in
    <3>1. in[i].st \in {"read", "routed", "started", "sent"}
        BY <2>2, RequestTypes DEF Inbounds
    <3>2. in'[i].st = "read" => in[i].st = "read"
        BY <1>1, <2>2 DEF InKeeps
    <3>3. in'[i].st \notin Started => in[i].st \notin Started
        BY <1>1, <2>2 DEF InKeeps
    <3>4. in'[i].st \notin Started => in'[i].front = 0
        BY <2>2, <3>3, NewSpans DEF Untouched
    <3>5. CASE Tick
        BY <2>2, <3>1, <3>2, <3>3, <3>4, <3>5, TickIn DEF Started
    <3>6. CASE ~Tick
        BY <1>1, <2>2, <3>2, <3>3, <3>4, <3>6 DEF InKeeps, Untouched
    <3> QED BY <3>5, <3>6
  <2> QED BY <2>1, <2>2
<1>3. ASSUME NEW o \in DOMAIN out', out'[o].st = "routed"
      PROVE  out'[o].front = 0
  <2>1. CASE o \notin DOMAIN out
      BY <2>1, NewRequests DEF NewOut
  <2>2. CASE o \in DOMAIN out
    <3>1. out[o].st = "routed"
        BY <1>1, <1>3, <2>2, RequestTypes DEF OutKeeps, Outbounds
    <3> QED BY <1>3, <2>2, <3>1, NewSpans DEF Untouched
  <2> QED BY <2>1, <2>2
<1> QED BY <1>2, <1>3 DEF Untouched

(* The trace of a request that was in front of its queue is its own.       *)
LEMMA OwnTraceStep ==
    ContextTypeOK /\ OwnTrace /\ [ContextNext]_cvars => OwnTrace'
<1> SUFFICES ASSUME ContextTypeOK, OwnTrace, [ContextNext]_cvars, NEW i \in DOMAIN in',
                    in'[i].st \in Started, in'[i].front = i, in'[i].req.wire # None
             PROVE  in'[i].trace = in'[i].req.wire
    BY DEF OwnTrace
<1>1. InKeeps
    BY InStep
<1>2. i \in DOMAIN in
    BY NewRequests DEF NewIn, Started
<1>3. CASE in[i].st \in Started
    BY <1>1, <1>2, <1>3 DEF InKeeps, OwnTrace
<1>4. CASE in[i].st \notin Started
  <2>1. StartInbound(i)
      BY <1>2, <1>4, NewSpans
  <2>2. in'[i].trace = TraceOf(i, i)
      BY <1>2, <2>1, StartInboundIn
  <2>3. in'[i].req = in[i].req
      BY <1>1, <1>2 DEF InKeeps
  <2> QED BY <2>2, <2>3 DEF TraceOf
<1> QED BY <1>3, <1>4

(* The context of a request is stored when its span is started and then    *)
(* only gets older.                                                        *)
LEMMA TraceKeptStep ==
    ContextTypeOK /\ Untouched /\ TraceKept /\ [ContextNext]_cvars => TraceKept'
<1> SUFFICES ASSUME ContextTypeOK, Untouched, TraceKept, [ContextNext]_cvars,
                    NEW i \in DOMAIN in', in'[i].st \in Started, UniqueRid(i)',
                    InFront(in', i), in'[i].started <= Expiration
             PROVE  tracing'[in'[i].rid] =
                        [val |-> [trace |-> in'[i].trace, span |-> i],
                         left |-> Expiration - in'[i].started]
    BY DEF TraceKept
<1>1. InKeeps
    BY InStep
<1>2. i \in DOMAIN in
    BY NewRequests DEF NewIn, Started
<1>3. UniqueRid(i)
    BY <1>1, <1>2, UniqueBefore
<1>4. in'[i].rid = in[i].rid /\ in[i].rid \in AllRids /\ in[i].started \in Nat
    BY <1>1, <1>2, RequestTypes, ExpirationAssumption DEF InKeeps, Inbounds
<1>5. tracing \in [AllRids -> Entries(Contexts)]
    BY DEF ContextTypeOK
<1> DEFINE r == in[i].rid
           ctx == [trace |-> in[i].trace, span |-> i]
<1>6. CASE in[i].st \in Started
  <2>1. InFront(in, i) /\ in'[i].trace = in[i].trace
      BY <1>1, <1>2, <1>6, FrontBefore DEF InKeeps
  <2>2. in[i].started <= Expiration =>
            tracing[r] = [val |-> ctx, left |-> Expiration - in[i].started]
      BY <1>2, <1>3, <1>6, <2>1 DEF TraceKept
  <2> HIDE DEF ctx
  <2>3. CASE Tick
    <3>1. in'[i].started = Aged(in[i].started)
        BY <1>2, <1>6, <2>3, TickIn DEF Started
    <3>2. in[i].started <= Expiration /\ in'[i].started = in[i].started + 1
        BY <1>4, <3>1, ExpirationAssumption DEF Aged
    <3>3. tracing' = Passed(tracing)
        BY <2>3 DEF Tick, Passed
    <3>4. tracing'[r] = [val |-> tracing[r].val, left |-> Older(tracing[r].left)]
        BY <1>4, <1>5, <3>3, CacheTypes
    <3>5. tracing[r].val = ctx /\ tracing[r].left = Expiration - in[i].started
        BY <2>2, <3>2
    <3>6. Older(tracing[r].left) = Expiration - in'[i].started
        BY <1>4, <3>2, <3>5, ExpirationAssumption DEF Older
    <3> QED BY <1>4, <2>1, <3>4, <3>5, <3>6 DEF ctx
  <2>4. CASE ~Tick
    <3>1. in'[i].started = in[i].started
        BY <1>1, <1>2, <2>4 DEF InKeeps
    <3>2. tracing[r] = [val |-> ctx, left |-> Expiration - in[i].started]
        BY <2>2, <3>1
    <3>3. CASE tracing' = DeleteExpired(tracing)
      <4>1. tracing[r].left \in Nat
          BY <1>4, <3>1, <3>2, ExpirationAssumption
      <4>2. tracing'[r] = IF tracing[r].left < 0 THEN NoEntry ELSE tracing[r]
          BY <1>4, <1>5, <3>3, CacheTypes
      <4>3. tracing'[r] = tracing[r]
          BY <4>1, <4>2
      <4> QED BY <1>4, <2>1, <3>1, <3>2, <4>3 DEF ctx
    <3>4. ASSUME NEW j \in DOMAIN in, StartInbound(j)
          PROVE  tracing'[r] = tracing[r]
      <4>1. j # i
          BY <1>6, <3>4, StartInboundIn DEF Started
      <4>2. PICK f \in DOMAIN in : f = in'[j].front
          BY <3>4, StartInboundIn
      <4>3. f # i
          BY <1>1, <4>1, <4>2 DEF InFront, InKeeps
      <4>4. in[f].rid # r
          BY <1>3, <4>3 DEF UniqueRid
      <4>5. PICK v : v = [trace |-> in'[j].trace, span |-> j]
          OBVIOUS
      <4>6. tracing' = SetDefault(tracing, in[f].rid, v)
          BY <3>4, <4>2, <4>5, StartInboundIn
      <4>7. in[f].rid \in AllRids
          BY <4>2, RequestTypes DEF Inbounds
      <4>8. PICK g \in AllRids : g = in[f].rid
          BY <4>7
      <4>9. PICK k \in AllRids : k = r
          BY <1>4
      <4>10. tracing' = SetDefault(tracing, g, v) /\ k # g
          BY <4>4, <4>6, <4>8, <4>9
      <4>11. tracing'[k] = tracing[k]
          BY <1>5, <4>10 DEF SetDefault
      <4> QED BY <4>9, <4>11
    <3>5. tracing' = DeleteExpired(tracing) \/ tracing'[r] = tracing[r]
        BY <2>4, <3>4, TracingStep
    <3> QED BY <1>4, <2>1, <3>1, <3>2, <3>3, <3>5 DEF ctx
  <2> QED BY <2>3, <2>4
<1>7. CASE in[i].st \notin Started
  <2>1. StartInbound(i)
      BY <1>2, <1>7, NewSpans
  <2>2. in'[i].front = i
      BY DEF InFront
  <2>3. in'[i].started = 0
      BY <1>2, <1>7, <2>1, StartInboundIn DEF Untouched
  <2>4. PICK v : v = [trace |-> in'[i].trace, span |-> i]
      OBVIOUS
  <2>5. v \in Contexts /\ tracing' = SetDefault(tracing, r, v)
      BY <1>2, <2>1, <2>2, <2>4, StartInboundIn, RequestTypes DEF Contexts
  <2>6. tracing'[r] = [val |-> v, left |-> Expiration]
      BY <1>4, <1>5, <2>5, CacheTypes
  <2> QED BY <1>4, <2>3, <2>4, <2>6, ExpirationAssumption
<1> QED BY <1>6, <1>7

(* What a step does to the routing cache under an id it stores nothing for. *)
LEMMA RouteAges ==
    ASSUME ContextTypeOK, [ContextNext]_cvars, NEW r \in AllRids,
           \A j \in DOMAIN in : StoreRoute(j) => in[j].rid # r
    PROVE  /\ Tick => routes'[r] = [val |-> routes[r].val, left |-> Older(routes[r].left)]
           /\ ~Tick => \/ routes'[r] = routes[r]
                       \/ routes'[r] = NoEntry /\ routes[r].left < 0
           /\ routes[r] = NoEntry => routes'[r] = NoEntry
<1>1. routes \in [AllRids -> Entries(Brought)]
    BY DEF ContextTypeOK
<1>2. ASSUME Tick
      PROVE  routes'[r] = [val |-> routes[r].val, left |-> Older(routes[r].left)]
  <2>1. routes' = Passed(routes)
      BY <1>2, Zenon DEF Tick, Passed
  <2> QED BY <1>1, <2>1, CacheTypes
<1>3. ASSUME ~Tick
      PROVE  \/ routes'[r] = routes[r]
             \/ routes'[r] = NoEntry /\ routes[r].left < 0
  <2>1. CASE routes' = DeleteExpired(routes)
    <3>1. routes'[r] = IF routes[r].left < 0 THEN NoEntry ELSE routes[r]
        BY <1>1, <2>1, CacheTypes
    <3> QED BY <3>1
  <2>2. ASSUME NEW j \in DOMAIN in, StoreRoute(j),
               routes' = SetDefault(routes, in[j].rid, in[j].value)
        PROVE  routes'[r] = routes[r]
      BY <1>1, <2>2 DEF SetDefault
  <2> QED BY <1>3, <2>1, <2>2, RoutesStep
<1>4. ASSUME routes[r] = NoEntry PROVE routes'[r] = NoEntry
  <2>1. routes[r].val = None /\ routes[r].left = -1 /\ Older(-1) = -1
      BY <1>4 DEF NoEntry, Older
  <2> QED BY <1>2, <1>3, <1>4, <2>1 DEF NoEntry
<1> QED BY <1>2, <1>3, <1>4

(* No step stores a route for an id nobody has sent.                       *)
LEMMA NoRouteStep == ContextTypeOK /\ NoRoute /\ [ContextNext]_cvars => NoRoute'
<1> SUFFICES ASSUME ContextTypeOK, NoRoute, [ContextNext]_cvars, NEW r \in AllRids,
                    \A k \in DOMAIN in' : in'[k].rid # r
             PROVE  routes'[r] = NoEntry
    BY DEF NoRoute, AllRids
<1>1. \A k \in DOMAIN in : in[k].rid # r
    BY InStep DEF InKeeps
<1>2. routes[r] = NoEntry
    BY <1>1 DEF NoRoute
<1> QED BY <1>1, <1>2, RouteAges

(* What a request asks for is a routing value.                             *)
LEMMA AskedTypes ==
    /\ \A k \in InKinds : Asked(k) \in Values
    /\ \A k \in OutKinds : Asked(k) \in Values
BY KindTypes DEF Asked

(* A new request with an id of its own has the value it asks for, and      *)
(* nothing is remembered for its id.                                       *)
LEMMA RouteRead ==
    ASSUME ContextTypeOK, NoRoute, [ContextNext]_cvars,
           NEW i \in DOMAIN in', i \notin DOMAIN in, UniqueRid(i)'
    PROVE  /\ in'[i].st = "read" /\ in'[i].value = Asked(in'[i].req)
           /\ routes'[in'[i].rid] = NoEntry
<1>1. PICK req \in InKinds : NewIn(i, req)
    BY NewRequests
<1>2. routes' = routes
    BY NewRequests
<1>3. PICK r \in AllRids : r = in'[i].rid
    BY <1>1 DEF NewIn
<1>4. ASSUME NEW k \in DOMAIN in PROVE in[k].rid # r
  <2>1. k \in DOMAIN in' /\ in'[k].rid = in[k].rid /\ k # i
      BY InStep DEF InKeeps
  <2> QED BY <1>3, <2>1 DEF UniqueRid
<1>5. routes[r] = NoEntry
    BY <1>4 DEF NoRoute
<1>6. Get(routes, r) = None
    BY <1>5 DEF Get, NoEntry
<1>7. in'[i].value = RoutingValue(req, r) /\ in'[i].req = req /\ in'[i].st = "read"
    BY <1>1, <1>3 DEF NewIn
<1>8. RoutingValue(req, r) = Asked(req)
    BY <1>6, RoutingValueIs
<1> QED BY <1>2, <1>3, <1>5, <1>7, <1>8

(* A request with an id of its own that has its route stored.              *)
LEMMA RouteStored ==
    ASSUME ContextTypeOK, Untouched, RouteKept, [ContextNext]_cvars,
           NEW i \in DOMAIN in, UniqueRid(i), StoreRoute(i)
    PROVE  /\ in'[i].st = "routed" /\ in'[i].stored = 0
           /\ Asked(in[i].req) # None /\ Acceptable(Asked(in[i].req), in[i].req.host)
                => routes'[in[i].rid] = [val |-> Asked(in[i].req), left |-> Expiration]
           /\ ~(Asked(in[i].req) # None /\ Acceptable(Asked(in[i].req), in[i].req.host))
                => routes'[in[i].rid] = NoEntry
<1>1. in[i].st = "read" /\ in[i] \in Inbounds
    BY RequestTypes DEF StoreRoute
<1>2. in[i].value = Asked(in[i].req) /\ routes[in[i].rid] = NoEntry /\ in[i].stored = 0
    BY <1>1 DEF RouteKept, Untouched
<1>3. in'[i].st = "routed" /\ in'[i].stored = 0
    BY <1>1, <1>2, AdvanceIn DEF Inbounds
<1>4. PICK value \in Values : value = Asked(in[i].req)
    BY <1>1, AskedTypes DEF Inbounds
<1>5. getRoutingDestination(value, in[i].req.host).err <=> ~Acceptable(value, in[i].req.host)
    BY DestinationFound
<1>6. PICK r \in AllRids : r = in[i].rid
    BY <1>1 DEF Inbounds
<1>7. routes \in [AllRids -> Entries(Brought)]
    BY DEF ContextTypeOK
<1>8. routes' = IF value # None /\ Acceptable(value, in[i].req.host)
                THEN SetDefault(routes, r, value) ELSE routes
    BY <1>2, <1>4, <1>5, <1>6 DEF StoreRoute
<1>9. SetDefault(routes, r, value)[r] = [val |-> value, left |-> Expiration]
    BY <1>7 DEF SetDefault
<1> QED BY <1>2, <1>3, <1>4, <1>6, <1>8, <1>9

(* The entry of a stored route only gets older.                            *)
LEMMA RouteRemembered ==
    ASSUME ContextTypeOK, RouteKept, [ContextNext]_cvars,
           NEW i \in DOMAIN in, UniqueRid(i), in[i].st # "read"
    PROVE  /\ Remembered(i)' =>
                routes'[in[i].rid] = [val |-> Asked(in[i].req),
                                      left |-> Expiration - in'[i].stored]
           /\ ~Remembered(i)' => Get(routes', in[i].rid) = None
<1>1. in'[i].req = in[i].req
    BY InStep DEF InKeeps
<1>2. in[i].stored \in Nat /\ in'[i].stored \in Nat
  <2>1. in[i] \in Inbounds
      BY RequestTypes
  <2>2. Tick => in'[i].stored = Aged(in[i].stored)
      BY TickIn
  <2>3. ~Tick => in'[i].stored = in[i].stored
      BY InStep DEF InKeeps
  <2> QED BY <2>1, <2>2, <2>3, ExpirationAssumption DEF Inbounds, Aged
<1>3. PICK r \in AllRids : r = in[i].rid
    BY RequestTypes DEF Inbounds
<1>4. \A j \in DOMAIN in : StoreRoute(j) => in[j].rid # r
    BY <1>3 DEF StoreRoute, UniqueRid
<1> DEFINE good == Asked(in[i].req) # None /\ Acceptable(Asked(in[i].req), in[i].req.host)
<1>5. /\ Remembered(i) <=> good /\ in[i].stored <= Expiration
      /\ Remembered(i)' <=> good /\ in'[i].stored <= Expiration
    BY <1>1, Zenon DEF Remembered
<1>6. /\ Remembered(i) => routes[r] = [val |-> Asked(in[i].req),
                                       left |-> Expiration - in[i].stored]
      /\ ~Remembered(i) => Get(routes, r) = None
    BY <1>3 DEF RouteKept
<1>7. routes[r].left \in Int
    BY GetType, ExpirationAssumption DEF Entries
<1> HIDE DEF good
<1>8. CASE Tick
  <2>1. routes'[r] = [val |-> routes[r].val, left |-> Older(routes[r].left)]
      BY <1>4, <1>8, RouteAges
  <2>2. in'[i].stored = Aged(in[i].stored)
      BY <1>8, TickIn
  <2>3. CASE Remembered(i)
    <3>1. /\ routes'[r].val = Asked(in[i].req)
          /\ routes'[r].left = Expiration - in[i].stored - 1
          /\ in'[i].stored = in[i].stored + 1
        BY <1>2, <1>5, <1>6, <2>1, <2>2, <2>3, ExpirationAssumption DEF Older, Aged
    <3>2. Remembered(i)' => routes'[r] = [val |-> Asked(in[i].req),
                                          left |-> Expiration - in'[i].stored]
        BY <1>2, <2>1, <3>1, ExpirationAssumption
    <3>3. ~Remembered(i)' => ~(routes'[r].left >= 0)
        BY <1>2, <1>5, <2>3, <3>1, ExpirationAssumption
    <3> QED BY <1>3, <3>2, <3>3 DEF Get
  <2>4. CASE ~Remembered(i)
    <3>1. ~Remembered(i)'
        BY <1>2, <1>5, <2>2, <2>4, ExpirationAssumption DEF Aged
    <3>2. routes[r].left < 0 => ~(routes'[r].left >= 0)
        BY <1>7, <2>1 DEF Older
    <3>3. routes[r].left >= 0 => routes'[r].val = None
        BY <1>6, <2>1, <2>4 DEF Get
    <3> QED BY <1>3, <1>7, <3>1, <3>2, <3>3 DEF Get
  <2> QED BY <2>3, <2>4
<1>9. CASE ~Tick
  <2>1. routes'[r] = routes[r] \/ (routes'[r] = NoEntry /\ routes[r].left < 0)
      BY <1>4, <1>9, RouteAges
  <2>2. in'[i].stored = in[i].stored
      BY <1>9, InStep DEF InKeeps
  <2>3. Remembered(i)' <=> Remembered(i)
      BY <1>5, <2>2
  <2>4. CASE Remembered(i)
    <3>1. routes[r].left >= 0
        BY <1>2, <1>5, <1>6, <2>4, ExpirationAssumption
    <3>2. routes'[r] = routes[r]
        BY <1>7, <2>1, <3>1
    <3> QED BY <1>3, <1>6, <2>2, <2>3, <2>4, <3>2
  <2>5. CASE ~Remembered(i)
    <3>1. Get(routes', r) = None
        BY <1>6, <2>1, <2>5 DEF Get, NoEntry
    <3> QED BY <1>3, <2>3, <2>5, <3>1
  <2> QED BY <2>4, <2>5
<1> QED BY <1>8, <1>9

(* Routes are remembered.                                                  *)
LEMMA RouteKeptStep ==
    ContextTypeOK /\ Untouched /\ NoRoute /\ RouteKept /\ [ContextNext]_cvars => RouteKept'
<1> SUFFICES ASSUME ContextTypeOK, Untouched, NoRoute, RouteKept, [ContextNext]_cvars,
                    NEW i \in DOMAIN in', UniqueRid(i)'
             PROVE  /\ in'[i].st = "read" =>
                          /\ in'[i].value = Asked(in'[i].req)
                          /\ routes'[in'[i].rid] = NoEntry
                    /\ in'[i].st # "read" /\ Remembered(i)' =>
                          routes'[in'[i].rid] = [val |-> Asked(in'[i].req),
                                                 left |-> Expiration - in'[i].stored]
                    /\ in'[i].st # "read" /\ ~Remembered(i)' =>
                          Get(routes', in'[i].rid) = None
    BY DEF RouteKept
<1>1. CASE i \notin DOMAIN in
    BY <1>1, RouteRead
<1>2. CASE i \in DOMAIN in
  <2>1. /\ in'[i].req = in[i].req /\ in'[i].rid = in[i].rid /\ in'[i].value = in[i].value
        /\ in[i].st # "read" => in'[i].st # "read"
      BY <1>2, InStep DEF InKeeps
  <2>2. UniqueRid(i)
      BY <1>2, InStep, UniqueBefore
  <2>3. CASE in'[i].st = "read"
    <3>1. in[i].st = "read"
        BY <2>1, <2>3
    <3>2. in[i].value = Asked(in[i].req) /\ routes[in[i].rid] = NoEntry
        BY <1>2, <2>2, <3>1 DEF RouteKept
    <3>3. in[i].rid \in AllRids
        BY <1>2, RequestTypes DEF Inbounds
    <3>4. ~StoreRoute(i)
        BY <1>2, <2>2, <2>3, RouteStored
    <3>5. \A j \in DOMAIN in : StoreRoute(j) => in[j].rid # in[i].rid
        BY <2>2, <3>4 DEF UniqueRid
    <3>6. routes'[in[i].rid] = NoEntry
        BY <3>2, <3>3, <3>5, RouteAges
    <3> QED BY <2>1, <2>3, <3>2, <3>6
  <2>4. CASE in'[i].st # "read" /\ in[i].st = "read"
    <3>1. StoreRoute(i)
        BY <1>2, <2>4, NewSpans
    <3> DEFINE good == /\ Asked(in[i].req) # None
                       /\ Acceptable(Asked(in[i].req), in[i].req.host)
    <3>2. /\ in'[i].stored = 0
          /\ good => routes'[in[i].rid] = [val |-> Asked(in[i].req), left |-> Expiration]
          /\ ~good => routes'[in[i].rid] = NoEntry
        BY <1>2, <2>2, <3>1, RouteStored
    <3>3. Remembered(i)' <=> good /\ in'[i].stored <= Expiration
        BY <2>1, Zenon DEF Remembered
    <3> HIDE DEF good
    <3>4. Remembered(i)' <=> good
        BY <3>2, <3>3, ExpirationAssumption
    <3>5. Expiration - in'[i].stored = Expiration
        BY <3>2, ExpirationAssumption
    <3>6. routes'[in[i].rid] = NoEntry => Get(routes', in[i].rid) = None
        BY DEF Get, NoEntry
    <3> QED BY <2>1, <2>4, <3>2, <3>4, <3>5, <3>6
  <2>5. CASE in[i].st # "read"
      BY <1>2, <2>1, <2>2, <2>5, RouteRemembered
  <2> QED BY <2>3, <2>4, <2>5
<1> QED BY <1>1, <1>2

-----------------------------------------------------------------------------
(* The context of an inbound request is in the header of an outbound       *)
(* request that carries its id, in time.                                   *)
LEMMA ContextFound ==
    ASSUME ContextTypeOK, Caused, OwnTrace, TraceKept,
           NEW o \in DOMAIN out, NEW i \in DOMAIN in, i = out[o].cause,
           out[o].req.passes, UniqueRid(i), InFront(in, i), in[i].started <= Expiration
    PROVE  /\ HeaderOf(o) # {}
           /\ \A ctx \in HeaderOf(o) :
                 ctx.trace = in[i].trace /\ (ctx.span = i \/ out[o].req.own)
<1> DEFINE own == [trace |-> in[i].req.wire, span |-> 0]
           kept == [trace |-> in[i].trace, span |-> i]
<1>1. in[i].st = "sent" /\ out[o].rid = in[i].rid
    BY DEF Caused
<1>2. tracing[in[i].rid] = [val |-> kept, left |-> Expiration - in[i].started]
    BY <1>1 DEF TraceKept, Started
<1>3. in[i].started \in Nat
    BY RequestTypes, ExpirationAssumption DEF Inbounds
<1>4. kept # None
    BY DEF None
<1>5. own.trace = in[i].req.wire /\ kept.trace = in[i].trace /\ kept.span = i
    OBVIOUS
<1>6. in[i].req.wire # None => own.trace = in[i].trace
    BY <1>1 DEF OwnTrace, Started, InFront
<1> HIDE DEF own, kept
<1>7. Get(tracing, out[o].rid) = kept
  <2>1. tracing[in[i].rid].val = kept /\ tracing[in[i].rid].left >= 0
      BY <1>2, <1>3, ExpirationAssumption
  <2> QED BY <1>1, <2>1 DEF Get
<1>8. HeaderOf(o) = (IF out[o].req.own /\ in[i].req.wire # None THEN {own} ELSE {})
                    \union {kept}
    BY <1>4, <1>7 DEF HeaderOf, own
<1> QED BY <1>5, <1>6, <1>8

(* A request joins the trace when its span is started and stays in it.     *)
LEMMA TraceContinuedStep ==
    /\ ContextTypeOK /\ Untouched /\ Caused /\ OwnTrace /\ TraceKept /\ TraceContinued
    /\ [ContextNext]_cvars
    => TraceContinued'
<1> SUFFICES ASSUME ContextTypeOK, Untouched, Caused, OwnTrace, TraceKept, TraceContinued,
                    [ContextNext]_cvars, NEW o \in DOMAIN out', NEW i, i = out'[o].cause,
                    out'[o].st = "sent", out'[o].req.passes, out'[o].inTime,
                    UniqueRid(i)', InFront(in', i), InFront(out', o)
             PROVE  out'[o].trace = in'[i].trace /\ (out'[o].parent = i \/ out'[o].req.own)
    BY DEF TraceContinued
<1>1. InKeeps /\ OutKeeps
    BY InStep, OutStep
<1>2. o \in DOMAIN out
    BY NewRequests DEF NewOut
<1>3. i = out[o].cause /\ i \in DOMAIN in /\ out'[o].req = out[o].req
    BY <1>1, <1>2 DEF OutKeeps, ContextTypeOK
<1>4. in[i].st = "sent"
    BY <1>2, <1>3 DEF Caused
<1>5. in'[i].trace = in[i].trace
    BY <1>1, <1>3, <1>4 DEF InKeeps, Started
<1>6. UniqueRid(i) /\ InFront(in, i)
    BY <1>1, <1>3, <1>4, UniqueBefore, FrontBefore DEF Started
<1>7. CASE out[o].st = "sent"
  <2>1. InFront(out, o)
      BY <1>1, <1>2, <1>7, FrontBefore
  <2>2. /\ out'[o].trace = out[o].trace /\ out'[o].parent = out[o].parent
        /\ out'[o].inTime = out[o].inTime
      BY <1>1, <1>2, <1>7 DEF OutKeeps
  <2>3. out[o].trace = in[i].trace /\ (out[o].parent = i \/ out[o].req.own)
      BY <1>2, <1>3, <1>6, <1>7, <2>1, <2>2 DEF TraceContinued
  <2> QED BY <1>3, <1>5, <2>2, <2>3
<1>8. CASE out[o].st = "routed"
  <2>1. StartOutbound(o)
      BY <1>2, <1>8, NewSpans
  <2>2. in[i].started <= Expiration
      BY <1>2, <1>3, <2>1, StartOutboundOut
  <2>3. out'[o].front = o
      BY DEF InFront
  <2>4. /\ HeaderOf(o) # {}
        /\ \A ctx \in HeaderOf(o) :
              ctx.trace = in[i].trace /\ (ctx.span = i \/ out[o].req.own)
      BY <1>2, <1>3, <1>6, <2>2, ContextFound
  <2>5. \E ctx \in HeaderOf(o) : out'[o].trace = ctx.trace /\ out'[o].parent = ctx.span
      BY <1>2, <2>1, <2>3, <2>4, StartOutboundOut
  <2> QED BY <1>3, <1>5, <2>4, <2>5
<1> QED BY <1>2, <1>7, <1>8, RequestTypes DEF Outbounds

(* What is remembered for an outbound request made for inbound request i.  *)
LEMMA RouteFound ==
    ASSUME ContextTypeOK, OwnIds, NoRoute, RouteKept, NEW i \in DOMAIN in, UniqueRid(i),
           in[i].st = "sent", NEW req \in OutKinds, NEW o \in Nat, NEW r \in AllRids,
           r = IF req.passes THEN in[i].rid ELSE <<"uuid_out", o>>
    PROVE  Get(routes, r) =
               IF /\ req.passes /\ in[i].stored <= Expiration
                  /\ Acceptable(Asked(in[i].req), in[i].req.host)
               THEN Asked(in[i].req) ELSE None
<1>1. CASE ~req.passes
  <2>1. ASSUME NEW k \in DOMAIN in PROVE in[k].rid # <<"uuid_out", o>>
    <3>1. in[k].rid \in Rids \union ({"uuid"} \X Nat)
        BY DEF OwnIds
    <3>2. <<"uuid_out", o>> \notin Rids
        BY RidsAssumption
    <3>3. <<"uuid_out", o>> \notin {"uuid"} \X Nat
        OBVIOUS
    <3> QED BY <3>1, <3>2, <3>3
  <2>2. routes[r] = NoEntry
      BY <1>1, <2>1 DEF NoRoute
  <2> QED BY <1>1, <2>2 DEF Get, NoEntry
<1>2. CASE req.passes /\ Remembered(i)
  <2>1. routes[r] = [val |-> Asked(in[i].req), left |-> Expiration - in[i].stored]
      BY <1>2 DEF RouteKept
  <2>2. in[i].stored \in Nat /\ in[i].stored <= Expiration
      BY <1>2, RequestTypes, ExpirationAssumption DEF Inbounds, Remembered
  <2>3. routes[r].val = Asked(in[i].req) /\ routes[r].left >= 0
      BY <2>1, <2>2, ExpirationAssumption
  <2> QED BY <1>2, <2>3 DEF Get, Remembered
<1>3. CASE req.passes /\ ~Remembered(i)
  <2>1. Get(routes, r) = None
      BY <1>3 DEF RouteKept
  <2> QED BY <1>3, <2>1 DEF Remembered
<1> QED BY <1>1, <1>2, <1>3

(* The destination of a request is decided when it is read.                *)
LEMMA RouteFollowsStep ==
    /\ ContextTypeOK /\ OwnIds /\ NoRoute /\ RouteKept /\ RouteFollows
    /\ [ContextNext]_cvars
    => RouteFollows'
<1> DEFINE Inherited(i, req, kept) ==
               IF req.passes /\ kept /\ Acceptable(Asked(i), i.host) THEN Asked(i) ELSE None
           Value(i, req, kept) ==
               IF Asked(req) # None THEN Asked(req) ELSE Inherited(i, req, kept)
<1> SUFFICES ASSUME ContextTypeOK, OwnIds, NoRoute, RouteKept, RouteFollows,
                    [ContextNext]_cvars, NEW o \in DOMAIN out', NEW i, i = out'[o].cause,
                    UniqueRid(i)'
             PROVE  out'[o].dst = Destination(Value(in'[i].req, out'[o].req, out'[o].inRoute),
                                              out'[o].req.host)
    BY Zenon DEF RouteFollows
<1>1. CASE o \in DOMAIN out
  <2>1. /\ out'[o].req = out[o].req /\ out'[o].dst = out[o].dst
        /\ out'[o].inRoute = out[o].inRoute /\ i = out[o].cause /\ i \in DOMAIN in
      BY <1>1, OutStep DEF OutKeeps, ContextTypeOK
  <2>2. in'[i].req = in[i].req /\ UniqueRid(i)
      BY <2>1, InStep, UniqueBefore DEF InKeeps
  <2>3. out[o].dst = Destination(Value(in[i].req, out[o].req, out[o].inRoute), out[o].req.host)
      BY <1>1, <2>1, <2>2, Zenon DEF RouteFollows
  <2> QED BY <2>1, <2>2, <2>3
<1>2. CASE o \notin DOMAIN out
  <2>1. PICK k \in DOMAIN in, req \in OutKinds : NewOut(o, k, req) /\ in[k].st = "sent"
      BY <1>2, NewRequests
  <2>2. in' = in
      BY <1>2, NewRequests
  <2>3. k = i /\ out'[o].req = req /\ out'[o].inRoute = (in[i].stored <= Expiration)
      BY <2>1 DEF NewOut
  <2>4. PICK r \in AllRids : r = out'[o].rid
      BY <2>1 DEF NewOut
  <2>5. r = IF req.passes THEN in[i].rid ELSE <<"uuid_out", o>>
      BY <2>1, <2>3, <2>4 DEF NewOut
  <2>6. o \in Nat
      BY OutStep, LenProperties DEF OutKeeps
  <2>7. UniqueRid(i)
      BY <2>2 DEF UniqueRid
  <2>8. Get(routes, r) = Inherited(in[i].req, req, in[i].stored <= Expiration)
      BY <2>1, <2>3, <2>5, <2>6, <2>7, RouteFound
  <2> HIDE DEF Inherited
  <2>9. RoutingValue(req, r) = Value(in[i].req, req, in[i].stored <= Expiration)
      BY <2>8, RoutingValueIs
  <2>10. out'[o].dst = Destination(RoutingValue(req, r), req.host)
      BY <2>1, <2>4 DEF NewOut
  <2> HIDE DEF Value
  <2> QED BY <2>2, <2>3, <2>9, <2>10
<1> QED BY <1>1, <1>2

(* Nothing has been read at the start.                                     *)
LEMMA ContextInitially == ContextInit => ContextInv
<1> SUFFICES ASSUME ContextInit PROVE ContextInv
    OBVIOUS
<1>1. in = <<>> /\ out = <<>> /\ DOMAIN in = {} /\ DOMAIN out = {}
    BY DEF ContextInit
<1>2. NoEntry \in Entries(Brought) /\ NoEntry \in Entries(Contexts) /\ NoEntry.val = None
    BY ExpirationAssumption DEF NoEntry, Entries
<1>3. ContextTypeOK
  <2>1. in \in Seq(Inbounds) /\ out \in Seq(Outbounds)
      BY <1>1
  <2>2. \A S : <<>> \in Seq(S)
      OBVIOUS
  <2>3. /\ routes \in [AllRids -> Entries(Brought)] /\ tracing \in [AllRids -> Entries(Contexts)]
        /\ \A r \in AllRids : tracing[r].val = None
      BY <1>2 DEF ContextInit
  <2>4. /\ queue \in [InConns \union OutConns -> Seq(Nat)]
        /\ \A c \in InConns \union OutConns : queue[c] = <<>>
      BY <2>2 DEF ContextInit
  <2> QED BY <1>1, <2>1, <2>2, <2>3, <2>4 DEF ContextTypeOK
<1>4. OwnIds /\ Untouched /\ Caused /\ OwnTrace /\ TraceKept
    BY <1>1 DEF OwnIds, Untouched, Caused, OwnTrace, TraceKept
<1>5. NoRoute
    BY DEF NoRoute, ContextInit
<1>6. RouteKept /\ TraceContinued /\ RouteFollows
    BY <1>1 DEF RouteKept, TraceContinued, RouteFollows
<1> QED BY <1>3, <1>4, <1>5, <1>6 DEF ContextInv

(* The inductive invariant.                                                *)
LEMMA ContextInvariant == ContextSpec => []ContextInv
<1>1. ContextInv /\ [ContextNext]_cvars => ContextInv'
    BY TypeStep, OwnIdsStep, UntouchedStep, CausedStep, OwnTraceStep, TraceKeptStep,
       NoRouteStep, RouteKeptStep, TraceContinuedStep, RouteFollowsStep DEF ContextInv
<1> QED BY <1>1, ContextInitially, PTL DEF ContextSpec

(* The caches hold what their clients store in them, entries live no       *)
(* longer than the expiration and the queues hold requests of their own    *)
(* connections' side.                                                      *)
THEOREM ContextTypes == ContextSpec => []ContextTypeOK
<1>1. ContextInv => ContextTypeOK
    BY DEF ContextInv
<1> QED BY <1>1, ContextInvariant, PTL

(* Whatever requests other sessions handle and whenever the caches are     *)
(* cleaned, an outbound request with the id of the inbound request it is   *)
(* made for is in that request's trace.                                    *)
THEOREM TraceIsContinued == ContextSpec => []TraceContinued
<1>1. ContextInv => TraceContinued
    BY DEF ContextInv
<1> QED BY <1>1, ContextInvariant, PTL

(* And it goes where it asks to go, or else where that request asked the   *)
(* requests made for it to go.                                             *)
THEOREM RouteIsFollowed == ContextSpec => []RouteFollows
<1>1. ContextInv => RouteFollows
    BY DEF ContextInv
<1> QED BY <1>1, ContextInvariant, PTL
=============================================================================
