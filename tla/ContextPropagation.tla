------------------------- MODULE ContextPropagation -------------------------
(***************************************************************************)
(* How the sidecar ties the requests an application makes to the request   *)
(* it is serving (pkg/protocol/http.go): inbound sessions store a tracing  *)
(* context and a routing value under the request id, outbound sessions     *)
(* look them up.  All sessions share the two caches (go-cache), whose      *)
(* entries expire; the application passes the request id on, or not.       *)
(*                                                                         *)
(* Connections, bodies and responses are those of HTTPSession, seen here   *)
(* only as the queue of requests of each connection; a response pops it.   *)
(* Times are in ticks: an entry holds the ticks it has left and is expired *)
(* below 0.  A name is a host with its port, 0 if it has none; a routing   *)
(* value is a sequence of pairs, each the names between its "=" signs.     *)
(***************************************************************************)
EXTENDS Integers, Sequences, FiniteSets

CONSTANTS
    Rids,           \* request ids that clients send
    InKinds,        \* inbound requests: id, tracing header, host, routing
                    \*   cookie and header
    OutKinds,       \* outbound requests: are the id and the tracing header
                    \*   passed on, host, routing cookie and header
    CookieEnabled,  \* RoutingCookieEnabled
    Expiration,     \* of both caches, in ticks
    InConns, OutConns,
    Bounds          \* bounds: pairs of inbound and outbound requests

None == <<>>
Names == [host : STRING, port : Nat]
Values == Seq(Seq(Names))
InRequests == [rid : Rids \union {None}, wire : {k.wire : k \in InKinds},
               host : Names, cookie : Values, header : Values]
OutRequests == [passes : BOOLEAN, own : BOOLEAN,
                host : Names, cookie : Values, header : Values]

(* go-cache would keep entries for ever with a default expiration of 0.    *)
ASSUME ExpirationAssumption == Expiration \in Nat \ {0}
ASSUME BoundsAssumption == IsFiniteSet(Bounds) /\ Bounds \subseteq Nat \X Nat
ASSUME KindsAssumption == InKinds \subseteq InRequests /\ OutKinds \subseteq OutRequests

(* No client sends an id that netra makes up, and the two ports accept     *)
(* different connections.                                                  *)
ASSUME RidsAssumption == Rids \intersect ({"uuid", "uuid_out"} \X Nat) = {}
ASSUME ConnsAssumption == InConns \intersect OutConns = {}

VARIABLES
    tracing,    \* tracingContextMapping
    routes,     \* routingInfoContextMapping
    in, out,    \* the requests, in the order they were read
    queue       \* httpRequests of each connection

cvars == <<tracing, routes, in, out, queue>>

Within(m, n) == \E bound \in Bounds : m <= bound[1] /\ n <= bound[2]
AllRids == Rids \union ({"uuid"} \X UNION {1..bound[1] : bound \in Bounds})
                \union ({"uuid_out"} \X UNION {1..bound[2] : bound \in Bounds})
NoEntry == [val |-> None, left |-> -1]

ContextInit ==
    /\ tracing = [r \in AllRids |-> NoEntry]
    /\ routes = [r \in AllRids |-> NoEntry]
    /\ in = <<>> /\ out = <<>>
    /\ queue = [c \in InConns \union OutConns |-> <<>>]
-----------------------------------------------------------------------------
(* Mutant: an entry that outlives the expiration by a tick.                *)
SetDefaultLate(cache, r, v) == [cache EXCEPT ![r] = [val |-> v, left |-> Expiration + 1]]

(* The cache.  Set stores the entry with the default expiration.           *)
SetDefault(cache, r, v) == [cache EXCEPT ![r] = [val |-> v, left |-> Expiration]]

(* Mutant: what has expired is found until the janitor removes it.         *)
GetUnexpired(cache, r) == cache[r].val

Get(cache, r) == IF cache[r].left >= 0 THEN cache[r].val ELSE None

DeleteExpired(cache) == [r \in AllRids |-> IF cache[r].left < 0 THEN NoEntry
                                           ELSE cache[r]]

(* Older(n): one tick less; an age stops counting beyond the expiration.   *)
Older(n) == IF n < 0 THEN n ELSE n - 1
Aged(n) == IF n > Expiration THEN n ELSE n + 1
-----------------------------------------------------------------------------
(* The address, None for originalDst, or an error.  The loop over the pairs *)
(* stops at the first one that is incomplete or that is for the host.      *)
getRoutingDestination(value, host) ==
    LET stops == {k \in DOMAIN value :
                    \/ Len(value[k]) < 2
                    \/ value[k][1] # value[k][2] /\ host = value[k][1]}
        keyval == value[CHOOSE k \in stops : \A j \in stops : k <= j]
    IN IF stops = {} THEN [err |-> FALSE, addr |-> None]
       ELSE IF Len(keyval) < 2 THEN [err |-> TRUE, addr |-> None]
       ELSE [err |-> FALSE,
             addr |-> IF keyval[2].port = 0 THEN [keyval[2] EXCEPT !.port = 80]
                      ELSE keyval[2]]

(* The routing value of a request: its cookie, its header, or what an      *)
(* inbound request with its id brought.                                    *)
RoutingValue(req, r) ==
    IF CookieEnabled /\ req.cookie # None THEN req.cookie
    ELSE IF req.header # None THEN req.header
    ELSE Get(routes, r)
-----------------------------------------------------------------------------
(* A session reads its next request when the previous one is written.      *)
Ready(reqs, c) == \A k \in DOMAIN reqs : reqs[k].conn = c => reqs[k].st = "sent"

(* HandleRequest of an inbound session, up to the lookup of the routing    *)
(* value.  A request without an id gets one.                               *)
ReadInbound(c, req) ==
    LET i == Len(in) + 1
        rid == IF req.rid = None THEN <<"uuid", i>> ELSE req.rid
    IN /\ Within(i, Len(out)) /\ Ready(in, c)
       /\ in' = Append(in, [req |-> req, conn |-> c, rid |-> rid,
                            value |-> RoutingValue(req, rid), st |-> "read",
                            trace |-> None, front |-> 0, stored |-> 0, started |-> 0])
       /\ UNCHANGED <<tracing, routes, out, queue>>

(* The rest of the routing part: a value that getRoutingDestination        *)
(* accepts is stored.  The destination stays the original one.             *)
StoreRoute(i) ==
    /\ in[i].st = "read"
    /\ routes' = IF in[i].value # None
                    /\ ~getRoutingDestination(in[i].value, in[i].req.host).err
                 THEN SetDefault(routes, in[i].rid, in[i].value)
                 ELSE routes
    /\ in' = [in EXCEPT ![i].st = "routed"]
    /\ UNCHANGED <<tracing, out, queue>>

(* Mutant: the context is stored only if the span starts a trace.          *)
StartInboundOnlyRoots(i) ==
    LET q == Append(queue[in[i].conn], i)
        f == Head(q)
        trace == IF in[f].req.wire # None THEN in[f].req.wire ELSE <<"in", i>>
    IN /\ in[i].st = "routed"
       /\ queue' = [queue EXCEPT ![in[i].conn] = q]
       /\ tracing' = IF in[f].req.wire # None THEN tracing
                     ELSE SetDefault(tracing, in[f].rid, [trace |-> trace, span |-> i])
       /\ in' = [in EXCEPT ![i].st = "started", ![i].trace = trace, ![i].front = f]
       /\ UNCHANGED <<routes, out>>

(* SetHTTPRequest, StartRequest: the span is started from the header of    *)
(* the request in front of the queue, and its context is stored under the  *)
(* id of that request.  Without a trace in the header it starts one.       *)
StartInbound(i) ==
    LET q == Append(queue[in[i].conn], i)
        f == Head(q)
        trace == IF in[f].req.wire # None THEN in[f].req.wire ELSE <<"in", i>>
    IN /\ in[i].st = "routed"
       /\ queue' = [queue EXCEPT ![in[i].conn] = q]
       /\ tracing' = SetDefault(tracing, in[f].rid, [trace |-> trace, span |-> i])
       /\ in' = [in EXCEPT ![i].st = "started", ![i].trace = trace, ![i].front = f]
       /\ UNCHANGED <<routes, out>>

(* req.Write: the application has the request.                             *)
WriteInbound(i) ==
    /\ in[i].st = "started"
    /\ in' = [in EXCEPT ![i].st = "sent"]
    /\ UNCHANGED <<tracing, routes, out, queue>>

(* The application, serving request i, makes a request to host h: with or  *)
(* without i's id, and with or without the tracing header i came with.     *)
(* HandleRequest of an outbound session reads it and decides where it goes.*)
ReadOutbound(i, c, req) ==
    LET o == Len(out) + 1
        rid == IF req.passes THEN in[i].rid ELSE <<"uuid_out", o>>
        value == RoutingValue(req, rid)
        dest == getRoutingDestination(value, req.host)
    IN /\ in[i].st = "sent" /\ Within(Len(in), o) /\ Ready(out, c)
       /\ out' = Append(out, [req |-> req, conn |-> c, cause |-> i, rid |-> rid,
                              dst |-> IF value # None /\ ~dest.err THEN dest.addr ELSE None,
                              st |-> "routed", header |-> {}, trace |-> None, parent |-> 0,
                              front |-> 0, inRoute |-> in[i].stored <= Expiration,
                              inTime |-> FALSE])
       /\ UNCHANGED <<tracing, routes, in, queue>>

(* The tracing context found by the request id is added to the header (not *)
(* in the place of one that is there: the names differ in case), then      *)
(* SetHTTPRequest, StartRequest, Write.  Extract takes one of the tracing  *)
(* headers of the request in front; if there is none a trace is started    *)
(* and written to that request's header.                                   *)
StartOutbound(o) ==
    LET found == Get(tracing, out[o].rid)
        wire == in[out[o].cause].req.wire
        header == (IF out[o].req.own /\ wire # None THEN {[trace |-> wire, span |-> 0]}
                   ELSE {})
                  \union (IF found # None THEN {found} ELSE {})
        q == Append(queue[out[o].conn], o)
        f == Head(q)
        carried == IF f = o THEN header ELSE out[f].header
    IN /\ out[o].st = "routed"
       /\ queue' = [queue EXCEPT ![out[o].conn] = q]
       /\ \E ctx \in IF carried # {} THEN carried
                     ELSE {[trace |-> <<"out", o>>, span |-> 0]} :
             out' = [k \in DOMAIN out |->
                       IF k = o
                       THEN [out[o] EXCEPT !.st = "sent", !.trace = ctx.trace,
                                           !.parent = ctx.span, !.front = f,
                                           !.inTime = in[out[o].cause].started
                                                         <= Expiration,
                                           !.header = IF f = o /\ header = {} THEN {ctx}
                                                      ELSE header]
                       ELSE IF k = f /\ carried = {} THEN [out[k] EXCEPT !.header = {ctx}]
                       ELSE out[k]]
       /\ UNCHANGED <<tracing, routes, in>>

(* A response to what was written on connection c: StopRequest pops the    *)
(* queue.                                                                  *)
Respond(c) ==
    /\ queue[c] # <<>>
    /\ IF c \in InConns THEN in[Head(queue[c])].st = "sent"
       ELSE out[Head(queue[c])].st = "sent"
    /\ queue' = [queue EXCEPT ![c] = Tail(@)]
    /\ UNCHANGED <<tracing, routes, in, out>>

(* Time passes.                                                            *)
Tick ==
    /\ tracing' = [r \in AllRids |-> [tracing[r] EXCEPT !.left = Older(@)]]
    /\ routes' = [r \in AllRids |-> [routes[r] EXCEPT !.left = Older(@)]]
    /\ in' = [i \in DOMAIN in |->
                [in[i] EXCEPT !.stored = IF in[i].st = "read" THEN 0 ELSE Aged(@),
                              !.started = IF in[i].st \in {"read", "routed"} THEN 0
                                          ELSE Aged(@)]]
    /\ UNCHANGED <<out, queue>>

(* The janitors of the caches.                                             *)
CleanTracing ==
    tracing' = DeleteExpired(tracing) /\ UNCHANGED <<routes, in, out, queue>>

(* Mutant: the wrong cache.                                                *)
CleanRoutesWrong == CleanTracing

CleanRoutes ==
    routes' = DeleteExpired(routes) /\ UNCHANGED <<tracing, in, out, queue>>

ContextNext ==
    \/ \E c \in InConns, req \in InKinds : ReadInbound(c, req)
    \/ \E i \in DOMAIN in : StoreRoute(i) \/ StartInbound(i) \/ WriteInbound(i)
    \/ \E i \in DOMAIN in, c \in OutConns, req \in OutKinds : ReadOutbound(i, c, req)
    \/ \E o \in DOMAIN out : StartOutbound(o)
    \/ \E c \in InConns \union OutConns : Respond(c)
    \/ Tick \/ CleanTracing \/ CleanRoutes

ContextSpec == ContextInit /\ [][ContextNext]_cvars

(* The sessions go on, the clock does not stop and the janitors run.       *)
ContextFairSpec ==
    /\ ContextSpec
    /\ WF_cvars(\E i \in DOMAIN in : StoreRoute(i) \/ StartInbound(i) \/ WriteInbound(i))
    /\ WF_cvars(Tick) /\ WF_cvars(CleanTracing) /\ WF_cvars(CleanRoutes)
-----------------------------------------------------------------------------
Traces == {None} \union {k.wire : k \in InKinds} \union ({"in", "out"} \X Nat)
Contexts == [trace : Traces, span : Nat]
Brought == {k.cookie : k \in InKinds} \union {k.header : k \in InKinds}
Entries(V) == [val : {None} \union V, left : -1..Expiration]

Inbounds ==
    [req : InKinds, conn : InConns, rid : AllRids, value : {None} \union Brought,
     st : {"read", "routed", "started", "sent"}, trace : Traces,
     front : Nat, stored : 0..(Expiration + 1), started : 0..(Expiration + 1)]

Outbounds ==
    [req : OutKinds, conn : OutConns, cause : Nat, rid : AllRids,
     dst : {None} \union Names, st : {"routed", "sent"}, header : SUBSET Contexts,
     trace : Traces, parent : Nat, front : Nat, inRoute : BOOLEAN, inTime : BOOLEAN]

ContextTypeOK ==
    /\ in \in Seq(Inbounds) /\ out \in Seq(Outbounds)
    /\ routes \in [AllRids -> Entries(Brought)]
    /\ tracing \in [AllRids -> Entries(Contexts)]
    /\ queue \in [InConns \union OutConns -> Seq(Nat)]
    /\ \A r \in AllRids : tracing[r].val # None => tracing[r].val.span \in DOMAIN in
    /\ \A o \in DOMAIN out : out[o].cause \in DOMAIN in
    /\ \A c \in InConns : queue[c] \in Seq(DOMAIN in)
    /\ \A c \in OutConns : queue[c] \in Seq(DOMAIN out)

(* No other inbound request used the id of request i.                      *)
UniqueRid(i) == \A j \in DOMAIN in : in[j].rid = in[i].rid => j = i

(* Request i was in front when its span was started, and no other one was  *)
(* started while i was in front.                                           *)
InFront(reqs, i) == \A j \in DOMAIN reqs : reqs[j].front = i <=> j = i

(* "header name to match inbound and outbound requests" (README.md): an    *)
(* outbound request that carries the id of the inbound request it was made *)
(* for belongs to the same trace, as a child of the inbound span unless    *)
(* the application sends a tracing header itself; if the id is not shared, *)
(* both were in front of their queues and the context had not expired.     *)
TraceContinued ==
    \A o \in DOMAIN out :
        LET i == out[o].cause IN
        /\ out[o].st = "sent" /\ out[o].req.passes /\ out[o].inTime
        /\ UniqueRid(i) /\ InFront(in, i) /\ InFront(out, o)
        => /\ out[o].trace = in[i].trace
           /\ out[o].parent = i \/ out[o].req.own

(* The reference for getRoutingDestination ("host1=host2,host3=host4 to    *)
(* route host1 to host2 and host3 to host4", README.md): the first pair    *)
(* for the host counts, a pair of equal names is no pair, and nothing      *)
(* after an incomplete pair is looked at.                                  *)
Destination(value, host) ==
    LET use == {k \in DOMAIN value :
                  /\ \A j \in 1..k : Len(value[j]) >= 2
                  /\ value[k][1] = host /\ value[k][2] # host}
    IN IF use = {} THEN None
       ELSE LET t == value[CHOOSE k \in use : \A j \in use : k <= j][2]
            IN [t EXCEPT !.port = IF t.port = 0 THEN 80 ELSE t.port]

Acceptable(value, host) ==
    Destination(value, host) # None \/ \A k \in DOMAIN value : Len(value[k]) >= 2

(* What a request itself asks for: "Cookie has priority to routing HTTP    *)
(* header" (README.md).                                                    *)
Asked(req) == IF CookieEnabled /\ req.cookie # None THEN req.cookie ELSE req.header

(* An outbound request goes where it asks to go or, if it asks for         *)
(* nothing and carries the id of its inbound request, where that one asked *)
(* the requests made for it to go, as long as that is remembered; in all   *)
(* other cases to the original destination.  (If the id is not shared.)    *)
RouteFollows ==
    \A o \in DOMAIN out :
        LET i == out[o].cause
            inherited == IF out[o].req.passes /\ out[o].inRoute
                            /\ Acceptable(Asked(in[i].req), in[i].req.host)
                         THEN Asked(in[i].req) ELSE None
            value == IF Asked(out[o].req) # None THEN Asked(out[o].req) ELSE inherited
        IN UniqueRid(i) => out[o].dst = Destination(value, out[o].req.host)

(* Contexts are not kept for ever: without new requests the caches empty.  *)
CachesDrain ==
    <>[](\A r \in AllRids : tracing[r] = NoEntry /\ routes[r] = NoEntry)
=============================================================================
