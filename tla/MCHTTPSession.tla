--------------------------- MODULE MCHTTPSession ---------------------------
(***************************************************************************)
(* Values of Load for the runs of HTTPSession.                             *)
(***************************************************************************)
EXTENDS HTTPSession

(* Both modes at once.  Three requests on one upstream, so that a HEAD     *)
(* response nobody recognised can swallow the next and one more follows;   *)
(* two routed requests of every kind, each with an upstream of its own.    *)
Pipelined == [m \in BOOLEAN |->
    IF m THEN [max |-> 2, kinds |-> Kinds]
         ELSE [max |-> 3, kinds |-> {"get", "head", "bad"}]]

(* Clients that send what can be parsed.                                   *)
Serial == [m \in BOOLEAN |-> [max |-> 2, kinds |-> Kinds \ {"bad"}]]

OnlyGet == [m \in BOOLEAN |-> [max |-> 2, kinds |-> {"get"}]]

GetAndHead == [m \in BOOLEAN |-> [max |-> 2, kinds |-> {"get", "head"}]]
=============================================================================
