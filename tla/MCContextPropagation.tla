------------------------ MODULE MCContextPropagation ------------------------
(***************************************************************************)
(* Requests for the run of ContextPropagation.                             *)
(***************************************************************************)
EXTENDS ContextPropagation

a == [host |-> "a", port |-> 0]
b == [host |-> "b", port |-> 0]
c81 == [host |-> "c", port |-> 81]

OneRid == {<<"r", 1>>}
Trace == <<"T", 1>>

(* a=b   and   a=a,a=c:81,b   and   b=a                                     *)
ToB == <<<<a, b>>>>
ToC == <<<<a, a>>, <<a, c81>>, <<b>>>>
BToA == <<<<b, a>>>>

In(rid, wire, host, cookie, header) ==
    [rid |-> rid, wire |-> wire, host |-> host, cookie |-> cookie, header |-> header]

Out(passes, own, host, cookie, header) ==
    [passes |-> passes, own |-> own, host |-> host, cookie |-> cookie, header |-> header]

(* Two requests served at a time, or two requests made for one.            *)
TwoByOne == {<<2, 1>>, <<1, 2>>}

(* ToC is malformed for a request to b, not for one to a.                  *)
Inbound == {
    In(<<"r", 1>>, None, a, None, ToB),
    In(<<"r", 1>>, Trace, b, None, None),
    In(None, Trace, a, ToC, ToB),
    In(None, None, b, None, ToC)}

Outbound == {
    Out(TRUE, FALSE, a, None, None),
    Out(TRUE, TRUE, b, None, BToA),
    Out(FALSE, FALSE, a, None, None)}
=============================================================================
