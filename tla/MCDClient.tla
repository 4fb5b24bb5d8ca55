------------------------------ MODULE MCDClient ------------------------------
(* Two servers that hand out two addresses.  With a tick of twenty seconds    *)
(* the shortest lease is 3 ticks and the limiter is full again after a tick.  *)
EXTENDS DClient

CONSTANTS a, b, s1, s2, r1, r2

M(type, ip, sid, lease) ==
    [type |-> type, xid |-> "cur", ip |-> ip, sid |-> sid, router |-> IF ip = a THEN r1 ELSE r2,
     dns |-> TRUE, mtu |-> 0, lease |-> lease, renew |-> 0, rebind |-> 0]

\* Replies of two servers that never refuse; a longer lease has its own times,
\* which are in order or not.
CalmMsg ==
    {M("offer", a, s1, Minute), M("ack", a, s1, Minute),
     [M("ack", a, s2, Minute) EXCEPT !.router = r2, !.mtu = 1],
     M("offer", b, s2, Minute), M("ack", b, s2, Minute),
     [M("ack", a, s1, Minute + 3) EXCEPT !.renew = Minute + 1, !.rebind = Minute + 2],
     [M("ack", a, s1, Minute + 3) EXCEPT !.renew = Minute + 1, !.rebind = Minute + 5]}

\* Replies that must not be taken for good ones.
WrongMsg ==
    {[M("offer", b, s1, Minute) EXCEPT !.xid = "old"], [M("ack", a, s1, Minute + 9) EXCEPT !.xid = "old"],
     M("ack", a, s1, Minute - 1), M("ack", nil, s1, Minute + 3), M("offer", a, nil, Minute + 3),
     [M("ack", b, s2, Minute + 9) EXCEPT !.router = nil], M("other", a, s1, Minute + 3)}

AnyMsg == CalmMsg \cup WrongMsg \cup {[M("nack", nil, s2, 0) EXCEPT !.xid = "old"]}
=============================================================================
