------------------------------ MODULE MCMClient ------------------------------
(* One server, one address, one lease, short times. *)
EXTENDS MClient

CONSTANTS a, s1, r1

M(type, lease) ==
    [type |-> type, xid |-> "cur", ip |-> a, sid |-> s1, router |-> r1,
     dns |-> TRUE, mtu |-> 0,
     lease |-> lease, renew |-> 0, rebind |-> 0]

MCMsg == {M("offer", 2), M("ack", 2), M("nack", 0)}
=============================================================================
