------------------------------- MODULE LeaseDB -------------------------------
(***************************************************************************)
(* What the address pool of the server promises: a set of leases in which  *)
(* every address and every DUID occurs at most once.  A lease is kept      *)
(* until it ends or is renewed by the client that has it, it ends when the *)
(* clock has passed it, and a permanent one never does.  This is the       *)
(* contract module IPDB is shown to implement.                             *)
(***************************************************************************)
EXTENDS Naturals

CONSTANTS
    IP,     \* addresses
    Duid    \* clients

VARIABLES
    leases,  \* the leases in force
    now      \* the time

leaseVars == <<leases, now>>

Lease == [ip : IP, duid : Duid, until : Nat, permanent : BOOLEAN]

Init == leases = {} /\ now = 0

Running(l, t) == l.permanent \/ t <= l.until

Clash(l, k) == l.ip = k.ip \/ l.duid = k.duid

\* A client gets a lease on an address nobody has, and it has no other.
Grant ==
    \E l \in leases' :
        /\ l \in Lease
        /\ Running(l, now)
        /\ \A k \in leases : ~Clash(l, k)
        /\ leases' = leases \cup {l}
        /\ UNCHANGED now

\* The client that has a lease gets a new end for it, from now on.
Renew ==
    \E k \in leases, l \in leases' :
        /\ l \in Lease
        /\ now <= l.until
        /\ l.ip = k.ip /\ l.duid = k.duid /\ l.permanent = k.permanent
        /\ leases' = (leases \ {k}) \cup {l}
        /\ UNCHANGED now

\* Time passes and the leases it has passed end.
Elapse ==
    /\ now' = now + 1
    /\ leases' = {l \in leases : Running(l, now')}

Next == Grant \/ Renew \/ Elapse

Spec == Init /\ [][Next]_leaseVars
=============================================================================
