------------------------------ MODULE MCServer ------------------------------
(* Two clients and the server in a network of eight addresses, 8 to 15, of   *)
(* which the server has 13 and assigns 9 and 10.                             *)
EXTENDS Server, TLC

CONSTANTS h0, h1, h2, d0, d1, d2, c1, c2

MCHwDuid == [h \in {h0, h1, h2} |-> CASE h = h0 -> d0 [] h = h1 -> d1 [] h = h2 -> d2]

Between(from, to) == [from |-> from, to |-> to]

Conf(range, staticOnly, client) ==
    [range |-> range, staticOnly |-> staticOnly, client |-> client]

Static(hw, ip) == [name |-> hw, hw |-> hw, ip |-> ip, bad |-> FALSE]

\* One address to compete for.
SmallConfig == {Conf(Between(9, 9), FALSE, {})}

DynamicConfig == {Conf(Between(9, 10), FALSE, {})}

\* A static client, with and without dynamic addresses; one that is named twice,
\* and one with a bad entry in a server without a range.
StaticConfig ==
    {Conf(Between(9, 10), FALSE, {Static(h1, 9)}),
     Conf(Between(9, 10), TRUE, {Static(h1, 12)}),
     Conf(Between(9, 10), FALSE,
          {Static(h1, nil), [Static(h1, 10) EXCEPT !.name = "h1 again"]}),
     Conf(nil, FALSE, {[Static(h1, 9) EXCEPT !.bad = TRUE], Static(h2, 10)})}

\* What clashes with the network, with itself or with the server.
ClashConfig ==
    {Conf(range, FALSE, {}) : range \in {Between(12, 9), Between(8, 10)}}
        \cup {Conf(nil, FALSE, client) :
                 client \in {{Static(h1, 9), Static(h2, 9)},
                            {Static(h1, 9), [Static(h1, 10) EXCEPT !.name = "h1 again"]},
                            {Static(h1, SelfIP)}, {Static(h1, 15)}, {Static(h0, 10)},
                            {Static(nil, 10), Static(h2, 9)}}}

AnyConfig == DynamicConfig \cup StaticConfig \cup ClashConfig

Pkt(type, hw, cid, src, dst, reqIP, sid) ==
    [type |-> type, hw |-> hw, cid |-> cid, src |-> src, dst |-> dst,
     reqIP |-> reqIP, sid |-> sid]

Discover(hw, cid, reqIP) == Pkt("discover", hw, cid, 0, "bcast", reqIP, nil)
InitReboot(hw, cid, ip) == Pkt("request", hw, cid, 0, "bcast", ip, nil)
Selecting(hw, cid, ip) == Pkt("request", hw, cid, 0, "bcast", ip, "self")
Renewing(hw, cid, ip) == Pkt("request", hw, cid, ip, "self", nil, nil)
Rebinding(hw, cid, ip) == Pkt("request", hw, cid, ip, "bcast", nil, nil)

\* The life of a lease, of clients without a usable client identifier.
LeasePacket ==
    UNION {{Discover(hw, nil, nil), Selecting(hw, nil, 9), Renewing(hw, nil, 9)}
             : hw \in {h1, h2}}

\* One client is enough to lose a lease to its own late DISCOVER.
OneClientPacket == {p \in LeasePacket : p.hw = h1}

\* The same clients with their client identifiers.
CidOf(hw) == IF hw = h1 THEN c1 ELSE c2

CidPacket ==
    UNION {{Discover(hw, CidOf(hw), nil), Selecting(hw, CidOf(hw), 9)} : hw \in {h1, h2}}

\* Every kind of request, right and wrong.
KindsOf(hw, cid) ==
    {Discover(hw, cid, ip) : ip \in {nil, 9, 14, SelfIP}}
        \cup {InitReboot(hw, cid, 9), Selecting(hw, cid, 9), Selecting(hw, cid, 12),
              Renewing(hw, cid, 10), Rebinding(hw, cid, 9), Rebinding(hw, cid, 0),
              Pkt("request", hw, cid, 0, "bcast", 9, "other"),
              Pkt("discover", hw, cid, 0, "bcast", nil, "other"),
              Pkt("discover", hw, cid, 9, "self", nil, nil),
              Pkt("other", hw, cid, 9, "self", nil, nil)}

AnyPacket ==
    {Discover(SelfHw, nil, nil), Discover(h2, c2, nil), Selecting(h2, c2, 9)}
        \cup KindsOf(h1, nil) \cup {Discover(h1, c1, nil), InitReboot(h1, c1, 9)}

\* The variables the server's behaviour and the invariants depend on: found is
\* only read in the step that sets it, and acked only by AckedLeaseKept.
View == <<m, now, dynFrom, dynTo, search, cancelled, newVars, proc, reply, promise>>

Symmetry == Permutations(Handler)
=============================================================================
