------------------------------ MODULE MCSystem ------------------------------
(* A network of four addresses, 0 to 3: the server has 2 and assigns 1, for    *)
(* which the client and another one compete.                                   *)
EXTENDS System, FiniteSets

CONSTANTS h0, h1, h2, d0, d1, d2, c1

MCHwDuid == [h \in {h0, h1, h2} |-> CASE h = h0 -> d0 [] h = h1 -> d1 [] h = h2 -> d2]

MCConfig == {[range |-> nil, staticOnly |-> FALSE, client |-> {}]}

Other(type, src, dst, reqIP, sid) ==
    [type |-> type, hw |-> h2, cid |-> nil, src |-> src, dst |-> dst, reqIP |-> reqIP, sid |-> sid]

MCPacket ==
    MyRequests \cup
    {Other("discover", 0, "bcast", nil, nil), Other("request", 0, "bcast", 1, "self")}

VARIABLE cancels    \* how many contexts of the client were cancelled

MCSystemInit == SystemInit /\ cancels = 0

\* Bound: one cancellation or one failing call.
MCSystemNext ==
    /\ SystemNext
    /\ cancels' = IF cCancelled' /\ (~cCancelled \/ cPc = "returned")
                  THEN cancels + 1 ELSE cancels
    /\ cancels' + cFaults' <= 1

MCSystemSafety == MCSystemInit /\ [][MCSystemNext]_<<systemVars, cancels>>

\* What is under way and may still be read with an effect, for as long as it may
\* be: the client ignores offers and acknowledgements of earlier exchanges and
\* reads every NACK.
Effective ==
    {[pkt |-> <<x.pkt.type, x.pkt.ip>>, ttl |-> x.ttl] :
        x \in {x \in inbox : x.pkt.type = "nack" \/ x.pkt.xid = "cur"}}

Longest(sent) == {x \in sent : \A y \in sent : y.pkt = x.pkt => y.ttl <= x.ttl}

\* Bounds: two different messages under way, one after a cancellation or a failing
\* call, and a client that has not given up.
Bounds ==
    /\ Cardinality(Longest(Effective)) + Cardinality(Longest(late)) + cancels + cFaults <= 2
    /\ cPc # "bananas"

\* What makes a difference for later steps and the properties: promises that
\* last; of what is under way the above; the last message and the deadlines in
\* the states that look at them.
View ==
    <<m, now, dynFrom, dynTo, search, newVars, proc,
      {promise[hw] : hw \in {hw \in Hw \ {Me} : Relies(promise, hw)}},
      cState, cPc, cWait, cTokens, cCancelled, cIface.addrs, cFaults,
      IF cState \in {"PurgeInterface", "Discovering"} THEN nil ELSE cLast.ip,
      IF cState \in {"Bound", "Renewing", "Rebinding"} THEN <<cLeft.t2, cLeft.tx>> ELSE <<>>,
      Longest(Effective), Longest(late), {h \in answers : proc[h].pc # "idle"}, smooth, cut,
      cancels>>
=============================================================================
