----------------------------- MODULE MCServerNew -----------------------------
(* Configurations with every kind of clash between entries. *)
EXTENDS ServerNew

CONSTANTS h0, h1, h2, d0, d1, d2, n1, n2, n3

MCHwDuid == [h \in {h0, h1, h2} |-> CASE h = h0 -> d0 [] h = h1 -> d1 [] h = h2 -> d2]

Entries ==
    [name : {n1}, hw : {h1}, ip : {nil, 9, 13}, bad : BOOLEAN]
        \cup [name : {n2}, hw : {h1, h2}, ip : {nil, 9, 12, 15}, bad : {FALSE}]
        \cup [name : {n3}, hw : {h0, h2}, ip : {nil, 10}, bad : {FALSE}]

\* The names are the keys of a map.
ClientMaps ==
    {S \in SUBSET Entries : \A e, f \in S : e.name = f.name => e = f}

Ranges == {nil, [from |-> 9, to |-> 10], [from |-> 12, to |-> 9],
           [from |-> 8, to |-> 10]}

MCConfig == [range : Ranges, staticOnly : BOOLEAN, client : ClientMaps]
=============================================================================
