----------------------------- MODULE IPDBProofs -----------------------------
(***************************************************************************)
(* The address pool implements LeaseDB and its searches can be relied on,  *)
(* for every network, every number of clients and every lease time.        *)
(*                                                                         *)
(* First the lease table: every method preserves TableOK, for any number   *)
(* of addresses, DUIDs and records and for any clock that never runs back. *)
(* The lemmas speak of a table and a time, not of the variables, so that   *)
(* those about IPDB can compose them the way UpdateClient composes the     *)
(* methods.  Then what each method of IPDB does to a table; the theorems   *)
(* put the lemmas together, one step per action of IPDB.                   *)
(***************************************************************************)
EXTENDS IPDB, TLAPS

USE DEF Key

LEMMA KeysDiffer ==
    ASSUME NEW ip \in Uip, NEW duid \in Duid
    PROVE  ip # duid
BY KeyAssumption

\* Lookup only ever removes keys, and only keys of expired clients.
LEMMA LookupOK ==
    ASSUME NEW tbl, NEW t \in Nat, TableOK(tbl, t),
           NEW ip \in Uip, NEW duid \in Duid
    PROVE  /\ TableOK(Lookup(tbl, t, ip, duid), t)
           /\ \A k \in Key : Live(tbl, t, k) => Lookup(tbl, t, ip, duid)[k] = tbl[k]
           /\ \A k \in Key : Lookup(tbl, t, ip, duid)[k] \in {nil, tbl[k]}
           /\ \A k \in {ip, duid} : Lookup(tbl, t, ip, duid)[k] = Entry(tbl, t, k)
<1> DEFINE s == Lookup(tbl, t, ip, duid)
<1>1. \A k \in Key : s[k] = IF k \in {ip, duid} THEN Entry(tbl, t, k) ELSE tbl[k]
  BY DEF Lookup
<1>2. \A k \in Key : s[k] \in {nil, tbl[k]}
  BY <1>1 DEF Entry
<1>3. \A k \in Key : Live(tbl, t, k) => s[k] = tbl[k]
  BY <1>1 DEF Entry, Live
<1>4. IsTable(s)
  BY DEF Lookup, Entry, TableOK, IsTable
<1>5. Keyed(s)
  BY <1>2 DEF TableOK, Keyed
<1>6. BothKeys(s, t)
  <2> SUFFICES ASSUME NEW k \in Key, Live(s, t, k)
               PROVE  s[s[k].ip] = s[k] /\ s[s[k].duid] = s[k]
    BY DEF BothKeys
  <2>1. s[k] = tbl[k] /\ Live(tbl, t, k)
    BY <1>2 DEF Live
  <2>2. tbl[k] \in Client /\ tbl[k].ip \in Key /\ tbl[k].duid \in Key
    BY <2>1 DEF Live, TableOK, IsTable, Client
  <2>3. tbl[tbl[k].ip] = tbl[k] /\ tbl[tbl[k].duid] = tbl[k]
    BY <2>1 DEF TableOK, BothKeys
  <2>4. Live(tbl, t, tbl[k].ip) /\ Live(tbl, t, tbl[k].duid)
    BY <2>1, <2>3 DEF Live
  <2> QED
    BY <1>3, <2>1, <2>2, <2>3, <2>4
<1>7. \A k \in {ip, duid} : s[k] = Entry(tbl, t, k)
  BY <1>1
<1> QED
  BY <1>2, <1>3, <1>4, <1>5, <1>6, <1>7 DEF TableOK

\* A table that is right now is right later: fewer clients are live.
LEMMA LaterOK ==
    ASSUME NEW tbl, NEW t \in Nat, NEW u \in Nat, t <= u, TableOK(tbl, t)
    PROVE  TableOK(tbl, u)
<1>1. ASSUME NEW k \in Key, Live(tbl, u, k)
      PROVE  Live(tbl, t, k)
  <2>1. tbl[k] \in Client
    BY <1>1 DEF Live, TableOK, IsTable
  <2> QED
    BY <1>1, <2>1 DEF Live, Expired, Client
<1> QED
  BY <1>1 DEF TableOK, BothKeys

LEMMA InjectOK ==
    ASSUME NEW tbl, NEW t \in Nat, TableOK(tbl, t),
           NEW ip \in Uip, NEW duid \in Duid, NEW until \in Nat,
           NEW permanent \in BOOLEAN
    PROVE  TableOK(injectInternal(tbl, t, ip, duid, until, permanent).tbl, t)
<1> DEFINE seen == Lookup(tbl, t, ip, duid)
           c    == [ip |-> ip, duid |-> duid, leasedUntil |-> until,
                    permanent |-> permanent]
           new  == [seen EXCEPT ![ip] = c, ![duid] = c]
<1>1. /\ TableOK(seen, t)
      /\ \A k \in Key : seen[k] \in {nil, tbl[k]}
  BY LookupOK
<1>2. CASE ~(seen[ip] = nil /\ seen[duid] = nil)
  BY <1>1, <1>2 DEF injectInternal
<1>3. CASE seen[ip] = nil /\ seen[duid] = nil
  <2>1. injectInternal(tbl, t, ip, duid, until, permanent).tbl = new
    BY <1>3 DEF injectInternal
  <2>2. c \in Client /\ c # nil
    BY NilAssumption DEF Client
  <2>3. /\ DOMAIN seen = Key
        /\ \A k \in Key : new[k] = IF k \in {ip, duid} THEN c ELSE seen[k]
    BY <1>1 DEF TableOK, IsTable
  <2>4. IsTable(new)
    BY <1>1, <2>2 DEF TableOK, IsTable
  <2>5. Keyed(new)
    BY <1>1, <2>3 DEF TableOK, Keyed
  <2>6. BothKeys(new, t)
    <3> SUFFICES ASSUME NEW k \in Key, Live(new, t, k)
                 PROVE  new[new[k].ip] = new[k] /\ new[new[k].duid] = new[k]
      BY DEF BothKeys
    <3>1. CASE k \in {ip, duid}
      BY <2>3, <3>1
    <3>2. CASE k \notin {ip, duid}
      <4>1. new[k] = seen[k] /\ Live(seen, t, k)
        BY <2>3, <3>2 DEF Live
      <4>2. seen[k].ip \in Key /\ seen[k].duid \in Key
        BY <1>1, <4>1 DEF Live, TableOK, IsTable, Client
      <4>3. seen[seen[k].ip] = seen[k] /\ seen[seen[k].duid] = seen[k]
        BY <1>1, <4>1 DEF TableOK, BothKeys
      <4>4. seen[k].ip \notin {ip, duid} /\ seen[k].duid \notin {ip, duid}
        BY <1>3, <4>1, <4>3 DEF Live
      <4> QED
        BY <2>3, <4>1, <4>2, <4>3, <4>4
    <3> QED
      BY <3>1, <3>2
  <2> QED
    BY <2>1, <2>4, <2>5, <2>6 DEF TableOK
<1> QED
  BY <1>2, <1>3

LEMMA SetLeaseOK ==
    ASSUME NEW tbl, NEW t \in Nat, TableOK(tbl, t),
           NEW ip \in Uip, NEW duid \in Duid, NEW until \in Nat
    PROVE  TableOK(SetLease(tbl, t, ip, duid, until).tbl, t)
<1> DEFINE seen == Lookup(tbl, t, ip, duid)
           ok   == seen[ip] # nil /\ seen[duid] # nil /\ seen[ip] = seen[duid]
           c    == [seen[ip] EXCEPT !.leasedUntil = until]
           new  == [k \in Key |-> IF seen[k] = seen[ip]
                                  THEN [seen[k] EXCEPT !.leasedUntil = until]
                                  ELSE seen[k]]
<1>1. /\ TableOK(seen, t)
      /\ \A k \in {ip, duid} : seen[k] = Entry(tbl, t, k)
  BY LookupOK
<1>2. CASE ~ok
  BY <1>1, <1>2 DEF SetLease
<1>3. CASE ok
  <2>1. SetLease(tbl, t, ip, duid, until).tbl = new
    BY <1>3 DEF SetLease
  <2>2. seen[ip] \in Client /\ seen[duid] = seen[ip]
    BY <1>1, <1>3 DEF TableOK, IsTable
  <2>3. seen[ip].ip = ip /\ seen[ip].duid = duid
    BY <1>1, <1>3, <2>2, KeyAssumption DEF TableOK, Keyed, Client
  <2>4. /\ c \in Client /\ c # nil
        /\ c.ip = ip /\ c.duid = duid
    BY <2>2, <2>3, NilAssumption DEF Client
  <2>5. \A k \in Key : seen[k] = seen[ip]
                          <=> k \in {ip, duid}
    <3>1. ASSUME NEW k \in Key, seen[k] = seen[ip]
          PROVE  k \in {ip, duid}
      BY <1>1, <1>3, <2>3, <3>1 DEF TableOK, Keyed
    <3> QED
      BY <1>3, <2>2, <3>1
  <2>6. \A k \in Key : new[k] = IF k \in {ip, duid} THEN c ELSE seen[k]
    BY <2>2, <2>5
  <2>7. IsTable(new)
    BY <1>1, <2>4, <2>6 DEF TableOK, IsTable
  <2>8. Keyed(new)
    BY <1>1, <2>4, <2>6 DEF TableOK, Keyed
  <2>9. BothKeys(new, t)
    <3> SUFFICES ASSUME NEW k \in Key, Live(new, t, k)
                 PROVE  new[new[k].ip] = new[k] /\ new[new[k].duid] = new[k]
      BY DEF BothKeys
    <3>1. CASE k \in {ip, duid}
      BY <2>4, <2>6, <3>1
    <3>2. CASE k \notin {ip, duid}
      <4>1. new[k] = seen[k] /\ Live(seen, t, k)
        BY <2>6, <3>2 DEF Live
      <4>2. seen[k].ip \in Key /\ seen[k].duid \in Key
        BY <1>1, <4>1 DEF Live, TableOK, IsTable, Client
      <4>3. seen[seen[k].ip] = seen[k] /\ seen[seen[k].duid] = seen[k]
        BY <1>1, <4>1 DEF TableOK, BothKeys
      <4>4. seen[k].ip \notin {ip, duid} /\ seen[k].duid \notin {ip, duid}
        BY <1>1, <2>2, <2>5, <3>2, <4>1, <4>3 DEF Live
      <4> QED
        BY <2>6, <4>1, <4>2, <4>3, <4>4
    <3> QED
      BY <3>1, <3>2
  <2> QED
    BY <2>1, <2>7, <2>8, <2>9 DEF TableOK
<1> QED
  BY <1>2, <1>3
-----------------------------------------------------------------------------
\* No method of the table ever breaks it, and neither does the passing of time.
LEMMA ClientsInvariant == ClientsSpec => [](TableOK(m, now) /\ now \in Nat)
<1> DEFINE Inv == TableOK(m, now) /\ now \in Nat
<1>1. NewClients => Inv
  BY DEF NewClients, TableOK, IsTable, Keyed, BothKeys, Live
<1>2. Inv /\ [ClientsNext]_clientsVars => Inv'
  <2> SUFFICES ASSUME Inv, [ClientsNext]_clientsVars
               PROVE  Inv'
    OBVIOUS
  <2>1. CASE Tick /\ UNCHANGED m
    <3>1. now' \in Nat /\ now <= now'
      BY <2>1 DEF Tick
    <3>2. TableOK(m, now')
      BY <3>1, LaterOK
    <3> QED
      BY <2>1, <3>1, <3>2
  <2>2. CASE Call /\ UNCHANGED now
    <3>1. PICK ip \in Uip, duid \in Duid :
             \/ CallLookup(ip, duid)
             \/ CallInjectPermanent(ip, duid)
             \/ CallExpire(ip, duid)
             \/ \E until \in 0 .. MaxTime :
                   CallInject(ip, duid, until) \/ CallSetLease(ip, duid, until)
      BY <2>2 DEF Call
    <3>2. CASE CallLookup(ip, duid)
      BY <2>2, <3>2, LookupOK DEF CallLookup
    <3>3. CASE CallInjectPermanent(ip, duid)
      BY <2>2, <3>3, InjectOK DEF CallInjectPermanent, InjectPermanent
    <3>4. CASE CallExpire(ip, duid)
      BY <2>2, <3>4, SetLeaseOK DEF CallExpire, Expire
    <3>5. ASSUME NEW until \in 0 .. MaxTime,
                 CallInject(ip, duid, until) \/ CallSetLease(ip, duid, until)
          PROVE  Inv'
      <4>1. until \in Nat
        BY MaxTimeAssumption
      <4>2. CASE CallInject(ip, duid, until)
        BY <2>2, <4>1, <4>2, InjectOK DEF CallInject, Inject
      <4>3. CASE CallSetLease(ip, duid, until)
        BY <2>2, <4>1, <4>3, SetLeaseOK DEF CallSetLease
      <4> QED
        BY <3>5, <4>2, <4>3
    <3> QED
      BY <3>1, <3>2, <3>3, <3>4, <3>5
  <2>3. CASE UNCHANGED clientsVars
    BY <2>3 DEF clientsVars
  <2> QED
    BY <2>1, <2>2, <2>3 DEF ClientsNext
<1> QED
  BY <1>1, <1>2, PTL DEF ClientsSpec

\* The methods of clients.go keep the map well typed whatever they are called with.
THEOREM ClientsTyped == ClientsSpec => []ClientsTypeOK
<1>1. TableOK(m, now) /\ now \in Nat => ClientsTypeOK
  BY DEF TableOK, ClientsTypeOK
<1> QED
  BY <1>1, ClientsInvariant, PTL

\* A client that has not expired is found under both its keys, although Lookup
\* (clients.go:37-44) removes the keys of expired clients one at a time.
THEOREM ClientsIndexed == ClientsSpec => []LiveIndexed
<1>1. TableOK(m, now) /\ now \in Nat => LiveIndexed
  BY DEF TableOK, LiveIndexed
<1> QED
  BY <1>1, ClientsInvariant, PTL

\* A table that is right holds no two live clients with the same address or DUID.
LEMMA TableExclusive ==
    ASSUME NEW tbl, NEW t \in Nat, TableOK(tbl, t),
           NEW k \in Key, NEW l \in Key, Live(tbl, t, k), Live(tbl, t, l),
           tbl[k].ip = tbl[l].ip \/ tbl[k].duid = tbl[l].duid
    PROVE  tbl[k] = tbl[l]
BY DEF TableOK, BothKeys

\* The duplicate checks of injectInternal (clients.go:61-65) keep every address
\* and every DUID leased to at most one live client, for every pool and clock.
THEOREM ClientsExclusive == ClientsSpec => []NoDoubleLease
<1>1. TableOK(m, now) /\ now \in Nat => NoDoubleLease
  BY TableExclusive DEF NoDoubleLease
<1> QED
  BY <1>1, ClientsInvariant, PTL
\* No method removes or rewrites a permanent client.
LEMMA LookupPermanent ==
    ASSUME NEW tbl, NEW t \in Nat, TableOK(tbl, t),
           NEW ip \in Uip, NEW duid \in Duid
    PROVE  KeepsPermanent(tbl, Lookup(tbl, t, ip, duid))
BY LookupOK DEF KeepsPermanent, Live, Expired

LEMMA InjectPermanentKept ==
    ASSUME NEW tbl, NEW t \in Nat, TableOK(tbl, t),
           NEW ip \in Uip, NEW duid \in Duid, NEW until \in Nat,
           NEW permanent \in BOOLEAN
    PROVE  KeepsPermanent(tbl, injectInternal(tbl, t, ip, duid, until, permanent).tbl)
<1> DEFINE seen == Lookup(tbl, t, ip, duid)
           c    == [ip |-> ip, duid |-> duid, leasedUntil |-> until,
                    permanent |-> permanent]
           new  == [seen EXCEPT ![ip] = c, ![duid] = c]
<1>1. TableOK(seen, t) /\ KeepsPermanent(tbl, seen)
  BY LookupOK, LookupPermanent
<1>2. CASE ~(seen[ip] = nil /\ seen[duid] = nil)
  BY <1>1, <1>2 DEF injectInternal
<1>3. CASE seen[ip] = nil /\ seen[duid] = nil
  <2>1. injectInternal(tbl, t, ip, duid, until, permanent).tbl = new
    BY <1>3 DEF injectInternal
  <2>2. \A k \in Key : k \notin {ip, duid} => new[k] = seen[k]
    BY <1>1 DEF TableOK, IsTable
  <2>3. ASSUME NEW k \in Key, tbl[k] # nil, tbl[k].permanent
        PROVE  new[k] = seen[k]
    BY <1>1, <1>3, <2>2, <2>3 DEF KeepsPermanent
  <2> HIDE DEF new, seen
  <2>4. KeepsPermanent(tbl, new)
    BY <1>1, <2>3 DEF KeepsPermanent
  <2> QED
    BY <2>1, <2>4
<1> QED
  BY <1>2, <1>3

LEMMA SetLeasePermanent ==
    ASSUME NEW tbl, NEW t \in Nat, TableOK(tbl, t),
           NEW ip \in Uip, NEW duid \in Duid, NEW until \in Nat
    PROVE  KeepsPermanent(tbl, SetLease(tbl, t, ip, duid, until).tbl)
<1> DEFINE seen == Lookup(tbl, t, ip, duid)
           ok   == seen[ip] # nil /\ seen[duid] # nil /\ seen[ip] = seen[duid]
           new  == [k \in Key |-> IF seen[k] = seen[ip]
                                  THEN [seen[k] EXCEPT !.leasedUntil = until]
                                  ELSE seen[k]]
<1>1. TableOK(seen, t) /\ KeepsPermanent(tbl, seen)
  BY LookupOK, LookupPermanent
<1>2. CASE ~ok
  BY <1>1, <1>2 DEF SetLease
<1>3. CASE ok
  <2>1. SetLease(tbl, t, ip, duid, until).tbl = new
    BY <1>3 DEF SetLease
  <2>2. ASSUME NEW k \in Key, seen[k] # nil
        PROVE  /\ new[k] # nil /\ new[k].permanent = seen[k].permanent
               /\ new[k].ip = seen[k].ip
               /\ new[k].duid = seen[k].duid
    <3>1. seen[k] \in Client
      BY <1>1, <2>2 DEF TableOK, IsTable
    <3>2. [seen[k] EXCEPT !.leasedUntil = until] \in Client
      BY <3>1 DEF Client
    <3> QED
      BY <2>2, <3>1, <3>2, NilAssumption DEF Client
  <2> QED
    BY <1>1, <2>1, <2>2 DEF KeepsPermanent
<1> QED
  BY <1>2, <1>3

\* Static assignments and the server's own address outlive every sequence of
\* calls: "permanent entries expire, but are never removed" (clients.go:16).
THEOREM ClientsPermanent == ClientsSpec => PermanentForever
<1> DEFINE Inv == TableOK(m, now) /\ now \in Nat
<1>1. Inv /\ [ClientsNext]_clientsVars => [KeepsPermanent(m, m')]_m
  <2> SUFFICES ASSUME Inv, [ClientsNext]_clientsVars, m' # m
               PROVE  KeepsPermanent(m, m')
    OBVIOUS
  <2>1. PICK ip \in Uip, duid \in Duid :
             \/ CallLookup(ip, duid)
             \/ CallInjectPermanent(ip, duid)
             \/ CallExpire(ip, duid)
             \/ \E until \in 0 .. MaxTime :
                   CallInject(ip, duid, until) \/ CallSetLease(ip, duid, until)
    BY DEF ClientsNext, Call, clientsVars
  <2>2. CASE CallLookup(ip, duid)
    BY <2>2, LookupPermanent DEF CallLookup
  <2>3. CASE CallInjectPermanent(ip, duid)
    BY <2>3, InjectPermanentKept DEF CallInjectPermanent, InjectPermanent
  <2>4. CASE CallExpire(ip, duid)
    BY <2>4, SetLeasePermanent DEF CallExpire, Expire
  <2>5. ASSUME NEW until \in 0 .. MaxTime,
               CallInject(ip, duid, until) \/ CallSetLease(ip, duid, until)
        PROVE  KeepsPermanent(m, m')
    <3>1. until \in Nat
      BY MaxTimeAssumption
    <3>2. CASE CallInject(ip, duid, until)
      BY <3>1, <3>2, InjectPermanentKept DEF CallInject, Inject
    <3>3. CASE CallSetLease(ip, duid, until)
      BY <3>1, <3>3, SetLeasePermanent DEF CallSetLease
    <3> QED
      BY <2>5, <3>2, <3>3
  <2> QED
    BY <2>1, <2>2, <2>3, <2>4, <2>5
<1> QED
  BY <1>1, ClientsInvariant, PTL DEF ClientsSpec, PermanentForever
-----------------------------------------------------------------------------
\* A lease is in force iff some key of the table holds its live client.
LEMMA LeaseMember ==
    ASSUME NEW tbl, NEW t, NEW l
    PROVE  l \in LeasesOf(tbl, t) <=>
               \E k \in Key : Live(tbl, t, k) /\ l = LeaseOf(tbl[k])
BY DEF LeasesOf

LEMMA LookupLeases ==
    ASSUME NEW tbl, NEW t \in Nat, TableOK(tbl, t),
           NEW ip \in Uip, NEW duid \in Duid
    PROVE  LeasesOf(Lookup(tbl, t, ip, duid), t) = LeasesOf(tbl, t)
<1> DEFINE s == Lookup(tbl, t, ip, duid)
<1>1. ASSUME NEW k \in Key
      PROVE  /\ Live(s, t, k) <=> Live(tbl, t, k)
             /\ Live(s, t, k) => s[k] = tbl[k]
  BY LookupOK DEF Live
<1> HIDE DEF s
<1>2. \A l : l \in LeasesOf(s, t) <=> l \in LeasesOf(tbl, t)
  BY <1>1, LeaseMember
<1> QED
  BY <1>2 DEF s, LeasesOf

\* The entry Lookup returns is the live client of the key.
LEMMA EntryLive ==
    ASSUME NEW tbl, NEW t, NEW k \in Key
    PROVE  /\ Entry(tbl, t, k) # nil <=> Live(tbl, t, k)
           /\ Live(tbl, t, k) => Entry(tbl, t, k) = tbl[k]
BY DEF Entry, Live

\* Inject succeeds iff no live client has the address or the DUID.
LEMMA InjectEffect ==
    ASSUME NEW tbl, NEW t \in Nat, TableOK(tbl, t),
           NEW ip \in Uip, NEW duid \in Duid, NEW until \in Nat,
           NEW permanent \in BOOLEAN,
           permanent \/ t <= until,
           NEW r, r = injectInternal(tbl, t, ip, duid, until, permanent),
           NEW c, c = [ip |-> ip, duid |-> duid,
                       leasedUntil |-> until, permanent |-> permanent]
    PROVE  /\ r.ok <=> ~Live(tbl, t, ip) /\ ~Live(tbl, t, duid)
           /\ ~r.ok => LeasesOf(r.tbl, t) = LeasesOf(tbl, t)
           /\ r.ok => /\ LeasesOf(r.tbl, t) = LeasesOf(tbl, t) \cup {LeaseOf(c)}
                      /\ r.tbl[ip] = c /\ r.tbl[duid] = c
           /\ \A k \in Key : r.tbl[k] \in {nil, tbl[k], c}
<1> DEFINE seen == Lookup(tbl, t, ip, duid)
           new  == [seen EXCEPT ![ip] = c, ![duid] = c]
<1>1. /\ TableOK(seen, t)
      /\ seen[ip] = Entry(tbl, t, ip) /\ seen[duid] = Entry(tbl, t, duid)
      /\ \A k \in Key : seen[k] \in {nil, tbl[k]}
  BY LookupOK
<1>2. r.ok <=> seen[ip] = nil /\ seen[duid] = nil
  BY DEF injectInternal
<1>3. r.ok <=> ~Live(tbl, t, ip) /\ ~Live(tbl, t, duid)
  BY <1>1, <1>2, EntryLive
<1>4. CASE ~r.ok
  <2>1. r.tbl = seen
    BY <1>2, <1>4 DEF injectInternal
  <2>2. LeasesOf(seen, t) = LeasesOf(tbl, t)
    BY LookupLeases
  <2> QED
    BY <1>1, <1>3, <1>4, <2>1, <2>2
<1>5. CASE r.ok
  <2>1. r.tbl = new
    BY <1>2, <1>5 DEF injectInternal
  <2>2. \A k \in Key : new[k] = IF k \in {ip, duid} THEN c ELSE seen[k]
    BY <1>1 DEF TableOK, IsTable
  <2>3. c # nil /\ c.permanent = permanent /\ c.leasedUntil = until
    BY NilAssumption DEF Client
  <2>4. seen[ip] = nil /\ seen[duid] = nil
    BY <1>2, <1>5
  <2>5. LeasesOf(seen, t) = LeasesOf(tbl, t)
    BY LookupLeases
  <2>6. Live(new, t, ip) /\ new[ip] = c /\ new[duid] = c
    <3>1. new[ip] = c /\ new[duid] = c
      BY <2>2
    <3>2. ~Expired(c, t)
      BY <2>3 DEF Expired
    <3> HIDE DEF new
    <3> QED
      BY <2>3, <3>1, <3>2 DEF Live
  <2> HIDE DEF new, seen
  <2>7. \A l : l \in LeasesOf(new, t) <=> l \in LeasesOf(seen, t) \/ l = LeaseOf(c)
    <3>1. ASSUME NEW k \in Key, k \notin {ip, duid}
          PROVE  new[k] = seen[k] /\ (Live(new, t, k) <=> Live(seen, t, k))
      BY <2>2, <3>1 DEF Live
    <3>2. ~Live(seen, t, ip) /\ ~Live(seen, t, duid)
      BY <2>4 DEF Live
    <3>3. ASSUME NEW l, l \in LeasesOf(new, t)
          PROVE  l \in LeasesOf(seen, t) \/ l = LeaseOf(c)
      <4>1. PICK k \in Key : Live(new, t, k) /\ l = LeaseOf(new[k])
        BY <3>3, LeaseMember
      <4> QED
        BY <2>2, <3>1, <4>1, LeaseMember
    <3>4. ASSUME NEW l, l \in LeasesOf(seen, t)
          PROVE  l \in LeasesOf(new, t)
      <4>1. PICK k \in Key : Live(seen, t, k) /\ l = LeaseOf(seen[k])
        BY <3>4, LeaseMember
      <4> QED
        BY <3>1, <3>2, <4>1, LeaseMember
    <3>5. LeaseOf(c) \in LeasesOf(new, t)
      BY <2>6, LeaseMember
    <3> QED
      BY <3>3, <3>4, <3>5
  <2>8. LeasesOf(new, t) = LeasesOf(seen, t) \cup {LeaseOf(c)}
    BY <2>7
  <2> QED
    BY <1>1, <1>3, <1>5, <2>1, <2>2, <2>5, <2>6, <2>8
<1> QED
  BY <1>4, <1>5

\* SetLease succeeds iff the address and the DUID are those of one live client,
\* and then gives exactly that client a new end.
LEMMA SetLeaseEffect ==
    ASSUME NEW tbl, NEW t \in Nat, TableOK(tbl, t),
           NEW ip \in Uip, NEW duid \in Duid, NEW until \in Nat, t <= until,
           NEW r, r = SetLease(tbl, t, ip, duid, until)
    PROVE  /\ r.ok <=> Live(tbl, t, ip) /\ Live(tbl, t, duid) /\ tbl[ip] = tbl[duid]
           /\ ~r.ok => r.tbl = Lookup(tbl, t, ip, duid)
           /\ r.ok => \E l : /\ l = [ip |-> ip, duid |-> duid, until |-> until,
                                    permanent |-> tbl[ip].permanent]
                            /\ LeaseOf(tbl[ip]) \in LeasesOf(tbl, t)
                            /\ tbl[ip].ip = ip /\ tbl[ip].duid = duid
                            /\ LeasesOf(r.tbl, t)
                                  = (LeasesOf(tbl, t) \ {LeaseOf(tbl[ip])}) \cup {l}
           /\ \A k \in Key : r.tbl[k] # nil => tbl[k] # nil /\ r.tbl[k].ip = tbl[k].ip
<1> DEFINE seen == Lookup(tbl, t, ip, duid)
           ok   == seen[ip] # nil /\ seen[duid] # nil /\ seen[ip] = seen[duid]
           c    == [seen[ip] EXCEPT !.leasedUntil = until]
           new  == [k \in Key |-> IF seen[k] = seen[ip]
                                  THEN [seen[k] EXCEPT !.leasedUntil = until]
                                  ELSE seen[k]]
<1>1. /\ TableOK(seen, t)
      /\ seen[ip] = Entry(tbl, t, ip) /\ seen[duid] = Entry(tbl, t, duid)
      /\ \A k \in Key : seen[k] \in {nil, tbl[k]}
      /\ \A k \in Key : Live(tbl, t, k) => seen[k] = tbl[k]
  BY LookupOK
<1>2. r.ok <=> ok
  BY DEF SetLease
<1>3. ok <=> Live(tbl, t, ip) /\ Live(tbl, t, duid) /\ tbl[ip] = tbl[duid]
  <2>1. seen[ip] # nil /\ seen[duid] # nil /\ seen[ip] = seen[duid]
          => seen[ip] = seen[duid]
    BY <1>1 DEF TableOK
  <2> QED
    BY <1>1, <2>1, EntryLive
<1>4. CASE ~ok
  <2>1. r.tbl = seen
    BY <1>4 DEF SetLease
  <2> QED
    BY <1>1, <1>2, <1>3, <1>4, <2>1
<1>5. CASE ok
  <2>1. r.tbl = new
    BY <1>5 DEF SetLease
  <2>2. seen[ip] \in Client /\ seen[duid] = seen[ip] /\ seen[ip] = tbl[ip]
    BY <1>1, <1>3, <1>5 DEF TableOK, IsTable
  <2>3. seen[ip].ip = ip /\ seen[ip].duid = duid
    BY <1>1, <1>5, <2>2, KeyAssumption DEF TableOK, Keyed, Client
  <2>4. /\ c \in Client /\ c # nil
        /\ c.ip = ip /\ c.duid = duid /\ c.leasedUntil = until
        /\ c.permanent = seen[ip].permanent
    BY <2>2, <2>3, NilAssumption DEF Client
  <2>5. \A k \in Key : seen[k] = seen[ip]
                          <=> k \in {ip, duid}
    <3>1. ASSUME NEW k \in Key, seen[k] = seen[ip]
          PROVE  k \in {ip, duid}
      BY <1>1, <1>5, <2>3, <3>1 DEF TableOK, Keyed
    <3> QED
      BY <1>5, <2>2, <3>1
  <2>6. \A k \in Key : new[k] = IF k \in {ip, duid} THEN c ELSE seen[k]
    BY <2>2, <2>5
  <2>7. ~Expired(c, t)
    BY <2>4 DEF Expired, Client
  <2>8. LeaseOf(c) = [ip |-> ip, duid |-> duid, until |-> until,
                      permanent |-> tbl[ip].permanent]
    BY <2>2, <2>4 DEF LeaseOf
  <2>9. LeasesOf(seen, t) = LeasesOf(tbl, t)
    BY LookupLeases
  <2>10. ASSUME NEW k \in Key, k \notin {ip, duid}
         PROVE  new[k] = seen[k] /\ (Live(new, t, k) <=> Live(seen, t, k))
    BY <2>6, <2>10 DEF Live
  <2>11. Live(new, t, ip) /\ new[ip] = c /\ new[duid] = c
    <3>1. new[ip] = c /\ new[duid] = c
      BY <2>6
    <3> HIDE DEF new, c
    <3> QED
      BY <2>4, <2>7, <3>1 DEF Live
  <2>12. Live(seen, t, ip)
    BY <1>1, <1>3, <1>5, <2>2 DEF Live
  \* Another live client has another address, hence another lease.
  <2>13. ASSUME NEW k \in Key, k \notin {ip, duid}, Live(seen, t, k)
         PROVE  LeaseOf(seen[k]) # LeaseOf(seen[ip])
    <3>1. LeaseOf(seen[k]).ip = seen[k].ip /\ LeaseOf(seen[ip]).ip = seen[ip].ip
      BY DEF LeaseOf
    <3>2. CASE seen[k].ip = seen[ip].ip
      <4>1. seen[k] = seen[ip]
        BY <1>1, <2>12, <2>13, <3>2, TableExclusive
      <4> QED
        BY <2>5, <2>12, <2>13, <4>1 DEF Live
    <3> QED
      BY <3>1, <3>2
  <2> HIDE DEF new, seen, c
  <2>14. \A l : l \in LeasesOf(new, t) <=>
                  \/ l \in LeasesOf(seen, t) /\ l # LeaseOf(seen[ip])
                  \/ l = LeaseOf(c)
    <3>1. ASSUME NEW l, l \in LeasesOf(new, t), l # LeaseOf(c)
          PROVE  l \in LeasesOf(seen, t) /\ l # LeaseOf(seen[ip])
      <4>1. PICK k \in Key : Live(new, t, k) /\ l = LeaseOf(new[k])
        BY <3>1, LeaseMember
      <4>2. k \notin {ip, duid}
        BY <2>11, <3>1, <4>1
      <4> QED
        BY <2>10, <2>13, <4>1, <4>2, LeaseMember
    <3>2. ASSUME NEW l, l \in LeasesOf(seen, t), l # LeaseOf(seen[ip])
          PROVE  l \in LeasesOf(new, t)
      <4>1. PICK k \in Key : Live(seen, t, k) /\ l = LeaseOf(seen[k])
        BY <3>2, LeaseMember
      <4>2. k \notin {ip, duid}
        BY <2>2, <3>2, <4>1
      <4> QED
        BY <2>10, <4>1, <4>2, LeaseMember
    <3>3. LeaseOf(c) \in LeasesOf(new, t)
      BY <2>11, LeaseMember
    <3> QED
      BY <3>1, <3>2, <3>3
  <2>15. LeasesOf(new, t) = (LeasesOf(seen, t) \ {LeaseOf(seen[ip])}) \cup {LeaseOf(c)}
    BY <2>14
  <2>16. LeaseOf(tbl[ip]) \in LeasesOf(tbl, t)
    BY <1>3, <1>5, LeaseMember
  <2>17. \A k \in Key : new[k] # nil => tbl[k] # nil /\ new[k].ip = tbl[k].ip
    BY <1>1, <1>3, <1>5, <2>2, <2>3, <2>4, <2>6 DEF Live
  <2> QED
    BY <1>2, <1>3, <1>5, <2>1, <2>2, <2>3, <2>8, <2>9, <2>15, <2>16, <2>17
<1> QED
  BY <1>4, <1>5
-----------------------------------------------------------------------------
\* A key of a live client leads to that client.
LEMMA KeyFacts ==
    ASSUME NEW tbl, NEW t \in Nat, TableOK(tbl, t),
           NEW ip \in Uip, NEW duid \in Duid
    PROVE  /\ Live(tbl, t, ip) => tbl[ip] \in Client /\ tbl[ip].ip = ip
           /\ Live(tbl, t, duid) => tbl[duid] \in Client /\ tbl[duid].duid = duid
           /\ \A k \in Key : Live(tbl, t, k) =>
                 /\ tbl[k] \in Client
                 /\ tbl[k].ip = ip => Live(tbl, t, ip) /\ tbl[ip] = tbl[k]
                 /\ tbl[k].duid = duid => Live(tbl, t, duid) /\ tbl[duid] = tbl[k]
<1>1. \A k \in Key : Live(tbl, t, k) => tbl[k] \in Client /\ tbl[k] # nil
  BY DEF Live, TableOK, IsTable
<1>2. \A k \in Key : Live(tbl, t, k) => k = tbl[k].ip \/ k = tbl[k].duid
  BY <1>1 DEF TableOK, Keyed
<1>3. Live(tbl, t, ip) => tbl[ip].ip = ip
  BY <1>1, <1>2, KeyAssumption DEF Client
<1>4. Live(tbl, t, duid) => tbl[duid].duid = duid
  BY <1>1, <1>2, KeyAssumption DEF Client
<1>5. \A k \in Key : Live(tbl, t, k) =>
         tbl[tbl[k].ip] = tbl[k] /\ tbl[tbl[k].duid] = tbl[k]
  BY DEF TableOK, BothKeys
<1>6. \A k \in Key : Live(tbl, t, k) =>
         /\ tbl[k].ip = ip => Live(tbl, t, ip) /\ tbl[ip] = tbl[k]
         /\ tbl[k].duid = duid => Live(tbl, t, duid) /\ tbl[duid] = tbl[k]
  BY <1>5 DEF Live
<1> QED
  BY <1>1, <1>3, <1>4, <1>6

LEMMA AgreeCases ==
    ASSUME NEW tbl, NEW t \in Nat, TableOK(tbl, t),
           NEW ip \in Uip, NEW duid \in Duid
    PROVE  Agree(tbl, t, ip, duid) <=>
              \/ ~Live(tbl, t, ip) /\ ~Live(tbl, t, duid)
              \/ Live(tbl, t, ip) /\ Live(tbl, t, duid) /\ tbl[ip] = tbl[duid]
<1>1. ASSUME Agree(tbl, t, ip, duid), Live(tbl, t, ip)
      PROVE  Live(tbl, t, duid) /\ tbl[ip] = tbl[duid]
  BY <1>1, KeyFacts DEF Agree
<1>2. ASSUME Agree(tbl, t, ip, duid), Live(tbl, t, duid)
      PROVE  Live(tbl, t, ip)
  BY <1>2, KeyFacts DEF Agree
<1>3. ASSUME ~Live(tbl, t, ip), ~Live(tbl, t, duid)
      PROVE  Agree(tbl, t, ip, duid)
  BY <1>3, KeyFacts DEF Agree
<1>4. ASSUME Live(tbl, t, ip), Live(tbl, t, duid), tbl[ip] = tbl[duid]
      PROVE  Agree(tbl, t, ip, duid)
  BY <1>4, KeyFacts DEF Agree
<1> QED
  BY <1>1, <1>2, <1>3, <1>4

ALease == [ip : Uip, duid : Duid, until : Nat, permanent : BOOLEAN]

\* L2 follows from L by nothing, by a new lease or by a renewed one.
LeaseStep(L, L2, t) ==
    \/ L2 = L
    \/ \E l \in ALease :
          /\ l.permanent \/ t <= l.until
          /\ \A k \in L : k.ip # l.ip /\ k.duid # l.duid
          /\ L2 = L \cup {l}
    \/ \E k \in L, l \in ALease :
          /\ t <= l.until
          /\ l.ip = k.ip /\ l.duid = k.duid /\ l.permanent = k.permanent
          /\ L2 = (L \ {k}) \cup {l}

\* An Inject is a grant.
LEMMA InjectStep ==
    ASSUME NEW tbl, NEW t \in Nat, TableOK(tbl, t), ManagedTable(tbl),
           NEW ip \in Uip, NEW duid \in Duid, NEW until \in Nat,
           NEW permanent \in BOOLEAN,
           permanent \/ t <= until, InManagedRange(ip),
           NEW r, r = injectInternal(tbl, t, ip, duid, until, permanent)
    PROVE  /\ TableOK(r.tbl, t) /\ ManagedTable(r.tbl)
           /\ LeaseStep(LeasesOf(tbl, t), LeasesOf(r.tbl, t), t)
<1> DEFINE c == [ip |-> ip, duid |-> duid,
                 leasedUntil |-> until, permanent |-> permanent]
<1>1. TableOK(r.tbl, t)
  BY InjectOK
<1>2. /\ r.ok <=> ~Live(tbl, t, ip) /\ ~Live(tbl, t, duid)
      /\ ~r.ok => LeasesOf(r.tbl, t) = LeasesOf(tbl, t)
      /\ r.ok => LeasesOf(r.tbl, t) = LeasesOf(tbl, t) \cup {LeaseOf(c)}
      /\ \A k \in Key : r.tbl[k] \in {nil, tbl[k], c}
  BY InjectEffect
<1>3. ManagedTable(r.tbl)
  BY <1>2 DEF ManagedTable
<1>4. CASE ~r.ok
  BY <1>1, <1>2, <1>3, <1>4 DEF LeaseStep
<1>5. CASE r.ok
  <2> DEFINE l == LeaseOf(c)
  <2>1. /\ l \in ALease /\ l.permanent = permanent /\ l.until = until
        /\ l.ip = ip /\ l.duid = duid
    BY DEF LeaseOf, ALease
  <2>2. l.permanent \/ t <= l.until
    BY <2>1
  <2>3. ASSUME NEW k \in LeasesOf(tbl, t)
        PROVE  k.ip # ip /\ k.duid # duid
    <3>1. PICK j \in Key : Live(tbl, t, j) /\ k = LeaseOf(tbl[j])
      BY LeaseMember
    <3>2. k.ip = tbl[j].ip /\ k.duid = tbl[j].duid
      BY <3>1 DEF LeaseOf
    <3> QED
      BY <1>2, <1>5, <3>1, <3>2, KeyFacts
  <2>4. LeasesOf(r.tbl, t) = LeasesOf(tbl, t) \cup {l}
    BY <1>2, <1>5
  <2> HIDE DEF l
  <2>5. LeaseStep(LeasesOf(tbl, t), LeasesOf(r.tbl, t), t)
    BY <2>1, <2>2, <2>3, <2>4 DEF LeaseStep
  <2> QED
    BY <1>1, <1>3, <2>5
<1> QED
  BY <1>4, <1>5

\* A SetLease is a renewal.
LEMMA SetLeaseStep ==
    ASSUME NEW tbl, NEW t \in Nat, TableOK(tbl, t), ManagedTable(tbl),
           NEW ip \in Uip, NEW duid \in Duid, NEW until \in Nat, t <= until,
           NEW r, r = SetLease(tbl, t, ip, duid, until)
    PROVE  /\ TableOK(r.tbl, t) /\ ManagedTable(r.tbl)
           /\ LeaseStep(LeasesOf(tbl, t), LeasesOf(r.tbl, t), t)
<1>1. TableOK(r.tbl, t)
  BY SetLeaseOK
<1>2. ManagedTable(r.tbl)
  BY SetLeaseEffect DEF ManagedTable
<1>3. CASE ~r.ok
  <2>1. r.tbl = Lookup(tbl, t, ip, duid)
    BY <1>3, SetLeaseEffect
  <2> QED
    BY <1>1, <1>2, <2>1, LookupLeases DEF LeaseStep
<1>4. CASE r.ok
  <2>1. PICK l : /\ l = [ip |-> ip, duid |-> duid, until |-> until,
                         permanent |-> tbl[ip].permanent]
                 /\ LeaseOf(tbl[ip]) \in LeasesOf(tbl, t)
                 /\ tbl[ip].ip = ip /\ tbl[ip].duid = duid
                 /\ LeasesOf(r.tbl, t)
                       = (LeasesOf(tbl, t) \ {LeaseOf(tbl[ip])}) \cup {l}
    BY <1>4, SetLeaseEffect
  <2>2. tbl[ip] \in Client
    BY <1>4, SetLeaseEffect, KeyFacts
  <2> DEFINE k == LeaseOf(tbl[ip])
  <2>3. /\ l \in ALease /\ l.until = until
        /\ l.ip = k.ip /\ l.duid = k.duid /\ l.permanent = k.permanent
    BY <2>1, <2>2 DEF LeaseOf, ALease, Client
  <2> HIDE DEF k
  <2>4. LeasesOf(r.tbl, t) = (LeasesOf(tbl, t) \ {k}) \cup {l} /\ k \in LeasesOf(tbl, t)
    BY <2>1 DEF k
  <2>5. LeaseStep(LeasesOf(tbl, t), LeasesOf(r.tbl, t), t)
    BY <2>3, <2>4 DEF LeaseStep
  <2> QED
    BY <1>1, <1>2, <2>5
<1> QED
  BY <1>3, <1>4

\* UpdateClient succeeds iff the address is managed and whoever has the address
\* or the DUID has both; it renews or grants one lease, or changes none.
LEMMA UpdateEffect ==
    ASSUME NEW tbl, NEW t \in Nat, TableOK(tbl, t), ManagedTable(tbl),
           NEW ip \in Uip, NEW duid \in Duid, NEW ttl \in Nat,
           NEW r, r = UpdateTable(tbl, t, ip, duid, ttl)
    PROVE  /\ TableOK(r.tbl, t) /\ ManagedTable(r.tbl)
           /\ LeaseStep(LeasesOf(tbl, t), LeasesOf(r.tbl, t), t)
           /\ InManagedRange(ip) /\ Agree(tbl, t, ip, duid) => r.ok
<1> DEFINE ltime == t + ttl
           set   == SetLease(tbl, t, ip, duid, ltime)
           inj   == Inject(set.tbl, t, ip, duid, ltime)
           fin   == SetLease(inj.tbl, t, ip, duid, ltime)
<1>1. ltime \in Nat /\ t <= ltime
  OBVIOUS
<1>2. CASE ~InManagedRange(ip)
  BY <1>2 DEF UpdateTable, LeaseStep
<1>3. CASE InManagedRange(ip) /\ set.ok
  <2>1. r = set
    BY <1>3 DEF UpdateTable
  <2> QED
    BY <1>1, <1>3, <2>1, SetLeaseStep
<1>4. CASE InManagedRange(ip) /\ ~set.ok
  <2> DEFINE s == set.tbl
  <2>1. s = Lookup(tbl, t, ip, duid)
    BY <1>1, <1>4, SetLeaseEffect
  <2>2. /\ TableOK(s, t) /\ ManagedTable(s)
        /\ LeasesOf(s, t) = LeasesOf(tbl, t)
        /\ \A k \in Key : s[k] \in {nil, tbl[k]}
    BY <1>1, <2>1, SetLeaseStep, LookupLeases, LookupOK
  <2>4. inj = injectInternal(s, t, ip, duid, ltime, FALSE)
    BY DEF Inject
  <2> DEFINE c == [ip |-> ip, duid |-> duid,
                   leasedUntil |-> ltime, permanent |-> FALSE]
  <2>5. /\ TableOK(inj.tbl, t) /\ ManagedTable(inj.tbl)
        /\ LeaseStep(LeasesOf(s, t), LeasesOf(inj.tbl, t), t)
    <3> HIDE DEF ltime, set, inj
    <3> QED
      BY <1>1, <1>4, <2>2, <2>4, InjectStep
  <2>6. /\ inj.ok <=> ~Live(s, t, ip) /\ ~Live(s, t, duid)
        /\ inj.ok => /\ LeasesOf(inj.tbl, t) = LeasesOf(s, t) \cup {LeaseOf(c)}
                     /\ inj.tbl[ip] = c /\ inj.tbl[duid] = c
    <3>1. c = [ip |-> ip, duid |-> duid,
               leasedUntil |-> ltime, permanent |-> FALSE]
      OBVIOUS
    <3>2. \A p \in BOOLEAN : p \/ t <= ltime
      BY <1>1
    <3> HIDE DEF ltime, set, inj, s, c
    <3>3. ASSUME NEW p \in BOOLEAN, p = FALSE
          PROVE  /\ inj.ok <=> ~Live(s, t, ip) /\ ~Live(s, t, duid)
                 /\ inj.ok => /\ LeasesOf(inj.tbl, t) = LeasesOf(s, t) \cup {LeaseOf(c)}
                              /\ inj.tbl[ip] = c /\ inj.tbl[duid] = c
      <4>1. inj = injectInternal(s, t, ip, duid, ltime, p)
        BY <2>4, <3>3
      <4>2. c = [ip |-> ip, duid |-> duid,
                 leasedUntil |-> ltime, permanent |-> p]
        BY <3>1, <3>3
      <4> QED
        BY <1>1, <2>2, <3>2, <4>1, <4>2, InjectEffect
    <3> QED
      BY <3>3
  <2>7. InManagedRange(ip) /\ Agree(tbl, t, ip, duid) => inj.ok
    <3>1. ~(Live(tbl, t, ip) /\ Live(tbl, t, duid) /\ tbl[ip] = tbl[duid])
      BY <1>1, <1>4, SetLeaseEffect
    <3>2. Agree(tbl, t, ip, duid) => ~Live(tbl, t, ip) /\ ~Live(tbl, t, duid)
      BY <3>1, AgreeCases
    <3>3. \A k \in Key : Live(s, t, k) => Live(tbl, t, k)
      BY <2>2 DEF Live
    <3> QED
      BY <2>6, <3>2, <3>3
  <2>8. CASE ~inj.ok
    <3>1. r = inj
      BY <1>4, <2>8 DEF UpdateTable
    <3> QED
      BY <2>2, <2>5, <2>7, <2>8, <3>1
  <2>9. CASE inj.ok
    <3>1. r = fin
      BY <1>4, <2>9 DEF UpdateTable
    <3>2. Live(inj.tbl, t, ip) /\ Live(inj.tbl, t, duid) /\ inj.tbl[ip] = inj.tbl[duid]
      <4>1. ~Expired(c, t)
        BY <1>1 DEF Expired
      <4>2. c \in Client /\ c # nil
        <5> HIDE DEF ltime
        <5>1. c \in Client
          BY <1>1 DEF Client
        <5> QED
          BY <5>1, NilAssumption
      <4> HIDE DEF c, inj
      <4> QED
        BY <2>6, <2>9, <4>1, <4>2 DEF Live
    <3> HIDE DEF inj, ltime
    <3>3. TableOK(fin.tbl, t) /\ ManagedTable(fin.tbl) /\ fin.ok
      BY <1>1, <2>5, <3>2, SetLeaseStep, SetLeaseEffect
    <3>4. LeasesOf(fin.tbl, t) = LeasesOf(inj.tbl, t)
      <4>1. PICK l : /\ l = [ip |-> ip, duid |-> duid, until |-> ltime,
                             permanent |-> inj.tbl[ip].permanent]
                     /\ LeaseOf(inj.tbl[ip]) \in LeasesOf(inj.tbl, t)
                     /\ LeasesOf(fin.tbl, t)
                          = (LeasesOf(inj.tbl, t) \ {LeaseOf(inj.tbl[ip])}) \cup {l}
        BY <1>1, <2>5, <3>3, SetLeaseEffect
      <4>2. LeaseOf(inj.tbl[ip]) = l
        BY <2>6, <2>9, <4>1 DEF LeaseOf
      <4> HIDE DEF fin
      <4> QED
        BY <4>1, <4>2
    <3> HIDE DEF fin, s
    <3> QED
      BY <2>2, <2>5, <3>1, <3>3, <3>4
  <2> QED
    BY <2>8, <2>9
<1> QED
  BY <1>2, <1>3, <1>4
-----------------------------------------------------------------------------
(***************************************************************************)
(* Arithmetic of 32-bit offsets and of the managed range.                  *)
(***************************************************************************)
LEMMA ModSmall ==
    ASSUME NEW a \in Nat, NEW b \in Nat \ {0}, a < b
    PROVE  a % b = a
OBVIOUS

LEMMA ModRange ==
    ASSUME NEW a \in Int, NEW b \in Nat \ {0}
    PROVE  a % b \in 0 .. b - 1
OBVIOUS

LEMMA ModLess ==
    ASSUME NEW a \in Nat, NEW b \in Nat \ {0}
    PROVE  a % b <= a
OBVIOUS

LEMMA ModNegative ==
    ASSUME NEW a \in Int, NEW b \in Nat \ {0}, a < 0, -b <= a
    PROVE  a % b = a + b
OBVIOUS

LEMMA ModWrap ==
    ASSUME NEW a \in Nat, NEW b \in Nat \ {0}, b <= a, a < 2 * b
    PROVE  a % b = a - b
OBVIOUS

\* The suggestion survives its detour through an offset that wraps around.
LEMMA OffsetRoundTrip ==
    ASSUME NEW from \in Uip, NEW n \in Uip
    PROVE  (from + ((n - from) % Mod)) % Mod = n
<1>1. Mod \in Nat \ {0} /\ from \in 0 .. Mod - 1 /\ n \in 0 .. Mod - 1
  BY ModAssumption DEF Uip
<1>2. CASE n >= from
  <2>1. n - from \in Nat /\ n - from < Mod
    BY <1>1, <1>2
  <2>2. (n - from) % Mod = n - from
    BY <1>1, <2>1, ModSmall
  <2>3. from + ((n - from) % Mod) = n
    BY <1>1, <2>2
  <2> QED
    BY <1>1, <2>3, ModSmall
<1>3. CASE n < from
  <2>1. n - from \in Int /\ n - from < 0 /\ -Mod <= n - from
    BY <1>1, <1>3
  <2>2. (n - from) % Mod = n - from + Mod
    BY <1>1, <2>1, ModNegative
  <2>3. from + ((n - from) % Mod) = n + Mod
    BY <1>1, <2>2
  <2>4. (n + Mod) % Mod = n
    BY <1>1, ModWrap
  <2> QED
    BY <2>3, <2>4
<1> QED
  BY <1>1, <1>2, <1>3

\* fromTo returns a range of addresses that is not empty.
LEMMA ManagedRange ==
    /\ netFrom \in Uip /\ netTo \in Uip /\ netFrom <= netTo
    /\ netFrom .. netTo \subseteq Uip
<1>1. Network \in Nat /\ HostSize \in Nat \ {0, 2} /\ Mod \in Nat
  BY NetworkAssumption, HostSizeAssumption, ModAssumption DEF Uip
<1>2. Network % HostSize \in Nat /\ Network % HostSize <= Network
  BY <1>1, ModRange, ModLess
<1>3. start \in Nat /\ start + HostSize <= Mod
  BY <1>1, <1>2, HostSizeAssumption DEF start
<1>4. end = start + (HostSize - 1)
  BY DEF end
<1> QED
  BY <1>1, <1>3, <1>4 DEF netFrom, netTo, Uip

LEMMA ManagedUip ==
    ASSUME NEW ip, InManagedRange(ip)
    PROVE  ip \in Uip
BY ManagedRange DEF InManagedRange

\* Every address a search picks from the dynamic range is managed.
LEMMA PickManaged ==
    ASSUME InManagedRange(dynFrom), InManagedRange(dynTo),
           NEW v \in 0 .. (dynTo - dynFrom)
    PROVE  InManagedRange((dynFrom + v) % Mod)
<1>1. netFrom \in Uip /\ netTo \in Uip /\ dynFrom \in Uip /\ dynTo \in Uip
  BY ManagedRange, ManagedUip
<1>2. dynFrom + v \in Nat /\ dynFrom + v <= dynTo /\ dynFrom <= dynFrom + v
  BY <1>1 DEF Uip
<1>3. dynFrom + v < Mod
  BY <1>1, <1>2, ModAssumption DEF Uip
<1>4. (dynFrom + v) % Mod = dynFrom + v
  BY <1>2, <1>3, ModAssumption, ModSmall
<1>5. dynFrom + v \in netFrom .. netTo
  BY <1>1, <1>2 DEF InManagedRange, Uip
<1> QED
  BY <1>4, <1>5 DEF InManagedRange
-----------------------------------------------------------------------------
(***************************************************************************)
(* Every action preserves IPDBInv and is a step of the promise.            *)
(***************************************************************************)
\* A table with fewer live clients: nothing that was free is taken.
LEMMA FewerLive ==
    ASSUME NEW tbl, NEW t, NEW tbl2, NEW t2,
           \A k \in Key : Live(tbl2, t2, k) => Live(tbl, t, k) /\ tbl2[k] = tbl[k]
    PROVE  /\ \A k \in Key : ~Live(tbl, t, k) => ~Live(tbl2, t2, k)
           /\ \A ip, duid : Agree(tbl, t, ip, duid) => Agree(tbl2, t2, ip, duid)
BY DEF Agree

\* Lookup disturbs none of the parts of the invariant that speak of the table.
LEMMA LookupKeeps ==
    ASSUME IPDBInv, NEW ip \in Uip, NEW duid \in Duid,
           NEW s, s = Lookup(m, now, ip, duid)
    PROVE  /\ IsTable(s) /\ TableOK(s, now) /\ ManagedTable(s)
           /\ LeasesOf(s, now) = LeasesOf(m, now)
           /\ \A k \in Key : ~Live(m, now, k) => ~Live(s, now, k)
           /\ \A i, d : Agree(m, now, i, d) => Agree(s, now, i, d)
           /\ s[ip] = Entry(m, now, ip) /\ s[duid] = Entry(m, now, duid)
<1>1. TableOK(m, now) /\ ManagedTable(m) /\ now \in Nat
  BY DEF IPDBInv, IPDBTypeOK, ClientsTypeOK
<1>2. /\ TableOK(s, now)
      /\ \A k \in Key : s[k] \in {nil, m[k]}
      /\ s[ip] = Entry(m, now, ip) /\ s[duid] = Entry(m, now, duid)
  BY <1>1, LookupOK
<1>3. ManagedTable(s) /\ IsTable(s)
  BY <1>1, <1>2 DEF ManagedTable, TableOK
<1>4. LeasesOf(s, now) = LeasesOf(m, now)
  BY <1>1, LookupLeases
<1>5. \A k \in Key : Live(s, now, k) => Live(m, now, k) /\ s[k] = m[k]
  BY <1>2 DEF Live
<1> QED
  BY <1>2, <1>3, <1>4, <1>5, FewerLive

Kept == IPDBInv' /\ LeaseStep(leases, leases', now)

SearchType == [phase : {"idle", "searching"}, duid : Duid,
               head : SUBSET Uip, rest : SUBSET Uip]

FoundType == [ok : BOOLEAN, ip : Uip, duid : Duid, fresh : BOOLEAN]

LEMMA IdleFacts ==
    /\ NoSearch \in SearchType /\ NoSearch.phase = "idle"
    /\ NoResult \in FoundType /\ ~NoResult.ok
BY DuidAssumption, ModAssumption DEF NoSearch, NoResult, SearchType, FoundType, Uip

LEMMA SetDynamicRangeKeeps ==
    ASSUME IPDBInv, NEW b, NEW e, SetDynamicRange(b, e), UNCHANGED <<now, cancelled>>
    PROVE  Kept
<1>1. b \in Uip /\ e \in Uip
  BY ManagedUip DEF SetDynamicRange
<1> USE DEF SetDynamicRange, Unlocked
<1>2. IPDBTypeOK'
  BY <1>1, IdleFacts DEF IPDBInv, IPDBTypeOK, ClientsTypeOK, FoundType
<1>3. DynRangeOK' /\ SearchOK' /\ FoundOK'
  BY IdleFacts DEF DynRangeOK, SearchOK, FoundOK
<1> QED
  BY <1>2, <1>3 DEF Kept, IPDBInv, LeaseStep, leases

LEMMA DisableDynamicKeeps ==
    ASSUME IPDBInv, DisableDynamic, UNCHANGED <<now, cancelled>>
    PROVE  Kept
<1> USE DEF DisableDynamic, Unlocked
<1>1. 0 \in Uip
  BY ModAssumption DEF Uip
<1>2. IPDBTypeOK'
  BY <1>1, IdleFacts DEF IPDBInv, IPDBTypeOK, ClientsTypeOK, FoundType
<1>3. DynRangeOK' /\ SearchOK' /\ FoundOK'
  BY IdleFacts DEF DynRangeOK, SearchOK, FoundOK
<1> QED
  BY <1>2, <1>3 DEF Kept, IPDBInv, LeaseStep, leases

LEMMA LookupClientByDuidKeeps ==
    ASSUME IPDBInv, NEW duid \in Duid, LookupClientByDuid(duid),
           UNCHANGED <<now, cancelled>>
    PROVE  Kept
<1> USE DEF LookupClientByDuid, Unlocked
<1>1. 0 \in Uip
  BY ModAssumption DEF Uip
<1>2. /\ IsTable(m') /\ TableOK(m', now) /\ ManagedTable(m')
      /\ LeasesOf(m', now) = LeasesOf(m, now)
      /\ \A i, d : Agree(m, now, i, d) => Agree(m', now, i, d)
  BY <1>1, LookupKeeps
<1>3. IPDBTypeOK'
  BY <1>2 DEF IPDBInv, IPDBTypeOK, ClientsTypeOK
<1>4. DynRangeOK' /\ SearchOK' /\ FoundOK'
  BY <1>2 DEF IPDBInv, DynRangeOK, SearchOK, FoundOK
<1> QED
  BY <1>2, <1>3, <1>4 DEF Kept, IPDBInv, LeaseStep, leases

LEMMA AddPermanentClientKeeps ==
    ASSUME IPDBInv, NEW ip \in Uip, NEW duid \in Duid, AddPermanentClient(ip, duid),
           UNCHANGED <<now, cancelled>>
    PROVE  Kept
<1> USE DEF AddPermanentClient, Unlocked
<1>1. m' = InjectPermanent(m, now, ip, duid).tbl
  OBVIOUS
<1>2. /\ TableOK(m', now) /\ ManagedTable(m')
      /\ LeaseStep(LeasesOf(m, now), LeasesOf(m', now), now)
  <2>1. TableOK(m, now) /\ ManagedTable(m) /\ now \in Nat /\ InManagedRange(ip)
    BY DEF IPDBInv, IPDBTypeOK, ClientsTypeOK
  <2>2. ASSUME NEW p \in BOOLEAN, p = TRUE
        PROVE  m' = injectInternal(m, now, ip, duid, 0, p).tbl
    BY <1>1, <2>2 DEF InjectPermanent
  <2> QED
    BY <2>1, <2>2, InjectStep
<1>3. IPDBTypeOK'
  BY <1>2, IdleFacts DEF IPDBInv, IPDBTypeOK, ClientsTypeOK, FoundType, TableOK
<1>4. DynRangeOK' /\ SearchOK' /\ FoundOK'
  BY IdleFacts DEF IPDBInv, DynRangeOK, SearchOK, FoundOK
<1> QED
  BY <1>2, <1>3, <1>4 DEF Kept, IPDBInv, leases

LEMMA UpdateClientKeeps ==
    ASSUME IPDBInv, NEW ip \in Uip, NEW duid \in Duid, NEW ttl \in Nat,
           UpdateClient(ip, duid, ttl), UNCHANGED <<now, cancelled>>
    PROVE  Kept
<1> USE DEF UpdateClient, Unlocked
<1>1. m' = UpdateTable(m, now, ip, duid, ttl).tbl
  OBVIOUS
<1>2. /\ TableOK(m', now) /\ ManagedTable(m')
      /\ LeaseStep(LeasesOf(m, now), LeasesOf(m', now), now)
  BY <1>1, UpdateEffect DEF IPDBInv, IPDBTypeOK, ClientsTypeOK
<1>3. IPDBTypeOK'
  BY <1>2, IdleFacts DEF IPDBInv, IPDBTypeOK, ClientsTypeOK, FoundType, TableOK
<1>4. DynRangeOK' /\ SearchOK' /\ FoundOK'
  BY IdleFacts DEF IPDBInv, DynRangeOK, SearchOK, FoundOK
<1> QED
  BY <1>2, <1>3, <1>4 DEF Kept, IPDBInv, leases

LEMMA FindIPKeeps ==
    ASSUME IPDBInv, NEW ip, NEW duid \in Duid, FindIP(ip, duid),
           UNCHANGED <<now, cancelled>>
    PROVE  Kept
<1> DEFINE n == SuggestedUip(ip)
<1>1. n \in Uip /\ 0 \in Uip /\ (n = 0 \/ InManagedRange(n))
  BY ModAssumption, ManagedUip DEF SuggestedUip, Uip
<1>2. m' = Lookup(m, now, n, duid)
  BY DEF FindIP
<1> HIDE DEF n
<1>3. /\ IsTable(m') /\ TableOK(m', now) /\ ManagedTable(m')
      /\ LeasesOf(m', now) = LeasesOf(m, now)
      /\ m'[n] = Entry(m, now, n) /\ m'[duid] = Entry(m, now, duid)
  BY <1>1, <1>2, LookupKeeps
<1>4. now \in Nat /\ dynFrom \in Uip /\ dynTo \in Uip /\ dynFrom' = dynFrom /\ dynTo' = dynTo
  BY DEF IPDBInv, IPDBTypeOK, ClientsTypeOK, FindIP
<1>5. DynRangeOK'
  BY <1>4 DEF IPDBInv, DynRangeOK
<1>6. SUFFICES search' \in SearchType /\ found' \in FoundType /\ SearchOK' /\ FoundOK'
  BY <1>3, <1>4, <1>5 DEF Kept, IPDBInv, IPDBTypeOK, ClientsTypeOK,
     SearchType, FoundType, LeaseStep, leases
\* This duid already has a lease.
<1>7. CASE m'[duid] # nil /\ Return(TRUE, m'[duid].ip, duid, FALSE)
  <2>1. Live(m, now, duid) /\ m'[duid] = m[duid]
    BY <1>3, <1>7, EntryLive
  <2>2. Live(m', now, duid)
    BY <1>7, <2>1 DEF Live
  <2>3. m'[duid] \in Client /\ m'[duid].duid = duid /\ InManagedRange(m'[duid].ip)
    BY <1>1, <1>3, <1>4, <1>7, <2>2, KeyFacts DEF ManagedTable
  <2>4. m'[duid].ip \in Uip
    BY <2>3 DEF Client
  <2>5. Agree(m', now, m'[duid].ip, duid)
    <3>1. \A k \in Key : Live(m', now, k) /\ m'[k].ip = m'[duid].ip => m'[k] = m'[duid]
      BY <1>3, <1>4, <2>2, TableExclusive
    <3>2. \A k \in Key : Live(m', now, k) /\ m'[k].duid = duid => m'[k] = m'[duid]
      BY <1>1, <1>3, <1>4, KeyFacts
    <3> QED
      BY <2>3, <3>1, <3>2 DEF Agree
  <2>6. found' = [ok |-> TRUE, ip |-> m'[duid].ip, duid |-> duid, fresh |-> FALSE]
        /\ search' = NoSearch
    BY <1>7 DEF Return
  <2> QED
    BY <2>3, <2>4, <2>5, <2>6, IdleFacts DEF SearchOK, FoundOK, FoundType
\* Dynamic searches are disabled.
<1>8. CASE Return(FALSE, 0, duid, FALSE)
  BY <1>1, <1>8, IdleFacts DEF Return, SearchOK, FoundOK, FoundType
\* The search begins.
<1>9. CASE /\ m'[duid] = nil
           /\ dynTo # 0 \/ dynFrom # 0
           /\ search' = [phase |-> "searching", duid |-> duid,
                         head |-> IF m'[n] = nil THEN {(n - dynFrom) % Mod} ELSE {},
                         rest |-> SearchOffsets]
           /\ found' = NoResult
  <2>1. (n - dynFrom) % Mod \in Uip
    BY <1>1, <1>4, ModAssumption, ModRange DEF Uip
  <2>2. InManagedRange(dynFrom) /\ InManagedRange(dynTo) /\ dynFrom <= dynTo
    BY <1>9 DEF IPDBInv, DynRangeOK
  <2>3. dynTo - dynFrom \in Nat /\ dynTo - dynFrom < Mod
    BY <1>4, <2>2, ModAssumption DEF Uip
  <2>4. SearchOffsets = 0 .. (dynTo - dynFrom)
    BY <2>3, ModAssumption, ModSmall DEF SearchOffsets
  <2>5. SearchOffsets \subseteq Uip
    BY <2>3, <2>4, ModAssumption DEF Uip
  <2>6. search' \in SearchType
    BY <1>9, <2>1, <2>5 DEF SearchType
  <2>7. (dynFrom + ((n - dynFrom) % Mod)) % Mod = n
    BY <1>1, <1>4, OffsetRoundTrip
  <2>8. ~Live(m', now, duid)
    BY <1>9 DEF Live
  <2>9. SearchOK'
    <3>1. search'.rest = SearchOffsets /\ search'.duid = duid
      BY <1>9
    <3>2. search'.head \subseteq {(n - dynFrom) % Mod}
      BY <1>9
    <3>3. \A v \in search'.head : \/ (dynFrom + v) % Mod = 0
                                  \/ InManagedRange((dynFrom + v) % Mod)
      BY <1>1, <2>7, <3>2
    <3>4. now' = now
      OBVIOUS
    <3> QED
      BY <1>4, <1>9, <2>4, <2>8, <3>1, <3>3, <3>4 DEF SearchOK
  <2> QED
    BY <1>9, <2>6, <2>9, IdleFacts DEF FoundOK
<1> QED
  BY <1>2, <1>7, <1>8, <1>9 DEF FindIP, Offset, n

LEMMA ProbeKeeps ==
    ASSUME IPDBInv, NEW v \in NextOffsets, NEW free \in BOOLEAN, Probe(v, free),
           UNCHANGED <<now, cancelled>>
    PROVE  Kept
<1> DEFINE picked == (dynFrom + v) % Mod
<1>1. /\ now \in Nat /\ dynFrom \in Uip /\ dynTo \in Uip
      /\ search \in SearchType /\ found \in FoundType
  BY DEF IPDBInv, IPDBTypeOK, ClientsTypeOK, SearchType, FoundType
<1>2. v \in Uip
  BY <1>1 DEF NextOffsets, SearchType
<1>3. picked \in Uip
  BY <1>1, <1>2, ModAssumption, ModRange DEF Uip
<1>4. /\ search.phase = "searching" /\ m' = Lookup(m, now, picked, NilDuid)
      /\ dynFrom' = dynFrom /\ dynTo' = dynTo
  BY DEF Probe
<1>5. /\ ~Live(m, now, search.duid) /\ search.duid \in Duid
      /\ dynFrom # 0 \/ dynTo # 0
      /\ search.rest \subseteq 0 .. (dynTo - dynFrom)
      /\ \A w \in search.head : \/ (dynFrom + w) % Mod = 0
                                \/ InManagedRange((dynFrom + w) % Mod)
  BY <1>1, <1>4 DEF IPDBInv, SearchOK, SearchType
<1>6. picked = 0 \/ InManagedRange(picked)
  <2>1. CASE v \in search.head
    BY <1>5, <2>1
  <2>2. CASE v \in search.rest
    <3>1. InManagedRange(dynFrom) /\ InManagedRange(dynTo)
      BY <1>5 DEF IPDBInv, DynRangeOK
    <3> QED
      BY <1>5, <2>2, <3>1, PickManaged
  <2> QED
    BY <2>1, <2>2 DEF NextOffsets
<1>7. Probe(v, free) => \/ /\ m'[picked] = nil /\ Valid(picked)
                           /\ Return(TRUE, picked, search.duid, TRUE)
                        \/ /\ search' = [search EXCEPT
                                 !.head = {},
                                 !.rest = IF search.head # {} THEN @ ELSE @ \ {v}]
                           /\ UNCHANGED found
  BY DEF Probe, Remaining
<1> HIDE DEF picked
<1>8. /\ IsTable(m') /\ TableOK(m', now) /\ ManagedTable(m')
      /\ LeasesOf(m', now) = LeasesOf(m, now)
      /\ \A k \in Key : ~Live(m, now, k) => ~Live(m', now, k)
      /\ \A i, d : Agree(m, now, i, d) => Agree(m', now, i, d)
  BY <1>3, <1>4, LookupKeeps, DuidAssumption
<1>9. DynRangeOK'
  BY <1>4 DEF IPDBInv, DynRangeOK
<1>10. ~Live(m', now, search.duid)
  BY <1>5, <1>8
<1>11. SUFFICES search' \in SearchType /\ found' \in FoundType /\ SearchOK' /\ FoundOK'
  BY <1>1, <1>4, <1>8, <1>9 DEF Kept, IPDBInv, IPDBTypeOK, ClientsTypeOK,
     SearchType, FoundType, LeaseStep, leases
<1>12. CASE m'[picked] = nil /\ Valid(picked) /\ Return(TRUE, picked, search.duid, TRUE)
  <2>1. picked # 0
    <3>1. 0 % Octet = 0
      BY OctetAssumption, ModSmall
    <3> QED
      BY <1>12, <3>1 DEF Valid
  <2>2. InManagedRange(picked)
    BY <1>6, <2>1
  <2>3. ~Live(m', now, picked)
    BY <1>12 DEF Live
  <2>4. Agree(m', now, picked, search.duid)
    BY <1>1, <1>3, <1>5, <1>8, <1>10, <2>3, AgreeCases
  <2> QED
    BY <1>3, <1>5, <1>12, <2>2, <2>4, IdleFacts
    DEF Return, SearchOK, FoundOK, FoundType
<1>13. CASE /\ search' = [search EXCEPT
                    !.head = {},
                    !.rest = IF search.head # {} THEN @ ELSE @ \ {v}]
            /\ UNCHANGED found
  <2>1. /\ search'.head = {} /\ search'.rest \subseteq search.rest
        /\ search'.duid = search.duid /\ search' \in SearchType
    BY <1>1, <1>13 DEF SearchType
  <2>2. SearchOK'
    BY <1>4, <1>5, <1>10, <2>1 DEF SearchOK
  <2>3. FoundOK'
    BY <1>8, <1>13 DEF IPDBInv, FoundOK
  <2> QED
    BY <1>1, <1>13, <2>1, <2>2, <2>3
<1> QED
  BY <1>7, <1>12, <1>13

LEMMA GiveUpKeeps ==
    ASSUME IPDBInv, GiveUp, UNCHANGED <<now, cancelled>>
    PROVE  Kept
<1>1. 0 \in Uip /\ search.duid \in Duid
  BY ModAssumption DEF Uip, IPDBInv, IPDBTypeOK
<1>2. search' \in SearchType /\ found' \in FoundType
  BY <1>1, IdleFacts DEF GiveUp, Return, FoundType
<1>3. DynRangeOK' /\ SearchOK' /\ FoundOK'
  BY <1>1, IdleFacts DEF GiveUp, Return, IPDBInv, DynRangeOK, SearchOK, FoundOK
<1> QED
  BY <1>2, <1>3 DEF GiveUp, Kept, IPDBInv, IPDBTypeOK, ClientsTypeOK,
     SearchType, FoundType, LeaseStep, leases

LEMMA InitInv == New => IPDBInv
<1> SUFFICES ASSUME New PROVE IPDBInv
  OBVIOUS
<1>1. m = [k \in Key |-> nil] /\ now = 0
  BY DEF New, NewClients
<1>2. IPDBTypeOK
  BY <1>1, IdleFacts, ManagedRange
  DEF New, IPDBTypeOK, ClientsTypeOK, IsTable, SearchType, FoundType
<1>3. TableOK(m, now) /\ ManagedTable(m)
  BY <1>1 DEF TableOK, IsTable, Keyed, BothKeys, Live, ManagedTable
<1>4. DynRangeOK /\ SearchOK /\ FoundOK
  BY ManagedRange, IdleFacts DEF New, DynRangeOK, InManagedRange, SearchOK, FoundOK, Uip
<1> QED
  BY <1>2, <1>3, <1>4 DEF IPDBInv

\* Calls and searches, one case per action.
LEMMA CallKeeps ==
    ASSUME IPDBInv, IPDBCall \/ Searching, UNCHANGED <<now, cancelled>>
    PROVE  Kept
<1>1. CASE DisableDynamic
  BY <1>1, DisableDynamicKeeps
<1>2. ASSUME NEW b \in InputIP, NEW e \in InputIP, SetDynamicRange(b, e)
      PROVE  Kept
  BY <1>2, SetDynamicRangeKeeps
<1>3. ASSUME NEW duid \in Duid, LookupClientByDuid(duid)
      PROVE  Kept
  BY <1>3, LookupClientByDuidKeeps
<1>4. ASSUME NEW duid \in Duid, NEW ip \in InputIP, FindIP(ip, duid)
      PROVE  Kept
  BY <1>4, FindIPKeeps
<1>5. ASSUME NEW duid \in Duid, NEW ip \in InputIP, AddPermanentClient(ip, duid)
      PROVE  Kept
  BY <1>5, AddPermanentClientKeeps, InputAssumption
<1>6. ASSUME NEW duid \in Duid, NEW ip \in InputIP, NEW ttl \in TTL,
             UpdateClient(ip, duid, ttl)
      PROVE  Kept
  BY <1>6, UpdateClientKeeps, InputAssumption, TTLAssumption
<1>7. CASE GiveUp
  BY <1>7, GiveUpKeeps
<1>8. ASSUME NEW v \in NextOffsets, NEW free \in BOOLEAN, Probe(v, free)
      PROVE  Kept
  BY <1>8, ProbeKeeps
<1> QED
  BY <1>1, <1>2, <1>3, <1>4, <1>5, <1>6, <1>7, <1>8 DEF IPDBCall, Searching

\* Time only ends leases.
LEMMA TickKeeps ==
    ASSUME IPDBInv, Tick, UNCHANGED <<poolVars, search, found, cancelled>>
    PROVE  /\ IPDBInv'
           /\ leases' = {l \in leases : l.permanent \/ now' <= l.until}
<1>1. /\ now \in Nat /\ now' = now + 1 /\ now' \in Nat /\ now <= now'
      /\ m' = m /\ dynFrom' = dynFrom /\ dynTo' = dynTo
      /\ search' = search /\ found' = found /\ cancelled' = cancelled
  BY DEF Tick, IPDBInv, IPDBTypeOK, ClientsTypeOK, poolVars
<1>2. TableOK(m, now) /\ TableOK(m, now')
  BY <1>1, LaterOK DEF IPDBInv
<1>3. \A k \in Key : m[k] # nil => m[k] \in Client
  BY <1>2 DEF TableOK, IsTable
<1>4. ASSUME NEW k \in Key
      PROVE  Live(m, now', k) <=>
                Live(m, now, k) /\ (m[k].permanent \/ now' <= m[k].leasedUntil)
  <2>1. CASE m[k] = nil
    BY <2>1 DEF Live
  <2>2. CASE m[k] # nil
    <3>1. m[k].leasedUntil \in Nat
      BY <1>3, <2>2 DEF Client
    <3> QED
      BY <1>1, <2>2, <3>1 DEF Live, Expired
  <2> QED
    BY <2>1, <2>2
<1>5. /\ \A k \in Key : ~Live(m, now, k) => ~Live(m, now', k)
      /\ \A i, d : Agree(m, now, i, d) => Agree(m, now', i, d)
  BY <1>4, FewerLive
<1>6. IPDBInv'
  <2>1. IPDBTypeOK'
    BY <1>1 DEF IPDBInv, IPDBTypeOK, ClientsTypeOK
  <2>2. DynRangeOK' /\ FoundOK' /\ ManagedTable(m')
    BY <1>1, <1>5 DEF IPDBInv, DynRangeOK, FoundOK
  <2>3. search.duid \in Key
    BY DEF IPDBInv, IPDBTypeOK
  <2>4. SearchOK'
    BY <1>1, <1>5, <2>3 DEF IPDBInv, SearchOK
  <2> QED
    BY <1>1, <1>2, <2>1, <2>2, <2>4 DEF IPDBInv
<1>7. leases' = LeasesOf(m, now')
  BY <1>1 DEF leases
<1>8. \A l : l \in LeasesOf(m, now') <=>
              l \in LeasesOf(m, now) /\ (l.permanent \/ now' <= l.until)
  <2>1. ASSUME NEW c
        PROVE  LeaseOf(c).permanent = c.permanent /\ LeaseOf(c).until = c.leasedUntil
    BY DEF LeaseOf
  <2> QED
    BY <1>4, <2>1, LeaseMember
<1> QED
  BY <1>6, <1>7, <1>8 DEF leases

LEMMA CancelKeeps ==
    ASSUME IPDBInv, Cancel
    PROVE  IPDBInv' /\ leases' = leases /\ now' = now
<1>1. /\ m' = m /\ now' = now /\ dynFrom' = dynFrom /\ dynTo' = dynTo
      /\ search' = search /\ found' = found /\ cancelled' \in BOOLEAN
  BY DEF Cancel, poolVars
<1> QED
  BY <1>1 DEF IPDBInv, IPDBTypeOK, ClientsTypeOK, DynRangeOK, SearchOK, FoundOK, leases

\* The invariant holds in every reachable state.
LEMMA IPDBInvariant == IPDBSafety => []IPDBInv
<1>1. IPDBInv /\ [IPDBNext]_ipdbVars => IPDBInv'
  <2> SUFFICES ASSUME IPDBInv, [IPDBNext]_ipdbVars PROVE IPDBInv'
    OBVIOUS
  <2>1. CASE (IPDBCall \/ Searching) /\ UNCHANGED <<now, cancelled>>
    BY <2>1, CallKeeps DEF Kept
  <2>2. CASE Tick /\ UNCHANGED <<poolVars, search, found, cancelled>>
    BY <2>2, TickKeeps
  <2>3. CASE Cancel
    BY <2>3, CancelKeeps
  <2>4. CASE UNCHANGED ipdbVars
    BY <2>4 DEF ipdbVars, IPDBInv, IPDBTypeOK, ClientsTypeOK, DynRangeOK, SearchOK, FoundOK
  <2> QED
    BY <2>1, <2>2, <2>3, <2>4 DEF IPDBNext
<1> QED
  BY <1>1, InitInv, PTL DEF IPDBSafety

\* The pool of ipdb.go stays well typed whatever its callers and the network do.
THEOREM IPDBTyped == IPDBSafety => []IPDBTypeOK
<1>1. IPDBInv => IPDBTypeOK
  BY DEF IPDBInv
<1> QED
  BY <1>1, IPDBInvariant, PTL

\* handleDiscover may rely on it: the address FindIP returned is accepted by
\* the UpdateClient that follows (ipdb.go:97-118), unless somebody else changed
\* the pool in between; for every network, dynamic range, lease time and delay.
THEOREM FoundIsRecordable == IPDBSafety => []OfferRecordable
<1>1. IPDBInv => OfferRecordable
  <2> SUFFICES ASSUME IPDBInv, found.ok, NEW ttl \in TTL
               PROVE  UpdateTable(m, now, found.ip, found.duid, ttl).ok
    BY DEF OfferRecordable
  <2>1. /\ now \in Nat /\ TableOK(m, now) /\ ManagedTable(m) /\ ttl \in Nat
        /\ found.ip \in Uip /\ found.duid \in Duid
        /\ InManagedRange(found.ip) /\ Agree(m, now, found.ip, found.duid)
    BY TTLAssumption DEF IPDBInv, IPDBTypeOK, ClientsTypeOK, FoundOK
  <2> QED
    BY <2>1, UpdateEffect
<1> QED
  BY <1>1, IPDBInvariant, PTL

\* The pool, with its double-keyed map, its lazy expiry and its interruptible
\* searches, implements the lease database that ends every lease on time and
\* never gives an address or a DUID to two clients.
THEOREM PoolImplementsLeaseDB == IPDBSafety => ImplementsLeaseDB
<1>1. New => Promise!Init
  <2> SUFFICES ASSUME New PROVE leases = {} /\ now = 0
    BY DEF Promise!Init
  <2>1. m = [k \in Key |-> nil] /\ now = 0
    BY DEF New, NewClients
  <2>2. \A k \in Key : ~Live(m, now, k)
    BY <2>1 DEF Live
  <2> QED
    BY <2>1, <2>2 DEF leases, LeasesOf
<1>2. IPDBInv /\ [IPDBNext]_ipdbVars => [Promise!Next]_(Promise!leaseVars)
  <2> SUFFICES ASSUME IPDBInv, [IPDBNext]_ipdbVars
               PROVE  Promise!Next \/ (leases' = leases /\ now' = now)
    BY DEF Promise!leaseVars
  <2>1. CASE (IPDBCall \/ Searching) /\ UNCHANGED <<now, cancelled>>
    <3>1. LeaseStep(leases, leases', now) /\ now' = now
      BY <2>1, CallKeeps DEF Kept
    <3>2. ASSUME NEW l \in ALease, l.permanent \/ now <= l.until,
                 \A k \in leases : k.ip # l.ip /\ k.duid # l.duid,
                 leases' = leases \cup {l}
          PROVE  Promise!Grant
      BY <3>1, <3>2 DEF Promise!Grant, Promise!Lease, ALease, Promise!Running, Promise!Clash
    <3>3. ASSUME NEW k \in leases, NEW l \in ALease, now <= l.until,
                 l.ip = k.ip /\ l.duid = k.duid /\ l.permanent = k.permanent,
                 leases' = (leases \ {k}) \cup {l}
          PROVE  Promise!Renew
      BY <3>1, <3>3 DEF Promise!Renew, Promise!Lease, ALease
    <3> QED
      BY <3>1, <3>2, <3>3 DEF LeaseStep, Promise!Next
  <2>2. CASE Tick /\ UNCHANGED <<poolVars, search, found, cancelled>>
    <3>1. now' = now + 1
      BY <2>2 DEF Tick
    <3> QED
      BY <2>2, <3>1, TickKeeps DEF Promise!Next, Promise!Elapse, Promise!Running
  <2>3. CASE Cancel
    BY <2>3, CancelKeeps
  <2>4. CASE UNCHANGED ipdbVars
    BY <2>4 DEF ipdbVars, leases
  <2> QED
    BY <2>1, <2>2, <2>3, <2>4 DEF IPDBNext
<1> QED
  BY <1>1, <1>2, IPDBInvariant, PTL DEF IPDBSafety, ImplementsLeaseDB, Promise!Spec
=============================================================================
