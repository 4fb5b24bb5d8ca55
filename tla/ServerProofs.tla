---------------------------- MODULE ServerProofs ----------------------------
(***************************************************************************)
(* The safety properties of the server, for every network, configuration   *)
(* and set of requests, any number of goroutines and any lease times.      *)
(* What the pool's methods do to the table is taken from IPDBProofs.       *)
(***************************************************************************)
EXTENDS Server, IPDBProofs

USE DEF Key

Pc == {"idle", "start", "discover", "search", "offer", "request", "arp", "ack"}

ProcType ==
    [pc : Pc, pkt : Request \cup {nil}, byCid : BOOLEAN, cid : Duid \cup {nil},
     ip : Uip \cup {nil}]

\* A goroutine knows its packet and, where it uses them, an identifier and an
\* address; it does not serve the server itself.
ProcOK(g) ==
    /\ g \in ProcType
    /\ g.pc # "idle" => g.pkt \in Request
    /\ g.byCid => g.cid # nil
    /\ g.pc \in {"offer", "arp", "ack"} => g.ip \in Uip
    /\ g.pc \notin {"idle", "start"} => g.pkt.hw # SelfHw

\* The mutex is held by the one goroutine that searches.
MutexRight ==
    /\ search.phase = "searching" <=> \E h \in Handler : proc[h].pc = "search"
    /\ \A g, h \in Handler : proc[g].pc = "search" /\ proc[h].pc = "search" => g = h

NewTyped ==
    /\ conf \in Config /\ todo \subseteq conf.client /\ overrides \subseteq Duid
    /\ status \in {"range", "mode", "clients", "up", "failed", "down"}

ServerInv ==
    /\ IPDBInv
    /\ NewTyped
    /\ proc \in [Handler -> ProcType]
    /\ \A h \in Handler : ProcOK(proc[h])
    /\ MutexRight
    /\ status \notin {"up", "down"} => \A h \in Handler : proc[h].pc = "idle"
-----------------------------------------------------------------------------
\* What an overwritten option reads as.
LEMMA ClobberedIs ==
    ASSUME NEW c, NEW q, NEW junk, NEW how
    PROVE  \/ Clobbered(c, q, junk, how) = c
           \/ c # nil /\ q # nil /\ Clobbered(c, q, junk, how) = q
           \/ c # nil /\ Clobbered(c, q, junk, how) = junk
BY DEF Clobbered

LEMMA IdleOK == Idle \in ProcType /\ ProcOK(Idle) /\ Idle.pc = "idle"
BY DEF Idle, ProcOK, ProcType, Pc

\* An overwritten goroutine is where it was, and serves whom it served.
LEMMA OverwriteOK ==
    ASSUME NEW g, ProcOK(g), NEW q, NEW how,
           q.type \in {"discover", "request", "other", nil},
           q.reqIP \in Uip \cup {nil}, q.sid \in {"self", "other", nil},
           q.cid \in Duid \cup {nil}
    PROVE  LET o == Overwrite(g, q, how)
           IN  /\ ProcOK(o)
               /\ o.pc = g.pc /\ o.byCid = g.byCid /\ o.ip = g.ip
               /\ g.pc # "idle" => o.pkt.hw = g.pkt.hw
<1> DEFINE cid   == Clobbered(g.cid, q.cid, Garbage, how)
           type  == Clobbered(g.pkt.type, q.type, "other", how)
           reqIP == Clobbered(g.pkt.reqIP, q.reqIP, 0, how)
           sid   == Clobbered(g.pkt.sid, q.sid, "other", how)
<1>1. cid \in Duid \cup {nil} /\ (g.cid # nil => cid # nil)
  BY ClobberedIs, GarbageAssumption DEF ProcOK, ProcType
<1>2. CASE g.pc = "idle"
  BY <1>2 DEF Overwrite
<1>3. CASE g.pc = "start"
  <2>1. 0 \in Uip
    BY ModAssumption DEF Uip
  <2>2. g.pkt \in Request /\ g \in ProcType
    BY <1>3 DEF ProcOK
  <2>3. type \in {"discover", "request", "other"}
    BY <2>2, ClobberedIs DEF Request
  <2>4. reqIP \in Uip \cup {nil}
    BY <2>1, <2>2, ClobberedIs DEF Request
  <2>5. sid \in {"self", "other", nil}
    BY <2>2, ClobberedIs DEF Request
  <2>6. Overwrite(g, q, how) = [g EXCEPT !.pkt.type = type, !.pkt.reqIP = reqIP,
                                         !.pkt.sid = sid, !.cid = cid]
    BY <1>3 DEF Overwrite
  <2> DEFINE pkt == [g.pkt EXCEPT !.type = type, !.reqIP = reqIP, !.sid = sid]
  <2> HIDE DEF type, reqIP, sid, cid
  <2>7. pkt \in Request /\ pkt.hw = g.pkt.hw
    BY <2>2, <2>3, <2>4, <2>5 DEF Request
  <2>8. Overwrite(g, q, how) = [g EXCEPT !.pkt = pkt, !.cid = cid]
    BY <2>2, <2>6 DEF ProcType, Request
  <2> HIDE DEF pkt
  <2> QED
    BY <1>1, <1>3, <2>2, <2>7, <2>8 DEF ProcOK, ProcType
<1>4. CASE g.pc \notin {"idle", "start"}
  <2>1. Overwrite(g, q, how) = [g EXCEPT !.cid = cid]
    BY <1>4 DEF Overwrite
  <2> HIDE DEF cid
  <2> QED
    BY <1>1, <1>4, <2>1 DEF ProcOK, ProcType
<1> QED
  BY <1>2, <1>3, <1>4

LEMMA DuidOK ==
    ASSUME NEW h \in Handler, ProcOK(proc[h]), proc[h].pc # "idle"
    PROVE  duid(h) \in Duid /\ proc[h].pkt.hw \in Hw
BY HwAssumption DEF ProcOK, ProcType, Request, duid
-----------------------------------------------------------------------------
(***************************************************************************)
(* What the methods of the pool do to single records.                      *)
(***************************************************************************)
Renewed(c, until) == [c EXCEPT !.leasedUntil = until]

\* SetLease writes through the pointer both keys hold, or only looks.
LEMMA SetLeaseRecords ==
    ASSUME NEW tbl, NEW t \in Nat, TableOK(tbl, t),
           NEW ip \in Uip, NEW d \in Duid, NEW until \in Nat,
           NEW r, r = SetLease(tbl, t, ip, d, until)
    PROVE  /\ ~r.ok => r.tbl = Lookup(tbl, t, ip, d)
           /\ r.ok <=> Live(tbl, t, ip) /\ Live(tbl, t, d) /\ tbl[ip] = tbl[d]
           /\ r.ok => /\ tbl[ip].ip = ip /\ tbl[ip].duid = d
                      /\ \A k \in Key : r.tbl[k] = IF tbl[k] = tbl[ip]
                                                 THEN Renewed(tbl[k], until) ELSE tbl[k]
<1> DEFINE seen == Lookup(tbl, t, ip, d)
<1>1. /\ seen[ip] = Entry(tbl, t, ip) /\ seen[d] = Entry(tbl, t, d)
      /\ \A k \in Key : Live(tbl, t, k) => seen[k] = tbl[k]
      /\ \A k \in Key : k \notin {ip, d} => seen[k] = tbl[k]
  BY LookupOK DEF Lookup
<1>2. /\ seen[ip] # nil <=> Live(tbl, t, ip)
      /\ seen[d] # nil <=> Live(tbl, t, d)
  BY <1>1, EntryLive
<1>3. r.ok <=> Live(tbl, t, ip) /\ Live(tbl, t, d) /\ tbl[ip] = tbl[d]
  BY <1>1, <1>2 DEF SetLease
<1>4. r.ok => tbl[ip].ip = ip /\ tbl[ip].duid = d
  BY <1>3, KeyFacts
<1>5. ~r.ok => r.tbl = seen
  BY DEF SetLease
<1>6. r.ok => \A k \in Key : seen[k] = tbl[k]
  BY <1>1, <1>3
<1>7. r.ok => \A k \in Key : r.tbl[k] = IF tbl[k] = tbl[ip]
                                      THEN Renewed(tbl[k], until) ELSE tbl[k]
  <2> HAVE r.ok
  <2>1. r.tbl = [k \in Key |-> IF seen[k] = seen[ip]
                              THEN [seen[k] EXCEPT !.leasedUntil = until] ELSE seen[k]]
    BY DEF SetLease
  <2> HIDE DEF seen
  <2> QED BY <1>6, <2>1 DEF Renewed
<1> QED
  BY <1>3, <1>4, <1>5, <1>7

\* injectInternal makes a new client of both keys, or only looks.
LEMMA InjectRecords ==
    ASSUME NEW tbl, NEW t \in Nat, TableOK(tbl, t),
           NEW ip \in Uip, NEW d \in Duid, NEW until \in Nat,
           NEW permanent \in BOOLEAN,
           NEW r, r = injectInternal(tbl, t, ip, d, until, permanent)
    PROVE  /\ ~r.ok => r.tbl = Lookup(tbl, t, ip, d)
           /\ r.ok <=> ~Live(tbl, t, ip) /\ ~Live(tbl, t, d)
           /\ r.ok => \A k \in Key :
                 r.tbl[k] = IF k \in {ip, d}
                            THEN [ip |-> ip, duid |-> d, leasedUntil |-> until,
                                  permanent |-> permanent]
                            ELSE tbl[k]
<1> DEFINE seen == Lookup(tbl, t, ip, d)
           c    == [ip |-> ip, duid |-> d, leasedUntil |-> until, permanent |-> permanent]
<1>1. /\ seen[ip] = Entry(tbl, t, ip) /\ seen[d] = Entry(tbl, t, d)
      /\ \A k \in Key : k \notin {ip, d} => seen[k] = tbl[k]
      /\ DOMAIN seen = Key
  BY LookupOK DEF Lookup
<1>2. r.ok <=> seen[ip] = nil /\ seen[d] = nil
  BY DEF injectInternal
<1>3. r.ok <=> ~Live(tbl, t, ip) /\ ~Live(tbl, t, d)
  BY <1>1, <1>2, EntryLive
<1>4. ~r.ok => r.tbl = seen
  BY DEF injectInternal
<1>5. r.ok => r.tbl = [seen EXCEPT ![ip] = c, ![d] = c]
  BY DEF injectInternal
<1> HIDE DEF c
<1>6. r.ok => \A k \in Key : r.tbl[k] = IF k \in {ip, d} THEN c ELSE tbl[k]
  <2> HIDE DEF seen
  <2> QED BY <1>1, <1>5
<1> QED
  BY <1>3, <1>4, <1>6 DEF c

SameClient(c, b) == c.ip = b.ip /\ c.duid = b.duid /\ c.permanent = b.permanent

\* UpdateClient renews the lease of the address and the DUID, makes a new one if
\* neither has one, and changes no lease of another client.
LEMMA UpdateRecords ==
    ASSUME NEW tbl, NEW t \in Nat, TableOK(tbl, t), ManagedTable(tbl),
           NEW ip \in Uip, NEW d \in Duid, NEW ttl \in Nat,
           NEW r, r = UpdateTable(tbl, t, ip, d, ttl)
    PROVE  /\ \A k \in Key : r.tbl[k] # nil =>
                 \/ tbl[k] # nil /\ SameClient(r.tbl[k], tbl[k])
                 \/ /\ ~Live(tbl, t, ip) /\ ~Live(tbl, t, d)
                    /\ r.tbl[k].ip = ip /\ r.tbl[k].duid = d /\ ~r.tbl[k].permanent
           /\ r.ok => /\ InManagedRange(ip)
                      /\ r.tbl[d] # nil /\ r.tbl[ip] = r.tbl[d]
                      /\ r.tbl[d].ip = ip /\ r.tbl[d].duid = d
                      /\ r.tbl[d].leasedUntil = t + ttl
           /\ \A k \in Key : Live(tbl, t, k) /\ (~r.ok \/ tbl[k].duid # d) =>
                 r.tbl[k] = tbl[k]
           /\ KeepsPermanent(tbl, r.tbl)
<1> DEFINE ltime == t + ttl
           set   == SetLease(tbl, t, ip, d, ltime)
           inj   == Inject(set.tbl, t, ip, d, ltime)
           c     == [ip |-> ip, duid |-> d, leasedUntil |-> ltime, permanent |-> FALSE]
<1>0. ltime \in Nat /\ IsTable(tbl) /\ ip \in Key /\ d \in Key
  BY DEF TableOK
<1>1. CASE ~InManagedRange(ip)
  BY <1>1 DEF UpdateTable, SameClient, KeepsPermanent
<1>2. CASE InManagedRange(ip) /\ set.ok
  <2>1. r = set
    BY <1>2 DEF UpdateTable
  <2>2. /\ Live(tbl, t, ip) /\ Live(tbl, t, d) /\ tbl[ip] = tbl[d]
        /\ tbl[ip].ip = ip /\ tbl[ip].duid = d
        /\ \A k \in Key : r.tbl[k] = IF tbl[k] = tbl[ip] THEN Renewed(tbl[k], ltime) ELSE tbl[k]
    <3> HIDE DEF ltime
    <3> QED BY <1>0, <1>2, <2>1, SetLeaseRecords
  <2>3. ASSUME NEW k \in Key, tbl[k] = tbl[ip]
        PROVE  /\ r.tbl[k] \in Client /\ SameClient(r.tbl[k], tbl[k])
               /\ r.tbl[k].leasedUntil = ltime
    <3>1. tbl[k] \in Client
      BY <1>0, <2>2, <2>3 DEF IsTable, Live
    <3> HIDE DEF ltime, set
    <3> QED BY <1>0, <2>2, <2>3, <3>1 DEF Renewed, SameClient, Client
  <2>4. r.tbl[ip] = r.tbl[d]
    BY <1>0, <2>2
  <2> HIDE DEF ltime, set
  <2>5. ltime = t + ttl
    BY DEF ltime
  <2>6. \A k \in Key :
           \/ /\ tbl[k] = tbl[ip] /\ tbl[k] # nil
              /\ r.tbl[k] # nil /\ SameClient(r.tbl[k], tbl[k])
           \/ tbl[k] # tbl[ip] /\ r.tbl[k] = tbl[k]
    <3>1. tbl[ip] # nil
      BY <2>2 DEF Live
    <3>2. \A k \in Key : tbl[k] = tbl[ip] => r.tbl[k] # nil /\ SameClient(r.tbl[k], tbl[k])
      BY <2>3, NilAssumption
    <3>3. \A k \in Key : tbl[k] # tbl[ip] => r.tbl[k] = tbl[k]
      BY <2>2
    <3> QED BY <3>1, <3>2, <3>3
  <2>7. \A k \in Key : r.tbl[k] # nil => tbl[k] # nil /\ SameClient(r.tbl[k], tbl[k])
    BY <2>6 DEF SameClient
  <2>8. KeepsPermanent(tbl, r.tbl)
    BY <2>6 DEF SameClient, KeepsPermanent
  <2>9. r.ok /\ r.tbl[d] # nil /\ r.tbl[d].ip = ip /\ r.tbl[d].duid = d
        /\ r.tbl[d].leasedUntil = t + ttl
    BY <1>0, <1>2, <2>1, <2>2, <2>3, <2>5, <2>6 DEF SameClient
  <2>10. \A k \in Key : Live(tbl, t, k) /\ tbl[k].duid # d => r.tbl[k] = tbl[k]
    BY <2>2, <2>6
  <2> QED
    BY <1>2, <2>4, <2>7, <2>8, <2>9, <2>10
<1>3. CASE InManagedRange(ip) /\ ~set.ok
  <2> DEFINE s == Lookup(tbl, t, ip, d)
  <2>1. set.tbl = s
    <3> HIDE DEF ltime
    <3> QED BY <1>0, <1>3, SetLeaseRecords
  <2>2. /\ TableOK(s, t)
        /\ \A k \in Key : s[k] \in {nil, tbl[k]}
        /\ \A k \in Key : Live(tbl, t, k) => s[k] = tbl[k]
        /\ \A k \in Key : Live(s, t, k) <=> Live(tbl, t, k)
    BY LookupOK DEF Live
  <2>3. inj = injectInternal(s, t, ip, d, ltime, FALSE)
    BY <2>1 DEF Inject
  <2>4. /\ ~inj.ok => inj.tbl = Lookup(s, t, ip, d)
        /\ inj.ok <=> ~Live(s, t, ip) /\ ~Live(s, t, d)
        /\ inj.ok => \A k \in Key : inj.tbl[k] = IF k \in {ip, d} THEN c ELSE s[k]
    <3>1. c = [ip |-> ip, duid |-> d, leasedUntil |-> ltime, permanent |-> FALSE]
      OBVIOUS
    <3> HIDE DEF ltime, inj, set, s, c
    <3>2. ASSUME NEW p \in BOOLEAN, p = FALSE
          PROVE  /\ ~inj.ok => inj.tbl = Lookup(s, t, ip, d)
                 /\ inj.ok <=> ~Live(s, t, ip) /\ ~Live(s, t, d)
                 /\ inj.ok => \A k \in Key : inj.tbl[k] = IF k \in {ip, d} THEN c ELSE s[k]
      <4>1. inj = injectInternal(s, t, ip, d, ltime, p)
        BY <2>3, <3>2
      <4>2. c = [ip |-> ip, duid |-> d, leasedUntil |-> ltime, permanent |-> p]
        BY <3>1, <3>2
      <4> QED BY <1>0, <2>2, <4>1, <4>2, InjectRecords
    <3> QED BY <3>2
  <2>5. CASE ~inj.ok
    <3>1. r = inj
      BY <1>3, <2>5 DEF UpdateTable
    <3>2. /\ \A k \in Key : r.tbl[k] \in {nil, s[k]}
          /\ \A k \in Key : Live(s, t, k) => r.tbl[k] = s[k]
      <4> HIDE DEF s, inj
      <4> QED BY <2>2, <2>4, <2>5, <3>1, LookupOK
    <3> HIDE DEF s, inj, set, ltime
    <3> QED
      BY <1>0, <2>2, <2>5, <3>1, <3>2 DEF SameClient, KeepsPermanent, Live, Expired
  <2>6. CASE inj.ok
    <3>1. r = SetLease(inj.tbl, t, ip, d, ltime)
      BY <1>3, <2>6 DEF UpdateTable
    <3>2. TableOK(inj.tbl, t)
      <4> HIDE DEF ltime, inj, s
      <4> QED BY <1>0, <2>2, <2>3, InjectOK
    <3>3. c \in Client /\ c # nil /\ c.ip = ip /\ c.duid = d /\ ~c.permanent
          /\ c.leasedUntil = ltime /\ t <= ltime
      <4>1. c \in Client
        BY <1>0 DEF Client
      <4>2. c # nil
        BY <4>1, NilAssumption
      <4>3. ~c.permanent /\ c.leasedUntil = ltime /\ c.ip = ip /\ c.duid = d
        OBVIOUS
      <4> QED BY <4>1, <4>2, <4>3
    <3> HIDE DEF c, s, inj, set, ltime
    <3>4. inj.tbl[ip] = c /\ inj.tbl[d] = c
      BY <1>0, <2>4, <2>6
    <3>5. Live(inj.tbl, t, ip) /\ Live(inj.tbl, t, d)
      BY <1>0, <3>3, <3>4 DEF Live, Expired
    <3>6. Renewed(c, ltime) = c
      BY <3>3 DEF Client, Renewed
    <3>7. r.ok /\ \A k \in Key : r.tbl[k] = inj.tbl[k]
      <4>1. r.ok
        BY <1>0, <3>1, <3>2, <3>4, <3>5, SetLeaseRecords
      <4>2. \A k \in Key : r.tbl[k] = IF inj.tbl[k] = inj.tbl[ip]
                                     THEN Renewed(inj.tbl[k], ltime) ELSE inj.tbl[k]
        BY <1>0, <3>1, <3>2, <4>1, SetLeaseRecords
      <4> QED BY <3>4, <3>6, <4>1, <4>2
    <3>8. \A k \in Key : r.tbl[k] = IF k \in {ip, d} THEN c ELSE s[k]
      BY <2>4, <2>6, <3>7
    <3>9. ~Live(tbl, t, ip) /\ ~Live(tbl, t, d)
      BY <1>0, <2>2, <2>4, <2>6
    <3>10. \A k \in Key : Live(tbl, t, k) => r.tbl[k] = tbl[k]
      BY <2>2, <3>8, <3>9
    <3>11. KeepsPermanent(tbl, r.tbl)
      BY <3>10 DEF KeepsPermanent, Live, Expired
    <3>12. ltime = t + ttl
      BY DEF ltime
    <3> QED
      BY <1>0, <1>3, <2>2, <3>3, <3>7, <3>8, <3>9, <3>10, <3>11, <3>12 DEF SameClient
  <2> QED BY <2>5, <2>6
<1> QED
  BY <1>1, <1>2, <1>3
-----------------------------------------------------------------------------
(***************************************************************************)
(* The pool under the server's steps.                                      *)
(***************************************************************************)
\* The table is looked at, and loses at most keys of expired clients.
Quiet ==
    /\ now' = now
    /\ m' = m \/ \E i \in Uip, d \in Duid : m' = Lookup(m, now, i, d)

LEMMA QuietRecords ==
    ASSUME IPDBInv, Quiet
    PROVE  /\ KeepsPermanent(m, m')
           /\ \A k \in Key : m'[k] \in {nil, m[k]}
           /\ \A k \in Key : Live(m, now, k) => m'[k] = m[k]
<1>1. TableOK(m, now) /\ now \in Nat
  BY DEF IPDBInv, IPDBTypeOK, ClientsTypeOK
<1>2. CASE m' = m
  BY <1>2 DEF KeepsPermanent
<1>3. CASE \E i \in Uip, d \in Duid : m' = Lookup(m, now, i, d)
  <2>1. PICK i \in Uip, d \in Duid : m' = Lookup(m, now, i, d)
    BY <1>3
  <2> QED BY <1>1, <2>1, LookupOK, LookupPermanent
<1> QED BY <1>2, <1>3 DEF Quiet

LEMMA FindIPQuiet ==
    ASSUME NEW ip, NEW d \in Duid, FindIP(ip, d), now' = now
    PROVE  Quiet /\ UNCHANGED <<dynFrom, dynTo>>
<1>1. SuggestedUip(ip) \in Uip
  BY ManagedUip, ModAssumption DEF SuggestedUip, Uip
<1> QED BY <1>1 DEF FindIP, Quiet

LEMMA SearchingQuiet ==
    ASSUME IPDBInv, Searching, now' = now
    PROVE  Quiet /\ UNCHANGED <<dynFrom, dynTo>> /\ search.phase = "searching"
<1>1. CASE GiveUp
  BY <1>1 DEF GiveUp, Quiet
<1>2. CASE \E v \in NextOffsets, free \in BOOLEAN : Probe(v, free)
  <2>1. PICK v \in NextOffsets, free \in BOOLEAN : Probe(v, free)
    BY <1>2
  <2>2. dynFrom + v \in Int
    BY DEF IPDBInv, IPDBTypeOK, NextOffsets, Uip
  <2>3. (dynFrom + v) % Mod \in Uip
    BY <2>2, ModRange, ModAssumption DEF Uip
  <2> QED BY <2>1, <2>3, DuidAssumption DEF Probe, Quiet
<1> QED BY <1>1, <1>2 DEF Searching

\* What a goroutine does to the pool: it looks, or it records an address.
LEMMA GoroutinePool ==
    ASSUME ServerInv, NEW h \in Handler, Goroutine(h), UNCHANGED <<now, cancelled>>
    PROVE  /\ IPDBInv' /\ UNCHANGED <<dynFrom, dynTo, newVars>>
           /\ proc[h].pc # "idle"
           /\ \/ Quiet
              \/ /\ proc[h].pc = "offer"
                 /\ UpdateClient(proc[h].ip, duid(h), OfferTime)
              \/ /\ proc[h].pc = "ack"
                 /\ UpdateClient(proc[h].ip, duid(h), LeaseTime)
<1>0. IPDBInv /\ ProcOK(proc[h])
  BY DEF ServerInv
<1>1. CASE handleMsg(h)
  <2>1. proc[h].pc = "start" /\ LookupClientByDuid(hwDuid[proc[h].pkt.hw]) /\ UNCHANGED newVars
    BY <1>1 DEF handleMsg
  <2>2. hwDuid[proc[h].pkt.hw] \in Duid
    BY <1>0, <2>1, DuidOK, HwAssumption
  <2>3. 0 \in Uip
    BY ModAssumption DEF Uip
  <2> QED BY <1>0, <2>1, <2>2, <2>3, LookupClientByDuidKeeps DEF LookupClientByDuid, Quiet, Kept
<1>2. CASE handleDiscover(h)
  <2>1. proc[h].pc = "discover" /\ UNCHANGED newVars
    BY <1>2 DEF handleDiscover
  <2>2. CASE UNCHANGED <<poolVars, search, found>>
    BY <1>0, <2>1, <2>2 DEF poolVars, Quiet, IPDBInv, IPDBTypeOK, ClientsTypeOK, DynRangeOK,
                            SearchOK, FoundOK
  <2>3. CASE \E ip : FindIP(ip, duid(h))
    <3>1. PICK ip : FindIP(ip, duid(h))
      BY <2>3
    <3>2. duid(h) \in Duid
      BY <1>0, <2>1, DuidOK
    <3> QED BY <1>0, <2>1, <3>1, <3>2, FindIPKeeps, FindIPQuiet DEF Kept
  <2> QED BY <1>2, <2>2, <2>3 DEF handleDiscover
<1>3. CASE searchIP(h)
  <2>1. proc[h].pc = "search" /\ UNCHANGED newVars /\ Searching
    BY <1>3 DEF searchIP
  <2> QED BY <1>0, <2>1, CallKeeps, SearchingQuiet DEF Kept
<1>4. CASE sendOffer(h) \/ sendAck(h)
  <2>1. PICK ttl \in {OfferTime, LeaseTime} :
           /\ ttl = IF proc[h].pc = "offer" THEN OfferTime ELSE LeaseTime
           /\ proc[h].pc \in {"offer", "ack"} /\ UNCHANGED newVars
           /\ UpdateClient(proc[h].ip, duid(h), ttl)
    BY <1>4 DEF sendOffer, sendAck, UpdateAndSend
  <2>2. duid(h) \in Duid /\ proc[h].ip \in Uip /\ ttl \in Nat
    BY <1>0, <2>1, DuidOK, TimeAssumption DEF ProcOK
  <2>3. IPDBInv'
    BY <1>0, <2>1, <2>2, UpdateClientKeeps DEF Kept
  <2> QED BY <2>1, <2>3 DEF UpdateClient
<1>5. CASE handleRequest(h)
  <2>1. proc[h].pc = "request" /\ UNCHANGED newVars
    BY <1>5 DEF handleRequest
  <2>2. CASE UNCHANGED <<poolVars, search, found>>
    BY <1>0, <2>1, <2>2 DEF poolVars, Quiet, IPDBInv, IPDBTypeOK, ClientsTypeOK, DynRangeOK,
                            SearchOK, FoundOK
  <2>3. CASE LookupClientByDuid(duid(h))
    <3>1. duid(h) \in Duid /\ 0 \in Uip
      BY <1>0, <2>1, DuidOK, ModAssumption DEF Uip
    <3> QED BY <1>0, <2>1, <2>3, <3>1, LookupClientByDuidKeeps DEF LookupClientByDuid, Quiet, Kept
  <2> QED BY <1>5, <2>2, <2>3 DEF handleRequest
<1>6. CASE \E free \in BOOLEAN : arpVerify(h, free)
  BY <1>0, <1>6 DEF arpVerify, poolVars, Quiet, IPDBInv, IPDBTypeOK, ClientsTypeOK, DynRangeOK,
                    SearchOK, FoundOK
<1> QED
  BY <1>1, <1>2, <1>3, <1>4, <1>5, <1>6 DEF Goroutine

\* A reservation that is possible is made, and takes nobody's lease.
LEMMA Reserves ==
    ASSUME IPDBInv, NEW ip \in Uip, NEW d \in Duid, CanAdd(ip, d),
           AddPermanentClient(ip, d), UNCHANGED <<now, cancelled>>
    PROVE  /\ IPDBInv' /\ KeepsPermanent(m, m') /\ Reserved(ip, d)'
           /\ \A k \in Key :
                 m'[k] = m[k] \/ (m'[k].ip = ip /\ m'[k].duid = d /\ m'[k].permanent)
           /\ \A k \in Key : Live(m, now, k) => m'[k] = m[k]
<1> DEFINE c == [ip |-> ip, duid |-> d, leasedUntil |-> 0, permanent |-> TRUE]
           r == InjectPermanent(m, now, ip, d)
<1>1. IPDBInv'
  BY AddPermanentClientKeeps DEF Kept
<1>2. TableOK(m, now) /\ now \in Nat /\ m' = r.tbl
  BY DEF IPDBInv, IPDBTypeOK, ClientsTypeOK, AddPermanentClient
<1>3. ~Live(m, now, ip) /\ ~Live(m, now, d)
  BY EntryLive DEF CanAdd
<1>4. \A k \in Key : m'[k] = IF k \in {ip, d} THEN c ELSE m[k]
  <2>1. c = [ip |-> ip, duid |-> d, leasedUntil |-> 0, permanent |-> TRUE]
    OBVIOUS
  <2>2. r = injectInternal(m, now, ip, d, 0, TRUE)
    BY DEF InjectPermanent
  <2> HIDE DEF c, r
  <2>3. ASSUME NEW p \in BOOLEAN, p = TRUE
        PROVE  \A k \in Key : m'[k] = IF k \in {ip, d} THEN c ELSE m[k]
    <3>1. r = injectInternal(m, now, ip, d, 0, p)
      BY <2>2, <2>3
    <3>2. c = [ip |-> ip, duid |-> d, leasedUntil |-> 0, permanent |-> p]
      BY <2>1, <2>3
    <3> QED BY <1>2, <1>3, <3>1, <3>2, InjectRecords
  <2> QED BY <2>3
<1>5. c.ip = ip /\ c.duid = d /\ c.permanent /\ c # nil
  <2>1. c \in Client
    BY DEF Client
  <2>2. c # nil
    BY <2>1, NilAssumption
  <2> QED BY <2>2
<1> HIDE DEF c, r
<1>6. Reserved(ip, d)'
  BY <1>4, <1>5 DEF Reserved
<1>7. KeepsPermanent(m, m')
  BY <1>3, <1>4 DEF KeepsPermanent, Live, Expired
<1>8. \A k \in Key : Live(m, now, k) => m'[k] = m[k]
  BY <1>3, <1>4
<1> QED BY <1>1, <1>4, <1>5, <1>6, <1>7, <1>8

\* A reservation is never lost.
LEMMA ReservedKept ==
    ASSUME IPDBInv', KeepsPermanent(m, m'), NEW ip \in Uip, NEW d \in Duid, Reserved(ip, d)
    PROVE  Reserved(ip, d)'
<1>1. m'[ip] # nil /\ m'[ip].permanent /\ m'[ip].ip = ip /\ m'[ip].duid = d
  BY DEF Reserved, KeepsPermanent
<1>2. Live(m', now', ip)
  BY <1>1 DEF Live, Expired
<1>3. m'[d] = m'[ip]
  BY <1>1, <1>2 DEF IPDBInv, TableOK, BothKeys
<1> QED BY <1>1, <1>3 DEF Reserved

\* An entry New took for a client has its address reserved.
Taken(e) == OverrideIP(e) # nil => e.hw \in Hw /\ Reserved(e.ip, hwDuid[e.hw])

\* A permanent client is the server itself or one of an entry.
Owned(c) ==
    \/ c.ip = SelfIP /\ c.duid = hwDuid[SelfHw]
    \/ \E e \in conf.client :
          OverrideIP(e) # nil /\ e.hw \in Hw /\ c.ip = e.ip /\ c.duid = hwDuid[e.hw]

RangeSet == conf.range # nil => dynFrom = conf.range.from /\ dynTo = conf.range.to

\* How far New has come.
StartInv ==
    /\ \A e \in conf.client \ todo : Taken(e)
    /\ \A k \in Key : m[k] # nil /\ m[k].permanent => Owned(m[k])
    /\ status = "mode" => RangeSet
    /\ status \in {"clients", "up", "down"} =>
          IF conf.staticOnly THEN dynFrom = 0 /\ dynTo = 0 ELSE RangeSet
    /\ status \in {"up", "down"} => todo = {} /\ Reserved(SelfIP, hwDuid[SelfHw])

\* OverrideIP of an entry in use is an address.
LEMMA EntryTyped ==
    ASSUME NewTyped, NEW e \in conf.client
    PROVE  /\ e.hw # nil => e.hw \in Hw
           /\ e.hw \in Hw => hwDuid[e.hw] \in Duid
           /\ OverrideIP(e) # nil => e.ip \in Uip
BY ConfigAssumption, HwAssumption DEF NewTyped, OverrideIP

\* A step that leaves the configuration alone and reserves nothing new.
LEMMA StartKept ==
    ASSUME ServerInv, StartInv, IPDBInv', KeepsPermanent(m, m'),
           UNCHANGED <<dynFrom, dynTo, conf, todo, overrides>>,
           status' \in {status, "failed"} \/ (status = "up" /\ status' = "down"),
           \A k \in Key : m'[k] # nil /\ m'[k].permanent =>
                m[k] # nil /\ SameClient(m'[k], m[k])
    PROVE  StartInv'
<1>1. ASSUME NEW e \in conf.client \ todo
      PROVE  Taken(e)'
  <2>1. Taken(e)
    BY DEF StartInv
  <2>2. CASE OverrideIP(e) = nil
    BY <2>2 DEF Taken, OverrideIP
  <2>3. CASE OverrideIP(e) # nil
    <3>1. e.ip \in Uip /\ e.hw \in Hw /\ hwDuid[e.hw] \in Duid /\ Reserved(e.ip, hwDuid[e.hw])
      BY <2>1, <2>3, EntryTyped DEF Taken, ServerInv
    <3>2. Reserved(e.ip, hwDuid[e.hw])'
      BY <3>1, ReservedKept
    <3> QED BY <3>1, <3>2 DEF Taken, OverrideIP
  <2> QED BY <2>2, <2>3
<1>2. ASSUME NEW k \in Key, m'[k] # nil, m'[k].permanent
      PROVE  Owned(m[k])'
  BY <1>2 DEF StartInv, Owned, SameClient, OverrideIP
<1>3. status' \in {"up", "down"} => Reserved(SelfIP, hwDuid[SelfHw])'
  BY ReservedKept, ConfigAssumption, HwAssumption DEF StartInv
<1> QED BY <1>1, <1>2, <1>3 DEF StartInv, RangeSet

\* Every step of New keeps the types of the configuration and what it has done.
LEMMA ConfigKeeps ==
    ASSUME ServerInv, StartInv, ConfigStep, UNCHANGED <<now, cancelled>>
    PROVE  /\ IPDBInv' /\ KeepsPermanent(m, m') /\ NewTyped' /\ StartInv'
           /\ UNCHANGED <<conf, search>>
           /\ status \in {"range", "mode", "clients"}
           /\ \A k \in Key : m'[k] = m[k] \/ m'[k].permanent
           /\ \A k \in Key : Live(m, now, k) => m'[k] = m[k]
<1>0. IPDBInv /\ NewTyped
  BY DEF ServerInv
<1> DEFINE Same == IPDBInv' /\ m' = m
<1>1. ASSUME UNCHANGED <<poolVars, search, found>>
      PROVE  Same /\ UNCHANGED search /\ UNCHANGED <<dynFrom, dynTo>>
  BY <1>0, <1>1 DEF poolVars, IPDBInv, IPDBTypeOK, ClientsTypeOK, DynRangeOK, SearchOK, FoundOK
<1>2. m' = m => KeepsPermanent(m, m')
  BY DEF KeepsPermanent
<1>3. ASSUME Fail, UNCHANGED <<poolVars, search, found>>,
             status \in {"range", "mode", "clients"}
      PROVE  /\ IPDBInv' /\ KeepsPermanent(m, m') /\ NewTyped' /\ StartInv'
             /\ UNCHANGED <<conf, search, m>>
  <2>1. /\ Same /\ UNCHANGED <<search, dynFrom, dynTo, conf, todo, overrides>>
        /\ status' = "failed" /\ KeepsPermanent(m, m')
    BY <1>1, <1>2, <1>3 DEF Fail
  <2>2. StartInv'
    BY <2>1, StartKept DEF SameClient
  <2> QED BY <1>0, <2>1, <2>2 DEF NewTyped
<1>4. CASE ConfigRange
  <2>1. CASE conf.range # nil /\ Fail /\ UNCHANGED <<poolVars, search, found>>
    BY <1>3, <1>4, <2>1 DEF ConfigRange
  <2>2. CASE /\ conf.range = nil /\ status' = "mode"
             /\ UNCHANGED <<conf, todo, overrides, poolVars, search, found>>
    BY <1>0, <1>1, <1>2, <1>4, <2>2
       DEF ConfigRange, NewTyped, StartInv, Taken, Owned, Reserved, OverrideIP, RangeSet
  <2>3. CASE /\ conf.range # nil /\ SetDynamicRange(conf.range.from, conf.range.to)
             /\ status' = "mode" /\ UNCHANGED <<conf, todo, overrides>>
    <3>1. IPDBInv' /\ m' = m /\ search' = search
      BY <1>0, <2>3, SetDynamicRangeKeeps DEF Kept, SetDynamicRange
    <3>2. RangeSet'
      BY <2>3 DEF RangeSet, SetDynamicRange
    <3> QED BY <1>0, <1>2, <1>4, <2>3, <3>1, <3>2
            DEF ConfigRange, NewTyped, StartInv, Taken, Owned, Reserved, OverrideIP
  <2> QED BY <1>4, <2>1, <2>2, <2>3 DEF ConfigRange
<1>5. CASE ConfigMode
  <2>1. /\ status = "mode" /\ status' = "clients" /\ UNCHANGED <<conf, todo, overrides>>
        /\ IF conf.staticOnly THEN DisableDynamic ELSE UNCHANGED <<poolVars, search, found>>
    BY <1>5 DEF ConfigMode
  <2>2. IPDBInv' /\ m' = m /\ search' = search
    BY <1>0, <1>1, <2>1, DisableDynamicKeeps DEF Kept, DisableDynamic
  <2>3. IF conf.staticOnly THEN dynFrom' = 0 /\ dynTo' = 0 ELSE RangeSet'
    BY <1>1, <2>1 DEF DisableDynamic, StartInv, RangeSet
  <2> QED BY <1>0, <1>2, <2>1, <2>2, <2>3
          DEF NewTyped, StartInv, Taken, Owned, Reserved, OverrideIP
<1>6. CASE ConfigSelf
  <2>1. CASE Fail /\ UNCHANGED <<poolVars, search, found>>
    BY <1>3, <1>6, <2>1 DEF ConfigSelf
  <2>2. CASE /\ CanAdd(SelfIP, hwDuid[SelfHw]) /\ AddPermanentClient(SelfIP, hwDuid[SelfHw])
             /\ status' = "up" /\ UNCHANGED <<conf, todo, overrides>>
    <3>1. /\ IPDBInv' /\ KeepsPermanent(m, m') /\ Reserved(SelfIP, hwDuid[SelfHw])'
          /\ \A k \in Key :
                m'[k] = m[k] \/ (m'[k].ip = SelfIP /\ m'[k].duid = hwDuid[SelfHw]
                                  /\ m'[k].permanent)
          /\ \A k \in Key : Live(m, now, k) => m'[k] = m[k]
      BY <1>0, <2>2, Reserves, ConfigAssumption, HwAssumption
    <3>2. /\ status = "clients" /\ todo = {}
          /\ UNCHANGED <<dynFrom, dynTo, search>>
      BY <1>6, <2>2 DEF ConfigSelf, AddPermanentClient
    <3>3. ASSUME NEW e \in conf.client
          PROVE  Taken(e)'
      <4>1. Taken(e)
        BY <3>2 DEF StartInv
      <4>2. OverrideIP(e) # nil => Reserved(e.ip, hwDuid[e.hw])'
        BY <1>0, <3>1, <4>1, EntryTyped, ReservedKept DEF Taken
      <4> QED BY <4>1, <4>2 DEF Taken, OverrideIP
    <3>4. ASSUME NEW k \in Key, m'[k] # nil, m'[k].permanent
          PROVE  Owned(m[k])'
      BY <2>2, <3>1, <3>4 DEF StartInv, Owned, OverrideIP
    <3> QED BY <1>0, <2>2, <3>1, <3>2, <3>3, <3>4 DEF NewTyped, StartInv, RangeSet
  <2> QED BY <1>6, <2>1, <2>2 DEF ConfigSelf
<1>7. CASE \E e \in todo : ConfigClient(e)
  <2>1. PICK e \in todo : ConfigClient(e)
    BY <1>7
  <2>2. e \in conf.client /\ status = "clients"
    BY <1>0, <2>1 DEF ConfigClient, NewTyped
  <2>3. CASE Fail /\ UNCHANGED <<poolVars, search, found>>
    BY <1>3, <2>2, <2>3
  <2>4. CASE /\ e.hw # nil
             /\ \/ /\ OverrideIP(e) = nil
                   /\ UNCHANGED <<poolVars, search, found>>
                \/ /\ OverrideIP(e) # nil
                   /\ CanAdd(e.ip, hwDuid[e.hw])
                   /\ AddPermanentClient(e.ip, hwDuid[e.hw])
             /\ overrides' = overrides \cup {OverrideKey(e)}
             /\ todo' = todo \ {e}
             /\ UNCHANGED <<conf, status>>
    <3>1. e.hw \in Hw /\ hwDuid[e.hw] \in Duid /\ (OverrideIP(e) # nil => e.ip \in Uip)
      BY <1>0, <2>2, <2>4, EntryTyped
    <3>2. /\ IPDBInv' /\ KeepsPermanent(m, m') /\ UNCHANGED <<dynFrom, dynTo, search>>
          /\ OverrideIP(e) # nil => Reserved(e.ip, hwDuid[e.hw])'
          /\ \A k \in Key :
                \/ m'[k] = m[k]
                \/ /\ OverrideIP(e) # nil
                   /\ m'[k].ip = e.ip /\ m'[k].duid = hwDuid[e.hw] /\ m'[k].permanent
          /\ \A k \in Key : Live(m, now, k) => m'[k] = m[k]
      <4>1. CASE OverrideIP(e) = nil
        BY <1>1, <1>2, <2>4, <4>1
      <4>2. CASE OverrideIP(e) # nil
        BY <1>0, <2>4, <3>1, <4>2, Reserves DEF AddPermanentClient
      <4> QED BY <4>1, <4>2
    <3>3. ASSUME NEW f \in conf.client \ todo'
          PROVE  Taken(f)'
      <4>1. CASE f = e
        BY <3>1, <3>2, <4>1 DEF Taken, OverrideIP
      <4>2. CASE f # e
        <5>1. Taken(f)
          BY <2>4, <4>2 DEF StartInv
        <5>2. OverrideIP(f) # nil => Reserved(f.ip, hwDuid[f.hw])'
          BY <1>0, <3>2, <5>1, EntryTyped, ReservedKept DEF Taken
        <5> QED BY <5>1, <5>2 DEF Taken, OverrideIP
      <4> QED BY <4>1, <4>2
    <3>4. ASSUME NEW k \in Key, m'[k] # nil, m'[k].permanent
          PROVE  Owned(m[k])'
      <4>1. conf' = conf
        BY <2>4
      <4> QED BY <2>2, <3>1, <3>2, <3>4, <4>1 DEF StartInv, Owned, OverrideIP
    <3>5. NewTyped'
      BY <1>0, <2>4, <3>1 DEF NewTyped, OverrideKey
    <3>6. StartInv'
      BY <2>2, <2>4, <3>2, <3>3, <3>4 DEF StartInv, RangeSet
    <3> QED BY <2>2, <2>4, <3>2, <3>5, <3>6
  <2> QED BY <2>1, <2>3, <2>4 DEF ConfigClient
<1> QED BY <1>4, <1>5, <1>6, <1>7 DEF ConfigStep
-----------------------------------------------------------------------------
(***************************************************************************)
(* Goroutines and mutex.                                                   *)
(***************************************************************************)
ProcsOK == proc \in [Handler -> ProcType] /\ \A h \in Handler : ProcOK(proc[h])

LEMMA ProcStep ==
    ASSUME ProcsOK, NEW h \in Handler, NEW g, ProcOK(g), proc' = [proc EXCEPT ![h] = g]
    PROVE  ProcsOK' /\ proc'[h] = g /\ \A x \in Handler \ {h} : proc'[x] = proc[x]
<1>1. g \in ProcType
  BY DEF ProcOK
<1>2. proc' \in [Handler -> ProcType] /\ proc'[h] = g
      /\ \A x \in Handler \ {h} : proc'[x] = proc[x]
  BY <1>1 DEF ProcsOK
<1>3. ASSUME NEW x \in Handler
      PROVE  ProcOK(proc'[x])
  BY <1>2 DEF ProcsOK
<1> QED BY <1>2, <1>3 DEF ProcsOK, ProcOK

\* A step that begins and ends outside of a search.
LEMMA MutexUntouched ==
    ASSUME ServerInv, NEW h \in Handler, proc[h].pc # "search", proc'[h].pc # "search",
           \A x \in Handler \ {h} : proc'[x] = proc[x], search' = search
    PROVE  MutexRight'
BY DEF ServerInv, MutexRight

\* A step of FindIP.
LEMMA MutexMoves ==
    ASSUME ServerInv, NEW h \in Handler, proc[h].pc = "search" \/ search.phase = "idle",
           \A x \in Handler \ {h} : proc'[x] = proc[x],
           search'.phase = "searching" <=> proc'[h].pc = "search"
    PROVE  MutexRight'
BY DEF ServerInv, MutexRight

\* What the step of a goroutine makes of it.
LEMMA GoroutineProc ==
    ASSUME ServerInv, NEW h \in Handler, Goroutine(h), UNCHANGED <<now, cancelled>>
    PROVE  ProcsOK' /\ MutexRight' /\ \A x \in Handler \ {h} : proc'[x] = proc[x]
<1>0. ProcsOK /\ ProcOK(proc[h]) /\ proc[h] \in ProcType /\ IPDBInv /\ IPDBInv'
  BY GoroutinePool DEF ServerInv, ProcsOK, ProcOK
<1>1. ASSUME proc' = [proc EXCEPT ![h] = Idle]
      PROVE  ProcsOK' /\ proc'[h].pc = "idle" /\ \A x \in Handler \ {h} : proc'[x] = proc[x]
  BY <1>0, <1>1, ProcStep, IdleOK
<1>2. ASSUME NEW pc \in Pc, NEW ip \in Uip \cup {nil}, Goto(h, pc, ip),
             proc[h].pc \notin {"idle", "start"}, pc \in {"offer", "arp", "ack"} => ip \in Uip
      PROVE  ProcsOK' /\ proc'[h].pc = pc /\ \A x \in Handler \ {h} : proc'[x] = proc[x]
  <2> DEFINE g == [proc[h] EXCEPT !.pc = pc, !.ip = ip]
  <2>1. ProcOK(g) /\ g.pc = pc
    BY <1>0, <1>2 DEF ProcOK, ProcType
  <2>2. proc' = [proc EXCEPT ![h] = g]
    BY <1>0, <1>2 DEF Goto, ProcsOK, ProcType
  <2> HIDE DEF g
  <2> QED BY <1>0, <2>1, <2>2, ProcStep
<1>3. ASSUME AfterFindIP(h), proc[h].pc \in {"discover", "search"},
             proc[h].pc = "search" \/ search.phase = "idle"
      PROVE  ProcsOK' /\ MutexRight' /\ \A x \in Handler \ {h} : proc'[x] = proc[x]
  <2>1. search'.phase \in {"idle", "searching"} /\ found'.ip \in Uip /\ found'.ok \in BOOLEAN
    BY <1>0 DEF IPDBInv, IPDBTypeOK
  <2>2. CASE search'.phase = "searching" /\ Goto(h, "search", nil)
    BY <1>2, <1>3, <2>2, MutexMoves DEF Pc
  <2>3. CASE search'.phase = "idle" /\ Goto(h, "offer", found'.ip)
    BY <1>2, <1>3, <2>1, <2>3, MutexMoves DEF Pc
  <2>4. CASE search'.phase = "idle" /\ Drop(h)
    BY <1>1, <1>3, <2>4, MutexMoves DEF Drop
  <2> QED BY <1>3, <2>1, <2>2, <2>3, <2>4 DEF AfterFindIP
<1>4. CASE handleMsg(h)
  <2> DEFINE p    == proc[h].pkt
             next == IF p.hw = SelfHw \/ p.reqIP = SelfIP THEN "idle" ELSE p.type
             by   == Entry(m, now, hwDuid[p.hw]) = nil /\ proc[h].cid # nil
             g    == IF next \in {"discover", "request"}
                     THEN [proc[h] EXCEPT !.pc = next, !.byCid = by] ELSE Idle
  <2>1. /\ proc[h].pc = "start" /\ search' = search
        /\ proc' = [proc EXCEPT ![h] = g]
    BY <1>4 DEF handleMsg, LookupClientByDuid
  <2>2. ProcOK(g) /\ g.pc # "search"
    <3>1. CASE next \in {"discover", "request"}
      <4>1. p.hw # SelfHw /\ by \in BOOLEAN /\ (by => proc[h].cid # nil)
        BY <3>1
      <4> HIDE DEF next, by
      <4> QED BY <1>0, <2>1, <3>1, <4>1 DEF ProcOK, ProcType, Pc
    <3>2. CASE next \notin {"discover", "request"}
      <4>1. g = Idle
        BY <3>2
      <4> HIDE DEF g
      <4> QED BY <4>1, IdleOK
    <3> QED BY <3>1, <3>2
  <2> HIDE DEF g
  <2> QED BY <1>0, <2>1, <2>2, ProcStep, MutexUntouched
<1>5. CASE handleDiscover(h)
  <2>1. CASE Drop(h) /\ search' = search
    BY <1>1, <1>5, <2>1, MutexUntouched DEF Drop, handleDiscover
  <2>2. CASE AfterFindIP(h) /\ search.phase = "idle"
    BY <1>3, <1>5, <2>2 DEF handleDiscover
  <2> QED BY <1>5, <2>1, <2>2 DEF handleDiscover, FindIP, Unlocked
<1>6. CASE searchIP(h)
  BY <1>3, <1>6 DEF searchIP
<1>7. CASE sendOffer(h) \/ sendAck(h)
  <2>1. /\ proc[h].pc \in {"offer", "ack"} /\ search' = search
        /\ proc' = [proc EXCEPT ![h] = Idle]
    BY <1>7 DEF sendOffer, sendAck, UpdateAndSend, UpdateClient, sendMsg, Drop
  <2> QED BY <1>1, <2>1, MutexUntouched
<1>8. CASE handleRequest(h)
  <2> DEFINE ip == DesiredIP(proc[h].pkt)
  <2>1. /\ proc[h].pc = "request" /\ search' = search
        /\ \/ proc' = [proc EXCEPT ![h] = Idle]
           \/ InManagedRange(ip) /\ Goto(h, "arp", ip)
    BY <1>8 DEF handleRequest, Drop, sendNACK, LookupClientByDuid
  <2>2. CASE proc' = [proc EXCEPT ![h] = Idle]
    BY <1>1, <2>1, <2>2, MutexUntouched
  <2>3. CASE InManagedRange(ip) /\ Goto(h, "arp", ip)
    <3>1. ip \in Uip
      BY <2>3, ManagedUip
    <3> HIDE DEF ip
    <3> QED BY <1>2, <2>1, <2>3, <3>1, MutexUntouched DEF Pc
  <2> QED BY <2>1, <2>2, <2>3
<1>9. CASE \E free \in BOOLEAN : arpVerify(h, free)
  <2>1. /\ proc[h].pc = "arp" /\ search' = search
        /\ proc' = [proc EXCEPT ![h] = Idle] \/ Goto(h, "ack", proc[h].ip)
    BY <1>9 DEF arpVerify, sendNACK
  <2>2. proc[h].ip \in Uip
    BY <1>0, <2>1 DEF ProcOK
  <2> QED BY <1>1, <1>2, <2>1, <2>2, MutexUntouched DEF Pc
<1> QED
  BY <1>4, <1>5, <1>6, <1>7, <1>8, <1>9 DEF Goroutine

\* Reading a packet starts a goroutine or none, and leaves the others where
\* they are.
LEMMA ReadKeeps ==
    ASSUME ServerInv, ReceiveOther \/ \E h \in Handler, p \in Packet : Receive(h, p)
    PROVE  /\ ProcsOK' /\ MutexRight' /\ status = "up"
           /\ UNCHANGED <<poolVars, search, found, newVars, promise>>
           /\ \A h \in Handler :
                 \/ proc[h].pc = "idle" /\ proc'[h].pc = "start"
                 \/ /\ proc'[h].pc = proc[h].pc /\ proc'[h].byCid = proc[h].byCid
                    /\ proc'[h].ip = proc[h].ip
                    /\ proc[h].pc # "idle" => proc'[h].pkt.hw = proc[h].pkt.hw
<1>0. ProcsOK /\ MutexRight
  BY DEF ServerInv, ProcsOK
<1> DEFINE Same(h) == /\ proc'[h].pc = proc[h].pc /\ proc'[h].byCid = proc[h].byCid
                      /\ proc'[h].ip = proc[h].ip
                      /\ proc[h].pc # "idle" => proc'[h].pkt.hw = proc[h].pkt.hw
<1>1. CASE ReceiveOther
  <2> DEFINE q == [type |-> nil, reqIP |-> nil, sid |-> nil, cid |-> nil]
  <2>1. PICK how \in [Handler -> {"kept", "garbage"}] :
           proc' = [g \in Handler |-> Overwrite(proc[g], q, how[g])]
    BY <1>1 DEF ReceiveOther
  <2>2. ASSUME NEW h \in Handler
        PROVE  ProcOK(proc'[h]) /\ proc'[h] \in ProcType /\ Same(h)
    <3>1. proc'[h] = Overwrite(proc[h], q, how[h])
      BY <2>1
    <3>2. ProcOK(proc[h])
      BY <1>0 DEF ProcsOK
    <3>3. /\ q.type \in {"discover", "request", "other", nil} /\ q.reqIP \in Uip \cup {nil}
          /\ q.sid \in {"self", "other", nil} /\ q.cid \in Duid \cup {nil}
      OBVIOUS
    <3> HIDE DEF q
    <3> QED BY <3>1, <3>2, <3>3, OverwriteOK DEF ProcOK
  <2>3. proc' \in [Handler -> ProcType]
    BY <2>1, <2>2
  <2>4. ProcsOK'
    BY <2>2, <2>3 DEF ProcsOK, ProcOK
  <2>5. search' = search /\ status = "up"
        /\ UNCHANGED <<poolVars, search, found, newVars, promise>>
    BY <1>1 DEF ReceiveOther
  <2> QED BY <1>0, <2>2, <2>4, <2>5 DEF MutexRight
<1>2. CASE \E h \in Handler, p \in Packet : Receive(h, p)
  <2>1. PICK h \in Handler, p \in Packet : Receive(h, p)
    BY <1>2
  <2> DEFINE new == [Idle EXCEPT !.pc = "start", !.pkt = p, !.cid = p.cid]
  <2>2. PICK how \in How :
           proc' = [g \in Handler |-> IF g = h THEN new ELSE Overwrite(proc[g], p, how[g])]
    BY <2>1 DEF Receive
  <2>3. p \in Request
    BY PacketAssumption
  <2>4. ProcOK(new) /\ new.pc = "start"
    BY <2>3 DEF ProcOK, ProcType, Pc, Idle, Request
  <2>5. ASSUME NEW g \in Handler, g # h
        PROVE  ProcOK(proc'[g]) /\ Same(g)
    <3>1. proc'[g] = Overwrite(proc[g], p, how[g])
      BY <2>2, <2>5
    <3>2. ProcOK(proc[g])
      BY <1>0 DEF ProcsOK
    <3>3. /\ p.type \in {"discover", "request", "other", nil} /\ p.reqIP \in Uip \cup {nil}
          /\ p.sid \in {"self", "other", nil} /\ p.cid \in Duid \cup {nil}
      BY <2>3 DEF Request
    <3> QED BY <3>1, <3>2, <3>3, OverwriteOK
  <2>6. proc'[h] = new /\ proc[h].pc = "idle"
    BY <2>1, <2>2 DEF Receive
  <2> HIDE DEF new, Same
  <2>7. \A g \in Handler : ProcOK(proc'[g])
    BY <2>4, <2>5, <2>6
  <2>8. proc' \in [Handler -> ProcType]
    BY <2>2, <2>7 DEF ProcOK
  <2>9. ProcsOK'
    BY <2>7, <2>8 DEF ProcsOK, ProcOK
  <2>10. status = "up" /\ UNCHANGED <<poolVars, search, found, newVars, promise>>
    BY <2>1 DEF Receive
  <2>11. \A g \in Handler : proc'[g].pc = "search" <=> proc[g].pc = "search"
    BY <2>4, <2>5, <2>6 DEF Same
  <2>12. MutexRight'
    BY <1>0, <2>10, <2>11 DEF MutexRight
  <2> QED BY <2>4, <2>5, <2>6, <2>9, <2>10, <2>12 DEF Same
<1> QED BY <1>1, <1>2

\* The pool is right in every state of the server.
LEMMA PoolUntouched ==
    ASSUME IPDBInv, UNCHANGED <<poolVars, search, found, now, cancelled>>
    PROVE  IPDBInv' /\ Quiet
BY DEF poolVars, Quiet, IPDBInv, IPDBTypeOK, ClientsTypeOK, DynRangeOK, SearchOK, FoundOK

LEMMA ServerInvInit == ServerInit => ServerInv /\ StartInv
<1> SUFFICES ASSUME ServerInit PROVE ServerInv /\ StartInv
  OBVIOUS
<1>1. New /\ conf \in Config /\ todo = conf.client /\ overrides = {} /\ status = "range"
      /\ proc = [h \in Handler |-> Idle]
  BY DEF ServerInit, NewInit
<1>2. IPDBInv
  BY <1>1, InitInv
<1>3. search.phase = "idle" /\ \A k \in Key : m[k] = nil
  BY <1>1 DEF New, NewClients, NoSearch
<1>4. ProcsOK /\ \A h \in Handler : proc[h].pc = "idle"
  BY <1>1, IdleOK DEF ProcsOK
<1>5. ServerInv
  BY <1>1, <1>2, <1>3, <1>4 DEF ServerInv, NewTyped, ProcsOK, MutexRight
<1>6. StartInv
  BY <1>1, <1>3 DEF StartInv
<1> QED BY <1>5, <1>6

LEMMA ServerInvKeeps ==
    ASSUME ServerInv, StartInv, [ServerNext]_serverVars
    PROVE  ServerInv' /\ StartInv'
<1>0. IPDBInv /\ NewTyped /\ ProcsOK /\ MutexRight
  BY DEF ServerInv, ProcsOK
<1>1. CASE ConfigStep /\ UNCHANGED <<now, cancelled, srvVars>>
  <2>1. /\ IPDBInv' /\ NewTyped' /\ StartInv' /\ UNCHANGED search
        /\ status \in {"range", "mode", "clients"}
    BY <1>1, ConfigKeeps
  <2>2. UNCHANGED proc
    BY <1>1 DEF srvVars
  <2>3. \A h \in Handler : proc[h].pc = "idle"
    BY <2>1 DEF ServerInv
  <2> QED BY <1>0, <2>1, <2>2, <2>3 DEF ServerInv, ProcsOK, ProcOK, MutexRight
<1>2. CASE /\ ReceiveOther \/ \E h \in Handler, p \in Packet : Receive(h, p)
           /\ UNCHANGED <<now, cancelled>>
  <2>1. /\ ProcsOK' /\ MutexRight' /\ status = "up"
        /\ UNCHANGED <<poolVars, search, found, newVars>>
    BY <1>2, ReadKeeps
  <2>2. IPDBInv' /\ Quiet
    BY <1>0, <1>2, <2>1, PoolUntouched
  <2>3. NewTyped' /\ status' = "up"
    BY <1>0, <2>1 DEF NewTyped, newVars
  <2>4. StartInv'
    BY <1>0, <2>1, <2>2, QuietRecords, StartKept DEF newVars, poolVars, SameClient
  <2> QED BY <2>1, <2>2, <2>3, <2>4 DEF ServerInv, ProcsOK
<1>3. CASE RunReturns /\ UNCHANGED <<now, cancelled>>
  <2>1. IPDBInv' /\ Quiet
    BY <1>0, <1>3, PoolUntouched DEF RunReturns
  <2>2. StartInv'
    BY <1>0, <1>3, <2>1, QuietRecords, StartKept DEF RunReturns, poolVars, SameClient
  <2> QED BY <1>0, <1>3, <2>1, <2>2 DEF RunReturns, ServerInv, NewTyped, ProcsOK, ProcOK, MutexRight
<1>4. CASE \E h \in Handler : Goroutine(h) /\ UNCHANGED <<now, cancelled>>
  <2>1. PICK h \in Handler : Goroutine(h) /\ UNCHANGED <<now, cancelled>>
    BY <1>4
  <2>2. /\ IPDBInv' /\ UNCHANGED <<dynFrom, dynTo, newVars>> /\ proc[h].pc # "idle"
        /\ ProcsOK' /\ MutexRight'
    BY <2>1, GoroutinePool, GoroutineProc
  <2>3. status' \in {"up", "down"} /\ NewTyped'
    BY <1>0, <2>2 DEF ServerInv, NewTyped, newVars
  <2>4. KeepsPermanent(m, m') /\ \A k \in Key : m'[k] # nil /\ m'[k].permanent =>
           m[k] # nil /\ SameClient(m'[k], m[k])
    <3>1. CASE Quiet
      BY <1>0, <3>1, QuietRecords DEF SameClient
    <3>2. CASE \E ttl \in {OfferTime, LeaseTime} : /\ proc[h].pc \in {"offer", "ack"}
                                               /\ UpdateClient(proc[h].ip, duid(h), ttl)
      <4>1. PICK ttl \in {OfferTime, LeaseTime} :
               proc[h].pc \in {"offer", "ack"} /\ UpdateClient(proc[h].ip, duid(h), ttl)
        BY <3>2
      <4>2. ttl \in Nat /\ proc[h].ip \in Uip /\ duid(h) \in Duid
        BY <1>0, <4>1, DuidOK, TimeAssumption DEF ProcsOK, ProcOK
      <4>3. TableOK(m, now) /\ ManagedTable(m) /\ now \in Nat
        BY <1>0 DEF IPDBInv, IPDBTypeOK, ClientsTypeOK
      <4>4. m' = UpdateTable(m, now, proc[h].ip, duid(h), ttl).tbl
        BY <4>1 DEF UpdateClient
      <4> QED BY <4>2, <4>3, <4>4, UpdateRecords
    <3> QED BY <2>1, <3>1, <3>2, GoroutinePool
  <2>5. StartInv'
    BY <2>2, <2>4, StartKept DEF newVars
  <2> QED BY <2>2, <2>3, <2>5 DEF ServerInv, ProcsOK
<1>5. CASE Tick /\ UNCHANGED <<poolVars, search, found, cancelled, newVars, srvVars>>
  <2>1. IPDBInv'
    BY <1>0, <1>5, TickKeeps
  <2>2. StartInv'
    BY <1>5, <2>1, StartKept DEF poolVars, newVars, KeepsPermanent, SameClient
  <2> QED BY <1>0, <1>5, <2>1, <2>2
          DEF ServerInv, NewTyped, ProcsOK, ProcOK, MutexRight, newVars, srvVars
<1>6. CASE Cancel /\ UNCHANGED <<newVars, srvVars>>
  <2>1. IPDBInv' /\ UNCHANGED <<m, dynFrom, dynTo, search>>
    BY <1>0, <1>6, CancelKeeps DEF Cancel, poolVars
  <2>2. StartInv'
    BY <1>6, <2>1, StartKept DEF newVars, KeepsPermanent, SameClient
  <2> QED BY <1>0, <1>6, <2>1, <2>2
          DEF ServerInv, NewTyped, ProcsOK, ProcOK, MutexRight, newVars, srvVars
<1>7. CASE UNCHANGED serverVars
  <2>1. UNCHANGED <<ipdbVars, newVars, proc>>
    BY <1>7 DEF serverVars, srvVars
  <2>2. IPDBInv' /\ UNCHANGED <<m, dynFrom, dynTo, search>>
    BY <1>0, <2>1, PoolUntouched DEF ipdbVars, poolVars
  <2>3. StartInv'
    BY <2>1, <2>2, StartKept DEF newVars, KeepsPermanent, SameClient
  <2> QED BY <1>0, <2>1, <2>2, <2>3
          DEF ServerInv, NewTyped, ProcsOK, ProcOK, MutexRight, newVars
<1> QED
  BY <1>1, <1>2, <1>3, <1>4, <1>5, <1>6, <1>7 DEF ServerNext

\* The state of pool, configuration and goroutines is type correct, and the
\* mutex FindIP keeps during its probes is held by exactly the goroutine that
\* searches (ipdb.go:127-168), however many goroutines there are.
THEOREM ServerTyped == ServerSafety => []ServerTypeOK
<1>1. ServerInv => ServerTypeOK
  BY DEF ServerInv, IPDBInv, NewTyped, ProcOK, ProcType, Pc, MutexRight, ServerTypeOK
<1> QED
  BY <1>1, ServerInvInit, ServerInvKeeps, PTL DEF ServerSafety

\* Whatever the configuration and the order New takes its entries in, a server
\* that starts has reserved its own address and those of its static clients,
\* and keeps them reserved (server.go:67-91).
THEOREM StartIsConsistent == ServerSafety => []StartedConsistent
<1>1. StartInv => StartedConsistent
  BY DEF StartInv, Taken, RangeSet, StartedConsistent
<1> QED
  BY <1>1, ServerInvInit, ServerInvKeeps, PTL DEF ServerSafety
-----------------------------------------------------------------------------
(***************************************************************************)
(* What the server tells its clients: to whom it gives an address, and     *)
(* that it keeps what it promised.  Both rest on clients' identifiers      *)
(* being different from the DUIDs the server makes up itself, which have a *)
(* reserved hardware type for that purpose (utils.go:56-60); the promises  *)
(* also on the identifiers in the receive buffer not being overwritten.    *)
(***************************************************************************)

\* Where a goroutine has its identifier from after a packet was read.
LEMMA ReadCid ==
    ASSUME ServerInv, ReceiveOther \/ \E h \in Handler, p \in Packet : Receive(h, p),
           NEW h \in Handler, proc'[h].pc # "idle"
    PROVE  \/ /\ proc[h].pc = "idle" /\ ~proc'[h].byCid
              /\ \E p \in Packet : proc'[h].pkt = p /\ proc'[h].cid = p.cid
           \/ /\ proc[h].pc # "idle"
              /\ \/ proc'[h].cid = proc[h].cid
                 \/ proc[h].cid # nil /\ proc'[h].cid = Garbage
                 \/ proc[h].cid # nil /\ \E p \in Packet : p.cid # nil /\ proc'[h].cid = p.cid
<1>1. ASSUME NEW q, NEW how, proc'[h] = Overwrite(proc[h], q, how),
             q.cid = nil \/ \E p \in Packet : q.cid = p.cid
      PROVE  /\ proc[h].pc # "idle"
             /\ \/ proc'[h].cid = proc[h].cid
                \/ proc[h].cid # nil /\ proc'[h].cid = Garbage
                \/ proc[h].cid # nil /\ \E p \in Packet : p.cid # nil /\ proc'[h].cid = p.cid
  <2> DEFINE cid == Clobbered(proc[h].cid, q.cid, Garbage, how)
  <2>1. proc[h] \in ProcType
    BY DEF ServerInv
  <2>2. proc[h].pc # "idle"
    BY <1>1 DEF Overwrite
  <2>3. proc'[h].cid = cid
    BY <1>1, <2>1, <2>2 DEF Overwrite, ProcType
  <2> HIDE DEF cid
  <2>4. \/ cid = proc[h].cid
        \/ proc[h].cid # nil /\ q.cid # nil /\ cid = q.cid
        \/ proc[h].cid # nil /\ cid = Garbage
    BY ClobberedIs DEF cid
  <2> QED BY <1>1, <2>2, <2>3, <2>4
<1>2. CASE ReceiveOther
  <2> DEFINE q == [type |-> nil, reqIP |-> nil, sid |-> nil, cid |-> nil]
  <2>1. PICK how \in [Handler -> {"kept", "garbage"}] :
           proc' = [g \in Handler |-> Overwrite(proc[g], q, how[g])]
    BY <1>2 DEF ReceiveOther
  <2>2. proc'[h] = Overwrite(proc[h], q, how[h]) /\ q.cid = nil
    BY <2>1
  <2> HIDE DEF q
  <2> QED BY <1>1, <2>2
<1>3. CASE \E g \in Handler, p \in Packet : Receive(g, p)
  <2>1. PICK g \in Handler, p \in Packet : Receive(g, p)
    BY <1>3
  <2> DEFINE new == [Idle EXCEPT !.pc = "start", !.pkt = p, !.cid = p.cid]
  <2>2. PICK how \in How :
           proc' = [x \in Handler |-> IF x = g THEN new ELSE Overwrite(proc[x], p, how[x])]
    BY <2>1 DEF Receive
  <2>3. CASE h = g
    BY <2>1, <2>2, <2>3 DEF Receive, Idle
  <2>4. CASE h # g
    BY <1>1, <2>2, <2>4
  <2> QED BY <2>3, <2>4
<1> QED BY <1>2, <1>3

\* A goroutine never changes its packet or its identifier, and only handleMsg
\* decides whether to use the identifier.
LEMMA GoroutineCid ==
    ASSUME ServerInv, NEW h \in Handler, Goroutine(h), UNCHANGED <<now, cancelled>>,
           proc'[h].pc # "idle"
    PROVE  /\ proc[h].pc # "idle"
           /\ proc'[h].pkt = proc[h].pkt /\ proc'[h].cid = proc[h].cid
           /\ proc[h].pc # "start" => proc'[h].byCid = proc[h].byCid
<1>1. proc \in [Handler -> ProcType]
  BY DEF ServerInv
<1>2. ASSUME proc' = [proc EXCEPT ![h] = Idle]
      PROVE  FALSE
  BY <1>1, <1>2, IdleOK
<1>3. ASSUME NEW pc, NEW ip, Goto(h, pc, ip)
      PROVE  proc'[h].pkt = proc[h].pkt /\ proc'[h].cid = proc[h].cid
             /\ proc'[h].byCid = proc[h].byCid
  BY <1>1, <1>3 DEF Goto, ProcType
<1>0. ASSUME AfterFindIP(h)
      PROVE  Drop(h) \/ \E pc, ip : Goto(h, pc, ip)
  <2>1. search'.phase \in {"idle", "searching"} /\ found'.ok \in BOOLEAN
    BY GoroutinePool DEF IPDBInv, IPDBTypeOK
  <2>2. Drop(h) \/ Goto(h, "search", nil) \/ Goto(h, "offer", found'.ip)
    BY <1>0, <2>1 DEF AfterFindIP
  <2> QED BY <2>2
<1>4. CASE handleMsg(h)
  <2> DEFINE next == IF proc[h].pkt.hw = SelfHw \/ proc[h].pkt.reqIP = SelfIP
                     THEN "idle" ELSE proc[h].pkt.type
             by   == Entry(m, now, hwDuid[proc[h].pkt.hw]) = nil /\ proc[h].cid # nil
  <2>1. /\ proc[h].pc = "start"
        /\ proc' = [proc EXCEPT ![h] = IF next \in {"discover", "request"}
                                       THEN [proc[h] EXCEPT !.pc = next, !.byCid = by] ELSE Idle]
    BY <1>4 DEF handleMsg
  <2> HIDE DEF next, by
  <2>2. proc' = [proc EXCEPT ![h] = [proc[h] EXCEPT !.pc = next, !.byCid = by]]
    BY <1>2, <2>1
  <2> QED BY <1>1, <2>1, <2>2, ZenonT(40) DEF ProcType
<1>5. CASE handleDiscover(h)
  BY <1>0, <1>2, <1>3, <1>5 DEF handleDiscover, Drop
<1>6. CASE searchIP(h)
  BY <1>0, <1>2, <1>3, <1>6 DEF searchIP, Drop
<1>7. CASE sendOffer(h) \/ sendAck(h)
  BY <1>2, <1>7 DEF sendOffer, sendAck, UpdateAndSend, sendMsg, Drop
<1>8. CASE handleRequest(h)
  BY <1>2, <1>3, <1>8 DEF handleRequest, Drop, sendNACK
<1>9. CASE \E free \in BOOLEAN : arpVerify(h, free)
  BY <1>2, <1>3, <1>9 DEF arpVerify, sendNACK
<1> QED
  BY <1>4, <1>5, <1>6, <1>7, <1>8, <1>9 DEF Goroutine

\* Promises change only when a lease was recorded and a reply is sent.
LEMMA RepliesFrom ==
    ASSUME NEW h \in Handler, Goroutine(h), proc[h].pc \in {"offer", "ack"}
    PROVE  sendOffer(h) \/ sendAck(h)
BY DEF Goroutine, handleMsg, handleDiscover, searchIP, handleRequest, arpVerify

LEMMA NoReplyFrom ==
    ASSUME ServerInv, NEW h \in Handler, Goroutine(h), UNCHANGED <<now, cancelled>>,
           proc[h].pc \notin {"offer", "ack"}
    PROVE  UNCHANGED promise /\ (reply' = nil \/ (reply'.ip = nil /\ reply'.kind = "nack"))
<1>1. CASE handleMsg(h)
  BY <1>1 DEF handleMsg
<1>2. ASSUME AfterFindIP(h)
      PROVE  UNCHANGED promise /\ reply' = nil
  <2>1. search'.phase \in {"idle", "searching"} /\ found'.ok \in BOOLEAN
    BY GoroutinePool DEF IPDBInv, IPDBTypeOK
  <2> QED BY <1>2, <2>1 DEF AfterFindIP, Goto, Drop
<1>3. CASE handleDiscover(h) \/ searchIP(h)
  BY <1>2, <1>3 DEF handleDiscover, searchIP, Drop
<1>4. CASE handleRequest(h)
  BY <1>4 DEF handleRequest, Drop, Goto, sendNACK
<1>5. CASE \E free \in BOOLEAN : arpVerify(h, free)
  BY <1>5 DEF arpVerify, Goto, sendNACK
<1> QED
  BY <1>1, <1>3, <1>4, <1>5 DEF Goroutine, sendOffer, sendAck
-----------------------------------------------------------------------------
(***************************************************************************)
(* Promises are kept.                                                      *)
(***************************************************************************)
\* Clients' identifiers are their own, and no DUID the server makes up.
DistinctIds ==
    /\ \A p, q \in Packet : p.cid = q.cid /\ p.cid # nil => p.hw = q.hw
    /\ \A p \in Packet, hw \in Hw : p.cid # hwDuid[hw]

\* A step that overwrites no identifier a goroutine has still to use.
BufferKept ==
    \A h \in Handler :
        proc[h].pc # "idle" /\ proc'[h].pc # "idle" => proc'[h].cid = proc[h].cid

\* A goroutine has an identifier of the client it serves.
CidRight ==
    \A h \in Handler :
        proc[h].pc # "idle" /\ proc[h].cid # nil => proc[h].cid \in DuidsOf(proc[h].pkt.hw)

PromiseInv ==
    /\ CidRight
    /\ promise \in [Hw -> [ip : Uip, until : Nat] \cup {nil}]
    /\ PromiseKept

LEMMA DuidsDisjoint ==
    ASSUME DistinctIds, NEW g \in Hw, NEW h \in Hw, g # h
    PROVE  DuidsOf(g) \cap DuidsOf(h) = {}
<1> SUFFICES ASSUME NEW d, d \in DuidsOf(g), d \in DuidsOf(h) PROVE FALSE
  OBVIOUS
<1>1. \A x \in Hw : d \in DuidsOf(x) =>
         d = hwDuid[x] \/ \E p \in Packet : p.hw = x /\ p.cid # nil /\ d = p.cid
  BY DEF DuidsOf
<1>2. d = hwDuid[g] \/ \E p \in Packet : p.hw = g /\ p.cid # nil /\ d = p.cid
  BY <1>1
<1>3. d = hwDuid[h] \/ \E p \in Packet : p.hw = h /\ p.cid # nil /\ d = p.cid
  BY <1>1
<1> QED BY <1>2, <1>3, HwAssumption DEF DistinctIds

LEMMA DuidsTyped ==
    ASSUME NEW hw \in Hw, NEW d \in DuidsOf(hw)
    PROVE  d \in Duid
BY HwAssumption, PacketAssumption DEF DuidsOf, Request

\* The DUID a goroutine works with is one of its client's.
LEMMA OwnDuid ==
    ASSUME ServerInv, CidRight, NEW h \in Handler, proc[h].pc # "idle"
    PROVE  duid(h) \in DuidsOf(proc[h].pkt.hw) /\ proc[h].pkt.hw \in Hw /\ duid(h) \in Duid
<1>1. ProcOK(proc[h])
  BY DEF ServerInv
<1>2. duid(h) \in Duid /\ proc[h].pkt.hw \in Hw
  BY <1>1, DuidOK
<1>3. CASE proc[h].byCid
  BY <1>1, <1>2, <1>3 DEF ProcOK, CidRight, duid
<1>4. CASE ~proc[h].byCid
  BY <1>2, <1>4 DEF DuidsOf, duid
<1> QED BY <1>2, <1>3, <1>4

LEMMA CidRightKept ==
    ASSUME ServerInv, CidRight, [ServerNext]_serverVars, [BufferKept]_serverVars
    PROVE  CidRight'
<1>1. CASE UNCHANGED proc
  BY <1>1 DEF CidRight
<1>2. CASE ReceiveOther \/ \E h \in Handler, p \in Packet : Receive(h, p)
  <2> SUFFICES ASSUME NEW h \in Handler, proc'[h].pc # "idle", proc'[h].cid # nil
               PROVE  proc'[h].cid \in DuidsOf(proc'[h].pkt.hw)
    BY DEF CidRight, DuidsOf
  <2>1. CASE proc[h].pc = "idle"
    <3>1. PICK p \in Packet : proc'[h].pkt = p /\ proc'[h].cid = p.cid
      BY <1>2, <2>1, ReadCid
    <3> QED BY <3>1 DEF DuidsOf
  <2>2. CASE proc[h].pc # "idle"
    <3>1. CASE UNCHANGED serverVars
      BY <2>2, <3>1 DEF CidRight, serverVars, srvVars
    <3>2. CASE BufferKept
      <4>1. proc'[h].cid = proc[h].cid
        BY <2>2, <3>2 DEF BufferKept
      <4>2. proc'[h].pkt.hw = proc[h].pkt.hw
        BY <1>2, <2>2, ReadKeeps
      <4> QED BY <2>2, <4>1, <4>2 DEF CidRight
    <3> QED BY <3>1, <3>2
  <2> QED BY <2>1, <2>2
<1>3. CASE \E h \in Handler : Goroutine(h) /\ UNCHANGED <<now, cancelled>>
  <2>1. PICK h \in Handler : Goroutine(h) /\ UNCHANGED <<now, cancelled>>
    BY <1>3
  <2>2. \A x \in Handler \ {h} : proc'[x] = proc[x]
    BY <2>1, GoroutineProc
  <2>3. proc'[h].pc # "idle" => /\ proc[h].pc # "idle"
                               /\ proc'[h].pkt = proc[h].pkt /\ proc'[h].cid = proc[h].cid
    BY <2>1, GoroutineCid
  <2> QED BY <2>2, <2>3 DEF CidRight, DuidsOf
<1> QED
  BY <1>1, <1>2, <1>3 DEF ServerNext, serverVars, srvVars, RunReturns

\* A lease of the table is still there after a step that keeps its record.
LEMMA RecordedKept ==
    ASSUME NEW hw \in Hw, NEW l, l.until \in Nat, now \in Nat, now' \in Nat,
           now <= now', now' <= l.until, Recorded(hw, l),
           \A d \in DuidsOf(hw) : Live(m, now, d) => m'[d] = m[d],
           IsTable(m)
    PROVE  Recorded(hw, l)'
<1>1. PICK d \in DuidsOf(hw) :
         LET c == Entry(m, now, d)
         IN  c # nil /\ c.ip = l.ip /\ (c.permanent \/ c.leasedUntil >= l.until)
  BY DEF Recorded
<1>2. d \in Key
  BY DuidsTyped
<1>3. /\ Live(m, now, d) /\ m'[d] = m[d] /\ m[d] # nil /\ m[d].ip = l.ip
      /\ m[d].permanent \/ m[d].leasedUntil >= l.until
  BY <1>1, <1>2, EntryLive DEF Live
<1>4. m[d] \in Client
  BY <1>2, <1>3 DEF IsTable
<1>5. ~Expired(m[d], now')
  BY <1>3, <1>4 DEF Expired, Client
<1>6. Entry(m', now', d) = m[d]
  BY <1>3, <1>5 DEF Entry
<1>7. d \in DuidsOf(hw)'
  BY DEF DuidsOf
<1> QED BY <1>3, <1>6, <1>7 DEF Recorded, DuidsOf

LEMMA PromiseInvKeeps ==
    ASSUME DistinctIds, ServerInv, StartInv, PromiseInv,
           [ServerNext]_serverVars, [BufferKept]_serverVars
    PROVE  PromiseInv'
<1>0. /\ IPDBInv /\ TableOK(m, now) /\ ManagedTable(m) /\ IsTable(m) /\ now \in Nat
      /\ promise \in [Hw -> [ip : Uip, until : Nat] \cup {nil}]
  BY DEF ServerInv, IPDBInv, IPDBTypeOK, ClientsTypeOK, PromiseInv
<1>1. CidRight'
  BY CidRightKept DEF PromiseInv
<1>2. ASSUME UNCHANGED promise, now' \in Nat, now <= now',
             \A k \in Key : Live(m, now, k) => m'[k] = m[k]
      PROVE  PromiseInv'
  <2> SUFFICES ASSUME NEW hw \in Hw, Relies(promise, hw)'
               PROVE  Recorded(hw, promise[hw])'
    BY <1>0, <1>1, <1>2 DEF PromiseInv, PromiseKept
  <2>1. promise[hw] # nil /\ now' <= promise[hw].until
    BY <1>2 DEF Relies
  <2>2. promise[hw].until \in Nat
    BY <1>0, <2>1
  <2>3. Recorded(hw, promise[hw])
    BY <1>0, <1>2, <2>1, <2>2 DEF PromiseInv, PromiseKept, Relies
  <2>4. \A d \in DuidsOf(hw) : Live(m, now, d) => m'[d] = m[d]
    BY <1>2, DuidsTyped
  <2> DEFINE l == promise[hw]
  <2>5. promise' = promise
    BY <1>2
  <2>6. Recorded(hw, l)'
    <3>1. ASSUME NEW x, x = promise[hw]
          PROVE  Recorded(hw, x)'
      BY <1>0, <1>2, <2>1, <2>2, <2>3, <2>4, <3>1, RecordedKept
    <3>2. PICK x : x = promise[hw]
      OBVIOUS
    <3>3. Recorded(hw, x)'
      BY <3>1, <3>2
    <3> QED BY <2>5, <3>2, <3>3 DEF Recorded
  <2> QED BY <2>5, <2>6
<1>3. CASE ConfigStep /\ UNCHANGED <<now, cancelled, srvVars>>
  <2>1. \A k \in Key : Live(m, now, k) => m'[k] = m[k]
    BY <1>3, ConfigKeeps
  <2> QED BY <1>0, <1>2, <1>3, <2>1 DEF srvVars
<1>4. ASSUME UNCHANGED <<promise, now, m>> PROVE PromiseInv'
  BY <1>0, <1>2, <1>4
<1>5. CASE /\ ReceiveOther \/ \E h \in Handler, p \in Packet : Receive(h, p)
           /\ UNCHANGED <<now, cancelled>>
  BY <1>4, <1>5, ReadKeeps DEF poolVars
<1>6. CASE RunReturns /\ UNCHANGED <<now, cancelled>>
  BY <1>4, <1>6 DEF RunReturns, poolVars
<1>7. CASE \E h \in Handler : Goroutine(h) /\ UNCHANGED <<now, cancelled>>
  <2>1. PICK h \in Handler : Goroutine(h) /\ UNCHANGED <<now, cancelled>>
    BY <1>7
  <2>2. CASE Quiet /\ UNCHANGED promise
    BY <1>0, <1>2, <2>2, QuietRecords DEF Quiet
  <2>3. CASE sendOffer(h) \/ sendAck(h)
    <3>1. PICK ttl \in {OfferTime, LeaseTime}, kind \in {"offer", "ack"} :
             proc[h].pc \in {"offer", "ack"} /\ UpdateAndSend(h, kind, ttl)
      BY <2>3 DEF sendOffer, sendAck
    <3> DEFINE r == UpdateTable(m, now, proc[h].ip, duid(h), ttl)
    <3>0. PICK hw, l, d : /\ hw = proc[h].pkt.hw /\ d = duid(h)
                          /\ l = [ip |-> proc[h].ip, until |-> now + ttl]
      OBVIOUS
    <3>2. /\ ttl \in Nat /\ proc[h].ip \in Uip /\ d \in Duid /\ hw \in Hw
          /\ d \in DuidsOf(hw)
      BY <3>0, <3>1, OwnDuid, TimeAssumption DEF PromiseInv, ServerInv, ProcOK
    <3>3. m' = r.tbl /\ now' = now
      BY <2>1, <3>0, <3>1 DEF UpdateAndSend, UpdateClient
    <3>4. CASE ~r.ok
      <4>1. UNCHANGED promise
        BY <3>1, <3>4 DEF UpdateAndSend, Drop
      <4>2. \A k \in Key : Live(m, now, k) => m'[k] = m[k]
        BY <1>0, <3>0, <3>2, <3>3, <3>4, UpdateRecords
      <4> QED BY <1>0, <1>2, <3>3, <4>1, <4>2
    <3>5. CASE r.ok
      <4>1. promise' = [promise EXCEPT ![hw] = l]
        BY <3>0, <3>1, <3>5 DEF UpdateAndSend, sendMsg
      <4>2. l \in [ip : Uip, until : Nat]
        BY <1>0, <3>0, <3>2
      <4>3. promise' \in [Hw -> [ip : Uip, until : Nat] \cup {nil}]
        BY <1>0, <3>2, <4>1, <4>2
      <4>4. Recorded(hw, l)'
        <5>1. /\ m'[d] # nil /\ m'[d].ip = l.ip
              /\ m'[d].leasedUntil = l.until
          BY <1>0, <3>0, <3>2, <3>3, <3>5, UpdateRecords
        <5>2. l.until \in Nat /\ now' <= l.until
          BY <1>0, <3>0, <3>2, <3>3
        <5>3. Entry(m', now', d) = m'[d]
          BY <1>0, <3>3, <5>1, <5>2 DEF Entry, Expired
        <5> QED BY <3>2, <5>1, <5>2, <5>3 DEF Recorded, DuidsOf
      <4>5. ASSUME NEW g \in Hw, g # hw, Relies(promise, g)'
            PROVE  Recorded(g, promise[g])'
        <5>1. promise'[g] = promise[g]
          BY <1>0, <3>2, <4>1, <4>5
        <5>2. promise[g] # nil /\ now <= promise[g].until /\ promise[g].until \in Nat
          BY <1>0, <3>3, <4>5, <5>1 DEF Relies
        <5>3. Recorded(g, promise[g])
          BY <5>2 DEF PromiseInv, PromiseKept, Relies
        <5>4. ASSUME NEW x \in DuidsOf(g), Live(m, now, x)
              PROVE  m'[x] = m[x]
          <6>1. x \in Duid /\ x # d
            BY <3>2, <4>5, DuidsDisjoint, DuidsTyped
          <6>2. m[x].duid = x
            BY <1>0, <5>4, <6>1, KeyFacts, ModAssumption DEF Uip
          <6> QED BY <1>0, <3>0, <3>2, <3>3, <5>4, <6>1, <6>2, UpdateRecords
        <5>5. PICK q : q = promise[g]
          OBVIOUS
        <5>6. Recorded(g, q)'
          BY <1>0, <3>3, <5>2, <5>3, <5>4, <5>5, RecordedKept
        <5> QED BY <5>1, <5>5, <5>6 DEF Recorded
      <4>6. ASSUME NEW g \in Hw, Relies(promise, g)'
            PROVE  Recorded(g, promise[g])'
        <5>1. CASE g = hw
          <6>1. promise'[g] = l
            BY <1>0, <3>2, <4>1, <5>1
          <6> QED BY <4>4, <5>1, <6>1 DEF Recorded
        <5> QED BY <4>5, <4>6, <5>1
      <4> QED BY <1>1, <4>3, <4>6 DEF PromiseInv, PromiseKept
    <3> QED BY <3>4, <3>5
  <2> QED
    BY <2>1, <2>2, <2>3, GoroutinePool, NoReplyFrom, RepliesFrom
<1>8. CASE Tick /\ UNCHANGED <<poolVars, search, found, cancelled, newVars, srvVars>>
  BY <1>0, <1>2, <1>8 DEF Tick, poolVars, srvVars
<1>9. CASE Cancel /\ UNCHANGED <<newVars, srvVars>>
  BY <1>4, <1>9 DEF Cancel, poolVars, srvVars
<1>10. CASE UNCHANGED serverVars
  BY <1>4, <1>10 DEF serverVars, ipdbVars, srvVars
<1> QED
  BY <1>3, <1>5, <1>6, <1>7, <1>8, <1>9, <1>10 DEF ServerNext

LEMMA PromiseInvInit == ServerInit => PromiseInv
BY IdleOK DEF ServerInit, PromiseInv, CidRight, PromiseKept, Relies

\* Two clients that both rely on a promise have leases of their own.
\* The table has an address for one client only.
LEMMA RecordedApart ==
    ASSUME DistinctIds, ServerInv, NEW g \in Hw, NEW h \in Hw, g # h, NEW k, NEW l,
           Recorded(g, k), Recorded(h, l), k.ip = l.ip
    PROVE  FALSE
<1>0. TableOK(m, now) /\ now \in Nat
  BY DEF ServerInv, IPDBInv, IPDBTypeOK, ClientsTypeOK
<1>1. ASSUME NEW hw \in Hw, NEW lease, Recorded(hw, lease)
      PROVE  \E d \in DuidsOf(hw) :
                d \in Duid /\ Live(m, now, d) /\ m[d].ip = lease.ip /\ m[d].duid = d
  <2>1. PICK d \in DuidsOf(hw) : Entry(m, now, d) # nil /\ Entry(m, now, d).ip = lease.ip
    BY <1>1 DEF Recorded
  <2>2. d \in Duid
    BY DuidsTyped
  <2>3. Live(m, now, d) /\ Entry(m, now, d) = m[d]
    BY <2>1, <2>2, EntryLive
  <2>4. m[d].duid = d
    BY <1>0, <2>2, <2>3, KeyFacts, ModAssumption DEF Uip
  <2> QED BY <2>1, <2>2, <2>3, <2>4
<1>2. PICK d \in DuidsOf(g) :
         d \in Duid /\ Live(m, now, d) /\ m[d].ip = k.ip /\ m[d].duid = d
  BY <1>1
<1>3. PICK e \in DuidsOf(h) :
         e \in Duid /\ Live(m, now, e) /\ m[e].ip = l.ip /\ m[e].duid = e
  BY <1>1
<1>4. m[d] = m[e]
  BY <1>0, <1>2, <1>3, TableExclusive
<1> QED BY <1>2, <1>3, <1>4, DuidsDisjoint

LEMMA PromisesDiffer ==
    ASSUME DistinctIds, ServerInv, PromiseInv
    PROVE  NoDoublePromise
BY RecordedApart DEF NoDoublePromise, PromiseInv, PromiseKept

\* As long as no identifier is overwritten in the receive buffer, the table
\* holds what was promised last, for whatever time and under whatever
\* interleaving of lookups, searches, ARP checks and updates.
THEOREM PromisesHold ==
    ASSUME DistinctIds
    PROVE  ServerSafety /\ [][BufferKept]_serverVars => []PromiseKept
<1>1. PromiseInv => PromiseKept
  BY DEF PromiseInv
<1> QED
  BY <1>1, ServerInvInit, ServerInvKeeps, PromiseInvInit, PromiseInvKeeps, PTL DEF ServerSafety

\* Under the same conditions no two clients are promised one address at a time.
THEOREM PromisesExclusive ==
    ASSUME DistinctIds
    PROVE  ServerSafety /\ [][BufferKept]_serverVars => []NoDoublePromise
BY ServerInvInit, ServerInvKeeps, PromiseInvInit, PromiseInvKeeps, PromisesDiffer, PTL
   DEF ServerSafety
-----------------------------------------------------------------------------
\* Nothing is overwritten if no client sends an identifier the server uses, or
\* if packets come in one at a time and the network carries no others.
BufferSafe ==
    \/ \A p \in Packet : p.cid = nil
    \/ ~Noise /\ \A g, h \in Handler : g = h

NoCid ==
    (\A p \in Packet : p.cid = nil) => \A h \in Handler : proc[h].pc # "idle" => proc[h].cid = nil

LEMMA NoCidInit == ServerInit => NoCid
BY IdleOK DEF ServerInit, NoCid

LEMMA BufferSafeKeeps ==
    ASSUME BufferSafe, ServerInv, NoCid, [ServerNext]_serverVars
    PROVE  NoCid' /\ [BufferKept]_serverVars
<1>1. CASE UNCHANGED proc
  BY <1>1 DEF NoCid, BufferKept
<1>2. CASE ReceiveOther \/ \E h \in Handler, p \in Packet : Receive(h, p)
  <2>1. CASE \A p \in Packet : p.cid = nil
    <3>1. ASSUME NEW h \in Handler, proc'[h].pc # "idle"
          PROVE  proc'[h].cid = nil
      BY <1>2, <2>1, <3>1, ReadCid DEF NoCid
    <3> QED BY <2>1, <3>1 DEF NoCid, BufferKept
  <2>2. CASE (\E p \in Packet : p.cid # nil) /\ ~Noise /\ \A g, h \in Handler : g = h
    <3>1. PICK h \in Handler, p \in Packet : Receive(h, p)
      BY <1>2, <2>2 DEF ReceiveOther
    <3>2. \A g \in Handler : proc[g].pc = "idle"
      BY <2>2, <3>1 DEF Receive
    <3> QED BY <2>2, <3>2 DEF NoCid, BufferKept
  <2> QED BY <2>1, <2>2 DEF BufferSafe
<1>3. CASE \E h \in Handler : Goroutine(h) /\ UNCHANGED <<now, cancelled>>
  <2>1. PICK h \in Handler : Goroutine(h) /\ UNCHANGED <<now, cancelled>>
    BY <1>3
  <2>2. \A x \in Handler \ {h} : proc'[x] = proc[x]
    BY <2>1, GoroutineProc
  <2>3. proc'[h].pc # "idle" => proc[h].pc # "idle" /\ proc'[h].cid = proc[h].cid
    BY <2>1, GoroutineCid
  <2> QED BY <2>2, <2>3 DEF NoCid, BufferKept
<1> QED
  BY <1>1, <1>2, <1>3 DEF ServerNext, serverVars, srvVars, RunReturns

\* For clients without identifiers, any number of them and of goroutines, and
\* for a server that handles one request at a time, the promises are kept
\* without further conditions (netio.go:58-63, 116-132).
THEOREM ServerPromises ==
    ASSUME DistinctIds, BufferSafe
    PROVE  ServerSafety => [](PromiseKept /\ NoDoublePromise)
<1>1. ServerSafety => [][BufferKept]_serverVars
  BY ServerInvInit, ServerInvKeeps, NoCidInit, BufferSafeKeeps, PTL DEF ServerSafety
<1> QED
  BY <1>1, PromisesHold, PromisesExclusive, PTL
-----------------------------------------------------------------------------
(***************************************************************************)
(* Addresses go only to whom they may go to.                               *)
(***************************************************************************)
\* No identifier, whatever the buffer makes of it, is a DUID the server made up.
ForeignIds ==
    \A hw \in Hw : Garbage # hwDuid[hw] /\ \A p \in Packet : p.cid # hwDuid[hw]

CidForeign ==
    \A h \in Handler, hw \in Hw : proc[h].pc # "idle" => proc[h].cid # hwDuid[hw]

\* An address anybody may get.
Open(ip) == Valid(ip) /\ ~conf.staticOnly

\* The address of a goroutine is the static one of its client.
OwnStatic(g) ==
    LET c == m[hwDuid[g.pkt.hw]]
    IN  ~g.byCid /\ c # nil /\ c.permanent /\ c.ip = g.ip

AllowedInv ==
    /\ CidForeign
    /\ \A k \in Key : m[k] # nil /\ ~m[k].permanent => Open(m[k].ip)
    /\ \A h \in Handler :
          proc[h].pc \in {"offer", "arp", "ack"} => Open(proc[h].ip) \/ OwnStatic(proc[h])
    /\ ReplyAllowed

LEMMA CidForeignKept ==
    ASSUME ForeignIds, ServerInv, CidForeign, [ServerNext]_serverVars
    PROVE  CidForeign'
<1>1. CASE UNCHANGED proc
  BY <1>1 DEF CidForeign
<1>2. CASE ReceiveOther \/ \E h \in Handler, p \in Packet : Receive(h, p)
  <2>1. ASSUME NEW h \in Handler, proc'[h].pc # "idle", NEW hw \in Hw
        PROVE  proc'[h].cid # hwDuid[hw]
    BY <1>2, <2>1, ReadCid DEF CidForeign, ForeignIds
  <2> QED BY <2>1 DEF CidForeign
<1>3. CASE \E h \in Handler : Goroutine(h) /\ UNCHANGED <<now, cancelled>>
  <2>1. PICK h \in Handler : Goroutine(h) /\ UNCHANGED <<now, cancelled>>
    BY <1>3
  <2>2. \A x \in Handler \ {h} : proc'[x] = proc[x]
    BY <2>1, GoroutineProc
  <2>3. proc'[h].pc # "idle" => proc[h].pc # "idle" /\ proc'[h].cid = proc[h].cid
    BY <2>1, GoroutineCid
  <2> QED BY <2>2, <2>3 DEF CidForeign
<1> QED
  BY <1>1, <1>2, <1>3 DEF ServerNext, serverVars, srvVars, RunReturns

\* A goroutine that works with a DUID of the server's works for that client.
LEMMA InternalDuid ==
    ASSUME ServerInv, CidForeign, NEW h \in Handler, proc[h].pc # "idle",
           NEW hw \in Hw, duid(h) = hwDuid[hw]
    PROVE  ~proc[h].byCid /\ proc[h].pkt.hw = hw
<1>1. ~proc[h].byCid
  BY DEF CidForeign, duid
<1>2. proc[h].pkt.hw \in Hw
  BY DuidOK DEF ServerInv
<1> QED BY <1>1, <1>2, HwAssumption DEF duid

\* The lease of a goroutine's DUID is open or its client's static one.
LEMMA LeaseAllowed ==
    ASSUME ServerInv, StartInv, AllowedInv, NEW h \in Handler, proc[h].pc # "idle",
           Live(m, now, duid(h))
    PROVE  \/ Open(m[duid(h)].ip)
           \/ ~proc[h].byCid /\ m[duid(h)].permanent /\ duid(h) = hwDuid[proc[h].pkt.hw]
<1> DEFINE c == m[duid(h)]
<1>1. duid(h) \in Duid /\ TableOK(m, now) /\ now \in Nat
  BY DuidOK DEF ServerInv, IPDBInv, IPDBTypeOK, ClientsTypeOK
<1>2. c # nil /\ c.duid = duid(h)
  BY <1>1, KeyFacts, ModAssumption DEF Live, Uip
<1>3. CASE ~c.permanent
  BY <1>1, <1>2, <1>3 DEF AllowedInv
<1>4. CASE c.permanent
  <2>1. Owned(c)
    BY <1>1, <1>2, <1>4 DEF StartInv
  <2>2. \E hw \in Hw : c.duid = hwDuid[hw]
    BY <2>1, HwAssumption DEF Owned
  <2>3. PICK hw \in Hw : duid(h) = hwDuid[hw]
    BY <1>2, <2>2
  <2>4. ~proc[h].byCid /\ proc[h].pkt.hw = hw
    BY <2>3, InternalDuid DEF AllowedInv
  <2> QED BY <1>4, <2>3, <2>4
<1> QED BY <1>3, <1>4

\* A search is only made where addresses may go to anybody.
LEMMA SearchAllowed ==
    ASSUME ServerInv, StartInv, NEW h \in Handler, proc[h].pc # "idle",
           dynFrom # 0 \/ dynTo # 0
    PROVE  ~conf.staticOnly
BY DEF ServerInv, NewTyped, StartInv

\* What FindIP returns may be offered.
LEMMA FoundAllowed ==
    ASSUME ServerInv, StartInv, AllowedInv, NEW h \in Handler, proc[h].pc # "idle",
           UNCHANGED <<now, cancelled>>,
           Searching \/ \E ip : FindIP(ip, duid(h)),
           search'.phase = "idle", found'.ok
    PROVE  \/ Valid(found'.ip) /\ ~conf.staticOnly
           \/ LET c == m'[hwDuid[proc[h].pkt.hw]]
              IN  ~proc[h].byCid /\ c # nil /\ c.permanent /\ c.ip = found'.ip
<1>0. duid(h) \in Duid /\ IPDBInv
  BY DuidOK DEF ServerInv
<1>1. CASE Searching
  <2>1. PICK v \in NextOffsets, free \in BOOLEAN : Probe(v, free)
    BY <1>1 DEF Searching, GiveUp, Return
  <2>2. Valid(found'.ip)
    <3>1. CASE search' = [search EXCEPT !.head = {}, !.rest = Remaining(v)]
      <4>1. search'.phase = "searching"
        BY <1>0, <2>1, <3>1 DEF Probe, IPDBInv, IPDBTypeOK
      <4> QED BY <4>1
    <3> QED BY <2>1, <3>1 DEF Probe, Return
  <2>3. dynFrom # 0 \/ dynTo # 0
    BY <1>0, <2>1 DEF Probe, IPDBInv, SearchOK
  <2> QED BY <2>2, <2>3, SearchAllowed
<1>2. CASE \E ip : FindIP(ip, duid(h))
  <2>1. PICK ip : FindIP(ip, duid(h))
    BY <1>2
  <2> DEFINE seen == Lookup(m, now, SuggestedUip(ip), duid(h))
  <2>2. m' = seen /\ seen[duid(h)] # nil /\ found'.ip = seen[duid(h)].ip
    BY <2>1, NilAssumption DEF FindIP, Return
  <2>3. seen[duid(h)] = Entry(m, now, duid(h))
    BY <1>0 DEF Lookup
  <2> HIDE DEF seen
  <2>4. Live(m, now, duid(h)) /\ seen[duid(h)] = m[duid(h)]
    BY <1>0, <2>2, <2>3, EntryLive
  <2>5. \/ Open(m[duid(h)].ip)
        \/ ~proc[h].byCid /\ m[duid(h)].permanent /\ duid(h) = hwDuid[proc[h].pkt.hw]
    BY <2>4, LeaseAllowed
  <2> QED BY <2>2, <2>4, <2>5 DEF Open
<1> QED BY <1>1, <1>2

\* A goroutine's address stays allowed as long as the goroutine keeps it.
LEMMA AddressAllowed ==
    ASSUME ServerInv, AllowedInv, KeepsPermanent(m, m'), UNCHANGED conf, NEW h \in Handler,
           proc[h].pc \in {"offer", "arp", "ack"}, proc'[h].byCid = proc[h].byCid,
           proc'[h].ip = proc[h].ip, proc'[h].pkt.hw = proc[h].pkt.hw
    PROVE  Open(proc[h].ip)' \/ OwnStatic(proc[h])'
<1>1. hwDuid[proc[h].pkt.hw] \in Key
  BY DuidOK, HwAssumption DEF ServerInv
<1>2. Open(proc[h].ip) \/ OwnStatic(proc[h])
  BY DEF AllowedInv
<1>3. CASE Open(proc[h].ip)
  BY <1>3 DEF Open
<1>4. CASE OwnStatic(proc[h])
  BY <1>1, <1>4 DEF OwnStatic, KeepsPermanent
<1> QED BY <1>2, <1>3, <1>4

\* An address that was recorded for a goroutine may be announced to its client.
LEMMA ReplyRight ==
    ASSUME ServerInv, StartInv, AllowedInv, IPDBInv', StartInv', UNCHANGED conf,
           NEW h \in Handler, proc[h].pc \in {"offer", "ack"}, NEW kind,
           reply' = [kind |-> kind, hw |-> proc[h].pkt.hw, ip |-> proc[h].ip],
           status' \in {"up", "down"}, InManagedRange(proc[h].ip),
           m'[proc[h].ip] # nil, m'[proc[h].ip].duid = duid(h), NewTyped
    PROVE  ReplyAllowed'
<1>a. PICK ip, hw : ip = proc[h].ip /\ hw = proc[h].pkt.hw
  OBVIOUS
<1>0. hw \in Hw /\ ip \in Uip /\ hw # SelfHw
  BY <1>a, DuidOK DEF ServerInv, ProcOK
<1>1. ASSUME NEW g \in Hw, Reserved(ip, hwDuid[g])'
      PROVE  hw = g
  BY <1>a, <1>1, InternalDuid DEF Reserved, AllowedInv
<1>2. ip # SelfIP
  <2>1. Reserved(SelfIP, hwDuid[SelfHw])'
    BY DEF StartInv
  <2> QED BY <1>0, <1>1, <2>1, HwAssumption
<1>3. ASSUME NEW g \in Hw, ip \in StaticIP(g)
      PROVE  hw = g
  <2>1. PICK e \in conf.client : e.hw = g /\ OverrideIP(e) # nil /\ ip = e.ip
    BY <1>3 DEF StaticIP
  <2>2. todo' = {} /\ conf' = conf
    BY DEF StartInv
  <2>3. Reserved(e.ip, hwDuid[e.hw])'
    BY <2>1, <2>2 DEF StartInv, Taken, OverrideIP
  <2> QED BY <1>1, <2>1, <2>3
<1>4. ip \notin StaticIP(hw) => Valid(ip) /\ ~conf.staticOnly
  <2>1. CASE Open(ip)
    BY <2>1 DEF Open
  <2>2. CASE OwnStatic(proc[h])
    <3>1. hwDuid[hw] \in Duid
      BY <1>0, HwAssumption
    <3>2. /\ m[hwDuid[hw]] # nil /\ m[hwDuid[hw]].permanent /\ m[hwDuid[hw]].ip = ip
      BY <1>a, <2>2 DEF OwnStatic
    <3>3. Owned(m[hwDuid[hw]])
      BY <3>1, <3>2 DEF StartInv
    <3>4. m[hwDuid[hw]].duid = hwDuid[hw]
      <4>1. TableOK(m, now) /\ now \in Nat /\ Live(m, now, hwDuid[hw])
        BY <3>2 DEF ServerInv, IPDBInv, IPDBTypeOK, ClientsTypeOK, Live, Expired
      <4> QED BY <3>1, <4>1, KeyFacts, ModAssumption DEF Uip
    <3>5. \E e \in conf.client :
             OverrideIP(e) # nil /\ e.hw \in Hw /\ ip = e.ip /\ hwDuid[hw] = hwDuid[e.hw]
      BY <1>0, <3>2, <3>3, <3>4, HwAssumption DEF Owned
    <3>6. ip \in StaticIP(hw)
      BY <1>0, <3>5, HwAssumption DEF StaticIP
    <3> QED BY <3>6
  <2> QED BY <1>a, <2>1, <2>2 DEF AllowedInv
<1>5. reply'.hw = hw /\ reply'.ip = ip
  BY <1>a
<1>6. \A g : StaticIP(g)' = StaticIP(g)
  BY DEF StaticIP, OverrideIP
<1> QED
  BY <1>a, <1>2, <1>3, <1>4, <1>5, <1>6 DEF ReplyAllowed

LEMMA AllowedInvInit == ServerInit => AllowedInv
BY IdleOK DEF ServerInit, NewInit, New, NewClients, AllowedInv, CidForeign, ReplyAllowed

LEMMA AllowedInvKeeps ==
    ASSUME ForeignIds, ServerInv, StartInv, AllowedInv, [ServerNext]_serverVars
    PROVE  AllowedInv'
<1>0. ServerInv' /\ StartInv' /\ IPDBInv /\ IPDBInv' /\ CidForeign'
  BY ServerInvKeeps, CidForeignKept DEF ServerInv, AllowedInv
<1>1. UNCHANGED conf
  <2>1. CASE ConfigStep /\ UNCHANGED <<now, cancelled>>
    BY <2>1, ConfigKeeps
  <2>2. CASE \E h \in Handler : Goroutine(h) /\ UNCHANGED <<now, cancelled>>
    BY <2>2, GoroutinePool DEF newVars
  <2>3. CASE ReceiveOther \/ \E h \in Handler, p \in Packet : Receive(h, p)
    BY <2>3, ReadKeeps DEF newVars
  <2> QED BY <2>1, <2>2, <2>3 DEF ServerNext, serverVars, newVars, RunReturns
<1>2. ASSUME KeepsPermanent(m, m'),
             \A k \in Key : m'[k] # nil /\ ~m'[k].permanent => m[k] # nil /\ SameClient(m'[k], m[k]),
             \A h \in Handler :
                proc'[h].pc \in {"offer", "arp", "ack"} =>
                    /\ proc[h].pc \in {"offer", "arp", "ack"} /\ proc'[h].byCid = proc[h].byCid
                    /\ proc'[h].ip = proc[h].ip /\ proc'[h].pkt.hw = proc[h].pkt.hw,
             reply' \in {nil, reply}
      PROVE  AllowedInv'
  <2>1. \A k \in Key : m'[k] # nil /\ ~m'[k].permanent => Open(m[k].ip)'
    BY <1>1, <1>2 DEF AllowedInv, Open, SameClient
  <2>2. \A h \in Handler : proc'[h].pc \in {"offer", "arp", "ack"} =>
           Open(proc[h].ip)' \/ OwnStatic(proc[h])'
    BY <1>1, <1>2, AddressAllowed
  <2>3. ReplyAllowed'
    BY <1>1, <1>2 DEF AllowedInv, ReplyAllowed, StaticIP, OverrideIP
  <2> QED BY <1>0, <2>1, <2>2, <2>3 DEF AllowedInv
<1>3. ASSUME UNCHANGED <<m, proc>>, reply' \in {nil, reply}
      PROVE  AllowedInv'
  BY <1>2, <1>3 DEF KeepsPermanent, SameClient
<1>4. CASE ConfigStep /\ UNCHANGED <<now, cancelled, srvVars>>
  <2>1. KeepsPermanent(m, m') /\ \A k \in Key : m'[k] = m[k] \/ m'[k].permanent
    BY <1>4, ConfigKeeps
  <2> QED BY <1>2, <1>4, <2>1 DEF srvVars, SameClient
<1>5. CASE /\ ReceiveOther \/ \E h \in Handler, p \in Packet : Receive(h, p)
           /\ UNCHANGED <<now, cancelled>>
  <2>1. reply' = nil
    BY <1>5 DEF ReceiveOther, Receive
  <2>2. m' = m /\ \A h \in Handler :
           proc'[h].pc \in {"offer", "arp", "ack"} =>
               /\ proc[h].pc \in {"offer", "arp", "ack"} /\ proc'[h].byCid = proc[h].byCid
               /\ proc'[h].ip = proc[h].ip /\ proc'[h].pkt.hw = proc[h].pkt.hw
    BY <1>5, ReadKeeps DEF poolVars
  <2> QED BY <1>2, <2>1, <2>2 DEF KeepsPermanent, SameClient
<1>6. CASE RunReturns /\ UNCHANGED <<now, cancelled>>
  BY <1>3, <1>6 DEF RunReturns, poolVars
<1>7. CASE \E h \in Handler : Goroutine(h) /\ UNCHANGED <<now, cancelled>>
  <2>1. PICK h \in Handler : Goroutine(h) /\ UNCHANGED <<now, cancelled>>
    BY <1>7
  <2>2. /\ proc[h].pc # "idle" /\ \A x \in Handler \ {h} : proc'[x] = proc[x]
        /\ proc'[h].pc # "idle" => /\ proc'[h].pkt = proc[h].pkt
                                   /\ proc[h].pc # "start" => proc'[h].byCid = proc[h].byCid
    BY <2>1, GoroutinePool, GoroutineProc, GoroutineCid
  <2>3. CASE sendOffer(h) \/ sendAck(h)
    <3>1. PICK ttl \in {OfferTime, LeaseTime}, kind \in {"offer", "ack"} :
             proc[h].pc \in {"offer", "ack"} /\ UpdateAndSend(h, kind, ttl)
      BY <2>3 DEF sendOffer, sendAck
    <3> DEFINE r == UpdateTable(m, now, proc[h].ip, duid(h), ttl)
    <3>2. /\ ttl \in Nat /\ proc[h].ip \in Uip /\ duid(h) \in Duid /\ now \in Nat
          /\ TableOK(m, now) /\ ManagedTable(m) /\ NewTyped
      BY <3>1, DuidOK, TimeAssumption
         DEF ServerInv, ProcOK, IPDBInv, IPDBTypeOK, ClientsTypeOK
    <3>3. m' = r.tbl /\ proc' = [proc EXCEPT ![h] = Idle] /\ UNCHANGED newVars
      BY <3>1 DEF UpdateAndSend, UpdateClient, sendMsg, Drop
    <3>4. /\ KeepsPermanent(m, m')
          /\ \A k \in Key : m'[k] # nil =>
                 \/ m[k] # nil /\ SameClient(m'[k], m[k])
                 \/ ~Live(m, now, duid(h)) /\ m'[k].ip = proc[h].ip
          /\ r.ok => /\ InManagedRange(proc[h].ip)
                     /\ m'[duid(h)] # nil /\ m'[proc[h].ip] = m'[duid(h)]
                     /\ m'[duid(h)].duid = duid(h)
      BY <3>2, <3>3, UpdateRecords
    <3>5. ASSUME NEW k \in Key, m'[k] # nil, ~m'[k].permanent
          PROVE  Open(m[k].ip)'
      <4>1. CASE m[k] # nil /\ SameClient(m'[k], m[k])
        BY <1>1, <3>5, <4>1 DEF AllowedInv, Open, SameClient
      <4>2. CASE ~Live(m, now, duid(h)) /\ m'[k].ip = proc[h].ip
        <5>1. ~OwnStatic(proc[h])
          BY <3>1, <4>2 DEF OwnStatic, duid, Live, Expired
        <5>2. Open(proc[h].ip)
          BY <3>1, <5>1 DEF AllowedInv
        <5> QED BY <1>1, <4>2, <5>2 DEF Open
      <4> QED BY <3>4, <3>5, <4>1, <4>2
    <3>6. ASSUME NEW x \in Handler, proc'[x].pc \in {"offer", "arp", "ack"}
          PROVE  Open(proc[x].ip)' \/ OwnStatic(proc[x])'
      <4>1. x # h
        BY <3>3, <3>6, IdleOK DEF ServerInv
      <4>2. proc'[x] = proc[x]
        BY <2>2, <4>1
      <4> QED BY <1>1, <3>4, <3>6, <4>2, AddressAllowed
    <3>7. ReplyAllowed'
      <4>1. CASE ~r.ok
        BY <3>1, <4>1 DEF UpdateAndSend, Drop, ReplyAllowed
      <4>2. CASE r.ok
        <5>1. reply' = [kind |-> kind, hw |-> proc[h].pkt.hw, ip |-> proc[h].ip]
          BY <3>1, <4>2 DEF UpdateAndSend, sendMsg
        <5>2. status' \in {"up", "down"}
          BY <2>2, <3>2, <3>3 DEF ServerInv, NewTyped, newVars
        <5> QED BY <1>0, <1>1, <3>1, <3>2, <3>4, <4>2, <5>1, <5>2, ReplyRight
      <4> QED BY <4>1, <4>2
    <3> QED BY <1>0, <3>5, <3>6, <3>7 DEF AllowedInv
  <2>4. CASE proc[h].pc \notin {"offer", "ack"}
    <3>1. Quiet /\ (reply' = nil \/ reply'.ip = nil)
      BY <2>1, <2>4, GoroutinePool, NoReplyFrom
    <3>2. KeepsPermanent(m, m') /\ \A k \in Key : m'[k] \in {nil, m[k]}
      BY <1>0, <3>1, QuietRecords
    <3>3. \A k \in Key : m'[k] # nil /\ ~m'[k].permanent => Open(m[k].ip)'
      BY <1>1, <3>2 DEF AllowedInv, Open
    <3>4. ReplyAllowed'
      BY <3>1 DEF ReplyAllowed
    <3>5. ASSUME NEW x \in Handler \ {h}, proc'[x].pc \in {"offer", "arp", "ack"}
          PROVE  Open(proc[x].ip)' \/ OwnStatic(proc[x])'
      BY <1>1, <2>2, <3>2, <3>5, AddressAllowed
    <3>6. ASSUME proc'[h].pc \in {"offer", "arp", "ack"}
          PROVE  Open(proc[h].ip)' \/ OwnStatic(proc[h])'
      <4>0. proc \in [Handler -> ProcType]
        BY DEF ServerInv
      <4>1. CASE proc[h].pc = "arp"
        <5>1. proc'[h].ip = proc[h].ip
          BY <2>1, <3>6, <4>0, <4>1, IdleOK
             DEF Goroutine, handleMsg, handleDiscover, searchIP, sendOffer, handleRequest,
                 arpVerify, sendAck, sendNACK, Goto, ProcType
        <5> QED BY <1>1, <2>2, <3>2, <3>6, <4>1, <5>1, AddressAllowed
      <4>2. CASE proc[h].pc \in {"discover", "search"}
        <5>1. AfterFindIP(h) /\ (Searching \/ \E ip : FindIP(ip, duid(h)))
          BY <2>1, <3>6, <4>0, <4>2, IdleOK
             DEF Goroutine, handleMsg, handleDiscover, searchIP, sendOffer, handleRequest,
                 arpVerify, sendAck, Drop, ProcType
        <5>2. search'.phase \in {"idle", "searching"} /\ found'.ok \in BOOLEAN
          BY <1>0 DEF IPDBInv, IPDBTypeOK
        <5>3. search'.phase = "idle" /\ found'.ok /\ proc'[h].ip = found'.ip
          <6>1. ~Drop(h)
            BY <3>6, <4>0, IdleOK DEF Drop
          <6>2. \A pc, ip : Goto(h, pc, ip) => proc'[h].pc = pc /\ proc'[h].ip = ip
            BY <4>0 DEF Goto, ProcType
          <6>3. ~Goto(h, "search", nil)
            BY <3>6, <6>2
          <6>4. search'.phase = "idle" /\ found'.ok /\ Goto(h, "offer", found'.ip)
            BY <5>1, <5>2, <6>1, <6>3 DEF AfterFindIP
          <6> QED BY <6>2, <6>4
        <5>4. \/ Valid(found'.ip) /\ ~conf.staticOnly
              \/ LET c == m'[hwDuid[proc[h].pkt.hw]]
                 IN  ~proc[h].byCid /\ c # nil /\ c.permanent /\ c.ip = found'.ip
          BY <2>1, <2>2, <5>1, <5>3, FoundAllowed
        <5> QED BY <1>1, <2>2, <3>6, <4>2, <5>3, <5>4 DEF Open, OwnStatic
      <4>3. CASE proc[h].pc = "request"
        <5>1. handleRequest(h)
          BY <2>1, <4>3 DEF Goroutine, handleMsg, handleDiscover, searchIP, sendOffer,
                            arpVerify, sendAck
        <5> DEFINE ip    == DesiredIP(proc[h].pkt)
                   lease == Entry(m, now, duid(h))
        <5>2. lease # nil /\ lease.ip = ip /\ Goto(h, "arp", ip) /\ LookupClientByDuid(duid(h))
          BY <3>6, <4>0, <5>1, IdleOK DEF handleRequest, Drop, sendNACK
        <5>3. proc'[h].ip = ip
          BY <4>0, <5>2 DEF Goto, ProcType
        <5>4. duid(h) \in Duid
          BY <2>2, DuidOK DEF ServerInv
        <5>5. Live(m, now, duid(h)) /\ lease = m[duid(h)]
          BY <5>2, <5>4, EntryLive
        <5>6. m'[duid(h)] = m[duid(h)]
          BY <1>0, <3>1, <5>4, <5>5, QuietRecords
        <5>7. \/ Open(m[duid(h)].ip)
              \/ ~proc[h].byCid /\ m[duid(h)].permanent /\ duid(h) = hwDuid[proc[h].pkt.hw]
          BY <2>2, <5>5, LeaseAllowed
        <5> HIDE DEF ip, lease
        <5> QED BY <1>1, <2>2, <3>6, <4>3, <5>2, <5>3, <5>5, <5>6, <5>7 DEF Open, OwnStatic
      <4>4. CASE proc[h].pc \in {"idle", "start"}
        BY <2>1, <3>6, <4>0, <4>4, IdleOK, ZenonT(40)
           DEF Goroutine, handleMsg, handleDiscover, searchIP, sendOffer, handleRequest,
               arpVerify, sendAck, ProcType
      <4>5. proc[h].pc \in Pc
        BY <4>0 DEF ProcType
      <4> QED BY <2>4, <4>1, <4>2, <4>3, <4>4, <4>5 DEF Pc
    <3>7. \A x \in Handler : proc'[x].pc \in {"offer", "arp", "ack"} =>
             Open(proc[x].ip)' \/ OwnStatic(proc[x])'
      BY <3>5, <3>6
    <3> QED BY <1>0, <3>3, <3>4, <3>7 DEF AllowedInv
  <2> QED BY <2>1, <2>3, <2>4, RepliesFrom
<1>8. CASE Tick /\ UNCHANGED <<poolVars, search, found, cancelled, newVars, srvVars>>
  BY <1>3, <1>8 DEF poolVars, srvVars
<1>9. CASE Cancel /\ UNCHANGED <<newVars, srvVars>>
  BY <1>3, <1>9 DEF Cancel, poolVars, srvVars
<1>10. CASE UNCHANGED serverVars
  BY <1>3, <1>10 DEF serverVars, ipdbVars, srvVars
<1> QED
  BY <1>4, <1>5, <1>6, <1>7, <1>8, <1>9, <1>10 DEF ServerNext

\* Whatever requests come in, however goroutines interleave and whatever
\* happens to the receive buffer, no client is told another client's static
\* address, the server's own, one that is not managed or looks like a network
\* or broadcast address, or any but its static one if static_only is set.
THEOREM RepliesAllowed ==
    ASSUME ForeignIds
    PROVE  ServerSafety => []ReplyAllowed
<1>1. AllowedInv => ReplyAllowed
  BY DEF AllowedInv
<1> QED
  BY <1>1, ServerInvInit, ServerInvKeeps, AllowedInvInit, AllowedInvKeeps, PTL DEF ServerSafety
=============================================================================
