-------------------------------- MODULE IPDB --------------------------------
(***************************************************************************)
(* The address pool of the server, lib/server/ipdb/ipdb.go: the lease      *)
(* table of module Clients, the range of addresses the server manages and  *)
(* the range FindIP searches for a free address.                           *)
(*                                                                         *)
(* Every method takes the IPDB's mutex and calls time.Now() after it has   *)
(* got it, so all of them but FindIP are one step.  FindIP keeps the mutex *)
(* while it asks the network, address by address, whether an address is    *)
(* free: it is modelled one probe at a time, so that time passes and the   *)
(* server's context is cancelled between two probes.  The mutex is held    *)
(* iff search.phase = "searching".                                         *)
(*                                                                         *)
(* Addresses are numbers; an address that is nil or not IPv4 behaves like  *)
(* one outside the managed range.                                          *)
(***************************************************************************)
EXTENDS Clients, Integers

CONSTANTS
    Network,   \* the configured network address
    HostSize,  \* addresses of the network: 2^(32 - prefix length)
    Octet,     \* values of the last byte of an address: 256 in the code
    TTL,       \* lease times callers ask for
    InputIP    \* addresses callers pass in

ASSUME NetworkAssumption == Network \in Uip
\* A network of two addresses (/31) leaves fromTo with no address at all, not
\* even the server's own: server.New fails on it (server.go:89-91).
ASSUME HostSizeAssumption ==
    /\ HostSize \in Nat \ {0, 2}
    /\ Network - (Network % HostSize) + HostSize <= Mod
ASSUME OctetAssumption == Octet \in Nat \ {0}
ASSUME TTLAssumption == TTL \subseteq Nat
ASSUME InputAssumption == InputIP \subseteq Uip

VARIABLES
    dynFrom,    \* lowest address FindIP tries
    dynTo,      \* highest address FindIP tries; both 0: it tries none
    search,     \* the FindIP that holds the mutex, if any
    found,      \* the last result of FindIP, until the pool changes
    cancelled   \* ctx.Err() # nil

ipdbVars == <<m, now, dynFrom, dynTo, search, found, cancelled>>
poolVars == <<m, dynFrom, dynTo>>
-----------------------------------------------------------------------------
\* fromTo: the mask of HostSize addresses is cleared from the network, and the
\* first and the last address of a network of more than one are left out.
start == Network - (Network % HostSize)

end == start + (HostSize - 1)

netFrom == IF start # end THEN start + 1 ELSE start

netTo == IF start # end THEN end - 1 ELSE end

\* toUip succeeds.
InManagedRange(ip) == ip \in netFrom .. netTo

Valid(ip) == ip % Octet # 0 /\ ip % Octet # Octet - 1

NoSearch == [phase |-> "idle", duid |-> NilDuid, head |-> {}, rest |-> {}]

NoResult == [ok |-> FALSE, ip |-> 0, duid |-> NilDuid, fresh |-> FALSE]

New ==
    /\ NewClients
    /\ dynFrom = netFrom
    /\ dynTo = netTo
    /\ search = NoSearch
    /\ found = NoResult
    /\ cancelled = FALSE

Unlocked == search.phase = "idle"
-----------------------------------------------------------------------------
UpdateTableNeverRenews(tbl, t, ip, duid, ttl) ==
    LET inj == Inject(tbl, t, ip, duid, t + ttl)
        has == Lookup(tbl, t, ip, duid)
    IN  CASE ~InManagedRange(ip) -> [ok |-> FALSE, tbl |-> tbl]
          [] InManagedRange(ip) /\ has[ip] # nil /\ has[ip] = has[duid] ->
                [ok |-> TRUE, tbl |-> has]
          [] OTHER -> inj

\* What UpdateClient makes of a table: an optimistic SetLease, and an Inject
\* followed by a SetLease if it fails.
UpdateTable(tbl, t, ip, duid, ttl) ==
    LET ltime == t + ttl
        set   == SetLease(tbl, t, ip, duid, ltime)
        inj   == Inject(set.tbl, t, ip, duid, ltime)
    IN  CASE ~InManagedRange(ip) -> [ok |-> FALSE, tbl |-> tbl]
          [] InManagedRange(ip) /\ set.ok -> set
          [] InManagedRange(ip) /\ ~set.ok /\ ~inj.ok -> inj
          [] InManagedRange(ip) /\ ~set.ok /\ inj.ok ->
                SetLease(inj.tbl, t, ip, duid, ltime)

SetDynamicRangeAnyOrder(b, e) ==
    /\ Unlocked
    /\ InManagedRange(b) /\ InManagedRange(e)
    /\ dynFrom' = b
    /\ dynTo' = e
    /\ found' = NoResult
    /\ UNCHANGED <<m, search>>

SetDynamicRange(b, e) ==
    /\ Unlocked
    /\ InManagedRange(b) /\ InManagedRange(e) /\ b <= e
    /\ dynFrom' = b
    /\ dynTo' = e
    /\ found' = NoResult
    /\ UNCHANGED <<m, search>>

DisableDynamic ==
    /\ Unlocked
    /\ dynFrom' = 0
    /\ dynTo' = 0
    /\ found' = NoResult
    /\ UNCHANGED <<m, search>>

\* The client found, or nil, is Entry(m, now, duid).
LookupClientByDuid(duid) ==
    /\ Unlocked
    /\ m' = Lookup(m, now, 0, duid)
    /\ UNCHANGED <<dynFrom, dynTo, search, found>>

AddPermanentClient(ip, duid) ==
    /\ Unlocked
    /\ InManagedRange(ip)
    /\ m' = InjectPermanent(m, now, ip, duid).tbl
    /\ found' = NoResult
    /\ UNCHANGED <<dynFrom, dynTo, search>>

UpdateClient(ip, duid, ttl) ==
    /\ Unlocked
    /\ m' = UpdateTable(m, now, ip, duid, ttl).tbl
    /\ found' = NoResult
    /\ UNCHANGED <<dynFrom, dynTo, search>>
-----------------------------------------------------------------------------
(***************************************************************************)
(* FindIP.  p is the suggested address, as an offset from dynFrom in 32    *)
(* bits, unless it is leased, then the offsets of the dynamic range in     *)
(* random order: search.head and search.rest.                              *)
(***************************************************************************)
Return(ok, ip, duid, fresh) ==
    /\ search' = NoSearch
    /\ found' = [ok |-> ok, ip |-> ip, duid |-> duid, fresh |-> fresh]

SuggestedUip(ip) == IF InManagedRange(ip) THEN ip ELSE 0

SearchOffsets == 0 .. ((dynTo - dynFrom) % Mod)

SignedOffset(n) == n - dynFrom

\* uint32(n) - uint32(dynFrom).
Offset(n) == (n - dynFrom) % Mod

FindIP(ip, duid) ==
    LET n    == SuggestedUip(ip)
        seen == Lookup(m, now, n, duid)
    IN  /\ Unlocked
        /\ m' = seen
        /\ \/ /\ seen[duid] # nil
              /\ Return(TRUE, seen[duid].ip, duid, FALSE)
           \/ /\ seen[duid] = nil
              /\ dynTo = 0 /\ dynFrom = 0
              /\ Return(FALSE, 0, duid, FALSE)
           \/ /\ seen[duid] = nil
              /\ dynTo # 0 \/ dynFrom # 0
              /\ search' = [phase |-> "searching", duid |-> duid,
                            head |-> IF seen[n] = nil THEN {Offset(n)} ELSE {},
                            rest |-> SearchOffsets]
              /\ found' = NoResult
        /\ UNCHANGED <<dynFrom, dynTo>>

\* The offsets the next iteration may look at.
NextOffsets == IF search.head # {} THEN search.head ELSE search.rest

RemainingAll(v) == search.rest

\* What is left of the random permutation when v was looked at.
Remaining(v) == IF search.head # {} THEN search.rest ELSE search.rest \ {v}

\* One iteration of the loop, isFree's answer included: free.
Probe(v, free) ==
    LET picked == (dynFrom + v) % Mod
    IN  /\ search.phase = "searching"
        /\ ~cancelled
        /\ v \in NextOffsets
        /\ m' = Lookup(m, now, picked, NilDuid)
        /\ \/ /\ m'[picked] = nil /\ Valid(picked) /\ free
              /\ Return(TRUE, picked, search.duid, TRUE)
           \/ /\ ~(m'[picked] = nil /\ Valid(picked) /\ free)
              /\ search' = [search EXCEPT !.head = {}, !.rest = Remaining(v)]
              /\ UNCHANGED found
        /\ UNCHANGED <<dynFrom, dynTo>>

\* The loop ends without an address: all were tried, or the context is done.
GiveUp ==
    /\ search.phase = "searching"
    /\ cancelled \/ NextOffsets = {}
    /\ Return(FALSE, 0, search.duid, FALSE)
    /\ UNCHANGED <<m, dynFrom, dynTo>>

Searching == GiveUp \/ \E v \in NextOffsets, free \in BOOLEAN : Probe(v, free)

\* The context of the server is cancelled: at any time, once.
Cancel ==
    /\ ~cancelled
    /\ cancelled' = TRUE
    /\ UNCHANGED <<poolVars, search, found, now>>

IPDBCall ==
    \/ DisableDynamic
    \/ \E b, e \in InputIP : SetDynamicRange(b, e)
    \/ \E duid \in Duid \ {NilDuid} :
          \/ LookupClientByDuid(duid)
          \/ \E ip \in InputIP :
                \/ FindIP(ip, duid)
                \/ AddPermanentClient(ip, duid)
                \/ \E ttl \in TTL : UpdateClient(ip, duid, ttl)

IPDBNext ==
    \/ IPDBCall /\ UNCHANGED <<now, cancelled>>
    \/ Searching /\ UNCHANGED <<now, cancelled>>
    \/ Tick /\ UNCHANGED <<poolVars, search, found, cancelled>>
    \/ Cancel

IPDBSafety == New /\ [][IPDBNext]_ipdbVars

\* isFree gives up after three ARP timeouts (utils.go:17-24), so a search that
\* holds the mutex always gets on.
IPDBSpec == IPDBSafety /\ WF_ipdbVars(Searching /\ UNCHANGED <<now, cancelled>>)
-----------------------------------------------------------------------------
(***************************************************************************)
(* Properties.                                                             *)
(***************************************************************************)
IPDBTypeOK ==
    /\ ClientsTypeOK
    /\ dynFrom \in Uip /\ dynTo \in Uip
    /\ search \in [phase : {"idle", "searching"}, duid : Duid,
                   head : SUBSET Uip, rest : SUBSET Uip]
    /\ found \in [ok : BOOLEAN, ip : Uip, duid : Duid, fresh : BOOLEAN]
    /\ cancelled \in BOOLEAN

\* FindIP and the UpdateClient that follows it are two critical sections
\* (netio.go:58-63), with time and lookups between them.  As long as nobody
\* else changed the pool, UpdateClient accepts the address FindIP returned,
\* even when the lease it returned has expired in between, and never a
\* suggestion that wrapped around the 32 bits of an offset (ipdb.go:143, 150).
OfferRecordable ==
    found.ok => \A ttl \in TTL :
                   UpdateTable(m, now, found.ip, found.duid, ttl).ok

\* "If set, restricts the range we use for dynamic IP assignment"
\* (config.proto:8): an address FindIP makes up lies in the dynamic range.
DynamicRangeRespected == found.ok /\ found.fresh => found.ip \in dynFrom .. dynTo

\* A search never holds the mutex of the pool for ever: it tries every address
\* at most once, whatever the network answers (ipdb.go:146-156).
SearchEnds == search.phase = "searching" ~> search.phase = "idle"

(***************************************************************************)
(* What the pool promises its callers, whatever its keys look like inside. *)
(***************************************************************************)
LeaseOf(c) ==
    [ip |-> c.ip, duid |-> c.duid, until |-> c.leasedUntil, permanent |-> c.permanent]

LeasesOf(tbl, t) == {LeaseOf(tbl[k]) : k \in {k \in Key : Live(tbl, t, k)}}

leases == LeasesOf(m, now)

Promise == INSTANCE LeaseDB WITH IP <- Uip

\* The pool implements the abstract lease database: the two keys of a client,
\* the lazy removal of expired ones and the lock gap inside FindIP cannot be
\* told from a set of leases that ends each lease exactly on time.
ImplementsLeaseDB == Promise!Spec
-----------------------------------------------------------------------------
(***************************************************************************)
(* The inductive invariant behind OfferRecordable and ImplementsLeaseDB.   *)
(***************************************************************************)
\* Whoever has the address or the DUID has both.
Agree(tbl, t, ip, duid) ==
    \A k \in Key :
        Live(tbl, t, k) /\ (tbl[k].ip = ip \/ tbl[k].duid = duid) =>
            tbl[k].ip = ip /\ tbl[k].duid = duid

ManagedTable(tbl) == \A k \in Key : tbl[k] # nil => InManagedRange(tbl[k].ip)

\* FindIP searches nothing, or a part of the managed range.
DynRangeOK ==
    \/ dynFrom = 0 /\ dynTo = 0
    \/ InManagedRange(dynFrom) /\ InManagedRange(dynTo) /\ dynFrom <= dynTo

\* The client of a search has no lease, and every address it may still pick is
\* managed, but for the 0 that stands for a suggestion out of range.
SearchOK ==
    search.phase = "searching" =>
        /\ ~Live(m, now, search.duid)
        /\ dynFrom # 0 \/ dynTo # 0
        /\ search.rest \subseteq 0 .. (dynTo - dynFrom)
        /\ \A v \in search.head :
              \/ (dynFrom + v) % Mod = 0
              \/ InManagedRange((dynFrom + v) % Mod)

FoundOK ==
    found.ok => InManagedRange(found.ip) /\ Agree(m, now, found.ip, found.duid)

IPDBInv ==
    /\ IPDBTypeOK
    /\ TableOK(m, now)
    /\ ManagedTable(m)
    /\ DynRangeOK
    /\ SearchOK
    /\ FoundOK
=============================================================================
