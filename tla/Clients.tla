------------------------------- MODULE Clients -------------------------------
(***************************************************************************)
(* The lease table of the server, lib/server/ipdb/clients/clients.go.      *)
(*                                                                         *)
(* A Go map holds pointers to client records; each client is stored under  *)
(* two keys, the string form of its address and of its DUID.  A record is  *)
(* never removed when it expires: Lookup removes the keys it is asked      *)
(* about, one key at a time, so one key of a dead record can outlive the   *)
(* other.  The correctness of everything above the table rests on the two  *)
(* keys of a LIVE record never drifting apart.                             *)
(*                                                                         *)
(* The map's values are modelled as records.  Two keys that hold equal     *)
(* records hold the same pointer: a new client is stored under its address *)
(* and its DUID at once, so it takes both keys from any older client with  *)
(* the same address and DUID.  An assignment through the pointer changes   *)
(* every key that holds it.                                                *)
(***************************************************************************)
EXTENDS Naturals

CONSTANTS
    Mod,      \* number of values of a Uip: 2^32 in the code
    Duid,     \* client identifiers; their string forms are keys of the map
    NilDuid,  \* the empty Duid, whose string form is "<duid:nil>"
    nil,      \* the nil pointer
    MaxTime   \* bound: the clock stops here

Uip == 0 .. Mod - 1

Key == Uip \cup Duid

Client == [ip : Uip, duid : Duid, leasedUntil : Nat, permanent : BOOLEAN]

ASSUME ModAssumption == Mod \in Nat \ {0}
ASSUME DuidAssumption == NilDuid \in Duid
\* "uip(..)" and "<duid:..>" are never the same string.
ASSUME KeyAssumption == Uip \cap Duid = {}
ASSUME NilAssumption == nil \notin Client
ASSUME MaxTimeAssumption == MaxTime \in Nat

VARIABLES
    m,    \* the map: Key -> client, or nil where the key is absent
    now   \* time.Now()

clientsVars == <<m, now>>
-----------------------------------------------------------------------------
(***************************************************************************)
(* The methods of Clients, as functions of a table.                        *)
(***************************************************************************)
\* Mutants, here and below: plausible mistakes, each of which breaks a property.
ExpiredAlsoPermanent(c, t) == t > c.leasedUntil

Expired(c, t) == ~c.permanent /\ t > c.leasedUntil

\* The entry a Lookup at time t returns for key k (and leaves in the table).
Entry(tbl, t, k) ==
    IF tbl[k] # nil /\ Expired(tbl[k], t) THEN nil ELSE tbl[k]

LookupDropsBoth(tbl, t, ip, duid) ==
    LET dead == \E k \in {ip, duid} : tbl[k] # nil /\ Entry(tbl, t, k) = nil
    IN  [k \in Key |-> IF k \in {ip, duid} /\ dead THEN nil ELSE tbl[k]]

\* Lookup deletes the keys ip and duid where they hold an expired client.  Its
\* two results are the entries that are left: Lookup(..)[ip], Lookup(..)[duid].
Lookup(tbl, t, ip, duid) ==
    [k \in Key |-> IF k \in {ip, duid} THEN Entry(tbl, t, k) ELSE tbl[k]]

injectInternalByIP(tbl, t, ip, duid, until, permanent) ==
    LET seen == Lookup(tbl, t, ip, duid)
        c    == [ip |-> ip, duid |-> duid, leasedUntil |-> until,
                 permanent |-> permanent]
    IN  [ok  |-> seen[ip] = nil,
         tbl |-> IF seen[ip] = nil THEN [seen EXCEPT ![ip] = c, ![duid] = c] ELSE seen]

injectInternal(tbl, t, ip, duid, until, permanent) ==
    LET seen == Lookup(tbl, t, ip, duid)
        ok   == seen[ip] = nil /\ seen[duid] = nil
        c    == [ip |-> ip, duid |-> duid, leasedUntil |-> until,
                 permanent |-> permanent]
    IN  [ok  |-> ok,
         tbl |-> IF ok THEN [seen EXCEPT ![ip] = c, ![duid] = c] ELSE seen]

\* time.Unix(0, 0) is the time 0.
InjectPermanent(tbl, t, ip, duid) == injectInternal(tbl, t, ip, duid, 0, TRUE)

Inject(tbl, t, ip, duid, until) == injectInternal(tbl, t, ip, duid, until, FALSE)

\* The assignment ip.leasedUntil = until is seen through every key that holds
\* the pointer.
SetLease(tbl, t, ip, duid, until) ==
    LET seen == Lookup(tbl, t, ip, duid)
        ok   == seen[ip] # nil /\ seen[duid] # nil /\ seen[ip] = seen[duid]
    IN  [ok  |-> ok,
         tbl |-> IF ok
                 THEN [k \in Key |->
                         IF seen[k] = seen[ip]
                         THEN [seen[k] EXCEPT !.leasedUntil = until]
                         ELSE seen[k]]
                 ELSE seen]

Expire(tbl, t, ip, duid) == SetLease(tbl, t, ip, duid, 0)
-----------------------------------------------------------------------------
(***************************************************************************)
(* The table on its own: any method, called with any arguments, at the     *)
(* current time.  The embedded mutex is released before the table is used  *)
(* (clients.go:58-59, 73-74), so a method is one step only because every   *)
(* caller already holds the mutex of the IPDB.                             *)
(***************************************************************************)
NewClients ==
    /\ m = [k \in Key |-> nil]
    /\ now = 0

\* Time passes.
Tick ==
    /\ now < MaxTime
    /\ now' = now + 1

\* One call of each method of Clients.
CallLookup(ip, duid) == m' = Lookup(m, now, ip, duid)

CallInject(ip, duid, until) == m' = Inject(m, now, ip, duid, until).tbl

CallInjectPermanent(ip, duid) == m' = InjectPermanent(m, now, ip, duid).tbl

CallSetLease(ip, duid, until) == m' = SetLease(m, now, ip, duid, until).tbl

CallExpire(ip, duid) == m' = Expire(m, now, ip, duid).tbl

Call ==
    \E ip \in Uip, duid \in Duid :
        \/ CallLookup(ip, duid)
        \/ CallInjectPermanent(ip, duid)
        \/ CallExpire(ip, duid)
        \/ \E until \in 0 .. MaxTime :
              CallInject(ip, duid, until) \/ CallSetLease(ip, duid, until)

ClientsNext ==
    \/ Tick /\ UNCHANGED m
    \/ Call /\ UNCHANGED now

ClientsSpec == NewClients /\ [][ClientsNext]_clientsVars
-----------------------------------------------------------------------------
(***************************************************************************)
(* Properties.                                                             *)
(***************************************************************************)
Live(tbl, t, k) == tbl[k] # nil /\ ~Expired(tbl[k], t)

IsTable(tbl) == tbl \in [Key -> Client \cup {nil}]

\* A record is only ever found under its own address and its own DUID.
Keyed(tbl) == \A k \in Key : tbl[k] # nil => k \in {tbl[k].ip, tbl[k].duid}

\* A client that has not expired at t is found under both its keys.
BothKeys(tbl, t) ==
    \A k \in Key :
        Live(tbl, t, k) => tbl[tbl[k].ip] = tbl[k] /\ tbl[tbl[k].duid] = tbl[k]

\* What every method of the table preserves: the inductive invariant.
TableOK(tbl, t) ==
    /\ IsTable(tbl)
    /\ Keyed(tbl)
    /\ BothKeys(tbl, t)

ClientsTypeOK == IsTable(m) /\ now \in Nat

\* Whatever sequence of lookups removed expired keys one by one, a client that
\* has not expired is still found under BOTH its keys (clients.go:37-44): an
\* address cannot look free while its DUID is leased, nor the other way round.
LiveIndexed == Keyed(m) /\ BothKeys(m, now)

\* At no time do two live clients share an address or a DUID: the two checks of
\* injectInternal (clients.go:61-65) are enough, although each sees one key.
NoDoubleLease ==
    \A k, l \in Key :
        /\ Live(m, now, k) /\ Live(m, now, l)
        /\ m[k].ip = m[l].ip \/ m[k].duid = m[l].duid
        => m[k] = m[l]

\* tbl2 still holds every permanent client of tbl, under the same keys.
KeepsPermanent(tbl, tbl2) ==
    \A k \in Key :
        tbl[k] # nil /\ tbl[k].permanent =>
            /\ tbl2[k] # nil
            /\ tbl2[k].permanent
            /\ tbl2[k].ip = tbl[k].ip
            /\ tbl2[k].duid = tbl[k].duid

\* Permanent clients (static assignments, the server's own address) are never
\* removed from the table and never change their address, DUID or permanence,
\* although their lease expires like any other (clients.go:16).
PermanentForever == [][KeepsPermanent(m, m')]_m
=============================================================================
