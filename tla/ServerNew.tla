------------------------------ MODULE ServerNew ------------------------------
(***************************************************************************)
(* The start of the server, New of lib/server/server.go: what the          *)
(* configuration makes of the address pool.  New runs alone, but it goes   *)
(* through the client entries in the random order of a Go map.             *)
(*                                                                         *)
(* A configuration has a dynamic range (or nil), the flag static_only and  *)
(* a set of client entries.  An entry has a name (the text of its hardware *)
(* address, which may spell one address in several ways), the hardware     *)
(* address (nil if the text does not parse), an address to assign (or      *)
(* nil), and bad, which says that one of its fields does not parse.        *)
(***************************************************************************)
EXTENDS IPDB

CONSTANTS
    Hw,       \* hardware addresses
    hwDuid,   \* duidFromHwAddr: the internal DUID of a hardware address
    SelfHw,   \* iface.HardwareAddr
    SelfIP,   \* the address of the interface
    Config    \* configurations the server may be started with

ASSUME HwAssumption ==
    /\ SelfHw \in Hw
    /\ hwDuid \in [Hw -> Duid \ {NilDuid}]
    /\ \A g, h \in Hw : hwDuid[g] = hwDuid[h] => g = h
    /\ Hw \cap Duid = {}
ASSUME ConfigAssumption ==
    /\ SelfIP \in Uip
    /\ \A c \in Config : \A e \in c.client :
          e.hw \in Hw \cup {nil} /\ e.ip \in Uip \cup {nil}

VARIABLES
    conf,       \* the configuration
    todo,       \* client entries New has still to look at
    overrides,  \* keys of the map of overrides
    status      \* how far New has come

newVars == <<conf, todo, overrides, status>>

Fail ==
    /\ status' = "failed"
    /\ UNCHANGED <<conf, todo, overrides>>

NewInit ==
    /\ New
    /\ conf \in Config
    /\ todo = conf.client
    /\ overrides = {}
    /\ status = "range"

CanAddAny(ip, duid) == InManagedRange(ip)

\* AddPermanentClient returns no error.
CanAdd(ip, duid) ==
    InManagedRange(ip) /\ Entry(m, now, ip) = nil /\ Entry(m, now, duid) = nil

ConfigRange ==
    /\ status = "range"
    /\ \/ /\ conf.range = nil
          /\ status' = "mode"
          /\ UNCHANGED <<conf, todo, overrides, poolVars, search, found>>
       \/ /\ conf.range # nil
          /\ SetDynamicRange(conf.range.from, conf.range.to)
          /\ status' = "mode"
          /\ UNCHANGED <<conf, todo, overrides>>
       \/ /\ conf.range # nil
          /\ ~(/\ InManagedRange(conf.range.from) /\ InManagedRange(conf.range.to)
               /\ conf.range.from <= conf.range.to)
          /\ Fail
          /\ UNCHANGED <<poolVars, search, found>>

ConfigModeIgnored ==
    /\ status = "mode"
    /\ status' = "clients"
    /\ UNCHANGED <<conf, todo, overrides, poolVars, search, found>>

ConfigMode ==
    /\ status = "mode"
    /\ IF conf.staticOnly THEN DisableDynamic ELSE UNCHANGED <<poolVars, search, found>>
    /\ status' = "clients"
    /\ UNCHANGED <<conf, todo, overrides>>

\* SetClientOverrides changes nothing if a field of the entry does not parse,
\* and the error it returns is dropped.
OverrideIP(e) == IF e.bad THEN nil ELSE e.ip

OverrideKey(e) == hwDuid[e.hw]

\* The duplicate check looks for the hardware address among the DUIDs, and so
\* never makes New fail.
ConfigClient(e) ==
    /\ status = "clients"
    /\ e \in todo
    /\ \/ /\ e.hw # nil
          /\ \/ /\ OverrideIP(e) = nil
                /\ UNCHANGED <<poolVars, search, found>>
             \/ /\ OverrideIP(e) # nil
                /\ CanAdd(e.ip, hwDuid[e.hw])
                /\ AddPermanentClient(e.ip, hwDuid[e.hw])
          /\ e.hw \notin overrides
          /\ overrides' = overrides \cup {OverrideKey(e)}
          /\ todo' = todo \ {e}
          /\ UNCHANGED <<conf, status>>
       \/ /\ \/ e.hw = nil
             \/ e.hw # nil /\ OverrideIP(e) # nil /\ ~CanAdd(e.ip, hwDuid[e.hw])
          /\ Fail
          /\ UNCHANGED <<poolVars, search, found>>

\* The server's own lease comes last.
ConfigSelf ==
    /\ status = "clients"
    /\ todo = {}
    /\ \/ /\ CanAdd(SelfIP, hwDuid[SelfHw])
          /\ AddPermanentClient(SelfIP, hwDuid[SelfHw])
          /\ status' = "up"
          /\ UNCHANGED <<conf, todo, overrides>>
       \/ /\ ~CanAdd(SelfIP, hwDuid[SelfHw])
          /\ Fail
          /\ UNCHANGED <<poolVars, search, found>>

ConfigStep == ConfigRange \/ ConfigMode \/ ConfigSelf \/ \E e \in todo : ConfigClient(e)

NewNext ==
    \/ ConfigStep /\ UNCHANGED <<now, cancelled>>
    \/ Tick /\ UNCHANGED <<poolVars, search, found, cancelled, newVars>>

NewSpec == NewInit /\ [][NewNext]_<<ipdbVars, newVars>>
-----------------------------------------------------------------------------
Reserved(ip, duid) ==
    /\ m[ip] # nil /\ m[ip].permanent
    /\ m[ip].ip = ip /\ m[ip].duid = duid
    /\ m[duid] = m[ip]

\* Whatever the order of the entries, a server that starts has reserved its own
\* address and that of every entry it took (server.go:67-91), each for its own
\* client: so no two of them named one address or one client, and none named
\* the server's own.  A failure leaves no half-configured server running.
StartedConsistent ==
    status = "up" =>
        /\ Reserved(SelfIP, hwDuid[SelfHw])
        /\ \A e \in conf.client :
              OverrideIP(e) # nil => Reserved(e.ip, hwDuid[e.hw])
        /\ conf.staticOnly => dynFrom = 0 /\ dynTo = 0
        /\ conf.range # nil /\ ~conf.staticOnly =>
              dynFrom = conf.range.from /\ dynTo = conf.range.to

\* "duplicate client override for %v" (server.go:81-83): a configuration that
\* names one hardware address twice is refused.
DuplicateRefused ==
    status = "up" => \A e, f \in conf.client : e.hw = f.hw => e = f
=============================================================================
