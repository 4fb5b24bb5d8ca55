------------------------------ MODULE LeaseOpts ------------------------------
(***************************************************************************)
(* lib/server/leaseopts: what the server makes of the options of its       *)
(* configuration, and of those of a client entry that override them; and   *)
(* the options it announces to a client (dhcpOptions of server.go).        *)
(*                                                                         *)
(* A text that should be an IPv4 address is a record: empty, and ip, the   *)
(* address or nil if the text is none.                                     *)
(***************************************************************************)
EXTENDS DhcpMsg

\* A text that should be an address, and the options it becomes part of.
Field == [empty : BOOLEAN, ip : Sized(4) \cup {nil}]

LeaseOptions ==
    [IP : Bytes \cup {nil}, Hostname : Bytes, Domain : Bytes, Netmask : Bytes,
     Router : Bytes \cup {nil}, DNS : Seq(Bytes), NTP : Seq(Bytes), LeaseDuration : Nat]

ASSUME OptionsAssumption == nil \notin LeaseOptions

\* ipv4: nil for an error, and no address for a single empty text.
ipv4(list) ==
    CASE Len(list) = 1 /\ list[1].empty -> <<>>
      [] /\ ~(Len(list) = 1 /\ list[1].empty)
         /\ \E i \in 1 .. Len(list) : list[i].ip = nil -> nil
      [] OTHER -> [i \in 1 .. Len(list) |-> list[i].ip]

First(ips) == IF Len(ips) = 1 THEN ips[1] ELSE nil

\* The lease options, or nil.  A network that does not parse has no mask.
ParseConfig(conf) ==
    LET router == ipv4(<<conf.router>>)
        dns    == ipv4(conf.dns)
        ntp    == ipv4(conf.ntp)
    IN  IF conf.mask = nil \/ conf.duration < 60 \/ nil \in {router, dns, ntp}
        THEN nil
        ELSE [IP |-> nil, Hostname |-> <<>>, Domain |-> conf.domain, Netmask |-> conf.mask,
              Router |-> First(router), DNS |-> dns, NTP |-> ntp,
              LeaseDuration |-> conf.duration]

\* The options of the client; those of the server if one of its fields does not
\* parse (the caller drops the error).
SetClientOverrides(original, client) ==
    LET ip     == ipv4(<<client.ip>>)
        router == ipv4(<<client.router>>)
        dns    == ipv4(client.dns)
        ntp    == ipv4(client.ntp)
    IN  IF nil \in {ip, router, dns, ntp}
        THEN original
        ELSE [original EXCEPT
                !.IP = IF ip # <<>> THEN ip[1] ELSE @,
                !.Router = IF router # <<>> THEN router[1] ELSE @,
                !.DNS = IF dns # <<>> THEN dns ELSE @,
                !.NTP = IF ntp # <<>> THEN ntp ELSE @,
                !.Hostname = IF client.hostname # <<>> THEN client.hostname ELSE @]

\* The value of the override ov (nil: the client has none), else the default.
Announced(lopts, ov, field, none) ==
    IF ov # nil /\ ov[field] # none THEN ov[field] ELSE lopts[field]

\* An option that is announced if there is a value for it.
OptionIf(value, none, o) == IF value # none THEN <<o>> ELSE <<>>

\* The options of a reply to a client, without its type and server identifier.
dhcpOptions(lopts, ov) ==
    LET router == Announced(lopts, ov, "Router", nil)
        dns    == Announced(lopts, ov, "DNS", <<>>)
        ntp    == Announced(lopts, ov, "NTP", <<>>)
        domain == Announced(lopts, ov, "Domain", <<>>)
    IN  <<OptionIPAddressLeaseDuration(lopts.LeaseDuration), OptionSubnetMask(lopts.Netmask)>>
            \o OptionIf(router, nil, OptionIP(Code.Router, <<router>>))
            \o OptionIf(dns, <<>>, OptionIP(Code.DNS, dns))
            \o OptionIf(ntp, <<>>, OptionIP(Code.NTP, ntp))
            \o OptionIf(domain, <<>>, OptionDomainName(domain))
=============================================================================
