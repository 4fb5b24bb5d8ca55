------------------------------- MODULE MCWire -------------------------------
(* Requests of every state of the client, replies under several              *)
(* configurations, and packets with all short sequences of options.          *)
EXTENDS Wire, FiniteSets

Mac == <<2, 0, 94, 16, 255, 7>>
Client == <<192, 168, 1, 255>>
Self == <<192, 168, 1, 1>>

Req(type, src, dst, reqIP, sid) ==
    {[type |-> type, src |-> src, dst |-> dst, reqIP |-> reqIP, sid |-> sid, mac |-> Mac,
      xid |-> xid, crc32 |-> xid, id |-> id] : xid \in {0, 2147483647, 65536}, id \in {0, 65535, 31168}}

MCRequest ==
    Req(Type.Discover, Zero, Broadcast, nil, nil)
        \cup Req(Type.Request, Zero, Broadcast, Client, Self)
        \cup Req(Type.Request, Client, Self, nil, nil)
        \cup Req(Type.Request, Client, Broadcast, nil, nil)

Empty == [empty |-> TRUE, ip |-> nil]
Bad == [empty |-> FALSE, ip |-> nil]
Text(ip) == [empty |-> FALSE, ip |-> ip]

Conf(router, dns, domain) ==
    [mask |-> <<255, 255, 255, 0>>, duration |-> 86400, router |-> router, dns |-> dns,
     ntp |-> <<>>, domain |-> domain]

Confs ==
    {Conf(Text(Self), <<Text(Self), Text(Client)>>, <<108, 97, 110>>), Conf(Empty, <<>>, <<>>),
     [Conf(Text(Self), <<Empty>>, <<108>>) EXCEPT !.duration = 60]}

Entry(ip, router, dns) ==
    [ip |-> ip, router |-> router, dns |-> dns, ntp |-> <<Text(Self)>>, hostname |-> <<104>>]

Entries ==
    {nil} \cup {Entry(ip, router, dns) :
                  ip \in {Empty, Text(Client), Bad}, router \in {Empty, Text(Client)},
                  dns \in {<<>>, <<Text(Client)>>, <<Text(Self), Bad>>, <<Text(Self), Empty>>}}

MCReply ==
    [type : {Type.Offer, Type.Ack, Type.Nack}, xid : {305419896}, flags : {0, 32768},
     self : {Self}, ip : {Client}, mac : {Mac}, conf : Confs, client : Entries]

ASSUME MCReplyAssumption == ShortOptions

\* Requests of arpping, and the answers of other hosts.
MCProbe ==
    {sendARPPing(Mac, src, Self) : src \in {Client, Zero}}
        \cup {[sendARPPing(Mac, src, Self) EXCEPT !.Opcode = 2, !.TargetMAC = Mac]
                : src \in {Client, Zero}}

Some == request([type |-> Type.Discover, src |-> Zero, dst |-> Broadcast, reqIP |-> nil,
                 sid |-> nil, mac |-> Mac, xid |-> 1, crc32 |-> 2, id |-> 3])

\* All short sequences of padding, codes and lengths behind a header.
Tails == UNION {[1 .. n -> {0, 1, 2, 53, 255}] : n \in 0 .. 4}

Header == Slice(Some, 28, 28 + dhcpMinLen)

\* A frame with another first byte, cut short, with trailing bytes, and with
\* options in its IPv4 header.
Broken ==
    {Put(Some, 0, <<v>>) : v \in {0, 64, 68, 70, 79, 101}}
        \cup {Slice(Some, 0, n) : n \in {0, 1, 19, 20, 27, 28, 240, 267, 268, 280}}
        \cup {Some \o <<0>>, Put(Some, 24, <<0, 7>>), Put(Some, 2, <<255, 255>>)}
        \cup {Put(Slice(Some, 0, 20) \o <<1, 1, 1, 0>> \o Slice(Some, 20, Len(Some)), 0,
                  <<70, 0>> \o PutUint16(Len(Some) + 4))}
        \cup {Slice(Some, 0, 2) \o PutUint16(n) \o Slice(Some, 4, n) : n \in {20, 27, 28, 267}}

MCInput ==
    Broken
        \cup {Datagram(0, Zero, Broadcast, 68, 67, Header \o tail) : tail \in Tails}
        \cup {Datagram(0, Zero, Broadcast, 68, 67, Slice(Header, 0, n)) : n \in {0, 7, 239}}
=============================================================================
