-------------------------------- MODULE Wire --------------------------------
(***************************************************************************)
(* What client and server say to each other, in bytes: the requests of     *)
(* lib/client/msgtmpl, the replies of lib/server/replies with the options  *)
(* of the configuration, and the probes of lib/arpping, each read by the   *)
(* decoders of the other side.                                             *)
(*                                                                         *)
(* Module System has messages that are records of the fields the other     *)
(* side decodes; the properties of this module say that these are the      *)
(* fields the sender meant.                                                *)
(***************************************************************************)
EXTENDS LeaseOpts

CONSTANTS
    Request,  \* calls of tmpl.request
    Reply,    \* replies of a server with a configuration to a client
    Probe     \* ARP packets

\* What msgtmpl/tmpl.go puts into a request: numbers of 16 and 32 bits,
\* addresses that may be left out, and the hardware address of an Ethernet
\* interface.
ASSUME RequestAssumption ==
    \A r \in Request :
        /\ r.type \in Byte /\ r.id \in Word /\ r.xid \in Long /\ r.crc32 \in Long
        /\ r.mac \in Sized(6) /\ r.src \in Sized(4) /\ r.dst \in Sized(4)
        /\ r.reqIP \in Sized(4) \cup {nil} /\ r.sid \in Sized(4) \cup {nil}

ASSUME ProbeAssumption ==
    Probe \subseteq [Opcode : Byte, SenderMAC : Sized(6), SenderIP : Sized(4),
                     TargetMAC : Sized(6), TargetIP : Sized(4)]

Zero == <<0, 0, 0, 0>>
Broadcast == <<255, 255, 255, 255>>
DHCPCookie == 1669485411

Type == [Discover |-> 1, Offer |-> 2, Request |-> 3, Ack |-> 5, Nack |-> 6]

\* The server runs with a configuration that parses only (server.go:34), and the
\* clients are on Ethernet: the length of the hardware address a message says it
\* has is not checked (parse.go:34).
ASSUME ReplyAssumption ==
    \A r \in Reply :
        /\ r.type \in {Type.Offer, Type.Ack, Type.Nack}
        /\ r.xid \in Long /\ r.flags \in Word
        /\ r.self \in Sized(4) /\ r.ip \in Sized(4) /\ r.mac \in Sized(6)
        /\ r.conf \in [mask : Sized(4) \cup {nil}, duration : Nat, router : Field,
                       dns : Seq(Field), ntp : Seq(Field), domain : Bytes]
        /\ ParseConfig(r.conf) # nil
        /\ r.client # nil =>
              r.client \in [ip : Field, router : Field, dns : Seq(Field), ntp : Seq(Field),
                            hostname : Bytes]

\* A message with the fields every sender sets.
Template(op, xid, mac, opts) ==
    [Op |-> op, Htype |-> 1, Hops |-> 0, Xid |-> xid, Secs |-> 0, Flags |-> 0,
     ClientIP |-> nil, YourIP |-> nil, NextIP |-> nil, RelayIP |-> nil,
     ClientMAC |-> mac, Cookie |-> DHCPCookie, Options |-> opts]

Datagram(id, src, dst, sport, dport, payload) ==
    AssembleIPv4([Identification |-> id, Flags |-> 0, TTL |-> 64, Protocol |-> 17,
                  Source |-> src, Destination |-> dst,
                  Data |-> AssembleUDP([SrcPort |-> sport, DstPort |-> dport,
                                        Data |-> payload])])

\* msgtmpl: the requests of the client, and their options.
requestOptionsAlways(r) ==
    <<OptionType(r.type), OptionClientIdentifier(r.mac, r.crc32), OptionMaxMessageSize(1500),
      OptionIP(Code.RequestedIP, <<r.reqIP>>), OptionIP(Code.ServerIdentifier, <<r.sid>>)>>

requestOptions(r) ==
    <<OptionType(r.type), OptionClientIdentifier(r.mac, r.crc32),
      OptionMaxMessageSize(1500),
      OptionParametersList(
        <<Code.SubnetMask, Code.Router, Code.IPAddressLeaseDuration, Code.ServerIdentifier,
          Code.DNS, Code.DomainName, Code.InterfaceMTU, Code.RenewalDuration,
          Code.RebindDuration>>)>>
        \o OptionIf(r.reqIP, nil, OptionIP(Code.RequestedIP, <<r.reqIP>>))
        \o OptionIf(r.sid, nil, OptionIP(Code.ServerIdentifier, <<r.sid>>))

request(r) ==
    Datagram(r.id, r.src, r.dst, 68, 67,
             Assemble([Template(1, r.xid, r.mac, requestOptions(r)) EXCEPT !.ClientIP = r.src]))

\* replies: those of the server.
dstFromFlag(flags, dst) == IF flags >= 32768 THEN Broadcast ELSE dst

assembleUdp(src, dst, msg) == Datagram(0, src, dst, 67, 68, Assemble(msg))

Identity(type, self) == <<OptionType(type), OptionIP(Code.ServerIdentifier, <<self>>)>>

AssembleNACK(xid, self, mac) ==
    assembleUdp(self, Broadcast, Template(2, xid, mac, Identity(Type.Nack, self)))

\* AssembleOffer and AssembleACK.
AssembleGrant(type, xid, flags, self, ip, mac, opts) ==
    assembleUdp(self, dstFromFlag(flags, ip),
                [Template(2, xid, mac, Identity(type, self) \o opts) EXCEPT
                    !.YourIP = ip, !.Flags = flags])

lopts(r) == ParseConfig(r.conf)

\* The override New has stored for the client, or nil.
override(r) == IF r.client = nil THEN nil ELSE SetClientOverrides(lopts(r), r.client)

\* sendNACK and sendMsg.
sendReply(r) ==
    IF r.type = Type.Nack
    THEN AssembleNACK(r.xid, r.self, r.mac)
    ELSE AssembleGrant(r.type, r.xid, r.flags, r.self, r.ip, r.mac,
                       dhcpOptions(lopts(r), override(r)))

\* arpping: what sendARPPing sends.
sendARPPing(mac, src, dst) ==
    [Opcode |-> 1, SenderMAC |-> mac, SenderIP |-> src,
     TargetMAC |-> <<255, 255, 255, 255, 255, 255>>, TargetIP |-> dst]

\* The sender of a packet is heard if its address is the one asked for.
catchARPReplyTarget(packet, target) ==
    LET arp == DecodeARP(packet)
    IN  IF arp # nil /\ arp.TargetIP = target THEN arp.SenderMAC ELSE nil

catchARPReply(packet, target) ==
    LET arp == DecodeARP(packet)
    IN  IF arp # nil /\ arp.SenderIP = target THEN arp.SenderMAC ELSE nil

\* What comes in was sent by one of these, or by anybody else.
VARIABLE sent

wireVars == <<dhcpVars, sent>>

WireInit ==
    /\ DecodeStart
    /\ \/ \E r \in Request : sent = [by |-> "client", of |-> r] /\ frame = request(r)
       \/ \E r \in Reply : sent = [by |-> "server", of |-> r] /\ frame = sendReply(r)
       \/ \E a \in Probe : sent = [by |-> "arp", of |-> a] /\ frame = AssembleARP(a)
       \/ sent = [by |-> "other", of |-> nil] /\ frame \in Input

WireNext == DecodeNext /\ UNCHANGED sent

WireSpec == WireInit /\ [][WireNext]_wireVars /\ WF_wireVars(WireNext)
-----------------------------------------------------------------------------
(***************************************************************************)
(* Properties.                                                             *)
(***************************************************************************)
v4 == DecodeIPv4(frame)

Decoded == DecodeOptions(Message.Options)

\* What a state of the client asks for is what the server reads (run.go:34-46,
\* netio.go:17): the type, the addresses that tell its four kinds of request
\* apart, the hardware address, and an identifier that is long enough to be
\* used and starts with its IAID (assemble.go:134-146).
RequestUnderstood ==
    sent.by = "client" =>
        /\ pc # "dropped"
        /\ pc = "done" =>
          LET r == sent.of IN
              /\ Message.Op = 1 /\ Message.Xid = r.xid /\ Message.ClientMAC = r.mac
              /\ v4.Source = r.src /\ v4.Destination = r.dst
              /\ DecodeUDP(v4.Data).DstPort = 67
              /\ Decoded.MessageType = r.type
              /\ Decoded.RequestedIP = r.reqIP /\ Decoded.ServerIdentifier = r.sid
              /\ Len(Decoded.ClientIdentifier) = 15
              /\ Uint32(Decoded.ClientIdentifier, 1) = r.crc32

\* The text of an address field, if it is given and all fields of the entry parse.
Parses(client) ==
    nil \notin {ipv4(<<client.ip>>), ipv4(<<client.router>>), ipv4(client.dns), ipv4(client.ntp)}

Overrides(r) == r.client # nil /\ Parses(r.client)

\* What the configuration says about a client is what the client reads in an
\* offer or an acknowledgement (netio.go:96-99 of dclient): its own router and
\* DNS if its entry names them and parses as a whole, else those of the server;
\* and the lease, mask, domain, address, identity and xid of the reply.
ReplyUnderstood ==
    sent.by = "server" =>
        /\ pc # "dropped"
        /\ pc = "done" =>
          LET r == sent.of IN
              /\ Message.Xid = r.xid /\ Message.ClientMAC = r.mac
              /\ DecodeUDP(v4.Data).DstPort = 68
              /\ Decoded.MessageType = r.type /\ Decoded.ServerIdentifier = r.self
              /\ r.type # Type.Nack =>
                    /\ Message.YourIP = r.ip
                    /\ v4.Destination \in {r.ip, Broadcast}
                    /\ Decoded.IPAddressLeaseDuration = r.conf.duration
                    /\ Decoded.SubnetMask = r.conf.mask
                    /\ Decoded.DomainName = r.conf.domain
                    /\ Decoded.Routers =
                          ipv4(<<IF Overrides(r) /\ ~r.client.router.empty
                                 THEN r.client.router ELSE r.conf.router>>)
                    /\ Decoded.DNS =
                          ipv4(IF Overrides(r) /\ ipv4(r.client.dns) # <<>>
                               THEN r.client.dns ELSE r.conf.dns)

\* The options of every reply fit their fields: the lengths in a byte
\* (assemble.go:56) and the seconds of the lease in 32 bits (assemble.go:158).
\* The code checks neither.
ShortOptions ==
    \A r \in Reply :
        /\ r.conf.duration \in Long /\ Len(r.conf.domain) < 256
        /\ Len(r.conf.dns) < 64 /\ Len(r.conf.ntp) < 64
        /\ r.client # nil => Len(r.client.dns) < 64 /\ Len(r.client.ntp) < 64

\* A receiver finds both checksums of every packet right: the one's complement
\* sum of the header, and of the UDP packet with its pseudo header, odd length
\* and carries of carries included, is zero (checksum.go:29-65).
ChecksumsRight ==
    sent.by \in {"client", "server"} =>
        LET udp == Slice(frame, 20, Len(frame))
        IN  /\ WordSum(Slice(frame, 0, 20)) % 65535 = 0
            /\ WordSum(Slice(frame, 12, 20) \o <<0, 17>> \o PutUint16(Len(udp))
                          \o Padded(udp, Len(udp) + (Len(udp) % 2))) % 65535 = 0

\* A host that answers for an address is heard by who asks for that address,
\* and by nobody else (arpping.go:42).
ProbeHeard ==
    sent.by = "arp" =>
        \A t \in {sent.of.SenderIP, sent.of.TargetIP} :
            catchARPReply(frame, t) =
                IF t = sent.of.SenderIP THEN sent.of.SenderMAC ELSE nil
=============================================================================
