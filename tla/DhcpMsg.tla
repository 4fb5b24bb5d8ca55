------------------------------- MODULE DhcpMsg -------------------------------
(***************************************************************************)
(* DHCP messages on the wire: lib/dhcpmsg, and how a receiver (server.Run, *)
(* catchReply) gets from a frame to a message.  Assemble and the option    *)
(* constructors are operators; Decode is run step by step, one iteration   *)
(* of its loop over the options at a time, on any frame of Input.          *)
(*                                                                         *)
(* TLC's instances have numbers below 2^31 only.  An option that Decode    *)
(* has found is a slice of the packet, [Option, at, len], not a copy.      *)
(***************************************************************************)
EXTENDS Layer

CONSTANT Input   \* the frames that come in

ASSUME FrameAssumption == Input \subseteq Seq(Byte)

\* The option codes of constants.go.
Code ==
    [SubnetMask |-> 1, Router |-> 3, DNS |-> 6, DomainName |-> 15, InterfaceMTU |-> 26,
     NTP |-> 42, RequestedIP |-> 50, IPAddressLeaseDuration |-> 51, MessageType |-> 53,
     ServerIdentifier |-> 54, ParametersList |-> 55, MaxMessageSize |-> 57,
     RenewalDuration |-> 58, RebindDuration |-> 59, ClientIdentifier |-> 61]

OptEnd == 255

dhcpMinLen == 240

PutUint32(n) ==
    PutUint16(n \div 65536) \o PutUint16(n % 65536)

Uint32(b, i) == 65536 * Uint16(b, i) + Uint16(b, i + 2)
-----------------------------------------------------------------------------
(***************************************************************************)
(* assemble.go.                                                            *)
(***************************************************************************)
\* The length of an option is cut to a byte.
OptionBytes(o) == <<o.Option, Len(o.Data) % 256>> \o o.Data

OptionsBytes(opts) ==
    LET all[n \in Nat] == IF n = 0 THEN <<>> ELSE all[n - 1] \o OptionBytes(opts[n])
    IN  IF Len(opts) > 0 THEN all[Len(opts)] \o <<OptEnd>> ELSE <<>>

\* Mutants, here and below: plausible mistakes, each of which breaks a property.
AssembleSwapped(msg) ==
    <<msg.Op, msg.Htype, Len(msg.ClientMAC) % 256, msg.Hops>> \o PutUint32(msg.Xid)
        \o PutUint16(msg.Secs) \o PutUint16(msg.Flags)
        \o To4(msg.YourIP) \o To4(msg.ClientIP) \o To4(msg.NextIP) \o To4(msg.RelayIP)
        \o Padded(msg.ClientMAC, 16) \o Padded(<<>>, 64) \o Padded(<<>>, 128)
        \o PutUint32(msg.Cookie) \o OptionsBytes(msg.Options)

\* No caller sets ServerHostName and BootFilename.
Assemble(msg) ==
    <<msg.Op, msg.Htype, Len(msg.ClientMAC) % 256, msg.Hops>> \o PutUint32(msg.Xid)
        \o PutUint16(msg.Secs) \o PutUint16(msg.Flags)
        \o To4(msg.ClientIP) \o To4(msg.YourIP) \o To4(msg.NextIP) \o To4(msg.RelayIP)
        \o Padded(msg.ClientMAC, 16) \o Padded(<<>>, 64) \o Padded(<<>>, 128)
        \o PutUint32(msg.Cookie) \o OptionsBytes(msg.Options)

Opt(code, data) == [Option |-> code, Data |-> data]

OptionType(t) == Opt(Code.MessageType, <<t>>)

\* optIP, of one or of several addresses.
OptionIP(code, ips) ==
    Opt(code, [i \in 1 .. 4 * Len(ips) |-> To4(ips[1 + ((i - 1) \div 4)])[1 + ((i - 1) % 4)]])

OptionMaxMessageSize(size) == Opt(Code.MaxMessageSize, PutUint16(size))

\* IAID, a checksum of the address, and a DUID-LL of its first six bytes.
OptionClientIdentifier(hwaddr, crc32) ==
    Opt(Code.ClientIdentifier,
        <<255>> \o PutUint32(crc32) \o <<0, 3, 0, 1>> \o Padded(hwaddr, 6))

OptionParametersList(params) == Opt(Code.ParametersList, params)

OptionIPAddressLeaseDuration(seconds) == Opt(Code.IPAddressLeaseDuration, PutUint32(seconds))

OptionSubnetMask(mask) == Opt(Code.SubnetMask, mask)

OptionDomainName(name) == Opt(Code.DomainName, name)
-----------------------------------------------------------------------------
(***************************************************************************)
(* The receiver.                                                           *)
(***************************************************************************)
VARIABLES
    frame,    \* what was read from the socket
    b,        \* the payload of UDP
    c,        \* the position in it
    opt,      \* the last option code
    options,  \* msg.Options
    pc

dhcpVars == <<frame, b, c, opt, options, pc>>

DecodeStart ==
    /\ b = <<>> /\ c = dhcpMinLen /\ opt = 0 /\ options = <<>>
    /\ pc = "frame"

\* The checks of the server; the client also looks at protocol, port and
\* hardware address.
ReadFrame ==
    LET v4  == DecodeIPv4(frame)
        udp == IF v4 = nil THEN nil ELSE DecodeUDP(v4.Data)
    IN  /\ pc = "frame"
        /\ \/ /\ udp # nil /\ Len(udp.Data) >= dhcpMinLen
              /\ b' = udp.Data
              /\ pc' = "options"
           \/ /\ ~(udp # nil /\ Len(udp.Data) >= dhcpMinLen)
              /\ pc' = "dropped"
              /\ UNCHANGED b
        /\ UNCHANGED <<frame, c, opt, options>>

FitsAlways(at, olen) == TRUE

Fits(at, olen) == at + olen <= Len(b)

PastCodeStuck == IF At(b, c) = 0 THEN c ELSE c + 1

PastCode == c + 1

\* One iteration of the loop over the options, up to the break or continue.
DecodeOption ==
    LET code == At(b, c)
        olen == At(b, PastCode)
        at   == PastCode + 1
    IN  /\ pc = "options" /\ c < Len(b)
        /\ opt' = code
        /\ \/ /\ code = 0
              /\ c' = PastCode
              /\ UNCHANGED <<options, pc>>
           \/ /\ code # 0
              /\ PastCode >= Len(b) \/ code = OptEnd
              /\ c' = PastCode
              /\ pc' = "end"
              /\ UNCHANGED options
           \/ /\ code # 0 /\ code # OptEnd /\ PastCode < Len(b) /\ ~Fits(at, olen)
              /\ c' = at
              /\ pc' = "end"
              /\ UNCHANGED options
           \/ /\ code # 0 /\ code # OptEnd /\ PastCode < Len(b) /\ Fits(at, olen)
              /\ c' = at + olen
              /\ options' = Append(options, [Option |-> code, at |-> at, len |-> olen])
              /\ UNCHANGED pc
        /\ UNCHANGED <<frame, b>>

\* The end of the loop, and the check for the end mark.
DecodeEnd ==
    /\ \/ pc = "end"
       \/ pc = "options" /\ c >= Len(b)
    /\ pc' = IF opt = OptEnd THEN "done" ELSE "dropped"
    /\ UNCHANGED <<frame, b, c, opt, options>>

DecodeNext == ReadFrame \/ DecodeOption \/ DecodeEnd

DecodeSafety == frame \in Input /\ DecodeStart /\ [][DecodeNext]_dhcpVars

\* The message Decode returns.
Message ==
    [Op |-> At(b, 0), Htype |-> At(b, 1), Hops |-> At(b, 3), Xid |-> Uint32(b, 4),
     Secs |-> Uint16(b, 8), Flags |-> Uint16(b, 10),
     ClientIP |-> Slice(b, 12, 16), YourIP |-> Slice(b, 16, 20),
     NextIP |-> Slice(b, 20, 24), RelayIP |-> Slice(b, 24, 28),
     ClientMAC |-> Padded(Slice(b, 28, Len(b)), At(b, 2)),
     Cookie |-> Uint32(b, 236),
     Options |-> [i \in 1 .. Len(options) |->
                    Opt(options[i].Option,
                        Slice(b, options[i].at, options[i].at + options[i].len))]]
-----------------------------------------------------------------------------
(***************************************************************************)
(* optshelper.go: the options a message is taken to have.  Of several with *)
(* one code the last counts, be it of the wrong length.                    *)
(***************************************************************************)
\* The data of the option, or nil.
Data(opts, code) ==
    LET is == {i \in 1 .. Len(opts) : opts[i].Option = code}
    IN  IF is = {} THEN nil ELSE opts[CHOOSE i \in is : \A j \in is : j <= i].Data

toUint8(x) == IF x # nil /\ Len(x) = 1 THEN x[1] ELSE 0

toUint16(x) == IF x # nil /\ Len(x) = 2 THEN Uint16(x, 0) ELSE 0

toDuration(x) == IF x # nil /\ Len(x) = 4 THEN Uint32(x, 0) ELSE 0

toNetmask(x) == IF x # nil /\ Len(x) = 4 THEN x ELSE nil

toString(x) == IF x # nil THEN x ELSE <<>>

toV4A(x) ==
    IF x # nil /\ Len(x) >= 4 /\ Len(x) % 4 = 0
    THEN [i \in 1 .. Len(x) \div 4 |-> Slice(x, 4 * (i - 1), 4 * i)]
    ELSE <<>>

toV4(x) == IF Len(toV4A(x)) = 1 THEN toV4A(x)[1] ELSE nil

\* The broadcast address and the message, which nobody reads, are left out.
DecodeOptions(opts) ==
    [SubnetMask |-> toNetmask(Data(opts, Code.SubnetMask)),
     Routers |-> toV4A(Data(opts, Code.Router)),
     DNS |-> toV4A(Data(opts, Code.DNS)),
     DomainName |-> toString(Data(opts, Code.DomainName)),
     RequestedIP |-> toV4(Data(opts, Code.RequestedIP)),
     IPAddressLeaseDuration |-> toDuration(Data(opts, Code.IPAddressLeaseDuration)),
     MessageType |-> toUint8(Data(opts, Code.MessageType)),
     MaxMessageSize |-> toUint16(Data(opts, Code.MaxMessageSize)),
     InterfaceMTU |-> toUint16(Data(opts, Code.InterfaceMTU)),
     ServerIdentifier |-> toV4(Data(opts, Code.ServerIdentifier)),
     RenewalDuration |-> toDuration(Data(opts, Code.RenewalDuration)),
     RebindDuration |-> toDuration(Data(opts, Code.RebindDuration)),
     ClientIdentifier |-> Data(opts, Code.ClientIdentifier),
     ParametersList |-> Data(opts, Code.ParametersList)]
-----------------------------------------------------------------------------
(***************************************************************************)
(* Properties.                                                             *)
(***************************************************************************)
Before(i) == options[i].at - 2

After(i) == options[i].at + options[i].len

\* Position k of the packet belongs to an option.
Covered(k) == \E i \in 1 .. Len(options) : k \in Before(i) .. After(i) - 1

\* Whatever the packet holds, the loop over its options (parse.go:41-58) finds
\* only options that lie behind the header and inside the packet, each behind
\* its code and its length and behind the one before; and it accepts the packet
\* only if padding and these options are all there is up to an end mark.  Bytes
\* after the end mark are ignored (parse.go:46).
DecodedExactly ==
    /\ \A i \in 1 .. Len(options) :
          /\ dhcpMinLen <= Before(i) /\ After(i) <= Len(b)
          /\ At(b, Before(i)) = options[i].Option /\ options[i].Option \notin {0, OptEnd}
          /\ At(b, Before(i) + 1) = options[i].len
    /\ \A i, j \in 1 .. Len(options) : i < j => After(i) <= Before(j)
    /\ pc = "done" =>
          /\ c - 1 \in dhcpMinLen .. Len(b) - 1 /\ At(b, c - 1) = OptEnd
          /\ \A k \in dhcpMinLen .. c - 2 : Covered(k) \/ At(b, k) = 0

\* Every packet is decoded or dropped, whatever lengths it claims: the receive
\* loops of server and client never hang in one (parse.go:41-55).
DecodeEnds == <>(pc \in {"done", "dropped"})
=============================================================================
