-------------------------------- MODULE Layer --------------------------------
(***************************************************************************)
(* The packet formats of lib/layer: IPv4, UDP and ARP, with the Internet   *)
(* checksum.  Packets are sequences of bytes at their real width and       *)
(* layout; an address is the sequence of its four bytes, or nil.  A        *)
(* decoder returns a record, or nil for an error.                          *)
(***************************************************************************)
EXTENDS Integers, Sequences

CONSTANT nil   \* no address, no packet

Byte == 0 .. 255

Bytes == Seq(Byte)

\* Strings of n bytes, and the numbers of 16 and 32 bits.
Sized(n) == {s \in Bytes : Len(s) = n}

Word == {n \in Nat : n < 65536}

Long == {n \in Nat : n \div 65536 < 65536}

\* nil is none of the values it stands in for.
ASSUME NilAssumption ==
    /\ nil \notin Bytes /\ nil \notin Seq(Bytes)
    /\ nil \notin [Protocol : Nat, Source : Bytes, Destination : Bytes, Data : Bytes]
    /\ nil \notin [SrcPort : Nat, DstPort : Nat, Data : Bytes]
    /\ nil \notin [Opcode : Nat, SenderMAC : Bytes, SenderIP : Bytes, TargetMAC : Bytes,
                    TargetIP : Bytes]

\* b[i] and b[i:j] of Go.
At(b, i) == b[i + 1]

Slice(b, i, j) == SubSeq(b, i + 1, j)

\* copy(make([]byte, n), s).
Padded(s, n) == [i \in 1 .. n |-> IF i <= Len(s) THEN s[i] ELSE 0]

Uint16(b, i) == 256 * At(b, i) + At(b, i + 1)

PutUint16(n) == <<(n \div 256) % 256, n % 256>>

\* b with the bytes from i on replaced by s.
Put(b, i, s) == Slice(b, 0, i) \o s \o Slice(b, i + Len(s), Len(b))

To4(ip) == IF ip = nil THEN <<0, 0, 0, 0>> ELSE ip
-----------------------------------------------------------------------------
(***************************************************************************)
(* checksum.go.                                                            *)
(***************************************************************************)
\* The sum of the 16 bit words of b; an odd byte is the high one of its word.
WordSum(b) ==
    LET even == Len(b) \div 2
        sum[n \in Nat] == IF n = 0 THEN 0 ELSE sum[n - 1] + Uint16(b, 2 * n - 2)
    IN  sum[even] + (IF Len(b) % 2 = 1 THEN 256 * At(b, Len(b) - 1) ELSE 0)

\* A mutant, a plausible mistake that breaks a property: one carry is enough.
ipv4csumOnce(b, acc) ==
    LET n == acc + WordSum(b)
    IN  65535 - (((n \div 65536) + (n % 65536)) % 65536)

ipv4csum(b, acc) ==
    LET fold[n \in Nat] == IF n > 65535 THEN fold[(n \div 65536) + (n % 65536)] ELSE n
    IN  65535 - fold[acc + WordSum(b)]

pseudohdrcsum(b) ==
    At(b, 9) + Uint16(b, 12) + Uint16(b, 14) + Uint16(b, 16) + Uint16(b, 18)

udp4csum(hlen, b) ==
    LET length == Len(b) - hlen
    IN  ipv4csum(Slice(b, hlen, Len(b)),
                 pseudohdrcsum(b) + (length % 65536) + (length \div 65536))

Version(b) == At(b, 0) \div 16

IHL(b) == 4 * (At(b, 0) % 16)

\* Sets the checksum of the header, and that of UDP behind it.  The error it
\* returns for other packets is dropped by Assemble.
setV4Checksum(b) ==
    IF Len(b) < 1 \/ Version(b) # 4 \/ IHL(b) < 20 \/ Len(b) < IHL(b)
    THEN b
    ELSE LET h == Put(b, 10, PutUint16(ipv4csum(Slice(b, 0, IHL(b)), 0)))
         IN  IF At(h, 9) = 17 /\ Len(h) >= IHL(h) + 8
             THEN Put(h, IHL(h) + 6, PutUint16(udp4csum(IHL(h), h)))
             ELSE h
-----------------------------------------------------------------------------
(***************************************************************************)
(* ip.go, udp.go and arp.go.                                               *)
(***************************************************************************)
AssembleIPv4(h) ==
    setV4Checksum(
        <<4 * 16 + (20 \div 4), 0>> \o PutUint16(20 + Len(h.Data))
            \o PutUint16(h.Identification) \o PutUint16(h.Flags)
            \o <<h.TTL, h.Protocol, 0, 0>>
            \o To4(h.Source) \o To4(h.Destination) \o h.Data)

DecodeIPv4(b) ==
    IF \/ Len(b) < 20
       \/ Version(b) # 4 \/ Len(b) < IHL(b) \/ IHL(b) < 20
       \/ Uint16(b, 2) # Len(b)
    THEN nil
    ELSE [Protocol |-> At(b, 9), Source |-> Slice(b, 12, 16),
          Destination |-> Slice(b, 16, 20), Data |-> Slice(b, IHL(b), Len(b))]

AssembleUDP(u) ==
    PutUint16(u.SrcPort) \o PutUint16(u.DstPort) \o PutUint16(8 + Len(u.Data))
        \o <<0, 0>> \o u.Data

DecodeUDP(b) ==
    IF Len(b) < 8 \/ Uint16(b, 4) # Len(b)
    THEN nil
    ELSE [SrcPort |-> Uint16(b, 0), DstPort |-> Uint16(b, 2),
          Data |-> Slice(b, 8, Len(b))]

\* The hardware addresses of Ethernet have six bytes.
AssembleARP(a) ==
    <<0, 1, 8, 0, 6, 4, 0, a.Opcode>> \o a.SenderMAC \o To4(a.SenderIP)
        \o a.TargetMAC \o To4(a.TargetIP)

\* Opcode and types are not looked at.
DecodeARP(b) ==
    IF Len(b) # 28
    THEN nil
    ELSE [Opcode |-> At(b, 7), SenderMAC |-> Slice(b, 8, 14), SenderIP |-> Slice(b, 14, 18),
          TargetMAC |-> Slice(b, 18, 24), TargetIP |-> Slice(b, 24, 28)]
=============================================================================
