----------------------------- MODULE WireProofs -----------------------------
(***************************************************************************)
(* What one side sends is what the other side reads, for every request,    *)
(* reply and probe, and every checksum is right. WireSpec takes the        *)
(* receiver through a packet step by step; the invariant says that what    *)
(* it has found so far is what the sender has put there.                   *)
(***************************************************************************)
EXTENDS Wire, DhcpMsgProofs

-----------------------------------------------------------------------------
(***************************************************************************)
(* Datagrams.                                                              *)
(***************************************************************************)

\* The header of IPv4 without its checksum, and the data behind it.
Header(p1, p2, p3, p4, p5, src, dst, q) ==
    p1 \o p2 \o p3 \o p4 \o p5 \o src \o dst \o q

\* The parts of an IPv4 header are where DecodeIPv4 looks for them.
LEMMA HeaderIs ==
    ASSUME NEW n \in Nat, NEW p1, NEW p2, NEW p3, NEW p4, NEW p5, NEW src, NEW dst, NEW q,
           p1 \in Sized(2), p2 \in Sized(2), p3 \in Sized(2), p4 \in Sized(2),
           p5 \in Sized(4), src \in Sized(4), dst \in Sized(4), q \in Sized(n)
    PROVE  LET r == Header(p1, p2, p3, p4, p5, src, dst, q)
           IN  /\ r \in Sized(20 + n) /\ HasAt(r, 2, p2) /\ HasAt(r, 12, src) /\ HasAt(r, 16, dst)
               /\ HasAt(r, 20, q)
               /\ r[1] = p1[1] /\ r[10] = p5[2] /\ r[11] = p5[3] /\ r[12] = p5[4]
<1> DEFINE x2 == p1 \o p2
           x3 == x2 \o p3
           x4 == x3 \o p4
           x5 == x4 \o p5
           x6 == x5 \o src
           x7 == x6 \o dst
           x8 == x7 \o q
<1>4. x2 \in Sized(4) /\ HasAt(x2, 0, p1) /\ HasAt(x2, 2, p2)
  BY CatSized
<1> HIDE DEF x2
<1>5. x3 \in Sized(6)
  BY <1>4, CatSized
<1>6. HasAt(x3, 0, p1) /\ HasAt(x3, 2, p2)
  BY <1>4, AddKeeps
<1> HIDE DEF x3
<1>7. x4 \in Sized(8)
  BY <1>5, CatSized
<1>8. HasAt(x4, 0, p1) /\ HasAt(x4, 2, p2)
  BY <1>5, <1>6, AddKeeps
<1> HIDE DEF x4
<1>9. x5 \in Sized(12) /\ HasAt(x5, 8, p5)
  BY <1>7, CatSized
<1>10. HasAt(x5, 0, p1) /\ HasAt(x5, 2, p2)
  BY <1>7, <1>8, AddKeeps
<1> HIDE DEF x5
<1>11. x6 \in Sized(16) /\ HasAt(x6, 12, src)
  BY <1>9, CatSized
<1>12. HasAt(x6, 0, p1) /\ HasAt(x6, 2, p2) /\ HasAt(x6, 8, p5)
  BY <1>9, <1>10, AddKeeps
<1> HIDE DEF x6
<1>13. x7 \in Sized(20) /\ HasAt(x7, 16, dst)
  BY <1>11, CatSized
<1>14. HasAt(x7, 0, p1) /\ HasAt(x7, 2, p2) /\ HasAt(x7, 8, p5) /\ HasAt(x7, 12, src)
  BY <1>11, <1>12, AddKeeps
<1> HIDE DEF x7
<1>15. x8 \in Sized(20 + n) /\ HasAt(x8, 20, q)
  BY <1>13, CatSized
<1>16. /\ HasAt(x8, 0, p1) /\ HasAt(x8, 2, p2) /\ HasAt(x8, 8, p5) /\ HasAt(x8, 12, src)
       /\ HasAt(x8, 16, dst)
  BY <1>13, <1>14, AddKeeps
<1> HIDE DEF x8
<1>17. /\ x8[0 + 1] = p1[1] /\ x8[8 + 2] = p5[2] /\ x8[8 + 3] = p5[3] /\ x8[8 + 4] = p5[4]
  <2>1. 20 + n \in Nat
    OBVIOUS
  <2> QED BY <1>15, <1>16, <2>1, HasSized
<1>18. x8[1] = p1[1] /\ x8[10] = p5[2] /\ x8[11] = p5[3] /\ x8[12] = p5[4]
  BY <1>17
<1> QED BY <1>15, <1>16, <1>18 DEF Header, x2, x3, x4, x5, x6, x7, x8

\* Both checksums of a frame are right, that of the header and that of UDP.
Summed(f, udp) ==
    /\ WordSum(Slice(f, 0, 20)) % 65535 = 0
    /\ WordSum(Slice(f, 12, 20) \o <<0, 17>> \o PutUint16(Len(udp))
                  \o Padded(udp, Len(udp) + (Len(udp) % 2))) % 65535 = 0

\* The payloads that fit in a datagram.
PayloadSize == {n \in Nat : n + 28 < 65536}

\* A datagram, and what is read of it.
DatagramHas(f, n, src, dst, sport, dport, payload) ==
    /\ f \in Sized(28 + n)
    /\ Summed(f, Slice(f, 20, Len(f)))
    /\ DecodeIPv4(f) = [Protocol |-> 17, Source |-> src, Destination |-> dst,
                        Data |-> Slice(f, 20, Len(f))]
    /\ DecodeUDP(Slice(f, 20, Len(f))) =
          [SrcPort |-> sport, DstPort |-> dport, Data |-> payload]

\* A datagram is read as it was meant, and its checksums are right.
LEMMA DatagramIs ==
    ASSUME NEW id \in Word, NEW src \in Sized(4), NEW dst \in Sized(4), src # nil, dst # nil,
           NEW sport \in Word, NEW dport \in Word, NEW n \in Nat, n \in PayloadSize,
           NEW payload \in Sized(n), NEW f, f = Datagram(id, src, dst, sport, dport, payload)
    PROVE  DatagramHas(f, n, src, dst, sport, dport, payload)
<1>0. n \in Nat /\ n + 28 < 65536
  BY DEF PayloadSize
<1> DEFINE q == AssembleUDP([SrcPort |-> sport, DstPort |-> dport, Data |-> payload])
           h == [Identification |-> id, Flags |-> 0, TTL |-> 64, Protocol |-> 17,
                 Source |-> src, Destination |-> dst, Data |-> q]
           p2 == PutUint16(28 + n)
           p1 == <<69, 0>>
           p5 == <<64, 17, 0, 0>>
           r == Header(p1, p2, PutUint16(id), PutUint16(0), p5, src, dst, q)
<1>1. /\ q \in Sized(8 + n)
      /\ HasAt(q, 0, PutUint16(sport)) /\ HasAt(q, 2, PutUint16(dport))
      /\ HasAt(q, 4, PutUint16(8 + n)) /\ HasAt(q, 8, payload)
      /\ q[7] = 0 /\ q[8] = 0
  BY <1>0, UDPIs
<1>2. f = setV4Checksum(r)
  <2>1. h.Identification = id /\ h.Flags = 0 /\ h.TTL = 64 /\ h.Protocol = 17
        /\ h.Source = src /\ h.Destination = dst /\ h.Data = q /\ f = AssembleIPv4(h)
    BY DEF Datagram
  <2> HIDE DEF h
  <2>2. f = setV4Checksum(
                <<4 * 16 + (20 \div 4), 0>> \o PutUint16(20 + Len(h.Data))
                    \o PutUint16(h.Identification) \o PutUint16(h.Flags)
                    \o <<h.TTL, h.Protocol, 0, 0>>
                    \o To4(h.Source) \o To4(h.Destination) \o h.Data)
    BY <2>1 DEF AssembleIPv4
  <2>3. To4(src) = src /\ To4(dst) = dst
    BY DEF To4
  <2> HIDE DEF q
  <2>4. 4 * 16 + (20 \div 4) = 69 /\ 20 + Len(q) = 28 + n
    <3>1. Len(q) = 8 + n
      BY <1>0, <1>1, SizedIs
    <3> QED BY <1>0, <3>1
  <2> QED BY <2>1, <2>2, <2>3, <2>4 DEF Header
<1> HIDE DEF q
<1>3. p2 \in Sized(2) /\ PutUint16(id) \in Sized(2) /\ PutUint16(0) \in Sized(2)
  <2>1. 28 + n \in Word /\ 0 \in Word
    BY <1>0 DEF Word
  <2> QED BY <2>1, PutWord
<1>a. p1 \in Sized(2) /\ p1[1] = 69
  <2>1. 69 \in Byte /\ 0 \in Byte
    BY ByteIs
  <2> QED BY <2>1, TwoSized
<1>b. p5 \in Sized(4) /\ p5[2] = 17 /\ p5[3] = 0 /\ p5[4] = 0
  <2>1. 64 \in Byte /\ 17 \in Byte /\ 0 \in Byte
    BY ByteIs
  <2> QED BY <2>1, FourSized
<1> HIDE DEF p1, p2, p5
<1>4. /\ r \in Sized(20 + (8 + n)) /\ HasAt(r, 2, p2) /\ HasAt(r, 12, src) /\ HasAt(r, 16, dst)
      /\ HasAt(r, 20, q) /\ r[1] = 69 /\ r[10] = 17 /\ r[11] = 0 /\ r[12] = 0
  <2>1. 8 + n \in Nat
    BY <1>0
  <2>2. q \in Sized(8 + n)
    BY <1>1
  <2> HIDE DEF r
  <2>3. /\ r \in Sized(20 + (8 + n)) /\ HasAt(r, 2, p2) /\ HasAt(r, 12, src) /\ HasAt(r, 16, dst)
        /\ HasAt(r, 20, q)
        /\ r[1] = p1[1] /\ r[10] = p5[2] /\ r[11] = p5[3] /\ r[12] = p5[4]
    BY <1>3, <1>a, <1>b, <2>1, <2>2, HeaderIs DEF r
  <2> QED BY <1>a, <1>b, <2>3
<1> HIDE DEF r
<1> DEFINE l == 28 + n
<1>5. l \in Nat /\ 28 <= l /\ l < 65536 /\ 20 + (8 + n) = l /\ 8 + n \in Nat /\ l - 20 = 8 + n
  BY <1>0
<1>6. r \in Sized(l)
  BY <1>4, <1>5
<1>7. 2 + 2 <= l
  BY <1>5
<1> HIDE DEF l
<1>8. r[20 + 7] = q[7] /\ r[20 + 8] = q[8]
  BY <1>1, <1>4, <1>5, <1>6, HasSized
<1>9. r[27] = 0 /\ r[28] = 0
  BY <1>1, <1>8
<1>10. /\ \E y1 \in Sized(2), y2 \in Sized(2) : f = Put(Put(r, 10, y1), 26, y2)
       /\ f \in Sized(l)
       /\ WordSum(Slice(f, 0, 20)) % 65535 = 0
       /\ LET udp == Slice(f, 20, l)
          IN  WordSum(Slice(f, 12, 20) \o <<0, 17>> \o PutUint16(Len(udp))
                        \o Padded(udp, Len(udp) + (Len(udp) % 2))) % 65535 = 0
  BY <1>2, <1>4, <1>5, <1>6, <1>9, ChecksumSet, SMTT(30)
<1>11. PICK y1 \in Sized(2), y2 \in Sized(2) : f = Put(Put(r, 10, y1), 26, y2)
  BY <1>10
<1> DEFINE g == Put(r, 10, y1)
<1>12. g \in Sized(l) /\ Put(g, 26, y2) \in Sized(l)
  <2>1. g \in Sized(l)
    BY <1>5, <1>6, <1>11, PutSized
  <2> QED BY <1>5, <1>11, <2>1, PutSized
<1>13. f[1] = 69 /\ f[10] = 17
  <2>1. g[1] = r[1] /\ g[10] = r[10]
    BY <1>5, <1>6, <1>11, PutByte
  <2> HIDE DEF g
  <2>2. Put(g, 26, y2)[1] = g[1] /\ Put(g, 26, y2)[10] = g[10]
    BY <1>5, <1>11, <1>12, PutByte
  <2> QED BY <1>4, <1>11, <2>1, <2>2 DEF g
<1>14. ASSUME NEW m \in Nat, NEW z \in Sized(m), NEW k \in Nat, HasAt(r, k, z),
              k + m <= 10 \/ 12 <= k, k + m <= 26 \/ 28 <= k
       PROVE  HasAt(f, k, z)
  <2>1. HasAt(g, k, z)
    BY <1>5, <1>6, <1>11, <1>14, PutHas
  <2> HIDE DEF g
  <2>2. HasAt(Put(g, 26, y2), k, z)
    BY <1>5, <1>11, <1>12, <1>14, <2>1, PutHas
  <2> QED BY <1>11, <2>2 DEF g
<1> HIDE DEF g
<1>15. f \in Sized(l) /\ f \in Bytes /\ Len(f) = l
  BY <1>5, <1>10, SizedIs
<1>16. HasAt(f, 2, p2) /\ HasAt(f, 12, src) /\ HasAt(f, 16, dst)
  BY <1>3, <1>4, <1>14
<1>17. /\ HasAt(f, 20 + 0, PutUint16(sport)) /\ HasAt(f, 20 + 2, PutUint16(dport))
       /\ HasAt(f, 20 + 4, PutUint16(8 + n)) /\ HasAt(f, 20 + 8, payload)
  <2>1. 8 + n \in Word
    BY <1>0 DEF Word
  <2>2. PutUint16(sport) \in Sized(2) /\ PutUint16(dport) \in Sized(2)
        /\ PutUint16(8 + n) \in Sized(2)
    BY <2>1, PutWord
  <2>3. /\ PutUint16(sport) \in Bytes /\ PutUint16(dport) \in Bytes /\ PutUint16(8 + n) \in Bytes
        /\ payload \in Bytes /\ q \in Bytes /\ r \in Bytes
    BY <1>1, <1>5, <1>6, <2>2, SizedIs
  <2>4. /\ HasAt(r, 20 + 0, PutUint16(sport)) /\ HasAt(r, 20 + 2, PutUint16(dport))
        /\ HasAt(r, 20 + 4, PutUint16(8 + n)) /\ HasAt(r, 20 + 8, payload)
    BY <1>1, <1>4, <2>3, HasPart
  <2> QED BY <1>14, <2>2, <2>4
<1>18. DecodeIPv4(f) = [Protocol |-> 17, Source |-> src, Destination |-> dst,
                        Data |-> Slice(f, 20, Len(f))]
  <2>1. Version(f) = 4 /\ IHL(f) = 20 /\ At(f, 9) = 17
    <3>1. At(f, 0) = 69 /\ At(f, 9) = 17
      BY <1>13 DEF At
    <3>2. 69 \div 16 = 4 /\ 4 * (69 % 16) = 20
      OBVIOUS
    <3> QED BY <3>1, <3>2 DEF Version, IHL
  <2>2. Uint16(f, 2) = l
    <3>1. 28 + n \in Word
      BY <1>0 DEF Word
    <3> QED BY <1>15, <1>16, <3>1, PutWord DEF p2, l
  <2>3. Slice(f, 12, 12 + 4) = src /\ Slice(f, 16, 16 + 4) = dst
    BY <1>5, <1>15, <1>16, HasSized
  <2>4. ~(\/ Len(f) < 20
          \/ Version(f) # 4 \/ Len(f) < IHL(f) \/ IHL(f) < 20
          \/ Uint16(f, 2) # Len(f))
    BY <1>5, <1>15, <2>1, <2>2
  <2>5. DecodeIPv4(f) = [Protocol |-> At(f, 9), Source |-> Slice(f, 12, 16),
                         Destination |-> Slice(f, 16, 20), Data |-> Slice(f, IHL(f), Len(f))]
    BY <2>4 DEF DecodeIPv4
  <2> QED BY <2>1, <2>3, <2>5
<1> DEFINE u == Slice(f, 20, l)
<1>19. u \in Sized(8 + n)
  BY <1>5, <1>15, SliceSized
<1>20. /\ HasAt(u, 0, PutUint16(sport)) /\ HasAt(u, 2, PutUint16(dport))
       /\ HasAt(u, 4, PutUint16(8 + n)) /\ HasAt(u, 8, payload)
  <2>1. 8 + n \in Word
    BY <1>0 DEF Word
  <2>2. PutUint16(sport) \in Sized(2) /\ PutUint16(dport) \in Sized(2)
        /\ PutUint16(8 + n) \in Sized(2)
    BY <2>1, PutWord
  <2> QED BY <1>5, <1>15, <1>17, <2>2, SlicePart
<1> HIDE DEF u
<1>21. DecodeUDP(u) = [SrcPort |-> sport, DstPort |-> dport, Data |-> payload]
  BY <1>0, <1>19, <1>20, UDPRead
<1>22. Summed(f, Slice(f, 20, Len(f)))
  <2>1. Summed(f, Slice(f, 20, l))
    BY <1>10 DEF Summed
  <2>2. Slice(f, 20, Len(f)) = Slice(f, 20, l)
    BY <1>15
  <2> QED BY <2>1, <2>2
<1> QED BY <1>15, <1>18, <1>21, <1>22 DEF u, l, DatagramHas
-----------------------------------------------------------------------------
(***************************************************************************)
(* Messages.                                                               *)
(***************************************************************************)

\* The header of a message, and the options behind it.
MessageBytes(p1, p2, p3, p4, p5, p6, p7, p8, p9, p10, p11, p12, p13) ==
    p1 \o p2 \o p3 \o p4 \o p5 \o p6 \o p7 \o p8 \o p9 \o p10 \o p11 \o p12 \o p13

\* The parts of a message are where Decode looks for them.
LEMMA MessageParts ==
    ASSUME NEW n \in Nat, NEW p1, NEW p2, NEW p3, NEW p4, NEW p5, NEW p6, NEW p7, NEW p8,
           NEW p9, NEW p10, NEW p11, NEW p12, NEW p13,
           p1 \in Sized(4), p2 \in Sized(4), p3 \in Sized(2), p4 \in Sized(2),
           p5 \in Sized(4), p6 \in Sized(4), p7 \in Sized(4), p8 \in Sized(4),
           p9 \in Sized(16), p10 \in Sized(64), p11 \in Sized(128), p12 \in Sized(4),
           p13 \in Sized(n)
    PROVE  LET s == MessageBytes(p1, p2, p3, p4, p5, p6, p7, p8, p9, p10, p11, p12, p13)
           IN  /\ s \in Sized(240 + n) /\ HasAt(s, 0, p1) /\ HasAt(s, 4, p2) /\ HasAt(s, 12, p5)
               /\ HasAt(s, 16, p6) /\ HasAt(s, 28, p9) /\ HasAt(s, 240, p13)
<1> DEFINE x2 == p1 \o p2
           x3 == x2 \o p3
           x4 == x3 \o p4
           x5 == x4 \o p5
           x6 == x5 \o p6
           x7 == x6 \o p7
           x8 == x7 \o p8
           x9 == x8 \o p9
           x10 == x9 \o p10
           x11 == x10 \o p11
           x12 == x11 \o p12
           x13 == x12 \o p13
<1>1. x2 \in Sized(8) /\ HasAt(x2, 4, p2) /\ HasAt(x2, 0, p1)
  BY CatSized
<1> HIDE DEF x2
<1>2. x3 \in Sized(10)
  BY <1>1, CatSized
<1>3. HasAt(x3, 0, p1) /\ HasAt(x3, 4, p2)
  BY <1>1, AddKeeps
<1> HIDE DEF x3
<1>4. x4 \in Sized(12)
  BY <1>2, CatSized
<1>5. HasAt(x4, 0, p1) /\ HasAt(x4, 4, p2)
  BY <1>2, <1>3, AddKeeps
<1> HIDE DEF x4
<1>6. x5 \in Sized(16) /\ HasAt(x5, 12, p5)
  BY <1>4, CatSized
<1>7. HasAt(x5, 0, p1) /\ HasAt(x5, 4, p2)
  BY <1>4, <1>5, AddKeeps
<1> HIDE DEF x5
<1>8. x6 \in Sized(20) /\ HasAt(x6, 16, p6)
  BY <1>6, CatSized
<1>9. HasAt(x6, 0, p1) /\ HasAt(x6, 4, p2) /\ HasAt(x6, 12, p5)
  BY <1>6, <1>7, AddKeeps
<1> HIDE DEF x6
<1>10. x7 \in Sized(24)
  BY <1>8, CatSized
<1>11. HasAt(x7, 0, p1) /\ HasAt(x7, 4, p2) /\ HasAt(x7, 12, p5) /\ HasAt(x7, 16, p6)
  BY <1>8, <1>9, AddKeeps
<1> HIDE DEF x7
<1>12. x8 \in Sized(28)
  BY <1>10, CatSized
<1>13. HasAt(x8, 0, p1) /\ HasAt(x8, 4, p2) /\ HasAt(x8, 12, p5) /\ HasAt(x8, 16, p6)
  BY <1>10, <1>11, AddKeeps
<1> HIDE DEF x8
<1>14. x9 \in Sized(44) /\ HasAt(x9, 28, p9)
  BY <1>12, CatSized
<1>15. HasAt(x9, 0, p1) /\ HasAt(x9, 4, p2) /\ HasAt(x9, 12, p5) /\ HasAt(x9, 16, p6)
  BY <1>12, <1>13, AddKeeps
<1> HIDE DEF x9
<1>16. x10 \in Sized(108)
  BY <1>14, CatSized
<1>17. HasAt(x10, 0, p1) /\ HasAt(x10, 4, p2) /\ HasAt(x10, 12, p5) /\ HasAt(x10, 16, p6)
       /\ HasAt(x10, 28, p9)
  BY <1>14, <1>15, AddKeeps
<1> HIDE DEF x10
<1>18. x11 \in Sized(236)
  BY <1>16, CatSized
<1>19. HasAt(x11, 0, p1) /\ HasAt(x11, 4, p2) /\ HasAt(x11, 12, p5) /\ HasAt(x11, 16, p6)
       /\ HasAt(x11, 28, p9)
  BY <1>16, <1>17, AddKeeps
<1> HIDE DEF x11
<1>20. x12 \in Sized(240)
  BY <1>18, CatSized
<1>21. HasAt(x12, 0, p1) /\ HasAt(x12, 4, p2) /\ HasAt(x12, 12, p5) /\ HasAt(x12, 16, p6)
       /\ HasAt(x12, 28, p9)
  BY <1>18, <1>19, AddKeeps
<1> HIDE DEF x12
<1>22. x13 \in Sized(240 + n) /\ HasAt(x13, 240, p13)
  BY <1>20, CatSized
<1>23. HasAt(x13, 0, p1) /\ HasAt(x13, 4, p2) /\ HasAt(x13, 12, p5) /\ HasAt(x13, 16, p6)
       /\ HasAt(x13, 28, p9)
  BY <1>20, <1>21, AddKeeps
<1> HIDE DEF x13
<1> QED BY <1>22, <1>23 DEF MessageBytes, x2, x3, x4, x5, x6, x7, x8, x9, x10, x11, x12, x13

\* A message, and what is read of its header.
Header4(op, xid, flags, ci, yi, mac, opts) ==
    [Op |-> op, Htype |-> 1, Hops |-> 0, Xid |-> xid, Secs |-> 0, Flags |-> flags,
     ClientIP |-> ci, YourIP |-> yi, NextIP |-> nil, RelayIP |-> nil,
     ClientMAC |-> mac, Cookie |-> DHCPCookie, Options |-> opts]

\* What is read of the header of s, and the options behind it.
Assembled(s, n, op, xid, ci, yi, mac, opts) ==
    /\ s \in Sized(240 + n) /\ HasAt(s, 240, OptionsBytes(opts))
    /\ At(s, 0) = op /\ Uint32(s, 4) = xid
    /\ Slice(s, 12, 16) = To4(ci) /\ Slice(s, 16, 20) = To4(yi)
    /\ Padded(Slice(s, 28, Len(s)), At(s, 2)) = mac

\* What Assemble writes is what Message reads.
LEMMA AssembleIs ==
    ASSUME NEW op \in Byte, NEW xid \in Long, NEW flags \in Word, NEW ci, NEW yi,
           ci = nil \/ ci \in Sized(4), yi = nil \/ yi \in Sized(4), NEW mac \in Sized(6),
           NEW opts, NEW n \in Nat, OptionsBytes(opts) \in Sized(n)
    PROVE  Assembled(Assemble(Header4(op, xid, flags, ci, yi, mac, opts)), n, op, xid, ci, yi,
                     mac, opts)
<1> DEFINE msg == Header4(op, xid, flags, ci, yi, mac, opts)
           p1 == <<op, 1, 6, 0>>
           p2 == PutUint32(xid)
           p3 == PutUint16(0)
           p4 == PutUint16(flags)
           p5 == To4(ci)
           p6 == To4(yi)
           p7 == To4(nil)
           p9 == Padded(mac, 16)
           p10 == Padded(<<>>, 64)
           p11 == Padded(<<>>, 128)
           p12 == PutUint32(DHCPCookie)
           p13 == OptionsBytes(opts)
           s == MessageBytes(p1, p2, p3, p4, p5, p6, p7, p7, p9, p10, p11, p12, p13)
<1>1. mac \in Bytes /\ Len(mac) % 256 = 6
  <2>1. PICK k \in Nat : k <= 6 /\ 6 <= k
    OBVIOUS
  <2>2. Len(mac) = k /\ mac \in Bytes
    BY <2>1, SizedIs
  <2> QED BY <2>1, <2>2
<1>2. Assemble(msg) = s
  <2>1. msg.Op = op /\ msg.Htype = 1 /\ msg.Hops = 0 /\ msg.Xid = xid /\ msg.Secs = 0
        /\ msg.Flags = flags /\ msg.ClientIP = ci /\ msg.YourIP = yi /\ msg.NextIP = nil
        /\ msg.RelayIP = nil /\ msg.ClientMAC = mac /\ msg.Cookie = DHCPCookie
        /\ msg.Options = opts
    BY DEF Header4
  <2> HIDE DEF msg
  <2>2. Assemble(msg) =
            MessageBytes(
                <<msg.Op, msg.Htype, Len(msg.ClientMAC) % 256, msg.Hops>>, PutUint32(msg.Xid),
                PutUint16(msg.Secs), PutUint16(msg.Flags),
                To4(msg.ClientIP), To4(msg.YourIP), To4(msg.NextIP), To4(msg.RelayIP),
                Padded(msg.ClientMAC, 16), Padded(<<>>, 64), Padded(<<>>, 128),
                PutUint32(msg.Cookie), OptionsBytes(msg.Options))
    BY Zenon DEF Assemble, MessageBytes
  <2>3. <<msg.Op, msg.Htype, Len(msg.ClientMAC) % 256, msg.Hops>> = p1
    BY <1>1, <2>1
  <2>4. /\ PutUint32(msg.Xid) = p2 /\ PutUint16(msg.Secs) = p3 /\ PutUint16(msg.Flags) = p4
        /\ To4(msg.ClientIP) = p5 /\ To4(msg.YourIP) = p6 /\ To4(msg.NextIP) = p7
        /\ To4(msg.RelayIP) = p7 /\ Padded(msg.ClientMAC, 16) = p9
        /\ PutUint32(msg.Cookie) = p12 /\ OptionsBytes(msg.Options) = p13
    BY <2>1
  <2> HIDE DEF p1, p2, p3, p4, p5, p6, p7, p9, p12, p13
  <2> QED BY <2>2, <2>3, <2>4, ZenonT(40)
<1>3. p1 \in Sized(4) /\ p1[1] = op /\ p1[3] = 6
  <2>1. 1 \in Byte /\ 6 \in Byte /\ 0 \in Byte
    BY ByteIs
  <2> QED BY <2>1, FourSized
<1>4. p2 \in Sized(4) /\ p12 \in Sized(4)
  <2>1. DHCPCookie \in Long
    BY DEF Long, DHCPCookie
  <2> QED BY <2>1, PutLong
<1>5. p3 \in Sized(2) /\ p4 \in Sized(2)
  <2>1. 0 \in Word
    BY DEF Word
  <2> QED BY <2>1, PutWord
<1>6. p5 \in Sized(4) /\ p6 \in Sized(4) /\ p7 \in Sized(4)
  BY To4Is
<1>7. p9 \in Sized(16) /\ p10 \in Sized(64) /\ p11 \in Sized(128)
  BY <1>1, NoBytes, PaddedSized
<1>8. \A k \in 1 .. 6 : p9[k] = mac[k]
  <2>1. PICK m \in Nat, k \in Nat : m <= 16 /\ 16 <= m /\ k <= 6 /\ 6 <= k
    OBVIOUS
  <2>2. Len(mac) = k
    BY <2>1, SizedIs
  <2>3. \A e \in 1 .. m : Padded(mac, m)[e] = IF e <= Len(mac) THEN mac[e] ELSE 0
    BY <1>1, PaddedIs
  <2>4. \A e \in 1 .. k : Padded(mac, m)[e] = mac[e]
    BY <2>1, <2>2, <2>3
  <2>5. m = 16 /\ k = 6
    BY <2>1
  <2> QED BY <2>4, <2>5
<1> HIDE DEF p1, p2, p3, p4, p5, p6, p7, p9, p10, p11, p12, p13
<1>9. /\ s \in Sized(240 + n) /\ HasAt(s, 0, p1) /\ HasAt(s, 4, p2) /\ HasAt(s, 12, p5)
      /\ HasAt(s, 16, p6) /\ HasAt(s, 28, p9) /\ HasAt(s, 240, p13)
  <2>1. p13 \in Sized(n)
    BY DEF p13
  <2> QED BY <1>3, <1>4, <1>5, <1>6, <1>7, <2>1, MessageParts
<1> HIDE DEF s
<1>10. PICK l \in Nat : l <= 240 + n /\ 240 + n <= l /\ s \in Sized(l) /\ s \in Bytes /\ Len(s) = l
  <2>1. 240 + n \in Nat
    OBVIOUS
  <2>2. PICK l \in Nat : l <= 240 + n /\ 240 + n <= l
    BY <2>1
  <2>3. s \in Sized(l)
    BY <1>9, <2>2
  <2>4. s \in Bytes /\ Len(s) = l
    BY <2>3, SizedIs
  <2> QED BY <2>2, <2>3, <2>4
<1>11. At(s, 0) = op /\ At(s, 2) = 6
  <2>1. s[0 + 1] = p1[1] /\ s[0 + 3] = p1[3]
    BY <1>3, <1>9, <1>10, HasSized
  <2> QED BY <1>3, <2>1 DEF At
<1>12. Uint32(s, 4) = xid
  BY <1>9, <1>10, PutLong DEF p2
<1>13. Slice(s, 12, 12 + 4) = p5 /\ Slice(s, 16, 16 + 4) = p6
  BY <1>6, <1>9, <1>10, HasSized
<1>14. Padded(Slice(s, 28, l), 6) = mac
  <2> DEFINE t == Slice(s, 28, l)
  <2>1. t \in Sized(l - 28) /\ l - 28 \in Nat
    BY <1>10, SliceSized
  <2>2. ASSUME NEW k \in Nat, 1 <= k, k <= 6 PROVE t[k] = mac[k]
    <3>0. 28 \in Nat /\ 28 <= l /\ l <= l /\ k <= l - 28 /\ s \in Sized(l)
      BY <1>10, <2>2
    <3>1. t[k] = s[28 + k]
      BY <2>2, <3>0, SliceByte
    <3>2. s[28 + k] = p9[k]
      BY <1>7, <1>9, <1>10, <2>2, HasSized
    <3> QED BY <1>8, <2>2, <3>1, <3>2
  <2> HIDE DEF t
  <2>3. PICK m \in Nat : m <= 6 /\ 6 <= m
    OBVIOUS
  <2>4. t \in Bytes /\ Len(t) = l - 28
    BY <2>1, SizedIs
  <2>5. /\ Padded(t, m) \in Bytes /\ Len(Padded(t, m)) = m
        /\ \A k \in 1 .. m : Padded(t, m)[k] = IF k <= Len(t) THEN t[k] ELSE 0
    BY <2>4, PaddedIs, Zenon
  <2>6. mac \in Bytes /\ Len(mac) = m
    BY <2>3, SizedIs
  <2>7. \A k \in 1 .. m : Padded(t, m)[k] = mac[k]
    BY <1>10, <2>2, <2>3, <2>4, <2>5
  <2>8. Padded(t, m) = mac
    BY <2>5, <2>6, <2>7, BytesEqual
  <2>9. m = 6
    BY <2>3
  <2> QED BY <2>8, <2>9 DEF t
<1>15. HasAt(s, 240, OptionsBytes(opts))
  BY <1>9 DEF p13
<1>16. Assembled(s, n, op, xid, ci, yi, mac, opts)
  BY <1>9, <1>10, <1>11, <1>12, <1>13, <1>14, <1>15 DEF p5, p6, Assembled
<1> HIDE DEF msg
<1> QED BY <1>2, <1>16, Zenon DEF msg
-----------------------------------------------------------------------------
(***************************************************************************)
(* The options of a request.                                               *)
(***************************************************************************)

\* An option that is announced only if there is a value.
LEMMA OptionIfList ==
    ASSUME NEW value, NEW none, NEW o, value # none => o \in OptionSet
    PROVE  /\ OptionIf(value, none, o) \in Lists(1)
           /\ \A code : Data(OptionIf(value, none, o), code) =
                           IF value # none THEN Coded(o, code) ELSE nil
<1>1. CASE value # none
  <2>1. OptionIf(value, none, o) = <<o>>
    BY <1>1 DEF OptionIf
  <2> QED BY <1>1, <2>1, OneList
<1>2. CASE value = none
  <2>1. OptionIf(value, none, o) = <<>>
    BY <1>2 DEF OptionIf
  <2>2. \A code : Data(<<>>, code) = nil
    BY DataNothing
  <2>3. <<>> \in Lists(1)
    BY DataNothing DEF Lists
  <2> QED BY <1>2, <2>1, <2>2, <2>3
<1> QED BY <1>1, <1>2

\* The options of a request.
LEMMA RequestOptionsAre ==
    ASSUME NEW r \in Request
    PROVE  LET opts == requestOptions(r)
           IN  /\ opts \in Lists(6) /\ Len(opts) > 0
               /\ toUint8(Data(opts, 53)) = r.type
               /\ toV4(Data(opts, 50)) = r.reqIP /\ toV4(Data(opts, 54)) = r.sid
               /\ Len(Data(opts, 61)) = 15 /\ Uint32(Data(opts, 61), 1) = r.crc32
<1> DEFINE o1 == OptionType(r.type)
           o2 == OptionClientIdentifier(r.mac, r.crc32)
           o3 == OptionMaxMessageSize(1500)
           o4 == OptionParametersList(
                   <<Code.SubnetMask, Code.Router, Code.IPAddressLeaseDuration,
                     Code.ServerIdentifier, Code.DNS, Code.DomainName, Code.InterfaceMTU,
                     Code.RenewalDuration, Code.RebindDuration>>)
           o5 == OptionIP(Code.RequestedIP, <<r.reqIP>>)
           o6 == OptionIP(Code.ServerIdentifier, <<r.sid>>)
           x4 == <<o1, o2, o3, o4>>
           y5 == OptionIf(r.reqIP, nil, o5)
           y6 == OptionIf(r.sid, nil, o6)
           x5 == Cat(x4, y5)
           x6 == Cat(x5, y6)
<1>1. requestOptions(r) = x6
  BY Zenon DEF requestOptions, Cat
<1>2. /\ r.type \in Byte /\ r.mac \in Sized(6) /\ r.crc32 \in Long
      /\ r.reqIP # nil => r.reqIP \in Sized(4)
      /\ r.sid # nil => r.sid \in Sized(4)
  BY RequestAssumption
<1>3. o1 \in OptionSet /\ o1.Option = 53 /\ toUint8(o1.Data) = r.type
  BY <1>2, TypeOption
<1>4. o2 \in OptionSet /\ o2.Option = 61 /\ Len(o2.Data) = 15 /\ Uint32(o2.Data, 1) = r.crc32
  BY <1>2, IdentifierOption
<1>5. o3 \in OptionSet /\ o3.Option = 57
  BY SizeOption
<1>6. o4 \in OptionSet /\ o4.Option = 55
  BY ParametersOption
<1>7. 50 \in Byte /\ 54 \in Byte /\ Code.RequestedIP = 50 /\ Code.ServerIdentifier = 54
  BY ByteIs DEF Code
<1>8. r.reqIP # nil => o5 \in OptionSet /\ o5.Option = 50 /\ toV4(o5.Data) = r.reqIP
  BY <1>2, <1>7, AddressOption
<1>9. r.sid # nil => o6 \in OptionSet /\ o6.Option = 54 /\ toV4(o6.Data) = r.sid
  BY <1>2, <1>7, AddressOption
<1> HIDE DEF o1, o2, o3, o4, o5, o6
<1>10. x4 \in Lists(4) /\ Len(x4) > 0
  BY <1>3, <1>4, <1>5, <1>6, FourList
<1>11. \A code : Data(x4, code) = Later(Later(Coded(o1, code), Coded(o2, code)),
                                       Later(Coded(o3, code), Coded(o4, code)))
  BY <1>3, <1>4, <1>5, <1>6, FourList
<1>12. y5 \in Lists(1) /\ \A code : Data(y5, code) = IF r.reqIP # nil THEN Coded(o5, code) ELSE nil
  BY <1>8, OptionIfList
<1>13. y6 \in Lists(1) /\ \A code : Data(y6, code) = IF r.sid # nil THEN Coded(o6, code) ELSE nil
  BY <1>9, OptionIfList
<1> HIDE DEF x4, y5, y6
<1>14. /\ x5 \in Lists(5) /\ Len(x5) >= Len(x4)
       /\ \A code : Data(x5, code) = Later(Data(x4, code), Data(y5, code))
  BY <1>10, <1>12, CatList DEF Cat
<1> HIDE DEF x5
<1>15. /\ x6 \in Lists(6) /\ Len(x6) >= Len(x5)
       /\ \A code : Data(x6, code) = Later(Data(x5, code), Data(y6, code))
  BY <1>13, <1>14, CatList DEF Cat
<1> HIDE DEF x6
<1>16. Len(x6) > 0
  <2>1. Len(x4) \in Nat /\ Len(x5) \in Nat /\ Len(x6) \in Nat
    BY <1>10, <1>14, <1>15, ListOf
  <2> QED BY <1>10, <1>14, <1>15, <2>1
<1>17. \A code : Data(x6, code) =
          Later(Later(Later(Later(Coded(o1, code), Coded(o2, code)),
                            Later(Coded(o3, code), Coded(o4, code))),
                      IF r.reqIP # nil THEN Coded(o5, code) ELSE nil),
                IF r.sid # nil THEN Coded(o6, code) ELSE nil)
  BY <1>11, <1>12, <1>13, <1>14, <1>15
<1>18. Data(x6, 53) = o1.Data
  BY <1>3, <1>4, <1>5, <1>6, <1>8, <1>9, <1>17 DEF Later, Coded
<1>19. Data(x6, 61) = o2.Data
  <2>1. o2.Data # nil
    BY <1>4, OptionIs, NilAssumption
  <2> QED BY <1>3, <1>4, <1>5, <1>6, <1>8, <1>9, <1>17, <2>1 DEF Later, Coded
<1>20. toV4(Data(x6, 50)) = r.reqIP
  <2>1. r.reqIP # nil => o5.Data # nil
    BY <1>8, OptionIs, NilAssumption
  <2>2. Data(x6, 50) = IF r.reqIP # nil THEN o5.Data ELSE nil
    BY <1>3, <1>4, <1>5, <1>6, <1>8, <1>9, <1>17, <2>1 DEF Later, Coded
  <2> QED BY <1>8, <2>2, NoOption
<1>21. toV4(Data(x6, 54)) = r.sid
  <2>1. r.sid # nil => o6.Data # nil
    BY <1>9, OptionIs, NilAssumption
  <2>2. Data(x6, 54) = IF r.sid # nil THEN o6.Data ELSE nil
    BY <1>3, <1>4, <1>5, <1>6, <1>8, <1>9, <1>17, <2>1 DEF Later, Coded
  <2> QED BY <1>9, <2>2, NoOption
<1> QED BY <1>1, <1>3, <1>4, <1>15, <1>16, <1>18, <1>19, <1>20, <1>21
-----------------------------------------------------------------------------
(***************************************************************************)
(* What is sent is read.                                                   *)
(***************************************************************************)

\* f is read as a datagram with these addresses, this port and this payload.
IsRead(f, src, dst, dport, payload) ==
    LET ip  == DecodeIPv4(f)
        udp == DecodeUDP(ip.Data)
    IN  /\ ip # nil /\ ip.Source = src /\ ip.Destination = dst
        /\ udp # nil /\ udp.DstPort = dport /\ udp.Data = payload

\* What is read of a datagram, without the parts nobody looks at.
LEMMA DatagramRead ==
    ASSUME NEW id \in Word, NEW src \in Sized(4), NEW dst \in Sized(4),
           NEW sport \in Word, NEW dport \in Word, NEW n \in Nat, n \in PayloadSize,
           NEW payload \in Sized(n), NEW f, f = Datagram(id, src, dst, sport, dport, payload)
    PROVE  f \in Bytes /\ Summed(f, Slice(f, 20, Len(f))) /\ IsRead(f, src, dst, dport, payload)
<1>1. src # nil /\ dst # nil /\ src \in Bytes /\ dst \in Bytes /\ payload \in Bytes
  BY SizedIs, NilAssumption
<1> DEFINE udp == Slice(f, 20, Len(f))
           ip == [Protocol |-> 17, Source |-> src, Destination |-> dst, Data |-> udp]
           u == [SrcPort |-> sport, DstPort |-> dport, Data |-> payload]
<1>2. f \in Sized(28 + n) /\ Summed(f, udp) /\ DecodeIPv4(f) = ip /\ DecodeUDP(udp) = u
  <2>1. DatagramHas(f, n, src, dst, sport, dport, payload)
    BY <1>1, DatagramIs, Zenon
  <2> QED BY <2>1 DEF DatagramHas
<1>4. udp \in Bytes /\ f \in Bytes
  <2>1. PICK l \in Nat : l = 28 + n /\ 20 <= l
    OBVIOUS
  <2>2. f \in Sized(l)
    BY <1>2, <2>1
  <2>3. f \in Bytes /\ Len(f) = l
    BY <2>1, <2>2, SizedIs
  <2>4. Slice(f, 20, Len(f)) \in Bytes
    <3>1. 20 \in Nat /\ Len(f) \in Nat /\ 20 <= Len(f) /\ Len(f) <= Len(f)
      BY <2>1, <2>3
    <3> QED BY <2>3, <3>1, SliceIs
  <2> QED BY <2>3, <2>4
<1> HIDE DEF udp
<1>5. ip # nil /\ ip.Source = src /\ ip.Destination = dst /\ ip.Data = udp
  <2>1. ip \in [Protocol : Nat, Source : Bytes, Destination : Bytes, Data : Bytes]
    BY <1>1, <1>4
  <2> QED BY <2>1, NilAssumption
<1>6. u # nil /\ u.DstPort = dport /\ u.Data = payload
  <2>1. sport \in Nat /\ dport \in Nat
    BY DEF Word
  <2>2. u \in [SrcPort : Nat, DstPort : Nat, Data : Bytes]
    BY <1>1, <2>1
  <2> QED BY <2>2, NilAssumption
<1> HIDE DEF ip, u
<1>7. IsRead(f, src, dst, dport, payload)
  BY <1>2, <1>5, <1>6 DEF IsRead
<1> QED BY <1>2, <1>4, <1>7 DEF udp

\* A message is the payload s of f, with the options opts.
MessageIs(s, op, xid, yi, mac, opts) ==
    /\ Carries(s, opts)
    /\ At(s, 0) = op /\ Uint32(s, 4) = xid /\ Slice(s, 16, 20) = To4(yi)
    /\ Padded(Slice(s, 28, Len(s)), At(s, 2)) = mac

\* What a sender may put into a message.
Sendable(id, src, dst, sport, dport, op, xid, flags, ci, yi, mac, opts) ==
    /\ id \in Word /\ src \in Sized(4) /\ dst \in Sized(4) /\ sport \in Word /\ dport \in Word
    /\ op \in Byte /\ xid \in Long /\ flags \in Word
    /\ ci = nil \/ ci \in Sized(4)
    /\ yi = nil \/ yi \in Sized(4)
    /\ mac \in Sized(6)
    /\ opts \in Lists(19) /\ Len(opts) > 0

\* f is read as a datagram with the message s.
SentAs(f, src, dst, dport, op, xid, yi, mac, opts, s) ==
    /\ f \in Bytes /\ Summed(f, Slice(f, 20, Len(f))) /\ IsRead(f, src, dst, dport, s)
    /\ MessageIs(s, op, xid, yi, mac, opts)

\* Whatever can be sent is read as it was meant.
LEMMA SentIs ==
    ASSUME NEW id, NEW src, NEW dst, NEW sport, NEW dport, NEW op, NEW xid, NEW flags, NEW ci,
           NEW yi, NEW mac, NEW opts,
           Sendable(id, src, dst, sport, dport, op, xid, flags, ci, yi, mac, opts)
    PROVE  LET s == Assemble(Header4(op, xid, flags, ci, yi, mac, opts))
           IN  SentAs(Datagram(id, src, dst, sport, dport, s), src, dst, dport, op, xid, yi, mac,
                      opts, s)
<1> DEFINE s == Assemble(Header4(op, xid, flags, ci, yi, mac, opts))
           f == Datagram(id, src, dst, sport, dport, s)
<1> USE DEF Sendable
<1> DEFINE n == 19
<1> DEFINE l == Start(opts, Len(opts))
           k == Len(opts)
<1>1. opts \in Seq(OptionSet) /\ k \in Nat /\ k <= n
  BY ListOf
<1>2. l \in Nat /\ l <= 257 * k
  BY <1>1, StartBound
<1>3. OptionsBytes(opts) \in Sized(l + 1)
  BY <1>1, OptionsHas
<1> HIDE DEF k, l
<1> DEFINE m == l + 1
<1>4. m \in Nat /\ 240 + m \in Nat /\ 240 + m + 28 < 65536 /\ 240 + m = 241 + l
  BY <1>1, <1>2
<1>5. /\ s \in Sized(240 + m) /\ HasAt(s, 240, OptionsBytes(opts))
      /\ At(s, 0) = op /\ Uint32(s, 4) = xid
      /\ Slice(s, 16, 20) = To4(yi)
      /\ Padded(Slice(s, 28, Len(s)), At(s, 2)) = mac
  <2> HIDE DEF m
  <2>1. OptionsBytes(opts) \in Sized(m)
    BY <1>3 DEF m
  <2>2. m \in Nat
    BY <1>4
  <2>3. Assembled(s, m, op, xid, ci, yi, mac, opts)
    BY <2>1, <2>2, AssembleIs, Zenon
  <2> QED BY <2>3 DEF Assembled
<1>6. MessageIs(s, op, xid, yi, mac, opts)
  <2>1. s \in Sized(241 + l)
    BY <1>4, <1>5
  <2> QED BY <1>5, <2>1 DEF MessageIs, Carries, l
<1>7. f \in Bytes /\ Summed(f, Slice(f, 20, Len(f))) /\ IsRead(f, src, dst, dport, s)
  <2>1. 240 + m \in PayloadSize
    BY <1>4 DEF PayloadSize
  <2> DEFINE size == 240 + m
  <2>2. size \in Nat /\ size \in PayloadSize /\ s \in Sized(size)
    BY <1>4, <1>5, <2>1
  <2> HIDE DEF size
  <2> QED BY <2>2, DatagramRead, Zenon
<1> QED BY <1>6, <1>7 DEF SentAs
-----------------------------------------------------------------------------
(***************************************************************************)
(* The receiver of a message.                                              *)
(***************************************************************************)
MessageRead(src, dst, dport, s, opts) ==
    /\ IsRead(frame, src, dst, dport, s)
    /\ Carries(s, opts)
    /\ Reads(opts)
    /\ pc # "frame" => b = s

\* The receiver takes the message from its frame.
LEMMA ReadFrameReads ==
    ASSUME NEW src, NEW dst, NEW dport, NEW s, NEW opts \in Seq(OptionSet), Len(opts) > 0,
           MessageRead(src, dst, dport, s, opts), ReadFrame
    PROVE  MessageRead(src, dst, dport, s, opts)'
<1>1. pc = "frame" /\ DecodeStart /\ Carries(s, opts) /\ IsRead(frame, src, dst, dport, s)
  BY DEF MessageRead, Reads, ReadFrame
<1>2. Len(s) >= dhcpMinLen
  <2>1. Len(s) = 241 + Start(opts, Len(opts)) /\ Start(opts, Len(opts)) \in Nat
    BY <1>1, CarriesLen
  <2> QED BY <2>1 DEF dhcpMinLen
<1>3. /\ b' = s /\ pc' = "options"
      /\ frame' = frame /\ c' = c /\ opt' = opt /\ options' = options
  BY <1>1, <1>2 DEF ReadFrame, IsRead
<1>4. options = <<>> /\ Len(options) = 0 /\ c = 240 /\ opt # OptEnd
  BY <1>1 DEF DecodeStart, dhcpMinLen, OptEnd
<1>5. Reads(opts)'
  <2>1. Start(opts, Len(options')) = 0
    BY <1>3, <1>4, StartZero
  <2>2. options' = [k \in 1 .. Len(options') |-> FoundIn(opts, k)]
    BY <1>3, <1>4
  <2>3. Carries(b', opts)
    BY <1>1, <1>3
  <2>4. c' = 240 + Start(opts, Len(options'))
    BY <1>3, <1>4, <2>1
  <2>5. Len(options') \in Nat /\ Len(options') <= Len(opts)
    BY <1>3, <1>4
  <2> QED BY <1>3, <1>4, <2>2, <2>3, <2>4, <2>5 DEF Reads
<1> QED BY <1>1, <1>3, <1>5 DEF MessageRead

\* No step of the receiver drops the message or loses a part of it.
LEMMA MessageReadKeeps ==
    ASSUME NEW src, NEW dst, NEW dport, NEW s, NEW opts \in Seq(OptionSet), Len(opts) > 0,
           MessageRead(src, dst, dport, s, opts), [WireNext]_wireVars
    PROVE  MessageRead(src, dst, dport, s, opts)'
<1>1. CASE ReadFrame
  BY <1>1, ReadFrameReads
<1>2. CASE DecodeOption
  <2>1. Reads(opts)'
    BY <1>2, MarkReads, OptionReads DEF MessageRead
  <2>2. pc # "frame" /\ frame' = frame /\ b' = b
    BY <1>2 DEF DecodeOption
  <2> QED BY <2>1, <2>2 DEF MessageRead
<1>3. CASE DecodeEnd
  <2>1. Reads(opts)'
    BY <1>3, DecodeEndReads DEF MessageRead
  <2>2. pc # "frame" /\ frame' = frame /\ b' = b
    BY <1>3 DEF DecodeEnd
  <2> QED BY <2>1, <2>2 DEF MessageRead
<1>4. CASE UNCHANGED wireVars
  BY <1>4 DEF wireVars, dhcpVars, MessageRead, Reads, DecodeStart
<1> QED BY <1>1, <1>2, <1>3, <1>4 DEF WireNext, DecodeNext

\* What holds at the start.
LEMMA MessageReadStart ==
    ASSUME NEW src, NEW dst, NEW dport, NEW s, NEW opts,
           DecodeStart, IsRead(frame, src, dst, dport, s), Carries(s, opts)
    PROVE  MessageRead(src, dst, dport, s, opts)
BY DEF DecodeStart, MessageRead, Reads

\* What is sent does not change.
LEMMA SentKeeps ==
    [WireNext]_wireVars => frame' = frame /\ sent' = sent
BY DEF WireNext, wireVars, dhcpVars, DecodeNext, ReadFrame, DecodeOption, DecodeEnd

\* The message of a request.
RequestMessage(r) == Assemble(Header4(1, r.xid, 0, r.src, nil, r.mac, requestOptions(r)))

\* A request is read as it was meant.
LEMMA RequestIs ==
    ASSUME NEW r \in Request
    PROVE  /\ requestOptions(r) \in Seq(OptionSet) /\ Len(requestOptions(r)) > 0
           /\ request(r) \in Bytes
           /\ Summed(request(r), Slice(request(r), 20, Len(request(r))))
           /\ IsRead(request(r), r.src, r.dst, 67, RequestMessage(r))
           /\ MessageIs(RequestMessage(r), 1, r.xid, nil, r.mac, requestOptions(r))
<1> DEFINE opts == requestOptions(r)
           s == RequestMessage(r)
           f == request(r)
<1>1. opts \in Lists(6) /\ Len(opts) > 0
  BY RequestOptionsAre
<1>2. opts \in Seq(OptionSet)
  BY <1>1, ListOf
<1> HIDE DEF opts
<1>3. f = Datagram(r.id, r.src, r.dst, 68, 67, s)
  <2>1. [Template(1, r.xid, r.mac, opts) EXCEPT !.ClientIP = r.src] =
           Header4(1, r.xid, 0, r.src, nil, r.mac, opts)
    BY DEF Template, Header4
  <2> QED BY <2>1, Zenon DEF request, RequestMessage, opts
<1>4. /\ r.id \in Word /\ r.src \in Sized(4) /\ r.dst \in Sized(4)
      /\ r.xid \in Long /\ r.mac \in Sized(6)
  BY RequestAssumption
<1>5. 68 \in Word /\ 67 \in Word /\ 0 \in Word /\ 1 \in Byte
  BY ByteIs DEF Word
<1>6. s = Assemble(Header4(1, r.xid, 0, r.src, nil, r.mac, opts))
  BY DEF RequestMessage, opts
<1> HIDE DEF s, f
<1>7. Sendable(r.id, r.src, r.dst, 68, 67, 1, r.xid, 0, r.src, nil, r.mac, opts)
  <2>1. opts \in Lists(19)
    BY <1>1 DEF Lists
  <2> QED BY <1>1, <1>4, <1>5, <2>1 DEF Sendable
<1>8. SentAs(f, r.src, r.dst, 67, 1, r.xid, nil, r.mac, opts, s)
  BY <1>3, <1>6, <1>7, SentIs, Zenon
<1> QED BY <1>1, <1>2, <1>8 DEF opts, s, f, SentAs

\* What the server has read so far of a request is what the client has sent.
RequestInv ==
    sent.by = "client" =>
        LET r == sent.of IN
            /\ r \in Request /\ frame = request(r)
            /\ MessageRead(r.src, r.dst, 67, RequestMessage(r), requestOptions(r))

LEMMA RequestInvInit == WireInit => RequestInv
<1> SUFFICES ASSUME WireInit, sent.by = "client"
             PROVE  LET r == sent.of IN
                      /\ r \in Request /\ frame = request(r)
                      /\ MessageRead(r.src, r.dst, 67, RequestMessage(r), requestOptions(r))
  BY DEF RequestInv
<1>1. PICK r \in Request : sent = [by |-> "client", of |-> r] /\ frame = request(r)
  BY DEF WireInit
<1>2. sent.of = r
  BY <1>1
<1>3. IsRead(frame, r.src, r.dst, 67, RequestMessage(r))
  BY <1>1, RequestIs
<1>4. Carries(RequestMessage(r), requestOptions(r))
  BY RequestIs DEF MessageIs
<1>5. MessageRead(r.src, r.dst, 67, RequestMessage(r), requestOptions(r))
  BY <1>3, <1>4, MessageReadStart DEF WireInit
<1> QED BY <1>1, <1>2, <1>5

LEMMA RequestInvNext == RequestInv /\ [WireNext]_wireVars => RequestInv'
<1> SUFFICES ASSUME RequestInv, [WireNext]_wireVars, sent.by = "client" PROVE RequestInv'
  BY SentKeeps DEF RequestInv
<1>1. frame' = frame /\ sent' = sent
  BY SentKeeps
<1>2. PICK r \in Request : r = sent.of /\ frame = request(r)
        /\ MessageRead(r.src, r.dst, 67, RequestMessage(r), requestOptions(r))
  BY DEF RequestInv
<1>3. MessageRead(r.src, r.dst, 67, RequestMessage(r), requestOptions(r))'
  BY <1>2, RequestIs, MessageReadKeeps
<1>4. sent'.of = r /\ frame' = request(r)
  BY <1>1, <1>2
<1> QED BY <1>3, <1>4 DEF RequestInv

LEMMA RequestInvUnderstood == RequestInv => RequestUnderstood
<1> SUFFICES ASSUME RequestInv, sent.by = "client" PROVE RequestUnderstood
  BY DEF RequestUnderstood
<1>1. PICK r \in Request : r = sent.of /\ frame = request(r)
        /\ MessageRead(r.src, r.dst, 67, RequestMessage(r), requestOptions(r))
  BY DEF RequestInv
<1>2. pc # "dropped"
  BY <1>1 DEF MessageRead, Reads
<1>3. ASSUME pc = "done"
      PROVE  /\ Message.Op = 1 /\ Message.Xid = r.xid /\ Message.ClientMAC = r.mac
             /\ v4.Source = r.src /\ v4.Destination = r.dst
             /\ DecodeUDP(v4.Data).DstPort = 67
             /\ Decoded.MessageType = r.type
             /\ Decoded.RequestedIP = r.reqIP /\ Decoded.ServerIdentifier = r.sid
             /\ Len(Decoded.ClientIdentifier) = 15
             /\ Uint32(Decoded.ClientIdentifier, 1) = r.crc32
  <2> DEFINE s == RequestMessage(r)
             opts == requestOptions(r)
  <2>1. opts \in Seq(OptionSet) /\ Len(opts) > 0 /\ MessageIs(s, 1, r.xid, nil, r.mac, opts)
    BY RequestIs
  <2>2. b = s /\ Reads(opts) /\ IsRead(frame, r.src, r.dst, 67, s)
    BY <1>1, <1>3 DEF MessageRead
  <2>3. Message.Options = opts
    BY <1>3, <2>1, <2>2, ReadsAll
  <2>4. /\ toUint8(Data(opts, 53)) = r.type
        /\ toV4(Data(opts, 50)) = r.reqIP /\ toV4(Data(opts, 54)) = r.sid
        /\ Len(Data(opts, 61)) = 15 /\ Uint32(Data(opts, 61), 1) = r.crc32
    BY RequestOptionsAre
  <2> HIDE DEF s, opts
  <2>5. Message.Op = 1 /\ Message.Xid = r.xid /\ Message.ClientMAC = r.mac
    BY <2>1, <2>2 DEF Message, MessageIs
  <2>6. v4.Source = r.src /\ v4.Destination = r.dst /\ DecodeUDP(v4.Data).DstPort = 67
    BY <2>2 DEF v4, IsRead
  <2>7. Decoded = DecodeOptions(opts)
    BY <2>3 DEF Decoded
  <2>8. /\ Decoded.MessageType = toUint8(Data(opts, 53))
        /\ Decoded.RequestedIP = toV4(Data(opts, 50))
        /\ Decoded.ServerIdentifier = toV4(Data(opts, 54))
        /\ Decoded.ClientIdentifier = Data(opts, 61)
    BY <2>7 DEF DecodeOptions, Code
  <2> QED BY <2>4, <2>5, <2>6, <2>8
<1> QED BY <1>1, <1>2, <1>3 DEF RequestUnderstood

\* The server reads what the client means, in every state of the client
\* (msgtmpl/tmpl.go, and the decoders of layer and dhcpmsg).
THEOREM RequestsUnderstood == WireSpec => []RequestUnderstood
BY RequestInvInit, RequestInvNext, RequestInvUnderstood, PTL DEF WireSpec
-----------------------------------------------------------------------------
(***************************************************************************)
(* Probes.                                                                 *)
(***************************************************************************)
\* The packet is the one that was sent.
ProbeInv == sent.by = "arp" => sent.of \in Probe /\ frame = AssembleARP(sent.of)

LEMMA ProbeInvInit == WireInit => ProbeInv
<1> SUFFICES ASSUME WireInit, sent.by = "arp"
             PROVE sent.of \in Probe /\ frame = AssembleARP(sent.of)
  BY DEF ProbeInv
<1>1. PICK a \in Probe : sent = [by |-> "arp", of |-> a] /\ frame = AssembleARP(a)
  BY DEF WireInit
<1> QED BY <1>1

\* The sender of a packet is heard if its address is asked for.
LEMMA ProbeInvHeard == ProbeInv => ProbeHeard
<1> SUFFICES ASSUME ProbeInv, sent.by = "arp",
                    NEW t \in {sent.of.SenderIP, sent.of.TargetIP}
             PROVE  catchARPReply(frame, t) =
                       IF t = sent.of.SenderIP THEN sent.of.SenderMAC ELSE nil
  BY DEF ProbeHeard
<1>1. PICK a \in Probe : a = sent.of /\ frame = AssembleARP(a)
  BY DEF ProbeInv
<1>2. /\ a = [Opcode |-> a.Opcode, SenderMAC |-> a.SenderMAC, SenderIP |-> a.SenderIP,
              TargetMAC |-> a.TargetMAC, TargetIP |-> a.TargetIP]
      /\ a.Opcode \in Byte /\ a.SenderMAC \in Sized(6) /\ a.SenderIP \in Sized(4)
      /\ a.TargetMAC \in Sized(6) /\ a.TargetIP \in Sized(4)
  BY ProbeAssumption
<1>3. a # nil
  <2>1. a.Opcode \in Nat /\ a.SenderMAC \in Bytes /\ a.SenderIP \in Bytes
        /\ a.TargetMAC \in Bytes /\ a.TargetIP \in Bytes
    BY <1>2, ByteIs, SizedIs
  <2>2. a \in [Opcode : Nat, SenderMAC : Bytes, SenderIP : Bytes, TargetMAC : Bytes,
               TargetIP : Bytes]
    BY <1>2, <2>1
  <2> QED BY <2>2, NilAssumption
<1>4. a.SenderIP # nil /\ a.TargetIP # nil
  BY <1>2, SizedIs, NilAssumption
<1>5. DecodeARP(frame) = a
  <2> DEFINE z == [Opcode |-> a.Opcode, SenderMAC |-> a.SenderMAC, SenderIP |-> a.SenderIP,
                   TargetMAC |-> a.TargetMAC, TargetIP |-> a.TargetIP]
  <2>1. DecodeARP(AssembleARP(z)) = z
    BY <1>2, <1>4, ArpIs
  <2>2. z = a
    BY <1>2
  <2> HIDE DEF z
  <2> QED BY <1>1, <2>1, <2>2
<1> QED BY <1>1, <1>3, <1>5 DEF catchARPReply

\* A host that answers a probe is heard by who asks for its address only.
THEOREM ProbesHeard == WireSpec => []ProbeHeard
<1>1. ProbeInv /\ [WireNext]_wireVars => ProbeInv'
  BY SentKeeps DEF ProbeInv
<1> QED BY <1>1, ProbeInvInit, ProbeInvHeard, PTL DEF WireSpec
-----------------------------------------------------------------------------
(***************************************************************************)
(* The options of an offer or an acknowledgement.                          *)
(***************************************************************************)
GrantOptions(d, mask, router, dns, ntp, domain) ==
    <<OptionIPAddressLeaseDuration(d), OptionSubnetMask(mask)>>
        \o OptionIf(router, nil, OptionIP(Code.Router, <<router>>))
        \o OptionIf(dns, <<>>, OptionIP(Code.DNS, dns))
        \o OptionIf(ntp, <<>>, OptionIP(Code.NTP, ntp))
        \o OptionIf(domain, <<>>, OptionDomainName(domain))

\* Lists of addresses that fit in one option.
Addresses == {ips \in Seq(Sized(4)) : Len(ips) < 64}

\* What the options of a grant are read as.
GrantData(opts, d, mask, router, dns, domain) ==
    /\ opts \in Lists(6)
    /\ toDuration(Data(opts, 51)) = d /\ toNetmask(Data(opts, 1)) = mask
    /\ toV4A(Data(opts, 3)) = IF router # nil THEN <<router>> ELSE <<>>
    /\ toV4A(Data(opts, 6)) = dns /\ toString(Data(opts, 15)) = domain
    /\ Data(opts, 53) = nil /\ Data(opts, 54) = nil

\* toV4A reads a list of addresses.
LEMMA SomeAddresses ==
    ASSUME NEW code \in Byte, code # 0, code # 255, NEW ips \in Addresses, ips # <<>>
    PROVE  /\ OptionIP(code, ips) \in OptionSet
           /\ OptionIP(code, ips).Option = code
           /\ toV4A(OptionIP(code, ips).Data) = ips
<1>1. ips \in Seq(Sized(4)) /\ Len(ips) < 64
  BY DEF Addresses
<1>2. Len(ips) > 0
  BY <1>1
<1> QED BY <1>1, <1>2, AddressesOption

\* The options of a grant are read as they were meant.
LEMMA GrantOptionsAre ==
    ASSUME NEW d \in Long, NEW mask \in Sized(4), NEW router \in Sized(4) \cup {nil},
           NEW dns \in Addresses, NEW ntp \in Addresses,
           NEW domain \in Bytes, Len(domain) < 256
    PROVE  GrantData(GrantOptions(d, mask, router, dns, ntp, domain),
                     d, mask, router, dns, domain)
<1> DEFINE o1 == OptionIPAddressLeaseDuration(d)
           o2 == OptionSubnetMask(mask)
           o3 == OptionIP(Code.Router, <<router>>)
           o4 == OptionIP(Code.DNS, dns)
           o5 == OptionIP(Code.NTP, ntp)
           o6 == OptionDomainName(domain)
           x2 == <<o1, o2>>
           y3 == OptionIf(router, nil, o3)
           y4 == OptionIf(dns, <<>>, o4)
           y5 == OptionIf(ntp, <<>>, o5)
           y6 == OptionIf(domain, <<>>, o6)
           x3 == Cat(x2, y3)
           x4 == Cat(x3, y4)
           x5 == Cat(x4, y5)
           x6 == Cat(x5, y6)
<1>1. GrantOptions(d, mask, router, dns, ntp, domain) = x6
  BY Zenon DEF GrantOptions, Cat
<1>2. o1 \in OptionSet /\ o1.Option = 51 /\ toDuration(o1.Data) = d
  BY LeaseOption
<1>3. o2 \in OptionSet /\ o2.Option = 1 /\ toNetmask(o2.Data) = mask
  BY MaskOption
<1>4. 3 \in Byte /\ 6 \in Byte /\ 42 \in Byte
      /\ Code.Router = 3 /\ Code.DNS = 6 /\ Code.NTP = 42
  BY ByteIs DEF Code
<1>5. router # nil => o3 \in OptionSet /\ o3.Option = 3 /\ toV4A(o3.Data) = <<router>>
  <2> SUFFICES ASSUME router # nil
               PROVE  o3 \in OptionSet /\ o3.Option = 3 /\ toV4A(o3.Data) = <<router>>
    OBVIOUS
  <2>1. router \in Sized(4)
    OBVIOUS
  <2>2. 3 \in Byte /\ 3 # 0 /\ 3 # 255
    BY <1>4
  <2>3. /\ OptionIP(3, <<router>>) \in OptionSet /\ OptionIP(3, <<router>>).Option = 3
        /\ toV4A(OptionIP(3, <<router>>).Data) = <<router>>
    BY <2>1, <2>2, AddressOption, ZenonT(40)
  <2> QED BY <1>4, <2>3
<1>6. dns # <<>> => o4 \in OptionSet /\ o4.Option = 6 /\ toV4A(o4.Data) = dns
  BY <1>4, SomeAddresses
<1>7. ntp # <<>> => o5 \in OptionSet /\ o5.Option = 42
  BY <1>4, SomeAddresses
<1>8. domain # <<>> => o6 \in OptionSet /\ o6.Option = 15 /\ toString(o6.Data) = domain
  BY DomainOption
<1> HIDE DEF o1, o2, o3, o4, o5, o6
<1>9. x2 \in Lists(2) /\ \A code : Data(x2, code) = Later(Coded(o1, code), Coded(o2, code))
  BY <1>2, <1>3, TwoList
<1>10. y3 \in Lists(1) /\ \A code : Data(y3, code) = IF router # nil THEN Coded(o3, code) ELSE nil
  BY <1>5, OptionIfList
<1>11. y4 \in Lists(1) /\ \A code : Data(y4, code) = IF dns # <<>> THEN Coded(o4, code) ELSE nil
  BY <1>6, OptionIfList
<1>12. y5 \in Lists(1) /\ \A code : Data(y5, code) = IF ntp # <<>> THEN Coded(o5, code) ELSE nil
  BY <1>7, OptionIfList
<1>13. y6 \in Lists(1) /\ \A code : Data(y6, code) = IF domain # <<>> THEN Coded(o6, code) ELSE nil
  BY <1>8, OptionIfList
<1> HIDE DEF x2, y3, y4, y5, y6
<1>14. x3 \in Lists(3) /\ \A code : Data(x3, code) = Later(Data(x2, code), Data(y3, code))
  BY <1>9, <1>10, CatList DEF Cat
<1> HIDE DEF x3
<1>15. x4 \in Lists(4) /\ \A code : Data(x4, code) = Later(Data(x3, code), Data(y4, code))
  BY <1>11, <1>14, CatList DEF Cat
<1> HIDE DEF x4
<1>16. x5 \in Lists(5) /\ \A code : Data(x5, code) = Later(Data(x4, code), Data(y5, code))
  BY <1>12, <1>15, CatList DEF Cat
<1> HIDE DEF x5
<1>17. x6 \in Lists(6) /\ \A code : Data(x6, code) = Later(Data(x5, code), Data(y6, code))
  BY <1>13, <1>16, CatList DEF Cat
<1> HIDE DEF x6
<1>18. o1.Data # nil /\ o2.Data # nil
  BY <1>2, <1>3, OptionIs, NilAssumption
<1>19. router # nil => o3.Data # nil
  BY <1>5, OptionIs, NilAssumption
<1>20. dns # <<>> => o4.Data # nil
  BY <1>6, OptionIs, NilAssumption
<1>21. domain # <<>> => o6.Data # nil
  BY <1>8, OptionIs, NilAssumption
<1> DEFINE given(code) ==
             Later(Later(Later(Later(Later(Coded(o1, code), Coded(o2, code)),
                                     IF router # nil THEN Coded(o3, code) ELSE nil),
                               IF dns # <<>> THEN Coded(o4, code) ELSE nil),
                         IF ntp # <<>> THEN Coded(o5, code) ELSE nil),
                   IF domain # <<>> THEN Coded(o6, code) ELSE nil)
<1>22. \A code : Data(x6, code) = given(code)
  BY <1>9, <1>10, <1>11, <1>12, <1>13, <1>14, <1>15, <1>16, <1>17
<1>23. given(51) = o1.Data /\ given(1) = o2.Data
  BY <1>2, <1>3, <1>5, <1>6, <1>7, <1>8, <1>18 DEF Later, Coded
<1>24. given(3) = IF router # nil THEN o3.Data ELSE nil
  BY <1>2, <1>3, <1>5, <1>6, <1>7, <1>8, <1>19 DEF Later, Coded
<1>25. given(6) = IF dns # <<>> THEN o4.Data ELSE nil
  BY <1>2, <1>3, <1>5, <1>6, <1>7, <1>8, <1>20 DEF Later, Coded
<1>26. given(15) = IF domain # <<>> THEN o6.Data ELSE nil
  BY <1>2, <1>3, <1>5, <1>6, <1>7, <1>8, <1>21 DEF Later, Coded
<1>27. given(53) = nil /\ given(54) = nil
  BY <1>2, <1>3, <1>5, <1>6, <1>7, <1>8 DEF Later, Coded
<1> HIDE DEF given
<1>28. toDuration(Data(x6, 51)) = d /\ toNetmask(Data(x6, 1)) = mask
  BY <1>2, <1>3, <1>22, <1>23
<1>29. toV4A(Data(x6, 3)) = IF router # nil THEN <<router>> ELSE <<>>
  BY <1>5, <1>22, <1>24, NoOption
<1>30. toV4A(Data(x6, 6)) = dns
  BY <1>6, <1>22, <1>25, NoOption
<1>31. toString(Data(x6, 15)) = domain
  BY <1>8, <1>22, <1>26, NoOption
<1>32. Data(x6, 53) = nil /\ Data(x6, 54) = nil
  BY <1>22, <1>27
<1> QED BY <1>1, <1>17, <1>28, <1>29, <1>30, <1>31, <1>32 DEF GrantData

\* The options every reply has.
LEMMA IdentityIs ==
    ASSUME NEW t \in Byte, NEW self \in Sized(4)
    PROVE  LET opts == Identity(t, self)
           IN  /\ opts \in Lists(2) /\ Len(opts) > 0
               /\ toUint8(Data(opts, 53)) = t /\ toV4(Data(opts, 54)) = self
               /\ Data(opts, 53) # nil /\ Data(opts, 54) # nil
               /\ \A code : code \notin {53, 54} => Data(opts, code) = nil
<1> DEFINE o1 == OptionType(t)
           o2 == OptionIP(Code.ServerIdentifier, <<self>>)
           x == <<o1, o2>>
<1>1. o1 \in OptionSet /\ o1.Option = 53 /\ toUint8(o1.Data) = t
  BY TypeOption
<1>2. 54 \in Byte /\ Code.ServerIdentifier = 54
  BY ByteIs DEF Code
<1>3. o2 \in OptionSet /\ o2.Option = 54 /\ toV4(o2.Data) = self
  BY <1>2, AddressOption
<1> HIDE DEF o1, o2
<1>4. /\ x \in Lists(2) /\ Len(x) > 0
      /\ \A code : Data(x, code) = Later(Coded(o1, code), Coded(o2, code))
  BY <1>1, <1>3, TwoList
<1>5. Identity(t, self) = x
  BY Zenon DEF Identity, o1, o2
<1> HIDE DEF x
<1>6. o1.Data # nil /\ o2.Data # nil
  BY <1>1, <1>3, OptionIs, NilAssumption
<1>7. Data(x, 53) = o1.Data /\ Data(x, 54) = o2.Data
  BY <1>1, <1>3, <1>4, <1>6 DEF Later, Coded
<1>8. \A code : code \notin {53, 54} => Data(x, code) = nil
  BY <1>1, <1>3, <1>4 DEF Later, Coded
<1> QED BY <1>1, <1>3, <1>4, <1>5, <1>6, <1>7, <1>8
-----------------------------------------------------------------------------
(***************************************************************************)
(* What the configuration says.                                            *)
(***************************************************************************)
LEMMA FieldsRead ==
    ASSUME NEW list \in Seq(Field)
    PROVE  \/ ipv4(list) = nil
           \/ ipv4(list) \in Seq(Sized(4)) /\ Len(ipv4(list)) <= Len(list)
<1>1. CASE Len(list) = 1 /\ list[1].empty
  <2>1. ipv4(list) = <<>>
    BY <1>1 DEF ipv4
  <2> QED BY <2>1
<1>2. CASE ~(Len(list) = 1 /\ list[1].empty) /\ \E i \in 1 .. Len(list) : list[i].ip = nil
  <2>1. ipv4(list) = nil
    BY <1>2 DEF ipv4
  <2> QED BY <2>1
<1>3. CASE ~(Len(list) = 1 /\ list[1].empty) /\ ~\E i \in 1 .. Len(list) : list[i].ip = nil
  <2>1. ipv4(list) = [i \in 1 .. Len(list) |-> list[i].ip]
    BY <1>3 DEF ipv4
  <2>2. \A i \in 1 .. Len(list) : list[i].ip \in Sized(4)
    <3> SUFFICES ASSUME NEW i \in 1 .. Len(list) PROVE list[i].ip \in Sized(4)
      OBVIOUS
    <3>1. list[i] \in Field /\ list[i].ip # nil
      BY <1>3
    <3> QED BY <3>1 DEF Field
  <2> QED BY <2>1, <2>2
<1> QED BY <1>1, <1>2, <1>3

\* A text of the configuration as an address.
LEMMA FieldRead ==
    ASSUME NEW t \in Field
    PROVE  /\ ipv4(<<t>>) = IF t.empty THEN <<>> ELSE IF t.ip = nil THEN nil ELSE <<t.ip>>
           /\ t.ip = nil \/ t.ip \in Sized(4)
<1> DEFINE list == <<t>>
<1>1. Len(list) = 1 /\ list[1] = t
  OBVIOUS
<1>2. ipv4(list) = IF t.empty THEN <<>> ELSE IF t.ip = nil THEN nil ELSE <<t.ip>>
  <2>1. CASE t.empty
    BY <1>1, <2>1 DEF ipv4
  <2>2. CASE ~t.empty /\ t.ip = nil
    BY <1>1, <2>2 DEF ipv4
  <2>3. CASE ~t.empty /\ t.ip # nil
    <3>1. ipv4(list) = [i \in 1 .. Len(list) |-> list[i].ip]
      BY <1>1, <2>3 DEF ipv4
    <3> QED BY <1>1, <2>3, <3>1
  <2> QED BY <2>1, <2>2, <2>3
<1> QED BY <1>2 DEF Field

\* The router and the servers that a reply has to announce.
Router(r) == IF Overrides(r) /\ ~r.client.router.empty THEN r.client.router ELSE r.conf.router

Servers(r) == IF Overrides(r) /\ ipv4(r.client.dns) # <<>> THEN r.client.dns ELSE r.conf.dns

\* The lease options of a configuration that parses.
LEMMA ConfigIs ==
    ASSUME NEW r \in Reply
    PROVE  /\ lopts(r) = [IP |-> nil, Hostname |-> <<>>, Domain |-> r.conf.domain,
                          Netmask |-> r.conf.mask,
                          Router |-> First(ipv4(<<r.conf.router>>)), DNS |-> ipv4(r.conf.dns),
                          NTP |-> ipv4(r.conf.ntp), LeaseDuration |-> r.conf.duration]
           /\ r.conf.mask # nil /\ r.conf.mask \in Sized(4)
           /\ ipv4(<<r.conf.router>>) # nil /\ ipv4(r.conf.dns) # nil /\ ipv4(r.conf.ntp) # nil
<1> DEFINE conf == r.conf
           router == ipv4(<<conf.router>>)
           dns == ipv4(conf.dns)
           ntp == ipv4(conf.ntp)
<1>1. ParseConfig(conf) # nil /\ conf.mask \in Sized(4) \cup {nil}
  BY ReplyAssumption
<1>2. ~(conf.mask = nil \/ conf.duration < 60 \/ nil \in {router, dns, ntp})
  BY <1>1 DEF ParseConfig
<1>3. lopts(r) = [IP |-> nil, Hostname |-> <<>>, Domain |-> conf.domain, Netmask |-> conf.mask,
                  Router |-> First(router), DNS |-> dns, NTP |-> ntp,
                  LeaseDuration |-> conf.duration]
  BY <1>2 DEF ParseConfig, lopts
<1> QED BY <1>1, <1>2, <1>3

\* Lists of addresses are lists of byte strings.
LEMMA ListTyped ==
    ASSUME NEW list \in Seq(Sized(4))
    PROVE  list \in Seq(Bytes) /\ (list # <<>> => list[1] \in Sized(4) /\ list[1] \in Bytes)
<1>1. \A x \in Sized(4) : x \in Bytes
  BY SizedIs
<1>2. \A i \in 1 .. Len(list) : list[i] \in Sized(4) /\ list[i] \in Bytes
  BY <1>1
<1>3. list \in Seq(Bytes)
  BY <1>2
<1>4. list # <<>> => 1 \in 1 .. Len(list)
  OBVIOUS
<1> QED BY <1>2, <1>3, <1>4

\* The types of the lease options.
LEMMA ConfigTyped ==
    ASSUME NEW r \in Reply
    PROVE  /\ lopts(r) \in LeaseOptions
           /\ lopts(r).Router \in Sized(4) \cup {nil}
<1> DEFINE router == ipv4(<<r.conf.router>>)
           dns == ipv4(r.conf.dns)
           ntp == ipv4(r.conf.ntp)
<1>1. /\ r.conf.router \in Field /\ r.conf.dns \in Seq(Field) /\ r.conf.ntp \in Seq(Field)
      /\ r.conf.domain \in Bytes /\ r.conf.duration \in Nat
  BY ReplyAssumption
<1>2. router # nil /\ dns # nil /\ ntp # nil /\ r.conf.mask \in Bytes
  BY ConfigIs, SizedIs
<1>3. <<r.conf.router>> \in Seq(Field)
  BY <1>1
<1>4. dns \in Seq(Bytes) /\ ntp \in Seq(Bytes) /\ router \in Seq(Sized(4))
  BY <1>1, <1>2, <1>3, FieldsRead, ListTyped
<1> HIDE DEF router
<1>5. First(router) \in Sized(4) \cup {nil}
  <2>1. CASE Len(router) = 1
    <3>1. router # <<>>
      BY <2>1
    <3> QED BY <1>4, <2>1, <3>1, ListTyped DEF First
  <2>2. CASE Len(router) # 1
    BY <2>2 DEF First
  <2> QED BY <2>1, <2>2
<1> DEFINE first == First(router)
<1> HIDE DEF dns, ntp
<1>6. first \in Sized(4) \cup {nil} /\ first \in Bytes \cup {nil}
  BY <1>5, SizedIs
<1>7. lopts(r) = [IP |-> nil, Hostname |-> <<>>, Domain |-> r.conf.domain,
                  Netmask |-> r.conf.mask, Router |-> first, DNS |-> dns, NTP |-> ntp,
                  LeaseDuration |-> r.conf.duration]
  BY ConfigIs DEF router, dns, ntp
<1> HIDE DEF first
<1>8. <<>> \in Bytes
  BY NoBytes
<1> QED BY <1>1, <1>2, <1>4, <1>6, <1>7, <1>8 DEF LeaseOptions

\* The types of what an entry gives.
LEMMA EntryTyped ==
    ASSUME NEW r \in Reply, r.client # nil,
           nil \notin {ipv4(<<r.client.ip>>), ipv4(<<r.client.router>>), ipv4(r.client.dns),
                       ipv4(r.client.ntp)}
    PROVE  /\ ipv4(<<r.client.router>>) = <<>> \/ ipv4(<<r.client.router>>)[1] \in Bytes
           /\ ipv4(<<r.client.ip>>) = <<>> \/ ipv4(<<r.client.ip>>)[1] \in Bytes
           /\ ipv4(r.client.dns) \in Seq(Bytes) /\ ipv4(r.client.ntp) \in Seq(Bytes)
           /\ r.client.hostname \in Bytes
<1>1. /\ r.client.ip \in Field /\ r.client.router \in Field /\ r.client.dns \in Seq(Field)
      /\ r.client.ntp \in Seq(Field) /\ r.client.hostname \in Bytes
  BY ReplyAssumption
<1>2. <<r.client.ip>> \in Seq(Field) /\ <<r.client.router>> \in Seq(Field)
  BY <1>1
<1>3. /\ ipv4(<<r.client.ip>>) \in Seq(Sized(4)) /\ ipv4(<<r.client.router>>) \in Seq(Sized(4))
      /\ ipv4(r.client.dns) \in Seq(Sized(4)) /\ ipv4(r.client.ntp) \in Seq(Sized(4))
  BY <1>1, <1>2, FieldsRead
<1> QED BY <1>1, <1>3, ListTyped

\* The override of a client differs from the options of the server only if its
\* entry parses.
LEMMA OverrideIs ==
    ASSUME NEW r \in Reply
    PROVE  /\ r.client = nil => override(r) = nil
           /\ r.client # nil /\ ~Parses(r.client) => override(r) = lopts(r)
           /\ Overrides(r) =>
                 /\ override(r).Router = IF ipv4(<<r.client.router>>) # <<>>
                                         THEN ipv4(<<r.client.router>>)[1] ELSE lopts(r).Router
                 /\ override(r).DNS = IF ipv4(r.client.dns) # <<>>
                                      THEN ipv4(r.client.dns) ELSE lopts(r).DNS
                 /\ override(r).NTP = IF ipv4(r.client.ntp) # <<>>
                                      THEN ipv4(r.client.ntp) ELSE lopts(r).NTP
                 /\ override(r).Domain = lopts(r).Domain
                 /\ override(r) # nil
<1>1. r.client = nil => override(r) = nil
  BY DEF override
<1>2. r.client # nil /\ ~Parses(r.client) => override(r) = lopts(r)
  BY DEF override, SetClientOverrides, Parses
<1>3. ASSUME Overrides(r)
      PROVE  /\ override(r).Router = IF ipv4(<<r.client.router>>) # <<>>
                                     THEN ipv4(<<r.client.router>>)[1] ELSE lopts(r).Router
             /\ override(r).DNS = IF ipv4(r.client.dns) # <<>>
                                  THEN ipv4(r.client.dns) ELSE lopts(r).DNS
             /\ override(r).NTP = IF ipv4(r.client.ntp) # <<>>
                                  THEN ipv4(r.client.ntp) ELSE lopts(r).NTP
             /\ override(r).Domain = lopts(r).Domain
             /\ override(r) # nil
  <2> DEFINE o == lopts(r)
             ip == ipv4(<<r.client.ip>>)
             router == ipv4(<<r.client.router>>)
             dns == ipv4(r.client.dns)
             ntp == ipv4(r.client.ntp)
             name == r.client.hostname
  <2>1. nil \notin {ip, router, dns, ntp} /\ r.client # nil
    BY <1>3 DEF Overrides, Parses
  <2>2. override(r) = SetClientOverrides(o, r.client)
    BY <2>1 DEF override
  <2>3. o = [IP |-> nil, Hostname |-> <<>>, Domain |-> r.conf.domain, Netmask |-> r.conf.mask,
             Router |-> First(ipv4(<<r.conf.router>>)), DNS |-> ipv4(r.conf.dns),
             NTP |-> ipv4(r.conf.ntp), LeaseDuration |-> r.conf.duration]
    BY ConfigIs
  <2> HIDE DEF o
  <2>4. SetClientOverrides(o, r.client) =
           [o EXCEPT !.IP = IF ip # <<>> THEN ip[1] ELSE @,
                     !.Router = IF router # <<>> THEN router[1] ELSE @,
                     !.DNS = IF dns # <<>> THEN dns ELSE @,
                     !.NTP = IF ntp # <<>> THEN ntp ELSE @,
                     !.Hostname = IF name # <<>> THEN name ELSE @]
    BY <2>1 DEF SetClientOverrides
  <2> HIDE DEF ip, router, dns, ntp, name
  <2> DEFINE v == [o EXCEPT !.IP = IF ip # <<>> THEN ip[1] ELSE @,
                     !.Router = IF router # <<>> THEN router[1] ELSE @,
                     !.DNS = IF dns # <<>> THEN dns ELSE @,
                     !.NTP = IF ntp # <<>> THEN ntp ELSE @,
                     !.Hostname = IF name # <<>> THEN name ELSE @]
  <2>5. /\ v.Router = IF router # <<>> THEN router[1] ELSE o.Router
        /\ v.DNS = IF dns # <<>> THEN dns ELSE o.DNS
        /\ v.NTP = IF ntp # <<>> THEN ntp ELSE o.NTP
        /\ v.Domain = o.Domain
    BY <2>3
  <2>6. v # nil
    <3>1. /\ router = <<>> \/ router[1] \in Bytes
          /\ ip = <<>> \/ ip[1] \in Bytes
          /\ dns \in Seq(Bytes) /\ ntp \in Seq(Bytes) /\ name \in Bytes
      BY <2>1, EntryTyped DEF ip, router, dns, ntp, name
    <3>2. o \in LeaseOptions
      BY ConfigTyped DEF o
    <3>3. v \in LeaseOptions
      BY <3>1, <3>2 DEF LeaseOptions
    <3> QED BY <3>3, OptionsAssumption
  <2> QED BY <2>2, <2>4, <2>5, <2>6 DEF ip, router, dns, ntp, o
<1> QED BY <1>1, <1>2, <1>3

\* Its fields one by one.
LEMMA ConfigFields ==
    ASSUME NEW r \in Reply
    PROVE  /\ lopts(r).Router = First(ipv4(<<r.conf.router>>))
           /\ lopts(r).DNS = ipv4(r.conf.dns) /\ lopts(r).NTP = ipv4(r.conf.ntp)
           /\ lopts(r).Domain = r.conf.domain /\ lopts(r).Netmask = r.conf.mask
           /\ lopts(r).LeaseDuration = r.conf.duration
<1> DEFINE router == First(ipv4(<<r.conf.router>>))
           dns == ipv4(r.conf.dns)
           ntp == ipv4(r.conf.ntp)
           conf == r.conf
<1> HIDE DEF router, dns, ntp, conf
<1>1. lopts(r) = [IP |-> nil, Hostname |-> <<>>, Domain |-> conf.domain,
                  Netmask |-> conf.mask, Router |-> router, DNS |-> dns, NTP |-> ntp,
                  LeaseDuration |-> conf.duration]
  BY ConfigIs DEF router, dns, ntp, conf
<1>2. /\ lopts(r).Router = router /\ lopts(r).DNS = dns /\ lopts(r).NTP = ntp
      /\ lopts(r).Domain = conf.domain /\ lopts(r).Netmask = conf.mask
      /\ lopts(r).LeaseDuration = conf.duration
  BY ONLY <1>1
<1> QED BY <1>2 DEF router, dns, ntp, conf

\* The three cases of an override.
LEMMA OverrideCases ==
    ASSUME NEW r \in Reply
    PROVE  \/ override(r) = nil /\ ~Overrides(r)
           \/ override(r) = lopts(r) /\ ~Overrides(r)
           \/ Overrides(r) /\ override(r) # nil /\ r.client # nil
BY OverrideIs DEF Overrides

\* The texts of an entry that parses.
LEMMA EntryRead ==
    ASSUME NEW r \in Reply, Overrides(r)
    PROVE  /\ r.client # nil /\ r.client.router \in Field
           /\ r.client.dns \in Seq(Field) /\ r.client.ntp \in Seq(Field)
           /\ ipv4(<<r.client.router>>) # nil /\ ipv4(r.client.dns) # nil
           /\ ipv4(r.client.ntp) # nil
<1>1. r.client # nil /\ Parses(r.client)
  BY DEF Overrides
<1> QED BY <1>1, ReplyAssumption DEF Parses

\* The router that is announced.
LEMMA RouterAnnounced ==
    ASSUME NEW r \in Reply, NEW router, router = Announced(lopts(r), override(r), "Router", nil)
    PROVE  /\ router \in Sized(4) \cup {nil}
           /\ ipv4(<<Router(r)>>) = IF router # nil THEN <<router>> ELSE <<>>
<1> DEFINE own == First(ipv4(<<r.conf.router>>))
<1>1. lopts(r).Router = own /\ own \in Sized(4) \cup {nil}
  BY ConfigFields, ConfigTyped
<1>2. ipv4(<<r.conf.router>>) = IF own # nil THEN <<own>> ELSE <<>>
  <2> DEFINE t == r.conf.router
  <2>1. t \in Field /\ ipv4(<<t>>) # nil
    BY ReplyAssumption, ConfigIs
  <2>2. ipv4(<<t>>) = IF t.empty THEN <<>> ELSE <<t.ip>>
    BY <2>1, FieldRead
  <2>3. t.ip # nil \/ t.empty
    BY <2>1, FieldRead
  <2> HIDE DEF t
  <2>4. CASE t.empty
    BY <2>2, <2>4 DEF First, t
  <2>5. CASE ~t.empty
    BY <2>2, <2>3, <2>5 DEF First, t
  <2> QED BY <2>4, <2>5
<1> HIDE DEF own
<1>3. router = IF override(r) # nil /\ override(r).Router # nil THEN override(r).Router ELSE own
  BY <1>1 DEF Announced
<1>4. CASE ~Overrides(r)
  <2>1. override(r) = nil \/ override(r) = lopts(r)
    BY <1>4, OverrideCases
  <2>2. router = own
    BY <1>1, <1>3, <2>1
  <2>3. Router(r) = r.conf.router
    BY <1>4 DEF Router
  <2> QED BY <1>1, <1>2, <2>2, <2>3
<1>5. CASE Overrides(r)
  <2> DEFINE t == r.client.router
  <2>1. t \in Field /\ ipv4(<<t>>) # nil
    BY <1>5, EntryRead
  <2>2. /\ ipv4(<<t>>) = IF t.empty THEN <<>> ELSE IF t.ip = nil THEN nil ELSE <<t.ip>>
        /\ t.ip = nil \/ t.ip \in Sized(4)
    BY <2>1, FieldRead
  <2>3. /\ override(r) # nil
        /\ override(r).Router = IF ipv4(<<t>>) # <<>> THEN ipv4(<<t>>)[1] ELSE own
    BY <1>1, <1>5, OverrideIs
  <2> HIDE DEF t
  <2>4. CASE t.empty
    <3>1. router = own
      BY <1>3, <2>2, <2>3, <2>4
    <3>2. Router(r) = r.conf.router
      BY <2>4 DEF Router, t
    <3> QED BY <1>1, <1>2, <3>1, <3>2
  <2>5. CASE ~t.empty
    <3>1. t.ip # nil /\ ipv4(<<t>>) = <<t.ip>>
      BY <2>1, <2>2, <2>5
    <3>2. router = t.ip
      BY <1>3, <2>3, <3>1, SMTT(30)
    <3>3. Router(r) = t
      BY <1>5, <2>5 DEF Router, t
    <3> QED BY <2>2, <3>1, <3>2, <3>3
  <2> QED BY <2>4, <2>5
<1> QED BY <1>4, <1>5

\* The servers that are announced.
LEMMA ServersAnnounced ==
    ASSUME NEW r \in Reply, ShortOptions, NEW dns, NEW ntp,
           dns = Announced(lopts(r), override(r), "DNS", <<>>),
           ntp = Announced(lopts(r), override(r), "NTP", <<>>)
    PROVE  dns \in Addresses /\ ntp \in Addresses /\ ipv4(Servers(r)) = dns
<1>1. /\ r.conf.dns \in Seq(Field) /\ r.conf.ntp \in Seq(Field)
      /\ Len(r.conf.dns) < 64 /\ Len(r.conf.ntp) < 64
  BY ReplyAssumption DEF ShortOptions
<1>2. /\ lopts(r).DNS = ipv4(r.conf.dns) /\ lopts(r).NTP = ipv4(r.conf.ntp)
      /\ ipv4(r.conf.dns) # nil /\ ipv4(r.conf.ntp) # nil
  BY ConfigIs, ConfigFields
<1>3. ASSUME NEW list \in Seq(Field), Len(list) < 64, ipv4(list) # nil
      PROVE ipv4(list) \in Addresses
  <2>1. ipv4(list) \in Seq(Sized(4)) /\ Len(ipv4(list)) <= Len(list)
    BY <1>3, FieldsRead
  <2>2. Len(ipv4(list)) < 64
    BY <1>3, <2>1
  <2> QED BY <2>1, <2>2 DEF Addresses
<1>4. ipv4(r.conf.dns) \in Addresses /\ ipv4(r.conf.ntp) \in Addresses
  BY <1>1, <1>2, <1>3
<1>5. CASE ~Overrides(r)
  <2>1. override(r) = nil \/ override(r) = lopts(r)
    BY <1>5, OverrideCases
  <2>2. dns = ipv4(r.conf.dns) /\ ntp = ipv4(r.conf.ntp)
    BY <1>2, <2>1 DEF Announced
  <2>3. Servers(r) = r.conf.dns
    BY <1>5 DEF Servers
  <2> QED BY <1>4, <2>2, <2>3
<1>6. CASE Overrides(r)
  <2>1. /\ r.client # nil /\ r.client.dns \in Seq(Field) /\ r.client.ntp \in Seq(Field)
        /\ ipv4(r.client.dns) # nil /\ ipv4(r.client.ntp) # nil
    BY <1>6, EntryRead
  <2>2. Len(r.client.dns) < 64 /\ Len(r.client.ntp) < 64
    BY <2>1 DEF ShortOptions
  <2>3. ipv4(r.client.dns) \in Addresses /\ ipv4(r.client.ntp) \in Addresses
    BY <1>3, <2>1, <2>2
  <2>4. /\ override(r) # nil
        /\ override(r).DNS = IF ipv4(r.client.dns) # <<>> THEN ipv4(r.client.dns) ELSE lopts(r).DNS
        /\ override(r).NTP = IF ipv4(r.client.ntp) # <<>> THEN ipv4(r.client.ntp) ELSE lopts(r).NTP
    BY <1>6, OverrideIs
  <2>5. /\ dns = IF ipv4(r.client.dns) # <<>> THEN ipv4(r.client.dns) ELSE ipv4(r.conf.dns)
        /\ ntp = IF ipv4(r.client.ntp) # <<>> THEN ipv4(r.client.ntp) ELSE ipv4(r.conf.ntp)
    BY <1>2, <2>4 DEF Announced
  <2>6. Servers(r) = IF ipv4(r.client.dns) # <<>> THEN r.client.dns ELSE r.conf.dns
    BY <1>6 DEF Servers
  <2> QED BY <1>4, <2>3, <2>5, <2>6
<1> QED BY <1>5, <1>6

\* The domain of the configuration is announced to everybody.
LEMMA DomainAnnounced ==
    ASSUME NEW r \in Reply
    PROVE  Announced(lopts(r), override(r), "Domain", <<>>) = r.conf.domain
<1>1. lopts(r).Domain = r.conf.domain
  BY ConfigFields
<1>2. override(r) # nil => override(r).Domain = r.conf.domain
  BY <1>1, OverrideCases, OverrideIs
<1> QED BY <1>1, <1>2 DEF Announced

\* The options of a reply of the server that has one.
ReplyOptions(r) ==
    IF r.type = Type.Nack THEN Identity(r.type, r.self)
    ELSE Identity(r.type, r.self) \o dhcpOptions(lopts(r), override(r))

\* The options of a reply are read as the configuration means them.
LEMMA ReplyOptionsAre ==
    ASSUME NEW r \in Reply, ShortOptions, NEW opts, opts = ReplyOptions(r)
    PROVE  /\ opts \in Lists(19) /\ Len(opts) > 0
           /\ toUint8(Data(opts, 53)) = r.type /\ toV4(Data(opts, 54)) = r.self
           /\ r.type # Type.Nack =>
                 /\ toDuration(Data(opts, 51)) = r.conf.duration
                 /\ toNetmask(Data(opts, 1)) = r.conf.mask
                 /\ toV4A(Data(opts, 3)) = ipv4(<<Router(r)>>)
                 /\ toV4A(Data(opts, 6)) = ipv4(Servers(r))
                 /\ toString(Data(opts, 15)) = r.conf.domain
<1> DEFINE x == Identity(r.type, r.self)
           router == Announced(lopts(r), override(r), "Router", nil)
           dns == Announced(lopts(r), override(r), "DNS", <<>>)
           ntp == Announced(lopts(r), override(r), "NTP", <<>>)
           domain == Announced(lopts(r), override(r), "Domain", <<>>)
           y == GrantOptions(r.conf.duration, r.conf.mask, router, dns, ntp, r.conf.domain)
           z == Cat(x, y)
<1>1. r.type \in Byte /\ r.self \in Sized(4) /\ r.conf.domain \in Bytes
      /\ r.type \in {Type.Offer, Type.Ack, Type.Nack}
  <2>1. r.type \in {Type.Offer, Type.Ack, Type.Nack} /\ r.self \in Sized(4)
        /\ r.conf.domain \in Bytes
    BY ReplyAssumption
  <2>2. Type.Offer \in Byte /\ Type.Ack \in Byte /\ Type.Nack \in Byte
    BY ByteIs DEF Type
  <2> QED BY <2>1, <2>2
<1>2. /\ x \in Lists(2) /\ Len(x) > 0
      /\ toUint8(Data(x, 53)) = r.type /\ toV4(Data(x, 54)) = r.self
      /\ Data(x, 53) # nil /\ Data(x, 54) # nil
      /\ \A code : code \notin {53, 54} => Data(x, code) = nil
  BY <1>1, IdentityIs
<1>3. CASE r.type = Type.Nack
  <2>1. opts = x
    BY <1>3 DEF ReplyOptions
  <2> HIDE DEF x
  <2>2. x \in Lists(19)
    BY <1>2 DEF Lists
  <2> QED BY <1>2, <1>3, <2>1, <2>2
<1>4. CASE r.type # Type.Nack
  <2>1. dhcpOptions(lopts(r), override(r)) = y
    <3>1. dhcpOptions(lopts(r), override(r)) =
             GrantOptions(lopts(r).LeaseDuration, lopts(r).Netmask, router, dns, ntp, domain)
      BY Zenon DEF dhcpOptions, GrantOptions
    <3>2. /\ lopts(r).LeaseDuration = r.conf.duration /\ lopts(r).Netmask = r.conf.mask
          /\ domain = r.conf.domain
      BY ConfigFields, DomainAnnounced
    <3> HIDE DEF router, dns, ntp, domain
    <3> QED BY <3>1, <3>2
  <2>2. opts = z
    BY <1>4, <2>1 DEF ReplyOptions, Cat
  <2>3. /\ router \in Sized(4) \cup {nil}
        /\ ipv4(<<Router(r)>>) = IF router # nil THEN <<router>> ELSE <<>>
    BY RouterAnnounced
  <2>4. dns \in Addresses /\ ntp \in Addresses /\ ipv4(Servers(r)) = dns
    BY ServersAnnounced
  <2>5. r.conf.duration \in Long /\ Len(r.conf.domain) < 256 /\ r.conf.mask \in Sized(4)
    <3>1. r \in Reply /\ ShortOptions
      OBVIOUS
    <3>2. r.conf.duration \in Long /\ Len(r.conf.domain) < 256
      BY ONLY <3>1 DEF ShortOptions
    <3>3. r.conf.mask \in Sized(4)
      BY ONLY <3>1, ConfigIs, ReplyAssumption
    <3> QED BY ONLY <3>2, <3>3
  <2> HIDE DEF router, dns, ntp, domain
  <2>6. GrantData(y, r.conf.duration, r.conf.mask, router, dns, r.conf.domain)
    BY <1>1, <2>3, <2>4, <2>5, GrantOptionsAre
  <2> HIDE DEF x, y
  <2>7. /\ y \in Lists(6)
        /\ toDuration(Data(y, 51)) = r.conf.duration /\ toNetmask(Data(y, 1)) = r.conf.mask
        /\ toV4A(Data(y, 3)) = ipv4(<<Router(r)>>)
        /\ toV4A(Data(y, 6)) = ipv4(Servers(r)) /\ toString(Data(y, 15)) = r.conf.domain
        /\ Data(y, 53) = nil /\ Data(y, 54) = nil
    BY <2>3, <2>4, <2>6 DEF GrantData
  <2>8. /\ z \in Lists(8) /\ Len(z) >= Len(x)
        /\ \A code : Data(z, code) = Later(Data(x, code), Data(y, code))
    BY <1>2, <2>7, CatList DEF Cat
  <2> HIDE DEF z
  <2>9. z \in Lists(19) /\ Len(z) > 0
    <3>1. z \in Seq(OptionSet) /\ Len(z) \in Nat /\ Len(z) <= 8 /\ Len(x) \in Nat
      BY <1>2, <2>8, ListOf
    <3>2. Len(z) <= 19 /\ Len(z) > 0
      BY <1>2, <2>8, <3>1
    <3> QED BY <3>1, <3>2 DEF Lists
  <2>10. Data(z, 53) = Data(x, 53) /\ Data(z, 54) = Data(x, 54)
    BY <2>7, <2>8 DEF Later
  <2>11. \A code : code \notin {53, 54} => Data(z, code) = Data(y, code)
    BY <1>2, <2>8 DEF Later
  <2>12. /\ Data(z, 51) = Data(y, 51) /\ Data(z, 1) = Data(y, 1) /\ Data(z, 3) = Data(y, 3)
         /\ Data(z, 6) = Data(y, 6) /\ Data(z, 15) = Data(y, 15)
    BY <2>11
  <2> QED BY <1>2, <2>2, <2>7, <2>9, <2>10, <2>12
<1> QED BY <1>3, <1>4
-----------------------------------------------------------------------------
(***************************************************************************)
(* The replies of the server.                                              *)
(***************************************************************************)
\* The receiver and the message of a reply.
ReplyTo(r) == IF r.type = Type.Nack THEN Broadcast ELSE dstFromFlag(r.flags, r.ip)

\* The flags of a reply.
ReplyFlags(r) == IF r.type = Type.Nack THEN 0 ELSE r.flags

\* The address that is given to the client.
ReplyIP(r) == IF r.type = Type.Nack THEN nil ELSE r.ip

\* The message of a reply.
ReplyMessage(r) ==
    Assemble(Header4(2, r.xid, ReplyFlags(r), nil, ReplyIP(r), r.mac, ReplyOptions(r)))

\* What AssembleGrant makes of its template.
Granted(t, ip, flags) == [t EXCEPT !.YourIP = ip, !.Flags = flags]

\* Granted makes a message.
LEMMA GrantTemplate ==
    ASSUME NEW xid, NEW mac, NEW opts, NEW ip, NEW flags
    PROVE  Granted(Template(2, xid, mac, opts), ip, flags) =
              Header4(2, xid, flags, nil, ip, mac, opts)
<1> DEFINE t == Template(2, xid, mac, opts)
           u == [t EXCEPT !.YourIP = ip]
<1>1. t = Header4(2, xid, 0, nil, nil, mac, opts)
  BY DEF Template, Header4
<1>2. [t EXCEPT !.YourIP = ip, !.Flags = flags] = [u EXCEPT !.Flags = flags]
  BY Zenon
<1> HIDE DEF t
<1>3. u = Header4(2, xid, 0, nil, ip, mac, opts)
  BY <1>1 DEF Header4
<1> HIDE DEF u
<1>4. [u EXCEPT !.Flags = flags] = Header4(2, xid, flags, nil, ip, mac, opts)
  BY <1>3 DEF Header4
<1> QED BY <1>2, <1>4 DEF t, Granted

\* A reply is a datagram with a message.
LEMMA ReplySent ==
    ASSUME NEW r \in Reply
    PROVE  /\ sendReply(r) = Datagram(0, r.self, ReplyTo(r), 67, 68, ReplyMessage(r))
           /\ ReplyTo(r) \in Sized(4)
           /\ ReplyFlags(r) \in Word
           /\ ReplyIP(r) = nil \/ ReplyIP(r) \in Sized(4)
<1>1. r.flags \in Word /\ r.ip \in Sized(4)
  BY ReplyAssumption
<1>2. Broadcast \in Sized(4)
  <2>1. 255 \in Byte
    BY ByteIs
  <2> QED BY <2>1, FourSized DEF Broadcast
<1>3. 0 \in Word
  BY DEF Word
<1>4. CASE r.type = Type.Nack
  <2> DEFINE opts == Identity(Type.Nack, r.self)
  <2>1. ReplyOptions(r) = opts
    BY <1>4 DEF ReplyOptions
  <2>2. /\ ReplyTo(r) = Broadcast /\ ReplyFlags(r) = 0 /\ ReplyIP(r) = nil
    BY <1>4 DEF ReplyTo, ReplyFlags, ReplyIP
  <2>3. sendReply(r) = Datagram(0, r.self, Broadcast, 67, 68,
                                Assemble(Template(2, r.xid, r.mac, opts)))
    BY <1>4, Zenon DEF sendReply, AssembleNACK, assembleUdp
  <2> HIDE DEF opts
  <2>4. Template(2, r.xid, r.mac, opts) = Header4(2, r.xid, 0, nil, nil, r.mac, opts)
    BY DEF Template, Header4
  <2>5. ReplyMessage(r) = Assemble(Template(2, r.xid, r.mac, opts))
    BY <2>1, <2>2, <2>4, Zenon DEF ReplyMessage
  <2> QED BY <1>2, <1>3, <2>2, <2>3, <2>5
<1>5. CASE r.type # Type.Nack
  <2> DEFINE grant == dhcpOptions(lopts(r), override(r))
             opts == Identity(r.type, r.self) \o grant
  <2>1. ReplyOptions(r) = opts
    BY <1>5, Zenon DEF ReplyOptions
  <2>2. /\ ReplyTo(r) = dstFromFlag(r.flags, r.ip)
        /\ ReplyFlags(r) = r.flags /\ ReplyIP(r) = r.ip
    BY <1>5 DEF ReplyTo, ReplyFlags, ReplyIP
  <2>3. dstFromFlag(r.flags, r.ip) \in Sized(4)
    BY <1>1, <1>2 DEF dstFromFlag
  <2>4. sendReply(r) = Datagram(0, r.self, dstFromFlag(r.flags, r.ip), 67, 68,
                                Assemble(Granted(Template(2, r.xid, r.mac, opts),
                                                 r.ip, r.flags)))
    BY <1>5, Zenon DEF sendReply, AssembleGrant, assembleUdp, Granted
  <2> HIDE DEF opts, grant
  <2>5. Granted(Template(2, r.xid, r.mac, opts), r.ip, r.flags) =
           Header4(2, r.xid, r.flags, nil, r.ip, r.mac, opts)
    BY GrantTemplate
  <2>6. ReplyMessage(r) = Assemble(Granted(Template(2, r.xid, r.mac, opts), r.ip, r.flags))
    BY <2>1, <2>2, <2>5, Zenon DEF ReplyMessage
  <2> QED BY <1>1, <2>2, <2>3, <2>4, <2>6
<1> QED BY <1>4, <1>5

\* A reply is read as it was meant.
LEMMA ReplyIs ==
    ASSUME NEW r \in Reply, ShortOptions
    PROVE  /\ ReplyOptions(r) \in Seq(OptionSet) /\ Len(ReplyOptions(r)) > 0
           /\ sendReply(r) \in Bytes
           /\ Summed(sendReply(r), Slice(sendReply(r), 20, Len(sendReply(r))))
           /\ IsRead(sendReply(r), r.self, ReplyTo(r), 68, ReplyMessage(r))
           /\ MessageIs(ReplyMessage(r), 2, r.xid, ReplyIP(r), r.mac, ReplyOptions(r))
<1> DEFINE opts == ReplyOptions(r)
           s == ReplyMessage(r)
           f == sendReply(r)
           dst == ReplyTo(r)
           flags == ReplyFlags(r)
           ip == ReplyIP(r)
<1>1. opts \in Lists(19) /\ Len(opts) > 0
  BY ReplyOptionsAre
<1>2. opts \in Seq(OptionSet)
  BY <1>1, ListOf
<1>3. /\ f = Datagram(0, r.self, dst, 67, 68, s)
      /\ dst \in Sized(4) /\ flags \in Word /\ (ip = nil \/ ip \in Sized(4))
  BY ReplySent
<1>4. r.self \in Sized(4) /\ r.xid \in Long /\ r.mac \in Sized(6)
  BY ReplyAssumption
<1>5. 67 \in Word /\ 68 \in Word /\ 0 \in Word /\ 2 \in Byte
  BY ByteIs DEF Word
<1>6. s = Assemble(Header4(2, r.xid, flags, nil, ip, r.mac, opts))
  BY DEF ReplyMessage
<1> HIDE DEF opts, s, f, dst, flags, ip
<1>7. Sendable(0, r.self, dst, 67, 68, 2, r.xid, flags, nil, ip, r.mac, opts)
  BY <1>1, <1>3, <1>4, <1>5 DEF Sendable
<1>8. SentAs(f, r.self, dst, 68, 2, r.xid, ip, r.mac, opts, s)
  BY <1>3, <1>6, <1>7, SentIs, Zenon
<1> QED BY <1>1, <1>2, <1>8 DEF opts, s, f, dst, ip, SentAs

\* What the client has read so far of a reply is what the server has sent.
ReplyInv ==
    sent.by = "server" =>
        LET r == sent.of IN
            /\ r \in Reply /\ frame = sendReply(r)
            /\ MessageRead(r.self, ReplyTo(r), 68, ReplyMessage(r), ReplyOptions(r))

LEMMA ReplyInvInit == ShortOptions /\ WireInit => ReplyInv
<1> SUFFICES ASSUME ShortOptions, WireInit, sent.by = "server"
             PROVE  LET r == sent.of IN
                      /\ r \in Reply /\ frame = sendReply(r)
                      /\ MessageRead(r.self, ReplyTo(r), 68, ReplyMessage(r), ReplyOptions(r))
  BY DEF ReplyInv
<1>1. PICK r \in Reply : sent = [by |-> "server", of |-> r] /\ frame = sendReply(r)
  BY DEF WireInit
<1>2. sent.of = r
  BY <1>1
<1>3. IsRead(frame, r.self, ReplyTo(r), 68, ReplyMessage(r))
  BY <1>1, ReplyIs
<1>4. Carries(ReplyMessage(r), ReplyOptions(r))
  BY ReplyIs DEF MessageIs
<1>5. MessageRead(r.self, ReplyTo(r), 68, ReplyMessage(r), ReplyOptions(r))
  BY <1>3, <1>4, MessageReadStart DEF WireInit
<1> QED BY <1>1, <1>2, <1>5

LEMMA ReplyInvNext == ShortOptions /\ ReplyInv /\ [WireNext]_wireVars => ReplyInv'
<1> SUFFICES ASSUME ShortOptions, ReplyInv, [WireNext]_wireVars, sent.by = "server"
             PROVE ReplyInv'
  BY SentKeeps DEF ReplyInv
<1>1. frame' = frame /\ sent' = sent
  BY SentKeeps
<1>2. PICK r \in Reply : r = sent.of /\ frame = sendReply(r)
        /\ MessageRead(r.self, ReplyTo(r), 68, ReplyMessage(r), ReplyOptions(r))
  BY DEF ReplyInv
<1>3. MessageRead(r.self, ReplyTo(r), 68, ReplyMessage(r), ReplyOptions(r))'
  BY <1>2, ReplyIs, MessageReadKeeps
<1>4. sent'.of = r /\ frame' = sendReply(r)
  BY <1>1, <1>2
<1> QED BY <1>3, <1>4 DEF ReplyInv

LEMMA ReplyInvUnderstood == ShortOptions /\ ReplyInv => ReplyUnderstood
<1> SUFFICES ASSUME ShortOptions, ReplyInv, sent.by = "server" PROVE ReplyUnderstood
  BY DEF ReplyUnderstood
<1>1. PICK r \in Reply : r = sent.of /\ frame = sendReply(r)
        /\ MessageRead(r.self, ReplyTo(r), 68, ReplyMessage(r), ReplyOptions(r))
  BY DEF ReplyInv
<1>2. pc # "dropped"
  BY <1>1 DEF MessageRead, Reads
<1> DEFINE s == ReplyMessage(r)
           opts == ReplyOptions(r)
           dst == ReplyTo(r)
           ip == ReplyIP(r)
<1>3. ASSUME pc = "done"
      PROVE  /\ Message.Xid = r.xid /\ Message.ClientMAC = r.mac
             /\ DecodeUDP(v4.Data).DstPort = 68
             /\ Decoded.MessageType = r.type /\ Decoded.ServerIdentifier = r.self
             /\ Message.YourIP = To4(ip) /\ v4.Destination = dst
             /\ Decoded = DecodeOptions(opts)
  <2>1. opts \in Seq(OptionSet) /\ Len(opts) > 0 /\ MessageIs(s, 2, r.xid, ip, r.mac, opts)
    BY ReplyIs
  <2>2. b = s /\ Reads(opts) /\ IsRead(frame, r.self, dst, 68, s)
    BY <1>1, <1>3 DEF MessageRead
  <2>3. Message.Options = opts
    BY <1>3, <2>1, <2>2, ReadsAll
  <2>4. toUint8(Data(opts, 53)) = r.type /\ toV4(Data(opts, 54)) = r.self
    BY ReplyOptionsAre
  <2> HIDE DEF s, opts, dst, ip
  <2>5. Message.Xid = r.xid /\ Message.ClientMAC = r.mac /\ Message.YourIP = To4(ip)
    BY <2>1, <2>2 DEF Message, MessageIs
  <2>6. v4.Destination = dst /\ DecodeUDP(v4.Data).DstPort = 68
    BY <2>2 DEF v4, IsRead
  <2>7. Decoded = DecodeOptions(opts)
    BY <2>3 DEF Decoded
  <2>8. /\ Decoded.MessageType = toUint8(Data(opts, 53))
        /\ Decoded.ServerIdentifier = toV4(Data(opts, 54))
    BY <2>7 DEF DecodeOptions, Code
  <2> QED BY <2>4, <2>5, <2>6, <2>7, <2>8
<1>4. ASSUME pc = "done", r.type # Type.Nack
      PROVE  /\ Message.YourIP = r.ip
             /\ v4.Destination \in {r.ip, Broadcast}
             /\ Decoded.IPAddressLeaseDuration = r.conf.duration
             /\ Decoded.SubnetMask = r.conf.mask
             /\ Decoded.DomainName = r.conf.domain
             /\ Decoded.Routers = ipv4(<<Router(r)>>)
             /\ Decoded.DNS = ipv4(Servers(r))
  <2>1. r.ip \in Sized(4) /\ r.ip # nil
    BY ReplyAssumption, SizedIs, NilAssumption
  <2>2. To4(ip) = r.ip
    BY <1>4, <2>1 DEF To4, ReplyIP
  <2>3. dst \in {r.ip, Broadcast}
    BY <1>4 DEF ReplyTo, dstFromFlag
  <2>4. /\ toDuration(Data(opts, 51)) = r.conf.duration
        /\ toNetmask(Data(opts, 1)) = r.conf.mask
        /\ toV4A(Data(opts, 3)) = ipv4(<<Router(r)>>)
        /\ toV4A(Data(opts, 6)) = ipv4(Servers(r))
        /\ toString(Data(opts, 15)) = r.conf.domain
    BY <1>4, ReplyOptionsAre
  <2> HIDE DEF opts, dst, ip
  <2>5. Message.YourIP = To4(ip) /\ v4.Destination = dst /\ Decoded = DecodeOptions(opts)
    BY <1>3, <1>4
  <2>6. /\ Decoded.IPAddressLeaseDuration = toDuration(Data(opts, 51))
        /\ Decoded.SubnetMask = toNetmask(Data(opts, 1))
        /\ Decoded.DomainName = toString(Data(opts, 15))
        /\ Decoded.Routers = toV4A(Data(opts, 3))
        /\ Decoded.DNS = toV4A(Data(opts, 6))
    BY <2>5 DEF DecodeOptions, Code
  <2> QED BY <2>2, <2>3, <2>4, <2>5, <2>6
<1> HIDE DEF s, opts, dst, ip
<1>5. /\ Router(r) = IF Overrides(r) /\ ~r.client.router.empty
                     THEN r.client.router ELSE r.conf.router
      /\ Servers(r) = IF Overrides(r) /\ ipv4(r.client.dns) # <<>>
                      THEN r.client.dns ELSE r.conf.dns
  BY DEF Router, Servers
<1>6. sent.of = r
  BY <1>1
<1> QED BY <1>2, <1>3, <1>4, <1>5, <1>6, Zenon DEF ReplyUnderstood

\* The client reads in every reply what the configuration and its own entry say,
\* if the options fit the fields they are written to, which nothing checks.
THEOREM RepliesUnderstood == ShortOptions => (WireSpec => []ReplyUnderstood)
<1> SUFFICES ASSUME ShortOptions PROVE WireSpec => []ReplyUnderstood
  OBVIOUS
<1>1. WireInit => ReplyInv
  BY ReplyInvInit
<1>2. ReplyInv /\ [WireNext]_wireVars => ReplyInv'
  BY ReplyInvNext
<1>3. ReplyInv => ReplyUnderstood
  BY ReplyInvUnderstood
<1> QED BY <1>1, <1>2, <1>3, PTL DEF WireSpec

\* Both checksums of what is sent are right.
LEMMA SumsRight == ShortOptions /\ RequestInv /\ ReplyInv => ChecksumsRight
<1> SUFFICES ASSUME ShortOptions, RequestInv, ReplyInv, sent.by \in {"client", "server"}
             PROVE  ChecksumsRight
  BY DEF ChecksumsRight
<1>1. Summed(frame, Slice(frame, 20, Len(frame)))
  <2>1. CASE sent.by = "client"
    BY <2>1, RequestIs DEF RequestInv
  <2>2. CASE sent.by = "server"
    BY <2>2, ReplyIs DEF ReplyInv
  <2> QED BY <2>1, <2>2
<1> DEFINE udp == Slice(frame, 20, Len(frame))
<1>2. /\ WordSum(Slice(frame, 0, 20)) % 65535 = 0
      /\ WordSum(Slice(frame, 12, 20) \o <<0, 17>> \o PutUint16(Len(udp))
                    \o Padded(udp, Len(udp) + (Len(udp) % 2))) % 65535 = 0
  BY ONLY <1>1 DEF Summed
<1> QED BY <1>2 DEF ChecksumsRight

\* The checksums of every request and reply are right, of odd and even length
\* and however often the carries carry (checksum.go).
THEOREM ChecksumsAreRight == ShortOptions => (WireSpec => []ChecksumsRight)
<1> SUFFICES ASSUME ShortOptions PROVE WireSpec => []ChecksumsRight
  OBVIOUS
<1>1. WireInit => RequestInv /\ ReplyInv
  BY RequestInvInit, ReplyInvInit
<1>2. RequestInv /\ ReplyInv /\ [WireNext]_wireVars => (RequestInv /\ ReplyInv)'
  BY RequestInvNext, ReplyInvNext
<1>3. RequestInv /\ ReplyInv => ChecksumsRight
  BY SumsRight
<1> QED BY <1>1, <1>2, <1>3, PTL DEF WireSpec

\* What an ARP packet is to a DHCP receiver: a byte string.
LEMMA ProbeBytes ==
    ASSUME NEW a \in Probe
    PROVE  AssembleARP(a) \in Bytes
<1> DEFINE p1 == <<0, 1, 8, 0>>
           p2 == <<6, 4, 0, a.Opcode>>
           sip == To4(a.SenderIP)
           tip == To4(a.TargetIP)
<1>1. /\ a.Opcode \in Byte /\ a.SenderMAC \in Sized(6) /\ a.SenderIP \in Sized(4)
      /\ a.TargetMAC \in Sized(6) /\ a.TargetIP \in Sized(4)
  BY ProbeAssumption
<1>2. p1 \in Sized(4) /\ p2 \in Sized(4)
  <2>1. 0 \in Byte /\ 1 \in Byte /\ 8 \in Byte /\ 6 \in Byte /\ 4 \in Byte
    BY ByteIs
  <2> QED BY <1>1, <2>1, FourSized
<1>3. sip \in Sized(4) /\ tip \in Sized(4)
  BY <1>1, To4Is
<1>4. AssembleARP(a) =
         p1 \o p2 \o a.SenderMAC \o sip \o a.TargetMAC \o tip
  <2>1. <<0, 1, 8, 0, 6, 4, 0, a.Opcode>> = p1 \o p2
    OBVIOUS
  <2> HIDE DEF p1, p2
  <2> QED BY <2>1, Zenon DEF AssembleARP
<1>5. /\ p1 \in Bytes /\ p2 \in Bytes /\ sip \in Bytes /\ tip \in Bytes
      /\ a.SenderMAC \in Bytes /\ a.TargetMAC \in Bytes
  BY <1>1, <1>2, <1>3, SizedIs
<1> HIDE DEF p1, p2, sip, tip
<1>6. p1 \o p2 \o a.SenderMAC \o sip \o a.TargetMAC \o tip \in Bytes
  BY <1>5 DEF Bytes
<1> QED BY <1>4, <1>6

\* Decode finds in every packet exactly the options it is made of, whether a
\* client, a server, a probe or anybody else sent it (parse.go).
THEOREM WireExact == ShortOptions => (WireSpec => []DecodedExactly)
<1> SUFFICES ASSUME ShortOptions PROVE WireSpec => []DecodedExactly
  OBVIOUS
<1>1. WireInit => DecodeInv
  <2> SUFFICES ASSUME WireInit PROVE frame \in Bytes
    BY DecodeInvInit DEF WireInit
  <2>1. \A r \in Request : request(r) \in Bytes
    BY RequestIs
  <2>2. \A r \in Reply : sendReply(r) \in Bytes
    BY ReplyIs
  <2>3. frame \in Input => frame \in Bytes
    BY FrameAssumption DEF Bytes
  <2> QED BY <2>1, <2>2, <2>3, ProbeBytes DEF WireInit
<1>2. DecodeInv /\ [WireNext]_wireVars => DecodeInv'
  <2>1. [WireNext]_wireVars => [DecodeNext]_dhcpVars
    BY DEF WireNext, wireVars
  <2> QED BY <2>1, DecodeInvNext
<1> QED BY <1>1, <1>2, DecodeInvExact, PTL DEF WireSpec

=============================================================================
