--------------------------- MODULE DhcpMsgProofs ----------------------------
(***************************************************************************)
(* The loop of Decode over the options of a packet, for every packet; and  *)
(* what it finds, and DecodeOptions returns, when the packet has been      *)
(* made by Assemble and the option constructors.                           *)
(***************************************************************************)
EXTENDS DhcpMsg, LayerProofs

Found == [Option : Byte, at : Nat, len : Nat]

DecodeTyped ==
    /\ frame \in Seq(Byte) /\ b \in Seq(Byte)
    /\ c \in Nat /\ c >= dhcpMinLen
    /\ opt \in Byte
    /\ options \in Seq(Found)
    /\ pc \in {"frame", "options", "end", "done", "dropped"}

\* Option i lies where it claims to, and before c.
FoundRight(i) ==
    /\ dhcpMinLen <= Before(i) /\ After(i) <= Len(b) /\ After(i) <= c
    /\ At(b, Before(i)) = options[i].Option /\ options[i].Option \notin {0, OptEnd}
    /\ At(b, Before(i) + 1) = options[i].len

InOrder == \A i, j \in 1 .. Len(options) : i < j => After(i) <= Before(j)

\* Up to k there are only options and padding.
ParsedTo(k) == \A p \in dhcpMinLen .. k - 1 : Covered(p) \/ At(b, p) = 0

\* The end mark is at c - 1, and all before it is parsed.
EndSeen ==
    /\ c - 1 \in dhcpMinLen .. Len(b) - 1 /\ At(b, c - 1) = OptEnd
    /\ ParsedTo(c - 1)

DecodeInv ==
    /\ DecodeTyped
    /\ pc = "frame" => options = <<>> /\ c = dhcpMinLen /\ opt = 0
    /\ pc = "options" => c <= Len(b) /\ opt # OptEnd /\ ParsedTo(c)
    /\ \A i \in 1 .. Len(options) : FoundRight(i)
    /\ InOrder
    /\ pc = "end" /\ opt = OptEnd => EndSeen
    /\ pc = "done" => EndSeen

\* A slice of a byte string is a byte string.
LEMMA SliceTyped ==
    ASSUME NEW s \in Seq(Byte), NEW i \in Nat, i <= Len(s)
    PROVE  /\ Slice(s, i, Len(s)) \in Seq(Byte)
           /\ Len(Slice(s, i, Len(s))) = Len(s) - i
<1>1. \A k \in i + 1 .. Len(s) : s[k] \in Byte
  OBVIOUS
<1>2. i + 1 \in Int /\ Len(s) \in Int
  OBVIOUS
<1> QED BY <1>1, <1>2, SubSeqProperties DEF Slice

\* The payload of a frame that is read is a byte string.
LEMMA ReadTyped ==
    ASSUME DecodeInv, ReadFrame
    PROVE  b' \in Seq(Byte) /\ (pc' = "options" => Len(b') >= dhcpMinLen)
<1> DEFINE v4  == DecodeIPv4(frame)
           udp == IF v4 = nil THEN nil ELSE DecodeUDP(v4.Data)
<1>0. frame \in Seq(Byte) /\ b \in Seq(Byte)
  BY DEF DecodeInv, DecodeTyped
<1>1. CASE udp # nil /\ Len(udp.Data) >= dhcpMinLen /\ b' = udp.Data
  <2>1. v4 # nil /\ v4.Data = Slice(frame, IHL(frame), Len(frame))
        /\ ~(Len(frame) < 20) /\ ~(Len(frame) < IHL(frame))
    BY <1>1 DEF DecodeIPv4
  <2>2. IHL(frame) \in Nat
    <3>1. frame[1] \in Byte
      BY <1>0, <2>1
    <3> QED BY <3>1 DEF IHL, At, Byte
  <2>3. v4.Data \in Seq(Byte)
    <3>1. IHL(frame) <= Len(frame)
      BY <1>0, <2>1, <2>2
    <3> QED BY <1>0, <2>1, <2>2, <3>1, SliceTyped
  <2>4. Len(v4.Data) >= 8 /\ udp.Data = Slice(v4.Data, 8, Len(v4.Data))
    BY <1>1, <2>1 DEF DecodeUDP
  <2>5. udp.Data \in Seq(Byte)
    BY <2>3, <2>4, SliceTyped
  <2> QED BY <1>1, <2>5
<1>2. CASE pc' = "dropped" /\ b' = b
  BY <1>0, <1>2
<1> QED BY <1>1, <1>2 DEF ReadFrame

LEMMA DecodeInvInit == frame \in Bytes /\ DecodeStart => DecodeInv
BY DEF Bytes, DecodeStart, DecodeInv, DecodeTyped, InOrder, dhcpMinLen, Byte, Found

LEMMA ReadFrameKeeps == DecodeInv /\ ReadFrame => DecodeInv'
<1> SUFFICES ASSUME DecodeInv, ReadFrame PROVE DecodeInv'
  OBVIOUS
<1>1. b' \in Seq(Byte) /\ (pc' = "options" => Len(b') >= dhcpMinLen)
  BY ReadTyped
<1>2. /\ frame' = frame /\ c' = c /\ opt' = opt /\ options' = options
      /\ pc = "frame" /\ pc' \in {"options", "dropped"}
  BY DEF ReadFrame
<1>3. options = <<>> /\ c = dhcpMinLen /\ opt = 0
  BY <1>2 DEF DecodeInv
<1>4. DecodeTyped'
  BY <1>1, <1>2 DEF DecodeInv, DecodeTyped
<1>5. pc' = "options" => (c <= Len(b) /\ opt # OptEnd /\ ParsedTo(c))'
  BY <1>1, <1>2, <1>3 DEF OptEnd, ParsedTo, dhcpMinLen
<1> QED BY <1>2, <1>3, <1>4, <1>5 DEF DecodeInv, InOrder

LEMMA DecodeEndKeeps == DecodeInv /\ DecodeEnd => DecodeInv'
BY DEF DecodeInv, DecodeEnd, DecodeTyped, FoundRight, InOrder, ParsedTo, EndSeen, Covered,
       Before, After

\* What does not change the options keeps what is known of them.
LEMMA SameOptions ==
    ASSUME DecodeInv, UNCHANGED <<b, options>>, c' \in Nat, c' >= c
    PROVE  /\ \A i \in 1 .. Len(options') : FoundRight(i)'
           /\ InOrder'
           /\ \A k \in Nat : Covered(k)' <=> Covered(k)
<1>1. \A i \in 1 .. Len(options) : options[i] \in Found /\ FoundRight(i)
  BY DEF DecodeInv, DecodeTyped
<1>2. c \in Nat
  BY DEF DecodeInv, DecodeTyped
<1>3. \A i \in 1 .. Len(options') : FoundRight(i)'
  BY <1>1, <1>2 DEF FoundRight, Before, After, Found
<1>4. InOrder'
  BY DEF DecodeInv, InOrder, Before, After
<1>5. \A k \in Nat : Covered(k)' <=> Covered(k)
  BY DEF Covered, Before, After
<1> QED BY <1>3, <1>4, <1>5

\* An option that fits is added to the ones that were found.
LEMMA AppendKeeps ==
    ASSUME DecodeInv, pc = "options", UNCHANGED <<frame, b, pc>>, opt' = At(b, c),
           At(b, c) \in Byte, At(b, c + 1) \in Byte, At(b, c) \notin {0, OptEnd},
           c + 2 + At(b, c + 1) <= Len(b), c' = c + 2 + At(b, c + 1),
           options' = Append(options, [Option |-> At(b, c), at |-> c + 2, len |-> At(b, c + 1)])
    PROVE  DecodeInv'
<1>1. PICK code \in Byte, olen \in Byte, at \in Nat :
         code = At(b, c) /\ olen = At(b, c + 1) /\ at = c + 2
  BY DEF DecodeInv, DecodeTyped
<1>2. PICK new \in Found : new = [Option |-> code, at |-> at, len |-> olen]
  <2> DEFINE r == [Option |-> code, at |-> at, len |-> olen]
  <2>1. olen \in Nat
    BY DEF Byte
  <2>2. r \in Found
    BY <2>1 DEF Found
  <2> QED BY <2>2
<1>3. new.Option = code /\ new.at = at /\ new.len = olen /\ olen \in Nat
  BY <1>2 DEF Byte
<1>4. options' = Append(options, new)
  BY <1>1, <1>2
<1>5. /\ b \in Seq(Byte) /\ Len(b) \in Nat /\ options \in Seq(Found)
      /\ c \in Nat /\ c >= dhcpMinLen /\ c' = at + olen /\ c' \in Nat /\ c' <= Len(b)
  BY <1>1, <1>3 DEF DecodeInv, DecodeTyped
<1>0. PICK n \in Nat : n = Len(options)
  BY <1>5
<1>6. /\ options' \in Seq(Found) /\ Len(options') = n + 1 /\ n \in Nat
      /\ options'[n + 1] = new
      /\ \A i \in 1 .. n : options'[i] = options[i]
  BY <1>4, <1>5, <1>0
<1>7. Before(n + 1)' = c /\ After(n + 1)' = c'
  <2>1. options'[n + 1].at = c + 2 /\ options'[n + 1].len = olen
    BY <1>1, <1>3, <1>6
  <2> QED BY <2>1, <1>1, <1>3, <1>5, <1>6 DEF Before, After
<1>8. \A i \in 1 .. n : Before(i)' = Before(i) /\ After(i)' = After(i)
  BY <1>6 DEF Before, After
<1>9. \A i \in 1 .. n : /\ After(i) <= c /\ After(i) \in Int /\ FoundRight(i)
  <2>1. \A i \in 1 .. n : options[i] \in Found /\ FoundRight(i)
    BY <1>5, <1>0 DEF DecodeInv
  <2> QED BY <2>1 DEF FoundRight, After, Found
<1>10. ASSUME NEW i \in 1 .. n + 1 PROVE FoundRight(i)'
  <2>1. CASE i = n + 1
    <3>1. dhcpMinLen <= Before(i)' /\ After(i)' <= Len(b') /\ After(i)' <= c'
      BY <2>1, <1>5, <1>7 DEF dhcpMinLen
    <3>2. At(b', Before(i)') = options'[i].Option
      BY <2>1, <1>1, <1>3, <1>6, <1>7
    <3>3. At(b', Before(i)' + 1) = options'[i].len
      BY <2>1, <1>1, <1>3, <1>6, <1>7
    <3>4. options'[i].Option \notin {0, OptEnd}
      BY <2>1, <1>1, <1>3, <1>6
    <3> QED BY <3>1, <3>2, <3>3, <3>4 DEF FoundRight
  <2>2. CASE i \in 1 .. n
    <3>1. After(i)' <= c'
      BY <2>2, <1>1, <1>3, <1>5, <1>8, <1>9
    <3> QED BY <2>2, <3>1, <1>6, <1>8, <1>9 DEF FoundRight
  <2> QED BY <2>1, <2>2, <1>6
<1>11. InOrder'
  <2> SUFFICES ASSUME NEW i \in 1 .. n + 1, NEW j \in 1 .. n + 1, i < j
               PROVE  After(i)' <= Before(j)'
    BY <1>6 DEF InOrder
  <2>1. i \in 1 .. n
    BY <1>6
  <2>2. CASE j = n + 1
    BY <2>1, <2>2, <1>7, <1>8, <1>9
  <2>3. CASE j \in 1 .. n
    BY <2>1, <2>3, <1>8, <1>0 DEF DecodeInv, InOrder
  <2> QED BY <2>2, <2>3, <1>6
<1>12. ParsedTo(c)'
  <2> SUFFICES ASSUME NEW p \in dhcpMinLen .. c' - 1 PROVE Covered(p)' \/ At(b', p) = 0
    BY DEF ParsedTo
  <2>1. CASE p < c
    <3>1. Covered(p) \/ At(b, p) = 0
      BY <2>1, <1>5 DEF DecodeInv, ParsedTo, dhcpMinLen
    <3>2. ASSUME Covered(p) PROVE Covered(p)'
      <4>1. PICK i \in 1 .. n : p \in Before(i) .. After(i) - 1
        BY <3>2, <1>0 DEF Covered
      <4>2. i \in 1 .. Len(options') /\ p \in Before(i)' .. After(i)' - 1
        BY <4>1, <1>6, <1>8
      <4> QED BY <4>2 DEF Covered
    <3> QED BY <3>1, <3>2
  <2>2. CASE p >= c
    <3>1. p \in c .. c' - 1 /\ n + 1 \in 1 .. Len(options')
      BY <2>2, <1>5, <1>6 DEF dhcpMinLen
    <3>2. p \in Before(n + 1)' .. After(n + 1)' - 1
      BY <3>1, <1>7
    <3> QED BY <3>1, <3>2 DEF Covered
  <2> QED BY <2>1, <2>2, <1>5 DEF dhcpMinLen
<1>13. DecodeTyped'
  BY <1>1, <1>3, <1>5, <1>6 DEF DecodeInv, DecodeTyped, dhcpMinLen
<1> QED BY <1>1, <1>5, <1>6, <1>10, <1>11, <1>12, <1>13 DEF DecodeInv, OptEnd

LEMMA DecodeOptionKeeps == DecodeInv /\ DecodeOption => DecodeInv'
<1> SUFFICES ASSUME DecodeInv, DecodeOption PROVE DecodeInv'
  OBVIOUS
<1> DEFINE code == At(b, c)
           olen == At(b, c + 1)
           at   == c + 2
<1>1. /\ pc = "options" /\ c < Len(b) /\ c \in Nat /\ c >= dhcpMinLen
      /\ frame' = frame /\ b' = b /\ opt' = code
      /\ b \in Seq(Byte) /\ options \in Seq(Found)
      /\ ParsedTo(c)
  BY DEF DecodeInv, DecodeTyped, DecodeOption
<1>2. code \in Byte /\ (c + 1 < Len(b) => olen \in Byte)
  BY <1>1 DEF At
<1>3. CASE code = 0 /\ c' = c + 1 /\ UNCHANGED <<options, pc>>
  <2>1. /\ \A i \in 1 .. Len(options') : FoundRight(i)'
        /\ InOrder'
        /\ \A k \in Nat : Covered(k)' <=> Covered(k)
    BY <1>1, <1>3, SameOptions
  <2>2. DecodeTyped'
    BY <1>1, <1>2, <1>3 DEF DecodeInv, DecodeTyped, dhcpMinLen
  <2>3. ParsedTo(c)'
    <3> SUFFICES ASSUME NEW p \in dhcpMinLen .. c PROVE Covered(p)' \/ At(b', p) = 0
      BY <1>1, <1>3 DEF ParsedTo, dhcpMinLen
    <3>1. CASE p = c
      BY <3>1, <1>1, <1>3
    <3>2. CASE p < c
      BY <3>2, <1>1, <2>1 DEF ParsedTo, dhcpMinLen
    <3> QED BY <3>1, <3>2, <1>1 DEF dhcpMinLen
  <2> QED BY <1>1, <1>3, <2>1, <2>2, <2>3 DEF DecodeInv, OptEnd
<1>4. CASE /\ code # 0
           /\ c + 1 >= Len(b) \/ code = OptEnd
           /\ c' = c + 1 /\ pc' = "end" /\ options' = options
  <2>1. /\ \A i \in 1 .. Len(options') : FoundRight(i)'
        /\ InOrder'
        /\ \A k \in Nat : Covered(k)' <=> Covered(k)
    BY <1>1, <1>4, SameOptions
  <2>2. DecodeTyped'
    BY <1>1, <1>2, <1>4 DEF DecodeInv, DecodeTyped, dhcpMinLen
  <2>3. code = OptEnd => EndSeen'
    BY <1>1, <1>4, <2>1 DEF EndSeen, ParsedTo, dhcpMinLen
  <2> QED BY <1>1, <1>4, <2>1, <2>2, <2>3 DEF DecodeInv
<1>5. CASE /\ code # 0 /\ code # OptEnd /\ c + 1 < Len(b)
           /\ c' = at /\ pc' = "end" /\ options' = options
  <2>1. /\ \A i \in 1 .. Len(options') : FoundRight(i)'
        /\ InOrder'
    BY <1>1, <1>5, SameOptions
  <2>2. DecodeTyped'
    BY <1>1, <1>2, <1>5 DEF DecodeInv, DecodeTyped, dhcpMinLen
  <2> QED BY <1>1, <1>5, <2>1, <2>2 DEF DecodeInv
<1>6. CASE /\ code # 0 /\ code # OptEnd /\ c + 1 < Len(b) /\ at + olen <= Len(b)
           /\ c' = at + olen /\ pc' = pc
           /\ options' = Append(options, [Option |-> code, at |-> at, len |-> olen])
  <2> QED BY <1>1, <1>2, <1>6, AppendKeeps
<1> QED BY <1>1, <1>3, <1>4, <1>5, <1>6 DEF DecodeOption, PastCode, Fits

LEMMA DecodeInvNext == DecodeInv /\ [DecodeNext]_dhcpVars => DecodeInv'
<1> SUFFICES ASSUME DecodeInv, [DecodeNext]_dhcpVars PROVE DecodeInv'
  OBVIOUS
<1>1. CASE UNCHANGED dhcpVars
  BY <1>1 DEF dhcpVars, DecodeInv, DecodeTyped, FoundRight, InOrder, ParsedTo, EndSeen,
              Covered, Before, After
<1> QED BY <1>1, ReadFrameKeeps, DecodeOptionKeeps, DecodeEndKeeps DEF DecodeNext

LEMMA DecodeInvExact == DecodeInv => DecodedExactly
<1> SUFFICES ASSUME DecodeInv PROVE DecodedExactly
  OBVIOUS
<1>1. pc = "done" => /\ c - 1 \in dhcpMinLen .. Len(b) - 1 /\ At(b, c - 1) = OptEnd
                     /\ \A k \in dhcpMinLen .. c - 2 : Covered(k) \/ At(b, k) = 0
  BY DEF DecodeInv, DecodeTyped, EndSeen, ParsedTo, dhcpMinLen
<1> QED BY <1>1 DEF DecodeInv, DecodedExactly, FoundRight, InOrder

\* Every packet is parsed exactly: options lie inside of it, one behind the
\* other, and nothing else but padding comes before the end mark.
THEOREM DecodeExact == DecodeSafety => []DecodedExactly
<1>1. frame \in Input => frame \in Bytes
  BY FrameAssumption DEF Bytes
<1> QED BY <1>1, DecodeInvInit, DecodeInvNext, DecodeInvExact, PTL DEF DecodeSafety
-----------------------------------------------------------------------------
(***************************************************************************)
(* The bytes of a list of options.                                         *)
(***************************************************************************)

\* PutUint32 writes what Uint32 reads.
LEMMA PutLong ==
    ASSUME NEW n \in Long
    PROVE  /\ PutUint32(n) \in Sized(4)
           /\ \A s \in Bytes, i \in Nat : HasAt(s, i, PutUint32(n)) => Uint32(s, i) = n
<1> DEFINE x == PutUint16(n \div 65536)
           y == PutUint16(n % 65536)
<1>1. n \in Nat /\ n \div 65536 \in Word /\ n % 65536 \in Word
  BY DEF Long, Word
<1>2. x \in Sized(2) /\ y \in Sized(2)
  BY <1>1, PutWord
<1>3. PutUint32(n) = x \o y
  BY DEF PutUint32
<1>4. x \o y \in Sized(2 + 2)
  <2> HIDE DEF x, y
  <2> QED BY <1>2, CatSized
<1>5. ASSUME NEW s \in Bytes, NEW i \in Nat, HasAt(s, i, x \o y) PROVE Uint32(s, i) = n
  <2>1. x \in Bytes /\ y \in Bytes /\ Len(x) = 2
    BY <1>2 DEF Sized
  <2>2. HasAt(s, i, x) /\ HasAt(s, i + 2, y)
    <3> HIDE DEF x, y
    <3>1. HasAt(s, i, x) /\ HasAt(s, i + Len(x), y)
      BY <1>5, <2>1, SplitHas, Zenon
    <3> QED BY <2>1, <3>1
  <2>3. Uint16(s, i) = n \div 65536 /\ Uint16(s, i + 2) = n % 65536
    <3>1. i + 2 \in Nat
      OBVIOUS
    <3> QED BY <1>1, <2>2, <3>1, PutWord
  <2>4. PICK h \in Nat, m \in Nat : h = n \div 65536 /\ m = n % 65536 /\ n = 65536 * h + m
    BY <1>1 DEF Word
  <2>5. Uint32(s, i) = 65536 * h + m
    BY <2>3, <2>4 DEF Uint32
  <2> QED BY <2>4, <2>5
<1> HIDE DEF x, y
<1> QED BY <1>3, <1>4, <1>5

\* The options as bytes, one after the other.
AllOptions(opts) ==
    CHOOSE f : f = [n \in Nat |-> IF n = 0 THEN <<>> ELSE f[n - 1] \o OptionBytes(opts[n])]

\* Concatenation as an operator, which no prover takes apart.
Cat(x, y) == x \o y

\* The empty sequence.
Nothing == <<>>

\* Concatenation of the parts a function gives.
LEMMA PartsOf ==
    ASSUME NEW w
    PROVE  \E f : f = [n \in Nat |-> IF n = 0 THEN Nothing ELSE Cat(f[n - 1], w[n])]
<1> DEFINE To(f, k) == \A n \in 0 .. k : f[n] = IF n = 0 THEN Nothing ELSE Cat(f[n - 1], w[n])
           S == {k \in Nat : \E f : To(f, k)}
           Same == {n \in Nat : \A f, g : To(f, n) /\ To(g, n) => f[n] = g[n]}
           F(k) == CHOOSE f : To(f, k)
           sum == [n \in Nat |-> F(n)[n]]
<1>1. \A k \in Nat : k \in S
  <2>1. ASSUME NEW k \in Nat, \A j \in 0 .. k - 1 : j \in S
        PROVE  k \in S
    <3>1. CASE k = 0
      <4> DEFINE f == [n \in {0} |-> Nothing]
      <4>1. To(f, 0)
        OBVIOUS
      <4> QED BY <3>1, <4>1
    <3>2. CASE k # 0
      <4>1. PICK f : To(f, k - 1)
        BY <2>1, <3>2
      <4> DEFINE g == [n \in 0 .. k |-> IF n = k THEN Cat(f[k - 1], w[k]) ELSE f[n]]
      <4>2. To(g, k)
        BY <4>1, <3>2
      <4> QED BY <4>2
    <3> QED BY <3>1, <3>2
  <2> HIDE DEF S
  <2>2. S \subseteq Nat
    BY DEF S
  <2> QED BY <2>1, <2>2, AllNumbers
<1>2. \A k \in Nat : k \in Same
  <2>1. ASSUME NEW k \in Nat, \A j \in 0 .. k - 1 : j \in Same
        PROVE  k \in Same
    <3> SUFFICES ASSUME NEW f, NEW g, To(f, k), To(g, k) PROVE f[k] = g[k]
      OBVIOUS
    <3>1. CASE k # 0
      <4>1. To(f, k - 1) /\ To(g, k - 1)
        BY <3>1
      <4>2. f[k - 1] = g[k - 1]
        BY <2>1, <3>1, <4>1
      <4> QED BY <3>1, <4>2
    <3> QED BY <3>1
  <2> HIDE DEF Same
  <2>2. Same \subseteq Nat
    BY DEF Same
  <2> QED BY <2>1, <2>2, AllNumbers
<1>3. \A k \in Nat : To(F(k), k)
  <2> SUFFICES ASSUME NEW k \in Nat PROVE To(F(k), k)
    OBVIOUS
  <2>1. \E f : To(f, k)
    BY <1>1
  <2> HIDE DEF To
  <2> QED BY <2>1
<1> HIDE DEF F
<1>4. ASSUME NEW n \in Nat, n # 0 PROVE sum[n] = Cat(sum[n - 1], w[n])
  <2>1. To(F(n), n) /\ To(F(n), n - 1) /\ To(F(n - 1), n - 1)
    BY <1>3, <1>4
  <2>2. F(n)[n - 1] = F(n - 1)[n - 1]
    BY <1>2, <1>4, <2>1
  <2> QED BY <1>4, <2>1, <2>2
<1>5. sum[0] = Nothing
  BY <1>3
<1>6. sum = [n \in Nat |-> IF n = 0 THEN Nothing ELSE Cat(sum[n - 1], w[n])]
  BY <1>4, <1>5
<1> QED BY <1>6

\* The equation of AllOptions.
LEMMA AllOptionsIs ==
    ASSUME NEW opts
    PROVE  /\ AllOptions(opts)[0] = <<>>
           /\ \A n \in Nat : n # 0 =>
                 AllOptions(opts)[n] = Cat(AllOptions(opts)[n - 1], OptionBytes(opts[n]))
<1> DEFINE w == [n \in Nat |-> OptionBytes(opts[n])]
<1> HIDE DEF w
<1>1. PICK f : f = [n \in Nat |-> IF n = 0 THEN Nothing ELSE Cat(f[n - 1], w[n])]
  BY PartsOf, Zenon
<1>2. f = [n \in Nat |-> IF n = 0 THEN Nothing ELSE Cat(f[n - 1], OptionBytes(opts[n]))]
  BY <1>1 DEF w
<1> DEFINE g == AllOptions(opts)
<1>3. g = [n \in Nat |-> IF n = 0 THEN Nothing ELSE Cat(g[n - 1], OptionBytes(opts[n]))]
  BY <1>2, Zenon DEF AllOptions, Cat, Nothing
<1> HIDE DEF g
<1>4. g[0] = Nothing
  BY <1>3
<1>5. \A n \in Nat : n # 0 => g[n] = Cat(g[n - 1], OptionBytes(opts[n]))
  BY <1>3
<1> QED BY <1>4, <1>5 DEF g, Nothing

\* The bytes of a list of options are those of AllOptions, and an end mark.
LEMMA OptionsBytesIs ==
    ASSUME NEW opts
    PROVE  OptionsBytes(opts) =
              IF Len(opts) > 0 THEN AllOptions(opts)[Len(opts)] \o <<OptEnd>> ELSE <<>>
BY Zenon DEF OptionsBytes, AllOptions

\* The options that can be sent: the others have no code or no length.
OptionSet == {o \in [Option : Byte, Data : Bytes] : o.Option \notin {0, 255} /\ Len(o.Data) < 256}

\* The parts of an option.
LEMMA OptionIs ==
    ASSUME NEW o \in OptionSet
    PROVE  /\ o.Option \in Byte /\ o.Option # 0 /\ o.Option # 255 /\ o.Data \in Bytes
           /\ Len(o.Data) \in Nat /\ Len(o.Data) < 256 /\ o = Opt(o.Option, o.Data)
BY DEF OptionSet, Bytes, Opt

\* Numbers below 256 fit in a byte.
LEMMA SmallByte == \A n \in Nat : n < 256 => n % 256 = n
OBVIOUS

\* The bytes of an option: code, length and data.
LEMMA OptionBytesIs ==
    ASSUME NEW o \in OptionSet
    PROVE  /\ OptionBytes(o) \in Sized(2 + Len(o.Data))
           /\ OptionBytes(o)[1] = o.Option /\ OptionBytes(o)[2] = Len(o.Data)
           /\ HasAt(OptionBytes(o), 2, o.Data)
<1>1. PICK code \in Byte, y \in Bytes, l \in Nat :
        code = o.Option /\ y = o.Data /\ l = Len(o.Data) /\ l < 256
  BY OptionIs
<1>2. l \in Byte /\ l % 256 = l /\ y \in Sized(l)
  <2>1. l \in Byte
    BY <1>1, ByteIs
  <2>2. y \in Sized(l)
    BY <1>1, IsSized
  <2>3. l % 256 = l
    BY <1>1, SmallByte
  <2> QED BY <2>1, <2>2, <2>3
<1>3. <<code, l>> \in Sized(2) /\ <<code, l>>[1] = code /\ <<code, l>>[2] = l
  BY <1>2, TwoSized
<1> DEFINE x == <<code, l>>
           z == x \o y
<1>4. OptionBytes(o) = z
  BY <1>1, <1>2, Zenon DEF OptionBytes
<1> HIDE DEF x
<1>5. z \in Sized(2 + l) /\ HasAt(z, 0, x) /\ HasAt(z, 2, y)
  BY <1>2, <1>3, CatSized DEF x
<1> HIDE DEF z
<1>6. z[0 + 1] = x[1] /\ z[0 + 2] = x[2]
  <2>1. 2 + l \in Nat /\ x \in Sized(2)
    BY <1>3 DEF x
  <2> QED BY <1>5, <2>1, HasSized
<1>7. z[1] = code /\ z[2] = l
  BY <1>3, <1>6 DEF x
<1> QED BY <1>1, <1>4, <1>5, <1>7

\* Where an option ends, behind the header.
Start(opts, n) == Len(AllOptions(opts)[n])

\* The bytes of the first options are byte strings.
LEMMA AllOptionsTyped ==
    ASSUME NEW opts \in Seq(OptionSet)
    PROVE  \A n \in Nat : n <= Len(opts) => AllOptions(opts)[n] \in Bytes
<1> DEFINE S == {n \in Nat : n <= Len(opts) => AllOptions(opts)[n] \in Bytes}
<1>1. ASSUME NEW n \in Nat, \A k \in 0 .. n - 1 : k \in S PROVE n \in S
  <2>1. CASE n = 0
    BY <2>1, AllOptionsIs, NoBytes
  <2>2. CASE n # 0
    <3>1. SUFFICES ASSUME n <= Len(opts) PROVE AllOptions(opts)[n] \in Bytes
      OBVIOUS
    <3>2. n - 1 \in 0 .. n - 1 /\ n - 1 <= Len(opts) /\ n \in 1 .. Len(opts)
      BY <2>2, <3>1
    <3>3. AllOptions(opts)[n - 1] \in Bytes
      BY <1>1, <3>2
    <3>4. opts[n] \in OptionSet
      BY <3>2
    <3>5. OptionBytes(opts[n]) \in Bytes
      <4>1. 2 + Len(opts[n].Data) \in Nat
        BY <3>4, OptionIs
      <4>2. OptionBytes(opts[n]) \in Sized(2 + Len(opts[n].Data))
        BY <3>4, OptionBytesIs
      <4> QED BY <4>1, <4>2, SizedIs
    <3>6. AllOptions(opts)[n] = Cat(AllOptions(opts)[n - 1], OptionBytes(opts[n]))
      BY <2>2, AllOptionsIs
    <3> QED BY <3>3, <3>5, <3>6, CatIs DEF Cat
  <2> QED BY <2>1, <2>2
<1> HIDE DEF S
<1>2. S \subseteq Nat
  BY DEF S
<1>3. \A n \in Nat : n \in S
  BY <1>1, <1>2, AllNumbers
<1> QED BY <1>3 DEF S

\* One more option.
LEMMA AllOptionsNext ==
    ASSUME NEW opts \in Seq(OptionSet), NEW n \in Nat, n # 0, n <= Len(opts)
    PROVE  /\ opts[n] \in OptionSet /\ n - 1 \in Nat
           /\ Start(opts, n - 1) \in Nat /\ Start(opts, n) \in Nat
           /\ Start(opts, n) = Start(opts, n - 1) + 2 + Len(opts[n].Data)
           /\ AllOptions(opts)[n - 1] \in Bytes /\ AllOptions(opts)[n] \in Bytes
           /\ OptionBytes(opts[n]) \in Bytes /\ Len(OptionBytes(opts[n])) = 2 + Len(opts[n].Data)
           /\ HasAt(AllOptions(opts)[n], 0, AllOptions(opts)[n - 1])
           /\ HasAt(AllOptions(opts)[n], Start(opts, n - 1), OptionBytes(opts[n]))
<1> DEFINE x == AllOptions(opts)[n - 1]
           y == OptionBytes(opts[n])
           z == AllOptions(opts)[n]
<1>1. n - 1 \in Nat /\ n - 1 <= Len(opts) /\ n \in 1 .. Len(opts)
  OBVIOUS
<1>2. x \in Bytes /\ z \in Bytes
  BY <1>1, AllOptionsTyped
<1>3. opts[n] \in OptionSet
  BY <1>1
<1>4. Len(opts[n].Data) \in Nat
  BY <1>3, OptionIs
<1>5. y \in Sized(2 + Len(opts[n].Data))
  BY <1>3, OptionBytesIs
<1>6. y \in Bytes /\ Len(y) = 2 + Len(opts[n].Data)
  <2>1. 2 + Len(opts[n].Data) \in Nat
    BY <1>4
  <2> QED BY <1>5, <2>1, SizedIs
<1>7. z = Cat(x, y)
  BY AllOptionsIs
<1> HIDE DEF x, y, z
<1>8. /\ Cat(x, y) \in Bytes /\ Len(Cat(x, y)) = Len(x) + Len(y)
      /\ HasAt(Cat(x, y), 0, x) /\ HasAt(Cat(x, y), Len(x), y) /\ Len(x) \in Nat
  BY <1>2, <1>6, CatIs, SizedLen DEF Cat
<1> DEFINE d == Len(opts[n].Data)
<1>9. d \in Nat /\ Len(y) = 2 + d
  BY <1>4, <1>6
<1> HIDE DEF d
<1>10. Len(z) = Len(x) + 2 + d /\ Len(z) \in Nat
  <2>1. Len(z) = Len(x) + Len(y)
    BY <1>7, <1>8
  <2> QED BY <1>8, <1>9, <2>1
<1> QED BY <1>1, <1>2, <1>3, <1>6, <1>7, <1>8, <1>10 DEF x, y, z, d, Start

\* The first option starts at the start.
LEMMA StartZero ==
    ASSUME NEW opts
    PROVE  Start(opts, 0) = 0
BY AllOptionsIs DEF Start

\* Options have at most 257 bytes each.
LEMMA StartBound ==
    ASSUME NEW opts \in Seq(OptionSet)
    PROVE  \A n \in Nat : n <= Len(opts) => Start(opts, n) \in Nat /\ Start(opts, n) <= 257 * n
<1> DEFINE S == {n \in Nat : n <= Len(opts) => Start(opts, n) \in Nat /\ Start(opts, n) <= 257 * n}
<1>1. ASSUME NEW n \in Nat, \A k \in 0 .. n - 1 : k \in S PROVE n \in S
  <2>1. CASE n = 0
    BY <2>1, StartZero
  <2>2. CASE n # 0
    <3>1. SUFFICES ASSUME n <= Len(opts) PROVE Start(opts, n) \in Nat /\ Start(opts, n) <= 257 * n
      OBVIOUS
    <3> DEFINE d == Len(opts[n].Data)
    <3>2. Start(opts, n) = Start(opts, n - 1) + 2 + d /\ n \in 1 .. Len(opts)
      BY <2>2, <3>1, AllOptionsNext
    <3>3. d \in Nat /\ d < 256
      BY <3>2, OptionIs
    <3> HIDE DEF d
    <3>4. n - 1 \in 0 .. n - 1 /\ n - 1 <= Len(opts)
      BY <2>2, <3>1
    <3>5. Start(opts, n - 1) \in Nat /\ Start(opts, n - 1) <= 257 * (n - 1)
      BY <1>1, <3>4
    <3> QED BY <3>2, <3>3, <3>5
  <2> QED BY <2>1, <2>2
<1> HIDE DEF S
<1>2. S \subseteq Nat
  BY DEF S
<1>3. \A n \in Nat : n \in S
  BY <1>1, <1>2, AllNumbers
<1> QED BY <1>3 DEF S

\* Each option is where the ones before it end.
LEMMA AllOptionsHas ==
    ASSUME NEW opts \in Seq(OptionSet)
    PROVE  \A n \in Nat : n <= Len(opts) =>
              \A k \in 1 .. n : HasAt(AllOptions(opts)[n], Start(opts, k - 1), OptionBytes(opts[k]))
<1> DEFINE Has(n, k) == HasAt(AllOptions(opts)[n], Start(opts, k - 1), OptionBytes(opts[k]))
           S == {n \in Nat : n <= Len(opts) => \A k \in 1 .. n : Has(n, k)}
<1>1. ASSUME NEW n \in Nat, \A k \in 0 .. n - 1 : k \in S PROVE n \in S
  <2> SUFFICES ASSUME n <= Len(opts), NEW k \in 1 .. n PROVE Has(n, k)
    OBVIOUS
  <2>1. n # 0 /\ n - 1 \in 0 .. n - 1 /\ n - 1 <= Len(opts)
    OBVIOUS
  <2>2. CASE k = n
    BY <2>1, <2>2, AllOptionsNext
  <2>3. CASE k # n
    <3>1. k \in 1 .. n - 1 /\ k \in 1 .. Len(opts) /\ k - 1 \in Nat /\ k - 1 <= Len(opts)
          /\ k \in Nat /\ k # 0
      BY <2>3
    <3>2. Has(n - 1, k)
      BY <1>1, <2>1, <3>1
    <3>3. AllOptions(opts)[n - 1] \in Bytes /\ AllOptions(opts)[n] \in Bytes
          /\ HasAt(AllOptions(opts)[n], 0, AllOptions(opts)[n - 1])
      BY <2>1, AllOptionsNext
    <3>4. OptionBytes(opts[k]) \in Bytes /\ Start(opts, k - 1) \in Nat
      BY <3>1, AllOptionsNext
    <3> DEFINE s == AllOptions(opts)[n]
               x == AllOptions(opts)[n - 1]
               y == OptionBytes(opts[k])
               i == Start(opts, k - 1)
    <3>5. s \in Bytes /\ x \in Bytes /\ y \in Bytes /\ i \in Nat /\ HasAt(s, 0, x) /\ HasAt(x, i, y)
      BY <3>2, <3>3, <3>4
    <3> HIDE DEF s, x, y, i
    <3>6. HasAt(s, 0 + i, y)
      BY <3>5, HasPart
    <3>7. 0 + i = i
      BY <3>5
    <3> QED BY <3>6, <3>7 DEF s, x, y, i
  <2> QED BY <2>2, <2>3
<1> HIDE DEF S
<1>2. S \subseteq Nat
  BY DEF S
<1>3. \A n \in Nat : n \in S
  BY <1>1, <1>2, AllNumbers
<1> QED BY <1>3 DEF S

\* The options with their end mark.
LEMMA OptionsHas ==
    ASSUME NEW opts \in Seq(OptionSet), Len(opts) > 0
    PROVE  /\ Start(opts, Len(opts)) \in Nat /\ Len(opts) \in Nat
           /\ OptionsBytes(opts) \in Sized(Start(opts, Len(opts)) + 1)
           /\ OptionsBytes(opts)[Start(opts, Len(opts)) + 1] = OptEnd
           /\ \A k \in 1 .. Len(opts) :
                 HasAt(OptionsBytes(opts), Start(opts, k - 1), OptionBytes(opts[k]))
<1> DEFINE n == Len(opts)
           x == AllOptions(opts)[n]
           y == <<OptEnd>>
           l == Start(opts, n)
           z == Cat(x, y)
<1>0. n \in Nat /\ n # 0 /\ n <= n /\ n > 0
  OBVIOUS
<1>1. l \in Nat /\ x \in Bytes /\ l = Len(x)
  BY <1>0, AllOptionsNext DEF Start
<1>2. y \in Sized(1) /\ y[1] = OptEnd
  <2>1. OptEnd \in Byte
    BY ByteIs DEF OptEnd
  <2> QED BY <2>1, OneByte, IsSized
<1>3. OptionsBytes(opts) = z
  BY <1>0, OptionsBytesIs DEF Cat
<1>4. \A k \in 1 .. n : HasAt(x, Start(opts, k - 1), OptionBytes(opts[k]))
  BY <1>0, AllOptionsHas
<1>5. ASSUME NEW k \in 1 .. n PROVE OptionBytes(opts[k]) \in Bytes /\ Start(opts, k - 1) \in Nat
  <2>1. k \in Nat /\ k # 0 /\ k <= Len(opts)
    OBVIOUS
  <2> QED BY <2>1, AllOptionsNext
<1> HIDE DEF n, x, y, l
<1>6. x \in Sized(l)
  BY <1>1, IsSized
<1>7. z \in Sized(l + 1) /\ HasAt(z, 0, x) /\ HasAt(z, l, y)
  BY <1>1, <1>2, <1>6, CatSized DEF Cat
<1> HIDE DEF z
<1>8. z[l + 1] = OptEnd
  <2>1. l + 1 \in Nat
    BY <1>1
  <2>2. z[l + 1] = y[1]
    BY <1>1, <1>2, <1>7, <2>1, HasSized
  <2> QED BY <1>2, <2>2
<1>9. ASSUME NEW k \in 1 .. n PROVE HasAt(z, Start(opts, k - 1), OptionBytes(opts[k]))
  <2>1. z \in Bytes
    <3>1. l + 1 \in Nat
      BY <1>1
    <3> QED BY <1>7, <3>1, SizedIs
  <2> DEFINE i == Start(opts, k - 1)
             w == OptionBytes(opts[k])
  <2>2. i \in Nat /\ w \in Bytes /\ HasAt(x, i, w)
    BY <1>4, <1>5
  <2> HIDE DEF i, w
  <2>3. HasAt(z, 0 + i, w)
    BY <1>1, <1>7, <2>1, <2>2, HasPart
  <2>4. 0 + i = i
    BY <2>2
  <2> QED BY <2>3, <2>4 DEF i, w
<1> QED BY <1>0, <1>1, <1>3, <1>7, <1>8, <1>9 DEF n, l
-----------------------------------------------------------------------------
(***************************************************************************)
(* What Decode finds in a message with these options.                      *)
(***************************************************************************)

\* p is a message with the options opts.
Carries(p, opts) ==
    /\ p \in Sized(241 + Start(opts, Len(opts)))
    /\ HasAt(p, 240, OptionsBytes(opts))

\* The length of a message with these options.
LEMMA CarriesLen ==
    ASSUME NEW opts \in Seq(OptionSet), Len(opts) > 0, NEW p, Carries(p, opts)
    PROVE  /\ p \in Bytes /\ Len(p) = 241 + Start(opts, Len(opts))
           /\ Start(opts, Len(opts)) \in Nat
           /\ At(p, 240 + Start(opts, Len(opts))) = OptEnd
<1> DEFINE l == Start(opts, Len(opts))
           y == OptionsBytes(opts)
<1>1. l \in Nat /\ y \in Sized(l + 1) /\ y[l + 1] = OptEnd
  BY OptionsHas
<1>2. p \in Sized(241 + l) /\ HasAt(p, 240, y)
  BY DEF Carries
<1> HIDE DEF l, y
<1>3. 241 + l \in Nat /\ l + 1 \in Nat /\ 240 + (l + 1) = (240 + l) + 1 /\ 1 <= l + 1
  BY <1>1
<1>4. p \in Bytes /\ Len(p) = 241 + l
  BY <1>2, <1>3, SizedIs
<1>5. p[240 + (l + 1)] = y[l + 1]
  BY <1>1, <1>2, <1>3, HasSized
<1>6. At(p, 240 + l) = OptEnd
  BY <1>1, <1>3, <1>5 DEF At
<1> QED BY <1>1, <1>4, <1>6 DEF l

\* Option k of a message.
LEMMA CarriesOption ==
    ASSUME NEW opts \in Seq(OptionSet), Len(opts) > 0, NEW p, Carries(p, opts),
           NEW k \in 1 .. Len(opts), NEW i, i = Start(opts, k - 1)
    PROVE  /\ i \in Nat /\ Start(opts, k) = i + 2 + Len(opts[k].Data)
           /\ Start(opts, k) <= Start(opts, Len(opts))
           /\ At(p, 240 + i) = opts[k].Option
           /\ At(p, 241 + i) = Len(opts[k].Data)
           /\ Slice(p, 242 + i, 242 + i + Len(opts[k].Data)) = opts[k].Data
<1> DEFINE l == Start(opts, Len(opts))
           y == OptionsBytes(opts)
           z == OptionBytes(opts[k])
           data == opts[k].Data
           n == Len(data)
           code == opts[k].Option
<1>1. l \in Nat /\ y \in Sized(l + 1) /\ HasAt(y, i, z)
  BY OptionsHas
<1>2. p \in Sized(241 + l) /\ HasAt(p, 240, y)
  BY DEF Carries
<1>3. opts[k] \in OptionSet
  OBVIOUS
<1>4. n \in Nat /\ data \in Bytes
  BY <1>3, OptionIs
<1>5. z \in Sized(2 + n) /\ z[1] = code /\ z[2] = n /\ HasAt(z, 2, data)
  BY <1>3, OptionBytesIs
<1>6. i \in Nat /\ Start(opts, k) = i + 2 + n
  BY AllOptionsNext
<1> HIDE DEF l, y, z, data, n, code
<1>a. data \in Sized(n)
  BY <1>4, IsSized DEF n
<1>7. p \in Bytes /\ y \in Bytes /\ z \in Bytes
  <2>1. 241 + l \in Nat /\ l + 1 \in Nat /\ 2 + n \in Nat
    BY <1>1, <1>4
  <2> QED BY <1>1, <1>2, <1>5, <2>1, SizedIs
<1>8. HasAt(p, 240 + i, z)
  BY <1>1, <1>2, <1>6, <1>7, HasPart
<1>9. 240 + i \in Nat /\ 241 + l \in Nat /\ 2 + n \in Nat /\ 240 + i + 1 = (240 + i) + 1
      /\ 240 + i + 2 = 241 + i + 1 /\ (240 + i) + 2 = 242 + i /\ 1 <= 2 + n /\ 2 <= 2 + n
      /\ 242 + i \in Nat
  BY <1>1, <1>4, <1>6
<1>10. p[240 + i + 1] = z[1] /\ p[240 + i + 2] = z[2]
  BY <1>2, <1>5, <1>8, <1>9, HasSized
<1>11. At(p, 240 + i) = code /\ At(p, 241 + i) = n
  BY <1>5, <1>9, <1>10 DEF At
<1>12. HasAt(p, (240 + i) + 2, data)
  BY <1>4, <1>5, <1>7, <1>8, <1>9, HasPart
<1>13. Slice(p, 242 + i, 242 + i + n) = data
  <2>1. HasAt(p, 242 + i, data)
    BY <1>9, <1>12
  <2> QED BY <1>2, <1>4, <1>a, <1>9, <2>1, HasSized
<1>14. Start(opts, k) <= l
  <2>2. Start(opts, k) \in Nat
        /\ \A m \in Nat : m <= Len(opts) /\ k <= m => Start(opts, k) <= Start(opts, m)
    <3> DEFINE S == {m \in Nat : m <= Len(opts) /\ k <= m => Start(opts, k) <= Start(opts, m)}
    <3>0. Start(opts, k) \in Nat
      BY StartBound
    <3>1. ASSUME NEW m \in Nat, \A j \in 0 .. m - 1 : j \in S PROVE m \in S
      <4> SUFFICES ASSUME m <= Len(opts), k <= m PROVE Start(opts, k) <= Start(opts, m)
        OBVIOUS
      <4>1. CASE m = k
        BY <3>0, <4>1
      <4>2. CASE m # k
        <5>1. m - 1 \in 0 .. m - 1 /\ m - 1 <= Len(opts) /\ k <= m - 1 /\ m \in 1 .. Len(opts)
              /\ m # 0
          BY <4>2
        <5>2. Start(opts, k) <= Start(opts, m - 1)
          BY <3>1, <5>1
        <5> DEFINE d == Len(opts[m].Data)
        <5>3. d \in Nat
          BY <5>1, OptionIs
        <5>4. Start(opts, m) = Start(opts, m - 1) + 2 + d /\ Start(opts, m - 1) \in Nat
          BY <5>1, AllOptionsNext
        <5> HIDE DEF d
        <5> QED BY <3>0, <5>2, <5>3, <5>4
      <4> QED BY <4>1, <4>2
    <3> HIDE DEF S
    <3>2. S \subseteq Nat
      BY DEF S
    <3>3. \A m \in Nat : m \in S
      BY <3>1, <3>2, AllNumbers
    <3> QED BY <3>0, <3>3 DEF S
  <2>3. Len(opts) \in Nat /\ Len(opts) <= Len(opts) /\ k <= Len(opts)
    OBVIOUS
  <2> QED BY <2>2, <2>3 DEF l
<1> QED BY <1>6, <1>11, <1>13, <1>14 DEF l, data, n, code

\* What the loop has found of the options opts when it has found the first k.
FoundIn(opts, k) ==
    [Option |-> opts[k].Option, at |-> 242 + Start(opts, k - 1), len |-> Len(opts[k].Data)]

\* The loop over a message with the options opts: it finds them one by one.
Reads(opts) ==
    /\ pc \in {"frame", "options", "end", "done"}
    /\ pc = "frame" => DecodeStart
    /\ pc # "frame" =>
          /\ Carries(b, opts)
          /\ Len(options) <= Len(opts)
          /\ options = [k \in 1 .. Len(options) |-> FoundIn(opts, k)]
          /\ Len(options) \in Nat
    /\ pc = "options" => c = 240 + Start(opts, Len(options)) /\ opt # OptEnd
    /\ pc \in {"end", "done"} => Len(options) = Len(opts) /\ opt = OptEnd

\* Decode accepts the message when all options are read.
LEMMA DecodeEndReads ==
    ASSUME NEW opts \in Seq(OptionSet), Len(opts) > 0, Reads(opts), DecodeEnd
    PROVE  Reads(opts)'
<1>1. pc = "end"
  <2> SUFFICES ASSUME pc = "options", c >= Len(b) PROVE FALSE
    BY DEF DecodeEnd
  <2>1. /\ Carries(b, opts) /\ Len(options) <= Len(opts) /\ Len(options) \in Nat
        /\ c = 240 + Start(opts, Len(options))
    BY DEF Reads
  <2>2. Len(b) = 241 + Start(opts, Len(opts)) /\ Start(opts, Len(opts)) \in Nat
    BY <2>1, CarriesLen
  <2> DEFINE n == Len(options)
  <2>3. Start(opts, n) \in Nat /\ Start(opts, n) <= Start(opts, Len(opts))
    <3>1. CASE n = 0
      BY <2>2, <3>1, StartZero
    <3>2. CASE n # 0
      <4>1. n \in 1 .. Len(opts)
        BY <2>1, <3>2
      <4>2. Start(opts, n) <= Start(opts, Len(opts))
        BY <2>1, <4>1, CarriesOption
      <4>3. Start(opts, n) \in Nat
        BY <2>1, StartBound
      <4> QED BY <4>2, <4>3
    <3> QED BY <3>1, <3>2
  <2> HIDE DEF n
  <2>4. c < Len(b)
    BY <2>1, <2>2, <2>3 DEF n
  <2> QED BY <2>1, <2>2, <2>3, <2>4 DEF n
<1>2. opt = OptEnd /\ pc' = "done" /\ UNCHANGED <<b, c, opt, options>>
  BY <1>1 DEF DecodeEnd, Reads
<1> QED BY <1>1, <1>2 DEF Reads

\* The end mark.
LEMMA MarkReads ==
    ASSUME NEW opts \in Seq(OptionSet), Len(opts) > 0, Reads(opts), DecodeOption,
           Len(options) = Len(opts)
    PROVE  Reads(opts)'
<1>1. /\ pc = "options" /\ Carries(b, opts) /\ c = 240 + Start(opts, Len(opts))
      /\ b' = b /\ opt' = At(b, c)
  BY DEF DecodeOption, Reads
<1>2. At(b, c) = OptEnd
  BY <1>1, CarriesLen
<1>3. options' = options /\ pc' = "end"
  BY <1>2 DEF DecodeOption, OptEnd
<1> QED BY <1>1, <1>2, <1>3 DEF Reads

\* One more option.
LEMMA OptionReads ==
    ASSUME NEW opts \in Seq(OptionSet), Len(opts) > 0, Reads(opts), DecodeOption,
           Len(options) # Len(opts)
    PROVE  Reads(opts)'
<1> DEFINE n == Len(options)
           k == n + 1
           i == Start(opts, n)
           code == opts[k].Option
           d == Len(opts[k].Data)
           l == Start(opts, Len(opts))
<1>1. /\ pc = "options" /\ c = 240 + i /\ Carries(b, opts) /\ n \in Nat /\ n <= Len(opts)
      /\ options = [j \in 1 .. n |-> FoundIn(opts, j)]
      /\ c < Len(b) /\ b' = b /\ opt' = At(b, c)
  BY DEF DecodeOption, Reads
<1>2. k \in 1 .. Len(opts) /\ k - 1 = n /\ k \in Nat
  BY <1>1
<1>3. /\ i \in Nat /\ Start(opts, k) = i + 2 + d /\ Start(opts, k) <= l
      /\ At(b, 240 + i) = code /\ At(b, 241 + i) = d
  <2>1. i = Start(opts, k - 1)
    BY <1>2
  <2> HIDE DEF i, k
  <2> QED BY <1>1, <1>2, <2>1, CarriesOption, SMTT(30)
<1>4. opts[k] \in OptionSet
  BY <1>2
<1>5. code # 0 /\ code # OptEnd /\ d \in Nat
  BY <1>4, OptionIs DEF OptEnd
<1>6. Len(b) = 241 + l /\ l \in Nat
  BY <1>1, CarriesLen
<1>7. FoundIn(opts, k) = [Option |-> code, at |-> 242 + i, len |-> d]
  BY <1>2 DEF FoundIn
<1> HIDE DEF i, d, code, l
<1>8. c + 1 = 241 + i /\ c + 1 + 1 = 242 + i /\ 242 + i + d <= Len(b) /\ c + 1 < Len(b)
      /\ 242 + i + d = 240 + Start(opts, k)
  BY <1>1, <1>3, <1>5, <1>6
<1>9. /\ options' = Append(options, [Option |-> code, at |-> 242 + i, len |-> d])
      /\ c' = 242 + i + d /\ pc' = pc
  <2>1. At(b, c) = code /\ At(b, c + 1) = d
    BY <1>1, <1>3, <1>8
  <2>2. Fits(c + 1 + 1, d)
    BY <1>8 DEF Fits
  <2>3. ~(c + 1 >= Len(b))
    BY <1>1, <1>3, <1>6, <1>8
  <2> QED BY <1>5, <1>8, <2>1, <2>2, <2>3 DEF DecodeOption, PastCode
<1>10. options' = Append(options, FoundIn(opts, k))
  BY <1>7, <1>9
<1> HIDE DEF k
<1>11. /\ Len(options') = n + 1
       /\ options' = [j \in 1 .. n + 1 |-> FoundIn(opts, j)]
  <2> DEFINE F == [j \in 1 .. n |-> FoundIn(opts, j)]
             G == [j \in 1 .. n + 1 |-> FoundIn(opts, j)]
  <2>1. options = F /\ options' = Append(F, G[n + 1])
    BY <1>1, <1>10 DEF k
  <2>2. F \in Seq({FoundIn(opts, j) : j \in 1 .. n + 1}) /\ Len(F) = n
    <3>1. \A j \in 1 .. n : F[j] \in {FoundIn(opts, m) : m \in 1 .. n + 1}
      BY <1>1
    <3> QED BY <1>1, <3>1
  <2>3. Append(F, G[n + 1]) = G
    BY <1>1, <2>2
  <2> QED BY <1>1, <2>1, <2>2, <2>3
<1>12. Len(options') <= Len(opts) /\ Len(options') \in Nat
  BY <1>1, <1>2, <1>11 DEF k
<1>13. c' = 240 + Start(opts, Len(options'))
  BY <1>8, <1>9, <1>11 DEF k
<1>14. opt' # OptEnd
  BY <1>1, <1>3, <1>5
<1>15. options' = [j \in 1 .. Len(options') |-> FoundIn(opts, j)]
  BY <1>11
<1> QED BY <1>1, <1>9, <1>12, <1>13, <1>14, <1>15 DEF Reads

\* What the message is when the loop is done.
LEMMA ReadsAll ==
    ASSUME NEW opts \in Seq(OptionSet), Len(opts) > 0, Reads(opts), pc = "done"
    PROVE  Message.Options = opts
<1>1. /\ Carries(b, opts) /\ options = [k \in 1 .. Len(opts) |-> FoundIn(opts, k)]
      /\ Len(options) = Len(opts)
  BY DEF Reads
<1> DEFINE m(k) == Opt(options[k].Option, Slice(b, options[k].at, options[k].at + options[k].len))
<1>2. ASSUME NEW k \in 1 .. Len(opts) PROVE m(k) = opts[k]
  <2>1. options[k] = FoundIn(opts, k)
    BY <1>1
  <2>2. /\ options[k].Option = opts[k].Option /\ options[k].at = 242 + Start(opts, k - 1)
        /\ options[k].len = Len(opts[k].Data)
    BY <2>1 DEF FoundIn
  <2>3. Slice(b, 242 + Start(opts, k - 1), 242 + Start(opts, k - 1) + Len(opts[k].Data)) =
           opts[k].Data
    BY <1>1, CarriesOption
  <2>4. opts[k] = Opt(opts[k].Option, opts[k].Data)
    BY OptionIs
  <2> QED BY <2>2, <2>3, <2>4, Zenon
<1>3. Message.Options = [k \in 1 .. Len(opts) |-> m(k)]
  BY <1>1 DEF Message
<1> HIDE DEF m
<1>4. [k \in 1 .. Len(opts) |-> m(k)] = opts
  BY <1>2
<1> QED BY <1>3, <1>4
-----------------------------------------------------------------------------
(***************************************************************************)
(* The option that counts.                                                 *)
(***************************************************************************)

\* The last option with a code counts.
LEMMA DataIs ==
    ASSUME NEW opts \in Seq(OptionSet), NEW k \in 1 .. Len(opts), NEW code,
           opts[k].Option = code, \A j \in 1 .. Len(opts) : j > k => opts[j].Option # code
    PROVE  Data(opts, code) = opts[k].Data
<1> DEFINE is == {i \in 1 .. Len(opts) : opts[i].Option = code}
           last == CHOOSE i \in is : \A j \in is : j <= i
<1>1. k \in is /\ \A j \in is : j <= k
  OBVIOUS
<1>2. last \in is /\ \A j \in is : j <= last
  BY <1>1
<1>3. last = k
  BY <1>1, <1>2
<1> QED BY <1>1, <1>3 DEF Data

\* No option with a code, no data.
LEMMA DataNone ==
    ASSUME NEW opts \in Seq(OptionSet), NEW code,
           \A k \in 1 .. Len(opts) : opts[k].Option # code
    PROVE  Data(opts, code) = nil
BY DEF Data

\* An option behind a list counts before those in the list.
LEMMA DataCases ==
    ASSUME NEW opts \in Seq(OptionSet), NEW code
    PROVE  \/ Data(opts, code) = nil /\ \A k \in 1 .. Len(opts) : opts[k].Option # code
           \/ /\ Data(opts, code) # nil
              /\ \E k \in 1 .. Len(opts) :
                    /\ opts[k].Option = code /\ Data(opts, code) = opts[k].Data
                    /\ \A j \in 1 .. Len(opts) : j > k => opts[j].Option # code
<1> DEFINE S == {i \in Nat : i < Len(opts) /\ opts[Len(opts) - i].Option = code}
<1>1. CASE S = {}
  <2>1. ASSUME NEW k \in 1 .. Len(opts), opts[k].Option = code PROVE FALSE
    <3>1. Len(opts) - k \in Nat /\ Len(opts) - k < Len(opts) /\ Len(opts) - (Len(opts) - k) = k
      OBVIOUS
    <3>2. Len(opts) - k \in S
      BY <2>1, <3>1
    <3> QED BY <1>1, <3>2
  <2> QED BY <2>1, DataNone
<1>2. CASE S # {}
  <2>1. S \subseteq Nat
    OBVIOUS
  <2> HIDE DEF S
  <2>2. PICK i \in S : \A j \in S : i <= j
    BY <1>2, <2>1, LeastNumber
  <2>3. PICK k \in 1 .. Len(opts) : k = Len(opts) - i /\ opts[k].Option = code
    BY <2>2 DEF S
  <2>4. ASSUME NEW j \in 1 .. Len(opts), j > k PROVE opts[j].Option # code
    <3>1. Len(opts) - j \in Nat /\ Len(opts) - j < Len(opts) /\ Len(opts) - (Len(opts) - j) = j
      OBVIOUS
    <3>2. Len(opts) - j < i /\ i \in Nat
      BY <2>1, <2>3, <2>4
    <3>3. Len(opts) - j \notin S
      BY <2>2, <3>1, <3>2
    <3> QED BY <3>1, <3>3 DEF S
  <2>5. Data(opts, code) = opts[k].Data
    BY <2>3, <2>4, DataIs
  <2>6. opts[k].Data # nil
    <3>1. opts[k] \in OptionSet
      OBVIOUS
    <3>2. opts[k].Data \in Bytes
      BY <3>1, OptionIs
    <3> QED BY <3>2, NilAssumption
  <2> QED BY <2>3, <2>4, <2>5, <2>6
<1> QED BY <1>1, <1>2

\* What the last list says counts.
LEMMA DataCat ==
    ASSUME NEW x \in Seq(OptionSet), NEW y \in Seq(OptionSet), NEW code
    PROVE  Data(x \o y, code) = IF Data(y, code) # nil THEN Data(y, code) ELSE Data(x, code)
<1> DEFINE z == x \o y
<1>1. z \in Seq(OptionSet) /\ Len(z) = Len(x) + Len(y) /\ Len(x) \in Nat /\ Len(y) \in Nat
  OBVIOUS
<1>2. \A i \in 1 .. Len(x) : z[i] = x[i]
  BY <1>1
<1>3. \A i \in 1 .. Len(y) : z[Len(x) + i] = y[i]
  BY <1>1
<1> HIDE DEF z
<1>4. ASSUME NEW i \in 1 .. Len(z), i > Len(x)
      PROVE i - Len(x) \in 1 .. Len(y) /\ z[i] = y[i - Len(x)]
  <2>1. i - Len(x) \in 1 .. Len(y) /\ Len(x) + (i - Len(x)) = i
    BY <1>1, <1>4
  <2> QED BY <1>3, <2>1
<1>5. CASE Data(y, code) # nil
  <2>1. PICK k \in 1 .. Len(y) :
          /\ y[k].Option = code /\ Data(y, code) = y[k].Data
          /\ \A j \in 1 .. Len(y) : j > k => y[j].Option # code
    BY <1>5, DataCases
  <2>2. Len(x) + k \in 1 .. Len(z) /\ z[Len(x) + k] = y[k]
    BY <1>1, <1>3
  <2>3. ASSUME NEW i \in 1 .. Len(z), i > Len(x) + k PROVE z[i].Option # code
    <3>1. i > Len(x) /\ i - Len(x) > k
      BY <1>1, <2>3
    <3> QED BY <1>4, <2>1, <3>1
  <2>4. Data(z, code) = z[Len(x) + k].Data
    BY <1>1, <2>1, <2>2, <2>3, DataIs
  <2> QED BY <1>5, <2>1, <2>2, <2>4 DEF z
<1>6. CASE Data(y, code) = nil
  <2>1. \A k \in 1 .. Len(y) : y[k].Option # code
    BY <1>6, DataCases
  <2>2. ASSUME NEW i \in 1 .. Len(z), i > Len(x) PROVE z[i].Option # code
    BY <1>4, <2>1, <2>2
  <2>3. CASE Data(x, code) = nil
    <3>1. \A k \in 1 .. Len(x) : x[k].Option # code
      BY <2>3, DataCases
    <3>2. ASSUME NEW i \in 1 .. Len(z) PROVE z[i].Option # code
      <4>1. i > Len(x) \/ i \in 1 .. Len(x)
        BY <1>1
      <4> QED BY <1>2, <2>2, <3>1, <4>1
    <3>3. Data(z, code) = nil
      BY <1>1, <3>2, DataNone
    <3> QED BY <1>6, <2>3, <3>3 DEF z
  <2>4. CASE Data(x, code) # nil
    <3>1. PICK k \in 1 .. Len(x) :
            /\ x[k].Option = code /\ Data(x, code) = x[k].Data
            /\ \A j \in 1 .. Len(x) : j > k => x[j].Option # code
      BY <2>4, DataCases
    <3>2. k \in 1 .. Len(z) /\ z[k] = x[k]
      BY <1>1, <1>2
    <3>3. ASSUME NEW i \in 1 .. Len(z), i > k PROVE z[i].Option # code
      <4>1. i > Len(x) \/ i \in 1 .. Len(x)
        BY <1>1
      <4> QED BY <1>2, <2>2, <3>1, <3>3, <4>1
    <3>4. Data(z, code) = z[k].Data
      BY <1>1, <3>1, <3>2, <3>3, DataIs
    <3> QED BY <1>6, <3>1, <3>2, <3>4 DEF z
  <2> QED BY <2>3, <2>4
<1> QED BY <1>5, <1>6

\* An empty list has no data.
LEMMA DataNothing ==
    ASSUME NEW code
    PROVE  <<>> \in Seq(OptionSet) /\ Data(<<>>, code) = nil
BY DEF Data

\* The data of a list of one option.
LEMMA DataOne ==
    ASSUME NEW o \in OptionSet, NEW code
    PROVE  /\ <<o>> \in Seq(OptionSet) /\ Len(<<o>>) = 1
           /\ Data(<<o>>, code) = IF o.Option = code THEN o.Data ELSE nil
<1> DEFINE z == <<o>>
<1>1. z \in Seq(OptionSet) /\ Len(z) = 1 /\ z[1] = o
  OBVIOUS
<1> HIDE DEF z
<1>2. o.Option = code => Data(z, code) = z[1].Data
  <2>1. 1 \in 1 .. Len(z) /\ \A j \in 1 .. Len(z) : ~(j > 1)
    BY <1>1
  <2> QED BY <1>1, <2>1, DataIs
<1>3. o.Option # code => Data(z, code) = nil
  <2>1. \A k \in 1 .. Len(z) : z[k] = o
    BY <1>1
  <2> QED BY <1>1, <2>1, DataNone
<1>4. Data(z, code) = IF o.Option = code THEN o.Data ELSE nil
  BY <1>1, <1>2, <1>3
<1> QED BY <1>1, <1>4 DEF z
-----------------------------------------------------------------------------
(***************************************************************************)
(* What is read of each option.                                            *)
(***************************************************************************)

\* The parts of Opt.
LEMMA OptIs ==
    ASSUME NEW code \in Byte, code # 0, code # 255, NEW n \in Nat, n < 256, NEW data \in Sized(n)
    PROVE  /\ Opt(code, data) \in OptionSet
           /\ Opt(code, data).Option = code /\ Opt(code, data).Data = data
<1>1. data \in Bytes /\ Len(data) < 256
  BY SizedIs
<1> QED BY <1>1 DEF Opt, OptionSet

\* toUint8 reads the message type.
LEMMA TypeOption ==
    ASSUME NEW t \in Byte
    PROVE  /\ OptionType(t) \in OptionSet /\ OptionType(t).Option = 53
           /\ toUint8(OptionType(t).Data) = t
<1> DEFINE x == <<t>>
<1>1. x \in Sized(1) /\ Len(x) = 1 /\ x[1] = t /\ x \in Bytes
  BY OneByte, IsSized
<1>2. 53 \in Byte
  BY ByteIs
<1>3. OptionType(t) = Opt(53, x)
  BY DEF OptionType, Code
<1> HIDE DEF x
<1>4. OptionType(t) \in OptionSet /\ OptionType(t).Option = 53 /\ OptionType(t).Data = x
  BY <1>1, <1>2, <1>3, OptIs
<1>5. toUint8(x) = t
  BY <1>1, NilAssumption DEF toUint8
<1> QED BY <1>4, <1>5

\* The maximum message size is an option that can be sent.
LEMMA SizeOption ==
    /\ OptionMaxMessageSize(1500) \in OptionSet /\ OptionMaxMessageSize(1500).Option = 57
<1>1. PutUint16(1500) \in Sized(2)
  BY PutWord DEF Word
<1>2. 57 \in Byte
  BY ByteIs
<1>3. OptionMaxMessageSize(1500) = Opt(57, PutUint16(1500))
  BY DEF OptionMaxMessageSize, Code
<1> QED BY <1>1, <1>2, <1>3, OptIs

\* toDuration reads the lease time.
LEMMA LeaseOption ==
    ASSUME NEW n \in Long
    PROVE  /\ OptionIPAddressLeaseDuration(n) \in OptionSet
           /\ OptionIPAddressLeaseDuration(n).Option = 51
           /\ toDuration(OptionIPAddressLeaseDuration(n).Data) = n
<1> DEFINE x == PutUint32(n)
<1>1. x \in Sized(4) /\ \A s \in Bytes, i \in Nat : HasAt(s, i, x) => Uint32(s, i) = n
  BY PutLong
<1>2. 51 \in Byte
  BY ByteIs
<1>3. OptionIPAddressLeaseDuration(n) = Opt(51, x)
  BY DEF OptionIPAddressLeaseDuration, Code
<1> HIDE DEF x
<1>4. OptionIPAddressLeaseDuration(n).Data = x /\ OptionIPAddressLeaseDuration(n).Option = 51
      /\ OptionIPAddressLeaseDuration(n) \in OptionSet
  BY <1>1, <1>2, <1>3, OptIs
<1>5. x \in Bytes /\ Len(x) = 4
  BY <1>1 DEF Sized
<1>6. HasAt(x, 0, x)
  BY <1>5 DEF HasAt, Bytes
<1>7. Uint32(x, 0) = n
  BY <1>1, <1>5, <1>6
<1>8. toDuration(x) = n
  BY <1>5, <1>7, NilAssumption DEF toDuration
<1> QED BY <1>4, <1>8

\* toNetmask reads the subnet mask.
LEMMA MaskOption ==
    ASSUME NEW mask \in Sized(4)
    PROVE  /\ OptionSubnetMask(mask) \in OptionSet
           /\ OptionSubnetMask(mask).Option = 1
           /\ toNetmask(OptionSubnetMask(mask).Data) = mask
<1>1. 1 \in Byte
  BY ByteIs
<1>2. OptionSubnetMask(mask) = Opt(1, mask)
  BY DEF OptionSubnetMask, Code
<1>3. OptionSubnetMask(mask).Data = mask /\ OptionSubnetMask(mask).Option = 1
      /\ OptionSubnetMask(mask) \in OptionSet
  BY <1>1, <1>2, OptIs
<1>4. mask \in Bytes /\ Len(mask) = 4
  BY DEF Sized
<1>5. toNetmask(mask) = mask
  BY <1>4, NilAssumption DEF toNetmask
<1> QED BY <1>3, <1>5

\* toString reads the domain name.
LEMMA DomainOption ==
    ASSUME NEW name \in Bytes, Len(name) < 256
    PROVE  /\ OptionDomainName(name) \in OptionSet
           /\ OptionDomainName(name).Option = 15
           /\ toString(OptionDomainName(name).Data) = name
<1>1. 15 \in Byte
  BY ByteIs
<1>2. OptionDomainName(name) = Opt(15, name)
  BY DEF OptionDomainName, Code
<1>3. name \in Sized(Len(name)) /\ Len(name) \in Nat
  BY SizedLen
<1>4. OptionDomainName(name).Data = name /\ OptionDomainName(name).Option = 15
      /\ OptionDomainName(name) \in OptionSet
  BY <1>1, <1>2, <1>3, OptIs
<1>5. toString(name) = name
  BY NilAssumption DEF toString
<1> QED BY <1>4, <1>5

\* The client identifier is of 15 bytes and has the IAID behind its type.
LEMMA IdentifierOption ==
    ASSUME NEW mac \in Sized(6), NEW crc \in Long
    PROVE  LET o == OptionClientIdentifier(mac, crc)
           IN  /\ o \in OptionSet /\ o.Option = 61 /\ Len(o.Data) = 15
               /\ Uint32(o.Data, 1) = crc
<1> DEFINE p1 == <<255>>
           p2 == PutUint32(crc)
           p3 == <<0, 3, 0, 1>>
           p4 == Padded(mac, 6)
           x2 == Cat(p1, p2)
           x3 == Cat(x2, p3)
           x4 == Cat(x3, p4)
<1>1. p1 \in Sized(1)
  <2>1. 255 \in Byte
    BY ByteIs
  <2> QED BY <2>1, OneByte, IsSized
<1>2. p2 \in Sized(4)
  BY PutLong
<1>3. p3 \in Sized(4)
  <2>1. 0 \in Byte /\ 3 \in Byte /\ 1 \in Byte
    BY ByteIs
  <2> QED BY <2>1, FourSized
<1>4. p4 \in Sized(6)
  <2>1. mac \in Bytes
    BY SizedIs
  <2> QED BY <2>1, PaddedSized
<1>5. OptionClientIdentifier(mac, crc) = Opt(61, x4)
  BY Zenon DEF OptionClientIdentifier, Code, Cat
<1> HIDE DEF p1, p2, p3, p4
<1>6. x2 \in Sized(5) /\ HasAt(x2, 1, p2)
  BY <1>1, <1>2, CatSized DEF Cat
<1> HIDE DEF x2
<1>7. x3 \in Sized(9)
  BY <1>3, <1>6, CatSized DEF Cat
<1>8. HasAt(x3, 1, p2)
  BY <1>2, <1>3, <1>6, AddKeeps DEF Cat
<1> HIDE DEF x3
<1>9. x4 \in Sized(15)
  BY <1>4, <1>7, CatSized DEF Cat
<1>10. HasAt(x4, 1, p2)
  BY <1>2, <1>4, <1>7, <1>8, AddKeeps DEF Cat
<1> HIDE DEF x4
<1>11. x4 \in Bytes /\ Len(x4) = 15
  <2>1. PICK k \in Nat : k <= 15 /\ 15 <= k
    OBVIOUS
  <2>2. x4 \in Bytes /\ Len(x4) = k
    BY <1>9, <2>1, SizedIs
  <2> QED BY <2>1, <2>2
<1>12. Uint32(x4, 1) = crc
  <2>1. x4 \in Bytes
    BY <1>11
  <2> QED BY <1>10, <2>1, PutLong DEF p2
<1>13. 61 \in Byte
  BY ByteIs
<1>14. Opt(61, x4) \in OptionSet /\ Opt(61, x4).Option = 61 /\ Opt(61, x4).Data = x4
  BY <1>9, <1>13, OptIs
<1> QED BY <1>5, <1>11, <1>12, <1>14

\* The list of parameters is an option that can be sent.
LEMMA ParametersOption ==
    LET o == OptionParametersList(
               <<Code.SubnetMask, Code.Router, Code.IPAddressLeaseDuration, Code.ServerIdentifier,
                 Code.DNS, Code.DomainName, Code.InterfaceMTU, Code.RenewalDuration,
                 Code.RebindDuration>>)
    IN  o \in OptionSet /\ o.Option = 55
<1> DEFINE x == <<Code.SubnetMask, Code.Router, Code.IPAddressLeaseDuration,
                  Code.ServerIdentifier, Code.DNS, Code.DomainName, Code.InterfaceMTU,
                  Code.RenewalDuration, Code.RebindDuration>>
<1>1. x \in Bytes /\ Len(x) < 256
  BY DEF Bytes, Byte, Code
<1>2. 55 \in Byte
  BY ByteIs
<1>3. OptionParametersList(x) = Opt(55, x)
  BY DEF OptionParametersList, Code
<1> HIDE DEF x
<1>4. x \in Sized(Len(x)) /\ Len(x) \in Nat
  BY <1>1, SizedLen
<1>5. Opt(55, x) \in OptionSet /\ Opt(55, x).Option = 55
  BY <1>1, <1>2, <1>4, OptIs
<1> QED BY <1>3, <1>5 DEF x

\* Position i of a list of addresses is byte r of address q.
LEMMA Quarter ==
    ASSUME NEW m \in Nat, NEW i \in 1 .. 4 * m
    PROVE  /\ 1 + ((i - 1) \div 4) \in 1 .. m
           /\ 1 + ((i - 1) % 4) \in 1 .. 4
OBVIOUS

\* An address that is four bytes of a string.
LEMMA QuarterOf ==
    ASSUME NEW q \in Nat, q # 0, NEW r \in 1 .. 4
    PROVE  /\ 1 + ((4 * (q - 1) + r - 1) \div 4) = q
           /\ 1 + ((4 * (q - 1) + r - 1) % 4) = r
OBVIOUS

\* Strings of one length with the same bytes are equal.
LEMMA SizedEqual ==
    ASSUME NEW n \in Nat, NEW x \in Sized(n), NEW y \in Sized(n), \A k \in 1 .. n : x[k] = y[k]
    PROVE  x = y
<1>1. x \in Bytes /\ y \in Bytes /\ Len(x) = n /\ Len(y) = n
  BY SizedIs
<1>2. Len(x) = Len(y) /\ \A k \in 1 .. Len(x) : x[k] = y[k]
  BY <1>1
<1> QED BY <1>1, <1>2, BytesEqual

\* Addresses as the data of an option, and back.
LEMMA AddressesOption ==
    ASSUME NEW code \in Byte, code # 0, code # 255,
           NEW ips \in Seq(Sized(4)), Len(ips) > 0, Len(ips) < 64
    PROVE  /\ OptionIP(code, ips) \in OptionSet
           /\ OptionIP(code, ips).Option = code
           /\ toV4A(OptionIP(code, ips).Data) = ips
<1> DEFINE F(i) == To4(ips[1 + ((i - 1) \div 4)])[1 + ((i - 1) % 4)]
           m == Len(ips)
           x == [i \in 1 .. 4 * Len(ips) |-> F(i)]
<1>1. m \in Nat /\ m > 0 /\ m < 64
  OBVIOUS
<1>2. ASSUME NEW q \in 1 .. m
      PROVE  ips[q] \in Sized(4) /\ To4(ips[q]) = ips[q] /\ \A r \in 1 .. 4 : ips[q][r] \in Byte
  <2>1. ips[q] \in Sized(4)
    OBVIOUS
  <2>2. ips[q] \in Bytes /\ Len(ips[q]) = 4
    BY <2>1 DEF Sized
  <2>3. \A r \in 1 .. 4 : ips[q][r] \in Byte
    BY <2>2 DEF Bytes
  <2>4. ips[q] # nil
    BY <2>2, NilAssumption
  <2> QED BY <2>1, <2>3, <2>4 DEF To4
<1> HIDE DEF m
<1>3. ASSUME NEW i \in 1 .. 4 * m PROVE F(i) \in Byte
  <2>1. 1 + ((i - 1) \div 4) \in 1 .. m /\ 1 + ((i - 1) % 4) \in 1 .. 4
    BY <1>1, Quarter
  <2> QED BY <1>2, <2>1
<1>4. ASSUME NEW q \in 1 .. m, NEW r \in 1 .. 4
      PROVE  F(4 * (q - 1) + r) = ips[q][r]
  <2>1. /\ 1 + ((4 * (q - 1) + r - 1) \div 4) = q
        /\ 1 + ((4 * (q - 1) + r - 1) % 4) = r
    BY <1>1, QuarterOf
  <2> QED BY <1>2, <2>1
<1> HIDE DEF F
<1>5. x \in Bytes /\ Len(x) = 4 * m
  BY <1>1, <1>3 DEF Bytes, m
<1>6. \A i \in 1 .. 4 * m : x[i] = F(i)
  BY DEF m
<1>7. OptionIP(code, ips) = Opt(code, x)
  BY Zenon DEF OptionIP, F
<1> HIDE DEF x
<1>8. x \in Sized(4 * m) /\ 4 * m \in Nat /\ 4 * m < 256
  BY <1>1, <1>5, IsSized
<1>9. /\ OptionIP(code, ips) \in OptionSet
      /\ OptionIP(code, ips).Option = code /\ OptionIP(code, ips).Data = x
  BY <1>7, <1>8, OptIs
<1>10. ASSUME NEW q \in 1 .. m PROVE Slice(x, 4 * (q - 1), 4 * q) = ips[q]
  <2>1. 4 * (q - 1) \in Nat /\ 4 * q \in Nat /\ 4 * (q - 1) <= 4 * q /\ 4 * q <= Len(x)
        /\ 4 * q - 4 * (q - 1) = 4
    BY <1>1, <1>5
  <2> DEFINE y == Slice(x, 4 * (q - 1), 4 * q)
             j == 4 * (q - 1)
             e == 4 * q
             l == 4 * m
  <2> HIDE DEF j, e, l
  <2>2. j \in Nat /\ e \in Nat /\ j <= e /\ e <= l /\ e - j = 4
    BY <1>1, <1>5, <2>1 DEF j, e, l
  <2>a. l \in Nat /\ x \in Sized(l)
    BY <1>8 DEF l
  <2>3. /\ Slice(x, j, e) \in Sized(e - j)
        /\ \A k \in Nat : 1 <= k /\ k <= e - j => Slice(x, j, e)[k] = x[j + k]
    <3>1. /\ Slice(x, j, e) \in Sized(e - j)
          /\ \A k \in Nat : 1 <= k /\ k <= e - j => Slice(x, j, e)[k] = x[j + k]
          /\ HasAt(x, j, Slice(x, j, e))
      BY <2>2, <2>a, SliceSized, ZenonT(40)
    <3> QED BY <3>1
  <2>4. y = Slice(x, j, e)
    BY Zenon DEF j, e
  <2> HIDE DEF y
  <2>5. y \in Sized(4) /\ \A k \in 1 .. 4 : y[k] = x[j + k]
    BY <2>2, <2>3, <2>4
  <2>6. ASSUME NEW r \in 1 .. 4 PROVE y[r] = ips[q][r]
    <3>1. j + r \in 1 .. 4 * m
      BY <1>1 DEF j
    <3>2. y[r] = x[j + r]
      BY <2>5
    <3>3. x[j + r] = F(j + r)
      BY <1>6, <3>1
    <3>4. F(j + r) = ips[q][r]
      BY <1>4 DEF j
    <3> QED BY <3>2, <3>3, <3>4
  <2>7. ips[q] \in Sized(4)
    BY <1>2
  <2>8. y = ips[q]
    BY <2>5, <2>6, <2>7, SizedEqual
  <2> QED BY <2>8 DEF y
<1>11. toV4A(x) = [q \in 1 .. m |-> Slice(x, 4 * (q - 1), 4 * q)]
  <2>1. x # nil /\ Len(x) >= 4 /\ Len(x) % 4 = 0 /\ Len(x) \div 4 = m
    BY <1>1, <1>5, NilAssumption
  <2> QED BY <2>1 DEF toV4A
<1>12. [q \in 1 .. m |-> Slice(x, 4 * (q - 1), 4 * q)] = ips
  BY <1>10 DEF m
<1> QED BY <1>9, <1>11, <1>12

\* toV4 and toV4A read a single address.
LEMMA AddressOption ==
    ASSUME NEW code \in Byte, code # 0, code # 255, NEW ip \in Sized(4)
    PROVE  /\ OptionIP(code, <<ip>>) \in OptionSet
           /\ OptionIP(code, <<ip>>).Option = code
           /\ toV4A(OptionIP(code, <<ip>>).Data) = <<ip>>
           /\ toV4(OptionIP(code, <<ip>>).Data) = ip
<1> DEFINE ips == <<ip>>
<1>1. ips \in Seq(Sized(4)) /\ Len(ips) = 1 /\ ips[1] = ip
  OBVIOUS
<1> HIDE DEF ips
<1>a. Len(ips) > 0 /\ Len(ips) < 64 /\ ips \in Seq(Sized(4))
  BY <1>1
<1>2. /\ OptionIP(code, ips) \in OptionSet
      /\ OptionIP(code, ips).Option = code
      /\ toV4A(OptionIP(code, ips).Data) = ips
  BY <1>a, AddressesOption, Zenon
<1>3. toV4(OptionIP(code, ips).Data) = ip
  BY <1>1, <1>2 DEF toV4
<1> QED BY <1>2, <1>3 DEF ips

\* No option, no value.
LEMMA NoOption ==
    /\ toV4A(nil) = <<>> /\ toV4(nil) = nil /\ toString(nil) = <<>>
<1>1. toV4A(nil) = <<>>
  BY DEF toV4A
<1>2. Len(<<>>) # 1
  OBVIOUS
<1> QED BY <1>1, <1>2 DEF toV4, toString
-----------------------------------------------------------------------------
(***************************************************************************)
(* Lists of options.                                                       *)
(***************************************************************************)

\* Data that is there: an option's, else that of what comes before it.
Later(x, y) == IF y # nil THEN y ELSE x

\* The data of an option if it has this code, else nil.
Coded(o, code) == IF o.Option = code THEN o.Data ELSE nil

\* Lists of at most n options that can be sent.
Lists(n) == {x \in Seq(OptionSet) : Len(x) <= n}

\* Lists, by their parts.
LEMMA ListOf ==
    ASSUME NEW n \in Nat, NEW x \in Lists(n)
    PROVE  x \in Seq(OptionSet) /\ Len(x) \in Nat /\ Len(x) <= n
BY DEF Lists

\* Of two lists the second one counts where it has an option.
LEMMA CatList ==
    ASSUME NEW m \in Nat, NEW n \in Nat, NEW x \in Lists(m), NEW y \in Lists(n)
    PROVE  /\ x \o y \in Lists(m + n) /\ Len(x \o y) >= Len(x)
           /\ \A code : Data(x \o y, code) = Later(Data(x, code), Data(y, code))
<1> DEFINE z == x \o y
<1>1. x \in Seq(OptionSet) /\ y \in Seq(OptionSet)
  BY ListOf
<1>2. Len(x) \in Nat /\ Len(y) \in Nat /\ Len(x) <= m /\ Len(y) <= n
  BY ListOf
<1>3. z \in Seq(OptionSet) /\ Len(z) = Len(x) + Len(y)
  BY <1>1
<1>4. \A code : Data(z, code) = Later(Data(x, code), Data(y, code))
  BY <1>1, DataCat DEF Later
<1> HIDE DEF z
<1>5. Len(z) <= m + n /\ Len(z) >= Len(x)
  BY <1>2, <1>3
<1>6. z \in Lists(m + n)
  BY <1>3, <1>5 DEF Lists
<1> QED BY <1>4, <1>5, <1>6 DEF z

\* A list of one option.
LEMMA OneList ==
    ASSUME NEW o \in OptionSet
    PROVE  /\ <<o>> \in Lists(1) /\ Len(<<o>>) = 1
           /\ \A code : Data(<<o>>, code) = Coded(o, code)
<1> DEFINE x == <<o>>
<1>1. x \in Seq(OptionSet) /\ Len(x) = 1
  BY DataOne
<1>2. \A code : Data(x, code) = Coded(o, code)
  BY DataOne DEF Coded
<1> HIDE DEF x
<1>3. x \in Lists(1)
  <2>1. x \in Seq(OptionSet) /\ Len(x) <= 1
    BY <1>1
  <2> QED BY ONLY <2>1 DEF Lists
<1> QED BY <1>1, <1>2, <1>3 DEF x

\* A list of two options.
LEMMA TwoList ==
    ASSUME NEW o1 \in OptionSet, NEW o2 \in OptionSet
    PROVE  /\ <<o1, o2>> \in Lists(2) /\ Len(<<o1, o2>>) > 0
           /\ \A code : Data(<<o1, o2>>, code) = Later(Coded(o1, code), Coded(o2, code))
<1>1. <<o1, o2>> = <<o1>> \o <<o2>>
  <2> DEFINE u == <<o1>>
             v == <<o2>>
             w == <<o1, o2>>
  <2>1. /\ u \in Seq(OptionSet) /\ Len(u) = 1 /\ u[1] = o1
        /\ v \in Seq(OptionSet) /\ Len(v) = 1 /\ v[1] = o2
        /\ w \in Seq(OptionSet) /\ Len(w) = 2 /\ w[1] = o1 /\ w[2] = o2
    OBVIOUS
  <2> HIDE DEF u, v, w
  <2> DEFINE t == u \o v
  <2>a. /\ t \in Seq(OptionSet) /\ Len(t) = Len(u) + Len(v)
        /\ \A i \in 1 .. Len(u) : t[i] = u[i]
        /\ \A i \in 1 .. Len(v) : t[Len(u) + i] = v[i]
    <3>1. u \in Seq(OptionSet) /\ v \in Seq(OptionSet)
      BY <2>1
    <3> QED BY ONLY <3>1
  <2> HIDE DEF t
  <2>2. t \in Seq(OptionSet) /\ Len(t) = 2 /\ t[1] = u[1] /\ t[2] = v[1]
    <3>1. Len(u) + Len(v) = 2 /\ 1 \in 1 .. Len(u) /\ 1 \in 1 .. Len(v) /\ Len(u) + 1 = 2
      BY <2>1
    <3> QED BY <2>a, <3>1
  <2>3. t = w
    <3>1. \A i \in 1 .. Len(t) : t[i] = w[i]
      BY <2>1, <2>2
    <3>2. Len(t) = Len(w)
      BY <2>1, <2>2
    <3> QED BY <2>1, <2>2, <3>1, <3>2, SeqEqual
  <2> QED BY <2>3, Zenon DEF t, u, v, w
<1> DEFINE x == <<o1>>
           y == <<o2>>
<1>2. x \in Lists(1) /\ y \in Lists(1) /\ Len(x) = 1
  BY OneList
<1>3. \A code : Data(x, code) = Coded(o1, code) /\ Data(y, code) = Coded(o2, code)
  BY OneList
<1>4. <<o1, o2>> \in Lists(2) /\ Len(<<o1, o2>>) > 0
  BY DEF Lists
<1> HIDE DEF x, y
<1>5. \A code : Data(x \o y, code) = Later(Data(x, code), Data(y, code))
  BY <1>2, CatList
<1>6. <<o1, o2>> = x \o y
  BY <1>1, Zenon DEF x, y
<1> QED BY <1>3, <1>4, <1>5, <1>6

\* A list of four options.
LEMMA FourList ==
    ASSUME NEW o1 \in OptionSet, NEW o2 \in OptionSet, NEW o3 \in OptionSet, NEW o4 \in OptionSet
    PROVE  /\ <<o1, o2, o3, o4>> \in Lists(4) /\ Len(<<o1, o2, o3, o4>>) > 0
           /\ \A code : Data(<<o1, o2, o3, o4>>, code) =
                 Later(Later(Coded(o1, code), Coded(o2, code)),
                       Later(Coded(o3, code), Coded(o4, code)))
<1>1. <<o1, o2, o3, o4>> = <<o1, o2>> \o <<o3, o4>>
  OBVIOUS
<1> DEFINE x == <<o1, o2>>
           y == <<o3, o4>>
<1>2. x \in Lists(2) /\ y \in Lists(2) 
  BY TwoList
<1>3. /\ \A code : Data(x, code) = Later(Coded(o1, code), Coded(o2, code))
      /\ \A code : Data(y, code) = Later(Coded(o3, code), Coded(o4, code))
  BY TwoList
<1>4. <<o1, o2, o3, o4>> \in Lists(4) /\ Len(<<o1, o2, o3, o4>>) > 0
  BY DEF Lists
<1> HIDE DEF x, y
<1>5. \A code : Data(x \o y, code) = Later(Data(x, code), Data(y, code))
  BY <1>2, CatList
<1>6. <<o1, o2, o3, o4>> = x \o y
  BY <1>1, Zenon DEF x, y
<1> QED BY <1>3, <1>4, <1>5, <1>6
=============================================================================
