---------------------------- MODULE LayerProofs -----------------------------
(***************************************************************************)
(* What the codecs of lib/layer do with bytes, for packets of any length:  *)
(* slices, words, the Internet checksum with its carries, UDP and ARP.     *)
(* The functions in WordSum, ipv4csum and OptionsBytes are CHOSEn by       *)
(* their equations; that there are such functions, and what they give for  *)
(* every number, is proved here by induction over sets of numbers.         *)
(***************************************************************************)
EXTENDS Layer, WellFoundedInduction, SequenceTheorems, TLAPS

-----------------------------------------------------------------------------
(***************************************************************************)
(* Numbers, and sums of words.                                             *)
(***************************************************************************)

\* Every set of numbers that is not empty has a least one.
LEMMA LeastNumber ==
    ASSUME NEW S, S \subseteq Nat, S # {}
    PROVE  \E n \in S : \A k \in S : n <= k
<1> DEFINE R == OpToRel(<, Nat)
<1>1. IsWellFoundedOn(R, Nat)
  BY NatLessThanWellFounded
<1> HIDE DEF R
<1>2. PICK n \in S : \A k \in S : ~(<<k, n>> \in R)
  BY <1>1, WFMin, Zenon
<1>3. \A k \in S : ~(k < n)
  BY <1>2 DEF R, OpToRel
<1> QED BY <1>3

\* Induction, for a set of numbers.
LEMMA AllNumbers ==
    ASSUME NEW S, S \subseteq Nat, \A n \in Nat : (\A k \in 0 .. n - 1 : k \in S) => n \in S
    PROVE  \A n \in Nat : n \in S
<1>1. SUFFICES ASSUME Nat \ S # {} PROVE FALSE
  OBVIOUS
<1>2. PICK n \in Nat \ S : \A k \in Nat \ S : n <= k
  BY <1>1, LeastNumber
<1> QED BY <1>2

\* The sum of the first words.
Sums(s) ==
    CHOOSE f : f = [n \in Nat |-> IF n = 0 THEN 0 ELSE f[n - 1] + Uint16(s, 2 * n - 2)]

\* Sums with a function of the words.
LEMMA SumsOf ==
    ASSUME NEW w
    PROVE  \E f : f = [n \in Nat |-> IF n = 0 THEN 0 ELSE f[n - 1] + w[n]]
<1> DEFINE To(f, k) == \A n \in 0 .. k : f[n] = IF n = 0 THEN 0 ELSE f[n - 1] + w[n]
           S == {k \in Nat : \E f : To(f, k)}
           Same == {n \in Nat : \A f, g : To(f, n) /\ To(g, n) => f[n] = g[n]}
           F(k) == CHOOSE f : To(f, k)
           sum == [n \in Nat |-> F(n)[n]]
<1>1. \A k \in Nat : k \in S
  <2>1. ASSUME NEW k \in Nat, \A j \in 0 .. k - 1 : j \in S
        PROVE  k \in S
    <3>1. CASE k = 0
      <4> DEFINE f == [n \in {0} |-> 0]
      <4>1. To(f, 0)
        OBVIOUS
      <4> QED BY <3>1, <4>1
    <3>2. CASE k # 0
      <4>1. PICK f : To(f, k - 1)
        BY <2>1, <3>2
      <4> DEFINE g == [n \in 0 .. k |-> IF n = k THEN f[k - 1] + w[k] ELSE f[n]]
      <4>2. To(g, k)
        BY <4>1, <3>2
      <4> QED BY <4>2
    <3> QED BY <3>1, <3>2
  <2> HIDE DEF S
  <2>2. S \subseteq Nat
    BY DEF S
  <2> QED BY <2>1, <2>2, AllNumbers
<1>2. \A k \in Nat : k \in Same
  <2>1. ASSUME NEW k \in Nat, \A j \in 0 .. k - 1 : j \in Same
        PROVE  k \in Same
    <3> SUFFICES ASSUME NEW f, NEW g, To(f, k), To(g, k) PROVE f[k] = g[k]
      OBVIOUS
    <3>1. CASE k # 0
      <4>1. To(f, k - 1) /\ To(g, k - 1)
        BY <3>1
      <4>2. f[k - 1] = g[k - 1]
        BY <2>1, <3>1, <4>1
      <4> QED BY <3>1, <4>2
    <3> QED BY <3>1
  <2> HIDE DEF Same
  <2>2. Same \subseteq Nat
    BY DEF Same
  <2> QED BY <2>1, <2>2, AllNumbers
<1>3. \A k \in Nat : To(F(k), k)
  <2> SUFFICES ASSUME NEW k \in Nat PROVE To(F(k), k)
    OBVIOUS
  <2>1. \E f : To(f, k)
    BY <1>1
  <2> HIDE DEF To
  <2> QED BY <2>1
<1> HIDE DEF F
<1>4. ASSUME NEW n \in Nat, n # 0 PROVE sum[n] = sum[n - 1] + w[n]
  <2>1. To(F(n), n) /\ To(F(n), n - 1) /\ To(F(n - 1), n - 1)
    BY <1>3, <1>4
  <2>2. F(n)[n - 1] = F(n - 1)[n - 1]
    BY <1>2, <1>4, <2>1
  <2> QED BY <1>4, <2>1, <2>2
<1>5. sum[0] = 0
  BY <1>3
<1>6. sum = [n \in Nat |-> IF n = 0 THEN 0 ELSE sum[n - 1] + w[n]]
  BY <1>4, <1>5
<1> QED BY <1>6

\* The equation of Sums.
LEMMA SumsIs ==
    ASSUME NEW s
    PROVE  Sums(s) = [n \in Nat |-> IF n = 0 THEN 0 ELSE Sums(s)[n - 1] + Uint16(s, 2 * n - 2)]
<1> DEFINE w == [n \in Nat |-> Uint16(s, 2 * n - 2)]
<1>1. PICK f : f = [n \in Nat |-> IF n = 0 THEN 0 ELSE f[n - 1] + w[n]]
  BY SumsOf
<1>2. f = [n \in Nat |-> IF n = 0 THEN 0 ELSE f[n - 1] + Uint16(s, 2 * n - 2)]
  BY <1>1
<1> QED BY <1>2, Zenon DEF Sums

\* WordSum, with Sums.
LEMMA WordSumIs ==
    ASSUME NEW s
    PROVE  WordSum(s) = Sums(s)[Len(s) \div 2] 
                           + (IF Len(s) % 2 = 1 THEN 256 * At(s, Len(s) - 1) ELSE 0)
BY DEF WordSum, Sums
-----------------------------------------------------------------------------
(***************************************************************************)
(* Byte strings: slices, concatenations, words.                            *)
(***************************************************************************)

\* Bytes are the numbers below 256.
LEMMA ByteIs == \A x : x \in Byte <=> x \in Nat /\ x < 256
BY DEF Byte

\* Bytes are numbers.
LEMMA ByteNumber == Byte \subseteq Nat
BY ByteIs

\* The bytes of s from i on are those of y.
HasAt(s, i, y) == i + Len(y) <= Len(s) /\ \A j \in 1 .. Len(y) : s[i + j] = y[j]

\* Sequences with the same elements are equal.
LEMMA BytesEqual ==
    ASSUME NEW x \in Bytes, NEW y \in Bytes, Len(x) = Len(y), \A k \in 1 .. Len(x) : x[k] = y[k]
    PROVE  x = y
BY SeqEqual DEF Bytes

\* What a concatenation consists of.
LEMMA CatIs ==
    ASSUME NEW x \in Bytes, NEW y \in Bytes
    PROVE  /\ x \o y \in Bytes /\ Len(x \o y) = Len(x) + Len(y)
           /\ HasAt(x \o y, 0, x) /\ HasAt(x \o y, Len(x), y)
<1>1. /\ x \o y \in Bytes /\ Len(x \o y) = Len(x) + Len(y)
      /\ Len(x) \in Nat /\ Len(y) \in Nat
  BY DEF Bytes
<1>2. ASSUME NEW j \in 1 .. Len(x) PROVE (x \o y)[0 + j] = x[j]
  BY <1>1 DEF Bytes
<1>3. ASSUME NEW j \in 1 .. Len(y) PROVE (x \o y)[Len(x) + j] = y[j]
  BY <1>1 DEF Bytes
<1> QED BY <1>1, <1>2, <1>3 DEF HasAt

\* What a part has, the whole has.
LEMMA HasPart ==
    ASSUME NEW s \in Bytes, NEW x \in Bytes, NEW y \in Bytes, NEW i \in Nat, NEW k \in Nat,
           HasAt(s, k, x), HasAt(x, i, y)
    PROVE  HasAt(s, k + i, y)
<1>1. /\ Len(x) \in Nat /\ Len(y) \in Nat /\ Len(s) \in Nat
      /\ k + Len(x) <= Len(s) /\ i + Len(y) <= Len(x)
  BY DEF HasAt, Bytes
<1>2. ASSUME NEW j \in 1 .. Len(y) PROVE s[k + i + j] = y[j]
  <2>1. i + j \in 1 .. Len(x) /\ k + (i + j) = k + i + j
    BY <1>1
  <2> QED BY <2>1 DEF HasAt
<1> QED BY <1>1, <1>2 DEF HasAt

\* What a slice consists of.
LEMMA SliceIs ==
    ASSUME NEW s \in Bytes, NEW i \in Nat, NEW j \in Nat, i <= j, j <= Len(s)
    PROVE  /\ Slice(s, i, j) \in Bytes /\ Len(Slice(s, i, j)) = j - i
           /\ \A k \in 1 .. j - i : Slice(s, i, j)[k] = s[i + k]
           /\ HasAt(s, i, Slice(s, i, j))
<1>1. \A k \in i + 1 .. j : s[k] \in Byte
  BY DEF Bytes
<1>2. /\ Slice(s, i, j) \in Bytes /\ Len(Slice(s, i, j)) = j - i
      /\ \A k \in 1 .. j - i : Slice(s, i, j)[k] = s[i + k]
  BY <1>1, SubSeqProperties DEF Slice, Bytes
<1> QED BY <1>2 DEF HasAt, Bytes

\* A slice from the start on.
LEMMA PrefixIs ==
    ASSUME NEW s \in Bytes, NEW j \in Nat, j <= Len(s)
    PROVE  /\ Slice(s, 0, j) \in Bytes /\ Len(Slice(s, 0, j)) = j
           /\ \A k \in 1 .. j : Slice(s, 0, j)[k] = s[k]
           /\ HasAt(s, 0, Slice(s, 0, j))
<1>1. 0 <= j /\ j - 0 = j /\ \A k \in 1 .. j : 0 + k = k
  OBVIOUS
<1>2. /\ Slice(s, 0, j) \in Bytes /\ Len(Slice(s, 0, j)) = j - 0
      /\ \A k \in 1 .. j - 0 : Slice(s, 0, j)[k] = s[0 + k]
      /\ HasAt(s, 0, Slice(s, 0, j))
  BY <1>1, SliceIs
<1> QED BY <1>1, <1>2

\* The slice where a sequence has another one is that one.
LEMMA SliceHas ==
    ASSUME NEW s \in Bytes, NEW y \in Bytes, NEW i \in Nat, HasAt(s, i, y),
           NEW j \in Nat, j = i + Len(y)
    PROVE  Slice(s, i, j) = y
<1>1. Len(y) \in Nat /\ j <= Len(s) /\ i <= j /\ j - i = Len(y)
  BY DEF HasAt, Bytes
<1>2. Slice(s, i, j) \in Bytes /\ Len(Slice(s, i, j)) = j - i
      /\ \A k \in 1 .. j - i : Slice(s, i, j)[k] = s[i + k]
  BY <1>1, SliceIs
<1>3. \A k \in 1 .. Len(y) : Slice(s, i, j)[k] = y[k]
  BY <1>1, <1>2 DEF HasAt
<1> QED BY <1>1, <1>2, <1>3, BytesEqual

\* Sequences that agree between two positions have the same slice there.
LEMMA SameSlice ==
    ASSUME NEW s \in Bytes, NEW t \in Bytes, NEW i \in Nat, NEW j \in Nat, i <= j,
           j <= Len(s), j <= Len(t), \A k \in i + 1 .. j : s[k] = t[k]
    PROVE  Slice(s, i, j) = Slice(t, i, j)
<1>1. \A k \in 1 .. j - i : s[i + k] = t[i + k]
  OBVIOUS
<1>2. /\ Slice(s, i, j) \in Bytes /\ Len(Slice(s, i, j)) = j - i
      /\ \A k \in 1 .. j - i : Slice(s, i, j)[k] = s[i + k]
  BY SliceIs
<1>3. /\ Slice(t, i, j) \in Bytes /\ Len(Slice(t, i, j)) = j - i
      /\ \A k \in 1 .. j - i : Slice(t, i, j)[k] = t[i + k]
  BY SliceIs
<1> QED BY <1>1, <1>2, <1>3, BytesEqual

\* A slice of a concatenation is taken from the part it lies in.
LEMMA SliceCat ==
    ASSUME NEW s \in Bytes, NEW i \in Nat, NEW j \in Nat, NEW k \in Nat, i <= j, j <= k,
           k <= Len(s)
    PROVE  Slice(s, i, k) = Slice(s, i, j) \o Slice(s, j, k)
<1> DEFINE x == Slice(s, i, j)
           y == Slice(s, j, k)
           z == Slice(s, i, k)
<1>0. Len(s) \in Nat /\ j <= Len(s) /\ i <= k
  BY DEF Bytes
<1>1. /\ x \in Bytes /\ Len(x) = j - i /\ \A n \in 1 .. j - i : x[n] = s[i + n]
  BY <1>0, SliceIs
<1>2. /\ y \in Bytes /\ Len(y) = k - j /\ \A n \in 1 .. k - j : y[n] = s[j + n]
  BY SliceIs
<1>3. /\ z \in Bytes /\ Len(z) = k - i /\ \A n \in 1 .. k - i : z[n] = s[i + n]
  BY <1>0, SliceIs
<1> HIDE DEF x, y, z
<1>4. x \o y \in Bytes /\ Len(x \o y) = k - i
  BY <1>1, <1>2, CatIs
<1>5. HasAt(x \o y, 0, x) /\ HasAt(x \o y, j - i, y)
  BY <1>1, <1>2, CatIs
<1>6. /\ \A n \in 1 .. j - i : (x \o y)[n] = x[n]
      /\ \A n \in 1 .. k - j : (x \o y)[(j - i) + n] = y[n]
  BY <1>1, <1>2, <1>5 DEF HasAt
<1>7. ASSUME NEW n \in 1 .. k - i PROVE (x \o y)[n] = z[n]
  <2>1. CASE n <= j - i
    <3>1. n \in 1 .. j - i /\ n \in 1 .. k - i
      BY <2>1
    <3>2. (x \o y)[n] = x[n] /\ x[n] = s[i + n] /\ z[n] = s[i + n]
      BY <3>1, <1>1, <1>3, <1>6, Zenon
    <3> QED BY <3>2
  <2>2. CASE n > j - i
    <3>1. PICK e \in 1 .. k - j : n = (j - i) + e
      <4>1. n - (j - i) \in 1 .. k - j /\ n = (j - i) + (n - (j - i))
        BY <2>2
      <4> QED BY <4>1
    <3>2. j + e = i + n
      BY <3>1
    <3> QED BY <1>2, <1>3, <1>6, <3>1, <3>2
  <2>3. n <= j - i \/ n > j - i
    OBVIOUS
  <2> QED BY <2>1, <2>2, <2>3
<1>8. z = x \o y
  BY <1>3, <1>4, <1>7, BytesEqual
<1> QED BY <1>8 DEF x, y, z

\* A slice from the start on, as a concatenation.
LEMMA PrefixCat ==
    ASSUME NEW s \in Bytes, NEW j \in Nat, NEW k \in Nat, j <= k, k <= Len(s)
    PROVE  Slice(s, 0, k) = Slice(s, 0, j) \o Slice(s, j, k)
<1>1. 0 <= j
  OBVIOUS
<1> QED BY <1>1, SliceCat

\* All of a string.
LEMMA SliceAll ==
    ASSUME NEW s \in Bytes
    PROVE  Slice(s, 0, Len(s)) = s
<1>1. Len(s) \in Nat /\ HasAt(s, 0, s)
  BY DEF HasAt, Bytes
<1> QED BY <1>1, SliceHas

\* Short strings.
LEMMA TwoBytes ==
    ASSUME NEW x \in Byte, NEW y \in Byte
    PROVE  /\ <<x, y>> \in Bytes /\ Len(<<x, y>>) = 2
           /\ <<x, y>>[1] = x /\ <<x, y>>[2] = y
BY DEF Bytes

\* The word at a place where two bytes are written.
LEMMA Uint16Of ==
    ASSUME NEW s, NEW i \in Nat, NEW x \in Byte, NEW y \in Byte, s[i + 1] = x, s[i + 2] = y
    PROVE  Uint16(s, i) = 256 * x + y /\ Uint16(s, i) \in Word
<1>1. i + 1 + 1 = i + 2
  OBVIOUS
<1>2. Uint16(s, i) = 256 * x + y
  BY <1>1 DEF Uint16, At
<1>3. PICK w \in Word : w = 256 * x + y
  BY ByteIs DEF Word
<1> QED BY <1>2, <1>3

\* The value of a word.
LEMMA Uint16Is ==
    ASSUME NEW s \in Bytes, NEW i \in Nat, i + 2 <= Len(s)
    PROVE  Uint16(s, i) \in Word /\ Uint16(s, i) \in Nat
<1>1. i + 1 \in 1 .. Len(s) /\ i + 2 \in 1 .. Len(s)
  BY DEF Bytes
<1>2. s[i + 1] \in Byte /\ s[i + 2] \in Byte
  BY <1>1 DEF Bytes
<1>3. Uint16(s, i) \in Word
  BY <1>2, Uint16Of
<1>4. Word \subseteq Nat
  BY DEF Word
<1> QED BY <1>3, <1>4

\* The two bytes of a word give the word.
LEMMA TwoDigits ==
    ASSUME NEW n \in Nat
    PROVE  256 * ((n \div 256) % 256) + (n % 256) = n % 65536
<1>1. PICK q \in Nat, r \in Nat : r < 256 /\ n = 256 * q + r /\ n \div 256 = q /\ n % 256 = r
  OBVIOUS
<1>2. PICK p \in Nat, t \in Nat : t < 256 /\ q = 256 * p + t /\ q % 256 = t
  OBVIOUS
<1>3. n = 65536 * p + (256 * t + r) /\ 0 <= 256 * t + r /\ 256 * t + r < 65536
  BY <1>1, <1>2
<1>4. n % 65536 = 256 * t + r
  BY <1>3
<1> QED BY <1>1, <1>2, <1>4

\* PutUint16 writes what Uint16 reads.
LEMMA PutUint16Is ==
    ASSUME NEW n \in Nat
    PROVE  /\ PutUint16(n) \in Bytes /\ Len(PutUint16(n)) = 2
           /\ PutUint16(n)[1] = (n \div 256) % 256 /\ PutUint16(n)[2] = n % 256
           /\ \A s \in Bytes, i \in Nat : HasAt(s, i, PutUint16(n)) => Uint16(s, i) = n % 65536
<1>1. (n \div 256) % 256 \in Byte /\ n % 256 \in Byte
  BY ByteIs
<1>2. /\ PutUint16(n) \in Bytes /\ Len(PutUint16(n)) = 2
      /\ PutUint16(n)[1] = (n \div 256) % 256 /\ PutUint16(n)[2] = n % 256
  BY <1>1, TwoBytes DEF PutUint16
<1>3. 256 * ((n \div 256) % 256) + (n % 256) = n % 65536
  BY TwoDigits
<1>4. ASSUME NEW s \in Bytes, NEW i \in Nat, HasAt(s, i, PutUint16(n))
      PROVE  Uint16(s, i) = n % 65536
  <2>1. s[i + 1] = (n \div 256) % 256 /\ s[i + 2] = n % 256 /\ i + 2 <= Len(s)
    <3>1. 1 \in 1 .. Len(PutUint16(n)) /\ 2 \in 1 .. Len(PutUint16(n))
      BY <1>2
    <3> QED BY <1>2, <1>4, <3>1 DEF HasAt
  <2>2. Uint16(s, i) = 256 * ((n \div 256) % 256) + (n % 256)
    BY <1>1, <2>1, Uint16Of
  <2> QED BY <1>3, <2>2
<1> QED BY <1>2, <1>4

-----------------------------------------------------------------------------
\* A concatenation in a place is its parts behind each other.
LEMMA SplitHas ==
    ASSUME NEW s \in Bytes, NEW x \in Bytes, NEW y \in Bytes, NEW i \in Nat, HasAt(s, i, x \o y)
    PROVE  HasAt(s, i, x) /\ HasAt(s, i + Len(x), y)
<1>1. /\ x \o y \in Bytes /\ HasAt(x \o y, 0, x) /\ HasAt(x \o y, Len(x), y)
      /\ Len(x) \in Nat /\ i + 0 = i
  BY CatIs DEF Bytes
<1>2. HasAt(s, i + 0, x)
  BY <1>1, HasPart
<1>3. HasAt(s, i + Len(x), y)
  BY <1>1, HasPart
<1> QED BY <1>1, <1>2, <1>3

\* What Padded returns.
LEMMA PaddedIs ==
    ASSUME NEW s \in Bytes, NEW n \in Nat
    PROVE  /\ Padded(s, n) \in Bytes /\ Len(Padded(s, n)) = n
           /\ \A k \in 1 .. n : Padded(s, n)[k] = IF k <= Len(s) THEN s[k] ELSE 0
<1>1. ASSUME NEW k \in 1 .. n PROVE (IF k <= Len(s) THEN s[k] ELSE 0) \in Byte
  <2>1. CASE k <= Len(s)
    <3>1. k \in 1 .. Len(s)
      BY <2>1 DEF Bytes
    <3>2. s[k] \in Byte
      BY <3>1 DEF Bytes
    <3> QED BY <2>1, <3>2
  <2>2. 0 \in Byte
    BY ByteIs
  <2> QED BY <2>1, <2>2
<1>2. Padded(s, n) \in [1 .. n -> Byte]
  BY <1>1 DEF Padded
<1> QED BY <1>2 DEF Padded, Bytes

\* Bytes replaced.
LEMMA PutIs ==
    ASSUME NEW s \in Bytes, NEW y \in Bytes, NEW i \in Nat, i + Len(y) <= Len(s)
    PROVE  /\ Put(s, i, y) \in Bytes /\ Len(Put(s, i, y)) = Len(s)
           /\ HasAt(Put(s, i, y), i, y)
           /\ \A k \in 1 .. Len(s) : k <= i \/ k > i + Len(y) => Put(s, i, y)[k] = s[k]
<1>0. PICK m \in Nat, l \in Nat : m = i + Len(y) /\ l = Len(s) /\ m <= l /\ i <= m
                                   /\ i <= Len(s) /\ l <= Len(s) /\ 0 <= i
  BY DEF Bytes
<1> DEFINE u == Slice(s, 0, i)
           v == Slice(s, m, l)
           t == (u \o y) \o v
<1>1. u \in Bytes /\ Len(u) = i - 0 /\ \A k \in 1 .. i - 0 : u[k] = s[0 + k]
  BY <1>0, SliceIs, ZenonT(40)
<1>2. v \in Bytes /\ Len(v) = l - m /\ \A k \in 1 .. l - m : v[k] = s[m + k]
  BY <1>0, SliceIs, ZenonT(40)
<1>3. Put(s, i, y) = t
  BY <1>0 DEF Put
<1> HIDE DEF u, v
<1>4. u \o y \in Bytes /\ Len(u \o y) = m
  BY <1>0, <1>1, CatIs
<1>5. HasAt(t, 0, u \o y) /\ HasAt(t, m, v) /\ t \in Bytes /\ Len(t) = m + (l - m)
  BY <1>0, <1>2, <1>4, CatIs
<1>6. HasAt(t, 0, u) /\ HasAt(t, 0 + Len(u), y) /\ 0 + Len(u) = i
  BY <1>1, <1>5, SplitHas
<1> HIDE DEF t
<1>7. ASSUME NEW k \in 1 .. l, k <= i PROVE t[k] = s[k]
  <2>1. k \in 1 .. i /\ 0 + k = k
    BY <1>7
  <2>2. u[k] = s[k] /\ t[k] = u[k]
    BY <1>1, <1>6, <2>1 DEF HasAt
  <2> QED BY <2>2
<1>8. ASSUME NEW k \in 1 .. l, k > m PROVE t[k] = s[k]
  <2>1. PICK e \in 1 .. l - m : k = m + e
    <3>1. k - m \in 1 .. l - m /\ k = m + (k - m)
      BY <1>0, <1>8
    <3> QED BY <3>1
  <2>2. v[e] = s[m + e] /\ t[m + e] = v[e]
    BY <1>2, <1>5, <2>1 DEF HasAt
  <2> QED BY <2>1, <2>2
<1>9. Len(t) = Len(s)
  BY <1>0, <1>5
<1> QED BY <1>0, <1>3, <1>5, <1>6, <1>7, <1>8, <1>9
-----------------------------------------------------------------------------
(***************************************************************************)
(* The sum of the words of a string.                                       *)
(***************************************************************************)

(***************************************************************************)
(* The Internet checksum.                                                  *)
(***************************************************************************)
LEMMA SumsStep ==
    ASSUME NEW s
    PROVE  /\ Sums(s)[0] = 0
           /\ \A n \in Nat : n # 0 => Sums(s)[n] = Sums(s)[n - 1] + Uint16(s, 2 * n - 2)
<1> DEFINE f == Sums(s)
<1>1. f = [n \in Nat |-> IF n = 0 THEN 0 ELSE f[n - 1] + Uint16(s, 2 * n - 2)]
  BY SumsIs
<1> HIDE DEF f
<1>2. f[0] = 0
  BY <1>1
<1>3. \A n \in Nat : n # 0 => f[n] = f[n - 1] + Uint16(s, 2 * n - 2)
  BY <1>1
<1> QED BY <1>2, <1>3 DEF f

\* Sums are numbers, and depend on the words that are summed only.
LEMMA SumsTyped ==
    ASSUME NEW s \in Bytes
    PROVE  \A n \in Nat : 2 * n <= Len(s) => Sums(s)[n] \in Nat
<1> DEFINE S == {n \in Nat : 2 * n <= Len(s) => Sums(s)[n] \in Nat}
<1>0. Len(s) \in Nat
  BY DEF Bytes
<1>1. ASSUME NEW n \in Nat, \A k \in 0 .. n - 1 : k \in S PROVE n \in S
  <2>1. CASE n = 0
    BY <2>1, SumsStep
  <2>2. CASE n # 0
    <3>1. SUFFICES ASSUME 2 * n <= Len(s) PROVE Sums(s)[n] \in Nat
      OBVIOUS
    <3>2. PICK i \in Nat : i = 2 * n - 2 /\ i + 2 <= Len(s) /\ 2 * (n - 1) <= Len(s)
      BY <1>0, <2>2, <3>1
    <3>3. Sums(s)[n - 1] \in Nat
      BY <1>1, <2>2, <3>2
    <3>4. Uint16(s, i) \in Nat
      BY <3>2, Uint16Is
    <3>5. Sums(s)[n] = Sums(s)[n - 1] + Uint16(s, i)
      BY <2>2, <3>2, SumsStep
    <3> QED BY <3>3, <3>4, <3>5
  <2> QED BY <2>1, <2>2
<1> HIDE DEF S
<1>2. S \subseteq Nat
  BY DEF S
<1>3. \A n \in Nat : n \in S
  BY <1>1, <1>2, AllNumbers
<1> QED BY <1>3 DEF S

\* Sums of a concatenation, if the first part is of even length.
LEMMA SumsCat ==
    ASSUME NEW x \in Bytes, NEW y \in Bytes, NEW h \in Nat, Len(x) = 2 * h
    PROVE  /\ \A n \in Nat : 2 * n <= Len(x) => Sums(x \o y)[n] = Sums(x)[n]
           /\ \A n \in Nat : 2 * n <= Len(y) => Sums(x \o y)[h + n] = Sums(x)[h] + Sums(y)[n]
<1> DEFINE s == x \o y
           S == {n \in Nat : 2 * n <= Len(x) => Sums(s)[n] = Sums(x)[n]}
           T == {n \in Nat : 2 * n <= Len(y) => Sums(s)[h + n] = Sums(x)[h] + Sums(y)[n]}
<1>1. /\ s \in Bytes /\ Len(s) = Len(x) + Len(y) /\ HasAt(s, 0, x) /\ HasAt(s, Len(x), y)
      /\ Len(x) \in Nat /\ Len(y) \in Nat
  BY CatIs DEF Bytes
<1> HIDE DEF s
<1>2. ASSUME NEW i \in Nat, i + 2 <= Len(x) PROVE Uint16(s, i) = Uint16(x, i)
  <2>1. i + 1 \in 1 .. Len(x) /\ i + 2 \in 1 .. Len(x) /\ i + 1 + 1 = i + 2
        /\ 0 + (i + 1) = i + 1 /\ 0 + (i + 2) = i + 2
    BY <1>1, <1>2
  <2>2. s[i + 1] = x[i + 1] /\ s[i + 2] = x[i + 2]
    BY <1>1, <2>1 DEF HasAt
  <2> QED BY <2>1, <2>2 DEF Uint16, At
<1>3. ASSUME NEW i \in Nat, i + 2 <= Len(y), NEW j \in Nat, j = Len(x) + i
      PROVE  Uint16(s, j) = Uint16(y, i)
  <2>1. i + 1 \in 1 .. Len(y) /\ i + 2 \in 1 .. Len(y) /\ i + 1 + 1 = i + 2 /\ j + 1 + 1 = j + 2
        /\ Len(x) + (i + 1) = j + 1 /\ Len(x) + (i + 2) = j + 2
    BY <1>1, <1>3
  <2>2. s[j + 1] = y[i + 1] /\ s[j + 2] = y[i + 2]
    BY <1>1, <2>1 DEF HasAt
  <2> QED BY <2>1, <2>2 DEF Uint16, At
<1>4. ASSUME NEW n \in Nat, \A k \in 0 .. n - 1 : k \in S PROVE n \in S
  <2>1. CASE n = 0
    BY <2>1, SumsStep
  <2>2. CASE n # 0
    <3>1. SUFFICES ASSUME 2 * n <= Len(x) PROVE Sums(s)[n] = Sums(x)[n]
      OBVIOUS
    <3>2. PICK i \in Nat : i = 2 * n - 2 /\ i + 2 <= Len(x) /\ 2 * (n - 1) <= Len(x)
      BY <1>1, <2>2, <3>1
    <3>3. Sums(s)[n - 1] = Sums(x)[n - 1]
      BY <1>4, <2>2, <3>2
    <3>4. Sums(s)[n] = Sums(s)[n - 1] + Uint16(s, i) /\ Sums(x)[n] = Sums(x)[n - 1] + Uint16(x, i)
      BY <2>2, <3>2, SumsStep
    <3>5. Uint16(s, i) = Uint16(x, i)
      BY <1>2, <3>2
    <3> QED BY <3>3, <3>4, <3>5
  <2> QED BY <2>1, <2>2
<1>5. \A n \in Nat : n \in S
  <2> HIDE DEF S
  <2>1. S \subseteq Nat
    BY DEF S
  <2> QED BY <1>4, <2>1, AllNumbers
<1>6. Sums(s)[h] = Sums(x)[h] /\ Sums(x)[h] \in Nat
  <2>1. 2 * h <= Len(x)
    BY <1>1
  <2> QED BY <1>5, <2>1, SumsTyped
<1>7. ASSUME NEW n \in Nat, \A k \in 0 .. n - 1 : k \in T PROVE n \in T
  <2>1. CASE n = 0
    <3>1. Sums(y)[0] = 0 /\ h + 0 = h
      BY SumsStep
    <3> QED BY <1>6, <2>1, <3>1
  <2>2. CASE n # 0
    <3>1. SUFFICES ASSUME 2 * n <= Len(y) PROVE Sums(s)[h + n] = Sums(x)[h] + Sums(y)[n]
      OBVIOUS
    <3>2. PICK i \in Nat : i = 2 * n - 2 /\ i + 2 <= Len(y) /\ 2 * (n - 1) <= Len(y)
      BY <1>1, <2>2, <3>1
    <3>3. PICK k \in Nat, m \in Nat : k = h + n /\ k # 0 /\ m = n - 1 /\ k - 1 = h + m
      BY <2>2
    <3>4. PICK j \in Nat : j = 2 * k - 2 /\ j = Len(x) + i
      BY <3>2, <3>3
    <3>5. Sums(s)[h + m] = Sums(x)[h] + Sums(y)[m]
      BY <1>7, <2>2, <3>2, <3>3
    <3>6. Sums(s)[k] = Sums(s)[k - 1] + Uint16(s, j)
      BY <3>3, <3>4, SumsStep
    <3>7. Sums(y)[n] = Sums(y)[m] + Uint16(y, i)
      BY <2>2, <3>2, <3>3, SumsStep
    <3>8. Uint16(s, j) = Uint16(y, i) /\ Uint16(y, i) \in Nat
      BY <1>3, <3>2, <3>4, Uint16Is
    <3>9. Sums(y)[m] \in Nat
      BY <3>2, <3>3, SumsTyped
    <3> QED BY <1>6, <3>3, <3>5, <3>6, <3>7, <3>8, <3>9
  <2> QED BY <2>1, <2>2
<1>8. \A n \in Nat : n \in T
  <2> HIDE DEF T
  <2>1. T \subseteq Nat
    BY DEF T
  <2> QED BY <1>7, <2>1, AllNumbers
<1> QED BY <1>5, <1>8 DEF s

\* The sum of an even number of bytes.
LEMMA WordSumEven ==
    ASSUME NEW s \in Bytes, NEW h \in Nat, Len(s) = 2 * h
    PROVE  WordSum(s) = Sums(s)[h] /\ WordSum(s) \in Nat
<1>1. Len(s) \div 2 = h /\ Len(s) % 2 = 0 /\ 2 * h <= Len(s)
  OBVIOUS
<1>2. Sums(s)[h] \in Nat
  BY <1>1, SumsTyped
<1>3. WordSum(s) = Sums(s)[h] + 0
  BY <1>1, WordSumIs
<1> QED BY <1>2, <1>3

\* The sum of an odd number of bytes.
LEMMA WordSumOdd ==
    ASSUME NEW s \in Bytes, NEW h \in Nat, Len(s) = 2 * h + 1
    PROVE  /\ WordSum(s) = Sums(s)[h] + 256 * s[Len(s)] /\ WordSum(s) \in Nat
           /\ Sums(s)[h] \in Nat /\ s[Len(s)] \in Byte
<1>1. /\ Len(s) \div 2 = h /\ Len(s) % 2 = 1 /\ 2 * h <= Len(s)
      /\ Len(s) - 1 + 1 = Len(s) /\ Len(s) \in 1 .. Len(s)
  OBVIOUS
<1>2. Sums(s)[h] \in Nat
  BY <1>1, SumsTyped
<1>3. s[Len(s)] \in Byte
  BY <1>1 DEF Bytes
<1>4. WordSum(s) = Sums(s)[h] + 256 * s[Len(s)]
  BY <1>1, WordSumIs DEF At
<1>5. Sums(s)[h] + 256 * s[Len(s)] \in Nat
  <2>1. PICK d \in Nat : d = s[Len(s)]
    BY <1>3, ByteNumber
  <2>2. PICK e \in Nat : e = Sums(s)[h]
    BY <1>2
  <2>3. e + 256 * d \in Nat
    OBVIOUS
  <2> QED BY <2>1, <2>2, <2>3
<1> QED BY <1>2, <1>3, <1>4, <1>5

\* Every length is even or odd.
LEMMA EvenOrOdd ==
    ASSUME NEW s \in Bytes
    PROVE  \E h \in Nat : Len(s) = 2 * h \/ Len(s) = 2 * h + 1
<1>1. Len(s) \in Nat
  BY DEF Bytes
<1>2. Len(s) \div 2 \in Nat /\ (Len(s) = 2 * (Len(s) \div 2) \/ Len(s) = 2 * (Len(s) \div 2) + 1)
  BY <1>1
<1> QED BY <1>2

\* The sum of a concatenation.
LEMMA WordSumCat ==
    ASSUME NEW x \in Bytes, NEW y \in Bytes, NEW h \in Nat, Len(x) = 2 * h
    PROVE  /\ WordSum(x \o y) = WordSum(x) + WordSum(y)
           /\ WordSum(x) \in Nat /\ WordSum(y) \in Nat
<1> DEFINE s == x \o y
<1>1. /\ s \in Bytes /\ Len(s) = Len(x) + Len(y) /\ HasAt(s, Len(x), y)
      /\ Len(x) \in Nat /\ Len(y) \in Nat
  BY CatIs DEF Bytes
<1>2. WordSum(x) = Sums(x)[h] /\ WordSum(x) \in Nat
  BY WordSumEven
<1>3. \A n \in Nat : 2 * n <= Len(y) => Sums(s)[h + n] = Sums(x)[h] + Sums(y)[n]
  BY SumsCat
<1> HIDE DEF s
<1>4. PICK g \in Nat : Len(y) = 2 * g \/ Len(y) = 2 * g + 1
  BY EvenOrOdd
<1>5. PICK k \in Nat : k = h + g
  OBVIOUS
<1>6. CASE Len(y) = 2 * g
  <2>1. Len(s) = 2 * k /\ 2 * g <= Len(y)
    BY <1>1, <1>5, <1>6
  <2>2. WordSum(s) = Sums(s)[k]
    BY <1>1, <2>1, WordSumEven
  <2>3. WordSum(y) = Sums(y)[g] /\ WordSum(y) \in Nat
    BY <1>6, WordSumEven
  <2>4. Sums(s)[k] = Sums(x)[h] + Sums(y)[g]
    BY <1>3, <1>5, <2>1
  <2> QED BY <1>2, <2>2, <2>3, <2>4 DEF s
<1>7. CASE Len(y) = 2 * g + 1
  <2>1. Len(s) = 2 * k + 1 /\ 2 * g <= Len(y) /\ Len(y) \in 1 .. Len(y)
    BY <1>1, <1>5, <1>7
  <2>2. WordSum(s) = Sums(s)[k] + 256 * s[Len(s)]
    BY <1>1, <2>1, WordSumOdd, ZenonT(40)
  <2>3. /\ WordSum(y) = Sums(y)[g] + 256 * y[Len(y)] /\ WordSum(y) \in Nat
        /\ Sums(y)[g] \in Nat /\ y[Len(y)] \in Byte
    BY <1>7, WordSumOdd
  <2>4. Sums(s)[k] = Sums(x)[h] + Sums(y)[g]
    BY <1>3, <1>5, <2>1
  <2>5. s[Len(s)] = y[Len(y)]
    BY <1>1, <2>1 DEF HasAt
  <2>6. PICK d \in Nat : d = y[Len(y)]
    BY <2>3, ByteNumber
  <2>7. WordSum(s) = (WordSum(x) + Sums(y)[g]) + 256 * d
    BY <1>2, <2>2, <2>4, <2>5, <2>6
  <2>8. WordSum(y) = Sums(y)[g] + 256 * d
    BY <2>3, <2>6
  <2> QED BY <1>2, <2>3, <2>7, <2>8 DEF s
<1> QED BY <1>4, <1>6, <1>7

\* The sum of a single word.
LEMMA WordSumWord ==
    ASSUME NEW y \in Bytes, Len(y) = 2
    PROVE  WordSum(y) = Uint16(y, 0) /\ Uint16(y, 0) \in Word /\ WordSum(y) \in Nat
<1>1. PICK h \in Nat : h = 1 /\ h # 0 /\ h - 1 = 0 /\ 2 * h - 2 = 0 /\ Len(y) = 2 * h
  OBVIOUS
<1>2. WordSum(y) = Sums(y)[h] /\ WordSum(y) \in Nat
  BY <1>1, WordSumEven
<1>3. 0 + 2 <= Len(y)
  OBVIOUS
<1>4. Uint16(y, 0) \in Word /\ Uint16(y, 0) \in Nat
  BY <1>3, Uint16Is
<1>5. Sums(y)[h] = Sums(y)[h - 1] + Uint16(y, 2 * h - 2) /\ Sums(y)[0] = 0
  BY <1>1, SumsStep
<1>6. Sums(y)[h] = 0 + Uint16(y, 0)
  BY <1>1, <1>5
<1> QED BY <1>2, <1>4, <1>6

\* An odd byte counts as if a zero followed it.
LEMMA WordSumPadded ==
    ASSUME NEW s \in Bytes
    PROVE  WordSum(Padded(s, Len(s) + (Len(s) % 2))) = WordSum(s)
<1>1. PICK h \in Nat : Len(s) = 2 * h \/ Len(s) = 2 * h + 1
  BY EvenOrOdd
<1>2. CASE Len(s) = 2 * h
  <2>1. Len(s) + (Len(s) % 2) = Len(s) /\ Len(s) \in Nat
    BY <1>2
  <2>2. /\ Padded(s, Len(s)) \in Bytes /\ Len(Padded(s, Len(s))) = Len(s)
        /\ \A k \in 1 .. Len(s) : Padded(s, Len(s))[k] = IF k <= Len(s) THEN s[k] ELSE 0
    BY <2>1, PaddedIs
  <2>3. Padded(s, Len(s)) = s
    BY <2>2, BytesEqual
  <2> QED BY <2>1, <2>3
<1>3. CASE Len(s) = 2 * h + 1
  <2>1. PICK n \in Nat, m \in Nat, l \in Nat :
          /\ l = Len(s) /\ n = l + 1 /\ m = 2 * h /\ l = m + 1
          /\ Len(s) + (Len(s) % 2) = n /\ m <= l /\ 0 <= m /\ m <= Len(s)
    BY <1>3
  <2> DEFINE p == Padded(s, n)
             u == Slice(s, 0, m)
  <2>2. p \in Bytes /\ Len(p) = n /\ \A k \in 1 .. n : p[k] = IF k <= Len(s) THEN s[k] ELSE 0
    BY PaddedIs
  <2> HIDE DEF p
  <2>3. PICK d \in Byte : d = s[l]
    <3>1. l \in 1 .. Len(s)
      BY <2>1
    <3> QED BY <3>1 DEF Bytes
  <2>4. u \in Bytes /\ Len(u) = m /\ \A k \in 1 .. m : u[k] = s[k]
    <3>1. m <= Len(s)
      BY <2>1
    <3> QED BY <3>1, PrefixIs
  <2> HIDE DEF u
  <2>5. /\ <<d, 0>> \in Bytes /\ Len(<<d, 0>>) = 2 /\ <<d, 0>>[1] = d /\ <<d, 0>>[2] = 0
        /\ <<d>> \in Bytes /\ Len(<<d>>) = 1 /\ <<d>>[1] = d
    BY DEF Bytes, Byte
  <2> DEFINE y == <<d, 0>>
             z == <<d>>
  <2> HIDE DEF y, z
  <2>6. p = u \o y
    <3>1. /\ u \o y \in Bytes /\ Len(u \o y) = n /\ HasAt(u \o y, 0, u) /\ HasAt(u \o y, m, y)
      BY <2>1, <2>4, <2>5, CatIs DEF y
    <3>2. ASSUME NEW k \in 1 .. n PROVE p[k] = (u \o y)[k]
      <4>1. CASE k <= m
        <5>1. k \in 1 .. m /\ 0 + k = k /\ k <= Len(s)
          BY <2>1, <4>1
        <5>2. (u \o y)[k] = u[k] /\ u[k] = s[k]
          BY <2>4, <3>1, <5>1 DEF HasAt
        <5> QED BY <2>2, <5>1, <5>2
      <4>2. CASE k = m + 1
        <5>1. k = l /\ k <= Len(s) /\ 1 \in 1 .. Len(y)
          BY <2>1, <2>5, <4>2 DEF y
        <5>2. (u \o y)[k] = d
          BY <2>5, <3>1, <4>2, <5>1 DEF HasAt, y
        <5> QED BY <2>2, <2>3, <5>1, <5>2
      <4>3. CASE k = m + 2
        <5>1. ~(k <= Len(s)) /\ 2 \in 1 .. Len(y)
          BY <2>1, <2>5, <4>3 DEF y
        <5>2. (u \o y)[k] = 0
          BY <2>5, <3>1, <4>3, <5>1 DEF HasAt, y
        <5> QED BY <2>2, <5>1, <5>2
      <4>4. k <= m \/ k = m + 1 \/ k = m + 2
        BY <2>1
      <4> QED BY <4>1, <4>2, <4>3, <4>4
    <3> QED BY <2>2, <3>1, <3>2, BytesEqual
  <2>7. s = u \o z
    <3>1. /\ u \o z \in Bytes /\ Len(u \o z) = l /\ HasAt(u \o z, 0, u) /\ HasAt(u \o z, m, z)
      BY <2>1, <2>4, <2>5, CatIs DEF z
    <3>2. ASSUME NEW k \in 1 .. l PROVE s[k] = (u \o z)[k]
      <4>1. CASE k <= m
        <5>1. k \in 1 .. m /\ 0 + k = k
          BY <4>1
        <5> QED BY <2>4, <3>1, <5>1 DEF HasAt
      <4>2. CASE k = m + 1
        <5>1. k = l /\ 1 \in 1 .. Len(z)
          BY <2>1, <2>5, <4>2 DEF z
        <5>2. (u \o z)[k] = d
          BY <2>5, <3>1, <4>2, <5>1 DEF HasAt, z
        <5> QED BY <2>3, <5>1, <5>2
      <4>3. k <= m \/ k = m + 1
        BY <2>1
      <4> QED BY <4>1, <4>2, <4>3
    <3> QED BY <2>1, <3>1, <3>2, BytesEqual
  <2>8. /\ WordSum(p) = WordSum(u) + WordSum(y) /\ WordSum(s) = WordSum(u) + WordSum(z)
    <3>1. Len(u) = 2 * h /\ y \in Bytes /\ z \in Bytes
      BY <2>1, <2>4, <2>5 DEF y, z
    <3> QED BY <2>4, <2>6, <2>7, <3>1, WordSumCat
  <2>9. WordSum(y) = 256 * d
    <3>1. WordSum(y) = Uint16(y, 0) /\ y[0 + 1] = d /\ y[0 + 2] = 0 /\ 0 \in Byte
      BY <2>5, WordSumWord, ByteIs DEF y
    <3>2. Uint16(y, 0) = 256 * d + 0
      BY <3>1, Uint16Of
    <3> QED BY <3>1, <3>2, ByteIs
  <2>10. WordSum(z) = 256 * d
    <3>1. z \in Bytes /\ 0 \in Nat /\ Len(z) = 2 * 0 + 1 /\ z[Len(z)] = d
      BY <2>5 DEF z
    <3>2. WordSum(z) = Sums(z)[0] + 256 * z[Len(z)]
      BY <3>1, WordSumOdd
    <3>3. Sums(z)[0] = 0
      BY SumsStep
    <3> QED BY <3>1, <3>2, <3>3, ByteIs
  <2>11. WordSum(p) = WordSum(s)
    BY <2>8, <2>9, <2>10
  <2> QED BY <2>1, <2>11 DEF p
<1> QED BY <1>1, <1>2, <1>3

\* A word that was zero counts once it is set.
LEMMA WordSumPut ==
    ASSUME NEW s \in Bytes, NEW h \in Nat, NEW i \in Nat, i = 2 * h, i + 2 <= Len(s),
           NEW y \in Bytes, Len(y) = 2, s[i + 1] = 0, s[i + 2] = 0
    PROVE  WordSum(Put(s, i, y)) = WordSum(s) + Uint16(y, 0)
<1>1. PICK m \in Nat, l \in Nat :
        /\ m = i + Len(y) /\ m = i + 2 /\ l = Len(s) /\ m <= l /\ i <= m /\ l <= Len(s)
        /\ m <= Len(s)
        /\ i <= Len(s) /\ 0 <= i /\ i <= l /\ m - i = 2
  BY DEF Bytes
<1> DEFINE u == Slice(s, 0, i)
           z == Slice(s, i, m)
           v == Slice(s, m, l)
<1>2. u \in Bytes /\ Len(u) = i
  BY <1>1, PrefixIs
<1>3. z \in Bytes /\ Len(z) = m - i /\ \A k \in 1 .. m - i : z[k] = s[i + k]
  BY <1>1, SliceIs, ZenonT(40)
<1>4. v \in Bytes
  BY <1>1, SliceIs, SMTT(30)
<1>5. Put(s, i, y) = (u \o y) \o v
  BY <1>1 DEF Put
<1>6. s = Slice(s, 0, l) /\ Slice(s, 0, l) = u \o Slice(s, i, l) /\ Slice(s, i, l) = z \o v
  <2>1. s = Slice(s, 0, l)
    BY <1>1, SliceAll
  <2>2. Slice(s, 0, l) = u \o Slice(s, i, l)
    BY <1>1, PrefixCat
  <2>3. Slice(s, i, l) = z \o v
    <3>1. i <= m /\ m <= l /\ l <= Len(s)
      BY <1>1
    <3> QED BY <3>1, SliceCat
  <2> QED BY <2>1, <2>2, <2>3
<1>7. s = u \o (z \o v)
  BY <1>6
<1> HIDE DEF u, z, v
<1>8. /\ Len(u) = 2 * h /\ Len(z) = 2 /\ Len(z) = 2 * 1 /\ 1 \in Nat
      /\ z \o v \in Bytes /\ u \o y \in Bytes /\ Len(u \o y) = 2 * (h + 1) /\ h + 1 \in Nat
  <2>1. z \o v \in Bytes
    BY <1>3, <1>4, CatIs
  <2>2. u \o y \in Bytes /\ Len(u \o y) = Len(u) + Len(y)
    BY <1>2, CatIs
  <2> QED BY <1>1, <1>2, <1>3, <2>1, <2>2
<1>9. WordSum(s) = WordSum(u) + WordSum(z \o v) /\ WordSum(u) \in Nat
  BY <1>2, <1>7, <1>8, WordSumCat
<1>10. WordSum(z \o v) = WordSum(z) + WordSum(v) /\ WordSum(v) \in Nat
  BY <1>3, <1>4, <1>8, WordSumCat
<1>11. WordSum((u \o y) \o v) = WordSum(u \o y) + WordSum(v)
  BY <1>4, <1>8, WordSumCat
<1>12. WordSum(u \o y) = WordSum(u) + WordSum(y)
  BY <1>2, <1>8, WordSumCat
<1>13. WordSum(y) = Uint16(y, 0) /\ WordSum(y) \in Nat
  BY WordSumWord
<1>14. WordSum(z) = 0
  <2>1. 1 \in 1 .. m - i /\ 2 \in 1 .. m - i
    BY <1>1
  <2>2. z[0 + 1] = 0 /\ z[0 + 2] = 0 /\ 0 \in Byte
    BY <1>3, <2>1, ByteIs
  <2>3. Uint16(z, 0) = 256 * 0 + 0
    BY <2>2, Uint16Of
  <2>4. WordSum(z) = Uint16(z, 0)
    BY <1>3, <1>8, WordSumWord
  <2> QED BY <2>3, <2>4
<1>15. WordSum(s) = WordSum(u) + WordSum(v)
  BY <1>9, <1>10, <1>14
<1>16. WordSum(Put(s, i, y)) = (WordSum(u) + WordSum(y)) + WordSum(v)
  BY <1>5, <1>11, <1>12
<1> QED BY <1>9, <1>10, <1>13, <1>15, <1>16
-----------------------------------------------------------------------------
(***************************************************************************)
(* The loop that adds the carries, and the checksum it gives.              *)
(***************************************************************************)

\* A function that goes down to a number that is not too big.
LEMMA FoldOf ==
    ASSUME NEW m \in Nat, NEW h \in [Nat -> Nat], \A n \in Nat : n > m => h[n] < n
    PROVE  \E f : f = [n \in Nat |-> IF n > m THEN f[h[n]] ELSE n]
<1> DEFINE To(f, k) == \A n \in 0 .. k : f[n] = IF n > m THEN f[h[n]] ELSE n
           S == {k \in Nat : \E f : To(f, k)}
           Same == {n \in Nat : \A f, g : To(f, n) /\ To(g, n) => f[n] = g[n]}
           F(k) == CHOOSE f : To(f, k)
           all == [n \in Nat |-> F(n)[n]]
<1>1. \A k \in Nat : k \in S
  <2>1. ASSUME NEW k \in Nat, \A j \in 0 .. k - 1 : j \in S
        PROVE  k \in S
    <3>1. CASE k = 0
      <4> DEFINE f == [n \in {0} |-> 0]
      <4>1. To(f, 0)
        OBVIOUS
      <4> QED BY <3>1, <4>1
    <3>2. CASE k # 0
      <4>1. PICK f : To(f, k - 1)
        <5>1. k - 1 \in 0 .. k - 1
          BY <3>2
        <5>2. k - 1 \in S
          BY <2>1, <5>1
        <5> QED BY <5>2
      <4> DEFINE g == [n \in 0 .. k |-> IF n = k THEN IF k > m THEN f[h[k]] ELSE k ELSE f[n]]
      <4>2. To(g, k)
        <5> SUFFICES ASSUME NEW n \in 0 .. k PROVE g[n] = IF n > m THEN g[h[n]] ELSE n
          OBVIOUS
        <5>1. n > m => h[n] \in 0 .. n - 1
          OBVIOUS
        <5>2. CASE n = k
          BY <5>1, <5>2
        <5>3. CASE n # k
          <6>1. n \in 0 .. k - 1
            BY <5>3
          <6>2. f[n] = IF n > m THEN f[h[n]] ELSE n
            BY <4>1, <6>1
          <6>3. n > m => h[n] \in 0 .. k /\ h[n] # k
            BY <5>1, <6>1
          <6> QED BY <5>3, <6>1, <6>2, <6>3
        <5> QED BY <5>2, <5>3
      <4> QED BY <4>2
    <3> QED BY <3>1, <3>2
  <2> HIDE DEF S
  <2>2. S \subseteq Nat
    BY DEF S
  <2> QED BY <2>1, <2>2, AllNumbers
<1>2. \A k \in Nat : k \in Same
  <2>1. ASSUME NEW k \in Nat, \A j \in 0 .. k - 1 : j \in Same
        PROVE  k \in Same
    <3> SUFFICES ASSUME NEW f, NEW g, To(f, k), To(g, k) PROVE f[k] = g[k]
      OBVIOUS
    <3>1. CASE k > m
      <4>1. h[k] \in 0 .. k - 1
        BY <3>1
      <4>2. To(f, h[k]) /\ To(g, h[k])
        BY <4>1
      <4>3. f[h[k]] = g[h[k]]
        BY <2>1, <4>1, <4>2
      <4> QED BY <3>1, <4>3
    <3> QED BY <3>1
  <2> HIDE DEF Same
  <2>2. Same \subseteq Nat
    BY DEF Same
  <2> QED BY <2>1, <2>2, AllNumbers
<1>3. \A k \in Nat : To(F(k), k)
  <2> SUFFICES ASSUME NEW k \in Nat PROVE To(F(k), k)
    OBVIOUS
  <2>1. \E f : To(f, k)
    BY <1>1
  <2> HIDE DEF To
  <2> QED BY <2>1
<1> HIDE DEF F
<1>4. ASSUME NEW n \in Nat PROVE all[n] = IF n > m THEN all[h[n]] ELSE n
  <2>1. CASE n > m
    <3>1. h[n] \in 0 .. n - 1 /\ h[n] \in Nat
      BY <2>1
    <3>2. To(F(n), n) /\ To(F(n), h[n]) /\ To(F(h[n]), h[n])
      BY <1>3, <3>1
    <3>3. F(n)[h[n]] = F(h[n])[h[n]]
      BY <1>2, <3>1, <3>2
    <3> QED BY <2>1, <3>1, <3>2, <3>3
  <2>2. CASE ~(n > m)
    BY <1>3, <2>2
  <2> QED BY <2>1, <2>2
<1>5. all = [n \in Nat |-> IF n > m THEN all[h[n]] ELSE n]
  BY <1>4
<1> QED BY <1>5

\* One carry makes a number smaller, and leaves it the same modulo 65535.
LEMMA CarryIs ==
    ASSUME NEW n \in Nat
    PROVE  /\ (n \div 65536) + (n % 65536) \in Nat
           /\ n > 65535 => (n \div 65536) + (n % 65536) < n
           /\ ((n \div 65536) + (n % 65536)) % 65535 = n % 65535
<1> DEFINE q == n \div 65536
           r == n % 65536
<1>1. q \in Nat /\ r \in Nat /\ r < 65536 /\ n = 65536 * q + r
  OBVIOUS
<1> HIDE DEF q, r
<1>2. q + r \in Nat /\ (n > 65535 => q + r < n)
  BY <1>1
<1>3. (q + r) % 65535 = n % 65535
  BY <1>1
<1> QED BY <1>2, <1>3 DEF q, r

\* The loop that adds the carries, with its numbers as parameters.
FoldTo(m, w) ==
    CHOOSE fold : fold = [n \in Nat |-> IF n > m THEN fold[(n \div w) + (n % w)] ELSE n]

\* It is defined by its equation if some function is.
LEMMA FoldToIs ==
    ASSUME NEW m, NEW w, NEW f, f = [n \in Nat |-> IF n > m THEN f[(n \div w) + (n % w)] ELSE n]
    PROVE  FoldTo(m, w) = [n \in Nat |-> IF n > m THEN FoldTo(m, w)[(n \div w) + (n % w)] ELSE n]
BY Zenon DEF FoldTo

\* The loop of ipv4csum.
Fold == FoldTo(65535, 65536)

\* The equation of the loop of ipv4csum.
LEMMA FoldIs == \A n \in Nat : Fold[n] = IF n > 65535 THEN Fold[(n \div 65536) + (n % 65536)] ELSE n
<1> DEFINE h == [n \in Nat |-> (n \div 65536) + (n % 65536)]
<1>1. h \in [Nat -> Nat] /\ \A n \in Nat : n > 65535 => h[n] < n
  BY CarryIs
<1>2. \A n \in Nat : h[n] = (n \div 65536) + (n % 65536)
  OBVIOUS
<1> HIDE DEF h
<1>3. PICK f : f = [n \in Nat |-> IF n > 65535 THEN f[h[n]] ELSE n]
  BY <1>1, FoldOf
<1>4. f = [n \in Nat |-> IF n > 65535 THEN f[(n \div 65536) + (n % 65536)] ELSE n]
  BY <1>2, <1>3
<1>5. Fold = [n \in Nat |-> IF n > 65535 THEN Fold[(n \div 65536) + (n % 65536)] ELSE n]
  BY <1>4, FoldToIs DEF Fold
<1> QED BY <1>5

\* The loop ends in 16 bits, with a number that is the same modulo 65535.
LEMMA FoldRight ==
    \A n \in Nat : Fold[n] \in Word /\ Fold[n] % 65535 = n % 65535
<1> DEFINE S == {n \in Nat : Fold[n] \in Word /\ Fold[n] % 65535 = n % 65535}
<1>1. ASSUME NEW n \in Nat, \A k \in 0 .. n - 1 : k \in S PROVE n \in S
  <2>1. PICK k \in Nat : k = (n \div 65536) + (n % 65536) /\ (n > 65535 => k < n)
                          /\ k % 65535 = n % 65535
    BY CarryIs
  <2>2. Fold[n] = IF n > 65535 THEN Fold[k] ELSE n
    BY <2>1, FoldIs
  <2>3. CASE n > 65535
    <3>1. k \in 0 .. n - 1
      BY <2>1, <2>3
    <3> QED BY <1>1, <2>1, <2>2, <2>3, <3>1
  <2>4. CASE ~(n > 65535)
    <3>1. Fold[n] = n
      BY <2>2, <2>4
    <3>2. n \in Word
      BY <2>4 DEF Word
    <3> QED BY <3>1, <3>2
  <2> QED BY <2>3, <2>4
<1> HIDE DEF S
<1>2. S \subseteq Nat
  BY DEF S
<1>3. \A n \in Nat : n \in S
  BY <1>1, <1>2, AllNumbers
<1> QED BY <1>3 DEF S

\* The checksum makes the sum a multiple of 65535.
LEMMA ChecksumIs ==
    ASSUME NEW s, NEW acc \in Nat, WordSum(s) \in Nat
    PROVE  /\ ipv4csum(s, acc) \in Word
           /\ (acc + WordSum(s) + ipv4csum(s, acc)) % 65535 = 0
<1>1. PICK n \in Nat : n = acc + WordSum(s)
  OBVIOUS
<1>2. ipv4csum(s, acc) = 65535 - Fold[n]
  BY <1>1 DEF ipv4csum, Fold, FoldTo
<1>3. PICK f \in Nat : f < 65536 /\ f = Fold[n] /\ f % 65535 = n % 65535
  BY FoldRight DEF Word
<1>4. 65535 - f \in Nat /\ 65535 - f < 65536 /\ (n + (65535 - f)) % 65535 = 0
  BY <1>3
<1>5. ipv4csum(s, acc) = 65535 - f
  BY <1>2, <1>3
<1> QED BY <1>1, <1>4, <1>5 DEF Word
-----------------------------------------------------------------------------
(***************************************************************************)
(* Strings of a size, and what is put into them.                           *)
(***************************************************************************)

\* Short strings.
LEMMA OneByte ==
    ASSUME NEW x \in Byte
    PROVE  <<x>> \in Bytes /\ Len(<<x>>) = 1 /\ <<x>>[1] = x
BY DEF Bytes

\* Four bytes are a byte string.
LEMMA FourBytes ==
    ASSUME NEW x \in Byte, NEW y \in Byte, NEW z \in Byte, NEW w \in Byte
    PROVE  /\ <<x, y, z, w>> \in Bytes /\ Len(<<x, y, z, w>>) = 4
           /\ <<x, y, z, w>>[1] = x /\ <<x, y, z, w>>[2] = y
           /\ <<x, y, z, w>>[3] = z /\ <<x, y, z, w>>[4] = w
BY DEF Bytes

\* What replaced bytes leave as it was.
LEMMA PutKeeps ==
    ASSUME NEW s \in Bytes, NEW y \in Bytes, NEW i \in Nat, i + Len(y) <= Len(s),
           NEW z \in Bytes, NEW k \in Nat, HasAt(s, k, z), k + Len(z) <= i \/ i + Len(y) <= k
    PROVE  HasAt(Put(s, i, y), k, z)
<1> DEFINE t == Put(s, i, y)
<1>1. /\ t \in Bytes /\ Len(t) = Len(s)
      /\ \A e \in 1 .. Len(s) : e <= i \/ e > i + Len(y) => t[e] = s[e]
  BY PutIs
<1> HIDE DEF t
<1>2. Len(s) \in Nat /\ Len(y) \in Nat /\ Len(z) \in Nat
  BY DEF Bytes
<1>3. k + Len(z) <= Len(s) /\ \A j \in 1 .. Len(z) : s[k + j] = z[j]
  BY DEF HasAt
<1>4. ASSUME NEW j \in 1 .. Len(z) PROVE t[k + j] = z[j]
  <2>1. k + j \in 1 .. Len(s) /\ (k + j <= i \/ k + j > i + Len(y))
    BY <1>2, <1>3
  <2> QED BY <1>1, <1>3, <2>1
<1>5. HasAt(t, k, z)
  BY <1>1, <1>3, <1>4 DEF HasAt
<1> QED BY <1>5 DEF t

\* Bytes replaced in a slice.
LEMMA SlicePut ==
    ASSUME NEW s \in Bytes, NEW i \in Nat, NEW j \in Nat, i <= j, j <= Len(s),
           NEW y \in Bytes, NEW m \in Nat, NEW k \in Nat, k = i + m, k + Len(y) <= j
    PROVE  Slice(Put(s, k, y), i, j) = Put(Slice(s, i, j), m, y)
<1> DEFINE t == Put(s, k, y)
           u == Slice(t, i, j)
           v == Slice(s, i, j)
           w == Put(v, m, y)
<1>1. /\ Len(s) \in Nat /\ Len(y) \in Nat /\ k + Len(y) <= Len(s)
  BY DEF Bytes
<1>2. /\ t \in Bytes /\ Len(t) = Len(s) /\ HasAt(t, k, y)
      /\ \A e \in 1 .. Len(s) : e <= k \/ e > k + Len(y) => t[e] = s[e]
  BY <1>1, PutIs
<1> HIDE DEF t
<1>3. j <= Len(t)
  BY <1>2
<1>4. u \in Bytes /\ Len(u) = j - i /\ \A e \in 1 .. j - i : u[e] = t[i + e]
  BY <1>2, <1>3, SliceIs
<1>5. v \in Bytes /\ Len(v) = j - i /\ \A e \in 1 .. j - i : v[e] = s[i + e]
  BY SliceIs
<1> HIDE DEF u, v
<1>6. m + Len(y) <= Len(v)
  BY <1>1, <1>5
<1>7. /\ w \in Bytes /\ Len(w) = Len(v) /\ HasAt(w, m, y)
      /\ \A e \in 1 .. Len(v) : e <= m \/ e > m + Len(y) => w[e] = v[e]
  BY <1>5, <1>6, PutIs
<1> HIDE DEF w
<1>8. ASSUME NEW e \in 1 .. j - i PROVE u[e] = w[e]
  <2>1. u[e] = t[i + e] /\ v[e] = s[i + e] /\ i + e \in 1 .. Len(s) /\ e \in 1 .. Len(v)
    BY <1>1, <1>4, <1>5
  <2>2. CASE e <= m \/ e > m + Len(y)
    <3>1. i + e <= k \/ i + e > k + Len(y)
      BY <1>1, <2>2
    <3> QED BY <1>2, <1>7, <2>1, <2>2, <3>1
  <2>3. CASE ~(e <= m \/ e > m + Len(y))
    <3>1. PICK d \in 1 .. Len(y) : e = m + d /\ i + e = k + d
      <4>1. e - m \in 1 .. Len(y) /\ e = m + (e - m) /\ i + e = k + (e - m)
        BY <1>1, <2>3
      <4> QED BY <4>1
    <3>2. t[k + d] = y[d] /\ w[m + d] = y[d]
      BY <1>2, <1>7 DEF HasAt
    <3> QED BY <2>1, <3>1, <3>2
  <2> QED BY <2>2, <2>3
<1>9. u = w
  BY <1>4, <1>5, <1>7, <1>8, BytesEqual
<1> QED BY <1>9 DEF t, u, v, w

\* Sized, by its parts.
LEMMA SizedIs ==
    ASSUME NEW n \in Nat, NEW s \in Sized(n)
    PROVE  s \in Bytes /\ Len(s) = n
BY DEF Sized

\* Byte strings of a length.
LEMMA IsSized ==
    ASSUME NEW s \in Bytes, NEW n \in Nat, Len(s) = n
    PROVE  s \in Sized(n)
BY DEF Sized

\* A byte string has its own length.
LEMMA SizedLen ==
    ASSUME NEW s \in Bytes
    PROVE  s \in Sized(Len(s)) /\ Len(s) \in Nat
BY DEF Sized, Bytes

\* The length of a concatenation, and the places of its parts.
LEMMA CatSized ==
    ASSUME NEW m \in Nat, NEW n \in Nat, NEW x \in Sized(m), NEW y \in Sized(n)
    PROVE  /\ x \o y \in Sized(m + n)
           /\ HasAt(x \o y, 0, x) /\ HasAt(x \o y, m, y)
<1>1. x \in Bytes /\ Len(x) = m /\ y \in Bytes /\ Len(y) = n
  BY SizedIs
<1>2. /\ x \o y \in Bytes /\ Len(x \o y) = Len(x) + Len(y)
      /\ HasAt(x \o y, 0, x) /\ HasAt(x \o y, Len(x), y)
  BY <1>1, CatIs
<1>3. Len(x \o y) = m + n
  BY <1>1, <1>2
<1>4. x \o y \in Sized(m + n)
  BY <1>2, <1>3 DEF Sized
<1> QED BY <1>1, <1>2, <1>4

\* The length of a slice.
LEMMA SliceSized ==
    ASSUME NEW l \in Nat, NEW s \in Sized(l), NEW i \in Nat, NEW j \in Nat, i <= j, j <= l
    PROVE  /\ Slice(s, i, j) \in Sized(j - i)
           /\ \A k \in Nat : 1 <= k /\ k <= j - i => Slice(s, i, j)[k] = s[i + k]
           /\ HasAt(s, i, Slice(s, i, j))
<1> DEFINE y == Slice(s, i, j)
<1>1. s \in Bytes
  BY SizedIs
<1>2. j <= Len(s) /\ j - i \in Nat
  BY SizedIs
<1>3. y \in Bytes /\ Len(y) = j - i /\ (\A k \in 1 .. j - i : y[k] = s[i + k]) /\ HasAt(s, i, y)
  <2>1. /\ Slice(s, i, j) \in Bytes /\ Len(Slice(s, i, j)) = j - i
        /\ \A k \in 1 .. j - i : Slice(s, i, j)[k] = s[i + k]
        /\ HasAt(s, i, Slice(s, i, j))
    BY <1>1, <1>2, SliceIs, Zenon
  <2> QED BY <2>1
<1> HIDE DEF y
<1>4. y \in Sized(j - i)
  BY <1>2, <1>3, IsSized
<1>5. \A k \in Nat : 1 <= k /\ k <= j - i => y[k] = s[i + k]
  BY <1>2, <1>3
<1> QED BY <1>3, <1>4, <1>5 DEF y

\* A byte of a slice.
LEMMA SliceByte ==
    ASSUME NEW l \in Nat, NEW s \in Sized(l), NEW i \in Nat, NEW j \in Nat, i <= j, j <= l,
           NEW k \in Nat, 1 <= k, k <= j - i
    PROVE  Slice(s, i, j)[k] = s[i + k]
<1>1. s \in Bytes
  BY SizedIs
<1>2. j <= Len(s) /\ k \in 1 .. j - i
  BY SizedIs
<1>3. \A n \in 1 .. j - i : Slice(s, i, j)[n] = s[i + n]
  BY <1>1, <1>2, SliceIs, Zenon
<1> QED BY <1>2, <1>3

\* The slice of what a string has at a place.
LEMMA HasSized ==
    ASSUME NEW l \in Nat, NEW s \in Sized(l), NEW n \in Nat, NEW y \in Sized(n),
           NEW i \in Nat, HasAt(s, i, y)
    PROVE  /\ i + n <= l
           /\ Slice(s, i, i + n) = y
           /\ \A k \in Nat : 1 <= k /\ k <= n => s[i + k] = y[k]
<1>1. s \in Bytes /\ Len(s) = l /\ y \in Bytes /\ Len(y) = n
  BY SizedIs
<1>2. i + Len(y) <= Len(s) /\ \A k \in 1 .. Len(y) : s[i + k] = y[k]
  BY DEF HasAt
<1>3. i + n <= l /\ \A k \in Nat : 1 <= k /\ k <= n => s[i + k] = y[k]
  BY <1>1, <1>2
<1>4. PICK j \in Nat : j <= i + Len(y) /\ i + Len(y) <= j
  BY <1>1
<1>5. Slice(s, i, i + Len(y)) = y
  BY <1>1, <1>4, SliceHas
<1>6. Slice(s, i, i + n) = y
  BY <1>1, <1>5
<1> QED BY <1>3, <1>6

\* What it takes to have a string at a place.
LEMMA HasWhen ==
    ASSUME NEW l \in Nat, NEW s \in Sized(l), NEW n \in Nat, NEW y \in Sized(n),
           NEW i \in Nat, i + n <= l, \A k \in Nat : 1 <= k /\ k <= n => s[i + k] = y[k]
    PROVE  HasAt(s, i, y)
<1>1. Len(s) = l /\ Len(y) = n
  BY SizedIs
<1>2. i + Len(y) <= Len(s) /\ \A k \in 1 .. Len(y) : s[i + k] = y[k]
  BY <1>1
<1> QED BY <1>2 DEF HasAt

\* Put keeps the length, and puts its string where it should.
LEMMA PutSized ==
    ASSUME NEW l \in Nat, NEW s \in Sized(l), NEW n \in Nat, NEW y \in Sized(n),
           NEW i \in Nat, i + n <= l
    PROVE  /\ Put(s, i, y) \in Sized(l) /\ HasAt(Put(s, i, y), i, y)
           /\ \A k \in Nat : 1 <= k /\ k <= l /\ (k <= i \/ k > i + n) => Put(s, i, y)[k] = s[k]
           /\ \A m \in Nat : \A z \in Sized(m), k \in Nat :
                 HasAt(s, k, z) /\ (k + m <= i \/ i + n <= k) => HasAt(Put(s, i, y), k, z)
<1> DEFINE t == Put(s, i, y)
<1>1. s \in Bytes /\ Len(s) = l /\ y \in Bytes /\ Len(y) = n
  BY SizedIs
<1>2. i + Len(y) <= Len(s)
  BY <1>1
<1>3. /\ t \in Bytes /\ Len(t) = Len(s) /\ HasAt(t, i, y)
      /\ \A k \in 1 .. Len(s) : k <= i \/ k > i + Len(y) => t[k] = s[k]
  BY <1>1, <1>2, PutIs
<1> HIDE DEF t
<1>4. t \in Sized(l)
  BY <1>1, <1>3, IsSized
<1>5. \A k \in Nat : 1 <= k /\ k <= l /\ (k <= i \/ k > i + n) => t[k] = s[k]
  BY <1>1, <1>3
<1>6. ASSUME NEW m \in Nat, NEW z \in Sized(m), NEW k \in Nat,
             HasAt(s, k, z), k + m <= i \/ i + n <= k
      PROVE  HasAt(t, k, z)
  <2>1. z \in Bytes /\ Len(z) = m
    BY SizedIs
  <2>2. k + Len(z) <= i \/ i + Len(y) <= k
    BY <1>1, <1>6, <2>1
  <2> QED BY <1>1, <1>2, <1>6, <2>1, <2>2, PutKeeps DEF t
<1> QED BY <1>3, <1>4, <1>5, <1>6 DEF t

\* Bytes beside a string that is put in stay.
LEMMA PutByte ==
    ASSUME NEW l \in Nat, NEW s \in Sized(l), NEW n \in Nat, NEW y \in Sized(n),
           NEW i \in Nat, i + n <= l, NEW k \in Nat, 1 <= k, k <= l, k <= i \/ k > i + n
    PROVE  Put(s, i, y)[k] = s[k]
<1>1. s \in Bytes /\ Len(s) = l /\ y \in Bytes /\ Len(y) = n
  BY SizedIs
<1>2. i + Len(y) <= Len(s) /\ k \in 1 .. Len(s) /\ (k <= i \/ k > i + Len(y))
  BY <1>1
<1>3. s \in Bytes /\ y \in Bytes
  BY <1>1
<1>4. \A o \in 1 .. Len(s) : o <= i \/ o > i + Len(y) => Put(s, i, y)[o] = s[o]
  BY <1>2, <1>3, PutIs, Zenon
<1> QED BY <1>2, <1>4

\* What is beside a string that is put in stays.
LEMMA PutHas ==
    ASSUME NEW l \in Nat, NEW s \in Sized(l), NEW n \in Nat, NEW y \in Sized(n),
           NEW i \in Nat, i + n <= l, NEW m \in Nat, NEW z \in Sized(m), NEW k \in Nat,
           HasAt(s, k, z), k + m <= i \/ i + n <= k
    PROVE  HasAt(Put(s, i, y), k, z)
<1>1. s \in Bytes /\ y \in Bytes /\ z \in Bytes
  BY SizedIs
<1>2. i + Len(y) <= Len(s) /\ (k + Len(z) <= i \/ i + Len(y) <= k)
  BY SizedIs
<1> QED BY <1>1, <1>2, PutKeeps, Zenon

\* The slices beside a string that is put in stay.
LEMMA SlicePutSized ==
    ASSUME NEW l \in Nat, NEW s \in Sized(l), NEW n \in Nat, NEW y \in Sized(n),
           NEW i \in Nat, NEW j \in Nat, NEW k \in Nat, i <= k, k + n <= j, j <= l
    PROVE  Slice(Put(s, k, y), i, j) = Put(Slice(s, i, j), k - i, y)
<1>1. s \in Bytes /\ Len(s) = l /\ y \in Bytes /\ Len(y) = n
  BY SizedIs
<1>2. PICK m \in Nat : i + m <= k /\ k <= i + m
  <2>1. k - i \in Nat /\ i + (k - i) <= k /\ k <= i + (k - i)
    OBVIOUS
  <2> QED BY <2>1, Zenon
<1>3. i <= j /\ j <= Len(s) /\ k + Len(y) <= j /\ k = i + m
  BY <1>1, <1>2
<1>4. Slice(Put(s, k, y), i, j) = Put(Slice(s, i, j), m, y)
  BY <1>1, <1>3, SlicePut
<1>5. m = k - i
  BY <1>2
<1> QED BY <1>4, <1>5

\* Strings that agree between two positions have the same slice there.
LEMMA SameSliceSized ==
    ASSUME NEW l \in Nat, NEW s \in Sized(l), NEW t \in Sized(l), NEW i \in Nat, NEW j \in Nat,
           i <= j, j <= l, \A k \in Nat : i < k /\ k <= j => s[k] = t[k]
    PROVE  Slice(s, i, j) = Slice(t, i, j)
<1>1. s \in Bytes /\ Len(s) = l /\ t \in Bytes /\ Len(t) = l
  BY SizedIs
<1>2. j <= Len(s) /\ j <= Len(t) /\ \A k \in i + 1 .. j : s[k] = t[k]
  BY <1>1
<1> QED BY <1>1, <1>2, SameSlice

\* Sums are numbers.
LEMMA WordSumNat ==
    ASSUME NEW s \in Bytes
    PROVE  WordSum(s) \in Nat
<1>1. PICK h \in Nat : Len(s) = 2 * h \/ Len(s) = 2 * h + 1
  BY EvenOrOdd
<1>2. CASE Len(s) = 2 * h
  <2>1. Len(s) \div 2 = h /\ Len(s) % 2 = 0 /\ 2 * h <= Len(s)
    BY <1>2
  <2>2. Sums(s)[h] \in Nat
    BY <2>1, SumsTyped
  <2>3. WordSum(s) = Sums(s)[h] + 0
    BY <2>1, WordSumIs
  <2> QED BY <2>2, <2>3
<1>3. CASE Len(s) = 2 * h + 1
  <2>1. /\ Len(s) \div 2 = h /\ Len(s) % 2 = 1 /\ 2 * h <= Len(s)
        /\ Len(s) - 1 + 1 = Len(s) /\ Len(s) \in 1 .. Len(s)
    BY <1>3
  <2>2. PICK e \in Nat : e = Sums(s)[h]
    BY <2>1, SumsTyped
  <2>3. s[Len(s)] \in Byte
    BY <2>1 DEF Bytes
  <2>4. PICK d \in Nat : d = s[Len(s)]
    BY <2>3, ByteNumber, Zenon
  <2>5. WordSum(s) = Sums(s)[h] + 256 * s[Len(s)]
    BY <2>1, WordSumIs DEF At
  <2> QED BY <2>2, <2>4, <2>5
<1> QED BY <1>1, <1>2, <1>3

\* The sum of a concatenation, if the first part is of even length.
LEMMA WordSumCatSized ==
    ASSUME NEW m \in Nat, NEW x \in Sized(m), NEW y \in Bytes, m % 2 = 0
    PROVE  WordSum(x \o y) = WordSum(x) + WordSum(y)
<1>1. x \in Bytes /\ Len(x) = m
  BY SizedIs
<1>2. PICK h \in Nat : m = 2 * h
  <2>1. m = 2 * (m \div 2) /\ m \div 2 \in Nat
    OBVIOUS
  <2> QED BY <2>1
<1>3. Len(x) = 2 * h
  BY <1>1, <1>2
<1> QED BY <1>1, <1>3, WordSumCat

\* The sum after a word is put in where there was a zero.
LEMMA WordSumPutSized ==
    ASSUME NEW l \in Nat, NEW s \in Sized(l), NEW y \in Sized(2), NEW i \in Nat,
           i + 2 <= l, i % 2 = 0, s[i + 1] = 0, s[i + 2] = 0
    PROVE  WordSum(Put(s, i, y)) = WordSum(s) + Uint16(y, 0)
<1>1. s \in Bytes /\ Len(s) = l /\ y \in Bytes /\ Len(y) = 2
  <2>1. y \in Bytes /\ Len(y) = 2
    BY DEF Sized
  <2> QED BY <2>1, SizedIs
<1>2. PICK h \in Nat : i = 2 * h
  <2>1. i = 2 * (i \div 2) /\ i \div 2 \in Nat
    OBVIOUS
  <2> QED BY <2>1
<1>3. i + 2 <= Len(s)
  BY <1>1
<1> QED BY <1>1, <1>2, <1>3, WordSumPut
-----------------------------------------------------------------------------
(***************************************************************************)
(* A checksum that is set.                                                 *)
(***************************************************************************)

\* What a word that was put is.
LEMMA PutWord ==
    ASSUME NEW n \in Word
    PROVE  /\ PutUint16(n) \in Sized(2)
           /\ Uint16(PutUint16(n), 0) = n /\ WordSum(PutUint16(n)) = n
           /\ \A s \in Bytes, i \in Nat : HasAt(s, i, PutUint16(n)) => Uint16(s, i) = n
<1> DEFINE y == PutUint16(n)
<1>1. n \in Nat /\ n % 65536 = n
  BY DEF Word
<1>2. y \in Bytes /\ Len(y) = 2
      /\ \A s \in Bytes, i \in Nat : HasAt(s, i, y) => Uint16(s, i) = n % 65536
  BY <1>1, PutUint16Is
<1> HIDE DEF y
<1>3. HasAt(y, 0, y)
  BY <1>2 DEF HasAt
<1>4. Uint16(y, 0) = n /\ \A s \in Bytes, i \in Nat : HasAt(s, i, y) => Uint16(s, i) = n
  BY <1>1, <1>2, <1>3
<1>5. WordSum(y) = n
  BY <1>2, <1>4, WordSumWord
<1>6. y \in Sized(2)
  BY <1>2 DEF Sized
<1> QED BY <1>4, <1>5, <1>6 DEF y

\* The sum of four words.
LEMMA FourWords ==
    ASSUME NEW l \in Nat, NEW s \in Sized(l), 20 <= l
    PROVE  /\ WordSum(Slice(s, 12, 20)) =
                 Uint16(s, 12) + Uint16(s, 14) + Uint16(s, 16) + Uint16(s, 18)
           /\ Uint16(s, 12) \in Nat /\ Uint16(s, 14) \in Nat
           /\ Uint16(s, 16) \in Nat /\ Uint16(s, 18) \in Nat
<1> DEFINE y == Slice(s, 12, 20)
<1>1. y \in Sized(8) /\ \A n \in Nat : 1 <= n /\ n <= 8 => y[n] = s[12 + n]
  BY SliceSized
<1> HIDE DEF y
<1>2. Uint16(y, 0) = Uint16(s, 12) /\ Uint16(y, 2) = Uint16(s, 14)
      /\ Uint16(y, 4) = Uint16(s, 16) /\ Uint16(y, 6) = Uint16(s, 18)
  <2>1. /\ y[1] = s[13] /\ y[2] = s[14] /\ y[3] = s[15] /\ y[4] = s[16]
        /\ y[5] = s[17] /\ y[6] = s[18] /\ y[7] = s[19] /\ y[8] = s[20]
    BY <1>1
  <2> QED BY <2>1 DEF Uint16, At
<1>3. s \in Bytes /\ Len(s) \in Nat /\ 20 <= Len(s)
  BY SizedIs
<1>4. /\ Uint16(s, 12) \in Nat /\ Uint16(s, 14) \in Nat
      /\ Uint16(s, 16) \in Nat /\ Uint16(s, 18) \in Nat
  <2>1. 12 + 2 <= Len(s) /\ 14 + 2 <= Len(s) /\ 16 + 2 <= Len(s) /\ 18 + 2 <= Len(s)
    BY <1>3
  <2> QED BY <1>3, <2>1, Uint16Is
<1>5. \A n \in Nat : n # 0 => Sums(y)[n] = Sums(y)[n - 1] + Uint16(y, 2 * n - 2)
  BY SumsStep
<1>6. Sums(y)[0] = 0
  BY SumsStep
<1>7. Sums(y)[1] = 0 + Uint16(s, 12)
  <2>1. PICK o \in Nat : 1 <= o /\ o <= 1
    OBVIOUS
  <2>2. Sums(y)[o] = Sums(y)[o - 1] + Uint16(y, 2 * o - 2)
    BY <1>5, <2>1
  <2>3. o = 1 /\ o - 1 = 0 /\ 2 * o - 2 = 0
    BY <2>1
  <2> QED BY <1>2, <1>6, <2>2, <2>3
<1>8. Sums(y)[2] = Sums(y)[1] + Uint16(s, 14)
  <2>1. PICK o \in Nat : 2 <= o /\ o <= 2
    OBVIOUS
  <2>2. Sums(y)[o] = Sums(y)[o - 1] + Uint16(y, 2 * o - 2)
    BY <1>5, <2>1
  <2>3. o = 2 /\ o - 1 = 1 /\ 2 * o - 2 = 2
    BY <2>1
  <2> QED BY <1>2, <2>2, <2>3
<1>9. Sums(y)[3] = Sums(y)[2] + Uint16(s, 16)
  <2>1. PICK o \in Nat : 3 <= o /\ o <= 3
    OBVIOUS
  <2>2. Sums(y)[o] = Sums(y)[o - 1] + Uint16(y, 2 * o - 2)
    BY <1>5, <2>1
  <2>3. o = 3 /\ o - 1 = 2 /\ 2 * o - 2 = 4
    BY <2>1
  <2> QED BY <1>2, <2>2, <2>3
<1>10. Sums(y)[4] = Sums(y)[3] + Uint16(s, 18)
  <2>1. PICK o \in Nat : 4 <= o /\ o <= 4
    OBVIOUS
  <2>2. Sums(y)[o] = Sums(y)[o - 1] + Uint16(y, 2 * o - 2)
    BY <1>5, <2>1
  <2>3. o = 4 /\ o - 1 = 3 /\ 2 * o - 2 = 6
    BY <2>1
  <2> QED BY <1>2, <2>2, <2>3
<1>11. WordSum(y) = Sums(y)[4]
  <2>1. PICK h \in Nat : 4 <= h /\ h <= 4
    OBVIOUS
  <2>2. PICK n \in Nat : 8 <= n /\ n <= 8
    OBVIOUS
  <2>3. y \in Sized(n) /\ n = 2 * h
    BY <1>1, <2>1, <2>2
  <2>4. y \in Bytes /\ Len(y) = 2 * h
    BY <2>3, SizedIs
  <2>5. WordSum(y) = Sums(y)[h]
    BY <2>4, WordSumEven
  <2>6. h = 4
    BY <2>1
  <2> QED BY <2>5, <2>6
<1> QED BY <1>4, <1>7, <1>8, <1>9, <1>10, <1>11 DEF y

\* A packet with zeros for checksums, and the packet with its checksums.
LEMMA ChecksumSet ==
    ASSUME NEW l \in Nat, 28 <= l, l < 65536, NEW r \in Sized(l),
           r[1] = 69, r[10] = 17, r[11] = 0, r[12] = 0, r[27] = 0, r[28] = 0,
           NEW f, f = setV4Checksum(r)
    PROVE  /\ \E y1 \in Sized(2), y2 \in Sized(2) : f = Put(Put(r, 10, y1), 26, y2)
           /\ f \in Sized(l)
           /\ WordSum(Slice(f, 0, 20)) % 65535 = 0
           /\ LET udp == Slice(f, 20, l)
              IN  WordSum(Slice(f, 12, 20) \o <<0, 17>> \o PutUint16(Len(udp))
                            \o Padded(udp, Len(udp) + (Len(udp) % 2))) % 65535 = 0
<1>1. /\ Version(r) = 4 /\ IHL(r) = 20
  <2>1. At(r, 0) = 69
    BY DEF At
  <2>2. 69 \div 16 = 4 /\ 4 * (69 % 16) = 20
    OBVIOUS
  <2> QED BY <2>1, <2>2 DEF Version, IHL
<1> DEFINE hd == Slice(r, 0, 20)
           c1 == ipv4csum(hd, 0)
           y1 == PutUint16(c1)
           h == Put(r, 10, y1)
           c2 == udp4csum(20, h)
           y2 == PutUint16(c2)
           u == Slice(h, 20, l)
<1>2. hd \in Sized(20) /\ hd[11] = 0 /\ hd[12] = 0
  <2>1. hd \in Sized(20)
    BY SliceSized
  <2>2. hd[11] = r[0 + 11] /\ hd[12] = r[0 + 12]
    BY SliceByte
  <2> QED BY <2>1, <2>2
<1>3. hd \in Bytes /\ WordSum(hd) \in Nat
  BY <1>2, SizedIs, WordSumNat
<1>4. c1 \in Word /\ (0 + WordSum(hd) + c1) % 65535 = 0
  BY <1>3, ChecksumIs
<1>5. y1 \in Sized(2) /\ Uint16(y1, 0) = c1
  BY <1>4, PutWord
<1> HIDE DEF y1
<1>6. h \in Sized(l) /\ h[1] = 69 /\ h[10] = 17 /\ h[27] = 0 /\ h[28] = 0
  <2>1. h \in Sized(l)
    BY <1>5, PutSized
  <2>2. h[1] = r[1] /\ h[10] = r[10] /\ h[27] = r[27] /\ h[28] = r[28]
    BY <1>5, PutByte
  <2> QED BY <2>1, <2>2
<1>7. f = Put(h, 26, y2)
  <2>1. Len(r) = l
    BY SizedIs
  <2>2. ~(Len(r) < 1 \/ Version(r) # 4 \/ IHL(r) < 20 \/ Len(r) < IHL(r))
    BY <1>1, <2>1
  <2>3. h = Put(r, 10, PutUint16(ipv4csum(Slice(r, 0, IHL(r)), 0)))
    BY <1>1 DEF y1
  <2> HIDE DEF h
  <2>4. IHL(h) = 20 /\ At(h, 9) = 17
    <3>1. At(h, 0) = 69 /\ At(h, 9) = 17
      BY <1>6 DEF At
    <3>2. 4 * (69 % 16) = 20
      OBVIOUS
    <3> QED BY <3>1, <3>2 DEF IHL
  <2>5. Len(h) >= IHL(h) + 8
    BY <1>6, <2>4, SizedIs
  <2>6. f = Put(h, IHL(h) + 6, PutUint16(udp4csum(IHL(h), h)))
    BY <2>2, <2>3, <2>4, <2>5 DEF setV4Checksum
  <2> QED BY <2>4, <2>6
<1> HIDE DEF h
<1>8. u \in Sized(l - 20) /\ l - 20 \in Word /\ l - 20 \in Nat /\ u[7] = 0 /\ u[8] = 0
  <2>1. u \in Sized(l - 20)
    BY <1>6, SliceSized
  <2>2. u[7] = h[20 + 7] /\ u[8] = h[20 + 8]
    BY <1>6, SliceByte
  <2> QED BY <1>6, <2>1, <2>2 DEF Word
<1> HIDE DEF u
<1> DEFINE ad == Slice(h, 12, 20)
<1>9. ad \in Sized(8) /\ ad \in Bytes /\ WordSum(ad) \in Nat
  <2>1. ad \in Sized(8)
    BY <1>6, SliceSized
  <2> QED BY <2>1, SizedIs, WordSumNat
<1>10. u \in Bytes /\ WordSum(u) \in Nat
  BY <1>8, SizedIs, WordSumNat
<1>11. PICK acc \in Nat : acc = 17 + WordSum(ad) + (l - 20) /\ c2 = ipv4csum(u, acc)
  <2>1. At(h, 9) = 17
    BY <1>6 DEF At
  <2>2. pseudohdrcsum(h) = 17 + Uint16(h, 12) + Uint16(h, 14) + Uint16(h, 16) + Uint16(h, 18)
    BY <2>1 DEF pseudohdrcsum
  <2>3. pseudohdrcsum(h) = 17 + WordSum(ad)
    BY <1>6, <2>2, FourWords
  <2>4. ((l - 20) % 65536) = l - 20 /\ ((l - 20) \div 65536) = 0
    BY <1>8
  <2>5. Len(h) = l
    BY <1>6, SizedIs
  <2>6. c2 = ipv4csum(Slice(h, 20, Len(h)),
                      pseudohdrcsum(h) + ((Len(h) - 20) % 65536) + ((Len(h) - 20) \div 65536))
    BY DEF udp4csum
  <2>7. c2 = ipv4csum(u, 17 + WordSum(ad) + (l - 20) + 0)
    BY <2>3, <2>4, <2>5, <2>6 DEF u
  <2>8. 17 + WordSum(ad) + (l - 20) + 0 \in Nat
        /\ 17 + WordSum(ad) + (l - 20) + 0 = 17 + WordSum(ad) + (l - 20)
    BY <1>8, <1>9
  <2> QED BY <2>7, <2>8
<1>12. c2 \in Word /\ (acc + WordSum(u) + c2) % 65535 = 0
  BY <1>10, <1>11, ChecksumIs
<1> HIDE DEF ad, c2
<1>13. y2 \in Sized(2) /\ Uint16(y2, 0) = c2
  BY <1>12, PutWord
<1> HIDE DEF y2
<1>14. f \in Sized(l) /\ \A k \in Nat : 1 <= k /\ k <= l /\ k <= 26 => f[k] = h[k]
  <2>1. f \in Sized(l)
    BY <1>6, <1>7, <1>13, PutSized
  <2>2. ASSUME NEW k \in Nat, 1 <= k, k <= l, k <= 26 PROVE f[k] = h[k]
    BY <1>6, <1>7, <1>13, <2>2, PutByte
  <2> QED BY <2>1, <2>2
<1>15. WordSum(Slice(f, 0, 20)) % 65535 = 0
  <2>1. Slice(f, 0, 20) = Slice(h, 0, 20)
    BY <1>6, <1>14, SameSliceSized
  <2>2. Slice(h, 0, 20) = Put(hd, 10 - 0, y1)
    BY <1>5, SlicePutSized DEF h
  <2>3. WordSum(Put(hd, 10, y1)) = WordSum(hd) + Uint16(y1, 0)
    <3> HIDE DEF hd
    <3> QED BY <1>2, <1>5, WordSumPutSized
  <2>4. WordSum(Slice(f, 0, 20)) = WordSum(hd) + c1
    BY <1>5, <2>1, <2>2, <2>3
  <2>5. 0 + WordSum(hd) + c1 = WordSum(hd) + c1
    BY <1>3, <1>4 DEF Word
  <2> QED BY <1>4, <2>4, <2>5
<1> DEFINE udp == Slice(f, 20, l)
           z == <<0, 17>>
           w == PutUint16(l - 20)
           p == Padded(udp, Len(udp) + (Len(udp) % 2))
<1>16. udp = Put(u, 6, y2) /\ udp \in Sized(l - 20) /\ udp \in Bytes /\ Len(udp) = l - 20
  <2>1. udp = Put(u, 26 - 20, y2)
    BY <1>6, <1>7, <1>13, SlicePutSized DEF u
  <2>2. udp \in Sized(l - 20)
    BY <1>14, SliceSized
  <2> QED BY <1>8, <2>1, <2>2, SizedIs
<1>17. WordSum(udp) = WordSum(u) + c2
  <2>1. WordSum(Put(u, 6, y2)) = WordSum(u) + Uint16(y2, 0)
    BY <1>8, <1>13, WordSumPutSized
  <2> QED BY <1>13, <1>16, <2>1
<1>18. Slice(f, 12, 20) = ad
  BY <1>6, <1>14, SameSliceSized DEF ad
<1> HIDE DEF udp
<1>19. p \in Bytes /\ WordSum(p) = WordSum(u) + c2
  <2>1. Len(udp) + (Len(udp) % 2) \in Nat
    BY <1>8, <1>16
  <2>2. p \in Bytes
    BY <1>16, <2>1, PaddedIs
  <2>3. WordSum(p) = WordSum(udp)
    BY <1>16, WordSumPadded
  <2> QED BY <1>17, <2>2, <2>3
<1>20. z \in Sized(2) /\ WordSum(z) = 17
  <2>1. 0 \in Byte /\ 17 \in Byte
    BY ByteIs
  <2>2. z \in Bytes /\ Len(z) = 2 /\ z[1] = 0 /\ z[2] = 17
    BY <2>1, TwoBytes
  <2>3. z[0 + 1] = 0 /\ z[0 + 2] = 17
    BY <2>2
  <2>4. Uint16(z, 0) = 256 * 0 + 17
    BY <2>1, <2>3, Uint16Of
  <2>5. WordSum(z) = Uint16(z, 0)
    BY <2>2, WordSumWord
  <2>6. z \in Sized(2)
    BY <2>2 DEF Sized
  <2> QED BY <2>4, <2>5, <2>6
<1>21. w \in Sized(2) /\ w \in Bytes /\ WordSum(w) = l - 20
  BY <1>8, PutWord, SizedIs
<1> HIDE DEF z, w, p
<1>22. WordSum(ad \o z \o w \o p) = WordSum(ad) + WordSum(z) + WordSum(w) + WordSum(p)
  <2>1. z \in Bytes
    BY <1>20, SizedIs
  <2>2. ad \o z \in Sized(10) /\ WordSum(ad \o z) = WordSum(ad) + WordSum(z)
    BY <1>9, <1>20, <2>1, CatSized, WordSumCatSized
  <2>3. /\ ad \o z \o w \in Sized(12)
        /\ WordSum(ad \o z \o w) = WordSum(ad \o z) + WordSum(w)
    BY <1>21, <2>2, CatSized, WordSumCatSized
  <2>4. WordSum(ad \o z \o w \o p) = WordSum(ad \o z \o w) + WordSum(p)
    BY <1>19, <2>3, WordSumCatSized
  <2> QED BY <2>2, <2>3, <2>4
<1>23. WordSum(ad \o z \o w \o p) % 65535 = 0
  <2>1. PICK n \in Nat, m \in Nat, d \in Nat : n = WordSum(ad) /\ m = WordSum(u) /\ d = c2
    BY <1>9, <1>10, <1>12 DEF Word
  <2>2. WordSum(ad \o z \o w \o p) = n + 17 + (l - 20) + (m + d)
    BY <1>19, <1>20, <1>21, <1>22, <2>1
  <2>3. acc + WordSum(u) + c2 = 17 + n + (l - 20) + m + d
    BY <1>11, <2>1
  <2>4. n + 17 + (l - 20) + (m + d) = 17 + n + (l - 20) + m + d
    OBVIOUS
  <2> QED BY <1>12, <2>2, <2>3, <2>4
<1>24. \E e1 \in Sized(2), e2 \in Sized(2) : f = Put(Put(r, 10, e1), 26, e2)
  BY <1>5, <1>7, <1>13 DEF h
<1>25. WordSum(Slice(f, 12, 20) \o <<0, 17>> \o PutUint16(Len(udp)) \o p) % 65535 = 0
  BY <1>16, <1>18, <1>23 DEF z, w
<1> QED BY <1>14, <1>15, <1>24, <1>25 DEF p, udp
-----------------------------------------------------------------------------
(***************************************************************************)
(* UDP and ARP.                                                            *)
(***************************************************************************)

\* Another part behind a string.
LEMMA AddPart ==
    ASSUME NEW m \in Nat, NEW n \in Nat, NEW x \in Sized(m), NEW y \in Sized(n)
    PROVE  /\ x \o y \in Sized(m + n) /\ HasAt(x \o y, m, y)
           /\ \A o \in Nat : \A z \in Sized(o), k \in Nat : HasAt(x, k, z) => HasAt(x \o y, k, z)
<1> DEFINE t == x \o y
<1>1. t \in Sized(m + n) /\ HasAt(t, 0, x) /\ HasAt(t, m, y)
  BY CatSized
<1> HIDE DEF t
<1>2. t \in Bytes /\ x \in Bytes
  <2>1. m + n \in Nat
    OBVIOUS
  <2> QED BY <1>1, <2>1, SizedIs
<1>3. ASSUME NEW o \in Nat, NEW z \in Sized(o), NEW k \in Nat, HasAt(x, k, z) PROVE HasAt(t, k, z)
  <2>1. z \in Bytes
    BY SizedIs
  <2>2. HasAt(t, 0 + k, z)
    BY <1>1, <1>2, <1>3, <2>1, HasPart
  <2> QED BY <2>2
<1> QED BY <1>1, <1>3 DEF t

\* What a sequence has, it has when another one is added behind it.
LEMMA AddKeeps ==
    ASSUME NEW m \in Nat, NEW n \in Nat, NEW x \in Sized(m), NEW y \in Sized(n),
           NEW o \in Nat, NEW z \in Sized(o), NEW k \in Nat, HasAt(x, k, z)
    PROVE  HasAt(x \o y, k, z)
BY AddPart, Zenon

\* The part of a slice.
LEMMA SlicePart ==
    ASSUME NEW l \in Nat, NEW s \in Sized(l), NEW i \in Nat, i <= l,
           NEW n \in Nat, NEW y \in Sized(n), NEW k \in Nat, HasAt(s, i + k, y)
    PROVE  HasAt(Slice(s, i, l), k, y)
<1> DEFINE t == Slice(s, i, l)
<1>1. t \in Sized(l - i) /\ l - i \in Nat
  BY SliceSized
<1>2. i + k + n <= l /\ \A e \in Nat : 1 <= e /\ e <= n => s[i + k + e] = y[e]
  <2>1. i + k \in Nat
    OBVIOUS
  <2> QED BY <2>1, HasSized
<1>3. \A e \in Nat : 1 <= e /\ e <= n => t[k + e] = y[e]
  <2> TAKE e \in Nat
  <2> HAVE 1 <= e /\ e <= n
  <2>1. k + e \in Nat /\ 1 <= k + e /\ k + e <= l - i /\ i + (k + e) = i + k + e
    BY <1>2
  <2>2. t[k + e] = s[i + (k + e)]
    BY <2>1, SliceByte
  <2> QED BY <1>2, <2>1, <2>2
<1> HIDE DEF t
<1>4. k + n <= l - i
  BY <1>2
<1>5. HasAt(t, k, y)
  BY <1>1, <1>3, <1>4, HasWhen
<1> QED BY <1>5 DEF t

\* Two bytes.
LEMMA TwoSized ==
    ASSUME NEW x \in Byte, NEW y \in Byte
    PROVE  <<x, y>> \in Sized(2) /\ <<x, y>>[1] = x /\ <<x, y>>[2] = y
BY TwoBytes DEF Sized

\* Four bytes.
LEMMA FourSized ==
    ASSUME NEW x \in Byte, NEW y \in Byte, NEW z \in Byte, NEW w \in Byte
    PROVE  /\ <<x, y, z, w>> \in Sized(4)
           /\ <<x, y, z, w>>[1] = x /\ <<x, y, z, w>>[2] = y
           /\ <<x, y, z, w>>[3] = z /\ <<x, y, z, w>>[4] = w
BY FourBytes DEF Sized

\* A UDP packet, and what is read of it.
LEMMA UDPIs ==
    ASSUME NEW sport \in Word, NEW dport \in Word, NEW n \in Nat, n + 28 < 65536,
           NEW payload \in Sized(n), NEW q,
           q = AssembleUDP([SrcPort |-> sport, DstPort |-> dport, Data |-> payload])
    PROVE  /\ q \in Sized(8 + n)
           /\ HasAt(q, 0, PutUint16(sport)) /\ HasAt(q, 2, PutUint16(dport))
           /\ HasAt(q, 4, PutUint16(8 + n)) /\ HasAt(q, 8, payload)
           /\ q[7] = 0 /\ q[8] = 0
<1> DEFINE p1 == PutUint16(sport)
           p2 == PutUint16(dport)
           p3 == PutUint16(8 + n)
           p4 == <<0, 0>>
<1>1. p1 \in Sized(2) /\ p2 \in Sized(2) /\ p3 \in Sized(2)
  <2>1. 8 + n \in Word
    BY DEF Word
  <2> QED BY <2>1, PutWord
<1>2. p4 \in Sized(2) /\ p4[1] = 0 /\ p4[2] = 0
  BY ByteIs, TwoSized
<1>3. q = p1 \o p2 \o p3 \o p4 \o payload
  <2>1. Len(payload) = n
    BY SizedIs
  <2> DEFINE u == [SrcPort |-> sport, DstPort |-> dport, Data |-> payload]
  <2>2. u.SrcPort = sport /\ u.DstPort = dport /\ u.Data = payload /\ q = AssembleUDP(u)
    OBVIOUS
  <2> HIDE DEF u
  <2>3. q = PutUint16(u.SrcPort) \o PutUint16(u.DstPort) \o PutUint16(8 + Len(u.Data))
                \o <<0, 0>> \o u.Data
    BY <2>2 DEF AssembleUDP
  <2> QED BY <2>1, <2>2, <2>3
<1> HIDE DEF p1, p2, p3, p4
<1>4. p1 \o p2 \in Sized(4) /\ HasAt(p1 \o p2, 0, p1) /\ HasAt(p1 \o p2, 2, p2)
  BY <1>1, CatSized
<1>5. /\ p1 \o p2 \o p3 \in Sized(6) /\ HasAt(p1 \o p2 \o p3, 0, p1)
      /\ HasAt(p1 \o p2 \o p3, 2, p2) /\ HasAt(p1 \o p2 \o p3, 4, p3)
  BY <1>1, <1>4, CatSized, AddKeeps
<1>6. /\ p1 \o p2 \o p3 \o p4 \in Sized(8) /\ HasAt(p1 \o p2 \o p3 \o p4, 0, p1)
      /\ HasAt(p1 \o p2 \o p3 \o p4, 2, p2) /\ HasAt(p1 \o p2 \o p3 \o p4, 4, p3)
      /\ HasAt(p1 \o p2 \o p3 \o p4, 6, p4)
  <2> DEFINE x == p1 \o p2 \o p3
  <2>1. x \o p4 \in Sized(8) /\ HasAt(x \o p4, 6, p4)
    BY <1>2, <1>5, CatSized
  <2>2. HasAt(x \o p4, 0, p1) /\ HasAt(x \o p4, 2, p2) /\ HasAt(x \o p4, 4, p3)
    BY <1>1, <1>2, <1>5, AddKeeps
  <2> QED BY <2>1, <2>2
<1>7. /\ q \in Sized(8 + n) /\ HasAt(q, 0, p1) /\ HasAt(q, 2, p2) /\ HasAt(q, 4, p3)
      /\ HasAt(q, 6, p4) /\ HasAt(q, 8, payload)
  <2> DEFINE x == p1 \o p2 \o p3 \o p4
           t == x \o payload
  <2>1. /\ x \in Sized(8) /\ HasAt(x, 0, p1) /\ HasAt(x, 2, p2) /\ HasAt(x, 4, p3)
        /\ HasAt(x, 6, p4) /\ q = t
    <3>1. q = t
      BY ONLY <1>3
    <3> QED BY ONLY <1>6, <3>1
  <2> HIDE DEF x
  <2>2. t \in Sized(8 + n) /\ HasAt(t, 8, payload)
    BY <2>1, CatSized
  <2>3. HasAt(t, 0, p1) /\ HasAt(t, 2, p2) /\ HasAt(t, 4, p3) /\ HasAt(t, 6, p4)
    BY <1>1, <1>2, <2>1, AddKeeps
  <2> HIDE DEF t
  <2> QED BY <2>1, <2>2, <2>3
<1>8. q[6 + 1] = p4[1] /\ q[6 + 2] = p4[2]
  <2>1. 8 + n \in Nat
    OBVIOUS
  <2> QED BY <1>2, <1>7, <2>1, HasSized
<1> QED BY <1>2, <1>7, <1>8 DEF p1, p2, p3

\* DecodeUDP reads the ports and the payload that AssembleUDP has written.
LEMMA UDPRead ==
    ASSUME NEW sport \in Word, NEW dport \in Word, NEW n \in Nat, n + 28 < 65536,
           NEW payload \in Sized(n), NEW q \in Sized(8 + n),
           HasAt(q, 0, PutUint16(sport)), HasAt(q, 2, PutUint16(dport)),
           HasAt(q, 4, PutUint16(8 + n)), HasAt(q, 8, payload)
    PROVE  DecodeUDP(q) = [SrcPort |-> sport, DstPort |-> dport, Data |-> payload]
<1>1. 8 + n \in Nat /\ 8 + n \in Word
  BY DEF Word
<1>2. q \in Bytes /\ Len(q) = 8 + n
  BY <1>1, SizedIs
<1>3. Uint16(q, 0) = sport /\ Uint16(q, 2) = dport /\ Uint16(q, 4) = 8 + n
  BY <1>1, <1>2, PutWord
<1>4. Slice(q, 8, 8 + n) = payload
  BY <1>1, HasSized
<1>5. ~(Len(q) < 8 \/ Uint16(q, 4) # Len(q))
  BY <1>2, <1>3
<1>6. DecodeUDP(q) = [SrcPort |-> Uint16(q, 0), DstPort |-> Uint16(q, 2),
                      Data |-> Slice(q, 8, Len(q))]
  BY <1>5 DEF DecodeUDP
<1> QED BY <1>2, <1>3, <1>4, <1>6

\* The bytes of a probe.
ArpBytes(p1, p2, p3, p4, p5) == p1 \o p2 \o p3 \o p4 \o p5

\* The parts of an ARP packet are where DecodeARP looks for them.
LEMMA ArpParts ==
    ASSUME NEW p1, NEW p2, NEW p3, NEW p4, NEW p5,
           p1 \in Sized(8), p2 \in Sized(6), p3 \in Sized(4), p4 \in Sized(6), p5 \in Sized(4)
    PROVE  LET s == ArpBytes(p1, p2, p3, p4, p5)
           IN  /\ s \in Sized(28) /\ HasAt(s, 0, p1) /\ HasAt(s, 8, p2) /\ HasAt(s, 14, p3)
               /\ HasAt(s, 18, p4) /\ HasAt(s, 24, p5)
<1> DEFINE x2 == p1 \o p2
           x3 == x2 \o p3
           x4 == x3 \o p4
           x5 == x4 \o p5
<1>1. x2 \in Sized(14) /\ HasAt(x2, 0, p1) /\ HasAt(x2, 8, p2)
  BY CatSized
<1> HIDE DEF x2
<1>2. x3 \in Sized(18) /\ HasAt(x3, 14, p3)
  BY <1>1, CatSized
<1>3. HasAt(x3, 0, p1) /\ HasAt(x3, 8, p2)
  BY <1>1, AddKeeps
<1> HIDE DEF x3
<1>4. x4 \in Sized(24) /\ HasAt(x4, 18, p4)
  BY <1>2, CatSized
<1>5. HasAt(x4, 0, p1) /\ HasAt(x4, 8, p2) /\ HasAt(x4, 14, p3)
  BY <1>2, <1>3, AddKeeps
<1> HIDE DEF x4
<1>6. x5 \in Sized(28) /\ HasAt(x5, 24, p5)
  BY <1>4, CatSized
<1>7. HasAt(x5, 0, p1) /\ HasAt(x5, 8, p2) /\ HasAt(x5, 14, p3) /\ HasAt(x5, 18, p4)
  BY <1>4, <1>5, AddKeeps
<1> QED BY <1>6, <1>7 DEF ArpBytes, x2, x3, x4

\* A probe, and what is read of it.
LEMMA ArpIs ==
    ASSUME NEW op \in Byte, NEW smac \in Sized(6), NEW sip \in Sized(4), NEW tmac \in Sized(6),
           NEW tip \in Sized(4), sip # nil, tip # nil
    PROVE  LET a == [Opcode |-> op, SenderMAC |-> smac, SenderIP |-> sip, TargetMAC |-> tmac,
                     TargetIP |-> tip]
           IN  DecodeARP(AssembleARP(a)) = a
<1> DEFINE a == [Opcode |-> op, SenderMAC |-> smac, SenderIP |-> sip, TargetMAC |-> tmac,
                 TargetIP |-> tip]
           p1 == <<0, 1, 8, 0, 6, 4, 0, op>>
           s == ArpBytes(p1, smac, sip, tmac, tip)
<1>1. p1 \in Sized(8) /\ p1[8] = op
  <2>1. 0 \in Byte /\ 1 \in Byte /\ 8 \in Byte /\ 6 \in Byte /\ 4 \in Byte
    BY ByteIs
  <2>2. <<0, 1, 8, 0>> \in Sized(4) /\ <<6, 4, 0, op>> \in Sized(4)
    BY <2>1, FourSized
  <2>3. p1 = <<0, 1, 8, 0>> \o <<6, 4, 0, op>> /\ p1[8] = op
    OBVIOUS
  <2> HIDE DEF p1
  <2>4. <<0, 1, 8, 0>> \o <<6, 4, 0, op>> \in Sized(4 + 4)
    BY <2>2, CatSized
  <2> QED BY <2>3, <2>4
<1>2. AssembleARP(a) = s
  <2>1. To4(sip) = sip /\ To4(tip) = tip
    BY DEF To4
  <2>2. a.Opcode = op /\ a.SenderMAC = smac /\ a.SenderIP = sip /\ a.TargetMAC = tmac
        /\ a.TargetIP = tip
    OBVIOUS
  <2> HIDE DEF a
  <2> QED BY <2>1, <2>2 DEF AssembleARP, ArpBytes
<1> HIDE DEF p1
<1>3. /\ s \in Sized(28) /\ HasAt(s, 0, p1) /\ HasAt(s, 8, smac) /\ HasAt(s, 14, sip)
      /\ HasAt(s, 18, tmac) /\ HasAt(s, 24, tip)
  BY <1>1, ArpParts
<1> HIDE DEF s
<1>4. ~(Len(s) # 28)
  <2>1. PICK n \in Nat : n <= 28 /\ 28 <= n
    OBVIOUS
  <2>2. Len(s) = n
    BY <1>3, <2>1, SizedIs
  <2> QED BY <2>1, <2>2
<1>5. /\ Slice(s, 8, 8 + 6) = smac /\ Slice(s, 14, 14 + 4) = sip
      /\ Slice(s, 18, 18 + 6) = tmac /\ Slice(s, 24, 24 + 4) = tip
  BY <1>3, HasSized
<1>6. At(s, 7) = op
  <2>1. s[0 + 8] = p1[8]
    BY <1>1, <1>3, HasSized
  <2> QED BY <1>1, <2>1 DEF At
<1>7. DecodeARP(s) = [Opcode |-> At(s, 7), SenderMAC |-> Slice(s, 8, 14),
                      SenderIP |-> Slice(s, 14, 18), TargetMAC |-> Slice(s, 18, 24),
                      TargetIP |-> Slice(s, 24, 28)]
  BY <1>4 DEF DecodeARP
<1> QED BY <1>2, <1>5, <1>6, <1>7

\* The length of what is padded.
LEMMA PaddedSized ==
    ASSUME NEW s \in Bytes, NEW n \in Nat
    PROVE  Padded(s, n) \in Sized(n)
BY PaddedIs, IsSized

\* The empty string.
LEMMA NoBytes == <<>> \in Bytes
BY DEF Bytes

\* An address that is left out is four zero bytes.
LEMMA To4Is ==
    ASSUME NEW ip, ip = nil \/ ip \in Sized(4)
    PROVE  To4(ip) \in Sized(4)
<1>1. <<0, 0, 0, 0>> \in Sized(4)
  <2>1. 0 \in Byte
    BY ByteIs
  <2> QED BY <2>1, FourSized
<1> QED BY <1>1 DEF To4
=============================================================================
