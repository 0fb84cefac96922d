---------------------------- MODULE MapCalcProofs ----------------------------
(***************************************************************************)
(* Proofs about MapCalc: for every set of rules whose IPv4 prefixes do not *)
(* overlap, any number of CEs and any prefixes, the addresses that the CEs *)
(* compute are those the border relay computes back from IPv4 address and  *)
(* port.                                                                   *)
(***************************************************************************)
EXTENDS MapCalc, SequenceTheorems, FiniteSetTheorems, WellFoundedInduction, TLAPS

-----------------------------------------------------------------------------
(* Bits *)

\* A word of n bits is a sequence of them.
LEMMA Word ==
    ASSUME NEW n \in Nat, NEW b \in [1..n -> Bit]
    PROVE  b \in Seq(Bit) /\ Len(b) = n
OBVIOUS

\* The other way round.
LEMMA SeqWord ==
    ASSUME NEW b \in Seq(Bit)
    PROVE  Len(b) \in Nat /\ DOMAIN b = 1 .. Len(b) /\ b \in [1 .. Len(b) -> Bit]
OBVIOUS

\* Words are equal if their bits are.
LEMMA WordEqual ==
    ASSUME NEW n, NEW b \in [1..n -> Bit], NEW c \in [1..n -> Bit],
           \A i \in 1..n : b[i] = c[i]
    PROVE  b = c
<1>1. b = [i \in 1..n |-> b[i]] /\ c = [i \in 1..n |-> c[i]]
  OBVIOUS
<1>2. [i \in 1..n |-> b[i]] = [i \in 1..n |-> c[i]]
  OBVIOUS
<1> QED BY <1>1, <1>2

\* What Zeros yields.
LEMMA ZerosIs ==
    ASSUME NEW n \in Nat
    PROVE  /\ Zeros(n) \in Seq(Bit) /\ Len(Zeros(n)) = n
           /\ \A i \in 1..n : Zeros(n)[i] = 0
<1>1. Zeros(n) \in [1..n -> Bit]
  BY DEF Zeros, Bit
<1> QED BY <1>1, Word DEF Zeros

\* A concatenation, bit by bit.
LEMMA ConcatIs ==
    ASSUME NEW b \in Seq(Bit), NEW c \in Seq(Bit)
    PROVE  /\ b \o c \in Seq(Bit) /\ Len(b \o c) = Len(b) + Len(c)
           /\ \A i \in 1 .. Len(b) : (b \o c)[i] = b[i]
           /\ \A i \in 1 .. Len(c) : (b \o c)[Len(b) + i] = c[i]
<1>1. /\ b \o c \in Seq(Bit) /\ Len(b \o c) = Len(b) + Len(c)
      /\ \A i \in 1 .. Len(b) + Len(c) :
            (b \o c)[i] = IF i <= Len(b) THEN b[i] ELSE c[i - Len(b)]
  BY ConcatProperties
<1>2. Len(b) \in Nat /\ Len(c) \in Nat
  OBVIOUS
<1> QED BY <1>1, <1>2

\* The same for given lengths.
LEMMA ConcatLen ==
    ASSUME NEW b \in Seq(Bit), NEW c \in Seq(Bit), NEW m \in Nat, NEW n \in Nat,
           Len(b) = m, Len(c) = n
    PROVE  /\ b \o c \in Seq(Bit) /\ Len(b \o c) = m + n
           /\ \A i \in 1..m : (b \o c)[i] = b[i]
           /\ \A i \in 1..n : (b \o c)[m + i] = c[i]
BY ConcatIs

\* A part of a word, bit by bit.
LEMMA PartIs ==
    ASSUME NEW b \in Seq(Bit), NEW m \in Nat, NEW n \in Nat, 1 <= m, m <= n + 1, n <= Len(b)
    PROVE  /\ SubSeq(b, m, n) \in Seq(Bit) /\ Len(SubSeq(b, m, n)) = n - m + 1
           /\ \A i \in 1 .. n - m + 1 : SubSeq(b, m, n)[i] = b[m + i - 1]
<1>1. \A i \in m .. n : b[i] \in Bit
  OBVIOUS
<1>2. /\ SubSeq(b, m, n) \in Seq(Bit)
      /\ Len(SubSeq(b, m, n)) = IF m <= n THEN n - m + 1 ELSE 0
      /\ \A i \in 1 .. n - m + 1 : SubSeq(b, m, n)[i] = b[m + i - 1]
  BY <1>1, SubSeqProperties
<1> QED BY <1>2

\* The bits after the first m, up to bit n.
LEMMA RestIs ==
    ASSUME NEW b \in Seq(Bit), NEW m \in Nat, NEW n \in Nat, m <= n, n <= Len(b)
    PROVE  /\ SubSeq(b, m + 1, n) \in Seq(Bit) /\ Len(SubSeq(b, m + 1, n)) = n - m
           /\ \A i \in 1 .. n - m : SubSeq(b, m + 1, n)[i] = b[m + i]
<1> DEFINE o == m + 1
           s == SubSeq(b, o, n)
<1>1. o \in Nat /\ 1 <= o /\ o <= n + 1 /\ n - o + 1 = n - m /\ \A i \in 1 .. n - m : o + i - 1 = m + i
  OBVIOUS
<1> HIDE DEF o
<1>2. s \in Seq(Bit) /\ Len(s) = n - o + 1 /\ \A i \in 1 .. n - o + 1 : s[i] = b[o + i - 1]
  BY <1>1, PartIs
<1> HIDE DEF s
<1>3. s \in Seq(Bit) /\ Len(s) = n - m /\ \A i \in 1 .. n - m : s[i] = b[m + i]
  BY <1>1, <1>2
<1> QED BY <1>3 DEF s, o

\* The first n bits.
LEMMA HeadIs ==
    ASSUME NEW b \in Seq(Bit), NEW n \in Nat, n <= Len(b)
    PROVE  /\ SubSeq(b, 1, n) \in Seq(Bit) /\ Len(SubSeq(b, 1, n)) = n
           /\ \A i \in 1..n : SubSeq(b, 1, n)[i] = b[i]
<1> DEFINE s == SubSeq(b, 1, n)
<1>1. 1 \in Nat /\ 1 <= 1 /\ 1 <= n + 1 /\ n - 1 + 1 = n /\ \A i \in 1..n : 1 + i - 1 = i
  OBVIOUS
<1>2. s \in Seq(Bit) /\ Len(s) = n - 1 + 1 /\ \A i \in 1 .. n - 1 + 1 : s[i] = b[1 + i - 1]
  BY <1>1, PartIs
<1> HIDE DEF s
<1>3. s \in Seq(Bit) /\ Len(s) = n /\ \A i \in 1..n : s[i] = b[i]
  BY <1>1, <1>2
<1> QED BY <1>3 DEF s

\* What Fit yields: the last n bits, or zeros put before them.
LEMMA FitIs ==
    ASSUME NEW b \in Seq(Bit), NEW n \in Nat
    PROVE  /\ Fit(b, n) \in Seq(Bit) /\ Len(Fit(b, n)) = n
           /\ \A i \in 1..n : Fit(b, n)[i] = IF Len(b) + i <= n THEN 0 ELSE b[Len(b) + i - n]
<1> DEFINE z == Zeros(n) \o b
<1>1. Zeros(n) \in Seq(Bit) /\ Len(Zeros(n)) = n /\ \A i \in 1..n : Zeros(n)[i] = 0
  BY ZerosIs
<1>0. /\ z \in Seq(Bit) /\ Len(z) = Len(Zeros(n)) + Len(b)
      /\ \A i \in 1 .. Len(Zeros(n)) : z[i] = Zeros(n)[i]
      /\ \A i \in 1 .. Len(b) : z[Len(Zeros(n)) + i] = b[i]
  BY <1>1, ConcatIs
<1> HIDE DEF z
<1>2. /\ z \in Seq(Bit) /\ Len(z) = n + Len(b)
      /\ \A i \in 1..n : z[i] = 0
      /\ \A i \in 1 .. Len(b) : z[n + i] = b[i]
  BY <1>0, <1>1
<1>3. Len(b) \in Nat
  OBVIOUS
<1>4. /\ SubSeq(z, Len(b) + 1, Len(b) + n) \in Seq(Bit)
      /\ Len(SubSeq(z, Len(b) + 1, Len(b) + n)) = n
      /\ \A i \in 1..n : SubSeq(z, Len(b) + 1, Len(b) + n)[i] = z[Len(b) + i]
  <2>1. Len(b) + 1 \in Nat /\ Len(b) + n \in Nat /\ 1 <= Len(b) + 1
        /\ Len(b) + 1 <= (Len(b) + n) + 1 /\ Len(b) + n <= Len(z)
        /\ (Len(b) + n) - (Len(b) + 1) + 1 = n
        /\ \A i \in 1..n : (Len(b) + 1) + i - 1 = Len(b) + i
    BY <1>2, <1>3
  <2> QED BY <1>2, <2>1, PartIs
<1>5. ASSUME NEW i \in 1..n
      PROVE  z[Len(b) + i] = IF Len(b) + i <= n THEN 0 ELSE b[Len(b) + i - n]
  <2>1. CASE Len(b) + i <= n
    BY <1>2, <1>3, <2>1
  <2>2. CASE Len(b) + i > n
    <3>1. Len(b) + i - n \in 1 .. Len(b) /\ n + (Len(b) + i - n) = Len(b) + i
      BY <1>3, <2>2
    <3> QED BY <1>2, <1>3, <2>2, <3>1
  <2> QED BY <1>3, <2>1, <2>2
<1> QED BY <1>4, <1>5 DEF Fit, z

\* What Pad yields.
LEMMA PadIs ==
    ASSUME NEW b \in Seq(Bit), NEW n \in Nat, Len(b) <= n
    PROVE  /\ Pad(b, n) \in Seq(Bit) /\ Len(Pad(b, n)) = n
           /\ \A i \in 1..n : Pad(b, n)[i] = IF i <= Len(b) THEN b[i] ELSE 0
<1>1. Len(b) \in Nat /\ n - Len(b) \in Nat
  OBVIOUS
<1>2. /\ Zeros(n - Len(b)) \in Seq(Bit) /\ Len(Zeros(n - Len(b))) = n - Len(b)
      /\ \A i \in 1 .. n - Len(b) : Zeros(n - Len(b))[i] = 0
  BY <1>1, ZerosIs
<1>3. /\ Pad(b, n) \in Seq(Bit) /\ Len(Pad(b, n)) = Len(b) + (n - Len(b))
      /\ \A i \in 1 .. Len(b) : Pad(b, n)[i] = b[i]
      /\ \A i \in 1 .. n - Len(b) : Pad(b, n)[Len(b) + i] = 0
  BY <1>2, ConcatIs DEF Pad
<1>4. ASSUME NEW i \in 1..n, i > Len(b) PROVE Pad(b, n)[i] = 0
  <2>1. i - Len(b) \in 1 .. n - Len(b) /\ Len(b) + (i - Len(b)) = i
    BY <1>1, <1>4
  <2> QED BY <1>3, <2>1
<1> QED BY <1>1, <1>3, <1>4

\* What | yields where one side is zero.
LEMMA OrIs ==
    ASSUME NEW b \in Seq(Bit), NEW c \in Seq(Bit), Len(b) = Len(c)
    PROVE  /\ Or(b, c) \in [1 .. Len(b) -> Bit]
           /\ \A i \in 1 .. Len(b) : /\ b[i] = 0 => Or(b, c)[i] = c[i]
                                     /\ c[i] = 0 => Or(b, c)[i] = b[i]
BY DEF Or, Bit

-----------------------------------------------------------------------------
(* What a CE computes *)

\* The rule r is for the prefix p.
Fits(r, p) == contains(r.ipv6_prefix, p) /\ Len(p) = Len(r.ipv6_prefix) + r.ea_length

\* A rule's fields, as MapConstants has them.
LEMMA RuleType ==
    ASSUME NEW r \in Rule
    PROVE  /\ r.ipv6_prefix \in Seq(Bit) /\ Len(r.ipv6_prefix) \in Nat
           /\ r.ipv4_prefix \in Seq(Bit) /\ Len(r.ipv4_prefix) \in Nat /\ Len(r.ipv4_prefix) <= 32
           /\ r.length \in Nat /\ r.offset \in Nat /\ r.offset + r.length < 16
           /\ r.ea_length \in Nat /\ r.ea_length = 32 - Len(r.ipv4_prefix) + r.length
           /\ Len(r.ipv6_prefix) + r.ea_length <= 64
<1>1. /\ r.ipv6_prefix \in Seq(Bit) /\ r.ipv4_prefix \in Seq(Bit)
      /\ Len(r.ipv4_prefix) <= 32 /\ r.offset \in Nat /\ r.length \in Nat
      /\ r.ea_length = 32 - Len(r.ipv4_prefix) + r.length
      /\ Len(r.ipv6_prefix) + r.ea_length <= 64 /\ r.offset + r.length < 16
  BY MapConstants
<1>2. Len(r.ipv6_prefix) \in Nat /\ Len(r.ipv4_prefix) \in Nat
  BY <1>1, SeqWord
<1> QED BY <1>1, <1>2

\* The rules of a mode are rules.
LEMMA RuleAt ==
    ASSUME NEW m \in Mode
    PROVE  /\ Rules[m] \in Seq(Rule) /\ Len(Rules[m]) \in Nat
           /\ DOMAIN Rules[m] = 1 .. Len(Rules[m])
           /\ \A i \in DOMAIN Rules[m] : Rules[m][i] \in Rule
<1>1. Rules[m] \in Seq(Rule)
  BY MapConstants
<1> QED BY <1>1

\* A word is its parts.
LEMMA Split ==
    ASSUME NEW p \in Seq(Bit), NEW h \in Nat, h <= Len(p)
    PROVE  SubSeq(p, 1, h) \o SubSeq(p, h + 1, Len(p)) = p
<1> DEFINE n == Len(p)
           s == SubSeq(p, 1, h)
           t == SubSeq(p, h + 1, n)
           g == s \o t
<1>1. n \in Nat /\ h <= n /\ Len(p) = n
  OBVIOUS
<1> HIDE DEF n
<1>3. s \in Seq(Bit) /\ Len(s) = h /\ \A i \in 1..h : s[i] = p[i]
  BY <1>1, HeadIs
<1>4. t \in Seq(Bit) /\ Len(t) = n - h /\ \A i \in 1 .. n - h : t[i] = p[h + i]
  BY <1>1, RestIs
<1> HIDE DEF s, t
<1>5. /\ g \in Seq(Bit) /\ Len(g) = h + (n - h)
      /\ \A i \in 1..h : g[i] = s[i]
      /\ \A i \in 1 .. n - h : g[h + i] = t[i]
  <2>1. /\ g \in Seq(Bit) /\ Len(g) = Len(s) + Len(t)
        /\ \A i \in 1 .. Len(s) : g[i] = s[i]
        /\ \A i \in 1 .. Len(t) : g[Len(s) + i] = t[i]
    BY <1>3, <1>4, ConcatIs
  <2> HIDE DEF g
  <2> QED BY <1>3, <1>4, <2>1
<1> HIDE DEF g
<1>6. ASSUME NEW i \in 1..n PROVE g[i] = p[i]
  <2>1. CASE i <= h
    <3>1. i \in 1..h
      BY <1>1, <2>1
    <3> QED BY <1>3, <1>5, <3>1
  <2>2. CASE i > h
    <3>1. i - h \in 1 .. n - h /\ h + (i - h) = i
      BY <1>1, <2>2
    <3>2. g[h + (i - h)] = p[h + (i - h)]
      BY <1>4, <1>5, <3>1
    <3> QED BY <3>1, <3>2
  <2> QED BY <1>1, <2>1, <2>2
<1>7. Len(g) = n
  BY <1>1, <1>5
<1>8. g = p
  BY <1>1, <1>5, <1>6, <1>7, SeqEqual
<1> QED BY <1>8 DEF g, s, t, n

\* The EA bits, for a rule that fits, are the rest of the prefix.
LEMMA Extracted ==
    ASSUME NEW r \in Rule, NEW p \in Seq(Bit), Fits(r, p)
    PROVE  /\ Len(p) \in Nat /\ Len(p) <= 64
           /\ extract_ea_bits(p, r) # None
           /\ extract_ea_bits(p, r) \in Seq(Bit) /\ Len(extract_ea_bits(p, r)) = r.ea_length
           /\ r.ipv6_prefix \o extract_ea_bits(p, r) = p
<1> DEFINE h == Len(r.ipv6_prefix)
           e == SubSeq(p, h + 1, Len(p))
<1>1. /\ h \in Nat /\ r.ea_length \in Nat /\ h + r.ea_length <= 64
      /\ Len(p) \in Nat /\ Len(p) = h + r.ea_length
  BY RuleType DEF Fits
<1>2. extract_ea_bits(p, r) = e
  BY <1>1 DEF extract_ea_bits
<1>3. SubSeq(p, 1, h) = r.ipv6_prefix
  BY DEF Fits, contains
<1>5. SubSeq(p, 1, h) \o e = p
  <2>1. h <= Len(p)
    BY <1>1
  <2> QED BY <1>1, <2>1, Split
<1> HIDE DEF h
<1>4. e \in Seq(Bit) /\ Len(e) = Len(p) - h
  <2>1. h <= Len(p) /\ Len(p) <= Len(p)
    BY <1>1
  <2> QED BY <1>1, <2>1, RestIs
<1> HIDE DEF e
<1>6. Len(e) = r.ea_length
  BY <1>1, <1>4
<1>7. e # None
  BY <1>4, MapConstants
<1> QED BY <1>1, <1>2, <1>3, <1>4, <1>5, <1>6, <1>7

\* The low bits are the last ones.
LEMMA LowBits ==
    ASSUME NEW ea \in Seq(Bit), NEW n \in Nat, NEW k \in Nat, Len(ea) = n + k
    PROVE  Fit(ea, k) = SubSeq(ea, n + 1, n + k)
<1> DEFINE f == Fit(ea, k)
           s == SubSeq(ea, n + 1, n + k)
<1>1. /\ f \in Seq(Bit) /\ Len(f) = k
      /\ \A i \in 1..k : f[i] = IF Len(ea) + i <= k THEN 0 ELSE ea[Len(ea) + i - k]
  BY FitIs
<1>2. n + k \in Nat /\ n <= n + k /\ n + k <= Len(ea) /\ (n + k) - n = k
  OBVIOUS
<1>3. s \in Seq(Bit) /\ Len(s) = k /\ \A i \in 1..k : s[i] = ea[n + i]
  <2>1. s \in Seq(Bit) /\ Len(s) = (n + k) - n /\ \A i \in 1 .. (n + k) - n : s[i] = ea[n + i]
    BY <1>2, RestIs
  <2> HIDE DEF s
  <2> QED BY <1>2, <2>1
<1> HIDE DEF f, s
<1>4. ASSUME NEW i \in 1..k PROVE f[i] = s[i]
  <2>1. ~((n + k) + i <= k) /\ (n + k) + i - k = n + i
    OBVIOUS
  <2>2. f[i] = ea[n + i]
    BY <1>1, <2>1
  <2> QED BY <1>3, <2>1, <2>2
<1>5. f = s
  BY <1>1, <1>3, <1>4, SeqEqual
<1> QED BY <1>5 DEF f, s

\* A prefix and other bits put together by | : each is found where it belongs.
LEMMA Joined ==
    ASSUME NEW q \in Seq(Bit), NEW e \in Seq(Bit), NEW W \in Nat, Len(q) + Len(e) = W
    PROVE  /\ Or(Pad(q, W), Fit(e, W)) \in [1..W -> Bit]
           /\ Or(Pad(q, W), Fit(e, W)) = q \o e
<1> DEFINE l == Len(q)
           n == Len(e)
           a == Pad(q, W)
           b == Fit(e, W)
           o == Or(a, b)
           g == q \o e
<1>0. l \in Nat /\ n \in Nat /\ l + n = W /\ l <= W
  OBVIOUS
<1>7. a \in Seq(Bit) /\ Len(a) = W /\ \A i \in 1..W : a[i] = IF i <= l THEN q[i] ELSE 0
  BY PadIs
<1>8. b \in Seq(Bit) /\ Len(b) = W /\ \A i \in 1..W : b[i] = IF n + i <= W THEN 0 ELSE e[n + i - W]
  BY FitIs
<1>1. /\ g \in Seq(Bit) /\ Len(g) = l + n
      /\ \A i \in 1..l : g[i] = q[i]
      /\ \A i \in 1..n : g[l + i] = e[i]
  BY ConcatIs
<1> HIDE DEF a, b, g, l, n
<1>9. o \in [1..W -> Bit] /\ \A i \in 1..W : (a[i] = 0 => o[i] = b[i]) /\ (b[i] = 0 => o[i] = a[i])
  <2>1. Len(a) = Len(b)
    BY <1>7, <1>8
  <2>2. o \in [1 .. Len(a) -> Bit] /\ \A i \in 1 .. Len(a) : (a[i] = 0 => o[i] = b[i]) /\ (b[i] = 0 => o[i] = a[i])
    BY <1>7, <1>8, <2>1, OrIs
  <2> HIDE DEF o
  <2> QED BY <1>7, <2>2
<1> HIDE DEF o
<1>10. ASSUME NEW i \in 1..W PROVE o[i] = g[i]
  <2>1. CASE i <= l
    <3>1. i \in 1..l /\ n + i <= W
      BY <1>0, <2>1
    <3>2. a[i] = q[i]
      BY <1>7, <2>1
    <3>3. b[i] = 0
      BY <1>8, <3>1
    <3> QED BY <1>1, <1>9, <3>1, <3>2, <3>3
  <2>2. CASE i > l
    <3>1. i - l \in 1..n /\ ~(n + i <= W) /\ ~(i <= l) /\ n + i - W = i - l /\ l + (i - l) = i
      BY <1>0, <2>2
    <3>2. a[i] = 0
      BY <1>7, <3>1
    <3>3. b[i] = e[i - l]
      BY <1>8, <3>1
    <3>4. g[l + (i - l)] = e[i - l]
      BY <1>1, <3>1
    <3> QED BY <1>9, <3>1, <3>2, <3>3, <3>4
  <2> QED BY <1>0, <2>1, <2>2
<1>11. g \in [1..W -> Bit]
  BY <1>0, <1>1, SeqWord
<1>12. o = g
  BY <1>9, <1>10, <1>11, WordEqual
<1> QED BY <1>9, <1>12 DEF o, a, b, g

\* The IPv4 address and the PSID are the rule's IPv4 prefix and the EA bits: no bit
\* is lost and none is used twice.
Combined(q, ea, k, n) == Or(Pad(q, n), Fit(SubSeq(ea, 1, Len(ea) - k), n))

\* derive_ipv4_and_psid, bit by bit: the EA bits follow the rule's prefix in the address,
\* the rest of them are the PSID.
LEMMA AddressBits ==
    ASSUME NEW q \in Seq(Bit), NEW ea \in Seq(Bit), NEW k \in Nat, NEW W \in Nat,
           Len(q) <= W, Len(ea) = W - Len(q) + k
    PROVE  /\ Fit(ea, k) \in Seq(Bit) /\ Len(Fit(ea, k)) = k
           /\ Combined(q, ea, k, W) \in [1..W -> Bit]
           /\ SubSeq(Combined(q, ea, k, W), 1, Len(q)) = q
           /\ SubSeq(Combined(q, ea, k, W), Len(q) + 1, W) \o Fit(ea, k) = ea
<1> DEFINE l == Len(q)
           n == W - l
           e == SubSeq(ea, 1, n)
           ipv4 == Or(Pad(q, W), Fit(e, W))
<1>0. /\ l \in Nat /\ n \in Nat /\ l <= W /\ Len(ea) = n + k /\ Len(ea) - k = n /\ l + n = W
      /\ n <= n + k
  OBVIOUS
<1>1. Fit(ea, k) \in Seq(Bit) /\ Len(Fit(ea, k)) = k
  BY FitIs
<1>2. Fit(ea, k) = SubSeq(ea, n + 1, n + k)
  BY <1>0, LowBits
<1>3. e \o Fit(ea, k) = ea
  BY <1>0, <1>2, Split
<1>4. e \in Seq(Bit) /\ Len(e) = n
  <2>1. n <= Len(ea)
    BY <1>0
  <2> QED BY <1>0, <2>1, HeadIs
<1> HIDE DEF e
<1>5. ipv4 \in [1..W -> Bit] /\ ipv4 = q \o e
  BY <1>0, <1>4, Joined
<1>6. SubSeq(q \o e, 1, l) = q /\ SubSeq(q \o e, l + 1, W) = e
  <2> DEFINE g == q \o e
             s == SubSeq(g, 1, l)
             t == SubSeq(g, l + 1, W)
  <2>1. /\ g \in Seq(Bit) /\ Len(g) = l + n
        /\ \A i \in 1..l : g[i] = q[i]
        /\ \A i \in 1..n : g[l + i] = e[i]
    BY <1>4, ConcatIs
  <2> HIDE DEF g, l, n
  <2>2. /\ l <= l + n /\ W <= l + n /\ W - l = n /\ l <= W
    BY <1>0
  <2>3. s \in Seq(Bit) /\ Len(s) = l /\ \A i \in 1..l : s[i] = g[i]
    BY <1>0, <2>1, <2>2, HeadIs
  <2>4. t \in Seq(Bit) /\ Len(t) = W - l /\ \A i \in 1 .. W - l : t[i] = g[l + i]
    BY <1>0, <2>1, <2>2, RestIs
  <2> HIDE DEF s, t
  <2>5. \A i \in 1..l : s[i] = q[i]
    BY <2>1, <2>3
  <2>6. Len(t) = n /\ \A i \in 1..n : t[i] = e[i]
    BY <2>1, <2>2, <2>4
  <2>7. Len(q) = l
    BY DEF l
  <2>8. s = q
    BY <2>3, <2>5, <2>7, SeqEqual
  <2>9. t = e
    BY <1>4, <2>4, <2>6, SeqEqual
  <2> QED BY <2>8, <2>9 DEF s, t, g, l
<1>7. SubSeq(ea, 1, Len(ea) - k) = e
  BY <1>0 DEF e
<1>8. Combined(q, ea, k, W) = ipv4
  BY <1>7 DEF Combined
<1> QED BY <1>1, <1>3, <1>5, <1>6, <1>8

\* Putting together is associative.
LEMMA BitsAssociate ==
    ASSUME NEW a \in Seq(Bit), NEW b \in Seq(Bit), NEW c \in Seq(Bit)
    PROVE  (a \o b) \o c = a \o (b \o c)
BY ConcatAssociative

\* What a CE computes from a prefix; what the relay puts together again from the
\* rule, the IPv4 address and the PSID is that prefix.
LEMMA Derived ==
    ASSUME NEW r \in Rule, NEW p \in Seq(Bit), Fits(r, p)
    PROVE  LET d == derive_ipv4_and_psid(extract_ea_bits(p, r), r)
           IN  /\ d.psid \in Seq(Bit) /\ Len(d.psid) = r.length
               /\ d.ipv4 \in [1..32 -> Bit] /\ SubSeq(d.ipv4, 1, Len(r.ipv4_prefix)) = r.ipv4_prefix
               /\ r.ipv6_prefix \o SubSeq(d.ipv4, Len(r.ipv4_prefix) + 1, 32) \o d.psid = p
<1> DEFINE h == Len(r.ipv6_prefix)
           q == r.ipv4_prefix
           q6 == r.ipv6_prefix
           k == r.length
           ea == extract_ea_bits(p, r)
           W == 32
           ipv4 == Combined(q, ea, k, W)
           psid == Fit(ea, k)
           d == derive_ipv4_and_psid(ea, r)
<1>1. /\ h \in Nat /\ q \in Seq(Bit) /\ Len(q) <= W /\ k \in Nat /\ r.ea_length = W - Len(q) + k
      /\ W \in Nat /\ q6 \in Seq(Bit)
  BY RuleType
<1>2. ea \in Seq(Bit) /\ Len(ea) = r.ea_length /\ q6 \o ea = p
  BY Extracted
<1>3. d.psid = psid /\ d.ipv4 = ipv4
  BY DEF derive_ipv4_and_psid, Combined
<1>a. d.psid \in Seq(Bit) /\ W \in Nat /\ Len(ea) = W - Len(q) + k
  BY <1>1, <1>2, <1>3, FitIs
<1> HIDE DEF W, q, k, ea, q6, d
<1>4. /\ psid \in Seq(Bit) /\ Len(psid) = k
      /\ ipv4 \in [1..W -> Bit] /\ SubSeq(ipv4, 1, Len(q)) = q
      /\ SubSeq(ipv4, Len(q) + 1, W) \o psid = ea
  <2>1. q \in Seq(Bit) /\ ea \in Seq(Bit) /\ k \in Nat /\ W \in Nat /\ Len(q) <= W
    BY <1>1, <1>2, <1>a
  <2>2. Len(ea) = W - Len(q) + k
    BY <1>a
  <2>3. /\ Fit(ea, k) \in Seq(Bit) /\ Len(Fit(ea, k)) = k
        /\ Combined(q, ea, k, W) \in [1..W -> Bit]
        /\ SubSeq(Combined(q, ea, k, W), 1, Len(q)) = q
        /\ SubSeq(Combined(q, ea, k, W), Len(q) + 1, W) \o Fit(ea, k) = ea
    BY <2>1, <2>2, AddressBits, SMTT(30)
  <2> QED BY <2>3 DEF psid, ipv4
<1> HIDE DEF psid, ipv4
<1>5. (q6 \o SubSeq(ipv4, Len(q) + 1, W)) \o psid = p
  <2> DEFINE s == SubSeq(ipv4, Len(q) + 1, W)
  <2>1. s \in Seq(Bit)
    <3>1. ipv4 \in Seq(Bit) /\ Len(ipv4) = W
      BY <1>1, <1>4, Word
    <3>2. Len(q) \in Nat
      BY <1>1, SeqWord
    <3>3. W <= Len(ipv4)
      BY <1>1, <3>1
    <3> QED BY <1>1, <3>1, <3>2, <3>3, RestIs
  <2>2. s \o psid = ea
    BY <1>4
  <2> HIDE DEF s
  <2>3. (q6 \o s) \o psid = q6 \o (s \o psid)
    <3>1. q6 \in Seq(Bit) /\ psid \in Seq(Bit)
      BY <1>1, <1>4
    <3> QED BY <2>1, <3>1, BitsAssociate
  <2> QED BY <1>2, <2>2, <2>3 DEF s
<1>6. /\ d.psid \in Seq(Bit) /\ Len(d.psid) = k
      /\ d.ipv4 \in [1..W -> Bit] /\ SubSeq(d.ipv4, 1, Len(q)) = q
      /\ (q6 \o SubSeq(d.ipv4, Len(q) + 1, W)) \o d.psid = p
  BY <1>3, <1>4, <1>5
<1> QED BY <1>6 DEF W, q, k, ea, q6, d

\* Two prefixes of one word overlap.
LEMMA PrefixesOverlap ==
    ASSUME NEW a \in Seq(Bit), NEW b \in Seq(Bit), NEW w \in Seq(Bit),
           contains(a, w), contains(b, w)
    PROVE  Overlap(a, b)
<1> DEFINE m == Len(a)
           n == Len(b)
<1>1. /\ m \in Nat /\ m <= Len(w) /\ SubSeq(w, 1, m) = a /\ DOMAIN a = 1..m
      /\ n \in Nat /\ n <= Len(w) /\ SubSeq(w, 1, n) = b /\ DOMAIN b = 1..n
  BY DEF contains
<1> HIDE DEF m, n
<1>2. \A i \in 1..m : a[i] = w[i]
  BY <1>1, HeadIs
<1>3. \A i \in 1..n : b[i] = w[i]
  BY <1>1, HeadIs
<1> QED BY <1>1, <1>2, <1>3 DEF Overlap

\* A prefix in the high half of an address and an identifier in the low half.
LEMMA Halves ==
    ASSUME NEW p \in Seq(Bit), NEW e \in Seq(Bit), NEW n \in Nat, Len(p) <= n, Len(e) = n
    PROVE  /\ Or(Pad(p, n + n), Zeros(n) \o e) \in [1 .. n + n -> Bit]
           /\ Or(Pad(p, n + n), Zeros(n) \o e) = Pad(p, n) \o e
<1> DEFINE W == n + n
           q == Pad(p, n)
           a == Pad(q, W)
           b == Fit(e, W)
           c == Pad(p, W)
           z == Zeros(n)
           d == z \o e
<1>0. W \in Nat /\ n <= W /\ Len(p) <= W /\ W = n + n /\ Len(p) \in Nat
  OBVIOUS
<1>1. q \in Seq(Bit) /\ Len(q) = n /\ \A i \in 1..n : q[i] = IF i <= Len(p) THEN p[i] ELSE 0
  BY PadIs
<1>2. c \in Seq(Bit) /\ Len(c) = W /\ \A i \in 1..W : c[i] = IF i <= Len(p) THEN p[i] ELSE 0
  BY <1>0, PadIs
<1>3. z \in Seq(Bit) /\ Len(z) = n /\ \A i \in 1..n : z[i] = 0
  BY ZerosIs
<1> HIDE DEF W, q, c, z
<1>4. a \in Seq(Bit) /\ Len(a) = W /\ \A i \in 1..W : a[i] = IF i <= n THEN q[i] ELSE 0
  <2>1. Len(q) <= W
    BY <1>0, <1>1
  <2>2. a \in Seq(Bit) /\ Len(a) = W /\ \A i \in 1..W : a[i] = IF i <= Len(q) THEN q[i] ELSE 0
    BY <1>0, <1>1, <2>1, PadIs
  <2> HIDE DEF a
  <2> QED BY <1>1, <2>2
<1>5. b \in Seq(Bit) /\ Len(b) = W /\ \A i \in 1..W : b[i] = IF n + i <= W THEN 0 ELSE e[n + i - W]
  <2>1. b \in Seq(Bit) /\ Len(b) = W
        /\ \A i \in 1..W : b[i] = IF Len(e) + i <= W THEN 0 ELSE e[Len(e) + i - W]
    <3>1. W \in Nat
      BY <1>0
    <3> QED BY <3>1, FitIs
  <2> HIDE DEF b
  <2> QED BY <2>1
<1>6. /\ d \in Seq(Bit) /\ Len(d) = W
      /\ \A i \in 1..n : d[i] = 0
      /\ \A i \in 1..n : d[n + i] = e[i]
  <2>1. /\ d \in Seq(Bit) /\ Len(d) = Len(z) + Len(e)
        /\ \A i \in 1 .. Len(z) : d[i] = z[i]
        /\ \A i \in 1 .. Len(e) : d[Len(z) + i] = e[i]
    BY <1>3, ConcatIs
  <2> HIDE DEF d
  <2> QED BY <1>0, <1>3, <2>1
<1> HIDE DEF a, b, d
<1>7. a = c
  <2>1. ASSUME NEW i \in 1..W PROVE a[i] = c[i]
    <3>1. CASE i <= n
      <4>1. i \in 1..n
        BY <1>0, <3>1
      <4> QED BY <1>1, <1>2, <1>4, <3>1, <4>1
    <3>2. CASE i > n
      <4>1. ~(i <= n) /\ ~(i <= Len(p))
        BY <1>0, <3>2
      <4>2. a[i] = 0
        BY <1>4, <4>1
      <4>3. c[i] = 0
        BY <1>2, <4>1
      <4> QED BY <4>2, <4>3
    <3> QED BY <1>0, <3>1, <3>2
  <2> QED BY <1>0, <1>2, <1>4, <2>1, SeqEqual
<1>8. b = d
  <2>1. ASSUME NEW i \in 1..W PROVE b[i] = d[i]
    <3>1. CASE i <= n
      <4>1. i \in 1..n /\ n + i <= W
        BY <1>0, <3>1
      <4> QED BY <1>5, <1>6, <4>1
    <3>2. CASE i > n
      <4>1. i - n \in 1..n /\ ~(n + i <= W) /\ n + i - W = i - n /\ n + (i - n) = i
        BY <1>0, <3>2
      <4>2. b[i] = e[i - n]
        BY <1>5, <4>1
      <4>3. d[n + (i - n)] = e[i - n]
        BY <1>6, <4>1
      <4> QED BY <4>1, <4>2, <4>3
    <3> QED BY <1>0, <3>1, <3>2
  <2> QED BY <1>0, <1>5, <1>6, <2>1, SeqEqual
<1>9. Or(a, b) \in [1..W -> Bit] /\ Or(a, b) = q \o e
  <2>1. Len(q) + Len(e) = W
    BY <1>0, <1>1
  <2> QED BY <1>0, <1>1, <2>1, Joined DEF a, b
<1> QED BY <1>7, <1>8, <1>9 DEF c, d, q, W, z

\* The interface identifier has 64 bits in either format.
LEMMA InterfaceId ==
    ASSUME NEW d, d.ipv4 \in Seq(Bit), Len(d.ipv4) = 32,
           d.psid \in Seq(Bit), Len(d.psid) <= 16, NEW fmt
    PROVE  interface_id(d, fmt) \in Seq(Bit) /\ Len(interface_id(d, fmt)) = 64
<1> DEFINE ipv4 == d.ipv4
           psid == d.psid
           k == Len(psid)
           z == Zeros(16)
           y == Zeros(8)
           x == Zeros(16 - k)
           f == Fit(psid \o y, 24)
           a == z \o ipv4
           b == a \o psid
           c == y \o ipv4
           g == c \o f
<1>1. k \in Nat /\ 16 - k \in Nat /\ 16 \in Nat /\ 8 \in Nat /\ 24 \in Nat /\ 32 \in Nat
      /\ 16 + 32 \in Nat /\ 16 + 32 + k \in Nat /\ 8 + 32 \in Nat
      /\ 16 + 32 + k + (16 - k) = 64 /\ 8 + 32 + 24 = 64
  OBVIOUS
<1>2. /\ z \in Seq(Bit) /\ Len(z) = 16
      /\ y \in Seq(Bit) /\ Len(y) = 8
      /\ x \in Seq(Bit) /\ Len(x) = 16 - k
  BY <1>1, ZerosIs
<1>3. interface_id(d, fmt) = IF fmt = "Rfc7597" THEN b \o x ELSE g
  BY DEF interface_id
<1>4. f \in Seq(Bit) /\ Len(f) = 24
  <2>1. y \in Seq(Bit)
    BY <1>2
  <2> DEFINE w == psid \o y
  <2>2. w \in Seq(Bit) /\ Len(w) = Len(psid) + Len(y)
    BY <2>1, ConcatIs
  <2> HIDE DEF w
  <2>3. 24 \in Nat
    OBVIOUS
  <2>4. Fit(w, 24) \in Seq(Bit) /\ Len(Fit(w, 24)) = 24
    BY <2>2, <2>3, FitIs
  <2> QED BY <2>4 DEF w
<1>5. ipv4 \in Seq(Bit) /\ Len(ipv4) = 32 /\ psid \in Seq(Bit) /\ Len(psid) = k
  OBVIOUS
<1> HIDE DEF z, y, x, f, ipv4, psid, k
<1>6. a \in Seq(Bit) /\ Len(a) = 16 + 32
  <2>1. a \in Seq(Bit) /\ Len(a) = Len(z) + Len(ipv4)
    <3>1. z \in Seq(Bit) /\ ipv4 \in Seq(Bit)
      BY <1>2, <1>5
    <3> QED BY <3>1, ConcatIs
  <2> HIDE DEF a
  <2> QED BY <1>1, <1>2, <1>5, <2>1
<1> HIDE DEF a
<1>7. b \in Seq(Bit) /\ Len(b) = 16 + 32 + k
  <2>1. b \in Seq(Bit) /\ Len(b) = Len(a) + Len(psid)
    <3>1. a \in Seq(Bit) /\ psid \in Seq(Bit)
      BY <1>5, <1>6
    <3> QED BY <3>1, ConcatIs
  <2> HIDE DEF b
  <2> QED BY <1>1, <1>5, <1>6, <2>1
<1> HIDE DEF b
<1>8. b \o x \in Seq(Bit) /\ Len(b \o x) = 16 + 32 + k + (16 - k)
  BY <1>1, <1>2, <1>7, ConcatLen
<1>9. c \in Seq(Bit) /\ Len(c) = 8 + 32
  <2>1. c \in Seq(Bit) /\ Len(c) = Len(y) + Len(ipv4)
    <3>1. y \in Seq(Bit) /\ ipv4 \in Seq(Bit)
      BY <1>2, <1>5
    <3> QED BY <3>1, ConcatIs
  <2> HIDE DEF c
  <2> QED BY <1>1, <1>2, <1>5, <2>1
<1> HIDE DEF c
<1>10. g \in Seq(Bit) /\ Len(g) = 8 + 32 + 24
  <2>1. g \in Seq(Bit) /\ Len(g) = Len(c) + Len(f)
    <3>1. c \in Seq(Bit) /\ f \in Seq(Bit)
      BY <1>4, <1>9
    <3> QED BY <3>1, ConcatIs
  <2> HIDE DEF g
  <2> QED BY <1>1, <1>4, <1>9, <2>1
<1> QED BY <1>1, <1>3, <1>8, <1>10

\* The parameters n are the right ones for a prefix p and a rule r: the IPv4 address,
\* the PSID and the rule give the prefix back, and the IPv6 address is the prefix and
\* the interface identifier.
Right(n, p, r, fmt) ==
    /\ n \in MapeParams /\ n # None
    /\ n.ce_prefix = p /\ n.rule = r /\ Len(n.psid) = r.length
    /\ contains(r.ipv4_prefix, n.ipv4)
    /\ r.ipv6_prefix \o SubSeq(n.ipv4, Len(r.ipv4_prefix) + 1, 32) \o n.psid = p
    /\ n.ce_ipv6 = Pad(p, 64) \o interface_id(n, fmt)

\* They are what is computed from a prefix that fits.
LEMMA ComputedRight ==
    ASSUME NEW r \in Rule, NEW p \in Prefix, Fits(r, p), NEW fmt
    PROVE  Right(compute_mape_params(p, r, fmt), p, r, fmt)
<1> DEFINE ea == extract_ea_bits(p, r)
           d == derive_ipv4_and_psid(ea, r)
           id == interface_id(d, fmt)
           n == compute_mape_params(p, r, fmt)
           six == build_ce_ipv6(p, r, ea, fmt)
<1>1. p \in Seq(Bit)
  BY MapConstants
<1>2. Len(p) <= 64 /\ ea # None
  BY <1>1, Extracted
<1>3. /\ d.psid \in Seq(Bit) /\ Len(d.psid) = r.length
      /\ d.ipv4 \in [1..32 -> Bit] /\ SubSeq(d.ipv4, 1, Len(r.ipv4_prefix)) = r.ipv4_prefix
      /\ r.ipv6_prefix \o SubSeq(d.ipv4, Len(r.ipv4_prefix) + 1, 32) \o d.psid = p
  BY <1>1, Derived
<1>5. six = Or(Pad(p, 128), Zeros(64) \o id)
  BY DEF build_ce_ipv6
<1>6. n = [ce_ipv6 |-> six, ipv4 |-> d.ipv4, psid |-> d.psid, rule |-> r, ce_prefix |-> p]
  BY <1>2 DEF compute_mape_params
<1> HIDE DEF ea, d, n, six, id
<1>7. d.ipv4 \in Seq(Bit) /\ Len(d.ipv4) = 32
  <2>1. 32 \in Nat
    OBVIOUS
  <2> QED BY <1>3, <2>1, Word
<1>8. Len(d.psid) <= 16
  <2>1. r.length \in Nat /\ r.offset \in Nat /\ r.offset + r.length < 16
    BY RuleType
  <2> QED BY <1>3, <2>1
<1>9. id \in Seq(Bit) /\ Len(id) = 64
  <2>1. d.psid \in Seq(Bit)
    BY <1>3
  <2> QED BY <1>7, <1>8, <2>1, InterfaceId DEF id
<1>10. six \in [1..128 -> Bit] /\ six = Pad(p, 64) \o id
  <2> DEFINE N == 64
             W == N + N
  <2>a. N \in Nat /\ Len(p) <= N /\ Len(id) = N
    BY <1>2, <1>9
  <2>1. N = 64 /\ W = 128
    OBVIOUS
  <2>2. six = Or(Pad(p, W), Zeros(N) \o id)
    BY <1>5, <2>1
  <2> HIDE DEF N
  <2>3. Or(Pad(p, W), Zeros(N) \o id) \in [1..W -> Bit] /\ Or(Pad(p, W), Zeros(N) \o id) = Pad(p, N) \o id
    BY <1>1, <1>9, <2>a, Halves
  <2> HIDE DEF W
  <2> QED BY <2>1, <2>2, <2>3
<1>11. contains(r.ipv4_prefix, d.ipv4)
  BY <1>3, <1>7, RuleType DEF contains
<1>12. n \in MapeParams
  BY <1>3, <1>6, <1>10 DEF MapeParams
<1>13. n # None
  BY <1>12, MapConstants
<1>14. /\ n.ce_prefix = p /\ n.rule = r /\ n.psid = d.psid /\ n.ipv4 = d.ipv4 /\ n.ce_ipv6 = six
  BY <1>6
<1>15. id = interface_id(n, fmt)
  BY <1>14 DEF id, interface_id
<1>16. Right(n, p, r, fmt)
  BY <1>3, <1>10, <1>11, <1>12, <1>13, <1>14, <1>15 DEF Right
<1> QED BY <1>16 DEF n

-----------------------------------------------------------------------------
(* The search for a rule *)

\* The places of the rules that fit a prefix.
FitRules(m, p) == {i \in DOMAIN Rules[m] : Fits(Rules[m][i], p)}

\* Some natural numbers have a least.
LEMMA HasLeast ==
    ASSUME NEW S, S \subseteq Nat, S # {}
    PROVE  \E x \in S : \A y \in S : x <= y
<1> DEFINE R == {ss \in Nat \X Nat : ss[1] < ss[2]}
<1>1. IsWellFoundedOn(R, Nat)
  BY NatLessThanWellFounded DEF OpToRel
<1>2. PICK x \in S : \A y \in S : ~(<<y, x>> \in R)
  <2> HIDE DEF R
  <2> QED BY <1>1, WFMin
<1>3. \A y \in S : x <= y
  <2>1. ASSUME NEW y \in S PROVE x <= y
    <3>1. x \in Nat /\ y \in Nat /\ <<y, x>> \notin R
      BY <1>2
    <3>2. y < x => <<y, x>> \in R
      BY <3>1
    <3> QED BY <3>1, <3>2
  <2> QED BY <2>1
<1> QED BY <1>3

\* The least of a set of places is one of them.
LEMMA Least ==
    ASSUME NEW S, S \subseteq Nat, S # {}
    PROVE  Min(S) \in S
BY HasLeast DEF Min

\* try_compute takes a rule that fits if there is one.
LEMMA Search ==
    ASSUME NEW m \in Mode, NEW p \in Seq(Bit)
    PROVE  /\ FitRules(m, p) = {} => try_compute(m, p) = None
           /\ FitRules(m, p) # {} =>
                 \E i \in FitRules(m, p) :
                    try_compute(m, p) = compute_mape_params(p, Rules[m][i], format(m))
<1> DEFINE fit == {i \in DOMAIN Rules[m] : /\ contains(Rules[m][i].ipv6_prefix, p)
                                           /\ extract_ea_bits(p, Rules[m][i]) # None}
<1>1. ASSUME NEW i \in DOMAIN Rules[m]
      PROVE  (i \in fit) <=> (i \in FitRules(m, p))
  <2>1. Rules[m][i] \in Rule
    BY RuleAt
  <2>2. ASSUME Fits(Rules[m][i], p) PROVE i \in fit
    <3>1. extract_ea_bits(p, Rules[m][i]) # None
      BY <2>1, <2>2, Extracted
    <3> QED BY <2>2, <3>1 DEF Fits
  <2>3. ASSUME i \in fit PROVE Fits(Rules[m][i], p)
    BY <2>3 DEF Fits, extract_ea_bits
  <2> QED BY <2>2, <2>3 DEF FitRules
<1>2. fit = FitRules(m, p)
  BY <1>1 DEF FitRules
<1>3. try_compute(m, p) = IF fit = {} THEN None
                          ELSE compute_mape_params(p, Rules[m][Min(fit)], format(m))
  BY DEF try_compute
<1> HIDE DEF fit
<1>4. ASSUME fit # {} PROVE Min(fit) \in fit
  <2>1. fit \subseteq Nat
    BY <1>2, RuleAt DEF FitRules
  <2> QED BY <1>4, <2>1, Least
<1> QED BY <1>2, <1>3, <1>4

\* In the static mode a rule fits prefixes of 56 bits only.
LEMMA StaticLength ==
    ASSUME "static" \in Mode, NEW p, FitRules("static", p) # {}
    PROVE  is_valid_ia_pd_for_static_rules(p)
BY TableConstants DEF FitRules, Fits, is_valid_ia_pd_for_static_rules

-----------------------------------------------------------------------------
(* The invariant *)

\* Parameters are what compute_mape_params makes of their prefix and a rule that fits it.
Computed(c) ==
    params[c] # None =>
        /\ params[c].ce_prefix \in Pools[mode][pool]
        /\ \E i \in FitRules(mode, params[c].ce_prefix) :
              params[c] = compute_mape_params(params[c].ce_prefix, Rules[mode][i], format(mode))

\* No two CEs hold prefixes with a common address.
Apart ==
    \A c, d \in CE :
        c # d /\ lease[c] # None /\ lease[d] # None => ~Overlap(lease[c], lease[d])

\* A lease that some rule fits is in use.
InUse(c) == lease[c] # None /\ FitRules(mode, lease[c]) # {} => Current(c)

IInv ==
    /\ mode \in Mode /\ pool \in DOMAIN Pools[mode]
    /\ lease \in [CE -> Pools[mode][pool] \cup {None}]
    /\ DOMAIN params = CE
    /\ \A c \in CE : Computed(c) /\ InUse(c)
    /\ Apart

\* Delegated prefixes are words.
LEMMA PoolType ==
    ASSUME NEW m \in Mode, NEW i \in DOMAIN Pools[m], NEW p \in Pools[m][i]
    PROVE  p \in Prefix /\ p \in Seq(Bit) /\ p # None
<1>1. Pools[m][i] \in Range(Pools[m])
  BY DEF Range
<1>2. p \in Prefix
  BY <1>1 DEF Prefix
<1> QED BY <1>2, MapConstants

\* At the start nothing is leased.
LEMMA InitInvariant == Init => IInv
BY DEF Init, IInv, Computed, InUse, Apart

\* Either the parameters are computed anew, or no rule fits and they stay.
LEMMA Handled ==
    ASSUME NEW c \in CE, NEW p \in Pools[mode][pool], IInv, handle_ia_pd(c, p)
    PROVE  /\ DOMAIN params' = CE
           /\ \A d \in CE \ {c} : params'[d] = params[d]
           /\ \/ FitRules(mode, p) = {} /\ params'[c] = params[c]
              \/ \E i \in FitRules(mode, p) :
                    params'[c] = compute_mape_params(p, Rules[mode][i], format(mode))
<1> DEFINE new == IF mode = "static" /\ ~is_valid_ia_pd_for_static_rules(p)
                  THEN None ELSE try_compute(mode, p)
<1>1. /\ mode \in Mode /\ pool \in DOMAIN Pools[mode] /\ DOMAIN params = CE
      /\ p \in Prefix /\ p \in Seq(Bit)
  BY PoolType DEF IInv
<1>2. params' = [params EXCEPT ![c] = IF new = None THEN params[c] ELSE new]
  BY DEF handle_ia_pd
<1>3. /\ DOMAIN params' = CE
      /\ \A d \in CE \ {c} : params'[d] = params[d]
      /\ params'[c] = IF new = None THEN params[c] ELSE new
  <2> HIDE DEF new
  <2> QED BY <1>1, <1>2
<1>4. CASE FitRules(mode, p) = {}
  <2>1. new = None
    BY <1>1, <1>4, Search
  <2> HIDE DEF new
  <2> QED BY <1>3, <1>4, <2>1
<1>5. CASE FitRules(mode, p) # {}
  <2>1. new = try_compute(mode, p)
    BY <1>1, <1>5, StaticLength
  <2>2. PICK i \in FitRules(mode, p) :
           new = compute_mape_params(p, Rules[mode][i], format(mode))
    BY <1>1, <1>5, <2>1, Search
  <2>3. Rules[mode][i] \in Rule /\ Fits(Rules[mode][i], p)
    BY <1>1, RuleAt DEF FitRules
  <2> HIDE DEF new
  <2>4. compute_mape_params(p, Rules[mode][i], format(mode)) # None
    <3>1. \A fmt : Right(compute_mape_params(p, Rules[mode][i], fmt), p, Rules[mode][i], fmt)
      BY <1>1, <2>3, ComputedRight
    <3> QED BY <3>1 DEF Right
  <2> QED BY <1>3, <2>2, <2>4
<1> QED BY <1>3, <1>4, <1>5

\* The leases of the others, and what they make of them, do not change.
LEMMA OthersKeep ==
    ASSUME NEW d \in CE, lease'[d] = lease[d], params'[d] = params[d],
           UNCHANGED <<mode, pool>>, Computed(d), InUse(d)
    PROVE  Computed(d)' /\ InUse(d)'
BY DEF Computed, InUse, Current, FitRules

\* A delegation keeps the invariant.
LEMMA DelegateStep ==
    ASSUME IInv, NEW c \in CE, NEW p \in Pools[mode][pool], Delegate(c, p)
    PROVE  IInv'
<1>1. /\ mode \in Mode /\ pool \in DOMAIN Pools[mode]
      /\ lease \in [CE -> Pools[mode][pool] \cup {None}] /\ DOMAIN params = CE
      /\ \A d \in CE : Computed(d) /\ InUse(d)
      /\ Apart
  BY DEF IInv
<1>2. /\ \A d \in CE \ {c} : lease[d] # None => ~Overlap(lease[d], p)
      /\ lease' = [lease EXCEPT ![c] = p]
      /\ handle_ia_pd(c, p) /\ mode' = mode /\ pool' = pool
  BY DEF Delegate
<1>3. p \in Seq(Bit) /\ p # None /\ p \in Prefix
  BY <1>1, PoolType
<1>4. /\ DOMAIN params' = CE
      /\ \A d \in CE \ {c} : params'[d] = params[d]
      /\ \/ FitRules(mode, p) = {} /\ params'[c] = params[c]
         \/ \E i \in FitRules(mode, p) :
               params'[c] = compute_mape_params(p, Rules[mode][i], format(mode))
  BY <1>2, Handled
<1>5. /\ lease' \in [CE -> Pools[mode][pool] \cup {None}]
      /\ lease'[c] = p /\ \A d \in CE \ {c} : lease'[d] = lease[d]
  BY <1>1, <1>2
<1>6. ASSUME NEW d \in CE \ {c} PROVE Computed(d)' /\ InUse(d)'
  BY <1>1, <1>2, <1>4, <1>5, OthersKeep
<1>7. Computed(c)' /\ InUse(c)'
  <2>1. CASE FitRules(mode, p) = {} /\ params'[c] = params[c]
    <3>1. Computed(c)
      BY <1>1
    <3>2. Computed(c)'
      BY <1>2, <2>1, <3>1 DEF Computed, FitRules
    <3>3. InUse(c)'
      BY <1>2, <1>5, <2>1 DEF InUse, FitRules
    <3> QED BY <3>2, <3>3
  <2>2. CASE \E i \in FitRules(mode, p) :
               params'[c] = compute_mape_params(p, Rules[mode][i], format(mode))
    <3>1. PICK i \in FitRules(mode, p) :
             params'[c] = compute_mape_params(p, Rules[mode][i], format(mode))
      BY <2>2
    <3>2. Rules[mode][i] \in Rule /\ Fits(Rules[mode][i], p)
      BY <1>1, RuleAt DEF FitRules
    <3>3. \A fmt : Right(compute_mape_params(p, Rules[mode][i], fmt), p, Rules[mode][i], fmt)
      BY <1>3, <3>2, ComputedRight
    <3>4. params'[c] # None /\ params'[c].ce_prefix = p
      BY <3>1, <3>3 DEF Right
    <3>5. Computed(c)'
      BY <1>2, <3>1, <3>4 DEF Computed, FitRules
    <3>6. InUse(c)'
      BY <1>3, <1>5, <3>4 DEF InUse, Current
    <3> QED BY <3>5, <3>6
  <2> QED BY <1>4, <2>1, <2>2
<1>8. Apart'
  <2>1. ASSUME NEW d \in CE, NEW e \in CE, d # e, lease'[d] # None, lease'[e] # None
        PROVE  ~Overlap(lease'[d], lease'[e])
    <3>1. CASE d = c
      BY <1>2, <1>5, <2>1, <3>1 DEF Overlap
    <3>2. CASE e = c
      BY <1>2, <1>5, <2>1, <3>2 DEF Overlap
    <3>3. CASE d # c /\ e # c
      BY <1>1, <1>5, <2>1, <3>3 DEF Apart
    <3> QED BY <3>1, <3>2, <3>3
  <2> QED BY <2>1 DEF Apart
<1>9. \A d \in CE : Computed(d)' /\ InUse(d)'
  BY <1>6, <1>7
<1> QED BY <1>1, <1>2, <1>4, <1>5, <1>8, <1>9 DEF IInv

\* The end of a lease keeps it.
LEMMA ExpireStep ==
    ASSUME IInv, NEW c \in CE, Expire(c)
    PROVE  IInv'
<1>1. /\ mode \in Mode /\ pool \in DOMAIN Pools[mode]
      /\ lease \in [CE -> Pools[mode][pool] \cup {None}] /\ DOMAIN params = CE
      /\ \A d \in CE : Computed(d) /\ InUse(d)
      /\ Apart
  BY DEF IInv
<1>2. /\ lease' = [lease EXCEPT ![c] = None]
      /\ mode' = mode /\ pool' = pool /\ params' = params
  BY DEF Expire
<1>3. /\ lease' \in [CE -> Pools[mode][pool] \cup {None}]
      /\ lease'[c] = None /\ \A d \in CE \ {c} : lease'[d] = lease[d]
  BY <1>1, <1>2
<1>4. ASSUME NEW d \in CE \ {c} PROVE Computed(d)' /\ InUse(d)'
  BY <1>1, <1>2, <1>3, OthersKeep
<1>5. Computed(c)' /\ InUse(c)'
  BY <1>1, <1>2, <1>3 DEF Computed, InUse, FitRules
<1>6. Apart'
  BY <1>1, <1>3 DEF Apart
<1>7. \A d \in CE : Computed(d)' /\ InUse(d)'
  BY <1>4, <1>5
<1> QED BY <1>1, <1>2, <1>3, <1>6, <1>7 DEF IInv

\* The invariant holds.
LEMMA Invariant == Spec => []IInv
<1>1. Init => IInv
  BY InitInvariant
<1>2. IInv /\ [Next]_vars => IInv'
  <2> SUFFICES ASSUME IInv, [Next]_vars PROVE IInv'
    OBVIOUS
  <2>1. ASSUME NEW c \in CE, NEW p \in Pools[mode][pool], Delegate(c, p) PROVE IInv'
    BY <2>1, DelegateStep
  <2>2. ASSUME NEW c \in CE, Expire(c) PROVE IInv'
    BY <2>2, ExpireStep
  <2>3. CASE UNCHANGED vars
    BY <2>3 DEF vars, IInv, Computed, InUse, Current, Apart, FitRules
  <2> QED BY <2>1, <2>2, <2>3 DEF Next
<1> QED BY <1>1, <1>2, PTL DEF Spec

-----------------------------------------------------------------------------
(* Theorems *)

\* What the invariant says of the parameters in force.
LEMMA InForce ==
    ASSUME IInv, NEW c \in CE, params[c] # None
    PROVE  \E i \in FitRules(mode, params[c].ce_prefix) :
              Right(params[c], params[c].ce_prefix, Rules[mode][i], format(mode))
<1>1. mode \in Mode /\ pool \in DOMAIN Pools[mode] /\ Computed(c)
  BY DEF IInv
<1>2. params[c].ce_prefix \in Prefix
  BY <1>1, PoolType DEF Computed
<1>3. PICK i \in FitRules(mode, params[c].ce_prefix) :
         params[c] = compute_mape_params(params[c].ce_prefix, Rules[mode][i], format(mode))
  BY <1>1 DEF Computed
<1>4. Rules[mode][i] \in Rule /\ Fits(Rules[mode][i], params[c].ce_prefix)
  BY <1>1, RuleAt DEF FitRules
<1> DEFINE p == params[c].ce_prefix
           r == Rules[mode][i]
<1> HIDE DEF p
<1>5. p \in Prefix /\ r \in Rule /\ Fits(r, p)
  BY <1>2, <1>4 DEF p
<1>6. \A fmt : Right(compute_mape_params(p, r, fmt), p, r, fmt)
  BY <1>5, ComputedRight
<1>7. Right(compute_mape_params(p, r, format(mode)), p, r, format(mode))
  BY <1>6
<1>8. Right(params[c], params[c].ce_prefix, r, format(mode))
  BY <1>3, <1>7 DEF p
<1> QED BY <1>8

\* Leases are delegated prefixes, and the parameters are of the type of MapeParams: a
\* full IPv4 and a full IPv6 address, and a PSID as long as the rule says.
THEOREM TypeCorrect == Spec => []TypeOK
<1>1. IInv => TypeOK
  <2> SUFFICES ASSUME IInv PROVE TypeOK
    OBVIOUS
  <2>1. ASSUME NEW c \in CE PROVE lease[c] \in Pools[mode][pool] \cup {None}
    BY DEF IInv
  <2>2. ASSUME NEW c \in CE, params[c] # None
        PROVE  /\ params[c] \in MapeParams
               /\ Len(params[c].psid) = params[c].rule.length
               /\ params[c].ce_prefix \in Pools[mode][pool]
    <3>1. params[c].ce_prefix \in Pools[mode][pool]
      BY <2>2 DEF IInv, Computed
    <3>2. PICK i \in FitRules(mode, params[c].ce_prefix) :
             Right(params[c], params[c].ce_prefix, Rules[mode][i], format(mode))
      BY <2>2, InForce
    <3> QED BY <3>1, <3>2 DEF Right
  <2> QED BY <2>1, <2>2 DEF TypeOK, IInv
<1> QED BY <1>1, Invariant, PTL

\* A CE whose prefix some rule fits uses it, whatever it used before.
THEOREM LeaseFollowed == Spec => []FollowsLease
<1>1. IInv => FollowsLease
  <2> SUFFICES ASSUME IInv, NEW c \in CE, lease[c] # None, ~Current(c),
                      NEW i \in DOMAIN Rules[mode],
                      contains(Rules[mode][i].ipv6_prefix, lease[c]),
                      Len(lease[c]) = Len(Rules[mode][i].ipv6_prefix) + Rules[mode][i].ea_length
               PROVE  FALSE
    BY DEF FollowsLease
  <2>1. i \in FitRules(mode, lease[c])
    BY DEF FitRules, Fits
  <2>2. InUse(c)
    BY DEF IInv
  <2> QED BY <2>1, <2>2 DEF InUse
<1> QED BY <1>1, Invariant, PTL

\* Two CEs whose parameters come from the prefixes they hold never share an IPv4
\* address and a PSID: what the EA bits leave out of one they put into the other.
THEOREM OneUser == Spec => []OneUserPerPortSet
<1>1. IInv => OneUserPerPortSet
  <2> SUFFICES ASSUME IInv, NEW c \in CE, NEW d \in CE, c # d, Current(c), Current(d),
                      params[c].ipv4 = params[d].ipv4
               PROVE  params[c].rule = params[d].rule /\ params[c].psid # params[d].psid
    BY DEF OneUserPerPortSet
  <2> DEFINE p == lease[c]
             q == lease[d]
             ipv4 == params[c].ipv4
  <2>1. /\ mode \in Mode /\ pool \in DOMAIN Pools[mode] /\ Apart
        /\ p \in Pools[mode][pool] /\ q \in Pools[mode][pool]
        /\ params[c] # None /\ params[c].ce_prefix = p
        /\ params[d] # None /\ params[d].ce_prefix = q
    BY DEF IInv, Current
  <2>2. p \in Seq(Bit) /\ q \in Seq(Bit) /\ p # None /\ q # None
    BY <2>1, PoolType
  <2>3. PICK i \in FitRules(mode, p) : Right(params[c], p, Rules[mode][i], format(mode))
    BY <2>1, InForce
  <2>4. PICK j \in FitRules(mode, q) : Right(params[d], q, Rules[mode][j], format(mode))
    BY <2>1, InForce
  <2>5. /\ i \in DOMAIN Rules[mode] /\ Rules[mode][i] \in Rule
        /\ j \in DOMAIN Rules[mode] /\ Rules[mode][j] \in Rule
    BY <2>1, RuleAt DEF FitRules
  <2>6. ipv4 \in Seq(Bit)
    <3>1. params[c] \in MapeParams
      BY <2>3 DEF Right
    <3>2. ipv4 \in [1..32 -> Bit] /\ 32 \in Nat
      BY <3>1 DEF MapeParams
    <3> QED BY <3>2, Word
  <2>7. i = j
    <3>1. contains(Rules[mode][i].ipv4_prefix, ipv4) /\ contains(Rules[mode][j].ipv4_prefix, ipv4)
      BY <2>3, <2>4 DEF Right
    <3>2. Overlap(Rules[mode][i].ipv4_prefix, Rules[mode][j].ipv4_prefix)
      BY <2>5, <2>6, <3>1, RuleType, PrefixesOverlap
    <3> QED BY <2>1, <2>5, <3>2, RelayConstants
  <2>8. params[c].rule = params[d].rule
    BY <2>3, <2>4, <2>7 DEF Right
  <2>9. params[c].psid # params[d].psid
    <3> SUFFICES ASSUME params[c].psid = params[d].psid PROVE FALSE
      OBVIOUS
    <3>1. p = q
      BY <2>3, <2>4, <2>7 DEF Right
    <3>2. Overlap(p, q)
      BY <3>1 DEF Overlap
    <3> QED BY <2>1, <2>2, <3>2 DEF Apart
  <2> QED BY <2>8, <2>9
<1> QED BY <1>1, Invariant, PTL

-----------------------------------------------------------------------------
(* Words as numbers *)

\* Eight bits of a word, eight zeros, and the same eight bits in two words.
IsOctet(w, i) == \A n \in 1..8 : w[i + n] \in Bit
NoOctet(w, i) == \A n \in 1..8 : w[i + n] = 0
SameOctet(w, i, v, j) == \A n \in 1..8 : w[i + n] = v[j + n]

\* An octet is made of eight bits.
LEMMA OctetEqual ==
    ASSUME NEW w, NEW i, NEW v, NEW j, SameOctet(w, i, v, j)
    PROVE  Octet(w, i) = Octet(v, j)
BY DEF Octet, SameOctet

\* Eight zeros are the octet zero.
LEMMA OctetZero ==
    ASSUME NEW w, NEW i, NoOctet(w, i)
    PROVE  Octet(w, i) = 0
<1>2. /\ w[i + 1] = 0 /\ w[i + 2] = 0 /\ w[i + 3] = 0 /\ w[i + 4] = 0
      /\ w[i + 5] = 0 /\ w[i + 6] = 0 /\ w[i + 7] = 0 /\ w[i + 8] = 0
  BY DEF NoOctet
<1> QED BY <1>2 DEF Octet

\* Eight bits can be told from their octet.
LEMMA OctetInjective ==
    ASSUME NEW w, NEW i, IsOctet(w, i), NEW v, NEW j, IsOctet(v, j)
    PROVE  /\ Octet(w, i) \in Nat /\ Octet(w, i) <= 255
           /\ Octet(w, i) = Octet(v, j) => SameOctet(w, i, v, j)
<1> DEFINE a == w[i + 1]  b == w[i + 2]  c == w[i + 3]  d == w[i + 4]
           e == w[i + 5]  f == w[i + 6]  g == w[i + 7]  h == w[i + 8]
           a1 == v[j + 1]  b1 == v[j + 2]  c1 == v[j + 3]  d1 == v[j + 4]
           e1 == v[j + 5]  f1 == v[j + 6]  g1 == v[j + 7]  h1 == v[j + 8]
           x == Octet(w, i)
           y == Octet(v, j)
<1>1. /\ a \in Bit /\ b \in Bit /\ c \in Bit /\ d \in Bit
      /\ e \in Bit /\ f \in Bit /\ g \in Bit /\ h \in Bit
      /\ a1 \in Bit /\ b1 \in Bit /\ c1 \in Bit /\ d1 \in Bit
      /\ e1 \in Bit /\ f1 \in Bit /\ g1 \in Bit /\ h1 \in Bit
  BY DEF IsOctet
<1>2. /\ x = 128 * a + 64 * b + 32 * c + 16 * d + 8 * e + 4 * f + 2 * g + h
      /\ y = 128 * a1 + 64 * b1 + 32 * c1 + 16 * d1 + 8 * e1 + 4 * f1 + 2 * g1 + h1
  BY DEF Octet
<1> HIDE DEF a, b, c, d, e, f, g, h, a1, b1, c1, d1, e1, f1, g1, h1, x, y
<1>3. /\ a \in Nat /\ b \in Nat /\ c \in Nat /\ d \in Nat
      /\ e \in Nat /\ f \in Nat /\ g \in Nat /\ h \in Nat
      /\ a <= 1 /\ b <= 1 /\ c <= 1 /\ d <= 1 /\ e <= 1 /\ f <= 1 /\ g <= 1 /\ h <= 1
  BY <1>1 DEF Bit
<1>t. /\ a1 \in Nat /\ b1 \in Nat /\ c1 \in Nat /\ d1 \in Nat
      /\ e1 \in Nat /\ f1 \in Nat /\ g1 \in Nat /\ h1 \in Nat
      /\ a1 <= 1 /\ b1 <= 1 /\ c1 <= 1 /\ d1 <= 1 /\ e1 <= 1 /\ f1 <= 1 /\ g1 <= 1 /\ h1 <= 1
  BY <1>1 DEF Bit
<1>4. x \in Nat /\ x <= 255
  BY <1>2, <1>3
<1>5. ASSUME x = y
      PROVE  a = a1 /\ b = b1 /\ c = c1 /\ d = d1 /\ e = e1 /\ f = f1 /\ g = g1 /\ h = h1
  <2>1. a = a1
    BY <1>2, <1>3, <1>t, <1>5
  <2>2. b = b1
    BY <1>2, <1>3, <1>t, <1>5, <2>1
  <2>3. c = c1
    BY <1>2, <1>3, <1>t, <1>5, <2>1, <2>2
  <2>4. d = d1
    BY <1>2, <1>3, <1>t, <1>5, <2>1, <2>2, <2>3
  <2>5. e = e1 /\ f = f1 /\ g = g1 /\ h = h1
    BY <1>2, <1>3, <1>t, <1>5, <2>1, <2>2, <2>3, <2>4
  <2> QED BY <2>1, <2>2, <2>3, <2>4, <2>5
<1>6. ASSUME x = y, NEW n \in 1..8 PROVE w[i + n] = v[j + n]
  <2>1. n = 1 \/ n = 2 \/ n = 3 \/ n = 4 \/ n = 5 \/ n = 6 \/ n = 7 \/ n = 8
    OBVIOUS
  <2> QED BY <1>5, <1>6, <2>1
          DEF a, b, c, d, e, f, g, h, a1, b1, c1, d1, e1, f1, g1, h1
<1> QED BY <1>4, <1>6 DEF x, y, SameOctet

\* An octet is at most 255.
LEMMA OctetType ==
    ASSUME NEW w, NEW i, IsOctet(w, i)
    PROVE  Octet(w, i) \in Nat /\ Octet(w, i) <= 255
BY OctetInjective

\* The hextet of c after its first j bits.
Hextet(c, j) == 256 * Octet(c, j) + Octet(c, j + 8)

\* The number that sixteen bits of a word stand for.
LEMMA HextetIs ==
    ASSUME NEW c \in Seq(Bit), NEW j \in Nat, j + 16 <= Len(c)
    PROVE  ToNum(SubSeq(c, j + 1, j + 16)) = Hextet(c, j)
<1> DEFINE W == 16
           s == SubSeq(c, j + 1, j + W)
           f == Fit(s, W)
<1>1. W \in Nat /\ j + W \in Nat /\ j <= j + W /\ j + W <= Len(c) /\ (j + W) - j = W
  OBVIOUS
<1>a. W = 16
  OBVIOUS
<1> HIDE DEF W
<1>2. s \in Seq(Bit) /\ Len(s) = (j + W) - j /\ \A n \in 1 .. (j + W) - j : s[n] = c[j + n]
  BY <1>1, RestIs
<1> HIDE DEF s
<1>3. f \in Seq(Bit) /\ \A n \in 1..W : f[n] = IF Len(s) + n <= W THEN 0 ELSE s[Len(s) + n - W]
  BY <1>1, <1>2, FitIs
<1> HIDE DEF f
<1>4. ASSUME NEW n \in 1..W PROVE f[n] = c[j + n]
  <2>1. Len(s) = W /\ ~(W + n <= W) /\ W + n - W = n
    BY <1>1, <1>2
  <2>2. f[n] = s[n]
    BY <1>3, <2>1
  <2> QED BY <1>1, <1>2, <2>2
<1>5. ASSUME NEW n \in 1..8 PROVE f[0 + n] = c[j + n] /\ f[8 + n] = c[(j + 8) + n]
  <2>1. n \in 1..W /\ 8 + n \in 1..W /\ 0 + n = n /\ (j + 8) + n = j + (8 + n)
    BY <1>a
  <2> QED BY <1>4, <2>1
<1>7. Octet(f, 0) = Octet(c, j)
  <2>1. SameOctet(f, 0, c, j)
    BY <1>5 DEF SameOctet
  <2> QED BY <2>1, OctetEqual
<1>8. Octet(f, 8) = Octet(c, j + 8)
  <2>1. SameOctet(f, 8, c, j + 8)
    BY <1>5 DEF SameOctet
  <2> QED BY <2>1, OctetEqual
<1> QED BY <1>7, <1>8, <1>a DEF ToNum, Hextet, f, s

\* The number that eight bits of a word stand for.
LEMMA OctetIs ==
    ASSUME NEW c \in Seq(Bit), NEW j \in Nat, j + 8 <= Len(c)
    PROVE  ToNum(SubSeq(c, j + 1, j + 8)) = Octet(c, j)
<1> DEFINE V == 8
           W == 16
           s == SubSeq(c, j + 1, j + V)
           f == Fit(s, W)
<1>1. V \in Nat /\ j + V \in Nat /\ j <= j + V /\ j + V <= Len(c) /\ (j + V) - j = V
      /\ W \in Nat
  OBVIOUS
<1>a. V = 8 /\ W = 16
  OBVIOUS
<1> HIDE DEF V, W
<1>2. s \in Seq(Bit) /\ Len(s) = (j + V) - j /\ \A n \in 1 .. (j + V) - j : s[n] = c[j + n]
  BY <1>1, RestIs
<1> HIDE DEF s
<1>3. f \in Seq(Bit) /\ \A n \in 1..W : f[n] = IF Len(s) + n <= W THEN 0 ELSE s[Len(s) + n - W]
  BY <1>1, <1>2, FitIs
<1> HIDE DEF f
<1>4. ASSUME NEW n \in 1..8 PROVE f[0 + n] = 0 /\ f[8 + n] = c[j + n]
  <2>1. Len(s) = V /\ n \in 1..V /\ n \in 1..W /\ V + n \in 1..W /\ 0 + n = n
        /\ V + n <= W /\ ~(V + (V + n) <= W) /\ V + (V + n) - W = n
    BY <1>1, <1>2, <1>a
  <2>2. f[n] = 0
    BY <1>3, <2>1
  <2>3. f[V + n] = s[n]
    BY <1>3, <2>1
  <2>4. s[n] = c[j + n]
    BY <1>1, <1>2, <2>1
  <2> QED BY <1>a, <2>1, <2>2, <2>3, <2>4
<1>6. Octet(f, 0) = 0
  <2>1. NoOctet(f, 0)
    BY <1>4 DEF NoOctet
  <2> QED BY <2>1, OctetZero
<1>9. Octet(f, 8) = Octet(c, j)
  <2>1. SameOctet(f, 8, c, j)
    BY <1>4 DEF SameOctet
  <2> QED BY <2>1, OctetEqual
<1>7. Octet(c, j) \in Nat
  <2>1. \A n \in 1..8 : c[j + n] \in Bit
    <3>1. \A n \in 1..8 : j + n \in 1 .. Len(c)
      OBVIOUS
    <3> QED BY <3>1, SeqWord
  <2>2. IsOctet(c, j)
    BY <2>1 DEF IsOctet
  <2> QED BY <2>2, OctetType
<1>8. ToNum(s) = 256 * 0 + Octet(c, j)
  BY <1>6, <1>9, <1>a DEF ToNum, f
<1> QED BY <1>7, <1>8, <1>a DEF s

\* The hextets of a word.
LEMMA HextetsIs ==
    ASSUME NEW n \in Nat, NEW b \in Seq(Bit), Len(b) = 16 * n
    PROVE  /\ Hextets(b) = [i \in 1..n |-> Hextet(b, 16 * i - 16)]
           /\ \A i \in 1..n : Hextet(b, 16 * i - 16) \in Nat
           /\ Hextets(b) \in Seq(Nat) /\ Len(Hextets(b)) = n
<1>1. Len(b) \div 16 = n
  OBVIOUS
<1>2. ASSUME NEW i \in 1..n
      PROVE  /\ ToNum(SubSeq(b, 16 * i - 15, 16 * i)) = Hextet(b, 16 * i - 16)
             /\ Hextet(b, 16 * i - 16) \in Nat
  <2> DEFINE j == 16 * i - 16
  <2>1. j \in Nat /\ j + 16 <= Len(b) /\ j + 1 = 16 * i - 15 /\ j + 16 = 16 * i
        /\ \A k \in 1..8 : j + k \in 1 .. Len(b) /\ (j + 8) + k \in 1 .. Len(b)
        /\ j + 8 \in Nat
    OBVIOUS
  <2> HIDE DEF j
  <2>2. ToNum(SubSeq(b, j + 1, j + 16)) = Hextet(b, j)
    BY <2>1, HextetIs
  <2>3. \A k \in 1 .. Len(b) : b[k] \in Bit
    OBVIOUS
  <2>4. Octet(b, j) \in Nat
    <3>1. IsOctet(b, j)
      BY <2>1, <2>3 DEF IsOctet
    <3> QED BY <3>1, OctetType
  <2>5. Octet(b, j + 8) \in Nat
    <3>1. IsOctet(b, j + 8)
      BY <2>1, <2>3 DEF IsOctet
    <3> QED BY <3>1, OctetType
  <2>6. Hextet(b, j) \in Nat
    BY <2>4, <2>5 DEF Hextet
  <2> QED BY <2>1, <2>2, <2>6 DEF j
<1>3. Hextets(b) = [i \in 1..n |-> Hextet(b, 16 * i - 16)]
  BY <1>1, <1>2 DEF Hextets
<1>4. [i \in 1..n |-> Hextet(b, 16 * i - 16)] \in [1..n -> Nat]
  BY <1>2
<1>5. \A f \in [1..n -> Nat] : f \in Seq(Nat) /\ Len(f) = n
  OBVIOUS
<1> QED BY <1>2, <1>3, <1>4, <1>5

\* Addresses with the same hextets are the same.
LEMMA HextetsInjective ==
    ASSUME NEW n \in Nat, NEW b \in Seq(Bit), Len(b) = 16 * n,
           NEW c \in Seq(Bit), Len(c) = 16 * n, Hextets(b) = Hextets(c)
    PROVE  b = c
<1>1. ASSUME NEW i \in 1..n PROVE Hextet(b, 16 * i - 16) = Hextet(c, 16 * i - 16)
  <2>1. Hextets(b) = [h \in 1..n |-> Hextet(b, 16 * h - 16)]
    BY HextetsIs
  <2>2. Hextets(c) = [h \in 1..n |-> Hextet(c, 16 * h - 16)]
    BY HextetsIs
  <2>3. Hextets(b)[i] = Hextets(c)[i]
    OBVIOUS
  <2> QED BY <2>1, <2>2, <2>3
<1>2. ASSUME NEW j \in Nat, j + 16 <= Len(b), Hextet(b, j) = Hextet(c, j), NEW t \in 1..16
      PROVE  b[j + t] = c[j + t]
  <2> DEFINE l == j + 8
  <2>1. l \in Nat /\ \A k \in 1..8 : j + k \in 1 .. Len(b) /\ l + k \in 1 .. Len(b)
    BY <1>2
  <2>2. l = j + 8
    OBVIOUS
  <2> HIDE DEF l
  <2>3. IsOctet(b, j) /\ IsOctet(c, j)
    BY <2>1 DEF IsOctet
  <2>4. IsOctet(b, l) /\ IsOctet(c, l)
    BY <2>1 DEF IsOctet
  <2>5. /\ Octet(b, j) \in Nat /\ Octet(b, j) <= 255
        /\ Octet(c, j) \in Nat /\ Octet(c, j) <= 255
        /\ Octet(b, l) \in Nat /\ Octet(b, l) <= 255
        /\ Octet(c, l) \in Nat /\ Octet(c, l) <= 255
    BY <2>3, <2>4, OctetType
  <2>9. 256 * Octet(b, j) + Octet(b, l) = 256 * Octet(c, j) + Octet(c, l)
    BY <1>2, <2>2 DEF Hextet
  <2>10. Octet(b, j) = Octet(c, j) /\ Octet(b, l) = Octet(c, l)
    BY <2>5, <2>9
  <2>6. SameOctet(b, j, c, j) /\ SameOctet(b, l, c, l)
    BY <2>3, <2>4, <2>10, OctetInjective
  <2>11. CASE t <= 8
    <3>1. t \in 1..8
      BY <2>11
    <3> QED BY <2>6, <3>1 DEF SameOctet
  <2>12. CASE t > 8
    <3>1. t - 8 \in 1..8 /\ l + (t - 8) = j + t
      BY <2>2, <2>12
    <3> QED BY <2>6, <3>1 DEF SameOctet
  <2> QED BY <2>11, <2>12
<1>3. ASSUME NEW m \in 1 .. Len(b) PROVE b[m] = c[m]
  <2> DEFINE i == (m - 1) \div 16 + 1
             j == 16 * i - 16
             t == ((m - 1) % 16) + 1
  <2>1. i \in 1..n /\ j \in Nat /\ j + 16 <= Len(b) /\ t \in 1..16 /\ j + t = m
    OBVIOUS
  <2> HIDE DEF i, t
  <2>2. Hextet(b, j) = Hextet(c, j)
    BY <1>1, <2>1
  <2> HIDE DEF j
  <2>3. b[j + t] = c[j + t]
    BY <1>2, <2>1, <2>2
  <2> QED BY <2>1, <2>3
<1> QED BY <1>3, SeqEqual

\* The hextets of two words put together.
LEMMA HextetsConcat ==
    ASSUME NEW m \in Nat, NEW n \in Nat, NEW q \in Seq(Bit), Len(q) = 16 * m,
           NEW e \in Seq(Bit), Len(e) = 16 * n
    PROVE  Hextets(q \o e) = Hextets(q) \o Hextets(e)
<1> DEFINE g == q \o e
           k == m + n
           f == Hextets(q) \o Hextets(e)
<1>1. /\ g \in Seq(Bit) /\ Len(g) = Len(q) + Len(e)
      /\ \A i \in 1 .. Len(q) : g[i] = q[i]
      /\ \A i \in 1 .. Len(e) : g[Len(q) + i] = e[i]
  BY ConcatIs
<1> HIDE DEF g
<1>2. k \in Nat /\ Len(g) = 16 * k /\ k = m + n
  BY <1>1
<1> HIDE DEF k
<1>3. /\ Hextets(g) = [i \in 1..k |-> Hextet(g, 16 * i - 16)]
      /\ Hextets(g) \in Seq(Nat) /\ Len(Hextets(g)) = k
  BY <1>1, <1>2, HextetsIs
<1>4. /\ Hextets(q) = [i \in 1..m |-> Hextet(q, 16 * i - 16)]
      /\ Hextets(q) \in Seq(Nat) /\ Len(Hextets(q)) = m
  BY HextetsIs
<1>5. /\ Hextets(e) = [i \in 1..n |-> Hextet(e, 16 * i - 16)]
      /\ Hextets(e) \in Seq(Nat) /\ Len(Hextets(e)) = n
  BY HextetsIs
<1>6. /\ f \in Seq(Nat) /\ Len(f) = m + n
      /\ \A i \in 1 .. m + n : f[i] = IF i <= m THEN Hextets(q)[i] ELSE Hextets(e)[i - m]
  BY <1>4, <1>5, ConcatProperties
<1> HIDE DEF f
<1>7. ASSUME NEW i \in 1..m PROVE Hextet(g, 16 * i - 16) = Hextet(q, 16 * i - 16)
  <2> DEFINE j == 16 * i - 16
             l == j + 8
  <2>1. j \in Nat /\ l \in Nat /\ \A h \in 1..8 : j + h \in 1 .. Len(q) /\ l + h \in 1 .. Len(q)
    OBVIOUS
  <2>2. l = j + 8
    OBVIOUS
  <2> HIDE DEF j, l
  <2>3. SameOctet(g, j, q, j) /\ SameOctet(g, l, q, l)
    BY <1>1, <2>1 DEF SameOctet
  <2>5. Octet(g, j) = Octet(q, j) /\ Octet(g, l) = Octet(q, l)
    BY <2>3, OctetEqual
  <2> QED BY <2>2, <2>5 DEF Hextet, j
<1>8. ASSUME NEW i \in 1..n PROVE Hextet(g, 16 * (m + i) - 16) = Hextet(e, 16 * i - 16)
  <2> DEFINE j == 16 * i - 16
             l == j + 8
             x == 16 * (m + i) - 16
             y == x + 8
  <2>1. /\ j \in Nat /\ l \in Nat /\ x \in Nat /\ y \in Nat
        /\ \A h \in 1..8 : /\ j + h \in 1 .. Len(e) /\ Len(q) + (j + h) = x + h
                           /\ l + h \in 1 .. Len(e) /\ Len(q) + (l + h) = y + h
    OBVIOUS
  <2>2. l = j + 8 /\ y = x + 8
    OBVIOUS
  <2> HIDE DEF j, l, x, y
  <2>3. SameOctet(g, x, e, j) /\ SameOctet(g, y, e, l)
    BY <1>1, <2>1 DEF SameOctet
  <2>5. Octet(g, x) = Octet(e, j) /\ Octet(g, y) = Octet(e, l)
    BY <2>3, OctetEqual
  <2> QED BY <2>2, <2>5 DEF Hextet, j, x
<1>9. ASSUME NEW i \in 1..k PROVE Hextets(g)[i] = f[i]
  <2>1. CASE i <= m
    <3>1. i \in 1..m /\ i \in 1 .. m + n
      BY <1>2, <2>1
    <3> QED BY <1>3, <1>4, <1>6, <1>7, <2>1, <3>1
  <2>2. CASE i > m
    <3>1. i - m \in 1..n /\ m + (i - m) = i /\ i \in 1 .. m + n /\ ~(i <= m)
      BY <1>2, <2>2
    <3>2. Hextets(g)[i] = Hextet(g, 16 * (m + (i - m)) - 16)
      BY <1>3, <3>1
    <3>3. f[i] = Hextet(e, 16 * (i - m) - 16)
      BY <1>5, <1>6, <3>1
    <3> QED BY <1>8, <3>1, <3>2, <3>3
  <2> QED BY <2>1, <2>2
<1>10. Hextets(g) = f
  BY <1>2, <1>3, <1>6, <1>9, SeqEqual
<1> QED BY <1>10 DEF f, g

-----------------------------------------------------------------------------
(* Interface identifiers *)

\* The bits of a CE's interface identifier in the layout of RFC 7597.
LEMMA RfcBits ==
    ASSUME NEW d, d.ipv4 \in Seq(Bit), Len(d.ipv4) = 32,
           d.psid \in Seq(Bit), Len(d.psid) <= 16
    PROVE  /\ \A i \in 1..16 : interface_id(d, "Rfc7597")[i] = 0
           /\ \A i \in 1..32 : interface_id(d, "Rfc7597")[16 + i] = d.ipv4[i]
           /\ \A i \in 1..16 : interface_id(d, "Rfc7597")[48 + i]
                                  = IF i <= Len(d.psid) THEN d.psid[i] ELSE 0
<1> DEFINE ipv4 == d.ipv4
           psid == d.psid
           k == Len(psid)
           z == Zeros(16)
           x == Zeros(16 - k)
           a == z \o ipv4
           b == a \o psid
           g == b \o x
<1>1. k \in Nat /\ k <= 16 /\ 16 - k \in Nat /\ 16 \in Nat
  OBVIOUS
<1>2. /\ z \in Seq(Bit) /\ Len(z) = 16 /\ \A i \in 1..16 : z[i] = 0
      /\ x \in Seq(Bit) /\ Len(x) = 16 - k /\ \A i \in 1 .. 16 - k : x[i] = 0
  BY <1>1, ZerosIs
<1>3. interface_id(d, "Rfc7597") = g
  BY DEF interface_id
<1>4. ipv4 \in Seq(Bit) /\ Len(ipv4) = 32 /\ psid \in Seq(Bit) /\ Len(psid) = k
  OBVIOUS
<1> HIDE DEF z, x, ipv4, psid, k
<1>5. /\ a \in Seq(Bit) /\ Len(a) = Len(z) + Len(ipv4)
      /\ \A i \in 1 .. Len(z) : a[i] = z[i]
      /\ \A i \in 1 .. Len(ipv4) : a[Len(z) + i] = ipv4[i]
  <2>1. z \in Seq(Bit) /\ ipv4 \in Seq(Bit)
    BY <1>2, <1>4
  <2> QED BY <2>1, ConcatIs
<1> HIDE DEF a
<1>6. /\ b \in Seq(Bit) /\ Len(b) = Len(a) + Len(psid)
      /\ \A i \in 1 .. Len(a) : b[i] = a[i]
      /\ \A i \in 1 .. Len(psid) : b[Len(a) + i] = psid[i]
  <2>1. a \in Seq(Bit) /\ psid \in Seq(Bit)
    BY <1>4, <1>5
  <2> QED BY <2>1, ConcatIs
<1> HIDE DEF b
<1>7. /\ g \in Seq(Bit) /\ Len(g) = Len(b) + Len(x)
      /\ \A i \in 1 .. Len(b) : g[i] = b[i]
      /\ \A i \in 1 .. Len(x) : g[Len(b) + i] = x[i]
  <2>1. b \in Seq(Bit) /\ x \in Seq(Bit)
    BY <1>2, <1>6
  <2> QED BY <2>1, ConcatIs
<1> HIDE DEF g
<1>8. Len(z) = 16 /\ Len(a) = 48 /\ Len(b) = 48 + k
  BY <1>1, <1>2, <1>4, <1>5, <1>6
<1>9. ASSUME NEW i \in 1..16 PROVE g[i] = 0
  <2>1. i \in 1 .. Len(z)
    BY <1>8
  <2>2. i \in 1 .. Len(a)
    BY <1>8
  <2>3. i \in 1 .. Len(b)
    BY <1>1, <1>8
  <2>4. z[i] = 0
    BY <1>2
  <2>5. a[i] = 0
    BY <1>5, <2>1, <2>4
  <2>6. b[i] = 0
    BY <1>6, <2>2, <2>5
  <2> QED BY <1>7, <2>3, <2>6
<1>10. ASSUME NEW i \in 1..32 PROVE g[16 + i] = ipv4[i]
  <2>1. i \in 1 .. Len(ipv4) /\ 16 + i \in 1 .. Len(a) /\ 16 + i \in 1 .. Len(b)
    BY <1>1, <1>4, <1>8
  <2>2. a[16 + i] = ipv4[i]
    BY <1>5, <1>8, <2>1
  <2> QED BY <1>6, <1>7, <2>1, <2>2
<1>11. ASSUME NEW i \in 1..16 PROVE g[48 + i] = IF i <= k THEN psid[i] ELSE 0
  <2>1. CASE i <= k
    <3>1. i \in 1 .. Len(psid) /\ 48 + i \in 1 .. Len(b)
      BY <1>1, <1>4, <1>8, <2>1
    <3>2. b[48 + i] = psid[i]
      BY <1>6, <1>8, <3>1
    <3> QED BY <1>7, <2>1, <3>1, <3>2
  <2>2. CASE i > k
    <3>1. i - k \in 1 .. Len(x) /\ i - k \in 1 .. 16 - k /\ Len(b) + (i - k) = 48 + i /\ ~(i <= k)
      BY <1>1, <1>2, <1>8, <2>2
    <3>2. g[Len(b) + (i - k)] = x[i - k]
      BY <1>7, <3>1
    <3>3. x[i - k] = 0
      BY <1>2, <3>1
    <3> QED BY <3>1, <3>2, <3>3
  <2> QED BY <1>1, <2>1, <2>2
<1> QED BY <1>3, <1>9, <1>10, <1>11 DEF ipv4, psid, k

\* The bits of a CE's interface identifier in the layout of the static table.
LEMMA TableBits ==
    ASSUME NEW d, d.ipv4 \in Seq(Bit), Len(d.ipv4) = 32,
           d.psid \in Seq(Bit), Len(d.psid) <= 16
    PROVE  /\ \A i \in 1..8 : interface_id(d, "V6Plus")[i] = 0
           /\ \A i \in 1..32 : interface_id(d, "V6Plus")[8 + i] = d.ipv4[i]
           /\ \A i \in 1..16 : interface_id(d, "V6Plus")[40 + i] = Fit(d.psid, 16)[i]
           /\ \A i \in 1..8 : interface_id(d, "V6Plus")[56 + i] = 0
<1> DEFINE ipv4 == d.ipv4
           psid == d.psid
           k == Len(psid)
           z == Zeros(8)
           y == psid \o z
           f == Fit(y, 24)
           e == Fit(psid, 16)
           a == z \o ipv4
           g == a \o f
<1>1. k \in Nat /\ k <= 16 /\ 8 \in Nat /\ 16 \in Nat /\ 24 \in Nat
  OBVIOUS
<1>2. z \in Seq(Bit) /\ Len(z) = 8 /\ \A i \in 1..8 : z[i] = 0
  BY <1>1, ZerosIs
<1>3. interface_id(d, "V6Plus") = g
  BY DEF interface_id
<1>4. ipv4 \in Seq(Bit) /\ Len(ipv4) = 32 /\ psid \in Seq(Bit) /\ Len(psid) = k
  OBVIOUS
<1> HIDE DEF z, ipv4, psid, k
<1>5. /\ a \in Seq(Bit) /\ Len(a) = Len(z) + Len(ipv4)
      /\ \A i \in 1 .. Len(z) : a[i] = z[i]
      /\ \A i \in 1 .. Len(ipv4) : a[Len(z) + i] = ipv4[i]
  <2>1. z \in Seq(Bit) /\ ipv4 \in Seq(Bit)
    BY <1>2, <1>4
  <2> QED BY <2>1, ConcatIs
<1>6. /\ y \in Seq(Bit) /\ Len(y) = Len(psid) + Len(z)
      /\ \A i \in 1 .. Len(psid) : y[i] = psid[i]
      /\ \A i \in 1 .. Len(z) : y[Len(psid) + i] = z[i]
  <2>1. psid \in Seq(Bit) /\ z \in Seq(Bit)
    BY <1>2, <1>4
  <2> QED BY <2>1, ConcatIs
<1> HIDE DEF a, y
<1>7. /\ f \in Seq(Bit) /\ Len(f) = 24
      /\ \A i \in 1..24 : f[i] = IF Len(y) + i <= 24 THEN 0 ELSE y[Len(y) + i - 24]
  <2>1. y \in Seq(Bit) /\ 24 \in Nat
    BY <1>6
  <2> QED BY <2>1, FitIs
<1>8. \A i \in 1..16 : e[i] = IF Len(psid) + i <= 16 THEN 0 ELSE psid[Len(psid) + i - 16]
  <2>1. psid \in Seq(Bit) /\ 16 \in Nat
    BY <1>4
  <2> QED BY <2>1, FitIs
<1> HIDE DEF f, e
<1>9. /\ g \in Seq(Bit) /\ Len(g) = Len(a) + Len(f)
      /\ \A i \in 1 .. Len(a) : g[i] = a[i]
      /\ \A i \in 1 .. Len(f) : g[Len(a) + i] = f[i]
  <2>1. a \in Seq(Bit) /\ f \in Seq(Bit)
    BY <1>5, <1>7
  <2> QED BY <2>1, ConcatIs
<1> HIDE DEF g
<1>10. Len(z) = 8 /\ Len(a) = 40 /\ Len(y) = k + 8
  BY <1>1, <1>2, <1>4, <1>5, <1>6
<1>11. ASSUME NEW i \in 1..8 PROVE g[i] = 0
  <2>1. i \in 1 .. Len(z) /\ i \in 1 .. Len(a)
    BY <1>10
  <2> QED BY <1>2, <1>5, <1>9, <2>1
<1>12. ASSUME NEW i \in 1..32 PROVE g[8 + i] = ipv4[i]
  <2>1. i \in 1 .. Len(ipv4) /\ 8 + i \in 1 .. Len(a)
    BY <1>4, <1>10
  <2>2. a[8 + i] = ipv4[i]
    BY <1>5, <1>10, <2>1
  <2> QED BY <1>9, <2>1, <2>2
<1>13. ASSUME NEW i \in 1..16 PROVE g[40 + i] = e[i]
  <2>1. i \in 1 .. Len(f) /\ i \in 1..24
    BY <1>7
  <2>2. g[40 + i] = f[i]
    BY <1>9, <1>10, <2>1
  <2>3. f[i] = IF k + 8 + i <= 24 THEN 0 ELSE y[k + 8 + i - 24]
    BY <1>7, <1>10, <2>1
  <2>4. e[i] = IF k + i <= 16 THEN 0 ELSE psid[k + i - 16]
    BY <1>4, <1>8
  <2>5. CASE k + i <= 16
    BY <1>1, <2>2, <2>3, <2>4, <2>5
  <2>6. CASE k + i > 16
    <3>1. k + 8 + i - 24 = k + i - 16 /\ k + i - 16 \in 1 .. Len(psid) /\ ~(k + 8 + i <= 24)
          /\ ~(k + i <= 16)
      BY <1>1, <1>4, <2>6
    <3>2. y[k + i - 16] = psid[k + i - 16]
      BY <1>6, <3>1
    <3> QED BY <2>2, <2>3, <2>4, <3>1, <3>2
  <2> QED BY <1>1, <2>5, <2>6
<1>14. ASSUME NEW i \in 1..8 PROVE g[56 + i] = 0
  <2>a. 16 + i \in 1 .. Len(f) /\ 16 + i \in 1..24
    BY <1>7
  <2>1. 40 + (16 + i) = 56 + i /\ ~(k + 8 + (16 + i) <= 24) /\ k + 8 + (16 + i) - 24 = k + i
    BY <1>1
  <2>2. g[40 + (16 + i)] = f[16 + i]
    BY <1>9, <1>10, <2>a
  <2>3. f[16 + i] = IF k + 8 + (16 + i) <= 24 THEN 0 ELSE y[k + 8 + (16 + i) - 24]
    BY <1>7, <1>10, <2>a
  <2>4. i \in 1 .. Len(z)
    BY <1>10
  <2>5. y[k + i] = 0
    <3>1. y[Len(psid) + i] = z[i]
      BY <1>6, <2>4
    <3>2. z[i] = 0 /\ Len(psid) = k
      BY <1>2, <1>4
    <3> QED BY <3>1, <3>2
  <2> QED BY <2>1, <2>2, <2>3, <2>5
<1> QED BY <1>3, <1>11, <1>12, <1>13, <1>14 DEF ipv4, psid, e

-----------------------------------------------------------------------------
(* PortMap's lemmas, at the width of the code *)

\* Every PSID that fits its length.
AnyParams == {p \in [offset : 0..PM!Width, length : 0..PM!Width, psid : PM!U16] :
                 p.psid < 2^p.length}

PP == INSTANCE PortMapProofs WITH ByteBits <- 8, Params <- AnyParams, LittleEndian <- FALSE,
         Flow <- CE, params <- None, cfg <- None, flows <- None, outside <- None, lands <- None

\* What PortMap assumes holds of them.
LEMMA PortConstantsHold ==
    /\ 8 \in 1..8
    /\ AnyParams \subseteq [offset : 0..PP!Width, length : 0..PP!Width, psid : PP!U16]
    /\ \A p \in AnyParams : p.psid < 2^p.length
    /\ FALSE \in BOOLEAN
    /\ None \notin PP!U16
<1>1. PP!Width = PM!Width
  BY DEF PP!Width, PM!Width
<1>2. PP!U16 = PM!U16
  BY <1>1 DEF PP!U16, PM!U16
<1>3. None \notin PP!U16
  BY MapConstants DEF PP!U16
<1> QED BY <1>1, <1>2, <1>3 DEF AnyParams

\* The next power of two.
LEMMA PowerStep ==
    ASSUME NEW n \in Nat, n < 16
    PROVE  PP!Pow(n + 1) = 2 * PP!Pow(n)
<1>1. n \in 0..15
  OBVIOUS
<1> QED BY <1>1, PortConstantsHold, PP!PowSucc

\* A power of two is positive.
LEMMA PowerType ==
    ASSUME NEW n \in Nat, n <= 16
    PROVE  PP!Pow(n) \in Int /\ PP!Pow(n) >= 1
<1>1. n \in 0..16
  OBVIOUS
<1> QED BY <1>1, PortConstantsHold, PP!PowPos

\* The product of two powers of two.
LEMMA PowerSum ==
    ASSUME NEW m \in Nat, NEW n \in Nat, m + n <= 16
    PROVE  PP!Pow(m + n) = PP!Pow(m) * PP!Pow(n)
<1>1. m \in 0..16 /\ n \in 0..16
  OBVIOUS
<1> QED BY <1>1, PortConstantsHold, PP!PowAdd

\* Staging ports come back, and leave as ports of the PSID.
LEMMA Ports ==
    ASSUME NEW p \in AnyParams, p.offset + p.length < 16, p.offset = 0 => p.length = 0,
           NEW v \in PM!try_new(p).staging_min .. PM!try_new(p).staging_max
    PROVE  /\ PM!try_ingress(PM!try_new(p), PM!try_egress(PM!try_new(p), v)) = v
           /\ PM!try_egress(PM!try_new(p), v) \in PP!U16
           /\ PP!Assigned(p, PM!try_egress(PM!try_new(p), v))
<1>1. PM!try_new(p) = PP!try_new(p)
  BY DEF PM!try_new, PP!try_new, PM!Width, PP!Width
<1> DEFINE c == PP!try_new(p)
<1>2. PP!Applied(p) /\ p.offset + p.length < PP!Width
  BY DEF PP!Applied, PP!Width
<1>3. v \in c.staging_min .. c.staging_max
  BY <1>1
<1>4. PP!try_ingress(c, PP!try_egress(c, v)) = v
  BY <1>2, <1>3, PortConstantsHold, PP!IngressUndoesEgress
<1>5. PP!Assigned(p, PP!try_egress(c, v))
  BY <1>2, <1>3, PortConstantsHold, PP!EgressAssigns
<1>6. v \in PP!U16
  BY <1>2, <1>3, PortConstantsHold, PP!StagingInU16
<1>7. c \in PP!CfgType
  BY <1>2, PortConstantsHold, PP!TryNewType
<1>8. PP!try_egress(c, v) \in PP!U16
  BY <1>6, <1>7, PortConstantsHold, PP!ProgramsType
<1> HIDE DEF c
<1>9. ASSUME NEW u
      PROVE  PM!try_egress(c, u) = PP!try_egress(c, u) /\ PM!try_ingress(c, u) = PP!try_ingress(c, u)
  BY DEF PM!try_egress, PP!try_egress, PM!try_ingress, PP!try_ingress,
         PM!load, PP!load, PM!store, PP!store, PM!EgressPasses, PP!EgressPasses,
         PM!IngressPasses, PP!IngressPasses, PM!psid_val, PP!psid_val,
         PM!staging_val, PP!staging_val, PM!Width, PP!Width
<1> QED BY <1>1, <1>4, <1>5, <1>8, <1>9 DEF c

\* The staging range has a first and a last port.
LEMMA StagingRange ==
    ASSUME NEW p \in AnyParams, p.offset + p.length < 16, NEW v,
           v \in {PM!try_new(p).staging_min, PM!try_new(p).staging_max}
    PROVE  v \in PM!try_new(p).staging_min .. PM!try_new(p).staging_max
<1> DEFINE c == PP!try_new(p)
<1>1. PM!try_new(p) = c
  BY DEF PM!try_new, PP!try_new, PM!Width, PP!Width
<1>2. c.staging_min \in Int /\ c.staging_max \in Int /\ c.staging_min <= c.staging_max
  <2>1. CASE p.offset = 0
    <3>1. /\ c = [offset |-> 0, length |-> p.length, psid |-> p.psid, block_shift |-> 0,
                  staging_min |-> 1, staging_max |-> PP!Pow(PP!Width) - 1]
      BY <2>1, PortConstantsHold, PP!NoOffset
    <3>2. PP!Width = 16
      BY DEF PP!Width
    <3>3. c.staging_min = 1 /\ c.staging_max = 65535
      BY <3>1, <3>2, PortConstantsHold, PP!PowTable
    <3> QED BY <3>3
  <2>2. CASE p.offset # 0
    <3>0. p.offset \in Nat
      BY DEF AnyParams
    <3>1. PP!Translated(p)
      BY <2>2, <3>0 DEF PP!Translated, PP!Width
    <3> DEFINE A == PP!BaseA(p)
               B == PP!BaseB(p)
               P == PP!BaseP(p)
               M == PP!Block(p)
    <3>2. /\ c = [offset |-> p.offset, length |-> p.length, psid |-> p.psid,
                  block_shift |-> PP!Width - p.offset - p.length,
                  staging_min |-> M, staging_max |-> M + (A - 1) * B - 1]
      BY <3>1, PortConstantsHold, PP!TryNew
    <3>3. A \in Int /\ A >= 2 /\ B \in Int /\ B >= 1 /\ P \in Int
      BY <3>1, PortConstantsHold, PP!Bases
    <3>4. M = P * B
      BY DEF PP!Block
    <3> HIDE DEF A, B, M, P
    <3>5. (A - 1) * B >= 1 /\ (A - 1) * B \in Int /\ M \in Int
      <4>1. 1 * B <= (A - 1) * B
        BY <3>3, PP!MulMono, PortConstantsHold
      <4> QED BY <3>3, <3>4, <4>1
    <3>6. c.staging_min = M /\ c.staging_max = M + (A - 1) * B - 1
      BY <3>2
    <3> QED BY <3>5, <3>6
  <2> QED BY <2>1, <2>2
<1> HIDE DEF c
<1> QED BY <1>1, <1>2

-----------------------------------------------------------------------------
(* The PSID in a port *)

\* The bits of sixteen bits' number.
LEMMA NumberBits ==
    ASSUME NEW c, \A i \in 1..16 : c[i] \in Bit, NEW j \in 1..16
    PROVE  /\ Hextet(c, 0) \in Nat
           /\ (Hextet(c, 0) \div PP!Pow(16 - j)) % 2 = c[j]
<1> DEFINE b1 == c[1]  b2 == c[2]  b3 == c[3]  b4 == c[4]
           b5 == c[5]  b6 == c[6]  b7 == c[7]  b8 == c[8]
           b9 == c[9]  b10 == c[10]  b11 == c[11]  b12 == c[12]
           b13 == c[13]  b14 == c[14]  b15 == c[15]  b16 == c[16]
           N == Hextet(c, 0)
<1>1. /\ b1 \in Nat /\ b1 <= 1 /\ b2 \in Nat /\ b2 <= 1 /\ b3 \in Nat /\ b3 <= 1 /\ b4 \in Nat /\ b4 <= 1
      /\ b5 \in Nat /\ b5 <= 1 /\ b6 \in Nat /\ b6 <= 1 /\ b7 \in Nat /\ b7 <= 1 /\ b8 \in Nat /\ b8 <= 1
      /\ b9 \in Nat /\ b9 <= 1 /\ b10 \in Nat /\ b10 <= 1 /\ b11 \in Nat /\ b11 <= 1 /\ b12 \in Nat /\ b12 <= 1
      /\ b13 \in Nat /\ b13 <= 1 /\ b14 \in Nat /\ b14 <= 1 /\ b15 \in Nat /\ b15 <= 1 /\ b16 \in Nat /\ b16 <= 1
  <2>1. /\ b1 \in Bit /\ b2 \in Bit /\ b3 \in Bit /\ b4 \in Bit
        /\ b5 \in Bit /\ b6 \in Bit /\ b7 \in Bit /\ b8 \in Bit
        /\ b9 \in Bit /\ b10 \in Bit /\ b11 \in Bit /\ b12 \in Bit
        /\ b13 \in Bit /\ b14 \in Bit /\ b15 \in Bit /\ b16 \in Bit
    OBVIOUS
  <2> HIDE DEF b1, b2, b3, b4, b5, b6, b7, b8, b9, b10, b11, b12, b13, b14, b15, b16
  <2> QED BY <2>1 DEF Bit
<1>2. N = 32768 * b1 + 16384 * b2 + 8192 * b3 + 4096 * b4 + 2048 * b5 + 1024 * b6 + 512 * b7 + 256 * b8
             + 128 * b9 + 64 * b10 + 32 * b11 + 16 * b12 + 8 * b13 + 4 * b14 + 2 * b15 + b16
  <2>1. N = 256 * (128 * c[0 + 1] + 64 * c[0 + 2] + 32 * c[0 + 3] + 16 * c[0 + 4]
                      + 8 * c[0 + 5] + 4 * c[0 + 6] + 2 * c[0 + 7] + c[0 + 8])
             + (128 * c[0 + 8 + 1] + 64 * c[0 + 8 + 2] + 32 * c[0 + 8 + 3] + 16 * c[0 + 8 + 4]
                  + 8 * c[0 + 8 + 5] + 4 * c[0 + 8 + 6] + 2 * c[0 + 8 + 7] + c[0 + 8 + 8])
    BY DEF Hextet, Octet
  <2>2. N = 256 * (128 * b1 + 64 * b2 + 32 * b3 + 16 * b4 + 8 * b5 + 4 * b6 + 2 * b7 + b8)
             + (128 * b9 + 64 * b10 + 32 * b11 + 16 * b12 + 8 * b13 + 4 * b14 + 2 * b15 + b16)
    BY <2>1
  <2> HIDE DEF b1, b2, b3, b4, b5, b6, b7, b8, b9, b10, b11, b12, b13, b14, b15, b16, N
  <2> QED BY <1>1, <2>2
<1> HIDE DEF b1, b2, b3, b4, b5, b6, b7, b8, b9, b10, b11, b12, b13, b14, b15, b16, N
<1>3. N \in Nat
  BY <1>1, <1>2
<1>4. /\ (N \div 32768) % 2 = b1 /\ (N \div 16384) % 2 = b2 /\ (N \div 8192) % 2 = b3
      /\ (N \div 4096) % 2 = b4 /\ (N \div 2048) % 2 = b5 /\ (N \div 1024) % 2 = b6
      /\ (N \div 512) % 2 = b7 /\ (N \div 256) % 2 = b8 /\ (N \div 128) % 2 = b9
      /\ (N \div 64) % 2 = b10 /\ (N \div 32) % 2 = b11 /\ (N \div 16) % 2 = b12
      /\ (N \div 8) % 2 = b13 /\ (N \div 4) % 2 = b14 /\ (N \div 2) % 2 = b15
      /\ (N \div 1) % 2 = b16
  <2>1. (N \div 32768) % 2 = b1
    BY <1>1, <1>2
  <2>2. (N \div 16384) % 2 = b2
    BY <1>1, <1>2
  <2>3. (N \div 8192) % 2 = b3
    BY <1>1, <1>2
  <2>4. (N \div 4096) % 2 = b4
    BY <1>1, <1>2
  <2>5. (N \div 2048) % 2 = b5
    BY <1>1, <1>2
  <2>6. (N \div 1024) % 2 = b6
    BY <1>1, <1>2
  <2>7. (N \div 512) % 2 = b7
    BY <1>1, <1>2
  <2>8. (N \div 256) % 2 = b8
    BY <1>1, <1>2
  <2>9. (N \div 128) % 2 = b9
    BY <1>1, <1>2
  <2>10. (N \div 64) % 2 = b10
    BY <1>1, <1>2
  <2>11. (N \div 32) % 2 = b11
    BY <1>1, <1>2
  <2>12. (N \div 16) % 2 = b12
    BY <1>1, <1>2
  <2>13. (N \div 8) % 2 = b13
    BY <1>1, <1>2
  <2>14. (N \div 4) % 2 = b14
    BY <1>1, <1>2
  <2>15. (N \div 2) % 2 = b15
    BY <1>1, <1>2
  <2>16. (N \div 1) % 2 = b16
    BY <1>1, <1>2
  <2> QED BY <2>1, <2>2, <2>3, <2>4, <2>5, <2>6, <2>7, <2>8, <2>9, <2>10, <2>11, <2>12, <2>13, <2>14, <2>15, <2>16
<1>5. /\ PP!Pow(0) = 1 /\ PP!Pow(1) = 2 /\ PP!Pow(2) = 4 /\ PP!Pow(3) = 8 /\ PP!Pow(4) = 16
      /\ PP!Pow(5) = 32 /\ PP!Pow(6) = 64 /\ PP!Pow(7) = 128 /\ PP!Pow(8) = 256
      /\ PP!Pow(9) = 512 /\ PP!Pow(10) = 1024 /\ PP!Pow(11) = 2048 /\ PP!Pow(12) = 4096
      /\ PP!Pow(13) = 8192 /\ PP!Pow(14) = 16384 /\ PP!Pow(15) = 32768
  BY PortConstantsHold, PP!PowTable
<1>6. (N \div PP!Pow(16 - j)) % 2 = c[j]
  <2>1. CASE j = 1
    BY <1>4, <1>5, <2>1 DEF b1
  <2>2. CASE j = 2
    BY <1>4, <1>5, <2>2 DEF b2
  <2>3. CASE j = 3
    BY <1>4, <1>5, <2>3 DEF b3
  <2>4. CASE j = 4
    BY <1>4, <1>5, <2>4 DEF b4
  <2>5. CASE j = 5
    BY <1>4, <1>5, <2>5 DEF b5
  <2>6. CASE j = 6
    BY <1>4, <1>5, <2>6 DEF b6
  <2>7. CASE j = 7
    BY <1>4, <1>5, <2>7 DEF b7
  <2>8. CASE j = 8
    BY <1>4, <1>5, <2>8 DEF b8
  <2>9. CASE j = 9
    BY <1>4, <1>5, <2>9 DEF b9
  <2>10. CASE j = 10
    BY <1>4, <1>5, <2>10 DEF b10
  <2>11. CASE j = 11
    BY <1>4, <1>5, <2>11 DEF b11
  <2>12. CASE j = 12
    BY <1>4, <1>5, <2>12 DEF b12
  <2>13. CASE j = 13
    BY <1>4, <1>5, <2>13 DEF b13
  <2>14. CASE j = 14
    BY <1>4, <1>5, <2>14 DEF b14
  <2>15. CASE j = 15
    BY <1>4, <1>5, <2>15 DEF b15
  <2>16. CASE j = 16
    BY <1>4, <1>5, <2>16 DEF b16
  <2> QED BY <2>1, <2>2, <2>3, <2>4, <2>5, <2>6, <2>7, <2>8, <2>9, <2>10, <2>11, <2>12, <2>13, <2>14, <2>15, <2>16
<1> QED BY <1>3, <1>6 DEF N

\* One bit of a number's low bits is that bit of the number.
LEMMA LowBit ==
    ASSUME NEW y \in Int, NEW e \in Int, e >= 1, NEW g \in Int, g >= 1
    PROVE  ((y % (e * (2 * g))) \div e) % 2 = (y \div e) % 2
<1> DEFINE m == e * (2 * g)
           q == y \div m
           r == y % m
           t == r \div e
           l == r % e
<1>1. m \in Int /\ m >= 1
  <2>1. 1 * (2 * g) <= e * (2 * g)
    BY PortConstantsHold, PP!MulMono
  <2> QED BY <2>1
<1>2. q \in Int /\ r \in Int /\ y = q * m + r
  BY <1>1, PortConstantsHold, PP!DivMod
<1>3. t \in Int /\ l \in 0 .. e - 1 /\ r = t * e + l
  <2> HIDE DEF r
  <2> QED BY <1>2, PortConstantsHold, PP!DivMod
<1> HIDE DEF q, r, t, l
<1>4. q * m = (2 * (q * g)) * e /\ q * g \in Int
  BY <1>2 DEF m
<1>5. y = (2 * (q * g) + t) * e + l
  <2> DEFINE x == q * g
  <2>1. x \in Int /\ y = (2 * x) * e + t * e + l
    BY <1>2, <1>3, <1>4
  <2> HIDE DEF x
  <2>2. (2 * x + t) * e = (2 * x) * e + t * e
    BY <1>3, <2>1
  <2> QED BY <1>3, <2>1, <2>2 DEF x
<1>6. y \div e = 2 * (q * g) + t
  <2> DEFINE x == 2 * (q * g) + t
  <2>1. x \in Int
    BY <1>3, <1>4
  <2>2. y = x * e + l
    BY <1>5
  <2> HIDE DEF x
  <2>3. (x * e + l) \div e = x
    BY <1>3, <2>1, PortConstantsHold, PP!DivUnique
  <2> QED BY <2>2, <2>3 DEF x
<1>7. (2 * (q * g) + t) % 2 = t % 2
  <2> DEFINE x == q * g
  <2>1. x \in Int
    BY <1>4
  <2> HIDE DEF x
  <2>2. (2 * x + t) % 2 = t % 2
    BY <1>3, <2>1
  <2> QED BY <2>2 DEF x
<1> QED BY <1>6, <1>7 DEF t, r, m

\* Two shifts are one.
LEMMA TwoShifts ==
    ASSUME NEW x \in Int, NEW b \in Int, b >= 1, NEW e \in Int, e >= 1
    PROVE  (x \div b) \div e = x \div (b * e)
<1> DEFINE q == x \div b
           r == x % b
           s == q \div e
           t == q % e
           m == b * e
           l == t * b + r
<1>1. q \in Int /\ r \in 0 .. b - 1 /\ x = q * b + r
  BY PortConstantsHold, PP!DivMod
<1>2. s \in Int /\ t \in 0 .. e - 1 /\ q = s * e + t
  <2> HIDE DEF q
  <2> QED BY <1>1, PortConstantsHold, PP!DivMod
<1> HIDE DEF q, r, s, t
<1>3. m \in Int /\ m >= 1 /\ m = b * e
  <2>1. 1 * e <= b * e
    BY PortConstantsHold, PP!MulMono
  <2> QED BY <2>1
<1>4. l \in Int /\ l \in 0 .. m - 1
  <2>1. 0 * b <= t * b /\ (t + 1) * b <= e * b /\ (t + 1) * b = t * b + b /\ t * b \in Int
    BY <1>2, PortConstantsHold, PP!MulMono
  <2>2. e * b = m
    OBVIOUS
  <2> QED BY <1>1, <2>1, <2>2
<1>5. x = s * m + l
  <2>1. (s * e) * b = s * (b * e) /\ (s * e + t) * b = (s * e) * b + t * b
        /\ (s * e) * b \in Int /\ t * b \in Int
    BY <1>2
  <2> QED BY <1>1, <1>2, <2>1
<1> HIDE DEF m, l
<1>6. (s * m + l) \div m = s
  BY <1>2, <1>3, <1>4, PortConstantsHold, PP!DivUnique
<1> QED BY <1>3, <1>5, <1>6 DEF s, q

\* The bits of a port that the relay takes for the PSID are the PSID.
LEMMA PortBits ==
    ASSUME NEW a \in Nat, NEW k \in Nat, a + k < 16, NEW psid \in Seq(Bit), Len(psid) = k,
           NEW port \in Int,
           (port \div PP!Pow(16 - a - k)) % PP!Pow(k) = ToNum(psid)
    PROVE  SubSeq(ToBits(port, 16), a + 1, a + k) = psid
<1> DEFINE W == 16
           bits == ToBits(port, W)
           s == SubSeq(bits, a + 1, a + k)
           f == Fit(psid, W)
           b == PP!Pow(16 - a - k)
           y == port \div b
<1>1. W \in Nat /\ W = 16
  OBVIOUS
<1> HIDE DEF W
<1>2. bits = [i \in 1..W |-> (port \div PP!Pow(W - i)) % 2]
  BY DEF ToBits, PP!Pow
<1>3. bits \in [1..W -> Bit]
  <2>1. ASSUME NEW i \in 1..W PROVE (port \div PP!Pow(W - i)) % 2 \in Bit
    <3>1. W - i \in Nat /\ W - i <= 16
      BY <1>1
    <3>2. PP!Pow(W - i) \in Int /\ PP!Pow(W - i) >= 1
      BY <3>1, PowerType
    <3>3. port \div PP!Pow(W - i) \in Int
      BY <3>2, PortConstantsHold, PP!DivMod
    <3> DEFINE z == port \div PP!Pow(W - i)
    <3> HIDE DEF z
    <3>4. z \in Int
      BY <3>3 DEF z
    <3>5. z % 2 \in 0..1
      BY <3>4
    <3> QED BY <3>5 DEF z, Bit
  <2> QED BY <1>2, <2>1
<1>4. bits \in Seq(Bit) /\ Len(bits) = W
  <2> HIDE DEF bits
  <2> QED BY <1>1, <1>3, Word
<1>5. s \in Seq(Bit) /\ Len(s) = k /\ \A i \in 1..k : s[i] = bits[a + i]
  <2> DEFINE o == a + k
             x == SubSeq(bits, a + 1, o)
  <2>0. s = x
    OBVIOUS
  <2> HIDE DEF bits, s
  <2>1. o \in Nat /\ a <= o /\ o <= Len(bits) /\ o - a = k
    BY <1>1, <1>4
  <2> HIDE DEF o
  <2>2. x \in Seq(Bit) /\ Len(x) = o - a /\ \A i \in 1 .. o - a : x[i] = bits[a + i]
    BY <1>4, <2>1, RestIs
  <2> HIDE DEF x
  <2> QED BY <2>0, <2>1, <2>2
<1>6. f \in Seq(Bit) /\ Len(f) = W
      /\ \A i \in 1..W : f[i] = IF Len(psid) + i <= W THEN 0 ELSE psid[Len(psid) + i - W]
  BY <1>1, FitIs
<1>7. ToNum(psid) = Hextet(f, 0)
  BY <1>1 DEF ToNum, Hextet
<1>8. \A i \in 1..16 : f[i] \in Bit
  <2> HIDE DEF f
  <2>1. \A i \in 1..W : f[i] \in Bit
    BY <1>6, SeqWord
  <2> QED BY <1>1, <2>1
<1> HIDE DEF f, bits, s
<1>9. ASSUME NEW i \in 1..k PROVE s[i] = psid[i]
  <2> DEFINE j == 16 - k + i
             n == k - i
             e == PP!Pow(n)
             g == PP!Pow(i - 1)
             h == i - 1
             c == 16 - a - k
  <2>1. j \in 1..16 /\ 16 - j = n
    OBVIOUS
  <2>a. /\ n \in Nat /\ n <= 16 /\ i \in Nat /\ h \in Nat /\ h <= 16 /\ h < 16 /\ h + 1 = i
        /\ n + i = k /\ n + i <= 16
        /\ c \in Nat /\ c <= 16 /\ c + n = 16 - (a + i) /\ c + n <= 16
    OBVIOUS
  <2>2. j \in 1..W /\ ~(k + j <= W) /\ k + j - W = i /\ a + i \in 1..W
    BY <1>1
  <2>3. f[j] = psid[i]
    BY <1>6, <2>2
  <2>4. (ToNum(psid) \div e) % 2 = psid[i]
    <3> HIDE DEF j, n, h, c, b, y
    <3>1. (Hextet(f, 0) \div PP!Pow(16 - j)) % 2 = f[j]
      BY <1>8, <2>1, NumberBits
    <3> QED BY <1>7, <2>1, <2>3, <3>1
  <2>b. g = PP!Pow(h) /\ b = PP!Pow(c)
    OBVIOUS
  <2> HIDE DEF j, n, h, c, g, b, y
  <2>5. e \in Int /\ e >= 1 /\ g \in Int /\ g >= 1 /\ b \in Int /\ b >= 1
    BY <2>a, <2>b, PowerType
  <2>6. PP!Pow(k) = e * (2 * g)
    <3>1. PP!Pow(n + i) = e * PP!Pow(i)
      BY <2>a, PowerSum
    <3>2. PP!Pow(h + 1) = 2 * g
      BY <2>a, <2>b, PowerStep
    <3> QED BY <2>a, <3>1, <3>2
  <2>7. PP!Pow(16 - (a + i)) = b * e
    <3>1. PP!Pow(c + n) = PP!Pow(c) * e
      BY <2>a, PowerSum
    <3> QED BY <2>a, <2>b, <3>1
  <2> HIDE DEF e
  <2>8. y \in Int
    BY <2>5, PortConstantsHold, PP!DivMod DEF y
  <2>9. (y % PP!Pow(k)) = ToNum(psid)
    BY DEF b, y
  <2>10. ((y % (e * (2 * g))) \div e) % 2 = (y \div e) % 2
    BY <2>5, <2>8, LowBit
  <2>11. (y \div e) % 2 = psid[i]
    BY <2>4, <2>6, <2>9, <2>10
  <2>12. y \div e = port \div (b * e)
    BY <2>5, TwoShifts DEF y
  <2>13. bits[a + i] = (port \div PP!Pow(W - (a + i))) % 2
    BY <1>2, <2>2
  <2> QED BY <1>1, <1>5, <2>7, <2>11, <2>12, <2>13
<1>10. s = psid
  BY <1>5, <1>9, SeqEqual
<1> QED BY <1>10, <1>1 DEF s, bits

\* Sixteen bits, shifted to the left.
Left(f, n) == [i \in 1..16 |-> IF i + n <= 16 THEN f[i + n] ELSE 0]

\* Shifting once doubles, if the first bit is not set.
LEMMA Doubled ==
    ASSUME NEW f, \A i \in 1..16 : f[i] \in Bit, NEW e, f[1] = 0, e[16] = 0,
           \A i \in 1..15 : e[i] = f[i + 1]
    PROVE  Hextet(e, 0) = 2 * Hextet(f, 0)
<1> DEFINE f2 == f[2]    f3 == f[3]    f4 == f[4]    f5 == f[5]    f6 == f[6]
           f7 == f[7]    f8 == f[8]    f9 == f[9]    f10 == f[10]  f11 == f[11]
           f12 == f[12]  f13 == f[13]  f14 == f[14]  f15 == f[15]  f16 == f[16]
           N == Hextet(f, 0)
           M == Hextet(e, 0)
<1>1. /\ f2 \in Bit /\ f3 \in Bit /\ f4 \in Bit /\ f5 \in Bit /\ f6 \in Bit
      /\ f7 \in Bit /\ f8 \in Bit /\ f9 \in Bit /\ f10 \in Bit /\ f11 \in Bit
      /\ f12 \in Bit /\ f13 \in Bit /\ f14 \in Bit /\ f15 \in Bit /\ f16 \in Bit
  OBVIOUS
<1>2. N = 256 * (128 * 0 + 64 * f2 + 32 * f3 + 16 * f4 + 8 * f5 + 4 * f6 + 2 * f7 + f8)
           + (128 * f9 + 64 * f10 + 32 * f11 + 16 * f12 + 8 * f13 + 4 * f14 + 2 * f15 + f16)
  BY DEF Hextet, Octet
<1>3. /\ e[1] = f2 /\ e[2] = f3 /\ e[3] = f4 /\ e[4] = f5 /\ e[5] = f6
      /\ e[6] = f7 /\ e[7] = f8 /\ e[8] = f9 /\ e[9] = f10 /\ e[10] = f11
      /\ e[11] = f12 /\ e[12] = f13 /\ e[13] = f14 /\ e[14] = f15 /\ e[15] = f16
  OBVIOUS
<1>4. M = 256 * (128 * f2 + 64 * f3 + 32 * f4 + 16 * f5 + 8 * f6 + 4 * f7 + 2 * f8 + f9)
           + (128 * f10 + 64 * f11 + 32 * f12 + 16 * f13 + 8 * f14 + 4 * f15 + 2 * f16 + 0)
  BY <1>3 DEF Hextet, Octet
<1> HIDE DEF f2, f3, f4, f5, f6, f7, f8, f9, f10, f11, f12, f13, f14, f15, f16, N, M
<1>5. M = 2 * N
  BY <1>1, <1>2, <1>4 DEF Bit
<1> QED BY <1>5 DEF M, N

\* Shifting past zeros multiplies by a power of two.  It holds for the least shift it
\* could fail for, being one more shift than a shift it holds for.
LEMMA Shifted ==
    ASSUME NEW f, \A i \in 1..16 : f[i] \in Bit, NEW k \in Nat, k <= 16,
           \A i \in 1..16 : i <= k => f[i] = 0
    PROVE  Hextet(Left(f, k), 0) = Hextet(f, 0) * PP!Pow(k)
<1> DEFINE Law(n) == Hextet(Left(f, n), 0) = Hextet(f, 0) * PP!Pow(n)
           S == {n \in Nat : n <= k /\ ~Law(n)}
<1>1. Law(0)
  <2>1. \A i \in 1..16 : Left(f, 0)[i] = f[i]
    BY DEF Left
  <2>2. Hextet(Left(f, 0), 0) = Hextet(f, 0)
    BY <2>1 DEF Hextet, Octet
  <2>3. Hextet(f, 0) \in Nat
    BY NumberBits
  <2>4. PP!Pow(0) = 1
    BY PortConstantsHold, PP!PowTable
  <2> QED BY <2>2, <2>3, <2>4
<1>2. ASSUME NEW n \in Nat, n < k, Law(n) PROVE Law(n + 1)
  <2> DEFINE g == Left(f, n)
             e == Left(f, n + 1)
  <2>1. \A i \in 1..16 : g[i] \in Bit
    BY DEF Left, Bit
  <2>2. g[1] = 0 /\ e[16] = 0 /\ \A i \in 1..15 : e[i] = g[i + 1]
    BY <1>2 DEF Left
  <2>3. Hextet(g, 0) \in Nat /\ Hextet(f, 0) \in Nat
    <3> HIDE DEF g
    <3> QED BY <2>1, NumberBits
  <2> HIDE DEF g, e
  <2>4. Hextet(e, 0) = 2 * Hextet(g, 0)
    BY <2>1, <2>2, Doubled
  <2>5. PP!Pow(n + 1) = 2 * PP!Pow(n) /\ PP!Pow(n) \in Int
    BY <1>2, PowerStep, PowerType
  <2>6. Hextet(g, 0) = Hextet(f, 0) * PP!Pow(n)
    BY <1>2 DEF g
  <2>7. Hextet(e, 0) = Hextet(f, 0) * PP!Pow(n + 1)
    BY <2>3, <2>4, <2>5, <2>6
  <2> QED BY <2>7 DEF e
<1> HIDE DEF Law
<1>3. S = {}
  <2> SUFFICES ASSUME S # {} PROVE FALSE
    OBVIOUS
  <2>1. S \subseteq Nat
    OBVIOUS
  <2>2. PICK n \in S : \A m \in S : n <= m
    BY <2>1, HasLeast
  <2>3. n # 0 /\ n \in Nat /\ n <= k /\ ~Law(n)
    BY <1>1, <2>2
  <2>4. n - 1 \in Nat /\ n - 1 < k /\ ~(n <= n - 1) /\ (n - 1) + 1 = n
    BY <2>3
  <2>5. Law(n - 1)
    BY <2>2, <2>3, <2>4
  <2> QED BY <1>2, <2>3, <2>4, <2>5
<1>4. Law(k)
  BY <1>3
<1> QED BY <1>4 DEF Law

-----------------------------------------------------------------------------
(* The relay's address *)

\* Four hextets.
LEMMA FourHextets ==
    ASSUME NEW b \in Seq(Bit), Len(b) = 64
    PROVE  Hextets(b) = <<Hextet(b, 0), Hextet(b, 16), Hextet(b, 32), Hextet(b, 48)>>
<1> DEFINE n == 4
<1>1. n \in Nat /\ Len(b) = 16 * n /\ n = 4
  OBVIOUS
<1> HIDE DEF n
<1>2. Hextets(b) = [i \in 1..n |-> Hextet(b, 16 * i - 16)]
  <2>1. n \in Nat /\ Len(b) = 16 * n
    BY <1>1
  <2> QED BY <2>1, HextetsIs, SMTT(30)
<1> DEFINE h == [i \in 1..4 |-> Hextet(b, 16 * i - 16)]
<1>3. Hextets(b) = h
  BY <1>1, <1>2
<1>4. h = <<h[1], h[2], h[3], h[4]>>
  OBVIOUS
<1>5. h[1] = Hextet(b, 0) /\ h[2] = Hextet(b, 16) /\ h[3] = Hextet(b, 32) /\ h[4] = Hextet(b, 48)
  <2>1. \A i \in 1..4 : h[i] = Hextet(b, 16 * i - 16)
    OBVIOUS
  <2>2. 16 * 1 - 16 = 0 /\ 16 * 2 - 16 = 16 /\ 16 * 3 - 16 = 32 /\ 16 * 4 - 16 = 48
    OBVIOUS
  <2>3. 1 \in 1..4 /\ 2 \in 1..4 /\ 3 \in 1..4 /\ 4 \in 1..4
    OBVIOUS
  <2> HIDE DEF h
  <2> QED BY <2>1, <2>2, <2>3
<1> HIDE DEF h
<1> QED BY <1>3, <1>4, <1>5

\* The octets of an IPv4 address, as the relay takes them.
LEMMA Octets ==
    ASSUME NEW ipv4 \in Seq(Bit), Len(ipv4) = 32, NEW j \in 1..4
    PROVE  /\ ToNum(SubSeq(ipv4, 8 * j - 7, 8 * j)) = Octet(ipv4, 8 * j - 8)
           /\ Octet(ipv4, 8 * j - 8) \in Nat
<1> DEFINE l == 8 * j - 8
<1>1. /\ l \in Nat /\ l + 8 <= Len(ipv4) /\ l + 1 = 8 * j - 7 /\ l + 8 = 8 * j
      /\ \A n \in 1..8 : l + n \in 1 .. Len(ipv4)
  OBVIOUS
<1> HIDE DEF l
<1>2. ToNum(SubSeq(ipv4, l + 1, l + 8)) = Octet(ipv4, l)
  BY <1>1, OctetIs
<1>a. \A i \in 1 .. Len(ipv4) : ipv4[i] \in Bit
  BY SeqWord
<1>3. IsOctet(ipv4, l)
  BY <1>a, <1>1 DEF IsOctet
<1>4. Octet(ipv4, l) \in Nat
  BY <1>3, OctetType
<1> QED BY <1>1, <1>2, <1>4 DEF l

\* The identifier's hextets in the layout of RFC 7597.
LEMMA RfcHextets ==
    ASSUME NEW d, d.ipv4 \in Seq(Bit), Len(d.ipv4) = 32,
           d.psid \in Seq(Bit), Len(d.psid) < 16
    PROVE  LET id == interface_id(d, "Rfc7597")
           IN  /\ Hextet(id, 0) = 0
               /\ Hextet(id, 16) = 256 * Octet(d.ipv4, 0) + Octet(d.ipv4, 8)
               /\ Hextet(id, 32) = 256 * Octet(d.ipv4, 16) + Octet(d.ipv4, 24)
               /\ Hextet(id, 48) = ToNum(d.psid) * PP!Pow(16 - Len(d.psid))
<1> DEFINE id == interface_id(d, "Rfc7597")
           v == d.ipv4
           psid == d.psid
           k == Len(psid)
           W == 16
           f == Fit(psid, W)
           n == W - k
           e == Left(f, n)
<1>0. k \in Nat /\ k < 16 /\ W = 16 /\ W \in Nat /\ n \in Nat /\ n <= 16 /\ n = 16 - k
      /\ psid \in Seq(Bit)
  OBVIOUS
<1>1. /\ \A i \in 1..16 : id[i] = 0
      /\ \A i \in 1..32 : id[16 + i] = v[i]
      /\ \A i \in 1..16 : id[48 + i] = IF i <= k THEN psid[i] ELSE 0
  <2>1. Len(d.psid) <= 16
    OBVIOUS
  <2> QED BY <2>1, RfcBits
<1> HIDE DEF id, v, psid, k
<1>2. Octet(id, 0) = 0 /\ Octet(id, 0 + 8) = 0
  <2>1. NoOctet(id, 0) /\ NoOctet(id, 8)
    BY <1>1 DEF NoOctet
  <2> QED BY <2>1, OctetZero
<1>3. /\ Octet(id, 16 + 0) = Octet(v, 0) /\ Octet(id, 16 + 8) = Octet(v, 8)
      /\ Octet(id, 16 + 16) = Octet(v, 16) /\ Octet(id, 16 + 24) = Octet(v, 24)
  <2> DEFINE m == 32
             l == 16
  <2>6. m = 32 /\ l = 16
    OBVIOUS
  <2>1. \A i \in 1..m : id[l + i] = v[i]
    BY <1>1
  <2> HIDE DEF m, l
  <2>2. ASSUME NEW j \in Nat, j + 8 <= 32 PROVE SameOctet(id, l + j, v, j)
    <3>1. \A h \in 1..8 : j + h \in 1..m /\ (l + j) + h = l + (j + h)
      BY <2>2, <2>6
    <3> QED BY <2>1, <3>1 DEF SameOctet
  <2>3. SameOctet(id, l + 0, v, 0) /\ SameOctet(id, l + 8, v, 8)
    BY <2>2
  <2>4. SameOctet(id, l + 16, v, 16) /\ SameOctet(id, l + 24, v, 24)
    BY <2>2
  <2>5. /\ Octet(id, l + 0) = Octet(v, 0) /\ Octet(id, l + 8) = Octet(v, 8)
        /\ Octet(id, l + 16) = Octet(v, 16) /\ Octet(id, l + 24) = Octet(v, 24)
    BY <2>3, <2>4, OctetEqual
  <2> QED BY <2>5, <2>6
<1>4. f \in Seq(Bit) /\ \A i \in 1..W : f[i] = IF k + i <= W THEN 0 ELSE psid[k + i - W]
  <2>1. f \in Seq(Bit) /\ Len(f) = W
        /\ \A i \in 1..W : f[i] = IF Len(psid) + i <= W THEN 0 ELSE psid[Len(psid) + i - W]
    BY <1>0, FitIs
  <2> HIDE DEF f
  <2> QED BY <2>1 DEF k
<1>5. \A i \in 1..16 : f[i] \in Bit
  <2>1. f \in Seq(Bit) /\ Len(f) = W
    BY <1>0, FitIs
  <2> HIDE DEF f
  <2>2. \A i \in 1..W : f[i] \in Bit
    BY <2>1, SeqWord
  <2> QED BY <1>0, <2>2
<1>6. ToNum(psid) = Hextet(f, 0)
  BY <1>0 DEF ToNum, Hextet
<1> HIDE DEF f, n, W
<1>7. \A i \in 1..16 : i <= n => f[i] = 0
  <2>1. ASSUME NEW i \in 1..16, i <= n PROVE f[i] = 0
    <3>1. i \in 1..W /\ k + i <= W
      BY <1>0, <2>1
    <3> QED BY <1>4, <3>1
  <2> QED BY <2>1
<1>8. Hextet(e, 0) = Hextet(f, 0) * PP!Pow(n)
  BY <1>0, <1>5, <1>7, Shifted
<1>9. ASSUME NEW i \in 1..16 PROVE id[48 + i] = e[i]
  <2>1. e[i] = IF i + n <= 16 THEN f[i + n] ELSE 0
    BY DEF Left
  <2>2. CASE i <= k
    <3>1. i + n <= 16 /\ i + n \in 1..W /\ ~(k + (i + n) <= W) /\ k + (i + n) - W = i
      BY <1>0, <2>2
    <3>2. f[i + n] = psid[i]
      BY <1>4, <3>1
    <3> QED BY <1>1, <2>1, <2>2, <3>1, <3>2
  <2>3. CASE i > k
    <3>1. ~(i + n <= 16) /\ ~(i <= k)
      BY <1>0, <2>3
    <3> QED BY <1>1, <2>1, <3>1
  <2> QED BY <1>0, <2>2, <2>3
<1> HIDE DEF e
<1>10. Octet(id, 48) = Octet(e, 0) /\ Octet(id, 48 + 8) = Octet(e, 0 + 8)
  <2>1. SameOctet(id, 48, e, 0)
    <3>1. ASSUME NEW h \in 1..8 PROVE id[48 + h] = e[0 + h]
      <4>1. h \in 1..16 /\ 0 + h = h
        OBVIOUS
      <4>2. id[48 + h] = e[h]
        BY <1>9, <4>1
      <4> QED BY <4>1, <4>2
    <3> QED BY <3>1 DEF SameOctet
  <2>2. SameOctet(id, 56, e, 8)
    <3>1. ASSUME NEW h \in 1..8 PROVE id[56 + h] = e[8 + h]
      <4>1. 8 + h \in 1..16 /\ 48 + (8 + h) = 56 + h
        OBVIOUS
      <4>2. id[48 + (8 + h)] = e[8 + h]
        BY <1>9, <4>1
      <4> QED BY <4>1, <4>2
    <3> QED BY <3>1 DEF SameOctet
  <2> QED BY <2>1, <2>2, OctetEqual
<1>11. Hextet(id, 48) = ToNum(psid) * PP!Pow(n)
  BY <1>6, <1>8, <1>10 DEF Hextet
<1>12. Hextet(id, 0) = 0
  BY <1>2 DEF Hextet
<1>13. /\ Hextet(id, 16) = 256 * Octet(v, 0) + Octet(v, 8)
       /\ Hextet(id, 32) = 256 * Octet(v, 16) + Octet(v, 24)
  BY <1>3 DEF Hextet
<1> QED BY <1>0, <1>11, <1>12, <1>13 DEF id, v, psid, k

\* And in that of the static table.
LEMMA TableHextets ==
    ASSUME NEW d, d.ipv4 \in Seq(Bit), Len(d.ipv4) = 32,
           d.psid \in Seq(Bit), Len(d.psid) <= 8
    PROVE  LET id == interface_id(d, "V6Plus")
           IN  /\ Hextet(id, 0) = Octet(d.ipv4, 0)
               /\ Hextet(id, 16) = 256 * Octet(d.ipv4, 8) + Octet(d.ipv4, 16)
               /\ Hextet(id, 32) = 256 * Octet(d.ipv4, 24)
               /\ Hextet(id, 48) = 256 * ToNum(d.psid)
<1> DEFINE id == interface_id(d, "V6Plus")
           v == d.ipv4
           psid == d.psid
           k == Len(psid)
           W == 16
           f == Fit(psid, W)
<1>0. k \in Nat /\ k <= 8 /\ W = 16 /\ W \in Nat /\ psid \in Seq(Bit) /\ v \in Seq(Bit) /\ Len(v) = 32
  OBVIOUS
<1>1. /\ \A i \in 1..8 : id[i] = 0
      /\ \A i \in 1..32 : id[8 + i] = v[i]
      /\ \A i \in 1..16 : id[40 + i] = f[i]
      /\ \A i \in 1..8 : id[56 + i] = 0
  <2>1. Len(d.psid) <= 16
    OBVIOUS
  <2> QED BY <2>1, TableBits
<1> HIDE DEF id, v, psid, k
<1>2. Octet(id, 0) = 0 /\ Octet(id, 48 + 8) = 0
  <2>1. NoOctet(id, 0) /\ NoOctet(id, 56)
    BY <1>1 DEF NoOctet
  <2> QED BY <2>1, OctetZero
<1>3. /\ Octet(id, 8 + 0) = Octet(v, 0) /\ Octet(id, 8 + 8) = Octet(v, 8)
      /\ Octet(id, 8 + 16) = Octet(v, 16) /\ Octet(id, 8 + 24) = Octet(v, 24)
  <2> DEFINE m == 32
             l == 8
  <2>6. m = 32 /\ l = 8
    OBVIOUS
  <2>1. \A i \in 1..m : id[l + i] = v[i]
    BY <1>1
  <2> HIDE DEF m, l
  <2>2. ASSUME NEW j \in Nat, j + 8 <= 32 PROVE SameOctet(id, l + j, v, j)
    <3>1. \A h \in 1..8 : j + h \in 1..m /\ (l + j) + h = l + (j + h)
      BY <2>2, <2>6
    <3> QED BY <2>1, <3>1 DEF SameOctet
  <2>3. SameOctet(id, l + 0, v, 0) /\ SameOctet(id, l + 8, v, 8)
    BY <2>2
  <2>4. SameOctet(id, l + 16, v, 16) /\ SameOctet(id, l + 24, v, 24)
    BY <2>2
  <2>5. /\ Octet(id, l + 0) = Octet(v, 0) /\ Octet(id, l + 8) = Octet(v, 8)
        /\ Octet(id, l + 16) = Octet(v, 16) /\ Octet(id, l + 24) = Octet(v, 24)
    BY <2>3, <2>4, OctetEqual
  <2> QED BY <2>5, <2>6
<1>4. f \in Seq(Bit) /\ Len(f) = W
      /\ \A i \in 1..W : f[i] = IF k + i <= W THEN 0 ELSE psid[k + i - W]
  <2>1. f \in Seq(Bit) /\ Len(f) = W
        /\ \A i \in 1..W : f[i] = IF Len(psid) + i <= W THEN 0 ELSE psid[Len(psid) + i - W]
    BY <1>0, FitIs
  <2> HIDE DEF f
  <2> QED BY <2>1 DEF k
<1>5. ToNum(psid) = 256 * Octet(f, 0) + Octet(f, 8)
  BY <1>0 DEF ToNum
<1> HIDE DEF f, W
<1>6. Octet(f, 0) = 0
  <2>1. ASSUME NEW n \in 1..8 PROVE f[0 + n] = 0
    <3>1. n \in 1..W /\ k + n <= W /\ 0 + n = n
      BY <1>0
    <3> QED BY <1>4, <3>1
  <2>2. NoOctet(f, 0)
    BY <2>1 DEF NoOctet
  <2> QED BY <2>2, OctetZero
<1>7. Octet(id, 40) = 0 /\ Octet(id, 48) = Octet(f, 8)
  <2>1. \A n \in 1..8 : n \in 1..16 /\ 8 + n \in 1..16 /\ 40 + (8 + n) = 48 + n
    OBVIOUS
  <2>2. SameOctet(id, 40, f, 0) /\ SameOctet(id, 48, f, 8)
    BY <1>1, <2>1 DEF SameOctet
  <2> QED BY <1>6, <2>2, OctetEqual
<1>8. /\ Octet(v, 0) \in Nat /\ Octet(v, 8) \in Nat /\ Octet(v, 16) \in Nat /\ Octet(v, 24) \in Nat
      /\ Octet(f, 8) \in Nat
  <2>1. \A i \in 1..32 : v[i] \in Bit
    <3>1. \A i \in 1 .. Len(v) : v[i] \in Bit
      BY <1>0, SeqWord
    <3> QED BY <1>0, <3>1
  <2>2. \A i \in 1..16 : f[i] \in Bit
    BY <1>0, <1>4, SeqWord
  <2>3. /\ IsOctet(v, 0) /\ IsOctet(v, 8) /\ IsOctet(v, 16) /\ IsOctet(v, 24) /\ IsOctet(f, 8)
    BY <2>1, <2>2 DEF IsOctet
  <2> QED BY <2>3, OctetType
<1>9. Hextet(id, 0) = Octet(v, 0)
  BY <1>2, <1>3, <1>8 DEF Hextet
<1>10. Hextet(id, 16) = 256 * Octet(v, 8) + Octet(v, 16)
  BY <1>3 DEF Hextet
<1>11. Hextet(id, 32) = 256 * Octet(v, 24)
  BY <1>3, <1>7, <1>8 DEF Hextet
<1>12. Hextet(id, 48) = 256 * ToNum(psid)
  <2>1. Hextet(id, 48) = 256 * Octet(f, 8) + 0
    BY <1>2, <1>7 DEF Hextet
  <2>2. ToNum(psid) = Octet(f, 8)
    BY <1>5, <1>6, <1>8
  <2> QED BY <1>8, <2>1, <2>2
<1> QED BY <1>9, <1>10, <1>11, <1>12 DEF id, v, psid

\* A hextet of a word is one.
LEMMA HextetBound ==
    ASSUME NEW b \in Seq(Bit), NEW j \in Nat, j + 16 <= Len(b)
    PROVE  Hextet(b, j) \in Nat /\ Hextet(b, j) <= 65535
<1> DEFINE l == j + 8
<1>1. l \in Nat /\ \A h \in 1..8 : j + h \in 1 .. Len(b) /\ l + h \in 1 .. Len(b)
  OBVIOUS
<1>2. l = j + 8
  OBVIOUS
<1> HIDE DEF l
<1>3. \A i \in 1 .. Len(b) : b[i] \in Bit
  BY SeqWord
<1>4. IsOctet(b, j) /\ IsOctet(b, l)
  BY <1>1, <1>3 DEF IsOctet
<1>5. /\ Octet(b, j) \in Nat /\ Octet(b, j) <= 255
      /\ Octet(b, l) \in Nat /\ Octet(b, l) <= 255
  BY <1>4, OctetType
<1>6. Hextet(b, j) = 256 * Octet(b, j) + Octet(b, l)
  BY <1>2 DEF Hextet
<1> QED BY <1>5, <1>6

\* A PSID as a number fits its length: shifted to the left end of the identifier's
\* last hextet it is still a hextet.
LEMMA PsidFits ==
    ASSUME NEW d, d.ipv4 \in Seq(Bit), Len(d.ipv4) = 32,
           d.psid \in Seq(Bit), Len(d.psid) < 16
    PROVE  ToNum(d.psid) \in Nat /\ ToNum(d.psid) < PP!Pow(Len(d.psid))
<1> DEFINE id == interface_id(d, "Rfc7597")
           k == Len(d.psid)
           n == 16 - k
           x == ToNum(d.psid)
           W == 16
           f == Fit(d.psid, W)
<1>1. k \in Nat /\ n \in Nat /\ k + n = 16 /\ k <= 16 /\ n <= 16 /\ W \in Nat /\ W = 16
  OBVIOUS
<1>2. Hextet(id, 48) = x * PP!Pow(n)
  BY RfcHextets
<1>3. id \in Seq(Bit) /\ Len(id) = 64
  <2>1. Len(d.psid) <= 16
    OBVIOUS
  <2> QED BY <2>1, InterfaceId
<1>4. x \in Nat
  <2>1. f \in Seq(Bit) /\ Len(f) = W
    BY <1>1, FitIs
  <2>2. x = Hextet(f, 0)
    BY DEF ToNum, Hextet
  <2> HIDE DEF f, x
  <2> DEFINE j == 0
  <2>3. j \in Nat /\ j + 16 <= Len(f)
    BY <1>1, <2>1
  <2>5. f \in Seq(Bit)
    BY <2>1
  <2> HIDE DEF j
  <2>4. Hextet(f, j) \in Nat /\ Hextet(f, j) <= 65535
    BY <2>3, <2>5, HextetBound
  <2> QED BY <2>2, <2>4 DEF j
<1> HIDE DEF id, x, n, k
<1>5. Hextet(id, 48) <= 65535
  <2> DEFINE j == 48
  <2>1. j \in Nat /\ j + 16 <= Len(id)
    BY <1>3
  <2>3. id \in Seq(Bit)
    BY <1>3
  <2> HIDE DEF j
  <2>2. Hextet(id, j) \in Nat /\ Hextet(id, j) <= 65535
    BY <2>1, <2>3, HextetBound
  <2> QED BY <2>2 DEF j
<1>6. PP!Pow(k) * PP!Pow(n) = 65536
  <2>1. PP!Pow(k + n) = PP!Pow(k) * PP!Pow(n)
    BY <1>1, PowerSum
  <2>2. PP!Pow(16) = 65536
    BY PortConstantsHold, PP!PowTable
  <2> QED BY <1>1, <2>1, <2>2
<1>7. /\ PP!Pow(k) \in Int /\ PP!Pow(n) \in Int /\ PP!Pow(n) >= 1
  BY <1>1, PowerType
<1>8. x < PP!Pow(k)
  <2> SUFFICES ASSUME PP!Pow(k) <= x PROVE FALSE
    BY <1>4, <1>7
  <2> DEFINE a == PP!Pow(k)
             b == PP!Pow(n)
  <2>1. a \in Int /\ b \in Int /\ b >= 0 /\ x \in Int /\ a <= x
    BY <1>4, <1>7
  <2>2. Hextet(id, 48) = x * b /\ a * b = 65536
    BY <1>2, <1>6
  <2> HIDE DEF a, b
  <2>3. a * b <= x * b
    BY <2>1, PortConstantsHold, PP!MulMono
  <2> QED BY <1>5, <2>1, <2>2, <2>3
<1> QED BY <1>4, <1>8 DEF x, k

\* The last four hextets of the relay's address.
RelayIdentifier(ipv4, psid, fmt) ==
    LET o == [j \in 1..4 |-> ToNum(SubSeq(ipv4, 8 * j - 7, 8 * j))]
        last == ToNum(psid) * 2^(16 - Len(psid))
    IN  IF fmt = "Rfc7597"
        THEN <<0, o[1] * 256 + o[2], o[3] * 256 + o[4], last>>
        ELSE <<o[1], o[2] * 256 + o[3], o[4] * 256, last>>

\* They are the CE's identifier.
LEMMA Identifier ==
    ASSUME NEW d, d.ipv4 \in Seq(Bit), Len(d.ipv4) = 32,
           d.psid \in Seq(Bit), Len(d.psid) < 16,
           NEW fmt \in {"Rfc7597", "V6Plus"}, fmt = "V6Plus" => Len(d.psid) = 8
    PROVE  Hextets(interface_id(d, fmt)) = RelayIdentifier(d.ipv4, d.psid, fmt)
<1> DEFINE id == interface_id(d, fmt)
           v == d.ipv4
           x == ToNum(d.psid)
           o == [j \in 1..4 |-> ToNum(SubSeq(v, 8 * j - 7, 8 * j))]
<1>1. id \in Seq(Bit) /\ Len(id) = 64
  <2>1. Len(d.psid) <= 16
    OBVIOUS
  <2> QED BY <2>1, InterfaceId
<1>2. x \in Nat
  BY PsidFits
<1>3. /\ o[1] = Octet(v, 0) /\ o[2] = Octet(v, 8) /\ o[3] = Octet(v, 16) /\ o[4] = Octet(v, 24)
      /\ o[1] \in Nat /\ o[2] \in Nat /\ o[3] \in Nat /\ o[4] \in Nat
  <2>1. ASSUME NEW j \in 1..4
        PROVE  /\ ToNum(SubSeq(v, 8 * j - 7, 8 * j)) = Octet(v, 8 * j - 8)
               /\ Octet(v, 8 * j - 8) \in Nat
    BY Octets
  <2>2. \A j \in 1..4 : o[j] = Octet(v, 8 * j - 8) /\ o[j] \in Nat
    BY <2>1
  <2> HIDE DEF o, v
  <2> QED BY <2>2
<1>4. RelayIdentifier(v, d.psid, fmt) =
         IF fmt = "Rfc7597"
         THEN <<0, o[1] * 256 + o[2], o[3] * 256 + o[4], x * 2^(16 - Len(d.psid))>>
         ELSE <<o[1], o[2] * 256 + o[3], o[4] * 256, x * 2^(16 - Len(d.psid))>>
  BY DEF RelayIdentifier
<1>5. Hextets(id) = <<Hextet(id, 0), Hextet(id, 16), Hextet(id, 32), Hextet(id, 48)>>
  <2> HIDE DEF id
  <2> QED BY <1>1, FourHextets
<1>6. CASE fmt = "Rfc7597"
  <2>1. /\ Hextet(id, 0) = 0
        /\ Hextet(id, 16) = 256 * Octet(v, 0) + Octet(v, 8)
        /\ Hextet(id, 32) = 256 * Octet(v, 16) + Octet(v, 24)
        /\ Hextet(id, 48) = x * PP!Pow(16 - Len(d.psid))
    BY <1>6, RfcHextets
  <2>2. PP!Pow(16 - Len(d.psid)) = 2^(16 - Len(d.psid))
    BY DEF PP!Pow
  <2>a. 256 * o[1] = o[1] * 256 /\ 256 * o[3] = o[3] * 256
    <3> HIDE DEF o
    <3> QED BY <1>3
  <2> HIDE DEF id, o, v, x
  <2>3. /\ Hextet(id, 16) = o[1] * 256 + o[2] /\ Hextet(id, 32) = o[3] * 256 + o[4]
    BY <1>3, <2>1, <2>a
  <2> QED BY <1>4, <1>5, <1>6, <2>1, <2>2, <2>3 DEF id, v
<1>7. CASE fmt = "V6Plus"
  <2>b. Len(d.psid) <= 8 /\ 16 - Len(d.psid) = 8
    <3>1. Len(d.psid) = 8
      BY <1>7
    <3> HIDE DEF id, x, o, v
    <3> QED BY <3>1
  <2>1. /\ Hextet(id, 0) = Octet(v, 0)
        /\ Hextet(id, 16) = 256 * Octet(v, 8) + Octet(v, 16)
        /\ Hextet(id, 32) = 256 * Octet(v, 24)
        /\ Hextet(id, 48) = 256 * x
    BY <1>7, <2>b, TableHextets
  <2>c. 2^(16 - Len(d.psid)) = 256
    <3>1. 2^8 = 256
      BY PortConstantsHold, PP!PowTable DEF PP!Pow
    <3> QED BY <2>b, <3>1
  <2>a. 256 * o[2] = o[2] * 256 /\ 256 * o[4] = o[4] * 256 /\ 256 * x = x * 256
    <3> HIDE DEF o, x
    <3> QED BY <1>2, <1>3
  <2> HIDE DEF id, o, v, x
  <2>3. /\ Hextet(id, 0) = o[1] /\ Hextet(id, 16) = o[2] * 256 + o[3]
        /\ Hextet(id, 32) = o[4] * 256 /\ Hextet(id, 48) = x * 256
    BY <1>3, <2>1, <2>a
  <2>5. Hextet(id, 48) = x * 2^(16 - Len(d.psid))
    BY <2>3, <2>c
  <2>4. fmt # "Rfc7597"
    BY <1>7
  <2> QED BY <1>4, <1>5, <2>3, <2>4, <2>5 DEF id, v
<1> QED BY <1>6, <1>7

\* The prefix that parameters are made of leaves room for the identifier.
LEMMA PrefixLength ==
    ASSUME NEW r \in Rule, NEW p, NEW n, NEW fmt, Right(n, p, r, fmt)
    PROVE  Len(p) <= 64
<1>a. r.length \in Nat /\ Len(r.ipv6_prefix) + r.ea_length <= 64
  BY RuleType
<1>b. Len(n.psid) = r.length
  BY DEF Right
<1>c. /\ n.psid \in Seq(Bit) /\ n.ipv4 \in [1..32 -> Bit]
       /\ r.ipv6_prefix \o SubSeq(n.ipv4, Len(r.ipv4_prefix) + 1, 32) \o n.psid = p
  BY DEF Right, MapeParams
<1>d. n.ipv4 \in Seq(Bit) /\ Len(n.ipv4) = 32
  <2>1. 32 \in Nat
    OBVIOUS
  <2> QED BY <1>c, <2>1, Word
<1> DEFINE b == SubSeq(n.ipv4, Len(r.ipv4_prefix) + 1, 32)
           c == r.ipv6_prefix
           V == 32
<1>1. /\ Len(r.ipv4_prefix) \in Nat /\ Len(r.ipv4_prefix) <= V /\ V \in Nat /\ V <= Len(n.ipv4)
      /\ V = 32
      /\ c \in Seq(Bit) /\ Len(c) \in Nat /\ r.ea_length = 32 - Len(r.ipv4_prefix) + r.length
  BY <1>d, RuleType
<1>2. b = SubSeq(n.ipv4, Len(r.ipv4_prefix) + 1, V)
  OBVIOUS
<1> HIDE DEF V, b, c
<1>3. b \in Seq(Bit) /\ Len(b) = V - Len(r.ipv4_prefix)
  <2> DEFINE l == Len(r.ipv4_prefix)
             v == n.ipv4
             w == SubSeq(v, l + 1, V)
  <2>1. l \in Nat /\ l <= V /\ V \in Nat /\ V <= Len(v) /\ b = w /\ v \in Seq(Bit)
    BY <1>d, <1>1, <1>2
  <2> HIDE DEF l, v
  <2>2. w \in Seq(Bit) /\ Len(w) = V - l
    BY <2>1, RestIs
  <2> HIDE DEF w
  <2> QED BY <2>1, <2>2 DEF l
<1>4. c \o b \in Seq(Bit) /\ Len(c \o b) = Len(c) + Len(b)
  <2>1. c \in Seq(Bit)
    BY <1>1
  <2> QED BY <1>3, <2>1, ConcatLen
<1>5. (c \o b) \o n.psid \in Seq(Bit) /\ Len((c \o b) \o n.psid) = Len(c \o b) + Len(n.psid)
  <2>1. n.psid \in Seq(Bit)
    BY <1>c
  <2> QED BY <1>4, <2>1, ConcatLen
<1>6. p = (c \o b) \o n.psid
  BY <1>c DEF b, c
<1>7. Len(c) + r.ea_length <= 64
  BY <1>a DEF c
<1>8. Len(p) = Len(c) + (V - Len(r.ipv4_prefix)) + r.length
  BY <1>b, <1>3, <1>4, <1>5, <1>6
<1>9. /\ Len(c) \in Nat /\ Len(r.ipv4_prefix) \in Nat /\ V = 32
      /\ r.ea_length = 32 - Len(r.ipv4_prefix) + r.length
  BY <1>1
<1>10. r.length \in Nat
  BY <1>a
<1>11. Len(c) + (V - Len(r.ipv4_prefix)) + r.length = Len(c) + r.ea_length
  <2> DEFINE x == Len(c)
             y == Len(r.ipv4_prefix)
             z == r.length
             e == r.ea_length
  <2>1. x \in Nat /\ y \in Nat /\ z \in Nat /\ V = 32 /\ e = 32 - y + z
    BY <1>9, <1>10
  <2> HIDE DEF x, y, z, e
  <2>2. x + (V - y) + z = x + e
    BY <2>1
  <2> QED BY <2>2 DEF x, y, z, e
<1> QED BY <1>7, <1>8, <1>11

\* The relay's address for one of its ports is the CE's.
LEMMA Relayed ==
    ASSUME NEW r \in Rule, NEW p \in Prefix, NEW n, NEW fmt \in {"Rfc7597", "V6Plus"},
           Right(n, p, r, fmt), fmt = "V6Plus" => r.length = 8,
           NEW port \in Int,
           (port \div PP!Pow(16 - r.offset - r.length)) % PP!Pow(r.length) = ToNum(n.psid)
    PROVE  Hextets(n.ce_ipv6) = RelayAddress(r, fmt, n.ipv4, port)
<1> DEFINE psid == SubSeq(ToBits(port, 16), r.offset + 1, r.offset + r.length)
           high == r.ipv6_prefix \o SubSeq(n.ipv4, Len(r.ipv4_prefix) + 1, 32) \o psid
           id == interface_id(n, fmt)
           q == Pad(p, 64)
<1>1. /\ r.length \in Nat /\ r.offset \in Nat /\ r.offset + r.length < 16
      /\ Len(r.ipv6_prefix) + r.ea_length <= 64
  BY RuleType
<1>a. Len(n.psid) = r.length
  BY DEF Right
<1>2. /\ n.psid \in Seq(Bit) /\ n.ipv4 \in [1..32 -> Bit]
      /\ n.ce_ipv6 = q \o id
      /\ r.ipv6_prefix \o SubSeq(n.ipv4, Len(r.ipv4_prefix) + 1, 32) \o n.psid = p
  BY DEF Right, MapeParams
<1>3. n.ipv4 \in Seq(Bit) /\ Len(n.ipv4) = 32
  <2>1. 32 \in Nat
    OBVIOUS
  <2> QED BY <1>2, <2>1, Word
<1>4. Len(n.psid) < 16 /\ Len(n.psid) <= 16 /\ (fmt = "V6Plus" => Len(n.psid) = 8)
  BY <1>1, <1>a
<1>5. psid = n.psid
  <2>1. n.psid \in Seq(Bit)
    BY <1>2
  <2> QED BY <1>1, <1>a, <2>1, PortBits
<1>6. high = p
  BY <1>2, <1>5
<1>7. RelayAddress(r, fmt, n.ipv4, port) = Hextets(Pad(high, 64)) \o RelayIdentifier(n.ipv4, psid, fmt)
  <2> DEFINE o == [j \in 1..4 |-> ToNum(SubSeq(n.ipv4, 8 * j - 7, 8 * j))]
             net == Hextets(Pad(high, 64))
  <2>1. RelayAddress(r, fmt, n.ipv4, port) = net \o
           IF fmt = "Rfc7597"
           THEN <<0, o[1] * 256 + o[2], o[3] * 256 + o[4], ToNum(psid) * 2^(16 - r.length)>>
           ELSE <<o[1], o[2] * 256 + o[3], o[4] * 256, ToNum(psid) * 2^(16 - r.length)>>
    BY Zenon DEF RelayAddress
  <2>2. RelayIdentifier(n.ipv4, psid, fmt) =
           IF fmt = "Rfc7597"
           THEN <<0, o[1] * 256 + o[2], o[3] * 256 + o[4], ToNum(psid) * 2^(16 - Len(psid))>>
           ELSE <<o[1], o[2] * 256 + o[3], o[4] * 256, ToNum(psid) * 2^(16 - Len(psid))>>
    BY Zenon DEF RelayIdentifier
  <2>3. Len(psid) = r.length
    BY <1>5, <1>a
  <2> HIDE DEF o, net, psid, high
  <2>4. RelayAddress(r, fmt, n.ipv4, port) = net \o RelayIdentifier(n.ipv4, psid, fmt)
    BY <2>1, <2>2, <2>3
  <2> QED BY <2>4 DEF net
<1>8. Hextets(id) = RelayIdentifier(n.ipv4, n.psid, fmt)
  BY <1>2, <1>3, <1>4, Identifier
<1>9. q \in Seq(Bit) /\ Len(q) = 64
  <2>1. p \in Seq(Bit) /\ 64 \in Nat
    BY MapConstants
  <2>2. Len(p) <= 64
    BY PrefixLength, Zenon
  <2> QED BY <2>1, <2>2, PadIs, ZenonT(30)
<1>10. id \in Seq(Bit) /\ Len(id) = 64
  <2>1. n.psid \in Seq(Bit) /\ Len(n.psid) <= 16
    BY <1>2, <1>4
  <2> QED BY <1>3, <2>1, InterfaceId
<1>11. Hextets(q \o id) = Hextets(q) \o Hextets(id)
  <2> DEFINE m == 4
  <2>1. m \in Nat /\ Len(q) = 16 * m /\ Len(id) = 16 * m
    BY <1>9, <1>10
  <2> HIDE DEF m, q, id
  <2> QED BY <1>9, <1>10, <2>1, HextetsConcat
<1> HIDE DEF high, psid, id
<1> QED BY <1>2, <1>5, <1>6, <1>7, <1>8, <1>11

-----------------------------------------------------------------------------
(* The way back *)

\* The relay's rule for an address is the one the address was made with.
LEMMA RelayFinds ==
    ASSUME NEW m \in Mode, NEW i \in DOMAIN Rules[m], NEW ipv4 \in Seq(Bit),
           contains(Rules[m][i].ipv4_prefix, ipv4)
    PROVE  RelayRule(m, ipv4) = Rules[m][i]
<1> DEFINE S == {j \in DOMAIN Rules[m] : contains(Rules[m][j].ipv4_prefix, ipv4)}
<1>1. S \subseteq Nat /\ i \in S
  BY RuleAt
<1>2. Min(S) \in S
  <2> HIDE DEF S
  <2>1. S # {}
    BY <1>1
  <2> QED BY <1>1, <2>1, Least
<1>3. ASSUME NEW j \in S PROVE j = i
  <2>1. Rules[m][i] \in Rule /\ j \in DOMAIN Rules[m] /\ Rules[m][j] \in Rule
    BY RuleAt
  <2>2. Overlap(Rules[m][j].ipv4_prefix, Rules[m][i].ipv4_prefix)
    BY <2>1, RuleType, PrefixesOverlap
  <2> QED BY <2>1, <2>2, RelayConstants
<1>4. RelayRule(m, ipv4) = Rules[m][Min(S)]
  BY DEF RelayRule
<1> HIDE DEF S
<1> QED BY <1>2, <1>3, <1>4

\* What the data path is given: a PSID that fits its length, and room for the ports.
LEMMA PortParamsType ==
    ASSUME NEW c, NEW r \in Rule, NEW p, NEW fmt, Right(params[c], p, r, fmt)
    PROVE  /\ PortParams(c) \in AnyParams
           /\ PortParams(c).offset = r.offset /\ PortParams(c).length = r.length
           /\ PortParams(c).psid = ToNum(params[c].psid)
<1> DEFINE n == params[c]
           psid == n.psid
           x == ToNum(psid)
           W == 16
<1>1. r.length \in Nat /\ r.offset \in Nat /\ r.offset + r.length < W
  BY RuleType
<1>2. Len(psid) = r.length /\ n.rule = r
  BY DEF Right
<1>3. psid \in Seq(Bit) /\ n.ipv4 \in Seq(Bit) /\ Len(n.ipv4) = 32
  <2>1. psid \in Seq(Bit) /\ n.ipv4 \in [1..32 -> Bit] /\ 32 \in Nat
    BY DEF Right, MapeParams
  <2> QED BY <2>1, Word
<1>4. x \in Nat /\ x < PP!Pow(r.length)
  <2>1. Len(n.psid) < 16
    BY <1>1, <1>2
  <2>2. ToNum(n.psid) \in Nat /\ ToNum(n.psid) < PP!Pow(Len(n.psid))
    BY <1>3, <2>1, PsidFits
  <2> QED BY <1>2, <2>2
<1>5. PortParams(c) = [offset |-> r.offset, length |-> r.length, psid |-> x]
  BY <1>2 DEF PortParams
<1> HIDE DEF W, x
<1>6. PM!Width = W /\ W \in Nat
  BY DEF PM!Width, W
<1>7. x \in PM!U16
  <2> DEFINE k == r.length
             l == 16 - k
             a == PP!Pow(k)
             b == PP!Pow(l)
  <2>1. k \in Nat /\ l \in Nat /\ k + l <= 16 /\ k + l = 16 /\ k <= 16 /\ l <= 16
    BY <1>1 DEF W
  <2> HIDE DEF k, l
  <2>2. PP!Pow(k + l) = a * b
    BY <2>1, PowerSum
  <2>3. PP!Pow(16) = 65536
    BY PortConstantsHold, PP!PowTable
  <2>4. a \in Int /\ a >= 1 /\ b \in Int /\ b >= 1
    BY <2>1, PowerType
  <2>5. a * b = 65536
    BY <2>1, <2>2, <2>3
  <2>6. x < a
    BY <1>4 DEF k
  <2>7. 2^PM!Width = 65536
    BY <2>3 DEF PM!Width, PP!Pow
  <2> HIDE DEF a, b
  <2>8. 1 * a <= b * a /\ b * a = a * b
    BY <2>4, PortConstantsHold, PP!MulMono
  <2>9. x <= 65535
    BY <1>4, <2>4, <2>5, <2>6, <2>8
  <2>10. PM!U16 = 0 .. 2^PM!Width - 1
    BY DEF PM!U16
  <2> QED BY <1>4, <2>7, <2>9, <2>10
<1>8. r.offset \in 0..PM!Width /\ r.length \in 0..PM!Width
  BY <1>1, <1>6
<1>9. x < 2^(r.length)
  BY <1>4 DEF PP!Pow
<1>10. PortParams(c) \in AnyParams
  BY <1>5, <1>7, <1>8, <1>9 DEF AnyParams
<1> QED BY <1>5, <1>10 DEF x

\* A CE's address is in its prefix.
LEMMA OwnAddress ==
    ASSUME NEW r \in Rule, NEW p \in Prefix, NEW n, NEW fmt, Right(n, p, r, fmt)
    PROVE  n.ce_ipv6 \in Seq(Bit) /\ Len(n.ce_ipv6) = 128 /\ contains(p, n.ce_ipv6)
<1> DEFINE six == n.ce_ipv6
           id == interface_id(n, fmt)
           N == 64
           q == Pad(p, N)
<1>1. six \in Seq(Bit) /\ Len(six) = 128
  <2>1. six \in [1..128 -> Bit] /\ 128 \in Nat
    BY DEF Right, MapeParams
  <2> QED BY <2>1, Word
<1>2. Len(n.psid) = r.length
  BY DEF Right
<1>3. n.psid \in Seq(Bit) /\ n.ipv4 \in Seq(Bit) /\ Len(n.ipv4) = 32
  <2>1. n.psid \in Seq(Bit) /\ n.ipv4 \in [1..32 -> Bit] /\ 32 \in Nat
    BY DEF Right, MapeParams
  <2> QED BY <2>1, Word
<1>4. id \in Seq(Bit)
  <2>1. r.length \in Nat /\ r.offset \in Nat /\ r.offset + r.length < 16
    BY RuleType
  <2>2. Len(n.psid) <= 16
    BY <1>2, <2>1
  <2>3. id \in Seq(Bit) /\ Len(id) = 64
    BY <1>3, <2>2, InterfaceId
  <2> QED BY <2>3
<1>5. p \in Seq(Bit) /\ Len(p) \in Nat /\ Len(p) <= N /\ N \in Nat
  BY PrefixLength, MapConstants
<1>6. six = q \o id
  BY DEF Right
<1> HIDE DEF N, id, six
<1>7. /\ q \in Seq(Bit) /\ Len(q) = N
      /\ \A i \in 1..N : q[i] = IF i <= Len(p) THEN p[i] ELSE 0
  BY <1>5, PadIs
<1> HIDE DEF q
<1>8. /\ q \o id \in Seq(Bit) /\ Len(q \o id) = Len(q) + Len(id)
      /\ \A i \in 1 .. Len(q) : (q \o id)[i] = q[i]
      /\ \A i \in 1 .. Len(id) : (q \o id)[Len(q) + i] = id[i]
  BY <1>4, <1>7, ConcatIs
<1> DEFINE k == Len(p)
           s == SubSeq(six, 1, k)
<1>9. k \in Nat /\ k <= Len(six)
  <2>1. N = 64
    BY DEF N
  <2>2. k \in Nat /\ k <= N
    BY <1>5
  <2> HIDE DEF k
  <2> QED BY <1>1, <2>1, <2>2
<1> HIDE DEF k
<1>10. s \in Seq(Bit) /\ Len(s) = k /\ \A i \in 1..k : s[i] = six[i]
  <2>1. six \in Seq(Bit)
    BY <1>1
  <2> QED BY <1>9, <2>1, HeadIs
<1>11. ASSUME NEW i \in 1..k PROVE s[i] = p[i]
  <2>1. i \in 1..N /\ i <= Len(p)
    BY <1>5 DEF k
  <2>2. s[i] = six[i]
    BY <1>10
  <2>3. q[i] = p[i]
    BY <1>7, <2>1
  <2>4. (q \o id)[i] = q[i]
    BY <1>7, <1>8, <2>1
  <2> QED BY <1>6, <2>2, <2>3, <2>4
<1> HIDE DEF s
<1>12. s = p
  <2>1. Len(p) = k
    BY DEF k
  <2> QED BY <1>5, <1>10, <1>11, <2>1, SeqEqual
<1>13. contains(p, six)
  BY <1>9, <1>12 DEF contains, k, s
<1> QED BY <1>1, <1>13 DEF six

\* The answer to a flow comes back to its CE and to no other, with the staging port it
\* left with: for every staging port.
LEMMA AnswerComesBack ==
    ASSUME IInv, NEW c \in CE, Current(c), AsAsserted(c),
           NEW v \in PM!try_new(PortParams(c)).staging_min .. PM!try_new(PortParams(c)).staging_max
    PROVE  Answer(c, v, RelayRule(mode, params[c].ipv4)) = {<<c, v>>}
<1> DEFINE p == lease[c]
           n == params[c]
           fmt == format(mode)
           t == PortParams(c)
           port == PM!try_egress(PM!try_new(t), v)
<1>1. /\ mode \in Mode /\ pool \in DOMAIN Pools[mode] /\ Apart /\ lease[c] # None
      /\ p \in Pools[mode][pool] /\ n # None /\ n.ce_prefix = p
  BY DEF IInv, Current
<1>2. p \in Prefix /\ p \in Seq(Bit)
  BY <1>1, PoolType
<1>3. PICK i \in FitRules(mode, p) : Right(n, p, Rules[mode][i], fmt)
  BY <1>1, InForce
<1> DEFINE r == Rules[mode][i]
           addr == RelayAddress(r, fmt, n.ipv4, port)
           at == {d \in CE : /\ lease[d] # None /\ params[d] # None
                             /\ contains(lease[d], params[d].ce_ipv6)
                             /\ Hextets(params[d].ce_ipv6) = addr}
<1>4. i \in DOMAIN Rules[mode] /\ r \in Rule
  BY <1>1, RuleAt DEF FitRules
<1>5. RelayRule(mode, n.ipv4) = r
  <2>1. n.ipv4 \in [1..32 -> Bit] /\ 32 \in Nat
    BY <1>3 DEF Right, MapeParams
  <2>2. n.ipv4 \in Seq(Bit)
    BY <2>1, Word
  <2>3. contains(r.ipv4_prefix, n.ipv4)
    BY <1>3 DEF Right
  <2> QED BY <1>1, <1>4, <2>2, <2>3, RelayFinds
<1>6. t \in AnyParams /\ t.offset = r.offset /\ t.length = r.length /\ t.psid = ToNum(n.psid)
  BY <1>3, <1>4, PortParamsType
<1>7. /\ r.length \in Nat /\ r.offset \in Nat /\ r.offset + r.length < 16
      /\ r.offset = 0 => r.length = 0
  BY <1>1, <1>4, RuleType, RelayConstants
<1>8. /\ PM!try_ingress(PM!try_new(t), port) = v /\ port \in PP!U16 /\ PP!Assigned(t, port)
  <2>1. t.offset + t.length < 16 /\ (t.offset = 0 => t.length = 0)
    BY <1>6, <1>7
  <2> HIDE DEF t
  <2>2. v \in PM!try_new(t).staging_min .. PM!try_new(t).staging_max
    BY DEF t
  <2> QED BY <1>6, <2>1, <2>2, Ports
<1> HIDE DEF t, port
<1>9. port \in Int /\ (port \div PP!Pow(16 - r.offset - r.length)) % PP!Pow(r.length) = ToNum(n.psid)
  <2>1. port \in Int
    BY <1>8 DEF PP!U16
  <2>2. PP!Width = 16
    BY DEF PP!Width
  <2>3. (port \div 2^(PP!Width - t.offset - t.length)) % 2^(t.length) = t.psid
    BY <1>8 DEF PP!Assigned
  <2> QED BY <1>6, <2>1, <2>2, <2>3 DEF PP!Pow
<1>10. fmt \in {"Rfc7597", "V6Plus"} /\ (fmt = "V6Plus" => r.length = 8)
  <2>1. n.rule = r
    BY <1>3 DEF Right
  <2>2. fmt \in {"Rfc7597", "V6Plus"}
    BY DEF format
  <2>3. build_ce_ipv6_asserts(n.rule, fmt)
    BY DEF AsAsserted
  <2> HIDE DEF fmt, r, n
  <2> QED BY <2>1, <2>2, <2>3 DEF build_ce_ipv6_asserts
<1> HIDE DEF fmt, r, p, n
<1>11. Hextets(n.ce_ipv6) = addr
  BY <1>2, <1>3, <1>4, <1>9, <1>10, Relayed DEF r
<1>12. n.ce_ipv6 \in Seq(Bit) /\ Len(n.ce_ipv6) = 128 /\ contains(p, n.ce_ipv6)
  BY <1>2, <1>3, <1>4, OwnAddress DEF r
<1> HIDE DEF addr
<1>13. c \in at
  BY <1>1, <1>11, <1>12 DEF p, n
<1>14. ASSUME NEW d \in at PROVE d = c
  <2>1. d \in CE /\ lease[d] # None /\ params[d] # None
        /\ contains(lease[d], params[d].ce_ipv6) /\ Hextets(params[d].ce_ipv6) = addr
    OBVIOUS
  <2> HIDE DEF at
  <2> DEFINE q == lease[d]
             w == params[d].ce_ipv6
             x == n.ce_ipv6
  <2>2. q \in Pools[mode][pool]
    BY <2>1 DEF IInv
  <2>3. q \in Seq(Bit)
    BY <1>1, <2>2, PoolType
  <2>4. w \in Seq(Bit) /\ Len(w) = 128
    <3>1. PICK j \in FitRules(mode, params[d].ce_prefix) :
             Right(params[d], params[d].ce_prefix, Rules[mode][j], format(mode))
      BY <2>1, InForce
    <3>2. w \in [1..128 -> Bit] /\ 128 \in Nat
      BY <3>1 DEF Right, MapeParams
    <3> QED BY <3>2, Word
  <2>5. w = x
    <3> DEFINE m == 8
    <3>1. m \in Nat /\ Len(w) = 16 * m /\ Len(x) = 16 * m
      BY <1>12, <2>4
    <3>2. w \in Seq(Bit) /\ x \in Seq(Bit) /\ Hextets(w) = Hextets(x)
      BY <1>11, <1>12, <2>1, <2>4
    <3> HIDE DEF m, w, x
    <3> QED BY <3>1, <3>2, HextetsInjective
  <2>6. x \in Seq(Bit) /\ contains(q, x) /\ contains(p, x)
    BY <1>12, <2>1, <2>5
  <2>7. Overlap(p, q)
    <3> HIDE DEF x, q
    <3> QED BY <1>2, <2>3, <2>6, PrefixesOverlap
  <2> QED BY <1>1, <2>1, <2>7 DEF Apart, p
<1>15. at = {c}
  <2> HIDE DEF at
  <2>1. at \subseteq {c}
    BY <1>14
  <2> QED BY <1>13, <2>1
<1>16. Answer(c, v, r) = {<<d, PM!try_ingress(PM!try_new(PortParams(d)), port)>> : d \in at}
  BY DEF Answer, at, addr, port, t, fmt, n
<1> HIDE DEF at
<1>17. Answer(c, v, r) = {<<c, v>>}
  BY <1>8, <1>15, <1>16 DEF t
<1> QED BY <1>5, <1>17 DEF n, r

\* AnswersReturn for all the ports of the staging range, of which a run of TLC takes the
\* first and the last.
EveryAnswerReturns ==
    \A c \in CE : Current(c) /\ AsAsserted(c) =>
        \A v \in PM!try_new(PortParams(c)).staging_min .. PM!try_new(PortParams(c)).staging_max :
            Answer(c, v, RelayRule(mode, params[c].ipv4)) = {<<c, v>>}

\* The answer to any flow of a CE whose rule has the layout's PSID length comes back,
\* whatever staging port nftables has picked for it.
THEOREM EveryPort == Spec => []EveryAnswerReturns
<1>1. IInv => EveryAnswerReturns
  BY AnswerComesBack DEF EveryAnswerReturns
<1> QED BY <1>1, Invariant, PTL

\* So the relay, which knows the rules alone, and the CE agree: extract_ea_bits,
\* derive_ipv4_and_psid, build_ce_ipv6, try_new, try_egress and try_ingress undo each
\* other, for every table of rules that a relay can tell apart, where build_ce_ipv6's
\* assertion holds.
THEOREM AnswersComeBack == Spec => []AnswersReturn
<1>1. IInv => AnswersReturn
  <2> SUFFICES ASSUME IInv, NEW c \in CE, Current(c), AsAsserted(c), NEW v \in Staging(c)
               PROVE  Answer(c, v, RelayRule(mode, params[c].ipv4)) = {<<c, v>>}
    BY DEF AnswersReturn
  <2> DEFINE t == PortParams(c)
  <2>1. mode \in Mode /\ params[c] # None
    BY DEF IInv, Current
  <2>2. PICK i \in FitRules(mode, params[c].ce_prefix) :
           Right(params[c], params[c].ce_prefix, Rules[mode][i], format(mode))
    BY <2>1, InForce
  <2> DEFINE r == Rules[mode][i]
  <2>3. r \in Rule
    BY <2>1, RuleAt DEF FitRules
  <2>4. t \in AnyParams /\ t.offset = r.offset /\ t.length = r.length
        /\ t.psid = ToNum(params[c].psid)
    BY <2>2, <2>3, PortParamsType
  <2>5. t.offset + t.length < 16
    BY <2>3, <2>4, RuleType
  <2>6. v \in {PM!try_new(t).staging_min, PM!try_new(t).staging_max}
    BY DEF Staging
  <2>7. v \in PM!try_new(t).staging_min .. PM!try_new(t).staging_max
    <3> HIDE DEF t
    <3> QED BY <2>4, <2>5, <2>6, StagingRange
  <2> QED BY <2>7, AnswerComesBack
<1> QED BY <1>1, Invariant, PTL
=============================================================================
