--------------------------- MODULE PortMapProofs ---------------------------
(***************************************************************************)
(* Proofs about PortMap, for every set of parameters, every number of      *)
(* flows and every width of a port up to that of the code (two bytes of at *)
(* most eight bits).                                                       *)
(*                                                                         *)
(* For an offset a > 0 and a length k with a + k < Width, write A = 2^a,   *)
(* P = 2^k and B = 2^(Width - a - k): a port is a number below A * P * B,  *)
(* its a bits, its PSID and its low bits are its digits in the bases A, P  *)
(* and B.  The lemmas of the first part are about such numbers and know    *)
(* nothing of powers; the second part says that the powers of PortMap are  *)
(* such numbers.                                                           *)
(***************************************************************************)
EXTENDS PortMap, TLAPS

-----------------------------------------------------------------------------
(* Numbers *)

\* Multiplication by a natural number is monotone.
LEMMA MulMono ==
    ASSUME NEW x \in Int, NEW y \in Int, NEW d \in Int, d >= 0, x <= y
    PROVE  x * d <= y * d
OBVIOUS

\* What / and % of the programs are: quotient and remainder.
LEMMA DivMod ==
    ASSUME NEW x \in Int, NEW d \in Int, d > 0
    PROVE  /\ x \div d \in Int
           /\ x % d \in 0 .. d - 1
           /\ x % d \in Int
           /\ x = (x \div d) * d + (x % d)
<1>1. x \div d \in Int /\ x % d \in 0 .. d - 1
  OBVIOUS
<1>2. x % d = x - d * (x \div d)
  OBVIOUS
<1>3. x = (x \div d) * d + (x % d)
  BY <1>1, <1>2
<1> QED BY <1>1, <1>3

\* A quotient and a remainder are the only ones.
LEMMA DivUnique ==
    ASSUME NEW q \in Int, NEW d \in Int, d > 0, NEW r \in 0 .. d - 1
    PROVE  /\ (q * d + r) \div d = q
           /\ (q * d + r) % d = r
OBVIOUS

\* Narrowing to u16 keeps a number that fits.
LEMMA SmallMod ==
    ASSUME NEW d \in Int, d > 0, NEW r \in 0 .. d - 1
    PROVE  r % d = r /\ r \div d = 0
OBVIOUS

(* The digits of a port.  M = P * B is the length of one of the A blocks.  *)

\* The arithmetic of tc_egress: block q + 1, PSID s, low bits j.  It stays below
\* the number of ports.
LEMMA Compose ==
    ASSUME NEW A \in Int, NEW P \in Int, NEW B \in Int, A >= 1, P >= 1, B >= 1,
           NEW r \in 0 .. A - 1, NEW s \in 0 .. P - 1, NEW j \in 0 .. B - 1
    PROVE  /\ P * B \in Int /\ P * B >= 1 /\ A * (P * B) \in Int /\ A * (P * B) >= 1
           /\ s * B + j \in 0 .. P * B - 1
           /\ r * (P * B) + s * B + j \in 0 .. A * (P * B) - 1
           /\ r * (P * B) + s * B + j \in Int
<1> DEFINE M == P * B
<1>1. M \in Int /\ M >= 1
  <2>1. P * B >= 1 * B
    BY MulMono
  <2> QED BY <2>1
<1>2. (s + 1) * B <= M
  BY MulMono
<1>3. s * B >= 0 /\ s * B \in Int
  BY MulMono
<1>4. s * B + j \in 0 .. M - 1
  BY <1>1, <1>2, <1>3
<1> HIDE DEF M
<1>5. (r + 1) * M <= A * M /\ r * M >= 0 /\ r * M \in Int /\ A * M \in Int
  BY <1>1, MulMono
<1>6. (r + 1) * M = r * M + M
  BY <1>1
<1>7. r * M + s * B + j \in 0 .. A * M - 1 /\ r * M + s * B + j \in Int
  BY <1>1, <1>3, <1>4, <1>5, <1>6
<1>8. A * M >= 1
  BY <1>1, <1>5, <1>6
<1> QED BY <1>1, <1>4, <1>5, <1>7, <1>8 DEF M

\* The PSID of a port: (v >> block_shift) & psid_mask.
PsidOf(v, B, P) == (v \div B) % P

\* Bases, and a number with its digits in them.
Base(A, P, B, M) ==
    /\ A \in Int /\ A >= 1 /\ P \in Int /\ P >= 1 /\ B \in Int /\ B >= 1
    /\ M \in Int /\ M = P * B
HasDigits(v, A, P, B, M, r, s, j) ==
    /\ Base(A, P, B, M)
    /\ r \in 0 .. A - 1 /\ s \in 0 .. P - 1 /\ j \in 0 .. B - 1
    /\ v = r * M + s * B + j

\* The arithmetic of tc_ingress: the block, the PSID and the low bits of a port.
LEMMA Digits ==
    ASSUME NEW A, NEW P, NEW B, NEW M, NEW v, NEW r, NEW s, NEW j,
           HasDigits(v, A, P, B, M, r, s, j)
    PROVE  /\ v \div M = r
           /\ PsidOf(v, B, P) = s
           /\ v % B = j
<1>0. /\ A \in Int /\ A >= 1 /\ P \in Int /\ P >= 1 /\ B \in Int /\ B >= 1
      /\ M \in Int /\ M = P * B
      /\ r \in 0 .. A - 1 /\ s \in 0 .. P - 1 /\ j \in 0 .. B - 1
      /\ v = r * M + s * B + j
  BY DEF HasDigits, Base
<1> USE <1>0
<1>1. M \in Int /\ M >= 1 /\ s * B + j \in 0 .. M - 1
  BY Compose
<1>2. v = r * M + (s * B + j)
  BY <1>1
<1>3. v \div M = r
  <2> QED BY <1>1, <1>2, DivUnique
<1>4. v = (r * P + s) * B + j
  <2>1. r * (P * B) = (r * P) * B /\ r * P \in Int
    OBVIOUS
  <2> QED BY <2>1
<1>5. v \div B = r * P + s /\ v % B = j
  <2> DEFINE d == r * P + s
  <2>1. d \in Int
    OBVIOUS
  <2>2. v = d * B + j
    BY <1>4
  <2> HIDE DEF d
  <2>3. (d * B + j) \div B = d /\ (d * B + j) % B = j
    BY <2>1, DivUnique
  <2> QED BY <2>2, <2>3 DEF d
<1>6. (r * P + s) % P = s
  BY DivUnique
<1> QED BY <1>3, <1>5, <1>6 DEF PsidOf

\* Every port has digits.
LEMMA Split ==
    ASSUME NEW A, NEW P, NEW B, NEW M, Base(A, P, B, M), NEW v \in 0 .. A * M - 1
    PROVE  HasDigits(v, A, P, B, M, v \div M, PsidOf(v, B, P), v % B)
<1> DEFINE e == (v \div B) \div P
           s == (v \div B) % P
           j == v % B
<1> USE DEF Base
<1>0. v \in Int
  BY Compose
<1>1. v \div B \in Int /\ j \in 0 .. B - 1 /\ v = (v \div B) * B + j
  BY <1>0, DivMod
<1>2. e \in Int /\ s \in 0 .. P - 1 /\ v \div B = e * P + s
  BY <1>1, DivMod
<1> HIDE DEF e, s, j
<1>3. v = e * M + s * B + j
  <2>1. v = (e * P + s) * B + j
    BY <1>1, <1>2
  <2>2. e * P \in Int /\ (e * P) * B = e * (P * B)
    BY <1>2
  <2> QED BY <1>1, <1>2, <2>1, <2>2
<1>4. M \in Int /\ M >= 1 /\ s * B + j \in 0 .. M - 1
  <2>1. 0 \in 0 .. A - 1
    OBVIOUS
  <2> QED BY <1>1, <1>2, <2>1, Compose
<1>5. v \div M = e
  <2>1. e * M \in Int /\ s * B \in Int
    BY <1>2, <1>4
  <2>2. v = e * M + (s * B + j)
    BY <1>1, <1>3, <2>1
  <2> QED BY <1>2, <1>4, <2>2, DivUnique
<1>6. e \in 0 .. A - 1
  <2> USE <1>2, <1>4
  <2>1. v \in 0 .. A * M - 1
    OBVIOUS
  <2>2. ~(e >= A)
    <3> SUFFICES ASSUME e >= A PROVE FALSE
      OBVIOUS
    <3>1. A * M <= e * M
      BY MulMono
    <3> QED BY <3>1, <2>1, <1>3, <1>4, <1>1
  <2>3. ~(e + 1 <= 0)
    <3> SUFFICES ASSUME e + 1 <= 0 PROVE FALSE
      OBVIOUS
    <3>1. (e + 1) * M <= 0 * M /\ (e + 1) * M = e * M + M /\ e * M \in Int
      BY MulMono
    <3> QED BY <3>1, <2>1, <1>3, <1>4, <1>1
  <2> QED BY <2>2, <2>3
<1> QED BY <1>1, <1>2, <1>3, <1>5, <1>6 DEF e, s, j, PsidOf, HasDigits

-----------------------------------------------------------------------------
(* Powers of two *)

\* 1 << n, for the shifts the code makes.
Pow(n) == 2^n

\* The powers of two of a u16 and its carry.
LEMMA PowTable ==
    /\ Pow(0) = 1
    /\ Pow(1) = 2
    /\ Pow(2) = 4
    /\ Pow(3) = 8
    /\ Pow(4) = 16
    /\ Pow(5) = 32
    /\ Pow(6) = 64
    /\ Pow(7) = 128
    /\ Pow(8) = 256
    /\ Pow(9) = 512
    /\ Pow(10) = 1024
    /\ Pow(11) = 2048
    /\ Pow(12) = 4096
    /\ Pow(13) = 8192
    /\ Pow(14) = 16384
    /\ Pow(15) = 32768
    /\ Pow(16) = 65536
BY DEF Pow

\* Shifting once more doubles.
LEMMA PowSucc ==
    ASSUME NEW n \in 0..15
    PROVE  Pow(n + 1) = 2 * Pow(n)
<1>1. n \in {0, 1, 2, 3, 4, 5, 6, 7, 8, 9, 10, 11, 12, 13, 14, 15}
  OBVIOUS
<1> QED BY <1>1, PowTable

\* A shifted 1 is a positive number.
LEMMA PowPos ==
    ASSUME NEW n \in 0..16
    PROVE  Pow(n) \in Int /\ Pow(n) >= 1
<1>1. n \in {0, 1, 2, 3, 4, 5, 6, 7, 8, 9, 10, 11, 12, 13, 14, 15, 16}
  OBVIOUS
<1> QED BY <1>1, PowTable

\* Shifting by m and then by n is shifting by m + n.
LEMMA PowAdd ==
    ASSUME NEW m \in 0..16, NEW n \in 0..16, m + n <= 16
    PROVE  Pow(m + n) = Pow(m) * Pow(n)
<1> DEFINE Law(i) == m + i <= 16 => Pow(m + i) = Pow(m) * Pow(i)
<1>0. Law(0)
  BY PowTable, PowPos
<1>s. ASSUME NEW i \in 0..15, Law(i) PROVE Law(i + 1)
  <2> SUFFICES ASSUME m + i <= 15 PROVE Pow(m + (i + 1)) = Pow(m) * Pow(i + 1)
    OBVIOUS
  <2>1. m + i \in 0..15 /\ (m + i) + 1 = m + (i + 1)
    OBVIOUS
  <2>2. Pow(m + (i + 1)) = 2 * Pow(m + i)
    BY <2>1, PowSucc
  <2>3. Pow(i + 1) = 2 * Pow(i)
    BY PowSucc
  <2>4. Pow(m + i) = Pow(m) * Pow(i)
    BY <1>s
  <2> QED BY <2>2, <2>3, <2>4, PowPos
<1> HIDE DEF Law
<1>1. Law(1)
  BY <1>0, <1>s, 0 + 1 = 1
<1>2. Law(2)
  BY <1>1, <1>s, 1 + 1 = 2
<1>3. Law(3)
  BY <1>2, <1>s, 2 + 1 = 3
<1>4. Law(4)
  BY <1>3, <1>s, 3 + 1 = 4
<1>5. Law(5)
  BY <1>4, <1>s, 4 + 1 = 5
<1>6. Law(6)
  BY <1>5, <1>s, 5 + 1 = 6
<1>7. Law(7)
  BY <1>6, <1>s, 6 + 1 = 7
<1>8. Law(8)
  BY <1>7, <1>s, 7 + 1 = 8
<1>9. Law(9)
  BY <1>8, <1>s, 8 + 1 = 9
<1>10. Law(10)
  BY <1>9, <1>s, 9 + 1 = 10
<1>11. Law(11)
  BY <1>10, <1>s, 10 + 1 = 11
<1>12. Law(12)
  BY <1>11, <1>s, 11 + 1 = 12
<1>13. Law(13)
  BY <1>12, <1>s, 12 + 1 = 13
<1>14. Law(14)
  BY <1>13, <1>s, 13 + 1 = 14
<1>15. Law(15)
  BY <1>14, <1>s, 14 + 1 = 15
<1>16. Law(16)
  BY <1>15, <1>s, 15 + 1 = 16
<1>17. n \in {0, 1, 2, 3, 4, 5, 6, 7, 8, 9, 10, 11, 12, 13, 14, 15, 16}
  OBVIOUS
<1>18. Law(n)
  BY <1>0, <1>1, <1>2, <1>3, <1>4, <1>5, <1>6, <1>7, <1>8, <1>9, <1>10, <1>11, <1>12,
     <1>13, <1>14, <1>15, <1>16, <1>17
<1> QED BY <1>18 DEF Law

-----------------------------------------------------------------------------
(* The operators of PortMap, in digits *)

\* The three bases, and the parameters the programs translate for.
BaseA(p) == Pow(p.offset)
BaseP(p) == Pow(p.length)
BaseB(p) == Pow(Width - p.offset - p.length)
Block(p) == BaseP(p) * BaseB(p)
Translated(p) == p \in Params /\ p.offset > 0 /\ p.offset + p.length < Width

\* What the rules can lead to.
LEMMA ParamsType ==
    /\ Width \in 2..16
    /\ U16 = 0 .. Pow(Width) - 1
    /\ \A p \in Params :
          /\ p.offset \in 0..Width /\ p.length \in 0..Width
          /\ p.offset \in 0..16 /\ p.length \in 0..16
          /\ p.psid \in U16 /\ p.psid \in 0 .. Pow(p.length) - 1
<1>1. Width \in 2..16
  BY PortConstants DEF Width
<1>2. U16 = 0 .. Pow(Width) - 1
  BY DEF U16, Pow
<1>3. ASSUME NEW p \in Params
      PROVE  /\ p.offset \in 0..Width /\ p.length \in 0..Width
             /\ p.psid \in U16 /\ p.psid < Pow(p.length)
  BY PortConstants DEF Pow
<1>4. ASSUME NEW p \in Params
      PROVE  p.psid \in 0 .. Pow(p.length) - 1 /\ p.offset \in 0..16 /\ p.length \in 0..16
  <2>1. p.offset \in 0..16 /\ p.length \in 0..16
    BY <1>1, <1>3
  <2>2. Pow(p.length) \in Int /\ Pow(Width) \in Int
    BY <1>1, <2>1, PowPos
  <2> QED BY <1>2, <1>3, <2>1, <2>2
<1> QED BY <1>1, <1>2, <1>3, <1>4

\* The bases multiply to the number of ports.
LEMMA Bases ==
    ASSUME NEW p, Translated(p)
    PROVE  /\ BaseA(p) \in Int /\ BaseA(p) >= 2
           /\ BaseP(p) \in Int /\ BaseP(p) >= 1
           /\ BaseB(p) \in Int /\ BaseB(p) >= 1
           /\ Pow(Width - p.offset) = Block(p)
           /\ Pow(Width) = BaseA(p) * Block(p)
           /\ p.psid \in 0 .. BaseP(p) - 1
<1> DEFINE a == p.offset
           k == p.length
           n == Width - p.offset - p.length
<1>1. Width \in 2..16 /\ a \in 1..16 /\ k \in 0..16 /\ a + k < Width
  BY ParamsType DEF Translated
<1>2. n \in 1..16 /\ k + n = Width - p.offset /\ a + (k + n) = Width /\ k + n \in 0..16
  <2>1. ASSUME NEW w \in 2..16, NEW x \in 1..16, NEW y \in 0..16, x + y < w
        PROVE  /\ w - x - y \in 1..16 /\ y + (w - x - y) = w - x /\ x + (y + (w - x - y)) = w
               /\ y + (w - x - y) \in 0..16
    BY <2>1
  <2> QED BY <1>1, <2>1
<1>3. Pow(k + n) = Pow(k) * Pow(n) /\ Pow(a + (k + n)) = Pow(a) * Pow(k + n)
  <2> HIDE DEF a, k, n
  <2> QED BY <1>1, <1>2, PowAdd
<1>4. Pow(a) \in Int /\ Pow(k) \in Int /\ Pow(k) >= 1 /\ Pow(n) \in Int /\ Pow(n) >= 1
  <2> HIDE DEF a, k, n
  <2> QED BY <1>1, <1>2, PowPos
<1>5. Pow(a) >= 2
  <2>1. a - 1 \in 0..15 /\ a - 1 \in 0..16 /\ (a - 1) + 1 = a
    BY <1>1
  <2>2. Pow(a - 1) >= 1 /\ Pow(a - 1) \in Int
    BY <2>1, PowPos
  <2>3. Pow(a) = 2 * Pow(a - 1)
    BY <2>1, PowSucc
  <2> QED BY <2>2, <2>3
<1> QED BY <1>2, <1>3, <1>4, <1>5, ParamsType DEF BaseA, BaseP, BaseB, Block, Translated

\* PsidConfig::try_new: no narrowing loses anything, and the staging range has
\* one port for each of the A - 1 blocks and each value of the low bits.
LEMMA TryNew ==
    ASSUME NEW p, Translated(p)
    PROVE  try_new(p) = [offset |-> p.offset, length |-> p.length, psid |-> p.psid,
                         block_shift |-> Width - p.offset - p.length,
                         staging_min |-> Block(p),
                         staging_max |-> Block(p) + (BaseA(p) - 1) * BaseB(p) - 1]
<1> DEFINE A == BaseA(p)
           P == BaseP(p)
           B == BaseB(p)
           M == Block(p)
           N == Pow(Width)
<1>1. /\ A \in Int /\ A >= 2 /\ P \in Int /\ P >= 1 /\ B \in Int /\ B >= 1
      /\ Pow(Width - p.offset) = M /\ N = A * M
  BY Bases
<1>2. ~(p.offset + p.length > Width) /\ p.offset # 0
  BY ParamsType DEF Translated
<1>3. try_new(p) = [offset |-> p.offset, length |-> p.length, psid |-> p.psid,
                    block_shift |-> Width - p.offset - p.length,
                    staging_min |-> Pow(Width - p.offset) % N,
                    staging_max |-> ((Pow(Width - p.offset) % N) + (A - 1) * B - 1) % N]
  BY <1>2 DEF try_new, Pow, BaseA, BaseB
<1>4. M \in Int /\ M >= 1 /\ B <= M
  <2>1. 1 * B <= P * B
    BY <1>1, MulMono
  <2> QED BY <1>1, <2>1 DEF Block
<1>5. N \in Int /\ M \in 0 .. N - 1 /\ N > 0
  <2> HIDE DEF A, M, N
  <2>1. 2 * M <= A * M
    BY <1>1, <1>4, MulMono
  <2> QED BY <1>1, <1>4, <2>1
<1>6. M % N = M
  <2> HIDE DEF M, N
  <2> QED BY <1>5, SmallMod
<1>7. M + (A - 1) * B - 1 \in 0 .. N - 1
  <2> HIDE DEF A, B, M, N
  <2>1. 1 * B <= (A - 1) * B
    BY <1>1, MulMono
  <2>2. B * (A - 1) <= M * (A - 1)
    BY <1>1, <1>4, MulMono
  <2>3. (A - 1) * B = B * (A - 1) /\ (A - 1) * B \in Int /\ A * M = M + M * (A - 1)
    BY <1>1, <1>4
  <2> QED BY <1>1, <1>4, <2>1, <2>2, <2>3
<1>8. (M + (A - 1) * B - 1) % N = M + (A - 1) * B - 1
  <2> HIDE DEF A, B, M, N
  <2> QED BY <1>5, <1>7, SmallMod
<1> QED BY <1>1, <1>3, <1>6, <1>8

\* Every port of the staging range is a block and a value of the low bits.
LEMMA StagingDigits ==
    ASSUME NEW p, Translated(p), NEW v \in try_new(p).staging_min .. try_new(p).staging_max
    PROVE  /\ v \in Int
           /\ \E r \in 1 .. BaseA(p) - 1, j \in 0 .. BaseB(p) - 1 :
                 v = Block(p) + (r - 1) * BaseB(p) + j
<1> DEFINE A == BaseA(p)
           B == BaseB(p)
           M == Block(p)
           q == (v - M) \div B
           j == (v - M) % B
<1>1. A \in Int /\ A >= 2 /\ B \in Int /\ B >= 1 /\ M \in Int
  <2>1. BaseP(p) \in Int /\ BaseP(p) >= 1
    BY Bases
  <2> QED BY <2>1, Bases DEF Block
<1>2. (A - 1) * B \in Int
  <2> HIDE DEF A, B
  <2> QED BY <1>1
<1>3. v \in M .. M + (A - 1) * B - 1
  BY TryNew
<1>4. v \in Int /\ v - M \in 0 .. (A - 1) * B - 1
  <2> HIDE DEF A, B, M
  <2> QED BY <1>1, <1>2, <1>3
<1>5. q \in Int /\ j \in 0 .. B - 1 /\ v - M = q * B + j
  <2> HIDE DEF A, B, M
  <2> QED BY <1>1, <1>4, DivMod
<1>6. q \in 0 .. A - 2
  <2> HIDE DEF A, B, M, q, j
  <2>1. ~(q >= A - 1)
    <3> SUFFICES ASSUME q >= A - 1 PROVE FALSE
      OBVIOUS
    <3>1. (A - 1) * B <= q * B /\ q * B \in Int
      BY <1>1, <1>5, MulMono
    <3> QED BY <1>1, <1>2, <1>4, <1>5, <3>1
  <2>2. ~(q + 1 <= 0)
    <3> SUFFICES ASSUME q + 1 <= 0 PROVE FALSE
      OBVIOUS
    <3>1. (q + 1) * B <= 0 * B /\ (q + 1) * B = q * B + B /\ q * B \in Int
      BY <1>1, <1>5, MulMono
    <3> QED BY <1>1, <1>2, <1>4, <1>5, <3>1
  <2> QED BY <1>1, <1>5, <2>1, <2>2
<1>7. q + 1 \in 1 .. A - 1 /\ v = M + ((q + 1) - 1) * B + j
  <2> HIDE DEF A, B, M, q, j
  <2>1. (q + 1) - 1 = q /\ q * B \in Int
    BY <1>1, <1>5
  <2> QED BY <1>1, <1>4, <1>5, <1>6, <2>1
<1> HIDE DEF q, j
<1> QED BY <1>4, <1>5, <1>7

\* The two programs on a block r and low bits j: tc_egress translates the staging
\* port, its result has the PSID and is below 2^Width, and tc_ingress translates
\* it back.
LEMMA RoundTrip ==
    ASSUME NEW p, Translated(p), NEW r \in 1 .. BaseA(p) - 1, NEW j \in 0 .. BaseB(p) - 1,
           NEW v, v = Block(p) + (r - 1) * BaseB(p) + j,
           NEW u, u = r * Block(p) + p.psid * BaseB(p) + j
    PROVE  LET c == try_new(p)
           IN  /\ v \in c.staging_min .. c.staging_max /\ v \in U16 /\ u \in U16
               /\ psid_val(c, v) = u /\ staging_val(c, u) = v
               /\ ~EgressPasses(c, v) /\ ~IngressPasses(c, u)
               /\ Assigned(p, u)
<1> DEFINE A == BaseA(p)
           P == BaseP(p)
           B == BaseB(p)
           M == Block(p)
           N == Pow(Width)
           c == try_new(p)
<1> USE TryNew
<1>1. /\ A \in Int /\ A >= 2 /\ P \in Int /\ P >= 1 /\ B \in Int /\ B >= 1
      /\ Pow(Width - p.offset) = M /\ N = A * M /\ M = P * B /\ p.psid \in 0 .. P - 1
  BY Bases DEF Block
<1>2. /\ c.offset = p.offset /\ c.length = p.length /\ c.psid = p.psid
      /\ c.block_shift = Width - p.offset - p.length
      /\ c.staging_min = M /\ c.staging_max = M + (A - 1) * B - 1
      /\ Pow(c.block_shift) = B /\ Pow(Width - c.offset) = M /\ Pow(c.length) = P
  BY <1>1 DEF BaseB, BaseP
<1>3. p.offset # 0 /\ c.offset # 0
  BY <1>2, ParamsType DEF Translated
<1> HIDE TryNew
<1> HIDE DEF A, P, B, M, N, c
<1>r. r \in 1 .. A - 1 /\ r \in 0 .. A - 1 /\ j \in 0 .. B - 1
  BY <1>1 DEF A, B
<1>v. v = M + (r - 1) * B + j
  BY DEF M, B
<1>u. u = r * M + p.psid * B + j
  BY DEF M, B
<1>4. M \in Int /\ M >= 1 /\ N \in Int /\ N >= 1 /\ u \in 0 .. N - 1 /\ u \in Int
  BY <1>1, <1>r, <1>u, Compose
<1>5. u \div M = r /\ PsidOf(u, B, P) = p.psid /\ u % B = j
  <2>1. HasDigits(u, A, P, B, M, r, p.psid, j)
    BY <1>1, <1>r, <1>u, <1>4 DEF HasDigits, Base
  <2> QED BY <2>1, Digits
<1>6. v - M = (r - 1) * B + j /\ v \in Int
  <2>1. (r - 1) * B \in Int
    BY <1>1, <1>r
  <2> QED BY <1>1, <1>r, <1>4, <1>v, <2>1
<1>7. (v - M) \div B = r - 1 /\ (v - M) % B = j
  <2>1. r - 1 \in Int
    BY <1>r
  <2>2. ((r - 1) * B + j) \div B = r - 1 /\ ((r - 1) * B + j) % B = j
    BY <1>1, <1>r, <2>1, DivUnique
  <2> QED BY <1>6, <2>2
<1>8. v \in M .. M + (A - 1) * B - 1
  <2>1. ((r - 1) + 1) * B <= (A - 1) * B /\ 0 * B <= (r - 1) * B
    BY <1>1, <1>r, MulMono
  <2>2. (r - 1) * B \in Int /\ (A - 1) * B \in Int /\ ((r - 1) + 1) * B = (r - 1) * B + B
    BY <1>1, <1>r
  <2> QED BY <1>1, <1>4, <1>r, <1>v, <2>1, <2>2
<1>9. v \in 0 .. N - 1
  <2>1. B * (A - 1) <= M * (A - 1)
    <3>1. 1 * B <= P * B
      BY <1>1, MulMono
    <3> QED BY <1>1, <1>4, <3>1, MulMono
  <2>2. (A - 1) * B = B * (A - 1) /\ (A - 1) * B \in Int /\ A * M = M + M * (A - 1)
    BY <1>1, <1>4
  <2> QED BY <1>1, <1>4, <1>8, <2>1, <2>2
<1>10. u % N = u /\ v % N = v
  BY <1>4, <1>9, SmallMod
<1>11. psid_val(c, v) = u
  <2>1. psid_val(c, v) =
           (((v - M) \div B + 1) * M + p.psid * B + ((v - M) % B)) % N
    BY <1>2 DEF psid_val, Pow, N
  <2>2. (r - 1) + 1 = r
    BY <1>r
  <2> QED BY <1>7, <1>10, <1>u, <2>1, <2>2
<1>12. staging_val(c, u) = v
  <2>1. staging_val(c, u) = (M + ((u \div M) - 1) * B + (u % B)) % N
    BY <1>2 DEF staging_val, Pow, N
  <2> QED BY <1>5, <1>10, <1>v, <2>1
<1>13. ~EgressPasses(c, v)
  BY <1>2, <1>3, <1>1, <1>4, <1>8 DEF EgressPasses
<1>14. ~IngressPasses(c, u)
  <2>1. IngressPasses(c, u) <=> \/ c.offset = 0 \/ u \div M = 0 \/ PsidOf(u, B, P) # p.psid
    BY <1>2 DEF IngressPasses, PsidOf, Pow
  <2> QED BY <1>3, <1>5, <1>r, <2>1
<1>15. Assigned(p, u)
  <2>1. Assigned(p, u) <=> /\ u # 0
                           /\ p.offset > 0 => u \div M # 0
                           /\ PsidOf(u, B, P) = p.psid
    BY <1>2 DEF Assigned, PsidOf, Pow
  <2>2. u # 0
    <3>1. 0 \div M = 0
      BY <1>4, SmallMod
    <3> QED BY <1>5, <1>r, <3>1
  <2> QED BY <1>5, <1>r, <2>1, <2>2
<1>16. U16 = 0 .. N - 1
  BY ParamsType DEF N
<1> QED BY <1>2, <1>4, <1>8, <1>9, <1>11, <1>12, <1>13, <1>14, <1>15, <1>16 DEF c

\* tc_ingress's view: a port with the CE's PSID outside the excluded block comes
\* from one staging port.
LEMMA AssignedHasStaging ==
    ASSUME NEW p, Translated(p), NEW u \in U16, Assigned(p, u)
    PROVE  \E r \in 1 .. BaseA(p) - 1, j \in 0 .. BaseB(p) - 1 :
              u = r * Block(p) + p.psid * BaseB(p) + j
<1> DEFINE A == BaseA(p)
           P == BaseP(p)
           B == BaseB(p)
           M == Block(p)
<1>1. /\ A \in Int /\ A >= 2 /\ A >= 1 /\ P \in Int /\ P >= 1 /\ B \in Int /\ B >= 1
      /\ Pow(Width - p.offset) = M /\ Pow(Width) = A * M /\ M = P * B
  BY Bases DEF Block
<1>2. p.offset > 0
  BY DEF Translated
<1>3. u \div M # 0 /\ PsidOf(u, B, P) = p.psid
  <2>1. Assigned(p, u) => u \div Pow(Width - p.offset) # 0 /\ PsidOf(u, B, P) = p.psid
    BY <1>2 DEF Assigned, PsidOf, Pow, BaseB, BaseP
  <2> QED BY <1>1, <2>1
<1>4. u \in 0 .. A * M - 1
  BY <1>1, ParamsType
<1> HIDE DEF A, P, B, M
<1>5. /\ u \div M \in 0 .. A - 1 /\ u % B \in 0 .. B - 1
      /\ u = (u \div M) * M + PsidOf(u, B, P) * B + (u % B)
  <2>1. Base(A, P, B, M)
    BY <1>1 DEF Base
  <2>2. HasDigits(u, A, P, B, M, u \div M, PsidOf(u, B, P), u % B)
    BY <1>4, <2>1, Split
  <2> QED BY <2>2 DEF HasDigits
<1>6. u \div M \in 1 .. A - 1 /\ u = (u \div M) * M + p.psid * B + (u % B)
  BY <1>1, <1>3, <1>5
<1> QED BY <1>5, <1>6 DEF A, B, M

\* Without an offset the programs pass every packet.
LEMMA NoOffset ==
    ASSUME NEW p \in Params, p.offset = 0
    PROVE  /\ try_new(p) = [offset |-> 0, length |-> p.length, psid |-> p.psid,
                            block_shift |-> 0, staging_min |-> 1,
                            staging_max |-> Pow(Width) - 1]
           /\ \A v : EgressPasses(try_new(p), v) /\ IngressPasses(try_new(p), v)
<1>1. ~(p.offset + p.length > Width)
  BY ParamsType
<1>2. try_new(p) = [offset |-> 0, length |-> p.length, psid |-> p.psid,
                    block_shift |-> 0, staging_min |-> 1, staging_max |-> Pow(Width) - 1]
  BY <1>1 DEF try_new, Pow
<1>3. try_new(p).offset = 0
  BY <1>2
<1> QED BY <1>2, <1>3 DEF EgressPasses, IngressPasses

\* Whatever the parameters, the staging range lies within the ports.
LEMMA StagingInU16 ==
    ASSUME NEW p \in Params, p.offset + p.length < Width,
           NEW v \in try_new(p).staging_min .. try_new(p).staging_max
    PROVE  v \in U16 /\ v # 0
<1>1. CASE p.offset = 0
  <2>1. v \in 1 .. Pow(Width) - 1
    BY <1>1, NoOffset
  <2>2. Pow(Width) \in Int
    <3>1. Width \in 0..16
      BY ParamsType
    <3> QED BY <3>1, PowPos
  <2> QED BY <2>1, <2>2, ParamsType
<1>2. CASE p.offset > 0
  <2>1. Translated(p)
    BY <1>2 DEF Translated
  <2>2. PICK r \in 1 .. BaseA(p) - 1, j \in 0 .. BaseB(p) - 1 :
               v = Block(p) + (r - 1) * BaseB(p) + j
    BY <2>1, StagingDigits
  <2>3. v \in U16
    BY <2>1, <2>2, RoundTrip
  <2>4. v # 0
    <3>1. try_new(p).staging_min = Block(p) /\ BaseP(p) \in Int /\ BaseP(p) >= 1
          /\ BaseB(p) \in Int /\ BaseB(p) >= 1 /\ v \in Int
      BY <2>1, TryNew, Bases, StagingDigits
    <3>2. 1 * BaseB(p) <= BaseP(p) * BaseB(p)
      BY <3>1, MulMono
    <3>3. Block(p) \in Int /\ Block(p) >= 1
      BY <3>1, <3>2 DEF Block
    <3>4. BaseA(p) \in Int /\ 0 * BaseB(p) <= (r - 1) * BaseB(p) /\ (r - 1) * BaseB(p) \in Int
      BY <2>1, <3>1, Bases, MulMono
    <3> QED BY <2>2, <3>1, <3>3, <3>4
  <2> QED BY <2>3, <2>4
<1> QED BY <1>1, <1>2, ParamsType

-----------------------------------------------------------------------------
(* Types *)

\* The two bytes of a field in the other order are a u16 again.
LEMMA SwapNumbers ==
    ASSUME NEW b \in Int, b >= 1, NEW h \in 0 .. b - 1, NEW l \in 0 .. b - 1
    PROVE  l * b + h \in 0 .. b * b - 1 /\ l * b + h \in Int
<1>1. (l + 1) * b <= b * b /\ 0 * b <= l * b
  BY MulMono
<1>2. l * b \in Int /\ b * b \in Int /\ (l + 1) * b = l * b + b
  OBVIOUS
<1> QED BY <1>1, <1>2

\* A u16 is a high and a low byte.
LEMMA Bytes ==
    ASSUME NEW v \in U16
    PROVE  /\ v \in Int /\ Pow(ByteBits) \in Int /\ Pow(ByteBits) >= 2
           /\ Pow(Width) = Pow(ByteBits) * Pow(ByteBits)
           /\ v \div Pow(ByteBits) \in 0 .. Pow(ByteBits) - 1
           /\ v % Pow(ByteBits) \in 0 .. Pow(ByteBits) - 1
           /\ v = (v \div Pow(ByteBits)) * Pow(ByteBits) + (v % Pow(ByteBits))
<1> DEFINE b == Pow(ByteBits)
<1>1. ByteBits \in 1..8 /\ ByteBits \in 0..16 /\ Width = ByteBits + ByteBits
      /\ ByteBits + ByteBits <= 16 /\ ByteBits - 1 \in 0..15 /\ ByteBits - 1 \in 0..16
      /\ (ByteBits - 1) + 1 = ByteBits
  BY PortConstants DEF Width
<1>2. b \in Int /\ Pow(Width) = b * b
  BY <1>1, PowPos, PowAdd
<1>3. b >= 2
  <2>1. Pow(ByteBits - 1) \in Int /\ Pow(ByteBits - 1) >= 1
    BY <1>1, PowPos
  <2>2. b = 2 * Pow(ByteBits - 1)
    BY <1>1, PowSucc
  <2> QED BY <2>1, <2>2
<1>4. v \in 0 .. b * b - 1
  BY <1>2, ParamsType
<1> HIDE DEF b
<1>5. v \in Int /\ b * b \in Int
  BY <1>2, <1>4
<1> DEFINE h == v \div b
           l == v % b
<1>6. h \in Int /\ l \in 0 .. b - 1 /\ v = h * b + l
  BY <1>2, <1>3, <1>5, DivMod
<1> HIDE DEF h, l
<1>7. h \in 0 .. b - 1
  <2>1. ~(h >= b)
    <3> SUFFICES ASSUME h >= b PROVE FALSE
      OBVIOUS
    <3>1. b * b <= h * b /\ h * b \in Int
      BY <1>2, <1>3, <1>6, MulMono
    <3> QED BY <1>2, <1>4, <1>5, <1>6, <3>1
  <2>2. ~(h + 1 <= 0)
    <3> SUFFICES ASSUME h + 1 <= 0 PROVE FALSE
      OBVIOUS
    <3>1. (h + 1) * b <= 0 * b /\ (h + 1) * b = h * b + b /\ h * b \in Int
      BY <1>2, <1>3, <1>6, MulMono
    <3> QED BY <1>2, <1>4, <1>5, <1>6, <3>1
  <2> QED BY <1>2, <1>6, <2>1, <2>2
<1> QED BY <1>2, <1>3, <1>5, <1>6, <1>7 DEF b, h, l

\* ctx.load and ctx.store handle u16s, in either byte order.
LEMMA LoadStoreType ==
    ASSUME NEW v \in U16
    PROVE  SwapBytes(v) \in U16 /\ load(v) \in U16 /\ store(v) \in U16
<1> DEFINE b == Pow(ByteBits)
           h == v \div b
           l == v % b
<1>1. b \in Int /\ b >= 1 /\ h \in 0 .. b - 1 /\ l \in 0 .. b - 1 /\ Pow(Width) = b * b
  BY Bytes
<1>2. SwapBytes(v) = l * b + h
  BY DEF SwapBytes, Pow
<1>3. U16 = 0 .. b * b - 1
  BY <1>1, ParamsType
<1> HIDE DEF b, h, l
<1>4. SwapBytes(v) \in U16
  BY <1>1, <1>2, <1>3, SwapNumbers
<1> QED BY <1>4 DEF load, store

\* The shifts of a port's width are within the table of powers.
LEMMA Shifts ==
    ASSUME NEW w \in 2..16, NEW x \in 0..w
    PROVE  /\ x \in 0..16 /\ w - x \in 0..16 /\ w - x \in 0..w
           /\ \A y \in 0..w : x + y < w => w - x - y \in 0..16 /\ w - x - y \in 0..w
OBVIOUS

\* The type of PsidConfig.
CfgType == [offset : 0..Width, length : 0..Width, psid : U16, block_shift : 0..Width,
            staging_min : U16, staging_max : U16]

\* The constructor narrows to u16, so its result is a PsidConfig.
LEMMA TryNewType ==
    ASSUME NEW p \in Params, p.offset + p.length < Width
    PROVE  try_new(p) \in CfgType
<1> DEFINE N == Pow(Width)
<1>1. Width \in 2..16 /\ p.offset \in 0..Width /\ p.length \in 0..Width /\ p.psid \in U16
      /\ p.offset \in 0..16 /\ U16 = 0 .. N - 1
  BY ParamsType
<1>2. N \in Int /\ N >= 2
  <2>1. Width - 1 \in 0..15 /\ Width - 1 \in 0..16 /\ (Width - 1) + 1 = Width /\ Width \in 0..16
    BY <1>1
  <2>2. Pow(Width - 1) \in Int /\ Pow(Width - 1) >= 1 /\ Pow(Width) \in Int
    BY <2>1, PowPos
  <2>3. Pow(Width) = 2 * Pow(Width - 1)
    BY <2>1, PowSucc
  <2> QED BY <2>2, <2>3
<1>3. CASE p.offset = 0
  <2>1. try_new(p) = [offset |-> 0, length |-> p.length, psid |-> p.psid,
                      block_shift |-> 0, staging_min |-> 1, staging_max |-> N - 1]
    BY <1>3, NoOffset
  <2>2. 1 \in U16 /\ N - 1 \in U16 /\ 0 \in 0..Width
    <3> HIDE DEF N
    <3> QED BY <1>1, <1>2
  <2> HIDE DEF N
  <2> QED BY <1>1, <2>1, <2>2 DEF CfgType
<1>4. CASE p.offset > 0
  <2> DEFINE min   == Pow(Width - p.offset) % N
             shift == Width - p.offset - p.length
             max   == (min + (BaseA(p) - 1) * Pow(shift) - 1) % N
  <2>1. try_new(p) = [offset |-> p.offset, length |-> p.length, psid |-> p.psid,
                      block_shift |-> shift, staging_min |-> min, staging_max |-> max]
    <3>1. ~(p.offset + p.length > Width) /\ p.offset # 0
      BY <1>1, <1>4
    <3> QED BY <3>1 DEF try_new, Pow, BaseA
  <2>2. Width - p.offset \in 0..16 /\ shift \in 0..16 /\ shift \in 0..Width
    BY <1>1, Shifts
  <2>3. Pow(Width - p.offset) \in Int /\ Pow(shift) \in Int /\ BaseA(p) \in Int
    <3> HIDE DEF shift
    <3> QED BY <1>1, <2>2, PowPos DEF BaseA
  <2> HIDE DEF N, shift
  <2>4. min \in 0 .. N - 1 /\ min \in Int
    BY <1>2, <2>3, DivMod
  <2> HIDE DEF min
  <2>5. min + (BaseA(p) - 1) * Pow(shift) - 1 \in Int
    BY <2>3, <2>4
  <2>6. max \in 0 .. N - 1
    BY <1>2, <2>5, DivMod
  <2> HIDE DEF max
  <2> QED BY <1>1, <2>1, <2>2, <2>4, <2>6 DEF CfgType
<1> QED BY <1>1, <1>3, <1>4

\* The programs compute in u16.
LEMMA ValsType ==
    ASSUME NEW c \in CfgType, NEW v \in U16
    PROVE  psid_val(c, v) \in U16 /\ staging_val(c, v) \in U16
<1> DEFINE B == Pow(c.block_shift)
           M == Pow(Width - c.offset)
           N == Pow(Width)
           i == v - c.staging_min
<1>1. /\ Width \in 2..16 /\ U16 = 0 .. N - 1 /\ Width \in 0..16
      /\ c.block_shift \in 0..Width /\ c.offset \in 0..Width
      /\ c.psid \in U16 /\ c.staging_min \in U16
  BY ParamsType DEF CfgType
<1>2. c.block_shift \in 0..16 /\ Width - c.offset \in 0..16
  <2> HIDE DEF N
  <2> QED BY <1>1, Shifts
<1>3. B \in Int /\ B >= 1 /\ M \in Int /\ M >= 1 /\ N \in Int /\ N >= 1
  BY <1>1, <1>2, PowPos
<1>4. c.psid \in Int /\ c.staging_min \in Int /\ v \in Int /\ i \in Int
  <2> HIDE DEF N
  <2> QED BY <1>1, <1>3
<1>5. psid_val(c, v) = ((i \div B + 1) * M + c.psid * B + (i % B)) % N
  BY DEF psid_val, Pow
<1>6. staging_val(c, v) = (c.staging_min + (v \div M - 1) * B + (v % B)) % N
  BY DEF staging_val, Pow
<1> HIDE DEF B, M, N, i
<1>7. i \div B \in Int /\ i % B \in Int /\ v \div M \in Int /\ v % B \in Int
  BY <1>3, <1>4, DivMod
<1>8. /\ (i \div B + 1) * M + c.psid * B + (i % B) \in Int
      /\ c.staging_min + (v \div M - 1) * B + (v % B) \in Int
  <2>1. ASSUME NEW x \in Int, NEW y \in Int, NEW z \in Int, NEW w \in Int, NEW m \in Int,
               NEW t \in Int
        PROVE  (x + 1) * m + y * t + z \in Int /\ w + (x - 1) * t + z \in Int
    OBVIOUS
  <2> QED BY <1>3, <1>4, <1>7, <2>1
<1>9. ASSUME NEW x \in Int PROVE x % N \in U16
  BY <1>1, <1>3, DivMod
<1> QED BY <1>5, <1>6, <1>8, <1>9

\* So the field that leaves a program is a u16.
LEMMA ProgramsType ==
    ASSUME NEW c \in CfgType, NEW v \in U16
    PROVE  try_egress(c, v) \in U16 /\ try_ingress(c, v) \in U16
BY LoadStoreType, ValsType DEF try_egress, try_ingress

-----------------------------------------------------------------------------
(* The programs on staging ports, on a big-endian machine *)

\* The configurations apply leaves in CONFIG_MAP.
Applied(p) == p \in Params /\ p.offset + p.length < Width

\* tc_ingress undoes tc_egress on every port of the staging range.
LEMMA IngressUndoesEgress ==
    ASSUME ~LittleEndian, NEW p, Applied(p),
           NEW v \in try_new(p).staging_min .. try_new(p).staging_max
    PROVE  try_ingress(try_new(p), try_egress(try_new(p), v)) = v
<1> DEFINE c == try_new(p)
<1>1. CASE p.offset = 0
  <2>1. EgressPasses(c, v) /\ IngressPasses(c, v)
    BY <1>1, NoOffset DEF Applied
  <2> HIDE DEF c
  <2> QED BY <2>1 DEF try_egress, try_ingress, load, c
<1>2. CASE p.offset # 0
  <2>1. Translated(p)
    BY <1>2, ParamsType DEF Translated, Applied
  <2>2. PICK r \in 1 .. BaseA(p) - 1, j \in 0 .. BaseB(p) - 1 :
               v = Block(p) + (r - 1) * BaseB(p) + j
    BY <2>1, StagingDigits
  <2> DEFINE u == r * Block(p) + p.psid * BaseB(p) + j
  <2>3. /\ psid_val(c, v) = u /\ staging_val(c, u) = v
        /\ ~EgressPasses(c, v) /\ ~IngressPasses(c, u)
    BY <2>1, <2>2, RoundTrip
  <2> HIDE DEF c, u
  <2>4. try_egress(c, v) = u
    BY <2>3 DEF try_egress, load, store
  <2>5. try_ingress(c, u) = v
    BY <2>3 DEF try_ingress, load, store
  <2> QED BY <2>4, <2>5 DEF c
<1> QED BY <1>1, <1>2

\* tc_egress makes every port of the staging range one of the CE's ports.
LEMMA EgressAssigns ==
    ASSUME ~LittleEndian, NEW p, Applied(p), p.offset = 0 => p.length = 0,
           NEW v \in try_new(p).staging_min .. try_new(p).staging_max
    PROVE  Assigned(p, try_egress(try_new(p), v))
<1> DEFINE c == try_new(p)
<1>1. CASE p.offset = 0
  <2>1. EgressPasses(c, v)
    BY <1>1, NoOffset DEF Applied
  <2>2. try_egress(c, v) = v
    <3> HIDE DEF c
    <3> QED BY <2>1 DEF try_egress, load
  <2>3. v \in U16 /\ v # 0
    BY StagingInU16 DEF Applied
  <2>4. Width \in 2..16 /\ Width - 0 - 0 = Width /\ p.length = 0 /\ p.psid \in 0 .. Pow(0) - 1
        /\ U16 = 0 .. Pow(Width) - 1
    BY <1>1, ParamsType DEF Applied
  <2>5. p.psid = 0 /\ Pow(0) = 1
    <3>1. Pow(0) = 1
      BY PowTable
    <3>2. p.psid \in 0 .. Pow(0) - 1
      BY <2>4
    <3> QED BY <3>1, <3>2
  <2>6. Pow(Width) \in Int /\ Pow(Width) > 0
    <3>1. Width \in 0..16
      BY <2>4
    <3> QED BY <3>1, PowPos
  <2>7. v \div Pow(Width) = 0 /\ 0 % Pow(0) = 0
    BY <2>3, <2>4, <2>5, <2>6, SmallMod
  <2>8. Assigned(p, v) <=> /\ v # 0
                           /\ p.offset > 0 => v \div Pow(Width - p.offset) # 0
                           /\ (v \div Pow(Width - p.offset - p.length)) % Pow(p.length) = p.psid
    BY DEF Assigned, Pow
  <2>9. Assigned(p, v)
    BY <1>1, <2>3, <2>4, <2>5, <2>7, <2>8
  <2> QED BY <2>2, <2>9
<1>2. CASE p.offset # 0
  <2>1. Translated(p)
    BY <1>2, ParamsType DEF Translated, Applied
  <2>2. PICK r \in 1 .. BaseA(p) - 1, j \in 0 .. BaseB(p) - 1 :
               v = Block(p) + (r - 1) * BaseB(p) + j
    BY <2>1, StagingDigits
  <2> DEFINE u == r * Block(p) + p.psid * BaseB(p) + j
  <2>3. psid_val(c, v) = u /\ ~EgressPasses(c, v) /\ Assigned(p, u)
    BY <2>1, <2>2, RoundTrip
  <2> HIDE DEF c, u
  <2>4. try_egress(c, v) = u
    BY <2>3 DEF try_egress, load, store
  <2> QED BY <2>3, <2>4 DEF c
<1> QED BY <1>1, <1>2

\* tc_egress maps the staging range onto the CE's ports.
LEMMA EgressOnto ==
    ASSUME ~LittleEndian, NEW p, Translated(p)
    PROVE  {try_egress(try_new(p), v) : v \in try_new(p).staging_min .. try_new(p).staging_max}
              = AssignedPorts(p)
<1> DEFINE c == try_new(p)
           range == c.staging_min .. c.staging_max
<1>0. Applied(p) /\ p.offset # 0 /\ c \in CfgType
  BY TryNewType DEF Translated, Applied
<1>1. ASSUME NEW v \in range PROVE try_egress(c, v) \in AssignedPorts(p)
  <2>1. v \in U16
    BY <1>0, StagingInU16 DEF Applied
  <2>2. try_egress(c, v) \in U16
    BY <1>0, <2>1, ProgramsType
  <2>3. Assigned(p, try_egress(c, v))
    BY <1>0, EgressAssigns
  <2> QED BY <2>2, <2>3 DEF AssignedPorts
<1>2. ASSUME NEW u \in AssignedPorts(p) PROVE \E v \in range : try_egress(c, v) = u
  <2>1. u \in U16 /\ Assigned(p, u)
    BY DEF AssignedPorts
  <2>2. PICK r \in 1 .. BaseA(p) - 1, j \in 0 .. BaseB(p) - 1 :
               u = r * Block(p) + p.psid * BaseB(p) + j
    BY <2>1, AssignedHasStaging
  <2> DEFINE v == Block(p) + (r - 1) * BaseB(p) + j
  <2>3. v \in range /\ psid_val(c, v) = u /\ ~EgressPasses(c, v)
    BY <2>2, RoundTrip
  <2> HIDE DEF c, v, range
  <2>4. try_egress(c, v) = u
    BY <2>3 DEF try_egress, load, store
  <2> QED BY <2>3, <2>4
<1> HIDE DEF c, range
<1>3. {try_egress(c, v) : v \in range} = AssignedPorts(p)
  BY <1>1, <1>2
<1> QED BY <1>3 DEF c, range

-----------------------------------------------------------------------------
(* The system *)

\* CONFIG_MAP and the staging range come from one PsidConfig, the one of the
\* parameters in force; each flow has its own port of that range; what a peer has
\* seen is that port, translated.
ConfigInv ==
    /\ params \in Params \cup {None}
    /\ cfg # None => Applied(params) /\ cfg = try_new(params)
FlowInv ==
    /\ DOMAIN flows = Flow /\ DOMAIN outside = Flow /\ DOMAIN lands = Flow
    /\ \A f \in Flow : flows[f] # None =>
          /\ cfg # None /\ flows[f].kind \in Kind
          /\ flows[f].port \in cfg.staging_min .. cfg.staging_max
          /\ flows[f] = [kind |-> flows[f].kind, port |-> flows[f].port]
    /\ \A f, g \in Flow : flows[f] # None /\ flows[f] = flows[g] => f = g
    /\ \A f \in Flow : outside[f] # None =>
          flows[f] # None /\ outside[f] = try_egress(cfg, flows[f].port)
    /\ \A f \in Flow : lands[f] \in Flow \cup {"nobody", None}
Inv == ConfigInv /\ FlowInv

\* Before the first apply there is nothing.
LEMMA InvInit == Init => Inv
BY DEF Init, Idle, Inv, ConfigInv, FlowInv

\* A full apply keeps the invariant: it forgets every flow.
LEMMA InvApply ==
    ASSUME Inv, NEW p \in Params, apply(p)
    PROVE  Inv'
<1>1. p.offset \in 0..Width /\ p.length \in 0..Width /\ Width \in 2..16
  BY ParamsType
<1>2. ConfigInv'
  <2>1. CASE calc_port_ranges(p) = {}
    BY <2>1 DEF apply, ConfigInv
  <2>2. CASE calc_port_ranges(p) # {}
    <3>1. p.offset + p.length < Width
      <4> SUFFICES ASSUME p.offset + p.length = Width PROVE FALSE
        BY <1>1 DEF apply
      <4>1. Width - p.offset - p.length = 0
        BY <1>1
      <4>2. 1 .. 2^(Width - p.offset - p.length) - 1 = {}
        <5>1. Pow(Width - p.offset - p.length) = 1
          BY <4>1, PowTable
        <5>2. 1 .. Pow(Width - p.offset - p.length) - 1 = {}
          BY <5>1
        <5> QED BY <5>2 DEF Pow
      <4> QED BY <2>2, <4>2 DEF calc_port_ranges
    <3> QED BY <2>2, <3>1 DEF apply, ConfigInv, Applied
  <2> QED BY <2>1, <2>2
<1>3. FlowInv'
  BY DEF apply, Idle, FlowInv
<1> QED BY <1>2, <1>3 DEF Inv

\* masquerade gives a port of the range that no flow of the kind has.
LEMMA InvMasquerade ==
    ASSUME Inv, NEW f \in Flow, NEW kind \in Kind, masquerade(f, kind)
    PROVE  Inv'
<1>1. ConfigInv'
  BY DEF masquerade, Inv, ConfigInv
<1>2. FlowInv'
  <2>1. PICK v \in cfg.staging_min .. cfg.staging_max :
           /\ \A g \in Flow : flows[g] # [kind |-> kind, port |-> v]
           /\ flows' = [flows EXCEPT ![f] = [kind |-> kind, port |-> v]]
    BY DEF masquerade
  <2> DEFINE m == [kind |-> kind, port |-> v]
  <2>2. m.kind = kind /\ m.port = v
    OBVIOUS
  <2> HIDE DEF m
  <2>3. /\ cfg' = cfg /\ outside' = outside /\ lands' = lands /\ cfg # None /\ flows[f] = None
        /\ DOMAIN flows = Flow /\ DOMAIN flows' = Flow
        /\ flows'[f] = m /\ \A g \in Flow \ {f} : flows'[g] = flows[g]
        /\ \A g \in Flow : flows[g] # m
    BY <2>1 DEF masquerade, Inv, FlowInv, m
  <2>4. \A g \in Flow : flows'[g] # None =>
           /\ cfg' # None /\ flows'[g].kind \in Kind
           /\ flows'[g].port \in cfg'.staging_min .. cfg'.staging_max
           /\ flows'[g] = [kind |-> flows'[g].kind, port |-> flows'[g].port]
    <3> SUFFICES ASSUME NEW g \in Flow, flows'[g] # None
                 PROVE  /\ cfg' # None /\ flows'[g].kind \in Kind
                        /\ flows'[g].port \in cfg'.staging_min .. cfg'.staging_max
                        /\ flows'[g] = [kind |-> flows'[g].kind, port |-> flows'[g].port]
      OBVIOUS
    <3>1. CASE g = f
      BY <2>2, <2>3, <3>1 DEF m
    <3>2. CASE g # f
      BY <2>3, <3>2 DEF Inv, FlowInv
    <3> QED BY <3>1, <3>2
  <2>5. \A g, h \in Flow : flows'[g] # None /\ flows'[g] = flows'[h] => g = h
    BY <2>3 DEF Inv, FlowInv
  <2>6. \A g \in Flow : outside'[g] # None =>
           flows'[g] # None /\ outside'[g] = try_egress(cfg', flows'[g].port)
    BY <2>3 DEF Inv, FlowInv
  <2> QED BY <2>3, <2>4, <2>5, <2>6 DEF Inv, FlowInv
<1> QED BY <1>1, <1>2 DEF Inv

\* The programs and conntrack keep the invariant.
LEMMA InvPackets ==
    ASSUME Inv, NEW f \in Flow, tc_egress(f) \/ tc_ingress(f)
    PROVE  Inv'
<1>1. CASE tc_egress(f)
  BY <1>1 DEF tc_egress, Inv, ConfigInv, FlowInv
<1>2. CASE tc_ingress(f)
  <2> DEFINE v     == try_ingress(cfg, outside[f])
             claim == {g \in Flow : flows[g] = [kind |-> flows[f].kind, port |-> v]}
             to    == IF claim = {} THEN "nobody" ELSE CHOOSE g \in claim : TRUE
  <2>1. to \in Flow \cup {"nobody"}
    OBVIOUS
  <2>2. lands' = [lands EXCEPT ![f] = to]
    BY <1>2 DEF tc_ingress
  <2> HIDE DEF to
  <2> QED BY <1>2, <2>1, <2>2 DEF tc_ingress, Inv, ConfigInv, FlowInv
<1> QED BY <1>1, <1>2

\* Every step keeps the invariant.
LEMMA InvNext == Inv /\ [Next]_vars => Inv'
<1> SUFFICES ASSUME Inv, [Next]_vars PROVE Inv'
  OBVIOUS
<1>1. CASE Next
  BY <1>1, InvApply, InvMasquerade, InvPackets DEF Next
<1>2. CASE UNCHANGED vars
  BY <1>2 DEF vars, Inv, ConfigInv, FlowInv
<1> QED BY <1>1, <1>2

\* The invariant holds throughout.
LEMMA AlwaysInv == Spec => []Inv
BY InvInit, InvNext, PTL DEF Spec

\* PsidConfig and every port fit their fields, in either byte order and for every
\* offset, length and PSID the rules lead to.
THEOREM TypeCorrect == Spec => []TypeOK
<1>1. Inv => TypeOK
  <2> SUFFICES ASSUME Inv PROVE TypeOK
    OBVIOUS
  <2>1. cfg # None => cfg \in CfgType
    BY TryNewType DEF Inv, ConfigInv, Applied
  <2>2. ASSUME NEW f \in Flow, flows[f] # None
        PROVE  /\ flows[f].kind \in Kind /\ flows[f].port \in U16
               /\ try_egress(cfg, flows[f].port) \in U16
    <3>1. flows[f].port \in U16
      BY <2>2, StagingInU16 DEF Inv, ConfigInv, FlowInv, Applied
    <3>2. cfg \in CfgType
      BY <2>1, <2>2 DEF Inv, FlowInv
    <3> QED BY <2>2, <3>1, <3>2, ProgramsType DEF Inv, FlowInv
  <2>3. ASSUME NEW f \in Flow PROVE outside[f] \in U16 \cup {None}
    BY <2>2 DEF Inv, FlowInv
  <2> QED BY <2>1, <2>2, <2>3 DEF Inv, ConfigInv, FlowInv, TypeOK, CfgType
<1> QED BY <1>1, AlwaysInv, PTL

\* No packet leaves with a port of another subscriber.  Offset 0 with a PSID is
\* left out: the code passes those packets, by design untranslated.
THEOREM OwnPortsOnly ==
    ASSUME ~LittleEndian, \A p \in Params : p.offset = 0 => p.length = 0
    PROVE  Spec => []OwnPorts
<1>1. Inv => OwnPorts
  BY EgressAssigns DEF Inv, ConfigInv, FlowInv, Applied, OwnPorts
<1> QED BY <1>1, AlwaysInv, PTL

\* Two flows of one kind never share a port outside: tc_ingress could not tell
\* them apart, and it undoes tc_egress.
THEOREM PortsApart ==
    ASSUME ~LittleEndian
    PROVE  Spec => []NoSharedPort
<1>1. Inv => NoSharedPort
  <2> SUFFICES ASSUME Inv, NEW f \in Flow, NEW g \in Flow, f # g,
                      outside[f] # None, outside[f] = outside[g],
                      flows[f].kind = flows[g].kind
               PROVE  FALSE
    BY DEF NoSharedPort
  <2>1. /\ flows[f] # None /\ outside[f] = try_egress(cfg, flows[f].port)
        /\ flows[g] # None /\ outside[g] = try_egress(cfg, flows[g].port)
    BY DEF Inv, FlowInv
  <2>2. /\ Applied(params) /\ cfg = try_new(params)
        /\ flows[f].port \in cfg.staging_min .. cfg.staging_max
        /\ flows[g].port \in cfg.staging_min .. cfg.staging_max
        /\ flows[f] = [kind |-> flows[f].kind, port |-> flows[f].port]
        /\ flows[g] = [kind |-> flows[g].kind, port |-> flows[g].port]
    BY <2>1 DEF Inv, ConfigInv, FlowInv
  <2>3. /\ try_ingress(cfg, outside[f]) = flows[f].port
        /\ try_ingress(cfg, outside[g]) = flows[g].port
    BY <2>1, <2>2, IngressUndoesEgress
  <2>4. flows[f] = flows[g]
    BY <2>2, <2>3
  <2> QED BY <2>1, <2>4 DEF Inv, FlowInv
<1> QED BY <1>1, AlwaysInv, PTL

\* Every answer is delivered to the flow it answers.
THEOREM AnswersDelivered ==
    ASSUME ~LittleEndian
    PROVE  Spec => []AnswersReachFlow
<1>1. Init => AnswersReachFlow
  BY DEF Init, Idle, AnswersReachFlow
<1>2. Inv /\ AnswersReachFlow /\ [Next]_vars => AnswersReachFlow'
  <2> SUFFICES ASSUME Inv, AnswersReachFlow, [Next]_vars PROVE AnswersReachFlow'
    OBVIOUS
  <2>1. ASSUME NEW p \in Params, apply(p) PROVE AnswersReachFlow'
    BY <2>1 DEF apply, Idle, AnswersReachFlow
  <2>2. ASSUME NEW f \in Flow, NEW kind \in Kind, masquerade(f, kind) PROVE AnswersReachFlow'
    BY <2>2 DEF masquerade, AnswersReachFlow
  <2>3. ASSUME NEW f \in Flow, tc_egress(f) PROVE AnswersReachFlow'
    BY <2>3 DEF tc_egress, AnswersReachFlow
  <2>4. ASSUME NEW f \in Flow, tc_ingress(f) PROVE AnswersReachFlow'
    <3> DEFINE v     == try_ingress(cfg, outside[f])
               claim == {g \in Flow : flows[g] = [kind |-> flows[f].kind, port |-> v]}
               to    == IF claim = {} THEN "nobody" ELSE CHOOSE g \in claim : TRUE
    <3>1. /\ outside[f] # None /\ flows[f] # None
          /\ outside[f] = try_egress(cfg, flows[f].port)
      BY <2>4 DEF tc_ingress, Inv, FlowInv
    <3>2. /\ Applied(params) /\ cfg = try_new(params)
          /\ flows[f].port \in cfg.staging_min .. cfg.staging_max
          /\ flows[f] = [kind |-> flows[f].kind, port |-> flows[f].port]
      BY <3>1 DEF Inv, ConfigInv, FlowInv
    <3>3. v = flows[f].port
      BY <3>1, <3>2, IngressUndoesEgress
    <3>4. claim = {f}
      <4> HIDE DEF v
      <4> QED BY <3>1, <3>2, <3>3 DEF Inv, FlowInv
    <3> HIDE DEF v, claim
    <3>5. to = f
      BY <3>4
    <3>6. lands' = [lands EXCEPT ![f] = to]
      BY <2>4 DEF tc_ingress, v, claim
    <3> HIDE DEF to
    <3>7. DOMAIN lands = Flow
      BY DEF Inv, FlowInv
    <3> QED BY <3>5, <3>6, <3>7 DEF AnswersReachFlow
  <2>5. CASE UNCHANGED vars
    BY <2>5 DEF vars, AnswersReachFlow
  <2> QED BY <2>1, <2>2, <2>3, <2>4, <2>5 DEF Next
<1> QED BY <1>1, <1>2, AlwaysInv, PTL DEF Spec

\* The staging range and the CE's ports are in bijection: no port of the
\* subscriber goes to waste.
THEOREM NoPortWasted ==
    ASSUME ~LittleEndian
    PROVE  Spec => []AllPortsUsable
<1>1. Inv => AllPortsUsable
  <2> SUFFICES ASSUME Inv, cfg # None, cfg.offset > 0
               PROVE  {try_egress(cfg, v) : v \in cfg.staging_min .. cfg.staging_max}
                         = AssignedPorts(params)
    BY DEF AllPortsUsable
  <2>1. Applied(params) /\ cfg = try_new(params)
    BY DEF Inv, ConfigInv
  <2>2. params.offset > 0
    <3> SUFFICES ASSUME params.offset = 0 PROVE FALSE
      BY <2>1, ParamsType DEF Applied
    <3>1. cfg.offset = 0
      BY <2>1, NoOffset DEF Applied
    <3> QED BY <3>1
  <2>3. Translated(params)
    BY <2>1, <2>2 DEF Applied, Translated
  <2> QED BY <2>1, <2>3, EgressOnto
<1> QED BY <1>1, AlwaysInv, PTL

-----------------------------------------------------------------------------
(* Checksums: arithmetic modulo F = 2^Width - 1, in which the two zeros are one *)

\* x and y differ by a multiple of F.
Cong(x, y, F) == \E k \in Int : x = y + k * F

\* Congruence of sums.
LEMMA CongAdd ==
    ASSUME NEW F \in Int, NEW x \in Int, NEW y \in Int, NEW u \in Int, NEW w \in Int,
           Cong(x, y, F), Cong(u, w, F)
    PROVE  Cong(x + u, y + w, F)
<1>1. PICK k \in Int : x = y + k * F
  BY DEF Cong
<1>2. PICK m \in Int : u = w + m * F
  BY DEF Cong
<1>3. k + m \in Int /\ x + u = (y + w) + (k + m) * F
  BY <1>1, <1>2
<1> QED BY <1>3 DEF Cong

\* Congruence of differences.
LEMMA CongSub ==
    ASSUME NEW F \in Int, NEW x \in Int, NEW y \in Int, NEW u \in Int, NEW w \in Int,
           Cong(x, y, F), Cong(u, w, F)
    PROVE  Cong(x - u, y - w, F)
<1>1. PICK k \in Int : x = y + k * F
  BY DEF Cong
<1>2. PICK m \in Int : u = w + m * F
  BY DEF Cong
<1>3. k - m \in Int /\ x - u = (y - w) + (k - m) * F
  BY <1>1, <1>2
<1> QED BY <1>3 DEF Cong

\* Congruence of products with a number.
LEMMA CongMul ==
    ASSUME NEW F \in Int, NEW x \in Int, NEW y \in Int, NEW s \in Int, Cong(x, y, F)
    PROVE  Cong(s * x, s * y, F)
<1>1. PICK k \in Int : x = y + k * F
  BY DEF Cong
<1>2. s * k \in Int /\ s * (k * F) = (s * k) * F
  OBVIOUS
<1>3. k * F \in Int
  OBVIOUS
<1>4. s * x = s * y + s * (k * F)
  BY <1>1, <1>3
<1>5. s * x = s * y + (s * k) * F
  BY <1>2, <1>4
<1> QED BY <1>2, <1>5 DEF Cong

\* Congruence is transitive.
LEMMA CongTrans ==
    ASSUME NEW F \in Int, NEW x \in Int, NEW y \in Int, NEW z \in Int,
           Cong(x, y, F), Cong(y, z, F)
    PROVE  Cong(x, z, F)
<1>1. PICK k \in Int : x = y + k * F
  BY DEF Cong
<1>2. PICK m \in Int : y = z + m * F
  BY DEF Cong
<1>3. k + m \in Int /\ x = z + (k + m) * F
  BY <1>1, <1>2
<1> QED BY <1>3 DEF Cong

\* Congruence is symmetric.
LEMMA CongSym ==
    ASSUME NEW F \in Int, NEW x \in Int, NEW y \in Int, Cong(x, y, F)
    PROVE  Cong(y, x, F)
<1>1. PICK k \in Int : x = y + k * F
  BY DEF Cong
<1>2. -k \in Int /\ y = x + (-k) * F
  BY <1>1
<1> QED BY <1>2 DEF Cong

\* Congruence is reflexive, and F is a zero.
LEMMA CongRefl ==
    ASSUME NEW F \in Int, NEW x \in Int
    PROVE  Cong(x, x, F) /\ Cong(F, 0, F)
<1>1. x = x + 0 * F /\ F = 0 + 1 * F
  OBVIOUS
<1> QED BY <1>1 DEF Cong

\* Folding the carries of a sum keeps it modulo F and never makes 0 of another
\* number.
LEMMA FoldCong ==
    ASSUME NEW x \in Int, x >= 0
    PROVE  /\ Pow(Width) - 1 \in Int /\ Pow(Width) - 1 >= 1
           /\ Fold(x) \in 0 .. Pow(Width) - 1 /\ Fold(x) \in Int
           /\ x > 0 => Fold(x) > 0
           /\ Cong(Fold(x), x, Pow(Width) - 1)
<1> DEFINE F == Pow(Width) - 1
<1>1. F \in Int /\ F >= 1
  <2>1. Width \in 0..16 /\ Width - 1 \in 0..15 /\ Width - 1 \in 0..16 /\ (Width - 1) + 1 = Width
    <3>1. Width \in 2..16
      BY ParamsType
    <3> QED BY <3>1
  <2>2. Pow(Width) \in Int /\ Pow(Width - 1) \in Int /\ Pow(Width - 1) >= 1
    BY <2>1, PowPos
  <2>3. Pow(Width) = 2 * Pow(Width - 1)
    BY <2>1, PowSucc
  <2> QED BY <2>2, <2>3
<1>3. Fold(x) = IF x = 0 THEN 0 ELSE ((x - 1) % F) + 1
  BY DEF Fold, Pow
<1> HIDE DEF F
<1>4. CASE x = 0
  <2>1. Fold(x) = 0
    BY <1>3, <1>4
  <2> QED BY <1>1, <1>4, <2>1, CongRefl DEF F
<1>5. CASE x > 0
  <2> DEFINE q == (x - 1) \div F
             m == (x - 1) % F
  <2>1. q \in Int /\ m \in 0 .. F - 1 /\ x - 1 = q * F + m
    <3>1. x - 1 \in Int
      OBVIOUS
    <3> QED BY <1>1, <3>1, DivMod
  <2>2. Fold(x) = m + 1
    BY <1>3, <1>5
  <2> HIDE DEF q, m
  <2>3. q * F \in Int /\ -q \in Int /\ (-q) * F = -(q * F)
    BY <1>1, <2>1
  <2>4. Fold(x) = x + (-q) * F
    BY <1>1, <2>1, <2>2, <2>3
  <2>5. Cong(Fold(x), x, F)
    BY <2>3, <2>4 DEF Cong
  <2> QED BY <1>1, <2>1, <2>2, <2>5 DEF F
<1> QED BY <1>4, <1>5

\* A sum is valid when it is a positive multiple of F.
LEMMA FoldFull ==
    ASSUME NEW x \in Int, x > 0
    PROVE  Fold(x) = Pow(Width) - 1 <=> Cong(x, 0, Pow(Width) - 1)
<1> DEFINE F == Pow(Width) - 1
<1>1. /\ F \in Int /\ F >= 1 /\ Fold(x) \in Int /\ Fold(x) > 0 /\ Fold(x) <= F
      /\ Cong(Fold(x), x, F)
  <2>1. x >= 0
    OBVIOUS
  <2>2. Pow(Width) - 1 \in Int
    BY <2>1, FoldCong
  <2> QED BY <2>1, <2>2, FoldCong
<1> HIDE DEF F
<1>2. ASSUME Fold(x) = F PROVE Cong(x, 0, F)
  <2>1. Cong(x, F, F)
    BY <1>1, <1>2, CongSym
  <2> QED BY <1>1, <2>1, CongRefl, CongTrans
<1>3. ASSUME Cong(x, 0, F) PROVE Fold(x) = F
  <2>1. Cong(Fold(x), 0, F)
    BY <1>1, <1>3, CongTrans
  <2>2. PICK k \in Int : Fold(x) = 0 + k * F
    BY <2>1 DEF Cong
  <2>3. ~(k <= 0)
    <3> SUFFICES ASSUME k <= 0 PROVE FALSE
      OBVIOUS
    <3>1. k * F <= 0 * F
      BY <1>1, MulMono
    <3> QED BY <1>1, <2>2, <3>1
  <2>4. ~(k >= 2)
    <3> SUFFICES ASSUME k >= 2 PROVE FALSE
      OBVIOUS
    <3>1. 2 * F <= k * F
      BY <1>1, MulMono
    <3> QED BY <1>1, <2>2, <3>1
  <2>5. k = 1
    BY <2>3, <2>4
  <2> QED BY <1>1, <2>2, <2>5
<1> QED BY <1>2, <1>3 DEF F

\* Exchanging the bytes multiplies by 2^ByteBits modulo F, so doing it twice
\* multiplies by 1.
LEMMA SwapCong ==
    ASSUME NEW v \in U16
    PROVE  Cong(SwapBytes(v), Pow(ByteBits) * v, Pow(Width) - 1)
<1> DEFINE b == Pow(ByteBits)
           h == v \div b
           l == v % b
<1>1. /\ b \in Int /\ h \in 0 .. b - 1 /\ l \in 0 .. b - 1 /\ v = h * b + l
      /\ Pow(Width) = b * b
  BY Bytes
<1>2. SwapBytes(v) = l * b + h
  BY DEF SwapBytes, Pow
<1> HIDE DEF b, h, l
<1>3. /\ h \in Int /\ l \in Int /\ -h \in Int /\ h * b \in Int /\ b * b \in Int /\ h * (b * b) \in Int
      /\ b * l \in Int
  BY <1>1
<1>4. b * v = h * (b * b) + b * l
  BY <1>1, <1>3
<1>5. (-h) * (b * b - 1) = h - h * (b * b)
  BY <1>3
<1>6. l * b + h = b * v + (-h) * (b * b - 1)
  BY <1>1, <1>3, <1>4, <1>5
<1> QED BY <1>1, <1>2, <1>3, <1>6 DEF Cong, b

\* The number load and store multiply by: 1 or, on a little-endian machine, the
\* weight of the high byte.
Swing == IF LittleEndian THEN Pow(ByteBits) ELSE 1

\* load and store multiply by Swing, whose square is 1.
LEMMA LoadStoreCong ==
    ASSUME NEW v \in U16
    PROVE  /\ v \in Int /\ Swing \in Int /\ Pow(Width) - 1 \in Int /\ Pow(Width) - 1 >= 1
           /\ load(v) \in Int /\ store(v) \in Int
           /\ Cong(load(v), Swing * v, Pow(Width) - 1)
           /\ Cong(store(v), Swing * v, Pow(Width) - 1)
           /\ Cong(Swing * Swing, 1, Pow(Width) - 1)
<1> DEFINE F == Pow(Width) - 1
           b == Pow(ByteBits)
<1>1. v \in Int /\ b \in Int /\ b >= 2 /\ Pow(Width) = b * b
  BY Bytes
<1>2. F \in Int /\ F >= 1
  <2>1. 0 \in Int /\ 0 >= 0
    OBVIOUS
  <2> QED BY <2>1, FoldCong
<1>3. load(v) \in Int /\ store(v) \in Int
  BY LoadStoreType, Bytes
<1>4. CASE LittleEndian
  <2>1. Cong(SwapBytes(v), b * v, F)
    BY SwapCong
  <2>2. load(v) = SwapBytes(v) /\ store(v) = SwapBytes(v) /\ Swing = b
    BY <1>4 DEF load, store, Swing
  <2>3. b * b = 1 + 1 * F
    BY <1>1, <1>2
  <2> HIDE DEF b, F
  <2>4. Cong(b * b, 1, F)
    BY <2>3 DEF Cong
  <2> QED BY <1>1, <1>2, <1>3, <2>1, <2>2, <2>4 DEF F
<1>5. CASE ~LittleEndian
  <2>1. load(v) = v /\ store(v) = v /\ Swing = 1 /\ Swing * v = v /\ Swing * Swing = 1
    BY <1>1, <1>5 DEF load, store, Swing
  <2> HIDE DEF F
  <2>2. Cong(v, v, F) /\ Cong(1, 1, F)
    BY <1>1, <1>2, CongRefl
  <2> QED BY <1>1, <1>2, <2>1, <2>2 DEF F
<1> QED BY <1>4, <1>5

\* RFC 1624's update in numbers.  s is Swing; lc, v and to are the checksum, the
\* old and the new field as the machine reads them, t the folded sum, and fp and
\* cp the new field and checksum in the packet.
LEMMA UpdateNumbers ==
    ASSUME NEW F \in Int, NEW s \in Int, NEW csum \in Int, NEW field \in Int, NEW rest \in Int,
           NEW lc \in Int, NEW v \in Int, NEW to \in Int, NEW t \in Int, NEW fp \in Int,
           NEW cp \in Int,
           Cong(s * s, 1, F), Cong(lc, s * csum, F), Cong(v, s * field, F),
           Cong(t, (F - lc) + (F - v) + to, F),
           Cong(fp, s * to, F), Cong(cp, s * (F - t), F),
           Cong(field + rest + csum, 0, F)
    PROVE  Cong(fp + rest + cp, 0, F)
<1> DEFINE d == lc + v - to
<1>0. d \in Int /\ s * to \in Int /\ s * d \in Int /\ s * (F - t) \in Int /\ F - t \in Int
      /\ s * csum \in Int /\ s * field \in Int /\ s * s \in Int
      /\ csum + field \in Int
  OBVIOUS
<1>1. Cong(F - t, d, F)
  <2>1. PICK k \in Int : t = (F - lc) + (F - v) + to + k * F
    BY DEF Cong
  <2>2. k * F \in Int /\ -1 - k \in Int /\ (-1 - k) * F = -F - k * F
    OBVIOUS
  <2>3. F - t = d + (-1 - k) * F
    BY <2>1, <2>2
  <2> QED BY <2>2, <2>3 DEF Cong
<1> HIDE DEF d
<1>2. Cong(s * (F - t), s * d, F)
  BY <1>0, <1>1, CongMul
<1>3. Cong(cp, s * d, F)
  BY <1>0, <1>2, CongTrans
<1>4. Cong(fp + cp, s * to + s * d, F)
  BY <1>0, <1>3, CongAdd
<1>5. s * to + s * d = s * (lc + v)
  BY <1>0 DEF d
<1>6. Cong(lc + v, s * csum + s * field, F)
  BY <1>0, CongAdd
<1>7. Cong(s * (lc + v), s * (s * csum + s * field), F)
  <2>1. lc + v \in Int /\ s * csum + s * field \in Int
    BY <1>0
  <2> QED BY <1>6, <2>1, CongMul
<1>8. s * (s * csum + s * field) = (csum + field) * (s * s)
  OBVIOUS
<1>9. Cong((csum + field) * (s * s), csum + field, F)
  <2>1. PICK k \in Int : s * s = 1 + k * F
    BY DEF Cong
  <2> DEFINE g == csum + field
  <2>2. g \in Int
    BY <1>0
  <2> HIDE DEF g
  <2>3. g * (1 + k * F) = g + (g * k) * F /\ g * k \in Int
    BY <2>2
  <2> QED BY <2>1, <2>3 DEF Cong, g
<1>10. Cong(s * (lc + v), csum + field, F)
  <2>1. s * (lc + v) \in Int /\ (csum + field) * (s * s) \in Int
    BY <1>0
  <2>2. Cong(s * (lc + v), (csum + field) * (s * s), F)
    BY <1>7, <1>8
  <2> QED BY <1>0, <1>9, <2>1, <2>2, CongTrans
<1>11. Cong(fp + cp, csum + field, F)
  <2>1. s * (lc + v) \in Int /\ fp + cp \in Int
    OBVIOUS
  <2>2. Cong(fp + cp, s * (lc + v), F)
    BY <1>4, <1>5
  <2> QED BY <1>0, <1>10, <2>1, <2>2, CongTrans
<1>12. Cong((fp + cp) + rest, (csum + field) + rest, F)
  <2>1. Cong(rest, rest, F) /\ fp + cp \in Int
    BY CongRefl
  <2> QED BY <1>0, <1>11, <2>1, CongAdd
<1>13. (fp + cp) + rest = fp + rest + cp /\ (csum + field) + rest = field + rest + csum
       /\ fp + rest + cp \in Int /\ field + rest + csum \in Int
  OBVIOUS
<1>14. Cong(fp + rest + cp, field + rest + csum, F)
  BY <1>12, <1>13
<1> QED BY <1>13, <1>14, CongTrans

\* Neither program invalidates a packet whose field it rewrites to a u16.
LEMMA UpdateValid ==
    ASSUME NEW field \in U16, NEW to \in U16, NEW csum \in U16, NEW rest \in U16 \ {0},
           Valid(field, rest, csum)
    PROVE  Valid(store(to), rest, update_csum(csum, load(field), to))
<1> DEFINE F  == Pow(Width) - 1
           lc == load(csum)
           v  == load(field)
           x  == (F - lc) + (F - v) + to
           t  == Fold(x)
           n  == F - t
           fp == store(to)
           cp == store(n)
<1>1. F \in Int /\ F >= 1 /\ U16 = 0 .. F /\ \A y \in U16 : y \in Int /\ y >= 0
  <2>1. F \in Int /\ F >= 1
    BY LoadStoreCong
  <2>2. U16 = 0 .. F
    BY ParamsType
  <2> HIDE DEF F
  <2> QED BY <2>1, <2>2
<1>2. lc \in U16 /\ v \in U16
  BY LoadStoreType
<1>3. x \in Int /\ x >= 0
  <2> HIDE DEF F, lc, v
  <2> QED BY <1>1, <1>2
<1>4. t \in 0 .. F /\ t \in Int /\ Cong(t, x, F)
  BY <1>3, FoldCong
<1>5. n \in U16
  <2> HIDE DEF F, t
  <2> QED BY <1>1, <1>4
<1>6. fp \in U16 /\ cp \in U16
  <2> HIDE DEF n
  <2> QED BY <1>5, LoadStoreType
<1>7. update_csum(csum, v, to) = cp
  <2>1. Not(lc) = F - lc /\ Not(v) = F - v /\ Not(t) = F - t
    BY DEF Not, Pow
  <2>2. update_csum(csum, v, to) = store(Not(Fold(Not(lc) + Not(v) + to)))
    BY DEF update_csum, l4_csum_replace
  <2> HIDE DEF F, lc, v
  <2> QED BY <2>1, <2>2
<1>8. \A y : Fold(y) = F <=> Fold(y) = 2^Width - 1
  BY DEF Pow
<1>9. field + rest + csum \in Int /\ field + rest + csum > 0
      /\ fp + rest + cp \in Int /\ fp + rest + cp > 0
  <2> HIDE DEF F, fp, cp
  <2>1. rest \in Int /\ rest > 0
    BY <1>1
  <2> QED BY <1>1, <1>6, <2>1
<1>10. Cong(field + rest + csum, 0, F)
  <2>1. Fold(field + rest + csum) = F
    BY <1>8 DEF Valid
  <2> QED BY <1>9, <2>1, FoldFull
<1>11. /\ Swing \in Int /\ Cong(Swing * Swing, 1, F)
       /\ Cong(lc, Swing * csum, F) /\ Cong(v, Swing * field, F) /\ Cong(fp, Swing * to, F)
  BY LoadStoreCong
<1>12. Cong(cp, Swing * n, F)
  <2> HIDE DEF n
  <2> QED BY <1>5, LoadStoreCong
<1>13. Cong(fp + rest + cp, 0, F)
  <2>1. /\ csum \in Int /\ field \in Int /\ rest \in Int /\ to \in Int
        /\ lc \in Int /\ v \in Int /\ fp \in Int /\ cp \in Int
    <3> HIDE DEF F, lc, v, fp, cp
    <3> QED BY <1>1, <1>2, <1>6
  <2>2. Cong(t, (F - lc) + (F - v) + to, F) /\ Cong(cp, Swing * (F - t), F)
    BY <1>4, <1>12
  <2> HIDE DEF F, lc, v, x, t, n, fp, cp
  <2> QED BY <1>1, <1>4, <1>10, <1>11, <2>1, <2>2, UpdateNumbers
<1>14. Fold(fp + rest + cp) = F
  <2> HIDE DEF fp, cp
  <2> QED BY <1>9, <1>13, FoldFull
<1> QED BY <1>7, <1>8, <1>14 DEF Valid

\* A packet that is valid stays valid in either program, in either byte order, for
\* every parameter and every port: those that are translated, and those that pass.
THEOREM ChecksumsValid == Spec => []ChecksumsHold
<1>1. Inv => ChecksumsHold
  <2> SUFFICES ASSUME Inv, cfg # None, NEW field \in U16, NEW rest \in U16 \ {0},
                      NEW csum \in U16, Valid(field, rest, csum)
               PROVE  /\ Valid(try_egress(cfg, field), rest, egress_csum(cfg, field, csum))
                      /\ Valid(try_ingress(cfg, field), rest, ingress_csum(cfg, field, csum))
    BY DEF ChecksumsHold
  <2> DEFINE v == load(field)
  <2>1. cfg \in CfgType
    BY TryNewType DEF Inv, ConfigInv, Applied
  <2>2. v \in U16
    BY LoadStoreType
  <2>3. psid_val(cfg, v) \in U16 /\ staging_val(cfg, v) \in U16
    <3> HIDE DEF v
    <3> QED BY <2>1, <2>2, ValsType
  <2>4. /\ Valid(store(psid_val(cfg, v)), rest, update_csum(csum, v, psid_val(cfg, v)))
        /\ Valid(store(staging_val(cfg, v)), rest, update_csum(csum, v, staging_val(cfg, v)))
    BY <2>3, UpdateValid
  <2>5. /\ try_egress(cfg, field) = IF EgressPasses(cfg, v) THEN field ELSE store(psid_val(cfg, v))
        /\ egress_csum(cfg, field, csum) =
              IF EgressPasses(cfg, v) THEN csum ELSE update_csum(csum, v, psid_val(cfg, v))
        /\ try_ingress(cfg, field) =
              IF IngressPasses(cfg, v) THEN field ELSE store(staging_val(cfg, v))
        /\ ingress_csum(cfg, field, csum) =
              IF IngressPasses(cfg, v) THEN csum ELSE update_csum(csum, v, staging_val(cfg, v))
    BY DEF try_egress, egress_csum, try_ingress, ingress_csum
  <2> HIDE DEF v
  <2>6. Valid(try_egress(cfg, field), rest, egress_csum(cfg, field, csum))
    <3>1. CASE EgressPasses(cfg, v)
      BY <2>5, <3>1
    <3>2. CASE ~EgressPasses(cfg, v)
      BY <2>4, <2>5, <3>2
    <3> QED BY <3>1, <3>2
  <2>7. Valid(try_ingress(cfg, field), rest, ingress_csum(cfg, field, csum))
    <3>1. CASE IngressPasses(cfg, v)
      BY <2>5, <3>1
    <3>2. CASE ~IngressPasses(cfg, v)
      BY <2>4, <2>5, <3>2
    <3> QED BY <3>1, <3>2
  <2> QED BY <2>6, <2>7
<1> QED BY <1>1, AlwaysInv, PTL

=============================================================================
