-------------------------------- MODULE Bits --------------------------------
(***************************************************************************)
(* Addresses and prefixes as sequences of bits, the first bit first: u128, *)
(* u32 and shifts without a width that TLC's integers would bound.         *)
(***************************************************************************)
EXTENDS Integers, Sequences

Zeros(n) == [i \in 1..n |-> 0]

\* The n low bits of the number v.
ToBits(v, n) == [i \in 1..n |-> (v \div 2^(n - i)) % 2]

\* b as a number of n bits: zeros are put before it, or its high bits are cut.
Fit(b, n) == SubSeq(Zeros(n) \o b, Len(b) + 1, Len(b) + n)

\* The number that at most 16 bits stand for.
Octet(w, i) == 128 * w[i + 1] + 64 * w[i + 2] + 32 * w[i + 3] + 16 * w[i + 4]
                 + 8 * w[i + 5] + 4 * w[i + 6] + 2 * w[i + 7] + w[i + 8]
ToNum(b) == 256 * Octet(Fit(b, 16), 0) + Octet(Fit(b, 16), 8)

\* b followed by zeros up to n bits.
Pad(b, n) == b \o Zeros(n - Len(b))

\* | of two numbers of one width.
Or(b, c) == [i \in 1..Len(b) |-> IF b[i] = 1 \/ c[i] = 1 THEN 1 ELSE 0]

=============================================================================
