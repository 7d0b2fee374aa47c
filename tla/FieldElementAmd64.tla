-------------------------- MODULE FieldElementAmd64 --------------------------
(***************************************************************************)
(* The field of 2^255 - 19 in five unsigned limbs of 51 bits, the          *)
(* representation of the amd64 build: fe_amd64.go.  FeMul and FeSquare are *)
(* assembly there and are not modelled; what is left has to keep unsigned  *)
(* limbs from going below zero and to give canonical bytes.  FeWidth51 is  *)
(* 51 and FeC51 19 in the code.                                            *)
(***************************************************************************)
EXTENDS Loops, FiniteSetsExt

CONSTANTS FeWidth51, FeC51

ASSUME Field51Assumption == FeWidth51 \in Nat \ {0, 1} /\ FeC51 \in Nat \ {0}

Limbs51 == 0..4
Mask51 == 2^FeWidth51
Bits51 == 5 * FeWidth51
Bytes51 == (Bits51 + 7) \div 8

FeZero51 == [i \in Limbs51 |-> 0]
FeAdd51(a, b) == [i \in Limbs51 |-> a[i] + b[i]]
FeCMove51(f, g, b) == [i \in Limbs51 |-> IF b = 1 THEN g[i] ELSE f[i]]

\* t[i+1] += t[i] >> 51; t[i] &= maskLow51Bits.
Propagate(t, i) == [t EXCEPT ![i + 1] = @ + t[i] \div Mask51, ![i] = @ % Mask51]

\* All five; the carry of the top limb comes back to limb 0 times 19.
Reduce51(t) ==
    LET u == Through(Propagate, t, <<0, 1, 2, 3>>)
    IN  [u EXCEPT ![0] = @ + (u[4] \div Mask51) * FeC51, ![4] = @ % Mask51]

\* 2p is added to each limb before the reduced b is subtracted.
FeSub51(a, b) ==
    LET t == Reduce51(b)
    IN  [i \in Limbs51 |-> a[i] + (IF i = 0 THEN 2 * Mask51 - 2 * FeC51 ELSE 2 * Mask51 - 2) - t[i]]

FeNeg51(a) == FeSub51(FeZero51, a)

\* v[i] is the 51 bits of the little-endian number from bit 51 i on; bit 255 is
\* masked.
FeFromBytes51(x) ==
    LET bit(k) == (x[k \div 8 + 1] \div 2^(k % 8)) % 2
    IN  [i \in Limbs51 |-> MapThenSumSet(LAMBDA k : bit(FeWidth51 * i + k) * 2^k, 0..(FeWidth51 - 1))]

\* Carries, then p once more when the number is p or larger.
feReduce(v) ==
    LET t == Reduce51(v)
        Over(c, i) == (t[i] + c) \div Mask51
        c == Through(Over, FeC51, <<0, 1, 2, 3, 4>>)
        u == Through(Propagate, [t EXCEPT ![0] = @ + FeC51 * c], <<0, 1, 2, 3>>)
    IN  [u EXCEPT ![4] = @ % Mask51]

\* The limbs laid end to end, in bytes.
FeToBytes51(v) ==
    LET t == feReduce(v)
        bit(k) == IF k < Bits51 THEN (t[k \div FeWidth51] \div 2^(k % FeWidth51)) % 2 ELSE 0
    IN  [j \in 1..Bytes51 |-> MapThenSumSet(LAMBDA k : bit(8 * (j - 1) + k) * 2^k, 0..7)]
-----------------------------------------------------------------------------
\* The reference: the residue of limbs modulo 2^255 - 19, as one number.
P51 == 2^Bits51 - FeC51
Value51(v) == MapThenSumSet(LAMBDA i : (v[i] % P51) * (2^(FeWidth51 * i)) % P51, Limbs51) % P51
=============================================================================
