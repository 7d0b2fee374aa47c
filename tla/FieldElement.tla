---------------------------- MODULE FieldElement ----------------------------
(***************************************************************************)
(* The field of 2^255 - 19 in ten limbs of 26 and 25 bits: fe.go, with the *)
(* parts of field.go that do not depend on the representation.             *)
(*                                                                         *)
(* FeWidth is the bits of an even limb (26), FeC the constant 19.  Limbs   *)
(* are signed and may exceed their width until FeCombine.  The two powers  *)
(* of field.go are checked at full size: an exponent is the set of its     *)
(* binary digits, a product adds exponents, squaring shifts them.          *)
(***************************************************************************)
EXTENDS Loops, FiniteSetsExt

CONSTANTS FeWidth, FeC

ASSUME FieldAssumption == FeWidth \in Nat \ {0, 1} /\ FeC \in Nat \ {0}

Limbs == 0..9
Bits(i) == IF i % 2 = 0 THEN FeWidth ELSE FeWidth - 1

\* The weight of limb i is 2^Offset(i): 0, 26, 51, 77, ... 230, 255.
Offset(i) == (2 * FeWidth - 1) * (i \div 2) + (i % 2) * FeWidth
FeBits == Offset(10)
FeBytes == (FeBits + 7) \div 8

FeZero == [i \in Limbs |-> 0]
FeOne == [FeZero EXCEPT ![0] = 1]
FeAdd(a, b) == [i \in Limbs |-> a[i] + b[i]]
FeSub(a, b) == [i \in Limbs |-> a[i] - b[i]]
FeNeg(f) == [i \in Limbs |-> -f[i]]
FeCMove(f, g, b) == [i \in Limbs |-> IF b = 1 THEN g[i] ELSE f[i]]

\* One carry of FeCombine; the carry of limb 9 comes back to limb 0 times 19.
FeCarry(h, i) ==
    LET c == (h[i] + 2^(Bits(i) - 1)) \div 2^Bits(i)
    IN  [h EXCEPT ![(i + 1) % 10] = @ + (IF i = 9 THEN FeC * c ELSE c), ![i] = @ - c * 2^Bits(i)]

\* Two interleaved chains of carries, the wrap-around, and limb 0 again.
FeCombine(h) == Through(FeCarry, Table(h), <<0, 4, 1, 5, 2, 6, 3, 7, 4, 8, 9, 0>>)

\* The factor of f[i] * g[j]: two odd limbs are half a bit short each, and a
\* product of weight 2^255 or more wraps around.
Factor(i, j) == (IF i % 2 = 1 /\ j % 2 = 1 THEN 2 ELSE 1) * (IF i + j >= 10 THEN FeC ELSE 1)

FeMul(f, g) ==
    FeCombine([k \in Limbs |->
        MapThenSumSet(LAMBDA i : LET j == (k - i) % 10 IN Factor(i, j) * f[i] * g[j], Limbs)])

\* Every pair of limbs once, doubled when they differ.
feSquare(f) ==
    [k \in Limbs |->
        LET pairs == {p \in Limbs \X Limbs : p[1] <= p[2] /\ (p[1] + p[2]) % 10 = k}
        IN  MapThenSumSet(LAMBDA p : (IF p[1] = p[2] THEN 1 ELSE 2) * Factor(p[1], p[2]) * f[p[1]] * f[p[2]], pairs)]

FeSquare(f) == FeCombine(feSquare(f))
FeSquare2(f) == FeCombine([k \in Limbs |-> 2 * feSquare(f)[k]])

\* Limb i takes the whole bytes from the first that starts at or after its
\* weight to the one where limb i + 1 starts, shifted to that weight; bit 255 is
\* masked.
FirstByte(i) == (Offset(i) + 7) \div 8
FeFromBytes(src) ==
    FeCombine([i \in Limbs |->
        LET word == MapThenSumSet(LAMBDA j : src[FirstByte(i) + j + 1] * 2^(8 * j), 0..(FirstByte(i + 1) - FirstByte(i) - 1))
            kept == IF i = 9 THEN word % 2^(FeBits - 8 * FirstByte(9)) ELSE word
        IN  kept * 2^(8 * FirstByte(i) - Offset(i))])

\* q = floor(h / p), carried through all the limbs.
Quotient(h) ==
    LET q[i \in -1..9] == IF i = -1 THEN (FeC * h[9] + 2^(Bits(9) - 1)) \div 2^Bits(9)
                          ELSE (h[i] + q[i - 1]) \div 2^Bits(i)
    IN  q[9]

\* h - pq in limbs of their own width; the last carry is dropped with 2^255 q.
Canonical(h) ==
    LET carry[i \in -1..9] == IF i = -1 THEN FeC * Quotient(h) ELSE (h[i] + carry[i - 1]) \div 2^Bits(i)
    IN  Table([i \in Limbs |-> (h[i] + carry[i - 1]) % 2^Bits(i)])

FeToBytes(h) ==
    LET t == Canonical(h)
        Part(i, bit) == IF Offset(i) >= bit THEN t[i] * 2^(Offset(i) - bit) ELSE t[i] \div 2^(bit - Offset(i))
        Holds(i, bit) == Offset(i) < bit + 8 /\ Offset(i) + Bits(i) > bit
    IN  [j \in 1..FeBytes |->
            MapThenSumSet(LAMBDA i : Part(i, 8 * (j - 1)), {i \in Limbs : Holds(i, 8 * (j - 1))}) % 256]

FeIsNegative(f) == FeToBytes(f)[1] % 2
FeIsNonZero(f) == IF \E j \in 1..FeBytes : FeToBytes(f)[j] # 0 THEN 1 ELSE 0
-----------------------------------------------------------------------------
(* The addition chains of FeInvert and fePow22523, at full size. *)

ZExp == {0}
SqExp(e, n) == {b + n : b \in e}

\* z^e * z^f: binary addition of exponents; digit k gets the carry that digit j
\* makes and all the digits between pass on.
MulExp(e, f) ==
    LET Carry(k) == \E j \in e \cap f : j < k /\ \A m \in (j + 1)..(k - 1) : m \in e \cup f
    IN  {k \in 0..255 : Carry(k) <=> (k \in e <=> k \in f)}

\* FeInvert, by way of t1e = z^(2^250 - 1) and t0 = z^11.
FeInvert ==
    LET t0a == SqExp(ZExp, 1)
        t1a == MulExp(ZExp, SqExp(t0a, 2))
        t0 == MulExp(t0a, t1a)
        t1b == MulExp(t1a, SqExp(t0, 1))
        t1c == MulExp(SqExp(t1b, 5), t1b)
        t2a == MulExp(SqExp(t1c, 10), t1c)
        t2b == MulExp(SqExp(t2a, 20), t2a)
        t1d == MulExp(SqExp(t2b, 10), t1c)
        t2c == MulExp(SqExp(t1d, 50), t1d)
        t2d == MulExp(SqExp(t2c, 100), t2c)
        t1e == MulExp(SqExp(t2d, 50), t1d)
    IN  MulExp(SqExp(t1e, 5), t0)

fePow22523 ==
    LET t0a == SqExp(ZExp, 1)
        t1a == MulExp(ZExp, SqExp(t0a, 2))
        t0b == MulExp(t1a, SqExp(MulExp(t0a, t1a), 1))
        t0c == MulExp(SqExp(t0b, 5), t0b)
        t1b == MulExp(SqExp(t0c, 10), t0c)
        t1c == MulExp(SqExp(t1b, 20), t1b)
        t0d == MulExp(SqExp(t1c, 10), t0c)
        t1d == MulExp(SqExp(t0d, 50), t0d)
        t1e == MulExp(SqExp(t1d, 100), t1d)
        t0e == MulExp(SqExp(t1e, 50), t0d)
    IN  MulExp(SqExp(t0e, 2), ZExp)
-----------------------------------------------------------------------------
(* The reference: the number below 2^255 - 19 that the limbs stand for, found *)
(* by carrying until nothing changes, and products limb by limb.              *)

FeP == [i \in Limbs |-> IF i = 0 THEN 2^FeWidth - FeC ELSE 2^Bits(i) - 1]

\* All carries downwards once, the top one wrapped around.
Settle(h) ==
    LET carry[i \in -1..9] == IF i = -1 THEN 0 ELSE (h[i] + carry[i - 1]) \div 2^Bits(i)
    IN  Table([i \in DOMAIN h |-> ((h[i] + carry[i - 1]) % 2^Bits(i)) + (IF i = 0 THEN FeC * carry[9] ELSE 0)])

\* Three rounds settle what the operations are given; then p itself is zero.
Below(h) ==
    LET s == After(Settle, After(Settle, Settle(h)))
    IN  IF [s EXCEPT ![0] = Min({@, FeP[0]})] = FeP THEN [FeZero EXCEPT ![0] = s[0] - FeP[0]] ELSE s

\* One limb of a product: the sum so far is shifted by limb i and b f added.
ShiftAdd(acc, i, b, f) == Below([j \in Limbs |-> 2^Bits(i) * acc[j] + b * f[j]])

\* What the next operations rely on: every limb within its own width.  Limbs
\* 1 and 5 take a second carry last: within 1.01 of their width in the code, and
\* within 1.25 of it for the narrower limbs of TLC.
Tight(h) ==
    \A i \in Limbs : LET most == IF i \in {1, 5} THEN 5 ELSE 4
                     IN  4 * h[i] <= most * 2^(Bits(i) - 1) /\ -4 * h[i] <= most * 2^(Bits(i) - 1)
=============================================================================
