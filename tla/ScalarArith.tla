----------------------------- MODULE ScalarArith -----------------------------
(***************************************************************************)
(* Arithmetic modulo the order of the Ed25519 group:                       *)
(* crypto/ed25519/internal/edwards25519/scalar.go.                         *)
(*                                                                         *)
(* A scalar is loaded from its bytes into limbs of 21 bits; products, and  *)
(* the 512-bit inputs of ScReduce, take 24 limbs.  A limb from the twelfth *)
(* on is folded back with the digits Mu of 2^252 modulo l, and carries are *)
(* moved up in between, rounded to the nearest at first and downwards at   *)
(* the end.  The code is unrolled; here Half (6 in the code) is half the   *)
(* number of limbs of a scalar and Width (21) the bits of a limb, so that  *)
(* TLC can run the same passes on shorter numbers.                         *)
(***************************************************************************)
EXTENDS Loops, FiniteSetsExt

CONSTANTS Half, Width, Mu

ASSUME ScalarAssumption ==
    /\ Half \in Nat \ {0} /\ Half % 2 = 0
    /\ Width \in Nat \ {0}
    /\ Mu \in Seq(Int) /\ Len(Mu) = Half

N == 2 * Half
Radix == 2^Width

\* The bytes of a scalar; the code has 32.
ScalarBytes == (N * Width + 4) \div 8

\* The modulus, 2^252 + 27742317777372353535851937790883648493 in the code.
Order == 2^(N * Width) - MapThenSumSet(LAMBDA i : Mu[i] * 2^(Width * (i - 1)), 1..Half)

\* load3, load4: the number in n bytes from byte k on.
load(in, k, n) == MapThenSumSet(LAMBDA j : in[k + j] * 2^(8 * j), 0..(n - 1))

\* Limb i of a number in bytes: as many bytes as hold its bits, shifted and
\* masked.  The last limb, last, takes all the bytes that are left, unmasked.
Limb(in, i, last) ==
    LET k == (Width * i) \div 8
        shift == (Width * i) % 8
        n == IF i = last THEN Len(in) - k ELSE (shift + Width + 7) \div 8
        word == load([j \in 0..(Len(in) - 1) |-> in[j + 1]], k, n) \div 2^shift
    IN  IF i = last THEN word ELSE word % Radix

\* The steps a, a + 2, ... up to b, in the order in which the code takes them.
Every2(a, b) == [k \in 1..((b - a) \div 2 + 1) |-> a + 2 * (k - 1)]
Each(a, b) == [k \in 1..(b - a + 1) |-> a + k - 1]

\* carry[i] = (s_i + (1 << 20)) >> 21, moved from limb i to limb i + 1.
CarryRound(s, i) ==
    LET carry == (s[i] + Radix \div 2) \div Radix
    IN  [s EXCEPT ![i + 1] = @ + carry, ![i] = @ - carry * Radix]

\* A mutant: the carry is not taken out of its limb.
CarryDownKept(s, i) == [s EXCEPT ![i + 1] = @ + s[i] \div Radix]

\* carry[i] = s_i >> 21.
CarryDown(s, i) ==
    LET carry == s[i] \div Radix
    IN  [s EXCEPT ![i + 1] = @ + carry, ![i] = @ - carry * Radix]

\* Limb i times the digits of 2^252 is added from limb i - 12 on.
FoldLimb(s, i) ==
    Table([j \in DOMAIN s |->
        IF j = i THEN 0
        ELSE IF j \in (i - N)..(i - N + Half - 1) THEN s[j] + s[i] * Mu[j - (i - N) + 1]
        ELSE s[j]])

Down(a, b) == [k \in 1..(a - b + 1) |-> a - k + 1]

\* The passes shared by ScMulAdd and ScReduce: 24 limbs become 12.
FoldHigh(s) ==
    LET s1 == Through(FoldLimb, s, Down(4 * Half - 1, 3 * Half))
        s2 == Through(CarryRound, s1, Every2(Half, 3 * Half - 2))
    IN  Through(CarryRound, s2, Every2(Half + 1, 3 * Half - 3))

FoldLow(s) ==
    LET s1 == Through(FoldLimb, s, Down(3 * Half - 1, N))
        s2 == Through(CarryRound, s1, Every2(0, N - 2))
    IN  Through(CarryRound, s2, Every2(1, N - 1))

FoldLast(s) ==
    LET s1 == Through(CarryDown, FoldLimb(s, N), Each(0, N - 1))
    IN  Through(CarryDown, FoldLimb(s1, N), Each(0, N - 2))

Reduced(s) == After(FoldLast, After(FoldLow, After(FoldHigh, s)))

\* out[j] = byte((s_i >> x) | (s_i+1 << y)): byte j of the limbs laid end to end.
Pack(s) ==
    [j \in 1..ScalarBytes |->
        LET bit == 8 * (j - 1)
            Part(i) == IF Width * i >= bit THEN s[i] * 2^(Width * i - bit) ELSE s[i] \div 2^(bit - Width * i)
        IN  MapThenSumSet(Part, (bit \div Width)..Min({(bit + 7) \div Width, N - 1})) % 256]

\* The limbs of ab + c, and the first round of carries.
Product(a, b, c) ==
    LET A == Table([i \in 0..(N - 1) |-> Limb(a, i, N - 1)])
        B == Table([i \in 0..(N - 1) |-> Limb(b, i, N - 1)])
        s == Table([k \in 0..(4 * Half - 1) |->
                (IF k < N THEN Limb(c, k, N - 1) ELSE 0)
                  + MapThenSumSet(LAMBDA i : A[i] * B[k - i], {i \in 0..(N - 1) : k - i \in 0..(N - 1)})])
        s1 == Through(CarryRound, s, Every2(0, 4 * Half - 2))
    IN  Through(CarryRound, s1, Every2(1, 4 * Half - 3))

ScMulAdd(a, b, c) == After(Pack, After(Reduced, Product(a, b, c)))

ScReduce(s) == After(Pack, Reduced(Table([i \in 0..(4 * Half - 1) |-> Limb(s, i, 4 * Half - 1)])))
-----------------------------------------------------------------------------
(* The reference: residues by shifting and adding, two bits at a time. *)

Bit(in, i) == (in[i \div 8 + 1] \div 2^(i % 8)) % 2

\* x times the number in the bytes of b, plus c, modulo Order.
MulMod(x, b, c) ==
    LET ShiftAdd(acc, i) == (4 * acc + (2 * Bit(b, 2 * i + 1) + Bit(b, 2 * i)) * x) % Order
    IN  (Through(ShiftAdd, 0, Down(4 * Len(b) - 1, 0)) + c) % Order

Residue(b) == MulMod(1, b, 0)

\* What a result may be: the right residue, below 2^253, so that the test of the
\* three top bits in Verify never refuses a signature that Sign made.
IsResidue(out, r) ==
    /\ Residue(out) = r
    /\ \A i \in (N * Width + 1)..(8 * ScalarBytes - 1) : Bit(out, i) = 0
=============================================================================
