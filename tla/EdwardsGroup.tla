---------------------------- MODULE EdwardsGroup ----------------------------
(***************************************************************************)
(* The group of the curve -x^2 + y^2 = 1 + D x^2 y^2 over the field of Q   *)
(* elements, and multiples of its points:                                  *)
(* crypto/ed25519/internal/edwards25519/group.go.                          *)
(*                                                                         *)
(* The code has Q = 2^255 - 19 and scalars of ScalarBits = 256 bits; here  *)
(* Q is any prime with Q % 8 = 5 and D any non-square, so that the addition*)
(* law is complete and square roots are found as in the code.  Field       *)
(* elements are numbers below Q (FieldElement models their limbs); scalars *)
(* are numbers, their bytes little-endian.                                 *)
(***************************************************************************)
EXTENDS Loops, FiniteSets, FiniteSetsExt

CONSTANTS Q, D, SqrtM1, ScalarBits, Basepoint

ASSUME GroupAssumption ==
    /\ Q % 8 = 5 /\ D \in 1..(Q - 1) /\ (SqrtM1 * SqrtM1 + 1) % Q = 0
    /\ ScalarBits % 8 = 0
    /\ \A z \in 0..(Q - 1) : (z * z) % Q # D

Fe == 0..(Q - 1)

\* z^e; FeInvert and fePow22523 have the exponents Q - 2 and (Q - 5) / 8.
Power(z, e) == LET pow[n \in 0..e] == IF n = 0 THEN 1 ELSE (pow[n - 1] * z) % Q IN pow[e]
Inverses == Table([z \in Fe |-> Power(z, Q - 2)])
Roots == Table([z \in Fe |-> Power(z, (Q - 5) \div 8)])

\* The bytes of a point: y with the sign of x in the top bit.
SignBit == 2 * 2^(CHOOSE k \in 0..Q : 2^k <= Q /\ Q < 2^(k + 1))
EncodePoint(x, y) == y + SignBit * (x % 2)

ProjectiveZero == [X |-> 0, Y |-> 1, Z |-> 1]
ExtendedZero == [X |-> 0, Y |-> 1, Z |-> 1, T |-> 0]
PreComputedZero == [yPlusX |-> 1, yMinusX |-> 1, xy2d |-> 0]

\* ProjectiveGroupElement.Double; ExtendedGroupElement.Double is the same.
Double(p) ==
    LET XX == (p.X * p.X) % Q
        YY == (p.Y * p.Y) % Q
        ZZ2 == (2 * p.Z * p.Z) % Q
        Y == (YY + XX) % Q
        Z == (YY - XX) % Q
    IN  [X |-> ((p.X + p.Y) * (p.X + p.Y) - Y) % Q, Y |-> Y, Z |-> Z, T |-> (ZZ2 - Z) % Q]

ToBytes(p) == LET recip == Inverses[p.Z] IN EncodePoint((p.X * recip) % Q, (p.Y * recip) % Q)

ToCached(p) == [yPlusX |-> (p.Y + p.X) % Q, yMinusX |-> (p.Y - p.X) % Q, Z |-> p.Z, T2d |-> (p.T * 2 * D) % Q]

\* CompletedGroupElement.ToProjective and ToExtended.
ToProjective(p) == [X |-> (p.X * p.T) % Q, Y |-> (p.Y * p.Z) % Q, Z |-> (p.Z * p.T) % Q]
ToExtended(p) == [X |-> (p.X * p.T) % Q, Y |-> (p.Y * p.Z) % Q, Z |-> (p.Z * p.T) % Q, T |-> (p.X * p.Y) % Q]

\* The result of a decoding that fails; no point has Z = 0.
NoPoint == [X |-> 0, Y |-> 0, Z |-> 0, T |-> 0]

\* The point of s, none when y^2 - 1 over D y^2 + 1 has no root.
FromBytes(s) ==
    LET y == (s % SignBit) % Q
        u == (y * y - 1) % Q
        v == (((y * y) % Q) * D + 1) % Q
        v3 == (((v * v) % Q) * v) % Q
        uv7 == (((((v3 * v3) % Q) * v) % Q) * u) % Q
        x1 == (((Roots[uv7] * v3) % Q) * u) % Q
        vxx == (((x1 * x1) % Q) * v) % Q
        x2 == IF vxx = u THEN x1 ELSE (x1 * SqrtM1) % Q
        x == IF x2 % 2 # (s \div SignBit) THEN (-x2) % Q ELSE x2
    IN  IF vxx # u /\ (vxx + u) % Q # 0 THEN NoPoint
        ELSE [X |-> x, Y |-> y, Z |-> 1, T |-> (x * y) % Q]

\* The steps that geAdd, geSub, geMixedAdd and geMixedSub share: the sums of
\* coordinates times plus and minus, and t added to or taken from 2 Z1 Z2.
geCombine(p, plus, minus, t, zz2) ==
    LET A == (((p.Y + p.X) % Q) * plus) % Q
        B == (((p.Y - p.X) % Q) * minus) % Q
    IN  [X |-> (A - B) % Q, Y |-> (A + B) % Q, Z |-> (zz2 + t) % Q, T |-> (zz2 - t) % Q]

geAdd(p, q) == geCombine(p, q.yPlusX, q.yMinusX, (q.T2d * p.T) % Q, (2 * p.Z * q.Z) % Q)
geSub(p, q) == geCombine(p, q.yMinusX, q.yPlusX, (-(q.T2d * p.T)) % Q, (2 * p.Z * q.Z) % Q)
geMixedAdd(p, q) == geCombine(p, q.yPlusX, q.yMinusX, (q.xy2d * p.T) % Q, (2 * p.Z) % Q)
geMixedSub(p, q) == geCombine(p, q.yMinusX, q.yPlusX, (-(q.xy2d * p.T)) % Q, (2 * p.Z) % Q)

-----------------------------------------------------------------------------
(* The reference: the affine addition law. *)

Points == {p \in Fe \X Fe : (p[2] * p[2] - p[1] * p[1] - 1 - ((p[1] * p[1]) % Q) * ((p[2] * p[2]) % Q) * D) % Q = 0}

Plus(p, q) ==
    LET e == (((((p[1] * q[1]) % Q) * p[2]) % Q) * q[2] * D) % Q
    IN  <<((p[1] * q[2] + q[1] * p[2]) * Inverses[(1 + e) % Q]) % Q,
          ((p[2] * q[2] + p[1] * q[1]) * Inverses[(1 - e) % Q]) % Q>>

Minus(p) == <<(-p[1]) % Q, p[2]>>

\* n times p.
Multiple(n, p) ==
    LET Again(acc, k) == Plus(acc, p) IN Rounds(Again, <<0, 1>>, n)

Cardinal == Cardinality(Points)
Times(n, p) == Multiple(n % Cardinal, p)

Extended(p, z) == [X |-> (p[1] * z) % Q, Y |-> (p[2] * z) % Q, Z |-> z, T |-> (((p[1] * p[2]) % Q) * z) % Q]
PreComputed(p) == [yPlusX |-> (p[2] + p[1]) % Q, yMinusX |-> (p[2] - p[1]) % Q, xy2d |-> (2 * D * ((p[1] * p[2]) % Q)) % Q]
-----------------------------------------------------------------------------
(* Multiples of points. *)

\* The tables of const.go: bi holds B, 3B, ..., 15B and base[pos] holds 1 to 8
\* times 256^pos B.
bi == Table([k \in 0..7 |-> PreComputed(Multiple(2 * k + 1, Basepoint))])
base == Table([pos \in 0..(ScalarBits \div 8 - 1), k \in 0..7 |-> PreComputed(Times((k + 1) * 256^pos, Basepoint))])

Positions == 0..(ScalarBits - 1)
Digits(a) == Table([i \in Positions |-> (a \div 2^i) % 2])

\* One of the six digits above digit i is taken into it, when the sum or the
\* difference stays within 15; a difference carries 1 into the digits above.
Absorb(st, b) ==
    LET i == st.i
        r == st.r
        high == i + b
        term == r[high] * 2^b
        free == {k \in high..(ScalarBits - 1) : r[k] = 0}
        top == IF free = {} THEN ScalarBits ELSE Min(free)
    IN  CASE st.stop \/ high >= ScalarBits -> st
          [] ~st.stop /\ high < ScalarBits ->
             IF r[high] = 0 THEN st
             ELSE IF r[i] + term <= 15 THEN [st EXCEPT !.r = [r EXCEPT ![i] = @ + term, ![high] = 0]]
             ELSE IF r[i] - term >= -15
             THEN [st EXCEPT !.r = Table([k \in Positions |-> IF k = i THEN r[i] - term
                                                              ELSE IF k \in high..(top - 1) THEN 0
                                                              ELSE IF k = top THEN 1 ELSE r[k]])]
             ELSE [st EXCEPT !.stop = TRUE]

slide(a) ==
    LET Scan(r, k) == IF r[k - 1] = 0 THEN r
                      ELSE Rounds(Absorb, [r |-> r, i |-> k - 1, stop |-> FALSE], 6).r
    IN  Rounds(Scan, Digits(a), ScalarBits)

\* A, 3A, 5A, ..., 15A.
OddMultiples(A) ==
    LET A2 == ToExtended(Double(A))
        Ai[k \in 0..7] == IF k = 0 THEN ToCached(A) ELSE ToCached(ToExtended(geAdd(A2, Ai[k - 1])))
    IN  Table(Ai)

\* r = a A + b B, from the first digit that is not zero downwards.
GeDoubleScalarMultVartime(a, A, b) ==
    LET aSlide == slide(a)
        bSlide == slide(b)
        Ai == OddMultiples(A)
        used == {i \in Positions : aSlide[i] # 0 \/ bSlide[i] # 0}
        first == IF used = {} THEN -1 ELSE Max(used)
        AddA(t, n) == IF n > 0 THEN geAdd(ToExtended(t), Ai[n \div 2])
                      ELSE IF n < 0 THEN geSub(ToExtended(t), Ai[(-n) \div 2]) ELSE t
        AddB(t, n) == IF n > 0 THEN geMixedAdd(ToExtended(t), bi[n \div 2])
                      ELSE IF n < 0 THEN geMixedSub(ToExtended(t), bi[(-n) \div 2]) ELSE t
        Step(r, k) == LET i == first + 1 - k IN ToProjective(AddB(AddA(Double(r), aSlide[i]), bSlide[i]))
    IN  Rounds(Step, ProjectiveZero, first + 1)

\* The entry of |b| in base[pos], its negative when b is negative.
selectPoint(pos, b) ==
    LET bAbs == IF b < 0 THEN -b ELSE b
        t == IF bAbs \in 1..8 THEN base[pos, bAbs - 1] ELSE PreComputedZero
    IN  IF b < 0 THEN [yPlusX |-> t.yMinusX, yMinusX |-> t.yPlusX, xy2d |-> (-t.xy2d) % Q] ELSE t

\* Digits between -8 and 8 of a in radix 16.
Radix16(a) ==
    LET last == ScalarBits \div 4 - 1
        e == [i \in 0..last |-> (a \div 16^i) % 16]
        carry[i \in 0..last] == IF i = 0 THEN 0 ELSE (e[i - 1] + carry[i - 1] + 8) \div 16
    IN  Table([i \in 0..last |-> e[i] + carry[i] - (IF i = last THEN 0 ELSE 16 * carry[i + 1])])

\* h = a B: the odd digits, four doublings, the even digits.
GeScalarMultBase(a) ==
    LET e == Radix16(a)
        half == ScalarBits \div 8
        AddOdd(h, k) == ToExtended(geMixedAdd(h, selectPoint(k - 1, e[2 * k - 1])))
        AddEven(h, k) == ToExtended(geMixedAdd(h, selectPoint(k - 1, e[2 * k - 2])))
        h1 == Rounds(AddOdd, ExtendedZero, half)
        Twice(r, k) == Double(ToProjective(r))
        h2 == ToExtended(Rounds(Twice, Double(h1), 3))
    IN  Rounds(AddEven, h2, half)
=============================================================================
