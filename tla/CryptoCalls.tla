----------------------------- MODULE CryptoCalls -----------------------------
(***************************************************************************)
(* The operations of edwards25519, called with inputs from small sets and  *)
(* compared with a reference: call is the operation and its arguments, out *)
(* its result.  A product in the field is compared with one that steps of  *)
(* its own accumulate: ref is the number of limbs to go and their sum.     *)
(***************************************************************************)
EXTENDS ScalarArith, FieldElement, FieldElementAmd64, EdwardsGroup

CONSTANTS ScalarInputs, DigestInputs, FeInputs, Fe51Inputs, Multipliers

VARIABLES call, out, ref
cryptoVars == <<call, out, ref>>

CryptoInit == call = [op |-> "none", args |-> <<>>] /\ out = <<>> /\ ref = [left |-> 10, acc |-> FeZero]

Called(op, args, result) == call' = [op |-> op, args |-> args] /\ out' = result /\ UNCHANGED ref

CallScalar ==
    \/ \E a, b, c \in ScalarInputs : Called("ScMulAdd", <<a, b, c>>, ScMulAdd(a, b, c))
    \/ \E s \in DigestInputs : Called("ScReduce", <<s>>, ScReduce(s))

\* Products take sums and differences of tight elements, as in group.go.
CallField ==
    \/ \E f, g, h \in FeInputs : Called("FeMul", <<FeSub(f, g), h>>, FeMul(FeSub(f, g), h))
    \/ \E f, g \in FeInputs : Called("FeMul", <<FeAdd(f, g), FeAdd(g, f)>>, FeMul(FeAdd(f, g), FeAdd(g, f)))
    \/ \E f, g \in FeInputs : Called("FeSquare", <<FeAdd(f, g)>>, FeSquare(FeAdd(f, g)))
    \/ \E f \in FeInputs : Called("FeSquare2", <<f>>, FeSquare2(f))
    \/ \E f, g \in FeInputs, b \in {0, 1} : LET h == FeNeg(FeCMove(f, g, b)) IN Called("FeToBytes", <<h>>, FeToBytes(h))
    \/ \E f \in FeInputs \cup {FeZero, FeOne, FeP} : Called("FeFromBytes", <<f>>, FeFromBytes(FeToBytes(f)))
    \/ \E f \in FeInputs \cup {FeZero, FeOne, FeP} : Called("FeTests", <<f>>, <<FeIsNegative(f), FeIsNonZero(f)>>)
    \/ Called("Exponents", <<>>, <<FeInvert, fePow22523>>)

CallField51 ==
    \/ \E f, g \in Fe51Inputs, b \in {0, 1} :
          LET h == FeCMove51(FeZero51, g, b) IN Called("FeSub51", <<f, h>>, FeSub51(f, h))
    \/ \E f \in Fe51Inputs : Called("FeNeg51", <<f>>, FeToBytes51(FeNeg51(f)))
    \/ \E f, g \in Fe51Inputs : LET h == FeAdd51(f, g) IN Called("FeToBytes51", <<h>>, FeToBytes51(h))
    \/ \E f \in Fe51Inputs : Called("FeFromBytes51", <<f>>, FeFromBytes51(FeToBytes51(f)))

CallGroup ==
    \/ \E p, q \in Points : LET e == Extended(p, 3) IN
          \/ Called("Plus", <<p, q>>, ToExtended(geAdd(e, ToCached(Extended(q, 5)))))
          \/ Called("Minus", <<p, q>>, ToExtended(geSub(e, ToCached(Extended(q, 5)))))
          \/ Called("Plus", <<p, q>>, ToExtended(geMixedAdd(e, PreComputed(q))))
          \/ Called("Minus", <<p, q>>, ToExtended(geMixedSub(e, PreComputed(q))))
    \/ \E p \in Points : Called("Plus", <<p, p>>, ToExtended(Double(Extended(p, 7))))
    \/ \E p \in Points : Called("FromBytes", <<p>>, FromBytes(ToBytes(Extended(p, 9))))
    \/ \E a \in Multipliers : Called("GeScalarMultBase", <<a>>, GeScalarMultBase(a))
    \/ \E a, b \in {m \in Multipliers : m < 2^(ScalarBits - 3)}, n \in {1, 5, 8} :
          LET A == Multiple(n, CHOOSE p \in Points : Multiple(8, p) # <<0, 1>>)
          IN  Called("GeDoubleScalarMultVartime", <<a, A, b>>, GeDoubleScalarMultVartime(a, Extended(A, 4), b))

Is(op) == call.op = op
Arg(k) == call.args[k]
Factors == IF Is("FeMul") THEN <<Arg(1), Arg(2)>> ELSE <<Arg(1), Arg(1)>>

ReferenceStep ==
    /\ call.op \in {"FeMul", "FeSquare", "FeSquare2"} /\ ref.left > 0
    /\ LET i == ref.left - 1
       IN  ref' = [left |-> i, acc |-> ShiftAdd(ref.acc, i, Below(Factors[1])[i], Factors[2])]
    /\ UNCHANGED <<call, out>>

CryptoNext ==
    \/ Is("none") /\ (CallScalar \/ CallField \/ CallField51 \/ CallGroup)
    \/ ReferenceStep
-----------------------------------------------------------------------------
\* ScMulAdd and ScReduce return the residue of ab + c and of the digest, with the
\* bits above 2^253 clear, whatever the carries and signs of the limbs on the way
\* were: scalar.go's unrolled passes neither lose a carry nor stop one too early.
ScalarResult ==
    /\ Is("ScMulAdd") => IsResidue(out, MulMod(Residue(Arg(1)), Arg(2), Residue(Arg(3))))
    /\ Is("ScReduce") => IsResidue(out, Residue(Arg(1)))

Digit(h, k) == LET i == Max({j \in Limbs : Offset(j) <= k}) IN (h[i] \div 2^(k - Offset(i))) % 2
ByteDigits(bytes) == [k \in 0..(FeBits - 1) |-> (bytes[k \div 8 + 1] \div 2^(k % 8)) % 2]

Number51(bytes) == MapThenSumSet(LAMBDA j : bytes[j] * 2^(8 * (j - 1)), 1..Bytes51)

\* Results with the five unsigned limbs of fe_amd64.go.
Agrees51 ==
    /\ Is("FeSub51") => /\ \A i \in Limbs51 : out[i] >= 0
                        /\ Value51(out) = (Value51(Arg(1)) - Value51(Arg(2))) % P51
    /\ Is("FeNeg51") => Number51(out) = (-Value51(Arg(1))) % P51
    /\ Is("FeToBytes51") => Number51(out) = Value51(Arg(1))
    /\ Is("FeFromBytes51") => Value51(out) = Value51(Arg(1))

\* Field operations of fe.go and field.go agree with arithmetic modulo p.  Products
\* leave limbs small enough for the next operation, encodings are the canonical
\* number below p, and the two addition chains raise to p - 2 and (p - 5) / 8.  The
\* five unsigned limbs of fe_amd64.go never go below zero in a subtraction, and
\* their results and encodings are right modulo p.
FieldResult ==
    /\ ref.left = 0 => Tight(out) /\ Below(out) = (IF Is("FeSquare2") THEN Below(FeAdd(ref.acc, ref.acc)) ELSE ref.acc)
    /\ Is("FeToBytes") => ByteDigits(out) = [k \in 0..(FeBits - 1) |-> Digit(Below(Arg(1)), k)]
    /\ Is("FeFromBytes") => Tight(out) /\ Below(out) = Below(Arg(1))
    /\ Is("FeTests") => LET b == Below(Arg(1)) IN out = <<b[0] % 2, IF b = FeZero THEN 0 ELSE 1>>
    /\ Agrees51
    /\ Is("Exponents") => out = <<(0..254) \ {2, 4}, (0..251) \ {1}>>

Affine(p) == <<(p.X * Inverses[p.Z]) % Q, (p.Y * Inverses[p.Z]) % Q>>
IsPoint(p) == p.Z # 0 /\ ("T" \in DOMAIN p => (p.X * p.Y - p.Z * p.T) % Q = 0)

\* Additions, doublings, decodings and both scalar multiplications of group.go give
\* the point of the affine addition law, whatever coordinates represent it.
GroupResult ==
    LET Gives(p) == IsPoint(out) /\ Affine(out) = p
    IN  /\ Is("Plus") => Gives(Plus(Arg(1), Arg(2)))
        /\ Is("Minus") => Gives(Plus(Arg(1), Minus(Arg(2))))
        /\ Is("FromBytes") => Gives(Arg(1))
        /\ Is("GeScalarMultBase") => Gives(Times(Arg(1), Basepoint))
        /\ Is("GeDoubleScalarMultVartime") => Gives(Plus(Times(Arg(1), Arg(2)), Times(Arg(3), Basepoint)))

\* The arithmetic under the signatures computes what the integers and the curve
\* do: every scalar, every field element and every point is right, whatever the
\* carries, the signs and the representatives on the way (scalar.go, fe.go,
\* fe_amd64.go, group.go).
ArithmeticResult == ScalarResult /\ FieldResult /\ GroupResult
=============================================================================
