------------------------------- MODULE Ed25519 -------------------------------
(***************************************************************************)
(* Key pairs and signatures: crypto/ed25519/base.go, crypto/ed25519/       *)
(* ed25519.go and crypto/keypair.go, over the group of EdwardsGroup.       *)
(*                                                                         *)
(* A digest of SHA-512 is a number of Digests; the code's 64-byte digests  *)
(* are only used as a scalar of 32 bytes and reduced modulo the order of   *)
(* the base point (ScReduce and ScMulAdd, whose limbs ScalarArith models). *)
(* The digest of what was not hashed before may be any of them.            *)
(***************************************************************************)
EXTENDS EdwardsGroup

CONSTANTS Digests, Offsets

\* step is the last call that was made.
VARIABLES step, key, sig, verdict
edVars == <<step, key, sig, verdict>>

\* The order of the base point.
GroupOrder == CHOOSE n \in 1..Cardinal : Multiple(n, Basepoint) = <<0, 1>> /\ \A m \in 1..(n - 1) : Multiple(m, Basepoint) # <<0, 1>>

ScReduceOf(digest) == digest % GroupOrder
ScMulAddOf(a, b, c) == (a * b + c) % GroupOrder

\* digest[0] &= 248; digest[31] &= 127; digest[31] |= 64.
ClampKey(d) ==
    LET low == (d % 2^(ScalarBits - 1)) \div 8
        half == 2^(ScalarBits - 2)
    IN  8 * low + (IF (8 * low) \div half = 0 THEN half ELSE 0)

\* Mutant: the low bits are not cleared.
ClampSecretLow(d) == (d % 2^(ScalarBits - 2)) + 2^(ScalarBits - 2)

\* The same with &= 63, as Sign has it.
ClampSecret(d) == 8 * ((d % 2^(ScalarBits - 2)) \div 8) + 2^(ScalarBits - 2)

EdInit == step = "none" /\ key = <<>> /\ sig = <<>> /\ verdict = <<>>

\* GenerateKey: the seed stands for its digest; the private key ends with the
\* public one.  FromPrivateKey keeps only keys of the right size.
GenerateKey ==
    /\ step = "none" /\ step' = "GenerateKey"
    /\ \E seed \in Digests :
          key' = [seed |-> seed, public |-> ToBytes(GeScalarMultBase(ClampKey(seed)))]
    /\ UNCHANGED <<sig, verdict>>

\* Sign: the digest of the prefix and the message gives R, the digest of R, the
\* public key and the message gives S.
Sign ==
    /\ step = "GenerateKey" /\ step' = "Sign"
    /\ \E messageDigest, hramDigest \in Digests :
          LET r == ScReduceOf(messageDigest)
          IN  sig' = [R |-> ToBytes(GeScalarMultBase(r)), r |-> r, hram |-> hramDigest,
                      S |-> ScMulAddOf(ScReduceOf(hramDigest), ClampSecret(key.seed), r)]
    /\ UNCHANGED <<key, verdict>>

\* Verify on its inputs: encoded R, S, the encoded public key, and the digest of
\* R, the key and the message.
Accepts(R, S, public, digest) ==
    LET A == FromBytes(public)
        minusA == [A EXCEPT !.X = (-@) % Q, !.T = (-@) % Q]
    IN  /\ S < 2^(ScalarBits - 3)
        /\ A # NoPoint
        /\ ToBytes(GeDoubleScalarMultVartime(ScReduceOf(digest), minusA, S)) = R

\* Verify of the signature, with another S or another message.  A key or a
\* signature of another length is refused before any of this.
Verify ==
    /\ step = "Sign" /\ step' = "Verify"
    /\ \E offset \in Offsets, digest \in Digests :
          LET S == sig.S + offset
          IN  verdict' = [S |-> S, digest |-> digest, accepted |-> Accepts(sig.R, S, key.public, digest)]
    /\ UNCHANGED <<key, sig>>

EdNext == GenerateKey \/ Sign \/ Verify

\* Verify accepts what Sign has signed, and of another S or another message the
\* equals modulo the order, up to the three bits it tests, and no other: the two
\* clampings, the fixed-base and the double-scalar multiplication, and the
\* encoding of points agree (crypto/ed25519/base.go GenerateKey, Sign, Verify).
SignedAccepted ==
    step = "Verify" =>
        /\ verdict.S = sig.S /\ verdict.digest = sig.hram => verdict.accepted
        /\ (verdict.accepted <=>
            /\ verdict.S < 2^(ScalarBits - 3)
            /\ (verdict.S - sig.r - ScReduceOf(verdict.digest) * ClampKey(key.seed)) % GroupOrder = 0)
=============================================================================
