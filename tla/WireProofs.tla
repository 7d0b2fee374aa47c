----------------------------- MODULE WireProofs -----------------------------
(***************************************************************************)
(* What is put on a connection is what is read from it: the SOCKS          *)
(* handshake (SocksDial) and the frames and datagrams of messages          *)
(* (Framing), for every content, length and setting and wherever a         *)
(* connection breaks.                                                      *)
(*                                                                         *)
(* Neither DialResult nor FramesDecoded is inductive: they speak of what   *)
(* has been read.  Both invariants place the reader in the bytes that were *)
(* written.  For the handshake every place of dial says what the proxy has *)
(* decoded and how much of its answer has been read; the rest is on its    *)
(* way, but for an end that a break may lose.  For frames, all the bytes   *)
(* that were ever written and the end of every frame in them are           *)
(* quantified: the reader is in some field of the frame after the last     *)
(* message it has received, and what it holds of the field and what is on  *)
(* its way follow each other there. Integers in bytes need division with   *)
(* remainder only.                                                         *)
(***************************************************************************)
EXTENDS Framing, SocksDial, TLAPS

\* The bytes stand in whole after position p.
Carries(whole, p, bytes) ==
    p + Len(bytes) <= Len(whole) /\ \A i \in 1..Len(bytes) : whole[p + i] = bytes[i]

\* c is a, followed by b.
Joined(S, a, b, c) ==
    /\ c \in Seq(S) /\ Len(c) = Len(a) + Len(b) /\ Len(a) \in Nat /\ Len(b) \in Nat
    /\ \A i \in 1..Len(a) : c[i] = a[i]
    /\ \A i \in 1..Len(b) : c[Len(a) + i] = b[i]

\* What a concatenation holds.
LEMMA Concat ==
    ASSUME NEW S, NEW a \in Seq(S), NEW b \in Seq(S)
    PROVE  Joined(S, a, b, a \o b)
BY DEF Joined

\* The length of a concatenation.
LEMMA ConcatLen ==
    ASSUME NEW S, NEW a \in Seq(S), NEW b \in Seq(S)
    PROVE  a \o b \in Seq(S) /\ Len(a \o b) = Len(a) + Len(b)
OBVIOUS

\* Sequences with the same elements are equal.
LEMMA SameBytes ==
    ASSUME NEW S, NEW a \in Seq(S), NEW b \in Seq(S), Len(a) = Len(b), \A i \in 1..Len(a) : a[i] = b[i]
    PROVE  a = b
OBVIOUS

\* The elements of a pair.
LEMMA PairOf == ASSUME NEW a, NEW b PROVE Len(<<a, b>>) = 2 /\ <<a, b>>[1] = a /\ <<a, b>>[2] = b
OBVIOUS

\* Appending to a sequence of one element.
LEMMA SecondPart ==
    ASSUME NEW S, NEW a \in S, NEW b \in S
    PROVE  Append(<<a>>, b) = <<a, b>>
<1>1. PICK x \in Seq(S) : x = <<a>> /\ Len(x) = 1 /\ x[1] = a
  <2>1. <<a>> \in Seq(S) /\ Len(<<a>>) = 1 /\ <<a>>[1] = a
    OBVIOUS
  <2> QED
    BY ONLY Zenon, <2>1
<1>2. PICK z \in Seq(S) : z = <<a, b>> /\ Len(z) = 2 /\ z[1] = a /\ z[2] = b
  <2>1. <<a, b>> \in Seq(S)
    OBVIOUS
  <2>2. Len(<<a, b>>) = 2 /\ <<a, b>>[1] = a /\ <<a, b>>[2] = b
    BY ONLY Zenon, PairOf
  <2> QED
    BY ONLY Zenon, <2>1, <2>2
<1>3. PICK y : y = Append(x, b)
  BY Zenon
<1>4. y \in Seq(S) /\ Len(y) = 2 /\ y[1] = a /\ y[2] = b
  <2>1. Append(x, b) \in Seq(S) /\ Len(Append(x, b)) = Len(x) + 1 /\ Append(x, b)[1] = x[1] /\ Append(x, b)[2] = b
    BY ONLY <1>1, x \in Seq(S), b \in S
  <2> QED
    BY <1>1, <1>3, <2>1
<1>5. \A i \in 1..2 : i = 1 \/ i = 2
  OBVIOUS
<1>6. y = z
  <2>1. \A i \in 1..2 : y[i] = z[i]
    BY Zenon, <1>2, <1>4, <1>5
  <2> QED
    BY Zenon, <1>2, <1>4, <2>1, SameBytes
<1> QED
  BY Zenon, <1>1, <1>2, <1>3, <1>6

\* The beginning of a sequence, and the rest of it.
LEMMA Part ==
    ASSUME NEW S, NEW a \in Seq(S), NEW n \in 0..Len(a)
    PROVE  /\ SubSeq(a, 1, n) \in Seq(S) /\ Len(SubSeq(a, 1, n)) = n
           /\ \A i \in 1..n : SubSeq(a, 1, n)[i] = a[i]
           /\ SubSeq(a, n + 1, Len(a)) \in Seq(S) /\ Len(SubSeq(a, n + 1, Len(a))) = Len(a) - n
           /\ \A i \in 1..Len(a) - n : SubSeq(a, n + 1, Len(a))[i] = a[n + i]
<1>1. Len(a) \in Nat /\ n \in Nat /\ n <= Len(a)
  OBVIOUS
<1>2. /\ SubSeq(a, 1, n) \in Seq(S) /\ Len(SubSeq(a, 1, n)) = n
      /\ \A i \in 1..n : SubSeq(a, 1, n)[i] = a[i]
  BY <1>1
<1>3. SubSeq(a, n + 1, Len(a)) \in Seq(S) /\ Len(SubSeq(a, n + 1, Len(a))) = Len(a) - n
  BY <1>1
<1>4. \A i \in 1..Len(a) - n : SubSeq(a, n + 1, Len(a))[i] = a[n + i]
  BY <1>1
<1> QED
  BY Zenon, <1>2, <1>3, <1>4

\* A sequence stands in itself.
LEMMA CarriesSelf == ASSUME NEW S, NEW a \in Seq(S) PROVE Carries(a, 0, a)
BY DEF Carries

\* Bytes that stand in a sequence are a slice of it.
LEMMA Slice ==
    ASSUME NEW w \in Seq(Nat), NEW p \in Nat, NEW b \in Seq(Nat), Carries(w, p, b)
    PROVE  SubSeq(w, p + 1, p + Len(b)) = b
<1>1. PICK n \in Nat, k \in Nat : n = Len(b) /\ k = Len(w)
  OBVIOUS
<1>2. p + n <= k /\ \A i \in 1..n : w[p + i] = b[i]
  BY Zenon, <1>1 DEF Carries
<1>3. PICK f : f = SubSeq(w, p + 1, p + n)
  BY Zenon
<1>4. f \in Seq(Nat) /\ Len(f) = n
  BY ONLY SMTT(20), <1>1, <1>2, <1>3, w \in Seq(Nat), p \in Nat
<1>5. \A i \in 1..n : f[i] = w[p + i]
  BY ONLY <1>1, <1>2, <1>3, w \in Seq(Nat), p \in Nat
<1>6. \A i \in 1..n : f[i] = b[i]
  BY Zenon, <1>2, <1>5
<1>7. f = b
  BY Zenon, <1>1, <1>4, <1>6, SameBytes
<1> QED
  BY Zenon, <1>1, <1>3, <1>7

\* At one place stand only one sequence of a length.
LEMMA CarriesSame ==
    ASSUME NEW S, NEW whole, NEW p, NEW a \in Seq(S), NEW b \in Seq(S), Len(a) = Len(b),
           Carries(whole, p, a), Carries(whole, p, b)
    PROVE  a = b
<1>1. \A i \in 1..Len(a) : a[i] = b[i]
  BY Zenon DEF Carries
<1> QED
  BY ONLY Zenon, <1>1, Len(a) = Len(b), SameBytes

\* Bytes that stand one after the other stand there joined.
LEMMA CarriesJoin ==
    ASSUME NEW S, NEW whole \in Seq(S), NEW p \in Nat, NEW a \in Seq(S), NEW b \in Seq(S),
           Carries(whole, p, a), Carries(whole, p + Len(a), b)
    PROVE  Carries(whole, p, a \o b)
<1> DEFINE c == a \o b
<1>1. /\ c \in Seq(S) /\ Len(c) = Len(a) + Len(b) /\ Len(a) \in Nat /\ Len(b) \in Nat
      /\ \A i \in 1..Len(a) : c[i] = a[i]
      /\ \A i \in 1..Len(b) : c[Len(a) + i] = b[i]
  <2>1. Joined(S, a, b, c)
    BY ONLY Zenon, a \in Seq(S), b \in Seq(S), Concat
  <2> HIDE DEF c
  <2> QED
    BY Zenon, <2>1 DEF Joined
<1> HIDE DEF c
<1>2. /\ p + Len(a) <= Len(whole) /\ p + Len(a) + Len(b) <= Len(whole) /\ Len(whole) \in Nat
      /\ \A i \in 1..Len(a) : whole[p + i] = a[i]
      /\ \A i \in 1..Len(b) : whole[p + Len(a) + i] = b[i]
  BY DEF Carries
<1>3. ASSUME NEW i \in 1..Len(c) PROVE whole[p + i] = c[i]
  <2>1. CASE i <= Len(a)
    BY <1>1, <1>2, <2>1
  <2>2. CASE i > Len(a)
    <3> DEFINE j == i - Len(a)
    <3>1. j \in 1..Len(b) /\ i = Len(a) + j /\ p + i = p + Len(a) + j
      BY <1>1, <2>2
    <3> HIDE DEF j
    <3> QED
      BY Zenon, <1>1, <1>2, <3>1
  <2> QED
    BY <1>1, <2>1, <2>2
<1>4. p + Len(c) <= Len(whole)
  BY <1>1, <1>2
<1>5. Carries(whole, p, c)
  BY Zenon, <1>3, <1>4 DEF Carries
<1> QED
  BY Zenon, <1>5 DEF c

\* Joined bytes stand one after the other.
LEMMA CarriesParts ==
    ASSUME NEW S, NEW whole \in Seq(S), NEW p \in Nat, NEW a \in Seq(S), NEW b \in Seq(S), Carries(whole, p, a \o b)
    PROVE  Carries(whole, p, a) /\ Carries(whole, p + Len(a), b)
<1> DEFINE c == a \o b
<1>1. /\ c \in Seq(S) /\ Len(c) = Len(a) + Len(b) /\ Len(a) \in Nat /\ Len(b) \in Nat
      /\ \A i \in 1..Len(a) : c[i] = a[i]
      /\ \A i \in 1..Len(b) : c[Len(a) + i] = b[i]
  <2>1. Joined(S, a, b, c)
    BY ONLY Zenon, a \in Seq(S), b \in Seq(S), Concat
  <2> HIDE DEF c
  <2> QED
    BY Zenon, <2>1 DEF Joined
<1>2. p + Len(c) <= Len(whole) /\ Len(whole) \in Nat /\ \A i \in 1..Len(c) : whole[p + i] = c[i]
  <2>1. p + Len(c) <= Len(whole) /\ \A i \in 1..Len(c) : whole[p + i] = c[i]
    BY Zenon DEF Carries
  <2>2. Len(whole) \in Nat
    OBVIOUS
  <2> QED
    BY ONLY Zenon, <2>1, <2>2
<1> HIDE DEF c
<1>3. ASSUME NEW i \in 1..Len(a) PROVE whole[p + i] = a[i]
  <2>1. i \in 1..Len(c)
    BY <1>1
  <2> QED
    BY Zenon, <1>1, <1>2, <2>1
<1>4. ASSUME NEW i \in 1..Len(b) PROVE whole[p + Len(a) + i] = b[i]
  <2>1. Len(a) + i \in 1..Len(c) /\ p + Len(a) + i = p + (Len(a) + i)
    BY <1>1
  <2> QED
    BY Zenon, <1>1, <1>2, <2>1
<1>5. p + Len(a) <= Len(whole) /\ p + Len(a) + Len(b) <= Len(whole)
  BY <1>1, <1>2
<1> QED
  BY Zenon, <1>3, <1>4, <1>5 DEF Carries

\* If bytes stand somewhere, so do their beginning and their rest.
LEMMA CarriesTake ==
    ASSUME NEW S, NEW whole \in Seq(S), NEW p \in Nat, NEW a \in Seq(S), NEW n \in 0..Len(a), Carries(whole, p, a)
    PROVE  Carries(whole, p, SubSeq(a, 1, n)) /\ Carries(whole, p + n, SubSeq(a, n + 1, Len(a)))
<1> DEFINE b == SubSeq(a, 1, n)
           c == SubSeq(a, n + 1, Len(a))
<1>1. Len(b) = n /\ (\A i \in 1..n : b[i] = a[i]) /\ Len(c) = Len(a) - n /\ \A i \in 1..Len(a) - n : c[i] = a[n + i]
  <2>1. Len(b) = n
    BY ONLY ZenonT(30), a \in Seq(S), n \in 0..Len(a), Part
  <2>2. \A i \in 1..n : b[i] = a[i]
    BY ONLY Zenon, a \in Seq(S), n \in 0..Len(a), Part
  <2>3. Len(c) = Len(a) - n
    BY ONLY Zenon, a \in Seq(S), n \in 0..Len(a), Part
  <2>4. \A i \in 1..Len(a) - n : c[i] = a[n + i]
    BY ONLY Zenon, a \in Seq(S), n \in 0..Len(a), Part
  <2> QED
    BY ONLY Zenon, <2>1, <2>2, <2>3, <2>4
<1>2. Len(a) \in Nat /\ n \in Nat /\ n <= Len(a) /\ p + Len(a) <= Len(whole) /\ Len(whole) \in Nat /\ \A i \in 1..Len(a) : whole[p + i] = a[i]
  BY DEF Carries
<1> HIDE DEF b, c
<1>3. ASSUME NEW i \in 1..Len(b) PROVE whole[p + i] = b[i]
  <2>1. i \in 1..Len(a) /\ i \in 1..n
    BY <1>1, <1>2
  <2> QED
    BY Zenon, <1>1, <1>2, <2>1
<1>4. ASSUME NEW i \in 1..Len(c) PROVE whole[p + n + i] = c[i]
  <2>1. n + i \in 1..Len(a) /\ i \in 1..Len(a) - n /\ p + n + i = p + (n + i)
    BY <1>1, <1>2
  <2> QED
    BY Zenon, <1>1, <1>2, <2>1
<1>5. p + Len(b) <= Len(whole) /\ p + n + Len(c) <= Len(whole)
  BY <1>1, <1>2
<1> QED
  BY Zenon, <1>3, <1>4, <1>5 DEF Carries, b, c

\* What stands in a sequence stands in every longer one.
LEMMA CarriesMore ==
    ASSUME NEW S, NEW whole \in Seq(S), NEW more \in Seq(S)
    PROVE  /\ \A p \in Nat, a \in Seq(S) : Carries(whole, p, a) => Carries(whole \o more, p, a)
           /\ Carries(whole \o more, Len(whole), more)
<1> DEFINE w == whole \o more
<1>1. /\ w \in Seq(S) /\ Len(w) = Len(whole) + Len(more) /\ Len(whole) \in Nat /\ Len(more) \in Nat
      /\ \A i \in 1..Len(whole) : w[i] = whole[i]
      /\ \A i \in 1..Len(more) : w[Len(whole) + i] = more[i]
  <2>1. Joined(S, whole, more, w)
    BY ONLY Zenon, whole \in Seq(S), more \in Seq(S), Concat
  <2> HIDE DEF w
  <2> QED
    BY Zenon, <2>1 DEF Joined
<1> HIDE DEF w
<1>2. ASSUME NEW p \in Nat, NEW a \in Seq(S), Carries(whole, p, a) PROVE Carries(w, p, a)
  <2>1. p + Len(a) <= Len(whole) /\ Len(a) \in Nat /\ \A i \in 1..Len(a) : whole[p + i] = a[i]
    BY <1>2 DEF Carries
  <2>2. ASSUME NEW i \in 1..Len(a) PROVE w[p + i] = a[i]
    <3>1. p + i \in 1..Len(whole)
      BY <1>1, <2>1
    <3> QED
      BY Zenon, <1>1, <2>1, <3>1
  <2>3. p + Len(a) <= Len(w)
    BY <1>1, <2>1
  <2> QED
    BY Zenon, <2>2, <2>3 DEF Carries
<1>3. Carries(w, Len(whole), more)
  <2>1. Len(whole) + Len(more) <= Len(w)
    BY <1>1
  <2> QED
    BY Zenon, <1>1, <2>1 DEF Carries
<1> QED
  BY Zenon, <1>2, <1>3 DEF w

\* A size below the square of the base is two digits.
LEMMA Rest == ASSUME NEW n \in Nat, NEW B \in Nat, B > n PROVE n % B = n
OBVIOUS

\* Division with a remainder.
LEMMA Quotient ==
    ASSUME NEW n \in Nat, NEW B \in Nat, B > 1
    PROVE  n \div B \in Nat /\ n = (n \div B) * B + (n % B)
OBVIOUS

\* The upper of two digits.
LEMMA SmallQuotient == ASSUME NEW n \in Nat, NEW B \in Nat, B > 1, n < B * B PROVE B > n \div B
OBVIOUS

\* A number of two digits is read back from them.
LEMMA TwoDigits ==
    ASSUME NEW n \in Nat, NEW B \in Nat, B > 1, n < B * B
    PROVE  ((n \div B) % B) * B + (n % B) = n
<1>1. n \div B \in Nat /\ n = (n \div B) * B + (n % B)
  BY ONLY Zenon, n \in Nat, B \in Nat, B > 1, Quotient
<1>2. B > n \div B
  BY ONLY Zenon, n \in Nat, B \in Nat, B > 1, n < B * B, SmallQuotient
<1>3. (n \div B) % B = n \div B
  BY ONLY Zenon, <1>1, <1>2, B \in Nat, Rest
<1> QED
  BY ONLY Zenon, <1>1, <1>3
-----------------------------------------------------------------------------
\* What each side writes.
LoginOf(l) == <<1, Byte(Len(l.user))>> \o l.user \o <<Byte(Len(l.pass))>> \o l.pass
RequestOf(t) ==
    <<protocolVersion, 1, 0, addressTypeDomain, Byte(Len(t.host))>> \o t.host
      \o <<Byte(t.port \div SocksRadix), t.port % SocksRadix>>
ChoiceOf(x) == <<x.version, x.method>>
VerdictOf(x, l) == <<1, IF l = x.login THEN 0 ELSE 1>>
ReplyOf(x) ==
    <<x.version, x.status, 0, x.atype>>
      \o (IF x.atype = addressTypeDomain THEN <<Len(x.addr)>> ELSE <<>>) \o x.addr
      \o <<x.port \div SocksRadix, x.port % SocksRadix>> \o x.payload

\* Where the address and the port stand in the reply.
AddrAt(x) == IF x.atype = addressTypeDomain THEN 5 ELSE 4
PortAt(x) == AddrAt(x) + Len(x.addr)

\* The client has read p bytes of the answer; c is on its way.
Coming(answer, p, c, u) ==
    c \in Seq(Nat) /\ Carries(answer, p, c) /\ (u => p + Len(c) = Len(answer))

Chosen(x) == CASE x.method = authNone -> "request" [] x.method = authUsernamePassword -> "login" [] OTHER -> "end"

\* The client and the proxy, by the place of the client.
Agreed ==
    /\ proxy.version = protocolVersion
    /\ proxy.method = authNone \/ (proxy.method = authUsernamePassword /\ told = login /\ login = proxy.login)
Answered == spc = "end" /\ toProxy = <<>> /\ asked = target
Granted ==
    /\ Agreed /\ Answered
    /\ proxy.status = statusRequestGranted /\ proxy.atype \in {addressTypeIPv4, addressTypeIPv6, addressTypeDomain}
Named == proxy.atype = addressTypeDomain => paddr.host = proxy.addr

Dialling == spc = "greeting" /\ toProxy = <<>> /\ toClient = <<>>
Choosing ==
    \/ spc = "greeting" /\ toProxy # <<>> /\ toClient = <<>>
    \/ spc = Chosen(proxy) /\ toProxy = <<>> /\ Coming(ChoiceOf(proxy), 0, toClient, linked)
WantsLogin == proxy.version = protocolVersion /\ proxy.method = authUsernamePassword
LoggingIn == WantsLogin /\ spc = "login" /\ toProxy = <<>> /\ toClient = <<>>
Verifying ==
    /\ WantsLogin
    /\ \/ spc = "login" /\ toProxy = LoginOf(login) /\ toClient = <<>>
       \/ /\ told = login /\ spc = (IF login = proxy.login THEN "request" ELSE "end")
          /\ toProxy = <<>> /\ Coming(VerdictOf(proxy, login), 0, toClient, linked)
Requesting == Agreed /\ spc = "request" /\ toProxy = <<>> /\ toClient = <<>>
Replying ==
    /\ Agreed
    /\ \/ spc = "request" /\ toProxy = RequestOf(target) /\ toClient = <<>>
       \/ Answered /\ Coming(ReplyOf(proxy), 0, toClient, linked)
AtAddress == Granted /\ mem[4] = proxy.atype /\ Coming(ReplyOf(proxy), 4, toClient, linked)
AtDomain ==
    /\ Granted /\ proxy.atype = addressTypeDomain /\ mem[1] = Len(proxy.addr)
    /\ Coming(ReplyOf(proxy), 5, toClient, linked)
AtPort == Granted /\ Named /\ Coming(ReplyOf(proxy), PortAt(proxy), toClient, linked)
Connected ==
    /\ Granted /\ Named /\ paddr.port = proxy.port
    /\ Coming(ReplyOf(proxy), PortAt(proxy) + 2, toClient, linked)
Refused == ~Willing \/ ~linked
Overlong == proxy.atype = addressTypeDomain /\ Len(proxy.addr) > Cap

\* Every place of dial has its condition; nothing is known of a dial that could
\* not connect.
Stage ==
    /\ dpc \in {"dial", "greet"} => Dialling
    /\ dpc = "choice" => Choosing
    /\ dpc = "login" => LoggingIn
    /\ dpc = "verdict" => Verifying
    /\ dpc = "request" => Requesting
    /\ dpc = "reply" => Replying
    /\ dpc = "address" => AtAddress
    /\ dpc = "domain" => AtDomain
    /\ dpc = "port" => AtPort
    /\ dpc = "done" => Connected
    /\ dpc = "error" => Refused
    /\ dpc = "crash" => Overlong

Places == {"dial", "failed", "greet", "choice", "login", "verdict", "request", "reply", "address", "domain", "port",
           "done", "error", "crash"}

\* With the types, this is inductive.
SocksInv ==
    /\ target \in Targets /\ login \in Logins /\ proxy \in Proxies
    /\ mem \in Seq(Nat) /\ Len(mem) = Cap
    /\ linked \in BOOLEAN
    /\ dpc \in Places
    /\ closed = (dpc = "error")
    /\ \E h, n : paddr = [host |-> h, port |-> n]
    /\ Stage
-----------------------------------------------------------------------------
\* Answers, byte by byte.
\* Four sequences make up w.
FourParts(w, a, b, c, d) ==
    /\ w \in Seq(Nat) /\ Len(w) = Len(a) + Len(b) + Len(c) + Len(d)
    /\ Carries(w, 0, a) /\ Carries(w, Len(a), b) /\ Carries(w, Len(a) + Len(b), c)
    /\ Carries(w, Len(a) + Len(b) + Len(c), d)

\* Four sequences in a row, each at its place.
LEMMA Four ==
    ASSUME NEW a \in Seq(Nat), NEW b \in Seq(Nat), NEW c \in Seq(Nat), NEW d \in Seq(Nat)
    PROVE  FourParts(a \o b \o c \o d, a, b, c, d)
<1> DEFINE w == a \o b \o c \o d
<1>1. a \o b \in Seq(Nat) /\ Len(a \o b) = Len(a) + Len(b)
  BY Zenon, ConcatLen
<1>2. PICK x \in Seq(Nat) : x = a \o b /\ Len(x) = Len(a) + Len(b)
  BY Zenon, <1>1
<1>3. x \o c \in Seq(Nat) /\ Len(x \o c) = Len(x) + Len(c)
  BY ONLY Zenon, x \in Seq(Nat), c \in Seq(Nat), ConcatLen
<1>4. PICK y \in Seq(Nat) : y = x \o c /\ Len(y) = Len(x) + Len(c)
  BY Zenon, <1>3
<1>5. y \o d \in Seq(Nat) /\ Len(y \o d) = Len(y) + Len(d)
  BY ONLY Zenon, y \in Seq(Nat), d \in Seq(Nat), ConcatLen
<1>6. w = y \o d
  BY Zenon, <1>2, <1>4
<1>7. w \in Seq(Nat) /\ Carries(w, 0, y \o d)
  BY Zenon, <1>5, <1>6, CarriesSelf
<1>0. 0 \in Nat
  OBVIOUS
<1>8. Carries(w, 0, y) /\ Carries(w, 0 + Len(y), d)
  BY ONLY Zenon, <1>0, <1>7, y \in Seq(Nat), d \in Seq(Nat), CarriesParts
<1>9. Carries(w, 0, x) /\ Carries(w, 0 + Len(x), c)
  BY ONLY Zenon, <1>0, <1>4, <1>7, <1>8, x \in Seq(Nat), c \in Seq(Nat), CarriesParts
<1>10. Carries(w, 0, a) /\ Carries(w, 0 + Len(a), b)
  BY ONLY Zenon, <1>0, <1>2, <1>7, <1>9, a \in Seq(Nat), b \in Seq(Nat), CarriesParts
<1>11. Len(a) \in Nat /\ Len(x) \in Nat /\ Len(y) \in Nat
  OBVIOUS
<1>12. 0 + Len(a) = Len(a) /\ 0 + Len(x) = Len(x) /\ 0 + Len(y) = Len(y)
  BY ONLY <1>11
<1> QED
  BY Zenon, <1>2, <1>4, <1>5, <1>6, <1>7, <1>8, <1>9, <1>10, <1>12 DEF FourParts

\* A sequence of one byte.
LEMMA ByteOf ==
    ASSUME NEW a \in Nat
    PROVE  <<a>> \in Seq(Nat) /\ Len(<<a>>) = 1 /\ <<a>>[1] = a
OBVIOUS

\* A sequence of two.
LEMMA BytesOf ==
    ASSUME NEW a \in Nat, NEW b \in Nat
    PROVE  <<a, b>> \in Seq(Nat) /\ Len(<<a, b>>) = 2 /\ <<a, b>>[1] = a /\ <<a, b>>[2] = b
OBVIOUS

\* A header of four bytes.
LEMMA HeaderOf ==
    ASSUME NEW a \in Nat, NEW b \in Nat, NEW c \in Nat, NEW d \in Nat
    PROVE  /\ <<a, b, c, d>> \in Seq(Nat) /\ Len(<<a, b, c, d>>) = 4
           /\ <<a, b, c, d>>[1] = a /\ <<a, b, c, d>>[2] = b /\ <<a, b, c, d>>[4] = d
OBVIOUS

\* A byte that stands in a sequence.
LEMMA OneIn == ASSUME NEW w, NEW p \in Nat, NEW b, Len(b) = 1, Carries(w, p, b) PROVE w[p + 1] = b[1]
BY DEF Carries

\* Two bytes that stand in a sequence.
LEMMA TwoIn ==
    ASSUME NEW w, NEW p \in Nat, NEW b, Len(b) = 2, Carries(w, p, b)
    PROVE  w[p + 1] = b[1] /\ w[p + 2] = b[2]
BY DEF Carries

\* A number below SocksRadix is its own byte.
LEMMA ByteSame == ASSUME NEW n \in Nat, n < SocksRadix PROVE Byte(n) = n
BY SocksAssumption, Rest DEF Byte

\* The proxy decodes the login that dial has encoded.
LEMMA LoginParts ==
    ASSUME NEW l \in Logins, NEW w, w = LoginOf(l)
    PROVE  /\ w \in Seq(Nat) /\ Len(w) = 3 + Len(l.user) + Len(l.pass)
           /\ w[2] = Len(l.user) /\ SubSeq(w, 3, 2 + w[2]) = l.user
           /\ w[3 + w[2]] = Len(l.pass) /\ SubSeq(w, 4 + w[2], 3 + w[2] + w[3 + w[2]]) = l.pass
<1>1. /\ l.user \in Seq(Nat) /\ l.pass \in Seq(Nat) /\ Len(l.user) < SocksRadix /\ Len(l.pass) < SocksRadix
  BY SocksAssumption
<1>2. PICK u \in Seq(Nat), v \in Seq(Nat) : u = l.user /\ v = l.pass
  BY ONLY Zenon, <1>1
<1>3. Len(u) \in Nat /\ Len(v) \in Nat
  OBVIOUS
<1>4. PICK m \in Nat, n \in Nat : m = Len(u) /\ n = Len(v)
  BY ONLY Zenon, <1>3
<1>5. Byte(m) = m /\ Byte(n) = n
  BY Zenon, <1>1, <1>2, <1>4, ByteSame
<1>6. w = <<1, m>> \o u \o <<n>> \o v
  BY Zenon, <1>2, <1>4, <1>5 DEF LoginOf
<1>0. 1 \in Nat
  OBVIOUS
<1>7. <<1, m>> \in Seq(Nat) /\ Len(<<1, m>>) = 2 /\ <<1, m>>[2] = m
  BY ONLY Zenon, <1>0, m \in Nat, BytesOf
<1>8. <<n>> \in Seq(Nat) /\ Len(<<n>>) = 1 /\ <<n>>[1] = n
  BY ONLY Zenon, n \in Nat, ByteOf
<1>9. PICK a \in Seq(Nat), c \in Seq(Nat) :
        a = <<1, m>> /\ c = <<n>> /\ Len(a) = 2 /\ a[2] = m /\ Len(c) = 1 /\ c[1] = n
  BY ONLY Zenon, <1>7, <1>8
<1>10. w = a \o u \o c \o v
  BY ONLY Zenon, <1>6, <1>9
<1>11. FourParts(w, a, u, c, v)
  BY ONLY Zenon, <1>10, a \in Seq(Nat), u \in Seq(Nat), c \in Seq(Nat), v \in Seq(Nat), Four
<1>12. /\ w \in Seq(Nat) /\ Len(w) = 2 + m + 1 + n /\ Carries(w, 0, a) /\ Carries(w, 2, u) /\ Carries(w, 2 + m, c)
       /\ Carries(w, 2 + m + 1, v)
  BY ONLY Zenon, <1>4, <1>9, <1>11 DEF FourParts
<1>13. 2 + m + 1 + n = 3 + m + n /\ 2 + m + 1 = 3 + m /\ 3 + m + 1 = 4 + m /\ 0 + 2 = 2 /\ 2 + 1 = 3
  BY ONLY m \in Nat, n \in Nat
<1>14. 0 \in Nat /\ 2 \in Nat /\ 2 + m \in Nat /\ 3 + m \in Nat
  BY ONLY m \in Nat
<1>15. w[0 + 2] = a[2]
  BY ONLY Zenon, <1>9, <1>12, <1>14, TwoIn
<1>16. w[2 + m + 1] = c[1]
  BY ONLY Zenon, <1>9, <1>12, <1>14, OneIn
<1>17. SubSeq(w, 2 + 1, 2 + Len(u)) = u
  BY ONLY Zenon, <1>12, <1>14, u \in Seq(Nat), Slice
<1>18. Carries(w, 3 + m, v)
  BY ONLY Zenon, <1>12, <1>13
<1>19. SubSeq(w, 3 + m + 1, 3 + m + Len(v)) = v
  BY ONLY Zenon, <1>12, <1>14, <1>18, v \in Seq(Nat), Slice
<1>20. w[2] = m /\ w[3 + m] = n
  BY ONLY Zenon, <1>9, <1>13, <1>15, <1>16
<1>21. SubSeq(w, 3, 2 + m) = u /\ SubSeq(w, 4 + m, 3 + m + n) = v
  BY ONLY Zenon, <1>4, <1>13, <1>17, <1>19
<1> QED
  BY ONLY Zenon, <1>2, <1>4, <1>12, <1>13, <1>20, <1>21

\* A header of five bytes.
LEMMA FiveOf ==
    ASSUME NEW a \in Nat, NEW b \in Nat, NEW c \in Nat, NEW d \in Nat, NEW e \in Nat
    PROVE  <<a, b, c, d, e>> \in Seq(Nat) /\ Len(<<a, b, c, d, e>>) = 5 /\ <<a, b, c, d, e>>[5] = e
OBVIOUS

\* The last byte of such a header.
LEMMA FifthIn == ASSUME NEW w, NEW b, Len(b) = 5, Carries(w, 0, b) PROVE w[5] = b[5]
BY DEF Carries

\* A port in two bytes.
LEMMA Digits ==
    ASSUME NEW n \in Nat
    PROVE  /\ n \div SocksRadix \in Nat /\ n % SocksRadix \in Nat /\ Byte(n \div SocksRadix) \in Nat
           /\ n = (n \div SocksRadix) * SocksRadix + (n % SocksRadix)
           /\ n < SocksRadix * SocksRadix => n = Byte(n \div SocksRadix) * SocksRadix + (n % SocksRadix)
<1>1. PICK B \in Nat : B = SocksRadix /\ B > 1
  BY SocksAssumption
<1>2. n \div B \in Nat /\ n = (n \div B) * B + (n % B)
  BY ONLY Zenon, <1>1, n \in Nat, B \in Nat, Quotient
<1>3. \A k \in Nat : k % B \in Nat
  BY ONLY <1>1, B \in Nat
<1>4. n < B * B => ((n \div B) % B) * B + (n % B) = n
  BY ONLY Zenon, <1>1, n \in Nat, B \in Nat, TwoDigits
<1> QED
  BY Zenon, <1>1, <1>2, <1>3, <1>4 DEF Byte

\* The proxy decodes the target that dial has encoded.
LEMMA RequestParts ==
    ASSUME NEW t \in Targets, NEW w, w = RequestOf(t)
    PROVE  /\ w \in Seq(Nat) /\ Len(w) = 7 + Len(t.host)
           /\ w[5] = Len(t.host) /\ SubSeq(w, 6, 5 + w[5]) = t.host
           /\ w[6 + w[5]] * SocksRadix + w[7 + w[5]] = t.port
<1>1. t.host \in Seq(Nat) /\ t.port \in Nat /\ Len(t.host) < SocksRadix /\ t.port < SocksRadix * SocksRadix
  BY SocksAssumption
<1>2. PICK h \in Seq(Nat) : h = t.host
  BY ONLY Zenon, <1>1
<1>3. Len(h) \in Nat
  OBVIOUS
<1>4. PICK m \in Nat : m = Len(h)
  BY ONLY Zenon, <1>3
<1>5. Byte(m) = m
  BY Zenon, <1>1, <1>2, <1>4, ByteSame
<1>6. PICK x \in Nat, y \in Nat :
        x = Byte(t.port \div SocksRadix) /\ y = t.port % SocksRadix /\ t.port = x * SocksRadix + y
  BY Zenon, <1>1, Digits
<1>7. w = <<5, 1, 0, 3, m>> \o h \o <<x, y>>
  BY Zenon, <1>2, <1>4, <1>5, <1>6 DEF RequestOf, protocolVersion, addressTypeDomain
<1>0. 0 \in Nat /\ 1 \in Nat /\ 3 \in Nat /\ 5 \in Nat
  OBVIOUS
<1>8. <<5, 1, 0, 3, m>> \in Seq(Nat) /\ Len(<<5, 1, 0, 3, m>>) = 5 /\ <<5, 1, 0, 3, m>>[5] = m
  BY ONLY Zenon, <1>0, m \in Nat, FiveOf
<1>9. <<x, y>> \in Seq(Nat) /\ Len(<<x, y>>) = 2 /\ <<x, y>>[1] = x /\ <<x, y>>[2] = y
  BY ONLY Zenon, x \in Nat, y \in Nat, BytesOf
<1>10. PICK a \in Seq(Nat), c \in Seq(Nat) :
        a = <<5, 1, 0, 3, m>> /\ c = <<x, y>> /\ Len(a) = 5 /\ a[5] = m /\ Len(c) = 2 /\ c[1] = x /\ c[2] = y
  BY ONLY Zenon, <1>8, <1>9
<1>11. a \o h \in Seq(Nat) /\ Len(a \o h) = Len(a) + Len(h)
  BY ONLY Zenon, a \in Seq(Nat), h \in Seq(Nat), ConcatLen
<1>12. PICK d \in Seq(Nat) : d = a \o h /\ Len(d) = 5 + m
  BY ONLY Zenon, <1>4, <1>10, <1>11
<1>13. d \o c \in Seq(Nat) /\ Len(d \o c) = Len(d) + Len(c)
  BY ONLY Zenon, d \in Seq(Nat), c \in Seq(Nat), ConcatLen
<1>14. w = d \o c
  BY ONLY Zenon, <1>7, <1>10, <1>12
<1>15. w \in Seq(Nat) /\ Len(w) = 5 + m + 2
  BY ONLY Zenon, <1>10, <1>12, <1>13, <1>14
<1>16. Carries(w, 0, d \o c)
  BY ONLY Zenon, <1>13, <1>14, CarriesSelf
<1>17. Carries(w, 0, d) /\ Carries(w, 0 + Len(d), c)
  BY ONLY Zenon, <1>0, <1>15, <1>16, d \in Seq(Nat), c \in Seq(Nat), CarriesParts
<1>18. Carries(w, 0, a) /\ Carries(w, 0 + Len(a), h)
  BY ONLY Zenon, <1>0, <1>12, <1>15, <1>17, a \in Seq(Nat), h \in Seq(Nat), CarriesParts
<1>19. /\ 0 + (5 + m) = 5 + m /\ 5 + m + 2 = 7 + m /\ 5 + m + 1 = 6 + m /\ 5 + m \in Nat /\ 0 + 5 = 5 /\ 5 + 1 = 6
  BY ONLY m \in Nat
<1>20. Carries(w, 5 + m, c) /\ Carries(w, 5, h)
  BY ONLY Zenon, <1>10, <1>12, <1>17, <1>18, <1>19
<1>21. w[5] = a[5]
  BY ONLY Zenon, <1>10, <1>18, FifthIn
<1>22. w[5 + m + 1] = c[1] /\ w[5 + m + 2] = c[2]
  BY ONLY ZenonT(30), <1>10, <1>19, <1>20, TwoIn
<1>23. SubSeq(w, 5 + 1, 5 + Len(h)) = h
  BY ONLY Zenon, <1>0, <1>15, <1>20, h \in Seq(Nat), Slice
<1>24. w[5] = m /\ w[6 + m] = x /\ w[7 + m] = y /\ SubSeq(w, 6, 5 + m) = h
  BY ONLY Zenon, <1>4, <1>10, <1>19, <1>21, <1>22, <1>23
<1> QED
  BY ONLY Zenon, <1>2, <1>4, <1>6, <1>15, <1>19, <1>24

\* What dial finds in the reply of x.
IsReply(w, x) ==
    /\ w \in Seq(Nat) /\ Len(w) = PortAt(x) + 2 + Len(x.payload)
    /\ w[1] = x.version /\ w[2] = x.status /\ w[4] = x.atype
    /\ x.atype = addressTypeDomain => w[5] = Len(x.addr)
    /\ Carries(w, AddrAt(x), x.addr)
    /\ w[PortAt(x) + 1] * SocksRadix + w[PortAt(x) + 2] = x.port
    /\ Carries(w, PortAt(x) + 2, x.payload)

\* A header at the beginning of a sequence.
LEMMA FourIn ==
    ASSUME NEW w, NEW b, Len(b) = 4, Carries(w, 0, b)
    PROVE  w[1] = b[1] /\ w[2] = b[2] /\ w[4] = b[4]
BY DEF Carries

\* The places in a reply are numbers.
LEMMA PlacesIn ==
    ASSUME NEW x \in Proxies
    PROVE  AddrAt(x) \in Nat /\ PortAt(x) \in Nat /\ Len(x.addr) \in Nat /\ Len(x.payload) \in Nat
<1>1. x.addr \in Seq(Nat) /\ x.payload \in Seq(Nat)
  BY SocksAssumption
<1>2. Len(x.addr) \in Nat /\ Len(x.payload) \in Nat /\ AddrAt(x) \in Nat
  BY <1>1 DEF AddrAt
<1>3. \A i, j \in Nat : i + j \in Nat
  OBVIOUS
<1> QED
  BY Zenon, <1>2, <1>3 DEF PortAt

\* Every part of a reply stands where dial looks for it.
LEMMA ReplyParts == ASSUME NEW x \in Proxies PROVE IsReply(ReplyOf(x), x)
<1>1. /\ x.version \in Nat /\ x.status \in Nat /\ x.atype \in Nat
      /\ x.addr \in Seq(Nat) /\ x.port \in Nat /\ x.payload \in Seq(Nat)
  BY SocksAssumption
<1>0. 0 \in Nat /\ 4 \in Nat
  OBVIOUS
<1>2. PICK h \in Seq(Nat) :
        /\ h = <<x.version, x.status, 0, x.atype>> /\ Len(h) = 4
        /\ h[1] = x.version /\ h[2] = x.status /\ h[4] = x.atype
  <2>1. PICK i \in Nat, j \in Nat, k \in Nat : i = x.version /\ j = x.status /\ k = x.atype
    BY ONLY Zenon, <1>1
  <2>2. /\ <<i, j, 0, k>> \in Seq(Nat) /\ Len(<<i, j, 0, k>>) = 4
        /\ <<i, j, 0, k>>[1] = i /\ <<i, j, 0, k>>[2] = j /\ <<i, j, 0, k>>[4] = k
    BY ONLY Zenon, <1>0, i \in Nat, j \in Nat, k \in Nat, HeaderOf
  <2> QED
    BY ONLY Zenon, <2>1, <2>2
<1>3. PICK d \in Seq(Nat) :
        /\ d = (IF x.atype = addressTypeDomain THEN <<Len(x.addr)>> ELSE <<>>)
        /\ 4 + Len(d) = AddrAt(x) /\ (x.atype = addressTypeDomain => Len(d) = 1 /\ d[1] = Len(x.addr))
  <2>1. Len(x.addr) \in Nat /\ <<>> \in Seq(Nat) /\ 4 + 1 = 5 /\ 4 + Len(<<>>) = 4
    BY <1>1
  <2>2. <<Len(x.addr)>> \in Seq(Nat) /\ Len(<<Len(x.addr)>>) = 1 /\ <<Len(x.addr)>>[1] = Len(x.addr)
    BY ONLY Zenon, <2>1, ByteOf
  <2>3. CASE x.atype = addressTypeDomain
    BY ONLY Zenon, <2>1, <2>2, <2>3 DEF AddrAt
  <2>4. CASE x.atype # addressTypeDomain
    BY ONLY Zenon, <2>1, <2>4 DEF AddrAt
  <2> QED
    BY Zenon, <2>3, <2>4
<1>4. PICK u \in Nat, v \in Nat : u = x.port \div SocksRadix /\ v = x.port % SocksRadix /\ x.port = u * SocksRadix + v
  BY Zenon, <1>1, Digits
<1>5. PICK p \in Seq(Nat) : p = <<u, v>> /\ Len(p) = 2 /\ p[1] = u /\ p[2] = v
  <2>1. <<u, v>> \in Seq(Nat) /\ Len(<<u, v>>) = 2 /\ <<u, v>>[1] = u /\ <<u, v>>[2] = v
    BY ONLY Zenon, u \in Nat, v \in Nat, BytesOf
  <2> QED
    BY ONLY Zenon, <2>1
<1>6. PICK a \in Seq(Nat), b \in Seq(Nat) : a = x.addr /\ b = x.payload
  BY ONLY Zenon, <1>1
<1>7. h \o d \in Seq(Nat) /\ Len(h \o d) = Len(h) + Len(d)
  BY ONLY Zenon, h \in Seq(Nat), d \in Seq(Nat), ConcatLen
<1>8. PICK g \in Seq(Nat) : g = h \o d /\ Len(g) = AddrAt(x)
  BY ONLY Zenon, <1>2, <1>3, <1>7
<1>9. PICK w : w = g \o a \o p \o b
  BY Zenon
<1>10. w = ReplyOf(x)
  BY ONLY Zenon, <1>2, <1>3, <1>4, <1>5, <1>6, <1>8, <1>9 DEF ReplyOf
<1>11. FourParts(w, g, a, p, b)
  BY ONLY Zenon, <1>9, g \in Seq(Nat), a \in Seq(Nat), p \in Seq(Nat), b \in Seq(Nat), Four
<1>12. PICK m \in Nat, n \in Nat, k \in Nat : m = AddrAt(x) /\ n = PortAt(x) /\ k = Len(x.payload) /\ n = m + Len(x.addr)
  BY Zenon, PlacesIn DEF PortAt
<1>13. /\ w \in Seq(Nat) /\ Len(w) = n + 2 + k
       /\ Carries(w, 0, g) /\ Carries(w, m, a) /\ Carries(w, n, p) /\ Carries(w, n + 2, b)
  BY ONLY Zenon, <1>5, <1>6, <1>8, <1>11, <1>12 DEF FourParts
<1>14. Carries(w, 0, h) /\ Carries(w, 0 + Len(h), d)
  BY ONLY Zenon, <1>0, <1>8, <1>13, h \in Seq(Nat), d \in Seq(Nat), CarriesParts
<1>15. w[1] = h[1] /\ w[2] = h[2] /\ w[4] = h[4]
  BY ONLY Zenon, <1>2, <1>14, FourIn
<1>16. 0 + 4 = 4 /\ 4 + 1 = 5
  OBVIOUS
<1>17. Carries(w, 4, d)
  BY ONLY Zenon, <1>2, <1>14, <1>16
<1>18. x.atype = addressTypeDomain => w[4 + 1] = d[1]
  BY ONLY ZenonT(30), <1>0, <1>3, <1>17, OneIn
<1>19. w[n + 1] = p[1] /\ w[n + 2] = p[2]
  BY ONLY ZenonT(30), <1>5, <1>13, n \in Nat, TwoIn
<1>20. x.atype = addressTypeDomain => w[5] = Len(x.addr)
  BY ONLY Zenon, <1>3, <1>16, <1>18
<1>21. w[n + 1] * SocksRadix + w[n + 2] = x.port
  BY ONLY Zenon, <1>4, <1>5, <1>19
<1>22. w[1] = x.version /\ w[2] = x.status /\ w[4] = x.atype
  BY ONLY Zenon, <1>2, <1>15
<1> QED
  BY ONLY Zenon, <1>6, <1>10, <1>12, <1>13, <1>20, <1>21, <1>22 DEF IsReply
-----------------------------------------------------------------------------
\* Reading an answer.
LEMMA ComingAll == ASSUME NEW a \in Seq(Nat), NEW u PROVE Coming(a, 0, a, u)
<1>1. Carries(a, 0, a)
  BY Zenon, CarriesSelf
<1>2. Len(a) \in Nat
  OBVIOUS
<1>3. 0 + Len(a) = Len(a)
  BY ONLY <1>2
<1> QED
  BY Zenon, <1>1, <1>3 DEF Coming

\* An answer whose end has been lost.
LEMMA ComingCut ==
    ASSUME NEW a \in Seq(Nat), NEW p \in Nat, NEW c, NEW u, Coming(a, p, c, u), NEW n \in 0..Len(c)
    PROVE  Coming(a, p, SubSeq(c, 1, n), FALSE)
<1>1. c \in Seq(Nat) /\ Carries(a, p, c)
  BY Zenon DEF Coming
<1>2. Carries(a, p, SubSeq(c, 1, n))
  BY ONLY Zenon, <1>1, a \in Seq(Nat), p \in Nat, n \in 0..Len(c), CarriesTake
<1>3. SubSeq(c, 1, n) \in Seq(Nat)
  BY ONLY Zenon, <1>1, n \in 0..Len(c), Part
<1> QED
  BY ONLY Zenon, <1>2, <1>3 DEF Coming

\* An answer of which n bytes more are read.
LEMMA ComingRead ==
    ASSUME NEW a \in Seq(Nat), NEW p \in Nat, NEW c, NEW u, Coming(a, p, c, u), NEW n \in 0..Len(c)
    PROVE  /\ Coming(a, p + n, SubSeq(c, n + 1, Len(c)), u)
           /\ SubSeq(c, 1, n) \in Seq(Nat) /\ Len(SubSeq(c, 1, n)) = n /\ Carries(a, p, SubSeq(c, 1, n))
<1>1. c \in Seq(Nat) /\ Carries(a, p, c) /\ (u => p + Len(c) = Len(a))
  BY Zenon DEF Coming
<1>2. Carries(a, p, SubSeq(c, 1, n)) /\ Carries(a, p + n, SubSeq(c, n + 1, Len(c)))
  BY ONLY Zenon, <1>1, a \in Seq(Nat), p \in Nat, n \in 0..Len(c), CarriesTake
<1>3. /\ SubSeq(c, 1, n) \in Seq(Nat) /\ Len(SubSeq(c, 1, n)) = n
      /\ SubSeq(c, n + 1, Len(c)) \in Seq(Nat) /\ Len(SubSeq(c, n + 1, Len(c))) = Len(c) - n
  <2>1. SubSeq(c, 1, n) \in Seq(Nat) /\ Len(SubSeq(c, 1, n)) = n
    BY ONLY Zenon, <1>1, n \in 0..Len(c), Part
  <2>2. SubSeq(c, n + 1, Len(c)) \in Seq(Nat) /\ Len(SubSeq(c, n + 1, Len(c))) = Len(c) - n
    BY ONLY ZenonT(30), <1>1, n \in 0..Len(c), Part
  <2> QED
    BY ONLY Zenon, <2>1, <2>2
<1>4. PICK d \in Seq(Nat) : d = SubSeq(c, n + 1, Len(c)) /\ Len(d) = Len(c) - n
  BY ONLY Zenon, <1>3
<1>5. Len(c) \in Nat /\ n \in Nat
  BY <1>1
<1>6. PICK k \in Nat : k = Len(c)
  BY ONLY Zenon, <1>5
<1>7. (p + n) + (k - n) = p + k
  BY ONLY <1>5, p \in Nat, k \in Nat
<1>8. Coming(a, p + n, d, u)
  BY ONLY Zenon, <1>1, <1>2, <1>4, <1>6, <1>7 DEF Coming
<1> QED
  BY ONLY Zenon, <1>2, <1>3, <1>4, <1>8

\* A sequence without elements.
LEMMA NoBytes == ASSUME NEW c \in Seq(Nat), Len(c) = 0 PROVE c = <<>>
OBVIOUS

\* Nothing is left of an answer that has been read.
LEMMA ComingNone ==
    ASSUME NEW a \in Seq(Nat), NEW c, NEW u, Coming(a, Len(a), c, u)
    PROVE  c = <<>>
<1>1. c \in Seq(Nat) /\ Len(a) + Len(c) <= Len(a)
  BY Zenon DEF Coming, Carries
<1>2. PICK m \in Nat, n \in Nat : m = Len(a) /\ n = Len(c)
  BY <1>1
<1>3. n = 0
  BY ONLY <1>1, <1>2, m \in Nat, n \in Nat
<1> QED
  BY ONLY Zenon, <1>1, <1>2, <1>3, NoBytes

\* A buffer whose beginning is replaced.
LEMMA Overwritten ==
    ASSUME NEW m \in Seq(Nat), NEW b \in Seq(Nat), Len(b) <= Len(m)
    PROVE  /\ b \o SubSeq(m, Len(b) + 1, Len(m)) \in Seq(Nat)
           /\ Len(b \o SubSeq(m, Len(b) + 1, Len(m))) = Len(m)
           /\ Carries(b \o SubSeq(m, Len(b) + 1, Len(m)), 0, b)
<1>1. Len(b) \in 0..Len(m) /\ Len(b) \in Nat /\ Len(m) \in Nat
  OBVIOUS
<1>2. SubSeq(m, Len(b) + 1, Len(m)) \in Seq(Nat) /\ Len(SubSeq(m, Len(b) + 1, Len(m))) = Len(m) - Len(b)
  BY ONLY ZenonT(30), <1>1, m \in Seq(Nat), Part
<1>3. PICK r \in Seq(Nat) : r = SubSeq(m, Len(b) + 1, Len(m)) /\ Len(r) = Len(m) - Len(b)
  BY ONLY Zenon, <1>2
<1>4. b \o r \in Seq(Nat) /\ Len(b \o r) = Len(b) + Len(r)
  BY ONLY Zenon, b \in Seq(Nat), r \in Seq(Nat), ConcatLen
<1>5. PICK i \in Nat, j \in Nat : i = Len(b) /\ j = Len(m)
  BY ONLY Zenon, <1>1
<1>6. i + (j - i) = j /\ 0 \in Nat
  BY ONLY i \in Nat, j \in Nat
<1>7. Carries(b \o r, 0, b \o r)
  BY ONLY Zenon, <1>4, CarriesSelf
<1>8. Carries(b \o r, 0, b)
  BY ONLY Zenon, <1>4, <1>6, <1>7, b \in Seq(Nat), r \in Seq(Nat), CarriesParts
<1> QED
  BY ONLY Zenon, <1>3, <1>4, <1>5, <1>6, <1>8
-----------------------------------------------------------------------------
\* The steps of dial.
LEMMA CapLong ==
    ASSUME SocksInv
    PROVE  /\ Cap \in Nat /\ 4 <= Cap /\ 7 + Len(target.host) <= Cap /\ 3 + Len(login.user) + Len(login.pass) <= Cap
           /\ V4Len \in Nat /\ V6Len \in Nat /\ V4Len <= Cap /\ V6Len <= Cap
<1>1. target \in Targets /\ login \in Logins
  BY Zenon DEF SocksInv
<1>2. target.host \in Seq(Nat) /\ login.user \in Seq(Nat) /\ login.pass \in Seq(Nat)
  BY <1>1, SocksAssumption
<1>3. Len(target.host) \in Nat /\ Len(login.user) \in Nat /\ Len(login.pass) \in Nat
  BY ONLY <1>2
<1>4. PICK h \in Nat, u \in Nat, v \in Nat : h = Len(target.host) /\ u = Len(login.user) /\ v = Len(login.pass)
  BY ONLY Zenon, <1>3
<1>5. Cap = BufBase + h + u + v
  BY ONLY Zenon, <1>4 DEF Cap
<1>6. BufBase \in Nat /\ BufBase >= 7 /\ V4Len \in 0..BufBase /\ V6Len \in 0..BufBase
  BY SocksAssumption
<1>7. PICK c : c = Cap
  BY Zenon
<1>8. /\ c \in Nat /\ 4 <= c /\ 7 + h <= c /\ 3 + u + v <= c
      /\ V4Len \in Nat /\ V6Len \in Nat /\ V4Len <= c /\ V6Len <= c
  BY ONLY <1>5, <1>6, <1>7, h \in Nat, u \in Nat, v \in Nat
<1> QED
  BY ONLY Zenon, <1>4, <1>7, <1>8

\* The condition of the place that dial comes to is all of Stage.
LEMMA Entered ==
    ASSUME \/ dpc' = "greet" /\ Dialling'
           \/ dpc' = "failed"
           \/ dpc' = "choice" /\ Choosing'
           \/ dpc' = "login" /\ LoggingIn'
           \/ dpc' = "verdict" /\ Verifying'
           \/ dpc' = "request" /\ Requesting'
           \/ dpc' = "reply" /\ Replying'
           \/ dpc' = "address" /\ AtAddress'
           \/ dpc' = "domain" /\ AtDomain'
           \/ dpc' = "port" /\ AtPort'
           \/ dpc' = "done" /\ Connected'
           \/ dpc' = "error" /\ Refused'
           \/ dpc' = "crash" /\ Overlong'
    PROVE  Stage' /\ dpc' \in Places
BY DEF Stage, Places

\* What a step has to show for the invariant.
LEMMA Kept ==
    ASSUME SocksInv, UNCHANGED arguments, mem' \in Seq(Nat), Len(mem') = Cap, linked' \in BOOLEAN,
           dpc' \in Places, closed' = (dpc' = "error"), \E h, n : paddr' = [host |-> h, port |-> n], Stage'
    PROVE  SocksInv'
<1>1. target' = target /\ login' = login /\ proxy' = proxy
  BY Zenon DEF arguments
<1>2. Cap' = Cap
  BY Zenon, <1>1 DEF Cap
<1>3. target' \in Targets /\ login' \in Logins /\ proxy' \in Proxies
  BY Zenon, <1>1 DEF SocksInv
<1>4. Len(mem') = Cap'
  BY Zenon, <1>2
<1> QED
  BY Zenon, <1>3, <1>4 DEF SocksInv

\* The first n bytes of m are those of the answer after position p.
Took(m, a, p, n) == \E b \in Seq(Nat) : Len(b) = n /\ Carries(a, p, b) /\ Carries(m, 0, b)

\* io.ReadFull puts the next n bytes of the answer into the buffer.
LEMMA ReadOf ==
    ASSUME SocksInv, NEW n \in Nat, n <= Cap, ReadFull(n),
           NEW a \in Seq(Nat), NEW p \in Nat, Coming(a, p, toClient, linked)
    PROVE  /\ UNCHANGED arguments /\ mem' \in Seq(Nat) /\ Len(mem') = Cap /\ linked' \in BOOLEAN
           /\ UNCHANGED <<toProxy, linked, spc, asked, told, blen>>
           /\ Took(mem', a, p, n) /\ Coming(a, p + n, toClient', linked')
<1>1. /\ mem \in Seq(Nat) /\ Len(mem) = Cap /\ linked \in BOOLEAN
  BY Zenon DEF SocksInv
<1>2. /\ Len(toClient) >= n
      /\ mem' = SubSeq(toClient, 1, n) \o SubSeq(mem, Len(SubSeq(toClient, 1, n)) + 1, Cap)
      /\ toClient' = SubSeq(toClient, n + 1, Len(toClient))
      /\ UNCHANGED arguments
      /\ UNCHANGED <<toProxy, linked, spc, asked, told, blen>>
  BY Zenon DEF ReadFull, Overwrite, proxySide
<1>3. toClient \in Seq(Nat)
  BY Zenon DEF Coming
<1>4. n \in 0..Len(toClient)
  BY ONLY <1>2, <1>3, n \in Nat
<1>5. /\ Coming(a, p + n, SubSeq(toClient, n + 1, Len(toClient)), linked)
      /\ SubSeq(toClient, 1, n) \in Seq(Nat) /\ Len(SubSeq(toClient, 1, n)) = n /\ Carries(a, p, SubSeq(toClient, 1, n))
  BY Zenon, <1>4, ComingRead
<1>6. PICK b \in Seq(Nat) : b = SubSeq(toClient, 1, n) /\ Len(b) = n /\ Carries(a, p, b)
  BY ONLY Zenon, <1>5
<1>7. mem' = b \o SubSeq(mem, Len(b) + 1, Len(mem)) /\ Len(b) <= Len(mem)
  BY Zenon, <1>1, <1>2, <1>6
<1>8. mem' \in Seq(Nat) /\ Len(mem') = Len(mem) /\ Carries(mem', 0, b)
  BY ONLY Zenon, <1>1, <1>7, b \in Seq(Nat), Overwritten
<1>9. Took(mem', a, p, n)
  BY ONLY Zenon, <1>6, <1>8, b \in Seq(Nat) DEF Took
<1>10. linked' = linked
  BY ONLY Zenon, <1>2
<1> QED
  BY ONLY Zenon, <1>1, <1>2, <1>5, <1>8, <1>9, <1>10

\* A write that fails closes the connection; after one that does not, the
\* condition of the next place is left to show.
LEMMA WriteOf ==
    ASSUME SocksInv, NEW bytes \in Seq(Nat), Len(bytes) <= Cap, NEW pc \in Places, pc # "error", WriteAll(bytes, pc),
           toProxy = <<>>, linked' /\ toProxy' = bytes /\ dpc' = pc => Stage'
    PROVE  SocksInv'
<1>1. /\ mem \in Seq(Nat) /\ Len(mem) = Cap /\ linked \in BOOLEAN /\ \E h, n : paddr = [host |-> h, port |-> n]
  BY Zenon DEF SocksInv
<1>2. /\ mem' = bytes \o SubSeq(mem, Len(bytes) + 1, Cap)
      /\ UNCHANGED arguments /\ linked' = linked /\ paddr' = paddr
      /\ \/ linked /\ toProxy' = toProxy \o bytes /\ dpc' = pc /\ closed' = (pc = "error")
         \/ ~linked /\ dpc' = "error" /\ closed' = ("error" = "error")
  BY Zenon DEF WriteAll, Overwrite, Goto
<1>3. mem' = bytes \o SubSeq(mem, Len(bytes) + 1, Len(mem)) /\ Len(bytes) <= Len(mem)
  BY Zenon, <1>1, <1>2
<1>4. mem' \in Seq(Nat) /\ Len(mem') = Len(mem)
  BY ONLY Zenon, <1>1, <1>3, bytes \in Seq(Nat), Overwritten
<1>5. CASE linked /\ toProxy' = toProxy \o bytes /\ dpc' = pc /\ closed' = (pc = "error")
  <2>1. <<>> \o bytes = bytes
    BY ONLY bytes \in Seq(Nat)
  <2>2. Stage'
    BY Zenon, <1>2, <1>5, <2>1
  <2>3. dpc' \in Places /\ closed' = (dpc' = "error")
    BY Zenon, <1>5
  <2> QED
    BY Zenon, <1>1, <1>2, <1>4, <2>2, <2>3, Kept
<1>6. CASE ~linked /\ dpc' = "error" /\ closed' = ("error" = "error")
  <2>1. Refused'
    BY Zenon, <1>2, <1>6 DEF Refused
  <2>2. Stage' /\ dpc' \in Places
    BY Zenon, <1>6, <2>1, Entered
  <2>3. closed' = (dpc' = "error")
    BY Zenon, <1>6
  <2> QED
    BY Zenon, <1>1, <1>2, <1>4, <2>2, <2>3, Kept
<1> QED
  BY Zenon, <1>2, <1>5, <1>6

\* The places after a write are not the end of a failed dial.
LEMMA Elsewhere ==
    /\ {"choice", "verdict", "reply"} \subseteq Places
    /\ "choice" # "error" /\ "verdict" # "error" /\ "reply" # "error"
BY DEF Places

\* Connecting to the proxy.
LEMMA DialProxyInv == ASSUME SocksInv, DialProxy PROVE SocksInv'
<1>1. Dialling
  BY Zenon DEF SocksInv, Stage, DialProxy
<1>2. /\ UNCHANGED arguments /\ mem' = mem /\ linked' = linked /\ paddr' = paddr /\ closed' = (dpc' = "error")
      /\ UNCHANGED <<spc, toProxy, toClient>> /\ dpc' \in {"greet", "failed"}
  BY Zenon DEF DialProxy, Goto, proxySide
<1>3. Dialling'
  BY Zenon, <1>1, <1>2 DEF Dialling
<1>4. Stage' /\ dpc' \in Places
  BY Zenon, <1>2, <1>3, Entered
<1>5. /\ mem' \in Seq(Nat) /\ Len(mem') = Cap /\ linked' \in BOOLEAN /\ \E h, n : paddr' = [host |-> h, port |-> n]
  BY Zenon, <1>2 DEF SocksInv
<1> QED
  BY Zenon, <1>2, <1>4, <1>5, Kept

\* The greeting.
LEMMA GreetInv == ASSUME SocksInv, Greet PROVE SocksInv'
<1>1. Dialling
  BY Zenon DEF SocksInv, Stage, Greet
<1>2. PICK bytes : /\ WriteAll(bytes, "choice")
                   /\ bytes \in {<<protocolVersion, 2, authNone, authUsernamePassword>>, <<protocolVersion, 1, authNone>>}
  BY Zenon DEF Greet
<1>3. bytes \in Seq(Nat) /\ bytes # <<>> /\ Len(bytes) \in Nat /\ Len(bytes) <= 4
  <2>1. <<5, 2, 0, 2>> \in Seq(Nat) /\ Len(<<5, 2, 0, 2>>) = 4
    OBVIOUS
  <2>2. <<5, 1, 0>> \in Seq(Nat) /\ Len(<<5, 1, 0>>) = 3
    OBVIOUS
  <2>3. bytes \in Seq(Nat) /\ Len(bytes) \in {3, 4}
    BY ONLY Zenon, <1>2, <2>1, <2>2 DEF protocolVersion, authNone, authUsernamePassword
  <2>4. Len(<<>>) = 0
    OBVIOUS
  <2>5. PICK k : k = Len(bytes)
    BY Zenon
  <2>6. k \in Nat /\ k <= 4 /\ k # 0
    BY ONLY <2>3, <2>5
  <2> QED
    BY ONLY Zenon, <2>3, <2>4, <2>5, <2>6
<1>4. Cap \in Nat /\ 4 <= Cap
  BY Zenon, CapLong
<1>5. Len(bytes) <= Cap
  BY ONLY <1>3, <1>4
<1>6. toProxy = <<>> /\ toClient' = <<>> /\ spc' = "greeting"
  BY Zenon, <1>1, <1>2 DEF Dialling, WriteAll, proxySide
<1>7. ASSUME toProxy' = bytes, dpc' = "choice" PROVE Stage'
  <2>1. Choosing'
    BY Zenon, <1>3, <1>6, <1>7 DEF Choosing
  <2> QED
    BY Zenon, <1>7, <2>1, Entered
<1> QED
  BY Zenon, <1>2, <1>3, <1>5, <1>6, <1>7, Elsewhere, WriteOf

\* Two bytes that have been read.
LEMMA TookTwo ==
    ASSUME NEW m, NEW a, NEW p \in Nat, Took(m, a, p, 2)
    PROVE  m[1] = a[p + 1] /\ m[2] = a[p + 2]
<1>1. PICK b \in Seq(Nat) : Len(b) = 2 /\ Carries(a, p, b) /\ Carries(m, 0, b)
  BY Zenon DEF Took
<1>2. a[p + 1] = b[1] /\ a[p + 2] = b[2]
  BY ONLY Zenon, <1>1, p \in Nat, TwoIn
<1>3. 0 \in Nat /\ 0 + 1 = 1 /\ 0 + 2 = 2
  OBVIOUS
<1>4. m[0 + 1] = b[1] /\ m[0 + 2] = b[2]
  BY ONLY Zenon, <1>1, <1>3, TwoIn
<1> QED
  BY ONLY Zenon, <1>2, <1>3, <1>4

\* An answer of two bytes is read at once, and nothing is left of it.
LEMMA PairRead ==
    ASSUME SocksInv, ReadFull(2), NEW x \in Nat, NEW y \in Nat, Coming(<<x, y>>, 0, toClient, linked)
    PROVE  /\ UNCHANGED arguments /\ mem' \in Seq(Nat) /\ Len(mem') = Cap /\ linked' \in BOOLEAN
           /\ UNCHANGED <<toProxy, linked, spc, asked, told>>
           /\ mem'[1] = x /\ mem'[2] = y /\ toClient' = <<>>
<1>1. PICK a \in Seq(Nat) : a = <<x, y>> /\ Len(a) = 2 /\ a[1] = x /\ a[2] = y
  <2>1. <<x, y>> \in Seq(Nat) /\ Len(<<x, y>>) = 2 /\ <<x, y>>[1] = x /\ <<x, y>>[2] = y
    BY ONLY Zenon, x \in Nat, y \in Nat, BytesOf
  <2> QED
    BY ONLY Zenon, <2>1
<1>2. 2 \in Nat /\ 0 \in Nat /\ 0 + 1 = 1 /\ 0 + 2 = 2
  OBVIOUS
<1>3. 2 <= Cap
  <2>1. Cap \in Nat /\ 4 <= Cap
    BY Zenon, CapLong
  <2> QED
    BY ONLY <2>1
<1>4. Coming(a, 0, toClient, linked)
  BY Zenon, <1>1
<1>5. /\ UNCHANGED arguments /\ mem' \in Seq(Nat) /\ Len(mem') = Cap /\ linked' \in BOOLEAN
      /\ UNCHANGED <<toProxy, linked, spc, asked, told, blen>>
      /\ Took(mem', a, 0, 2) /\ Coming(a, 0 + 2, toClient', linked')
  BY Zenon, <1>2, <1>3, <1>4, ReadOf
<1>6. mem'[1] = a[0 + 1] /\ mem'[2] = a[0 + 2]
  BY ONLY ZenonT(30), <1>2, <1>5, TookTwo
<1>7. Coming(a, Len(a), toClient', linked')
  BY ONLY Zenon, <1>1, <1>2, <1>5
<1>8. toClient' = <<>>
  BY ONLY Zenon, <1>7, a \in Seq(Nat), ComingNone
<1> QED
  BY ONLY Zenon, <1>1, <1>2, <1>5, <1>6, <1>8

\* A read that succeeds finds bytes.
LEMMA NothingToRead == ASSUME NEW n \in Nat, n > 0, Len(toClient) >= n PROVE toClient # <<>>
OBVIOUS

\* The proxy's choice of a method.
LEMMA AuthChoiceInv == ASSUME SocksInv, AuthChoice PROVE SocksInv'
<1>1. Choosing /\ ReadFull(2) /\ dpc = "choice" /\ UNCHANGED paddr
  BY Zenon DEF SocksInv, Stage, AuthChoice
<1>2. toClient # <<>>
  <2>1. Len(toClient) >= 2
    BY Zenon, <1>1 DEF ReadFull
  <2> QED
    BY ONLY <2>1, NothingToRead
<1>3. spc = Chosen(proxy) /\ toProxy = <<>> /\ Coming(ChoiceOf(proxy), 0, toClient, linked)
  BY Zenon, <1>1, <1>2 DEF Choosing
<1>4. proxy.version \in Nat /\ proxy.method \in Nat
  BY SocksAssumption DEF SocksInv
<1>5. PICK x \in Nat, y \in Nat : x = proxy.version /\ y = proxy.method
  BY ONLY Zenon, <1>4
<1>6. Coming(<<x, y>>, 0, toClient, linked)
  BY ONLY Zenon, <1>3, <1>5 DEF ChoiceOf
<1>7. /\ UNCHANGED arguments /\ mem' \in Seq(Nat) /\ Len(mem') = Cap /\ linked' \in BOOLEAN
      /\ UNCHANGED <<toProxy, linked, spc, asked, told>>
      /\ mem'[1] = x /\ mem'[2] = y /\ toClient' = <<>>
  BY Zenon, <1>1, <1>6, PairRead
<1>8. proxy' = proxy /\ login' = login /\ spc' = spc /\ toProxy' = <<>>
  BY Zenon, <1>3, <1>7 DEF arguments
<1>9. closed' = (dpc' = "error") /\ \E h, n : paddr' = [host |-> h, port |-> n]
  BY Zenon, <1>1 DEF SocksInv, AuthChoice, Goto
<1>10. dpc' = IF mem'[1] # protocolVersion THEN "error"
              ELSE CASE mem'[2] = authUsernamePassword -> "login"
                     [] mem'[2] = authNone -> "request"
                     [] OTHER -> "error"
  BY Zenon DEF AuthChoice, Goto
<1>0. authUsernamePassword # authNone
  BY DEF authUsernamePassword, authNone
<1>11. Stage' /\ dpc' \in Places
  <2>1. CASE x # protocolVersion \/ (y # authUsernamePassword /\ y # authNone)
    <3>1. dpc' = "error"
      BY Zenon, <1>7, <1>10, <2>1
    <3>2. Refused'
      BY Zenon, <1>5, <1>8, <2>1 DEF Refused, Willing
    <3> QED
      BY Zenon, <3>1, <3>2, Entered
  <2>2. CASE x = protocolVersion /\ y = authUsernamePassword
    <3>1. dpc' = "login"
      BY Zenon, <1>0, <1>7, <1>10, <2>2
    <3>2. spc = "login"
      BY Zenon, <1>3, <1>5, <2>2, <1>0 DEF Chosen
    <3>3. LoggingIn'
      BY Zenon, <1>5, <1>7, <1>8, <2>2, <3>2 DEF LoggingIn, WantsLogin
    <3> QED
      BY Zenon, <3>1, <3>3, Entered
  <2>3. CASE x = protocolVersion /\ y = authNone
    <3>1. dpc' = "request"
      BY Zenon, <1>0, <1>7, <1>10, <2>3
    <3>2. spc = "request"
      BY Zenon, <1>3, <1>5, <2>3, <1>0 DEF Chosen
    <3>3. Requesting'
      BY Zenon, <1>5, <1>7, <1>8, <2>3, <3>2 DEF Requesting, Agreed
    <3> QED
      BY Zenon, <3>1, <3>3, Entered
  <2> QED
    BY Zenon, <2>1, <2>2, <2>3
<1> QED
  BY Zenon, <1>7, <1>9, <1>11, Kept

\* The login, if the proxy wants one.
LEMMA LoginInv == ASSUME SocksInv, Login PROVE SocksInv'
<1>1. LoggingIn /\ WriteAll(LoginOf(login), "verdict")
  BY Zenon DEF SocksInv, Stage, Login, LoginOf
<1>2. login \in Logins
  BY Zenon DEF SocksInv
<1>3. PICK w : w = LoginOf(login)
  BY Zenon
<1>4. w \in Seq(Nat) /\ Len(w) = 3 + Len(login.user) + Len(login.pass)
  BY ONLY Zenon, <1>2, <1>3, LoginParts
<1>5. Len(w) <= Cap
  BY Zenon, <1>4, CapLong
<1>6. proxy' = proxy /\ login' = login /\ spc' = spc /\ toClient' = toClient
  BY Zenon, <1>1 DEF WriteAll, arguments, proxySide
<1>7. ASSUME toProxy' = w, dpc' = "verdict" PROVE Stage'
  <2>1. WantsLogin' /\ spc' = "login" /\ toClient' = <<>>
    BY Zenon, <1>1, <1>6 DEF LoggingIn, WantsLogin
  <2>2. toProxy' = LoginOf(login')
    BY Zenon, <1>3, <1>6, <1>7
  <2>3. Verifying'
    BY Zenon, <2>1, <2>2 DEF Verifying
  <2> QED
    BY Zenon, <1>7, <2>3, Entered
<1>8. toProxy = <<>> /\ WriteAll(w, "verdict")
  BY Zenon, <1>1, <1>3 DEF LoggingIn
<1> QED
  BY Zenon, <1>4, <1>5, <1>7, <1>8, Elsewhere, WriteOf

\* The proxy's verdict on it.
LEMMA VerdictInv == ASSUME SocksInv, Verdict PROVE SocksInv'
<1>1. Verifying /\ ReadFull(2) /\ UNCHANGED paddr
  BY Zenon DEF SocksInv, Stage, Verdict
<1>2. toClient # <<>>
  <2>1. Len(toClient) >= 2
    BY Zenon, <1>1 DEF ReadFull
  <2> QED
    BY ONLY <2>1, NothingToRead
<1>3. /\ WantsLogin /\ told = login /\ spc = (IF login = proxy.login THEN "request" ELSE "end")
      /\ toProxy = <<>> /\ Coming(VerdictOf(proxy, login), 0, toClient, linked)
  BY Zenon, <1>1, <1>2 DEF Verifying
<1>4. 0 \in Nat /\ 1 \in Nat /\ 0 # 1
  OBVIOUS
<1>5. PICK y \in Nat : y = IF login = proxy.login THEN 0 ELSE 1
  BY ONLY Zenon, <1>4
<1>6. Coming(<<1, y>>, 0, toClient, linked)
  BY ONLY Zenon, <1>3, <1>5 DEF VerdictOf
<1>7. /\ UNCHANGED arguments /\ mem' \in Seq(Nat) /\ Len(mem') = Cap /\ linked' \in BOOLEAN
      /\ UNCHANGED <<toProxy, linked, spc, asked, told>>
      /\ mem'[1] = 1 /\ mem'[2] = y /\ toClient' = <<>>
  BY Zenon, <1>1, <1>4, <1>6, PairRead
<1>8. proxy' = proxy /\ login' = login /\ told' = told /\ spc' = spc /\ toProxy' = <<>>
  BY Zenon, <1>3, <1>7 DEF arguments
<1>9. closed' = (dpc' = "error") /\ \E h, n : paddr' = [host |-> h, port |-> n]
  BY Zenon, <1>1 DEF SocksInv, Verdict, Goto
<1>10. dpc' = IF y # 0 THEN "error" ELSE "request"
  BY Zenon, <1>7 DEF Verdict, Goto
<1>11. Stage' /\ dpc' \in Places
  <2>1. CASE login = proxy.login
    <3>1. dpc' = "request" /\ spc = "request"
      BY Zenon, <1>3, <1>5, <1>10, <2>1
    <3>2. Requesting'
      BY Zenon, <1>3, <1>7, <1>8, <2>1, <3>1 DEF Requesting, Agreed, WantsLogin
    <3> QED
      BY Zenon, <3>1, <3>2, Entered
  <2>2. CASE login # proxy.login
    <3>0. authUsernamePassword # authNone
      BY DEF authUsernamePassword, authNone
    <3>1. dpc' = "error"
      BY Zenon, <1>4, <1>5, <1>10, <2>2
    <3>2. Refused'
      BY Zenon, <1>3, <1>8, <2>2, <3>0 DEF Refused, Willing, WantsLogin
    <3> QED
      BY Zenon, <3>1, <3>2, Entered
  <2> QED
    BY Zenon, <2>1, <2>2
<1> QED
  BY Zenon, <1>7, <1>9, <1>11, Kept

\* The request.
LEMMA RequestInv == ASSUME SocksInv, Request PROVE SocksInv'
<1>1. Requesting /\ WriteAll(RequestOf(target), "reply")
  BY Zenon DEF SocksInv, Stage, Request, RequestOf
<1>2. target \in Targets
  BY Zenon DEF SocksInv
<1>3. PICK w : w = RequestOf(target)
  BY Zenon
<1>4. w \in Seq(Nat) /\ Len(w) = 7 + Len(target.host)
  BY ONLY Zenon, <1>2, <1>3, RequestParts
<1>5. Len(w) <= Cap
  BY Zenon, <1>4, CapLong
<1>6. proxy' = proxy /\ login' = login /\ target' = target /\ spc' = spc /\ toClient' = toClient /\ told' = told
  BY Zenon, <1>1 DEF WriteAll, arguments, proxySide
<1>7. ASSUME toProxy' = w, dpc' = "reply" PROVE Stage'
  <2>1. Agreed' /\ spc' = "request" /\ toClient' = <<>>
    BY Zenon, <1>1, <1>6 DEF Requesting, Agreed
  <2>2. toProxy' = RequestOf(target')
    BY Zenon, <1>3, <1>6, <1>7
  <2>3. Replying'
    BY Zenon, <2>1, <2>2 DEF Replying
  <2> QED
    BY Zenon, <1>7, <2>3, Entered
<1>8. toProxy = <<>> /\ WriteAll(w, "reply")
  BY Zenon, <1>1, <1>3 DEF Requesting
<1> QED
  BY Zenon, <1>4, <1>5, <1>7, <1>8, Elsewhere, WriteOf

\* What the steps that read the proxy's reply have in common.
LEMMA ReplyRead ==
    ASSUME SocksInv, NEW n \in Nat, n <= Cap, ReadFull(n), NEW p \in Nat, Coming(ReplyOf(proxy), p, toClient, linked)
    PROVE  /\ UNCHANGED arguments /\ mem' \in Seq(Nat) /\ Len(mem') = Cap /\ linked' \in BOOLEAN
           /\ Took(mem', ReplyOf(proxy), p, n) /\ Coming(ReplyOf(proxy'), p + n, toClient', linked')
           /\ proxy' = proxy /\ login' = login /\ target' = target
           /\ spc' = spc /\ toProxy' = toProxy /\ asked' = asked /\ told' = told /\ blen' = blen
<1>1. proxy \in Proxies
  BY Zenon DEF SocksInv
<1>2. ReplyOf(proxy) \in Seq(Nat)
  BY Zenon, <1>1, ReplyParts DEF IsReply
<1>3. /\ UNCHANGED arguments /\ mem' \in Seq(Nat) /\ Len(mem') = Cap /\ linked' \in BOOLEAN
      /\ UNCHANGED <<toProxy, linked, spc, asked, told, blen>>
      /\ Took(mem', ReplyOf(proxy), p, n) /\ Coming(ReplyOf(proxy), p + n, toClient', linked')
  BY Zenon, <1>2, ReadOf
<1>4. proxy' = proxy /\ login' = login /\ target' = target
  BY Zenon, <1>3 DEF arguments
<1> QED
  BY Zenon, <1>3, <1>4

\* A header that has been read.
LEMMA TookFour ==
    ASSUME NEW m, NEW a, Took(m, a, 0, 4)
    PROVE  m[1] = a[1] /\ m[2] = a[2] /\ m[4] = a[4]
<1>1. PICK b \in Seq(Nat) : Len(b) = 4 /\ Carries(a, 0, b) /\ Carries(m, 0, b)
  BY Zenon DEF Took
<1>2. a[1] = b[1] /\ a[2] = b[2] /\ a[4] = b[4]
  BY ONLY ZenonT(30), <1>1, FourIn
<1>3. m[1] = b[1] /\ m[2] = b[2] /\ m[4] = b[4]
  BY ONLY ZenonT(30), <1>1, FourIn
<1> QED
  BY ONLY Zenon, <1>2, <1>3

\* The header of the reply.
LEMMA ReplyInv == ASSUME SocksInv, Reply PROVE SocksInv'
<1>1. Replying /\ ReadFull(4) /\ UNCHANGED paddr
  BY Zenon DEF SocksInv, Stage, Reply
<1>2. toClient # <<>>
  <2>1. Len(toClient) >= 4
    BY Zenon, <1>1 DEF ReadFull
  <2> QED
    BY ONLY <2>1, NothingToRead
<1>3. Agreed /\ Answered /\ Coming(ReplyOf(proxy), 0, toClient, linked)
  BY Zenon, <1>1, <1>2 DEF Replying
<1>4. 0 \in Nat /\ 4 \in Nat /\ 0 + 4 = 4
  OBVIOUS
<1>5. 4 <= Cap
  BY Zenon, CapLong
<1>6. /\ UNCHANGED arguments /\ mem' \in Seq(Nat) /\ Len(mem') = Cap /\ linked' \in BOOLEAN
      /\ Took(mem', ReplyOf(proxy), 0, 4) /\ Coming(ReplyOf(proxy'), 0 + 4, toClient', linked')
      /\ proxy' = proxy /\ login' = login /\ target' = target
      /\ spc' = spc /\ toProxy' = toProxy /\ asked' = asked /\ told' = told /\ blen' = blen
  BY Zenon, <1>1, <1>3, <1>4, <1>5, ReplyRead
<1>7. mem'[1] = ReplyOf(proxy)[1] /\ mem'[2] = ReplyOf(proxy)[2] /\ mem'[4] = ReplyOf(proxy)[4]
  BY ONLY ZenonT(30), <1>6, TookFour
<1>8. mem'[1] = proxy.version /\ mem'[2] = proxy.status /\ mem'[4] = proxy.atype
  <2>1. IsReply(ReplyOf(proxy), proxy)
    BY Zenon, ReplyParts DEF SocksInv
  <2> QED
    BY ONLY Zenon, <1>7, <2>1 DEF IsReply
<1>9. closed' = (dpc' = "error") /\ \E h, n : paddr' = [host |-> h, port |-> n]
  BY Zenon, <1>1 DEF SocksInv, Reply, Goto
<1>10. dpc' = IF mem'[1] = protocolVersion /\ mem'[2] = statusRequestGranted
                 /\ mem'[4] \in {addressTypeIPv4, addressTypeIPv6, addressTypeDomain}
              THEN "address" ELSE "error"
  BY Zenon DEF Reply, Goto
<1>11. proxy.version = protocolVersion
  BY Zenon, <1>3 DEF Agreed
<1>12. Agreed' /\ Answered'
  BY Zenon, <1>3, <1>6 DEF Agreed, Answered
<1>13. Stage' /\ dpc' \in Places
  <2> DEFINE ok == /\ proxy.status = statusRequestGranted
                   /\ proxy.atype \in {addressTypeIPv4, addressTypeIPv6, addressTypeDomain}
  <2>1. CASE ok
    <3>1. dpc' = "address"
      BY Zenon, <1>8, <1>10, <1>11, <2>1
    <3>2. Granted'
      BY Zenon, <1>6, <1>12, <2>1 DEF Granted
    <3>3. mem'[4] = proxy'.atype /\ Coming(ReplyOf(proxy'), 4, toClient', linked')
      BY Zenon, <1>4, <1>6, <1>8
    <3>4. AtAddress'
      BY Zenon, <3>2, <3>3 DEF AtAddress
    <3> QED
      BY Zenon, <3>1, <3>4, Entered
  <2>2. CASE ~ok
    <3>1. dpc' = "error"
      BY Zenon, <1>8, <1>10, <2>2
    <3>2. Refused'
      BY Zenon, <1>6, <2>2 DEF Refused, Willing
    <3> QED
      BY Zenon, <3>1, <3>2, Entered
  <2> QED
    BY Zenon, <2>1, <2>2
<1> QED
  BY Zenon, <1>6, <1>9, <1>13, Kept

\* One byte that has been read.
LEMMA TookOne ==
    ASSUME NEW m, NEW a, NEW p \in Nat, Took(m, a, p, 1)
    PROVE  m[1] = a[p + 1]
<1>1. PICK b \in Seq(Nat) : Len(b) = 1 /\ Carries(a, p, b) /\ Carries(m, 0, b)
  BY Zenon DEF Took
<1>2. a[p + 1] = b[1]
  BY ONLY Zenon, <1>1, p \in Nat, OneIn
<1>3. 0 \in Nat /\ 0 + 1 = 1
  OBVIOUS
<1>4. m[0 + 1] = b[1]
  BY ONLY Zenon, <1>1, <1>3, OneIn
<1> QED
  BY ONLY Zenon, <1>2, <1>3, <1>4

\* An address with another host, or with another port.
LEMMA HostSet ==
    ASSUME \E h, n : paddr = [host |-> h, port |-> n], NEW v
    PROVE  /\ \E h, n : [paddr EXCEPT !.host = v] = [host |-> h, port |-> n]
           /\ [paddr EXCEPT !.host = v].host = v
           /\ \E h, n : [paddr EXCEPT !.port = v] = [host |-> h, port |-> n]
           /\ [paddr EXCEPT !.port = v].port = v /\ [paddr EXCEPT !.port = v].host = paddr.host
<1>1. PICK h, n : paddr = [host |-> h, port |-> n]
  BY Zenon
<1>2. [paddr EXCEPT !.host = v] = [host |-> v, port |-> n]
  BY <1>1
<1>3. [paddr EXCEPT !.port = v] = [host |-> h, port |-> v]
  BY <1>1
<1>4. paddr.host = h
  BY <1>1
<1> QED
  BY Zenon, <1>2, <1>3, <1>4

\* Reading the reply leaves what the proxy has granted.
LEMMA GrantedKept ==
    ASSUME Granted, proxy' = proxy, login' = login, target' = target, spc' = spc, toProxy' = toProxy,
           asked' = asked, told' = told
    PROVE  Granted'
BY Zenon DEF Granted, Agreed, Answered

\* The address in the reply, or the length of the domain.
LEMMA BoundAddrInv == ASSUME SocksInv, BoundAddr PROVE SocksInv'
<1>1. AtAddress /\ ReadFull(AddressLen)
  BY Zenon DEF SocksInv, Stage, BoundAddr
<1>2. Granted /\ mem[4] = proxy.atype /\ Coming(ReplyOf(proxy), 4, toClient, linked)
  BY Zenon, <1>1 DEF AtAddress
<1>3. proxy \in Proxies /\ \E h, n : paddr = [host |-> h, port |-> n]
  BY Zenon DEF SocksInv
<1>4. IsReply(ReplyOf(proxy), proxy)
  BY Zenon, <1>3, ReplyParts
<1>5. 1 \in Nat /\ 4 \in Nat /\ 4 + 1 = 5
  OBVIOUS
<1>6. proxy.atype \in {addressTypeIPv4, addressTypeIPv6, addressTypeDomain}
  BY Zenon, <1>2 DEF Granted
<1>7. AddressLen = IF proxy.atype = addressTypeDomain THEN 1 ELSE Len(proxy.addr)
  BY <1>2, <1>3, <1>6, SocksAssumption DEF AddressLen, addressTypeIPv4, addressTypeIPv6, addressTypeDomain
<1>8. AddressLen \in Nat /\ AddressLen <= Cap
  <2>1. /\ Cap \in Nat /\ 4 <= Cap /\ V4Len \in Nat /\ V6Len \in Nat /\ V4Len <= Cap /\ V6Len <= Cap
    BY Zenon, CapLong
  <2>2. AddressLen \in {V4Len, V6Len, 1}
    BY Zenon DEF AddressLen
  <2>3. PICK k : k = Cap
    BY Zenon
  <2> QED
    BY ONLY <2>1, <2>2, <2>3
<1>9. /\ UNCHANGED arguments /\ mem' \in Seq(Nat) /\ Len(mem') = Cap /\ linked' \in BOOLEAN
      /\ Took(mem', ReplyOf(proxy), 4, AddressLen) /\ Coming(ReplyOf(proxy'), 4 + AddressLen, toClient', linked')
      /\ proxy' = proxy /\ login' = login /\ target' = target
      /\ spc' = spc /\ toProxy' = toProxy /\ asked' = asked /\ told' = told /\ blen' = blen
  BY Zenon, <1>1, <1>2, <1>5, <1>8, ReplyRead
<1>10. Granted'
  BY Zenon, <1>2, <1>9, GrantedKept
<1>11. CASE proxy.atype = addressTypeDomain
  <2>1. dpc' = "domain" /\ closed' = ("domain" = "error") /\ paddr' = paddr
    BY Zenon, <1>2, <1>11 DEF BoundAddr, Goto
  <2>2. AddressLen = 1
    BY Zenon, <1>7, <1>11
  <2>3. mem'[1] = ReplyOf(proxy)[4 + 1]
    BY ONLY Zenon, <1>5, <1>9, <2>2, TookOne
  <2>4. mem'[1] = Len(proxy'.addr)
    BY ONLY Zenon, <1>4, <1>5, <1>9, <1>11, <2>3 DEF IsReply
  <2>5. Coming(ReplyOf(proxy'), 5, toClient', linked') /\ proxy'.atype = addressTypeDomain
    BY ONLY Zenon, <1>5, <1>9, <1>11, <2>2
  <2>6. AtDomain'
    BY Zenon, <1>10, <2>4, <2>5 DEF AtDomain
  <2>7. Stage' /\ dpc' \in Places
    BY Zenon, <2>1, <2>6, Entered
  <2>8. closed' = (dpc' = "error")
    BY Zenon, <2>1
  <2> QED
    BY Zenon, <1>3, <1>9, <2>1, <2>7, <2>8, Kept
<1>12. CASE proxy.atype # addressTypeDomain
  <2>1. dpc' = "port" /\ closed' = ("port" = "error") /\ paddr' = [paddr EXCEPT !.host = SubSeq(mem', 1, blen)]
    BY Zenon, <1>2, <1>12 DEF BoundAddr, Goto
  <2>2. 4 + AddressLen = PortAt(proxy)
    BY Zenon, <1>7, <1>12 DEF PortAt, AddrAt
  <2>3. Coming(ReplyOf(proxy'), PortAt(proxy'), toClient', linked')
    BY Zenon, <1>9, <2>2
  <2>4. Named'
    BY Zenon, <1>9, <1>12 DEF Named
  <2>5. AtPort'
    BY Zenon, <1>10, <2>3, <2>4 DEF AtPort
  <2>6. Stage' /\ dpc' \in Places
    BY Zenon, <2>1, <2>5, Entered
  <2>7. closed' = (dpc' = "error")
    BY Zenon, <2>1
  <2>8. \E h, n : paddr' = [host |-> h, port |-> n]
    BY Zenon, <1>3, <2>1, HostSet
  <2> QED
    BY Zenon, <1>9, <2>6, <2>7, <2>8, Kept
<1> QED
  BY Zenon, <1>11, <1>12

\* All of a part of the reply has been read.
LEMMA TookAll ==
    ASSUME NEW m \in Seq(Nat), NEW a, NEW p, NEW b \in Seq(Nat), Carries(a, p, b), Took(m, a, p, Len(b))
    PROVE  SubSeq(m, 1, Len(b)) = b
<1>1. PICK c \in Seq(Nat) : Len(c) = Len(b) /\ Carries(a, p, c) /\ Carries(m, 0, c)
  BY Zenon DEF Took
<1>2. c = b
  BY ONLY Zenon, <1>1, Carries(a, p, b), b \in Seq(Nat), c \in Seq(Nat), CarriesSame
<1>3. 0 \in Nat
  OBVIOUS
<1>4. SubSeq(m, 0 + 1, 0 + Len(c)) = c
  BY ONLY Zenon, <1>1, <1>3, m \in Seq(Nat), c \in Seq(Nat), Slice
<1>5. Len(b) \in Nat
  OBVIOUS
<1>6. 0 + 1 = 1 /\ 0 + Len(b) = Len(b)
  BY ONLY <1>5
<1> QED
  BY ONLY Zenon, <1>2, <1>4, <1>6

\* The domain in the reply.
LEMMA BoundDomainInv == ASSUME SocksInv, BoundDomain PROVE SocksInv'
<1>1. AtDomain
  BY Zenon DEF SocksInv, Stage, BoundDomain
<1>2. /\ Granted /\ proxy.atype = addressTypeDomain /\ mem[1] = Len(proxy.addr)
      /\ Coming(ReplyOf(proxy), 5, toClient, linked)
  BY Zenon, <1>1 DEF AtDomain
<1>3. proxy \in Proxies /\ \E h, n : paddr = [host |-> h, port |-> n]
  BY Zenon DEF SocksInv
<1>4. CASE mem[1] > Cap
  <2>1. /\ dpc' = "crash" /\ closed' = ("crash" = "error")
        /\ UNCHANGED arguments /\ mem' = mem /\ linked' = linked /\ paddr' = paddr
    BY Zenon, <1>4 DEF BoundDomain, Goto
  <2>2. proxy' = proxy /\ login' = login /\ target' = target
    BY Zenon, <2>1 DEF arguments
  <2>3. Cap' = Cap
    BY Zenon, <2>2 DEF Cap
  <2>4. proxy'.atype = addressTypeDomain /\ Len(proxy'.addr) > Cap'
    BY Zenon, <1>2, <1>4, <2>2, <2>3
  <2>5. Overlong'
    BY Zenon, <2>4 DEF Overlong
  <2>6. Stage' /\ dpc' \in Places
    BY Zenon, <2>1, <2>5, Entered
  <2>7. /\ mem' \in Seq(Nat) /\ Len(mem') = Cap /\ linked' \in BOOLEAN /\ closed' = (dpc' = "error")
        /\ \E h, n : paddr' = [host |-> h, port |-> n]
    BY Zenon, <2>1 DEF SocksInv
  <2> QED
    BY Zenon, <2>1, <2>6, <2>7, Kept
<1>5. CASE ~(mem[1] > Cap)
  <2>1. /\ ReadFull(mem[1]) /\ dpc' = "port" /\ closed' = ("port" = "error")
        /\ paddr' = [paddr EXCEPT !.host = SubSeq(mem', 1, mem[1])]
    BY Zenon, <1>5 DEF BoundDomain, Goto
  <2>2. proxy.addr \in Seq(Nat)
    BY <1>3, SocksAssumption
  <2>3. Len(proxy.addr) \in Nat /\ Cap \in Nat
    BY <2>2, CapLong
  <2>4. PICK n \in Nat : n = Len(proxy.addr) /\ n = mem[1]
    BY ONLY Zenon, <1>2, <2>3
  <2>5. n <= Cap
    BY ONLY <1>5, <2>3, <2>4
  <2>6. 5 \in Nat
    OBVIOUS
  <2>7. ReadFull(n)
    BY Zenon, <2>1, <2>4
  <2>8. /\ UNCHANGED arguments /\ mem' \in Seq(Nat) /\ Len(mem') = Cap /\ linked' \in BOOLEAN
        /\ Took(mem', ReplyOf(proxy), 5, n) /\ Coming(ReplyOf(proxy'), 5 + n, toClient', linked')
        /\ proxy' = proxy /\ login' = login /\ target' = target
        /\ spc' = spc /\ toProxy' = toProxy /\ asked' = asked /\ told' = told /\ blen' = blen
    BY Zenon, <1>2, <2>5, <2>6, <2>7, ReplyRead
  <2>9. Granted'
    BY Zenon, <1>2, <2>8, GrantedKept
  <2>10. IsReply(ReplyOf(proxy), proxy) /\ AddrAt(proxy) = 5
    BY Zenon, <1>2, <1>3, ReplyParts DEF AddrAt
  <2>11. Carries(ReplyOf(proxy), 5, proxy.addr)
    BY Zenon, <2>10 DEF IsReply
  <2>12. SubSeq(mem', 1, Len(proxy.addr)) = proxy.addr
    BY ONLY Zenon, <2>2, <2>4, <2>8, <2>11, TookAll
  <2>13. 5 + n = PortAt(proxy)
    BY Zenon, <2>4, <2>10 DEF PortAt
  <2>14. Coming(ReplyOf(proxy'), PortAt(proxy'), toClient', linked')
    BY Zenon, <2>8, <2>13
  <2>15. paddr'.host = proxy'.addr /\ \E h, m : paddr' = [host |-> h, port |-> m]
    <3>1. paddr' = [paddr EXCEPT !.host = proxy.addr]
      BY Zenon, <1>2, <2>1, <2>12
    <3> QED
      BY Zenon, <1>3, <2>8, <3>1, HostSet
  <2>16. Named'
    BY Zenon, <2>15 DEF Named
  <2>17. AtPort'
    BY Zenon, <2>9, <2>14, <2>16 DEF AtPort
  <2>18. Stage' /\ dpc' \in Places
    BY Zenon, <2>1, <2>17, Entered
  <2>19. closed' = (dpc' = "error")
    BY Zenon, <2>1
  <2> QED
    BY Zenon, <2>8, <2>15, <2>18, <2>19, Kept
<1> QED
  BY Zenon, <1>4, <1>5

\* The port in the reply, with which dial returns.
LEMMA BoundPortInv == ASSUME SocksInv, BoundPort PROVE SocksInv'
<1>1. /\ AtPort /\ ReadFull(2) /\ dpc' = "done" /\ closed' = ("done" = "error")
      /\ paddr' = [paddr EXCEPT !.port = mem'[1] * SocksRadix + mem'[2]]
  BY Zenon DEF SocksInv, Stage, BoundPort, Goto
<1>2. Granted /\ Named /\ Coming(ReplyOf(proxy), PortAt(proxy), toClient, linked)
  BY Zenon, <1>1 DEF AtPort
<1>3. proxy \in Proxies /\ \E h, n : paddr = [host |-> h, port |-> n]
  BY Zenon DEF SocksInv
<1>4. 2 \in Nat /\ 2 <= Cap
  <2>1. Cap \in Nat /\ 4 <= Cap
    BY Zenon, CapLong
  <2> QED
    BY ONLY <2>1
<1>5. PortAt(proxy) \in Nat
  BY Zenon, <1>3, PlacesIn
<1>6. /\ UNCHANGED arguments /\ mem' \in Seq(Nat) /\ Len(mem') = Cap /\ linked' \in BOOLEAN
      /\ Took(mem', ReplyOf(proxy), PortAt(proxy), 2) /\ Coming(ReplyOf(proxy'), PortAt(proxy) + 2, toClient', linked')
      /\ proxy' = proxy /\ login' = login /\ target' = target
      /\ spc' = spc /\ toProxy' = toProxy /\ asked' = asked /\ told' = told /\ blen' = blen
  BY Zenon, <1>1, <1>2, <1>4, <1>5, ReplyRead
<1>7. Granted'
  BY Zenon, <1>2, <1>6, GrantedKept
<1>8. mem'[1] = ReplyOf(proxy)[PortAt(proxy) + 1] /\ mem'[2] = ReplyOf(proxy)[PortAt(proxy) + 2]
  BY ONLY Zenon, <1>5, <1>6, TookTwo
<1>9. mem'[1] * SocksRadix + mem'[2] = proxy.port
  <2>1. IsReply(ReplyOf(proxy), proxy)
    BY Zenon, <1>3, ReplyParts
  <2> QED
    BY ONLY Zenon, <1>8, <2>1 DEF IsReply
<1>10. paddr' = [paddr EXCEPT !.port = proxy.port]
  BY Zenon, <1>1, <1>9
<1>11. paddr'.port = proxy.port /\ paddr'.host = paddr.host /\ \E h, n : paddr' = [host |-> h, port |-> n]
  BY Zenon, <1>3, <1>10, HostSet
<1>12. Named' /\ paddr'.port = proxy'.port
  BY Zenon, <1>2, <1>6, <1>11 DEF Named
<1>13. Coming(ReplyOf(proxy'), PortAt(proxy') + 2, toClient', linked')
  BY Zenon, <1>6
<1>14. Connected'
  BY Zenon, <1>7, <1>12, <1>13 DEF Connected
<1>15. Stage' /\ dpc' \in Places
  BY Zenon, <1>1, <1>14, Entered
<1>16. closed' = (dpc' = "error")
  BY Zenon, <1>1
<1> QED
  BY Zenon, <1>6, <1>11, <1>15, <1>16, Kept

\* A read on a broken connection.
LEMMA ReadFailsInv == ASSUME SocksInv, ReadFails PROVE SocksInv'
<1>1. /\ ~linked /\ dpc' = "error" /\ closed' = ("error" = "error")
      /\ UNCHANGED arguments /\ mem' = mem /\ linked' = linked /\ paddr' = paddr
  BY Zenon DEF ReadFails, Goto
<1>2. Refused'
  BY Zenon, <1>1 DEF Refused
<1>3. Stage' /\ dpc' \in Places
  BY Zenon, <1>1, <1>2, Entered
<1>4. /\ mem' \in Seq(Nat) /\ Len(mem') = Cap /\ linked' \in BOOLEAN /\ closed' = (dpc' = "error")
      /\ \E h, n : paddr' = [host |-> h, port |-> n]
  BY Zenon, <1>1 DEF SocksInv
<1> QED
  BY Zenon, <1>1, <1>3, <1>4, Kept
-----------------------------------------------------------------------------
\* The steps of the proxy, and the loss of the connection.
LEMMA Awaited ==
    ASSUME SocksInv, toProxy # <<>>
    PROVE  \/ dpc = "choice" /\ spc = "greeting" /\ toClient = <<>>
           \/ dpc = "verdict" /\ WantsLogin /\ spc = "login" /\ toProxy = LoginOf(login) /\ toClient = <<>>
           \/ dpc = "reply" /\ Agreed /\ spc = "request" /\ toProxy = RequestOf(target) /\ toClient = <<>>
           \/ dpc \in {"error", "crash", "failed"}
<1>1. dpc \in Places /\ Stage
  BY Zenon DEF SocksInv
<1>2. ~Dialling /\ ~LoggingIn /\ ~Requesting
  BY Zenon DEF Dialling, LoggingIn, Requesting
<1>3. ~Granted
  BY Zenon DEF Granted, Answered
<1>4. ~AtAddress /\ ~AtDomain /\ ~AtPort /\ ~Connected
  BY Zenon, <1>3 DEF AtAddress, AtDomain, AtPort, Connected
<1>5. Choosing => spc = "greeting" /\ toClient = <<>>
  BY Zenon DEF Choosing
<1>6. Verifying => WantsLogin /\ spc = "login" /\ toProxy = LoginOf(login) /\ toClient = <<>>
  BY Zenon DEF Verifying
<1>7. Replying => Agreed /\ spc = "request" /\ toProxy = RequestOf(target) /\ toClient = <<>>
  BY Zenon DEF Replying, Answered
<1>8. dpc \in {"choice", "verdict", "reply", "error", "crash", "failed"}
  BY <1>1, <1>2, <1>4 DEF Stage, Places
<1>9. /\ dpc = "choice" => Choosing
      /\ dpc = "verdict" => Verifying
      /\ dpc = "reply" => Replying
  BY Zenon, <1>1 DEF Stage
<1> QED
  BY Zenon, <1>5, <1>6, <1>7, <1>8, <1>9

\* A step of the proxy changes nothing for a dial that has ended.
LEMMA ServeKept ==
    ASSUME SocksInv, NEW bytes, NEW pc, Serve(bytes, pc), dpc \notin {"error", "crash", "failed"} => Stage'
    PROVE  SocksInv'
<1>1. UNCHANGED arguments /\ dpc' = dpc /\ mem' = mem /\ linked' = linked /\ closed' = closed /\ paddr' = paddr
  BY Zenon DEF Serve
<1>2. /\ mem' \in Seq(Nat) /\ Len(mem') = Cap /\ linked' \in BOOLEAN /\ closed' = (dpc' = "error") /\ dpc' \in Places
      /\ \E h, n : paddr' = [host |-> h, port |-> n]
  BY Zenon, <1>1 DEF SocksInv
<1>3. Stage'
  <2>1. proxy' = proxy /\ login' = login /\ target' = target
    BY Zenon, <1>1 DEF arguments
  <2>2. CASE dpc = "failed"
    BY Zenon, <1>1, <2>2, Entered
  <2>3. CASE dpc = "error"
    <3>1. Refused
      BY Zenon, <2>3 DEF SocksInv, Stage
    <3>2. Refused'
      BY Zenon, <1>1, <2>1, <3>1 DEF Refused, Willing
    <3> QED
      BY Zenon, <1>1, <2>3, <3>2, Entered
  <2>4. CASE dpc = "crash"
    <3>1. Overlong
      BY Zenon, <2>4 DEF SocksInv, Stage
    <3>2. Overlong'
      BY Zenon, <2>1, <3>1 DEF Overlong, Cap
    <3> QED
      BY Zenon, <1>1, <2>4, <3>2, Entered
  <2> QED
    BY Zenon, <2>2, <2>3, <2>4
<1> QED
  BY Zenon, <1>1, <1>2, <1>3, Kept

\* The answer of the proxy to a client that has read all before it.
LEMMA Served ==
    ASSUME NEW bytes \in Seq(Nat), NEW pc, Serve(bytes, pc), toClient = <<>>
    PROVE  /\ proxy' = proxy /\ login' = login /\ target' = target /\ dpc' = dpc /\ linked' = linked
           /\ toProxy' = <<>> /\ toClient' = bytes /\ spc' = pc
<1>1. <<>> \o bytes = bytes
  BY ONLY bytes \in Seq(Nat)
<1> QED
  BY Zenon, <1>1 DEF Serve, arguments

\* The proxy answers the greeting.
LEMMA ServeGreetingInv == ASSUME SocksInv, ServeGreeting PROVE SocksInv'
<1>1. spc = "greeting" /\ toProxy # <<>> /\ Serve(ChoiceOf(proxy), Chosen(proxy))
  BY Zenon DEF ServeGreeting, ChoiceOf, Chosen
<1>2. "greeting" # "login" /\ "greeting" # "request"
  OBVIOUS
<1>3. (dpc = "choice" /\ toClient = <<>>) \/ dpc \in {"error", "crash", "failed"}
  BY Zenon, <1>1, <1>2, Awaited
<1>4. ASSUME dpc = "choice", toClient = <<>> PROVE Stage'
  <2>1. proxy.version \in Nat /\ proxy.method \in Nat
    BY SocksAssumption DEF SocksInv
  <2>2. ChoiceOf(proxy) \in Seq(Nat)
    BY Zenon, <2>1, BytesOf DEF ChoiceOf
  <2>3. PICK b \in Seq(Nat) : b = ChoiceOf(proxy)
    BY ONLY Zenon, <2>2
  <2>4. Serve(b, Chosen(proxy))
    BY Zenon, <1>1, <2>3
  <2>5. /\ proxy' = proxy /\ dpc' = dpc /\ linked' = linked
        /\ toProxy' = <<>> /\ toClient' = b /\ spc' = Chosen(proxy)
    BY Zenon, <1>4, <2>4, Served
  <2>6. Coming(b, 0, b, linked)
    BY Zenon, ComingAll
  <2>7. spc' = Chosen(proxy') /\ Coming(ChoiceOf(proxy'), 0, toClient', linked')
    BY Zenon, <2>3, <2>5, <2>6
  <2>8. Choosing'
    BY Zenon, <2>5, <2>7 DEF Choosing
  <2> QED
    BY Zenon, <1>4, <2>5, <2>8, Entered
<1> QED
  BY Zenon, <1>1, <1>3, <1>4, ServeKept

\* The proxy answers the login.
LEMMA ServeLoginInv == ASSUME SocksInv, ServeLogin PROVE SocksInv'
<1>1. /\ spc = "login" /\ toProxy # <<>>
      /\ Serve(<<1, IF told' = proxy.login THEN 0 ELSE 1>>, IF told' = proxy.login THEN "request" ELSE "end")
  BY Zenon DEF ServeLogin
<1>2. "login" # "greeting" /\ "login" # "request"
  OBVIOUS
<1>3. \/ dpc = "verdict" /\ WantsLogin /\ toProxy = LoginOf(login) /\ toClient = <<>>
      \/ dpc \in {"error", "crash", "failed"}
  BY Zenon, <1>1, <1>2, Awaited
<1>4. ASSUME dpc = "verdict", WantsLogin, toProxy = LoginOf(login), toClient = <<>> PROVE Stage'
  <2>1. login \in Logins
    BY Zenon DEF SocksInv
  <2>2. told' = [user |-> login.user, pass |-> login.pass]
    <3>1. told' = [user |-> SubSeq(toProxy, 3, 2 + toProxy[2]),
                   pass |-> SubSeq(toProxy, 4 + toProxy[2], 3 + toProxy[2] + toProxy[3 + toProxy[2]])]
      BY Zenon DEF ServeLogin
    <3>2. /\ SubSeq(toProxy, 3, 2 + toProxy[2]) = login.user
          /\ SubSeq(toProxy, 4 + toProxy[2], 3 + toProxy[2] + toProxy[3 + toProxy[2]]) = login.pass
      BY Zenon, <1>4, <2>1, LoginParts
    <3> QED
      BY Zenon, <3>1, <3>2
  <2>3. told' = login
    <3>1. login \in [user : Seq(Nat), pass : Seq(Nat)]
      BY <2>1, SocksAssumption
    <3> QED
      BY ONLY <2>2, <3>1
  <2>4. 0 \in Nat /\ 1 \in Nat
    OBVIOUS
  <2>5. PICK b \in Seq(Nat) : b = VerdictOf(proxy, login)
    BY Zenon, <2>4, BytesOf DEF VerdictOf
  <2>6. PICK pc : pc = IF login = proxy.login THEN "request" ELSE "end"
    BY Zenon
  <2>7. Serve(b, pc)
    BY Zenon, <1>1, <2>3, <2>5, <2>6 DEF VerdictOf
  <2>8. /\ proxy' = proxy /\ login' = login /\ dpc' = dpc /\ linked' = linked
        /\ toProxy' = <<>> /\ toClient' = b /\ spc' = pc
    BY Zenon, <1>4, <2>7, Served
  <2>9. Coming(b, 0, b, linked)
    BY Zenon, ComingAll
  <2>10. Coming(VerdictOf(proxy', login'), 0, toClient', linked')
    BY Zenon, <2>5, <2>8, <2>9
  <2>11. WantsLogin' /\ told' = login' /\ spc' = IF login' = proxy'.login THEN "request" ELSE "end"
    BY Zenon, <1>4, <2>3, <2>6, <2>8 DEF WantsLogin
  <2>12. Verifying'
    BY Zenon, <2>8, <2>10, <2>11 DEF Verifying
  <2> QED
    BY Zenon, <1>4, <2>8, <2>12, Entered
<1> QED
  BY Zenon, <1>1, <1>3, <1>4, ServeKept

\* The proxy connects, or refuses, and answers.
LEMMA ServeRequestInv == ASSUME SocksInv, ServeRequest PROVE SocksInv'
<1>1. spc = "request" /\ toProxy # <<>> /\ Serve(ReplyOf(proxy), "end") /\ told' = told
  BY Zenon DEF ServeRequest, ReplyOf
<1>2. "request" # "greeting" /\ "request" # "login"
  OBVIOUS
<1>3. \/ dpc = "reply" /\ Agreed /\ toProxy = RequestOf(target) /\ toClient = <<>>
      \/ dpc \in {"error", "crash", "failed"}
  BY Zenon, <1>1, <1>2, Awaited
<1>4. ASSUME dpc = "reply", Agreed, toProxy = RequestOf(target), toClient = <<>> PROVE Stage'
  <2>1. target \in Targets /\ proxy \in Proxies
    BY Zenon DEF SocksInv
  <2>2. asked' = [host |-> target.host, port |-> target.port]
    <3>1. asked' = [host |-> SubSeq(toProxy, 6, 5 + toProxy[5]),
                    port |-> toProxy[6 + toProxy[5]] * SocksRadix + toProxy[7 + toProxy[5]]]
      BY Zenon DEF ServeRequest
    <3>2. /\ SubSeq(toProxy, 6, 5 + toProxy[5]) = target.host
          /\ toProxy[6 + toProxy[5]] * SocksRadix + toProxy[7 + toProxy[5]] = target.port
      BY Zenon, <1>4, <2>1, RequestParts
    <3> QED
      BY Zenon, <3>1, <3>2
  <2>3. asked' = target
    <3>1. target \in [host : Seq(Nat), port : Nat]
      BY <2>1, SocksAssumption
    <3> QED
      BY ONLY <2>2, <3>1
  <2>4. ReplyOf(proxy) \in Seq(Nat)
    BY Zenon, <2>1, ReplyParts DEF IsReply
  <2>5. PICK b \in Seq(Nat) : b = ReplyOf(proxy)
    BY ONLY Zenon, <2>4
  <2>6. Serve(b, "end")
    BY Zenon, <1>1, <2>5
  <2>7. /\ proxy' = proxy /\ login' = login /\ target' = target /\ dpc' = dpc /\ linked' = linked
        /\ toProxy' = <<>> /\ toClient' = b /\ spc' = "end"
    BY Zenon, <1>4, <2>6, Served
  <2>8. Coming(b, 0, b, linked)
    BY Zenon, ComingAll
  <2>9. Coming(ReplyOf(proxy'), 0, toClient', linked')
    BY Zenon, <2>5, <2>7, <2>8
  <2>10. Agreed' /\ Answered'
    BY Zenon, <1>1, <1>4, <2>3, <2>7 DEF Agreed, Answered
  <2>11. Replying'
    BY Zenon, <2>9, <2>10 DEF Replying
  <2> QED
    BY Zenon, <1>4, <2>7, <2>11, Entered
<1> QED
  BY Zenon, <1>1, <1>3, <1>4, ServeKept

\* Whatever answer is under way is still under way, but for its end.
CutShort == \A a \in Seq(Nat), p \in Nat : Coming(a, p, toClient, linked) => Coming(a, p, toClient', linked')

\* A broken connection loses the end of an answer only.
LEMMA BrokenLink ==
    ASSUME BreakLink
    PROVE  CutShort /\ (toClient = <<>> => toClient' = <<>>)
<1>1. PICK n \in 0..Len(toClient) : toClient' = SubSeq(toClient, 1, n)
  BY Zenon DEF BreakLink
<1>2. linked' = FALSE
  BY Zenon DEF BreakLink
<1>3. \A a \in Seq(Nat), p \in Nat : Coming(a, p, toClient, linked) => Coming(a, p, SubSeq(toClient, 1, n), FALSE)
  BY Zenon, ComingCut
<1>4. CutShort
  BY Zenon, <1>1, <1>2, <1>3 DEF CutShort
<1>5. ASSUME toClient = <<>> PROVE toClient' = <<>>
  <2>1. n = 0
    BY <1>1, <1>5
  <2>2. SubSeq(<<>>, 1, 0) = <<>>
    OBVIOUS
  <2> QED
    BY Zenon, <1>1, <1>5, <2>1, <2>2
<1> QED
  BY Zenon, <1>4, <1>5

\* A step that leaves dial where it is and every condition of its places true.
LEMMA StageKept ==
    ASSUME Stage, dpc' = dpc, Dialling => Dialling', Choosing => Choosing', LoggingIn => LoggingIn',
           Verifying => Verifying', Requesting => Requesting', Replying => Replying', AtAddress => AtAddress',
           AtDomain => AtDomain', AtPort => AtPort', Connected => Connected', Refused => Refused', Overlong => Overlong'
    PROVE  Stage'
<1>1. /\ dpc' \in {"dial", "greet"} => Dialling'
      /\ dpc' = "choice" => Choosing'
      /\ dpc' = "login" => LoggingIn'
      /\ dpc' = "verdict" => Verifying'
      /\ dpc' = "request" => Requesting'
      /\ dpc' = "reply" => Replying'
  BY Zenon DEF Stage
<1>2. /\ dpc' = "address" => AtAddress'
      /\ dpc' = "domain" => AtDomain'
      /\ dpc' = "port" => AtPort'
      /\ dpc' = "done" => Connected'
      /\ dpc' = "error" => Refused'
      /\ dpc' = "crash" => Overlong'
  BY Zenon DEF Stage
<1> QED
  BY Zenon, <1>1, <1>2 DEF Stage

\* The connection breaks.
LEMMA BreakLinkInv == ASSUME SocksInv, BreakLink PROVE SocksInv'
<1>1. /\ UNCHANGED arguments /\ proxy' = proxy /\ login' = login /\ target' = target
      /\ dpc' = dpc /\ mem' = mem /\ toProxy' = toProxy /\ closed' = closed /\ paddr' = paddr
      /\ spc' = spc /\ asked' = asked /\ told' = told /\ linked' = FALSE
  BY Zenon DEF BreakLink, arguments, proxySide
<1>2. CutShort /\ (toClient = <<>> => toClient' = <<>>)
  BY Zenon, BrokenLink
<1>3. target \in Targets /\ login \in Logins /\ proxy \in Proxies
  BY Zenon DEF SocksInv
<1>4. 0 \in Nat /\ 4 \in Nat /\ 5 \in Nat /\ PortAt(proxy) \in Nat /\ PortAt(proxy) + 2 \in Nat
  <2>1. PortAt(proxy) \in Nat
    BY Zenon, <1>3, PlacesIn
  <2> QED
    BY ONLY <2>1
<1>5. ReplyOf(proxy) \in Seq(Nat)
  BY Zenon, <1>3, ReplyParts DEF IsReply
<1>6. \A p \in Nat : Coming(ReplyOf(proxy), p, toClient, linked) => Coming(ReplyOf(proxy'), p, toClient', linked')
  BY Zenon, <1>1, <1>2, <1>5 DEF CutShort
<1>7. Coming(ChoiceOf(proxy), 0, toClient, linked) => Coming(ChoiceOf(proxy'), 0, toClient', linked')
  <2>1. proxy.version \in Nat /\ proxy.method \in Nat
    BY <1>3, SocksAssumption
  <2>2. ChoiceOf(proxy) \in Seq(Nat)
    BY Zenon, <2>1, BytesOf DEF ChoiceOf
  <2> QED
    BY Zenon, <1>1, <1>2, <1>4, <2>2 DEF CutShort
<1>8. /\ Coming(VerdictOf(proxy, login), 0, toClient, linked)
         => Coming(VerdictOf(proxy', login'), 0, toClient', linked')
  <2>1. 0 \in Nat /\ 1 \in Nat
    OBVIOUS
  <2>2. VerdictOf(proxy, login) \in Seq(Nat)
    BY Zenon, <2>1, BytesOf DEF VerdictOf
  <2> QED
    BY Zenon, <1>1, <1>2, <1>4, <2>2 DEF CutShort
<1>9. Agreed => Agreed'
  BY Zenon, <1>1 DEF Agreed
<1>10. Answered => Answered'
  BY Zenon, <1>1 DEF Answered
<1>11. Granted => Granted'
  BY Zenon, <1>1, <1>9, <1>10 DEF Granted
<1>12. Named => Named'
  BY Zenon, <1>1 DEF Named
<1>13. WantsLogin => WantsLogin'
  BY Zenon, <1>1 DEF WantsLogin
<1>14. Dialling => Dialling'
  BY Zenon, <1>1, <1>2 DEF Dialling
<1>15. Choosing => Choosing'
  BY Zenon, <1>1, <1>2, <1>7 DEF Choosing
<1>16. LoggingIn => LoggingIn'
  BY Zenon, <1>1, <1>2, <1>13 DEF LoggingIn
<1>17. Verifying => Verifying'
  BY Zenon, <1>1, <1>2, <1>8, <1>13 DEF Verifying
<1>18. Requesting => Requesting'
  BY Zenon, <1>1, <1>2, <1>9 DEF Requesting
<1>19. Replying => Replying'
  BY Zenon, <1>1, <1>2, <1>4, <1>6, <1>9, <1>10 DEF Replying
<1>20. AtAddress => AtAddress'
  BY Zenon, <1>1, <1>4, <1>6, <1>11 DEF AtAddress
<1>21. AtDomain => AtDomain'
  BY Zenon, <1>1, <1>4, <1>6, <1>11 DEF AtDomain
<1>22. AtPort => AtPort'
  BY Zenon, <1>1, <1>4, <1>6, <1>11, <1>12 DEF AtPort
<1>23. Connected => Connected'
  BY Zenon, <1>1, <1>4, <1>6, <1>11, <1>12 DEF Connected
<1>24. Refused'
  BY Zenon, <1>1 DEF Refused
<1>25. Overlong => Overlong'
  BY Zenon, <1>1 DEF Overlong, Cap
<1>26. Stage
  BY Zenon DEF SocksInv
<1>27. Stage'
  BY Zenon, <1>1, <1>14, <1>15, <1>16, <1>17, <1>18, <1>19, <1>20, <1>21, <1>22, <1>23, <1>24, <1>25, <1>26,
     StageKept
<1>28. /\ mem' \in Seq(Nat) /\ Len(mem') = Cap /\ linked' \in BOOLEAN /\ closed' = (dpc' = "error") /\ dpc' \in Places
       /\ \E h, n : paddr' = [host |-> h, port |-> n]
  BY Zenon, <1>1 DEF SocksInv
<1> QED
  BY Zenon, <1>1, <1>27, <1>28, Kept
-----------------------------------------------------------------------------
\* The invariant holds before dial has connected.
LEMMA SocksInitially == ASSUME SocksInit PROVE SocksInv
<1>1. /\ target \in Targets /\ login \in Logins /\ proxy \in Proxies /\ dpc = "dial" /\ Dialling
      /\ mem = [i \in 1..Cap |-> 0] /\ linked = TRUE /\ closed = FALSE /\ paddr = [host |-> <<>>, port |-> 0]
  BY Zenon DEF SocksInit, Dialling
<1>2. Stage /\ dpc \in Places
  BY <1>1 DEF Stage, Places
<1>3. closed = (dpc = "error") /\ linked \in BOOLEAN
  <2>1. "dial" # "error"
    OBVIOUS
  <2> QED
    BY Zenon, <1>1, <2>1
<1>4. Cap \in Nat
  <2>1. BufBase \in Nat
    BY SocksAssumption
  <2>2. target.host \in Seq(Nat) /\ login.user \in Seq(Nat) /\ login.pass \in Seq(Nat)
    BY <1>1, SocksAssumption
  <2>3. Len(target.host) \in Nat /\ Len(login.user) \in Nat /\ Len(login.pass) \in Nat
    BY ONLY <2>2
  <2>4. \A i, j, k, l \in Nat : i + j + k + l \in Nat
    OBVIOUS
  <2> QED
    BY ONLY Zenon, <2>1, <2>3, <2>4 DEF Cap
<1>5. mem \in Seq(Nat) /\ Len(mem) = Cap
  <2>1. PICK c \in Nat : c = Cap
    BY ONLY Zenon, <1>4
  <2>2. [i \in 1..c |-> 0] \in Seq(Nat) /\ Len([i \in 1..c |-> 0]) = c
    BY ONLY c \in Nat
  <2> QED
    BY ONLY Zenon, <1>1, <2>1, <2>2
<1> QED
  BY Zenon, <1>1, <1>2, <1>3, <1>5 DEF SocksInv

\* A step of another component.
LEMMA SocksStutter == ASSUME SocksInv, UNCHANGED socksVars PROVE SocksInv'
<1>1. /\ target' = target /\ login' = login /\ proxy' = proxy /\ dpc' = dpc /\ mem' = mem /\ toProxy' = toProxy
      /\ toClient' = toClient /\ linked' = linked /\ closed' = closed /\ paddr' = paddr /\ spc' = spc
      /\ asked' = asked /\ told' = told
  BY Zenon DEF socksVars
<1>2. /\ Dialling' = Dialling /\ LoggingIn' = LoggingIn /\ Verifying' = Verifying
  BY Zenon, <1>1 DEF Dialling, LoggingIn, Verifying, WantsLogin
<1>8. Choosing' = Choosing
  BY Zenon, <1>1 DEF Choosing
<1>9. Requesting' = Requesting /\ Replying' = Replying
  BY Zenon, <1>1 DEF Requesting, Replying, Agreed, Answered
<1>3. Granted' = Granted /\ Named' = Named
  BY Zenon, <1>1 DEF Granted, Agreed, Answered, Named
<1>4. AtAddress' = AtAddress /\ AtDomain' = AtDomain /\ AtPort' = AtPort /\ Connected' = Connected
  BY Zenon, <1>1, <1>3 DEF AtAddress, AtDomain, AtPort, Connected
<1>5. Refused' = Refused /\ Overlong' = Overlong
  BY Zenon, <1>1 DEF Refused, Willing, Overlong, Cap
<1>6. Stage'
  BY Zenon, <1>1, <1>2, <1>4, <1>5, <1>8, <1>9, StageKept DEF SocksInv
<1>7. /\ mem' \in Seq(Nat) /\ Len(mem') = Cap /\ linked' \in BOOLEAN /\ closed' = (dpc' = "error") /\ dpc' \in Places
      /\ (\E h, n : paddr' = [host |-> h, port |-> n]) /\ UNCHANGED arguments
  BY Zenon, <1>1 DEF SocksInv, arguments
<1> QED
  BY Zenon, <1>6, <1>7, Kept

\* Every step keeps the invariant.
LEMMA SocksStep == ASSUME SocksInv, [SocksNext]_socksVars PROVE SocksInv'
BY Zenon, SocksStutter, DialProxyInv, GreetInv, AuthChoiceInv, LoginInv, VerdictInv, RequestInv, ReplyInv, BoundAddrInv,
   BoundDomainInv, BoundPortInv, ReadFailsInv, ServeGreetingInv, ServeLoginInv, ServeRequestInv, BreakLinkInv
   DEF SocksNext, dial

\* After the reply, the proxy's payload is all that is left to read.
LEMMA PayloadLeft ==
    ASSUME NEW x \in Proxies, NEW c, NEW u \in BOOLEAN, Coming(ReplyOf(x), PortAt(x) + 2, c, u)
    PROVE  IF u THEN c = x.payload ELSE Len(c) <= Len(x.payload)
<1>1. PICK w : w = ReplyOf(x) /\ IsReply(w, x)
  BY Zenon, ReplyParts
<1>2. PICK n \in Nat, k \in Nat : n = PortAt(x) /\ k = Len(x.payload)
  BY Zenon, PlacesIn
<1>3. x.payload \in Seq(Nat)
  BY SocksAssumption
<1>4. c \in Seq(Nat) /\ Carries(w, n + 2, c) /\ (u => n + 2 + Len(c) = Len(w))
  BY Zenon, <1>1, <1>2 DEF Coming
<1>5. Len(w) = n + 2 + k /\ Carries(w, n + 2, x.payload)
  BY Zenon, <1>1, <1>2 DEF IsReply
<1>6. n + 2 + Len(c) <= Len(w)
  BY ONLY Zenon, <1>4 DEF Carries
<1>7. Len(c) \in Nat
  BY ONLY <1>4
<1>8. PICK j \in Nat : j = Len(c)
  BY ONLY Zenon, <1>7
<1>9. j <= k
  BY ONLY <1>5, <1>6, <1>8, n \in Nat, k \in Nat, j \in Nat
<1>10. CASE u
  <2>1. n + 2 + j = n + 2 + k
    BY ONLY Zenon, <1>4, <1>5, <1>8, <1>10
  <2>2. j = k
    BY ONLY <2>1, n \in Nat, k \in Nat, j \in Nat
  <2>3. c = x.payload
    BY ONLY Zenon, <1>2, <1>3, <1>4, <1>5, <1>8, <2>2, CarriesSame
  <2> QED
    BY Zenon, <1>10, <2>3
<1>11. CASE ~u
  BY Zenon, <1>2, <1>8, <1>9, <1>11
<1> QED
  BY Zenon, <1>10, <1>11

\* The invariant implies the property.
LEMMA SocksImplies == ASSUME SocksInv PROVE DialResult
<1>1. proxy \in Proxies /\ linked \in BOOLEAN /\ closed = (dpc = "error") /\ Stage
  BY Zenon DEF SocksInv
<1>2. ASSUME dpc = "done"
      PROVE  /\ Willing /\ ~closed
             /\ asked = target /\ (proxy.method = authUsernamePassword => told = login)
             /\ IF linked THEN toClient = proxy.payload ELSE Len(toClient) <= Len(proxy.payload)
             /\ paddr.port = proxy.port /\ (proxy.atype = addressTypeDomain => paddr.host = proxy.addr)
  <2>1. Connected
    BY Zenon, <1>1, <1>2 DEF Stage
  <2>2. /\ Granted /\ Named /\ paddr.port = proxy.port
        /\ Coming(ReplyOf(proxy), PortAt(proxy) + 2, toClient, linked)
    BY Zenon, <2>1 DEF Connected
  <2>3. IF linked THEN toClient = proxy.payload ELSE Len(toClient) <= Len(proxy.payload)
    BY Zenon, <1>1, <2>2, PayloadLeft
  <2>4. authNone # authUsernamePassword
    BY DEF authNone, authUsernamePassword
  <2>5. Willing /\ asked = target /\ (proxy.method = authUsernamePassword => told = login)
    BY Zenon, <2>2, <2>4 DEF Granted, Agreed, Answered, Willing
  <2>6. "done" # "error"
    OBVIOUS
  <2> QED
    BY Zenon, <1>1, <1>2, <2>2, <2>3, <2>5, <2>6 DEF Named
<1>3. ASSUME dpc = "error" PROVE closed /\ (~Willing \/ ~linked)
  BY Zenon, <1>1, <1>3 DEF Stage, Refused
<1>4. ASSUME dpc = "crash" PROVE proxy.atype = addressTypeDomain /\ Len(proxy.addr) > Cap
  BY Zenon, <1>1, <1>4 DEF Stage, Overlong
<1> QED
  BY Zenon, <1>2, <1>3, <1>4 DEF DialResult

\* DialResult for every target, login and proxy, wherever the connection breaks:
\* dial (socks/tcp/dial.go) returns a connection only when the proxy has decoded
\* the target and the login it was given and granted the request, all of its
\* answer and nothing of what follows has been read, and the bound port and domain
\* are the proxy's; if it fails, the connection is closed, and the proxy refused or
\* the connection broke.
THEOREM DialSound == SocksSpec => []DialResult
<1>1. SocksInit => SocksInv
  BY Zenon, SocksInitially
<1>2. SocksInv /\ [SocksNext]_socksVars => SocksInv'
  BY Zenon, SocksStep
<1>3. SocksInv => DialResult
  BY Zenon, SocksImplies
<1> QED
  BY <1>1, <1>2, <1>3, PTL DEF SocksSpec
-----------------------------------------------------------------------------
\* What is encoded is decoded.
LEMMA Uint32Put ==
    ASSUME NEW n, IsUint32(n)
    PROVE  PutUint32(n) \in Seq(Nat) /\ Len(PutUint32(n)) = 4 /\ Uint32(PutUint32(n)) = n
<1> DEFINE a == (n \div (256 * 256 * 256)) % 256
           b == (n \div (256 * 256)) % 256
           c == (n \div 256) % 256
           d == n % 256
<1>1. n \in Nat /\ n \div (256 * 256 * 256) < 256
  BY DEF IsUint32
<1>2. a \in Nat /\ b \in Nat /\ c \in Nat /\ d \in Nat /\ 256 * 256 * 256 * a + 256 * 256 * b + 256 * c + d = n
  BY <1>1
<1> HIDE DEF a, b, c, d
<1>3. PutUint32(n) = <<a, b, c, d>>
  BY Zenon DEF PutUint32, a, b, c, d
<1>4. <<a, b, c, d>> \in Seq(Nat) /\ Len(<<a, b, c, d>>) = 4 /\ Uint32(<<a, b, c, d>>) = 256 * 256 * 256 * a + 256 * 256 * b + 256 * c + d
  BY <1>2 DEF Uint32
<1>5. PICK x : x = <<a, b, c, d>> /\ PutUint32(n) = x
  BY Zenon, <1>3
<1>6. x \in Seq(Nat) /\ Len(x) = 4 /\ Uint32(x) = n
  BY <1>2, <1>4, <1>5
<1> QED
  BY Zenon, <1>5, <1>6

\* What marshalling makes of a message.
LEMMA MarshalOf ==
    ASSUME NEW m \in FrameMessages
    PROVE  /\ Marshal(m) \in Seq(Nat) /\ Len(Marshal(m)) = m.len /\ Marshal(m) # <<>> /\ Marshal(m)[1] = 10 * m.id + 1
           /\ m.len \in Nat /\ m.len > 0 /\ m.id \in Nat
<1>1. m.id \in Nat /\ m.len > 0 /\ m.len \in Nat
  BY FramingAssumption DEF IsUint32
<1> QED
  BY <1>1 DEF Marshal

\* The first byte of a marshalled message tells which message it is.
LEMMA FirstByte ==
    ASSUME NEW m \in FrameMessages, NEW n \in FrameMessages, Marshal(m)[1] = Marshal(n)[1]
    PROVE  m = n
<1>1. 10 * m.id + 1 = 10 * n.id + 1 /\ m.id \in Nat /\ n.id \in Nat
  BY Zenon, MarshalOf
<1>2. m.id = n.id
  <2>1. PICK a \in Nat, b \in Nat : a = m.id /\ b = n.id
    BY Zenon, <1>1
  <2>2. 10 * a + 1 = 10 * b + 1
    BY Zenon, <1>1, <2>1
  <2>3. a = b
    BY ONLY <2>2
  <2> QED
    BY Zenon, <2>1, <2>3
<1> QED
  BY Zenon, <1>2, FramingAssumption

\* Unmarshalling inverts marshalling.
LEMMA Unmarshalled == ASSUME NEW m \in FrameMessages PROVE Unmarshal(Marshal(m)) = {m}
BY Zenon, FirstByte DEF Unmarshal

\* Uncompressing inverts compressing.
LEMMA PackedOf ==
    ASSUME NEW m \in FrameMessages, NEW algo \in Nat
    PROVE  /\ Packed(algo, Marshal(m)) \in Seq(Nat) /\ Len(Packed(algo, Marshal(m))) = 2
           /\ Unpacked(algo, Packed(algo, Marshal(m))) = Marshal(m)
<1>1. Marshal(m)[1] \in Nat
  <2>1. Marshal(m)[1] = 10 * m.id + 1 /\ m.id \in Nat
    BY Zenon, MarshalOf
  <2> QED
    BY <2>1
<1>2. Packed(algo, Marshal(m)) \in Seq(Nat) /\ Len(Packed(algo, Marshal(m))) = 2
  BY <1>1 DEF Packed
<1>3. ASSUME NEW n \in FrameMessages, Packed(algo, Marshal(n)) = Packed(algo, Marshal(m)) PROVE n = m
  <2>1. Marshal(n)[1] = Marshal(m)[1]
    BY <1>3 DEF Packed
  <2> QED
    BY Zenon, <2>1, FirstByte
<1>4. {n \in FrameMessages : Packed(algo, Marshal(n)) = Packed(algo, Marshal(m))} = {m}
  BY Zenon, <1>3
<1>5. (CHOOSE n \in {m} : TRUE) = m /\ {m} # {}
  BY Zenon
<1>6. Unpacked(algo, Packed(algo, Marshal(m))) = Marshal(m)
  BY Zenon, <1>4, <1>5 DEF Unpacked
<1> QED
  BY Zenon, <1>2, <1>6

\* The body of a frame and what the receiver makes of it.
Body(m, s) == IF Compresses(s, m.len) THEN Compress(s, Marshal(m)) ELSE Marshal(m)

\* The receiver decodes the body of a frame to the message that was sent.
LEMMA Decoded ==
    ASSUME NEW m \in FrameMessages, NEW s \in Settings, Body(m, s) # <<>>,
           NEW info, info = GetCompressInfo(GenCompressInfo(s, m.len))
    PROVE  /\ Body(m, s) \in Seq(Nat) /\ Len(Body(m, s)) > 0 /\ IsUint32(Len(Body(m, s)))
           /\ ~NilReader(info, Body(m, s))
           /\ (IF info.enable THEN Uncompress(info.algo, Body(m, s)) ELSE Body(m, s)) = Marshal(m)
<1>1. s.algo \in Nat /\ m.len \in Nat /\ m.len > 0 /\ IsUint32(m.len)
  <2>1. IsUint32(m.len) /\ s.algo \in Nat /\ m.len > 0
    BY Zenon, FramingAssumption
  <2>2. m.len \in Nat
    BY <2>1 DEF IsUint32
  <2> QED
    BY Zenon, <2>1, <2>2
<1>2. info.algo = s.algo /\ (info.enable <=> Compresses(s, m.len))
  <2>1. PICK x, one : x = GenCompressInfo(s, m.len) /\ one = IF Compresses(s, m.len) THEN 1 ELSE 0
    BY Zenon
  <2>2. x = <<one, s.algo>>
    BY Zenon, <2>1 DEF GenCompressInfo
  <2>3. x[1] = one /\ x[2] = s.algo /\ 1 # 0
    BY ONLY <2>2
  <2>4. info = [algo |-> x[2], enable |-> x[1] = 1]
    BY Zenon, <2>1 DEF GetCompressInfo
  <2>5. info.algo = x[2] /\ info.enable = (x[1] = 1)
    BY ONLY Zenon, <2>4
  <2>6. (x[1] = 1) <=> Compresses(s, m.len)
    BY Zenon, <2>1, <2>3
  <2> QED
    BY Zenon, <2>3, <2>5, <2>6
<1>3. Marshal(m) \in Seq(Nat) /\ Len(Marshal(m)) = m.len /\ Marshal(m) # <<>>
  BY Zenon, MarshalOf
<1>4. IsUint32(2) /\ 2 > 0
  BY DEF IsUint32
<1>5. CASE ~Compresses(s, m.len)
  BY Zenon, <1>1, <1>2, <1>3, <1>5 DEF Body, NilReader
<1>6. CASE Compresses(s, m.len)
  <2>1. Body(m, s) = Compress(s, Marshal(m)) /\ info.enable
    BY Zenon, <1>2, <1>6 DEF Body
  <2>2. CASE s.algo \in {BZIP2, NONE}
    <3>1. s.algo \notin {GZIP, ZLIB, LZW}
      BY <2>2 DEF BZIP2, NONE, GZIP, ZLIB, LZW
    <3>2. Compress(s, Marshal(m)) = Marshal(m)
      BY Zenon, <2>2, <3>1 DEF Compress, doBzip2Compress
    <3>3. Uncompress(info.algo, Marshal(m)) = Marshal(m)
      BY Zenon, <1>2, <2>2, <3>1 DEF Uncompress, doBzip2Uncompress
    <3> QED
      BY Zenon, <1>1, <1>2, <1>3, <2>1, <3>1, <3>2, <3>3 DEF NilReader
  <2>3. CASE s.algo \in {GZIP, ZLIB, LZW}
    <3>0. /\ s.algo \notin {BZIP2, NONE} /\ GZIP # ZLIB /\ GZIP # LZW /\ ZLIB # LZW
      BY <2>3 DEF BZIP2, NONE, GZIP, ZLIB, LZW
    <3>1. Compress(s, Marshal(m)) = Packed(s.algo, Marshal(m))
      BY Zenon, <2>3, <3>0 DEF Compress, doGzipCompress, doZlibCompress, doLzwCompress
    <3>2. Uncompress(info.algo, Packed(s.algo, Marshal(m))) = Unpacked(s.algo, Packed(s.algo, Marshal(m)))
      BY Zenon, <1>2, <2>3, <3>0 DEF Uncompress, doGzipUncompress, doZlibUnCompress, doLzwUncompress
    <3>3. /\ Packed(s.algo, Marshal(m)) \in Seq(Nat) /\ Len(Packed(s.algo, Marshal(m))) = 2
          /\ Unpacked(s.algo, Packed(s.algo, Marshal(m))) = Marshal(m)
      BY Zenon, <1>1, PackedOf
    <3> QED
      BY Zenon, <1>2, <1>3, <1>4, <2>1, <3>1, <3>2, <3>3 DEF NilReader
  <2>4. CASE s.algo \notin {BZIP2, NONE, GZIP, ZLIB, LZW}
    <3>1. Compress(s, Marshal(m)) = <<>>
      BY Zenon, <2>4 DEF Compress
    <3> QED
      BY Zenon, <2>1, <3>1
  <2> QED
    BY Zenon, <2>2, <2>3, <2>4
<1> QED
  BY Zenon, <1>5, <1>6

\* The compression information has two bytes.
LEMMA InfoLong ==
    ASSUME NEW size, NEW s \in Settings
    PROVE  GenCompressInfo(s, size) \in Seq(Nat) /\ Len(GenCompressInfo(s, size)) = 2
<1>1. s.algo \in Nat
  BY Zenon, FramingAssumption
<1> QED
  BY <1>1 DEF GenCompressInfo

\* Four parts, as a frame has them, one after the other.
LEMMA FourLong ==
    ASSUME NEW a \in Seq(Nat), NEW b \in Seq(Nat), NEW c \in Seq(Nat), NEW d \in Seq(Nat),
           Len(a) = 4, Len(b) = 2, Len(c) = 4
    PROVE  a \o b \o c \o d \in Seq(Nat) /\ Len(a \o b \o c \o d) = 4 + 2 + 4 + Len(d)
<1>1. a \o b \in Seq(Nat) /\ Len(a \o b) = Len(a) + Len(b)
  BY Zenon, ConcatLen
<1>2. PICK x \in Seq(Nat) : x = a \o b /\ Len(x) = 4 + 2
  BY Zenon, <1>1
<1>3. x \o c \in Seq(Nat) /\ Len(x \o c) = Len(x) + Len(c)
  BY ONLY Zenon, x \in Seq(Nat), c \in Seq(Nat), ConcatLen
<1>4. PICK y \in Seq(Nat) : y = x \o c /\ Len(y) = 4 + 2 + 4
  BY Zenon, <1>2, <1>3
<1>5. y \o d \in Seq(Nat) /\ Len(y \o d) = Len(y) + Len(d)
  BY ONLY Zenon, y \in Seq(Nat), d \in Seq(Nat), ConcatLen
<1> QED
  BY Zenon, <1>2, <1>4, <1>5

\* Four sequences in a row, each at its place.
LEMMA FourCarried ==
    ASSUME NEW whole \in Seq(Nat), NEW p \in Nat,
           NEW a \in Seq(Nat), NEW b \in Seq(Nat), NEW c \in Seq(Nat), NEW d \in Seq(Nat),
           Len(a) = 4, Len(b) = 2, Len(c) = 4, Carries(whole, p, a \o b \o c \o d)
    PROVE  Carries(whole, p, a) /\ Carries(whole, p + 4, b) /\ Carries(whole, p + 6, c) /\ Carries(whole, p + 10, d)
<1>0. 4 + 2 = 6 /\ 4 + 2 + 4 = 10
  OBVIOUS
<1>1. a \o b \in Seq(Nat) /\ Len(a \o b) = Len(a) + Len(b)
  BY Zenon, ConcatLen
<1>2. PICK x \in Seq(Nat) : x = a \o b /\ Len(x) = 4 + 2
  BY Zenon, <1>1
<1>3. x \o c \in Seq(Nat) /\ Len(x \o c) = Len(x) + Len(c)
  BY ONLY Zenon, x \in Seq(Nat), c \in Seq(Nat), ConcatLen
<1>4. PICK y \in Seq(Nat) : y = x \o c /\ Len(y) = 4 + 2 + 4
  BY Zenon, <1>2, <1>3
<1>5. Carries(whole, p, y \o d)
  BY Zenon, <1>2, <1>4
<1>6. Carries(whole, p, y) /\ Carries(whole, p + Len(y), d)
  BY ONLY Zenon, <1>5, whole \in Seq(Nat), p \in Nat, y \in Seq(Nat), d \in Seq(Nat), CarriesParts
<1>7. Carries(whole, p, x) /\ Carries(whole, p + Len(x), c)
  BY ONLY Zenon, <1>4, <1>6, whole \in Seq(Nat), p \in Nat, x \in Seq(Nat), c \in Seq(Nat), CarriesParts
<1>8. Carries(whole, p, a) /\ Carries(whole, p + Len(a), b)
  BY ONLY Zenon, <1>2, <1>7, whole \in Seq(Nat), p \in Nat, a \in Seq(Nat), b \in Seq(Nat), CarriesParts
<1> QED
  BY Zenon, <1>0, <1>2, <1>4, <1>6, <1>7, <1>8

\* The four parts of a frame.
LEMMA FrameParts ==
    ASSUME NEW m \in FrameMessages, NEW s \in Settings, Frame(m, s) # <<>>, IsUint32(remoteNet)
    PROVE  /\ Body(m, s) # <<>> /\ Body(m, s) \in Seq(Nat)
           /\ Frame(m, s) = PutUint32(remoteNet) \o GenCompressInfo(s, m.len) \o PutUint32(Len(Body(m, s))) \o Body(m, s)
           /\ GenCompressInfo(s, m.len) \in Seq(Nat) /\ Len(GenCompressInfo(s, m.len)) = 2
           /\ Frame(m, s) \in Seq(Nat) /\ Len(Frame(m, s)) = 10 + Len(Body(m, s))
<1>1. /\ Body(m, s) # <<>>
      /\ Frame(m, s) = PutUint32(remoteNet) \o GenCompressInfo(s, m.len) \o PutUint32(Len(Body(m, s))) \o Body(m, s)
  BY Zenon DEF Frame, Body
<1>2. Body(m, s) \in Seq(Nat) /\ IsUint32(Len(Body(m, s)))
  BY Zenon, <1>1, Decoded
<1>3. GenCompressInfo(s, m.len) \in Seq(Nat) /\ Len(GenCompressInfo(s, m.len)) = 2
  BY Zenon, InfoLong
<1>4. /\ PutUint32(remoteNet) \in Seq(Nat) /\ Len(PutUint32(remoteNet)) = 4
      /\ PutUint32(Len(Body(m, s))) \in Seq(Nat) /\ Len(PutUint32(Len(Body(m, s)))) = 4
  BY Zenon, <1>2, Uint32Put
<1>6. Frame(m, s) \in Seq(Nat) /\ Len(Frame(m, s)) = 4 + 2 + 4 + Len(Body(m, s))
  <2>1. PICK a \in Seq(Nat), b \in Seq(Nat), c \in Seq(Nat), d \in Seq(Nat) :
           a = PutUint32(remoteNet) /\ b = GenCompressInfo(s, m.len) /\ c = PutUint32(Len(Body(m, s))) /\ d = Body(m, s)
    BY Zenon, <1>2, <1>3, <1>4
  <2>2. Len(a) = 4 /\ Len(b) = 2 /\ Len(c) = 4
    BY Zenon, <1>3, <1>4, <2>1
  <2>3. Frame(m, s) = a \o b \o c \o d
    BY Zenon, <1>1, <2>1
  <2>4. a \o b \o c \o d \in Seq(Nat) /\ Len(a \o b \o c \o d) = 4 + 2 + 4 + Len(d)
    BY ONLY ZenonT(30), <2>2, FourLong, a \in Seq(Nat), b \in Seq(Nat), c \in Seq(Nat), d \in Seq(Nat)
  <2> QED
    BY Zenon, <2>1, <2>3, <2>4
<1>7. Len(Body(m, s)) \in Nat
  BY <1>2
<1>8. 4 + 2 + 4 + Len(Body(m, s)) = 10 + Len(Body(m, s))
  BY <1>7
<1> QED
  BY Zenon, <1>1, <1>2, <1>3, <1>6, <1>8
-----------------------------------------------------------------------------
(* The invariant.                                                           *)

\* The frame of m under some setting stands in whole, from p to q.
Framed(net, whole, p, q, m) ==
    \E s \in Settings :
        /\ Body(m, s) # <<>>
        /\ Carries(whole, p, PutUint32(net))
        /\ Carries(whole, p + 4, GenCompressInfo(s, m.len))
        /\ Carries(whole, p + 6, PutUint32(Len(Body(m, s))))
        /\ Carries(whole, p + 10, Body(m, s))
        /\ q = p + 10 + Len(Body(m, s))

\* All that was ever written, and where the frame of each message ends.
Written(net, msgs, whole, ends) ==
    /\ whole \in Seq(Nat)
    /\ ends \in [0..Len(msgs) -> Nat]
    /\ ends[0] = 0 /\ ends[Len(msgs)] = Len(whole)
    /\ \A k \in 1..Len(msgs) : Framed(net, whole, ends[k - 1], ends[k], msgs[k])

\* Where in the frame the field stands.
Offset(f) == CASE f = "netID" -> 0 [] f = "compress" -> 4 [] f = "size" -> 6 [] OTHER -> 10

\* The fields of the frame at p that were read before this one.
Before(whole, p, f, h) ==
    /\ f \in {"size", "body"} => h[1] \in Seq(Nat) /\ Len(h[1]) = 2 /\ Carries(whole, p + 4, h[1])
    /\ f = "size" => h = <<h[1]>>
    /\ f = "body" => h[2] \in Seq(Nat) /\ Len(h[2]) = 4 /\ Carries(whole, p + 6, h[2])

\* The receiver is in field f of the frame at p: what it has of the field, b, and
\* what is on its way, c, are the bytes that follow.
Position(whole, p, f, b, c, u, h) ==
    /\ p \in Nat
    /\ b \in Seq(Nat) /\ c \in Seq(Nat)
    /\ f \in {"netID", "compress", "size", "body"}
    /\ Carries(whole, p + Offset(f), b)
    /\ Carries(whole, p + Offset(f) + Len(b), c)
    /\ u => p + Offset(f) + Len(b) + Len(c) = Len(whole)
    /\ Before(whole, p, f, h)

Prefix(s, t) == Len(s) <= Len(t) /\ \A i \in 1..Len(s) : s[i] = t[i]

\* The stream: whole and ends are all that was written on it.
StreamAt(whole, ends) ==
    /\ Written(remoteNet, sent, whole, ends)
    /\ Position(whole, ends[Len(received)], field, buffer, channel, up, header)

StreamInv ==
    /\ up \in BOOLEAN
    /\ Prefix(received, sent)
    /\ field # "netID" => localNet = remoteNet
    /\ localNet # remoteNet => received = <<>>
    /\ localNet = remoteNet /\ up => status = "open"
    /\ \E whole, ends : StreamAt(whole, ends)

\* Datagrams.
UdpInv ==
    /\ status # "crash"
    /\ \A d \in channel : \E j \in 1..Len(sent) : d = BuildRawContent(sent[j]) /\ d # <<>> /\ Len(d) <= MaxDatagram
    /\ \A i \in 1..Len(received) :
           (\E j \in 1..Len(sent) : received[i] = sent[j]) /\ (received[i].proxy \/ localNet = remoteNet)
    /\ localNet = remoteNet => status = "open"

\* With the types, this is inductive.
FramingInv ==
    /\ via \in {"tcp", "quic", "udp"} /\ IsUint32(remoteNet) /\ IsUint32(localNet)
    /\ sent \in Seq(FrameMessages) /\ received \in Seq(FrameMessages)
    /\ IF via = "udp" THEN UdpInv ELSE StreamInv
-----------------------------------------------------------------------------
\* Whoever reads as many bytes as a field has, at its place, reads the field.
Readable(net, whole, p, q, m) ==
    /\ \A b \in Seq(Nat) : Len(b) = 4 /\ Carries(whole, p, b) => Uint32(b) = net
    /\ \E s \in Settings :
          /\ Body(m, s) # <<>>
          /\ q = p + 10 + Len(Body(m, s))
          /\ \A b \in Seq(Nat) : Len(b) = 2 /\ Carries(whole, p + 4, b) => b = GenCompressInfo(s, m.len)
          /\ \A b \in Seq(Nat) : Len(b) = 4 /\ Carries(whole, p + 6, b) => Uint32(b) = Len(Body(m, s))
          /\ \A b \in Seq(Nat) : Len(b) = Len(Body(m, s)) /\ Carries(whole, p + 10, b) => b = Body(m, s)

\* What the receiver reads of a frame is what the sender put there.
LEMMA FramedFields ==
    ASSUME NEW net, IsUint32(net), NEW whole \in Seq(Nat), NEW p \in Nat, NEW q, NEW m \in FrameMessages,
           Framed(net, whole, p, q, m)
    PROVE  Readable(net, whole, p, q, m)
<1>1. PICK s \in Settings :
        /\ Body(m, s) # <<>>
        /\ Carries(whole, p, PutUint32(net))
        /\ Carries(whole, p + 4, GenCompressInfo(s, m.len))
        /\ Carries(whole, p + 6, PutUint32(Len(Body(m, s))))
        /\ Carries(whole, p + 10, Body(m, s))
        /\ q = p + 10 + Len(Body(m, s))
  BY Zenon DEF Framed
<1>2. Body(m, s) \in Seq(Nat) /\ IsUint32(Len(Body(m, s)))
  BY Zenon, <1>1, Decoded
<1>3. GenCompressInfo(s, m.len) \in Seq(Nat) /\ Len(GenCompressInfo(s, m.len)) = 2
  BY Zenon, InfoLong
<1>4. ASSUME NEW b \in Seq(Nat), Len(b) = 4, Carries(whole, p, b) PROVE Uint32(b) = net
  <2>1. PutUint32(net) \in Seq(Nat) /\ Len(PutUint32(net)) = 4 /\ Uint32(PutUint32(net)) = net
    BY Zenon, Uint32Put
  <2>2. b = PutUint32(net)
    BY ONLY Zenon, <1>1, <1>4, <2>1, b \in Seq(Nat), CarriesSame
  <2> QED
    BY Zenon, <2>1, <2>2
<1>5. ASSUME NEW b \in Seq(Nat), Len(b) = 4, Carries(whole, p + 6, b) PROVE Uint32(b) = Len(Body(m, s))
  <2>1. /\ PutUint32(Len(Body(m, s))) \in Seq(Nat) /\ Len(PutUint32(Len(Body(m, s)))) = 4
        /\ Uint32(PutUint32(Len(Body(m, s)))) = Len(Body(m, s))
    BY Zenon, <1>2, Uint32Put
  <2>2. b = PutUint32(Len(Body(m, s)))
    BY ONLY Zenon, <1>1, <1>5, <2>1, b \in Seq(Nat), CarriesSame
  <2> QED
    BY Zenon, <2>1, <2>2
<1>6. ASSUME NEW b \in Seq(Nat), Len(b) = 2, Carries(whole, p + 4, b) PROVE b = GenCompressInfo(s, m.len)
  BY ONLY Zenon, <1>1, <1>3, <1>6, b \in Seq(Nat), CarriesSame
<1>7. ASSUME NEW b \in Seq(Nat), Len(b) = Len(Body(m, s)), Carries(whole, p + 10, b) PROVE b = Body(m, s)
  BY ONLY Zenon, <1>1, <1>2, <1>7, b \in Seq(Nat), CarriesSame
<1> QED
  BY Zenon, <1>1, <1>4, <1>5, <1>6, <1>7 DEF Readable

\* Where bytes are left, there is a frame.
LEMMA NextFrame ==
    ASSUME NEW net, NEW msgs \in Seq(FrameMessages), NEW whole, NEW ends, Written(net, msgs, whole, ends),
           NEW r \in 0..Len(msgs), ends[r] # Len(whole)
    PROVE  /\ r + 1 \in 1..Len(msgs) /\ msgs[r + 1] \in FrameMessages
           /\ Framed(net, whole, ends[r], ends[r + 1], msgs[r + 1])
<1>1. r # Len(msgs)
  BY Zenon DEF Written
<1>2. r + 1 \in 1..Len(msgs) /\ r + 1 - 1 = r
  BY <1>1
<1>3. msgs[r + 1] \in FrameMessages
  BY <1>2
<1>4. PICK k \in 1..Len(msgs) : k = r + 1 /\ k - 1 = r
  BY <1>2
<1>5. Framed(net, whole, ends[k - 1], ends[k], msgs[k])
  BY Zenon DEF Written
<1> QED
  BY Zenon, <1>2, <1>3, <1>4, <1>5

\* And where there is a frame, there are bytes left.
LEMMA FrameLong ==
    ASSUME NEW net, NEW msgs \in Seq(FrameMessages), NEW whole, NEW ends, Written(net, msgs, whole, ends),
           NEW r \in 0..Len(msgs), r # Len(msgs)
    PROVE  ends[r] + 10 < Len(whole)
<1>1. r + 1 \in 1..Len(msgs) /\ r + 1 - 1 = r
  OBVIOUS
<1>2. msgs[r + 1] \in FrameMessages
  BY <1>1
<1>3. Framed(net, whole, ends[r], ends[r + 1], msgs[r + 1])
  <2>1. PICK k \in 1..Len(msgs) : k = r + 1 /\ k - 1 = r
    BY <1>1
  <2>2. Framed(net, whole, ends[k - 1], ends[k], msgs[k])
    BY Zenon DEF Written
  <2> QED
    BY Zenon, <2>1, <2>2
<1>4. PICK s \in Settings : Body(msgs[r + 1], s) # <<>> /\ Carries(whole, ends[r] + 10, Body(msgs[r + 1], s))
  BY Zenon, <1>3 DEF Framed
<1>5. PICK b \in Seq(Nat) : b = Body(msgs[r + 1], s) /\ Len(b) > 0
  BY Zenon, <1>2, <1>4, Decoded
<1>6. ends[r] + 10 + Len(b) <= Len(whole)
  BY Zenon, <1>4, <1>5 DEF Carries
<1>7. ends[r] \in Nat /\ Len(whole) \in Nat
  <2>1. whole \in Seq(Nat) /\ ends[r] \in Nat
    BY Zenon DEF Written
  <2> QED
    BY <2>1
<1>8. PICK x \in Nat : x = ends[r]
  BY Zenon, <1>7
<1> QED
  BY SMTT(20), <1>5, <1>6, <1>7, <1>8

\* Bytes that are written later move no frame.
LEMMA FramedKept ==
    ASSUME NEW net, IsUint32(net), NEW whole, NEW w, NEW p \in Nat, NEW q, NEW m \in FrameMessages,
           Framed(net, whole, p, q, m),
           \A k \in Nat, a \in Seq(Nat) : Carries(whole, k, a) => Carries(w, k, a)
    PROVE  Framed(net, w, p, q, m)
<1>1. PICK s \in Settings :
        /\ Body(m, s) # <<>>
        /\ Carries(whole, p, PutUint32(net))
        /\ Carries(whole, p + 4, GenCompressInfo(s, m.len))
        /\ Carries(whole, p + 6, PutUint32(Len(Body(m, s))))
        /\ Carries(whole, p + 10, Body(m, s))
        /\ q = p + 10 + Len(Body(m, s))
  BY Zenon DEF Framed
<1>2. Body(m, s) \in Seq(Nat) /\ IsUint32(Len(Body(m, s)))
  BY Zenon, <1>1, Decoded
<1>3. GenCompressInfo(s, m.len) \in Seq(Nat)
  BY Zenon, InfoLong
<1>4. PutUint32(net) \in Seq(Nat) /\ PutUint32(Len(Body(m, s))) \in Seq(Nat)
  BY Zenon, <1>2, Uint32Put
<1>5. p + 4 \in Nat /\ p + 6 \in Nat /\ p + 10 \in Nat
  OBVIOUS
<1> QED
  BY Zenon, <1>1, <1>2, <1>3, <1>4, <1>5 DEF Framed

IsFrame(frame, net, m, s) ==
    /\ Body(m, s) # <<>> /\ frame \in Seq(Nat) /\ Len(frame) = 10 + Len(Body(m, s))
    /\ frame = PutUint32(net) \o GenCompressInfo(s, m.len) \o PutUint32(Len(Body(m, s))) \o Body(m, s)

\* The bytes w go on with the frame of m.
Extended(net, msgs, m, w, ends) ==
    \E after : /\ Written(net, Append(msgs, m), w, after)
               /\ \A k \in 0..Len(msgs) : after[k] = ends[k]

\* One more frame.
LEMMA WrittenMore ==
    ASSUME NEW net, IsUint32(net), NEW msgs \in Seq(FrameMessages), NEW whole, NEW ends, Written(net, msgs, whole, ends),
           NEW m \in FrameMessages, NEW s \in Settings, NEW frame, IsFrame(frame, net, m, s)
    PROVE  Extended(net, msgs, m, whole \o frame, ends)
<1> DEFINE n == Len(msgs)
           w == whole \o frame
           more == Append(msgs, m)
           after == [k \in 0..Len(more) |-> IF k = n + 1 THEN Len(w) ELSE ends[k]]
<1>0. /\ Body(m, s) # <<>> /\ frame \in Seq(Nat) /\ Len(frame) = 10 + Len(Body(m, s))
      /\ frame = PutUint32(net) \o GenCompressInfo(s, m.len) \o PutUint32(Len(Body(m, s))) \o Body(m, s)
  BY Zenon DEF IsFrame
<1>1. /\ whole \in Seq(Nat) /\ ends \in [0..n -> Nat] /\ ends[0] = 0 /\ ends[n] = Len(whole)
      /\ \A k \in 1..n : Framed(net, whole, ends[k - 1], ends[k], msgs[k])
  BY Zenon DEF Written
<1>2. /\ w \in Seq(Nat) /\ Len(w) = Len(whole) + Len(frame)
      /\ \A p \in Nat, a \in Seq(Nat) : Carries(whole, p, a) => Carries(w, p, a)
      /\ Carries(w, Len(whole), frame)
  BY Zenon, <1>0, <1>1, ConcatLen, CarriesMore
<1>3. n \in Nat /\ more \in Seq(FrameMessages) /\ Len(more) = n + 1 /\ more[n + 1] = m /\ \A k \in 1..n : more[k] = msgs[k]
  OBVIOUS
<1> HIDE DEF n, w, more
<1>4. /\ after[n + 1] = Len(w) /\ after \in [0..n + 1 -> Nat] /\ after[0] = 0
      /\ \A k \in 0..n : after[k] = ends[k]
  <2>1. Len(w) \in Nat
    BY <1>2
  <2>2. \A k \in 0..n : k # n + 1 /\ k \in 0..n + 1
    BY <1>3
  <2>3. n + 1 \in 0..n + 1 /\ 0 \in 0..n /\ (\A k \in 0..n + 1 : k # n + 1 => k \in 0..n)
    BY <1>3
  <2>0. after = [k \in 0..n + 1 |-> IF k = n + 1 THEN Len(w) ELSE ends[k]]
    BY Zenon, <1>3
  <2> HIDE DEF after
  <2>4. \A k \in 0..n + 1 : after[k] = IF k = n + 1 THEN Len(w) ELSE ends[k]
    BY Zenon, <2>0
  <2>5. \A k \in 0..n : after[k] = ends[k]
    BY Zenon, <2>2, <2>4
  <2>6. after[n + 1] = Len(w)
    BY Zenon, <2>3, <2>4
  <2>7. \A k \in 0..n + 1 : (IF k = n + 1 THEN Len(w) ELSE ends[k]) \in Nat
    BY Zenon, <1>1, <2>1, <2>3
  <2>8. after \in [0..n + 1 -> Nat]
    BY Zenon, <2>0, <2>7
  <2> QED
    BY Zenon, <1>1, <2>3, <2>5, <2>6, <2>8
<1> HIDE DEF after
<1>5. ASSUME NEW k \in 1..n PROVE Framed(net, w, after[k - 1], after[k], more[k])
  <2>1. k - 1 \in 0..n /\ k \in 0..n
    BY <1>3
  <2>2. after[k - 1] = ends[k - 1] /\ after[k] = ends[k] /\ more[k] = msgs[k] /\ ends[k - 1] \in Nat
    BY Zenon, <1>1, <1>3, <1>4, <2>1
  <2>3. Framed(net, whole, ends[k - 1], ends[k], msgs[k])
    BY Zenon, <1>1
  <2>4. msgs[k] \in FrameMessages
    BY DEF n
  <2>5. Framed(net, w, ends[k - 1], ends[k], msgs[k])
    BY ONLY Zenon, IsUint32(net), <1>2, <2>2, <2>3, <2>4, FramedKept
  <2> QED
    BY Zenon, <2>2, <2>5
<1>6. Framed(net, w, after[n], after[n + 1], m)
  <2>1. n \in 0..n
    BY <1>3
  <2>2. after[n] = Len(whole) /\ Len(whole) \in Nat
    <3>1. Len(whole) \in Nat
      BY <1>1
    <3> QED
      BY Zenon, <1>1, <1>4, <2>1, <3>1
  <2>3. Body(m, s) \in Seq(Nat) /\ IsUint32(Len(Body(m, s)))
    BY Zenon, <1>0, Decoded
  <2>4. GenCompressInfo(s, m.len) \in Seq(Nat) /\ Len(GenCompressInfo(s, m.len)) = 2
    BY Zenon, InfoLong
  <2>5. /\ PutUint32(net) \in Seq(Nat) /\ Len(PutUint32(net)) = 4
        /\ PutUint32(Len(Body(m, s))) \in Seq(Nat) /\ Len(PutUint32(Len(Body(m, s)))) = 4
    BY Zenon, <2>3, Uint32Put
  <2>6. Carries(w, Len(whole), PutUint32(net) \o GenCompressInfo(s, m.len) \o PutUint32(Len(Body(m, s))) \o Body(m, s))
    BY Zenon, <1>0, <1>2
  <2>7. /\ Carries(w, Len(whole), PutUint32(net)) /\ Carries(w, Len(whole) + 4, GenCompressInfo(s, m.len))
        /\ Carries(w, Len(whole) + 6, PutUint32(Len(Body(m, s)))) /\ Carries(w, Len(whole) + 10, Body(m, s))
    BY ONLY Zenon, <1>2, <2>2, <2>3, <2>4, <2>5, <2>6, FourCarried
  <2>8. Len(w) = Len(whole) + 10 + Len(Body(m, s))
    <3>1. Len(Body(m, s)) \in Nat
      BY Zenon, <2>3 DEF IsUint32
    <3>2. PICK b \in Nat : b = Len(Body(m, s)) /\ Len(w) = Len(whole) + (10 + b)
      BY Zenon, <1>0, <1>2, <3>1
    <3>3. Len(whole) + (10 + b) = Len(whole) + 10 + b
      BY <2>2
    <3> QED
      BY Zenon, <3>2, <3>3
  <2> QED
    BY Zenon, <1>0, <1>4, <2>2, <2>7, <2>8 DEF Framed
<1>7. ASSUME NEW k \in 1..n + 1 PROVE Framed(net, w, after[k - 1], after[k], more[k])
  <2>1. CASE k = n + 1
    <3>1. k - 1 = n
      BY <1>3, <2>1
    <3> QED
      BY Zenon, <1>3, <1>6, <2>1, <3>1
  <2>2. CASE k # n + 1
    <3>1. k \in 1..n
      BY <1>3, <2>2
    <3> QED
      BY Zenon, <1>5, <3>1
  <2> QED
    BY Zenon, <2>1, <2>2
<1>8. Written(net, more, w, after)
  BY Zenon, <1>2, <1>3, <1>4, <1>7 DEF Written
<1> QED
  BY Zenon, <1>4, <1>8 DEF n, w, more, Extended
-----------------------------------------------------------------------------
\* The receiver's position, when bytes are added, lost and read.
LEMMA PositionParts ==
    ASSUME NEW whole \in Seq(Nat), NEW p, NEW f, NEW b, NEW c, NEW u, NEW h, Position(whole, p, f, b, c, u, h)
    PROVE  /\ p \in Nat /\ b \in Seq(Nat) /\ c \in Seq(Nat) /\ p + Offset(f) \in Nat
           /\ Len(b) \in Nat /\ Len(c) \in Nat /\ Len(whole) \in Nat /\ Offset(f) \in Nat
           /\ f \in {"netID", "compress", "size", "body"}
           /\ Carries(whole, p + Offset(f), b) /\ Carries(whole, p + Offset(f) + Len(b), c)
           /\ p + Offset(f) + Len(b) <= Len(whole)
           /\ p + Offset(f) + Len(b) + Len(c) <= Len(whole)
<1>1. /\ p \in Nat /\ b \in Seq(Nat) /\ c \in Seq(Nat) /\ f \in {"netID", "compress", "size", "body"}
      /\ Carries(whole, p + Offset(f), b) /\ Carries(whole, p + Offset(f) + Len(b), c)
  BY Zenon DEF Position
<1>2. Offset(f) \in Nat
  BY DEF Offset
<1>3. PICK o \in Nat : o = Offset(f)
  BY Zenon, <1>2
<1>4. p + o \in Nat
  BY <1>1
<1>5. Len(b) \in Nat /\ Len(c) \in Nat /\ Len(whole) \in Nat
  BY <1>1
<1>6. p + Offset(f) + Len(b) <= Len(whole) /\ p + Offset(f) + Len(b) + Len(c) <= Len(whole)
  BY Zenon, <1>1 DEF Carries
<1> QED
  BY Zenon, <1>1, <1>2, <1>3, <1>4, <1>5, <1>6

\* The reader's position in a stream that grows.
LEMMA PositionMore ==
    ASSUME NEW whole \in Seq(Nat), NEW p, NEW f, NEW b, NEW c, NEW u, NEW h, Position(whole, p, f, b, c, u, h), u,
           NEW frame \in Seq(Nat)
    PROVE  Position(whole \o frame, p, f, b, c \o frame, u, h)
<1>1. /\ p \in Nat /\ b \in Seq(Nat) /\ c \in Seq(Nat) /\ p + Offset(f) \in Nat
      /\ Len(b) \in Nat /\ Len(c) \in Nat /\ Len(whole) \in Nat /\ Offset(f) \in Nat
  BY Zenon, PositionParts
<1>2. PICK w \in Seq(Nat), d \in Seq(Nat) :
        /\ w = whole \o frame /\ d = c \o frame
        /\ Len(w) = Len(whole) + Len(frame) /\ Len(d) = Len(c) + Len(frame)
  <2>1. whole \o frame \in Seq(Nat) /\ Len(whole \o frame) = Len(whole) + Len(frame)
    BY ONLY Zenon, whole \in Seq(Nat), frame \in Seq(Nat), ConcatLen
  <2>2. c \o frame \in Seq(Nat) /\ Len(c \o frame) = Len(c) + Len(frame)
    BY ONLY Zenon, <1>1, frame \in Seq(Nat), ConcatLen
  <2> QED
    BY ONLY Zenon, <2>1, <2>2
<1>3. /\ \A k \in Nat, a \in Seq(Nat) : Carries(whole, k, a) => Carries(w, k, a)
      /\ Carries(w, Len(whole), frame)
  BY Zenon, <1>2, CarriesMore
<1>4. PICK o \in Nat : o = p + Offset(f)
  BY Zenon, <1>1
<1>5. Carries(whole, o, b) /\ Carries(whole, o + Len(b), c) /\ o + Len(b) + Len(c) = Len(whole)
  BY Zenon, <1>4 DEF Position
<1>6. o + Len(b) \in Nat
  BY <1>1
<1>7. Carries(w, o, b) /\ Carries(w, o + Len(b), c)
  BY Zenon, <1>1, <1>3, <1>5, <1>6
<1>8. Carries(w, o + Len(b) + Len(c), frame)
  BY Zenon, <1>3, <1>5
<1>9. Carries(w, o + Len(b), d)
  <2>1. PICK e \in Nat : e = o + Len(b)
    BY Zenon, <1>6
  <2>2. Carries(w, e, c \o frame)
    BY ONLY Zenon, <1>1, <1>7, <1>8, <2>1, w \in Seq(Nat), e \in Nat, frame \in Seq(Nat), CarriesJoin
  <2> QED
    BY Zenon, <1>2, <2>1, <2>2
<1>10. o + Len(b) + Len(d) = Len(w)
  <2>1. Len(frame) \in Nat
    OBVIOUS
  <2>2. o + Len(b) + (Len(c) + Len(frame)) = o + Len(b) + Len(c) + Len(frame)
    <3>1. PICK x \in Nat, y \in Nat, z \in Nat : x = Len(b) /\ y = Len(c) /\ z = Len(frame)
      BY Zenon, <1>1, <2>1
    <3>2. o + x + (y + z) = o + x + y + z
      BY ONLY o \in Nat, x \in Nat, y \in Nat, z \in Nat
    <3> QED
      BY ONLY Zenon, <3>1, <3>2
  <2> QED
    BY ONLY Zenon, <1>2, <1>5, <2>2
<1>11. Before(w, p, f, h)
  <2>1. Before(whole, p, f, h)
    BY Zenon DEF Position
  <2>2. p + 4 \in Nat /\ p + 6 \in Nat
    BY <1>1
  <2> QED
    BY Zenon, <1>3, <2>1, <2>2 DEF Before
<1> QED
  BY Zenon, <1>1, <1>2, <1>4, <1>7, <1>9, <1>10, <1>11 DEF Position

\* The reader's position when the end of the stream is lost.
LEMMA PositionCut ==
    ASSUME NEW whole \in Seq(Nat), NEW p, NEW f, NEW b, NEW c, NEW u, NEW h, Position(whole, p, f, b, c, u, h),
           NEW n \in 0..Len(c)
    PROVE  Position(whole, p, f, b, SubSeq(c, 1, n), FALSE, h)
<1>1. /\ p \in Nat /\ b \in Seq(Nat) /\ c \in Seq(Nat) /\ p + Offset(f) \in Nat
      /\ Len(b) \in Nat /\ Carries(whole, p + Offset(f) + Len(b), c)
  BY Zenon, PositionParts
<1>2. PICK e \in Nat : e = p + Offset(f) + Len(b)
  <2>1. p + Offset(f) + Len(b) \in Nat
    BY <1>1
  <2> QED
    BY Zenon, <2>1
<1>3. Carries(whole, e, SubSeq(c, 1, n))
  BY ONLY Zenon, <1>1, <1>2, whole \in Seq(Nat), e \in Nat, n \in 0..Len(c), CarriesTake
<1>4. SubSeq(c, 1, n) \in Seq(Nat)
  BY ONLY Zenon, <1>1, n \in 0..Len(c), Part
<1> QED
  BY Zenon, <1>2, <1>3, <1>4 DEF Position

\* The reader's position after it has read n bytes more.
LEMMA PositionRead ==
    ASSUME NEW whole \in Seq(Nat), NEW p, NEW f, NEW b, NEW c, NEW u, NEW h, Position(whole, p, f, b, c, u, h),
           NEW n \in 0..Len(c)
    PROVE  Position(whole, p, f, b \o SubSeq(c, 1, n), SubSeq(c, n + 1, Len(c)), u, h)
<1>1. /\ p \in Nat /\ b \in Seq(Nat) /\ c \in Seq(Nat) /\ p + Offset(f) \in Nat
      /\ Len(b) \in Nat /\ Len(c) \in Nat /\ Carries(whole, p + Offset(f), b)
      /\ Carries(whole, p + Offset(f) + Len(b), c)
  BY Zenon, PositionParts
<1>2. PICK o \in Nat : o = p + Offset(f)
  BY Zenon, <1>1
<1>3. PICK e \in Nat : e = o + Len(b)
  <2>1. o + Len(b) \in Nat
    BY <1>1
  <2> QED
    BY Zenon, <2>1
<1>4. Carries(whole, e, SubSeq(c, 1, n)) /\ Carries(whole, e + n, SubSeq(c, n + 1, Len(c)))
  <2>1. Carries(whole, e, c)
    BY Zenon, <1>1, <1>2, <1>3
  <2> QED
    BY ONLY Zenon, <1>1, <2>1, whole \in Seq(Nat), e \in Nat, n \in 0..Len(c), CarriesTake
<1>5. PICK x \in Seq(Nat), y \in Seq(Nat) :
        x = SubSeq(c, 1, n) /\ y = SubSeq(c, n + 1, Len(c)) /\ Len(x) = n /\ Len(y) = Len(c) - n
  <2>0. c \in Seq(Nat)
    BY Zenon, <1>1
  <2>1. SubSeq(c, 1, n) \in Seq(Nat) /\ Len(SubSeq(c, 1, n)) = n
    BY ONLY ZenonT(30), <2>0, n \in 0..Len(c), Part
  <2>2. SubSeq(c, n + 1, Len(c)) \in Seq(Nat) /\ Len(SubSeq(c, n + 1, Len(c))) = Len(c) - n
    BY ONLY Zenon, <2>0, n \in 0..Len(c), Part
  <2> QED
    BY ONLY Zenon, <2>1, <2>2
<1>6. PICK z \in Seq(Nat) : z = b \o x /\ Len(z) = Len(b) + Len(x)
  BY ONLY Zenon, <1>1, x \in Seq(Nat), ConcatLen
<1>7. Carries(whole, o, z)
  <2>1. Carries(whole, o, b) /\ Carries(whole, o + Len(b), x)
    BY Zenon, <1>1, <1>2, <1>3, <1>4, <1>5
  <2>2. Carries(whole, o, b \o x)
    BY ONLY Zenon, <1>1, <2>1, whole \in Seq(Nat), o \in Nat, x \in Seq(Nat), CarriesJoin
  <2> QED
    BY Zenon, <1>6, <2>2
<1>8. o + Len(z) = e + n /\ o + Len(z) + Len(y) = o + Len(b) + Len(c)
  <2>1. o + (Len(b) + n) = o + Len(b) + n /\ o + (Len(b) + n) + (Len(c) - n) = o + Len(b) + Len(c)
    <3>1. PICK i \in Nat, j \in Nat : i = Len(b) /\ j = Len(c) /\ n \in 0..j
      BY Zenon, <1>1
    <3>2. o + (i + n) = o + i + n /\ o + (i + n) + (j - n) = o + i + j
      BY ONLY <3>1, o \in Nat, i \in Nat, j \in Nat
    <3> QED
      BY ONLY Zenon, <3>1, <3>2
  <2> QED
    BY ONLY Zenon, <1>3, <1>5, <1>6, <2>1
<1>9. Carries(whole, o + Len(z), y)
  BY Zenon, <1>4, <1>5, <1>8
<1>10. u => o + Len(z) + Len(y) = Len(whole)
  BY Zenon, <1>2, <1>8 DEF Position
<1>11. f \in {"netID", "compress", "size", "body"} /\ Before(whole, p, f, h)
  BY Zenon DEF Position
<1>12. Position(whole, p, f, z, y, u, h)
  BY Zenon, <1>1, <1>2, <1>7, <1>9, <1>10, <1>11 DEF Position
<1> QED
  BY Zenon, <1>5, <1>6, <1>12

\* The reader's position at the beginning of a field.
LEMMA PositionNext ==
    ASSUME NEW whole \in Seq(Nat), NEW p, NEW f, NEW b, NEW c, NEW u, NEW h, Position(whole, p, f, b, c, u, h),
           NEW q \in Nat, NEW g \in {"netID", "compress", "size", "body"}, NEW k,
           q + Offset(g) = p + Offset(f) + Len(b), Before(whole, q, g, k)
    PROVE  Position(whole, q, g, <<>>, c, u, k)
<1>1. /\ p + Offset(f) \in Nat /\ c \in Seq(Nat) /\ Len(b) \in Nat /\ Len(c) \in Nat /\ Len(whole) \in Nat
      /\ Carries(whole, p + Offset(f) + Len(b), c) /\ p + Offset(f) + Len(b) <= Len(whole)
  BY Zenon, PositionParts
<1>2. PICK e \in Nat : e = p + Offset(f) + Len(b)
  <2>1. p + Offset(f) + Len(b) \in Nat
    BY <1>1
  <2> QED
    BY Zenon, <2>1
<1>3. e + 0 = e /\ e <= Len(whole)
  <2>1. e + 0 = e
    OBVIOUS
  <2> QED
    BY Zenon, <1>1, <1>2, <2>1
<1>4. <<>> \in Seq(Nat) /\ Len(<<>>) = 0 /\ 1..0 = {}
  OBVIOUS
<1>5. Carries(whole, e, <<>>)
  BY Zenon, <1>3, <1>4 DEF Carries
<1>6. u => e + Len(c) = Len(whole)
  BY Zenon, <1>2 DEF Position
<1>7. Carries(whole, e + Len(<<>>), c) /\ (u => e + Len(<<>>) + Len(c) = Len(whole))
  BY Zenon, <1>1, <1>2, <1>3, <1>4, <1>6
<1> QED
  BY Zenon, <1>1, <1>2, <1>4, <1>5, <1>7 DEF Position
-----------------------------------------------------------------------------
(* The steps of a stream.                                                   *)

\* The reader's position at the beginning of the connection.
LEMMA Opened ==
    ASSUME FramingInv, via # "udp"
    PROVE  /\ sent \in Seq(FrameMessages) /\ received \in Seq(FrameMessages)
           /\ Len(sent) \in Nat /\ Len(received) \in 0..Len(sent) /\ IsUint32(remoteNet) /\ StreamInv
           /\ \E whole, ends : whole \in Seq(Nat) /\ StreamAt(whole, ends)
<1>1. sent \in Seq(FrameMessages) /\ received \in Seq(FrameMessages) /\ StreamInv /\ IsUint32(remoteNet)
  BY Zenon DEF FramingInv
<1>2. Len(received) <= Len(sent)
  BY Zenon, <1>1 DEF StreamInv, Prefix
<1>3. Len(sent) \in Nat /\ Len(received) \in 0..Len(sent)
  BY <1>1, <1>2
<1>4. \E whole, ends : whole \in Seq(Nat) /\ StreamAt(whole, ends)
  BY Zenon, <1>1 DEF StreamInv, StreamAt, Written
<1> QED
  BY Zenon, <1>1, <1>3, <1>4

\* A frame that is sent follows all that was written.
LEMMA PutFrameInv ==
    ASSUME FramingInv, via # "udp", NEW m \in FrameMessages, NEW s \in Settings, PutFrame(m, s)
    PROVE  FramingInv'
<1>1. /\ sent \in Seq(FrameMessages) /\ received \in Seq(FrameMessages)
      /\ Len(sent) \in Nat /\ Len(received) \in 0..Len(sent) /\ IsUint32(remoteNet) /\ StreamInv
  BY Zenon, Opened
<1>2. PICK whole, ends : whole \in Seq(Nat) /\ StreamAt(whole, ends)
  BY Zenon, Opened
<1>3. /\ via' = via /\ localNet' = localNet /\ remoteNet' = remoteNet /\ received' = received /\ status' = status
      /\ field' = field /\ buffer' = buffer /\ header' = header /\ up
  BY Zenon DEF PutFrame, config, reading
<1>4. /\ Written(remoteNet, sent, whole, ends)
      /\ Position(whole, ends[Len(received)], field, buffer, channel, up, header)
  BY Zenon, <1>2 DEF StreamAt
<1>5. CASE Frame(m, s) = <<>>
  <2>1. up' = FALSE /\ channel' = channel /\ sent' = sent
    BY Zenon, <1>5 DEF PutFrame
  <2>2. Position(whole, ends[Len(received)], field, buffer, channel, FALSE, header)
    BY Zenon, <1>4 DEF Position
  <2>3. StreamAt(whole, ends)'
    BY Zenon, <1>3, <1>4, <2>1, <2>2 DEF StreamAt
  <2>4. StreamInv'
    BY Zenon, <1>1, <1>3, <2>1, <2>3 DEF StreamInv, Prefix
  <2> QED
    BY Zenon, <1>3, <2>1, <2>4 DEF FramingInv
<1>6. CASE Frame(m, s) # <<>>
  <2>1. PICK frame : frame = Frame(m, s)
    BY Zenon
  <2>2. up' = up /\ channel' = channel \o frame /\ sent' = Append(sent, m)
    BY Zenon, <1>6, <2>1 DEF PutFrame
  <2>3. frame \in Seq(Nat) /\ IsFrame(frame, remoteNet, m, s)
    BY Zenon, <1>1, <1>6, <2>1, FrameParts DEF IsFrame
  <2>4. PICK net : net = remoteNet
    BY Zenon
  <2>5. PICK msgs \in Seq(FrameMessages) : msgs = sent
    BY Zenon, <1>1
  <2>6. PICK after : /\ Written(net, Append(msgs, m), whole \o frame, after)
                     /\ \A k \in 0..Len(msgs) : after[k] = ends[k]
    <3>1. Written(net, msgs, whole, ends) /\ IsUint32(net) /\ IsFrame(frame, net, m, s)
      BY Zenon, <1>1, <1>4, <2>3, <2>4, <2>5
    <3>2. Extended(net, msgs, m, whole \o frame, ends)
      BY ONLY Zenon, <3>1, msgs \in Seq(FrameMessages), m \in FrameMessages, s \in Settings, WrittenMore
    <3> QED
      BY ONLY Zenon, <3>2 DEF Extended
  <2>7. Position(whole \o frame, ends[Len(received)], field, buffer, channel \o frame, up, header)
    BY Zenon, <1>2, <1>3, <1>4, <2>3, PositionMore
  <2>8. after[Len(received)] = ends[Len(received)]
    BY Zenon, <1>1, <2>5, <2>6
  <2>9. StreamAt(whole \o frame, after)'
    BY Zenon, <1>3, <2>2, <2>4, <2>5, <2>6, <2>7, <2>8 DEF StreamAt
  <2>10. sent' \in Seq(FrameMessages) /\ Prefix(received, sent')
    <3>1. /\ Append(sent, m) \in Seq(FrameMessages) /\ Len(Append(sent, m)) = Len(sent) + 1
          /\ \A i \in 1..Len(sent) : Append(sent, m)[i] = sent[i]
      BY <1>1
    <3>2. Len(received) <= Len(sent) + 1 /\ \A i \in 1..Len(received) : i \in 1..Len(sent)
      BY <1>1
    <3>3. \A i \in 1..Len(received) : received[i] = sent[i]
      BY Zenon, <1>1 DEF StreamInv, Prefix
    <3> QED
      BY Zenon, <2>2, <3>1, <3>2, <3>3 DEF Prefix
  <2>11. StreamInv'
    BY Zenon, <1>1, <1>3, <2>2, <2>9, <2>10 DEF StreamInv, Prefix
  <2> QED
    BY Zenon, <1>3, <2>10, <2>11 DEF FramingInv
<1> QED
  BY Zenon, <1>5, <1>6

\* A stream that breaks has carried some of what was written.
LEMMA BreakStreamInv ==
    ASSUME FramingInv, via # "udp", BreakStream
    PROVE  FramingInv'
<1>1. StreamInv
  BY Zenon, Opened
<1>2. PICK whole, ends : whole \in Seq(Nat) /\ StreamAt(whole, ends)
  BY Zenon, Opened
<1>3. /\ via' = via /\ localNet' = localNet /\ remoteNet' = remoteNet /\ received' = received /\ status' = status
      /\ field' = field /\ buffer' = buffer /\ header' = header /\ sent' = sent /\ up' = FALSE
  BY Zenon DEF BreakStream, config, reading
<1>4. PICK n \in 0..Len(channel) : channel' = SubSeq(channel, 1, n)
  BY Zenon DEF BreakStream
<1>5. /\ Written(remoteNet, sent, whole, ends)
      /\ Position(whole, ends[Len(received)], field, buffer, channel, up, header)
  BY Zenon, <1>2 DEF StreamAt
<1>6. Position(whole, ends[Len(received)], field, buffer, SubSeq(channel, 1, n), FALSE, header)
  BY Zenon, <1>2, <1>5, PositionCut
<1>7. StreamAt(whole, ends)'
  BY Zenon, <1>3, <1>4, <1>5, <1>6 DEF StreamAt
<1>8. StreamInv'
  BY Zenon, <1>1, <1>3, <1>7 DEF StreamInv, Prefix
<1> QED
  BY Zenon, <1>3, <1>8 DEF FramingInv

\* A read that fails ends the reader and leaves what it has received.
LEMMA ReadErrorInv ==
    ASSUME FramingInv, via # "udp", ReadError
    PROVE  FramingInv'
<1>1. StreamInv
  BY Zenon, Opened
<1>2. PICK whole, ends : whole \in Seq(Nat) /\ StreamAt(whole, ends)
  BY Zenon, Opened
<1>3. /\ via' = via /\ localNet' = localNet /\ remoteNet' = remoteNet /\ received' = received /\ channel' = channel
      /\ field' = field /\ buffer' = buffer /\ header' = header /\ sent' = sent /\ up' = up /\ ~up
  BY Zenon DEF ReadError, config, reading
<1>4. StreamAt(whole, ends)'
  BY Zenon, <1>2, <1>3 DEF StreamAt
<1>5. StreamInv'
  BY Zenon, <1>1, <1>3, <1>4 DEF StreamInv, Prefix
<1> QED
  BY Zenon, <1>3, <1>5 DEF FramingInv

\* However many bytes a read returns, they continue the field.
LEMMA ReadInv ==
    ASSUME FramingInv, via # "udp", NEW n \in Nat, Read(n)
    PROVE  FramingInv'
<1>1. StreamInv
  BY Zenon, Opened
<1>2. PICK whole, ends : whole \in Seq(Nat) /\ StreamAt(whole, ends)
  BY Zenon, Opened
<1>3. /\ via' = via /\ localNet' = localNet /\ remoteNet' = remoteNet /\ received' = received /\ status' = status
      /\ field' = field /\ header' = header /\ sent' = sent /\ up' = up
      /\ buffer' = buffer \o SubSeq(channel, 1, n) /\ channel' = SubSeq(channel, n + 1, Len(channel))
      /\ n <= Len(channel)
  BY Zenon DEF Read, config
<1>4. /\ Written(remoteNet, sent, whole, ends)
      /\ Position(whole, ends[Len(received)], field, buffer, channel, up, header)
  BY Zenon, <1>2 DEF StreamAt
<1>5. Len(channel) \in Nat
  BY Zenon, <1>2, <1>4, PositionParts
<1>6. n \in 0..Len(channel)
  BY <1>3, <1>5
<1>7. Position(whole, ends[Len(received)], field, buffer \o SubSeq(channel, 1, n), SubSeq(channel, n + 1, Len(channel)), up, header)
  BY Zenon, <1>2, <1>4, <1>6, PositionRead
<1>8. StreamAt(whole, ends)'
  BY Zenon, <1>3, <1>4, <1>7 DEF StreamAt
<1>9. StreamInv'
  BY Zenon, <1>1, <1>3, <1>8 DEF StreamInv, Prefix
<1> QED
  BY Zenon, <1>3, <1>9 DEF FramingInv

\* A receiver that has read something is in the frame of the next message.
LEMMA InFrame ==
    ASSUME FramingInv, via # "udp", NEW whole, NEW ends, whole \in Seq(Nat), StreamAt(whole, ends),
           Offset(field) + Len(buffer) > 0
    PROVE  /\ Len(received) + 1 \in 1..Len(sent) /\ sent[Len(received) + 1] \in FrameMessages
           /\ Framed(remoteNet, whole, ends[Len(received)], ends[Len(received) + 1], sent[Len(received) + 1])
<1>1. sent \in Seq(FrameMessages) /\ Len(received) \in 0..Len(sent)
  BY Zenon, Opened
<1>2. PICK p : p = ends[Len(received)]
  BY Zenon
<1>3. Written(remoteNet, sent, whole, ends) /\ Position(whole, p, field, buffer, channel, up, header)
  BY Zenon, <1>2 DEF StreamAt
<1>4. p \in Nat /\ Offset(field) \in Nat /\ Len(buffer) \in Nat /\ Len(whole) \in Nat /\ p + Offset(field) + Len(buffer) <= Len(whole)
  BY Zenon, <1>3, PositionParts
<1>5. p # Len(whole)
  <2>1. PICK o \in Nat, l \in Nat, w \in Nat : o = Offset(field) /\ l = Len(buffer) /\ w = Len(whole)
    BY Zenon, <1>4
  <2>2. o + l > 0 /\ p + o + l <= w
    BY Zenon, <1>4, <2>1
  <2>3. p # w
    BY ONLY <1>4, <2>2, o \in Nat, l \in Nat, w \in Nat
  <2> QED
    BY Zenon, <2>1, <2>3
<1> QED
  BY Zenon, <1>1, <1>2, <1>3, <1>5, NextFrame

\* The receiver gives up a frame of another network.
LEMMA RefuseInv ==
    ASSUME FramingInv, via # "udp", RefuseFrame, localNet # remoteNet, UNCHANGED <<config, sent, channel, up>>
    PROVE  FramingInv'
<1>1. StreamInv
  BY Zenon, Opened
<1>2. PICK whole, ends : whole \in Seq(Nat) /\ StreamAt(whole, ends)
  BY Zenon, Opened
<1>3. /\ via' = via /\ localNet' = localNet /\ remoteNet' = remoteNet /\ received' = received /\ channel' = channel
      /\ field' = field /\ buffer' = buffer /\ header' = header /\ sent' = sent /\ up' = up
  BY Zenon DEF RefuseFrame, config, reading
<1>4. StreamAt(whole, ends)'
  BY Zenon, <1>2, <1>3 DEF StreamAt
<1>5. StreamInv'
  BY Zenon, <1>1, <1>3, <1>4 DEF StreamInv, Prefix
<1> QED
  BY Zenon, <1>3, <1>5 DEF FramingInv

\* The receiver goes on to the next field of the frame.
LEMMA NextField ==
    ASSUME FramingInv, via # "udp", NEW whole, NEW ends, whole \in Seq(Nat), StreamAt(whole, ends),
           NEW g \in {"netID", "compress", "size", "body"}, Field(g), localNet = remoteNet,
           Offset(g) = Offset(field) + Len(buffer), Before(whole, ends[Len(received)], g, header'),
           UNCHANGED <<config, sent, channel, up, received, status>>
    PROVE  FramingInv'
<1>1. StreamInv
  BY Zenon, Opened
<1>2. /\ via' = via /\ localNet' = localNet /\ remoteNet' = remoteNet /\ received' = received /\ channel' = channel
      /\ field' = g /\ buffer' = <<>> /\ sent' = sent /\ up' = up /\ status' = status
  BY Zenon DEF Field, config
<1>3. PICK p, k : p = ends[Len(received)] /\ k = header'
  BY Zenon
<1>4. Written(remoteNet, sent, whole, ends) /\ Position(whole, p, field, buffer, channel, up, header)
  BY Zenon, <1>3 DEF StreamAt
<1>5. p \in Nat /\ Offset(field) \in Nat /\ Len(buffer) \in Nat
  BY Zenon, <1>4, PositionParts
<1>6. p + Offset(g) = p + Offset(field) + Len(buffer)
  <2>1. PICK o \in Nat, l \in Nat : o = Offset(field) /\ l = Len(buffer)
    BY Zenon, <1>5
  <2>2. p + (o + l) = p + o + l
    BY ONLY <1>5, o \in Nat, l \in Nat
  <2> QED
    BY Zenon, <2>1, <2>2
<1>7. Position(whole, p, g, <<>>, channel, up, k)
  BY Zenon, <1>3, <1>4, <1>5, <1>6, PositionNext
<1>8. StreamAt(whole, ends)'
  BY Zenon, <1>2, <1>3, <1>4, <1>7 DEF StreamAt
<1>9. StreamInv'
  <2>1. localNet' = remoteNet'
    BY Zenon, <1>2
  <2>0. up \in BOOLEAN /\ Prefix(received, sent) /\ (up => status = "open")
    BY Zenon, <1>1 DEF StreamInv
  <2>2. up' \in BOOLEAN /\ Prefix(received', sent') /\ (up' => status' = "open")
    BY ONLY Zenon, <1>2, <2>0
  <2> QED
    BY Zenon, <1>8, <2>1, <2>2 DEF StreamInv
<1> QED
  BY Zenon, <1>2, <1>9 DEF FramingInv

\* The receiver has the message, and goes on to the next frame.
LEMMA NextMessage ==
    ASSUME FramingInv, via # "udp", NEW whole, NEW ends, whole \in Seq(Nat), StreamAt(whole, ends),
           Field("netID"), localNet = remoteNet,
           Len(received) + 1 \in 1..Len(sent), ends[Len(received) + 1] = ends[Len(received)] + Offset(field) + Len(buffer),
           received' = Append(received, sent[Len(received) + 1]),
           UNCHANGED <<config, sent, channel, up, status>>
    PROVE  FramingInv'
<1>1. /\ sent \in Seq(FrameMessages) /\ received \in Seq(FrameMessages)
      /\ Len(sent) \in Nat /\ Len(received) \in 0..Len(sent) /\ StreamInv
  BY Zenon, Opened
<1>2. /\ via' = via /\ localNet' = localNet /\ remoteNet' = remoteNet /\ channel' = channel
      /\ field' = "netID" /\ buffer' = <<>> /\ sent' = sent /\ up' = up /\ status' = status
  BY Zenon DEF Field, config
<1>3. PICK p, q, k, r : p = ends[Len(received)] /\ k = header' /\ r = Len(received) + 1 /\ q = ends[r]
  BY Zenon
<1>4. Written(remoteNet, sent, whole, ends) /\ Position(whole, p, field, buffer, channel, up, header)
  BY Zenon, <1>3 DEF StreamAt
<1>5. received' \in Seq(FrameMessages) /\ Len(received') = r /\ Prefix(received', sent')
  <2>1. sent[r] \in FrameMessages
    BY <1>1, <1>3
  <2>2. /\ Append(received, sent[r]) \in Seq(FrameMessages) /\ Len(Append(received, sent[r])) = r
        /\ Append(received, sent[r])[r] = sent[r]
        /\ \A i \in 1..Len(received) : Append(received, sent[r])[i] = received[i]
    BY <1>1, <1>3, <2>1
  <2>3. \A i \in 1..Len(received) : received[i] = sent[i]
    BY Zenon, <1>1 DEF StreamInv, Prefix
  <2>4. r <= Len(sent) /\ \A i \in 1..r : i = r \/ i \in 1..Len(received)
    BY <1>1, <1>3
  <2>5. \A i \in 1..r : Append(received, sent[r])[i] = sent[i]
    BY Zenon, <2>2, <2>3, <2>4
  <2> QED
    BY Zenon, <1>2, <1>3, <2>2, <2>4, <2>5 DEF Prefix
<1>6. q \in Nat /\ q + 0 = q
  <2>1. r \in 0..Len(sent)
    BY <1>1, <1>3
  <2>2. q \in Nat
    BY Zenon, <1>3, <1>4, <2>1 DEF Written
  <2> QED
    BY <2>2
<1>7. Offset("netID") = 0
  BY DEF Offset
<1>8. Before(whole, q, "netID", k)
  BY DEF Before
<1>9. q + Offset("netID") = p + Offset(field) + Len(buffer)
  BY Zenon, <1>3, <1>6, <1>7
<1>10. Position(whole, q, "netID", <<>>, channel, up, k)
  BY Zenon, <1>4, <1>6, <1>8, <1>9, PositionNext
<1>11. StreamAt(whole, ends)'
  BY Zenon, <1>2, <1>3, <1>4, <1>5, <1>10 DEF StreamAt
<1>12. StreamInv'
  <2>1. localNet' = remoteNet'
    BY Zenon, <1>2
  <2>0. up \in BOOLEAN /\ (up => status = "open")
    BY Zenon, <1>1 DEF StreamInv
  <2>2. up' \in BOOLEAN /\ (up' => status' = "open")
    BY ONLY Zenon, <1>2, <2>0
  <2> QED
    BY Zenon, <1>5, <1>11, <2>1, <2>2 DEF StreamInv
<1> QED
  BY Zenon, <1>2, <1>5, <1>12 DEF FramingInv

\* A field that is complete is the field of the frame: the receiver refuses none
\* of its own network, and no body is a surprise to the decompressor.
LEMMA FieldReadInv ==
    ASSUME FramingInv, via # "udp", FieldRead
    PROVE  FramingInv'
<1>1. /\ sent \in Seq(FrameMessages) /\ received \in Seq(FrameMessages)
      /\ Len(sent) \in Nat /\ Len(received) \in 0..Len(sent) /\ IsUint32(remoteNet) /\ StreamInv
  BY Zenon, Opened
<1>2. PICK whole, ends : whole \in Seq(Nat) /\ StreamAt(whole, ends)
  BY Zenon, Opened
<1>3. Len(buffer) = Wanted /\ UNCHANGED <<config, sent, channel, up>>
  BY Zenon DEF FieldRead
<1>4. PICK p, q, m, r : p = ends[Len(received)] /\ r = Len(received) + 1 /\ q = ends[r] /\ m = sent[r]
  BY Zenon
<1>5. Written(remoteNet, sent, whole, ends) /\ Position(whole, p, field, buffer, channel, up, header)
  BY Zenon, <1>2, <1>4 DEF StreamAt
<1>6. /\ p \in Nat /\ buffer \in Seq(Nat) /\ Len(buffer) \in Nat /\ Offset(field) \in Nat
      /\ Carries(whole, p + Offset(field), buffer)
      /\ field \in {"netID", "compress", "size", "body"}
  BY Zenon, <1>2, <1>5, PositionParts
<1>7. Before(whole, p, field, header)
  BY Zenon, <1>5 DEF Position
<1>8. field # "netID" => localNet = remoteNet
  BY Zenon, <1>1 DEF StreamInv
<1>9. ASSUME Offset(field) + Len(buffer) > 0
      PROVE  Len(received) + 1 \in 1..Len(sent) /\ m \in FrameMessages /\ Readable(remoteNet, whole, p, q, m)
  <2>1. Len(received) + 1 \in 1..Len(sent) /\ m \in FrameMessages /\ Framed(remoteNet, whole, p, q, m)
    BY Zenon, <1>2, <1>4, <1>9, InFrame
  <2> QED
    BY Zenon, <1>1, <1>2, <1>6, <2>1, FramedFields
<1>10. CASE field = "netID"
  <2>1. Offset(field) = 0 /\ Wanted = 4
    BY Zenon, <1>10 DEF Offset, Wanted
  <2>2. Offset(field) + Len(buffer) > 0 /\ p + Offset(field) = p /\ 4 = 0 + 4 /\ Len(buffer) = 4
    BY <1>3, <1>6, <2>1
  <2>3. Uint32(buffer) = remoteNet
    BY Zenon, <1>6, <1>9, <2>2 DEF Readable
  <2>4. CASE Uint32(buffer) # localNet
    <3>1. RefuseFrame /\ localNet # remoteNet
      BY Zenon, <1>10, <2>3, <2>4 DEF FieldRead
    <3> QED
      BY Zenon, <1>3, <3>1, RefuseInv
  <2>5. CASE Uint32(buffer) = localNet
    <3>1. Field("compress") /\ header' = header /\ received' = received /\ status' = status /\ localNet = remoteNet
      BY Zenon, <1>10, <2>3, <2>5 DEF FieldRead
    <3>2. Offset("compress") = Offset(field) + Len(buffer)
      <4>1. Offset("compress") = 4
        BY DEF Offset
      <4> QED
        BY Zenon, <2>1, <2>2, <4>1
    <3>3. Before(whole, ends[Len(received)], "compress", header')
      BY DEF Before
    <3> QED
      BY Zenon, <1>2, <1>3, <3>1, <3>2, <3>3, NextField
  <2> QED
    BY Zenon, <2>4, <2>5
<1>11. CASE field = "compress"
  <2>1. Offset(field) = 4 /\ Wanted = 2 /\ Offset("size") = 6 /\ 6 = 4 + 2
    BY <1>11 DEF Offset, Wanted
  <2>2. Field("size") /\ header' = <<buffer>> /\ received' = received /\ status' = status
    BY <1>11 DEF FieldRead
  <2>3. PICK k : k = <<buffer>>
    BY Zenon
  <2>4. k[1] = buffer /\ k = <<k[1]>>
    BY ONLY <2>3
  <2>5. "size" # "body"
    OBVIOUS
  <2>6. Before(whole, p, "size", k)
    BY Zenon, <1>3, <1>6, <2>1, <2>4, <2>5 DEF Before
  <2>7. /\ Before(whole, ends[Len(received)], "size", header') /\ localNet = remoteNet
        /\ Offset("size") = Offset(field) + Len(buffer)
    BY Zenon, <1>3, <1>4, <1>8, <1>11, <2>1, <2>2, <2>3, <2>6
  <2> QED
    BY Zenon, <1>2, <1>3, <2>2, <2>7, NextField
<1>12. CASE field = "size"
  <2>1. Offset(field) = 6 /\ Wanted = 4 /\ Offset("body") = 10 /\ 10 = 6 + 4 /\ 10 > 0
    BY <1>12 DEF Offset, Wanted
  <2>2. m \in FrameMessages /\ Readable(remoteNet, whole, p, q, m)
    BY Zenon, <1>3, <1>9, <2>1
  <2>3. PICK s \in Settings :
          /\ Body(m, s) # <<>>
          /\ \A b \in Seq(Nat) : Len(b) = 4 /\ Carries(whole, p + 6, b) => Uint32(b) = Len(Body(m, s))
    BY Zenon, <2>2 DEF Readable
  <2>4. Uint32(buffer) # 0
    <3>1. Uint32(buffer) = Len(Body(m, s))
      BY Zenon, <1>3, <1>6, <2>1, <2>3
    <3>2. Len(Body(m, s)) > 0
      BY Zenon, <2>2, <2>3, Decoded
    <3>3. ~(0 > 0)
      OBVIOUS
    <3> QED
      BY Zenon, <3>1, <3>2, <3>3
  <2>5. Field("body") /\ header' = Append(header, buffer) /\ received' = received /\ status' = status
    BY Zenon, <1>12, <2>4 DEF FieldRead
  <2>6. PICK h : header = <<h>> /\ h = header[1] /\ h \in Seq(Nat) /\ Len(h) = 2 /\ Carries(whole, p + 4, h)
    BY Zenon, <1>7, <1>12 DEF Before
  <2>7. PICK k : k = <<h, buffer>>
    BY Zenon
  <2>8. k[1] = h /\ k[2] = buffer /\ Append(<<h>>, buffer) = k
    <3>1. k[1] = h /\ k[2] = buffer
      BY ONLY <2>7
    <3>2. Append(<<h>>, buffer) = <<h, buffer>>
      BY ONLY Zenon, <1>6, <2>6, SecondPart
    <3> QED
      BY Zenon, <2>7, <3>1, <3>2
  <2>9. "body" # "size"
    OBVIOUS
  <2>10. Before(whole, p, "body", k)
    BY Zenon, <1>3, <1>6, <2>1, <2>6, <2>8, <2>9 DEF Before
  <2>11. /\ Before(whole, ends[Len(received)], "body", header') /\ localNet = remoteNet
         /\ Offset("body") = Offset(field) + Len(buffer)
    BY ZenonT(30), <1>3, <1>4, <1>8, <1>12, <2>1, <2>5, <2>6, <2>8, <2>9, <2>10
  <2> QED
    BY Zenon, <1>2, <1>3, <2>5, <2>11, NextField
<1>13. CASE field = "body"
  <2>1. Offset(field) = 10 /\ Wanted = Uint32(header[2])
    BY <1>13 DEF Offset, Wanted
  <2>2. Offset(field) + Len(buffer) > 0
    BY <1>6, <2>1
  <2>3. Len(received) + 1 \in 1..Len(sent) /\ m \in FrameMessages /\ Readable(remoteNet, whole, p, q, m)
    BY Zenon, <1>9, <2>2
  <2>4. PICK s \in Settings :
          /\ Body(m, s) # <<>>
          /\ q = p + 10 + Len(Body(m, s))
          /\ \A b \in Seq(Nat) : Len(b) = 2 /\ Carries(whole, p + 4, b) => b = GenCompressInfo(s, m.len)
          /\ \A b \in Seq(Nat) : Len(b) = 4 /\ Carries(whole, p + 6, b) => Uint32(b) = Len(Body(m, s))
          /\ \A b \in Seq(Nat) : Len(b) = Len(Body(m, s)) /\ Carries(whole, p + 10, b) => b = Body(m, s)
    BY Zenon, <2>3 DEF Readable
  <2>5. header[1] = GenCompressInfo(s, m.len) /\ Uint32(header[2]) = Len(Body(m, s))
    BY Zenon, <1>7, <1>13, <2>4 DEF Before
  <2>6. buffer = Body(m, s)
    BY Zenon, <1>3, <1>6, <2>1, <2>4, <2>5
  <2>7. PICK info : info = GetCompressInfo(header[1])
    BY Zenon
  <2>8. PICK body : body = IF info.enable THEN Uncompress(info.algo, buffer) ELSE buffer
    BY Zenon
  <2>9. ~NilReader(info, buffer) /\ body = Marshal(m)
    BY Zenon, <2>3, <2>4, <2>5, <2>6, <2>7, <2>8, Decoded
  <2>10. Unmarshal(body) = {m}
    BY Zenon, <2>3, <2>9, Unmarshalled
  <2>11. (CHOOSE x \in {m} : TRUE) = m /\ {m} # {}
    BY Zenon
  <2>12. localNet = remoteNet
    BY Zenon, <1>8, <1>13
  <2>13. received' = Append(received, m) /\ Field("netID") /\ status' = status
    <3>1. IF NilReader(info, buffer) THEN status' = "crash" /\ UNCHANGED <<received, reading>>
          ELSE IF Unmarshal(body) = {} \/ remoteNet # localNet THEN RefuseFrame
          ELSE /\ received' = Append(received, CHOOSE x \in Unmarshal(body) : TRUE)
               /\ Field("netID") /\ header' = <<>> /\ UNCHANGED status
      BY Zenon, <1>13, <2>7, <2>8 DEF FieldRead
    <3> QED
      BY Zenon, <2>9, <2>10, <2>11, <2>12, <3>1
  <2>14. ends[Len(received) + 1] = ends[Len(received)] + Offset(field) + Len(buffer)
    BY Zenon, <1>4, <2>1, <2>4, <2>6
  <2>15. received' = Append(received, sent[Len(received) + 1])
    BY Zenon, <1>4, <2>13
  <2> QED
    BY ZenonT(30), <1>2, <1>3, <2>3, <2>12, <2>13, <2>14, <2>15, NextMessage
<1> QED
  BY Zenon, <1>6, <1>10, <1>11, <1>12, <1>13

-----------------------------------------------------------------------------
(* Datagrams.                                                               *)

\* The bytes from the third on, and nothing that follows them.
LEMMA Middle ==
    ASSUME NEW a \in Seq(Nat), NEW b \in Seq(Nat), NEW c \in Seq(Nat), Len(a) = 2
    PROVE  SubSeq((a \o b) \o c, 3, 2 + Len(b)) = b
<1>1. PICK d \in Seq(Nat) : d = a \o b
  BY Zenon, ConcatLen
<1>2. PICK w \in Seq(Nat) : w = d \o c
  BY ONLY Zenon, d \in Seq(Nat), c \in Seq(Nat), ConcatLen
<1>3. 0 \in Nat /\ 2 \in Nat /\ 0 + 2 = 2 /\ 2 + 1 = 3
  OBVIOUS
<1>4. Carries(w, 0, d \o c)
  BY ONLY Zenon, <1>2, w \in Seq(Nat), CarriesSelf
<1>5. Carries(w, 0, a \o b)
  BY ONLY Zenon, <1>1, <1>3, <1>4, w \in Seq(Nat), d \in Seq(Nat), c \in Seq(Nat), CarriesParts
<1>6. Carries(w, 0 + Len(a), b)
  BY ONLY Zenon, <1>3, <1>5, w \in Seq(Nat), a \in Seq(Nat), b \in Seq(Nat), CarriesParts
<1>7. Carries(w, 2, b)
  BY Zenon, <1>3, <1>6
<1>8. SubSeq(w, 2 + 1, 2 + Len(b)) = b
  BY ONLY Zenon, <1>3, <1>7, w \in Seq(Nat), b \in Seq(Nat), Slice
<1> QED
  BY Zenon, <1>1, <1>2, <1>3, <1>8

\* The datagram of m, which the socket took, and what the receiver makes of it.
Packaged(m, d) == d = BuildRawContent(m) /\ d # <<>> /\ Len(d) <= MaxDatagram

Sliced(d, size, end, read) ==
    /\ size = d[1] * UdpBase + d[2]
    /\ end = (STORE_PACKAGE_REAL_SIZE + size) % UdpRadix
    /\ read = d \o [i \in 1..(MAX_PACKAGE_SIZE - Len(d)) |-> 0]

\* A datagram that the socket took is read back.
LEMMA Delivered ==
    ASSUME NEW m \in FrameMessages, NEW d, Packaged(m, d), NEW size, NEW end, NEW read, Sliced(d, size, end, read)
    PROVE  ~(end < STORE_PACKAGE_REAL_SIZE) /\ SubSeq(read, 3, end) = Marshal(m)
<1>0. /\ d = BuildRawContent(m) /\ d # <<>> /\ Len(d) <= MaxDatagram
      /\ size = d[1] * UdpBase + d[2]
      /\ end = (STORE_PACKAGE_REAL_SIZE + size) % UdpRadix
      /\ read = d \o [i \in 1..(MAX_PACKAGE_SIZE - Len(d)) |-> 0]
  BY Zenon DEF Packaged, Sliced
<1>1. PICK B \in Nat : B = UdpBase /\ B > 1
  BY Zenon, FramingAssumption
<1>2. PICK n \in Nat : n = m.len
  BY Zenon, MarshalOf
<1>3. PICK b \in Seq(Nat) : b = Marshal(m) /\ Len(b) = n
  BY Zenon, <1>2, MarshalOf
<1>4. PICK a : a = <<(n \div B) % B, n % B>>
  BY Zenon
<1>5. a \in Seq(Nat) /\ Len(a) = 2 /\ a[1] = (n \div B) % B /\ a[2] = n % B
  <2>1. (n \div B) % B \in Nat /\ n % B \in Nat
    BY <1>1
  <2> QED
    BY <1>4, <2>1
<1>6. d = a \o b
  BY Zenon, <1>0, <1>1, <1>2, <1>3, <1>4 DEF BuildRawContent
<1>7. Joined(Nat, a, b, a \o b)
  BY ONLY Zenon, <1>5, b \in Seq(Nat), Concat
<1>8. d \in Seq(Nat) /\ Len(d) = 2 + n /\ d[1] = a[1] /\ d[2] = a[2]
  <2>1. 1 \in 1..2 /\ 2 \in 1..2
    OBVIOUS
  <2> QED
    BY Zenon, <1>3, <1>5, <1>6, <1>7, <2>1 DEF Joined
<1>9. 2 + n < B * B /\ n < B * B
  <2>1. PICK k \in Nat, l \in Nat : k = MaxDatagram /\ l = B * B /\ k < l
    <3>1. B * B \in Nat
      OBVIOUS
    <3> QED
      BY Zenon, <1>1, <3>1, FramingAssumption
  <2>2. 2 + n <= k
    BY Zenon, <1>0, <1>8, <2>1
  <2>3. 2 + n < l /\ n < l
    BY ONLY <2>1, <2>2, k \in Nat, l \in Nat, n \in Nat
  <2> QED
    BY Zenon, <2>1, <2>3
<1>10. size = n
  <2>1. ((n \div B) % B) * B + (n % B) = n
    BY ONLY Zenon, <1>1, <1>9, n \in Nat, TwoDigits
  <2> QED
    BY Zenon, <1>0, <1>1, <1>5, <1>8, <2>1
<1>11. end = 2 + n
  <2>1. PICK k \in Nat, l \in Nat : k = 2 + n /\ l = B * B /\ l > k
    BY <1>9
  <2>2. k % l = k
    BY ONLY Zenon, <2>1, Rest
  <2> QED
    BY Zenon, <1>0, <1>1, <1>10, <2>1, <2>2 DEF STORE_PACKAGE_REAL_SIZE, UdpRadix
<1>12. ~(end < STORE_PACKAGE_REAL_SIZE)
  BY <1>11 DEF STORE_PACKAGE_REAL_SIZE
<1>13. PICK c \in Seq(Nat) : c = [i \in 1..(MAX_PACKAGE_SIZE - Len(d)) |-> 0]
  <2>1. PICK l \in Nat : l = MAX_PACKAGE_SIZE - Len(d)
    <3>1. B * B - (2 + n) \in Nat
      BY <1>9
    <3> QED
      BY Zenon, <1>1, <1>8, <3>1 DEF MAX_PACKAGE_SIZE, UdpRadix
  <2>2. [i \in 1..l |-> 0] \in Seq(Nat)
    OBVIOUS
  <2> QED
    BY Zenon, <2>1, <2>2
<1>14. SubSeq((a \o b) \o c, 3, 2 + Len(b)) = b
  BY ONLY Zenon, <1>5, b \in Seq(Nat), c \in Seq(Nat), Middle
<1> QED
  BY Zenon, <1>0, <1>3, <1>6, <1>11, <1>12, <1>13, <1>14

\* Whatever is sent, lost, repeated or reordered.
LEMMA SendUDPInv ==
    ASSUME FramingInv, NEW m \in FrameMessages, sendUDPMessage(m)
    PROVE  FramingInv'
<1>1. /\ via = "udp" /\ sent \in Seq(FrameMessages) /\ received \in Seq(FrameMessages) /\ UdpInv
  BY Zenon DEF FramingInv, sendUDPMessage
<1>2. /\ via' = via /\ localNet' = localNet /\ remoteNet' = remoteNet /\ received' = received /\ status' = status
      /\ sent' = Append(sent, m)
      /\ channel' = IF BuildRawContent(m) # <<>> /\ Len(BuildRawContent(m)) <= MaxDatagram
                    THEN channel \cup {BuildRawContent(m)} ELSE channel
  BY Zenon DEF sendUDPMessage, config
<1>3. PICK n \in Nat : n = Len(sent)
  BY <1>1
<1>4. PICK t \in Seq(FrameMessages) : t = Append(sent, m) /\ Len(t) = n + 1 /\ t[n + 1] = m /\ \A j \in 1..n : t[j] = sent[j]
  <2>1. /\ Append(sent, m) \in Seq(FrameMessages) /\ Len(Append(sent, m)) = n + 1 /\ Append(sent, m)[n + 1] = m
        /\ \A j \in 1..n : Append(sent, m)[j] = sent[j]
    BY <1>1, <1>3
  <2> QED
    BY ONLY Zenon, <2>1
<1>5. n + 1 \in 1..n + 1 /\ \A j \in 1..n : j \in 1..n + 1
  OBVIOUS
<1>6. ASSUME NEW d \in channel'
      PROVE  \E j \in 1..n + 1 : d = BuildRawContent(t[j]) /\ d # <<>> /\ Len(d) <= MaxDatagram
  <2>1. CASE d \in channel
    <3>1. PICK j \in 1..n : d = BuildRawContent(sent[j]) /\ d # <<>> /\ Len(d) <= MaxDatagram
      BY Zenon, <1>1, <1>3, <2>1 DEF UdpInv
    <3> QED
      BY Zenon, <1>4, <1>5, <3>1
  <2>2. CASE d \notin channel
    <3>1. d = BuildRawContent(m) /\ d # <<>> /\ Len(d) <= MaxDatagram
      BY Zenon, <1>2, <1>6, <2>2
    <3> QED
      BY Zenon, <1>4, <1>5, <3>1
  <2> QED
    BY Zenon, <2>1, <2>2
<1>7. ASSUME NEW i \in 1..Len(received)
      PROVE  (\E j \in 1..n + 1 : received[i] = t[j]) /\ (received[i].proxy \/ localNet = remoteNet)
  <2>1. PICK j \in 1..n : received[i] = sent[j]
    BY Zenon, <1>1, <1>3 DEF UdpInv
  <2>2. received[i].proxy \/ localNet = remoteNet
    BY Zenon, <1>1 DEF UdpInv
  <2> QED
    BY Zenon, <1>4, <1>5, <2>1, <2>2
<1>8. UdpInv'
  <2>1. sent' = t /\ Len(sent') = n + 1
    BY Zenon, <1>2, <1>4
  <2> QED
    BY Zenon, <1>1, <1>2, <1>6, <1>7, <2>1 DEF UdpInv
<1> QED
  BY Zenon, <1>1, <1>2, <1>4, <1>8 DEF FramingInv

\* A datagram that is lost is not received.
LEMMA LoseInv ==
    ASSUME FramingInv, NEW d, LoseDatagram(d)
    PROVE  FramingInv'
<1>1. /\ via = "udp" /\ via' = via /\ localNet' = localNet /\ remoteNet' = remoteNet /\ received' = received
      /\ status' = status /\ sent' = sent /\ channel' \subseteq channel
  BY Zenon DEF LoseDatagram, config
<1>2. UdpInv'
  BY Zenon, <1>1 DEF FramingInv, UdpInv
<1> QED
  BY Zenon, <1>1, <1>2 DEF FramingInv

\* A datagram is received as it was sent.
LEMMA ReceiveUDPInv ==
    ASSUME FramingInv, NEW d, NEW again, receiveUDPMessage(d, again)
    PROVE  FramingInv'
<1>1. /\ via = "udp" /\ sent \in Seq(FrameMessages) /\ received \in Seq(FrameMessages) /\ UdpInv
  BY Zenon DEF FramingInv, receiveUDPMessage
<1>2. /\ via' = via /\ localNet' = localNet /\ remoteNet' = remoteNet /\ sent' = sent
      /\ channel' \subseteq channel /\ d \in channel
  BY Zenon DEF receiveUDPMessage, config
<1>3. PICK j \in 1..Len(sent) : d = BuildRawContent(sent[j]) /\ d # <<>> /\ Len(d) <= MaxDatagram
  BY Zenon, <1>1, <1>2 DEF UdpInv
<1>4. PICK m \in FrameMessages : m = sent[j]
  BY <1>1
<1>5. PICK size, end, read, msgs : Sliced(d, size, end, read) /\ msgs = Unmarshal(SubSeq(read, 3, end))
  BY Zenon DEF Sliced
<1>6. ~(end < STORE_PACKAGE_REAL_SIZE) /\ SubSeq(read, 3, end) = Marshal(m)
  <2>1. Packaged(m, d)
    BY Zenon, <1>3, <1>4 DEF Packaged
  <2> QED
    BY ONLY Zenon, <1>5, <2>1, m \in FrameMessages, Delivered
<1>7. msgs = {m} /\ (CHOOSE x \in {m} : TRUE) = m
  BY Zenon, <1>5, <1>6, Unmarshalled
<1>9. IF end < STORE_PACKAGE_REAL_SIZE
      THEN status' = "crash" /\ UNCHANGED received
      ELSE IF \E x \in msgs : x.proxy \/ localNet = remoteNet
      THEN received' = Append(received, CHOOSE x \in msgs : TRUE) /\ UNCHANGED status
      ELSE status' = "error" /\ UNCHANGED received
  BY Zenon, <1>5 DEF receiveUDPMessage, Sliced
<1>10. CASE m.proxy \/ localNet = remoteNet
  <2>1. received' = Append(received, m) /\ status' = status
    BY Zenon, <1>6, <1>7, <1>9, <1>10
  <2>2. PICK n \in Nat : n = Len(received)
    BY <1>1
  <2>3. PICK t \in Seq(FrameMessages) :
          t = Append(received, m) /\ Len(t) = n + 1 /\ t[n + 1] = m /\ \A i \in 1..n : t[i] = received[i]
    <3>1. /\ Append(received, m) \in Seq(FrameMessages) /\ Len(Append(received, m)) = n + 1 /\ Append(received, m)[n + 1] = m
          /\ \A i \in 1..n : Append(received, m)[i] = received[i]
      BY <1>1, <2>2
    <3> QED
      BY ONLY Zenon, <3>1
  <2>4. \A i \in 1..n + 1 : i = n + 1 \/ i \in 1..n
    OBVIOUS
  <2>5. ASSUME NEW i \in 1..n + 1
        PROVE  (\E k \in 1..Len(sent) : t[i] = sent[k]) /\ (t[i].proxy \/ localNet = remoteNet)
    <3>1. CASE i = n + 1
      BY Zenon, <1>4, <1>10, <2>3, <3>1
    <3>2. CASE i \in 1..n
      <4>1. (\E k \in 1..Len(sent) : received[i] = sent[k]) /\ (received[i].proxy \/ localNet = remoteNet)
        BY Zenon, <1>1, <2>2, <3>2 DEF UdpInv
      <4> QED
        BY Zenon, <2>3, <3>2, <4>1
    <3> QED
      BY Zenon, <2>4, <3>1, <3>2
  <2>6. received' = t /\ Len(received') = n + 1
    BY Zenon, <2>1, <2>3
  <2>7. UdpInv'
    BY ZenonT(30), <1>1, <1>2, <2>1, <2>5, <2>6 DEF UdpInv
  <2> QED
    BY Zenon, <1>1, <1>2, <2>6, <2>7 DEF FramingInv
<1>11. CASE ~(m.proxy \/ localNet = remoteNet)
  <2>1. received' = received /\ status' = "error" /\ localNet # remoteNet
    BY Zenon, <1>6, <1>7, <1>9, <1>11
  <2>2. "error" # "crash"
    OBVIOUS
  <2>3. UdpInv'
    BY Zenon, <1>1, <1>2, <2>1, <2>2 DEF UdpInv
  <2> QED
    BY Zenon, <1>1, <1>2, <2>1, <2>3 DEF FramingInv
<1> QED
  BY Zenon, <1>10, <1>11

-----------------------------------------------------------------------------
\* The invariant holds before anything is sent.
LEMMA FramingInitially == FramingInit => FramingInv
<1> SUFFICES ASSUME FramingInit PROVE FramingInv
  OBVIOUS
<1>1. /\ via \in {"tcp", "quic", "udp"} /\ localNet \in NetIDs /\ remoteNet \in NetIDs /\ sent = <<>> /\ received = <<>>
      /\ channel = (IF via = "udp" THEN {} ELSE <<>>) /\ up = TRUE /\ field = "netID" /\ buffer = <<>> /\ header = <<>>
      /\ status = "open"
  BY Zenon DEF FramingInit
<1>2. IsUint32(localNet) /\ IsUint32(remoteNet)
  BY Zenon, <1>1, FramingAssumption
<1>3. <<>> \in Seq(FrameMessages) /\ <<>> \in Seq(Nat) /\ Len(<<>>) = 0 /\ 1..0 = {} /\ 0 <= 0 /\ "open" # "crash"
  OBVIOUS
<1>4. CASE via = "udp"
  <2>1. UdpInv
    BY Zenon, <1>1, <1>3, <1>4 DEF UdpInv
  <2> QED
    BY Zenon, <1>1, <1>2, <1>3, <1>4, <2>1 DEF FramingInv
<1>5. CASE via # "udp"
  <2>1. PICK ends : ends = [k \in 0..0 |-> 0] /\ ends \in [0..0 -> Nat] /\ ends[0] = 0
    <3>1. [k \in 0..0 |-> 0] \in [0..0 -> Nat] /\ [k \in 0..0 |-> 0][0] = 0
      OBVIOUS
    <3> QED
      BY ONLY Zenon, <3>1
  <2>2. Written(remoteNet, <<>>, <<>>, ends)
    BY Zenon, <1>3, <2>1 DEF Written
  <2>3. Offset("netID") = 0 /\ 0 + 0 = 0 /\ 0 \in Nat
    BY DEF Offset
  <2>4. Carries(<<>>, 0, <<>>)
    BY Zenon, <1>3, <2>3 DEF Carries
  <2>5. Before(<<>>, 0, "netID", <<>>)
    BY DEF Before
  <2>6. Position(<<>>, 0, "netID", <<>>, <<>>, TRUE, <<>>)
    BY Zenon, <1>3, <2>3, <2>4, <2>5 DEF Position
  <2>7. StreamAt(<<>>, ends)
    BY Zenon, <1>1, <1>3, <1>5, <2>1, <2>2, <2>6 DEF StreamAt
  <2>8. StreamInv
    BY Zenon, <1>1, <1>3, <2>7 DEF StreamInv, Prefix
  <2> QED
    BY Zenon, <1>1, <1>2, <1>3, <1>5, <2>8 DEF FramingInv
<1> QED
  BY Zenon, <1>4, <1>5

\* The size that the header of a frame announces is one.
LEMMA WantedOf ==
    ASSUME FramingInv, via # "udp"
    PROVE  Wanted \in Nat
<1>1. PICK whole, ends : whole \in Seq(Nat) /\ StreamAt(whole, ends)
  BY Zenon, Opened
<1>2. PICK p, q, m : p = ends[Len(received)] /\ q = ends[Len(received) + 1] /\ m = sent[Len(received) + 1]
  BY Zenon
<1>3. Position(whole, p, field, buffer, channel, up, header)
  BY Zenon, <1>1, <1>2 DEF StreamAt
<1>4. p \in Nat /\ Len(buffer) \in Nat /\ Before(whole, p, field, header)
  BY Zenon, <1>1, <1>3, PositionParts DEF Position
<1>5. CASE field = "body"
  <2>1. Offset(field) = 10 /\ Wanted = Uint32(header[2])
    BY <1>5 DEF Offset, Wanted
  <2>2. Offset(field) + Len(buffer) > 0
    BY <1>4, <2>1
  <2>3. m \in FrameMessages /\ Framed(remoteNet, whole, p, q, m)
    BY Zenon, <1>1, <1>2, <2>2, InFrame
  <2>4. Readable(remoteNet, whole, p, q, m)
    BY Zenon, <1>1, <1>4, <2>3, FramedFields, Opened
  <2>5. PICK s \in Settings :
          /\ Body(m, s) # <<>>
          /\ \A b \in Seq(Nat) : Len(b) = 4 /\ Carries(whole, p + 6, b) => Uint32(b) = Len(Body(m, s))
    BY Zenon, <2>4 DEF Readable
  <2>6. Uint32(header[2]) = Len(Body(m, s))
    BY Zenon, <1>4, <1>5, <2>5 DEF Before
  <2>7. Body(m, s) \in Seq(Nat)
    BY Zenon, <2>3, <2>5, Decoded
  <2>8. Len(Body(m, s)) \in Nat
    BY <2>7
  <2> QED
    BY Zenon, <2>1, <2>6, <2>8
<1>6. CASE field # "body"
  <2>1. field \in {"netID", "compress", "size", "body"}
    BY Zenon, <1>3 DEF Position
  <2> QED
    BY <1>6, <2>1 DEF Wanted
<1> QED
  BY Zenon, <1>5, <1>6

\* Every step keeps the invariant.
LEMMA FramingStep == FramingInv /\ [FramingNext]_frameVars => FramingInv'
<1> SUFFICES ASSUME FramingInv, [FramingNext]_frameVars PROVE FramingInv'
  OBVIOUS
<1>0. "tcp" # "udp" /\ "quic" # "udp"
  OBVIOUS
<1>1. ASSUME NEW m \in FrameMessages, NEW s \in Settings, sendMessage(m, s) \/ sendQuicMessage(m, s) PROVE FramingInv'
  BY Zenon, <1>0, <1>1, PutFrameInv DEF sendMessage, sendQuicMessage
<1>2. CASE BreakStream
  BY Zenon, <1>0, <1>2, BreakStreamInv DEF BreakStream
<1>3. CASE receiveMessage
  <2>1. via # "udp"
    BY Zenon, <1>0, <1>3 DEF receiveMessage
  <2>2. ASSUME NEW n \in 1..Wanted, Read(n) PROVE FramingInv'
    <3>1. n \in Nat
      OBVIOUS
    <3> QED
      BY Zenon, <2>1, <2>2, <3>1, ReadInv
  <2> QED
    BY Zenon, <1>3, <2>1, <2>2, FieldReadInv, ReadErrorInv DEF receiveMessage
<1>4. CASE receiveQuicMessage
  <2>1. via # "udp"
    BY Zenon, <1>0, <1>4 DEF receiveQuicMessage
  <2>2. Wanted \in Nat
    BY Zenon, <2>1, WantedOf
  <2> QED
    BY Zenon, <1>4, <2>1, <2>2, FieldReadInv, ReadErrorInv, ReadInv DEF receiveQuicMessage
<1>5. ASSUME NEW m \in FrameMessages, sendUDPMessage(m) PROVE FramingInv'
  BY Zenon, <1>5, SendUDPInv
<1>6. ASSUME NEW d, LoseDatagram(d) PROVE FramingInv'
  BY Zenon, <1>6, LoseInv
<1>7. ASSUME NEW d, NEW again, receiveUDPMessage(d, again) PROVE FramingInv'
  BY Zenon, <1>7, ReceiveUDPInv
<1>8. CASE UNCHANGED frameVars
  <2>1. /\ via' = via /\ localNet' = localNet /\ remoteNet' = remoteNet /\ sent' = sent /\ received' = received
        /\ channel' = channel /\ up' = up /\ field' = field /\ buffer' = buffer /\ header' = header /\ status' = status
    BY Zenon, <1>8 DEF frameVars
  <2>2. CASE via = "udp"
    <3>1. UdpInv'
      BY Zenon, <2>1, <2>2 DEF FramingInv, UdpInv
    <3> QED
      BY Zenon, <2>1, <2>2, <3>1 DEF FramingInv
  <2>3. CASE via # "udp"
    <3>1. PICK whole, ends : whole \in Seq(Nat) /\ StreamAt(whole, ends)
      BY Zenon, <2>3, Opened
    <3>2. StreamAt(whole, ends)'
      BY Zenon, <2>1, <3>1 DEF StreamAt
    <3>3. StreamInv'
      BY Zenon, <2>1, <2>3, <3>2 DEF FramingInv, StreamInv, Prefix
    <3> QED
      BY Zenon, <2>1, <2>3, <3>3 DEF FramingInv
  <2> QED
    BY Zenon, <2>2, <2>3
<1> QED
  BY Zenon, <1>1, <1>2, <1>3, <1>4, <1>5, <1>6, <1>7, <1>8 DEF FramingNext

\* The invariant implies the property.
LEMMA FramingImplies == FramingInv => FramesDecoded
<1> SUFFICES ASSUME FramingInv PROVE FramesDecoded
  OBVIOUS
<1>1. CASE via = "udp"
  BY Zenon, <1>1 DEF FramingInv, UdpInv, FramesDecoded
<1>2. CASE via # "udp"
  <2>1. /\ sent \in Seq(FrameMessages) /\ received \in Seq(FrameMessages)
        /\ Len(sent) \in Nat /\ Len(received) \in 0..Len(sent) /\ StreamInv
    BY Zenon, <1>2, Opened
  <2>2. PICK whole, ends : whole \in Seq(Nat) /\ StreamAt(whole, ends)
    BY Zenon, <1>2, Opened
  <2>3. ASSUME localNet = remoteNet, up, channel = <<>>, field = "netID", buffer = <<>>
        PROVE  received = sent
    <3>1. PICK p : p = ends[Len(received)]
      BY Zenon
    <3>2. Written(remoteNet, sent, whole, ends) /\ Position(whole, p, field, buffer, channel, up, header)
      BY Zenon, <2>2, <3>1 DEF StreamAt
    <3>3. p \in Nat /\ Offset(field) = 0 /\ Len(buffer) = 0 /\ Len(channel) = 0
      <4>1. Len(<<>>) = 0 /\ Offset("netID") = 0
        BY DEF Offset
      <4> QED
        BY Zenon, <2>3, <3>2, <4>1 DEF Position
    <3>4. p + 0 + 0 + 0 = Len(whole)
      BY Zenon, <2>3, <3>2, <3>3 DEF Position
    <3>5. ~(p + 10 < Len(whole))
      BY ONLY <3>3, <3>4
    <3>6. Len(received) = Len(sent)
      BY Zenon, <2>1, <3>1, <3>2, <3>5, FrameLong
    <3>7. \A i \in 1..Len(received) : received[i] = sent[i]
      BY Zenon, <2>1 DEF StreamInv, Prefix
    <3> QED
      BY ONLY Zenon, <2>1, <3>6, <3>7, SameBytes
  <2> QED
    BY Zenon, <1>2, <2>1, <2>3 DEF FramesDecoded, StreamInv, Prefix
<1> QED
  BY Zenon, <1>1, <1>2

\* Whatever the messages and the settings, whatever sizes the reads return and
\* whenever the stream breaks, receiveMessage and receiveQuicMessage hand over what
\* sendMessage and sendQuicMessage were given, in order, and ends with an error
\* only when the stream broke or the network differs; whatever datagrams are lost,
\* repeated or reordered, receiveUDPMessage hands over messages that were sent, and
\* the 16-bit end of its slice never wraps.
THEOREM FramesArrive == FramingSpec => []FramesDecoded
<1>1. FramingInit => FramingInv
  BY FramingInitially
<1>2. FramingInv /\ [FramingNext]_frameVars => FramingInv'
  BY FramingStep
<1>3. FramingInv => FramesDecoded
  BY FramingImplies
<1> QED
  BY <1>1, <1>2, <1>3, PTL DEF FramingSpec
=============================================================================
