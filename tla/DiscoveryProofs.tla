-------------------------- MODULE DiscoveryProofs --------------------------
(***************************************************************************)
(* The routing table stays well formed for identities of any length,       *)
(* buckets of any size and any set of peers, and whatever the discovery    *)
(* component does to it are operations of the table.                       *)
(*                                                                         *)
(* FindClosestPeers returns enough peers: the buckets at a distance of up  *)
(* to Radius hold count peers or all, the sort loses none, and none but    *)
(* the target is at distance zero.  A lookup asks a peer once, because it  *)
(* is in visited from before the question on.                              *)
(***************************************************************************)
EXTENDS Discovery, FiniteSetTheorems, TLAPS

IInv == TypeOK /\ Placed

\* What the list operations keep of a bucket without repetitions.
Distinct(b) == \A i, j \in 1..Len(b) : b[i] = b[j] => i = j
Belongs(b, k) == \A i \in 1..Len(b) : BucketID(b[i]) = k

-----------------------------------------------------------------------------
\* MoveToFront keeps a bucket's peers, and so its length and its order of magnitude.
LEMMA MoveToFrontKeeps ==
    ASSUME NEW b \in Seq(Known), NEW k, NEW e \in 1..Len(b), Distinct(b), Belongs(b, k)
    PROVE  /\ MoveToFront(b, e) \in Seq(Known) /\ Len(MoveToFront(b, e)) = Len(b)
           /\ Distinct(MoveToFront(b, e)) /\ Belongs(MoveToFront(b, e), k)
<1> DEFINE m == MoveToFront(b, e)
<1>1. /\ m \in [1..Len(b) -> Known] /\ Len(b) \in Nat
      /\ m = [i \in 1..Len(b) |-> IF i = 1 THEN b[e] ELSE IF i <= e THEN b[i - 1] ELSE b[i]]
  BY DEF MoveToFront
<1>2. m \in Seq(Known) /\ Len(m) = Len(b)
  BY <1>1
<1>3. Distinct(m)
  BY <1>1, <1>2 DEF Distinct
<1>4. Belongs(m, k)
  BY <1>1, <1>2 DEF Belongs
<1> QED
  BY Zenon, <1>2, <1>3, <1>4

\* PushFront adds a peer that was not there.
LEMMA PushFrontKeeps ==
    ASSUME NEW b \in Seq(Known), NEW t \in Known, ~In(b, t), Distinct(b), Belongs(b, BucketID(t))
    PROVE  /\ PushFront(b, t) \in Seq(Known) /\ Len(PushFront(b, t)) = Len(b) + 1
           /\ Distinct(PushFront(b, t)) /\ Belongs(PushFront(b, t), BucketID(t))
<1> DEFINE m == PushFront(b, t)
<1>1. /\ m \in [1..Len(b) + 1 -> Known] /\ Len(b) \in Nat
      /\ m = [i \in 1..Len(b) + 1 |-> IF i = 1 THEN t ELSE b[i - 1]]
  BY DEF PushFront
<1>2. m \in Seq(Known) /\ Len(m) = Len(b) + 1
  BY <1>1
<1>3. Distinct(m)
  BY <1>1, <1>2 DEF Distinct, In
<1>4. Belongs(m, BucketID(t))
  BY <1>1, <1>2 DEF Belongs
<1> QED
  BY Zenon, <1>2, <1>3, <1>4

\* Removing an element leaves the others.
LEMMA RemoveKeeps ==
    ASSUME NEW b \in Seq(Known), NEW k, NEW e \in 1..Len(b), Distinct(b), Belongs(b, k)
    PROVE  /\ RemoveElement(b, e) \in Seq(Known) /\ Len(RemoveElement(b, e)) = Len(b) - 1
           /\ Distinct(RemoveElement(b, e)) /\ Belongs(RemoveElement(b, e), k)
<1> DEFINE m == RemoveElement(b, e)
<1>1. /\ m \in [1..Len(b) - 1 -> Known] /\ Len(b) \in Nat
      /\ m = [i \in 1..Len(b) - 1 |-> IF i < e THEN b[i] ELSE b[i + 1]]
  BY DEF RemoveElement
<1>2. m \in Seq(Known) /\ Len(m) = Len(b) - 1
  BY <1>1
<1>3. Distinct(m)
  BY <1>1, <1>2 DEF Distinct
<1>4. Belongs(m, k)
  BY <1>1, <1>2 DEF Belongs
<1> QED
  BY Zenon, <1>2, <1>3, <1>4

\* Element finds the position of a peer that is in the bucket.
LEMMA ElementFound ==
    ASSUME NEW b, NEW t, In(b, t)
    PROVE  Element(b, t) \in 1..Len(b)
BY Zenon DEF In, Element

-----------------------------------------------------------------------------
\* CreateRoutingTable lists self once.
LEMMA InitIInv == Init => IInv
<1> SUFFICES ASSUME Init PROVE IInv
  OBVIOUS
<1>1. /\ Len(<<>>) = 0 /\ <<>> \in Seq(Known) /\ self \in Known
      /\ Distinct(<<>>) /\ \A k : Belongs(<<>>, k) /\ ~In(<<>>, self)
  BY DEF Distinct, Belongs, In, Known
<1>2. /\ PushFront(<<>>, self) \in Seq(Known) /\ Len(PushFront(<<>>, self)) = 1
      /\ Distinct(PushFront(<<>>, self)) /\ Belongs(PushFront(<<>>, self), BucketID(self))
  <2>1. Belongs(<<>>, BucketID(self))
    BY Zenon, <1>1
  <2>2. /\ PushFront(<<>>, self) \in Seq(Known) /\ Len(PushFront(<<>>, self)) = Len(<<>>) + 1
        /\ Distinct(PushFront(<<>>, self)) /\ Belongs(PushFront(<<>>, self), BucketID(self))
    BY <1>1, <2>1, PushFrontKeeps, Zenon
  <2> QED
    BY <1>1, <2>2
<1>3. \A k \in Index : \/ buckets[k] = <<>>
                       \/ k = BucketID(self) /\ buckets[k] = PushFront(<<>>, self)
  BY Zenon DEF Init, Empty
<1>4. TypeOK
  BY Zenon, <1>1, <1>2, <1>3 DEF Init, Empty, TypeOK
<1>5. Placed
  BY <1>1, <1>2, <1>3, RoutingTableAssumption DEF Placed, PlacedIn, Distinct, Belongs
<1> QED
  BY Zenon, <1>4, <1>5 DEF IInv

\* Update adds its target to its own bucket only if the bucket does not list it
\* and has room, else it reorders the bucket.
LEMMA UpdateIInv == ASSUME IInv, NEW t \in Known, Update(t) PROVE IInv'
<1> DEFINE k == BucketID(t)
           b == buckets[k]
           u == Updated(b, t)
<1>1. CASE k \in Index
  <2>1. b \in Seq(Known) /\ Len(b) \in Nat /\ Len(b) <= BucketSize + 1 /\ Distinct(b) /\ Belongs(b, k)
    BY <1>1 DEF IInv, TypeOK, Placed, PlacedIn, Distinct, Belongs
  <2>2. u \in Seq(Known) /\ Len(u) <= BucketSize + 1 /\ Distinct(u) /\ Belongs(u, k)
    <3>1. CASE In(b, t)
      BY Zenon, <2>1, <3>1, ElementFound, MoveToFrontKeeps DEF Updated
    <3>2. CASE ~In(b, t) /\ Len(b) <= BucketSize
      <4>1. u = PushFront(b, t)
        BY Zenon, <3>2 DEF Updated
      <4> QED
        BY <2>1, <3>2, <4>1, PushFrontKeeps, RoutingTableAssumption
    <3>3. CASE ~In(b, t) /\ ~(Len(b) <= BucketSize)
      BY Zenon, <2>1, <3>3 DEF Updated
    <3> QED
      BY Zenon, <3>1, <3>2, <3>3
  <2>3. buckets' = [buckets EXCEPT ![k] = u]
    BY Zenon DEF Update
  <2>4. TypeOK'
    BY Zenon, <2>2, <2>3 DEF IInv, TypeOK
  <2>5. ASSUME NEW j \in Index PROVE PlacedIn(j)'
    <3>1. CASE j = k
      BY Zenon, <1>1, <2>2, <2>3, <3>1 DEF IInv, TypeOK, PlacedIn, Distinct, Belongs
    <3>2. CASE j # k
      BY <2>3, <3>2 DEF IInv, TypeOK, Placed, PlacedIn
    <3> QED
      BY Zenon, <3>1, <3>2
  <2> QED
    BY Zenon, <2>4, <2>5 DEF IInv, Placed
<1>2. CASE k \notin Index
  BY ZenonT(30), <1>2 DEF IInv, TypeOK, Placed, PlacedIn, Update
<1> QED
  BY Zenon, <1>1, <1>2

\* RemovePeer takes its target out of its own bucket.
LEMMA RemoveIInv == ASSUME IInv, NEW t \in Known, RemovePeer(t) PROVE IInv'
<1> DEFINE k == BucketID(t)
           b == buckets[k]
           u == RemoveElement(b, Element(b, t))
<1>1. CASE k \in Index
  <2>1. b \in Seq(Known) /\ Len(b) \in Nat /\ Len(b) <= BucketSize + 1 /\ Distinct(b) /\ Belongs(b, k)
    BY <1>1 DEF IInv, TypeOK, Placed, PlacedIn, Distinct, Belongs
  <2>2. u \in Seq(Known) /\ Len(u) <= BucketSize + 1 /\ Distinct(u) /\ Belongs(u, k)
    <3>1. u \in Seq(Known) /\ Len(u) = Len(b) - 1 /\ Distinct(u) /\ Belongs(u, k)
      BY Zenon, <2>1, ElementFound, RemoveKeeps DEF RemovePeer
    <3>2. Len(b) - 1 <= BucketSize + 1
      BY <2>1, RoutingTableAssumption
    <3> QED
      BY Zenon, <3>1, <3>2
  <2>3. buckets' = [buckets EXCEPT ![k] = u]
    BY Zenon DEF RemovePeer
  <2>4. TypeOK'
    BY Zenon, <2>2, <2>3 DEF IInv, TypeOK
  <2>5. ASSUME NEW j \in Index PROVE PlacedIn(j)'
    <3>1. CASE j = k
      BY Zenon, <1>1, <2>2, <2>3, <3>1 DEF IInv, TypeOK, PlacedIn, Distinct, Belongs
    <3>2. CASE j # k
      BY <2>3, <3>2 DEF IInv, TypeOK, Placed, PlacedIn
    <3> QED
      BY <3>1, <3>2
  <2> QED
    BY <2>4, <2>5 DEF IInv, Placed
<1>2. CASE k \notin Index
  BY ZenonT(30), <1>2 DEF IInv, TypeOK, Placed, PlacedIn, RemovePeer
<1> QED
  BY <1>1, <1>2

\* Hence the invariant of the table always holds.
LEMMA TableInductive == Spec => []IInv
<1>1. ASSUME IInv, [Next]_buckets PROVE IInv'
  <2>1. CASE UNCHANGED buckets
    BY Zenon, <1>1, <2>1 DEF IInv, TypeOK, Placed, PlacedIn
  <2>2. ASSUME NEW t \in Known, Update(t) \/ RemovePeer(t) PROVE IInv'
    BY Zenon, <1>1, <2>2, UpdateIInv, RemoveIInv
  <2> QED
    BY Zenon, <1>1, <2>1, <2>2 DEF Next
<1> QED
  BY InitIInv, <1>1, PTL DEF Spec

\* In every reachable state of the routing table, every peer is listed once at
\* most, in the bucket that RemovePeer and PeerExists search, and no bucket
\* exceeds BucketSize + 1.
THEOREM TablePlaced == Spec => []Placed
<1>1. IInv => Placed
  BY Zenon DEF IInv
<1> QED
  BY <1>1, TableInductive, PTL

-----------------------------------------------------------------------------
\* The handlers of the discovery component, its lookups and its query goroutines
\* change the table by Update and RemovePeer only, so that its theorems hold of
\* a node that runs them.
THEOREM DiscoveryUsesTable == DiscoverySpec => UsesTable
<1>1. DiscoveryInit => Init
  BY Zenon DEF DiscoveryInit
<1>2. ASSUME [DiscoveryNext]_vars PROVE [Next]_buckets
  <2> USE DEF Known
  <2>1. CASE UNCHANGED vars
    BY Zenon, <2>1 DEF vars
  <2>2. ASSUME NEW p \in Peers, Receive(p) \/ PeerDisconnect(p) \/ Pong(p) PROVE Next
    BY Zenon, <2>2 DEF Receive, PeerDisconnect, Pong, Next
  <2>3. ASSUME NEW p \in Peers, NEW q \in Peers, Online(p, q) PROVE [Next]_buckets
    BY Zenon, <2>3 DEF Online, Next
  <2>4. ASSUME NEW p \in Peers, Result(p) \/ Apply(p) \/ UpdateFound(p) PROVE [Next]_buckets
    BY Zenon, <2>4 DEF Result, Apply, UpdateFound, Next
  <2>5. ASSUME UpdateSelf PROVE Next
    BY Zenon, <2>5 DEF UpdateSelf, Next
  <2>6. ASSUME FindNode \/ BeginLookup \/ Schedule \/ Return \/ Bootstrapped PROVE UNCHANGED buckets
    BY Zenon, <2>6 DEF FindNode, BeginLookup, Schedule, Return, Bootstrapped
  <2> QED
    BY Zenon, <1>2, <2>1, <2>2, <2>3, <2>4, <2>5, <2>6 DEF DiscoveryNext, Network, Handler
<1> QED
  BY <1>1, <1>2, PTL DEF DiscoverySpec, UsesTable, Spec

\* The routing table of a node that runs the discovery component stays well formed.
THEOREM DiscoveryPlaced == DiscoverySpec => []Placed
BY DiscoveryUsesTable, TablePlaced, PTL DEF UsesTable
-----------------------------------------------------------------------------
(* FindClosestPeers: distances order the identities, and a sort by them loses *)
(* and repeats no peer.                                                       *)

\* A nonempty set of finite sets has a minimal one, by the well-foundedness of
\* strict inclusion; and so a nonempty set of naturals has a least one.
LEMMA Minimal ==
    ASSUME NEW F, F # {}, \A s \in F : IsFiniteSet(s)
    PROVE  \E m \in F : \A s \in F : s \subseteq m => s = m
<1> DEFINE U == UNION F
<1>1. F \subseteq FiniteSubsetsOf(U)
  BY Zenon DEF FiniteSubsetsOf
<1>2. \E m \in F : \A s \in F : <<s, m>> \notin StrictSubsetOrdering(U)
  BY ONLY Zenon, <1>1, F # {}, WFMin, FS_StrictSubsetOrderingWellFounded
<1> QED
  BY Zenon, <1>1, <1>2 DEF StrictSubsetOrdering

\* A set of naturals that is not empty has a least element.
LEMMA LeastOf ==
    ASSUME NEW S, S \subseteq Nat, S # {}
    PROVE  \E m \in S : \A k \in S : m <= k
<1> DEFINE Below == {0..n : n \in S}
<1>1. \A s \in Below : IsFiniteSet(s)
  <2>1. ASSUME NEW n \in S PROVE IsFiniteSet(0..n)
    <3>1. 0 \in Int /\ n \in Int
      OBVIOUS
    <3> QED
      BY Zenon, <3>1, FS_Interval
  <2> QED
    BY Zenon, <2>1
<1>2. Below # {}
  BY Zenon
<1> HIDE DEF Below
<1>3. PICK m \in Below : \A s \in Below : s \subseteq m => s = m
  BY <1>1, <1>2, Minimal
<1>4. PICK n \in S : m = 0..n
  BY Zenon, <1>3 DEF Below
<1>5. ASSUME NEW k \in S PROVE n <= k
  <2>1. k < n => 0..k \subseteq 0..n /\ 0..k # 0..n
    OBVIOUS
  <2>2. 0..k \in Below
    BY Zenon DEF Below
  <2> QED
    BY <1>3, <1>4, <2>1, <2>2
<1> QED
  BY Zenon, <1>4, <1>5

\* The first bit in which two identities differ.
LEMMA FirstDifference ==
    ASSUME NEW a \in ID, NEW b \in ID, a # b
    PROVE  \E i \in Index : a[i] # b[i] /\ \A j \in 0..i - 1 : a[j] = b[j]
<1> DEFINE D == {i \in Index : a[i] # b[i]}
<1>1. D # {}
  BY DEF ID
<1>2. D \subseteq Nat
  BY RoutingTableAssumption DEF Index
<1>3. PICK m \in D : \A k \in D : m <= k
  BY Zenon, <1>1, <1>2, LeastOf
<1>4. ASSUME NEW j \in 0..m - 1 PROVE j \in Index /\ ~(m <= j)
  BY <1>2, RoutingTableAssumption DEF Index
<1> QED
  BY Zenon, <1>3, <1>4

\* The distance of two identities has their form.
LEMMA XorType ==
    ASSUME NEW a, NEW t PROVE XorID(a, t) \in ID
BY Zenon DEF XorID, ID

\* Distances to one target differ.
LEMMA XorInjective ==
    ASSUME NEW a \in ID, NEW b \in ID, NEW t \in ID, a # b
    PROVE  XorID(a, t) # XorID(b, t)
<1>1. PICK i \in Index : a[i] # b[i]
  BY DEF ID
<1>2. a[i] \in BOOLEAN /\ b[i] \in BOOLEAN /\ t[i] \in BOOLEAN
  BY Zenon DEF ID
<1>3. (a[i] # t[i]) # (b[i] # t[i])
  <2>1. CASE a[i] = t[i]
    BY Zenon, <1>1, <2>1
  <2>2. CASE a[i] # t[i]
    <3>1. b[i] = t[i]
      BY Zenon, <1>1, <1>2, <2>2
    <3> QED
      BY Zenon, <2>2, <3>1
  <2> QED
    BY Zenon, <2>1, <2>2
<1>4. XorID(a, t)[i] = (a[i] # t[i]) /\ XorID(b, t)[i] = (b[i] # t[i])
  BY Zenon DEF XorID
<1> QED
  BY Zenon, <1>3, <1>4

\* Of two peers one is nearer.
LEMMA NearerTotal ==
    ASSUME NEW a \in ID, NEW b \in ID, NEW t \in ID, a # b
    PROVE  Nearer(t, a, b) \/ Nearer(t, b, a)
<1>1. PICK x \in ID, y \in ID : x = XorID(a, t) /\ y = XorID(b, t)
  BY Zenon, XorType
<1>2. x # y
  BY Zenon, <1>1, XorInjective
<1>3. PICK i \in Index : x[i] # y[i] /\ \A j \in 0..i - 1 : x[j] = y[j]
  BY Zenon, <1>2, FirstDifference
<1>4. x[i] \in BOOLEAN /\ y[i] \in BOOLEAN
  BY Zenon DEF ID
<1>5. CASE x[i]
  <2>1. ~y[i] /\ \A j \in 0..i - 1 : y[j] = x[j]
    BY Zenon, <1>3, <1>4, <1>5
  <2> QED
    BY Zenon, <1>1, <1>5, <2>1 DEF Nearer, Less
<1>6. CASE ~x[i]
  <2>1. y[i]
    BY Zenon, <1>3, <1>4, <1>6
  <2> QED
    BY Zenon, <1>1, <1>3, <1>6, <2>1 DEF Nearer, Less
<1> QED
  BY Zenon, <1>5, <1>6

\* Nearer is transitive.
LEMMA NearerTransitive ==
    ASSUME NEW a \in ID, NEW b \in ID, NEW c \in ID, NEW t \in ID, Nearer(t, a, b), Nearer(t, b, c)
    PROVE  Nearer(t, a, c)
<1>1. PICK x \in ID, y \in ID, z \in ID : x = XorID(a, t) /\ y = XorID(b, t) /\ z = XorID(c, t)
  BY Zenon, XorType
<1>2. PICK i \in Index : ~x[i] /\ y[i] /\ \A j \in 0..i - 1 : x[j] = y[j]
  BY Zenon, <1>1 DEF Nearer, Less
<1>3. PICK k \in Index : ~y[k] /\ z[k] /\ \A j \in 0..k - 1 : y[j] = z[j]
  BY Zenon, <1>1 DEF Nearer, Less
<1>4. i \in Nat /\ k \in Nat /\ i # k
  <2>1. i # k
    BY Zenon, <1>2, <1>3
  <2> QED
    BY <2>1, RoutingTableAssumption DEF Index
<1>5. CASE i < k
  <2>1. i \in 0..k - 1 /\ \A j \in 0..i - 1 : j \in 0..k - 1
    BY <1>4, <1>5
  <2>2. ~x[i] /\ z[i] /\ \A j \in 0..i - 1 : x[j] = z[j]
    BY Zenon, <1>2, <1>3, <2>1
  <2> QED
    BY Zenon, <1>1, <2>2 DEF Nearer, Less
<1>6. CASE k < i
  <2>1. k \in 0..i - 1 /\ \A j \in 0..k - 1 : j \in 0..i - 1
    BY <1>4, <1>6
  <2>2. ~x[k] /\ z[k] /\ \A j \in 0..k - 1 : x[j] = z[j]
    BY Zenon, <1>2, <1>3, <2>1
  <2> QED
    BY Zenon, <1>1, <2>2 DEF Nearer, Less
<1> QED
  BY <1>4, <1>5, <1>6

\* Nothing is nearer than itself, and nothing than the target.
LEMMA NearerStrict ==
    ASSUME NEW a, NEW t \in ID PROVE ~Nearer(t, a, a) /\ ~Nearer(t, a, t)
<1>1. ~Nearer(t, a, a)
  BY Zenon DEF Nearer, Less
<1>2. \A i \in Index : ~XorID(t, t)[i]
  BY Zenon DEF XorID
<1> QED
  BY Zenon, <1>1, <1>2 DEF Nearer, Less

\* Of the n peers of a list, those nearer than a given one are fewer than n ...
LEMMA RankType ==
    ASSUME NEW S, S \subseteq ID, IsFiniteSet(S), NEW t \in ID, NEW p \in S
    PROVE  Rank(S, t, p) \in 0..Cardinality(S) - 1
<1> DEFINE R == {q \in S : Nearer(t, q, p)}
<1>1. R \in SUBSET S /\ R # S
  BY Zenon, NearerStrict
<1>2. IsFiniteSet(R) /\ Cardinality(R) <= Cardinality(S) /\ Cardinality(R) # Cardinality(S)
  BY Zenon, <1>1, FS_Subset
<1>3. Cardinality(R) \in Nat /\ Cardinality(S) \in Nat
  BY Zenon, <1>2, FS_CardinalityType
<1> QED
  BY <1>2, <1>3 DEF Rank

\* ... and more than those nearer than a nearer one.
LEMMA RankGrows ==
    ASSUME NEW S, S \subseteq ID, IsFiniteSet(S), NEW t \in ID, NEW p \in S, NEW q \in S, Nearer(t, p, q)
    PROVE  Rank(S, t, p) < Rank(S, t, q)
<1> DEFINE P == {x \in S : Nearer(t, x, p)}
           Q == {x \in S : Nearer(t, x, q)}
<1>1. P \in SUBSET Q
  <2>1. ASSUME NEW x \in S, Nearer(t, x, p) PROVE Nearer(t, x, q)
    <3>1. x \in ID /\ p \in ID /\ q \in ID
      BY Zenon
    <3> QED
      BY Zenon, <2>1, <3>1, NearerTransitive
  <2> QED
    BY Zenon, <2>1
<1>2. p \in Q /\ p \notin P
  BY Zenon, NearerStrict
<1>3. IsFiniteSet(Q) /\ IsFiniteSet(P)
  BY Zenon, FS_Subset
<1>4. Cardinality(P) <= Cardinality(Q) /\ Cardinality(Q) # Cardinality(P)
  BY Zenon, <1>1, <1>2, <1>3, FS_Subset
<1>5. Cardinality(P) \in Nat /\ Cardinality(Q) \in Nat
  BY Zenon, <1>3, FS_CardinalityType
<1> QED
  BY <1>4, <1>5 DEF Rank

\* Two peers with as many nearer ones are the same.
LEMMA RankInjective ==
    ASSUME NEW S, S \subseteq ID, IsFiniteSet(S), NEW t \in ID, NEW p \in S, NEW q \in S,
           Rank(S, t, p) = Rank(S, t, q)
    PROVE  p = q
<1> SUFFICES ASSUME p # q PROVE FALSE
  OBVIOUS
<1>1. Nearer(t, p, q) \/ Nearer(t, q, p)
  BY Zenon, NearerTotal
<1>2. Rank(S, t, p) < Rank(S, t, q) \/ Rank(S, t, q) < Rank(S, t, p)
  BY Zenon, <1>1, RankGrows
<1>3. Rank(S, t, p) \in Int
  BY RankType
<1> QED
  BY <1>2, <1>3

\* Every position of the sorted list is taken, by counting.
LEMMA RankOnto ==
    ASSUME NEW S, S \subseteq ID, IsFiniteSet(S), NEW t \in ID, NEW r \in 0..Cardinality(S) - 1
    PROVE  \E p \in S : Rank(S, t, p) = r
<1> DEFINE n == Cardinality(S)
           f == [p \in S |-> Rank(S, t, p)]
<1>1. n \in Nat
  BY Zenon, FS_CardinalityType
<1>2. f \in [S -> 0..n - 1]
  BY Zenon, RankType
<1>3. f \in Injection(S, 0..n - 1)
  <2>1. ASSUME NEW p \in S, NEW q \in S, f[p] = f[q] PROVE p = q
    BY Zenon, <2>1, RankInjective
  <2> HIDE DEF f
  <2> QED
    BY Zenon, <1>2, <2>1 DEF Injection, IsInjective
<1>4. IsFiniteSet(0..n - 1) /\ Cardinality(0..n - 1) = n
  BY <1>1, FS_Interval
<1> HIDE DEF f
<1>5. f \in Surjection(S, 0..n - 1)
  BY Zenon, <1>3, <1>4, FS_Injection
<1>6. PICK p \in S : f[p] = r
  BY Zenon, <1>5 DEF Surjection
<1> QED
  BY Zenon, <1>6 DEF f

Ordered(S, t, s) == \A i \in 1..Len(s) : Rank(S, t, s[i]) = i - 1

\* A sort is a list of the peers, each one once.
LEMMA Sorted ==
    ASSUME NEW S, S \subseteq ID, IsFiniteSet(S), NEW t \in ID, NEW s, s = SortByDistance(S, t)
    PROVE  /\ s \in Seq(S) /\ Len(s) = Cardinality(S) /\ Ordered(S, t, s)
           /\ \A p \in S : \E i \in 1..Len(s) : s[i] = p
<1> DEFINE n == Cardinality(S)
<1>1. n \in Nat
  BY Zenon, FS_CardinalityType
<1>2. ASSUME NEW i \in 1..n PROVE i - 1 \in 0..n - 1
  BY <1>1
<1>3. ASSUME NEW i \in 1..n PROVE s[i] \in S /\ Rank(S, t, s[i]) = i - 1
  <2>1. s[i] = CHOOSE p \in S : Rank(S, t, p) = i - 1
    BY Zenon DEF SortByDistance
  <2>2. \E p \in S : Rank(S, t, p) = i - 1
    BY Zenon, <1>2, RankOnto
  <2> QED
    BY Zenon, <2>1, <2>2
<1>4. s \in [1..n -> S]
  BY Zenon, <1>3 DEF SortByDistance
<1>5. s \in Seq(S) /\ Len(s) = n
  BY <1>1, <1>4
<1>6. ASSUME NEW p \in S PROVE \E i \in 1..n : s[i] = p
  <2>1. PICK r \in 0..n - 1 : Rank(S, t, p) = r
    BY Zenon, RankType
  <2>2. r + 1 \in 1..n /\ (r + 1) - 1 = r
    BY <1>1
  <2>3. s[r + 1] \in S /\ Rank(S, t, s[r + 1]) = r
    BY Zenon, <1>3, <2>2
  <2>4. s[r + 1] = p
    BY Zenon, <2>1, <2>3, RankInjective
  <2> QED
    BY Zenon, <2>2, <2>4
<1> QED
  BY Zenon, <1>3, <1>5, <1>6 DEF Ordered

\* The smaller of two numbers.
LEMMA MinOfTwo ==
    ASSUME NEW a \in Int, NEW b \in Int
    PROVE  Min({a, b}) = IF a <= b THEN a ELSE b
BY DEF Min

\* Every identity has its bucket.
LEMMA BucketIndex ==
    ASSUME NEW t PROVE BucketID(t) \in Index
<1> DEFINE d == XorID(t, self)
           D == {i \in Index : d[i]}
<1>1. Bits - 1 \in Index
  BY RoutingTableAssumption DEF Index
<1>2. CASE D = {}
  BY Zenon, <1>1, <1>2 DEF BucketID, PrefixLen
<1>3. CASE D # {}
  <2>1. D \subseteq Nat
    BY RoutingTableAssumption DEF Index
  <2>2. PICK m \in D : \A k \in D : m <= k
    BY Zenon, <1>3, <2>1, LeastOf
  <2>3. ASSUME NEW j \in 0..m - 1 PROVE j \in Index /\ ~(m <= j)
    BY <2>1, RoutingTableAssumption DEF Index
  <2>4. \E i \in Index : d[i] /\ \A j \in 0..i - 1 : ~d[j]
    BY Zenon, <2>2, <2>3
  <2> QED
    BY Zenon, <2>4 DEF BucketID, PrefixLen
<1> QED
  BY Zenon, <1>2, <1>3

\* The node and its peers have identities.
LEMMA KnownID == self \in Known /\ Known \subseteq ID
BY Zenon, RoutingTableAssumption DEF Known

\* What the loop has collected, out to a radius r.
LEMMA CollectedFinite ==
    ASSUME TypeOK, NEW b, NEW r
    PROVE  IsFiniteSet(Collected(b, r)) /\ Collected(b, r) \subseteq Known
<1>1. \A k \in Index : Range(buckets[k]) \subseteq Known
  BY DEF TypeOK, Range
<1>2. ASSUME NEW k \in Index PROVE IsFiniteSet(Range(buckets[k]))
  <2>1. buckets[k] \in Seq(Known)
    BY Zenon DEF TypeOK
  <2>2. Len(buckets[k]) \in Nat /\ DOMAIN buckets[k] = 1..Len(buckets[k])
    BY <2>1
  <2>3. IsFiniteSet(1..Len(buckets[k]))
    BY <2>2, FS_Interval
  <2>4. buckets[k] \in Surjection(1..Len(buckets[k]), Range(buckets[k]))
    BY <2>1, <2>2 DEF Surjection, Range
  <2> QED
    BY Zenon, <2>3, <2>4, FS_Surjection
<1> DEFINE K == Index \cap (b - r)..(b + r)
           f == [k \in K |-> Range(buckets[k])]
           F == {Range(buckets[k]) : k \in K}
<1>3. IsFiniteSet(K)
  <2>1. IsFiniteSet(Index)
    BY FS_Interval, RoutingTableAssumption DEF Index
  <2> QED
    BY Zenon, <2>1, FS_Subset
<1>4. f \in Surjection(K, F)
  BY Zenon DEF Surjection
<1> HIDE DEF K, f
<1>5. IsFiniteSet(F)
  BY Zenon, <1>3, <1>4, FS_Surjection
<1>6. \A T \in F : IsFiniteSet(T)
  BY Zenon, <1>2 DEF K
<1>7. IsFiniteSet(UNION F)
  BY Zenon, <1>5, <1>6, FS_UNION
<1>8. Collected(b, r) = UNION F
  BY Zenon DEF Collected, K
<1>9. UNION F \subseteq Known
  BY Zenon, <1>1 DEF K
<1> QED
  BY Zenon, <1>7, <1>8, <1>9

\* The whole table is within Bits of any bucket.
LEMMA CollectedAll ==
    ASSUME NEW b \in Index
    PROVE  Collected(b, Bits) = Members /\ \A r : Collected(b, r) \subseteq Members
<1>1. Index \cap (b - Bits)..(b + Bits) = Index
  BY RoutingTableAssumption DEF Index
<1>2. Collected(b, Bits) = Members
  BY Zenon, <1>1 DEF Collected, Members
<1>3. \A r : Collected(b, r) \subseteq Members
  BY Zenon DEF Collected, Members
<1> QED
  BY Zenon, <1>2, <1>3

\* The loop stops, at enough peers or with the whole table.
LEMMA RadiusFound ==
    ASSUME TypeOK, NEW b, NEW c \in Nat
    PROVE  /\ Radius(b, c) \in 0..Bits
           /\ Cardinality(Collected(b, Radius(b, c))) >= c \/ Radius(b, c) = Bits
<1> DEFINE Enough(r) == Cardinality(Collected(b, r)) >= c \/ r = Bits
           S == {r \in 0..Bits : Enough(r)}
<1>1. S \subseteq Nat /\ S # {}
  BY RoutingTableAssumption
<1>2. PICK m \in S : \A k \in S : m <= k
  BY Zenon, <1>1, LeastOf
<1>3. ASSUME NEW q \in 0..m - 1 PROVE Cardinality(Collected(b, q)) < c
  <2>1. q \in 0..Bits /\ ~(m <= q)
    BY <1>1, RoutingTableAssumption
  <2>2. ~(Cardinality(Collected(b, q)) >= c)
    BY Zenon, <1>2, <2>1
  <2>3. Cardinality(Collected(b, q)) \in Nat
    BY Zenon, CollectedFinite, FS_CardinalityType
  <2> QED
    BY <2>2, <2>3
<1>4. \E r \in 0..Bits : Enough(r) /\ \A q \in 0..r - 1 : Cardinality(Collected(b, q)) < c
  BY Zenon, <1>2, <1>3
<1> QED
  BY Zenon, <1>4 DEF Radius

\* FindClosestPeers returns different peers, as many as there are up to n, and
\* the target first if it is in the table.
LEMMA FoundPeers ==
    ASSUME TypeOK, NEW t \in Known, NEW n \in Nat, NEW found, found = FindClosestPeers(t, n)
    PROVE  /\ found \in Seq(Known) /\ Distinct(found)
           /\ Len(found) = Min({n, Cardinality(Members)})
           /\ PeerExists(t) /\ n # 0 => found[1] = t
<1>1. PICK b \in Index : b = BucketID(t)
  BY Zenon, BucketIndex
<1>2. PICK r \in 0..Bits : r = Radius(b, n) /\ (Cardinality(Collected(b, r)) >= n \/ r = Bits)
  BY Zenon, RadiusFound
<1>3. PICK S : S = Collected(b, r)
  OBVIOUS
<1>4. S \subseteq Known /\ S \subseteq ID /\ IsFiniteSet(S) /\ Cardinality(S) \in Nat /\ t \in ID
  BY Zenon, <1>3, CollectedFinite, KnownID, FS_CardinalityType
<1>5. PICK s : s = SortByDistance(S, t)
  OBVIOUS
<1>6. s \in Seq(S) /\ Len(s) = Cardinality(S) /\ \A i \in 1..Len(s) : Rank(S, t, s[i]) = i - 1
  <2>1. s \in Seq(S) /\ Len(s) = Cardinality(S) /\ Ordered(S, t, s)
    BY Zenon, <1>4, <1>5, Sorted
  <2> QED
    BY Zenon, <2>1 DEF Ordered
<1>7. PICK m \in Nat : m = Min({n, Len(s)}) /\ m = IF n <= Len(s) THEN n ELSE Len(s)
  BY <1>6, MinOfTwo
<1>8. found = SubSeq(s, 1, m)
  BY Zenon, <1>1, <1>2, <1>3, <1>5, <1>7 DEF FindClosestPeers
<1>9. found \in Seq(S) /\ Len(found) = m /\ m <= Len(s) /\ \A i \in 1..m : found[i] = s[i]
  <2>1. m <= Len(s)
    BY <1>6, <1>7
  <2>2. SubSeq(s, 1, m) \in Seq(S) /\ Len(SubSeq(s, 1, m)) = m
    BY <1>6, <2>1
  <2>3. \A i \in 1..m : SubSeq(s, 1, m)[i] = s[i]
    BY <1>6, <2>1
  <2> QED
    BY Zenon, <1>8, <2>1, <2>2, <2>3
<1>10. found \in Seq(Known)
  BY <1>4, <1>9
<1>11. Distinct(found)
  <2>1. \A i \in 1..m : Rank(S, t, found[i]) = i - 1
    BY <1>6, <1>9
  <2> QED
    BY <1>9, <2>1 DEF Distinct
<1>12. Len(found) = Min({n, Cardinality(Members)})
  <2>1. Members = Collected(b, Bits) /\ S \subseteq Members
    BY Zenon, <1>3, CollectedAll
  <2>2. IsFiniteSet(Members)
    BY Zenon, <2>1, CollectedFinite
  <2>3. Cardinality(Members) \in Nat /\ Cardinality(S) <= Cardinality(Members)
    BY Zenon, <2>1, <2>2, FS_Subset, FS_CardinalityType
  <2>4. Cardinality(S) >= n \/ Cardinality(S) = Cardinality(Members)
    BY Zenon, <1>2, <1>3, <2>1
  <2>5. Min({n, Cardinality(Members)}) = IF n <= Cardinality(Members) THEN n ELSE Cardinality(Members)
    BY <2>3, MinOfTwo
  <2> QED
    BY <1>4, <1>6, <1>7, <1>9, <2>3, <2>4, <2>5
<1>13. ASSUME PeerExists(t), n # 0 PROVE found[1] = t
  <2>1. t \in S
    <3>1. b \in Index \cap (b - r)..(b + r)
      BY RoutingTableAssumption DEF Index
    <3>2. t \in Range(buckets[b])
      BY <1>1, <1>13 DEF PeerExists, In, Range, TypeOK
    <3> QED
      BY Zenon, <1>3, <3>1, <3>2 DEF Collected
  <2>2. {q \in S : Nearer(t, q, t)} = {}
    BY Zenon, <1>4, NearerStrict
  <2>3. Rank(S, t, t) = 0
    BY Zenon, <2>2, FS_EmptySet DEF Rank
  <2>4. Len(s) # 0
    BY Zenon, <1>4, <1>6, <2>1, FS_EmptySet
  <2>5. 1 \in 1..m /\ 1 \in 1..Len(s)
    BY <1>6, <1>7, <1>13, <2>4
  <2>6. s[1] \in S /\ Rank(S, t, s[1]) = 0
    BY <1>6, <2>5
  <2>7. s[1] = t
    BY Zenon, <1>4, <2>1, <2>3, <2>6, RankInjective
  <2> QED
    BY Zenon, <1>9, <2>5, <2>7
<1> QED
  BY Zenon, <1>10, <1>11, <1>12, <1>13

\* FindClosestPeers returns enough peers, and the target first if the table has it
\* (dht/routes.go), whatever the table's operations have made of it.
THEOREM TableClosestEnough == Spec => []ClosestEnough
<1>1. ASSUME TypeOK PROVE ClosestEnough
  <2>1. ASSUME NEW t \in Known, NEW n \in 1..Cardinality(Known), NEW found, found = FindClosestPeers(t, n)
        PROVE  Len(found) = Min({n, Cardinality(Members)}) /\ (PeerExists(t) => found[1] = t)
    <3>1. n \in Nat /\ n # 0
      OBVIOUS
    <3> QED
      BY Zenon, <1>1, <2>1, <3>1, FoundPeers
  <2> QED
    BY Zenon, <2>1 DEF ClosestEnough
<1> QED
  BY <1>1, TableInductive, PTL DEF IInv

\* The same of a node that runs the discovery component.
THEOREM DiscoveryClosestEnough == DiscoverySpec => []ClosestEnough
BY DiscoveryUsesTable, TableClosestEnough, PTL DEF UsesTable
-----------------------------------------------------------------------------
(* FindNode: a peer that was queried, or waits for it in the queue of a     *)
(* lookup, is marked, and it is in one queue only.                          *)

QueueOK(Q) == \A p \in Q : p \in Peers /\ p \in visited /\ asks[p] = 0

QueryInv ==
    /\ target \in Known
    /\ asks \in [Peers -> {0, 1}]
    /\ \A p \in Peers : asks[p] = 1 => p \in visited
    /\ \A Q \in lookups : QueueOK(Q)
    /\ \A Q, R \in lookups : Q # R => Q \cap R = {}
    /\ fpc = "update" => lookups = {}

\* A step that asks nobody and leaves the lookups alone.
LEMMA QueryStill ==
    ASSUME QueryInv, UNCHANGED <<asks, visited, lookups>>, target' \in Known,
           fpc' = "update" => fpc = "update" \/ lookups = {}
    PROVE  QueryInv'
<1>1. \A Q : QueueOK(Q) => QueueOK(Q)'
  BY Zenon DEF QueueOK
<1> QED
  BY Zenon, <1>1 DEF QueryInv

\* go queryPeerByIDExt for peers that were not queried.
LEMMA AskOnce ==
    ASSUME asks \in [Peers -> {0, 1}], NEW Q, \A p \in Q : p \in Peers => asks[p] = 0, Ask(Q)
    PROVE  asks' \in [Peers -> {0, 1}] /\ \A p \in Peers : asks'[p] = IF p \in Q THEN 1 ELSE asks[p]
<1>1. asks' = [p \in Peers |-> asks[p] + AsBag(Q)[p]]
  BY Zenon DEF Ask, Plus
<1>2. \A p \in Peers : AsBag(Q)[p] = IF p \in Q THEN 1 ELSE 0
  BY Zenon DEF AsBag
<1>3. \A p \in Peers : asks'[p] = IF p \in Q THEN 1 ELSE asks[p]
  BY <1>1, <1>2
<1> QED
  BY Zenon, <1>1, <1>3

\* A lookup gets the mutex and queries its queue.
LEMMA BeginLookupInv ==
    ASSUME QueryInv, BeginLookup
    PROVE  QueryInv'
<1>1. PICK Q \in lookups : lookups' = lookups \ {Q} /\ Ask(Q)
  BY Zenon DEF BeginLookup
<1>2. UNCHANGED <<target, visited>> /\ fpc' = "receive"
  BY Zenon DEF BeginLookup
<1>3. QueueOK(Q) /\ asks \in [Peers -> {0, 1}] /\ target \in Known
  BY Zenon DEF QueryInv
<1>4. asks' \in [Peers -> {0, 1}] /\ \A p \in Peers : asks'[p] = IF p \in Q THEN 1 ELSE asks[p]
  BY Zenon, <1>1, <1>3, AskOnce DEF QueueOK
<1>5. \A p \in Peers : asks'[p] = 1 => p \in visited'
  BY Zenon, <1>2, <1>3, <1>4 DEF QueryInv, QueueOK
<1>6. ASSUME NEW R \in lookups' PROVE QueueOK(R)'
  <2>1. R \in lookups /\ R # Q
    BY Zenon, <1>1
  <2>2. QueueOK(R) /\ R \cap Q = {}
    BY Zenon, <2>1 DEF QueryInv
  <2> QED
    BY Zenon, <1>2, <1>4, <2>2 DEF QueueOK
<1>7. \A R, S \in lookups' : R # S => R \cap S = {}
  BY Zenon, <1>1 DEF QueryInv
<1> QED
  BY Zenon, <1>2, <1>3, <1>4, <1>5, <1>6, <1>7 DEF QueryInv

\* A peer that is scheduled was not visited, so it is in no queue either.
LEMMA ScheduleInv ==
    ASSUME QueryInv, Schedule
    PROVE  QueryInv'
<1>1. PICK Q : Q \cap visited = {} /\ Ask(Q) /\ visited' = visited \cup Q
  BY Zenon DEF Schedule
<1>2. UNCHANGED <<target, lookups>> /\ fpc' # "update"
  BY Zenon DEF Schedule, LookupLoop
<1>3. asks \in [Peers -> {0, 1}] /\ target \in Known
  BY Zenon DEF QueryInv
<1>4. \A p \in Q : p \in Peers => asks[p] = 0
  BY Zenon, <1>1, <1>3 DEF QueryInv
<1>5. asks' \in [Peers -> {0, 1}] /\ \A p \in Peers : asks'[p] = IF p \in Q THEN 1 ELSE asks[p]
  BY Zenon, <1>1, <1>3, <1>4, AskOnce
<1>6. \A p \in Peers : asks'[p] = 1 => p \in visited'
  BY Zenon, <1>1, <1>5 DEF QueryInv
<1>7. ASSUME NEW R \in lookups PROVE QueueOK(R)'
  <2>1. QueueOK(R)
    BY Zenon DEF QueryInv
  <2> QED
    BY Zenon, <1>1, <1>5, <2>1 DEF QueueOK
<1> QED
  BY Zenon, <1>2, <1>3, <1>5, <1>6, <1>7 DEF QueryInv

\* The queues that FindNode makes of the first peers.
FirstQueues(first) ==
    LET Others == {i \in DOMAIN first : first[i] # self}
    IN  {{first[i] : i \in {j \in Others : Slot(j) = d}} : d \in {Slot(i) : i \in Others}}

\* The first peers come once each, so no two queues share one.
LEMMA FindNodeInv ==
    ASSUME TypeOK, QueryInv, FindNode
    PROVE  QueryInv'
<1> DEFINE closest == FindClosestPeers(target, Alpha)
<1>1. closest \in Seq(Known) /\ Distinct(closest)
  BY Zenon, FoundPeers, DiscoveryAssumption DEF QueryInv
<1>2. UNCHANGED target /\ fpc' # "update"
  BY Zenon DEF FindNode
<1>3. CASE UNCHANGED <<lookups, visited, asks>>
  BY Zenon, <1>2, <1>3, QueryStill DEF QueryInv
<1>4. CASE lookups' = FirstQueues(closest) /\ visited' = Marked(closest) /\ asks' = NoPeers
  <2>1. PICK first : first = closest
    OBVIOUS
  <2> DEFINE O == {i \in DOMAIN first : first[i] # self}
             Q(d) == {first[i] : i \in {j \in O : Slot(j) = d}}
  <2>2. lookups' = {Q(d) : d \in {Slot(i) : i \in O}} /\ visited' = Marked(first)
    <3>1. lookups' = FirstQueues(first) /\ visited' = Marked(first)
      BY Zenon, <1>4, <2>1
    <3> QED
      BY Zenon, <3>1 DEF FirstQueues
  <2>3. first \in Seq(Known) /\ Distinct(first)
    BY Zenon, <1>1, <2>1
  <2>4. asks' \in [Peers -> {0, 1}] /\ \A p \in Peers : asks'[p] = 0
    BY Zenon, <1>4 DEF NoPeers
  <2>5. \A p \in Peers : asks'[p] # 1
    BY <2>4
  <2>6. ASSUME NEW i \in O PROVE first[i] \in Peers /\ first[i] \in visited'
    <3>1. first[i] \in Known /\ first[i] # self
      BY <2>3
    <3>2. first[i] \in Range(first)
      BY Zenon DEF Range
    <3> QED
      BY Zenon, <2>2, <3>1, <3>2 DEF Known, Marked
  <2>7. ASSUME NEW R \in lookups' PROVE \E d : R = Q(d)
    BY Zenon, <2>2
  <2>8. ASSUME NEW R \in lookups', NEW p \in R PROVE p \in Peers /\ p \in visited' /\ asks'[p] = 0
    <3>1. PICK d : R = Q(d)
      BY Zenon, <2>7
    <3>2. PICK i \in O : p = first[i]
      BY Zenon, <3>1
    <3> QED
      BY Zenon, <2>4, <2>6, <3>2
  <2>9. ASSUME NEW R \in lookups' PROVE QueueOK(R)'
    BY Zenon, <2>8 DEF QueueOK
  <2>10. ASSUME NEW R \in lookups', NEW S \in lookups', NEW p \in R, p \in S PROVE R = S
    <3>1. PICK c : R = Q(c)
      BY Zenon, <2>7
    <3>2. PICK d : S = Q(d)
      BY Zenon, <2>7
    <3>3. PICK i \in {j \in O : Slot(j) = c} : first[i] = p
      BY Zenon, <2>10, <3>1
    <3>4. PICK j \in {k \in O : Slot(k) = d} : first[j] = p
      BY Zenon, <2>10, <3>2
    <3>5. i = j
      BY <2>3, <3>3, <3>4 DEF Distinct
    <3> QED
      BY Zenon, <3>1, <3>2, <3>5
  <2>11. \A R, S \in lookups' : R # S => R \cap S = {}
    BY Zenon, <2>10
  <2>12. target' \in Known
    BY Zenon, <1>2 DEF QueryInv
  <2> QED
    BY Zenon, <1>2, <2>4, <2>5, <2>9, <2>11, <2>12 DEF QueryInv
<1> QED
  BY Zenon, <1>3, <1>4 DEF FindNode, FirstQueues

\* Whatever its lookups are told, and however their results arrive, FindNode
\* queries no peer twice (dht discovery: FindNode, performLookupClosest).
THEOREM DiscoveryQueriesOnce == DiscoverySpec => []QueriedOnce
<1>1. ASSUME DiscoveryInit PROVE QueryInv
  <2>1. NoPeers \in [Peers -> {0, 1}] /\ \A p \in Peers : NoPeers[p] # 1
    BY DEF NoPeers
  <2> QED
    BY Zenon, <1>1, <2>1, KnownID DEF DiscoveryInit, QueryInv
<1>2. ASSUME TypeOK, QueryInv, [DiscoveryNext]_vars PROVE QueryInv'
  <2>1. CASE UNCHANGED vars
    BY Zenon, <1>2, <2>1, QueryStill DEF vars, queries, QueryInv
  <2>2. ASSUME NEW p \in Peers, Receive(p) \/ PeerDisconnect(p) \/ Result(p) \/ Apply(p) \/ UpdateFound(p) PROVE QueryInv'
    BY Zenon, <1>2, <2>2, QueryStill
       DEF Receive, PeerDisconnect, Result, Apply, UpdateFound, queries, QueryInv
  <2>3. ASSUME NEW p \in Peers, Pong(p) PROVE QueryInv'
    BY Zenon, <1>2, <2>3, QueryStill DEF Pong, queries, Known
  <2>4. ASSUME NEW p \in Peers, NEW q \in Peers, Online(p, q) PROVE QueryInv'
    BY Zenon, <1>2, <2>4, QueryStill DEF Online, QueryInv
  <2>5. CASE UpdateSelf \/ Return
    BY Zenon, <1>2, <2>5, QueryStill DEF UpdateSelf, Return, queries, QueryInv
  <2>6. CASE Bootstrapped
    <3>1. /\ lookups' = {} /\ target' = self /\ asks' = NoPeers /\ fpc' = "idle"
          /\ NoPeers \in [Peers -> {0, 1}] /\ \A p \in Peers : NoPeers[p] = 0
      BY Zenon, <1>2, <2>6 DEF Bootstrapped, QueryInv, NoPeers
    <3>2. \A p \in Peers : NoPeers[p] # 1
      BY <3>1
    <3> QED
      BY Zenon, <3>1, <3>2, KnownID DEF QueryInv
  <2> QED
    BY Zenon, <1>2, <2>1, <2>2, <2>3, <2>4, <2>5, <2>6, BeginLookupInv, ScheduleInv, FindNodeInv
       DEF DiscoveryNext, Network, Handler
<1>3. QueryInv => QueriedOnce
  BY DEF QueryInv, QueriedOnce
<1>4. DiscoverySpec => []TypeOK
  BY DiscoveryUsesTable, TableInductive, PTL DEF UsesTable, IInv
<1> QED
  BY <1>1, <1>2, <1>3, <1>4, PTL DEF DiscoverySpec
=============================================================================
