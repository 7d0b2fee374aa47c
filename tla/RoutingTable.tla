--------------------------- MODULE RoutingTable ---------------------------
(***************************************************************************)
(* The Kademlia routing table of package dht and the distance of package   *)
(* peer.  An identity is its bits, most significant first; the address and *)
(* the key that travel with it are left out.  A bucket is a list with the  *)
(* most recently updated peer in front.  Every operation on a bucket holds *)
(* the mutex of that bucket and is one step.                               *)
(***************************************************************************)
EXTENDS Integers, Sequences, FiniteSets, FiniteSetsExt, Functions

CONSTANTS
    Bits,           \* len(id.Id) * 8
    BucketSize,
    self,           \* the identity of the node that hosts the table
    Peers           \* the other identities of the network

Index == 0..Bits - 1
ID == [Index -> BOOLEAN]

ASSUME RoutingTableAssumption ==
    /\ Bits \in Nat \ {0} /\ BucketSize \in Nat
    /\ self \in ID /\ Peers \subseteq ID \ {self}

Known == Peers \cup {self}

VARIABLE buckets    \* per prefix length, a sequence of identities

(***************************************************************************)
(* Distances.                                                              *)
(***************************************************************************)
XorID(a, b) == [i \in Index |-> a[i] # b[i]]

\* Zero has Bits - 1 leading zeros, not Bits: self and the peers that differ
\* in the last bit share a bucket.
PrefixLen(d) ==
    IF \E i \in Index : d[i]
    THEN CHOOSE i \in Index : d[i] /\ \A j \in 0..i - 1 : ~d[j]
    ELSE Bits - 1

Less(a, b) == \E i \in Index : ~a[i] /\ b[i] /\ \A j \in 0..i - 1 : a[j] = b[j]

Nearer(target, a, b) == Less(XorID(a, target), XorID(b, target))

BucketID(target) == PrefixLen(XorID(target, self))

(***************************************************************************)
(* Buckets.                                                                *)
(***************************************************************************)
In(bucket, target) == \E i \in 1..Len(bucket) : bucket[i] = target

Element(bucket, target) == CHOOSE i \in 1..Len(bucket) : bucket[i] = target

MoveToFront(bucket, e) ==
    [i \in 1..Len(bucket) |->
        IF i = 1 THEN bucket[e] ELSE IF i <= e THEN bucket[i - 1] ELSE bucket[i]]

PushFront(bucket, target) ==
    [i \in 1..Len(bucket) + 1 |-> IF i = 1 THEN target ELSE bucket[i - 1]]

RemoveElement(bucket, e) ==
    [i \in 1..Len(bucket) - 1 |-> IF i < e THEN bucket[i] ELSE bucket[i + 1]]

TypeOK == buckets \in [Index -> Seq(Known)]

Empty == [i \in Index |-> <<>>]

Init == buckets = [Empty EXCEPT ![BucketID(self)] = PushFront(@, self)]

\* A mutant: the bucket is not searched first.
UpdatedAlways(bucket, target) ==
    IF Len(bucket) <= BucketSize THEN PushFront(bucket, target) ELSE bucket

Updated(bucket, target) ==
    CASE In(bucket, target) -> MoveToFront(bucket, Element(bucket, target))
      [] ~In(bucket, target) /\ Len(bucket) <= BucketSize -> PushFront(bucket, target)
      [] OTHER -> bucket

Update(target) ==
    buckets' = [buckets EXCEPT ![BucketID(target)] = Updated(@, target)]

RemovePeer(target) ==
    /\ In(buckets[BucketID(target)], target)
    /\ buckets' = [buckets EXCEPT ![BucketID(target)] =
                        RemoveElement(@, Element(@, target))]

PeerExists(target) == In(buckets[BucketID(target)], target)

Next == \E t \in Known : Update(t) \/ RemovePeer(t)

Spec == Init /\ [][Next]_buckets

(***************************************************************************)
(* FindClosestPeers collects the bucket of the target, then the buckets at *)
(* distance 1, 2, ... of it on both sides until there are count peers, and *)
(* keeps the count nearest of what it collected.                           *)
(***************************************************************************)
Collected(b, r) == UNION {Range(buckets[k]) : k \in Index \cap (b - r)..(b + r)}

\* A mutant: the loop stops when one of the two sides is outside the table.
RadiusOneSided(b, count) ==
    CHOOSE r \in 0..Bits :
        /\ Cardinality(Collected(b, r)) >= count \/ b - r <= 0 \/ b + r >= Bits - 1
        /\ \A q \in 0..r - 1 : Cardinality(Collected(b, q)) < count /\ b - q > 0 /\ b + q < Bits - 1

Radius(b, count) ==
    CHOOSE r \in 0..Bits :
        /\ Cardinality(Collected(b, r)) >= count \/ r = Bits
        /\ \A q \in 0..r - 1 : Cardinality(Collected(b, q)) < count

\* sort.Slice: the peer at i has i - 1 nearer ones.
Rank(peers, target, p) == Cardinality({q \in peers : Nearer(target, q, p)})
SortByDistance(peers, target) ==
    [i \in 1..Cardinality(peers) |-> CHOOSE p \in peers : Rank(peers, target, p) = i - 1]

FindClosestPeers(target, count) ==
    LET b == BucketID(target)
        peers == SortByDistance(Collected(b, Radius(b, count)), target)
    IN SubSeq(peers, 1, Min({count, Len(peers)}))

(***************************************************************************)
(* Properties.                                                             *)
(***************************************************************************)
Members == UNION {Range(buckets[k]) : k \in Index}

\* Every peer is listed at most once in the whole table and in the bucket of
\* its distance, which is the only one RemovePeer and PeerExists search: else
\* a peer that is removed would still be handed out.  A bucket holds one peer
\* more than BucketSize at most.
PlacedIn(k) ==
    /\ Len(buckets[k]) <= BucketSize + 1
    /\ \A i \in 1..Len(buckets[k]) : BucketID(buckets[k][i]) = k
    /\ \A i, j \in 1..Len(buckets[k]) : buckets[k][i] = buckets[k][j] => i = j

Placed == \A k \in Index : PlacedIn(k)

\* FindClosestPeers returns as many peers as it is asked for if the table has
\* them, and the target itself comes first whenever the table has it: the
\* search over the buckets stops neither too early nor past the ends.
ClosestEnough ==
    \A t \in Known, n \in 1..Cardinality(Known) :
        LET found == FindClosestPeers(t, n) IN
            /\ Len(found) = Min({n, Cardinality(Members)})
            /\ PeerExists(t) => found[1] = t

\* What routes.go says of FindClosestPeers: it returns the count peers with
\* the smallest distance.  The buckets above the target's are all nearer to it
\* than the buckets below, but the code collects both sides in step.
ClosestAreClosest ==
    \A t \in Known, n \in 1..Cardinality(Known) :
        \A p \in Range(FindClosestPeers(t, n)), q \in Members \ Range(FindClosestPeers(t, n)) :
            Nearer(t, p, q)
=============================================================================
