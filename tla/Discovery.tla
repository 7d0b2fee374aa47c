----------------------------- MODULE Discovery -----------------------------
(***************************************************************************)
(* The discovery component over a RoutingTable: Receive and PeerDisconnect *)
(* on behalf of the network, and one FindNode, started by a Pong, with its *)
(* lookups, its query goroutines and the update of the table with what it  *)
(* found.  Other FindNodes and messages that run beside it are seen in     *)
(* what they do to the table.                                              *)
(*                                                                         *)
(* The lists of peers that FindNode sorts are bags here: performLookup-    *)
(* Closest compares the entries of results while it sorts lookup.queue,    *)
(* and FindNode compares identities whose Id is empty, so the order of     *)
(* either is arbitrary, and a cut keeps any sub-bag of the right size.     *)
(***************************************************************************)
EXTENDS RoutingTable

CONSTANTS
    Alpha,          \* queries at a time
    DisjointPaths   \* lookups

ASSUME DiscoveryAssumption == Alpha \in Nat \ {0} /\ DisjointPaths \in Nat \ {0}

VARIABLES
    fpc, target,    \* position of the handler of the Pong, and its sender
    lookups,        \* queues of the lookups that have not had the mutex yet
    visited,        \* shared by the lookups
    known, queue, pending, resp,    \* of the lookup at work; resp: what is left of a response
    results,
    asked, valid,   \* query goroutines that have not sent their result; their validPeers
    asks            \* history: how often FindNode has queried a peer

lookup == <<known, queue, pending, resp>>
queries == <<asked, valid, asks>>
vars == <<buckets, fpc, target, lookups, visited, lookup, results, queries>>

NoPeers == [p \in Peers |-> 0]
AsBag(S) == [p \in Peers |-> IF p \in S THEN 1 ELSE 0]
Plus(b, c) == [p \in Peers |-> b[p] + c[p]]
Size(b) == FoldFunction(+, 0, b)
Support(b) == {p \in Peers : b[p] > 0}

\* What a sort in any order and a cut to BucketSize may leave of a list.
Cuts(b) ==
    IF Size(b) <= BucketSize THEN {b}
    ELSE {c \in [Peers -> 0..BucketSize] : Size(c) = BucketSize /\ \A p \in Peers : c[p] <= b[p]}

DiscoveryInit ==
    /\ Init
    /\ fpc = "idle" /\ target = self
    /\ lookups = {} /\ visited = {}
    /\ known = {} /\ queue = NoPeers /\ pending = 0 /\ resp = {}
    /\ results = NoPeers
    /\ asked = {} /\ valid = [p \in Peers |-> {}] /\ asks = NoPeers

(***************************************************************************)
(* The network.                                                            *)
(***************************************************************************)
Receive(p) ==
    /\ fpc # "crashed"
    /\ Update(p)
    /\ UNCHANGED <<fpc, target, lookups, visited, lookup, results, queries>>

PeerDisconnect(p) ==
    /\ fpc # "crashed"
    /\ RemovePeer(p)
    /\ UNCHANGED <<fpc, target, lookups, visited, lookup, results, queries>>

\* The application has given the node another address; its ID stays the same.
UpdateSelf ==
    /\ fpc # "crashed"
    /\ Update(self)
    /\ UNCHANGED <<fpc, target, lookups, visited, lookup, results, queries>>

(***************************************************************************)
(* FindNode.                                                               *)
(***************************************************************************)
Pong(p) ==
    /\ fpc = "idle"
    /\ Update(p)
    /\ target' = p /\ fpc' = "find"
    /\ UNCHANGED <<lookups, visited, lookup, results, queries>>

\* closest[i] goes to the lookup i % DisjointPaths, while a lookup is added
\* only for an entry other than self.
Slot(i) == (i - 1) % DisjointPaths
Opened(closest, i) ==
    Min({Cardinality({j \in 1..i : closest[j] # self}), DisjointPaths})

\* A mutant: the first peers are not marked.
MarkedSelf(closest) == {self}

Marked(closest) == Range(closest) \cup {self}

FindNode ==
    /\ fpc = "find"
    /\ LET closest == FindClosestPeers(target, Alpha)
           Others == {i \in DOMAIN closest : closest[i] # self}
       IN IF \E i \in Others : Slot(i) >= Opened(closest, i)
          THEN fpc' = "crashed" /\ UNCHANGED <<lookups, visited, results, asks>>
          ELSE /\ fpc' = "wait"
               /\ lookups' = {{closest[i] : i \in {j \in Others : Slot(j) = d}} : d \in {Slot(i) : i \in Others}}
               /\ visited' = Marked(closest)
               /\ results' = AsBag(Range(closest))
               /\ asks' = NoPeers
    /\ UNCHANGED <<buckets, target, lookup, asked, valid>>

\* go queryPeerByIDExt for every peer of Q.
Ask(Q) ==
    /\ asked' = asked \cup Q
    /\ asks' = Plus(asks, AsBag(Q))

\* A lookup gets the mutex and queries its whole queue, which FindNode has
\* filled with Alpha peers at most.
BeginLookup ==
    /\ fpc = "wait"
    /\ \E Q \in lookups :
        /\ lookups' = lookups \ {Q}
        /\ Ask(Q)
        /\ known' = Q /\ pending' = Cardinality(Q)
    /\ fpc' = "receive"
    /\ UNCHANGED <<buckets, target, visited, queue, resp, results, valid>>

(***************************************************************************)
(* queryPeerByIDExt: peer p names q; q is a client already, or Bootstrap   *)
(* reaches it.  A query that fails has no validPeers.                      *)
(***************************************************************************)
Online(p, q) ==
    /\ fpc # "crashed"
    /\ p \in asked /\ q \notin valid[p]
    /\ valid' = [valid EXCEPT ![p] = @ \cup {q}]
    /\ Update(q) \/ UNCHANGED buckets
    /\ UNCHANGED <<fpc, target, lookups, visited, lookup, results, asked, asks>>

\* A mutant: the result is not taken off pending.
ResultUncounted(p) ==
    /\ fpc = "receive" /\ p \in asked
    /\ asked' = asked \ {p}
    /\ resp' = valid[p] /\ valid' = [valid EXCEPT ![p] = {}]
    /\ IF valid[p] = {} /\ PeerExists(p) THEN RemovePeer(p) ELSE UNCHANGED buckets
    /\ fpc' = "apply"
    /\ UNCHANGED <<target, lookups, visited, known, queue, pending, results, asks>>

\* A peer that gave no valid peers leaves the table.
Result(p) ==
    /\ fpc = "receive" /\ p \in asked
    /\ asked' = asked \ {p}
    /\ pending' = pending - 1
    /\ resp' = valid[p] /\ valid' = [valid EXCEPT ![p] = {}]
    /\ IF valid[p] = {} /\ PeerExists(p) THEN RemovePeer(p) ELSE UNCHANGED buckets
    /\ fpc' = "apply"
    /\ UNCHANGED <<target, lookups, visited, known, queue, results, asks>>

Apply(q) ==
    /\ fpc = "apply" /\ q \in resp
    /\ resp' = resp \ {q}
    /\ Update(q)
    /\ LET new == IF q \in known THEN NoPeers ELSE AsBag({q}) IN
        queue' = Plus(queue, new) /\ results' = Plus(results, new)
    /\ UNCHANGED <<fpc, target, lookups, visited, known, pending, queries>>

\* The loop of performLookupClosest goes on while results are pending.
LookupLoop(cut) ==
    IF pending' > 0
    THEN fpc' = "receive" /\ queue' = cut /\ UNCHANGED known
    ELSE fpc' = "wait" /\ queue' = NoPeers /\ known' = {}

Room(fresh) == Min({Cardinality(fresh), Alpha - pending})

\* The queue is sorted and cut, and searched from its front for peers to
\* query while there is room; the queue keeps them.
Schedule ==
    /\ fpc = "apply" /\ resp = {}
    /\ \E cut \in Cuts(queue) :
        LET fresh == Support(cut) \ visited IN
        \E Q \in SUBSET fresh :
            /\ Cardinality(Q) = Room(fresh)
            /\ Ask(Q)
            /\ visited' = visited \cup Q
            /\ pending' = pending + Cardinality(Q)
            /\ LookupLoop(cut)
    /\ UNCHANGED <<buckets, target, lookups, resp, results, valid>>

\* FindNode returns the cut results and the handler updates the table.
Return ==
    /\ fpc = "wait" /\ lookups = {}
    /\ \E cut \in Cuts(results) : resp' = Support(cut)
    /\ fpc' = "update"
    /\ UNCHANGED <<buckets, target, lookups, visited, known, queue, pending, results, queries>>

UpdateFound(q) ==
    /\ fpc = "update" /\ q \in resp
    /\ Update(q)
    /\ resp' = resp \ {q}
    /\ UNCHANGED <<fpc, target, lookups, visited, known, queue, pending, results, queries>>

Bootstrapped ==
    /\ fpc = "update" /\ resp = {}
    /\ fpc' = "idle"
    /\ target' = self /\ visited' = {} /\ results' = NoPeers /\ asks' = NoPeers
    /\ UNCHANGED <<buckets, lookups, lookup, asked, valid>>

Network == UpdateSelf \/ \E p \in Peers : Receive(p) \/ PeerDisconnect(p) \/ Pong(p)

Handler ==
    \/ FindNode \/ BeginLookup \/ Schedule \/ Return \/ Bootstrapped
    \/ \E p \in Peers : Result(p) \/ Apply(p) \/ UpdateFound(p)

DiscoveryNext == Network \/ Handler \/ \E p, q \in Peers : Online(p, q)

DiscoverySpec == DiscoveryInit /\ [][DiscoveryNext]_vars
FairSpec == DiscoverySpec /\ WF_vars(Handler)

(***************************************************************************)
(* Properties.                                                             *)
(***************************************************************************)
\* Over all its lookups, FindNode queries no peer twice: visited is marked
\* before the goroutine starts, and shared by the lookups.
QueriedOnce == \A p \in Peers : asks[p] <= 1

\* FindNode ends: what it queries is bounded by visited and every query has a
\* timeout.  It ends without a result if it indexes past the lookups.
FindNodeEnds == (fpc = "find") ~> fpc \in {"idle", "crashed"}

\* The handlers of the component use the table by its own operations only.
UsesTable == Spec
=============================================================================
