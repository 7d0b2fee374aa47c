------------------------------ MODULE Resolver ------------------------------
(***************************************************************************)
(* Addresses: parsing, the resolution of hosts through the LRU cache of    *)
(* types/lru, and FilterPeers, which Bootstrap applies to its list.        *)
(*                                                                         *)
(* An address is a record [text, protocol, host, port]; text "bad" stands  *)
(* for one that does not parse, "" for an empty one.  The cache is locked  *)
(* for the whole of Get, the lookup included, so that Get is one step.     *)
(* LookupHost is the resolver of the system: it may fail, and may give     *)
(* another address the next time.                                          *)
(***************************************************************************)
EXTENDS Integers, Sequences, Functions

CONSTANTS
    HostNames,      \* host names that must be looked up
    HostIPs,        \* literal IP addresses; V6Local is ::1, V4Local 127.0.0.1
    V6Local, V4Local,
    Limit,          \* of the cache; 1000 in the code
    Peers,          \* addresses given to FilterPeers
    Own,            \* the unified address of the node
    MaxList         \* bound: length of a list of peers

ASSUME ResolverAssumption == Limit \in Nat \ {0} /\ {V6Local, V4Local} \subseteq HostIPs

VARIABLES
    order, items,               \* Cache: keys from the front to the back, values
    recency,                    \* keys of successful calls, the last one first
    peers, visited, filtered    \* FilterPeers: what is left of its argument, and its locals

resolverVars == <<order, items, recency, peers, visited, filtered>>

ResolverInit ==
    /\ order = <<>> /\ items = [k \in {} |-> k] /\ recency = <<>>
    /\ peers \in UNION {[1..n -> Peers] : n \in 1..MaxList}
    /\ visited = {Own} /\ filtered = <<>>

\* container/list: the element of a key, and the operations Get uses.
Element(list, key) == CHOOSE e \in 1..Len(list) : list[e] = key
MoveToFront(list, e) ==
    [i \in 1..Len(list) |-> IF i = 1 THEN list[e] ELSE IF i <= e THEN list[i - 1] ELSE list[i]]
PushFront(list, key) == [i \in 1..Len(list) + 1 |-> IF i = 1 THEN key ELSE list[i - 1]]

\* The history of uses, without repetitions.
Used(key) ==
    IF key \in Range(recency) THEN MoveToFront(recency, Element(recency, key)) ELSE PushFront(recency, key)

\* Mutant: a hit does not count as a use.
GetUnmoved(key, value) ==
    LET full == Len(order) >= Limit
        kept == IF full THEN SubSeq(order, 1, Len(order) - 1) ELSE order
    IN  IF key \in DOMAIN items
        THEN UNCHANGED <<order, items>> /\ recency' = Used(key)
        ELSE IF value = "error"
        THEN order' = kept /\ items' = Restrict(items, Range(kept)) /\ UNCHANGED recency
        ELSE /\ order' = PushFront(kept, key)
             /\ items' = [k \in Range(kept) \cup {key} |-> IF k = key THEN value ELSE items[k]]
             /\ recency' = Used(key)

\* Cache.Get, where init yields value or fails.  The last entry goes before init
\* is called, and stays away if init fails.
Get(key, value) ==
    LET full == Len(order) >= Limit
        kept == IF full THEN SubSeq(order, 1, Len(order) - 1) ELSE order
    IN  IF key \in DOMAIN items
        THEN order' = MoveToFront(order, Element(order, key)) /\ UNCHANGED items /\ recency' = Used(key)
        ELSE IF value = "error"
        THEN order' = kept /\ items' = Restrict(items, Range(kept)) /\ UNCHANGED recency
        ELSE /\ order' = PushFront(kept, key)
             /\ items' = [k \in Range(kept) \cup {key} |-> IF k = key THEN value ELSE items[k]]
             /\ recency' = Used(key)

\* What init may yield: a literal address as it is, else an answer of the
\* resolver, with the fix for localhost.
LookupHost(host) ==
    IF host \in HostIPs THEN {host}
    ELSE {"error"} \cup {IF ip = V6Local THEN V4Local ELSE ip : ip \in HostIPs}

\* ToUnifiedHost, when init would yield value.
ToUnifiedHost(host, value) == IF host \in DOMAIN items THEN items[host] ELSE value

\* The parsed address; nothing for one that does not parse.
ParseAddress(a) == IF a.text = "bad" THEN {} ELSE {a}

\* The unified address, or nothing.
ToUnifiedAddress(a, value) ==
    IF a.text = "" THEN {}
    ELSE {[info EXCEPT !.host = ToUnifiedHost(info.host, value), !.text = "unified"] :
            info \in {i \in ParseAddress(a) : ToUnifiedHost(i.host, value) # "error"}}

\* One round of the loop of FilterPeers; the cache is asked for the host of an
\* address that parses.
FilterPeers ==
    /\ peers # <<>>
    /\ peers' = Tail(peers)
    /\ LET p == Head(peers)
           parsed == p.text # "" /\ ParseAddress(p) # {}
       IN  \E value \in LookupHost(p.host) :
             LET new == ToUnifiedAddress(p, value) \ visited
             IN  /\ IF parsed THEN Get(p.host, value) ELSE UNCHANGED <<order, items, recency>>
                 /\ filtered' = IF new = {} THEN filtered ELSE Append(filtered, CHOOSE info \in new : TRUE)
                 /\ visited' = visited \cup new

\* Another list, for the next Bootstrap.
NextList ==
    /\ peers = <<>>
    /\ peers' \in UNION {[1..n -> Peers] : n \in 1..MaxList}
    /\ visited' = {Own} /\ filtered' = <<>>
    /\ UNCHANGED <<order, items, recency>>

ResolverNext == FilterPeers \/ NextList

ResolverSpec == ResolverInit /\ [][ResolverNext]_resolverVars
-----------------------------------------------------------------------------
\* Whatever the cache has dropped was used longer ago than all that it holds, on
\* a sequence of hits, misses, evictions and failed lookups; it holds a value
\* for exactly the keys of its list and never more than its limit
\* (types/lru/cache.go Get, "Evict least recently used").
LeastRecentDropped ==
    /\ Len(order) <= Len(recency) /\ \A i \in 1..Len(order) : order[i] = recency[i]
    /\ DOMAIN items = Range(order)
    /\ Len(order) <= Limit

\* FilterPeers returns every address once, in its unified form, and never the
\* address of the node itself (network/utils.go FilterPeers).
FilteredOnce == IsInjective(filtered) /\ Own \notin Range(filtered)
=============================================================================
