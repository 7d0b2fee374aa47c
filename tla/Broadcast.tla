----------------------------- MODULE Broadcast -----------------------------
(***************************************************************************)
(* The Broadcast methods of Network, and EachPeer under them, while peers  *)
(* connect, become known by their key, and leave.  The map of the peers is *)
(* a sync.Map: a Range calls back at most once per key, in any order, once *)
(* for every key that is there from its start to its end, and perhaps for  *)
(* keys that come or go meanwhile.                                         *)
(*                                                                         *)
(* A client is registered under its address until its first message        *)
(* arrives, then under its key, the peer ID (resetConnMgrItemByPeerID, in  *)
(* ConnMgr with the other maps that change with this one).                 *)
(***************************************************************************)
EXTENDS Integers, Sequences, FiniteSets, Functions

CONSTANTS
    Clients,
    MaxK,           \* bound on the argument K of BroadcastRandomly
    MaxChanges      \* bound on connects, rekeyings and closes during a broadcast

ASSUME BroadcastAssumption ==
    Clients \subseteq Nat \ {0} /\ IsFiniteSet(Clients) /\ MaxK \in Nat /\ MaxChanges \in Nat

VARIABLES
    keys,           \* keys of peers and connections: "addr" or "id" of a client
    identified,     \* clients whose ID is set
    ponged,         \* those whose PubKey is their key since the Broadcast began
    changes,        \* number of changes so far
    workingProxy,   \* the client GetWorkingProxyServer names, or 0
    method, K,      \* which Broadcast, and BroadcastRandomly's argument
    bpc,            \* where it is
    ranged,         \* keys the Range has called back for
    cids,           \* what remains of the list of IDs to write to
    written,        \* the clients that the message was written to, in order
    kept,           \* keys that have been there since the Broadcast began
    crowd           \* those, and the ones that came or went meanwhile

broadcastVars == <<keys, identified, ponged, changes, workingProxy, method, K, bpc, ranged, cids, written, kept, crowd>>
population == <<keys, identified, changes, kept, crowd>>
request == <<ponged, workingProxy, method, K>>

Addr(c) == <<c, "addr">>
Id(c) == <<c, "id">>
Key(c) == {Addr(c), Id(c)}
ClientOf(key) == key[1]

BroadcastInit ==
    /\ identified \in SUBSET Clients /\ ponged \in SUBSET identified
    /\ \E others \in SUBSET (Clients \ identified) :
          keys = {Id(c) : c \in identified} \cup {Addr(c) : c \in others}
    /\ workingProxy \in Clients \cup {0}
    /\ method \in {"Broadcast", "BroadcastToPeers", "BroadcastRandomly", "BroadcastByClientIDs"}
    /\ K \in IF method = "BroadcastRandomly" THEN 0..MaxK ELSE {0}
    /\ changes = 0 /\ bpc = (IF method = "BroadcastRandomly" THEN "range" ELSE "prepare") /\ ranged = {} /\ cids = <<>>
    /\ written = <<>>
    /\ kept = keys /\ crowd = keys
-----------------------------------------------------------------------------
(* The peers, as the other goroutines change them. *)

Change ==
    /\ changes < MaxChanges /\ changes' = changes + 1
    /\ crowd' = crowd \cup keys'
    /\ kept' = kept \cap keys'
    /\ UNCHANGED <<request, bpc, ranged, cids, written>>

Connect(c) ==
    /\ Key(c) \cap keys = {} /\ c \notin identified
    /\ keys' = keys \cup {Addr(c)} /\ UNCHANGED identified
    /\ Change

\* resetConnMgrItemByPeerID stores under the new key before it deletes the old
\* one; after it, Accept sets the ID of the client.
Rekey(c) ==
    /\ \/ keys \cap Key(c) = {Addr(c)} /\ keys' = keys \cup {Id(c)} /\ UNCHANGED identified
       \/ Key(c) \subseteq keys /\ keys' = keys \ {Addr(c)} /\ UNCHANGED identified
       \/ keys \cap Key(c) = {Id(c)} /\ c \notin identified
          /\ identified' = identified \cup {c} /\ UNCHANGED keys
    /\ Change

\* The application, the peer or an error closes the client.
CloseClient(c) ==
    /\ Key(c) \cap keys # {}
    /\ keys' = keys \ Key(c) /\ UNCHANGED identified
    /\ Change
-----------------------------------------------------------------------------
(* The Broadcast. *)

\* PrepareMessage: the message is nil or its type not registered, or it is
\* marshalled and signed, once for all the peers.  The caller lists the IDs of
\* the clients it knows for BroadcastByClientIDs, which BroadcastRandomly calls
\* when it has chosen.
PrepareMessage ==
    /\ bpc = "prepare"
    /\ \/ bpc' = "failed" /\ UNCHANGED cids
       \/ /\ bpc' = IF method \in {"BroadcastByClientIDs", "BroadcastRandomly"} THEN "list" ELSE "range"
          /\ cids' \in IF method = "BroadcastByClientIDs"
                      THEN Bijection(1..Cardinality(identified), {Id(c) : c \in identified}) ELSE {cids}
    /\ UNCHANGED <<population, request, ranged, written>>

\* Network.Write to the connection under an ID, or to none; an error closes the
\* client and is logged.
Write(c, id) ==
    IF id \in keys
    THEN \/ written' = Append(written, c) /\ UNCHANGED population
         \/ /\ keys' = keys \ Key(c) /\ kept' = kept \ Key(c)
            /\ UNCHANGED <<written, identified, changes, crowd>>
    ELSE UNCHANGED <<written, population>>

\* The PeerID of a client is "" until its ID is set.
PeerID(c) == IF c \in identified THEN Id(c) ELSE <<>>

\* ClientID of a client that was dialled is its address until a Pong of it has
\* been received, which may be at any time.
PubKey(c) == (IF c \in identified THEN {Id(c)} ELSE {}) \cup (IF c \in ponged THEN {} ELSE {Addr(c)})

\* Mutant: the Range goes on only while the peers can be written to.
EachPeerWhile(key) ==
    /\ bpc = "range" /\ key \in crowd \ ranged /\ method = "Broadcast"
    /\ ranged' = ranged \cup {key}
    /\ bpc' = IF PeerID(ClientOf(key)) \in keys THEN "range" ELSE "done"
    /\ Write(ClientOf(key), PeerID(ClientOf(key)))
    /\ UNCHANGED <<request, cids>>

\* The Range calls back for a key: Broadcast writes, BroadcastToPeers writes
\* unless the client is the working proxy, and BroadcastRandomly takes a note of
\* the client (its PubKey), and stops when it has more than three times K.
EachPeer(key) ==
    /\ bpc = "range" /\ key \in crowd \ ranged
    /\ ranged' = ranged \cup {key}
    /\ IF method = "BroadcastRandomly"
       THEN /\ \E id \in PubKey(ClientOf(key)) : cids' = Append(cids, id)
            /\ bpc' = IF Len(cids') <= K * 3 THEN "range" ELSE "shuffle"
            /\ UNCHANGED <<written, population>>
       ELSE /\ IF method = "BroadcastToPeers" /\ ClientOf(key) = workingProxy
               THEN UNCHANGED <<written, population>>
               ELSE Write(ClientOf(key), PeerID(ClientOf(key)))
            /\ UNCHANGED <<cids, bpc>>
    /\ UNCHANGED request

\* A key that has been deleted, or has come during the Range, need not be called
\* back for.
RangeEnd ==
    /\ bpc = "range" /\ kept \subseteq ranged
    /\ bpc' = IF method = "BroadcastRandomly" THEN "shuffle" ELSE "done"
    /\ UNCHANGED <<population, request, ranged, cids, written>>

\* rand.Shuffle, and the first K.
Shuffle ==
    /\ bpc = "shuffle"
    /\ \E p \in Bijection(1..Len(cids), 1..Len(cids)) :
          cids' = [i \in 1..(IF Len(cids) < K THEN Len(cids) ELSE K) |-> cids[p[i]]]
    /\ bpc' = "prepare"
    /\ UNCHANGED <<population, request, ranged, written>>

\* One turn of the loop of BroadcastByClientIDs; ByAddresses and ByIDs are the
\* same with addresses, which are keys only until the client is rekeyed.
BroadcastByClientIDs ==
    /\ bpc = "list"
    /\ IF cids = <<>> THEN bpc' = "done" /\ UNCHANGED <<cids, written, population>>
       ELSE Write(ClientOf(Head(cids)), Head(cids)) /\ cids' = Tail(cids) /\ UNCHANGED bpc
    /\ UNCHANGED <<request, ranged>>

BroadcastNext ==
    \/ \E c \in Clients : Connect(c) \/ Rekey(c) \/ CloseClient(c)
    \/ PrepareMessage \/ (\E key \in crowd : EachPeer(key)) \/ RangeEnd
    \/ Shuffle \/ BroadcastByClientIDs

BroadcastSpec == BroadcastInit /\ [][BroadcastNext]_broadcastVars
-----------------------------------------------------------------------------
NotWritten(c) == \A i \in DOMAIN written : written[i] # c
WrittenOnce(c) == \E i \in DOMAIN written : written[i] = c /\ \A j \in DOMAIN written : written[j] = c => j = i

\* A Broadcast reaches every peer that is known by its key and stays, exactly
\* once, whatever the other peers do meanwhile and whether or not they can be
\* written to; BroadcastToPeers leaves out the working proxy and nobody else, and
\* BroadcastRandomly writes to at most K peers, and to all whose Pong has been
\* received if there are no more peers (network.go Broadcast, BroadcastToPeers,
\* BroadcastByClientIDs, BroadcastRandomly, EachPeer).
BroadcastReaches ==
    bpc = "done" =>
      /\ \A c \in {ClientOf(key) : key \in {k \in kept : k[2] = "id"}} :
           CASE method = "BroadcastToPeers" /\ c = workingProxy -> NotWritten(c)
             [] method = "BroadcastRandomly" ->
                  (NotWritten(c) \/ WrittenOnce(c)) /\ (c \in ponged /\ Cardinality(crowd) <= K => WrittenOnce(c))
             [] OTHER -> WrittenOnce(c)
      /\ method = "BroadcastRandomly" => Len(written) <= K
=============================================================================
