----------------------------- MODULE Lifecycle -----------------------------
(***************************************************************************)
(* A network from the builder to its end: the component list, Build,       *)
(* Listen with the Startup and Cleanup callbacks, the goroutine that waits *)
(* for Kill, Close (called by the application or on a signal), a caller of *)
(* BlockUntilListening, and keepaliveService, which the Startup of one     *)
(* component type starts.                                                  *)
(***************************************************************************)
EXTENDS Integers, Sequences, FiniteSets, Functions

CONSTANTS
    Types,          \* types of components
    KeepaliveType,  \* the one that runs keepaliveService
    Priorities,     \* arguments of AddComponentWithPriority
    MaxCalls        \* bound on calls of the builder

ASSUME LifecycleAssumption ==
    KeepaliveType \in Types /\ Priorities \subseteq Int /\ MaxCalls \in Nat

VARIABLES
    keys, values, ComponentCount,   \* the list of the builder, and its counter
    calls,          \* calls of the builder so far
    installed,      \* the components added and not deleted, as a set
    built,
    components,     \* values of the list that n.Components is
    protocol,       \* of ListenAddr, from Listen on; kcp is handled as tcp
    lpc, each,      \* Listen, and the components its loop has yet to call
    started, listeningCh, listener,
    watcher,        \* the goroutine that waits for Kill
    cpc,            \* Close in the application, and in waitExit
    Kill, exited, crashed,
    service, stopCh,    \* keepaliveService
    bootstrap       \* where the caller of BlockUntilListening is

lifeVars == <<keys, values, ComponentCount, calls, installed, built, components, protocol, lpc, each, started,
              listeningCh, listener, watcher, cpc, Kill, exited, crashed, service, stopCh, bootstrap>>
building == <<keys, values, ComponentCount, calls, installed>>
listening == <<lpc, each, started, listeningCh>>
ending == <<cpc, Kill, exited, crashed>>

LifeInit ==
    /\ keys = {} /\ values = <<>> /\ ComponentCount = 0 /\ calls = 0 /\ installed = {}
    /\ built = FALSE /\ components = <<>> /\ protocol = "none"
    /\ lpc = "idle" /\ each = <<>> /\ started = <<>> /\ listeningCh = FALSE /\ listener = "none"
    /\ watcher = "none" /\ cpc = [who \in {"application", "waitExit"} |-> "idle"]
    /\ Kill = FALSE /\ exited = FALSE /\ crashed = FALSE
    /\ service = "none" /\ stopCh = FALSE /\ bootstrap = "wait"
-----------------------------------------------------------------------------
(* The builder. *)

Calling ==
    /\ ~built /\ calls < MaxCalls /\ calls' = calls + 1
    /\ UNCHANGED <<built, components, protocol, listening, listener, watcher, ending, service, stopCh, bootstrap>>

\* Put, and PutInfo: a type that is in keys is refused.
Put(priority, type) ==
    LET info == [priority |-> priority, type |-> type, number |-> calls]
    IN  IF type \in keys THEN UNCHANGED <<keys, values, installed>>
        ELSE /\ keys' = keys \cup {type}
             /\ values' = Append(values, info)
             /\ installed' = installed \cup {info}

AddComponentWithPriority(priority, type) == Calling /\ Put(priority, type) /\ UNCHANGED ComponentCount

AddComponent(type) ==
    /\ Calling
    /\ Put(ComponentCount, type)
    /\ ComponentCount' = IF type \in keys THEN ComponentCount ELSE ComponentCount + 1

Matches(type) == {i \in 1..Len(values) : values[i].type = type}

\* Mutant: only the key goes.
DeleteComponentKey(type) ==
    /\ Calling
    /\ keys' = keys \ {type}
    /\ installed' = {info \in installed : info.type # type}
    /\ UNCHANGED <<values, ComponentCount>>

\* Delete removes the key and the first value of the type.
DeleteComponent(type) ==
    /\ Calling
    /\ keys' = keys \ {type}
    /\ values' = IF Matches(type) = {} THEN values
                 ELSE LET k == CHOOSE i \in Matches(type) : \A j \in Matches(type) : i <= j
                      IN  SubSeq(values, 1, k - 1) \o SubSeq(values, k + 1, Len(values))
    /\ installed' = {info \in installed : info.type # type}
    /\ UNCHANGED ComponentCount

\* A stable sort; values are in the order of their numbers.
Less(a, b) == a.priority < b.priority \/ (a.priority = b.priority /\ a.number < b.number)
Lower(list, i) == Cardinality({j \in DOMAIN list : Less(list[j], list[i])})
SortByPriority(list) == [k \in DOMAIN list |-> list[CHOOSE i \in DOMAIN list : Lower(list, i) = k - 1]]

\* Build, given keys and an address; Init starts waitExit.
Build ==
    /\ ~built /\ built' = TRUE
    /\ values' = SortByPriority(values)
    /\ components' = values'
    /\ UNCHANGED <<keys, ComponentCount, calls, installed, protocol, listening, listener, watcher, ending,
                   service, stopCh, bootstrap>>
-----------------------------------------------------------------------------
(* Listen. *)

\* The listener is open; an error is fatal.  Each runs over the list of now.
Listen ==
    /\ built /\ lpc = "idle"
    /\ protocol' \in {"tcp", "udp", "quic"}
    /\ listener' = "open" /\ lpc' = "startup" /\ each' = components
    /\ UNCHANGED <<building, built, components, started, listeningCh, watcher, ending, service, stopCh, bootstrap>>

Startup ==
    /\ lpc = "startup" /\ each # <<>>
    /\ started' = Append(started, Head(each))
    /\ each' = Tail(each)
    /\ service' = IF Head(each).type = KeepaliveType THEN "run" ELSE service
    /\ UNCHANGED <<building, built, components, protocol, lpc, listeningCh, listener, watcher, ending, stopCh, bootstrap>>

\* startListening; the goroutine for Kill is started, and the loop or AcceptUdp.
startListening ==
    /\ lpc = "startup" /\ each = <<>>
    /\ listeningCh' = TRUE
    /\ watcher' = "wait"
    /\ lpc' = IF protocol = "udp" THEN "select" ELSE "accept"
    /\ UNCHANGED <<building, built, components, protocol, each, started, listener, ending, service, stopCh, bootstrap>>

\* netListen and quicListen: a new connection is handed to its goroutine; quic
\* waits for its stream first.  Any error, and a closed listener, ends the loop.
\* The deferred function runs over the list of then.
AcceptLoop ==
    /\ \/ lpc = "accept" /\ protocol = "quic" /\ listener = "open" /\ lpc' = "stream" /\ UNCHANGED each
       \/ lpc = "stream" /\ listener = "open" /\ lpc' = "accept" /\ UNCHANGED each
       \/ lpc \in {"accept", "stream"} /\ lpc' = "cleanup" /\ each' = components
    /\ UNCHANGED <<building, built, components, protocol, started, listeningCh, listener, watcher, ending,
                   service, stopCh, bootstrap>>

\* Cleanup of the keepalive component closes stopCh; then Listen returns.
Cleanup ==
    /\ lpc = "cleanup"
    /\ IF each = <<>> THEN lpc' = "returned" /\ UNCHANGED <<each, stopCh>>
       ELSE /\ each' = Tail(each) /\ UNCHANGED lpc
            /\ stopCh' = (stopCh \/ Head(each).type = KeepaliveType)
    /\ UNCHANGED <<building, built, components, protocol, started, listeningCh, listener, watcher, ending, service, bootstrap>>

\* Mutant: the listener of quic is left open.
WatchKillNotQuic ==
    /\ watcher = "wait" /\ Kill /\ watcher' = "done"
    /\ listener' = IF protocol = "quic" THEN listener ELSE "closed"
    /\ UNCHANGED <<building, built, components, protocol, listening, ending, service, stopCh, bootstrap>>

\* With the listener of quic, its sessions end.
WatchKill ==
    /\ watcher = "wait" /\ Kill /\ watcher' = "done"
    /\ listener' = "closed"
    /\ UNCHANGED <<building, built, components, protocol, listening, ending, service, stopCh, bootstrap>>
-----------------------------------------------------------------------------
(* Close and the others. *)

\* The application calls Close once; waitExit calls it on a signal.
Close(who) ==
    /\ built
    /\ \/ cpc[who] = "idle" /\ cpc' = [cpc EXCEPT ![who] = "sleep"] /\ UNCHANGED <<components, Kill, exited, crashed>>
       \/ /\ cpc[who] = "sleep" /\ cpc' = [cpc EXCEPT ![who] = "clients"]
          /\ components' = <<>> /\ UNCHANGED <<Kill, exited, crashed>>
       \/ /\ cpc[who] = "clients" /\ cpc' = [cpc EXCEPT ![who] = "closed"]
          /\ Kill' = TRUE /\ crashed' = Kill /\ UNCHANGED <<components, exited>>
       \/ /\ cpc[who] = "closed" /\ who = "waitExit" /\ ~exited
          /\ exited' = TRUE /\ UNCHANGED <<cpc, components, Kill, crashed>>
    /\ UNCHANGED <<building, built, protocol, listening, listener, watcher, service, stopCh, bootstrap>>

\* keepaliveService between two ticks.
KeepaliveStops ==
    /\ service = "run" /\ (stopCh \/ Kill)
    /\ service' = "ended"
    /\ UNCHANGED <<building, built, components, protocol, listening, listener, watcher, ending, stopCh, bootstrap>>

BlockUntilListening ==
    /\ bootstrap = "wait" /\ listeningCh
    /\ bootstrap' = "through"
    /\ UNCHANGED <<building, built, components, protocol, listening, listener, watcher, ending, service, stopCh>>

Listening == Startup \/ startListening \/ Cleanup
Background == WatchKill \/ KeepaliveStops

LifeNext ==
    ~exited /\ ~crashed /\
      \/ \E type \in Types : AddComponent(type) \/ DeleteComponent(type)
                             \/ \E priority \in Priorities : AddComponentWithPriority(priority, type)
      \/ Build \/ Listen \/ Listening \/ Background \/ AcceptLoop
      \/ \E who \in DOMAIN cpc : Close(who)
      \/ BlockUntilListening

LifeSpec == LifeInit /\ [][LifeNext]_lifeVars
-----------------------------------------------------------------------------
\* Whoever gets past BlockUntilListening finds every component that was added and
\* not deleted started once, those of lower priority first, those of equal
\* priority in the order of their addition, unless the network was being closed
\* (component_list.go Put, Delete, SortByPriority; network.go Listen).
StartedInOrder ==
    bootstrap = "through" /\ (\A who \in DOMAIN cpc : cpc[who] \in {"idle", "sleep"}) =>
      /\ Range(started) = installed /\ Len(started) = Cardinality(installed)
      /\ \A i, j \in 1..Len(started) : i < j =>
           \/ started[i].priority < started[j].priority
           \/ started[i].priority = started[j].priority /\ started[i].number < started[j].number

\* Once Close has closed Kill, a Listen that is under way returns and the
\* keepalive service ends, at whatever point they are, unless the protocol is
\* udp, whose Listen waits for ever (network.go Listen, netListen, quicListen,
\* Close; keepalive/component.go keepaliveService).
ListenReturns ==
    Kill /\ lpc # "idle" ~> exited \/ crashed \/ (lpc \in {"returned", "select"} /\ service # "run")
=============================================================================
