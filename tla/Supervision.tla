---------------------------- MODULE Supervision ----------------------------
(***************************************************************************)
(* The components that keep a node connected: backoff, which dials a peer  *)
(* again that has gone, and the proxy components, which ask the working    *)
(* proxy for a public address and fall over to the next server (tcp).      *)
(* Every disconnection starts a goroutine of its own.                      *)
(*                                                                         *)
(* Of the network the model keeps the keys under which connections are     *)
(* registered: the address of a peer, or its ID once a message has come    *)
(* from it or if the caller of Network.Client names it.  A client whose ID *)
(* is not set has the PeerID "", here 0.                                   *)
(***************************************************************************)
EXTENDS Integers, Sequences, FiniteSets

CONSTANTS
    Peers,
    Servers,        \* sequence of peers: ProxyService.Servers
    maxAttempts,    \* of the component; 100 by default
    MaxAttempts,    \* of a Backoff; 5 by default
    MaxDrops,       \* bound on disconnections, without a proxy
    MaxProxyDrops   \* and with one

ASSUME SupervisionAssumption ==
    /\ Peers \subseteq Nat \ {0} /\ \A i \in 1..Len(Servers) : Servers[i] \in Peers
    /\ Servers # <<>> /\ {maxAttempts, MaxAttempts, MaxDrops, MaxProxyDrops} \subseteq Nat

VARIABLES
    proxyProtocol, proxyMode,
    conns,          \* keys of the registered connections
    known,          \* peers whose client under the ID has it set
    backoffs,       \* attempt of the Backoff, per key
    goros,          \* the goroutines of backoff, in the order of their start
    owed,           \* peers that were known, went, and are not back and not given up
    WorkID,         \* the working server, from 0
    serverID,       \* PeerID of each server; 0: ""
    address,        \* Network.ID.Address
    asked,          \* peers that have a ProxyRequest to answer
    gen, finished,  \* the Finish channel: number of the channel, and whether it is closed
    keepalive,      \* proxyKeepaliveService runs
    panicked        \* a panic

supVars == <<proxyProtocol, proxyMode, conns, known, backoffs, goros, owed, WorkID, serverID, address, asked,
             gen, finished, keepalive, panicked>>
supMode == <<proxyProtocol, proxyMode>>
network == <<conns, known>>
proxies == <<WorkID, serverID, address, asked, gen, finished>>

Addr(p) == <<"addr", p>>
Id(p) == <<"id", p>>
Connected(p) == {Addr(p), Id(p)} \cap conns # {}
ConnectionStateExists(key) == key # 0 /\ Id(key) \in conns
Without(f, key) == [k \in DOMAIN f \ {key} |-> f[k]]

\* The connections after Network.Client(address of p, key) has found or dialled p.
Client(p, key) == IF key = 0 THEN conns \cup {Addr(p)} ELSE (conns \ {Addr(p)}) \cup {Id(p)}

\* UpdateProxyWorkID leaves WorkID one too large for an instant.
InRange == WorkID < Len(Servers)
Working == Servers[WorkID + 1]
WorkingID == IF proxyMode THEN serverID[WorkID + 1] ELSE 0

SupInit ==
    /\ proxyProtocol \in {"tcp", "udp", "kcp", "quic"} /\ proxyMode \in BOOLEAN
    /\ proxyMode \/ proxyProtocol = "tcp"
    /\ \E present \in {q \in SUBSET Peers : Cardinality(q) = IF proxyMode THEN Len(Servers) ELSE 1} :
          conns \in {{Id(p) : p \in present}, {Addr(p) : p \in present}}
    /\ known = {p \in Peers : Id(p) \in conns}
    /\ backoffs = <<>> /\ goros = <<>> /\ owed = {}
    /\ WorkID = 0
    /\ serverID \in {[i \in 1..Len(Servers) |-> 0]} \cup IF proxyMode THEN {Servers} ELSE {}
    /\ address = 0 /\ asked = {} /\ gen = 0 /\ finished = FALSE
    /\ keepalive = proxyMode /\ panicked = FALSE
-----------------------------------------------------------------------------
(* The peers. *)

\* A message arrives from p: the entry moves to its ID, the ID is set.
Hear(p) ==
    /\ conns' = (conns \ {Addr(p)}) \cup {Id(p)}
    /\ known' = known \cup {p}

Message(p) ==
    /\ Connected(p) /\ p \notin known
    /\ Hear(p)
    /\ UNCHANGED <<supMode, backoffs, goros, owed, proxies, keepalive, panicked>>

Goro(p, key, proxied) ==
    [peer |-> p, key |-> key, proxied |-> proxied, pc |-> "delay", i |-> 0,
     own |-> 0, gen |-> 0, answered |-> FALSE]

\* A connection ends: Close, and PeerDisconnect of backoff, which decides on the
\* server that is working now.  Backoff is enabled for the client, the default.
PeerDisconnect(p, key) ==
    /\ key \in conns /\ Len(goros) < (IF proxyMode THEN MaxProxyDrops ELSE MaxDrops)
    /\ conns' = conns \ {key}
    /\ known' = IF key = Id(p) THEN known \ {p} ELSE known
    /\ LET peerID == IF key = Id(p) /\ p \in known THEN p ELSE 0
       IN  IF proxyMode /\ ~InRange THEN panicked' = TRUE /\ UNCHANGED <<goros, owed>>
           ELSE /\ goros' = Append(goros, Goro(p, peerID, proxyMode /\ peerID = WorkingID))
                /\ owed' = IF peerID = 0 \/ Addr(p) \in conns THEN owed ELSE owed \cup {p}
                /\ UNCHANGED panicked
    /\ UNCHANGED <<supMode, backoffs, proxies, keepalive>>
-----------------------------------------------------------------------------
(* startBackoff and startProxyBackoff, in goroutine g. *)

At(g, pc) == goros[g].pc = pc
Go(g, pc) == goros' = [goros EXCEPT ![g].pc = pc]
Key(g) == goros[g].key
Peer(g) == goros[g].peer

\* The sleep outlasts the steps of other goroutines that do not sleep or dial, and
\* the same peer does not come back and go again within an instant.
DelayOver(g) ==
    \A h \in DOMAIN goros \ {g} : Key(h) = Key(g) /\ Key(g) # 0 => ~(At(h, "store") \/ At(h, "tell") \/ At(h, "end"))

\* Mutant: no sleep.
CheckActiveAtOnce(g) ==
    /\ At(g, "delay")
    /\ Go(g, IF Key(g) \in DOMAIN backoffs THEN "done" ELSE "store")
    /\ UNCHANGED <<supMode, network, backoffs, owed, proxies, keepalive, panicked>>

CheckActive(g) ==
    /\ At(g, "delay") /\ DelayOver(g)
    /\ Go(g, IF Key(g) \in DOMAIN backoffs THEN "done" ELSE "store")
    /\ UNCHANGED <<supMode, network, backoffs, owed, proxies, keepalive, panicked>>

StoreBackoff(g) ==
    /\ At(g, "store")
    /\ backoffs' = [k \in DOMAIN backoffs \cup {Key(g)} |-> IF k = Key(g) THEN 0 ELSE backoffs[k]]
    /\ IF goros[g].proxied
       THEN gen' = gen + 1 /\ finished' = FALSE /\ goros' = [goros EXCEPT ![g].pc = "loop", ![g].own = gen + 1]
       ELSE Go(g, "loop") /\ UNCHANGED <<gen, finished>>
    /\ UNCHANGED <<supMode, network, owed, WorkID, serverID, address, asked, keepalive, panicked>>

TimeoutExceeded(key) == backoffs[key] >= MaxAttempts
NextDuration(key) == backoffs' = [backoffs EXCEPT ![key] = @ + 1]

\* The head of the loop.
Attempt(g) ==
    /\ At(g, "loop")
    /\ LET active == Key(g) \in DOMAIN backoffs
           timedOut == active /\ TimeoutExceeded(Key(g))
       IN  IF goros[g].i >= maxAttempts \/ ~active \/ timedOut
           THEN /\ Go(g, "end") /\ UNCHANGED backoffs
                /\ owed' = IF goros[g].i >= maxAttempts \/ timedOut THEN owed \ {Peer(g)} ELSE owed
           ELSE Go(g, "sleep") /\ NextDuration(Key(g)) /\ UNCHANGED owed
    /\ UNCHANGED <<supMode, network, proxies, keepalive, panicked>>

Continue(g) == goros' = [goros EXCEPT ![g].pc = "loop", ![g].i = @ + 1]

\* After the sleep: nothing to do if the peer is back, else Network.Client
\* returns a registered client or dials; without an ID it registers the address.
Dial(g) ==
    /\ At(g, "sleep")
    /\ LET p == Peer(g)
       IN  \/ ConnectionStateExists(Key(g)) /\ Go(g, "end") /\ UNCHANGED <<conns, owed>>
           \/ /\ ~ConnectionStateExists(Key(g)) /\ Addr(p) \notin conns
              /\ Continue(g) /\ UNCHANGED <<conns, owed>>
           \/ /\ ~ConnectionStateExists(Key(g))
              /\ conns' = Client(p, Key(g))
              /\ owed' = owed \ {p}
              /\ Go(g, "tell")
    /\ UNCHANGED <<supMode, known, backoffs, proxies, keepalive, panicked>>

\* Tell goes to the PeerID of the client: it fails until the peer has been heard.
Tell(g) ==
    /\ At(g, "tell")
    /\ IF ~ConnectionStateExists(Key(g)) \/ Peer(g) \notin known THEN Continue(g) /\ UNCHANGED asked
       ELSE /\ Go(g, IF goros[g].proxied THEN "block" ELSE "end")
            /\ asked' = IF goros[g].proxied THEN asked \cup {Peer(g)} ELSE asked
    /\ UNCHANGED <<supMode, network, backoffs, owed, WorkID, serverID, address, gen, finished, keepalive, panicked>>

EndBackoff(g) ==
    /\ At(g, "end")
    /\ backoffs' = Without(backoffs, Key(g))
    /\ Go(g, IF goros[g].proxied THEN "restart" ELSE "done")
    /\ UNCHANGED <<supMode, network, owed, proxies, keepalive, panicked>>
-----------------------------------------------------------------------------
(* ProxyComponentRestart and the RestartUp of the protocols, all of which begin   *)
(* with a new channel.                                                            *)

ProxyComponentRestart(g) ==
    /\ At(g, "restart")
    /\ gen' = gen + 1 /\ finished' = FALSE
    /\ goros' = [goros EXCEPT ![g].pc = "connect", ![g].i = 0, ![g].own = gen + 1, ![g].answered = FALSE]
    /\ UNCHANGED <<supMode, network, backoffs, owed, WorkID, serverID, address, asked, keepalive, panicked>>

\* Mutant: the channel is made when the wait begins.
BlockUntilProxyFinishNew(g) ==
    /\ At(g, "block")
    /\ gen' = gen + 1 /\ finished' = FALSE
    /\ goros' = [goros EXCEPT ![g].pc = "wait", ![g].gen = gen + 1, ![g].own = gen + 1]
    /\ UNCHANGED <<supMode, network, backoffs, owed, WorkID, serverID, address, asked, keepalive, panicked>>

\* The channel that is in the map now.
BlockUntilProxyFinish(g) ==
    /\ At(g, "block")
    /\ goros' = [goros EXCEPT ![g].pc = "wait", ![g].gen = gen]
    /\ UNCHANGED <<supMode, network, backoffs, owed, proxies, keepalive, panicked>>

\* Back to the end of the loop in startProxyBackoff, or from RestartUp.
Released(g) ==
    /\ At(g, "wait") /\ goros[g].gen = gen /\ finished
    /\ Go(g, IF Key(g) \in DOMAIN backoffs THEN "end" ELSE "done")
    /\ UNCHANGED <<supMode, network, backoffs, owed, proxies, keepalive, panicked>>

\* tcp: ConnectProxyServer asks for the connection under the address, and dials;
\* the request goes out under the address.
ConnectProxyServer(g) ==
    /\ proxyProtocol = "tcp" /\ At(g, "connect") /\ goros[g].i < Len(Servers) /\ InRange
    /\ \/ Addr(Working) \in conns /\ Go(g, "block") /\ UNCHANGED <<conns, owed, asked>>
       \/ /\ Addr(Working) \notin conns
          /\ conns' = Client(Working, 0)
          /\ owed' = owed \ {Working}
          /\ asked' = asked \cup {Working}
          /\ Go(g, "block")
       \/ Addr(Working) \notin conns /\ Go(g, "advance") /\ UNCHANGED <<conns, owed, asked>>
    /\ UNCHANGED <<supMode, known, backoffs, WorkID, serverID, address, gen, finished, keepalive, panicked>>

\* The two statements of UpdateProxyWorkID.
UpdateProxyWorkID(g) ==
    /\ \/ At(g, "advance") /\ WorkID' = WorkID + 1 /\ Go(g, "reduce")
       \/ At(g, "reduce") /\ WorkID' = WorkID % Len(Servers)
          /\ goros' = [goros EXCEPT ![g].pc = "connect", ![g].i = @ + 1]
    /\ UNCHANGED <<supMode, network, backoffs, owed, serverID, address, asked, gen, finished, keepalive, panicked>>

\* tcp: all servers have been tried, or another goroutine is advancing WorkID.
RestartFails(g) ==
    /\ proxyProtocol = "tcp" /\ At(g, "connect")
    /\ IF goros[g].i = Len(Servers) THEN Go(g, "done") /\ UNCHANGED panicked
       ELSE ~InRange /\ panicked' = TRUE /\ UNCHANGED goros
    /\ UNCHANGED <<supMode, network, backoffs, owed, proxies, keepalive>>

TcpComponentRestartUp(g) == ConnectProxyServer(g) \/ UpdateProxyWorkID(g) \/ RestartFails(g)

\* The request is a datagram.
sendUDPProxyRequest == asked' = asked \cup {Working}

UDPComponentRestartUp(g) ==
    /\ proxyProtocol = "udp" /\ At(g, "connect") /\ InRange
    /\ sendUDPProxyRequest /\ Go(g, "block")
    /\ UNCHANGED <<supMode, network, backoffs, owed, WorkID, serverID, address, gen, finished, keepalive, panicked>>

\* The client of the working server, registered or dialled, and Tell, the error of
\* which is logged or ignored.
TellWorking(g) ==
    /\ conns' = Client(Working, WorkingID)
    /\ asked' = IF WorkingID \in known THEN asked \cup {Working} ELSE asked
    /\ Go(g, "block") /\ UNCHANGED panicked

WorkingCached == Addr(Working) \in conns \/ ConnectionStateExists(WorkingID)

\* An error of the dial leaves a nil client.
KCPComponentRestartUp(g) ==
    /\ proxyProtocol = "kcp" /\ At(g, "connect") /\ InRange
    /\ \/ TellWorking(g)
       \/ ~WorkingCached /\ panicked' = TRUE /\ UNCHANGED <<conns, asked, goros>>
    /\ UNCHANGED <<supMode, known, backoffs, owed, WorkID, serverID, address, gen, finished, keepalive>>

QuicComponentRestartUp(g) ==
    /\ proxyProtocol = "quic" /\ At(g, "connect") /\ InRange
    /\ \/ TellWorking(g)
       \/ ~WorkingCached /\ Go(g, "done") /\ UNCHANGED <<conns, asked, panicked>>
    /\ UNCHANGED <<supMode, known, backoffs, owed, WorkID, serverID, address, gen, finished, keepalive>>
-----------------------------------------------------------------------------
(* Receive of the proxy components, for a ProxyResponse of p with the public   *)
(* address a.                                                                  *)

Answered(p) ==
    /\ p \in asked /\ asked' = asked \ {p} /\ Hear(p)
    /\ UNCHANGED <<supMode, backoffs, owed, WorkID, gen, keepalive>>

\* close of a channel that is closed already is a panic, and so is another reason.
FinishProxyServer(other) ==
    /\ panicked' = (panicked \/ finished \/ other)
    /\ finished' = TRUE
    /\ goros' = [h \in DOMAIN goros |->
                   [goros[h] EXCEPT !.answered = @ \/ goros[h].pc \in {"connect", "block", "wait"}]]

\* Nothing happens if the address is the one the node has.
TcpComponentReceive(p, a) ==
    /\ proxyProtocol = "tcp" /\ Connected(p) /\ Answered(p)
    /\ IF a = address THEN UNCHANGED <<address, finished, serverID, goros, panicked>>
       ELSE /\ address' = a /\ FinishProxyServer(~InRange)
            /\ serverID' = IF InRange THEN [serverID EXCEPT ![WorkID + 1] = p] ELSE serverID

UDPComponentReceive(p, a) ==
    /\ proxyProtocol = "udp" /\ Answered(p)
    /\ address' = a /\ FinishProxyServer(FALSE) /\ UNCHANGED serverID

KCPComponentReceive(p, a) ==
    /\ proxyProtocol = "kcp" /\ Connected(p) /\ Answered(p)
    /\ address' = a /\ FinishProxyServer(FALSE) /\ UNCHANGED serverID

QuicComponentReceive(p, a) ==
    /\ proxyProtocol = "quic" /\ Connected(p) /\ Answered(p)
    /\ address' = a /\ FinishProxyServer(FALSE) /\ UNCHANGED serverID

ProxyResponse(p, a) ==
    TcpComponentReceive(p, a) \/ UDPComponentReceive(p, a) \/ KCPComponentReceive(p, a) \/ QuicComponentReceive(p, a)

\* proxyKeepaliveService: a tick ends it when the working proxy has no client or
\* has not been heard for too long, which may be at any tick; a failing Tell is
\* logged.
KeepaliveTick ==
    /\ keepalive
    /\ \/ InRange /\ keepalive' = FALSE /\ UNCHANGED panicked
       \/ ~InRange /\ panicked' = TRUE /\ UNCHANGED keepalive
    /\ UNCHANGED <<supMode, network, backoffs, goros, owed, proxies>>

Supervisor(g) ==
    \/ CheckActive(g) \/ StoreBackoff(g) \/ Attempt(g) \/ Dial(g) \/ Tell(g) \/ EndBackoff(g)
    \/ ProxyComponentRestart(g) \/ BlockUntilProxyFinish(g) \/ Released(g) \/ TcpComponentRestartUp(g)
    \/ UDPComponentRestartUp(g) \/ KCPComponentRestartUp(g) \/ QuicComponentRestartUp(g)

SupNext ==
    /\ ~panicked
    /\ \/ \E p \in Peers : \/ Message(p)
                           \/ \E key \in {Addr(p), Id(p)} : PeerDisconnect(p, key)
                           \/ \E a \in {p, p + Len(Servers)} : ProxyResponse(p, a)
       \/ \E g \in DOMAIN goros : Supervisor(g)
       \/ KeepaliveTick

SupSpec == SupInit /\ [][SupNext]_supVars
-----------------------------------------------------------------------------
\* A peer that was known by its ID and has gone is dialled until it is back or
\* the attempts are used up, however often it comes back and goes, and whichever
\* goroutines are still at work for it; this rests on the initial delay, which
\* lets the goroutine before finish (backoff/component.go startBackoff).
DroppedRetried == \A p \in Peers : ~proxyMode /\ p \in owed ~> p \notin owed

\* The answer of a proxy releases the goroutine that asked, even if it arrives
\* before that goroutine waits, provided that no other goroutine has put its own
\* channel in the place of this one's (proxy/tcp.go TcpComponentRestartUp,
\* network.go BlockUntilProxyFinish, FinishProxyServer).
AnswerReleases ==
    \A g \in DOMAIN goros :
       At(g, "wait") /\ goros[g].gen = goros[g].own /\ goros[g].own = gen /\ goros[g].answered => finished \/ panicked
=============================================================================
