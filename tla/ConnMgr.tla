------------------------------ MODULE ConnMgr ------------------------------
(***************************************************************************)
(* The connection manager of network/network.go and the life of a          *)
(* PeerClient (network/client.go): the four maps of ConnMgr, the two       *)
(* mutexes, getOrSetPeerClient with the move of an entry from its address  *)
(* to its peer ID, Dial and Accept, and Close with RemoveEntries.          *)
(*                                                                         *)
(* A remote node has one address and one peer ID; a key of the maps is     *)
(* <<remote, "addr">> or <<remote, "id">>.  Threads are the Accept         *)
(* goroutines, one per socket, and the goroutines that call Client.  The   *)
(* maps are sync.Maps and are read without a lock almost everywhere, so    *)
(* each map operation that another goroutine can observe is a step.        *)
(*                                                                         *)
(* A ConnState and a MultiStream are created with one client; the maps     *)
(* connections and streams hold that client to stand for them.             *)
(***************************************************************************)
EXTENDS Integers, FiniteSets

CONSTANTS
    Remotes,        \* remote nodes
    Clients,        \* PeerClient objects; each is created at most once
    Socks,          \* sockets, dialled or accepted; also their Accept goroutine
    Dialers,        \* goroutines that call Bootstrap, ConnectPeer, ReconnectPeer or Client
    Writers,        \* goroutines that send to registered peers
    None,           \* no client, no socket, a free mutex
    NodeQuitCap,    \* room in the channel nodeQuit, 128 in the code; 0: full and never read
    ProxyMode       \* ProxyService.Enable

Threads == Socks \cup Dialers \cup Writers
Key == Remotes \X {"addr", "id"}

ASSUME ConnAssumption ==
    /\ None \notin Clients /\ None \notin Threads /\ None \notin Remotes /\ None \notin Key
    /\ Socks \cap (Dialers \cup Writers) = {} /\ Threads \cap Clients = {}
    /\ NodeQuitCap \in Nat
    /\ ProxyMode \in BOOLEAN

VARIABLES
    peers, connections, streams,    \* maps from keys
    connStates,
    createMutex, connMutex,         \* createClientMutex, ConnMgr.Mutex
    nodeQuit,                       \* number of IDs in the channel nodeQuit
    pc, key, cl,                    \* per thread: position, peerID argument, client
    remote,                         \* per client: the node it is for, None: not created
    sock,                           \* per client: conn of its ConnState
    connNil,                        \* per client: its ConnState's conn was set to nil
    hasID, gotPubKey,               \* per client: ID set, RecvRemotePubKey closed
    told,                           \* per client: components are handling a Disconnect
    outReady, inReady,              \* per client: outgoingReady, incomingReady closed
    cpc, ckey, cst,                 \* per client: position in Close, key and ConnState at work
    sockRemote, open, cli           \* per socket: other end, open, client given to Accept

maps == <<peers, connections, streams, connStates>>
locks == <<createMutex, connMutex>>
threads == <<pc, key, cl>>
clients == <<remote, sock, connNil, hasID, gotPubKey, outReady, inReady>>
closing == <<told, cpc, ckey, cst, nodeQuit>>
sockets == <<sockRemote, open, cli>>
vars == <<maps, locks, threads, clients, closing, sockets>>

ResetPC == {"copyPeers", "dropPeers", "copyConns", "dropConns",
            "copyStates", "dropStates", "copyStreams", "dropStreams"}
GetOrSetPC == ResetPC \cup
              {"want", "load", "lock", "dial", "init", "store", "connect", "ready"}
ThreadPC == GetOrSetPC \cup
            {"idle", "read", "got", "dispatch", "failed", "sendError", "wait", "exit",
             "closing", "reconnect", "done"}
ClosePC == {"open", "find", "shut", "delPeers", "delConns", "delStreams", "delStates",
            "quit", "callbacks", "closed"}

MapsType ==
    /\ peers \in [Key -> Clients \cup {None}]
    /\ connections \in [Key -> Clients \cup {None}]
    /\ streams \in [Key -> Clients \cup {None}]
    /\ connStates \in [Key -> {None, "REACHABLE", "UNREACHABLE"}]
    /\ createMutex \in Threads \cup {None}
    /\ connMutex \in Threads \cup Clients \cup {None}

ThreadsType ==
    /\ pc \in [Threads -> ThreadPC]
    /\ key \in [Threads -> Key \cup {None}]
    /\ cl \in [Threads -> Clients \cup {None}]
    /\ sockRemote \in [Socks -> Remotes \cup {None}]
    /\ open \in [Socks -> BOOLEAN]
    /\ cli \in [Socks -> Clients \cup {None}]

ClientsType ==
    /\ remote \in [Clients -> Remotes \cup {None}]
    /\ sock \in [Clients -> Socks \cup {None}]
    /\ connNil \in [Clients -> BOOLEAN]
    /\ hasID \in [Clients -> BOOLEAN]
    /\ gotPubKey \in [Clients -> BOOLEAN]
    /\ outReady \in [Clients -> BOOLEAN]
    /\ inReady \in [Clients -> BOOLEAN]

ClosingType ==
    /\ told \in [Clients -> BOOLEAN]
    /\ cpc \in [Clients -> ClosePC]
    /\ ckey \in [Clients -> {"id", "addr"}]
    /\ cst \in [Clients -> Clients \cup {None}]
    /\ nodeQuit \in 0..NodeQuitCap

\* The type invariant.
TypeOK == MapsType /\ ThreadsType /\ ClientsType /\ ClosingType

Init ==
    /\ peers = [k \in Key |-> None]
    /\ connections = [k \in Key |-> None]
    /\ streams = [k \in Key |-> None]
    /\ connStates = [k \in Key |-> None]
    /\ createMutex = None /\ connMutex = None
    /\ nodeQuit = 0
    /\ pc = [t \in Threads |-> IF t \in Socks THEN "done" ELSE "idle"]
    /\ key = [t \in Threads |-> None]
    /\ cl = [t \in Threads |-> None]
    /\ remote = [c \in Clients |-> None]
    /\ sock = [c \in Clients |-> None]
    /\ connNil = [c \in Clients |-> FALSE]
    /\ hasID = [c \in Clients |-> FALSE]
    /\ gotPubKey = [c \in Clients |-> FALSE]
    /\ outReady = [c \in Clients |-> FALSE]
    /\ inReady = [c \in Clients |-> FALSE]
    /\ told = [c \in Clients |-> FALSE]
    /\ cpc = [c \in Clients |-> "open"]
    /\ ckey = [c \in Clients |-> "id"]
    /\ cst = [c \in Clients |-> None]
    /\ sockRemote = [s \in Socks |-> None]
    /\ open = [s \in Socks |-> FALSE]
    /\ cli = [s \in Socks |-> None]
-----------------------------------------------------------------------------
Addr(r) == <<r, "addr">>
ID(r) == <<r, "id">>

Goto(t, l) == pc' = [pc EXCEPT ![t] = l]

\* The call is over and its arguments and result are forgotten.
Return(t, l) ==
    /\ Goto(t, l)
    /\ key' = [key EXCEPT ![t] = None]
    /\ cl' = [cl EXCEPT ![t] = None]

Uncreated == {c \in Clients : remote[c] = None}
UnusedSocks == {s \in Socks : sockRemote[s] = None}

\* getOrSetPeerClient(address, peerID, conn) is called with key k; it returns
\* with pc "got" and the client in cl, or with pc "failed".
Call(t, k) ==
    /\ key' = [key EXCEPT ![t] = k]
    /\ cl' = [cl EXCEPT ![t] = None]
    /\ Goto(t, "want")

\* The first statement of PeerClient.Close, an atomic swap: only one caller
\* goes on to RemoveEntries, the others return.
BeginClose(c) == cpc' = [cpc EXCEPT ![c] = IF @ = "open" THEN "find" ELSE @]

\* Thread t calls Close of an open client and is busy with it until it ends.
CloseAndWait(t, c) ==
    /\ BeginClose(c)
    /\ Goto(t, "closing")
    /\ key' = [key EXCEPT ![t] = None]
    /\ cl' = [cl EXCEPT ![t] = c]
-----------------------------------------------------------------------------
(* getOrSetPeerClient. *)

\* Mutant: createClientMutex is not waited for.
LockCreateUnguarded(t) ==
    /\ pc[t] = "want"
    /\ createMutex' = t
    /\ Goto(t, IF key[t][2] = "id" THEN "copyPeers" ELSE "load")
    /\ UNCHANGED <<maps, connMutex, key, cl, clients, closing, sockets>>

LockCreate(t) ==
    /\ pc[t] = "want"
    /\ createMutex = None
    /\ createMutex' = t
    /\ Goto(t, IF key[t][2] = "id" THEN "copyPeers" ELSE "load")
    /\ UNCHANGED <<maps, connMutex, key, cl, clients, closing, sockets>>

\* resetConnMgrItemByPeerID takes one map after the other, stores the entry of
\* the address under the peer ID and then deletes it under the address.  It
\* returns at the first map without an entry and does not hold ConnMgr.Mutex.
Copy(f, t, next) ==
    LET r == key[t][1] IN
    IF f[Addr(r)] # None
    THEN f' = [f EXCEPT ![ID(r)] = f[Addr(r)]] /\ Goto(t, next)
    ELSE Goto(t, "load") /\ UNCHANGED f

\* Mutant: the entry of the address is kept.
DropNothing(f, t, next) == Goto(t, next) /\ UNCHANGED f

Drop(f, t, next) == f' = [f EXCEPT ![Addr(key[t][1])] = None] /\ Goto(t, next)

ResetPeers(t) ==
    /\ \/ pc[t] = "copyPeers" /\ Copy(peers, t, "dropPeers")
       \/ pc[t] = "dropPeers" /\ Drop(peers, t, "copyConns")
    /\ UNCHANGED <<connections, streams, connStates, locks, key, cl, clients, closing, sockets>>

ResetConns(t) ==
    /\ \/ pc[t] = "copyConns" /\ Copy(connections, t, "dropConns")
       \/ pc[t] = "dropConns" /\ Drop(connections, t, "copyStates")
    /\ UNCHANGED <<peers, streams, connStates, locks, key, cl, clients, closing, sockets>>

ResetStates(t) ==
    /\ \/ pc[t] = "copyStates" /\ Copy(connStates, t, "dropStates")
       \/ pc[t] = "dropStates" /\ Drop(connStates, t, "copyStreams")
    /\ UNCHANGED <<peers, connections, streams, locks, key, cl, clients, closing, sockets>>

ResetStreams(t) ==
    /\ \/ pc[t] = "copyStreams" /\ Copy(streams, t, "dropStreams")
       \/ pc[t] = "dropStreams" /\ Drop(streams, t, "load")
    /\ UNCHANGED <<peers, connections, connStates, locks, key, cl, clients, closing, sockets>>

\* Mutant: a cached client is ignored.
LoadNothing(t) ==
    /\ pc[t] = "load"
    /\ IF Uncreated # {}
       THEN Goto(t, "lock") /\ UNCHANGED createMutex
       ELSE Goto(t, "failed") /\ createMutex' = None
    /\ UNCHANGED <<maps, connMutex, key, cl, clients, closing, sockets>>

\* A cached client is returned when its outgoingReady is closed; without one
\* the call goes on to create it.  The deferred unlock ends the call.  Once all
\* Clients are used up (the bound of the model) a call that needs one fails the
\* way it fails when the dial does.
Load(t) ==
    LET c == peers[key[t]] IN
    /\ pc[t] = "load"
    /\ IF c = None /\ Uncreated # {}
       THEN Goto(t, "lock") /\ UNCHANGED <<createMutex, cl>>
       ELSE /\ Goto(t, IF c # None /\ outReady[c] THEN "got" ELSE "failed")
            /\ cl' = [cl EXCEPT ![t] = c]
            /\ createMutex' = None
    /\ UNCHANGED <<maps, connMutex, key, clients, closing, sockets>>

\* ConnMgr.Mutex is taken and stays taken while dialling.  An Accept goroutine
\* brings its socket unless the node works behind a proxy.
LockConn(t) ==
    /\ pc[t] = "lock"
    /\ connMutex = None
    /\ connMutex' = t
    /\ \E c \in Uncreated :
         /\ remote' = [remote EXCEPT ![c] = key[t][1]]
         /\ cl' = [cl EXCEPT ![t] = c]
         /\ IF t \in Socks /\ ~ProxyMode
            THEN sock' = [sock EXCEPT ![c] = t] /\ Goto(t, "init")
            ELSE Goto(t, "dial") /\ UNCHANGED sock
    /\ UNCHANGED <<maps, createMutex, key, connNil, hasID, gotPubKey, outReady, inReady,
                   closing, sockets>>

\* Dial starts the Accept goroutine of the new socket before the client is in
\* any map.
Dial(t) ==
    /\ pc[t] = "dial"
    /\ \E s \in UnusedSocks :
         /\ sockRemote' = [sockRemote EXCEPT ![s] = key[t][1]]
         /\ open' = [open EXCEPT ![s] = TRUE]
         /\ cli' = [cli EXCEPT ![s] = cl[t]]
         /\ sock' = [sock EXCEPT ![cl[t]] = s]
         /\ pc' = [pc EXCEPT ![t] = "init", ![s] = "read"]
    /\ UNCHANGED <<maps, locks, key, cl, remote, connNil, hasID, gotPubKey, outReady, inReady,
                   closing>>

DialError(t) ==
    /\ pc[t] = "dial"
    /\ peers' = [peers EXCEPT ![key[t]] = None]
    /\ outReady' = [outReady EXCEPT ![cl[t]] = TRUE]
    /\ createMutex' = None /\ connMutex' = None
    /\ Goto(t, "failed")
    /\ UNCHANGED <<connections, streams, connStates, key, cl, remote, sock, connNil, hasID,
                   gotPubKey, inReady, closing, sockets>>

InitConnection(t) ==
    /\ pc[t] = "init"
    /\ connections' = [connections EXCEPT ![key[t]] = cl[t]]
    /\ Goto(t, "store")
    /\ UNCHANGED <<peers, streams, connStates, locks, key, cl, clients, closing, sockets>>

Store(t) ==
    /\ pc[t] = "store"
    /\ peers' = [peers EXCEPT ![key[t]] = cl[t]]
    /\ streams' = [streams EXCEPT ![key[t]] = cl[t]]
    /\ Goto(t, "connect")
    /\ UNCHANGED <<connections, connStates, locks, key, cl, clients, closing, sockets>>

\* Mutant: ConnMgr.Mutex is not unlocked.
PublishLocked(t) ==
    /\ pc[t] = "connect"
    /\ connStates' = [connStates EXCEPT ![key[t]] = "REACHABLE"]
    /\ inReady' = [inReady EXCEPT ![cl[t]] = TRUE]
    /\ Goto(t, "ready")
    /\ UNCHANGED <<peers, connections, streams, locks, key, cl, remote, sock, connNil, hasID,
                   gotPubKey, outReady, closing, sockets>>

\* client.Init: PeerConnect of every component, then the state of the peer,
\* incomingReady and the deferred unlock of ConnMgr.Mutex.
Publish(t) ==
    /\ pc[t] = "connect"
    /\ connStates' = [connStates EXCEPT ![key[t]] = "REACHABLE"]
    /\ inReady' = [inReady EXCEPT ![cl[t]] = TRUE]
    /\ connMutex' = None
    /\ Goto(t, "ready")
    /\ UNCHANGED <<peers, connections, streams, createMutex, key, cl, remote, sock, connNil,
                   hasID, gotPubKey, outReady, closing, sockets>>

\* The deferred setOutgoingReady runs before the deferred unlock of
\* createClientMutex.
SetOutgoingReady(t) ==
    /\ pc[t] = "ready"
    /\ outReady' = [outReady EXCEPT ![cl[t]] = TRUE]
    /\ createMutex' = None
    /\ Goto(t, "got")
    /\ UNCHANGED <<maps, connMutex, key, cl, remote, sock, connNil, hasID, gotPubKey, inReady,
                   closing, sockets>>
-----------------------------------------------------------------------------
(* Accept, one goroutine per socket. *)

\* The listener accepts a connection: Accept(conn, nil).
Listen(s, r) ==
    /\ s \in UnusedSocks
    /\ sockRemote' = [sockRemote EXCEPT ![s] = r]
    /\ open' = [open EXCEPT ![s] = TRUE]
    /\ Goto(s, "read")
    /\ UNCHANGED <<maps, locks, key, cl, clients, closing, cli>>

\* A message arrives; its sender has the address and the ID of the other end.
Receive(s) ==
    /\ pc[s] = "read"
    /\ open[s]
    /\ Call(s, ID(sockRemote[s]))
    /\ UNCHANGED <<maps, locks, clients, closing, sockets>>

\* receiveMessage fails: the other end has gone, or this end closed the socket.
ReceiveError(s) ==
    /\ pc[s] = "read"
    /\ open' = [open EXCEPT ![s] = FALSE]
    /\ Goto(s, "exit")
    /\ UNCHANGED <<maps, locks, key, cl, clients, closing, sockRemote, cli>>

\* client.ID = msg.Sender
SetID(s) ==
    /\ s \in Socks /\ pc[s] = "got"
    /\ hasID' = [hasID EXCEPT ![cl[s]] = TRUE]
    /\ Goto(s, "dispatch")
    /\ UNCHANGED <<maps, locks, key, cl, remote, sock, connNil, gotPubKey, outReady, inReady,
                   closing, sockets>>

\* The connection must still be registered, the signature valid; then
\* dispatchMessage hands the message to the components, which matter here for
\* Pong (the remote key is known) and Disconnect (the client is to be closed).
Dispatch(s, msg) ==
    /\ pc[s] = "dispatch"
    /\ IF connections[key[s]] = None \/ msg = "malformed"
       THEN Return(s, "exit") /\ UNCHANGED <<gotPubKey, told>>
       ELSE /\ Return(s, "read")
            /\ gotPubKey' = [gotPubKey EXCEPT ![cl[s]] = @ \/ (inReady[cl[s]] /\ msg = "pong")]
            /\ told' = [told EXCEPT ![cl[s]] = @ \/ (inReady[cl[s]] /\ msg = "disconnect")]
    /\ UNCHANGED <<maps, locks, remote, sock, connNil, hasID, outReady, inReady, cpc, ckey, cst,
                   nodeQuit, sockets>>

\* The goroutine that runs the components for a Disconnect message.
Disconnect(c) ==
    /\ told[c]
    /\ told' = [told EXCEPT ![c] = FALSE]
    /\ BeginClose(c)
    /\ UNCHANGED <<maps, locks, threads, remote, sock, connNil, hasID, gotPubKey, outReady,
                   inReady, ckey, cst, nodeQuit, sockets>>

\* The deferred function of Accept: close the client it was started for, if
\* any, then the socket.
Exit(s) ==
    LET c == cli[s] IN
    /\ s \in Socks /\ pc[s] \in {"exit", "failed"}
    /\ IF c # None /\ cpc[c] = "open"
       THEN CloseAndWait(s, c) /\ UNCHANGED open
       ELSE /\ open' = [open EXCEPT ![s] = FALSE]
            /\ Return(s, "done")
            /\ UNCHANGED cpc
    /\ UNCHANGED <<maps, locks, clients, told, ckey, cst, nodeQuit, sockRemote, cli>>
-----------------------------------------------------------------------------
(* Goroutines that ask for a client. *)

\* Bootstrap and ConnectProxyServer: Client(address, "").
Bootstrap(t, r) ==
    /\ pc[t] = "idle"
    /\ Call(t, Addr(r))
    /\ UNCHANGED <<maps, locks, clients, closing, sockets>>

\* ConnectPeer asks first whether the address is known; ReconnectPeer ends in
\* ConnectPeer once it has closed the client of the address.
ConnectPeer(t, r) ==
    /\ \/ pc[t] = "idle"
       \/ /\ pc[t] = "reconnect" /\ key[t] = Addr(r)
          /\ cl[t] # None => cpc[cl[t]] = "closed"
    /\ IF connections[Addr(r)] # None \/ peers[Addr(r)] # None
       THEN Return(t, "idle")
       ELSE Call(t, Addr(r))
    /\ UNCHANGED <<maps, locks, clients, closing, sockets>>

ReconnectPeer(t, r) ==
    LET c == peers[Addr(r)] IN
    /\ pc[t] = "idle"
    /\ c # None
    /\ BeginClose(c)
    /\ key' = [key EXCEPT ![t] = Addr(r)]
    /\ cl' = [cl EXCEPT ![t] = IF cpc[c] = "open" THEN c ELSE None]
    /\ Goto(t, "reconnect")
    /\ UNCHANGED <<maps, locks, clients, told, ckey, cst, nodeQuit, sockets>>

\* The reconnect of the backoff component and the lookups of discovery:
\* Client(address, peerID).
ClientByID(t, r) ==
    /\ pc[t] = "idle"
    /\ Call(t, ID(r))
    /\ UNCHANGED <<maps, locks, clients, closing, sockets>>

\* Network.Write with key k: the ConnState must exist and have a connection;
\* the send may then fail, and must fail on a closed socket.
Writable(k) == connections[k] # None /\ ~connNil[connections[k]]
Sendable(k) == Writable(k) /\ open[sock[connections[k]]]

\* The Ping that follows.  TellByAddr writes to the address, and the result is
\* awaited; Tell writes to client.PeerID(), empty before a message arrived.
Ping(t) ==
    LET k == key[t]
        known == k[2] = "id" => hasID[cl[t]]
    IN
    /\ t \in Dialers /\ pc[t] = "got"
    /\ \/ Sendable(k) /\ k[2] = "addr" /\ Goto(t, "wait") /\ UNCHANGED <<key, cl>>
       \/ Sendable(k) /\ k[2] = "id" /\ known /\ Return(t, "idle")
       \/ Writable(k) /\ known /\ Goto(t, "sendError") /\ UNCHANGED <<key, cl>>
       \/ ~(known /\ Writable(k)) /\ Return(t, "idle")
    /\ UNCHANGED <<maps, locks, clients, closing, sockets>>

\* The application, a broadcast or a reply writes to k and the send fails; a
\* successful one changes nothing here.
WriteError(t, k) ==
    /\ t \in Writers /\ pc[t] = "idle"
    /\ Writable(k)
    /\ key' = [key EXCEPT ![t] = k]
    /\ Goto(t, "sendError")
    /\ UNCHANGED <<maps, locks, cl, clients, closing, sockets>>

\* The end of a failed Write: whichever client is registered under the key now
\* is closed.
CloseAfterError(t) ==
    LET c == peers[key[t]] IN
    /\ pc[t] = "sendError"
    /\ IF c # None /\ cpc[c] = "open"
       THEN CloseAndWait(t, c)
       ELSE Return(t, "idle") /\ UNCHANGED cpc
    /\ UNCHANGED <<maps, locks, clients, told, ckey, cst, nodeQuit, sockets>>

\* waitBootstrapSuccess: the key of the remote arrives, or the ticker fires
\* first and the client is closed.
WaitSuccess(t) ==
    /\ pc[t] = "wait"
    /\ gotPubKey[cl[t]]
    /\ Return(t, "idle")
    /\ UNCHANGED <<maps, locks, clients, closing, sockets>>

WaitTimeout(t) ==
    /\ pc[t] = "wait"
    /\ IF cpc[cl[t]] = "open"
       THEN CloseAndWait(t, cl[t])
       ELSE Return(t, "idle") /\ UNCHANGED cpc
    /\ UNCHANGED <<maps, locks, clients, told, ckey, cst, nodeQuit, sockets>>

\* A goroutine whose own Close has come to its end goes on.
Closed(t) ==
    /\ pc[t] = "closing" /\ cpc[cl[t]] = "closed"
    /\ IF t \in Socks
       THEN open' = [open EXCEPT ![t] = FALSE] /\ Return(t, "done")
       ELSE Return(t, "idle") /\ UNCHANGED open
    /\ UNCHANGED <<maps, locks, clients, closing, sockRemote, cli>>

CallFailed(t) ==
    /\ t \in Dialers /\ pc[t] = "failed"
    /\ Return(t, "idle")
    /\ UNCHANGED <<maps, locks, clients, closing, sockets>>
-----------------------------------------------------------------------------
(* PeerClient.Close after its first caller went ahead: RemoveEntries, then
   PeerDisconnect of every component. *)

CloseGoto(c, l) == cpc' = [cpc EXCEPT ![c] = l]
CloseKey(c) == <<remote[c], ckey[c]>>

\* ConnectionState(PeerID()), then ConnectionState(clientAddr).  PeerID() is
\* empty while ID is nil.
Find(c) ==
    LET state == connections[CloseKey(c)] IN
    /\ cpc[c] = "find"
    /\ IF (ckey[c] = "id" => hasID[c]) /\ state # None
       THEN /\ cst' = [cst EXCEPT ![c] = state]
            /\ CloseGoto(c, "shut")
            /\ UNCHANGED ckey
       ELSE /\ ckey' = [ckey EXCEPT ![c] = "addr"]
            /\ CloseGoto(c, IF ckey[c] = "id" THEN "find" ELSE "callbacks")
            /\ UNCHANGED cst
    /\ UNCHANGED <<maps, locks, threads, clients, told, nodeQuit, sockets>>

\* state.conn.(net.Conn).Close(): the type assertion panics on a nil conn.
Shut(c) ==
    /\ cpc[c] = "shut"
    /\ ~connNil[cst[c]]
    /\ open' = [open EXCEPT ![sock[cst[c]]] = FALSE]
    /\ CloseGoto(c, "delPeers")
    /\ UNCHANGED <<maps, locks, threads, clients, told, ckey, cst, nodeQuit, sockRemote, cli>>

\* Mutant: the entry of peers is forgotten.
DeletePeersNot(c) ==
    /\ cpc[c] = "delPeers"
    /\ connMutex = None
    /\ connMutex' = c
    /\ CloseGoto(c, "delConns")
    /\ UNCHANGED <<maps, createMutex, threads, clients, told, ckey, cst, nodeQuit, sockets>>

\* Under ConnMgr.Mutex the entries of the key go and its state becomes
\* UNREACHABLE; readers and resetConnMgrItemByPeerID do not wait for the mutex.
DeletePeers(c) ==
    /\ cpc[c] = "delPeers"
    /\ connMutex = None
    /\ connMutex' = c
    /\ peers' = [peers EXCEPT ![CloseKey(c)] = None]
    /\ CloseGoto(c, "delConns")
    /\ UNCHANGED <<connections, streams, connStates, createMutex, threads, clients, told, ckey, cst,
                   nodeQuit, sockets>>

DeleteConns(c) ==
    /\ cpc[c] = "delConns"
    /\ connections' = [connections EXCEPT ![CloseKey(c)] = None]
    /\ CloseGoto(c, "delStreams")
    /\ UNCHANGED <<peers, streams, connStates, locks, threads, clients, told, ckey, cst, nodeQuit,
                   sockets>>

\* Mutant: the streams are kept.
DeleteStreamsNot(c) ==
    /\ cpc[c] = "delStreams"
    /\ CloseGoto(c, "delStates")
    /\ UNCHANGED <<maps, locks, threads, clients, told, ckey, cst, nodeQuit, sockets>>

DeleteStreams(c) ==
    /\ cpc[c] = "delStreams"
    /\ streams' = [streams EXCEPT ![CloseKey(c)] = None]
    /\ CloseGoto(c, "delStates")
    /\ UNCHANGED <<peers, connections, connStates, locks, threads, clients, told, ckey, cst, nodeQuit,
                   sockets>>

\* Mutant: the unlock waits for room in nodeQuit.
SendBeforeUnlock(c) ==
    /\ cpc[c] = "delStates"
    /\ nodeQuit < NodeQuitCap
    /\ connStates' = [connStates EXCEPT ![CloseKey(c)] = "UNREACHABLE"]
    /\ connMutex' = None
    /\ CloseGoto(c, "quit")
    /\ UNCHANGED <<peers, connections, streams, createMutex, threads, clients, told, ckey, cst,
                   nodeQuit, sockets>>

SetUnreachable(c) ==
    /\ cpc[c] = "delStates"
    /\ connStates' = [connStates EXCEPT ![CloseKey(c)] = "UNREACHABLE"]
    /\ connMutex' = None
    /\ CloseGoto(c, "quit")
    /\ UNCHANGED <<peers, connections, streams, createMutex, threads, clients, told, ckey, cst,
                   nodeQuit, sockets>>

\* nodeQuit <- c.ClientID(), for the peer ID only; it blocks on a full channel.
\* Then state.conn = nil.
Quit(c) ==
    /\ cpc[c] = "quit"
    /\ IF ckey[c] = "id"
       THEN /\ nodeQuit < NodeQuitCap
            /\ nodeQuit' = nodeQuit + 1
            /\ CloseGoto(c, "find")
       ELSE CloseGoto(c, "callbacks") /\ UNCHANGED nodeQuit
    /\ ckey' = [ckey EXCEPT ![c] = "addr"]
    /\ connNil' = [connNil EXCEPT ![cst[c]] = TRUE]
    /\ UNCHANGED <<maps, locks, threads, remote, sock, hasID, gotPubKey, outReady, inReady,
                   told, cst, sockets>>

Callbacks(c) ==
    /\ cpc[c] = "callbacks"
    /\ CloseGoto(c, "closed")
    /\ UNCHANGED <<maps, locks, threads, clients, told, ckey, cst, nodeQuit, sockets>>

\* A peer is REACHABLE when all three maps say so.
GetRealConnState(k) ==
    IF connStates[k] = "REACHABLE" /\ peers[k] # None /\ connections[k] # None
    THEN "REACHABLE" ELSE "UNREACHABLE"

\* The application reads QuitNode().
ReadQuitNode ==
    /\ nodeQuit > 0
    /\ nodeQuit' = nodeQuit - 1
    /\ UNCHANGED <<maps, locks, threads, clients, told, cpc, ckey, cst, sockets>>
-----------------------------------------------------------------------------
GetOrSet(t) ==
    \/ LockCreate(t) \/ ResetPeers(t) \/ ResetConns(t) \/ ResetStates(t) \/ ResetStreams(t)
    \/ Load(t) \/ LockConn(t) \/ Dial(t) \/ DialError(t)
    \/ InitConnection(t) \/ Store(t) \/ Publish(t) \/ SetOutgoingReady(t)

Accept(s) ==
    \/ Receive(s) \/ ReceiveError(s) \/ SetID(s) \/ Exit(s)
    \/ \E msg \in {"pong", "disconnect", "malformed", "other"} : Dispatch(s, msg)

Dialer(t) ==
    \/ \E r \in Remotes :
         Bootstrap(t, r) \/ ConnectPeer(t, r) \/ ReconnectPeer(t, r) \/ ClientByID(t, r)
    \/ Ping(t) \/ WaitSuccess(t) \/ WaitTimeout(t) \/ CallFailed(t)

Close(c) ==
    \/ Find(c) \/ Shut(c) \/ DeletePeers(c) \/ DeleteConns(c) \/ DeleteStreams(c)
    \/ SetUnreachable(c) \/ Quit(c) \/ Callbacks(c)

Next ==
    \/ \E t \in Threads : GetOrSet(t) \/ CloseAfterError(t) \/ Closed(t)
    \/ \E s \in Socks : Accept(s) \/ \E r \in Remotes : Listen(s, r)
    \/ \E t \in Dialers : Dialer(t)
    \/ \E t \in Writers, k \in Key : WriteError(t, k)
    \/ \E c \in Clients : Disconnect(c) \/ Close(c)
    \/ ReadQuitNode

Spec == Init /\ [][Next]_vars

\* The Go scheduler runs every goroutine that can run, and a sync.Mutex hands
\* itself over to a waiter that has waited too long, as a channel does to the
\* first of its senders.  Nothing is assumed of the
\* remote nodes, of the callers and of the reader of QuitNode().
Fairness ==
    /\ \A t \in Threads : SF_vars(GetOrSet(t))
    /\ \A c \in Clients : SF_vars(Close(c))

FairSpec == Spec /\ Fairness
-----------------------------------------------------------------------------
(* What holds of every node. *)

\* A client found in the map is ready: the cached branch of getOrSetPeerClient
\* never answers "peer failed to connect", and dispatchMessage never drops a
\* message because incomingReady is still open.
ReadyWhenUsed ==
    /\ \A t \in Threads : pc[t] = "load" /\ peers[key[t]] # None => outReady[peers[key[t]]]
    /\ \A s \in Socks : pc[s] \in {"got", "dispatch"} => inReady[cl[s]]

\* Whenever no call of getOrSetPeerClient is under way, a client is registered
\* under one key only: resetConnMgrItemByPeerID leaves no entry behind.
OneEntry ==
    createMutex = None => \A k, l \in Key : peers[k] # None /\ peers[k] = peers[l] => k = l

\* getOrSetPeerClient always returns, even when nobody reads QuitNode() and
\* every Close is stuck sending to it: the mutexes are free by then.
GetOrSetReturns ==
    \A t \in Threads : pc[t] \in GetOrSetPC ~> pc[t] \notin GetOrSetPC
-----------------------------------------------------------------------------
(* What holds of a node that is only dialled. *)

Idle == createMutex = None /\ connMutex = None

\* RemoveEntries shuts the connection of its own client, once: it never takes
\* the connection of a successor and never meets a nil conn.
ShutsOwnConn == \A c \in Clients : cpc[c] = "shut" => cst[c] = c /\ ~connNil[c]

\* A Close that found the connection of its client has unregistered the client
\* by the time it reports the quit, and nobody registers it again.
CloseRemoves ==
    \A c \in Clients : cst[c] = c /\ cpc[c] \in {"quit", "callbacks", "closed"} =>
        \A k \in Key : peers[k] # c

\* Whenever both mutexes are free the maps agree: the same client, connection
\* and streams under a key, and GetRealConnState reports REACHABLE for exactly
\* the registered peers.
MapsAgree ==
    Idle => \A k \in Key :
        /\ connections[k] = peers[k] /\ streams[k] = peers[k]
        /\ GetRealConnState(k) = "REACHABLE" <=> peers[k] # None

\* A Close hangs in one place only, the send to a full nodeQuit: it never waits
\* for ever for ConnMgr.Mutex, and without the send it reaches the end of the
\* PeerDisconnect callbacks.
CloseEnds ==
    \A c \in Clients :
        cpc[c] = "find" ~> cpc[c] = "closed" \/ (cpc[c] = "quit" /\ nodeQuit = NodeQuitCap)
-----------------------------------------------------------------------------
(* What a comment of the code says and a node that dials does not keep. *)

\* "Remove entries from node's network": the entries of a closed client.
ClosedUnregistered ==
    \A k \in Key : peers[k] # None => cpc[peers[k]] # "closed"
=============================================================================
