--------------------------- MODULE ConnMgrProofs ----------------------------
(***************************************************************************)
(* The inductive invariant of ConnMgr and its proof; with it ReadyWhenUsed *)
(* and OneEntry hold for every number of remote nodes, clients, sockets    *)
(* and goroutines, with and without proxy mode.                            *)
(*                                                                         *)
(* The second part is about a node that is only dialled: no goroutine asks *)
(* for a client and there is no proxy, so that clients are created by      *)
(* Accept, under the peer ID, and closed by failed writes and Disconnect   *)
(* messages. For every number of remote nodes, clients, sockets and        *)
(* writers a Close shuts the connection of its own client and unregisters  *)
(* it, and the four maps agree whenever both mutexes are free.             *)
(*                                                                         *)
(* The maps are written one after the other, so the invariant says what    *)
(* each of them holds at every position of a creation and of a Close; both *)
(* hold ConnMgr.Mutex there, which is why they never meet.                 *)
(***************************************************************************)
EXTENDS ConnMgr, TLAPS

Created == {c \in Clients : remote[c] \in Remotes}

\* A thread is inside the critical section of createClientMutex exactly when it
\* holds it.
CriticalPC == GetOrSetPC \ {"want"}
MutexInv == \A t \in Threads : pc[t] \in CriticalPC <=> createMutex = t

\* What a thread knows at its position: the key it was called with, the client
\* it works on.
CreatingPC == {"dial", "init", "store", "connect", "ready"}
Knows(p, k, c) ==
    /\ p \in GetOrSetPC \cup {"got", "dispatch", "sendError"} => k # None
    /\ p \in CreatingPC \cup {"got", "dispatch", "wait", "closing"} => c # None

LocalInv ==
    /\ \A t \in Threads : Knows(pc[t], key[t], cl[t]) /\ cl[t] \in Created \cup {None}
    /\ \A s \in Socks : cli[s] \in Created \cup {None}
    /\ \A s \in Socks : sockRemote[s] = None => pc[s] = "done"

\* Only clients that were created are in a map or closed.
CreatedInv ==
    /\ \A k \in Key : peers[k] \in Created \cup {None}
    /\ \A c \in Clients : told[c] \/ cpc[c] # "open" => c \in Created

\* A registered client is ready, but for the one whose creation is not over.
ReadyInv ==
    /\ \A t \in Threads : pc[t] \in {"ready", "got", "dispatch"} => inReady[cl[t]]
    /\ \A k \in Key : peers[k] # None =>
         \/ outReady[peers[k]] /\ inReady[peers[k]]
         \/ \E t \in Threads : pc[t] \in {"connect", "ready"} /\ cl[t] = peers[k]

\* Two keys hold one client only between the two halves of the move; a client
\* that is being created is in no map yet.
UniqueInv ==
    /\ \A k, l \in Key : peers[k] # None /\ peers[k] = peers[l] /\ k # l =>
         \E t \in Threads : pc[t] = "dropPeers" /\ k[1] = key[t][1] /\ l[1] = key[t][1]
    /\ \A t \in Threads : pc[t] \in {"dial", "init", "store"} =>
         \A k \in Key : peers[k] # cl[t]

\* The inductive invariant.
IInv == TypeOK /\ MutexInv /\ LocalInv /\ CreatedInv /\ ReadyInv /\ UniqueInv

USE DEF maps, locks, threads, clients, closing, sockets
-----------------------------------------------------------------------------
(* Keys, and steps that leave most of the invariant alone. *)

\* The parts of the invariant.
LEMMA Parts ==
    ASSUME IInv
    PROVE  TypeOK /\ MutexInv /\ LocalInv /\ CreatedInv /\ ReadyInv /\ UniqueInv
  BY DEF IInv

\* And back.
LEMMA Whole ==
    ASSUME MapsType', ThreadsType', ClientsType', ClosingType', MutexInv', LocalInv',
           CreatedInv', ReadyInv', UniqueInv'
    PROVE  IInv'
  BY DEF IInv, TypeOK

\* A key is the address or the peer ID of one remote node.
LEMMA Keys ==
    /\ \A r \in Remotes : Addr(r) \in Key /\ ID(r) \in Key /\ Addr(r) # ID(r)
    /\ \A k \in Key : k[1] \in Remotes /\ (k = Addr(k[1]) \/ k = ID(k[1]))
    /\ \A k \in Key : k # None
  BY ConnAssumption DEF Key, Addr, ID

\* The positions at which a thread neither moves an entry of peers nor has a
\* client in the making.
QuietPC == ThreadPC \ ({"dropPeers"} \cup CreatingPC)

\* Thread t goes to p with argument k and client c.
Moves(t, p, k, c) ==
    /\ pc' = [pc EXCEPT ![t] = p]
    /\ key' = [key EXCEPT ![t] = k]
    /\ cl' = [cl EXCEPT ![t] = c]

Others(t) == \A u \in Threads \ {t} : pc'[u] = pc[u] /\ key'[u] = key[u] /\ cl'[u] = cl[u]
At(t, p, k, c) == pc'[t] = p /\ key'[t] = k /\ cl'[t] = c

\* What a step of one thread to a position does to it and to the others.
LEMMA MoveStep ==
    ASSUME IInv, NEW t \in Threads, NEW p \in ThreadPC, NEW k \in Key \cup {None},
           NEW c \in Clients \cup {None}, Moves(t, p, k, c)
    PROVE  /\ Others(t) /\ At(t, p, k, c)
           /\ pc' \in [Threads -> ThreadPC]
           /\ key' \in [Threads -> Key \cup {None}]
           /\ cl' \in [Threads -> Clients \cup {None}]
  BY Zenon, Parts DEF Moves, Others, At, TypeOK, ThreadsType

\* The parts of the invariant that speak of single threads, over a move.
LEMMA ThreadStep ==
    ASSUME IInv, NEW t \in Threads, NEW p \in ThreadPC, NEW k \in Key \cup {None},
           NEW c \in Clients \cup {None}, Moves(t, p, k, c),
           Knows(p, k, c), c \in Created' \cup {None}, pc[t] # "done",
           Created \subseteq Created', UNCHANGED <<sockRemote, cli>>, open' \in [Socks -> BOOLEAN]
    PROVE  ThreadsType' /\ LocalInv' /\ Others(t) /\ At(t, p, k, c)
<1>1. /\ Others(t) /\ At(t, p, k, c)
      /\ pc' \in [Threads -> ThreadPC]
      /\ key' \in [Threads -> Key \cup {None}]
      /\ cl' \in [Threads -> Clients \cup {None}]
  BY Zenon, MoveStep
<1>2. ThreadsType'
  BY Zenon, Parts, <1>1 DEF TypeOK, ThreadsType
<1>3. ASSUME NEW u \in Threads
      PROVE  Knows(pc'[u], key'[u], cl'[u]) /\ cl'[u] \in Created' \cup {None}
  BY Zenon, Parts, <1>1, <1>3 DEF LocalInv, Others, At
<1>4. \A s \in Socks : /\ cli'[s] \in Created' \cup {None}
                       /\ sockRemote'[s] = None => pc'[s] = "done"
  BY Zenon, Parts, <1>1 DEF LocalInv, Others, Threads
<1>5. LocalInv'
  BY Zenon, <1>3, <1>4 DEF LocalInv, Knows
<1> QED BY Zenon, <1>1, <1>2, <1>5

\* A thread takes createClientMutex when it enters the critical section and
\* gives it back when it leaves.
LEMMA MutexStep ==
    ASSUME IInv, NEW t \in Threads, Others(t),
           \/ (pc[t] \in CriticalPC <=> pc'[t] \in CriticalPC) /\ UNCHANGED createMutex
           \/ pc[t] \in CriticalPC /\ pc'[t] \notin CriticalPC /\ createMutex' = None
           \/ createMutex = None /\ pc'[t] \in CriticalPC /\ createMutex' = t
    PROVE  MutexInv'
  BY Zenon, Parts, ConnAssumption DEF MutexInv, Others

\* A move between quiet positions that changes neither peers nor a ready flag.
LEMMA QuietStep ==
    ASSUME IInv, NEW t \in Threads, pc[t] \in QuietPC \ {"done"},
           NEW p \in QuietPC, NEW k \in Key \cup {None}, NEW c \in Created \cup {None},
           Moves(t, p, k, c), Knows(p, k, c), p \in {"got", "dispatch"} => inReady[c],
           \/ (pc[t] \in CriticalPC <=> p \in CriticalPC) /\ UNCHANGED createMutex
           \/ pc[t] \in CriticalPC /\ p \notin CriticalPC /\ createMutex' = None
           \/ createMutex = None /\ p \in CriticalPC /\ createMutex' = t,
           UNCHANGED <<peers, remote, outReady, inReady, sockRemote, cli>>,
           open' \in [Socks -> BOOLEAN], MapsType', ClientsType', ClosingType',
           \A d \in Clients : told'[d] \/ cpc'[d] # "open" => d \in Created
    PROVE  IInv'
<1>1. Created' = Created
  BY DEF Created
<1>2. p \in ThreadPC /\ c \in Clients \cup {None}
  BY DEF QuietPC, Created
<1>3. ThreadsType' /\ LocalInv' /\ Others(t) /\ At(t, p, k, c)
  BY Zenon, <1>1, <1>2, ThreadStep
<1>4. MutexInv'
  BY Zenon, <1>3, MutexStep DEF At
<1>5. CreatedInv'
  BY Zenon, Parts, <1>1 DEF CreatedInv
<1>6. ReadyInv'
  BY Parts, <1>3 DEF ReadyInv, QuietPC, CreatingPC, Others, At
<1>7. UniqueInv'
  BY Parts, <1>3 DEF UniqueInv, QuietPC, CreatingPC, Others, At
<1> QED BY Zenon, <1>3, <1>4, <1>5, <1>6, <1>7, Whole

\* Close touches no thread; of the registered clients it can only remove some.
LEMMA CloseStep ==
    ASSUME IInv, \A k \in Key : peers'[k] \in {peers[k], None},
           UNCHANGED <<createMutex, threads, remote, outReady, inReady, sockRemote, cli>>,
           open' \in [Socks -> BOOLEAN], MapsType', ClientsType', ClosingType',
           \A d \in Clients : told'[d] \/ cpc'[d] # "open" => d \in Created
    PROVE  IInv'
<1>1. Created' = Created
  BY DEF Created
<1>2. ThreadsType' /\ LocalInv' /\ CreatedInv'
  BY Zenon, Parts, <1>1 DEF TypeOK, ThreadsType, LocalInv, Knows, CreatedInv
<1>3. MutexInv'
  BY Zenon, Parts DEF MutexInv
<1>4. ReadyInv'
  BY Parts DEF ReadyInv
<1>5. UniqueInv'
  BY Parts DEF UniqueInv, LocalInv, Knows, CreatingPC
<1> QED BY Zenon, <1>2, <1>3, <1>4, <1>5, Whole

\* A thread in the critical section is alone there and knows its key.
LEMMA Alone ==
    ASSUME IInv, NEW t \in Threads, pc[t] \in CriticalPC
    PROVE  /\ createMutex = t
           /\ \A u \in Threads \ {t} : pc[u] \notin CriticalPC
           /\ key[t] \in Key /\ key[t][1] \in Remotes
  BY Parts, Keys DEF MutexInv, LocalInv, Knows, TypeOK, ThreadsType, CriticalPC
-----------------------------------------------------------------------------
(* Threads outside getOrSetPeerClient. *)

OutsidePC == ThreadPC \ CriticalPC

\* A thread outside getOrSetPeerClient moves on; it may begin to close a client
\* and a socket may be shut.
LEMMA CallerStep ==
    ASSUME IInv, NEW t \in Threads, pc[t] \in OutsidePC \ {"done"},
           NEW p \in OutsidePC, NEW k \in Key \cup {None}, NEW c \in Created \cup {None},
           Moves(t, p, k, c), Knows(p, k, c), p \in {"got", "dispatch"} => inReady[c],
           UNCHANGED <<maps, locks, clients, told, ckey, cst, nodeQuit, sockRemote, cli>>,
           open' = open \/ \E s \in Socks : open' = [open EXCEPT ![s] = FALSE],
           cpc' = cpc \/ \E d \in Created : BeginClose(d)
    PROVE  IInv'
<1>1. /\ pc[t] \in QuietPC \ {"done"} /\ p \in QuietPC
      /\ pc[t] \in CriticalPC <=> p \in CriticalPC
  BY DEF OutsidePC, QuietPC, CriticalPC, CreatingPC, GetOrSetPC, ResetPC
<1>2. cpc' \in [Clients -> ClosePC]
  BY Parts DEF BeginClose, TypeOK, ClosingType, ClosePC
<1>3. open' \in [Socks -> BOOLEAN] /\ MapsType' /\ ClientsType'
  BY Zenon, Parts DEF TypeOK, ThreadsType, MapsType, ClientsType
<1>4. ClosingType'
  BY Zenon, Parts, <1>2 DEF TypeOK, ClosingType
<1>5. \A d \in Clients : told'[d] \/ cpc'[d] # "open" => d \in Created
  BY Zenon, Parts DEF BeginClose, TypeOK, ClosingType, CreatedInv
<1> QED BY Zenon, <1>1, <1>3, <1>4, <1>5, QuietStep

\* Whatever a thread has at hand when it acts.
LEMMA Local ==
    ASSUME IInv, NEW t \in Threads
    PROVE  /\ key[t] \in Key \cup {None} /\ cl[t] \in Created \cup {None}
           /\ Knows(pc[t], key[t], cl[t])
           /\ pc[t] \in {"got", "dispatch"} => inReady[cl[t]]
           /\ key = [key EXCEPT ![t] = key[t]] /\ cl = [cl EXCEPT ![t] = cl[t]]
           /\ \A r \in Remotes : Addr(r) \in Key /\ Addr(r) # None /\ ID(r) \in Key /\ ID(r) # None
  BY Parts, Keys DEF LocalInv, ReadyInv, TypeOK, ThreadsType

\* Bootstrap, ConnectPeer, ReconnectPeer, ClientByID, Ping and the wait for its
\* answer.
LEMMA DialerIInv ==
    ASSUME IInv, NEW t \in Dialers, Dialer(t)
    PROVE  IInv'
<1> USE DEF OutsidePC, ThreadPC, CriticalPC, GetOrSetPC, ResetPC, Knows, CreatingPC
<1>0. t \in Threads
  BY DEF Threads
<1>1. ASSUME NEW r \in Remotes, Bootstrap(t, r) PROVE IInv'
  <2>1. /\ pc[t] = "idle" /\ Moves(t, "want", Addr(r), None)
        /\ UNCHANGED <<maps, locks, clients, closing, sockets>>
    BY Zenon, <1>1 DEF Bootstrap, Call, Goto, Moves
  <2> QED BY Zenon, <1>0, <2>1, Local, CallerStep
<1>2. ASSUME NEW r \in Remotes, ClientByID(t, r) PROVE IInv'
  <2>1. /\ pc[t] = "idle" /\ Moves(t, "want", ID(r), None)
        /\ UNCHANGED <<maps, locks, clients, closing, sockets>>
    BY <1>2 DEF ClientByID, Call, Goto, Moves
  <2> QED BY Zenon, <1>0, <2>1, Local, CallerStep
<1>3. ASSUME NEW r \in Remotes, ConnectPeer(t, r) PROVE IInv'
  <2>1. /\ pc[t] \in {"idle", "reconnect"}
        /\ Moves(t, "idle", None, None) \/ Moves(t, "want", Addr(r), None)
        /\ UNCHANGED <<maps, locks, clients, closing, sockets>>
    BY Zenon, <1>3 DEF ConnectPeer, Return, Call, Goto, Moves
  <2> QED BY Zenon, <1>0, <2>1, Local, CallerStep
<1>4. ASSUME NEW r \in Remotes, ReconnectPeer(t, r) PROVE IInv'
  <2>1. peers[Addr(r)] \in Created
    BY Zenon, Parts, <1>4, Keys DEF ReconnectPeer, CreatedInv
  <2>2. /\ pc[t] = "idle" /\ BeginClose(peers[Addr(r)])
        /\ \/ Moves(t, "reconnect", Addr(r), peers[Addr(r)])
           \/ Moves(t, "reconnect", Addr(r), None)
        /\ UNCHANGED <<maps, locks, clients, told, ckey, cst, nodeQuit, sockets>>
    BY Zenon, <1>4 DEF ReconnectPeer, Goto, Moves
  <2> QED BY Zenon, <1>0, <2>1, <2>2, Local, CallerStep
<1>5. ASSUME Ping(t) PROVE IInv'
  <2>1. /\ pc[t] = "got"
        /\ \/ Moves(t, "wait", key[t], cl[t])
           \/ Moves(t, "sendError", key[t], cl[t])
           \/ Moves(t, "idle", None, None)
        /\ UNCHANGED <<maps, locks, clients, closing, sockets>>
    BY Zenon, <1>0, <1>5, Local DEF Ping, Return, Goto, Moves
  <2> QED BY Zenon, <1>0, <2>1, Local, CallerStep
<1>6. ASSUME WaitSuccess(t) \/ CallFailed(t) PROVE IInv'
  <2>1. /\ pc[t] \in {"wait", "failed"} /\ Moves(t, "idle", None, None)
        /\ UNCHANGED <<maps, locks, clients, closing, sockets>>
    BY Zenon, <1>6 DEF WaitSuccess, CallFailed, Return, Goto, Moves
  <2> QED BY Zenon, <1>0, <2>1, Local, CallerStep
<1>7. ASSUME WaitTimeout(t) PROVE IInv'
  <2>1. /\ pc[t] = "wait"
        /\ \/ BeginClose(cl[t]) /\ Moves(t, "closing", None, cl[t])
           \/ UNCHANGED cpc /\ Moves(t, "idle", None, None)
        /\ UNCHANGED <<maps, locks, clients, told, ckey, cst, nodeQuit, sockets>>
    BY Zenon, <1>7 DEF WaitTimeout, CloseAndWait, Return, Goto, Moves
  <2>2. cl[t] \in Created /\ cl[t] # None
    BY Zenon, <1>0, <2>1, Local
  <2> QED BY Zenon, <1>0, <2>1, <2>2, Local, CallerStep
<1> QED BY Zenon, <1>1, <1>2, <1>3, <1>4, <1>5, <1>6, <1>7 DEF Dialer

\* A write to a registered peer that fails.
LEMMA WriterIInv ==
    ASSUME IInv, NEW t \in Writers, NEW k \in Key, WriteError(t, k)
    PROVE  IInv'
<1>1. /\ t \in Threads /\ pc[t] = "idle" /\ k # None /\ Moves(t, "sendError", k, cl[t])
      /\ UNCHANGED <<maps, locks, clients, closing, sockets>>
  BY Zenon, Local, Keys DEF WriteError, Goto, Moves, Threads
<1> QED BY Zenon, <1>1, Local, CallerStep
        DEF OutsidePC, ThreadPC, CriticalPC, GetOrSetPC, ResetPC, Knows, CreatingPC

\* A thread that calls Close, and one that comes back from it.
LEMMA CloserIInv ==
    ASSUME IInv, NEW t \in Threads, CloseAfterError(t) \/ Closed(t)
    PROVE  IInv'
<1> USE DEF OutsidePC, ThreadPC, CriticalPC, GetOrSetPC, ResetPC, Knows, CreatingPC
<1>1. ASSUME CloseAfterError(t) PROVE IInv'
  <2>1. pc[t] = "sendError" /\ key[t] \in Key
    BY Zenon, <1>1, Local DEF CloseAfterError
  <2>2. peers[key[t]] \in Created \cup {None}
    BY Zenon, Parts, <2>1 DEF CreatedInv
  <2>3. /\ \/ /\ peers[key[t]] # None /\ BeginClose(peers[key[t]])
              /\ Moves(t, "closing", None, peers[key[t]])
           \/ UNCHANGED cpc /\ Moves(t, "idle", None, None)
        /\ UNCHANGED <<maps, locks, clients, told, ckey, cst, nodeQuit, sockets>>
    BY Zenon, <1>1 DEF CloseAfterError, CloseAndWait, Return, Goto, Moves
  <2> QED BY Zenon, <2>1, <2>2, <2>3, CallerStep
<1>2. ASSUME Closed(t) PROVE IInv'
  <2>1. /\ pc[t] = "closing"
        /\ \/ t \in Socks /\ open' = [open EXCEPT ![t] = FALSE] /\ Moves(t, "done", None, None)
           \/ open' = open /\ Moves(t, "idle", None, None)
        /\ UNCHANGED <<maps, locks, clients, closing, sockRemote, cli>>
    BY Zenon, <1>2 DEF Closed, Return, Goto, Moves
  <2> QED BY Zenon, <2>1, CallerStep
<1> QED BY Zenon, <1>1, <1>2
-----------------------------------------------------------------------------
(* Accept. *)

\* The steps of Accept outside getOrSetPeerClient.
LEMMA AcceptIInv ==
    ASSUME IInv, NEW s \in Socks, Accept(s)
    PROVE  IInv'
<1> USE DEF OutsidePC, ThreadPC, CriticalPC, GetOrSetPC, ResetPC, Knows, CreatingPC
<1>0. s \in Threads
  BY DEF Threads
<1>1. ASSUME Receive(s) PROVE IInv'
  <2>1. sockRemote[s] \in Remotes
    BY Zenon, Parts, <1>1 DEF Receive, LocalInv, TypeOK, ThreadsType
  <2>2. /\ pc[s] = "read" /\ Moves(s, "want", ID(sockRemote[s]), None)
        /\ UNCHANGED <<maps, locks, clients, closing, sockets>>
    BY Zenon, <1>1 DEF Receive, Call, Goto, Moves
  <2> QED BY Zenon, <1>0, <2>1, <2>2, Local, CallerStep
<1>2. ASSUME ReceiveError(s) PROVE IInv'
  <2>1. /\ pc[s] = "read" /\ Moves(s, "exit", key[s], cl[s])
        /\ open' = [open EXCEPT ![s] = FALSE]
        /\ UNCHANGED <<maps, locks, clients, closing, sockRemote, cli>>
    BY Zenon, <1>0, <1>2, Local DEF ReceiveError, Goto, Moves
  <2> QED BY Zenon, <1>0, <2>1, Local, CallerStep
<1>3. ASSUME Exit(s) PROVE IInv'
  <2>1. cli[s] \in Created \cup {None}
    BY Zenon, Parts DEF LocalInv
  <2>2. /\ pc[s] \in {"exit", "failed"}
        /\ \/ cli[s] # None /\ BeginClose(cli[s]) /\ Moves(s, "closing", None, cli[s]) /\ open' = open
           \/ UNCHANGED cpc /\ Moves(s, "done", None, None) /\ open' = [open EXCEPT ![s] = FALSE]
        /\ UNCHANGED <<maps, locks, clients, told, ckey, cst, nodeQuit, sockRemote, cli>>
    BY Zenon, <1>3 DEF Exit, CloseAndWait, Return, Goto, Moves
  <2> QED BY Zenon, <1>0, <2>1, <2>2, CallerStep
<1>4. ASSUME SetID(s) PROVE IInv'
  <2>1. /\ pc[s] = "got" /\ Moves(s, "dispatch", key[s], cl[s])
        /\ UNCHANGED <<maps, locks, remote, outReady, inReady, closing, sockets>>
    BY Zenon, <1>0, <1>4, Local DEF SetID, Goto, Moves
  <2>2. /\ open' \in [Socks -> BOOLEAN] /\ MapsType' /\ ClientsType' /\ ClosingType'
        /\ \A d \in Clients : told'[d] \/ cpc'[d] # "open" => d \in Created
    BY Zenon, Parts, <1>4 DEF SetID, TypeOK, MapsType, ThreadsType, ClientsType, ClosingType, CreatedInv
  <2> QED BY Zenon, <1>0, <2>1, <2>2, Local, QuietStep DEF QuietPC
<1>5. ASSUME NEW msg \in {"pong", "disconnect", "malformed", "other"}, Dispatch(s, msg) PROVE IInv'
  <2>1. /\ pc[s] = "dispatch"
        /\ Moves(s, "exit", None, None) \/ Moves(s, "read", None, None)
        /\ UNCHANGED <<maps, locks, remote, outReady, inReady, cpc, sockets>>
    BY Zenon, <1>5 DEF Dispatch, Return, Goto, Moves
  <2>2. gotPubKey' \in [Clients -> BOOLEAN] /\ told' \in [Clients -> BOOLEAN]
    BY Zenon, Parts, <1>5 DEF Dispatch, TypeOK, ClientsType, ClosingType
  <2>3. open' \in [Socks -> BOOLEAN] /\ MapsType' /\ ClientsType' /\ ClosingType'
    BY Zenon, Parts, <1>5, <2>2 DEF Dispatch, TypeOK, MapsType, ThreadsType, ClientsType, ClosingType
  <2>4. cl[s] \in Created
    BY Zenon, <1>0, <2>1, Local
  <2>5. \A d \in Clients : told'[d] \/ cpc'[d] # "open" => d \in Created
    BY Zenon, Parts, <1>5, <2>4 DEF Dispatch, TypeOK, ClosingType, CreatedInv
  <2> QED BY Zenon, <1>0, <2>1, <2>3, <2>5, QuietStep DEF QuietPC
<1> QED BY Zenon, <1>1, <1>2, <1>3, <1>4, <1>5 DEF Accept

\* A goroutine starts; nobody else is concerned.
LEMMA ListenIInv ==
    ASSUME IInv, NEW s \in Socks, NEW r \in Remotes, Listen(s, r)
    PROVE  IInv'
<1>1. s \in Threads /\ pc[s] = "done" /\ Moves(s, "read", key[s], cl[s])
  BY Zenon, Parts, Local DEF Listen, UnusedSocks, Goto, Moves, Threads, LocalInv
<1>2. /\ UNCHANGED <<maps, locks, key, cl, clients, closing, cli>>
      /\ sockRemote' = [sockRemote EXCEPT ![s] = r] /\ open' = [open EXCEPT ![s] = TRUE]
  BY DEF Listen
<1>3. /\ Others(s) /\ pc'[s] = "read" /\ pc' \in [Threads -> ThreadPC]
  BY ZenonT(30), <1>1, Local, MoveStep DEF ThreadPC, Created, At
<1>4. TypeOK'
  BY Zenon, Parts, <1>2, <1>3 DEF TypeOK, MapsType, ThreadsType, ClientsType, ClosingType
<1>5. MutexInv'
  BY Zenon, <1>1, <1>2, <1>3, MutexStep DEF CriticalPC, GetOrSetPC, ResetPC
<1>6. LocalInv'
  <2>1. \A t \in Threads : (Knows(pc[t], key[t], cl[t]) /\ cl[t] \in Created \cup {None})'
    BY Zenon, Parts, <1>1, <1>2, <1>3 DEF LocalInv, Others, Created, Knows, GetOrSetPC, ResetPC, CreatingPC
  <2>2. \A x \in Socks : (sockRemote[x] = None => pc[x] = "done")'
    BY Zenon, Parts, <1>1, <1>2, <1>3, ConnAssumption DEF LocalInv, Others, Threads, TypeOK, ThreadsType
  <2> QED BY Zenon, Parts, <1>2, <2>1, <2>2 DEF LocalInv, Created
<1>7. CreatedInv'
  BY Zenon, Parts, <1>2 DEF CreatedInv, Created
<1>8. ReadyInv'
  BY ZenonT(30), Parts, <1>1, <1>2, <1>3 DEF ReadyInv, Others
<1>9. UniqueInv'
  BY Parts, <1>1, <1>2, <1>3 DEF UniqueInv, Others
<1> QED BY Zenon, <1>4, <1>5, <1>6, <1>7, <1>8, <1>9, Whole DEF TypeOK

-----------------------------------------------------------------------------
(* Close. *)

\* The steps of Close.
LEMMA CloseIInv ==
    ASSUME IInv, NEW c \in Clients, Disconnect(c) \/ Close(c)
    PROVE  IInv'
<1> USE DEF CloseGoto
<1>1. ASSUME UNCHANGED <<createMutex, threads, remote, outReady, inReady, sockRemote, cli>>,
             \A k \in Key : peers'[k] \in {peers[k], None},
             open' \in [Socks -> BOOLEAN], MapsType', ClientsType', ClosingType',
             c \in Created, \A d \in Clients \ {c} : told'[d] = told[d] /\ cpc'[d] = cpc[d]
      PROVE  IInv'
  BY Zenon, Parts, <1>1, CloseStep DEF CreatedInv
<1>2. ASSUME cpc[c] # "open" \/ told[c]
      PROVE  c \in Created /\ CloseKey(c) \in Key
  BY Zenon, Parts, <1>2 DEF CreatedInv, Created, CloseKey, Key, TypeOK, ClosingType
<1>3. ASSUME Disconnect(c) PROVE IInv'
  <2>1. /\ cpc' \in [Clients -> ClosePC] /\ told' \in [Clients -> BOOLEAN]
        /\ \A d \in Clients \ {c} : told'[d] = told[d] /\ cpc'[d] = cpc[d]
    BY Zenon, Parts, <1>3 DEF Disconnect, BeginClose, TypeOK, ClosingType, ClosePC
  <2>2. ClosingType'
    BY Zenon, Parts, <1>3, <2>1 DEF Disconnect, TypeOK, ClosingType
  <2>3. MapsType' /\ ClientsType' /\ \A k \in Key : peers'[k] \in {peers[k], None}
    BY Zenon, Parts, <1>3 DEF Disconnect, TypeOK, MapsType, ClientsType
  <2> QED BY Zenon, Parts, <1>1, <1>2, <1>3, <2>1, <2>2, <2>3 DEF Disconnect, TypeOK, ThreadsType
<1>4. ASSUME Find(c) PROVE IInv'
  <2>1. c \in Created /\ connections[CloseKey(c)] \in Clients \cup {None}
    BY Zenon, Parts, <1>2, <1>4 DEF Find, TypeOK, MapsType
  <2>2. /\ cpc' \in [Clients -> ClosePC] /\ ckey' \in [Clients -> {"id", "addr"}]
        /\ \A d \in Clients \ {c} : cpc'[d] = cpc[d]
    BY Zenon, Parts, <1>4 DEF Find, TypeOK, ClosingType, ClosePC
  <2>3. cst' \in [Clients -> Clients \cup {None}]
    BY Zenon, Parts, <1>4, <2>1 DEF Find, TypeOK, ClosingType
  <2>4. ClosingType'
    BY Zenon, Parts, <1>4, <2>2, <2>3 DEF Find, TypeOK, ClosingType
  <2>5. MapsType' /\ ClientsType' /\ \A k \in Key : peers'[k] \in {peers[k], None}
    BY Zenon, Parts, <1>4 DEF Find, TypeOK, MapsType, ClientsType
  <2> QED BY Zenon, Parts, <1>1, <1>4, <2>1, <2>2, <2>4, <2>5 DEF Find, TypeOK, ThreadsType
<1>5. ASSUME Shut(c) PROVE IInv'
  <2>1. /\ ClosingType' /\ c \in Created
        /\ \A d \in Clients \ {c} : told'[d] = told[d] /\ cpc'[d] = cpc[d]
    BY Zenon, Parts, <1>2, <1>5 DEF Shut, TypeOK, ClosingType, ClosePC
  <2>2. /\ MapsType' /\ ClientsType' /\ open' \in [Socks -> BOOLEAN]
        /\ \A k \in Key : peers'[k] \in {peers[k], None}
    BY Zenon, Parts, <1>5 DEF Shut, TypeOK, MapsType, ClientsType, ThreadsType
  <2> QED BY Zenon, <1>1, <1>5, <2>1, <2>2 DEF Shut
<1>6. ASSUME DeletePeers(c) \/ DeleteConns(c) \/ DeleteStreams(c) \/ SetUnreachable(c) PROVE IInv'
  <2>1. cpc' \in [Clients -> ClosePC] /\ \A d \in Clients \ {c} : cpc'[d] = cpc[d]
    BY Zenon, Parts, <1>6 DEF DeletePeers, DeleteConns, DeleteStreams, SetUnreachable,
       TypeOK, ClosingType, ClosePC
  <2>2. ClosingType' /\ ClientsType' /\ open' \in [Socks -> BOOLEAN]
    BY Zenon, Parts, <1>6, <2>1 DEF DeletePeers, DeleteConns, DeleteStreams, SetUnreachable,
       TypeOK, ClosingType, ClientsType, ThreadsType
  <2>3. MapsType'
    BY Zenon, Parts, <1>6 DEF DeletePeers, DeleteConns, DeleteStreams, SetUnreachable,
       TypeOK, MapsType
  <2>4. \A k \in Key : peers'[k] \in {peers[k], None}
    BY Zenon, Parts, <1>6 DEF DeletePeers, DeleteConns, DeleteStreams, SetUnreachable,
       TypeOK, MapsType
  <2>5. c \in Created
    BY Zenon, <1>2, <1>6 DEF DeletePeers, DeleteConns, DeleteStreams, SetUnreachable
  <2>6. UNCHANGED <<createMutex, threads, remote, outReady, inReady, sockRemote, cli, told>>
    BY Zenon, <1>6 DEF DeletePeers, DeleteConns, DeleteStreams, SetUnreachable
  <2> QED BY Zenon, <1>1, <2>1, <2>2, <2>3, <2>4, <2>5, <2>6
<1>7. ASSUME Quit(c) PROVE IInv'
  <2>1. nodeQuit' \in 0..NodeQuitCap
    BY Parts, <1>7, ConnAssumption DEF Quit, TypeOK, ClosingType
  <2>2. /\ cpc' \in [Clients -> ClosePC] /\ ckey' \in [Clients -> {"id", "addr"}]
        /\ \A d \in Clients \ {c} : cpc'[d] = cpc[d]
    BY Zenon, Parts, <1>7 DEF Quit, TypeOK, ClosingType, ClosePC
  <2>3. ClosingType'
    BY Zenon, Parts, <1>7, <2>1, <2>2 DEF Quit, TypeOK, ClosingType
  <2>4. /\ MapsType' /\ ClientsType' /\ open' \in [Socks -> BOOLEAN] /\ c \in Created
        /\ \A k \in Key : peers'[k] \in {peers[k], None}
    BY Zenon, Parts, <1>2, <1>7 DEF Quit, TypeOK, MapsType, ClientsType, ThreadsType
  <2> QED BY Zenon, <1>1, <1>7, <2>2, <2>3, <2>4 DEF Quit
<1>8. ASSUME Callbacks(c) PROVE IInv'
  <2>1. /\ ClosingType' /\ c \in Created
        /\ \A d \in Clients \ {c} : told'[d] = told[d] /\ cpc'[d] = cpc[d]
    BY Zenon, Parts, <1>2, <1>8 DEF Callbacks, TypeOK, ClosingType, ClosePC
  <2>2. /\ MapsType' /\ ClientsType' /\ open' \in [Socks -> BOOLEAN]
        /\ \A k \in Key : peers'[k] \in {peers[k], None}
    BY Zenon, Parts, <1>8 DEF Callbacks, TypeOK, MapsType, ClientsType, ThreadsType
  <2> QED BY Zenon, <1>1, <1>8, <2>1, <2>2 DEF Callbacks
<1> QED BY Zenon, <1>3, <1>4, <1>5, <1>6, <1>7, <1>8 DEF Close

\* The application reads a quit.
LEMMA ReadQuitNodeIInv ==
    ASSUME IInv, ReadQuitNode
    PROVE  IInv'
<1>1. nodeQuit' \in 0..NodeQuitCap
  BY Parts, ConnAssumption DEF ReadQuitNode, TypeOK, ClosingType
<1>2. MapsType' /\ ClientsType' /\ ClosingType' /\ open' \in [Socks -> BOOLEAN]
  BY Zenon, Parts, <1>1 DEF ReadQuitNode, TypeOK, MapsType, ClientsType, ClosingType, ThreadsType
<1>3. \A k \in Key : peers'[k] \in {peers[k], None}
  BY DEF ReadQuitNode
<1> QED BY Zenon, Parts, <1>2, <1>3, CloseStep DEF ReadQuitNode, CreatedInv
-----------------------------------------------------------------------------
(* getOrSetPeerClient. *)

\* The first step of getOrSetPeerClient takes createClientMutex.
LEMMA LockCreateIInv ==
    ASSUME IInv, NEW t \in Threads, LockCreate(t)
    PROVE  IInv'
<1>1. /\ pc[t] = "want" /\ createMutex = None /\ createMutex' = t /\ key[t] # None
      /\ Moves(t, "copyPeers", key[t], cl[t]) \/ Moves(t, "load", key[t], cl[t])
      /\ UNCHANGED <<maps, connMutex, clients, closing, sockets>>
  BY Zenon, Local DEF LockCreate, Goto, Moves, Knows, GetOrSetPC
<1>2. /\ open' \in [Socks -> BOOLEAN] /\ MapsType' /\ ClientsType' /\ ClosingType'
      /\ \A d \in Clients : told'[d] \/ cpc'[d] # "open" => d \in Created
  BY Zenon, Parts, <1>1 DEF TypeOK, MapsType, ThreadsType, ClientsType, ClosingType, CreatedInv
<1> QED BY Zenon, <1>1, <1>2, Local, QuietStep
        DEF QuietPC, ThreadPC, CriticalPC, GetOrSetPC, ResetPC, Knows, CreatingPC

\* The lookup, which finds a client or none.
LEMMA LoadIInv ==
    ASSUME IInv, NEW t \in Threads, Load(t)
    PROVE  IInv'
<1>1. pc[t] = "load" /\ key[t] \in Key /\ \A u \in Threads : pc[u] \notin {"connect", "ready"}
  BY Zenon, Alone DEF Load, CriticalPC, GetOrSetPC
<1>2. /\ peers[key[t]] \in Created \cup {None}
      /\ peers[key[t]] # None => inReady[peers[key[t]]]
  BY Zenon, Parts, <1>1 DEF CreatedInv, ReadyInv
<1>3. \/ Moves(t, "lock", key[t], cl[t]) /\ UNCHANGED createMutex
      \/ Moves(t, "failed", key[t], peers[key[t]]) /\ createMutex' = None
      \/ peers[key[t]] # None /\ Moves(t, "got", key[t], peers[key[t]]) /\ createMutex' = None
  <2>1. CASE peers[key[t]] = None /\ Uncreated # {}
    BY Zenon, <2>1, Local DEF Load, Goto, Moves
  <2>2. CASE peers[key[t]] # None /\ outReady[peers[key[t]]]
    BY Zenon, <2>2, Local DEF Load, Goto, Moves
  <2>3. CASE ~(peers[key[t]] = None /\ Uncreated # {}) /\ ~(peers[key[t]] # None /\ outReady[peers[key[t]]])
    BY Zenon, <2>3, Local DEF Load, Goto, Moves
  <2> QED BY Zenon, <2>1, <2>2, <2>3
<1>4. /\ open' \in [Socks -> BOOLEAN] /\ MapsType' /\ ClientsType' /\ ClosingType'
      /\ \A d \in Clients : told'[d] \/ cpc'[d] # "open" => d \in Created
      /\ UNCHANGED <<maps, clients, sockets>>
  BY Zenon, Parts, <1>3 DEF Load, TypeOK, MapsType, ThreadsType, ClientsType, ClosingType, CreatedInv
<1> QED BY <1>1, <1>2, <1>3, <1>4, Local, QuietStep, Keys
        DEF QuietPC, ThreadPC, CriticalPC, GetOrSetPC, ResetPC, Knows, CreatingPC

\* The move of connections, connStates and streams.
LEMMA ResetRestIInv ==
    ASSUME IInv, NEW t \in Threads, ResetConns(t) \/ ResetStates(t) \/ ResetStreams(t)
    PROVE  IInv'
<1>1. PICK p \in {"copyConns", "dropConns", "copyStates", "dropStates", "copyStreams",
                  "dropStreams", "load"} : Moves(t, p, key[t], cl[t])
  BY Zenon, Local DEF Copy, Drop, Goto, Moves, ResetConns, ResetStates, ResetStreams
<1>2. /\ pc[t] \in {"copyConns", "dropConns", "copyStates", "dropStates", "copyStreams", "dropStreams"}
      /\ UNCHANGED <<peers, locks, clients, closing, sockets>>
  BY DEF ResetConns, ResetStates, ResetStreams
<1>3. key[t] \in Key /\ key[t][1] \in Remotes
  BY Zenon, <1>2, Alone DEF CriticalPC, GetOrSetPC, ResetPC
<1>4. MapsType'
  <2>1. ASSUME ResetConns(t) PROVE connections' \in [Key -> Clients \cup {None}]
    BY Zenon, Parts, <1>3, <2>1, Keys DEF ResetConns, Copy, Drop, TypeOK, MapsType
  <2>2. ASSUME ResetStates(t) PROVE connStates' \in [Key -> {None, "REACHABLE", "UNREACHABLE"}]
    BY Parts, <1>3, <2>2, Keys DEF ResetStates, Copy, Drop, TypeOK, MapsType
  <2>3. ASSUME ResetStreams(t) PROVE streams' \in [Key -> Clients \cup {None}]
    BY Zenon, Parts, <1>3, <2>3, Keys DEF ResetStreams, Copy, Drop, TypeOK, MapsType
  <2> QED BY Zenon, Parts, <2>1, <2>2, <2>3 DEF TypeOK, MapsType, ResetConns, ResetStates, ResetStreams
<1>5. /\ open' \in [Socks -> BOOLEAN] /\ ClientsType' /\ ClosingType'
      /\ \A d \in Clients : told'[d] \/ cpc'[d] # "open" => d \in Created
  BY Zenon, Parts, <1>2 DEF TypeOK, ThreadsType, ClientsType, ClosingType, CreatedInv
<1>6. Knows(p, key[t], cl[t]) /\ p \in QuietPC /\ p \in CriticalPC /\ p \notin {"got", "dispatch"}
  BY Zenon, <1>3, Keys DEF Knows, QuietPC, ThreadPC, CriticalPC, GetOrSetPC, ResetPC, CreatingPC
<1>7. pc[t] \in CriticalPC /\ pc[t] \in QuietPC \ {"done"}
  BY Zenon, <1>2 DEF QuietPC, ThreadPC, CriticalPC, GetOrSetPC, ResetPC, CreatingPC
<1> QED BY Zenon, <1>1, <1>2, <1>3, <1>4, <1>5, <1>6, <1>7, Local, QuietStep

\* For a moment the client is registered under both keys.
LEMMA ResetPeersIInv ==
    ASSUME IInv, NEW t \in Threads, ResetPeers(t)
    PROVE  IInv'
<1> DEFINE r == key[t][1]
<1>1. /\ pc[t] \in {"copyPeers", "dropPeers"}
      /\ UNCHANGED <<connections, streams, connStates, locks, key, cl, clients, closing, sockets>>
  BY DEF ResetPeers
<1>2. PICK p \in {"dropPeers", "copyConns", "load"} : Moves(t, p, key[t], cl[t])
  BY Zenon, Local DEF ResetPeers, Copy, Drop, Goto, Moves
<1>3. /\ key[t] \in Key /\ r \in Remotes
      /\ \A u \in Threads \ {t} : pc[u] \notin CriticalPC
  BY Zenon, <1>1, Alone DEF CriticalPC, GetOrSetPC, ResetPC
<1>4. Addr(r) \in Key /\ ID(r) \in Key /\ Addr(r) # ID(r) /\ Addr(r)[1] = r /\ ID(r)[1] = r
  BY Zenon, <1>3, Keys DEF Addr, ID
<1>5. Created' = Created
  BY Zenon, <1>1 DEF Created
<1>6. ThreadsType' /\ LocalInv' /\ Others(t) /\ pc'[t] = p
  <2>1. p \in ThreadPC /\ Knows(p, key[t], cl[t])
    BY Zenon, <1>3, Keys DEF Knows, ThreadPC, GetOrSetPC, ResetPC, CreatingPC
  <2>2. key[t] \in Key \cup {None} /\ cl[t] \in Clients \cup {None} /\ cl[t] \in Created' \cup {None}
    BY Zenon, <1>5, Local DEF Created
  <2>3. open' \in [Socks -> BOOLEAN]
    BY Zenon, Parts, <1>1 DEF TypeOK, ThreadsType
  <2> QED BY Zenon, <1>1, <1>2, <1>5, <2>1, <2>2, <2>3, ThreadStep DEF At
<1>7. peers' \in [Key -> Clients \cup {None}]
  BY Zenon, Parts, <1>4 DEF ResetPeers, Copy, Drop, TypeOK, MapsType
<1>8. MapsType' /\ ClientsType' /\ ClosingType'
  BY Zenon, Parts, <1>1, <1>7 DEF TypeOK, MapsType, ClientsType, ClosingType
<1>9. \A k \in Key : peers'[k] # None => \E l \in Key : peers'[k] = peers[l]
  BY Zenon, Parts, <1>4 DEF ResetPeers, Copy, Drop, TypeOK, MapsType
<1>10. CreatedInv'
  BY Zenon, Parts, <1>1, <1>5, <1>7, <1>9 DEF CreatedInv
<1>11. MutexInv'
  BY Zenon, <1>1, <1>6, MutexStep DEF CriticalPC, GetOrSetPC, ResetPC
<1>12. ReadyInv'
  <2>1. \A u \in Threads : pc[u] \notin {"connect", "ready"} /\ pc'[u] \notin {"connect", "ready"}
    BY Zenon, <1>1, <1>3, <1>6 DEF Others, CriticalPC, GetOrSetPC
  <2>2. \A k \in Key : peers'[k] # None => outReady'[peers'[k]] /\ inReady'[peers'[k]]
    BY Zenon, Parts, <1>1, <1>9, <2>1 DEF ReadyInv
  <2> QED BY Zenon, Parts, <1>1, <1>6, <2>1, <2>2 DEF ReadyInv, Others
<1>13. UniqueInv'
  <2>1. \A u \in Threads : pc'[u] \notin {"dial", "init", "store"}
    BY Zenon, <1>3, <1>6 DEF Others, CriticalPC, GetOrSetPC
  <2>2. \A u \in Threads : pc[u] = "dropPeers" => u = t
    BY Zenon, <1>3 DEF CriticalPC, GetOrSetPC, ResetPC
  <2>3. CASE pc[t] = "copyPeers" /\ peers[Addr(r)] # None
    <3>1. /\ peers'[ID(r)] = peers[Addr(r)] /\ p = "dropPeers"
          /\ \A k \in Key : k # ID(r) => peers'[k] = peers[k]
      BY Zenon, Parts, <1>2, <1>4, <1>6, <2>3 DEF ResetPeers, Copy, Goto, TypeOK, MapsType, ThreadsType
    <3>2. \A k, l \in Key : peers[k] # None /\ peers[k] = peers[l] => k = l
      BY Zenon, Parts, <2>2, <2>3 DEF UniqueInv
    <3>3. \A k, l \in Key : peers'[k] # None /\ peers'[k] = peers'[l] /\ k # l =>
             k \in {ID(r), Addr(r)} /\ l \in {ID(r), Addr(r)}
      BY <1>4, <3>1, <3>2
    <3> QED BY <1>1, <1>4, <1>6, <2>1, <3>1, <3>3 DEF UniqueInv
  <2>4. CASE pc[t] = "copyPeers" /\ peers[Addr(r)] = None
    <3>1. UNCHANGED peers
      BY Zenon, <2>4 DEF ResetPeers, Copy
    <3> QED BY ZenonT(30), Parts, <1>1, <2>1, <2>2, <2>4, <3>1 DEF UniqueInv
  <2>5. CASE pc[t] = "dropPeers"
    <3>1. peers'[Addr(r)] = None /\ \A k \in Key : k # Addr(r) => peers'[k] = peers[k]
      BY Zenon, Parts, <1>4, <2>5 DEF ResetPeers, Drop, TypeOK, MapsType
    <3>2. \A k, l \in Key : peers[k] # None /\ peers[k] = peers[l] /\ k # l => k[1] = r /\ l[1] = r
      BY Parts, <2>2, <2>5 DEF UniqueInv
    <3>3. \A k, l \in Key : k[1] = r /\ l[1] = r /\ k # l => k = Addr(r) \/ l = Addr(r)
      BY Zenon, Keys
    <3> QED BY <2>1, <3>1, <3>2, <3>3 DEF UniqueInv
  <2> QED BY Zenon, <1>1, <2>3, <2>4, <2>5
<1> QED BY Zenon, <1>6, <1>8, <1>10, <1>11, <1>12, <1>13, Whole
-----------------------------------------------------------------------------
\* The thread that creates a client is the only one to do so.
LEMMA Creating ==
    ASSUME IInv, NEW t \in Threads, pc[t] \in CreatingPC \cup {"lock"}
    PROVE  /\ key[t] \in Key /\ key[t][1] \in Remotes
           /\ pc[t] # "lock" => cl[t] \in Created /\ cl[t] \in Clients
           /\ \A u \in Threads \ {t} : pc[u] \notin CreatingPC \cup {"dropPeers"}
           /\ \A k \in Key : peers[k] # None =>
                \/ outReady[peers[k]] /\ inReady[peers[k]]
                \/ pc[t] \in {"connect", "ready"} /\ cl[t] = peers[k]
           /\ \A k, l \in Key : peers[k] # None /\ peers[k] = peers[l] => k = l
<1>1. /\ key[t] \in Key /\ key[t][1] \in Remotes
      /\ \A u \in Threads \ {t} : pc[u] \notin CreatingPC \cup {"dropPeers"}
  BY Zenon, Alone DEF CriticalPC, GetOrSetPC, ResetPC, CreatingPC
<1>2. pc[t] # "lock" => cl[t] \in Created /\ cl[t] \in Clients
  BY Zenon, Local DEF Knows, Created
<1>3. \A k \in Key : peers[k] # None =>
        \/ outReady[peers[k]] /\ inReady[peers[k]]
        \/ pc[t] \in {"connect", "ready"} /\ cl[t] = peers[k]
  BY Zenon, Parts, <1>1 DEF ReadyInv, CreatingPC
<1>4. \A k, l \in Key : peers[k] # None /\ peers[k] = peers[l] => k = l
  BY Zenon, Parts, <1>1 DEF UniqueInv, CreatingPC
<1> QED BY Zenon, <1>1, <1>2, <1>3, <1>4

\* The parts of the invariant about threads and types, over a step of creation.
LEMMA CreateStep ==
    ASSUME IInv, NEW t \in Threads, pc[t] \in CreatingPC \cup {"lock"},
           NEW p \in CreatingPC \cup {"got", "failed"}, NEW c \in Created',
           Moves(t, p, key[t], c), Created \subseteq Created',
           IF p \in CreatingPC THEN UNCHANGED createMutex ELSE createMutex' = None,
           UNCHANGED <<sockRemote, open, cli, closing>>
    PROVE  /\ ThreadsType' /\ ClosingType' /\ LocalInv' /\ MutexInv'
           /\ Others(t) /\ pc'[t] = p /\ cl'[t] = c
           /\ \A d \in Clients : (told[d] \/ cpc[d] # "open" => d \in Created)'
<1>1. p \in ThreadPC /\ key[t] \in Key \cup {None} /\ c \in Clients \cup {None}
  BY Zenon, Creating DEF ThreadPC, GetOrSetPC, CreatingPC, Created
<1>2. Knows(p, key[t], c) /\ pc[t] # "done"
  BY Zenon, Creating, Keys, ConnAssumption DEF Knows, CreatingPC, Created
<1>3. open' \in [Socks -> BOOLEAN] /\ ClosingType'
  BY Zenon, Parts DEF TypeOK, ThreadsType, ClosingType
<1>4. ThreadsType' /\ LocalInv' /\ Others(t) /\ At(t, p, key[t], c)
  BY Zenon, <1>1, <1>2, <1>3, ThreadStep
<1>5. MutexInv'
  BY <1>4, MutexStep DEF At, CriticalPC, GetOrSetPC, CreatingPC, ResetPC
<1>6. \A d \in Clients : (told[d] \/ cpc[d] # "open" => d \in Created)'
  BY Zenon, Parts DEF CreatedInv
<1> QED BY Zenon, <1>3, <1>4, <1>5, <1>6 DEF At

\* The creator of a client takes ConnMgr.Mutex.
LEMMA LockConnIInv ==
    ASSUME IInv, NEW t \in Threads, LockConn(t)
    PROVE  IInv'
<1>1. PICK c \in Uncreated :
        /\ remote' = [remote EXCEPT ![c] = key[t][1]]
        /\ cl' = [cl EXCEPT ![t] = c]
        /\ IF t \in Socks /\ ~ProxyMode
           THEN sock' = [sock EXCEPT ![c] = t] /\ Goto(t, "init")
           ELSE Goto(t, "dial") /\ UNCHANGED sock
  BY Zenon DEF LockConn
<1>2. /\ pc[t] = "lock" /\ connMutex' = t
      /\ UNCHANGED <<maps, createMutex, key, connNil, hasID, gotPubKey, outReady, inReady,
                     closing, sockets>>
  BY DEF LockConn
<1>3. PICK p \in {"init", "dial"} : Moves(t, p, key[t], c)
  BY Zenon, <1>1, <1>2, Local DEF Goto, Moves
<1>4. key[t][1] \in Remotes
  BY Zenon, <1>2, Creating
<1>5. c \in Created' /\ c \notin Created /\ c \in Clients /\ Created \subseteq Created'
  BY Zenon, Parts, <1>1, <1>4, ConnAssumption DEF Uncreated, Created, TypeOK, ClientsType
<1>6. /\ ThreadsType' /\ ClosingType' /\ LocalInv' /\ MutexInv'
      /\ Others(t) /\ pc'[t] = p /\ cl'[t] = c
      /\ \A d \in Clients : (told[d] \/ cpc[d] # "open" => d \in Created)'
  BY Zenon, <1>2, <1>3, <1>5, CreateStep DEF CreatingPC
<1>7. MapsType' /\ ClientsType'
  BY Parts, <1>1, <1>2, <1>4, <1>5 DEF TypeOK, MapsType, ClientsType
<1>8. CreatedInv'
  BY ZenonT(30), Parts, <1>2, <1>5, <1>6 DEF CreatedInv
<1>9. ReadyInv'
  <2>1. ReadyInv
    BY Zenon, Parts
  <2>2. \A u \in Threads : pc'[u] \in {"ready", "got", "dispatch"} => pc'[u] = pc[u] /\ cl'[u] = cl[u]
    BY Zenon, <1>3, <1>6 DEF Others
  <2>3. \A u \in Threads : pc[u] \in {"connect", "ready"} => pc'[u] = pc[u] /\ cl'[u] = cl[u]
    BY ZenonT(30), <1>2, <1>6 DEF Others
  <2> QED BY <1>2, <2>1, <2>2, <2>3 DEF ReadyInv
<1>10. UniqueInv'
  <2>1. \A k \in Key : peers[k] # c
    BY Zenon, Parts, <1>5, ConnAssumption DEF CreatedInv, Created
  <2>2. ASSUME NEW k \in Key, NEW l \in Key, peers'[k] # None, peers'[k] = peers'[l], k # l
        PROVE  \E u \in Threads : pc'[u] = "dropPeers" /\ k[1] = key'[u][1] /\ l[1] = key'[u][1]
    <3>1. PICK u \in Threads : pc[u] = "dropPeers" /\ k[1] = key[u][1] /\ l[1] = key[u][1]
      BY Zenon, Parts, <1>2, <2>2 DEF UniqueInv, maps
    <3>2. pc'[u] = pc[u] /\ key'[u] = key[u]
      BY Zenon, <1>2, <1>6, <3>1 DEF Others
    <3> QED BY Zenon, <3>1, <3>2
  <2>3. ASSUME NEW u \in Threads, pc'[u] \in {"dial", "init", "store"}, NEW k \in Key
        PROVE  peers'[k] # cl'[u]
    <3>1. CASE u = t
      BY Zenon, <1>2, <1>6, <2>1, <2>3, <3>1 DEF maps
    <3>2. CASE u # t
      BY Zenon, Parts, <1>2, <1>6, <2>3, <3>2 DEF UniqueInv, Others, maps
    <3> QED BY Zenon, <3>1, <3>2
  <2> QED BY Zenon, <2>2, <2>3 DEF UniqueInv
<1> QED BY Zenon, <1>6, <1>7, <1>8, <1>9, <1>10, Whole

\* Dial starts a second thread, the Accept goroutine of the socket.
LEMMA DialIInv ==
    ASSUME IInv, NEW t \in Threads, Dial(t)
    PROVE  IInv'
<1>1. PICK x \in UnusedSocks :
        /\ pc' = [pc EXCEPT ![t] = "init", ![x] = "read"]
        /\ sockRemote' = [sockRemote EXCEPT ![x] = key[t][1]]
        /\ open' = [open EXCEPT ![x] = TRUE]
        /\ cli' = [cli EXCEPT ![x] = cl[t]]
        /\ sock' = [sock EXCEPT ![cl[t]] = x]
  BY Zenon DEF Dial
<1>2. x \in Socks /\ x \in Threads /\ x # t /\ pc[x] = "done" /\ pc[t] = "dial"
  BY Zenon, Parts, <1>1 DEF Dial, UnusedSocks, Threads, LocalInv
<1>3. /\ pc'[t] = "init" /\ pc'[x] = "read"
      /\ \A u \in Threads \ {t, x} : pc'[u] = pc[u]
  BY ZenonT(30), Parts, <1>1, <1>2 DEF TypeOK, ThreadsType
<1>4. UNCHANGED <<maps, locks, key, cl, remote, connNil, hasID, gotPubKey, outReady, inReady, closing>>
  BY SMTT(30) DEF Dial
<1>5. cl[t] \in Created /\ cl[t] \in Clients /\ key[t] \in Key /\ key[t][1] \in Remotes
  BY Zenon, <1>2, Creating DEF CreatingPC
<1>6. ThreadsType'
  <2>1. pc' \in [Threads -> ThreadPC]
    BY Zenon, Parts, <1>1 DEF TypeOK, ThreadsType, ThreadPC, GetOrSetPC
  <2> QED BY Zenon, Parts, <1>1, <1>4, <1>5, <2>1 DEF TypeOK, ThreadsType
<1>7. MapsType' /\ ClientsType' /\ ClosingType'
  BY Zenon, Parts, <1>1, <1>2, <1>4 DEF TypeOK, MapsType, ClientsType, ClosingType
<1>8. Created' = Created
  BY Zenon, <1>4 DEF Created
<1>9. LocalInv'
  <2>1. \A u \in Threads : (Knows(pc[u], key[u], cl[u]) /\ cl[u] \in Created \cup {None})'
    BY Zenon, Parts, <1>2, <1>3, <1>4, <1>8 DEF LocalInv, Knows, GetOrSetPC, ResetPC, CreatingPC
  <2>2. \A s \in Socks : cli'[s] \in Created' \cup {None}
    BY Zenon, Parts, <1>1, <1>5, <1>8 DEF LocalInv, TypeOK, ThreadsType
  <2>3. \A s \in Socks : sockRemote'[s] = None => pc'[s] = "done"
    BY Zenon, Parts, <1>1, <1>2, <1>3, <1>5, ConnAssumption DEF LocalInv, TypeOK, ThreadsType, Threads
  <2> QED BY Zenon, <2>1, <2>2, <2>3 DEF LocalInv
<1>10. CreatedInv'
  BY Zenon, Parts, <1>4, <1>8 DEF CreatedInv
<1>11. MutexInv'
  BY Zenon, Parts, <1>2, <1>3, <1>4 DEF MutexInv, CriticalPC, GetOrSetPC, ResetPC
<1>12. ReadyInv'
  BY Zenon, Parts, <1>2, <1>3, <1>4 DEF ReadyInv
<1>13. UniqueInv'
  BY Parts, <1>2, <1>3, <1>4 DEF UniqueInv
<1> QED BY Zenon, <1>6, <1>7, <1>9, <1>10, <1>11, <1>12, <1>13, Whole

\* The other steps of a creation: the client of thread t becomes registered and
\* ready, or the dial fails.
LEMMA CreateIInv ==
    ASSUME IInv, NEW t \in Threads,
           DialError(t) \/ InitConnection(t) \/ Store(t) \/ Publish(t) \/ SetOutgoingReady(t)
    PROVE  IInv'
<1>1. /\ pc[t] \in CreatingPC
      /\ UNCHANGED <<remote, sockRemote, open, cli, closing, sock, connNil, hasID, gotPubKey>>
  BY DEF CreatingPC, DialError, InitConnection, Store, Publish, SetOutgoingReady
<1>2. Created' = Created
  BY Zenon, <1>1 DEF Created
<1>3. /\ key[t] \in Key /\ cl[t] \in Created /\ cl[t] \in Clients /\ cl[t] # None
      /\ \A u \in Threads \ {t} : pc[u] \notin CreatingPC \cup {"dropPeers"}
      /\ \A k \in Key : peers[k] # None =>
           \/ outReady[peers[k]] /\ inReady[peers[k]]
           \/ pc[t] \in {"connect", "ready"} /\ cl[t] = peers[k]
      /\ \A k, l \in Key : peers[k] # None /\ peers[k] = peers[l] => k = l
  BY ZenonT(30), <1>1, Creating, ConnAssumption DEF CreatingPC
<1>4. PICK p \in CreatingPC \cup {"got", "failed"} :
        /\ Moves(t, p, key[t], cl[t])
        /\ IF p \in CreatingPC THEN UNCHANGED createMutex ELSE createMutex' = None
  BY Local DEF Goto, Moves, CreatingPC, DialError, InitConnection, Store, Publish, SetOutgoingReady
<1>5. /\ ThreadsType' /\ ClosingType' /\ LocalInv' /\ MutexInv'
      /\ Others(t) /\ pc'[t] = p /\ cl'[t] = cl[t]
      /\ \A d \in Clients : (told[d] \/ cpc[d] # "open" => d \in Created)'
  BY Zenon, <1>1, <1>2, <1>3, <1>4, CreateStep
<1>6. MapsType' /\ ClientsType'
  <2>1. /\ peers' \in [Key -> Clients \cup {None}]
        /\ connections' \in [Key -> Clients \cup {None}]
        /\ streams' \in [Key -> Clients \cup {None}]
    BY Zenon, Parts, <1>3 DEF TypeOK, MapsType, DialError, InitConnection, Store, Publish, SetOutgoingReady
  <2>2. /\ connStates' \in [Key -> {None, "REACHABLE", "UNREACHABLE"}]
        /\ createMutex' \in Threads \cup {None} /\ connMutex' \in Threads \cup Clients \cup {None}
    BY Zenon, Parts DEF TypeOK, MapsType, DialError, InitConnection, Store, Publish, SetOutgoingReady
  <2>3. outReady' \in [Clients -> BOOLEAN] /\ inReady' \in [Clients -> BOOLEAN]
    BY ZenonT(40), Parts DEF TypeOK, ClientsType, DialError, InitConnection, Store, Publish, SetOutgoingReady
  <2> QED BY Zenon, Parts, <1>1, <2>1, <2>2, <2>3 DEF TypeOK, MapsType, ClientsType
<1>7. /\ \A k \in Key : peers'[k] \in {peers[k], None, cl[t]}
      /\ \A d \in Clients : outReady[d] => outReady'[d]
      /\ \A d \in Clients : inReady[d] => inReady'[d]
  BY Zenon, Parts DEF TypeOK, MapsType, ClientsType, DialError, InitConnection, Store, Publish, SetOutgoingReady
<1>8. CreatedInv'
  BY Zenon, Parts, <1>2, <1>3, <1>5, <1>7 DEF CreatedInv
<1>9. \/ pc[t] = "dial" /\ p = "failed" /\ \A k \in Key : peers'[k] \in {peers[k], None}
      \/ pc[t] = "init" /\ p = "store" /\ UNCHANGED peers
      \/ pc[t] = "store" /\ p = "connect" /\ peers' = [peers EXCEPT ![key[t]] = cl[t]]
      \/ pc[t] = "connect" /\ p = "ready" /\ UNCHANGED peers /\ inReady'[cl[t]]
      \/ pc[t] = "ready" /\ p = "got" /\ UNCHANGED <<peers, inReady>> /\ outReady'[cl[t]]
  <2>1. ASSUME DialError(t)
        PROVE  pc[t] = "dial" /\ p = "failed" /\ \A k \in Key : peers'[k] \in {peers[k], None}
    BY Zenon, Parts, <1>5, <2>1 DEF DialError, Goto, TypeOK, MapsType, ThreadsType
  <2>2. ASSUME InitConnection(t)
        PROVE  pc[t] = "init" /\ p = "store" /\ UNCHANGED peers
    BY Zenon, Parts, <1>5, <2>2 DEF InitConnection, Goto, TypeOK, ThreadsType
  <2>3. ASSUME Store(t)
        PROVE  pc[t] = "store" /\ p = "connect" /\ peers' = [peers EXCEPT ![key[t]] = cl[t]]
    BY Zenon, Parts, <1>5, <2>3 DEF Store, Goto, TypeOK, ThreadsType
  <2>4. ASSUME Publish(t)
        PROVE  pc[t] = "connect" /\ p = "ready" /\ UNCHANGED peers /\ inReady'[cl[t]]
    BY Zenon, Parts, <1>3, <1>5, <2>4 DEF Publish, Goto, TypeOK, ThreadsType, ClientsType
  <2>5. ASSUME SetOutgoingReady(t)
        PROVE  pc[t] = "ready" /\ p = "got" /\ UNCHANGED <<peers, inReady>> /\ outReady'[cl[t]]
    BY Zenon, Parts, <1>3, <1>5, <2>5 DEF SetOutgoingReady, Goto, TypeOK, ThreadsType, ClientsType
  <2> QED BY Zenon, <2>1, <2>2, <2>3, <2>4, <2>5
<1>10. ReadyInv'
  <2>1. ASSUME NEW u \in Threads, pc'[u] \in {"ready", "got", "dispatch"} PROVE inReady'[cl'[u]]
    <3>1. CASE u = t
      BY Zenon, Parts, <1>5, <1>9, <2>1, <3>1 DEF ReadyInv
    <3>2. CASE u # t
      <4>a. pc'[u] = pc[u] /\ cl'[u] = cl[u]
        BY Zenon, <1>5, <3>2 DEF Others
      <4>b. pc[u] # "ready"
        BY Zenon, <1>3, <3>2 DEF CreatingPC
      <4>1. pc[u] \in {"got", "dispatch"} /\ cl'[u] = cl[u]
        BY Zenon, <2>1, <4>a, <4>b
      <4>2. inReady[cl[u]] /\ cl[u] \in Clients
        BY Zenon, <4>1, Local DEF Knows, Created
      <4> QED BY Zenon, <1>7, <4>1, <4>2
    <3> QED BY Zenon, <3>1, <3>2
  <2>2. ASSUME NEW k \in Key, peers'[k] # None
        PROVE  \/ outReady'[peers'[k]] /\ inReady'[peers'[k]]
               \/ pc'[t] \in {"connect", "ready"} /\ cl'[t] = peers'[k]
    <3>1. CASE peers'[k] = cl[t]
      <4>1. pc[t] \in {"dial", "init", "store"} => peers[k] # cl[t]
        BY Zenon, Parts, <2>2 DEF UniqueInv
      <4>2. pc[t] = "ready" => inReady[cl[t]]
        BY Zenon, Parts DEF ReadyInv
      <4>3. pc'[t] = p /\ cl'[t] = cl[t]
        BY Zenon, <1>5
      <4>4. CASE pc[t] = "dial" /\ \A l \in Key : peers'[l] \in {peers[l], None}
        BY Zenon, <2>2, <3>1, <4>1, <4>4
      <4>5. CASE pc[t] = "init" /\ UNCHANGED peers
        BY Zenon, <3>1, <4>1, <4>5
      <4>6. CASE p = "connect" \/ p = "ready"
        BY Zenon, <3>1, <4>3, <4>6
      <4>7. CASE pc[t] = "ready" /\ UNCHANGED inReady /\ outReady'[cl[t]]
        BY Zenon, <3>1, <4>2, <4>7
      <4> QED BY Zenon, <1>9, <4>4, <4>5, <4>6, <4>7
    <3>2. CASE peers'[k] = peers[k] /\ peers[k] # cl[t]
      BY Zenon, Parts, <1>3, <1>7, <2>2, <3>2 DEF TypeOK, MapsType
    <3> QED BY ZenonT(30), <1>7, <2>2, <3>1, <3>2
  <2> QED BY Zenon, <2>1, <2>2 DEF ReadyInv
<1>11. UniqueInv'
  <2>1. \A u \in Threads \ {t} : pc'[u] \notin {"dial", "init", "store"}
    BY ZenonT(40), <1>3, <1>5 DEF Others, CreatingPC
  <2>2. p = "store" => \A k \in Key : peers'[k] # cl[t]
    BY Zenon, Parts, <1>9 DEF UniqueInv
  <2>3. p \notin {"dial", "init"}
    BY Zenon, <1>9
  <2>4. \A k, l \in Key : peers'[k] # None /\ peers'[k] = peers'[l] => k = l
    <3>1. CASE pc[t] = "store"
      BY Parts, <1>3, <1>9, <3>1 DEF UniqueInv, TypeOK, MapsType
    <3>2. CASE pc[t] # "store"
      BY <1>3, <1>9, <3>2
    <3> QED BY ZenonT(30), <3>1, <3>2
  <2> QED BY Zenon, <1>5, <2>1, <2>2, <2>3, <2>4 DEF UniqueInv
<1> QED BY Zenon, <1>5, <1>6, <1>8, <1>10, <1>11, Whole
-----------------------------------------------------------------------------
\* No client, no connection, all mutexes free.
LEMMA InitIInv == Init => IInv
<1> SUFFICES ASSUME Init PROVE IInv
  OBVIOUS
<1>1. TypeOK
  BY ConnAssumption DEF Init, TypeOK, MapsType, ThreadsType, ClientsType, ClosingType, ThreadPC, ClosePC
<1>2. MutexInv /\ LocalInv /\ CreatedInv /\ ReadyInv /\ UniqueInv
  BY Zenon, ConnAssumption DEF Init, MutexInv, LocalInv, Knows, CreatedInv, ReadyInv, UniqueInv, CriticalPC,
     CreatingPC, GetOrSetPC, ResetPC, Threads
<1> QED BY Zenon, <1>1, <1>2 DEF IInv

\* Every step keeps the invariant.
LEMMA NextIInv == IInv /\ [Next]_vars => IInv'
<1> SUFFICES ASSUME IInv, [Next]_vars PROVE IInv'
  OBVIOUS
<1>1. ASSUME NEW t \in Threads, GetOrSet(t) PROVE IInv'
  BY Zenon, <1>1, LockCreateIInv, ResetPeersIInv, ResetRestIInv, LoadIInv, LockConnIInv, DialIInv,
     CreateIInv DEF GetOrSet
<1>2. CASE UNCHANGED vars
  BY Zenon, Parts, <1>2, CloseStep DEF vars, TypeOK, MapsType, ThreadsType, ClientsType, ClosingType, CreatedInv
<1> QED BY Zenon, <1>1, <1>2, CloserIInv, AcceptIInv, ListenIInv, DialerIInv, WriterIInv, CloseIInv,
           ReadQuitNodeIInv DEF Next

\* IInv is an inductive invariant: the positions of the goroutines, the holder
\* of createClientMutex and the entries of peers fit together at every step.
THEOREM Inductive == Spec => []IInv
  BY InitIInv, NextIInv, PTL DEF Spec

\* The maps, mutexes, goroutines and clients stay within their types.
THEOREM TypeCorrect == Spec => []TypeOK
<1>1. IInv => TypeOK
  BY Zenon, Parts
<1> QED BY <1>1, Inductive, PTL

\* getOrSetPeerClient never refuses a cached client for not being ready, and
\* dispatchMessage never drops a message of one, however the calls interleave.
THEOREM CachedClientsReady == Spec => []ReadyWhenUsed
<1>1. IInv => ReadyWhenUsed
  <2> SUFFICES ASSUME IInv PROVE ReadyWhenUsed
    OBVIOUS
  <2>1. ASSUME NEW t \in Threads, pc[t] = "load", peers[key[t]] # None
        PROVE  outReady[peers[key[t]]]
    <3>1. /\ \A u \in Threads : pc[u] \notin {"connect", "ready"}
          /\ key[t] \in Key
      BY Zenon, <2>1, Alone DEF CriticalPC, GetOrSetPC, ResetPC
    <3> QED BY Zenon, Parts, <2>1, <3>1 DEF ReadyInv
  <2>2. \A s \in Socks : pc[s] \in {"got", "dispatch"} => inReady[cl[s]]
    BY Zenon, Parts DEF ReadyInv, Threads
  <2> QED BY Zenon, <2>1, <2>2 DEF ReadyWhenUsed
<1> QED BY <1>1, Inductive, PTL

\* Outside getOrSetPeerClient no client is registered under two keys.
THEOREM RegisteredOnce == Spec => []OneEntry
<1>1. IInv => OneEntry
  BY Parts, ConnAssumption DEF OneEntry, UniqueInv, MutexInv, CriticalPC, GetOrSetPC, ResetPC
<1> QED BY <1>1, Inductive, PTL
-----------------------------------------------------------------------------
OnlyListens == Dialers = {} /\ ~ProxyMode

\* The positions at which the maps differ; ConnMgr.Mutex is held there.
Registering == {"init", "store", "connect"}
Removing == {"delConns", "delStreams", "delStates"}

\* The positions a thread never reaches.
Foreign == (ResetPC \ {"copyPeers"}) \cup {"dial", "wait", "reconnect"}
IDs == {ID(r) : r \in Remotes}

\* Nothing is registered under an address, nothing is moved from one, nobody dials.
IDsOnly ==
    /\ \A r \in Remotes : /\ peers[Addr(r)] = None /\ connections[Addr(r)] = None
                          /\ streams[Addr(r)] = None /\ connStates[Addr(r)] = None
    /\ \A t \in Threads : pc[t] \notin Foreign /\ (pc[t] \in GetOrSetPC => t \in Socks /\ key[t] \in IDs)
    /\ \A s \in Socks : cli[s] = None

Holds ==
    /\ \A t \in Threads : pc[t] \in Registering => connMutex = t
    /\ \A c \in Clients : cpc[c] \in Removing => connMutex = c

\* A client in the making is under the ID of its node; nobody has used it, let
\* alone closed it.
Making ==
    /\ \A t \in Threads : pc[t] \in Registering \cup {"ready"} =>
         /\ key[t] = ID(remote[cl[t]]) /\ ~hasID[cl[t]]
         /\ \A u \in Threads : pc[u] \in {"got", "dispatch"} => cl[u] # cl[t]
    /\ \A c \in Clients : hasID[c] => c \in Created

Busy(k) ==
    \/ \E t \in Threads : pc[t] \in Registering /\ key[t] = k
    \/ \E c \in Clients : cpc[c] \in Removing /\ ID(remote[c]) = k

\* What the maps hold under a peer ID.
Settled ==
    \A r \in Remotes : ~Busy(ID(r)) =>
        /\ connections[ID(r)] = peers[ID(r)] /\ streams[ID(r)] = peers[ID(r)]
        /\ peers[ID(r)] # None => connStates[ID(r)] = "REACHABLE"

\* What they hold under the key a thread registers, and under the one a Close removes.
Stage(t) ==
    LET k == key[t] IN
    /\ pc[t] \in {"lock", "init", "store"} => peers[k] = None
    /\ pc[t] \in {"init", "store"} => streams[k] = None
    /\ pc[t] = "init" => connections[k] = None
    /\ pc[t] \in {"store", "connect"} => connections[k] = cl[t]
    /\ pc[t] = "connect" => peers[k] = cl[t] /\ streams[k] = cl[t]
Removal(c) ==
    LET k == ID(remote[c]) IN
    /\ cpc[c] \in Removing => peers[k] = None
    /\ cpc[c] = "delConns" => connections[k] = c
    /\ cpc[c] \in {"delStreams", "delStates"} => connections[k] = None
    /\ cpc[c] \in {"delConns", "delStreams"} => streams[k] = c
    /\ cpc[c] = "delStates" => streams[k] = None
Stages == (\A t \in Threads : Stage(t)) /\ \A c \in Clients : Removal(c)

\* A Close works on the connection of its client under the peer ID, once.
ClosesOwn(c) ==
    /\ cst[c] \in {c, None} /\ (cst[c] = c => hasID[c])
    /\ cpc[c] = "open" => ckey[c] = "id" /\ cst[c] = None
    /\ cpc[c] = "find" /\ ckey[c] = "id" => cst[c] = None
    /\ cpc[c] \in {"shut", "delPeers", "quit"} \cup Removing => ckey[c] = "id" /\ cst[c] = c
    /\ connNil[c] => ckey[c] = "addr"
Closing == \A c \in Clients : ClosesOwn(c)

\* A client has the entry of its node from its creation to its own Close.
Removed(c) == cst[c] = c /\ cpc[c] \notin {"shut", "delPeers"}
Stored(c) == c \in Created /\ \A t \in Threads : pc[t] \in {"init", "store"} => cl[t] # c
Registered ==
    /\ \A r \in Remotes : peers[ID(r)] # None => remote[peers[ID(r)]] = r
    /\ \A c \in Clients : Stored(c) => (peers[ID(remote[c])] = c <=> ~Removed(c))

LInv == IDsOnly /\ Holds /\ Making /\ Settled /\ Stages /\ Closing /\ Registered

USE DEF maps, locks, threads, clients, closing, sockets
-----------------------------------------------------------------------------
(* The parts of the invariant; keys; who works on the maps. *)

\* The parts of the invariant of a node that only listens.
LEMMA LParts ==
    ASSUME LInv
    PROVE  IDsOnly /\ Holds /\ Making /\ Settled /\ Stages /\ Closing /\ Registered
  BY Zenon DEF LInv

\* And back.
LEMMA LWhole ==
    ASSUME IDsOnly', Holds', Making', Settled', Stages', Closing', Registered'
    PROVE  LInv'
  BY Zenon DEF LInv

\* Addresses and peer IDs of different nodes are different keys.
LEMMA IDKeys ==
    /\ \A r \in Remotes : ID(r) \in Key /\ Addr(r) \in Key /\ ID(r) # None
    /\ \A r, q : (ID(r) = ID(q) => r = q) /\ (Addr(r) = Addr(q) => r = q) /\ ID(r) # Addr(q)
    /\ \A k \in Key : k \notin IDs => \E r \in Remotes : k = Addr(r)
    /\ \A k \in IDs : k \in Key /\ k[1] \in Remotes /\ k[2] = "id" /\ k = ID(k[1])
<1>1. \A r \in Remotes : ID(r) \in Key /\ Addr(r) \in Key /\ ID(r) # None
  BY ConnAssumption DEF ID, Addr, Key
<1>2. \A r, q : (ID(r) = ID(q) => r = q) /\ (Addr(r) = Addr(q) => r = q) /\ ID(r) # Addr(q)
  BY DEF ID, Addr
<1>3. \A k \in Key : k \notin IDs => \E r \in Remotes : k = Addr(r)
  BY DEF ID, Addr, Key, IDs
<1>4. \A k \in IDs : k \in Key /\ k[1] \in Remotes /\ k[2] = "id" /\ k = ID(k[1])
  BY DEF ID, Key, IDs
<1> QED BY Zenon, <1>1, <1>2, <1>3, <1>4

\* A peer ID belongs to one node.
LEMMA IDOnce == \A r, q : ID(r) = ID(q) => r = q
  BY Zenon, IDKeys

\* A step of threads that register nothing, or begin to close a client.
Same(u) == pc'[u] = pc[u] /\ key'[u] = key[u] /\ cl'[u] = cl[u]
Harmless(u) ==
    /\ pc[u] \notin Registering
    /\ pc'[u] \notin Registering \cup {"ready"} \cup Foreign
    /\ pc'[u] \in GetOrSetPC => u \in Socks /\ key'[u] \in IDs
    /\ pc'[u] \in {"got", "dispatch"} =>
         \A v \in Threads \ {u} : pc[v] \in Registering \cup {"ready"} => cl[v] # cl'[u]
    /\ pc'[u] = "lock" => peers[key'[u]] = None

\* A client that was returned to a caller.
Used(d) ==
    d \in Created /\ \A v \in Threads : pc[v] \in Registering \cup {"ready"} => cl[v] # d

\* A step that leaves the maps and ConnMgr.Mutex alone keeps the invariant,
\* unless it brings a thread to a place the invariant speaks of.
LEMMA Quiet ==
    ASSUME IInv, LInv, \A u \in Threads : Same(u) \/ Harmless(u),
           UNCHANGED <<maps, connMutex, remote, connNil, ckey, cst, cli>>,
           \A d \in Clients : hasID'[d] = hasID[d] \/ (hasID'[d] /\ Used(d)),
           \A d \in Clients : cpc'[d] = cpc[d] \/ (cpc[d] = "open" /\ cpc'[d] = "find")
    PROVE  LInv'
<1> USE DEF Registering, Removing
<1>0. Created' = Created
  BY Zenon DEF Created
<1>1. \A u \in Threads : pc[u] \in Registering \/ pc'[u] \in Registering => Same(u)
  BY Zenon DEF Harmless
<1>2. \A d \in Clients : cpc[d] \notin {"open", "find"} \/ cpc'[d] \notin {"open", "find"} => cpc'[d] = cpc[d]
  OBVIOUS
<1>3. IDsOnly'
  <2>1. ASSUME NEW u \in Threads
        PROVE  pc'[u] \notin Foreign /\ (pc'[u] \in GetOrSetPC => u \in Socks /\ key'[u] \in IDs)
    BY Zenon, LParts, <2>1 DEF IDsOnly, Same, Harmless
  <2> QED BY Zenon, LParts, <2>1 DEF IDsOnly
<1>4. Holds'
  BY Zenon, LParts, <1>1, <1>2 DEF Holds, Same
<1>5. Making'
  <2>1. ASSUME NEW u \in Threads, pc'[u] \in Registering \cup {"ready"}
        PROVE  /\ Same(u) /\ key'[u] = ID(remote'[cl'[u]]) /\ ~hasID'[cl'[u]]
               /\ \A v \in Threads : pc'[v] \in {"got", "dispatch"} => cl'[v] # cl'[u]
    <3>1. Same(u)
      BY Zenon, <2>1 DEF Harmless
    <3>2. \A v \in Threads : pc[v] \in {"got", "dispatch"} => cl[v] # cl[u]
      BY Zenon, LParts, <2>1, <3>1 DEF Making, Same
    <3>3. \A v \in Threads : pc'[v] \in {"got", "dispatch"} => cl'[v] # cl'[u]
      BY <2>1, <3>1, <3>2 DEF Same, Harmless
    <3>4. pc[u] \in Registering \cup {"ready"} /\ cl'[u] = cl[u] /\ cl[u] \in Clients
      BY Zenon, Parts, <2>1, <3>1 DEF Same, LocalInv, Knows, CreatingPC, Created
    <3>5. ~hasID'[cl'[u]]
      BY ZenonT(30), LParts, <3>4 DEF Making, Used
    <3> QED BY Zenon, LParts, <2>1, <3>1, <3>3, <3>5 DEF Making, Same
  <2> QED BY Zenon, LParts, <1>0, <2>1 DEF Making, Used
<1>6. \A r \in Remotes : Busy(ID(r)) => Busy(ID(r))'
  <2> SUFFICES ASSUME NEW r \in Remotes, Busy(ID(r)) PROVE Busy(ID(r))'
    OBVIOUS
  <2> QED BY Zenon, <1>1, <1>2 DEF Busy, Same
<1>7. Settled'
  BY Zenon, LParts, <1>6 DEF Settled
<1>8. Stages'
  <2>1. ASSUME NEW u \in Threads
        PROVE  \/ pc'[u] \notin Registering \cup {"lock"}
               \/ Same(u)
               \/ pc'[u] = "lock" /\ peers[key'[u]] = None
    BY Zenon, <2>1 DEF Harmless
  <2>2. UNCHANGED <<peers, connections, streams, remote>>
    OBVIOUS
  <2>3. ASSUME NEW u \in Threads PROVE Stage(u)'
    <3>1. CASE pc'[u] \notin Registering \cup {"lock"}
      BY ONLY <3>1 DEF Stage, Registering
    <3>2. CASE Same(u)
      <4>1. Stage(u)
        BY Zenon, LParts, <2>3 DEF Stages
      <4> QED BY ONLY <2>2, <3>2, <4>1 DEF Same, Stage
    <3>3. CASE pc'[u] = "lock" /\ peers[key'[u]] = None
      BY ONLY SMTT(20), <2>2, <3>3 DEF Stage
    <3> QED BY Zenon, <2>1, <2>3, <3>1, <3>2, <3>3
  <2>4. ASSUME NEW d \in Clients PROVE Removal(d)'
    <3>1. Removal(d)
      BY Zenon, LParts, <2>4 DEF Stages
    <3>2. cpc'[d] \in Removing => cpc'[d] = cpc[d]
      BY ZenonT(30), <1>2, <2>4
    <3> QED BY ONLY <2>2, <3>1, <3>2 DEF Removal, Removing
  <2> QED BY Zenon, <2>3, <2>4 DEF Stages
<1>9. Closing'
  BY LParts, <1>2 DEF Closing, ClosesOwn
<1>10. Registered'
  <2>1. ASSUME NEW c \in Clients PROVE (Stored(c)' => Stored(c)) /\ (Removed(c)' <=> Removed(c))
    <3>1. Stored(c)' => Stored(c)
      BY Zenon, <1>0, <1>1 DEF Stored, Same
    <3> QED BY Zenon, <1>2, <3>1 DEF Removed
  <2> QED BY Zenon, LParts, <2>1 DEF Registered
<1> QED BY Zenon, <1>3, <1>4, <1>5, <1>7, <1>8, <1>9, <1>10, LWhole

\* Such a step of one thread.
LEMMA QuietMove ==
    ASSUME IInv, LInv, NEW t \in Threads, NEW p \in ThreadPC, NEW k \in Key \cup {None},
           NEW c \in Clients \cup {None}, Moves(t, p, k, c),
           pc[t] \notin Registering, p \notin Registering \cup {"ready"} \cup Foreign,
           p \in GetOrSetPC => t \in Socks /\ k \in IDs,
           p \in {"got", "dispatch"} =>
             \A v \in Threads \ {t} : pc[v] \in Registering \cup {"ready"} => cl[v] # c,
           p = "lock" => peers[k] = None,
           UNCHANGED <<maps, connMutex, remote, hasID, connNil, ckey, cst, cli>>,
           cpc' = cpc \/ \E d \in Clients : BeginClose(d)
    PROVE  LInv'
<1>1. Others(t) /\ At(t, p, k, c)
  BY Zenon, MoveStep
<1>2. \A u \in Threads : Same(u) \/ Harmless(u)
  BY Zenon, <1>1 DEF Others, At, Same, Harmless
<1>3. \A d \in Clients : cpc'[d] = cpc[d] \/ (cpc[d] = "open" /\ cpc'[d] = "find")
  BY Zenon, Parts DEF BeginClose, TypeOK, ClosingType
<1> QED BY Zenon, <1>2, <1>3, Quiet
-----------------------------------------------------------------------------
(* The steps that change no map. *)

\* Whatever a thread has at hand, as far as types go.
LEMMA Hand ==
    ASSUME IInv, LInv, NEW t \in Threads
    PROVE  /\ key[t] \in Key \cup {None} /\ cl[t] \in Clients \cup {None} /\ pc[t] \notin Foreign
           /\ pc[t] \in GetOrSetPC => t \in Socks /\ key[t] \in IDs /\ key[t] \in Key
           /\ key = [key EXCEPT ![t] = key[t]] /\ cl = [cl EXCEPT ![t] = cl[t]]
  BY Zenon, Local, LParts, IDKeys DEF IDsOnly, Created

\* client.ID = msg.Sender: the client was returned to this goroutine.
LEMMA SetIDLInv ==
    ASSUME IInv, LInv, NEW s \in Socks, SetID(s)
    PROVE  LInv'
<1>0. s \in Threads /\ pc[s] = "got"
  BY Zenon DEF Threads, SetID
<1>1. /\ Moves(s, "dispatch", key[s], cl[s]) /\ hasID' = [hasID EXCEPT ![cl[s]] = TRUE]
      /\ UNCHANGED <<maps, connMutex, remote, connNil, ckey, cst, cpc, cli>>
  BY Zenon, <1>0, Hand DEF SetID, Goto, Moves
<1>2. Others(s) /\ At(s, "dispatch", key[s], cl[s])
  BY Zenon, <1>0, <1>1, Hand, MoveStep DEF ThreadPC
<1>3. cl[s] \in Created /\ Used(cl[s])
  <2>1. cl[s] \in Created
    BY Zenon, <1>0, Local DEF Knows
  <2>2. \A v \in Threads : pc[v] \in Registering \cup {"ready"} => cl[v] # cl[s]
    BY Zenon, LParts, <1>0 DEF Making
  <2> QED BY Zenon, <2>1, <2>2 DEF Used
<1>4. \A u \in Threads : Same(u) \/ Harmless(u)
  <2>1. Harmless(s)
    BY Zenon, <1>0, <1>2, <1>3 DEF At, Harmless, Registering, Foreign, GetOrSetPC, ResetPC, Used
  <2> QED BY Zenon, <1>2, <2>1 DEF Others, Same
<1>5. \A d \in Clients : hasID'[d] = hasID[d] \/ (hasID'[d] /\ Used(d))
  BY Zenon, Parts, <1>1, <1>3 DEF TypeOK, ClientsType
<1> QED BY Zenon, <1>1, <1>4, <1>5, Quiet

\* A thread that calls Close, and one that comes back from it.
LEMMA CallerLInv ==
    ASSUME IInv, LInv, NEW t \in Threads, CloseAfterError(t) \/ Closed(t)
    PROVE  LInv'
<1> USE DEF Registering, Foreign, ThreadPC, GetOrSetPC, ResetPC
<1>1. ASSUME CloseAfterError(t) PROVE LInv'
  <2>1. pc[t] = "sendError" /\ key[t] \in Key
    BY Zenon, <1>1, Local DEF CloseAfterError, Knows
  <2>2. peers[key[t]] \in Clients \cup {None}
    BY Zenon, Parts, <2>1 DEF TypeOK, MapsType
  <2>3. /\ \/ /\ peers[key[t]] # None /\ BeginClose(peers[key[t]])
              /\ Moves(t, "closing", None, peers[key[t]])
           \/ UNCHANGED cpc /\ Moves(t, "idle", None, None)
        /\ UNCHANGED <<maps, locks, clients, told, ckey, cst, nodeQuit, sockets>>
    BY Zenon, <1>1 DEF CloseAfterError, CloseAndWait, Return, Goto, Moves
  <2> QED BY Zenon, <2>1, <2>2, <2>3, QuietMove
<1>2. ASSUME Closed(t) PROVE LInv'
  <2>1. /\ pc[t] = "closing"
        /\ Moves(t, "done", None, None) \/ Moves(t, "idle", None, None)
        /\ UNCHANGED <<maps, locks, clients, closing, sockRemote, cli>>
    BY Zenon, <1>2 DEF Closed, Return, Goto, Moves
  <2> QED BY Zenon, <2>1, QuietMove
<1> QED BY Zenon, <1>1, <1>2

\* A write to a registered peer that fails.
LEMMA WriterLInv ==
    ASSUME IInv, LInv, NEW t \in Writers, NEW k \in Key, WriteError(t, k)
    PROVE  LInv'
<1>1. /\ t \in Threads /\ pc[t] = "idle" /\ Moves(t, "sendError", k, cl[t])
      /\ UNCHANGED <<maps, locks, clients, closing, sockets>>
  BY Zenon, Hand DEF WriteError, Goto, Moves, Threads
<1> QED BY Zenon, <1>1, Hand, QuietMove DEF Registering, Foreign, ThreadPC, GetOrSetPC, ResetPC

\* The steps of Accept outside getOrSetPeerClient.
LEMMA AcceptLInv ==
    ASSUME IInv, LInv, NEW s \in Socks,
           \/ Receive(s) \/ ReceiveError(s) \/ Exit(s)
           \/ \E msg \in {"pong", "disconnect", "malformed", "other"} : Dispatch(s, msg)
           \/ \E r \in Remotes : Listen(s, r)
    PROVE  LInv'
<1> USE DEF Registering, Foreign, ThreadPC, GetOrSetPC, ResetPC
<1>0. s \in Threads
  BY Zenon DEF Threads
<1>1. ASSUME Receive(s) PROVE LInv'
  <2>1. sockRemote[s] \in Remotes
    BY Zenon, Parts, <1>1 DEF Receive, LocalInv, TypeOK, ThreadsType
  <2>2. /\ pc[s] = "read" /\ Moves(s, "want", ID(sockRemote[s]), None)
        /\ UNCHANGED <<maps, locks, clients, closing, sockets>>
    BY Zenon, <1>1 DEF Receive, Call, Goto, Moves
  <2>3. ID(sockRemote[s]) \in Key /\ ID(sockRemote[s]) \in IDs
    BY Zenon, <2>1, IDKeys DEF IDs
  <2> QED BY Zenon, <1>0, <2>2, <2>3, QuietMove
<1>2. ASSUME ReceiveError(s) PROVE LInv'
  <2>1. /\ pc[s] = "read" /\ Moves(s, "exit", key[s], cl[s])
        /\ UNCHANGED <<maps, locks, clients, closing, sockRemote, cli>>
    BY Zenon, <1>0, <1>2, Hand DEF ReceiveError, Goto, Moves
  <2> QED BY Zenon, <1>0, <2>1, Hand, QuietMove
<1>3. ASSUME Exit(s) PROVE LInv'
  <2>1. cli[s] = None
    BY Zenon, LParts DEF IDsOnly
  <2>2. /\ pc[s] \in {"exit", "failed"} /\ Moves(s, "done", None, None)
        /\ UNCHANGED <<maps, locks, clients, cpc, ckey, cst, cli>>
    BY Zenon, <1>3, <2>1 DEF Exit, Return, Goto, Moves
  <2> QED BY Zenon, <1>0, <2>2, QuietMove
<1>4. ASSUME NEW msg, Dispatch(s, msg) PROVE LInv'
  <2>1. /\ pc[s] = "dispatch"
        /\ Moves(s, "exit", None, None) \/ Moves(s, "read", None, None)
        /\ UNCHANGED <<maps, connMutex, remote, hasID, connNil, cpc, ckey, cst, cli>>
    BY Zenon, <1>4 DEF Dispatch, Return, Goto, Moves
  <2> QED BY Zenon, <1>0, <2>1, QuietMove
<1>5. ASSUME NEW r \in Remotes, Listen(s, r) PROVE LInv'
  <2>1. /\ pc[s] = "done" /\ Moves(s, "read", key[s], cl[s])
        /\ UNCHANGED <<maps, locks, clients, closing, cli>>
    BY Zenon, Parts, <1>0, <1>5, Hand DEF Listen, UnusedSocks, Goto, Moves, LocalInv
  <2> QED BY Zenon, <1>0, <2>1, Hand, QuietMove
<1> QED BY Zenon, <1>1, <1>2, <1>3, <1>4, <1>5

\* A call outside the creation of a client; the move of an entry finds none.
LEMMA CallLInv ==
    ASSUME IInv, LInv, NEW t \in Threads,
           LockCreate(t) \/ ResetPeers(t) \/ Load(t) \/ SetOutgoingReady(t)
    PROVE  LInv'
<1> USE DEF Registering, Foreign, ThreadPC, GetOrSetPC, ResetPC
<1>1. ASSUME LockCreate(t) PROVE LInv'
  <2>1. /\ pc[t] = "want"
        /\ Moves(t, "copyPeers", key[t], cl[t]) \/ Moves(t, "load", key[t], cl[t])
        /\ UNCHANGED <<maps, connMutex, clients, closing, sockets>>
    BY Zenon, <1>1, Hand DEF LockCreate, Goto, Moves
  <2> QED BY Zenon, <2>1, Hand, QuietMove
<1>2. ASSUME ResetPeers(t) PROVE LInv'
  <2>1. pc[t] = "copyPeers" /\ key[t] \in IDs
    BY Zenon, <1>2, Hand DEF ResetPeers
  <2>2. peers[Addr(key[t][1])] = None
    BY Zenon, <2>1, LParts, IDKeys DEF IDsOnly
  <2>3. /\ Moves(t, "load", key[t], cl[t]) /\ UNCHANGED peers
        /\ UNCHANGED <<connections, streams, connStates, locks, clients, closing, sockets>>
    BY Zenon, <1>2, <2>1, <2>2, Hand DEF ResetPeers, Copy, Goto, Moves
  <2> QED BY Zenon, <2>1, <2>3, Hand, QuietMove
<1>3. ASSUME Load(t) PROVE LInv'
  <2>1. pc[t] = "load" /\ key[t] \in Key /\ \A u \in Threads : pc[u] \notin Registering \cup {"ready"}
    BY Zenon, <1>3, Alone DEF Load, CriticalPC
  <2>2. peers[key[t]] \in Clients \cup {None}
    BY Zenon, Parts, <2>1 DEF TypeOK, MapsType
  <2>3. UNCHANGED <<maps, connMutex, key, clients, closing, sockets>>
    BY Zenon, <1>3 DEF Load
  <2>4. \/ peers[key[t]] = None /\ Moves(t, "lock", key[t], cl[t])
        \/ Moves(t, "got", key[t], peers[key[t]])
        \/ Moves(t, "failed", key[t], peers[key[t]])
    <3>1. CASE peers[key[t]] = None /\ Uncreated # {}
      BY Zenon, <1>3, <3>1, Hand DEF Load, Goto, Moves
    <3>2. CASE peers[key[t]] # None /\ outReady[peers[key[t]]]
      BY Zenon, <1>3, <3>2, Hand DEF Load, Goto, Moves
    <3>3. CASE ~(peers[key[t]] = None /\ Uncreated # {}) /\ ~(peers[key[t]] # None /\ outReady[peers[key[t]]])
      BY Zenon, <1>3, <3>3, Hand DEF Load, Goto, Moves
    <3> QED BY Zenon, <3>1, <3>2, <3>3
  <2> QED BY Zenon, <2>1, <2>2, <2>3, <2>4, Hand, QuietMove
<1>4. ASSUME SetOutgoingReady(t) PROVE LInv'
  <2>1. pc[t] = "ready" /\ \A u \in Threads \ {t} : pc[u] \notin Registering \cup {"ready"}
    BY Zenon, <1>4, Alone DEF SetOutgoingReady, CriticalPC
  <2>2. /\ Moves(t, "got", key[t], cl[t])
        /\ UNCHANGED <<maps, connMutex, remote, hasID, connNil, closing, sockets>>
    BY Zenon, <1>4, Hand DEF SetOutgoingReady, Goto, Moves
  <2> QED BY Zenon, <2>1, <2>2, Hand, QuietMove
<1> QED BY Zenon, <1>1, <1>2, <1>3, <1>4
-----------------------------------------------------------------------------
(* Close. *)

\* Nobody works on the maps while ConnMgr.Mutex is free, and its holder is alone.
LEMMA HolderAlone ==
    ASSUME IInv, LInv
    PROVE  /\ connMutex = None =>
                /\ \A t \in Threads : pc[t] \notin Registering
                /\ \A d \in Clients : cpc[d] \notin Removing
           /\ \A c \in Clients : cpc[c] \in Removing =>
                /\ \A t \in Threads : pc[t] \notin Registering
                /\ \A d \in Clients \ {c} : cpc[d] \notin Removing
           /\ \A t \in Threads : pc[t] \in Registering =>
                /\ \A u \in Threads \ {t} : pc[u] \notin Registering
                /\ \A d \in Clients : cpc[d] \notin Removing
<1>1. Holds
  BY Zenon, LParts
<1>2. /\ connMutex = None =>
           /\ \A t \in Threads : pc[t] \notin Registering
           /\ \A d \in Clients : cpc[d] \notin Removing
  BY Zenon, <1>1, ConnAssumption DEF Holds
<1>3. ASSUME NEW c \in Clients, cpc[c] \in Removing
      PROVE  /\ \A t \in Threads : pc[t] \notin Registering
             /\ \A d \in Clients \ {c} : cpc[d] \notin Removing
  BY Zenon, <1>1, <1>3, ConnAssumption DEF Holds
<1>4. ASSUME NEW t \in Threads, pc[t] \in Registering
      PROVE  /\ \A u \in Threads \ {t} : pc[u] \notin Registering
             /\ \A d \in Clients : cpc[d] \notin Removing
  BY Zenon, <1>1, <1>4, ConnAssumption DEF Holds
<1> QED BY Zenon, <1>2, <1>3, <1>4

\* A client that is in use and not yet removed has all three entries.
LEMMA OwnEntries ==
    ASSUME IInv, LInv, NEW c \in Clients, c \in Created, hasID[c], ~Removed(c)
    PROVE  LET k == ID(remote[c]) IN
           peers[k] = c /\ connections[k] = c /\ streams[k] = c /\ ~Busy(k)
<1> DEFINE k == ID(remote[c])
<1>1. c # None /\ remote[c] \in Remotes
  BY Zenon, ConnAssumption DEF Created
<1>2. \A t \in Threads : pc[t] \in Registering => cl[t] # c
  BY Zenon, LParts DEF Making
<1>3. Stored(c)
  BY Zenon, <1>2 DEF Stored, Registering
<1>4. peers[k] = c
  BY Zenon, LParts, <1>3 DEF Registered
<1>5. ~Busy(k)
  <2>1. ASSUME NEW t \in Threads, pc[t] \in Registering, key[t] = k PROVE FALSE
    <3>1. pc[t] \in {"init", "store"} => peers[k] = None
      BY ZenonT(30), LParts, <2>1 DEF Stages, Stage, Removal
    <3>2. pc[t] = "connect" => peers[k] = cl[t]
      BY Zenon, LParts, <2>1 DEF Stages, Stage, Removal
    <3> QED BY Zenon, <1>1, <1>2, <1>4, <2>1, <3>1, <3>2 DEF Registering
  <2>2. ASSUME NEW d \in Clients, cpc[d] \in Removing, ID(remote[d]) = k PROVE FALSE
    BY Zenon, LParts, <1>1, <1>4, <2>2 DEF Stages, Stage, Removal
  <2> QED BY Zenon, <2>1, <2>2 DEF Busy
<1>6. connections[k] = c /\ streams[k] = c
  BY Zenon, LParts, <1>1, <1>4, <1>5 DEF Settled
<1> QED BY Zenon, <1>4, <1>5, <1>6

\* A step of Close that changes no map and takes no mutex.
LEMMA CloseQuiet ==
    ASSUME LInv, NEW c \in Clients,
           UNCHANGED <<maps, connMutex, threads, remote, hasID, cli>>,
           \A d \in Clients \ {c} : /\ cpc'[d] = cpc[d] /\ ckey'[d] = ckey[d]
                                    /\ cst'[d] = cst[d] /\ connNil'[d] = connNil[d],
           cpc[c] \notin Removing, cpc'[c] \notin Removing, ClosesOwn(c)',
           Removed(c)' <=> Removed(c)
    PROVE  LInv'
<1>0. Created' = Created
  BY Zenon DEF Created
<1>1. \A d \in Clients : (cpc[d] \in Removing \/ cpc'[d] \in Removing) => d # c /\ cpc'[d] = cpc[d]
  BY Zenon
<1>2. IDsOnly'
  BY Zenon, LParts DEF IDsOnly
<1>3. Holds'
  BY Zenon, LParts, <1>1 DEF Holds
<1>4. Making'
  BY Zenon, LParts, <1>0 DEF Making
<1>5. Settled'
  <2>1. ASSUME NEW r \in Remotes, Busy(ID(r)) PROVE Busy(ID(r))'
    BY Zenon, <1>1, <2>1 DEF Busy
  <2> QED BY Zenon, LParts, <2>1 DEF Settled
<1>6. Stages'
  <2>1. ASSUME NEW d \in Clients, cpc'[d] \in Removing PROVE cpc'[d] = cpc[d]
    BY Zenon, <1>1, <2>1
  <2> QED BY ZenonT(30), LParts, <2>1 DEF Stages, Stage, Removal, Removing
<1>7. Closing'
  <2>1. ASSUME NEW d \in Clients \ {c} PROVE ClosesOwn(d)'
    BY LParts, <2>1 DEF Closing, ClosesOwn
  <2> QED BY Zenon, <2>1 DEF Closing
<1>8. Registered'
  <2>1. ASSUME NEW d \in Clients PROVE (Stored(d)' <=> Stored(d)) /\ (Removed(d)' <=> Removed(d))
    BY Zenon, <1>0 DEF Stored, Removed
  <2> QED BY Zenon, LParts, <2>1 DEF Registered
<1> QED BY Zenon, <1>2, <1>3, <1>4, <1>5, <1>6, <1>7, <1>8, LWhole

\* Close looks its client up.
LEMMA FindLInv ==
    ASSUME IInv, LInv, NEW c \in Clients, Find(c)
    PROVE  LInv'
<1> USE DEF CloseGoto
<1>1. /\ cpc[c] = "find" /\ c \in Created /\ ClosesOwn(c) /\ remote[c] \in Remotes
      /\ ckey[c] \in {"id", "addr"} /\ c # None
  BY Zenon, Parts, LParts, ConnAssumption DEF Find, CreatedInv, Closing, Created, TypeOK, ClosingType
<1>2. /\ UNCHANGED <<maps, locks, threads, clients, told, nodeQuit, sockets>>
      /\ \A d \in Clients \ {c} : cpc'[d] = cpc[d] /\ ckey'[d] = ckey[d] /\ cst'[d] = cst[d]
  BY Zenon, Parts DEF Find, TypeOK, ClosingType
<1>3. CASE ckey[c] = "id" /\ hasID[c] /\ connections[CloseKey(c)] # None
  <2>1. cst[c] = None /\ ~Removed(c) /\ ~connNil[c]
    BY Zenon, <1>1, <1>3 DEF ClosesOwn, Removed
  <2>2. connections[CloseKey(c)] = c
    BY Zenon, <1>1, <1>3, <2>1, OwnEntries DEF CloseKey, ID
  <2>3. cpc'[c] = "shut" /\ cst'[c] = c /\ ckey'[c] = "id"
    BY Zenon, Parts, <1>3, <2>2 DEF Find, TypeOK, ClosingType
  <2>4. ClosesOwn(c)' /\ ~Removed(c)'
    BY Zenon, <1>2, <1>3, <2>1, <2>3 DEF ClosesOwn, Removed
  <2> QED BY Zenon, <1>1, <1>2, <2>1, <2>3, <2>4, CloseQuiet DEF Removing
<1>4. CASE ckey[c] = "id" /\ ~(hasID[c] /\ connections[CloseKey(c)] # None)
  <2>1. cst[c] = None
    BY Zenon, <1>1, <1>4 DEF ClosesOwn
  <2>2. cpc'[c] = "find" /\ cst'[c] = None /\ ckey'[c] = "addr"
    BY Zenon, Parts, <1>4, <2>1 DEF Find, TypeOK, ClosingType
  <2>3. ClosesOwn(c)' /\ ~Removed(c)' /\ ~Removed(c)
    BY Zenon, <1>1, <2>1, <2>2 DEF ClosesOwn, Removed, Removing
  <2> QED BY Zenon, <1>1, <1>2, <2>2, <2>3, CloseQuiet DEF Removing
<1>5. CASE ckey[c] = "addr"
  <2>1. connections[CloseKey(c)] = None
    BY Zenon, LParts, <1>1, <1>5 DEF IDsOnly, CloseKey, Addr
  <2>2. cpc'[c] = "callbacks" /\ cst'[c] = cst[c] /\ ckey'[c] = "addr"
    BY Zenon, Parts, <1>5, <2>1 DEF Find, TypeOK, ClosingType
  <2>3. ClosesOwn(c)' /\ (Removed(c)' <=> Removed(c))
    BY Zenon, <1>1, <1>2, <2>2 DEF ClosesOwn, Removed, Removing
  <2> QED BY Zenon, <1>1, <1>2, <2>2, <2>3, CloseQuiet DEF Removing
<1> QED BY Zenon, <1>1, <1>3, <1>4, <1>5

\* Close shuts the connection, reports the quit and calls the components.
LEMMA ShutQuitLInv ==
    ASSUME IInv, LInv, NEW c \in Clients, Shut(c) \/ Quit(c) \/ Callbacks(c)
    PROVE  LInv'
<1> USE DEF CloseGoto
<1>0. ClosesOwn(c)
  BY Zenon, LParts DEF Closing
<1>1. ASSUME Shut(c) PROVE LInv'
  <2>1. /\ cpc[c] = "shut" /\ cpc'[c] = "delPeers" /\ \A d \in Clients \ {c} : cpc'[d] = cpc[d]
        /\ UNCHANGED <<maps, locks, threads, clients, ckey, cst, cli>>
    BY Zenon, Parts, <1>1 DEF Shut, TypeOK, ClosingType
  <2>2. ClosesOwn(c)' /\ (Removed(c)' <=> Removed(c))
    BY Zenon, <1>0, <2>1 DEF ClosesOwn, Removed
  <2> QED BY Zenon, <2>1, <2>2, CloseQuiet DEF Removing
<1>2. ASSUME Quit(c) PROVE LInv'
  <2>1. cpc[c] = "quit" /\ ckey[c] = "id" /\ cst[c] = c
    BY Zenon, <1>0, <1>2 DEF Quit, ClosesOwn
  <2>2. /\ cpc'[c] = "find" /\ ckey'[c] = "addr" /\ cst' = cst
        /\ \A d \in Clients \ {c} : cpc'[d] = cpc[d] /\ ckey'[d] = ckey[d] /\ connNil'[d] = connNil[d]
        /\ UNCHANGED <<maps, locks, threads, remote, hasID, cli>>
    BY Zenon, Parts, <1>2, <2>1 DEF Quit, TypeOK, ClosingType, ClientsType
  <2>3. ClosesOwn(c)' /\ (Removed(c)' <=> Removed(c))
    BY Zenon, <1>0, <2>1, <2>2 DEF ClosesOwn, Removed, Removing
  <2> QED BY Zenon, <2>1, <2>2, <2>3, CloseQuiet DEF Removing
<1>3. ASSUME Callbacks(c) PROVE LInv'
  <2>1. /\ cpc[c] = "callbacks" /\ cpc'[c] = "closed" /\ \A d \in Clients \ {c} : cpc'[d] = cpc[d]
        /\ UNCHANGED <<maps, locks, threads, clients, ckey, cst, cli>>
    BY Zenon, Parts, <1>3 DEF Callbacks, TypeOK, ClosingType
  <2>2. ClosesOwn(c)' /\ (Removed(c)' <=> Removed(c))
    BY Zenon, <1>0, <2>1 DEF ClosesOwn, Removed, Removing
  <2> QED BY Zenon, <2>1, <2>2, CloseQuiet DEF Removing
<1> QED BY Zenon, <1>1, <1>2, <1>3

\* The parts of the invariant that the deletions of Close leave alone.
LEMMA DeleteStep ==
    ASSUME IInv, LInv, NEW c \in Clients, cpc[c] \in {"delPeers"} \cup Removing,
           cpc'[c] \in Removing \cup {"quit"},
           \A d \in Clients \ {c} : cpc'[d] = cpc[d],
           UNCHANGED <<threads, clients, ckey, cst, cli>>,
           \A k \in Key : k # ID(remote[c]) =>
             /\ peers'[k] = peers[k] /\ connections'[k] = connections[k]
             /\ streams'[k] = streams[k] /\ connStates'[k] = connStates[k]
    PROVE  /\ IDsOnly' /\ Making' /\ Closing' /\ Created' = Created
           /\ \A d \in Clients : Stored(d)' <=> Stored(d)
           /\ \A d \in Clients \ {c} : Removed(d)' <=> Removed(d)
           /\ Removed(c)' /\ CloseKey(c) = ID(remote[c])
           /\ remote[c] \in Remotes /\ ID(remote[c]) \in Key
<1>0. Created' = Created
  BY ZenonT(30) DEF Created
<1>1. remote[c] \in Remotes /\ ID(remote[c]) \in Key /\ \A r \in Remotes : Addr(r) \in Key /\ ID(remote[c]) # Addr(r)
  <2>1. cpc[c] # "open"
    BY Zenon DEF Removing
  <2>2. c \in Created
    BY Zenon, Parts, <2>1 DEF CreatedInv
  <2>3. remote[c] \in Remotes
    BY Zenon, <2>2 DEF Created
  <2> QED BY Zenon, <2>3, IDKeys
<1>2. ckey[c] = "id" /\ cst[c] = c
  BY Zenon, LParts DEF Closing, ClosesOwn
<1>3. IDsOnly'
  <2>1. \A r \in Remotes : /\ peers'[Addr(r)] = peers[Addr(r)] /\ connections'[Addr(r)] = connections[Addr(r)]
                           /\ streams'[Addr(r)] = streams[Addr(r)] /\ connStates'[Addr(r)] = connStates[Addr(r)]
    BY Zenon, <1>1
  <2> QED BY Zenon, LParts, <2>1 DEF IDsOnly
<1>4. Making'
  BY Zenon, LParts, <1>0 DEF Making
<1>5. Closing'
  <2>1. ASSUME NEW d \in Clients \ {c} PROVE ClosesOwn(d)'
    BY ZenonT(30), LParts, <2>1 DEF Closing, ClosesOwn
  <2>2. ClosesOwn(c)
    BY Zenon, LParts DEF Closing
  <2>3. ClosesOwn(c)'
    BY Zenon, <1>2, <2>2 DEF ClosesOwn, Removing
  <2> QED BY Zenon, <2>1, <2>3 DEF Closing
<1>6. /\ \A d \in Clients : Stored(d)' <=> Stored(d)
      /\ \A d \in Clients \ {c} : Removed(d)' <=> Removed(d)
  BY Zenon, <1>0 DEF Stored, Removed
<1>7. Removed(c)' /\ CloseKey(c) = ID(remote[c])
  BY Zenon, <1>2 DEF Removed, Removing, CloseKey, ID
<1> QED BY Zenon, <1>0, <1>1, <1>3, <1>4, <1>5, <1>6, <1>7

\* The first deletion takes ConnMgr.Mutex.
LEMMA DeletePeersLInv ==
    ASSUME IInv, LInv, NEW c \in Clients, DeletePeers(c)
    PROVE  LInv'
<1> DEFINE k == ID(remote[c])
<1>1. /\ cpc[c] = "delPeers" /\ connMutex = None /\ connMutex' = c
      /\ peers' = [peers EXCEPT ![CloseKey(c)] = None]
      /\ UNCHANGED <<connections, streams, connStates, threads, clients, ckey, cst, cli>>
  BY Zenon DEF DeletePeers
<1>2. cpc'[c] = "delConns" /\ \A d \in Clients \ {c} : cpc'[d] = cpc[d]
  BY Zenon, Parts DEF DeletePeers, CloseGoto, TypeOK, ClosingType
<1>3. CloseKey(c) = k /\ k \in Key /\ ckey[c] = "id" /\ cst[c] = c /\ hasID[c] /\ c \in Created
  BY Zenon, LParts, Parts, IDKeys, <1>1 DEF Closing, ClosesOwn, CloseKey, ID, CreatedInv, Created
<1>4. peers'[k] = None /\ \A l \in Key : l # k => peers'[l] = peers[l]
  BY Zenon, Parts, <1>1, <1>3 DEF TypeOK, MapsType
<1>5. /\ IDsOnly' /\ Making' /\ Closing' /\ Created' = Created
      /\ \A d \in Clients : Stored(d)' <=> Stored(d)
      /\ \A d \in Clients \ {c} : Removed(d)' <=> Removed(d)
      /\ Removed(c)'
  BY Zenon, <1>1, <1>2, <1>4, DeleteStep DEF Removing
<1>6. /\ \A t \in Threads : pc[t] \notin Registering
      /\ \A d \in Clients : cpc[d] \notin Removing
  BY Zenon, <1>1, HolderAlone
<1>7. peers[k] = c /\ connections[k] = c /\ streams[k] = c
  BY Zenon, <1>1, <1>3, OwnEntries DEF Removed
<1>8. Holds'
  BY Zenon, <1>1, <1>2, <1>6 DEF Holds
<1>9. Settled'
  <2>1. ASSUME NEW r \in Remotes, ID(r) # k, ID(r) \in Key
        PROVE  /\ connections'[ID(r)] = peers'[ID(r)] /\ streams'[ID(r)] = peers'[ID(r)]
               /\ peers'[ID(r)] # None => connStates'[ID(r)] = "REACHABLE"
    <3>1. ~Busy(ID(r))
      BY Zenon, <1>6 DEF Busy
    <3> QED BY Zenon, LParts, <1>1, <1>4, <2>1, <3>1 DEF Settled
  <2>2. Busy(k)'
    BY ZenonT(30), <1>1, <1>2 DEF Busy, Removing
  <2> QED BY Zenon, IDKeys, <1>1, <2>1, <2>2 DEF Settled
<1>10. Stages'
  <2>1. ASSUME NEW t \in Threads, pc[t] = "lock" PROVE peers'[key[t]] = None
    <3>1. key[t] \in Key
      BY Zenon, <2>1, Hand DEF GetOrSetPC
    <3>2. peers[key[t]] = None
      BY Zenon, LParts, <2>1 DEF Stages, Stage, Removal
    <3> QED BY Zenon, <1>4, <3>1, <3>2
  <2>2. \A d \in Clients \ {c} : cpc'[d] \notin Removing
    BY Zenon, <1>2, <1>6
  <2>3. ASSUME NEW t \in Threads PROVE Stage(t)'
    <3>1. pc'[t] = pc[t] /\ key'[t] = key[t] /\ pc[t] \notin Registering
      BY Zenon, <1>1, <1>6, <2>3 DEF threads
    <3>2. pc[t] = "lock" => peers'[key[t]] = None
      BY Zenon, <2>1, <2>3
    <3> QED BY ONLY <3>1, <3>2 DEF Stage, Registering
  <2>4. ASSUME NEW d \in Clients PROVE Removal(d)'
    <3>1. CASE d = c
      <4>1. connections' = connections /\ streams' = streams /\ remote'[c] = remote[c]
        BY Zenon, <1>1 DEF clients
      <4> QED BY ONLY <1>2, <1>4, <1>7, <3>1, <4>1 DEF Removal
    <3>2. CASE d # c
      <4>1. cpc'[d] \notin Removing
        BY Zenon, <2>2, <2>4, <3>2
      <4> QED BY ONLY <4>1 DEF Removal, Removing
    <3> QED BY Zenon, <3>1, <3>2
  <2> QED BY Zenon, <2>3, <2>4 DEF Stages
<1>11. Registered'
  <2>1. ASSUME NEW r \in Remotes, peers'[ID(r)] # None PROVE remote'[peers'[ID(r)]] = r
    BY Zenon, LParts, IDKeys, <1>1, <1>4, <2>1 DEF Registered
  <2>2. ASSUME NEW d \in Clients, Stored(d)
        PROVE  peers'[ID(remote'[d])] = d <=> ~Removed(d)'
    <3>1. d # None /\ ID(remote[d]) \in Key
      BY Zenon, <2>2, IDKeys, ConnAssumption DEF Stored, Created
    <3>2. CASE d = c
      BY Zenon, <1>1, <1>4, <1>5, <3>1, <3>2
    <3>3. CASE d # c
      BY Zenon, LParts, <1>1, <1>4, <1>5, <1>7, <2>2, <3>1, <3>3 DEF Registered
    <3> QED BY Zenon, <3>2, <3>3
  <2> QED BY Zenon, <1>5, <2>1, <2>2 DEF Registered
<1> QED BY Zenon, <1>5, <1>8, <1>9, <1>10, <1>11, LWhole

\* The other deletions, under the mutex, and its release.
LEMMA DeleteRestLInv ==
    ASSUME IInv, LInv, NEW c \in Clients, DeleteConns(c) \/ DeleteStreams(c) \/ SetUnreachable(c)
    PROVE  LInv'
<1> DEFINE k == ID(remote[c])
<1>0. cpc[c] \in Removing /\ UNCHANGED <<peers, threads, clients, ckey, cst, cli>>
  BY Zenon DEF Removing, DeleteConns, DeleteStreams, SetUnreachable
<1>1. CloseKey(c) = k /\ k \in Key
  BY Zenon, LParts, Parts, IDKeys, <1>0 DEF Closing, ClosesOwn, CloseKey, ID, CreatedInv, Created, Removing
<1>2. \/ /\ cpc[c] = "delConns" /\ cpc'[c] = "delStreams" /\ connections'[k] = None
         /\ UNCHANGED <<connMutex, streams, connStates>>
      \/ /\ cpc[c] = "delStreams" /\ cpc'[c] = "delStates" /\ streams'[k] = None
         /\ UNCHANGED <<connMutex, connections, connStates>>
      \/ /\ cpc[c] = "delStates" /\ cpc'[c] = "quit" /\ connMutex' = None
         /\ UNCHANGED <<connections, streams>>
  BY Zenon, Parts, <1>1 DEF DeleteConns, DeleteStreams, SetUnreachable, CloseGoto, TypeOK, MapsType, ClosingType
<1>3. /\ \A d \in Clients \ {c} : cpc'[d] = cpc[d]
      /\ \A l \in Key : l # k => /\ connections'[l] = connections[l] /\ streams'[l] = streams[l]
                                 /\ connStates'[l] = connStates[l]
  BY Zenon, Parts, <1>1 DEF DeleteConns, DeleteStreams, SetUnreachable, CloseGoto, TypeOK, MapsType, ClosingType
<1>4. /\ IDsOnly' /\ Making' /\ Closing' /\ Created' = Created
      /\ \A d \in Clients : Stored(d)' <=> Stored(d)
      /\ \A d \in Clients \ {c} : Removed(d)' <=> Removed(d)
      /\ Removed(c)'
  BY Zenon, <1>0, <1>2, <1>3, DeleteStep DEF Removing
<1>5. /\ \A t \in Threads : pc[t] \notin Registering
      /\ \A d \in Clients \ {c} : cpc'[d] \notin Removing
  BY Zenon, <1>0, <1>3, HolderAlone
<1>6. /\ peers[k] = None /\ (cpc[c] \in {"delStreams", "delStates"} => connections[k] = None)
      /\ (cpc[c] = "delConns" => streams[k] = c) /\ (cpc[c] = "delStates" => streams[k] = None)
  BY Zenon, LParts, <1>0 DEF Stages, Stage, Removal
<1>7. Holds'
  BY Zenon, LParts, <1>0, <1>2, <1>5 DEF Holds, Removing
<1>8. Settled'
  <2>1. ASSUME NEW r \in Remotes, ID(r) # k, ID(r) \in Key
        PROVE  /\ connections'[ID(r)] = peers'[ID(r)] /\ streams'[ID(r)] = peers'[ID(r)]
               /\ peers'[ID(r)] # None => connStates'[ID(r)] = "REACHABLE"
    <3>1. ~Busy(ID(r))
      BY Zenon, <1>0, <1>3, <1>5, <2>1 DEF Busy
    <3> QED BY Zenon, LParts, <1>0, <1>3, <2>1, <3>1 DEF Settled
  <2>2. Busy(k)' \/ (connections'[k] = None /\ streams'[k] = None /\ peers'[k] = None)
    BY Zenon, <1>0, <1>2, <1>6 DEF Busy, Removing
  <2> QED BY Zenon, IDKeys, <1>0, <2>1, <2>2 DEF Settled
<1>9. Stages'
  <2>1. ASSUME NEW t \in Threads PROVE pc'[t] \notin Registering /\ (pc'[t] = "lock" => peers'[key'[t]] = None)
    BY Zenon, LParts, <1>0, <1>5 DEF Stages, Stage, Removal
  <2>2. /\ cpc'[c] # "delConns" /\ peers'[k] = None
        /\ (cpc'[c] \in {"delStreams", "delStates"} => connections'[k] = None)
        /\ (cpc'[c] = "delStreams" => streams'[k] = c) /\ (cpc'[c] = "delStates" => streams'[k] = None)
    BY Zenon, <1>0, <1>2, <1>6
  <2> QED BY Zenon, <1>0, <1>5, <2>1, <2>2 DEF Stages, Stage, Removal, Registering, Removing
<1>10. Registered'
  <2>1. Removed(c) <=> Removed(c)'
    BY Zenon, LParts, <1>0, <1>4 DEF Removed, Removing, Closing, ClosesOwn
  <2> QED BY Zenon, LParts, <1>0, <1>4, <2>1 DEF Registered
<1> QED BY Zenon, <1>4, <1>7, <1>8, <1>9, <1>10, LWhole
-----------------------------------------------------------------------------
(* The creation of a client. *)

\* The parts of the invariant that a creation leaves alone.
LEMMA MakeStep ==
    ASSUME IInv, LInv, NEW t \in Threads, NEW p \in Registering \cup {"ready"},
           key[t] \in IDs, t \in Socks, Others(t), pc'[t] = p, key'[t] = key[t],
           UNCHANGED <<hasID, connNil, cpc, ckey, cst, cli>>,
           \A k \in Key : k # key[t] =>
             /\ peers'[k] = peers[k] /\ connections'[k] = connections[k]
             /\ streams'[k] = streams[k] /\ connStates'[k] = connStates[k]
    PROVE  /\ IDsOnly' /\ Closing'
           /\ \A d \in Clients : Removed(d)' <=> Removed(d)
<1>1. IDsOnly'
  <2>1. \A r \in Remotes : Addr(r) \in Key /\ key[t] # Addr(r)
    BY IDKeys DEF IDs
  <2>2. \A r \in Remotes : /\ peers'[Addr(r)] = peers[Addr(r)] /\ connections'[Addr(r)] = connections[Addr(r)]
                           /\ streams'[Addr(r)] = streams[Addr(r)] /\ connStates'[Addr(r)] = connStates[Addr(r)]
    BY Zenon, <2>1
  <2>3. p \notin Foreign
    BY Zenon DEF Registering, Foreign, ResetPC
  <2> QED BY Zenon, LParts, <2>2, <2>3 DEF IDsOnly, Others
<1>2. Closing'
  BY Zenon, LParts DEF Closing, ClosesOwn
<1>3. \A d \in Clients : Removed(d)' <=> Removed(d)
  BY Zenon DEF Removed
<1> QED BY Zenon, <1>1, <1>2, <1>3

\* The creator of a client takes ConnMgr.Mutex.
LEMMA LockConnLInv ==
    ASSUME IInv, LInv, OnlyListens, NEW t \in Threads, LockConn(t)
    PROVE  LInv'
<1>0. /\ pc[t] = "lock" /\ connMutex = None /\ connMutex' = t
      /\ UNCHANGED <<maps, key, connNil, hasID, closing, sockets>>
  BY Zenon DEF LockConn
<1>1. t \in Socks /\ key[t] \in IDs /\ key[t] \in Key /\ key[t][1] \in Remotes /\ key[t] = ID(key[t][1])
  BY Zenon, <1>0, Hand, IDKeys DEF GetOrSetPC
<1>2. PICK c \in Uncreated :
        /\ remote' = [remote EXCEPT ![c] = key[t][1]]
        /\ cl' = [cl EXCEPT ![t] = c]
        /\ Goto(t, "init")
  BY Zenon, <1>1 DEF LockConn, OnlyListens
<1>3. c \in Clients /\ c \notin Created /\ remote'[c] = key[t][1] /\ \A d \in Clients \ {c} : remote'[d] = remote[d]
  BY Zenon, Parts, <1>2, ConnAssumption DEF Uncreated, Created, TypeOK, ClientsType
<1>4. Others(t) /\ pc'[t] = "init" /\ key'[t] = key[t] /\ cl'[t] = c
  BY Zenon, Parts, <1>0, <1>2 DEF Goto, Others, TypeOK, ThreadsType
<1>5. cpc[c] = "open" /\ ~hasID[c] /\ cst[c] = None /\ c # None
  BY Zenon, Parts, LParts, <1>3, ConnAssumption DEF CreatedInv, Making, Closing, ClosesOwn
<1>6. IDsOnly' /\ Closing' /\ \A d \in Clients : Removed(d)' <=> Removed(d)
  BY Zenon, <1>0, <1>1, <1>4, MakeStep DEF Registering
<1>7. /\ \A u \in Threads : pc[u] \notin Registering
      /\ \A d \in Clients : cpc[d] \notin Removing
      /\ \A u \in Threads \ {t} : pc[u] \notin Registering \cup {"ready", "lock"}
  BY Zenon, <1>0, HolderAlone, Alone DEF CriticalPC, GetOrSetPC
<1>8. peers[key[t]] = None /\ connections[key[t]] = None /\ streams[key[t]] = None
  <2>1. peers[key[t]] = None
    BY Zenon, LParts, <1>0 DEF Stages, Stage, Removal
  <2>2. PICK r \in Remotes : key[t] = ID(r)
    BY Zenon, <1>1
  <2>3. ~Busy(ID(r))
    BY Zenon, <1>7 DEF Busy
  <2>4. connections[ID(r)] = peers[ID(r)] /\ streams[ID(r)] = peers[ID(r)]
    BY Zenon, LParts, <2>3 DEF Settled
  <2> QED BY Zenon, <2>1, <2>2, <2>4
<1>9. Holds'
  BY Zenon, <1>0, <1>4, <1>7 DEF Holds, Others
<1>10. Making'
  <2>1. ASSUME NEW u \in Threads, pc'[u] \in {"got", "dispatch"} PROVE cl'[u] # c
    BY <1>3, <1>4, <2>1, Local DEF Others, Knows
  <2>2. ASSUME NEW u \in Threads, pc'[u] \in Registering \cup {"ready"} PROVE u = t
    BY Zenon, <1>4, <1>7, <2>2 DEF Others
  <2>3. key'[t] = ID(remote'[cl'[t]]) /\ ~hasID'[cl'[t]]
    BY Zenon, <1>0, <1>1, <1>3, <1>4, <1>5
  <2>4. \A d \in Clients : hasID'[d] => d \in Created'
    BY Zenon, LParts, <1>0, <1>3, <1>5 DEF Making, Created
  <2>5. ASSUME NEW u \in Threads, pc'[u] \in Registering \cup {"ready"}
        PROVE  /\ key'[u] = ID(remote'[cl'[u]]) /\ ~hasID'[cl'[u]]
               /\ \A v \in Threads : pc'[v] \in {"got", "dispatch"} => cl'[v] # cl'[u]
    BY Zenon, <1>4, <2>1, <2>2, <2>3, <2>5
  <2> QED BY Zenon, <2>4, <2>5 DEF Making
<1>11. Settled'
  <2>1. ASSUME NEW r \in Remotes
        PROVE  /\ connections'[ID(r)] = peers'[ID(r)] /\ streams'[ID(r)] = peers'[ID(r)]
               /\ peers'[ID(r)] # None => connStates'[ID(r)] = "REACHABLE"
    <3>1. ~Busy(ID(r))
      BY Zenon, <1>7 DEF Busy
    <3> QED BY ZenonT(30), LParts, <1>0, <2>1, <3>1 DEF Settled
  <2> QED BY Zenon, <2>1 DEF Settled
<1>12. Stages'
  <2>1. \A d \in Clients : cpc'[d] \notin Removing
    BY Zenon, <1>0, <1>7
  <2>2. \A u \in Threads \ {t} : pc'[u] \notin Registering \cup {"lock"}
    BY Zenon, <1>4, <1>7 DEF Others
  <2> QED BY <1>0, <1>4, <1>8, <2>1, <2>2 DEF Stages, Stage, Removal, Registering, Removing
<1>13. Registered'
  <2>1. ASSUME NEW r \in Remotes, peers'[ID(r)] # None PROVE remote'[peers'[ID(r)]] = r
    <3>1. peers[ID(r)] \in Created
      BY Zenon, Parts, IDKeys, <1>0, <2>1 DEF CreatedInv
    <3> QED BY Zenon, LParts, <1>0, <1>3, <2>1, <3>1 DEF Registered, Created
  <2>2. ASSUME NEW d \in Clients, Stored(d)' PROVE d # c /\ Stored(d)
    <3>1. d # c
      BY Zenon, <1>4, <2>2 DEF Stored
    <3>2. d \in Created
      BY Zenon, <1>3, <2>2, <3>1 DEF Stored, Created
    <3> QED BY Zenon, <1>7, <3>1, <3>2 DEF Stored, Registering
  <2>3. ASSUME NEW d \in Clients, Stored(d)' PROVE (peers[ID(remote[d])] = d)' <=> ~Removed(d)'
    BY Zenon, LParts, <1>0, <1>3, <1>6, <2>2, <2>3 DEF Registered
  <2> QED BY Zenon, <2>1, <2>3 DEF Registered
<1> QED BY Zenon, <1>6, <1>9, <1>10, <1>11, <1>12, <1>13, LWhole

\* The steps from the first map to the end of client.Init.
LEMMA CreateLInv ==
    ASSUME IInv, LInv, NEW t \in Threads, InitConnection(t) \/ Store(t) \/ Publish(t)
    PROVE  LInv'
<1> DEFINE k == key[t]
           c == cl[t]
<1>0. pc[t] \in Registering /\ UNCHANGED <<key, cl, remote, hasID, connNil, closing, sockets>>
  BY Zenon DEF InitConnection, Store, Publish, Registering
<1>1. /\ t \in Socks /\ k \in IDs /\ k \in Key
      /\ c \in Created /\ c \in Clients /\ c # None /\ k = ID(remote[c]) /\ ~hasID[c] /\ cst[c] = None
  <2>1. t \in Socks /\ k \in IDs /\ k \in Key
    BY Zenon, <1>0, Hand DEF GetOrSetPC, Registering
  <2>2. c \in Created /\ c \in Clients /\ c # None
    BY Zenon, <1>0, Local, ConnAssumption DEF Knows, CreatingPC, Registering, Created
  <2>3. k = ID(remote[c]) /\ ~hasID[c]
    BY Zenon, LParts, <1>0 DEF Making
  <2>4. cst[c] = None
    BY Zenon, LParts, <2>2, <2>3 DEF Closing, ClosesOwn
  <2> QED BY Zenon, <2>1, <2>2, <2>3, <2>4
<1>2. PICK p \in {"store", "connect", "ready"} : Goto(t, p)
  BY Zenon DEF InitConnection, Store, Publish
<1>3. Others(t) /\ pc'[t] = p /\ key'[t] = k /\ cl'[t] = c
  BY Zenon, Parts, <1>0, <1>2 DEF Goto, Others, TypeOK, ThreadsType
<1>4. \/ /\ pc[t] = "init" /\ p = "store" /\ connections'[k] = c
         /\ UNCHANGED <<connMutex, peers, streams, connStates>>
      \/ /\ pc[t] = "store" /\ p = "connect" /\ peers'[k] = c /\ streams'[k] = c
         /\ UNCHANGED <<connMutex, connections, connStates>>
      \/ /\ pc[t] = "connect" /\ p = "ready" /\ connMutex' = None /\ connStates'[k] = "REACHABLE"
         /\ UNCHANGED <<peers, connections, streams>>
  <2>1. ASSUME InitConnection(t)
        PROVE  /\ pc[t] = "init" /\ p = "store" /\ connections'[k] = c
               /\ UNCHANGED <<connMutex, peers, streams, connStates>>
    BY Zenon, Parts, <1>1, <1>3, <2>1 DEF InitConnection, Goto, TypeOK, MapsType, ThreadsType
  <2>2. ASSUME Store(t)
        PROVE  /\ pc[t] = "store" /\ p = "connect" /\ peers'[k] = c /\ streams'[k] = c
               /\ UNCHANGED <<connMutex, connections, connStates>>
    BY Zenon, Parts, <1>1, <1>3, <2>2 DEF Store, Goto, TypeOK, MapsType, ThreadsType
  <2>3. ASSUME Publish(t)
        PROVE  /\ pc[t] = "connect" /\ p = "ready" /\ connMutex' = None /\ connStates'[k] = "REACHABLE"
               /\ UNCHANGED <<peers, connections, streams>>
    BY Zenon, Parts, <1>1, <1>3, <2>3 DEF Publish, Goto, TypeOK, MapsType, ThreadsType
  <2> QED BY Zenon, <2>1, <2>2, <2>3
<1>5. \A l \in Key : l # k =>
        /\ peers'[l] = peers[l] /\ connections'[l] = connections[l]
        /\ streams'[l] = streams[l] /\ connStates'[l] = connStates[l]
  BY Zenon, Parts DEF InitConnection, Store, Publish, TypeOK, MapsType
<1>6. IDsOnly' /\ Closing' /\ \A d \in Clients : Removed(d)' <=> Removed(d)
  BY Zenon, <1>0, <1>1, <1>3, <1>5, MakeStep DEF Registering
<1>7. /\ \A d \in Clients : cpc'[d] \notin Removing
      /\ \A u \in Threads \ {t} : pc[u] \notin Registering \cup {"ready", "lock"}
  BY Zenon, <1>0, HolderAlone, Alone DEF CriticalPC, GetOrSetPC, Registering
<1>8. \A u \in Threads \ {t} : pc'[u] \notin Registering \cup {"ready", "lock"}
  BY Zenon, <1>3, <1>7 DEF Others
<1>9. /\ pc[t] \in {"init", "store"} => peers[k] = None /\ streams[k] = None
      /\ pc[t] \in {"store", "connect"} => connections[k] = c
      /\ pc[t] = "connect" => peers[k] = c /\ streams[k] = c
  BY Zenon, LParts DEF Stages, Stage, Removal
<1>10. Holds'
  BY Zenon, LParts, <1>0, <1>3, <1>4, <1>7, <1>8 DEF Holds, Registering
<1>11. Making'
  <2>1. ASSUME NEW u \in Threads, pc'[u] \in {"got", "dispatch"} PROVE cl'[u] # c
    <3>1. u # t
      BY Zenon, <1>3, <2>1
    <3>2. pc[u] = pc'[u] /\ cl[u] = cl'[u]
      BY Zenon, <1>3, <3>1 DEF Others
    <3> QED BY Zenon, LParts, <1>0, <2>1, <3>2 DEF Making
  <2>2. ASSUME NEW u \in Threads, pc'[u] \in Registering \cup {"ready"}
        PROVE  /\ key'[u] = ID(remote'[cl'[u]]) /\ ~hasID'[cl'[u]]
               /\ \A v \in Threads : pc'[v] \in {"got", "dispatch"} => cl'[v] # cl'[u]
    <3>1. u = t
      BY Zenon, <1>8, <2>2
    <3> QED BY Zenon, <1>0, <1>1, <1>3, <2>1, <3>1
  <2>3. \A d \in Clients : hasID'[d] => d \in Created'
    BY Zenon, LParts, <1>0 DEF Making, Created
  <2> QED BY Zenon, <2>2, <2>3 DEF Making
<1>12. Settled'
  <2>1. ASSUME NEW r \in Remotes, ID(r) # k, ID(r) \in Key
        PROVE  /\ connections'[ID(r)] = peers'[ID(r)] /\ streams'[ID(r)] = peers'[ID(r)]
               /\ peers'[ID(r)] # None => connStates'[ID(r)] = "REACHABLE"
    <3>1. ~Busy(ID(r))
      BY Zenon, <1>0, <1>7, <2>1 DEF Busy
    <3> QED BY Zenon, LParts, <1>5, <2>1, <3>1 DEF Settled
  <2>2. \/ Busy(k)'
        \/ connections'[k] = c /\ streams'[k] = c /\ peers'[k] = c /\ connStates'[k] = "REACHABLE"
    <3>1. CASE p = "ready"
      BY Zenon, <1>4, <1>9, <3>1
    <3>2. CASE p # "ready"
      BY Zenon, <1>3, <3>2 DEF Busy, Registering
    <3> QED BY Zenon, <3>1, <3>2
  <2> QED BY Zenon, IDKeys, <1>0, <2>1, <2>2 DEF Settled
<1>13. Stages'
  <2>1. /\ p = "store" => peers'[k] = None /\ streams'[k] = None /\ connections'[k] = c
        /\ p = "connect" => peers'[k] = c /\ streams'[k] = c /\ connections'[k] = c
    BY Zenon, <1>4, <1>9
  <2> QED BY Zenon, <1>3, <1>7, <1>8, <2>1 DEF Stages, Stage, Removal, Registering, Removing
<1>14. Registered'
  <2>1. ASSUME NEW r \in Remotes, peers'[ID(r)] # None PROVE remote'[peers'[ID(r)]] = r
    <3>1. CASE ID(r) = k
      <4>1. peers'[k] = c
        BY Zenon, <1>4, <1>9, <2>1, <3>1
      <4>2. r = remote[c]
        BY Zenon, <1>1, <3>1, IDOnce
      <4> QED BY Zenon, <1>0, <3>1, <4>1, <4>2
    <3>2. CASE ID(r) # k
      BY ZenonT(30), LParts, IDKeys, <1>0, <1>5, <2>1, <3>2 DEF Registered
    <3> QED BY Zenon, <3>1, <3>2
  <2>2. ~Removed(c) /\ \A d \in Clients : Stored(d)' => d \in Created
    BY Zenon, <1>0, <1>1 DEF Removed, Stored, Created
  <2>3. ASSUME NEW d \in Clients \ {c}, Stored(d)' PROVE Stored(d)
    BY Zenon, <1>0, <1>7, <2>2, <2>3 DEF Stored, Registering
  <2>4. Stored(c)' => peers'[k] = c
    BY Zenon, <1>3, <1>4, <1>9 DEF Stored
  <2>5. ASSUME NEW d \in Clients \ {c}, Stored(d)' PROVE (peers[ID(remote[d])] = d)' <=> ~Removed(d)'
    <3>1. ID(remote[d]) \in Key /\ d # None
      BY Zenon, <2>2, <2>5, IDKeys, ConnAssumption DEF Created
    <3>2. peers[ID(remote[d])] = d <=> ~Removed(d)
      BY Zenon, LParts, <2>3, <2>5 DEF Registered
    <3>3. peers'[ID(remote[d])] = d <=> peers[ID(remote[d])] = d
      BY Zenon, <1>4, <1>5, <1>9, <3>1
    <3> QED BY Zenon, <1>0, <1>6, <3>2, <3>3
  <2>6. ASSUME NEW d \in Clients, Stored(d)' PROVE (peers[ID(remote[d])] = d)' <=> ~Removed(d)'
    <3>1. CASE d = c
      BY Zenon, <1>0, <1>1, <1>6, <2>2, <2>4, <2>6, <3>1 DEF Stored, Removed
    <3> QED BY Zenon, <2>5, <2>6, <3>1
  <2> QED BY Zenon, <2>1, <2>6 DEF Registered
<1> QED BY Zenon, <1>6, <1>10, <1>11, <1>12, <1>13, <1>14, LWhole
-----------------------------------------------------------------------------
\* No client, no connection, all mutexes free.
LEMMA InitLInv == Init => LInv
<1> SUFFICES ASSUME Init PROVE LInv
  OBVIOUS
<1>1. IDsOnly
  BY Zenon, IDKeys DEF Init, IDsOnly, Foreign, GetOrSetPC, ResetPC
<1>2. Holds /\ Making /\ Stages
  BY Zenon DEF Init, Holds, Making, Stages, Stage, Removal, Registering, Removing
<1>3. Settled
  BY Zenon, IDKeys DEF Init, Settled
<1>4. Closing
  BY Zenon, ConnAssumption DEF Init, Closing, ClosesOwn, Removing
<1>5. Registered
  BY Zenon, IDKeys, ConnAssumption DEF Init, Registered, Stored, Created
<1> QED BY Zenon, <1>1, <1>2, <1>3, <1>4, <1>5 DEF LInv

\* Every step of a node that only listens keeps the invariant.
LEMMA NextLInv ==
    ASSUME OnlyListens
    PROVE  IInv /\ LInv /\ [Next]_vars => LInv'
<1> SUFFICES ASSUME IInv, LInv, [Next]_vars PROVE LInv'
  OBVIOUS
<1>1. ASSUME NEW t \in Threads, GetOrSet(t) PROVE LInv'
  <2>1. pc[t] \notin Foreign
    BY Zenon, Hand
  <2>2. ~(ResetConns(t) \/ ResetStates(t) \/ ResetStreams(t))
    BY Zenon, <2>1 DEF Foreign, ResetPC, ResetConns, ResetStates, ResetStreams
  <2>3. ~(Dial(t) \/ DialError(t))
    BY Zenon, <2>1 DEF Foreign, Dial, DialError
  <2> QED BY Zenon, <1>1, <2>2, <2>3, CallLInv, LockConnLInv, CreateLInv DEF GetOrSet
<1>2. ASSUME NEW s \in Socks, Accept(s) \/ \E r \in Remotes : Listen(s, r) PROVE LInv'
  BY Zenon, <1>2, AcceptLInv, SetIDLInv DEF Accept
<1>3. ASSUME NEW c \in Clients, Close(c) PROVE LInv'
  BY Zenon, <1>3, FindLInv, ShutQuitLInv, DeletePeersLInv, DeleteRestLInv DEF Close
<1>4. ASSUME NEW c \in Clients, Disconnect(c) PROVE LInv'
  <2>1. /\ UNCHANGED <<maps, connMutex, threads, remote, hasID, connNil, ckey, cst, cli>>
        /\ \A d \in Clients : cpc'[d] = cpc[d] \/ (cpc[d] = "open" /\ cpc'[d] = "find")
    BY Zenon, Parts, <1>4 DEF Disconnect, BeginClose, TypeOK, ClosingType
  <2> QED BY Zenon, <2>1, Quiet DEF Same
<1>5. CASE ReadQuitNode \/ UNCHANGED vars
  <2>1. UNCHANGED <<maps, connMutex, threads, remote, hasID, connNil, cpc, ckey, cst, cli>>
    BY Zenon, <1>5 DEF ReadQuitNode, vars
  <2> QED BY Zenon, <2>1, Quiet DEF Same
<1> QED BY Zenon, <1>1, <1>2, <1>3, <1>4, <1>5, CallerLInv, WriterLInv DEF Next, OnlyListens

\* LInv is an invariant of a node that is only dialled: every entry of the four
\* maps fits the position of the goroutine or the Close that works on it.
THEOREM Listening ==
    ASSUME OnlyListens
    PROVE  Spec => []LInv
  BY InitLInv, NextLInv, Inductive, PTL DEF Spec

\* RemoveEntries of such a node closes the connection of its own client, and
\* never meets a nil conn, whoever else closes, creates or writes meanwhile.
THEOREM ClosesOwnConnection ==
    ASSUME OnlyListens
    PROVE  Spec => []ShutsOwnConn
<1>1. LInv => ShutsOwnConn
  BY Zenon, LParts DEF ShutsOwnConn, Closing, ClosesOwn
<1> QED BY <1>1, Listening, PTL

\* A Close that found its connection leaves no entry of its client behind, and
\* no creation brings one back.
THEOREM ClosedIsGone ==
    ASSUME OnlyListens
    PROVE  Spec => []CloseRemoves
<1>1. IInv /\ LInv => CloseRemoves
  <2> SUFFICES ASSUME IInv, LInv, NEW c \in Clients, cst[c] = c, cpc[c] \in {"quit", "callbacks", "closed"},
                      NEW k \in Key, peers[k] = c
               PROVE  FALSE
    BY Zenon DEF CloseRemoves
  <2>0. hasID[c]
    BY Zenon, LParts DEF Closing, ClosesOwn
  <2>1. c \in Created /\ c # None /\ hasID[c] /\ Removed(c)
    BY Zenon, LParts, <2>0, ConnAssumption DEF Making, Removed
  <2>2. Stored(c)
    BY Zenon, LParts, <2>1 DEF Stored, Making, Registering
  <2>3. PICK r \in Remotes : k = ID(r)
    <3>1. ASSUME NEW r \in Remotes, k = Addr(r) PROVE FALSE
      BY Zenon, LParts, <2>1, <3>1 DEF IDsOnly
    <3> QED BY Zenon, IDKeys, <3>1 DEF IDs
  <2>4. r = remote[c]
    BY Zenon, LParts, <2>1, <2>3 DEF Registered
  <2> QED BY Zenon, LParts, <2>1, <2>2, <2>3, <2>4 DEF Registered
<1> QED BY <1>1, Listening, Inductive, PTL

\* Whenever both mutexes are free the four maps of ConnMgr name the same clients
\* and GetRealConnState tells the registered peers.
THEOREM MapsInStep ==
    ASSUME OnlyListens
    PROVE  Spec => []MapsAgree
<1>1. IInv /\ LInv => MapsAgree
  <2> SUFFICES ASSUME IInv, LInv, Idle, NEW k \in Key
               PROVE  /\ connections[k] = peers[k] /\ streams[k] = peers[k]
                      /\ GetRealConnState(k) = "REACHABLE" <=> peers[k] # None
    BY Zenon DEF MapsAgree
  <2>1. CASE k \in IDs
    <3>1. PICK r \in Remotes : k = ID(r)
      BY Zenon, <2>1 DEF IDs
    <3>2. ~Busy(k)
      BY Zenon, HolderAlone DEF Idle, Busy
    <3>3. /\ connections[k] = peers[k] /\ streams[k] = peers[k]
          /\ peers[k] # None => connStates[k] = "REACHABLE"
      BY Zenon, LParts, <3>1, <3>2 DEF Settled
    <3> QED BY Zenon, <3>3 DEF GetRealConnState
  <2>2. CASE k \notin IDs
    <3>1. PICK r \in Remotes : k = Addr(r)
      BY Zenon, IDKeys, <2>2
    <3>2. peers[k] = None /\ connections[k] = None /\ streams[k] = None
      BY Zenon, LParts, <3>1 DEF IDsOnly
    <3> QED BY Zenon, <3>2 DEF GetRealConnState
  <2> QED BY Zenon, <2>1, <2>2
<1> QED BY <1>1, Listening, Inductive, PTL
=============================================================================
