----------------------------- MODULE NodeProofs -----------------------------
(***************************************************************************)
(* Proofs about the parts of a node that work beside its connections: the  *)
(* goroutines that keep it connected (Supervision) and what becomes of the *)
(* messages of a connection (Dispatch).                                    *)
(***************************************************************************)
EXTENDS Dispatch, Supervision, TLAPS

-----------------------------------------------------------------------------
(* Supervision: the answer of a proxy. *)

Goros ==
    [peer : Peers, key : Nat, proxied : BOOLEAN,
     pc : {"delay", "store", "loop", "sleep", "tell", "end", "done", "restart", "connect", "block", "wait",
           "advance", "reduce"},
     i : Nat, own : Nat, gen : Nat, answered : BOOLEAN]

\* A goroutine that put its channel into the map and was answered since then
\* finds the channel closed, unless another one has replaced it: channels are
\* numbered, and a new one has a number nobody owns.
GoroInv(G) ==
    /\ G.own <= gen
    /\ G.pc \in {"delay", "store"} => ~G.answered
    /\ G.answered /\ G.own = gen => finished \/ panicked

SupInv ==
    /\ gen \in Nat /\ panicked \in BOOLEAN /\ goros \in Seq(Goros)
    /\ \A g \in DOMAIN goros : GoroInv(goros[g])

\* Goroutine g goes on, and nothing is done to the channel.
LEMMA GoroStep ==
    ASSUME SupInv, NEW g \in DOMAIN goros, NEW G \in Goros, goros' = [goros EXCEPT ![g] = G],
           G.own = goros[g].own, G.answered = goros[g].answered,
           G.pc \in {"delay", "store"} => goros[g].pc \in {"delay", "store"},
           UNCHANGED <<gen, finished>>, panicked' \in {panicked, TRUE}
    PROVE  SupInv'
<1>1. goros' \in Seq(Goros) /\ DOMAIN goros' = DOMAIN goros
  BY DEF SupInv
<1>2. ASSUME NEW h \in DOMAIN goros PROVE goros'[h] = IF h = g THEN G ELSE goros[h]
  BY Zenon DEF SupInv
<1>3. ASSUME NEW h \in DOMAIN goros PROVE GoroInv(goros[h])'
  BY Zenon, <1>2 DEF SupInv, GoroInv
<1> QED BY Zenon, <1>1, <1>3 DEF SupInv

\* Goroutine g puts a new channel into the map, and has no answer on it yet.
LEMMA ChannelStep ==
    ASSUME SupInv, NEW g \in DOMAIN goros, NEW G \in Goros, goros' = [goros EXCEPT ![g] = G],
           gen' = gen + 1, G.own = gen + 1, ~G.answered, UNCHANGED panicked
    PROVE  SupInv'
<1>0. \A h \in DOMAIN goros : goros[h].pc \in {"delay", "store"} => ~goros[h].answered
  BY Zenon DEF SupInv, GoroInv
<1>1. goros' \in Seq(Goros) /\ DOMAIN goros' = DOMAIN goros
  BY DEF SupInv
<1>2. ASSUME NEW h \in DOMAIN goros PROVE goros'[h] = IF h = g THEN G ELSE goros[h]
  BY Zenon DEF SupInv
<1>3. ASSUME NEW h \in DOMAIN goros PROVE GoroInv(goros[h])'
  <2>1. goros[h] \in Goros /\ gen \in Nat /\ goros[h].own <= gen
    BY DEF SupInv, GoroInv
  <2>2. CASE h = g
    BY <1>2, <2>1, <2>2 DEF GoroInv
  <2>3. CASE h # g
    <3>1. goros'[h] = goros[h] /\ goros[h].own \in Nat
      BY Zenon, <1>2, <2>1, <2>3 DEF Goros
    <3> QED BY <2>1, <3>1, <1>0 DEF GoroInv
  <2> QED BY Zenon, <2>2, <2>3
<1>4. gen' \in Nat
  BY DEF SupInv
<1> QED BY Zenon, <1>1, <1>3, <1>4 DEF SupInv

\* Nothing that the invariant speaks of changes, but for a panic.
LEMMA SupStill ==
    ASSUME SupInv, UNCHANGED <<goros, gen, finished>>, panicked' \in {panicked, TRUE}
    PROVE  SupInv'
  BY Zenon DEF SupInv, GoroInv

\* The steps of a goroutine that reconnects a peer touch no Finish channel.
LEMMA BackoffSupInv ==
    ASSUME SupInv, NEW g \in DOMAIN goros,
           CheckActive(g) \/ StoreBackoff(g) \/ Attempt(g) \/ Dial(g) \/ Tell(g) \/ EndBackoff(g)
    PROVE  SupInv'
<1>0. goros[g] \in Goros /\ GoroInv(goros[g]) /\ gen \in Nat
  BY DEF SupInv
<1>1. ASSUME NEW p \in {"store", "done", "loop", "end", "sleep", "tell", "restart", "block"},
             Go(g, p), goros[g].pc \notin {"store"}, p = "store" => goros[g].pc = "delay",
             UNCHANGED <<gen, finished, panicked>>
      PROVE  SupInv'
  <2> DEFINE G == [goros[g] EXCEPT !.pc = p]
  <2>1. G \in Goros /\ G.own = goros[g].own /\ G.answered = goros[g].answered /\ G.pc = p
    BY Zenon, <1>0 DEF Goros
  <2>2. goros' = [goros EXCEPT ![g] = G]
    BY Zenon, <1>1 DEF Go
  <2> QED BY Zenon, <1>1, <2>1, <2>2, GoroStep
<1>2. ASSUME Continue(g), UNCHANGED <<gen, finished, panicked>> PROVE SupInv'
  <2>0. PICK n \in Nat : n = goros[g].i + 1
    BY <1>0 DEF Goros
  <2> DEFINE G == [goros[g] EXCEPT !.pc = "loop", !.i = n]
  <2>1. G \in Goros /\ G.own = goros[g].own /\ G.answered = goros[g].answered /\ G.pc = "loop"
    BY Zenon, <1>0 DEF Goros
  <2>2. goros' = [goros EXCEPT ![g] = G]
    BY Zenon, <1>2, <2>0 DEF Continue
  <2> QED BY Zenon, <1>2, <2>1, <2>2, GoroStep
<1>3. CASE CheckActive(g)
  BY Zenon, <1>1, <1>3 DEF CheckActive, At, proxies
<1>4. CASE StoreBackoff(g)
  <2>1. CASE goros[g].proxied
    <3>0. PICK n \in Nat : n = gen + 1
      BY <1>0
    <3> DEFINE G == [goros[g] EXCEPT !.pc = "loop", !.own = n]
    <3>1. G \in Goros /\ G.own = n /\ G.answered = goros[g].answered
      BY Zenon, <1>0 DEF Goros
    <3>2. goros' = [goros EXCEPT ![g] = G] /\ gen' = gen + 1 /\ UNCHANGED panicked /\ ~goros[g].answered
      BY Zenon, <1>0, <1>4, <2>1, <3>0 DEF StoreBackoff, At, GoroInv
    <3> QED BY Zenon, <3>0, <3>1, <3>2, ChannelStep
  <2>2. CASE ~goros[g].proxied
    <3> DEFINE G == [goros[g] EXCEPT !.pc = "loop"]
    <3>1. G \in Goros /\ G.own = goros[g].own /\ G.answered = goros[g].answered /\ G.pc = "loop"
      BY Zenon, <1>0 DEF Goros
    <3>2. goros' = [goros EXCEPT ![g] = G] /\ UNCHANGED <<gen, finished, panicked>>
      BY Zenon, <1>4, <2>2 DEF StoreBackoff, Go
    <3> QED BY Zenon, <3>1, <3>2, GoroStep
  <2> QED BY Zenon, <2>1, <2>2
<1>5. CASE Attempt(g)
  BY Zenon, <1>1, <1>5 DEF Attempt, At, proxies
<1>6. CASE Dial(g)
  BY Zenon, <1>1, <1>2, <1>6 DEF Dial, At, proxies
<1>7. CASE Tell(g)
  BY Zenon, <1>1, <1>2, <1>7 DEF Tell, At
<1>8. CASE EndBackoff(g)
  BY Zenon, <1>1, <1>8 DEF EndBackoff, At, proxies
<1> QED BY Zenon, <1>3, <1>4, <1>5, <1>6, <1>7, <1>8

\* The steps of a goroutine that restarts a proxy: the new channel is its own.
LEMMA RestartSupInv ==
    ASSUME SupInv, NEW g \in DOMAIN goros,
           \/ ProxyComponentRestart(g) \/ BlockUntilProxyFinish(g) \/ Released(g) \/ TcpComponentRestartUp(g)
           \/ UDPComponentRestartUp(g) \/ KCPComponentRestartUp(g) \/ QuicComponentRestartUp(g)
    PROVE  SupInv'
<1>0. goros[g] \in Goros /\ GoroInv(goros[g]) /\ gen \in Nat
  BY DEF SupInv
<1>1. ASSUME NEW p \in {"end", "done", "block", "advance", "reduce"},
             Go(g, p), UNCHANGED <<gen, finished, panicked>>
      PROVE  SupInv'
  <2> DEFINE G == [goros[g] EXCEPT !.pc = p]
  <2>1. G \in Goros /\ G.own = goros[g].own /\ G.answered = goros[g].answered /\ G.pc = p
    BY Zenon, <1>0 DEF Goros
  <2>2. goros' = [goros EXCEPT ![g] = G]
    BY Zenon, <1>1 DEF Go
  <2> QED BY Zenon, <1>1, <2>1, <2>2, GoroStep
<1>2. CASE ProxyComponentRestart(g)
  <2>1. PICK n \in Nat : n = gen + 1
    BY <1>0
  <2> DEFINE G == [goros[g] EXCEPT !.pc = "connect", !.i = 0, !.own = n, !.answered = FALSE]
  <2>2. G \in Goros /\ G.own = n /\ G.answered = FALSE
    BY Zenon, <1>0 DEF Goros
  <2>3. goros' = [goros EXCEPT ![g] = G] /\ gen' = gen + 1 /\ UNCHANGED panicked
    BY Zenon, <1>2, <2>1 DEF ProxyComponentRestart
  <2> QED BY Zenon, <2>1, <2>2, <2>3, ChannelStep
<1>3. CASE BlockUntilProxyFinish(g)
  <2> DEFINE G == [goros[g] EXCEPT !.pc = "wait", !.gen = gen]
  <2>1. G \in Goros /\ G.own = goros[g].own /\ G.answered = goros[g].answered /\ G.pc = "wait"
    BY Zenon, <1>0 DEF Goros
  <2>2. goros' = [goros EXCEPT ![g] = G] /\ UNCHANGED <<gen, finished, panicked>>
    BY Zenon, <1>3 DEF BlockUntilProxyFinish, proxies
  <2> QED BY Zenon, <2>1, <2>2, GoroStep
<1>4. CASE Released(g)
  BY Zenon, <1>1, <1>4 DEF Released, proxies
<1>5. CASE ConnectProxyServer(g)
  BY Zenon, <1>1, <1>5 DEF ConnectProxyServer
<1>6. CASE UpdateProxyWorkID(g)
  <2>1. CASE At(g, "advance")
    BY Zenon, <1>1, <1>6, <2>1 DEF UpdateProxyWorkID, At
  <2>2. CASE At(g, "reduce")
    <3>1. PICK n \in Nat : n = goros[g].i + 1
      BY <1>0 DEF Goros
    <3> DEFINE G == [goros[g] EXCEPT !.pc = "connect", !.i = n]
    <3>2. G \in Goros /\ G.own = goros[g].own /\ G.answered = goros[g].answered /\ G.pc = "connect"
      BY Zenon, <1>0 DEF Goros
    <3>3. goros' = [goros EXCEPT ![g] = G] /\ UNCHANGED <<gen, finished, panicked>>
      BY Zenon, <1>6, <2>2, <3>1 DEF UpdateProxyWorkID, At
    <3> QED BY Zenon, <3>2, <3>3, GoroStep
  <2> QED BY Zenon, <1>6, <2>1, <2>2 DEF UpdateProxyWorkID
<1>7. CASE RestartFails(g)
  <2>1. CASE Go(g, "done") /\ UNCHANGED panicked
    BY Zenon, <1>1, <1>7, <2>1 DEF RestartFails, proxies
  <2>2. CASE panicked' = TRUE /\ UNCHANGED goros
    BY Zenon, <1>7, <2>2, SupStill DEF RestartFails, proxies
  <2> QED BY Zenon, <1>7, <2>1, <2>2 DEF RestartFails
<1>8. CASE UDPComponentRestartUp(g)
  BY Zenon, <1>1, <1>8 DEF UDPComponentRestartUp
<1>9. CASE KCPComponentRestartUp(g)
  <2>1. CASE TellWorking(g)
    BY Zenon, <1>1, <1>9, <2>1 DEF KCPComponentRestartUp, TellWorking
  <2>2. CASE panicked' = TRUE /\ UNCHANGED goros
    BY Zenon, <1>9, <2>2, SupStill DEF KCPComponentRestartUp
  <2> QED BY Zenon, <1>9, <2>1, <2>2 DEF KCPComponentRestartUp
<1>10. CASE QuicComponentRestartUp(g)
  BY Zenon, <1>1, <1>10 DEF QuicComponentRestartUp, TellWorking
<1> QED BY Zenon, <1>2, <1>3, <1>4, <1>5, <1>6, <1>7, <1>8, <1>9, <1>10 DEF TcpComponentRestartUp

\* The response closes the channel that is in the map, for whoever has asked.
LEMMA ResponseSupInv ==
    ASSUME SupInv, NEW p \in Peers, NEW a, ProxyResponse(p, a)
    PROVE  SupInv'
<1>1. ASSUME NEW other \in BOOLEAN, FinishProxyServer(other), UNCHANGED gen PROVE SupInv'
  <2>1. goros \in Seq(Goros) /\ finished' = TRUE /\ panicked' \in BOOLEAN
    BY Zenon, <1>1 DEF SupInv, FinishProxyServer
  <2>2. DOMAIN goros = 1..Len(goros) /\ Len(goros) \in Nat /\ DOMAIN goros' = DOMAIN goros
    BY <1>1, <2>1 DEF FinishProxyServer
  <2>3. ASSUME NEW h \in DOMAIN goros PROVE goros'[h] \in Goros /\ GoroInv(goros[h])'
    <3>1. PICK b \in BOOLEAN : b = (goros[h].answered \/ goros[h].pc \in {"connect", "block", "wait"})
      BY Zenon
    <3>2. goros[h] \in Goros /\ GoroInv(goros[h])
      BY DEF SupInv
    <3>3. goros'[h] = [goros[h] EXCEPT !.answered = b]
      BY Zenon, <1>1, <3>1 DEF FinishProxyServer
    <3>4. /\ goros'[h] \in Goros /\ goros'[h].own = goros[h].own /\ goros'[h].pc = goros[h].pc
          /\ goros'[h].answered = b
      BY Zenon, <3>2, <3>3 DEF Goros
    <3>5. goros[h].pc \in {"delay", "store"} => ~b
      BY Zenon, <3>1, <3>2 DEF GoroInv
    <3> QED BY Zenon, <1>1, <2>1, <3>2, <3>4, <3>5 DEF GoroInv
  <2>4. goros' \in [1..Len(goros) -> Goros]
    BY Zenon, <1>1, <2>2, <2>3 DEF FinishProxyServer
  <2>5. goros' \in Seq(Goros)
    BY <2>2, <2>4
  <2> QED BY Zenon, <1>1, <2>1, <2>2, <2>3, <2>5 DEF SupInv
<1>2. CASE TcpComponentReceive(p, a)
  <2>1. CASE a = address
    BY Zenon, <1>2, <2>1, SupStill DEF TcpComponentReceive, Answered
  <2>2. CASE a # address
    <3>1. PICK other \in BOOLEAN : other = ~InRange
      BY Zenon
    <3> QED BY Zenon, <1>1, <1>2, <2>2, <3>1 DEF TcpComponentReceive, Answered
  <2> QED BY Zenon, <2>1, <2>2
<1>3. CASE UDPComponentReceive(p, a) \/ KCPComponentReceive(p, a) \/ QuicComponentReceive(p, a)
  BY Zenon, <1>1, <1>3 DEF UDPComponentReceive, KCPComponentReceive, QuicComponentReceive, Answered
<1> QED BY Zenon, <1>2, <1>3 DEF ProxyResponse

\* A disconnection starts a goroutine, which owns no channel.
LEMMA DisconnectSupInv ==
    ASSUME SupInv, NEW p \in Peers, NEW key, PeerDisconnect(p, key)
    PROVE  SupInv'
<1>1. CASE panicked' = TRUE /\ UNCHANGED goros
  BY Zenon, <1>1, SupStill DEF PeerDisconnect, proxies
<1>2. ASSUME NEW n \in Nat, NEW b \in BOOLEAN, goros' = Append(goros, Goro(p, n, b)),
             UNCHANGED <<gen, finished, panicked>>
      PROVE  SupInv'
  <2> DEFINE G == Goro(p, n, b)
  <2>1. G \in Goros /\ G.own = 0 /\ G.answered = FALSE
    BY Zenon DEF Goro, Goros
  <2>2. goros \in Seq(Goros) /\ gen \in Nat
    BY Zenon DEF SupInv
  <2>3. goros' \in Seq(Goros) /\ Len(goros') = Len(goros) + 1
    BY <1>2, <2>1, <2>2
  <2>4. ASSUME NEW h \in DOMAIN goros' PROVE (h \in DOMAIN goros /\ goros'[h] = goros[h]) \/ goros'[h] = G
    BY <1>2, <2>1, <2>2, <2>3
  <2>5. ASSUME NEW h \in DOMAIN goros' PROVE GoroInv(goros[h])'
    <3>1. CASE goros'[h] = G
      BY <1>2, <2>1, <2>2, <3>1 DEF GoroInv
    <3>2. CASE h \in DOMAIN goros /\ goros'[h] = goros[h]
      BY Zenon, <1>2, <3>2 DEF SupInv, GoroInv
    <3> QED BY Zenon, <2>4, <3>1, <3>2
  <2> QED BY Zenon, <1>2, <2>2, <2>3, <2>5 DEF SupInv
<1>3. CASE ~(panicked' = TRUE /\ UNCHANGED goros)
  <2>1. PICK n \in Nat : n = IF key = Id(p) /\ p \in known THEN p ELSE 0
    BY Zenon, SupervisionAssumption
  <2>2. PICK b \in BOOLEAN : b = (proxyMode /\ n = WorkingID)
    BY Zenon
  <2>3. goros' = Append(goros, Goro(p, n, b)) /\ UNCHANGED <<gen, finished, panicked>>
    BY Zenon, <1>3, <2>1, <2>2 DEF PeerDisconnect, proxies
  <2> QED BY Zenon, <1>2, <2>3
<1> QED BY Zenon, <1>1, <1>3

\* Hence the invariant of the supervision always holds.
LEMMA SupInductive == SupSpec => []SupInv
<1>1. SupInit => SupInv
  <2> SUFFICES ASSUME SupInit PROVE SupInv
    OBVIOUS
  <2>1. gen = 0 /\ panicked = FALSE /\ goros = <<>>
    BY Zenon DEF SupInit
  <2>2. goros \in Seq(Goros) /\ DOMAIN goros = {}
    BY <2>1
  <2> QED BY Zenon, <2>1, <2>2 DEF SupInv
<1>2. SupInv /\ [SupNext]_supVars => SupInv'
  <2> SUFFICES ASSUME SupInv, [SupNext]_supVars PROVE SupInv'
    OBVIOUS
  <2>1. ASSUME NEW g \in DOMAIN goros, Supervisor(g) PROVE SupInv'
    BY Zenon, <2>1, BackoffSupInv, RestartSupInv DEF Supervisor
  <2>2. ASSUME NEW p \in Peers, Message(p) PROVE SupInv'
    BY Zenon, <2>2, SupStill DEF Message, proxies
  <2>3. CASE KeepaliveTick
    BY Zenon, <2>3, SupStill DEF KeepaliveTick, proxies
  <2>4. CASE UNCHANGED supVars
    BY Zenon, <2>4, SupStill DEF supVars
  <2> QED BY Zenon, <2>1, <2>2, <2>3, <2>4, ResponseSupInv, DisconnectSupInv DEF SupNext
<1> QED BY <1>1, <1>2, PTL DEF SupSpec

\* The answer of the proxy releases the goroutine that asked for it, whenever it
\* comes, for any number of peers, servers, attempts and disconnections.
THEOREM ProxyAnswerReleases == SupSpec => []AnswerReleases
<1>1. SupInv => AnswerReleases
  BY Zenon DEF SupInv, GoroInv, AnswerReleases
<1> QED BY <1>1, SupInductive, PTL
-----------------------------------------------------------------------------
(* Dispatch: messages are taken up in order, and whatever has been done with   *)
(* one, the messages in the queue and the one under dispatch come after it.    *)

WorkerPC == {"idle", "ready", "bytes", "notify", "components", "receive"}

DispatchType ==
    /\ arrived \in 0..Len(Kinds) /\ jobs \in Seq(Msgs) /\ worker \in Msgs \cup {0} /\ wpc \in WorkerPC
    /\ inOrder \in BOOLEAN /\ handler \in [Msgs -> -1..NComponents]
    /\ log \in [1..NComponents -> Seq(Msgs)] /\ stream \in Seq(Msgs) /\ out \in Seq(Msgs)

QueueInv ==
    /\ wpc = "idle" <=> worker = 0
    /\ worker <= arrived
    /\ ~udp => jobs = <<>>
    /\ \A i \in 1..Len(jobs) : worker < jobs[i] /\ jobs[i] <= arrived
    /\ \A i, j \in 1..Len(jobs) : i < j => jobs[i] < jobs[j]

Behind(m) ==
    /\ m <= arrived /\ (worker # 0 => m <= worker)
    /\ \A i \in 1..Len(jobs) : m < jobs[i]

Bytes == out \o stream
BytesInv ==
    /\ \A i \in 1..Len(Bytes) : Behind(Bytes[i]) /\ (wpc \in {"ready", "bytes"} => Bytes[i] # worker)
    /\ \A i, j \in 1..Len(Bytes) : i < j => Bytes[i] < Bytes[j]

HandlerInv ==
    \A m \in Msgs : handler[m] >= 0 =>
        /\ Behind(m)
        /\ wpc \in {"ready", "bytes", "notify", "components"} => m # worker
        /\ inOrder /\ handler[m] < NComponents => m = worker /\ wpc = "receive"

\* A component has received the messages whose handler has passed it.
Received(c) ==
    /\ \A i \in 1..Len(log[c]) : handler[log[c][i]] >= c
    /\ \A m \in Msgs : handler[m] >= c => \E i \in 1..Len(log[c]) : log[c][i] = m
    /\ \A i, j \in 1..Len(log[c]) : i < j => log[c][i] # log[c][j] /\ (inOrder => log[c][i] < log[c][j])
LogInv == \A c \in 1..NComponents : Received(c)

DispatchInv == DispatchType /\ QueueInv /\ BytesInv /\ HandlerInv /\ LogInv

\* What the components have received is kept by a step that calls none.
LEMMA LogStill ==
    ASSUME LogInv, UNCHANGED <<inOrder, handler, log>>
    PROVE  LogInv'
<1>1. ASSUME NEW c, Received(c) PROVE Received(c)'
  BY <1>1 DEF Received
<1> QED
  BY Zenon, <1>1 DEF LogInv

\* The next message is taken up, or dispatchMessage goes on with its own one.
LEMMA WorkerStep ==
    ASSUME DispatchInv, UNCHANGED <<inOrder, handler, log, stream, out>>, DispatchType', QueueInv',
           \A m \in Msgs : Behind(m) => Behind(m)',
           \A m \in Msgs : Behind(m) /\ m = worker' =>
               /\ worker' = worker
               /\ wpc' \in {"ready", "bytes"} => wpc \in {"ready", "bytes"}
               /\ wpc' \in {"ready", "bytes", "notify", "components"} =>
                      wpc \in {"ready", "bytes", "notify", "components"},
           wpc = "receive" => UNCHANGED <<worker, wpc>> \/ handler[worker] = NComponents
    PROVE  DispatchInv'
<1>1. Bytes \in Seq(Msgs) /\ Bytes' = Bytes
  BY DEF DispatchInv, DispatchType, Bytes
<1>2. BytesInv'
  <2>1. ASSUME NEW i \in 1..Len(Bytes)
        PROVE  Behind(Bytes[i])' /\ (wpc' \in {"ready", "bytes"} => Bytes[i] # worker')
    <3>1. Bytes[i] \in Msgs
      BY <1>1
    <3> QED
      BY Zenon, <1>1, <3>1 DEF DispatchInv, BytesInv, Behind
  <2> QED
    BY Zenon, <1>1, <2>1 DEF DispatchInv, BytesInv
<1>3. HandlerInv'
  <2>1. ASSUME NEW m \in Msgs, handler[m] >= 0
        PROVE  /\ Behind(m)'
               /\ wpc' \in {"ready", "bytes", "notify", "components"} => m # worker'
               /\ inOrder /\ handler[m] < NComponents => m = worker' /\ wpc' = "receive"
    <3>1. /\ Behind(m) /\ (inOrder /\ handler[m] < NComponents => m = worker /\ wpc = "receive")
          /\ wpc \in {"ready", "bytes", "notify", "components"} => m # worker
      BY Zenon, <2>1 DEF DispatchInv, HandlerInv
    <3>2. NComponents \in Nat /\ ~(NComponents < NComponents)
      BY DispatchAssumption
    <3> QED
      BY Zenon, <3>1, <3>2
  <2> QED
    BY Zenon, <2>1 DEF HandlerInv
<1>4. LogInv'
  BY Zenon, LogStill DEF DispatchInv
<1> QED
  BY Zenon, <1>2, <1>3, <1>4 DEF DispatchInv

\* A message arrives and is queued, or goes to dispatchMessage at once.
LEMMA ArriveInv ==
    ASSUME DispatchInv, Arrive
    PROVE  DispatchInv'
<1> USE DispatchAssumption
<1>1. /\ arrived \in 0..Len(Kinds) /\ arrived < Len(Kinds) /\ arrived' = arrived + 1
      /\ UNCHANGED <<udp, inOrder, handler, log, stream, out>> /\ jobs \in Seq(Msgs)
      /\ worker \in Nat /\ worker <= arrived
  BY DEF Arrive, DispatchInv, DispatchType, QueueInv, dispatchMode, receiving, readSide, Msgs
<1>2. CASE jobs' = Append(jobs, arrived + 1) /\ udp /\ UNCHANGED <<worker, wpc>>
  <2>1. jobs' \in Seq(Msgs) /\ Len(jobs') = Len(jobs) + 1
    BY <1>1, <1>2 DEF Msgs
  <2>2. \A i \in 1..Len(jobs') : (i \in 1..Len(jobs) /\ jobs'[i] = jobs[i]) \/ (i = Len(jobs) + 1 /\ jobs'[i] = arrived + 1)
    BY <1>1, <1>2, <2>1
  <2>3. DispatchType'
    BY <1>1, <1>2, <2>1 DEF DispatchInv, DispatchType, Msgs
  <2>4. QueueInv'
    <3>1. \A i \in 1..Len(jobs) : jobs[i] \in Nat
      BY <1>1 DEF Msgs
    <3>2. \A i \in 1..Len(jobs') : worker' < jobs'[i] /\ jobs'[i] <= arrived'
      BY <1>1, <1>2, <2>1, <2>2, <3>1 DEF DispatchInv, QueueInv
    <3>3. \A i, j \in 1..Len(jobs') : i < j => jobs'[i] < jobs'[j]
      BY <1>1, <1>2, <2>1, <2>2, <3>1 DEF DispatchInv, QueueInv
    <3> QED
      BY <1>1, <1>2, <3>2, <3>3 DEF DispatchInv, QueueInv
  <2>5. \A m \in Msgs : Behind(m) => Behind(m)'
    BY <1>1, <1>2, <2>1, <2>2 DEF Behind, Msgs
  <2> QED
    BY Zenon, WorkerStep, <1>1, <1>2, <2>3, <2>4, <2>5
<1>3. CASE UNCHANGED <<jobs, worker, wpc>> /\ udp
  <2>1. DispatchType' /\ QueueInv'
    <3>1. arrived' \in 0..Len(Kinds) /\ worker' <= arrived'
      BY <1>1, <1>3
    <3>2. DispatchType'
      BY Zenon, <1>1, <1>3, <3>1 DEF DispatchInv, DispatchType
    <3>3. \A i \in 1..Len(jobs) : jobs[i] \in Nat
      BY <1>1 DEF Msgs
    <3>4. QueueInv'
      BY <1>1, <1>3, <3>1, <3>3 DEF DispatchInv, QueueInv
    <3> QED
      BY Zenon, <3>2, <3>4
  <2>2. \A m \in Msgs : Behind(m) => Behind(m)'
    BY <1>1, <1>3 DEF Behind, Msgs
  <2> QED
    BY Zenon, WorkerStep, <1>1, <1>3, <2>1, <2>2
<1>4. CASE ~udp /\ wpc = "idle" /\ Start(arrived + 1) /\ UNCHANGED jobs
  <2>1. jobs = <<>> /\ jobs' = <<>> /\ worker = 0 /\ worker' = arrived + 1 /\ wpc' = "ready"
    BY Zenon, <1>4 DEF DispatchInv, QueueInv, Start
  <2>2. DispatchType' /\ QueueInv'
    BY <1>1, <1>4, <2>1 DEF DispatchInv, DispatchType, QueueInv, Msgs, WorkerPC
  <2>3. \A m \in Msgs : Behind(m) => Behind(m)' /\ m # worker'
    BY <1>1, <2>1 DEF Behind, Msgs
  <2> QED
    BY Zenon, WorkerStep, <1>1, <1>4, <2>2, <2>3
<1> QED
  BY Zenon, <1>1, <1>2, <1>3, <1>4 DEF Arrive, Submit

\* The worker takes the first job of the queue.
LEMMA executeJobsInv ==
    ASSUME DispatchInv, executeJobs, jobs # <<>>, Start(Head(jobs)), jobs' = Tail(jobs)
    PROVE  DispatchInv'
<1> USE DispatchAssumption
<1>1. /\ arrived \in 0..Len(Kinds) /\ jobs \in Seq(Msgs) /\ jobs # <<>> /\ wpc = "idle" /\ worker = 0 /\ udp
      /\ UNCHANGED <<udp, arrived, inOrder, handler, log, stream, out>>
  BY Zenon DEF executeJobs, DispatchInv, DispatchType, QueueInv, dispatchMode, receiving, readSide
<1>2. /\ jobs' \in Seq(Msgs) /\ Len(jobs) >= 1 /\ Len(jobs') = Len(jobs) - 1 /\ jobs[1] \in Msgs
      /\ worker' = jobs[1] /\ wpc' = "ready"
  BY <1>1 DEF Start
<1>3. \A i \in 1..Len(jobs') : i + 1 \in 1..Len(jobs) /\ jobs'[i] = jobs[i + 1]
  BY <1>1, <1>2
<1>4. DispatchType'
  BY Zenon, <1>1, <1>2 DEF DispatchInv, DispatchType, WorkerPC
<1>5. QueueInv'
  <2>1. worker' # 0 /\ worker' <= arrived
    BY <1>1, <1>2 DEF DispatchInv, QueueInv, Msgs
  <2>2. \A i \in 1..Len(jobs') : worker' < jobs'[i] /\ jobs'[i] <= arrived
    BY <1>1, <1>2, <1>3 DEF DispatchInv, QueueInv, Msgs
  <2>3. \A i, j \in 1..Len(jobs') : i < j => jobs'[i] < jobs'[j]
    BY <1>1, <1>2, <1>3 DEF DispatchInv, QueueInv, Msgs
  <2> QED
    BY Zenon, <1>1, <1>2, <2>1, <2>2, <2>3 DEF QueueInv
<1>6. \A m \in Msgs : Behind(m) => Behind(m)' /\ m # worker'
  BY <1>1, <1>2, <1>3 DEF Behind, Msgs
<1> QED
  BY Zenon, WorkerStep, <1>1, <1>4, <1>5, <1>6

\* dispatchMessage goes on, or is done with its message.
LEMMA WorkerGoesOn ==
    ASSUME DispatchInv, UNCHANGED <<udp, inOrder, arrived, jobs, handler, log, stream, out>>,
           wpc # "idle", wpc = "receive" => handler[worker] = NComponents,
           \/ Done
           \/ worker' = worker /\ wpc = "ready" /\ wpc' \in {"bytes", "components"}
    PROVE  DispatchInv'
<1>1. worker' \in {worker, 0} /\ (wpc' = "idle" <=> worker' = 0) /\ wpc' \in WorkerPC /\ worker # 0
  BY Zenon DEF DispatchInv, QueueInv, Done, WorkerPC
<1>2. DispatchType'
  BY Zenon, <1>1 DEF DispatchInv, DispatchType
<1>3. worker \in Nat /\ arrived \in Nat
  BY DispatchAssumption DEF DispatchInv, DispatchType, Msgs
<1>4. \A i \in 1..Len(jobs) : jobs[i] \in Nat
  BY DEF DispatchInv, DispatchType, Msgs
<1>5. QueueInv'
  BY <1>1, <1>3, <1>4 DEF DispatchInv, QueueInv
<1>6. \A m \in Msgs : Behind(m) => Behind(m)'
  BY Zenon, <1>1 DEF Behind
<1>7. \A m \in Msgs : m # 0
  BY DEF Msgs
<1> QED
  BY Zenon, WorkerStep, <1>2, <1>5, <1>6, <1>7 DEF Done

\* The bytes of a message go to the stream.
LEMMA handleBytesInv ==
    ASSUME DispatchInv, handleBytes
    PROVE  DispatchInv'
<1> USE DispatchAssumption
<1>1. /\ UNCHANGED <<udp, inOrder, arrived, jobs, worker, handler, log, out>>
      /\ wpc = "bytes" /\ wpc' = "notify" /\ stream' = Append(stream, worker)
  BY Zenon DEF handleBytes, dispatchMode, queueing, receiving, readSide
<1>2. worker \in Msgs /\ stream \in Seq(Msgs) /\ out \in Seq(Msgs) /\ worker <= arrived
  BY Zenon, <1>1 DEF DispatchInv, DispatchType, QueueInv
<1>3. DispatchType'
  BY <1>1, <1>2 DEF DispatchInv, DispatchType, WorkerPC
<1>4. QueueInv'
  BY Zenon, <1>1 DEF DispatchInv, QueueInv
<1>5. \A m : Behind(m)' <=> Behind(m)
  BY Zenon, <1>1 DEF Behind
<1>6. Behind(worker)
  BY <1>1, <1>2 DEF Behind, DispatchInv, QueueInv, Msgs
<1>7. /\ Bytes \in Seq(Msgs) /\ Bytes' \in Seq(Msgs) /\ Len(Bytes') = Len(Bytes) + 1
      /\ Bytes'[Len(Bytes) + 1] = worker /\ \A i \in 1..Len(Bytes) : Bytes'[i] = Bytes[i]
  BY <1>1, <1>2 DEF Bytes
<1>8. \A i \in 1..Len(Bytes) : Bytes[i] \in Nat /\ Behind(Bytes[i]) /\ Bytes[i] # worker
  BY SMTT(20), <1>1, <1>7 DEF DispatchInv, BytesInv, Msgs
<1>9. \A i \in 1..Len(Bytes) : Bytes[i] < worker
  BY <1>2, <1>8 DEF Behind, Msgs
<1>10. BytesInv'
  <2>1. \A i \in 1..Len(Bytes') : i \in 1..Len(Bytes) \/ i = Len(Bytes) + 1
    BY <1>7
  <2>2. \A i \in 1..Len(Bytes') : Behind(Bytes'[i])
    BY Zenon, <1>6, <1>7, <1>8, <2>1
  <2>3. \A i, j \in 1..Len(Bytes') : i < j => Bytes'[i] < Bytes'[j]
    BY <1>7, <1>9, <2>1 DEF DispatchInv, BytesInv
  <2> QED
    BY Zenon, <1>1, <1>5, <2>2, <2>3 DEF BytesInv
<1>11. HandlerInv' /\ LogInv'
  <2>1. HandlerInv'
    BY Zenon, <1>1, <1>5 DEF DispatchInv, HandlerInv
  <2>2. LogInv'
    BY Zenon, <1>1, LogStill DEF DispatchInv
  <2> QED
    BY Zenon, <2>1, <2>2
<1> QED
  BY Zenon, <1>3, <1>4, <1>10, <1>11 DEF DispatchInv

\* The callbacks begin, here or in a goroutine of their own.
LEMMA StartHandlerInv ==
    ASSUME DispatchInv, StartHandler
    PROVE  DispatchInv'
<1> USE DispatchAssumption
<1>1. /\ UNCHANGED <<udp, inOrder, arrived, jobs, log, stream, out>>
      /\ wpc = "components" /\ handler' = [handler EXCEPT ![worker] = 0]
      /\ (inOrder /\ worker' = worker /\ wpc' = "receive") \/ (~inOrder /\ worker' = 0 /\ wpc' = "idle")
  BY Zenon DEF StartHandler, Done, dispatchMode, queueing, readSide
<1>2. worker \in Msgs /\ worker \in Nat \ {0} /\ worker <= arrived /\ arrived \in Nat /\ handler \in [Msgs -> -1..NComponents]
  BY <1>1 DEF DispatchInv, DispatchType, QueueInv, Msgs
<1>3. handler[worker] = -1
  BY <1>1, <1>2 DEF DispatchInv, HandlerInv
<1>4. handler' \in [Msgs -> -1..NComponents] /\ \A m \in Msgs : handler'[m] = IF m = worker THEN 0 ELSE handler[m]
  BY <1>1, <1>2
<1>5. DispatchType'
  BY Zenon, <1>1, <1>2, <1>4 DEF DispatchInv, DispatchType, WorkerPC
<1>6. QueueInv'
  <2>1. \A i \in 1..Len(jobs) : jobs[i] \in Nat
    BY DEF DispatchInv, DispatchType, Msgs
  <2> QED
    BY <1>1, <1>2, <2>1 DEF DispatchInv, QueueInv
<1>7. \A m : Behind(m) => Behind(m)'
  BY Zenon, <1>1, <1>2 DEF Behind
<1>8. Behind(worker)
  BY <1>1, <1>2 DEF Behind, DispatchInv, QueueInv
<1>9. BytesInv'
  <2>1. Bytes' = Bytes
    BY Zenon, <1>1 DEF Bytes
  <2> QED
    BY Zenon, <1>1, <1>7, <2>1 DEF DispatchInv, BytesInv
<1>10. HandlerInv'
  <2>1. ASSUME NEW m \in Msgs, handler'[m] >= 0
        PROVE  /\ Behind(m) /\ wpc' \notin {"ready", "bytes", "notify", "components"}
               /\ inOrder /\ handler'[m] < NComponents => m = worker' /\ wpc' = "receive"
    <3>1. CASE m = worker
      BY Zenon, <1>1, <1>8, <3>1
    <3>2. CASE m # worker
      BY Zenon, <1>1, <1>4, <2>1, <3>2 DEF DispatchInv, HandlerInv
    <3> QED
      BY Zenon, <3>1, <3>2
  <2> QED
    BY Zenon, <1>1, <1>7, <2>1 DEF HandlerInv
<1>11. LogInv'
  <2>1. ASSUME NEW c \in 1..NComponents
        PROVE  /\ \A i \in 1..Len(log[c]) : handler'[log[c][i]] >= c
               /\ \A m \in Msgs : handler'[m] >= c => handler[m] >= c
    <3>1. \A i \in 1..Len(log[c]) : log[c][i] \in Msgs /\ handler[log[c][i]] >= c
      BY SMTT(20) DEF DispatchInv, DispatchType, LogInv, Received
    <3>2. ASSUME NEW i \in 1..Len(log[c]) PROVE handler'[log[c][i]] >= c
      <4>1. PICK k \in Msgs : k = log[c][i] /\ handler[k] >= c
        BY Zenon, <3>1
      <4>2. k # worker
        BY <1>3, <4>1
      <4> QED
        BY Zenon, <1>4, <4>1, <4>2
    <3>3. ASSUME NEW m \in Msgs, handler'[m] >= c PROVE handler[m] >= c
      <4>1. ~(0 >= c)
        OBVIOUS
      <4> QED
        BY Zenon, <1>4, <3>3, <4>1
    <3> QED
      BY Zenon, <3>2, <3>3
  <2>2. ASSUME NEW c \in 1..NComponents PROVE Received(c)'
    BY <1>1, <2>1 DEF DispatchInv, LogInv, Received
  <2> QED
    BY Zenon, <2>2 DEF LogInv
<1> QED
  BY Zenon, <1>5, <1>6, <1>9, <1>10, <1>11 DEF DispatchInv

\* The next component receives the message.
LEMMA ReceiveInv ==
    ASSUME DispatchInv, NEW m \in Msgs, Receive(m)
    PROVE  DispatchInv'
<1> USE DispatchAssumption
<1>0. PICK d : d = handler[m] + 1
  OBVIOUS
<1>1. /\ UNCHANGED <<udp, inOrder, arrived, jobs, worker, wpc, stream, out>>
      /\ handler[m] \in 0..(NComponents - 1) /\ handler' = [handler EXCEPT ![m] = d]
      /\ log' = [log EXCEPT ![d] = Append(log[d], m)]
  BY Zenon, <1>0 DEF Receive, dispatchMode, queueing, dispatching, readSide
<1>2. d \in 1..NComponents /\ handler[m] = d - 1 /\ handler[m] >= 0
  BY <1>0, <1>1
<1>3. handler \in [Msgs -> -1..NComponents] /\ log \in [1..NComponents -> Seq(Msgs)] /\ log[d] \in Seq(Msgs)
  BY Zenon, <1>2 DEF DispatchInv, DispatchType
<1>4. handler' \in [Msgs -> -1..NComponents] /\ \A k \in Msgs : handler'[k] = IF k = m THEN d ELSE handler[k]
  BY <1>1, <1>2, <1>3
<1>5. /\ Append(log[d], m) \in Seq(Msgs)
      /\ log' \in [1..NComponents -> Seq(Msgs)]
      /\ \A c \in 1..NComponents : log'[c] = IF c = d THEN Append(log[d], m) ELSE log[c]
  BY <1>1, <1>2, <1>3
<1>6. DispatchType'
  BY Zenon, <1>1, <1>4, <1>5 DEF DispatchInv, DispatchType
<1>7. QueueInv'
  BY Zenon, <1>1 DEF DispatchInv, QueueInv
<1>8. \A k : Behind(k)' <=> Behind(k)
  BY Zenon, <1>1 DEF Behind
<1>9. BytesInv'
  <2>1. Bytes' = Bytes
    BY Zenon, <1>1 DEF Bytes
  <2> QED
    BY Zenon, <1>1, <1>8, <2>1 DEF DispatchInv, BytesInv
<1>10. ASSUME NEW k \in Msgs
       PROVE  (handler'[k] >= 0 => handler[k] >= 0) /\ (handler'[k] < NComponents => handler[k] < NComponents)
  <2>1. d - 1 < NComponents
    BY <1>2
  <2> QED
    BY Zenon, <1>2, <1>4, <2>1
<1>11. HandlerInv'
  <2>1. ASSUME NEW k \in Msgs, handler'[k] >= 0
        PROVE  /\ Behind(k) /\ (inOrder /\ handler'[k] < NComponents => k = worker /\ wpc = "receive")
               /\ wpc \in {"ready", "bytes", "notify", "components"} => k # worker
    BY Zenon, <1>10, <2>1 DEF DispatchInv, HandlerInv
  <2> QED
    BY Zenon, <1>1, <1>8, <2>1 DEF HandlerInv
<1>12. ASSUME NEW c \in 1..NComponents
       PROVE  /\ \A i \in 1..Len(log[c]) : handler[log[c][i]] >= c
              /\ \A k \in Msgs : handler[k] >= c => \E i \in 1..Len(log[c]) : log[c][i] = k
              /\ \A i, j \in 1..Len(log[c]) : i < j => log[c][i] # log[c][j] /\ (inOrder => log[c][i] < log[c][j])
  BY Zenon DEF DispatchInv, LogInv, Received
<1>13. LogInv'
  <2>1. ASSUME NEW c \in 1..NComponents, c # d
        PROVE  log'[c] = log[c] /\ \A k \in Msgs : handler'[k] >= c <=> handler[k] >= c
    <3>1. log'[c] = log[c]
      BY Zenon, <1>5, <2>1
    <3>2. d >= c <=> d - 1 >= c
      BY <1>2, <2>1
    <3>3. \A k \in Msgs : handler'[k] >= c <=> handler[k] >= c
      BY Zenon, <1>2, <1>4, <3>2
    <3> QED
      BY Zenon, <3>1, <3>3
  <2>2. \A i \in 1..Len(log[d]) : log[d][i] \in Msgs /\ handler[log[d][i]] >= d
    BY <1>2, <1>3, <1>12
  <2>3. ASSUME NEW i \in 1..Len(log[d]) PROVE log[d][i] # m /\ (inOrder => log[d][i] < m)
    <3>1. PICK k \in Msgs : k = log[d][i] /\ handler[k] >= d
      BY Zenon, <2>2
    <3>2. k # m /\ handler[k] >= 0 /\ handler[m] < NComponents
      BY <1>2, <1>3, <3>1
    <3>3. Behind(k) /\ (inOrder => m = worker /\ wpc = "receive")
      BY Zenon, <1>2, <3>2 DEF DispatchInv, HandlerInv
    <3>4. inOrder => k <= m
      BY <3>3 DEF Behind, Msgs
    <3> QED
      BY <3>1, <3>2, <3>4 DEF Msgs
  <2>4. /\ Len(log'[d]) = Len(log[d]) + 1 /\ log'[d][Len(log[d]) + 1] = m
        /\ \A i \in 1..Len(log[d]) : log'[d][i] = log[d][i]
        /\ \A i \in 1..Len(log'[d]) : i \in 1..Len(log[d]) \/ i = Len(log[d]) + 1
    <3>1. PICK L \in Seq(Msgs) : L = log[d] /\ log'[d] = Append(L, m)
      BY Zenon, <1>2, <1>3, <1>5
    <3> QED
      BY <3>1
  <2>5. ASSUME NEW c \in 1..NComponents
        PROVE  \A i \in 1..Len(log'[c]) : handler'[log'[c][i]] >= c
    <3>1. CASE c = d
      <4>1. ASSUME NEW i \in 1..Len(log'[d]) PROVE handler'[log'[d][i]] >= d
        <5>1. CASE i \in 1..Len(log[d])
          BY Zenon, <2>2, <2>3, <2>4, <5>1, <1>4
        <5>2. CASE i = Len(log[d]) + 1
          <6>1. handler'[m] = d /\ d >= d
            BY <1>2, <1>4
          <6> QED
            BY Zenon, <2>4, <5>2, <6>1
        <5> QED
          BY Zenon, <2>4, <5>1, <5>2
      <4> QED
        BY Zenon, <3>1, <4>1
    <3>2. CASE c # d
      <4>1. \A i \in 1..Len(log[c]) : log[c][i] \in Msgs
        BY <1>3
      <4> QED
        BY Zenon, <1>12, <2>1, <3>2, <4>1
    <3> QED
      BY Zenon, <3>1, <3>2
  <2>6. ASSUME NEW c \in 1..NComponents, NEW k \in Msgs, handler'[k] >= c
        PROVE  \E i \in 1..Len(log'[c]) : log'[c][i] = k
    <3>1. CASE c # d
      <4>1. PICK i \in 1..Len(log[c]) : log[c][i] = k
        BY Zenon, <1>12, <2>1, <2>6, <3>1
      <4> QED
        BY Zenon, <2>1, <3>1, <4>1
    <3>2. CASE c = d /\ k # m
      <4>1. PICK i \in 1..Len(log[d]) : log[d][i] = k
        BY Zenon, <1>2, <1>4, <1>12, <2>6, <3>2
      <4>2. i \in 1..Len(log'[d])
        BY <1>3, <2>4
      <4> QED
        BY Zenon, <2>4, <3>2, <4>1, <4>2
    <3>3. CASE c = d /\ k = m
      <4>1. Len(log[d]) + 1 \in 1..Len(log'[d])
        BY <1>3, <2>4
      <4> QED
        BY Zenon, <2>4, <3>3, <4>1
    <3> QED
      BY Zenon, <3>1, <3>2, <3>3
  <2>7. ASSUME NEW c \in 1..NComponents, NEW i \in 1..Len(log'[c]), NEW j \in 1..Len(log'[c]), i < j
        PROVE  log'[c][i] # log'[c][j] /\ (inOrder => log'[c][i] < log'[c][j])
    <3>1. CASE c # d
      <4>1. log'[c] = log[c] /\ i \in 1..Len(log[c]) /\ j \in 1..Len(log[c])
        BY Zenon, <2>1, <3>1
      <4>2. log[c][i] # log[c][j] /\ (inOrder => log[c][i] < log[c][j])
        BY Zenon, <1>12, <2>7, <4>1
      <4> QED
        BY Zenon, <4>1, <4>2
    <3>2. CASE c = d
      <4>1. i \in 1..Len(log[d]) /\ (j \in 1..Len(log[d]) \/ j = Len(log[d]) + 1)
        BY SMTT(20), <1>3, <2>4, <2>7, <3>2
      <4>2. CASE j \in 1..Len(log[d])
        <5>1. log'[d][i] = log[d][i] /\ log'[d][j] = log[d][j]
          BY Zenon, <2>4, <4>1, <4>2
        <5>2. log[d][i] # log[d][j] /\ (inOrder => log[d][i] < log[d][j])
          BY Zenon, <1>2, <1>12, <2>7, <4>1, <4>2
        <5> QED
          BY Zenon, <3>2, <5>1, <5>2
      <4>3. CASE j = Len(log[d]) + 1
        BY Zenon, <2>3, <2>4, <3>2, <4>1, <4>3
      <4> QED
        BY Zenon, <4>1, <4>2, <4>3
    <3> QED
      BY Zenon, <3>1, <3>2
  <2>8. ASSUME NEW c \in 1..NComponents PROVE Received(c)'
    BY <1>1, <2>5, <2>6, <2>7 DEF Received
  <2> QED
    BY Zenon, <2>8 DEF LogInv
<1> QED
  BY Zenon, <1>6, <1>7, <1>9, <1>11, <1>13 DEF DispatchInv

\* Two sequences in a row.
LEMMA Concatenated ==
    ASSUME NEW S, NEW s \in Seq(S), NEW t \in Seq(S)
    PROVE  /\ s \o t \in Seq(S) /\ Len(s \o t) = Len(s) + Len(t)
           /\ \A i \in 1..(Len(s) + Len(t)) : (s \o t)[i] = IF i <= Len(s) THEN s[i] ELSE t[i - Len(s)]
<1>1. s \o t \in Seq(S)
  OBVIOUS
<1>2. Len(s \o t) = Len(s) + Len(t)
  OBVIOUS
<1>3. \A i \in 1..(Len(s) + Len(t)) : (s \o t)[i] = IF i <= Len(s) THEN s[i] ELSE t[i - Len(s)]
  BY <1>2
<1> QED
  BY Zenon, <1>1, <1>2, <1>3

\* A reader takes bytes of the stream.
LEMMA ReadInv ==
    ASSUME DispatchInv, NEW n \in Nat, Read(n)
    PROVE  DispatchInv'
<1>1. /\ UNCHANGED <<udp, inOrder, arrived, jobs, worker, wpc, handler, log>>
      /\ n <= Len(stream) /\ out' = out \o SubSeq(stream, 1, n)
      /\ stream' = SubSeq(stream, n + 1, Len(stream))
  BY Zenon DEF Read, dispatchMode, queueing, dispatching, receiving
<1>2. out \in Seq(Msgs) /\ stream \in Seq(Msgs)
  BY Zenon DEF DispatchInv, DispatchType
<1>3. PICK F \in Seq(Msgs) : F = SubSeq(stream, 1, n) /\ Len(F) = n /\ \A i \in 1..n : F[i] = stream[i]
  <2>1. SubSeq(stream, 1, n) \in Seq(Msgs) /\ Len(SubSeq(stream, 1, n)) = n
    BY <1>1, <1>2
  <2>2. \A i \in 1..n : SubSeq(stream, 1, n)[i] = stream[i]
    BY <1>1, <1>2
  <2> QED
    BY Zenon, <2>1, <2>2
<1>4. stream' \in Seq(Msgs) /\ Len(stream') = Len(stream) - n /\ \A i \in 1..(Len(stream) - n) : stream'[i] = stream[n + i]
  BY <1>1, <1>2
<1>5. out' \in Seq(Msgs) /\ out' = out \o F
  BY <1>1, <1>2, <1>3
<1>6. Len(Bytes') = Len(Bytes) /\ \A i \in 1..Len(Bytes) : Bytes'[i] = Bytes[i]
  <2>1. Len(out') = Len(out) + n /\ Len(Bytes') = Len(Bytes) /\ Len(Bytes) = Len(out) + Len(stream)
    <3>1. Len(out') = Len(out) + n
      BY Zenon, <1>2, <1>3, <1>5, Concatenated
    <3>2. Len(Bytes') = Len(out') + Len(stream') /\ Len(Bytes) = Len(out) + Len(stream)
      BY Zenon, <1>2, <1>4, <1>5, Concatenated DEF Bytes
    <3> QED
      BY <1>2, <1>4, <3>1, <3>2
  <2>2. ASSUME NEW i \in 1..Len(Bytes) PROVE Bytes'[i] = Bytes[i]
    <3>1. Bytes[i] = IF i <= Len(out) THEN out[i] ELSE stream[i - Len(out)]
      BY Zenon, <1>2, <2>1, Concatenated DEF Bytes
    <3>2. Bytes'[i] = IF i <= Len(out) + n THEN out'[i] ELSE stream'[i - (Len(out) + n)]
      <4>1. i \in 1..(Len(out') + Len(stream'))
        BY <1>2, <1>4, <2>1
      <4>2. Bytes'[i] = IF i <= Len(out') THEN out'[i] ELSE stream'[i - Len(out')]
        <5>1. PICK o \in Seq(Msgs), t \in Seq(Msgs) : o = out' /\ t = stream'
          BY Zenon, <1>4, <1>5
        <5>2. i \in 1..(Len(o) + Len(t)) /\ Bytes' = o \o t
          BY Zenon, <4>1, <5>1 DEF Bytes
        <5>3. (o \o t)[i] = IF i <= Len(o) THEN o[i] ELSE t[i - Len(o)]
          BY Zenon, <5>2, Concatenated
        <5> QED
          BY Zenon, <5>1, <5>2, <5>3
      <4> QED
        BY Zenon, <2>1, <4>2
    <3>3. i <= Len(out) + n => out'[i] = IF i <= Len(out) THEN out[i] ELSE F[i - Len(out)]
      <4>1. i <= Len(out) + n => i \in 1..(Len(out) + Len(F))
        BY <1>2, <1>3, <2>1
      <4> QED
        BY Zenon, <1>2, <1>3, <1>5, <4>1, Concatenated
    <3>4. i <= Len(out) + n /\ ~(i <= Len(out)) => F[i - Len(out)] = stream[i - Len(out)]
      <4>1. i <= Len(out) + n /\ ~(i <= Len(out)) => i - Len(out) \in 1..n
        BY <1>2, <2>1
      <4> QED
        BY Zenon, <1>3, <4>1
    <3>5. ~(i <= Len(out) + n) => ~(i <= Len(out)) /\ stream'[i - (Len(out) + n)] = stream[i - Len(out)]
      <4>1. ~(i <= Len(out) + n) => /\ i - (Len(out) + n) \in 1..(Len(stream) - n)
                                    /\ n + (i - (Len(out) + n)) = i - Len(out) /\ ~(i <= Len(out))
        BY <1>1, <1>2, <2>1
      <4> QED
        BY Zenon, <1>4, <4>1
    <3>6. i <= Len(out) => i <= Len(out) + n
      BY <1>2, <2>1
    <3>7. CASE i <= Len(out)
      BY Zenon, <3>1, <3>2, <3>3, <3>6, <3>7
    <3>8. CASE ~(i <= Len(out)) /\ i <= Len(out) + n
      BY Zenon, <3>1, <3>2, <3>3, <3>4, <3>8
    <3>9. CASE ~(i <= Len(out) + n)
      BY Zenon, <3>1, <3>2, <3>5, <3>9
    <3> QED
      BY Zenon, <3>7, <3>8, <3>9
  <2> QED
    BY Zenon, <2>1, <2>2
<1>7. DispatchType'
  BY Zenon, <1>1, <1>4, <1>5 DEF DispatchInv, DispatchType
<1>8. QueueInv'
  BY Zenon, <1>1 DEF DispatchInv, QueueInv
<1>9. \A k : Behind(k)' <=> Behind(k)
  BY Zenon, <1>1 DEF Behind
<1>10. BytesInv'
  <2>1. \A i \in 1..Len(Bytes') : Behind(Bytes'[i]) /\ (wpc \in {"ready", "bytes"} => Bytes'[i] # worker)
    BY Zenon, <1>6 DEF DispatchInv, BytesInv
  <2>2. \A i, j \in 1..Len(Bytes') : i < j => Bytes'[i] < Bytes'[j]
    BY <1>6 DEF DispatchInv, BytesInv
  <2> QED
    BY Zenon, <1>1, <1>9, <2>1, <2>2 DEF BytesInv
<1>11. HandlerInv'
  BY Zenon, <1>1, <1>9 DEF DispatchInv, HandlerInv
<1>12. LogInv'
  BY Zenon, <1>1, LogStill DEF DispatchInv
<1> QED
  BY Zenon, <1>7, <1>8, <1>10, <1>11, <1>12 DEF DispatchInv

\* A step that moves no message.
LEMMA DispatchStill ==
    ASSUME DispatchInv, UNCHANGED <<udp, inOrder, arrived, jobs, worker, wpc, handler, log, stream, out>>
    PROVE  DispatchInv'
<1>1. DispatchType' /\ QueueInv'
  BY Zenon DEF DispatchInv, DispatchType, QueueInv
<1>2. \A m : Behind(m) <=> Behind(m)'
  BY Zenon DEF Behind
<1> QED
  BY Zenon, WorkerStep, <1>1, <1>2

\* Hence the invariant of the dispatch always holds.
LEMMA DispatchInductive == DispatchSpec => []DispatchInv
<1>1. ASSUME DispatchInit PROVE DispatchInv
  <2>1. /\ arrived = 0 /\ jobs = <<>> /\ worker = 0 /\ wpc = "idle" /\ stream = <<>> /\ out = <<>> /\ inOrder \in BOOLEAN
        /\ handler = [m \in Msgs |-> -1] /\ log = [c \in 1..NComponents |-> <<>>]
    BY Zenon, <1>1 DEF DispatchInit
  <2>2. DispatchType
    BY <2>1, DispatchAssumption DEF DispatchType, WorkerPC
  <2>3. QueueInv
    BY <2>1 DEF QueueInv
  <2>4. BytesInv
    BY <2>1 DEF BytesInv, Bytes
  <2>5. HandlerInv
    BY <2>1 DEF HandlerInv
  <2>6. LogInv
    BY <2>1 DEF LogInv, Received
  <2> QED
    BY Zenon, <2>2, <2>3, <2>4, <2>5, <2>6 DEF DispatchInv
<1>2. ASSUME DispatchInv, [DispatchNext]_dispatchVars PROVE DispatchInv'
  <2>1. CASE UNCHANGED dispatchVars \/ RegisterMessageType \/ setIncomingReady \/ CloseClient \/ ReadSelect \/ ReadTimer
    BY Zenon, <1>2, <2>1, DispatchStill
       DEF dispatchVars, RegisterMessageType, setIncomingReady, CloseClient, ReadSelect, ReadTimer,
           dispatchMode, queueing, dispatching, receiving, readSide
  <2>2. CASE Arrive
    BY Zenon, <1>2, <2>2, ArriveInv
  <2>3. CASE executeJobs
    <3>1. CASE jobs # <<>> /\ Start(Head(jobs)) /\ jobs' = Tail(jobs)
      BY Zenon, <1>2, <2>3, <3>1, executeJobsInv
    <3>2. CASE UNCHANGED <<jobs, worker, wpc>>
      BY Zenon, <1>2, <2>3, <3>2, DispatchStill DEF executeJobs, dispatchMode, receiving, readSide
    <3> QED
      BY Zenon, <2>3, <3>1, <3>2 DEF executeJobs
  <2>4. CASE CheckMessage \/ Notify \/ HandlerDone
    <3>1. UNCHANGED <<udp, inOrder, arrived, jobs, handler, log, stream, out>>
      BY Zenon, <2>4 DEF CheckMessage, Notify, HandlerDone, dispatchMode, queueing, receiving, readSide
    <3>2. wpc # "idle" /\ (wpc = "receive" => handler[worker] = NComponents)
      BY Zenon, <2>4 DEF CheckMessage, Notify, HandlerDone
    <3>3. Done \/ (worker' = worker /\ wpc = "ready" /\ wpc' \in {"bytes", "components"})
      BY Zenon, <2>4 DEF CheckMessage, Notify, HandlerDone
    <3> QED
      BY Zenon, <1>2, <3>1, <3>2, <3>3, WorkerGoesOn
  <2>5. CASE handleBytes
    BY Zenon, <1>2, <2>5, handleBytesInv
  <2>6. CASE StartHandler
    BY Zenon, <1>2, <2>6, StartHandlerInv
  <2>7. ASSUME NEW m \in Msgs, Receive(m) PROVE DispatchInv'
    BY Zenon, <1>2, <2>7, ReceiveInv
  <2>8. ASSUME NEW n \in 0..Len(Kinds), Read(n) PROVE DispatchInv'
    <3>1. n \in Nat
      OBVIOUS
    <3> QED
      BY Zenon, <1>2, <2>8, <3>1, ReadInv
  <2> QED
    BY Zenon, <1>2, <2>1, <2>2, <2>3, <2>4, <2>5, <2>6, <2>7, <2>8 DEF DispatchNext, Worker, Reader
<1> QED
  BY <1>1, <1>2, PTL DEF DispatchSpec

\* What a connection delivers reaches Read and the components in order and once,
\* for any number of messages, components and jobs (network.go dispatchMessage,
\* client.go executeJobs, handleBytes, Read).
THEOREM MessagesInOrder == DispatchSpec => []DeliveredInOrder
<1>1. ASSUME DispatchInv PROVE DeliveredInOrder
  <2>1. \A i \in 1..(Len(Bytes) - 1) : Bytes[i] < Bytes[i + 1]
    <3>1. Bytes \in Seq(Msgs) /\ \A i, j \in 1..Len(Bytes) : i < j => Bytes[i] < Bytes[j]
      BY <1>1 DEF DispatchInv, DispatchType, BytesInv, Bytes
    <3> QED
      BY <3>1
  <2>2. ASSUME NEW c \in 1..NComponents, c > 1 PROVE Range(log[c]) \subseteq Range(log[c - 1])
    <3>1. c - 1 \in 1..NComponents
      BY <2>2, DispatchAssumption
    <3>2. ASSUME NEW i \in DOMAIN log[c] PROVE log[c][i] \in Range(log[c - 1])
      <4>1. log[c] \in Seq(Msgs) /\ log[c - 1] \in Seq(Msgs) /\ handler \in [Msgs -> -1..NComponents]
        BY Zenon, <1>1, <3>1 DEF DispatchInv, DispatchType
      <4>2. PICK m \in Msgs : m = log[c][i] /\ handler[m] >= c
        BY <1>1, <3>2, <4>1 DEF DispatchInv, LogInv, Received
      <4>3. handler[m] >= c - 1
        BY <4>1, <4>2
      <4>4. PICK j \in 1..Len(log[c - 1]) : log[c - 1][j] = m
        BY Zenon, <1>1, <3>1, <4>3 DEF DispatchInv, LogInv, Received
      <4>5. j \in DOMAIN log[c - 1]
        BY <4>1
      <4> QED
        BY Zenon, <4>2, <4>4, <4>5 DEF Range
    <3> QED
      BY Zenon, <3>2 DEF Range
  <2> QED
    BY Zenon, <1>1, <2>1, <2>2 DEF DispatchInv, LogInv, Received, DeliveredInOrder, Bytes
<1> QED
  BY <1>1, DispatchInductive, PTL
=============================================================================
