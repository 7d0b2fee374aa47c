--------------------------- MODULE DeliveryProofs ---------------------------
(***************************************************************************)
(* A message reaches whom it is for, once and whole: the frames of one     *)
(* connection (Streams), for every number of senders, messages and streams *)
(* and every length of the queue, and the broadcasts (Broadcast), for      *)
(* every set of peers and every K.                                         *)
(*                                                                         *)
(* FramesWhole is not inductive: it says nothing of a head that is still   *)
(* alone at the end of the wire.  The invariant says who owns that head,   *)
(* that its owner holds writerMutex, and that nobody else does.  A holder  *)
(* may be a goroutine started for a queued message, so that a message must *)
(* not be queued twice.                                                    *)
(*                                                                         *)
(* BroadcastReaches speaks of a broadcast that has ended.  The invariant   *)
(* says for every peer that stays under its ID what the method has done so *)
(* far: a Range that writes has written to the peers it has called back    *)
(* for, a list names a peer at most once and not after it was written to,  *)
(* and BroadcastRandomly has noted one client for every key, which is why  *)
(* K peers or fewer are all written to.                                    *)
(***************************************************************************)
EXTENDS Streams, Broadcast, FiniteSetTheorems, TLAPS

Writing == {"put", "send", "flush", "failed", "closing"}
GoWriting == {"look", "deref", "lockStream", "relook", "send", "flush"}
Frame == Nonce \X {"head", "tail"}

SenderPC == Writing \cup {"idle", "lock", "closeStream"}
GoPC == GoWriting \cup {"none", "lock", "done"}
Arg == Nonce \cup StreamID \cup {None}

TypeOK ==
    /\ idIncCounter \in 0..MaxStreams
    /\ messageNonce \in 0..MaxNonce
    /\ StreamSendQueue \in Seq(Nonce)
    /\ gpc \in [Nonce -> GoPC]
    /\ pc \in [Senders -> SenderPC]
    /\ arg \in [Senders -> Arg]
    /\ wire \in Seq(Frame)

\* writerMutex has one holder at most, and the code between Lock and Unlock runs
\* only in the holder.
Exclusive ==
    /\ \A t \in Senders : pc[t] \in Writing => writerMutex = t
    /\ \A n \in Nonce : gpc[n] \in GoWriting => writerMutex = n

\* A message is with its sender, in the queue, or with its goroutine.
Once ==
    /\ \A n \in Nonce : n > messageNonce => gpc[n] = "none"
    /\ \A i \in 1..Len(StreamSendQueue) :
         /\ StreamSendQueue[i] <= messageNonce /\ gpc[StreamSendQueue[i]] = "none"
         /\ \A j \in 1..Len(StreamSendQueue) : StreamSendQueue[i] = StreamSendQueue[j] => i = j
    /\ \A t \in Senders :
         /\ pc[t] \in {"put", "send", "flush"} => arg[t] \in Nonce /\ arg[t] <= messageNonce
         /\ pc[t] = "put" => gpc[arg[t]] = "none"
         /\ pc[t] = "put" => \A i \in 1..Len(StreamSendQueue) : StreamSendQueue[i] # arg[t]

\* A head without its tail belongs to the one who is about to flush, or the
\* connection is broken.
Owned ==
    wire # <<>> /\ wire[Len(wire)][2] = "head" /\ ~broken =>
        \/ \E t \in Senders : pc[t] = "flush" /\ arg[t] = wire[Len(wire)][1]
        \/ gpc[wire[Len(wire)][1]] = "flush"

IInv == TypeOK /\ Exclusive /\ Once /\ Owned /\ FramesWhole

USE DEF mux, messages, queue, mutexes, senders, conn
-----------------------------------------------------------------------------
(* What a move of one sender, a move of one goroutine and a write do. *)

\* The parts of the invariant.
LEMMA Parts ==
    ASSUME IInv
    PROVE  TypeOK /\ Exclusive /\ Once /\ Owned /\ FramesWhole
  BY DEF IInv

\* Senders, nonces and None are told apart.
LEMMA Names ==
    /\ None \notin Senders /\ None \notin Nonce /\ \A t \in Senders : t \notin Nonce
    /\ Nonce \subseteq Arg /\ StreamID \subseteq Arg /\ None \in Arg
    /\ Nonce \subseteq Int
  BY StreamsAssumption DEF Arg, Nonce

\* What Goto does to the sender and to the others.
LEMMA SenderStep ==
    ASSUME IInv, NEW t \in Senders, NEW l \in SenderPC, NEW a \in Arg, Goto(t, l, a)
    PROVE  /\ pc' \in [Senders -> SenderPC] /\ arg' \in [Senders -> Arg]
           /\ pc'[t] = l /\ arg'[t] = a
           /\ \A u \in Senders \ {t} : pc'[u] = pc[u] /\ arg'[u] = arg[u]
  BY Zenon, Parts DEF TypeOK, Goto

\* What GoGoto does to the goroutine of a message and to the others.
LEMMA GoStep ==
    ASSUME IInv, NEW n \in Nonce, NEW l \in GoPC, GoGoto(n, l)
    PROVE  /\ gpc' \in [Nonce -> GoPC]
           /\ gpc'[n] = l
           /\ \A m \in Nonce \ {n} : gpc'[m] = gpc[m]
  BY Zenon, Parts DEF TypeOK, GoGoto

\* Whoever enters the critical section takes the mutex, and it was free or its own.
LEMMA SenderExclusive ==
    ASSUME IInv, NEW t \in Senders, NEW l \in SenderPC, NEW a \in Arg, Goto(t, l, a), UNCHANGED gpc,
           l \in Writing => writerMutex' = t /\ writerMutex \in {None, t},
           l \notin Writing => \/ writerMutex' = writerMutex /\ pc[t] \notin Writing
                               \/ writerMutex' = None /\ writerMutex = t
    PROVE  Exclusive'
  BY Parts, SenderStep, Names DEF Exclusive

\* A goroutine that takes, keeps or gives back writerMutex leaves it with at
\* most one.
LEMMA GoExclusive ==
    ASSUME IInv, NEW n \in Nonce, NEW l \in GoPC, GoGoto(n, l), UNCHANGED pc,
           l \in GoWriting => writerMutex' = n /\ writerMutex \in {None, n},
           l \notin GoWriting => \/ writerMutex' = writerMutex /\ gpc[n] \notin GoWriting
                                 \/ writerMutex' = None /\ writerMutex = n
    PROVE  Exclusive'
  BY Parts, GoStep, Names DEF Exclusive

\* What is appended after a lonely head is its tail.
LEMMA PutStep ==
    ASSUME wire \in Seq(Frame), FramesWhole, NEW n \in Nonce, NEW part \in {"head", "tail"},
           wire' = Append(wire, <<n, part>>),
           wire # <<>> /\ wire[Len(wire)][2] = "head" => wire[Len(wire)][1] = n /\ part = "tail"
    PROVE  wire' \in Seq(Frame) /\ FramesWhole' /\ wire'[Len(wire')] = <<n, part>>
<1>1. /\ Len(wire') = Len(wire) + 1 /\ Len(wire) \in Nat /\ wire'[Len(wire')] = <<n, part>>
      /\ wire' \in Seq(Frame)
      /\ \A i \in 1..Len(wire) : wire'[i] = wire[i] /\ wire[i] \in Frame
  BY DEF Frame
<1>2. ASSUME NEW i \in 1..Len(wire') - 1, wire'[i][2] = "head"
      PROVE  wire'[i + 1] = <<wire'[i][1], "tail">>
  <2>1. CASE i < Len(wire)
    BY <1>1, <1>2, <2>1 DEF FramesWhole
  <2>2. CASE i = Len(wire)
    <3>1. wire # <<>> /\ wire'[i] = wire[Len(wire)]
      BY <1>1, <2>2
    <3> QED BY Zenon, <1>1, <1>2, <2>2, <3>1
  <2> QED BY <1>1, <2>1, <2>2
<1> QED BY Zenon, <1>1, <1>2 DEF FramesWhole

\* Nobody at the final Flush moves, and nothing is written.
LEMMA OwnedSame ==
    ASSUME IInv, UNCHANGED wire, broken => broken',
           \A t \in Senders : pc[t] = "flush" => pc'[t] = "flush" /\ arg'[t] = arg[t],
           \A n \in Nonce : gpc[n] = "flush" => gpc'[n] = "flush"
    PROVE  Owned' /\ FramesWhole' /\ wire' \in Seq(Frame)
<1>1. wire # <<>> => wire[Len(wire)][1] \in Nonce
  BY Parts DEF TypeOK, Frame
<1> QED BY Zenon, <1>1, Parts DEF Owned, FramesWhole, TypeOK

\* A sender that queues nothing leaves the messages queued once.
LEMMA SenderOnce ==
    ASSUME IInv, NEW t \in Senders, NEW l \in SenderPC, NEW a \in Arg, Goto(t, l, a),
           UNCHANGED <<StreamSendQueue, gpc, messageNonce>>,
           l # "put", l \in {"send", "flush"} => pc[t] \in {"send", "flush"} /\ a = arg[t]
    PROVE  Once'
  BY Parts, SenderStep DEF Once

\* So does a goroutine that runs.
LEMMA GoOnce ==
    ASSUME IInv, NEW n \in Nonce, NEW l \in GoPC, GoGoto(n, l), gpc[n] # "none",
           UNCHANGED <<StreamSendQueue, messageNonce, pc, arg>>
    PROVE  Once'
<1>1. gpc'[n] = l /\ \A m \in Nonce \ {n} : gpc'[m] = gpc[m]
  BY Zenon, GoStep
<1>2. \A m \in Nonce : gpc[m] = "none" => gpc'[m] = "none"
  BY Zenon, <1>1
<1>3. \A i \in 1..Len(StreamSendQueue) : StreamSendQueue[i] \in Nonce
  BY Parts DEF TypeOK
<1> QED BY Zenon, <1>2, <1>3, Parts DEF Once

\* A sender moves outside sendMessage, and no message changes hands.
LEMMA SenderQuiet ==
    ASSUME IInv, NEW t \in Senders, NEW l \in SenderPC, NEW a \in Arg, Goto(t, l, a),
           UNCHANGED <<StreamSendQueue, gpc, messageNonce, idIncCounter, wire, broken>>,
           pc[t] # "flush", l \notin {"put", "send", "flush"},
           l \in Writing => writerMutex' = t /\ writerMutex \in {None, t},
           l \notin Writing => \/ writerMutex' = writerMutex /\ pc[t] \notin Writing
                               \/ writerMutex' = None /\ writerMutex = t
    PROVE  IInv'
<1>1. Exclusive'
  BY Zenon, SenderExclusive
<1>2. Once'
  BY Zenon, SenderOnce
<1>3. Owned' /\ FramesWhole' /\ wire' \in Seq(Frame)
  BY SenderStep, OwnedSame
<1>4. TypeOK'
  BY Zenon, <1>3, Parts, SenderStep DEF TypeOK
<1> QED BY Zenon, <1>1, <1>2, <1>3, <1>4 DEF IInv
-----------------------------------------------------------------------------
(* The steps. *)

\* A call begins: OpenStream, CloseStream, Write or StreamWrite.
LEMMA CallerIInv ==
    ASSUME IInv, NEW t \in Senders, Caller(t)
    PROVE  IInv'
<1>1. ASSUME OpenStream(t) PROVE IInv'
  <2>1. UNCHANGED <<messages, queue, gpc, mutexes, senders, conn>> /\ idIncCounter' \in 0..MaxStreams
    BY <1>1, Parts, StreamsAssumption DEF OpenStream, TypeOK
  <2>2. Exclusive' /\ Once'
    BY <2>1, Parts DEF Exclusive, Once
  <2>3. Owned' /\ FramesWhole' /\ wire' \in Seq(Frame)
    BY Zenon, <2>1, OwnedSame
  <2> QED BY Zenon, <2>1, <2>2, <2>3, Parts DEF IInv, TypeOK
<1>2. ASSUME NEW s \in 1..idIncCounter \cup {None}, Begin(t, s) PROVE IInv'
  <2>1. s \in Arg
    BY Parts, Names, StreamsAssumption DEF TypeOK, StreamID
  <2>2. "lock" \in SenderPC /\ "lock" \notin Writing /\ "idle" \notin Writing
    BY DEF SenderPC, Writing
  <2> QED BY Zenon, <1>2, <2>1, <2>2, SenderQuiet DEF Begin
<1>3. ASSUME NEW s \in 1..idIncCounter, CloseStream(t, s) PROVE IInv'
  <2>1. s \in Arg
    BY Parts, Names, StreamsAssumption DEF TypeOK, StreamID
  <2>2. "closeStream" \in SenderPC /\ "closeStream" \notin Writing /\ "idle" \notin Writing
    BY DEF SenderPC, Writing
  <2> QED BY Zenon, <1>3, <2>1, <2>2, SenderQuiet DEF CloseStream
<1> QED BY Zenon, <1>1, <1>2, <1>3 DEF Caller

\* The new nonce is nobody's yet.
LEMMA LockWriterIInv ==
    ASSUME IInv, NEW t \in Senders, LockWriter(t)
    PROVE  IInv'
<1> DEFINE n == messageNonce + 1
<1>1. /\ pc[t] = "lock" /\ writerMutex = None /\ messageNonce' = n /\ n \in Nonce
      /\ messageNonce \in Nat
      /\ UNCHANGED <<queue, gpc, conn, idIncCounter>>
      /\ \/ writerMutex' = t /\ (Goto(t, "send", n) \/ Goto(t, "put", n))
         \/ writerMutex' = None /\ Goto(t, "idle", None)
  BY Parts, StreamsAssumption DEF LockWriter, TypeOK, Nonce
<1> HIDE DEF n
<1>2. PICK l \in {"send", "put", "idle"}, a \in {n, None} :
        /\ Goto(t, l, a) /\ (l # "idle" => a = n) /\ (l = "idle" => a = None)
        /\ writerMutex' = IF l = "idle" THEN None ELSE t
  BY Zenon, <1>1
<1>3. l \in SenderPC /\ a \in Arg /\ (l \in Writing <=> l # "idle") /\ pc[t] \notin Writing
  BY Zenon, <1>1, Names DEF SenderPC, Writing
<1>4. Exclusive'
  <2>1. CASE l = "idle"
    BY Zenon, <1>1, <1>2, <1>3, <2>1, SenderExclusive
  <2>2. CASE l # "idle"
    BY Zenon, <1>1, <1>2, <1>3, <2>2, SenderExclusive
  <2> QED BY Zenon, <2>1, <2>2
<1>5. /\ pc' \in [Senders -> SenderPC] /\ arg' \in [Senders -> Arg] /\ pc'[t] = l /\ arg'[t] = a
      /\ \A u \in Senders \ {t} : pc'[u] = pc[u] /\ arg'[u] = arg[u]
  BY Zenon, <1>2, <1>3, SenderStep
<1>6. Owned' /\ FramesWhole' /\ wire' \in Seq(Frame)
  BY Zenon, <1>1, <1>5, OwnedSame
<1>7. Once'
  <2>1. messageNonce' = messageNonce + 1 /\ messageNonce \in Int /\ n = messageNonce + 1 /\ Nonce \subseteq Int
    BY <1>1, Names DEF n
  <2>2. gpc[n] = "none" /\ \A i \in 1..Len(StreamSendQueue) : StreamSendQueue[i] # n
    BY <1>1, <2>1, Parts DEF Once, TypeOK
  <2>3. \A m \in Nonce : m <= messageNonce => m <= messageNonce'
    BY <2>1
  <2>4. \A m \in Nonce : m > messageNonce' => m > messageNonce
    BY <2>1
  <2>5. \A i \in 1..Len(StreamSendQueue) : StreamSendQueue[i] \in Nonce
    BY Parts DEF TypeOK
  <2>6. \A m \in Nonce : (m > messageNonce => gpc[m] = "none")'
    BY Zenon, <1>1, <2>4, Parts DEF Once
  <2>7. \A i \in 1..Len(StreamSendQueue) :
          /\ StreamSendQueue[i] <= messageNonce' /\ gpc[StreamSendQueue[i]] = "none"
          /\ \A j \in 1..Len(StreamSendQueue) : StreamSendQueue[i] = StreamSendQueue[j] => i = j
    BY Zenon, <2>3, <2>5, Parts DEF Once
  <2>8. ASSUME NEW u \in Senders
        PROVE  /\ pc'[u] \in {"put", "send", "flush"} => arg'[u] \in Nonce /\ arg'[u] <= messageNonce'
               /\ pc'[u] = "put" => gpc[arg'[u]] = "none"
               /\ pc'[u] = "put" => \A i \in 1..Len(StreamSendQueue) : StreamSendQueue[i] # arg'[u]
    <3>1. CASE u = t
      BY <1>1, <1>2, <1>5, <2>1, <2>2, <3>1
    <3>2. CASE u # t
      <4>1. pc'[u] = pc[u] /\ arg'[u] = arg[u]
        BY Zenon, <1>5, <3>2
      <4> QED BY Zenon, <2>3, <4>1, Parts DEF Once
    <3> QED BY Zenon, <3>1, <3>2
  <2> QED BY Zenon, <1>1, <2>6, <2>7, <2>8 DEF Once
<1>8. TypeOK'
  <2>1. messageNonce' \in 0..MaxNonce
    BY <1>1, StreamsAssumption DEF Nonce
  <2> QED BY Zenon, <1>1, <1>5, <1>6, <2>1, Parts DEF TypeOK
<1> QED BY Zenon, <1>4, <1>6, <1>7, <1>8 DEF IInv

\* The message goes from its sender to the end of the queue.
LEMMA EnqueueIInv ==
    ASSUME IInv, NEW t \in Senders, Enqueue(t)
    PROVE  IInv'
<1>1. /\ pc[t] = "put" /\ writerMutex' = None /\ Goto(t, "idle", None)
      /\ UNCHANGED <<gpc, wire, broken, idIncCounter, messageNonce>>
      /\ StreamSendQueue' \in {StreamSendQueue, Append(StreamSendQueue, arg[t])}
  BY DEF Enqueue
<1>2. writerMutex = t /\ "idle" \in SenderPC /\ "idle" \notin Writing
  BY Zenon, <1>1, Parts DEF Exclusive, Writing, SenderPC
<1>3. /\ pc' \in [Senders -> SenderPC] /\ arg' \in [Senders -> Arg] /\ pc'[t] = "idle"
      /\ \A u \in Senders \ {t} : pc'[u] = pc[u] /\ arg'[u] = arg[u]
  BY Zenon, <1>1, <1>2, SenderStep, Names
<1>4. Exclusive'
  BY Zenon, <1>1, <1>2, SenderExclusive, Names
<1>5. Owned' /\ FramesWhole' /\ wire' \in Seq(Frame)
  BY Zenon, <1>1, <1>3, OwnedSame
<1>6. /\ arg[t] \in Nonce /\ arg[t] <= messageNonce /\ gpc[arg[t]] = "none"
      /\ \A i \in 1..Len(StreamSendQueue) : StreamSendQueue[i] # arg[t]
      /\ StreamSendQueue \in Seq(Nonce)
  BY Zenon, <1>1, Parts DEF Once, TypeOK
<1>7. StreamSendQueue' \in Seq(Nonce)
  BY <1>1, <1>6
<1>8. Once'
  <2>1. \A u \in Senders : pc'[u] # "put"
    BY Zenon, <1>2, <1>3, Parts DEF Exclusive, Writing
  <2>2. \A i \in 1..Len(StreamSendQueue)' :
          /\ StreamSendQueue'[i] <= messageNonce /\ gpc[StreamSendQueue'[i]] = "none"
          /\ \A j \in 1..Len(StreamSendQueue)' : StreamSendQueue'[i] = StreamSendQueue'[j] => i = j
    <3>1. CASE StreamSendQueue' = StreamSendQueue
      BY <3>1, Parts DEF Once
    <3>2. CASE StreamSendQueue' = Append(StreamSendQueue, arg[t])
      <4>1. /\ Len(StreamSendQueue)' = Len(StreamSendQueue) + 1
            /\ StreamSendQueue'[Len(StreamSendQueue) + 1] = arg[t]
            /\ \A i \in 1..Len(StreamSendQueue) : StreamSendQueue'[i] = StreamSendQueue[i]
        BY <1>6, <3>2
      <4> QED BY <1>6, <4>1, Parts DEF Once
    <3> QED BY Zenon, <1>1, <3>1, <3>2
  <2> QED BY Zenon, <1>1, <1>3, <2>1, <2>2, Parts DEF Once
<1>9. TypeOK'
  BY Zenon, <1>1, <1>3, <1>5, <1>7, Parts DEF TypeOK
<1> QED BY Zenon, <1>4, <1>5, <1>8, <1>9 DEF IInv

\* The holder appends to a wire that ends with its own head or with no head.
LEMMA SendIInv ==
    ASSUME IInv, NEW t \in Senders, Send(t)
    PROVE  IInv'
<1>1. /\ pc[t] \in {"send", "flush"} /\ UNCHANGED <<StreamSendQueue, messageNonce, idIncCounter, gpc>>
      /\ "idle" \in SenderPC /\ "flush" \in SenderPC /\ "failed" \in SenderPC
      /\ "flush" \in Writing /\ "failed" \in Writing /\ "idle" \notin Writing /\ "send" \in Writing
  BY DEF Send, SenderPC, Writing
<1>2. writerMutex = t /\ arg[t] \in Nonce /\ arg[t] \in Arg /\ None \in Arg
  BY Zenon, <1>1, Parts, Names DEF Exclusive, Once
<1>3. ASSUME wire # <<>>, wire[Len(wire)][2] = "head", ~broken
      PROVE  pc[t] = "flush" /\ wire[Len(wire)][1] = arg[t]
  <2>1. wire[Len(wire)][1] \in Nonce
    BY <1>3, Parts DEF TypeOK, Frame
  <2>2. gpc[wire[Len(wire)][1]] # "flush"
    BY Zenon, <1>2, <2>1, Parts, Names DEF Exclusive, GoWriting
  <2> QED BY Zenon, <1>1, <1>2, <1>3, <2>2, Parts DEF Owned, Exclusive, Writing
<1>4. CASE pc[t] = "send" /\ Put(arg[t], "head") /\ Goto(t, "flush", arg[t]) /\ UNCHANGED writerMutex
  <2>1. Exclusive' /\ Once'
    BY Zenon, <1>1, <1>2, <1>4, SenderExclusive, SenderOnce
  <2>2. wire' \in Seq(Frame) /\ FramesWhole' /\ wire'[Len(wire')] = <<arg[t], "head">>
    BY Zenon, <1>2, <1>3, <1>4, PutStep, Parts DEF Put, TypeOK
  <2>3. pc' \in [Senders -> SenderPC] /\ arg' \in [Senders -> Arg] /\ pc'[t] = "flush" /\ arg'[t] = arg[t]
    BY Zenon, <1>1, <1>2, <1>4, SenderStep
  <2>4. Owned'
    BY <2>2, <2>3 DEF Owned
  <2> QED BY Zenon, <1>1, <2>1, <2>2, <2>3, <2>4, Parts DEF IInv, TypeOK
<1>5. CASE pc[t] = "flush" /\ Put(arg[t], "tail") /\ Goto(t, "idle", None) /\ writerMutex' = None
  <2>1. Exclusive' /\ Once'
    BY Zenon, <1>1, <1>2, <1>5, SenderExclusive, SenderOnce
  <2>2. wire' \in Seq(Frame) /\ FramesWhole' /\ wire'[Len(wire')] = <<arg[t], "tail">>
    BY Zenon, <1>2, <1>3, <1>5, PutStep, Parts DEF Put, TypeOK
  <2>3. pc' \in [Senders -> SenderPC] /\ arg' \in [Senders -> Arg]
    BY Zenon, <1>1, <1>2, <1>5, SenderStep
  <2>4. Owned'
    BY <2>2 DEF Owned
  <2> QED BY Zenon, <1>1, <2>1, <2>2, <2>3, <2>4, Parts DEF IInv, TypeOK
<1>6. CASE PutError /\ Goto(t, "failed", None) /\ UNCHANGED writerMutex
  <2>1. Exclusive' /\ Once'
    BY Zenon, <1>1, <1>2, <1>6, SenderExclusive, SenderOnce
  <2>2. pc' \in [Senders -> SenderPC] /\ arg' \in [Senders -> Arg]
    BY Zenon, <1>1, <1>2, <1>6, SenderStep
  <2>3. Owned' /\ FramesWhole'
    BY Zenon, <1>6, Parts DEF Owned, FramesWhole, PutError
  <2> QED BY Zenon, <1>1, <1>6, <2>1, <2>2, <2>3, Parts DEF IInv, TypeOK, PutError
<1> QED BY Zenon, <1>4, <1>5, <1>6 DEF Send

\* The further steps of a call: it writes its frame or queues its message,
\* closes the client after an error, or deletes the stream.
LEMMA SenderIInv ==
    ASSUME IInv, NEW t \in Senders, Sender(t)
    PROVE  IInv'
<1>1. /\ {"idle", "closing"} \subseteq SenderPC /\ {"failed", "closing"} \subseteq Writing
      /\ "idle" \notin Writing /\ "closeStream" \notin Writing /\ None \in Arg
  BY Zenon, Names DEF SenderPC, Writing
<1>2. pc[t] \in {"failed", "closing"} => writerMutex = t
  BY Zenon, <1>1, Parts DEF Exclusive
<1>3. ASSUME CloseAfterError(t) PROVE IInv'
  BY Zenon, <1>1, <1>2, <1>3, SenderQuiet DEF CloseAfterError
<1>4. ASSUME Closed(t) PROVE IInv'
  BY Zenon, <1>1, <1>2, <1>4, SenderQuiet DEF Closed
<1>5. ASSUME DeleteStream(t) PROVE IInv'
  BY Zenon, <1>1, <1>5, SenderQuiet DEF DeleteStream
<1> QED BY Zenon, <1>3, <1>4, <1>5, LockWriterIInv, EnqueueIInv, SendIInv DEF Sender

\* The message goes from the queue to its goroutine; the rest of the queue is
\* other messages.
LEMMA TakeIInv ==
    ASSUME IInv, Take
    PROVE  IInv'
<1> DEFINE q == StreamSendQueue
           n == Head(q)
<1>1. /\ q # <<>> /\ q' = Tail(q)
      /\ UNCHANGED <<idIncCounter, messageNonce, writerMutex, pc, arg, wire, broken>>
      /\ GoGoto(n, "lock") \/ GoGoto(n, "done")
  BY DEF Take
<1>2. PICK l \in {"lock", "done"} : GoGoto(n, l)
  BY Zenon, <1>1
<1>3. q \in Seq(Nonce) /\ Len(q) \in Nat /\ Len(q) > 0 /\ n = q[1] /\ n \in Nonce
  BY <1>1, Parts DEF TypeOK
<1>4. q' \in Seq(Nonce) /\ Len(q') = Len(q) - 1 /\ \A i \in 1..Len(q) - 1 : q'[i] = q[i + 1] /\ q[i + 1] \in Nonce
  BY <1>1, <1>3
<1>5. gpc[n] = "none" /\ n <= messageNonce /\ \A i \in 1..Len(q) - 1 : q[i + 1] # n
  BY <1>3, Parts DEF Once
<1>6. l \in GoPC /\ l \notin GoWriting /\ gpc[n] \notin GoWriting
  BY Zenon, <1>5 DEF GoPC, GoWriting
<1>7. gpc' \in [Nonce -> GoPC] /\ gpc'[n] = l /\ \A m \in Nonce \ {n} : gpc'[m] = gpc[m]
  BY Zenon, <1>2, <1>3, <1>6, GoStep
<1>8. Exclusive'
  BY Zenon, <1>1, <1>2, <1>3, <1>6, GoExclusive
<1>9. Owned' /\ FramesWhole' /\ wire' \in Seq(Frame)
  BY Zenon, <1>1, <1>5, <1>7, OwnedSame
<1>10. Once'
  <2>1. \A m \in Nonce : m > messageNonce => gpc'[m] = "none"
    BY <1>3, <1>5, <1>7, Names, Parts DEF Once, TypeOK
  <2>2. ASSUME NEW i \in 1..Len(q')
        PROVE  /\ q'[i] <= messageNonce /\ gpc'[q'[i]] = "none"
               /\ \A j \in 1..Len(q') : q'[i] = q'[j] => i = j
    <3>1. i \in 1..Len(q) - 1 /\ i + 1 \in 1..Len(q)
      BY <1>3, <1>4
    <3>2. q[i + 1] <= messageNonce /\ gpc[q[i + 1]] = "none"
          /\ \A k \in 1..Len(q) : q[i + 1] = q[k] => i + 1 = k
      BY Zenon, <3>1, Parts DEF Once
    <3>3. \A j \in 1..Len(q') : q'[i] = q'[j] => i = j
      BY <1>3, <1>4, <3>1, <3>2
    <3> QED BY Zenon, <1>4, <1>5, <1>7, <3>1, <3>2, <3>3
  <2>3. ASSUME NEW t \in Senders, pc[t] = "put"
        PROVE  gpc'[arg[t]] = "none" /\ \A i \in 1..Len(q') : q'[i] # arg[t]
    <3>1. arg[t] \in Nonce /\ gpc[arg[t]] = "none" /\ \A i \in 1..Len(q) : q[i] # arg[t]
      BY Zenon, <2>3, Parts DEF Once
    <3>2. arg[t] # n
      BY <1>3, <3>1
    <3>3. \A i \in 1..Len(q) - 1 : q[i + 1] # arg[t]
      BY <1>3, <3>1
    <3>4. \A i \in 1..Len(q') : q'[i] # arg[t]
      BY <1>4, <3>3
    <3> QED BY Zenon, <1>7, <3>1, <3>2, <3>4
  <2>4. \A t \in Senders : pc[t] \in {"put", "send", "flush"} => arg[t] \in Nonce /\ arg[t] <= messageNonce
    BY Zenon, Parts DEF Once
  <2> QED BY Zenon, <1>1, <2>1, <2>2, <2>3, <2>4 DEF Once
<1>11. TypeOK'
  BY Zenon, <1>1, <1>4, <1>7, <1>9, Parts DEF TypeOK
<1> QED BY Zenon, <1>8, <1>9, <1>10, <1>11 DEF IInv

\* A goroutine moves without writing.
LEMMA GoQuiet ==
    ASSUME IInv, NEW n \in Nonce, NEW l \in GoPC, GoGoto(n, l), gpc[n] \notin {"none", "flush"},
           UNCHANGED <<StreamSendQueue, messageNonce, idIncCounter, pc, arg, wire>>, broken => broken',
           l \in GoWriting => writerMutex' = n /\ writerMutex \in {None, n},
           l \notin GoWriting => writerMutex' = None /\ writerMutex = n
    PROVE  IInv'
<1>1. Exclusive' /\ Once'
  BY Zenon, GoExclusive, GoOnce
<1>2. Owned' /\ FramesWhole' /\ wire' \in Seq(Frame)
  BY Zenon, GoStep, OwnedSame
<1>3. TypeOK'
  BY Zenon, <1>2, GoStep, Parts DEF TypeOK
<1> QED BY Zenon, <1>1, <1>2, <1>3 DEF IInv

\* A goroutine of a queued message.  The frame it sends cannot meet the frame of
\* another: both would have to hold writerMutex.
LEMMA GoroutineIInv ==
    ASSUME IInv, NEW n \in Nonce, Goroutine(n)
    PROVE  IInv'
<1>1. /\ {"look", "deref", "lockStream", "relook", "send", "flush"} \subseteq GoWriting
      /\ GoWriting \subseteq GoPC /\ "done" \in GoPC /\ "done" \notin GoWriting
  BY DEF GoWriting, GoPC
<1>2. gpc[n] \in GoWriting => writerMutex = n
  BY Zenon, Parts DEF Exclusive
<1>3. ASSUME GoLock(n) PROVE IInv'
  BY Zenon, <1>1, <1>3, GoQuiet DEF GoLock
<1>4. ASSUME GoLook(n) PROVE IInv'
  BY Zenon, <1>1, <1>2, <1>4, GoQuiet DEF GoLook, GoReturn
<1>5. ASSUME GoDeref(n) PROVE IInv'
  BY Zenon, <1>1, <1>2, <1>5, GoQuiet DEF GoDeref
<1>6. ASSUME GoLockStream(n) PROVE IInv'
  BY Zenon, <1>1, <1>2, <1>6, GoQuiet DEF GoLockStream
<1>7. ASSUME gpc[n] \in {"send", "flush"}, wire # <<>>, wire[Len(wire)][2] = "head", ~broken
      PROVE  gpc[n] = "flush" /\ wire[Len(wire)][1] = n
  <2>1. wire[Len(wire)][1] \in Nonce /\ writerMutex = n
    BY <1>1, <1>2, <1>7, Parts DEF TypeOK, Frame
  <2>2. \A t \in Senders : pc[t] # "flush"
    BY Zenon, <2>1, Parts, Names DEF Exclusive, Writing
  <2>3. gpc[wire[Len(wire)][1]] = "flush"
    BY Zenon, <1>7, <2>2, Parts DEF Owned
  <2> QED BY Zenon, <1>1, <2>1, <2>3, Parts DEF Exclusive
<1>8. ASSUME streamSendMessage(n) PROVE IInv'
  <2>1. /\ gpc[n] = "send" /\ UNCHANGED <<StreamSendQueue, messageNonce, idIncCounter, pc, arg>>
        /\ \/ Put(n, "head") /\ GoGoto(n, "flush") /\ UNCHANGED writerMutex
           \/ (PutError \/ UNCHANGED conn) /\ GoGoto(n, "done") /\ writerMutex' = None
    BY Zenon, <1>8 DEF streamSendMessage, GoReturn
  <2>2. CASE Put(n, "head") /\ GoGoto(n, "flush") /\ UNCHANGED writerMutex
    <3>1. Exclusive' /\ Once'
      BY Zenon, <1>1, <1>2, <2>1, <2>2, GoExclusive, GoOnce
    <3>2. wire' \in Seq(Frame) /\ FramesWhole' /\ wire'[Len(wire')] = <<n, "head">>
      BY Zenon, <1>7, <2>1, <2>2, PutStep, Parts DEF Put, TypeOK
    <3>3. gpc' \in [Nonce -> GoPC] /\ gpc'[n] = "flush"
      BY Zenon, <1>1, <2>2, GoStep
    <3>4. Owned'
      BY <3>2, <3>3 DEF Owned
    <3> QED BY Zenon, <2>1, <3>1, <3>2, <3>3, <3>4, Parts DEF IInv, TypeOK
  <2>3. CASE (PutError \/ UNCHANGED conn) /\ GoGoto(n, "done") /\ writerMutex' = None
    BY <1>1, <1>2, <2>1, <2>3, GoQuiet DEF PutError
  <2> QED BY Zenon, <2>1, <2>2, <2>3
<1>9. ASSUME GoFlush(n) PROVE IInv'
  <2>1. /\ gpc[n] = "flush" /\ UNCHANGED <<StreamSendQueue, messageNonce, idIncCounter, pc, arg>>
        /\ Put(n, "tail") \/ PutError
        /\ GoGoto(n, "done") /\ writerMutex' = None
    BY Zenon, <1>9 DEF GoFlush, GoReturn
  <2>2. Exclusive' /\ Once'
    BY Zenon, <1>1, <1>2, <2>1, GoExclusive, GoOnce
  <2>3. gpc' \in [Nonce -> GoPC]
    BY Zenon, <1>1, <2>1, GoStep
  <2>4. CASE Put(n, "tail")
    <3>1. wire' \in Seq(Frame) /\ FramesWhole' /\ wire'[Len(wire')] = <<n, "tail">>
      BY Zenon, <1>7, <2>1, <2>4, PutStep, Parts DEF Put, TypeOK
    <3>2. Owned'
      BY <3>1 DEF Owned
    <3> QED BY Zenon, <2>1, <2>2, <2>3, <3>1, <3>2, Parts DEF IInv, TypeOK
  <2>5. CASE PutError
    <3>1. Owned' /\ FramesWhole'
      BY Zenon, <2>5, Parts DEF Owned, FramesWhole, PutError
    <3> QED BY Zenon, <2>1, <2>2, <2>3, <2>5, <3>1, Parts DEF IInv, TypeOK, PutError
  <2> QED BY Zenon, <2>1, <2>4, <2>5
<1> QED BY Zenon, <1>3, <1>4, <1>5, <1>6, <1>8, <1>9 DEF Goroutine
-----------------------------------------------------------------------------
\* The connection is new: nothing is queued, held or on the wire.
LEMMA InitIInv == Init => IInv
  BY StreamsAssumption DEF Init, IInv, TypeOK, Exclusive, Once, Owned, FramesWhole, Writing, GoWriting,
     SenderPC, GoPC, Arg, Frame

\* Every step keeps the invariant.
LEMMA NextIInv ==
    ASSUME IInv, [Next]_vars
    PROVE  IInv'
<1>1. CASE LoopReturn \/ BeginClose \/ CloseStep \/ UNCHANGED vars
  <2>1. UNCHANGED <<idIncCounter, messageNonce, StreamSendQueue, gpc, writerMutex, pc, arg, wire, broken>>
    BY Zenon, <1>1 DEF LoopReturn, BeginClose, CloseStep, vars
  <2>2. TypeOK' /\ Owned' /\ FramesWhole'
    BY Zenon, <2>1, Parts, OwnedSame DEF TypeOK
  <2>3. Exclusive' /\ Once'
    BY ZenonT(30), <2>1, Parts DEF Exclusive, Once
  <2> QED BY Zenon, <2>2, <2>3 DEF IInv
<1> QED BY Zenon, <1>1, CallerIInv, SenderIInv, TakeIInv, GoroutineIInv DEF Next

\* The frames of concurrent Writes and of the goroutines of loopStreamSend never
\* mix on the connection, whatever the number of senders, messages and streams,
\* and whenever the client is closed or a write fails (network.go Write,
\* StreamWrite, sendMessage, client.go loopStreamSend).
THEOREM FramesStayWhole == Spec => []FramesWhole
<1>1. Spec => []IInv
  BY InitIInv, NextIInv, PTL DEF Spec
<1>2. IInv => FramesWhole
  BY DEF IInv
<1> QED BY <1>1, <1>2, PTL
-----------------------------------------------------------------------------
Keys == UNION {Key(c) : c \in Clients}

\* A list names a client at most once, or not at all.
NamedOnce(c, list) == \A i, j \in DOMAIN list : ClientOf(list[i]) = c /\ ClientOf(list[j]) = c => i = j
Unnamed(c, list) == \A i \in DOMAIN list : ClientOf(list[i]) # c

\* Who a list has to reach.
Due(c) == method = "BroadcastByClientIDs" \/ (c \in ponged /\ Cardinality(crowd) <= K)

\* While the Range calls back for peers to write to, a peer is written to once it
\* has been called back for.
Visited(c) ==
    /\ IF Id(c) \in ranged /\ ~(method = "BroadcastToPeers" /\ c = workingProxy) THEN WrittenOnce(c) ELSE NotWritten(c)
    /\ bpc = "done" => kept \subseteq ranged

\* BroadcastRandomly takes note of the peers.
Noted(c) ==
    /\ NotWritten(c) /\ NamedOnce(c, cids) /\ (Id(c) \notin ranged => Unnamed(c, cids))
    /\ c \in ponged /\ Id(c) \in ranged => Id(c) \in Range(cids)
    /\ bpc = "shuffle" => kept \subseteq ranged \/ Cardinality(crowd) > K

\* The list is written to.
Listed(c) ==
    /\ NamedOnce(c, cids) /\ (Unnamed(c, cids) \/ NotWritten(c)) /\ (NotWritten(c) \/ WrittenOnce(c))
    /\ Due(c) => Id(c) \in Range(cids) \/ WrittenOnce(c)
    /\ bpc = "done" => cids = <<>>

ClientInv(c) ==
    /\ c \in identified /\ Addr(c) \notin crowd
    /\ method \in {"Broadcast", "BroadcastToPeers"} => Visited(c)
    /\ method = "BroadcastRandomly" /\ bpc \in {"range", "shuffle"} => Noted(c)
    /\ method = "BroadcastRandomly" /\ bpc \in {"prepare", "list", "done"} => Listed(c)
    /\ method = "BroadcastByClientIDs" /\ bpc = "prepare" => NotWritten(c)
    /\ method = "BroadcastByClientIDs" /\ bpc \in {"list", "done"} => Listed(c)

\* BroadcastRandomly notes a client for every key, and writes to as many as it
\* has chosen.
AmountInv ==
    method = "BroadcastRandomly" =>
      /\ bpc \in {"range", "shuffle"} => written = <<>> /\ Len(cids) = Cardinality(ranged)
      /\ bpc \in {"prepare", "list", "done"} => Len(written) + Len(cids) <= K

BroadcastType ==
    /\ kept \subseteq keys /\ keys \subseteq crowd /\ crowd \subseteq Keys /\ ranged \subseteq crowd
    /\ identified \subseteq Clients /\ K \in Nat /\ cids \in Seq(Keys) /\ written \in Seq(Clients)
    /\ method \in {"Broadcast", "BroadcastToPeers", "BroadcastRandomly", "BroadcastByClientIDs"}
    /\ bpc \in {"prepare", "failed", "range", "shuffle", "list", "done"}
    /\ bpc \in {"range", "shuffle"} => method # "BroadcastByClientIDs"
    /\ bpc \in {"list", "shuffle"} => method \in {"BroadcastByClientIDs", "BroadcastRandomly"}

BroadcastInv ==
    /\ BroadcastType /\ AmountInv
    /\ \A c \in Clients : Id(c) \in kept => ClientInv(c)

-----------------------------------------------------------------------------
\* Keys.
LEMMA KeyOf ==
    ASSUME NEW c, NEW d
    PROVE  /\ ClientOf(Id(c)) = c /\ ClientOf(Addr(c)) = c /\ Id(c) # Addr(d) /\ (Id(c) = Id(d) => c = d)
           /\ (Addr(c) = Addr(d) => c = d) /\ (c # d => Key(c) \cap Key(d) = {})
           /\ Id(c) \in Key(c) /\ Addr(c) \in Key(c)
<1>1. /\ ClientOf(Id(c)) = c /\ ClientOf(Addr(c)) = c /\ Id(c) # Addr(d) /\ (Id(c) = Id(d) => c = d)
      /\ (Addr(c) = Addr(d) => c = d) /\ Id(d) # Addr(c)
  BY DEF ClientOf, Id, Addr
<1> QED
  BY Zenon, <1>1 DEF Key

\* A key is a key of the client it names.
LEMMA KeysOf ==
    ASSUME NEW key \in Keys
    PROVE  ClientOf(key) \in Clients /\ key \in Key(ClientOf(key)) /\ (key = Id(ClientOf(key)) \/ key = Addr(ClientOf(key)))
<1>1. PICK c \in Clients : key \in Key(c)
  BY Zenon DEF Keys
<1>2. key = Id(c) \/ key = Addr(c)
  BY Zenon, <1>1 DEF Key
<1>3. ClientOf(key) = c
  BY Zenon, <1>2, KeyOf
<1> QED
  BY Zenon, <1>1, <1>2, <1>3

\* The ID and the address of a client are keys.
LEMMA KeysIn ==
    ASSUME NEW c \in Clients
    PROVE  Id(c) \in Keys /\ Addr(c) \in Keys
BY Zenon DEF Keys, Key

\* There are finitely many keys.
LEMMA KeysFinite == IsFiniteSet(Keys)
<1> DEFINE Ids == {Id(c) : c \in Clients}
           Addrs == {Addr(c) : c \in Clients}
<1>1. IsFiniteSet(Clients)
  BY Zenon, BroadcastAssumption
<1>2. IsFiniteSet(Ids)
  <2>1. [c \in Clients |-> Id(c)] \in Surjection(Clients, Ids)
    BY DEF Surjection
  <2> QED
    BY ONLY Zenon, <1>1, <2>1, FS_Surjection
<1>3. IsFiniteSet(Addrs)
  <2>1. [c \in Clients |-> Addr(c)] \in Surjection(Clients, Addrs)
    BY DEF Surjection
  <2> QED
    BY ONLY Zenon, <1>1, <2>1, FS_Surjection
<1>4. Keys = Ids \cup Addrs
  <2>1. Keys \subseteq Ids \cup Addrs
    BY Zenon, KeysOf
  <2>2. Ids \cup Addrs \subseteq Keys
    BY Zenon, KeysIn
  <2> QED
    BY Zenon, <2>1, <2>2
<1> HIDE DEF Ids, Addrs
<1>5. IsFiniteSet(Ids \cup Addrs)
  BY ONLY Zenon, <1>2, <1>3, FS_Union
<1> QED
  BY Zenon, <1>4, <1>5

\* A set of keys within another has no more of them.
LEMMA Fewer ==
    ASSUME NEW S, NEW T, S \subseteq T, T \subseteq Keys
    PROVE  Cardinality(S) \in Nat /\ Cardinality(T) \in Nat /\ Cardinality(S) <= Cardinality(T) /\ IsFiniteSet(S)
<1>1. IsFiniteSet(T)
  BY Zenon, KeysFinite, FS_Subset
<1>2. IsFiniteSet(S) /\ Cardinality(S) <= Cardinality(T)
  BY Zenon, <1>1, FS_Subset
<1> QED
  BY Zenon, <1>1, <1>2, FS_CardinalityType

-----------------------------------------------------------------------------
\* The lists of IDs.
LEMMA AppendNamed ==
    ASSUME NEW c, NEW list \in Seq(Keys), NEW id \in Keys
    PROVE  /\ ClientOf(id) # c /\ NamedOnce(c, list) => NamedOnce(c, Append(list, id))
           /\ ClientOf(id) # c /\ Unnamed(c, list) => Unnamed(c, Append(list, id))
           /\ Unnamed(c, list) => NamedOnce(c, Append(list, id))
           /\ Range(list) \subseteq Range(Append(list, id)) /\ id \in Range(Append(list, id))
           /\ Append(list, id) \in Seq(Keys) /\ Len(Append(list, id)) = Len(list) + 1
<1> DEFINE m == Append(list, id)
           n == Len(list)
<1>1. /\ n \in Nat /\ DOMAIN list = 1..n /\ DOMAIN m = 1..n + 1 /\ m[n + 1] = id
      /\ m \in Seq(Keys) /\ Len(m) = n + 1 /\ \A i \in 1..n : m[i] = list[i]
  OBVIOUS
<1>2. n + 1 \in DOMAIN m /\ \A i \in DOMAIN m : i = n + 1 \/ (i \in DOMAIN list /\ m[i] = list[i])
  BY <1>1
<1>3. \A i \in DOMAIN list : i \in DOMAIN m /\ m[i] = list[i]
  BY <1>1
<1> HIDE DEF m
<1>4. ClientOf(id) # c /\ NamedOnce(c, list) => NamedOnce(c, m)
  BY Zenon, <1>1, <1>2 DEF NamedOnce
<1>5. ClientOf(id) # c /\ Unnamed(c, list) => Unnamed(c, m)
  BY Zenon, <1>1, <1>2 DEF Unnamed
<1>6. Unnamed(c, list) => NamedOnce(c, m)
  BY Zenon, <1>1, <1>2 DEF Unnamed, NamedOnce
<1>7. Range(list) \subseteq Range(m) /\ id \in Range(m)
  BY Zenon, <1>1, <1>2, <1>3 DEF Range
<1> QED
  BY Zenon, <1>1, <1>4, <1>5, <1>6, <1>7 DEF m

\* What the rest of a list names.
LEMMA TailNamed ==
    ASSUME NEW c, NEW list \in Seq(Keys), list # <<>>
    PROVE  /\ NamedOnce(c, list) => NamedOnce(c, Tail(list))
           /\ Unnamed(c, list) => Unnamed(c, Tail(list)) /\ ClientOf(Head(list)) # c
           /\ NamedOnce(c, list) /\ ClientOf(Head(list)) = c => Unnamed(c, Tail(list))
           /\ \A id \in Range(list) : id = Head(list) \/ id \in Range(Tail(list))
           /\ Tail(list) \in Seq(Keys) /\ Len(Tail(list)) + 1 = Len(list) /\ Head(list) \in Keys
<1> DEFINE m == Tail(list)
           h == Head(list)
           n == Len(list)
<1>1. /\ n \in Nat /\ n > 0 /\ DOMAIN list = 1..n /\ DOMAIN m = 1..n - 1 /\ h = list[1] /\ h \in Keys
      /\ m \in Seq(Keys) /\ Len(m) + 1 = n /\ \A i \in 1..n - 1 : m[i] = list[i + 1]
  OBVIOUS
<1>2. /\ 1 \in DOMAIN list
      /\ \A i \in DOMAIN m : i + 1 \in DOMAIN list /\ i + 1 # 1 /\ m[i] = list[i + 1]
      /\ \A i, j \in DOMAIN m : i + 1 = j + 1 => i = j
      /\ \A i \in DOMAIN list : i = 1 \/ \E j \in DOMAIN m : i = j + 1
  <2>1. ASSUME NEW i \in DOMAIN list, i # 1 PROVE i - 1 \in DOMAIN m /\ i = (i - 1) + 1
    BY <1>1, <2>1
  <2> HIDE DEF m
  <2>2. \A i \in DOMAIN list : i = 1 \/ \E j \in DOMAIN m : i = j + 1
    BY Zenon, <2>1
  <2>3. /\ 1 \in DOMAIN list
        /\ \A i \in DOMAIN m : i + 1 \in DOMAIN list /\ i + 1 # 1 /\ m[i] = list[i + 1]
        /\ \A i, j \in DOMAIN m : i + 1 = j + 1 => i = j
    BY <1>1
  <2> QED
    BY Zenon, <2>2, <2>3
<1> HIDE DEF m, h
<1>3. NamedOnce(c, list) => NamedOnce(c, m)
  <2>1. SUFFICES ASSUME NamedOnce(c, list), NEW i \in DOMAIN m, NEW j \in DOMAIN m, ClientOf(m[i]) = c, ClientOf(m[j]) = c
                 PROVE  i = j
    BY Zenon DEF NamedOnce
  <2>2. i + 1 = j + 1
    BY ZenonT(30), <1>2, <2>1 DEF NamedOnce
  <2> QED
    BY Zenon, <1>2, <2>2
<1>0. h = list[1] /\ 1 \in DOMAIN list
  BY Zenon, <1>1, <1>2
<1>4. Unnamed(c, list) => Unnamed(c, m) /\ ClientOf(h) # c
  <2>1. SUFFICES ASSUME Unnamed(c, list) PROVE Unnamed(c, m) /\ ClientOf(h) # c
    BY Zenon
  <2>2. ASSUME NEW i \in DOMAIN m PROVE ClientOf(m[i]) # c
    BY ZenonT(30), <1>2, <2>1 DEF Unnamed
  <2> QED
    BY Zenon, <1>0, <2>1, <2>2 DEF Unnamed
<1>5. NamedOnce(c, list) /\ ClientOf(h) = c => Unnamed(c, m)
  <2>1. SUFFICES ASSUME NamedOnce(c, list), ClientOf(h) = c, NEW i \in DOMAIN m, ClientOf(m[i]) = c PROVE FALSE
    BY Zenon DEF Unnamed
  <2>2. i + 1 \in DOMAIN list /\ i + 1 # 1 /\ ClientOf(list[i + 1]) = c
    BY Zenon, <1>2, <2>1
  <2> QED
    BY Zenon, <1>0, <2>1, <2>2 DEF NamedOnce
<1>6. \A id \in Range(list) : id = h \/ id \in Range(m)
  <2>1. SUFFICES ASSUME NEW i \in DOMAIN list PROVE list[i] = h \/ list[i] \in Range(m)
    BY Zenon DEF Range
  <2>2. CASE i = 1
    BY Zenon, <1>0, <2>2
  <2>3. CASE i # 1
    <3>1. PICK j \in DOMAIN m : i = j + 1
      BY Zenon, <1>2, <2>3
    <3>2. m[j] = list[i]
      BY Zenon, <1>2, <3>1
    <3> QED
      BY Zenon, <3>2 DEF Range
  <2> QED
    BY Zenon, <2>2, <2>3
<1> QED
  BY Zenon, <1>1, <1>3, <1>4, <1>5, <1>6 DEF m, h

\* rand.Shuffle and the first n.
ShuffleOf(c, list, m, n) ==
    /\ m \in Seq(Keys) /\ Len(m) = n /\ (NamedOnce(c, list) => NamedOnce(c, m))
    /\ n = Len(list) => Range(list) \subseteq Range(m)

\* A shuffled list names the same clients.
LEMMA ShuffledNamed ==
    ASSUME NEW c, NEW list \in Seq(Keys), NEW p \in Bijection(1..Len(list), 1..Len(list)),
           NEW n \in Nat, n <= Len(list), NEW m, m = [i \in 1..n |-> list[p[i]]]
    PROVE  ShuffleOf(c, list, m, n)
<1>1. Len(list) \in Nat /\ DOMAIN list = 1..Len(list) /\ \A i \in 1..Len(list) : list[i] \in Keys
  OBVIOUS
<1>2. /\ p \in [1..Len(list) -> 1..Len(list)] /\ \A i, j \in 1..Len(list) : p[i] = p[j] => i = j
      /\ \A j \in 1..Len(list) : \E i \in 1..Len(list) : p[i] = j
  BY DEF Bijection, Injection, Surjection, IsInjective
<1>3. \A i \in 1..n : i \in 1..Len(list) /\ p[i] \in 1..Len(list) /\ m[i] = list[p[i]]
  <2>1. SUFFICES ASSUME NEW i \in 1..n PROVE i \in 1..Len(list) /\ p[i] \in 1..Len(list) /\ m[i] = list[p[i]]
    BY Zenon
  <2>2. i \in 1..Len(list)
    BY <1>1
  <2>3. m[i] = list[p[i]]
    BY Zenon
  <2> QED
    BY Zenon, <1>2, <2>2, <2>3
<1>4. m \in [1..n -> Keys] /\ DOMAIN m = 1..n
  BY Zenon, <1>1, <1>3
<1>5. m \in Seq(Keys) /\ Len(m) = n
  BY <1>4
<1>6. NamedOnce(c, list) => NamedOnce(c, m)
  <2>1. SUFFICES ASSUME NamedOnce(c, list), NEW i \in 1..n, NEW j \in 1..n, ClientOf(m[i]) = c, ClientOf(m[j]) = c
                 PROVE  i = j
    BY Zenon, <1>4 DEF NamedOnce
  <2>2. p[i] = p[j]
    BY Zenon, <1>1, <1>3, <2>1 DEF NamedOnce
  <2> QED
    BY Zenon, <1>2, <1>3, <2>2
<1>7. n = Len(list) => Range(list) \subseteq Range(m)
  <2>1. SUFFICES ASSUME n = Len(list), NEW j \in 1..Len(list) PROVE list[j] \in Range(m)
    BY Zenon, <1>1 DEF Range
  <2>2. PICK i \in 1..n : p[i] = j
    BY Zenon, <1>2, <2>1
  <2>3. m[i] = list[j] /\ i \in DOMAIN m
    BY Zenon, <1>3, <1>4, <2>2
  <2> QED
    BY Zenon, <2>3 DEF Range
<1> QED
  BY Zenon, <1>5, <1>6, <1>7 DEF ShuffleOf

\* What the caller of BroadcastByClientIDs lists.
LEMMA ListingNamed ==
    ASSUME NEW S, S \subseteq Clients, NEW list \in Bijection(1..Cardinality(S), {Id(d) : d \in S})
    PROVE  list \in Seq(Keys) /\ \A c \in S : NamedOnce(c, list) /\ Id(c) \in Range(list)
<1>1. Cardinality(S) \in Nat
  BY Zenon, BroadcastAssumption, FS_Subset, FS_CardinalityType
<1> DEFINE T == {Id(d) : d \in S}
<1>0. (\A t \in T : t \in Keys /\ \E d \in S : t = Id(d)) /\ \A d \in S : Id(d) \in T
  BY Zenon, KeysIn
<1> HIDE DEF T
<1>2. /\ list \in [1..Cardinality(S) -> T] /\ (\A i, j \in DOMAIN list : list[i] = list[j] => i = j)
      /\ \A t \in T : \E i \in 1..Cardinality(S) : list[i] = t
  <2>1. list \in Bijection(1..Cardinality(S), T)
    BY Zenon DEF T
  <2> QED
    BY <2>1 DEF Bijection, Injection, Surjection, IsInjective
<1>3. DOMAIN list = 1..Cardinality(S) /\ \A i \in DOMAIN list : list[i] \in T
  BY Zenon, <1>2
<1>4. list \in [1..Cardinality(S) -> Keys]
  BY Zenon, <1>0, <1>2
<1>5. list \in Seq(Keys)
  BY <1>1, <1>4
<1>6. ASSUME NEW c \in S PROVE NamedOnce(c, list)
  <2>1. SUFFICES ASSUME NEW i \in DOMAIN list, NEW j \in DOMAIN list, ClientOf(list[i]) = c, ClientOf(list[j]) = c
                 PROVE  i = j
    BY Zenon DEF NamedOnce
  <2>2. list[i] = Id(c) /\ list[j] = Id(c)
    <3>1. ASSUME NEW d \in S, ClientOf(Id(d)) = c PROVE Id(d) = Id(c)
      BY Zenon, <3>1, KeyOf
    <3> QED
      BY Zenon, <1>0, <1>3, <2>1, <3>1
  <2> QED
    BY Zenon, <1>2, <2>2
<1>7. ASSUME NEW c \in S PROVE Id(c) \in Range(list)
  <2>1. PICK i \in DOMAIN list : list[i] = Id(c)
    BY Zenon, <1>0, <1>2, <1>3
  <2> QED
    BY Zenon, <2>1 DEF Range
<1> QED
  BY Zenon, <1>5, <1>6, <1>7

-----------------------------------------------------------------------------
\* A write adds its client to those written to.
LEMMA AppendWritten ==
    ASSUME NEW c \in Clients, NEW d \in Clients, written \in Seq(Clients), written' = Append(written, d)
    PROVE  /\ c # d => (NotWritten(c) => NotWritten(c)') /\ (WrittenOnce(c) => WrittenOnce(c)')
           /\ c = d => (NotWritten(c) => WrittenOnce(c)')
<1> DEFINE n == Len(written)
<1>1. /\ n \in Nat /\ DOMAIN written = 1..n /\ DOMAIN written' = 1..n + 1 /\ written'[n + 1] = d
      /\ \A i \in 1..n : written'[i] = written[i]
  OBVIOUS
<1>2. n + 1 \in DOMAIN written' /\ \A i \in DOMAIN written' : i = n + 1 \/ (i \in DOMAIN written /\ written'[i] = written[i])
  BY <1>1
<1>3. \A i \in DOMAIN written : i \in DOMAIN written' /\ written'[i] = written[i]
  BY <1>1
<1>4. c # d /\ NotWritten(c) => NotWritten(c)'
  BY Zenon, <1>1, <1>2 DEF NotWritten
<1>5. c # d /\ WrittenOnce(c) => WrittenOnce(c)'
  <2>1. SUFFICES ASSUME c # d, WrittenOnce(c) PROVE WrittenOnce(c)'
    BY Zenon
  <2>2. PICK i \in DOMAIN written : written[i] = c /\ \A j \in DOMAIN written : written[j] = c => j = i
    BY Zenon, <2>1 DEF WrittenOnce
  <2>3. \A j \in DOMAIN written' : written'[j] = c => j = i
    BY Zenon, <1>1, <1>2, <2>1, <2>2
  <2>4. i \in DOMAIN written' /\ written'[i] = c
    BY Zenon, <1>3, <2>2
  <2> QED
    BY Zenon, <2>3, <2>4 DEF WrittenOnce
<1>6. c = d /\ NotWritten(c) => WrittenOnce(c)'
  <2>1. SUFFICES ASSUME c = d, NotWritten(c) PROVE WrittenOnce(c)'
    BY Zenon
  <2>2. \A j \in DOMAIN written' : written'[j] = c => j = n + 1
    BY Zenon, <1>2, <2>1 DEF NotWritten
  <2> QED
    BY Zenon, <1>1, <1>2, <2>1, <2>2 DEF WrittenOnce
<1> QED
  BY Zenon, <1>4, <1>5, <1>6

\* Network.Write, as far as a client c sees it.
LEMMA WriteFacts ==
    ASSUME BroadcastType, NEW d \in Clients, NEW id, Write(d, id)
    PROVE  /\ UNCHANGED <<identified, crowd>> /\ kept' \subseteq kept /\ keys' \subseteq keys /\ kept' \subseteq keys'
           /\ written' \in Seq(Clients) /\ Len(written') <= Len(written) + 1 /\ Len(written') \in Nat
           /\ id \notin keys => written' = written
           /\ \A c \in Clients : /\ c # d => (NotWritten(c) => NotWritten(c)') /\ (WrittenOnce(c) => WrittenOnce(c)')
                                 /\ id \in keys /\ Id(d) \in kept' => (NotWritten(d) => WrittenOnce(d)')
<1>1. kept \subseteq keys /\ written \in Seq(Clients)
  BY Zenon DEF BroadcastType
<1>2. CASE id \in keys /\ written' = Append(written, d) /\ UNCHANGED population
  <2>1. UNCHANGED <<identified, crowd, kept, keys>>
    BY Zenon, <1>2 DEF population
  <2>2. written' \in Seq(Clients) /\ Len(written') <= Len(written) + 1 /\ Len(written') \in Nat
    BY <1>1, <1>2
  <2> QED
    BY Zenon, <1>1, <1>2, <2>1, <2>2, AppendWritten
<1>3. CASE id \in keys /\ keys' = keys \ Key(d) /\ kept' = kept \ Key(d) /\ UNCHANGED <<written, identified, changes, crowd>>
  <2>1. Len(written') <= Len(written) + 1 /\ Len(written') \in Nat
    BY <1>1, <1>3
  <2>2. Id(d) \notin kept'
    BY Zenon, <1>3, KeyOf
  <2>3. \A c \in Clients : (NotWritten(c) => NotWritten(c)') /\ (WrittenOnce(c) => WrittenOnce(c)')
    BY Zenon, <1>3 DEF NotWritten, WrittenOnce
  <2> QED
    BY Zenon, <1>1, <1>3, <2>1, <2>2, <2>3
<1>4. CASE id \notin keys /\ UNCHANGED <<written, population>>
  <2>1. UNCHANGED <<identified, crowd, kept, keys, written>>
    BY Zenon, <1>4 DEF population
  <2>2. Len(written') <= Len(written) + 1 /\ Len(written') \in Nat
    BY <1>1, <2>1
  <2>3. \A c \in Clients : (NotWritten(c) => NotWritten(c)') /\ (WrittenOnce(c) => WrittenOnce(c)')
    BY Zenon, <2>1 DEF NotWritten, WrittenOnce
  <2> QED
    BY Zenon, <1>1, <1>4, <2>1, <2>2, <2>3
<1> QED
  BY Zenon, <1>2, <1>3, <1>4 DEF Write

-----------------------------------------------------------------------------
\* The invariant holds before a broadcast.
LEMMA BroadcastInitInv == BroadcastInit => BroadcastInv
<1> SUFFICES ASSUME BroadcastInit PROVE BroadcastInv
  OBVIOUS
<1>1. /\ identified \subseteq Clients /\ kept = keys /\ crowd = keys /\ written = <<>> /\ cids = <<>> /\ ranged = {}
      /\ method \in {"Broadcast", "BroadcastToPeers", "BroadcastRandomly", "BroadcastByClientIDs"}
      /\ bpc = IF method = "BroadcastRandomly" THEN "range" ELSE "prepare"
  BY Zenon DEF BroadcastInit
<1>2. PICK others \in SUBSET (Clients \ identified) : keys = {Id(c) : c \in identified} \cup {Addr(c) : c \in others}
  BY Zenon DEF BroadcastInit
<1>3. ASSUME NEW key \in keys PROVE \E c \in Clients : (c \in identified /\ key = Id(c)) \/ (c \notin identified /\ key = Addr(c))
  BY Zenon, <1>1, <1>2
<1>4. keys \subseteq Keys
  BY Zenon, <1>3, KeysIn
<1>5. ASSUME NEW c \in Clients, Id(c) \in keys PROVE c \in identified /\ Addr(c) \notin keys
  <2>1. c \in identified
    <3>1. PICK e \in Clients : (e \in identified /\ Id(c) = Id(e)) \/ (e \notin identified /\ Id(c) = Addr(e))
      BY Zenon, <1>3, <1>5
    <3> QED
      BY Zenon, <3>1, KeyOf
  <2>2. ASSUME Addr(c) \in keys PROVE FALSE
    <3>1. PICK e \in Clients : (e \in identified /\ Addr(c) = Id(e)) \/ (e \notin identified /\ Addr(c) = Addr(e))
      BY Zenon, <1>3, <2>2
    <3> QED
      BY Zenon, <2>1, <3>1, KeyOf
  <2> QED
    BY Zenon, <2>1, <2>2
<1>6. K \in Nat
  <2>1. K \in 0..MaxK \/ K = 0
    BY Zenon DEF BroadcastInit
  <2> QED
    BY <2>1, BroadcastAssumption
<1>7. written \in Seq(Clients) /\ cids \in Seq(Keys) /\ Len(cids) = 0 /\ DOMAIN written = {} /\ DOMAIN cids = {}
  BY <1>1
<1>8. BroadcastType
  BY Zenon, <1>1, <1>4, <1>6, <1>7 DEF BroadcastType
<1>9. AmountInv
  BY Zenon, <1>1, <1>7, FS_EmptySet DEF AmountInv
<1>10. ASSUME NEW c \in Clients PROVE NotWritten(c) /\ NamedOnce(c, cids) /\ Unnamed(c, cids)
  BY Zenon, <1>7 DEF NotWritten, NamedOnce, Unnamed
<1>11. ASSUME NEW c \in Clients, Id(c) \in kept PROVE ClientInv(c)
  <2>1. c \in identified /\ Addr(c) \notin crowd
    BY Zenon, <1>1, <1>5, <1>11
  <2>2. CASE method = "BroadcastRandomly"
    BY Zenon, <1>1, <1>10, <2>1, <2>2 DEF ClientInv, Noted
  <2>3. CASE method # "BroadcastRandomly"
    BY Zenon, <1>1, <1>10, <2>1, <2>3 DEF ClientInv, Visited
  <2> QED
    BY Zenon, <2>2, <2>3
<1> QED
  BY Zenon, <1>8, <1>9, <1>11 DEF BroadcastInv

\* The peers change: those that stay are not concerned.
LEMMA ChangeInv ==
    ASSUME BroadcastInv, Change, keys' \subseteq Keys, identified \subseteq identified', identified' \subseteq Clients,
           \A c \in identified : Addr(c) \in keys' => Addr(c) \in keys
    PROVE  BroadcastInv'
<1>1. crowd' = crowd \cup keys' /\ kept' = kept \cap keys' /\ UNCHANGED <<request, bpc, ranged, cids, written>>
  BY Zenon DEF Change
<1>2. UNCHANGED <<ponged, workingProxy, method, K, bpc, ranged, cids, written>>
  BY Zenon, <1>1 DEF request
<1>3. BroadcastType /\ AmountInv
  BY Zenon DEF BroadcastInv
<1>4. crowd \subseteq crowd' /\ crowd' \subseteq Keys /\ kept' \subseteq kept
  BY Zenon, <1>1, <1>3 DEF BroadcastType
<1>5. BroadcastType'
  BY Zenon, <1>1, <1>2, <1>3, <1>4 DEF BroadcastType
<1>6. AmountInv'
  BY Zenon, <1>2, <1>3 DEF AmountInv
<1>7. Cardinality(crowd) > K => Cardinality(crowd') > K
  <2>1. Cardinality(crowd) \in Nat /\ Cardinality(crowd') \in Nat /\ Cardinality(crowd) <= Cardinality(crowd') /\ K \in Nat
    BY Zenon, <1>3, <1>4, Fewer DEF BroadcastType
  <2> QED
    BY <2>1
<1>8. Cardinality(crowd') <= K => Cardinality(crowd) <= K
  <2>1. Cardinality(crowd) \in Nat /\ Cardinality(crowd') \in Nat /\ Cardinality(crowd) <= Cardinality(crowd') /\ K \in Nat
    BY Zenon, <1>3, <1>4, Fewer DEF BroadcastType
  <2> QED
    BY <2>1
<1>9. ASSUME NEW c \in Clients, Id(c) \in kept' PROVE ClientInv(c)'
  <2>1. ClientInv(c)
    BY Zenon, <1>4, <1>9 DEF BroadcastInv
  <2>2. c \in identified' /\ Addr(c) \notin crowd'
    <3>1. c \in identified /\ Addr(c) \notin crowd
      BY Zenon, <2>1 DEF ClientInv
    <3>2. Addr(c) \notin keys
      BY Zenon, <1>3, <3>1 DEF BroadcastType
    <3> QED
      BY Zenon, <1>1, <3>1, <3>2
  <2>3. (NotWritten(c) <=> NotWritten(c)') /\ (WrittenOnce(c) <=> WrittenOnce(c)')
    BY Zenon, <1>2 DEF NotWritten, WrittenOnce
  <2>4. Visited(c) => Visited(c)'
    BY Zenon, <1>2, <1>4, <2>3 DEF Visited
  <2>5. Noted(c) => Noted(c)'
    BY Zenon, <1>2, <1>4, <1>7, <2>3 DEF Noted
  <2>6. Listed(c) => Listed(c)'
    BY Zenon, <1>2, <1>8, <2>3 DEF Listed, Due
  <2> QED
    BY Zenon, <1>2, <2>1, <2>2, <2>3, <2>4, <2>5, <2>6 DEF ClientInv
<1> QED
  BY Zenon, <1>5, <1>6, <1>9 DEF BroadcastInv

\* Peers connect, get their ID or are closed at any time.
LEMMA PeersInv == ASSUME BroadcastInv, NEW d \in Clients, Connect(d) \/ Rekey(d) \/ CloseClient(d) PROVE BroadcastInv'
<1>1. Change
  BY Zenon DEF Connect, Rekey, CloseClient
<1>2. keys \subseteq Keys /\ identified \subseteq Clients
  BY Zenon DEF BroadcastInv, BroadcastType
<1>3. CASE Connect(d)
  <2>1. d \notin identified /\ keys' = keys \cup {Addr(d)} /\ identified' = identified
    BY Zenon, <1>3 DEF Connect
  <2>2. \A c \in identified : Addr(c) \in keys' => Addr(c) \in keys
    BY Zenon, <2>1, KeyOf
  <2> QED
    BY Zenon, <1>1, <1>2, <2>1, <2>2, KeysIn, ChangeInv
<1>4. CASE Rekey(d)
  <2>1. /\ keys' = keys \cup {Id(d)} \/ keys' \subseteq keys
        /\ identified' = identified \/ identified' = identified \cup {d}
    BY Zenon, <1>4 DEF Rekey
  <2>2. ASSUME NEW c \in identified, Addr(c) \in keys' PROVE Addr(c) \in keys
    <3>1. Addr(c) # Id(d)
      BY Zenon, KeyOf
    <3> QED
      BY Zenon, <2>1, <2>2, <3>1
  <2>3. keys' \subseteq Keys /\ identified \subseteq identified' /\ identified' \subseteq Clients
    BY Zenon, <1>2, <2>1, KeysIn
  <2> QED
    BY Zenon, <1>1, <2>2, <2>3, ChangeInv
<1>5. CASE CloseClient(d)
  <2>1. keys' \subseteq keys /\ identified' = identified
    BY Zenon, <1>5 DEF CloseClient
  <2> QED
    BY Zenon, <1>1, <1>2, <2>1, ChangeInv
<1> QED
  BY Zenon, <1>3, <1>4, <1>5

\* The message is prepared, or cannot be.
LEMMA PrepareInv == ASSUME BroadcastInv, PrepareMessage PROVE BroadcastInv'
<1>1. bpc = "prepare" /\ UNCHANGED <<population, request, ranged, written>>
  BY Zenon DEF PrepareMessage
<1>2. UNCHANGED <<keys, identified, kept, crowd, ponged, workingProxy, method, K, ranged, written>>
  BY Zenon, <1>1 DEF population, request
<1>3. BroadcastType /\ AmountInv
  BY Zenon DEF BroadcastInv
<1>4. \A c \in Clients : (NotWritten(c) <=> NotWritten(c)') /\ (WrittenOnce(c) <=> WrittenOnce(c)')
  BY Zenon, <1>2 DEF NotWritten, WrittenOnce
<1>5. CASE bpc' = "failed" /\ UNCHANGED cids
  <2>1. BroadcastType'
    BY Zenon, <1>2, <1>3, <1>5 DEF BroadcastType
  <2>2. AmountInv'
    BY Zenon, <1>2, <1>5 DEF AmountInv
  <2>3. ASSUME NEW c \in Clients, Id(c) \in kept' PROVE ClientInv(c)'
    <3>1. ClientInv(c)
      BY Zenon, <1>2, <2>3 DEF BroadcastInv
    <3>2. Visited(c) => Visited(c)'
      BY Zenon, <1>2, <1>4, <1>5 DEF Visited
    <3> QED
      BY Zenon, <1>2, <1>5, <3>1, <3>2 DEF ClientInv
  <2> QED
    BY Zenon, <2>1, <2>2, <2>3 DEF BroadcastInv
<1>6. CASE method = "BroadcastByClientIDs" /\ bpc' = "list" /\ cids' \in Bijection(1..Cardinality(identified), {Id(c) : c \in identified})
  <2>1. cids' \in Seq(Keys) /\ \A c \in identified : NamedOnce(c, cids') /\ Id(c) \in Range(cids')
    BY Zenon, <1>3, <1>6, ListingNamed DEF BroadcastType
  <2>2. BroadcastType'
    BY Zenon, <1>2, <1>3, <1>6, <2>1 DEF BroadcastType
  <2>3. AmountInv'
    BY Zenon, <1>2, <1>6 DEF AmountInv
  <2>4. ASSUME NEW c \in Clients, Id(c) \in kept' PROVE ClientInv(c)'
    <3>1. ClientInv(c)
      BY Zenon, <1>2, <2>4 DEF BroadcastInv
    <3>2. c \in identified /\ Addr(c) \notin crowd /\ NotWritten(c)
      BY Zenon, <1>1, <1>6, <3>1 DEF ClientInv
    <3>3. Listed(c)'
      BY Zenon, <1>4, <1>6, <2>1, <3>2 DEF Listed
    <3> QED
      BY Zenon, <1>2, <1>6, <3>2, <3>3 DEF ClientInv
  <2> QED
    BY Zenon, <2>2, <2>3, <2>4 DEF BroadcastInv
<1>7. CASE /\ method # "BroadcastByClientIDs" /\ UNCHANGED cids
           /\ bpc' = IF method \in {"BroadcastByClientIDs", "BroadcastRandomly"} THEN "list" ELSE "range"
  <2>1. BroadcastType'
    BY Zenon, <1>2, <1>3, <1>7 DEF BroadcastType
  <2>2. AmountInv'
    BY Zenon, <1>1, <1>2, <1>3, <1>7 DEF AmountInv
  <2>3. ASSUME NEW c \in Clients, Id(c) \in kept' PROVE ClientInv(c)'
    <3>1. ClientInv(c)
      BY Zenon, <1>2, <2>3 DEF BroadcastInv
    <3>2. Visited(c) => Visited(c)'
      BY Zenon, <1>2, <1>4, <1>7 DEF Visited
    <3>3. Listed(c) => Listed(c)'
      BY Zenon, <1>2, <1>4, <1>7 DEF Listed, Due
    <3> QED
      BY ZenonT(30), <1>1, <1>2, <1>7, <3>1, <3>2, <3>3 DEF ClientInv
  <2> QED
    BY Zenon, <2>1, <2>2, <2>3 DEF BroadcastInv
<1> QED
  BY Zenon, <1>5, <1>6, <1>7 DEF PrepareMessage

\* The Range calls back for a key, and Broadcast or BroadcastToPeers writes.
LEMMA VisitInv ==
    ASSUME BroadcastInv, NEW key \in crowd, EachPeer(key), method # "BroadcastRandomly"
    PROVE  BroadcastInv'
<1> DEFINE d == ClientOf(key)
           skipped == method = "BroadcastToPeers" /\ d = workingProxy
<1>1. /\ bpc = "range" /\ key \notin ranged /\ ranged' = ranged \cup {key} /\ UNCHANGED <<request, cids, bpc>>
      /\ (skipped /\ UNCHANGED <<written, population>>) \/ (~skipped /\ Write(d, PeerID(d)))
  BY Zenon DEF EachPeer
<1>2. UNCHANGED <<ponged, workingProxy, method, K, cids, bpc>>
  BY Zenon, <1>1 DEF request
<1>3. BroadcastType /\ key \in Keys /\ method \in {"Broadcast", "BroadcastToPeers"} /\ kept \subseteq keys /\ written \in Seq(Clients)
  BY Zenon, <1>1 DEF BroadcastInv, BroadcastType
<1>4. d \in Clients /\ (key = Id(d) \/ key = Addr(d))
  BY Zenon, <1>3, KeysOf
<1> HIDE DEF d
<1>5. /\ UNCHANGED <<identified, crowd>> /\ kept' \subseteq kept /\ keys' \subseteq keys /\ kept' \subseteq keys' /\ written' \in Seq(Clients)
      /\ \A c \in Clients : c # d => (NotWritten(c) => NotWritten(c)') /\ (WrittenOnce(c) => WrittenOnce(c)')
  <2>1. CASE skipped /\ UNCHANGED <<written, population>>
    BY Zenon, <1>3, <2>1 DEF population, NotWritten, WrittenOnce
  <2>2. CASE Write(d, PeerID(d))
    BY Zenon, <1>3, <1>4, <2>2, WriteFacts
  <2> QED
    BY Zenon, <1>1, <2>1, <2>2
<1>6. BroadcastType'
  BY Zenon, <1>1, <1>2, <1>3, <1>5 DEF BroadcastType
<1>7. AmountInv'
  BY Zenon, <1>2, <1>3 DEF AmountInv
<1>8. ASSUME NEW c \in Clients, Id(c) \in kept' PROVE ClientInv(c)'
  <2>1. ClientInv(c) /\ Id(c) \in kept
    BY Zenon, <1>5, <1>8 DEF BroadcastInv
  <2>2. c \in identified /\ Addr(c) \notin crowd /\ Visited(c)
    BY Zenon, <1>3, <2>1 DEF ClientInv
  <2>3. CASE c # d
    <3>1. key # Id(c)
      BY Zenon, <1>4, <2>3, KeyOf
    <3>2. Visited(c)'
      BY ZenonT(30), <1>1, <1>2, <1>5, <2>2, <2>3, <3>1 DEF Visited
    <3> QED
      BY Zenon, <1>1, <1>2, <1>3, <1>5, <2>2, <3>2 DEF ClientInv
  <2>4. CASE c = d
    <3>1. key = Id(c)
      BY Zenon, <1>4, <2>2, <2>4
    <3>2. NotWritten(c)
      BY Zenon, <1>1, <2>2, <3>1 DEF Visited
    <3>3. IF ~(method = "BroadcastToPeers" /\ c = workingProxy) THEN WrittenOnce(c)' ELSE NotWritten(c)'
      <4>1. CASE skipped /\ UNCHANGED <<written, population>>
        BY Zenon, <2>4, <3>2, <4>1 DEF NotWritten
      <4>2. CASE ~skipped /\ Write(d, PeerID(d))
        <5>1. PeerID(d) \in keys
          BY Zenon, <1>3, <2>1, <2>2, <2>4 DEF PeerID
        <5>2. WrittenOnce(d)'
          BY Zenon, <1>3, <1>4, <1>8, <2>4, <3>2, <4>2, <5>1, WriteFacts
        <5> QED
          BY Zenon, <2>4, <4>2, <5>2
      <4> QED
        BY Zenon, <1>1, <4>1, <4>2
    <3>4. Visited(c)'
      BY Zenon, <1>1, <1>2, <3>1, <3>3 DEF Visited
    <3> QED
      BY Zenon, <1>1, <1>2, <1>3, <1>5, <2>2, <3>4 DEF ClientInv
  <2> QED
    BY Zenon, <2>3, <2>4
<1> QED
  BY Zenon, <1>6, <1>7, <1>8 DEF BroadcastInv

\* The Range calls back for a key, and BroadcastRandomly takes note of its client.
LEMMA NoteInv ==
    ASSUME BroadcastInv, NEW key \in crowd, EachPeer(key), method = "BroadcastRandomly"
    PROVE  BroadcastInv'
<1> DEFINE d == ClientOf(key)
<1>1. /\ bpc = "range" /\ key \notin ranged /\ ranged' = ranged \cup {key} /\ UNCHANGED <<request, written, population>>
      /\ bpc' = IF Len(cids') <= K * 3 THEN "range" ELSE "shuffle"
  BY Zenon DEF EachPeer
<1>2. UNCHANGED <<keys, identified, kept, crowd, ponged, workingProxy, method, K, written>>
  BY Zenon, <1>1 DEF request, population
<1>3. /\ BroadcastType /\ AmountInv /\ key \in Keys /\ ranged \subseteq crowd /\ crowd \subseteq Keys
      /\ cids \in Seq(Keys) /\ K \in Nat
  BY Zenon DEF BroadcastInv, BroadcastType
<1>4. d \in Clients /\ (key = Id(d) \/ key = Addr(d))
  BY Zenon, <1>3, KeysOf
<1>5. PICK id \in PubKey(d) : cids' = Append(cids, id)
  BY Zenon DEF EachPeer
<1> HIDE DEF d
<1>6. id \in Keys /\ ClientOf(id) = d
  <2>1. id = Id(d) \/ id = Addr(d)
    BY Zenon DEF PubKey
  <2>2. CASE id = Id(d)
    BY Zenon, <1>4, <2>2, KeyOf, KeysIn
  <2>3. CASE id = Addr(d)
    BY Zenon, <1>4, <2>3, KeyOf, KeysIn
  <2> QED
    BY Zenon, <2>1, <2>2, <2>3
<1>7. cids' \in Seq(Keys) /\ Len(cids') = Len(cids) + 1 /\ Range(cids) \subseteq Range(cids') /\ id \in Range(cids')
  BY Zenon, <1>3, <1>5, <1>6, AppendNamed
<1>8. ranged' \subseteq crowd /\ Len(cids') = Cardinality(ranged')
  <2>1. Len(cids) = Cardinality(ranged)
    BY Zenon, <1>1, <1>3 DEF AmountInv
  <2>2. IsFiniteSet(ranged)
    BY Zenon, <1>3, Fewer
  <2>3. Cardinality(ranged') = Cardinality(ranged) + 1
    <3>1. Cardinality(ranged \cup {key}) = IF key \in ranged THEN Cardinality(ranged) ELSE Cardinality(ranged) + 1
      BY ONLY Zenon, <2>2, FS_AddElement
    <3> QED
      BY Zenon, <1>1, <3>1
  <2> QED
    BY Zenon, <1>1, <1>3, <1>7, <2>1, <2>3
<1>9. bpc' \in {"range", "shuffle"} /\ (bpc' = "shuffle" => Cardinality(crowd) > K)
  <2>1. bpc' = "shuffle" => ~(Len(cids') <= K * 3)
    BY Zenon, <1>1
  <2>2. Cardinality(ranged') \in Nat /\ Cardinality(crowd) \in Nat /\ Cardinality(ranged') <= Cardinality(crowd)
    BY Zenon, <1>3, <1>8, Fewer
  <2>3. ~(Len(cids') <= K * 3) => Cardinality(crowd) > K
    BY <1>3, <1>8, <2>2
  <2> QED
    BY Zenon, <1>1, <2>1, <2>3
<1>10. BroadcastType'
  BY Zenon, <1>2, <1>3, <1>7, <1>8, <1>9 DEF BroadcastType
<1>11. AmountInv'
  BY Zenon, <1>1, <1>2, <1>3, <1>8, <1>9 DEF AmountInv
<1>12. ASSUME NEW c \in Clients, Id(c) \in kept' PROVE ClientInv(c)'
  <2>1. ClientInv(c) /\ Id(c) \in kept
    BY Zenon, <1>2, <1>12 DEF BroadcastInv
  <2>2. c \in identified /\ Addr(c) \notin crowd /\ Noted(c)
    BY Zenon, <1>1, <2>1 DEF ClientInv
  <2>3. NotWritten(c)'
    BY Zenon, <1>2, <2>2 DEF Noted, NotWritten
  <2>4. NamedOnce(c, cids') /\ (Id(c) \notin ranged' => Unnamed(c, cids')) /\ (c \in ponged /\ Id(c) \in ranged' => Id(c) \in Range(cids'))
    <3>1. CASE c # d
      <4>1. key # Id(c)
        BY Zenon, <1>4, <3>1, KeyOf
      <4>2. NamedOnce(c, cids') /\ (Id(c) \notin ranged => Unnamed(c, cids'))
        BY Zenon, <1>3, <1>5, <1>6, <2>2, <3>1, AppendNamed DEF Noted
      <4> QED
        BY Zenon, <1>1, <1>7, <2>2, <4>1, <4>2 DEF Noted
    <3>2. CASE c = d
      <4>1. key = Id(c)
        BY Zenon, <1>4, <2>2, <3>2
      <4>2. Unnamed(c, cids)
        BY Zenon, <1>1, <2>2, <4>1 DEF Noted
      <4>3. NamedOnce(c, cids')
        BY Zenon, <1>3, <1>5, <1>6, <4>2, AppendNamed
      <4>4. c \in ponged => id = Id(c)
        BY Zenon, <3>2 DEF PubKey
      <4> QED
        BY Zenon, <1>1, <1>7, <4>1, <4>3, <4>4
    <3> QED
      BY Zenon, <3>1, <3>2
  <2>5. Noted(c)'
    BY Zenon, <1>2, <1>9, <2>3, <2>4 DEF Noted
  <2> QED
    BY Zenon, <1>2, <1>9, <2>2, <2>5 DEF ClientInv
<1> QED
  BY Zenon, <1>10, <1>11, <1>12 DEF BroadcastInv

\* The Range is over when every key that stayed has been called back for.
LEMMA RangeEndInv == ASSUME BroadcastInv, RangeEnd PROVE BroadcastInv'
<1>1. /\ bpc = "range" /\ kept \subseteq ranged /\ bpc' = (IF method = "BroadcastRandomly" THEN "shuffle" ELSE "done")
      /\ UNCHANGED <<keys, identified, kept, crowd, ponged, workingProxy, method, K, ranged, cids, written>>
  BY Zenon DEF RangeEnd, request, population
<1>2. BroadcastType /\ AmountInv
  BY Zenon DEF BroadcastInv
<1>3. BroadcastType'
  BY Zenon, <1>1, <1>2 DEF BroadcastType
<1>4. AmountInv'
  BY Zenon, <1>1, <1>2 DEF AmountInv
<1>5. ASSUME NEW c \in Clients, Id(c) \in kept' PROVE ClientInv(c)'
  <2>1. ClientInv(c)
    BY Zenon, <1>1, <1>5 DEF BroadcastInv
  <2>2. (NotWritten(c) <=> NotWritten(c)') /\ (WrittenOnce(c) <=> WrittenOnce(c)')
    BY Zenon, <1>1 DEF NotWritten, WrittenOnce
  <2>3. CASE method = "BroadcastRandomly"
    <3>1. Noted(c)'
      BY Zenon, <1>1, <2>1, <2>2, <2>3 DEF ClientInv, Noted
    <3> QED
      BY Zenon, <1>1, <2>1, <2>3, <3>1 DEF ClientInv
  <2>4. CASE method # "BroadcastRandomly"
    <3>1. Visited(c) => Visited(c)'
      BY Zenon, <1>1, <2>2 DEF Visited
    <3>2. method # "BroadcastByClientIDs"
      BY Zenon, <1>1, <1>2 DEF BroadcastType
    <3> QED
      BY Zenon, <1>1, <2>1, <2>4, <3>1, <3>2 DEF ClientInv
  <2> QED
    BY Zenon, <2>3, <2>4
<1> QED
  BY Zenon, <1>3, <1>4, <1>5 DEF BroadcastInv

\* BroadcastRandomly chooses.
LEMMA ShuffleInv == ASSUME BroadcastInv, Shuffle PROVE BroadcastInv'
<1>1. /\ bpc = "shuffle" /\ bpc' = "prepare"
      /\ UNCHANGED <<keys, identified, kept, crowd, ponged, workingProxy, method, K, ranged, written>>
  BY Zenon DEF Shuffle, request, population
<1>2. BroadcastType /\ AmountInv /\ cids \in Seq(Keys) /\ K \in Nat /\ ranged \subseteq crowd /\ crowd \subseteq Keys
  BY Zenon DEF BroadcastInv, BroadcastType
<1>3. method = "BroadcastRandomly"
  BY Zenon, <1>1, <1>2 DEF BroadcastType
<1>4. written = <<>> /\ Len(cids) = Cardinality(ranged)
  BY Zenon, <1>1, <1>2, <1>3 DEF AmountInv
<1>5. PICK n : n = IF Len(cids) < K THEN Len(cids) ELSE K
  BY Zenon
<1>6. n \in Nat /\ n <= Len(cids) /\ n <= K /\ (n # Len(cids) => Len(cids) > K)
  BY <1>2, <1>5
<1>7. PICK p \in Bijection(1..Len(cids), 1..Len(cids)) : cids' = [i \in 1..n |-> cids[p[i]]]
  BY Zenon, <1>5 DEF Shuffle
<1>8. /\ cids' \in Seq(Keys) /\ Len(cids') = n /\ (n = Len(cids) => Range(cids) \subseteq Range(cids'))
      /\ \A c \in Clients : NamedOnce(c, cids) => NamedOnce(c, cids')
  <2>1. PICK list, m : list = cids /\ m = cids'
    BY Zenon
  <2>2. list \in Seq(Keys) /\ p \in Bijection(1..Len(list), 1..Len(list)) /\ n <= Len(list) /\ m = [i \in 1..n |-> list[p[i]]]
    BY Zenon, <1>2, <1>6, <1>7, <2>1
  <2>3. ASSUME NEW c PROVE ShuffleOf(c, list, m, n)
    BY ONLY Zenon, <1>6, <2>2, ShuffledNamed
  <2> QED
    BY Zenon, <2>1, <2>3 DEF ShuffleOf
<1>9. n # Len(cids) => Cardinality(crowd) > K
  <2>1. Cardinality(ranged) \in Nat /\ Cardinality(crowd) \in Nat /\ Cardinality(ranged) <= Cardinality(crowd)
    BY Zenon, <1>2, Fewer
  <2> QED
    BY <1>2, <1>4, <1>6, <2>1
<1>10. BroadcastType'
  BY Zenon, <1>1, <1>2, <1>8 DEF BroadcastType
<1>11. AmountInv'
  <2>1. Len(written') + Len(cids') <= K
    BY SMTT(20), <1>1, <1>2, <1>4, <1>6, <1>8
  <2> QED
    BY Zenon, <1>1, <2>1 DEF AmountInv
<1>12. ASSUME NEW c \in Clients, Id(c) \in kept' PROVE ClientInv(c)'
  <2>1. ClientInv(c) /\ Id(c) \in kept
    BY Zenon, <1>1, <1>12 DEF BroadcastInv
  <2>2. c \in identified /\ Addr(c) \notin crowd /\ Noted(c)
    BY Zenon, <1>1, <1>3, <2>1 DEF ClientInv
  <2>3. NotWritten(c)'
    BY Zenon, <1>1, <2>2 DEF Noted, NotWritten
  <2>4. c \in ponged /\ Cardinality(crowd) <= K => Id(c) \in Range(cids')
    <3>1. Cardinality(crowd) <= K => ~(Cardinality(crowd) > K)
      <4>1. Cardinality(crowd) \in Nat
        BY Zenon, <1>2, Fewer
      <4> QED
        BY <1>2, <4>1
    <3> QED
      BY Zenon, <1>1, <1>8, <1>9, <2>1, <2>2, <3>1 DEF Noted
  <2>5. Listed(c)'
    BY Zenon, <1>1, <1>3, <1>8, <2>2, <2>3, <2>4 DEF Noted, Listed, Due
  <2> QED
    BY Zenon, <1>1, <1>3, <2>2, <2>5 DEF ClientInv
<1> QED
  BY Zenon, <1>10, <1>11, <1>12 DEF BroadcastInv

\* The list has been written to, or its first ID is.
LEMMA ListInv == ASSUME BroadcastInv, BroadcastByClientIDs PROVE BroadcastInv'
<1>1. bpc = "list" /\ UNCHANGED <<ponged, workingProxy, method, K, ranged>>
  BY Zenon DEF BroadcastByClientIDs, request
<1>2. BroadcastType /\ AmountInv /\ cids \in Seq(Keys) /\ K \in Nat /\ kept \subseteq keys /\ keys \subseteq crowd /\ written \in Seq(Clients)
  BY Zenon DEF BroadcastInv, BroadcastType
<1>3. method \in {"BroadcastRandomly", "BroadcastByClientIDs"}
  BY Zenon, <1>1, <1>2 DEF BroadcastType
<1>4. CASE cids = <<>>
  <2>1. bpc' = "done" /\ UNCHANGED <<keys, identified, kept, crowd, cids, written>>
    BY Zenon, <1>4 DEF BroadcastByClientIDs, population
  <2>2. BroadcastType'
    BY Zenon, <1>1, <1>2, <2>1 DEF BroadcastType
  <2>3. AmountInv'
    BY Zenon, <1>1, <1>2, <2>1 DEF AmountInv
  <2>4. ASSUME NEW c \in Clients, Id(c) \in kept' PROVE ClientInv(c)'
    <3>1. ClientInv(c)
      BY Zenon, <2>1, <2>4 DEF BroadcastInv
    <3>2. Listed(c)
      BY Zenon, <1>1, <1>3, <3>1 DEF ClientInv
    <3>3. (NotWritten(c) <=> NotWritten(c)') /\ (WrittenOnce(c) <=> WrittenOnce(c)')
      BY Zenon, <2>1 DEF NotWritten, WrittenOnce
    <3>4. Listed(c)'
      BY ZenonT(30), <1>1, <1>4, <2>1, <3>2, <3>3 DEF Listed, Due
    <3> QED
      BY Zenon, <1>1, <1>3, <2>1, <3>1, <3>4 DEF ClientInv
  <2> QED
    BY Zenon, <2>2, <2>3, <2>4 DEF BroadcastInv
<1>5. CASE cids # <<>>
  <2>0. PICK id, d : id = Head(cids) /\ d = ClientOf(id)
    BY Zenon
  <2>1. Write(d, id) /\ cids' = Tail(cids) /\ bpc' = bpc
    BY Zenon, <1>5, <2>0 DEF BroadcastByClientIDs
  <2>2. cids' \in Seq(Keys) /\ Len(cids') + 1 = Len(cids) /\ id \in Keys /\ \A x \in Range(cids) : x = id \/ x \in Range(cids')
    BY Zenon, <1>2, <1>5, <2>0, <2>1, TailNamed
  <2>3. d \in Clients /\ (id = Id(d) \/ id = Addr(d))
    BY Zenon, <2>0, <2>2, KeysOf
  <2>4. \A c \in Clients : /\ NamedOnce(c, cids) => NamedOnce(c, cids')
                           /\ Unnamed(c, cids) => Unnamed(c, cids') /\ d # c
                           /\ NamedOnce(c, cids) /\ d = c => Unnamed(c, cids')
    BY Zenon, <1>2, <1>5, <2>0, <2>1, TailNamed
  <2>5. /\ UNCHANGED <<identified, crowd>> /\ kept' \subseteq kept /\ keys' \subseteq keys /\ kept' \subseteq keys'
        /\ written' \in Seq(Clients) /\ Len(written') <= Len(written) + 1 /\ Len(written') \in Nat
        /\ (id \notin keys => written' = written) /\ (id \in keys /\ Id(d) \in kept' => (NotWritten(d) => WrittenOnce(d)'))
        /\ \A c \in Clients : c # d => (NotWritten(c) => NotWritten(c)') /\ (WrittenOnce(c) => WrittenOnce(c)')
    BY Zenon, <1>2, <2>1, <2>3, WriteFacts
  <2>6. BroadcastType'
    BY Zenon, <1>1, <1>2, <2>1, <2>2, <2>5 DEF BroadcastType
  <2>7. AmountInv'
    <3>1. method = "BroadcastRandomly" => Len(written) + Len(cids) <= K
      BY Zenon, <1>1, <1>2 DEF AmountInv
    <3>2. Len(written) + Len(cids) <= K => Len(written') + Len(cids') <= K
      BY <1>2, <2>2, <2>5
    <3> QED
      BY Zenon, <1>1, <2>1, <3>1, <3>2 DEF AmountInv
  <2>8. ASSUME NEW c \in Clients, Id(c) \in kept' PROVE ClientInv(c)'
    <3>1. ClientInv(c) /\ Id(c) \in kept
      BY Zenon, <2>5, <2>8 DEF BroadcastInv
    <3>2. Listed(c) /\ Addr(c) \notin crowd
      BY Zenon, <1>1, <1>3, <3>1 DEF ClientInv
    <3>3. CASE c # d
      <4>1. id # Id(c)
        BY Zenon, <2>3, <3>3, KeyOf
      <4>2. Due(c)' => Due(c)
        BY Zenon, <1>1, <2>5 DEF Due
      <4> QED
        <5>1. NamedOnce(c, cids') /\ (Unnamed(c, cids') \/ NotWritten(c)') /\ (NotWritten(c)' \/ WrittenOnce(c)')
          BY Zenon, <2>4, <2>5, <3>2, <3>3 DEF Listed
        <5>2. Due(c)' => Id(c) \in Range(cids') \/ WrittenOnce(c)'
          BY Zenon, <2>2, <2>5, <3>2, <3>3, <4>1, <4>2 DEF Listed
        <5>3. Listed(c)'
          BY Zenon, <1>1, <2>1, <5>1, <5>2 DEF Listed
        <5> QED
          BY Zenon, <1>1, <1>3, <2>1, <2>5, <3>1, <5>3 DEF ClientInv
    <3>4. CASE c = d
      <4>1. NamedOnce(c, cids') /\ Unnamed(c, cids') /\ NotWritten(c)
        BY Zenon, <2>4, <3>2, <3>4 DEF Listed
      <4>2. CASE id \in keys
        <5>1. WrittenOnce(c)'
          BY Zenon, <2>5, <2>8, <3>4, <4>1, <4>2
        <5> QED
          BY Zenon, <1>1, <1>3, <2>1, <2>5, <3>1, <4>1, <5>1 DEF Listed, ClientInv
      <4>3. CASE id \notin keys
        <5>1. NotWritten(c)' /\ (WrittenOnce(c) <=> WrittenOnce(c)')
          BY Zenon, <2>5, <4>1, <4>3 DEF NotWritten, WrittenOnce
        <5>2. id # Id(c)
          BY Zenon, <1>2, <3>1, <4>3
        <5>3. Due(c)' => Due(c)
          BY Zenon, <1>1, <2>5 DEF Due
        <5> QED
          BY ZenonT(30), <1>1, <1>3, <2>1, <2>2, <2>5, <3>1, <3>2, <4>1, <5>1, <5>2, <5>3 DEF Listed, ClientInv
      <4> QED
        BY Zenon, <4>2, <4>3
    <3> QED
      BY Zenon, <3>3, <3>4
  <2> QED
    BY Zenon, <2>6, <2>7, <2>8 DEF BroadcastInv
<1> QED
  BY Zenon, <1>4, <1>5

\* Every step keeps the invariant.
LEMMA BroadcastNextInv == BroadcastInv /\ [BroadcastNext]_broadcastVars => BroadcastInv'
<1> SUFFICES ASSUME BroadcastInv, [BroadcastNext]_broadcastVars PROVE BroadcastInv'
  OBVIOUS
<1>1. CASE \E c \in Clients : Connect(c) \/ Rekey(c) \/ CloseClient(c)
  BY Zenon, <1>1, PeersInv
<1>2. CASE PrepareMessage
  BY Zenon, <1>2, PrepareInv
<1>3. CASE \E key \in crowd : EachPeer(key)
  BY ZenonT(30), <1>3, VisitInv, NoteInv
<1>4. CASE RangeEnd
  BY Zenon, <1>4, RangeEndInv
<1>5. CASE Shuffle
  BY Zenon, <1>5, ShuffleInv
<1>6. CASE BroadcastByClientIDs
  BY Zenon, <1>6, ListInv
<1>7. CASE UNCHANGED broadcastVars
  <2>1. BroadcastType' /\ AmountInv'
    BY Zenon, <1>7 DEF broadcastVars, BroadcastInv, BroadcastType, AmountInv
  <2>2. ASSUME NEW c \in Clients
        PROVE  /\ (Id(c) \in kept)' <=> Id(c) \in kept
               /\ Visited(c)' <=> Visited(c)
               /\ Noted(c)' <=> Noted(c)
               /\ Listed(c)' <=> Listed(c)
               /\ NotWritten(c)' <=> NotWritten(c)
    <3>1. (NotWritten(c)' <=> NotWritten(c)) /\ (WrittenOnce(c)' <=> WrittenOnce(c))
      BY Zenon, <1>7 DEF broadcastVars, NotWritten, WrittenOnce
    <3>2. Due(c)' <=> Due(c)
      BY Zenon, <1>7 DEF broadcastVars, Due
    <3>3. Visited(c)' <=> Visited(c)
      BY Zenon, <1>7, <3>1 DEF broadcastVars, Visited
    <3>4. Noted(c)' <=> Noted(c)
      BY Zenon, <1>7, <3>1 DEF broadcastVars, Noted
    <3>5. Listed(c)' <=> Listed(c)
      BY Zenon, <1>7, <3>1, <3>2 DEF broadcastVars, Listed
    <3> QED
      BY Zenon, <1>7, <3>1, <3>3, <3>4, <3>5 DEF broadcastVars
  <2>3. ASSUME NEW c \in Clients, ClientInv(c)
        PROVE  ClientInv(c)'
    BY Zenon, <1>7, <2>2, <2>3 DEF broadcastVars, ClientInv
  <2> QED
    BY Zenon, <2>1, <2>2, <2>3 DEF BroadcastInv
<1> QED
  BY Zenon, <1>1, <1>2, <1>3, <1>4, <1>5, <1>6, <1>7 DEF BroadcastNext

\* For any number of peers that connect, are rekeyed and close in any order while
\* the peers are ranged over or listed (Broadcast, BroadcastToPeers,
\* BroadcastByClientIDs, BroadcastRandomly): a peer that stays under its ID is
\* written to exactly once, the working proxy of BroadcastToPeers never, and
\* BroadcastRandomly writes at most K times, at most once to such a peer, and to
\* each that it knows by its key if the peers are no more than K.
THEOREM StayingPeersReached == BroadcastSpec => []BroadcastReaches
<1>1. BroadcastInit => BroadcastInv
  BY Zenon, BroadcastInitInv
<1>2. BroadcastInv => BroadcastReaches
  <2>1. SUFFICES ASSUME BroadcastInv, bpc = "done" PROVE BroadcastReaches
    BY Zenon DEF BroadcastReaches
  <2>2. BroadcastType /\ AmountInv
    BY Zenon, <2>1 DEF BroadcastInv
  <2>3. ASSUME NEW key \in kept, key[2] = "id" PROVE ClientOf(key) \in Clients /\ key = Id(ClientOf(key))
    <3>1. ClientOf(key) \in Clients /\ (key = Id(ClientOf(key)) \/ key = Addr(ClientOf(key)))
      BY Zenon, <2>2, KeysOf DEF BroadcastType
    <3>2. Addr(ClientOf(key))[2] = "addr"
      BY DEF Addr
    <3>3. "addr" # "id"
      OBVIOUS
    <3> QED
      BY Zenon, <2>3, <3>1, <3>2, <3>3
  <2>4. ASSUME NEW c \in {ClientOf(key) : key \in {k \in kept : k[2] = "id"}}
        PROVE  CASE method = "BroadcastToPeers" /\ c = workingProxy -> NotWritten(c)
                 [] method = "BroadcastRandomly" ->
                      (NotWritten(c) \/ WrittenOnce(c)) /\ (c \in ponged /\ Cardinality(crowd) <= K => WrittenOnce(c))
                 [] OTHER -> WrittenOnce(c)
    <3>1. Id(c) \in kept /\ c \in Clients
      BY Zenon, <2>3
    <3>2. ClientInv(c)
      BY Zenon, <2>1, <3>1 DEF BroadcastInv
    <3>3. CASE method \in {"Broadcast", "BroadcastToPeers"}
      BY Zenon, <2>1, <3>1, <3>2, <3>3 DEF ClientInv, Visited
    <3>4. CASE method \in {"BroadcastRandomly", "BroadcastByClientIDs"}
      <4>1. Listed(c) /\ cids = <<>>
        BY Zenon, <2>1, <3>2, <3>4 DEF ClientInv, Listed
      <4>2. Range(cids) = {}
        BY <4>1 DEF Range
      <4> QED
        BY Zenon, <3>4, <4>1, <4>2 DEF Listed, Due
    <3> QED
      BY Zenon, <2>2, <3>3, <3>4 DEF BroadcastType
  <2>5. method = "BroadcastRandomly" => Len(written) <= K
    <3>1. method = "BroadcastRandomly" => Len(written) + Len(cids) <= K
      BY Zenon, <2>1, <2>2 DEF AmountInv
    <3>2. Len(written) \in Nat /\ Len(cids) \in Nat /\ K \in Nat
      BY <2>2 DEF BroadcastType
    <3>3. Len(written) + Len(cids) <= K => Len(written) <= K
      BY <3>2
    <3> QED
      BY Zenon, <3>1, <3>3
  <2> QED
    BY Zenon, <2>4, <2>5 DEF BroadcastReaches
<1> QED
  BY <1>1, <1>2, BroadcastNextInv, PTL DEF BroadcastSpec
=============================================================================
