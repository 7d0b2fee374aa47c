------------------------------ MODULE Streams ------------------------------
(***************************************************************************)
(* Sending over one connection of a PeerClient: Network.Write, the logical *)
(* streams of a MultiStream, StreamWrite with its queue, loopStreamSend    *)
(* and the goroutine it starts for every queued message, against           *)
(* CloseStream and PeerClient.Close.                                       *)
(*                                                                         *)
(* A message is its MessageNonce.  A frame goes out in two parts: "head"   *)
(* stands for bufio.Writer.Write, "tail" for the final Flush, and the wire *)
(* is what the remote end reads.  Streams are numbered by idIncCounter.    *)
(* Close takes the steps of client.go in turn; the registration of another *)
(* client of the same peer is in ConnMgr.                                  *)
(***************************************************************************)
EXTENDS Integers, Sequences, FiniteSets

CONSTANTS
    Senders,        \* goroutines that call Write, StreamWrite, OpenStream and CloseStream
    QueueCap,       \* streamQueueLen
    MaxNonce,       \* bound: messages
    MaxStreams,     \* bound: streams
    None            \* no stream, a free mutex

Nonce == 1..MaxNonce
StreamID == 1..MaxStreams

ASSUME StreamsAssumption ==
    /\ QueueCap \in Nat \ {0} /\ MaxNonce \in Nat /\ MaxStreams \in Nat
    /\ None \notin Senders \cup Nonce \cup StreamID
    /\ Senders \cap Nonce = {}

VARIABLES
    idIncCounter, stream, SendCnt,  \* MultiStream: IDs given out, open streams, frames sent
    messageNonce,                   \* of the ConnState
    streamOf,                       \* per message: its stream; None: a plain Write
    StreamSendQueue,                \* nonces in the order of the channel
    looping,                        \* loopStreamSend has not returned
    gpc,                            \* per message: position of the goroutine that sends it
    writerMutex, streamMutex,       \* holders; streamMutex per stream
    pc, arg,                        \* per sender: position, stream or message at work
    wire,                           \* sequence of <<nonce, part>>
    broken,                         \* a write has failed; a bufio.Writer keeps its error
    closing,                        \* steps PeerClient.Close has taken
    crashed                         \* a nil pointer was dereferenced and the program ended

mux == <<idIncCounter, stream, SendCnt>>
messages == <<messageNonce, streamOf>>
queue == <<StreamSendQueue, looping>>
mutexes == <<writerMutex, streamMutex>>
senders == <<pc, arg>>
conn == <<wire, broken>>
vars == <<mux, messages, queue, gpc, mutexes, senders, conn, closing, crashed>>

\* What is left after the steps of Close: 1 CloseSignal is closed, 2 the socket
\* is closed, 3 peers, 4 connections and 5 streams have lost their entries,
\* 6 conn is nil.
CloseSignal == closing >= 1
Socket == closing < 2
HasClient == closing < 3
HasState == closing < 4
HasStreams == closing < 5
HasConn == closing < 6

\* c.Stream(streamID) # nil
Stream(s) == HasStreams /\ s \in stream

Init ==
    /\ idIncCounter = 0 /\ stream = {}
    /\ SendCnt = [s \in StreamID |-> 0]
    /\ messageNonce = 0
    /\ streamOf = [n \in Nonce |-> None]
    /\ StreamSendQueue = <<>>
    /\ looping = TRUE
    /\ gpc = [n \in Nonce |-> "none"]
    /\ writerMutex = None
    /\ streamMutex = [s \in StreamID |-> None]
    /\ pc = [t \in Senders |-> "idle"]
    /\ arg = [t \in Senders |-> None]
    /\ wire = <<>>
    /\ broken = FALSE
    /\ closing = 0
    /\ crashed = FALSE

Goto(t, l, a) == pc' = [pc EXCEPT ![t] = l] /\ arg' = [arg EXCEPT ![t] = a]
GoGoto(n, l) == gpc' = [gpc EXCEPT ![n] = l]
-----------------------------------------------------------------------------
(* Streams of the MultiStream. *)

\* OpenStream dereferences the MultiStream of the peer without asking whether
\* there is one.
OpenStream(t) ==
    /\ pc[t] = "idle"
    /\ idIncCounter < MaxStreams
    /\ IF HasStreams
       THEN /\ idIncCounter' = idIncCounter + 1
            /\ stream' = stream \cup {idIncCounter + 1}
            /\ UNCHANGED crashed
       ELSE crashed' = TRUE /\ UNCHANGED <<idIncCounter, stream>>
    /\ UNCHANGED <<SendCnt, messages, queue, gpc, mutexes, senders, conn, closing>>

CloseStream(t, s) ==
    /\ pc[t] = "idle"
    /\ Stream(s)
    /\ Goto(t, "closeStream", s)
    /\ UNCHANGED <<mux, messages, queue, gpc, mutexes, conn, closing, crashed>>

\* The mutex of the stream is held for the deletion only.
DeleteStream(t) ==
    /\ pc[t] = "closeStream"
    /\ streamMutex[arg[t]] = None
    /\ stream' = stream \ {arg[t]}
    /\ Goto(t, "idle", None)
    /\ UNCHANGED <<idIncCounter, SendCnt, messages, queue, gpc, mutexes, conn, closing, crashed>>
-----------------------------------------------------------------------------
(* Write and StreamWrite. *)

\* The ConnState is looked up before its writerMutex is taken; the caller knows
\* the ID of a stream that was opened at some time, or sends without one.
Begin(t, s) ==
    /\ pc[t] = "idle"
    /\ HasState
    /\ Goto(t, "lock", s)
    /\ UNCHANGED <<mux, messages, queue, gpc, mutexes, conn, closing, crashed>>

\* The next MessageNonce; without a connection the call returns.
LockWriter(t) ==
    /\ pc[t] = "lock"
    /\ writerMutex = None
    /\ messageNonce < MaxNonce
    /\ messageNonce' = messageNonce + 1
    /\ streamOf' = [streamOf EXCEPT ![messageNonce + 1] = arg[t]]
    /\ IF HasConn
       THEN /\ writerMutex' = t
            /\ Goto(t, IF arg[t] = None THEN "send" ELSE "put", messageNonce + 1)
       ELSE Goto(t, "idle", None) /\ UNCHANGED writerMutex
    /\ UNCHANGED <<mux, queue, gpc, streamMutex, conn, closing, crashed>>

\* StreamWrite waits for room in the queue and holds writerMutex meanwhile; with
\* the client gone from peers the message is given up without an error.
Enqueue(t) ==
    /\ pc[t] = "put"
    /\ HasClient => Len(StreamSendQueue) < QueueCap
    /\ StreamSendQueue' = IF HasClient THEN Append(StreamSendQueue, arg[t]) ELSE StreamSendQueue
    /\ writerMutex' = None
    /\ Goto(t, "idle", None)
    /\ UNCHANGED <<mux, messages, looping, gpc, streamMutex, conn, closing, crashed>>

\* A part of message n goes out, or the write fails, as it must on a closed
\* socket and after a failure.
Put(n, part) == Socket /\ ~broken /\ wire' = Append(wire, <<n, part>>) /\ UNCHANGED broken
PutError == broken' = TRUE /\ UNCHANGED wire

\* sendMessage of a plain Write.
Send(t) ==
    /\ \/ pc[t] = "send" /\ Put(arg[t], "head") /\ Goto(t, "flush", arg[t]) /\ UNCHANGED writerMutex
       \/ pc[t] = "flush" /\ Put(arg[t], "tail") /\ Goto(t, "idle", None) /\ writerMutex' = None
       \/ pc[t] \in {"send", "flush"} /\ PutError /\ Goto(t, "failed", None) /\ UNCHANGED writerMutex
    /\ UNCHANGED <<mux, messages, queue, gpc, streamMutex, closing, crashed>>

\* A failed Write closes the client before it unlocks writerMutex.
CloseAfterError(t) ==
    /\ pc[t] = "failed"
    /\ IF closing = 0
       THEN closing' = 1 /\ Goto(t, "closing", None) /\ UNCHANGED writerMutex
       ELSE UNCHANGED closing /\ Goto(t, "idle", None) /\ writerMutex' = None
    /\ UNCHANGED <<mux, messages, queue, gpc, streamMutex, conn, crashed>>

Closed(t) ==
    /\ pc[t] = "closing" /\ closing = 6
    /\ Goto(t, "idle", None)
    /\ writerMutex' = None
    /\ UNCHANGED <<mux, messages, queue, gpc, streamMutex, conn, closing, crashed>>
-----------------------------------------------------------------------------
(* loopStreamSend. *)

\* Mutant: the loop takes the mutex of the item itself.
TakeLocked ==
    /\ looping
    /\ StreamSendQueue # <<>> /\ writerMutex = None
    /\ StreamSendQueue' = Tail(StreamSendQueue)
    /\ GoGoto(Head(StreamSendQueue), IF Stream(streamOf[Head(StreamSendQueue)]) THEN "lock" ELSE "done")
    /\ UNCHANGED <<mux, messages, looping, mutexes, senders, conn, closing, crashed>>

\* A message of a closed stream is dropped, any other gets a goroutine.
Take ==
    /\ looping
    /\ StreamSendQueue # <<>>
    /\ StreamSendQueue' = Tail(StreamSendQueue)
    /\ GoGoto(Head(StreamSendQueue), IF Stream(streamOf[Head(StreamSendQueue)]) THEN "lock" ELSE "done")
    /\ UNCHANGED <<mux, messages, looping, mutexes, senders, conn, closing, crashed>>

LoopReturn ==
    /\ looping /\ CloseSignal
    /\ looping' = FALSE
    /\ UNCHANGED <<mux, messages, StreamSendQueue, gpc, mutexes, senders, conn, closing, crashed>>

\* Mutant: item.Mutex is not taken.
GoLockNot(n) ==
    /\ gpc[n] = "lock"
    /\ GoGoto(n, "look")
    /\ UNCHANGED <<mux, messages, queue, mutexes, senders, conn, closing, crashed>>

\* item.Mutex is the writerMutex.
GoLock(n) ==
    /\ gpc[n] = "lock"
    /\ writerMutex = None
    /\ writerMutex' = n
    /\ GoGoto(n, "look")
    /\ UNCHANGED <<mux, messages, queue, streamMutex, senders, conn, closing, crashed>>

\* The goroutine is over, its deferred calls unlock what it has locked.
GoReturn(n) ==
    /\ GoGoto(n, "done")
    /\ writerMutex' = None
    /\ streamMutex' = [s \in StreamID |-> IF streamMutex[s] = n THEN None ELSE streamMutex[s]]

\* c.Stream(item.StreamID) == nil?
GoLook(n) ==
    /\ gpc[n] = "look"
    /\ IF Stream(streamOf[n]) THEN GoGoto(n, "deref") /\ UNCHANGED mutexes ELSE GoReturn(n)
    /\ UNCHANGED <<mux, messages, queue, senders, conn, closing, crashed>>

\* The stream is looked up again for its Lock and, once it is locked, for the
\* deferred Unlock; a stream that was closed in between is a nil pointer.
GoDeref(n) ==
    /\ \/ gpc[n] = "deref" /\ GoGoto(n, "lockStream")
       \/ gpc[n] = "relook" /\ GoGoto(n, "send")
    /\ crashed' = ~Stream(streamOf[n])
    /\ UNCHANGED <<mux, messages, queue, mutexes, senders, conn, closing>>

GoLockStream(n) ==
    /\ gpc[n] = "lockStream"
    /\ streamMutex[streamOf[n]] = None
    /\ streamMutex' = [streamMutex EXCEPT ![streamOf[n]] = n]
    /\ GoGoto(n, "relook")
    /\ UNCHANGED <<mux, messages, queue, writerMutex, senders, conn, closing, crashed>>

\* streamSendMessage: the MultiStream must still be there; the stream is, while
\* its mutex is held.  The frame is counted when it has entered the buffer.
streamSendMessage(n) ==
    /\ gpc[n] = "send"
    /\ \/ /\ HasStreams
          /\ Put(n, "head")
          /\ SendCnt' = [SendCnt EXCEPT ![streamOf[n]] = @ + 1]
          /\ GoGoto(n, "flush")
          /\ UNCHANGED mutexes
       \/ HasStreams /\ PutError /\ GoReturn(n) /\ UNCHANGED SendCnt
       \/ ~HasStreams /\ GoReturn(n) /\ UNCHANGED <<conn, SendCnt>>
    /\ UNCHANGED <<idIncCounter, stream, messages, queue, senders, closing, crashed>>

GoFlush(n) ==
    /\ gpc[n] = "flush"
    /\ Put(n, "tail") \/ PutError
    /\ GoReturn(n)
    /\ UNCHANGED <<mux, messages, queue, senders, closing, crashed>>
-----------------------------------------------------------------------------
\* Somebody calls Close of the client.
BeginClose ==
    /\ closing = 0
    /\ closing' = 1
    /\ UNCHANGED <<mux, messages, queue, gpc, mutexes, senders, conn, crashed>>

\* Mutant: Close waits for the writer.
CloseStepLocked ==
    /\ closing \in 1..5
    /\ writerMutex = None
    /\ closing' = closing + 1
    /\ UNCHANGED <<mux, messages, queue, gpc, mutexes, senders, conn, crashed>>

CloseStep ==
    /\ closing \in 1..5
    /\ closing' = closing + 1
    /\ UNCHANGED <<mux, messages, queue, gpc, mutexes, senders, conn, crashed>>

Sender(t) ==
    \/ LockWriter(t) \/ Enqueue(t) \/ Send(t) \/ CloseAfterError(t) \/ Closed(t) \/ DeleteStream(t)

Caller(t) ==
    \/ OpenStream(t)
    \/ \E s \in 1..idIncCounter \cup {None} : Begin(t, s)
    \/ \E s \in 1..idIncCounter : CloseStream(t, s)

Goroutine(n) ==
    GoLock(n) \/ GoLook(n) \/ GoDeref(n) \/ GoLockStream(n) \/ streamSendMessage(n) \/ GoFlush(n)

Next ==
    /\ ~crashed
    /\ \/ \E t \in Senders : Sender(t) \/ Caller(t)
       \/ \E n \in Nonce : Goroutine(n)
       \/ Take \/ LoopReturn \/ BeginClose \/ CloseStep

Spec == Init /\ [][Next]_vars

\* Every goroutine that can run is run; a sync.Mutex is handed to a waiter that
\* waits too long.  A write to the socket comes to an end: the remote node reads,
\* or the operating system gives up.
FairSpec ==
    /\ Spec
    /\ \A t \in Senders : SF_vars(~crashed /\ Sender(t))
    /\ \A n \in Nonce : SF_vars(~crashed /\ Goroutine(n))
    /\ WF_vars(~crashed /\ Take) /\ WF_vars(~crashed /\ CloseStep)
-----------------------------------------------------------------------------
(* Properties. *)

\* The frames of concurrent Writes and streams never mix on the connection: a
\* head is followed by its own tail.
FramesWhole ==
    \A i \in 1..Len(wire) - 1 : wire[i][2] = "head" => wire[i + 1] = <<wire[i][1], "tail">>

\* A call of Write or StreamWrite returns, although StreamWrite holds
\* writerMutex while it waits for the queue, unless the client is closed: then
\* loopStreamSend is gone and nobody makes room.
WriteReturns ==
    \A t \in Senders :
        pc[t] \in {"put", "send", "flush", "failed", "closing"} ~> pc[t] = "idle" \/ CloseSignal \/ crashed

\* A Close comes to its end, whatever the senders hold.
CloseCompletes == CloseSignal ~> (closing = 6 \/ crashed)
=============================================================================
