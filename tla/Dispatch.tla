------------------------------ MODULE Dispatch ------------------------------
(***************************************************************************)
(* What happens to the messages of one connection after they were read:    *)
(* dispatchMessage, the job queue of the PeerClient (which UDP uses), the  *)
(* opcode table, the Receive callbacks of the components, and the byte     *)
(* stream that PeerClient offers as a net.Conn (handleBytes, Read).        *)
(*                                                                         *)
(* Messages are numbered in the order in which the connection delivers     *)
(* them.  Replies to requests are in RequestReply.  The components are     *)
(* numbered in the order of the ComponentList.                             *)
(***************************************************************************)
EXTENDS Integers, Sequences, Functions

CONSTANTS
    Kinds,          \* sequence: the kind of each message, "bytes", "system", "app" or "none"
    NComponents,
    JobsCap         \* capacity of jobs; 128 in the code

ASSUME DispatchAssumption ==
    /\ Kinds \in Seq({"bytes", "system", "app", "none"})
    /\ NComponents \in Nat \ {0} /\ JobsCap \in Nat \ {0}

VARIABLES
    udp,            \* AcceptUdp submits jobs, Accept and AcceptQuic dispatch themselves
    inOrder,        \* DisableDispatchMsgGoroutine
    arrived,        \* messages the reading goroutine has taken up
    jobs, executing,    \* the queue; executeJobs has not returned
    worker,         \* the message under dispatch, by the reader or the executor; 0: none
    wpc,            \* where dispatchMessage is
    incomingReady,
    opcodeTbl,      \* what the application has registered
    handler,        \* per message: components whose Receive has been called; -1: none will be
    log,            \* per component: messages received
    stream,         \* bytes in the buffer: numbers of messages
    empty,          \* local of handleBytes
    isClosed, CloseSignal,
    rpc,            \* the goroutine in PeerClient.Read
    out             \* bytes that Read has returned

dispatchVars == <<udp, inOrder, arrived, jobs, executing, worker, wpc, incomingReady, opcodeTbl,
                  handler, log, stream, empty, isClosed, CloseSignal, rpc, out>>
dispatchMode == <<udp, inOrder>>
queueing == <<arrived, jobs, executing>>
dispatching == <<worker, wpc, empty>>
receiving == <<handler, log>>
closingDown == <<isClosed, CloseSignal>>
readSide == <<rpc, out>>

Msgs == 1..Len(Kinds)

DispatchInit ==
    /\ udp \in BOOLEAN /\ inOrder \in BOOLEAN
    /\ arrived = 0 /\ jobs = <<>> /\ executing = TRUE
    /\ worker = 0 /\ wpc = "idle" /\ incomingReady = FALSE
    /\ opcodeTbl = {}
    /\ handler = [m \in Msgs |-> -1] /\ log = [c \in 1..NComponents |-> <<>>]
    /\ stream = <<>> /\ empty = TRUE
    /\ isClosed = FALSE /\ CloseSignal = FALSE
    /\ rpc = "look" /\ out = <<>>
-----------------------------------------------------------------------------
(* The registry; the opcodes of the system are known without it. *)

\* The Store into msgTbl that follows is for the senders, see PrepareMessage.
RegisterMessageType ==
    /\ opcodeTbl = {} /\ opcodeTbl' = {"app"}
    /\ UNCHANGED <<dispatchMode, queueing, dispatching, incomingReady, receiving, stream, closingDown, readSide>>

\* "none": no opcode, or a payload that does not unmarshal.
GetMessageType(kind) == kind \in {"bytes", "system"} \cup opcodeTbl
-----------------------------------------------------------------------------
(* From the connection to dispatchMessage. *)

Start(m) == worker' = m /\ wpc' = "ready"

\* A job is dropped if the client closes.
Submit(m) ==
    \/ Len(jobs) < JobsCap /\ jobs' = Append(jobs, m)
    \/ CloseSignal /\ UNCHANGED jobs

\* Accept calls dispatchMessage before it reads on; AcceptUdp submits a job.
Arrive ==
    /\ arrived < Len(Kinds)
    /\ arrived' = arrived + 1
    /\ IF udp
       THEN Submit(arrived + 1) /\ UNCHANGED <<worker, wpc>>
       ELSE wpc = "idle" /\ Start(arrived + 1) /\ UNCHANGED jobs
    /\ UNCHANGED <<dispatchMode, executing, empty, incomingReady, opcodeTbl, receiving, stream, closingDown, readSide>>

executeJobs ==
    /\ udp /\ executing /\ wpc = "idle"
    /\ \/ jobs # <<>> /\ Start(Head(jobs)) /\ jobs' = Tail(jobs) /\ UNCHANGED executing
       \/ CloseSignal /\ executing' = FALSE /\ UNCHANGED <<jobs, worker, wpc>>
    /\ UNCHANGED <<dispatchMode, arrived, empty, incomingReady, opcodeTbl, receiving, stream, closingDown, readSide>>

\* getOrSetPeerClient has registered the client.
setIncomingReady ==
    /\ ~incomingReady /\ incomingReady' = TRUE
    /\ UNCHANGED <<dispatchMode, queueing, dispatching, opcodeTbl, receiving, stream, closingDown, readSide>>

Done == worker' = 0 /\ wpc' = "idle"
-----------------------------------------------------------------------------
(* dispatchMessage of the message worker. *)

\* The client must become ready within a second, the opcode must be known.
CheckMessage ==
    /\ wpc = "ready"
    /\ IF ~incomingReady \/ ~GetMessageType(Kinds[worker]) THEN Done
       ELSE UNCHANGED worker /\ wpc' = IF Kinds[worker] = "bytes" THEN "bytes" ELSE "components"
    /\ UNCHANGED <<dispatchMode, queueing, empty, incomingReady, opcodeTbl, receiving, stream, closingDown, readSide>>

\* handleBytes appends under the mutex of the stream ...
handleBytes ==
    /\ wpc = "bytes"
    /\ empty' = (stream = <<>>)
    /\ stream' = Append(stream, worker)
    /\ wpc' = "notify"
    /\ UNCHANGED <<dispatchMode, queueing, worker, incomingReady, opcodeTbl, receiving, closingDown, readSide>>

\* ... and wakes a Read that waits; buffered has no room to remember it.
Notify ==
    /\ wpc = "notify"
    /\ rpc' = IF empty /\ rpc = "wait" THEN "look" ELSE rpc
    /\ Done
    /\ UNCHANGED <<dispatchMode, queueing, empty, incomingReady, opcodeTbl, receiving, stream, closingDown, out>>

\* Mutant: always in a goroutine of their own.
StartHandlerAlways ==
    /\ wpc = "components"
    /\ handler' = [handler EXCEPT ![worker] = 0]
    /\ Done
    /\ UNCHANGED <<dispatchMode, queueing, empty, incomingReady, opcodeTbl, log, stream, closingDown, readSide>>

\* The callbacks are run here, or in a goroutine of their own.
StartHandler ==
    /\ wpc = "components"
    /\ handler' = [handler EXCEPT ![worker] = 0]
    /\ IF inOrder THEN UNCHANGED worker /\ wpc' = "receive" ELSE Done
    /\ UNCHANGED <<dispatchMode, queueing, empty, incomingReady, opcodeTbl, log, stream, closingDown, readSide>>

\* Receive of the next component; its error is logged.
Receive(m) ==
    /\ handler[m] \in 0..(NComponents - 1)
    /\ handler' = [handler EXCEPT ![m] = @ + 1]
    /\ log' = [log EXCEPT ![handler[m] + 1] = Append(@, m)]
    /\ UNCHANGED <<dispatchMode, queueing, dispatching, incomingReady, opcodeTbl, stream, closingDown, readSide>>

HandlerDone ==
    /\ wpc = "receive" /\ handler[worker] = NComponents
    /\ Done
    /\ UNCHANGED <<dispatchMode, queueing, empty, incomingReady, opcodeTbl, receiving, stream, closingDown, readSide>>
-----------------------------------------------------------------------------
(* PeerClient.Read and Close. *)

\* One round: some of the buffer is copied, all of it if out has room.  With
\* data, or past its deadline, Read returns and the application calls it again.
\* Between the Unlock and the select nobody receives from buffered.
Read(n) ==
    /\ rpc = "look"
    /\ n = 0 <=> stream = <<>>
    /\ n <= Len(stream)
    /\ out' = out \o SubSeq(stream, 1, n)
    /\ stream' = SubSeq(stream, n + 1, Len(stream))
    /\ rpc' = IF isClosed THEN "closed" ELSE IF n = 0 THEN "unlocked" ELSE "look"
    /\ UNCHANGED <<dispatchMode, queueing, dispatching, incomingReady, opcodeTbl, receiving, closingDown>>

ReadSelect ==
    /\ rpc = "unlocked"
    /\ rpc' = "wait"
    /\ UNCHANGED <<dispatchMode, queueing, dispatching, incomingReady, opcodeTbl, receiving, stream, closingDown, out>>

\* Mutant: nothing but a notification ends the wait.
ReadTimerNever ==
    /\ rpc = "wait" /\ stream = <<>>
    /\ rpc' = "look"
    /\ UNCHANGED <<dispatchMode, queueing, dispatching, incomingReady, opcodeTbl, receiving, stream, closingDown, out>>

\* time.After(1 * time.Second)
ReadTimer ==
    /\ rpc = "wait"
    /\ rpc' = "look"
    /\ UNCHANGED <<dispatchMode, queueing, dispatching, incomingReady, opcodeTbl, receiving, stream, closingDown, out>>

\* The two first steps of PeerClient.Close.
CloseClient ==
    /\ ~isClosed
    /\ IF CloseSignal THEN isClosed' = TRUE /\ UNCHANGED CloseSignal
       ELSE CloseSignal' = TRUE /\ UNCHANGED isClosed
    /\ UNCHANGED <<dispatchMode, queueing, dispatching, incomingReady, opcodeTbl, receiving, stream, readSide>>

Worker == CheckMessage \/ handleBytes \/ Notify \/ StartHandler \/ HandlerDone
Reader == ReadSelect \/ ReadTimer \/ \E n \in 0..Len(Kinds) : Read(n)

DispatchNext ==
    \/ RegisterMessageType \/ Arrive \/ executeJobs \/ setIncomingReady \/ Worker
    \/ \E m \in Msgs : Receive(m)
    \/ Reader \/ CloseClient

DispatchSpec == DispatchInit /\ [][DispatchNext]_dispatchVars
-----------------------------------------------------------------------------
\* What the connection delivers reaches its readers in order: the bytes that
\* Read returns are those of the messages, none twice and none overtaken, and
\* every component receives a message once and after the components before it
\* (in order as well, if DisableDispatchMsgGoroutine is set), whether or not the
\* messages pass through the job queue (network.go dispatchMessage, client.go
\* executeJobs, handleBytes, Read).
DeliveredInOrder ==
    /\ LET bytes == out \o stream
       IN  \A i \in 1..(Len(bytes) - 1) : bytes[i] < bytes[i + 1]
    /\ \A c \in 1..NComponents :
         /\ \A i, j \in 1..Len(log[c]) : i < j => log[c][i] # log[c][j] /\ (inOrder => log[c][i] < log[c][j])
         /\ c > 1 => Range(log[c]) \subseteq Range(log[c - 1])

\* A Read does not wait for ever while there are bytes: the notification may get
\* lost, for it is sent only to a Read that waits already and only for the first
\* bytes, but the timer makes up for it (client.go handleBytes, Read).
ReadReturns == stream # <<>> ~> stream = <<>> \/ isClosed
=============================================================================
