------------------------------ MODULE AckReply ------------------------------
(***************************************************************************)
(* Messages that wait for an acknowledgement: AsyncSendAndWaitAck and      *)
(* StreamAsyncSendAndWaitAck (network/client.go) against the ackreply      *)
(* component, which deletes acknowledged messages, resends slow ones and   *)
(* gives up old ones.                                                      *)
(*                                                                         *)
(* The code reads the clock as time.Now().Second(), the second within the  *)
(* minute, and subtracts such seconds.  An entry of SyncWaitAck is a       *)
(* record of the seconds the code keeps and its true age, a history        *)
(* variable that stops counting after Minute.                              *)
(*                                                                         *)
(* The delay before a resend is arbitrary here, so Frequency is left out.  *)
(* One visit of Range reads one second, and waitAckLen counts in one step. *)
(* The model starts when PeerConnect has started the service.              *)
(***************************************************************************)
EXTENDS Integers, FiniteSets

CONSTANTS
    IDs,        \* message IDs
    Senders,    \* goroutines that send
    None,       \* no entry
    Minute,     \* 60 in the code
    Interval,   \* ackCheckedInterval, 3 s
    Timeout,    \* ackMessageTimeout, 10 s
    Cap,        \* DEFAULT_ACK_REPLY_CAPACITY of SyncWaitAck, 4096
    NotifyCap,  \* the same capacity, of the channel AckStatusNotify
    MaxCopies   \* bound: copies of one message, their acknowledgements and handlers

Second == 0..(Minute - 1)

\* What the map keeps of a message: the seconds of its first and of its latest
\* successful send, and its age.
Entry == [when : Second, latest : Second, age : 0..Minute]

ASSUME AckAssumption ==
    /\ None \notin IDs /\ None \notin Entry /\ None \notin IDs \X Entry
    /\ Minute \in Nat \ {0} /\ Interval \in Nat \ {0} /\ Timeout \in Nat
    /\ Cap \in Nat /\ NotifyCap \in Nat /\ MaxCopies \in Nat

VARIABLES
    second,         \* time.Now().Second()
    due, tick,      \* the ticker: seconds to its next tick, a tick is waiting
    SyncWaitAck,    \* message ID -> entry
    pc, id,         \* per sender: position, message
    wire,           \* per ID: copies with this ID on their way to the remote node
    acks,           \* per ID: acknowledgements on their way back
    succ,           \* per ID: handlers about to report success
    resend,         \* IDs of entries that some goroutine is about to resend
    spc, todo, cur, \* the service goroutine: position, keys left to visit, expired entry
    stop,           \* stopCh or Kill is closed
    notified,       \* number of reports in AckStatusNotify
    reported,       \* history: IDs a report was sent for since they were last stored
    stored          \* history: IDs that ever got an entry

time == <<second, due, tick>>
senders == <<pc, id>>
network == <<wire, acks>>
service == <<spc, todo, cur, stop>>
history == <<reported, stored>>
vars == <<time, SyncWaitAck, senders, network, succ, resend, service, notified, history>>

Init ==
    /\ second = 0
    /\ due = Interval
    /\ tick = FALSE
    /\ SyncWaitAck = [m \in IDs |-> None]
    /\ pc = [s \in Senders |-> "idle"]
    /\ id = [s \in Senders |-> None]
    /\ wire = [m \in IDs |-> 0]
    /\ acks = [m \in IDs |-> 0]
    /\ succ = [m \in IDs |-> 0]
    /\ resend = {}
    /\ spc = "wait"
    /\ todo = {}
    /\ cur = None
    /\ stop = FALSE
    /\ notified = 0
    /\ reported = {}
    /\ stored = {}

Waiting == {m \in IDs : SyncWaitAck[m] # None}
Copies(m) == wire[m] + acks[m] + succ[m]
-----------------------------------------------------------------------------
(* A goroutine that sends. *)

\* waitAckLen and the lookup of the ID; a call that fails them changes nothing.
Check(s, m) ==
    /\ pc[s] = "idle"
    /\ Cardinality(Waiting) < Cap
    /\ m \notin Waiting
    /\ pc' = [pc EXCEPT ![s] = "write"]
    /\ id' = [id EXCEPT ![s] = m]
    /\ UNCHANGED <<time, SyncWaitAck, network, succ, resend, service, notified, history>>

\* Network.Write or StreamWrite.
Write(s) ==
    /\ pc[s] = "write"
    /\ \/ /\ Copies(id[s]) < MaxCopies
          /\ wire' = [wire EXCEPT ![id[s]] = @ + 1]
          /\ pc' = [pc EXCEPT ![s] = "store"]
          /\ UNCHANGED id
       \/ /\ pc' = [pc EXCEPT ![s] = "idle"]
          /\ id' = [id EXCEPT ![s] = None]
          /\ UNCHANGED wire
    /\ UNCHANGED <<time, SyncWaitAck, acks, succ, resend, service, notified, history>>

\* The entry is stored after the message was sent.  StreamAsyncSendAndWaitAck
\* sets LatestSendSuccessAt, AsyncSendAndWaitAck leaves it 0.  A goroutine that
\* resends an earlier entry of this ID holds a value the map no longer has.
Store(s) ==
    /\ pc[s] = "store"
    /\ \E latest \in {0, second} :
         SyncWaitAck' = [SyncWaitAck EXCEPT ![id[s]] = [when |-> second, latest |-> latest, age |-> 0]]
    /\ resend' = resend \ {id[s]}
    /\ stored' = stored \cup {id[s]}
    /\ reported' = reported \ {id[s]}
    /\ pc' = [pc EXCEPT ![s] = "idle"]
    /\ id' = [id EXCEPT ![s] = None]
    /\ UNCHANGED <<time, network, succ, service, notified>>
-----------------------------------------------------------------------------
(* The remote node and the handlers of its acknowledgements. *)

\* Accept of the remote node answers a message that has an ID, unless the
\* message is lost, the node does not run the component or its Tell fails.
RemoteAck(m) ==
    /\ wire[m] > 0
    /\ wire' = [wire EXCEPT ![m] = @ - 1]
    /\ acks' \in {acks, [acks EXCEPT ![m] = @ + 1]}
    /\ UNCHANGED <<time, SyncWaitAck, senders, succ, resend, service, notified, history>>

\* Component.Receive: the entry is deleted, then the success is reported.
Receive(m) ==
    /\ acks[m] > 0
    /\ acks' = [acks EXCEPT ![m] = @ - 1]
    /\ SyncWaitAck' = [SyncWaitAck EXCEPT ![m] = None]
    /\ resend' = resend \ {m}
    /\ succ' = [succ EXCEPT ![m] = @ + 1]
    /\ UNCHANGED <<time, senders, wire, service, notified, history>>

\* Mutant: a report that finds the channel full is dropped.
ReportSuccessOrDrop(m) ==
    /\ succ[m] > 0
    /\ IF notified < NotifyCap
       THEN notified' = notified + 1 /\ reported' = reported \cup {m}
       ELSE UNCHANGED <<notified, reported>>
    /\ succ' = [succ EXCEPT ![m] = @ - 1]
    /\ UNCHANGED <<time, SyncWaitAck, senders, network, resend, service, stored>>

ReportSuccess(m) ==
    /\ succ[m] > 0
    /\ notified < NotifyCap
    /\ notified' = notified + 1
    /\ reported' = reported \cup {m}
    /\ succ' = [succ EXCEPT ![m] = @ - 1]
    /\ UNCHANGED <<time, SyncWaitAck, senders, network, resend, service, stored>>

\* The application reads AckStatusNotify.
ReadReport ==
    /\ notified > 0
    /\ notified' = notified - 1
    /\ UNCHANGED <<time, SyncWaitAck, senders, network, succ, resend, service, history>>
-----------------------------------------------------------------------------
(* checkAckReceivedService. *)

\* A second passes.  A ticker keeps one tick for a slow receiver.
Advance ==
    /\ second' = (second + 1) % Minute
    /\ due' = IF due = 1 THEN Interval ELSE due - 1
    /\ tick' = (tick \/ due = 1)
    /\ SyncWaitAck' = [m \in IDs |-> IF SyncWaitAck[m] = None THEN None
                                     ELSE [SyncWaitAck[m] EXCEPT !.age = IF @ < Minute THEN @ + 1 ELSE @]]
    /\ cur' = IF cur = None THEN None ELSE [cur EXCEPT ![2].age = IF @ < Minute THEN @ + 1 ELSE @]
    /\ UNCHANGED <<senders, network, succ, resend, spc, todo, stop, notified, history>>

\* Range visits the keys that are present now, and possibly some that are
\* stored while it runs.
Tick ==
    /\ spc = "wait" /\ tick
    /\ tick' = FALSE
    /\ spc' = "range"
    /\ \E later \in SUBSET (IDs \ Waiting) : todo' = Waiting \cup later
    /\ UNCHANGED <<second, due, SyncWaitAck, senders, network, succ, resend, cur, stop, notified, history>>

\* Mutant: the latest successful send counts, not the first one.
ExpiredSinceLatest(e) == second - e.latest > Timeout

Expired(e) == second - e.when > Timeout
JustPut(e) == second - e.when < Interval
SendIsOld(e) == second - e.latest > Interval

\* Range visits a key: an expired entry is given up, one that was just put in
\* is left alone, one that was not sent for a while is resent.
Visit(m) ==
    LET e == SyncWaitAck[m] IN
    /\ spc = "range"
    /\ m \in todo
    /\ todo' = todo \ {m}
    /\ IF e # None /\ Expired(e)
       THEN spc' = "delete" /\ cur' = <<m, e>> /\ UNCHANGED resend
       ELSE /\ resend' = IF e # None /\ ~JustPut(e) /\ SendIsOld(e) THEN resend \cup {m} ELSE resend
            /\ UNCHANGED <<spc, cur>>
    /\ UNCHANGED <<time, SyncWaitAck, senders, network, succ, stop, notified, history>>

\* Mutant: the entry that is given up stays.
DeleteNothing ==
    /\ spc = "delete"
    /\ spc' = "fail"
    /\ UNCHANGED <<time, SyncWaitAck, senders, network, succ, resend, todo, cur, stop, notified, history>>

DeleteExpired ==
    /\ spc = "delete"
    /\ SyncWaitAck' = [SyncWaitAck EXCEPT ![cur[1]] = None]
    /\ resend' = resend \ {cur[1]}
    /\ spc' = "fail"
    /\ UNCHANGED <<time, senders, network, succ, todo, cur, stop, notified, history>>

\* AckStatusNotify <- ACK_FAILED, which blocks the service on a full channel.
ReportFailure ==
    /\ spc = "fail"
    /\ notified < NotifyCap
    /\ notified' = notified + 1
    /\ reported' = reported \cup {cur[1]}
    /\ spc' = "range"
    /\ cur' = None
    /\ UNCHANGED <<time, SyncWaitAck, senders, network, succ, resend, todo, stop, stored>>

EndRange ==
    /\ spc = "range" /\ todo = {}
    /\ spc' = "wait"
    /\ UNCHANGED <<time, SyncWaitAck, senders, network, succ, resend, todo, cur, stop, notified, history>>

\* Component.Cleanup or Network.Close: a channel of the service is closed.
Cleanup ==
    /\ ~stop
    /\ stop' = TRUE
    /\ UNCHANGED <<time, SyncWaitAck, senders, network, succ, resend, spc, todo, cur, notified, history>>

\* select takes any case that is ready, so a waiting tick may still go first.
Return ==
    /\ spc = "wait" /\ stop
    /\ spc' = "stopped"
    /\ UNCHANGED <<time, SyncWaitAck, senders, network, succ, resend, todo, cur, stop, notified, history>>

\* The goroutine of a resend: Tell sends the message without its ID, so that no
\* acknowledgement will come of it; the entry learns of a success.  Other
\* goroutines, of other passes, may be about to resend the same entry.
Resend(m) ==
    /\ m \in resend
    /\ resend' \in {resend, resend \ {m}}
    /\ SyncWaitAck' \in {SyncWaitAck, [SyncWaitAck EXCEPT ![m].latest = second]}
    /\ UNCHANGED <<time, senders, network, succ, service, notified, history>>
-----------------------------------------------------------------------------
Sender(s) == Write(s) \/ Store(s) \/ \E m \in IDs : Check(s, m)

Service == Tick \/ (\E m \in IDs : Visit(m)) \/ DeleteExpired \/ ReportFailure \/ EndRange \/ Return

Next ==
    \/ \E s \in Senders : Sender(s)
    \/ \E m \in IDs : RemoteAck(m) \/ Receive(m) \/ ReportSuccess(m) \/ Resend(m)
    \/ ReadReport \/ Advance \/ Service \/ Cleanup

Spec == Init /\ [][Next]_vars

\* Time passes and the service goroutine is scheduled.  The application empties
\* AckStatusNotify; a channel serves its senders in turn.
FairSpec ==
    /\ Spec
    /\ WF_vars(Advance) /\ SF_vars(Service) /\ WF_vars(ReadReport)
-----------------------------------------------------------------------------
(* Properties. *)

\* A message is given up only when it has waited longer than ackMessageTimeout,
\* although its age is computed from seconds within the minute.
FailedIsOld == spc \in {"delete", "fail"} => cur[2].age > Timeout

\* No entry disappears in silence: a message that was stored waits, or a report
\* of it is on its way or was made since, though every report may have to wait
\* for a place in AckStatusNotify.
NoSilentLoss ==
    \A m \in stored :
        \/ m \in Waiting \/ m \in reported \/ succ[m] > 0
        \/ spc = "fail" /\ cur[1] = m

\* The service takes a tick and makes its pass within a second.
Prompt == spc = "range" \/ (tick /\ spc = "wait") => UNCHANGED second

\* An entry that was stored early enough in its minute is not kept for ever: it
\* is acknowledged, given up or replaced by another sender of the same ID, unless
\* the service is stopped or, again and again, too slow to see the seconds between
\* the time-out and the full minute.
EarlyExpires ==
    <>[][Prompt]_vars =>
        \A m \in IDs, w \in {w \in Second : w + Timeout + Interval < Minute} :
            (SyncWaitAck[m] # None /\ SyncWaitAck[m].when = w)
              ~> (SyncWaitAck[m] = None \/ SyncWaitAck[m].when # w \/ stop)

=============================================================================
