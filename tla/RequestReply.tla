---------------------------- MODULE RequestReply ----------------------------
(***************************************************************************)
(* PeerClient.Request and StreamRequest (network/client.go) against the    *)
(* Accept goroutine that delivers replies (dispatchMessage of              *)
(* network/network.go): goroutines call over one PeerClient, each request  *)
(* is tracked under a nonce while it waits, and the remote node replies    *)
(* late, in any order, more than once or not at all.                       *)
(*                                                                         *)
(* The RequestState of a call is known by its nonce: data is the channel   *)
(* of capacity one, over the set of those whose closeSignal is closed.     *)
(***************************************************************************)
EXTENDS Integers, Sequences, FiniteSets

CONSTANTS
    Callers,    \* goroutines that call Request or StreamRequest
    MaxNonce,   \* bound: number of calls
    MaxReplies  \* bound: replies the remote node sends to one request

ASSUME ReplyAssumption == MaxNonce \in Nat /\ MaxReplies \in Nat

Nonce == 1..MaxNonce

VARIABLES
    RequestNonce,   \* the counter of the client
    pc, my,         \* per caller: position, nonce of its call
    Requests,       \* nonces that are tracked
    data,           \* per nonce: number of replies in its channel
    over,           \* nonces whose closeSignal is closed
    asked,          \* requests the remote node has
    replied,        \* per nonce: number of replies it has sent
    wire,           \* replies on their way, a FIFO connection
    rx, rn,         \* the Accept goroutine: position and nonce of the reply at hand
    stray           \* nonces of replies that were given to the components

callers == <<RequestNonce, pc, my>>
tracking == <<Requests, data, over>>
remote == <<asked, replied>>
receiver == <<rx, rn, stray>>
vars == <<callers, tracking, remote, wire, receiver>>

\* The type invariant; a channel holds at most one reply.
TypeOK ==
    /\ RequestNonce \in 0..MaxNonce
    /\ pc \in [Callers -> {"idle", "track", "write", "select", "delete", "signal"}]
    /\ my \in [Callers -> 0..MaxNonce]
    /\ Requests \subseteq Nonce
    /\ data \in [Nonce -> 0..1]
    /\ over \subseteq Nonce
    /\ asked \subseteq Nonce
    /\ replied \in [Nonce -> 0..MaxReplies]
    /\ wire \in Seq(Nonce)
    /\ rx \in {"read", "send"}
    /\ rn \in 0..MaxNonce
    /\ stray \subseteq Nonce

Init ==
    /\ RequestNonce = 0
    /\ pc = [t \in Callers |-> "idle"]
    /\ my = [t \in Callers |-> 0]
    /\ Requests = {}
    /\ data = [n \in Nonce |-> 0]
    /\ over = {}
    /\ asked = {}
    /\ replied = [n \in Nonce |-> 0]
    /\ wire = <<>>
    /\ rx = "read"
    /\ rn = 0
    /\ stray = {}
-----------------------------------------------------------------------------
(* The goroutines that call. *)

Goto(t, l) == pc' = [pc EXCEPT ![t] = l]

\* The message is prepared and takes the next nonce, an atomic add.
Begin(t) ==
    /\ pc[t] = "idle"
    /\ RequestNonce < MaxNonce
    /\ RequestNonce' = RequestNonce + 1
    /\ my' = [my EXCEPT ![t] = RequestNonce + 1]
    /\ Goto(t, "track")
    /\ UNCHANGED <<tracking, remote, wire, receiver>>

\* Mutant: the request is not tracked before it is sent.
TrackNot(t) ==
    /\ pc[t] = "track"
    /\ Goto(t, "write")
    /\ UNCHANGED <<RequestNonce, my, tracking, remote, wire, receiver>>

Track(t) ==
    /\ pc[t] = "track"
    /\ Requests' = Requests \cup {my[t]}
    /\ Goto(t, "write")
    /\ UNCHANGED <<RequestNonce, my, data, over, remote, wire, receiver>>

\* Write or StreamWrite; after an error the call returns.
Write(t) ==
    /\ pc[t] = "write"
    /\ \/ asked' = asked \cup {my[t]} /\ Goto(t, "select")
       \/ Goto(t, "delete") /\ UNCHANGED asked
    /\ UNCHANGED <<RequestNonce, my, tracking, replied, wire, receiver>>

\* Mutant: only the reply is waited for.
SelectReply(t) ==
    /\ pc[t] = "select"
    /\ data[my[t]] = 1
    /\ data' = [data EXCEPT ![my[t]] = 0]
    /\ Goto(t, "delete")
    /\ UNCHANGED <<RequestNonce, my, Requests, over, remote, wire, receiver>>

\* The select: the reply, or the ticker or the context.  StreamRequest has a
\* default too and returns without a reply unless it is there already.
Select(t) ==
    /\ pc[t] = "select"
    /\ \/ data[my[t]] = 1 /\ data' = [data EXCEPT ![my[t]] = 0]
       \/ UNCHANGED data
    /\ Goto(t, "delete")
    /\ UNCHANGED <<RequestNonce, my, Requests, over, remote, wire, receiver>>

\* Mutant: the call stays tracked.
DeleteNot(t) ==
    /\ pc[t] = "delete"
    /\ Goto(t, "signal")
    /\ UNCHANGED <<RequestNonce, my, tracking, remote, wire, receiver>>

\* The deferred calls, last first: Requests.Delete, then close(closeSignal).
Delete(t) ==
    /\ pc[t] = "delete"
    /\ Requests' = Requests \ {my[t]}
    /\ Goto(t, "signal")
    /\ UNCHANGED <<RequestNonce, my, data, over, remote, wire, receiver>>

\* Mutant: closeSignal is not closed.
SignalNot(t) ==
    /\ pc[t] = "signal"
    /\ Goto(t, "idle")
    /\ UNCHANGED <<RequestNonce, my, tracking, remote, wire, receiver>>

Signal(t) ==
    /\ pc[t] = "signal"
    /\ over' = over \cup {my[t]}
    /\ Goto(t, "idle")
    /\ UNCHANGED <<RequestNonce, my, Requests, data, remote, wire, receiver>>
-----------------------------------------------------------------------------
(* The remote node and the Accept goroutine. *)

\* A component of the remote node calls Reply with the nonce of the request.
Reply(n) ==
    /\ n \in asked
    /\ replied[n] < MaxReplies
    /\ replied' = [replied EXCEPT ![n] = @ + 1]
    /\ wire' = Append(wire, n)
    /\ UNCHANGED <<callers, tracking, asked, receiver>>

\* dispatchMessage looks the nonce up; a reply nobody waits for is given to the
\* components like any other message.
Receive ==
    /\ rx = "read"
    /\ wire # <<>>
    /\ wire' = Tail(wire)
    /\ IF Head(wire) \in Requests
       THEN rx' = "send" /\ rn' = Head(wire) /\ UNCHANGED stray
       ELSE stray' = stray \cup {Head(wire)} /\ UNCHANGED <<rx, rn>>
    /\ UNCHANGED <<callers, tracking, remote>>

\* Mutant: the channel takes any number of replies.
DeliverUnbounded ==
    /\ rx = "send"
    /\ data' = [data EXCEPT ![rn] = @ + 1]
    /\ rx' = "read"
    /\ UNCHANGED <<callers, Requests, over, remote, wire, rn, stray>>

\* The select of dispatchMessage blocks on a full channel until the call takes
\* its reply or closes closeSignal.
Deliver ==
    /\ rx = "send"
    /\ \/ data[rn] = 0 /\ data' = [data EXCEPT ![rn] = 1]
       \/ rn \in over /\ UNCHANGED data
    /\ rx' = "read"
    /\ UNCHANGED <<callers, Requests, over, remote, wire, rn, stray>>
-----------------------------------------------------------------------------
Caller(t) == Track(t) \/ Write(t) \/ Select(t) \/ Delete(t) \/ Signal(t)

Next ==
    \/ \E t \in Callers : Begin(t) \/ Caller(t)
    \/ \E n \in Nonce : Reply(n)
    \/ Receive \/ Deliver

Spec == Init /\ [][Next]_vars

\* Callers and the Accept goroutine keep being scheduled, and tickers fire.
\* Nothing is assumed of the remote node.
FairSpec == Spec /\ WF_vars(Receive) /\ WF_vars(Deliver) /\ \A t \in Callers : WF_vars(Caller(t))
-----------------------------------------------------------------------------
(* Properties. *)

Calling(t) == pc[t] # "idle"

\* Two calls under way never share a nonce, so that neither gets the reply or
\* stops the tracking of the other, and closeSignal is closed once.
OwnNonce ==
    \A t \in Callers : Calling(t) =>
        /\ my[t] \notin over
        /\ \A u \in Callers : Calling(u) /\ my[u] = my[t] => u = t

\* Exactly the calls between Store and Delete are tracked: Requests does not
\* grow with calls that failed or timed out.
TrackedExactly ==
    Requests = {n \in Nonce : \E t \in Callers : pc[t] \in {"write", "select", "delete"} /\ n = my[t]}

\* A reply goes to the components only when its call is over: no reply is so
\* fast that it overtakes the tracking of its request.
StrayOnlyLate ==
    \A t \in Callers : pc[t] \in {"track", "write", "select", "delete"} => my[t] \notin stray

\* Where the call of a nonce is: it ends when its select or its write does.
CallPhase ==
    [n \in Nonce |-> IF n > RequestNonce THEN "free"
                     ELSE IF \E t \in Callers : my[t] = n /\ pc[t] \in {"track", "write", "select"} THEN "open"
                     ELSE "ended"]

Promise == INSTANCE Calls WITH phase <- CallPhase, sent <- asked, box <- data

\* Goroutines that share a counter, a map and a connection keep the promise of
\* Calls: every call has its own nonce, is sent once, takes at most one reply,
\* one of its own, and ends once (client.go Request, StreamRequest).
KeepsPromise == Promise!Spec

\* The Accept goroutine is never stuck with a second reply to a call that has
\* gone; the connection is read on.
ReceiverFree == rx = "send" ~> rx = "read"

\* Every call returns, whatever the remote node does.
CallReturns == \A t \in Callers : Calling(t) ~> ~Calling(t)
=============================================================================
