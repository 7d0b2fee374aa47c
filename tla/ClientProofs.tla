---------------------------- MODULE ClientProofs ----------------------------
(***************************************************************************)
(* What a client of the network keeps: the requests that wait for a reply  *)
(* (RequestReply), for any number of goroutines, calls and replies, and    *)
(* the addresses it has resolved (Resolver), for every limit of the cache, *)
(* every list of peers and every answer of the resolver.                   *)
(*                                                                         *)
(* Calls do not share nonces, exactly the calls under way are tracked, and *)
(* no reply overtakes the tracking of its request.                         *)
(*                                                                         *)
(* That the cache drops the least recently used address needs that neither *)
(* its list nor the history of uses repeats a key: then moving a key to    *)
(* the front keeps the list the beginning of the history.                  *)
(***************************************************************************)
EXTENDS RequestReply, Resolver, TLAPS

\* Nonces are handed out once: what is known of a nonce lies below the counter.
Issued ==
    /\ \A t \in Callers : my[t] <= RequestNonce /\ (Calling(t) => my[t] > 0)
    /\ \A n \in over \cup asked : n <= RequestNonce

\* Only a request that was sent is replied to.
RepliesAsked ==
    /\ \A i \in 1..Len(wire) : wire[i] \in asked
    /\ stray \subseteq asked
    /\ rx = "send" => rn \in asked

\* A request that was not sent yet is unknown to the remote node.
Unsent == \A t \in Callers : pc[t] \in {"track", "write"} => my[t] \notin asked

IInv == TypeOK /\ OwnNonce /\ TrackedExactly /\ StrayOnlyLate /\ Issued /\ RepliesAsked /\ Unsent

-----------------------------------------------------------------------------
\* Before the first call nothing is tracked, sent or replied to.
LEMMA InitIInv == Init => IInv
BY ReplyAssumption DEF Init, IInv, TypeOK, OwnNonce, TrackedExactly, StrayOnlyLate, Issued,
    RepliesAsked, Unsent, Calling, Nonce

\* Begin takes a nonce above all those in use.
LEMMA BeginIInv == ASSUME IInv, NEW t \in Callers, Begin(t) PROVE IInv'
<1> USE ReplyAssumption DEF IInv, TypeOK, Begin, Goto, tracking, remote, receiver
<1>1. TypeOK'
  OBVIOUS
<1>2. OwnNonce' /\ Issued' /\ Unsent'
  BY SMTT(20) DEF OwnNonce, Issued, Unsent, Calling, Nonce
<1>3. TrackedExactly'
  BY DEF TrackedExactly
<1>4. StrayOnlyLate'
  BY DEF StrayOnlyLate, RepliesAsked, Issued
<1>5. RepliesAsked'
  BY DEF RepliesAsked
<1> QED BY <1>1, <1>2, <1>3, <1>4, <1>5

\* The steps of a call between Store and Delete keep the set of tracked calls
\* equal to the set of nonces in use.
LEMMA CallerIInv == ASSUME IInv, NEW t \in Callers, Caller(t) PROVE IInv'
<1> USE ReplyAssumption DEF IInv, TypeOK, Goto, tracking, remote, receiver
<1>n. Calling(t) => my[t] \in Nonce
  BY DEF Issued, Nonce
<1>1. CASE Track(t)
  <2> USE <1>1 DEF Track
  <2>1. TypeOK'
    BY <1>n DEF Calling
  <2>2. OwnNonce' /\ StrayOnlyLate' /\ Issued' /\ RepliesAsked' /\ Unsent'
    BY DEF OwnNonce, StrayOnlyLate, Issued, RepliesAsked, Unsent, Calling
  <2>3. TrackedExactly'
    BY <1>n DEF TrackedExactly, Calling
  <2> QED BY <2>1, <2>2, <2>3
<1>2. CASE Write(t)
  <2> USE <1>2 DEF Write
  <2>1. TypeOK'
    BY SMTT(20), <1>n DEF Calling
  <2>2. OwnNonce' /\ StrayOnlyLate' /\ Issued' /\ RepliesAsked'
    BY DEF OwnNonce, StrayOnlyLate, Issued, RepliesAsked, Calling
  <2>3. Unsent'
    BY Zenon DEF Unsent, OwnNonce, Calling
  <2>4. TrackedExactly'
    BY DEF TrackedExactly
  <2> QED BY <2>1, <2>2, <2>3, <2>4
<1>3. CASE Select(t)
  <2> USE <1>3 DEF Select
  <2>1. TypeOK'
    BY SMTT(20), <1>n DEF Calling
  <2>2. OwnNonce' /\ StrayOnlyLate' /\ Issued' /\ RepliesAsked' /\ Unsent'
    BY DEF OwnNonce, StrayOnlyLate, Issued, RepliesAsked, Unsent, Calling
  <2>3. TrackedExactly'
    BY DEF TrackedExactly
  <2> QED BY <2>1, <2>2, <2>3
<1>4. CASE Delete(t)
  <2> USE <1>4 DEF Delete
  <2>1. TypeOK'
    OBVIOUS
  <2>2. OwnNonce' /\ StrayOnlyLate' /\ Issued' /\ RepliesAsked' /\ Unsent'
    BY DEF OwnNonce, StrayOnlyLate, Issued, RepliesAsked, Unsent, Calling
  <2>3. \A u \in Callers : pc[u] \in {"write", "select", "delete"} /\ my[u] = my[t] => u = t
    BY DEF OwnNonce, Calling
  <2>4. \A n \in Nonce : n \in Requests' <=>
                 \E u \in Callers : pc'[u] \in {"write", "select", "delete"} /\ n = my[u]
    BY <2>3 DEF TrackedExactly
  <2>5. TrackedExactly'
    BY <2>4 DEF TrackedExactly
  <2> QED BY <2>1, <2>2, <2>5
<1>5. CASE Signal(t)
  <2> USE <1>5 DEF Signal
  <2>1. TypeOK'
    BY <1>n DEF Calling
  <2>2. OwnNonce' /\ StrayOnlyLate' /\ Issued' /\ RepliesAsked' /\ Unsent'
    BY DEF OwnNonce, StrayOnlyLate, Issued, RepliesAsked, Unsent, Calling
  <2>3. TrackedExactly'
    BY DEF TrackedExactly
  <2> QED BY <2>1, <2>2, <2>3
<1> QED BY <1>1, <1>2, <1>3, <1>4, <1>5 DEF Caller

\* A reply is for a request that was sent.
LEMMA ReplyIInv == ASSUME IInv, NEW n \in Nonce, Reply(n) PROVE IInv'
<1> USE DEF IInv, TypeOK, Reply, callers, tracking, receiver
<1>1. TypeOK'
  BY ReplyAssumption
<1>2. OwnNonce' /\ TrackedExactly' /\ StrayOnlyLate' /\ Issued' /\ Unsent'
  BY DEF OwnNonce, TrackedExactly, StrayOnlyLate, Issued, Unsent, Calling
<1>3. RepliesAsked'
  BY DEF RepliesAsked
<1> QED BY <1>1, <1>2, <1>3

\* A reply that is not looked for belongs to a call that was sent and is no
\* longer tracked.
LEMMA ReceiveIInv == ASSUME IInv, Receive PROVE IInv'
<1> USE DEF IInv, TypeOK, Receive, callers, tracking, remote
<1>1. Head(wire) \in asked /\ Head(wire) \in Nonce /\ Tail(wire) \in Seq(Nonce)
  BY DEF RepliesAsked
<1>2. TypeOK'
  <2>1. Head(wire) \in 0..MaxNonce
    BY <1>1 DEF Nonce
  <2> QED BY <1>1, <2>1
<1>3. OwnNonce' /\ TrackedExactly' /\ Issued' /\ Unsent'
  BY DEF OwnNonce, TrackedExactly, Issued, Unsent, Calling
<1>4. StrayOnlyLate'
  BY <1>1 DEF StrayOnlyLate, TrackedExactly, Unsent
<1>5. RepliesAsked'
  BY <1>1 DEF RepliesAsked
<1> QED BY <1>2, <1>3, <1>4, <1>5

\* Handing a reply over changes only the channel of its call.
LEMMA DeliverIInv == ASSUME IInv, Deliver PROVE IInv'
<1> USE DEF IInv, TypeOK, Deliver, callers, remote
<1>1. TypeOK'
  BY SMTT(20) DEF Nonce
<1>2. OwnNonce' /\ TrackedExactly' /\ StrayOnlyLate' /\ Issued' /\ RepliesAsked' /\ Unsent'
  BY DEF OwnNonce, TrackedExactly, StrayOnlyLate, Issued, RepliesAsked, Unsent, Calling
<1> QED BY <1>1, <1>2

\* Every step keeps the inductive invariant.
LEMMA NextIInv == IInv /\ [Next]_vars => IInv'
<1> SUFFICES ASSUME IInv, [Next]_vars PROVE IInv'
  OBVIOUS
<1>1. CASE UNCHANGED vars
  BY <1>1 DEF IInv, TypeOK, OwnNonce, TrackedExactly, StrayOnlyLate, Issued, RepliesAsked, Unsent,
      Calling, vars, callers, tracking, remote, receiver
<1>2. CASE Next
  BY <1>2, BeginIInv, CallerIInv, ReplyIInv, ReceiveIInv, DeliverIInv DEF Next
<1> QED BY <1>1, <1>2

\* The inductive invariant holds throughout.
THEOREM Inductive == Spec => []IInv
BY InitIInv, NextIInv, PTL DEF Spec

\* Concurrent calls of Request and StreamRequest never share a nonce, and no
\* call closes a closeSignal that is closed.
THEOREM NoncesUnique == Spec => []OwnNonce
<1>1. IInv => OwnNonce
  BY DEF IInv
<1> QED BY <1>1, Inductive, PTL

\* The map Requests holds exactly the calls between Store and Delete.
THEOREM NoLeak == Spec => []TrackedExactly
<1>1. IInv => TrackedExactly
  BY DEF IInv
<1> QED BY <1>1, Inductive, PTL

\* No reply reaches the components while its call waits for it.
THEOREM RepliesFound == Spec => []StrayOnlyLate
<1>1. IInv => StrayOnlyLate
  BY DEF IInv
<1> QED BY <1>1, Inductive, PTL
-----------------------------------------------------------------------------
\* A call that begins opens a nonce that was free.
LEMMA BeginOpens == ASSUME IInv, NEW t \in Callers, Begin(t) PROVE Promise!Open(RequestNonce + 1)
<1> USE ReplyAssumption DEF IInv, TypeOK, Begin, Goto, tracking, remote, receiver, Nonce
<1>1. \A u \in Callers : my[u] # RequestNonce + 1
  BY DEF Issued
<1>2. \A m \in Nonce : CallPhase'[m] = IF m = RequestNonce + 1 THEN "open" ELSE CallPhase[m]
  BY <1>1 DEF CallPhase
<1>3. CallPhase' = [CallPhase EXCEPT ![RequestNonce + 1] = "open"]
  BY ZenonT(30), <1>2 DEF CallPhase
<1>4. CallPhase[RequestNonce + 1] = "free"
  BY DEF CallPhase
<1> QED BY <1>3, <1>4 DEF Promise!Open

\* A step that takes a call out of its select, or out of a write that fails,
\* ends the phase of its nonce and no other, for no other call has that nonce.
LEMMA LeavingEnds ==
    ASSUME IInv, NEW t \in Callers, pc[t] \in {"write", "select"}, Goto(t, "delete"),
           UNCHANGED <<RequestNonce, my>>
    PROVE  CallPhase[my[t]] = "open" /\ CallPhase' = [CallPhase EXCEPT ![my[t]] = "ended"]
<1> USE ReplyAssumption DEF IInv, TypeOK, Goto, Nonce
<1>1. my[t] \in Nonce /\ my[t] <= RequestNonce
  <2>1. Calling(t)
    BY DEF Calling
  <2>2. my[t] <= RequestNonce /\ my[t] > 0
    BY <2>1 DEF Issued
  <2> QED BY <2>2
<1>2. CallPhase[my[t]] = "open"
  BY <1>1 DEF CallPhase
<1>3. \A u \in Callers : pc[u] \in {"track", "write", "select"} /\ my[u] = my[t] => u = t
  BY Zenon DEF OwnNonce, Calling
<1>4. \A m \in Nonce : CallPhase'[m] = IF m = my[t] THEN "ended" ELSE CallPhase[m]
  BY <1>1, <1>3 DEF CallPhase
<1>5. CallPhase' = [CallPhase EXCEPT ![my[t]] = "ended"]
  BY ZenonT(30), <1>4 DEF CallPhase
<1> QED BY <1>2, <1>5

\* A call that is in its select was sent, so a reply it takes answers it.
SelectSent == \A t \in Callers : pc[t] = "select" => my[t] \in asked

\* Track, Write, Select, Delete and Signal are a Send, an End or nothing.
LEMMA CallerKeeps ==
    ASSUME IInv, SelectSent, NEW t \in Callers, Caller(t)
    PROVE  [\E n \in Nonce : Promise!Send(n) \/ Promise!End(n)]_(Promise!calls)
<1> USE ReplyAssumption DEF IInv, TypeOK, tracking, remote, receiver
<1>1. Calling(t) => my[t] \in Nonce /\ my[t] <= RequestNonce
  BY DEF Issued, Nonce
<1>2. CASE Track(t)
  <2>1. CallPhase' = CallPhase
    BY <1>2 DEF CallPhase, Track, Goto
  <2> QED BY <1>2, <2>1 DEF Track, Promise!calls
<1>3. CASE Write(t)
  <2>1. CASE asked' = asked \cup {my[t]} /\ Goto(t, "select")
    <3>1. CallPhase' = CallPhase
      BY <1>3, <2>1 DEF CallPhase, Write, Goto
    <3>2. CallPhase[my[t]] = "open"
      BY <1>1, <1>3 DEF CallPhase, Write, Calling, Nonce
    <3>3. my[t] \notin asked
      BY <1>3 DEF Unsent, Write
    <3>4. Promise!Send(my[t])
      BY <1>3, <2>1, <3>1, <3>2, <3>3 DEF Promise!Send, Write
    <3> QED BY <1>1, <1>3, <3>4 DEF Calling, Write
  <2>2. CASE Goto(t, "delete") /\ UNCHANGED asked
    <3>1. Promise!End(my[t])
      BY <1>3, <2>2, LeavingEnds DEF Promise!End, Write
    <3> QED BY <1>1, <1>3, <3>1 DEF Calling, Write
  <2> QED BY <1>3, <2>1, <2>2 DEF Write
<1>4. CASE Select(t)
  <2>1. CallPhase[my[t]] = "open" /\ CallPhase' = [CallPhase EXCEPT ![my[t]] = "ended"]
    BY <1>4, LeavingEnds DEF Select
  <2>2. Promise!End(my[t])
    BY <1>4, <2>1 DEF Promise!End, Select, SelectSent
  <2> QED BY <1>1, <1>4, <2>2 DEF Calling, Select
<1>5. CASE Delete(t) \/ Signal(t)
  <2>1. CallPhase' = CallPhase
    BY <1>5 DEF CallPhase, Delete, Signal, Goto
  <2> QED BY <1>5, <2>1 DEF Delete, Signal, Promise!calls
<1> QED BY <1>2, <1>3, <1>4, <1>5 DEF Caller

\* Every step is a step of Calls or leaves what Calls speaks of alone.
LEMMA StepKeeps == IInv /\ SelectSent /\ [Next]_vars => [Promise!Next]_(Promise!calls)
<1> SUFFICES ASSUME IInv, SelectSent, [Next]_vars PROVE [Promise!Next]_(Promise!calls)
  OBVIOUS
<1>1. CASE UNCHANGED <<callers, data, asked>>
  BY <1>1 DEF callers, CallPhase, Promise!calls
<1>2. ASSUME NEW t \in Callers, Begin(t) PROVE Promise!Next
  <2>1. RequestNonce + 1 \in Nonce
    BY <1>2, ReplyAssumption DEF Begin, IInv, TypeOK, Nonce
  <2> QED BY <1>2, <2>1, BeginOpens DEF Promise!Next
<1>3. ASSUME NEW t \in Callers, Caller(t) PROVE [Promise!Next]_(Promise!calls)
  BY <1>3, CallerKeeps DEF Promise!Next
<1>4. ASSUME Deliver PROVE [Promise!Next]_(Promise!calls)
  <2>1. CallPhase' = CallPhase
    BY <1>4 DEF Deliver, callers, CallPhase
  <2>2. CASE data[rn] = 0 /\ data' = [data EXCEPT ![rn] = 1]
    <3>1. rn \in asked /\ rn \in Nonce
      BY <1>4 DEF Deliver, IInv, RepliesAsked, TypeOK
    <3>2. Promise!Answer(rn)
      BY <1>4, <2>1, <2>2, <3>1 DEF Deliver, remote, Promise!Answer
    <3> QED BY <3>1, <3>2 DEF Promise!Next
  <2>3. CASE UNCHANGED data
    BY <1>4, <2>1, <2>3 DEF Deliver, remote, Promise!calls
  <2> QED BY <1>4, <2>2, <2>3 DEF Deliver
<1>5. CASE UNCHANGED vars \/ Receive \/ \E n \in Nonce : Reply(n)
  BY <1>1, <1>5 DEF vars, Receive, Reply, tracking, remote
<1> QED BY <1>2, <1>3, <1>4, <1>5 DEF Next

\* A request is written before its call selects.
LEMMA SelectSentStep == IInv /\ SelectSent /\ [Next]_vars => SelectSent'
<1> SUFFICES ASSUME IInv, SelectSent, [Next]_vars PROVE SelectSent'
  OBVIOUS
<1> USE DEF SelectSent, IInv, TypeOK
<1>1. ASSUME NEW t \in Callers, Begin(t) \/ Caller(t) PROVE SelectSent'
  BY <1>1 DEF Begin, Caller, Track, Write, Select, Delete, Signal, Goto, remote
<1>2. CASE UNCHANGED vars \/ Receive \/ Deliver \/ \E n \in Nonce : Reply(n)
  BY <1>2 DEF vars, Receive, Deliver, Reply, callers, remote
<1> QED BY <1>1, <1>2 DEF Next

\* Request and StreamRequest implement Calls: whatever the number of goroutines,
\* every call has its own nonce, is sent once, takes at most one reply, one of
\* its own, and ends once.
THEOREM CallsImplemented == Spec => KeepsPromise
<1>1. Init => SelectSent /\ Promise!Init
  <2>1. Init => SelectSent
    BY DEF Init, SelectSent
  <2>2. Init => CallPhase = [n \in Nonce |-> "free"]
    BY ReplyAssumption DEF Init, CallPhase, Nonce
  <2> QED BY <2>1, <2>2 DEF Init, Promise!Init
<1> QED BY <1>1, Inductive, SelectSentStep, StepKeeps, PTL DEF Spec, KeepsPromise, Promise!Spec
-----------------------------------------------------------------------------
\* Get is called with the host of a peer.
Hosts == {p.host : p \in Peers}

Distinct(list) == \A i, j \in 1..Len(list) : list[i] = list[j] => i = j

\* m is s with its element e in front, with k in front, or its first n elements.
MovedFrom(m, s, e) == \A i \in 1..Len(s) : m[i] = IF i = 1 THEN s[e] ELSE IF i <= e THEN s[i - 1] ELSE s[i]
PushedOn(m, s, k) == \A i \in 1..Len(s) + 1 : m[i] = IF i = 1 THEN k ELSE s[i - 1]
FirstOf(m, s, n) == \A i \in 1..n : m[i] = s[i]

\* The cache, with what makes its property inductive: the list and the history
\* repeat no key.
CacheInv ==
    /\ order \in Seq(Hosts) /\ recency \in Seq(Hosts)
    /\ Distinct(order) /\ Distinct(recency)
    /\ LeastRecentDropped

\* FilterPeers: the addresses it returns so far are the ones it has visited.
FilterInv ==
    /\ peers \in Seq(Peers)
    /\ filtered \in Seq(visited) /\ Own \in visited /\ Range(filtered) = visited \ {Own}
    /\ IsInjective(filtered)

-----------------------------------------------------------------------------
\* The elements of a list.
LEMMA RangeOf ==
    ASSUME NEW S, NEW s \in Seq(S)
    PROVE  /\ Len(s) \in Nat /\ DOMAIN s = 1..Len(s)
           /\ Range(s) = {s[i] : i \in 1..Len(s)} /\ Range(s) \subseteq S
BY DEF Range

\* Element finds a key that is in the list.
LEMMA Found ==
    ASSUME NEW S, NEW s \in Seq(S), NEW k \in Range(s)
    PROVE  Element(s, k) \in 1..Len(s) /\ s[Element(s, k)] = k
<1>1. \E e \in 1..Len(s) : s[e] = k
  BY RangeOf
<1> QED
  BY Zenon, <1>1 DEF Element

\* MoveToFront keeps the keys of a list, each once.
LEMMA Moved ==
    ASSUME NEW S, NEW s \in Seq(S), Distinct(s), NEW e \in 1..Len(s)
    PROVE  /\ MoveToFront(s, e) \in Seq(S) /\ Len(MoveToFront(s, e)) = Len(s)
           /\ Distinct(MoveToFront(s, e)) /\ Range(MoveToFront(s, e)) = Range(s)
           /\ MovedFrom(MoveToFront(s, e), s, e)
<1> DEFINE m == MoveToFront(s, e)
<1>1. /\ m \in [1..Len(s) -> S] /\ Len(s) \in Nat /\ \A i \in 1..Len(s) : s[i] \in S
      /\ m = [i \in 1..Len(s) |-> IF i = 1 THEN s[e] ELSE IF i <= e THEN s[i - 1] ELSE s[i]]
  BY DEF MoveToFront
<1>2. m \in Seq(S) /\ Len(m) = Len(s)
  BY <1>1
<1>3. Distinct(m)
  BY <1>1, <1>2 DEF Distinct
<1>4. Range(m) \subseteq Range(s)
  BY <1>1, <1>2 DEF Range
<1>5. ASSUME NEW i \in 1..Len(s) PROVE s[i] \in Range(m)
  <2>1. \E j \in 1..Len(s) : m[j] = s[i]
    <3>1. CASE i < e
      <4>1. i + 1 \in 1..Len(s) /\ m[i + 1] = s[i]
        BY <1>1, <3>1
      <4> QED
        BY <4>1
    <3>2. CASE i = e
      BY <1>1, <3>2
    <3>3. CASE i > e
      BY <1>1, <3>3
    <3> QED
      BY <1>1, <3>1, <3>2, <3>3
  <2> QED
    BY <1>1, <2>1 DEF Range
<1>6. Range(s) \subseteq Range(m)
  BY <1>5, RangeOf
<1>7. MovedFrom(m, s, e)
  BY Zenon, <1>1 DEF MovedFrom
<1> QED
  BY Zenon, <1>2, <1>3, <1>4, <1>6, <1>7

\* PushFront adds a key that was not there.
LEMMA Pushed ==
    ASSUME NEW S, NEW s \in Seq(S), Distinct(s), NEW k \in S, k \notin Range(s)
    PROVE  /\ PushFront(s, k) \in Seq(S) /\ Len(PushFront(s, k)) = Len(s) + 1
           /\ Distinct(PushFront(s, k)) /\ Range(PushFront(s, k)) = Range(s) \cup {k}
           /\ PushedOn(PushFront(s, k), s, k)
<1> DEFINE m == PushFront(s, k)
<1>1. /\ m \in [1..Len(s) + 1 -> S] /\ Len(s) \in Nat
      /\ \A i \in 1..Len(s) : s[i] \in S /\ s[i] # k
      /\ m = [i \in 1..Len(s) + 1 |-> IF i = 1 THEN k ELSE s[i - 1]]
  BY DEF PushFront, Range
<1>2. m \in Seq(S) /\ Len(m) = Len(s) + 1
  BY <1>1
<1>3. Distinct(m)
  BY <1>1, <1>2 DEF Distinct
<1>4. Range(m) \subseteq Range(s) \cup {k}
  BY <1>1, <1>2 DEF Range
<1>5. ASSUME NEW i \in 1..Len(s) PROVE s[i] \in Range(m)
  <2>1. i + 1 \in 1..Len(s) + 1 /\ m[i + 1] = s[i]
    BY <1>1
  <2> QED
    BY Zenon, <1>1, <2>1 DEF Range
<1>6. k \in Range(m)
  BY <1>1 DEF Range
<1>7. Range(s) \subseteq Range(m)
  BY <1>5, RangeOf
<1>8. PushedOn(m, s, k)
  BY Zenon, <1>1 DEF PushedOn
<1> QED
  BY Zenon, <1>2, <1>3, <1>4, <1>6, <1>7, <1>8

\* What is left when the last key is evicted.
LEMMA Evicted ==
    ASSUME NEW S, NEW s \in Seq(S), Distinct(s), NEW n \in 0..Len(s)
    PROVE  /\ SubSeq(s, 1, n) \in Seq(S) /\ Len(SubSeq(s, 1, n)) = n
           /\ Distinct(SubSeq(s, 1, n)) /\ Range(SubSeq(s, 1, n)) \subseteq Range(s)
           /\ FirstOf(SubSeq(s, 1, n), s, n)
<1> DEFINE m == SubSeq(s, 1, n)
<1>1. m \in Seq(S) /\ Len(m) = n /\ n \in Nat /\ Len(s) \in Nat /\ \A i \in 1..n : m[i] = s[i]
  OBVIOUS
<1>2. Distinct(m)
  BY <1>1 DEF Distinct
<1>3. Range(m) \subseteq Range(s)
  BY <1>1 DEF Range
<1>4. FirstOf(m, s, n)
  BY Zenon, <1>1 DEF FirstOf
<1> QED
  BY Zenon, <1>1, <1>2, <1>3, <1>4

-----------------------------------------------------------------------------
\* A hit moves the key to the front of the list and of the history alike.
LEMMA HitCacheInv ==
    ASSUME CacheInv, NEW key \in Hosts, key \in DOMAIN items,
           order' = MoveToFront(order, Element(order, key)), UNCHANGED items, recency' = Used(key)
    PROVE  CacheInv'
<1> DEFINE e == Element(order, key)
           f == Element(recency, key)
<1>1. /\ order \in Seq(Hosts) /\ recency \in Seq(Hosts) /\ Distinct(order) /\ Distinct(recency)
      /\ Len(order) <= Len(recency) /\ \A i \in 1..Len(order) : order[i] = recency[i]
      /\ DOMAIN items = Range(order) /\ Len(order) <= Limit
  BY Zenon DEF CacheInv, LeastRecentDropped
<1>2. e \in 1..Len(order) /\ order[e] = key
  BY Zenon, <1>1, Found
<1>3. Len(order) \in Nat /\ Len(recency) \in Nat
  BY <1>1
<1> HIDE DEF e, f
<1>4. e \in 1..Len(recency) /\ recency[e] = key
  BY <1>1, <1>2, <1>3
<1>5. key \in Range(recency)
  BY <1>1, <1>4, RangeOf
<1>6. f \in 1..Len(recency) /\ recency[f] = key
  BY Zenon, <1>1, <1>5, Found DEF f
<1>7. e = f
  BY Zenon, <1>1, <1>4, <1>6 DEF Distinct
<1>8. order' = MoveToFront(order, e) /\ recency' = MoveToFront(recency, e)
  BY Zenon, <1>5, <1>7 DEF Used, e, f
<1>9. /\ order' \in Seq(Hosts) /\ Len(order') = Len(order) /\ Distinct(order') /\ Range(order') = Range(order)
      /\ MovedFrom(order', order, e)
  BY Zenon, <1>1, <1>2, <1>8, Moved
<1>10. /\ recency' \in Seq(Hosts) /\ Len(recency') = Len(recency) /\ Distinct(recency')
       /\ MovedFrom(recency', recency, e)
  BY ZenonT(30), <1>1, <1>4, <1>8, Moved
<1>11. ASSUME NEW i \in 1..Len(order') PROVE order'[i] = recency'[i]
  <2>1. i \in 1..Len(order) /\ i \in 1..Len(recency) /\ (i # 1 => i - 1 \in 1..Len(order))
    BY <1>1, <1>3, <1>9
  <2> QED
    BY ZenonT(30), <1>1, <1>2, <1>4, <1>9, <1>10, <2>1 DEF MovedFrom
<1>12. LeastRecentDropped'
  BY Zenon, <1>1, <1>9, <1>10, <1>11 DEF LeastRecentDropped
<1> QED
  BY Zenon, <1>9, <1>10, <1>12 DEF CacheInv

\* A miss drops the last key of a full list, and puts the new one in front
\* unless the lookup fails.
LEMMA MissCacheInv ==
    ASSUME CacheInv, NEW key \in Hosts, key \notin DOMAIN items, NEW kept,
           kept = IF Len(order) >= Limit THEN SubSeq(order, 1, Len(order) - 1) ELSE order,
           \/ order' = kept /\ DOMAIN items' = Range(kept) /\ UNCHANGED recency
           \/ order' = PushFront(kept, key) /\ DOMAIN items' = Range(kept) \cup {key} /\ recency' = Used(key)
    PROVE  CacheInv'
<1>1. /\ order \in Seq(Hosts) /\ recency \in Seq(Hosts) /\ Distinct(order) /\ Distinct(recency)
      /\ Len(order) <= Len(recency) /\ \A i \in 1..Len(order) : order[i] = recency[i]
      /\ DOMAIN items = Range(order) /\ Len(order) <= Limit
  BY Zenon DEF CacheInv, LeastRecentDropped
<1>2. Len(order) \in Nat /\ Len(recency) \in Nat /\ Limit \in Nat /\ Limit > 0
  BY <1>1, ResolverAssumption
<1>3. PICK n \in 0..Len(order) : kept = SubSeq(order, 1, n) /\ n < Limit
  <2>1. order = SubSeq(order, 1, Len(order))
    BY <1>1
  <2>2. CASE Len(order) >= Limit
    <3>1. Len(order) - 1 \in 0..Len(order) /\ Len(order) - 1 < Limit
      BY <1>1, <1>2, <2>2
    <3> QED
      BY Zenon, <2>2, <3>1
  <2>3. CASE ~(Len(order) >= Limit)
    <3>1. Len(order) \in 0..Len(order) /\ Len(order) < Limit
      BY <1>1, <1>2, <2>3
    <3> QED
      BY Zenon, <2>1, <2>3, <3>1
  <2> QED
    BY Zenon, <2>2, <2>3
<1>4. /\ kept \in Seq(Hosts) /\ Len(kept) = n /\ Distinct(kept) /\ Range(kept) \subseteq Range(order)
      /\ FirstOf(kept, order, n)
  <2> DEFINE m == SubSeq(order, 1, n)
  <2>1. m \in Seq(Hosts) /\ Len(m) = n /\ Distinct(m) /\ Range(m) \subseteq Range(order) /\ FirstOf(m, order, n)
    BY ONLY Zenon, <1>1, <1>3, Evicted
  <2> QED
    BY ONLY Zenon, <1>3, <2>1
<1>5. n \in Nat /\ n <= Len(order) /\ n < Limit
  BY <1>2, <1>3
<1>6. CASE order' = kept /\ DOMAIN items' = Range(kept) /\ UNCHANGED recency
  <2>1. LeastRecentDropped'
    BY <1>1, <1>2, <1>4, <1>5, <1>6 DEF LeastRecentDropped, FirstOf
  <2> QED
    BY Zenon, <1>1, <1>4, <1>6, <2>1 DEF CacheInv
<1>7. CASE order' = PushFront(kept, key) /\ DOMAIN items' = Range(kept) \cup {key} /\ recency' = Used(key)
  <2>1. key \in Hosts /\ key \notin Range(kept)
    BY Zenon, <1>1, <1>4
  <2>2. /\ order' \in Seq(Hosts) /\ Len(order') = n + 1 /\ Distinct(order') /\ Range(order') = Range(kept) \cup {key}
        /\ PushedOn(order', kept, key)
    <3> DEFINE m == PushFront(kept, key)
    <3>1. kept \in Seq(Hosts) /\ Distinct(kept)
      BY Zenon, <1>4
    <3>2. /\ m \in Seq(Hosts) /\ Len(m) = Len(kept) + 1 /\ Distinct(m) /\ Range(m) = Range(kept) \cup {key}
          /\ PushedOn(m, kept, key)
      BY ONLY ZenonT(30), <2>1, <3>1, Pushed
    <3> QED
      BY ONLY Zenon, <1>4, <1>7, <3>2
  <2>3. /\ recency' \in Seq(Hosts) /\ Distinct(recency') /\ n + 1 <= Len(recency')
        /\ \A i \in 1..n + 1 : recency'[i] = IF i = 1 THEN key ELSE recency[i - 1]
    <3>1. CASE key \in Range(recency)
      <4> DEFINE f == Element(recency, key)
      <4>1. f \in 1..Len(recency) /\ recency[f] = key
        BY Zenon, <1>1, <3>1, Found
      <4>2. recency' = MoveToFront(recency, f)
        BY Zenon, <1>7, <3>1 DEF Used
      <4> HIDE DEF f
      <4>3. \A i \in 1..Len(order) : order[i] # key
        BY <1>1, RangeOf
      <4>4. f > n
        BY <1>1, <1>2, <1>5, <4>1, <4>3
      <4>5. /\ recency' \in Seq(Hosts) /\ Len(recency') = Len(recency) /\ Distinct(recency')
            /\ MovedFrom(recency', recency, f)
        BY Zenon, <1>1, <4>1, <4>2, Moved
      <4> QED
        BY SMTT(20), <1>2, <1>5, <4>1, <4>4, <4>5 DEF MovedFrom
    <3>2. CASE key \notin Range(recency)
      <4>1. recency' = PushFront(recency, key)
        BY Zenon, <1>7, <3>2 DEF Used
      <4>2. /\ recency' \in Seq(Hosts) /\ Len(recency') = Len(recency) + 1 /\ Distinct(recency')
            /\ PushedOn(recency', recency, key)
        BY Zenon, <1>1, <3>2, <4>1, Pushed
      <4> QED
        BY <1>1, <1>2, <1>5, <4>2 DEF PushedOn
    <3> QED
      BY Zenon, <3>1, <3>2
  <2>4. ASSUME NEW i \in 1..n + 1 PROVE order'[i] = recency'[i]
    <3>1. CASE i = 1
      BY SMTT(20), <1>4, <1>5, <2>2, <2>3, <3>1 DEF PushedOn
    <3>2. CASE i # 1
      <4>1. i - 1 \in 1..n /\ i - 1 \in 1..Len(order)
        BY <1>2, <1>5, <3>2
      <4>2. order'[i] = kept[i - 1]
        BY <1>4, <1>5, <2>2, <3>2 DEF PushedOn
      <4>3. kept[i - 1] = order[i - 1] /\ order[i - 1] = recency[i - 1]
        BY Zenon, <1>1, <1>4, <4>1 DEF FirstOf
      <4>4. recency'[i] = recency[i - 1]
        BY Zenon, <2>3, <3>2
      <4> QED
        BY Zenon, <4>2, <4>3, <4>4
    <3> QED
      BY Zenon, <3>1, <3>2
  <2>5. Len(order') <= Limit
    BY <1>2, <1>5, <2>2
  <2>6. LeastRecentDropped'
    BY Zenon, <1>7, <2>2, <2>3, <2>4, <2>5 DEF LeastRecentDropped
  <2> QED
    BY Zenon, <2>2, <2>3, <2>6 DEF CacheInv
<1> QED
  BY Zenon, <1>6, <1>7

\* Get moves the element it finds, or adds one and drops the oldest of too
\* many.
LEMMA GetCacheInv ==
    ASSUME CacheInv, NEW key \in Hosts, NEW value, Get(key, value)
    PROVE  CacheInv'
<1> DEFINE kept == IF Len(order) >= Limit THEN SubSeq(order, 1, Len(order) - 1) ELSE order
<1>1. CASE key \in DOMAIN items
  BY Zenon, <1>1, HitCacheInv DEF Get
<1>2. CASE key \notin DOMAIN items
  <2>1. CASE value = "error"
    <3>1. order' = kept /\ items' = Restrict(items, Range(kept)) /\ UNCHANGED recency
      BY Zenon, <1>2, <2>1 DEF Get
    <3>2. DOMAIN items' = Range(kept)
      BY Zenon, <3>1 DEF Restrict
    <3> QED
      BY Zenon, <1>2, <3>1, <3>2, MissCacheInv
  <2>2. CASE value # "error"
    <3>1. /\ order' = PushFront(kept, key) /\ recency' = Used(key)
          /\ items' = [k \in Range(kept) \cup {key} |-> IF k = key THEN value ELSE items[k]]
      BY Zenon, <1>2, <2>2 DEF Get
    <3>2. DOMAIN items' = Range(kept) \cup {key}
      BY Zenon, <3>1
    <3> QED
      BY Zenon, <1>2, <3>1, <3>2, MissCacheInv
  <2> QED
    BY Zenon, <2>1, <2>2
<1> QED
  BY Zenon, <1>1, <1>2

-----------------------------------------------------------------------------
\* The list that FilterPeers returns holds peers of its argument.
LEMMA ListOfPeers ==
    ASSUME NEW s \in UNION {[1..n -> Peers] : n \in 1..MaxList} PROVE s \in Seq(Peers)
<1>1. PICK n \in 1..MaxList : s \in [1..n -> Peers]
  BY Zenon
<1>2. n \in Nat
  BY <1>1
<1> QED
  BY <1>1, <1>2

\* Both invariants hold initially.
LEMMA ResolverInitInv == ResolverInit => CacheInv /\ FilterInv
<1> SUFFICES ASSUME ResolverInit PROVE CacheInv /\ FilterInv
  OBVIOUS
<1>1. /\ order = <<>> /\ items = [k \in {} |-> k] /\ recency = <<>> /\ visited = {Own} /\ filtered = <<>>
      /\ peers \in Seq(Peers)
  BY Zenon, ListOfPeers DEF ResolverInit
<1>2. order \in Seq(Hosts) /\ recency \in Seq(Hosts) /\ Distinct(order) /\ Distinct(recency)
  BY <1>1 DEF Distinct
<1>3. DOMAIN items = {} /\ Range(order) = {} /\ Len(order) = 0
  BY <1>1 DEF Range
<1>4. LeastRecentDropped
  BY <1>1, <1>3, ResolverAssumption DEF LeastRecentDropped
<1>5. filtered \in Seq(visited) /\ Own \in visited /\ Range(filtered) = visited \ {Own}
  BY <1>1 DEF Range
<1>6. IsInjective(filtered)
  BY <1>1 DEF IsInjective
<1> QED
  BY Zenon, <1>1, <1>2, <1>4, <1>5, <1>6 DEF CacheInv, FilterInv

\* A unified address that is new is appended and noted.
LEMMA AppendedOnce ==
    ASSUME FilterInv, NEW a, a \notin visited
    PROVE  /\ Append(filtered, a) \in Seq(visited \cup {a}) /\ IsInjective(Append(filtered, a))
           /\ Range(Append(filtered, a)) = (visited \cup {a}) \ {Own}
<1> DEFINE m == Append(filtered, a)
<1>1. filtered \in Seq(visited) /\ Own \in visited /\ Range(filtered) = visited \ {Own} /\ IsInjective(filtered)
  BY Zenon DEF FilterInv
<1>2. /\ m \in Seq(visited \cup {a}) /\ Len(filtered) \in Nat /\ DOMAIN m = 1..Len(filtered) + 1
      /\ DOMAIN filtered = 1..Len(filtered)
      /\ m[Len(filtered) + 1] = a /\ \A i \in 1..Len(filtered) : m[i] = filtered[i] /\ filtered[i] \in visited
  BY <1>1
<1>3. IsInjective(m)
  BY <1>1, <1>2 DEF IsInjective
<1>4. Range(m) = Range(filtered) \cup {a}
  BY <1>2 DEF Range
<1> QED
  BY Zenon, <1>1, <1>2, <1>3, <1>4

\* ToUnifiedAddress yields one address or none.
LEMMA UnifiedOne == ASSUME NEW p, NEW value PROVE \E a : ToUnifiedAddress(p, value) \subseteq {a}
<1> DEFINE a == [p EXCEPT !.host = ToUnifiedHost(p.host, value), !.text = "unified"]
<1>1. ASSUME NEW x \in ToUnifiedAddress(p, value) PROVE x = a
  BY Zenon DEF ToUnifiedAddress, ParseAddress
<1> QED
  BY Zenon, <1>1

\* Every step keeps both invariants.
LEMMA ResolverNextInv == CacheInv /\ FilterInv /\ [ResolverNext]_resolverVars => CacheInv' /\ FilterInv'
<1> SUFFICES ASSUME CacheInv, FilterInv, [ResolverNext]_resolverVars PROVE CacheInv' /\ FilterInv'
  OBVIOUS
<1>1. ASSUME FilterPeers PROVE CacheInv' /\ FilterInv'
  <2> DEFINE p == Head(peers)
  <2>1. peers' = Tail(peers) /\ peers # <<>> /\ peers \in Seq(Peers)
    BY Zenon, <1>1 DEF FilterPeers, FilterInv
  <2>2. p \in Peers /\ peers' \in Seq(Peers)
    BY <2>1
  <2>3. p.host \in Hosts
    BY Zenon, <2>2 DEF Hosts
  <2>4. PICK value \in LookupHost(p.host) :
          LET new == ToUnifiedAddress(p, value) \ visited
          IN  /\ IF p.text # "" /\ ParseAddress(p) # {} THEN Get(p.host, value) ELSE UNCHANGED <<order, items, recency>>
              /\ filtered' = IF new = {} THEN filtered ELSE Append(filtered, CHOOSE info \in new : TRUE)
              /\ visited' = visited \cup new
    BY Zenon, <1>1 DEF FilterPeers
  <2> DEFINE new == ToUnifiedAddress(p, value) \ visited
  <2>5. CacheInv'
    <3>1. CASE p.text # "" /\ ParseAddress(p) # {}
      BY Zenon, <2>3, <2>4, <3>1, GetCacheInv
    <3>2. CASE ~(p.text # "" /\ ParseAddress(p) # {})
      <4>1. UNCHANGED <<order, items, recency>>
        BY Zenon, <2>4, <3>2
      <4> QED
        BY <4>1 DEF CacheInv, LeastRecentDropped, Distinct, Range
    <3> QED
      BY Zenon, <3>1, <3>2
  <2>6. new = {} \/ \E a : a \notin visited /\ new = {a}
    <3>1. PICK a : ToUnifiedAddress(p, value) \subseteq {a}
      BY Zenon, UnifiedOne
    <3> QED
      BY <3>1
  <2>7. filtered' = (IF new = {} THEN filtered ELSE Append(filtered, CHOOSE info \in new : TRUE)) /\ visited' = visited \cup new
    BY Zenon, <2>4
  <2> HIDE DEF new, p
  <2>8. CASE new = {}
    <3>1. UNCHANGED <<filtered, visited>>
      BY Zenon, <2>7, <2>8
    <3> QED
      BY Zenon, <2>2, <2>5, <3>1 DEF FilterInv, IsInjective, Range
  <2>9. CASE \E a : a \notin visited /\ new = {a}
    <3>1. PICK a : a \notin visited /\ new = {a}
      BY Zenon, <2>9
    <3>2. filtered' = Append(filtered, a) /\ visited' = visited \cup {a}
      BY <2>7, <3>1
    <3> QED
      BY Zenon, <2>2, <2>5, <3>1, <3>2, AppendedOnce DEF FilterInv
  <2> QED
    BY Zenon, <2>6, <2>8, <2>9
<1>2. ASSUME NextList PROVE CacheInv' /\ FilterInv'
  <2>1. /\ UNCHANGED <<order, items, recency>> /\ visited' = {Own} /\ filtered' = <<>>
        /\ peers' \in Seq(Peers)
    BY Zenon, <1>2, ListOfPeers DEF NextList
  <2>2. CacheInv'
    BY <2>1 DEF CacheInv, LeastRecentDropped, Distinct, Range
  <2>3. filtered' \in Seq(visited') /\ Own \in visited' /\ Range(filtered') = visited' \ {Own}
    BY <2>1 DEF Range
  <2>4. IsInjective(filtered')
    BY <2>1 DEF IsInjective
  <2> QED
    BY Zenon, <2>1, <2>2, <2>3, <2>4 DEF FilterInv
<1>3. ASSUME UNCHANGED resolverVars PROVE CacheInv' /\ FilterInv'
  <2>1. CacheInv'
    BY <1>3 DEF resolverVars, CacheInv, LeastRecentDropped, Distinct, Range
  <2>2. FilterInv'
    BY <1>3 DEF resolverVars, FilterInv, IsInjective, Range
  <2> QED
    BY Zenon, <2>1, <2>2
<1> QED
  BY Zenon, <1>1, <1>2, <1>3 DEF ResolverNext

\* LeastRecentDropped for every limit, every list of peers and every answer of the
\* resolver: on a hit the list and the history of uses move the same key from the
\* same place, and a key that was dropped lies behind all that the cache holds
\* (types/lru/cache.go Get).
THEOREM CacheKeepsRecent == ResolverSpec => []LeastRecentDropped
<1>1. CacheInv => LeastRecentDropped
  BY Zenon DEF CacheInv
<1> QED
  BY <1>1, ResolverInitInv, ResolverNextInv, PTL DEF ResolverSpec

\* FilterPeers returns no address twice and never the node's own, however the
\* hosts resolve and whatever the cache holds (network/utils.go FilterPeers).
THEOREM FilterPeersOnce == ResolverSpec => []FilteredOnce
<1>1. FilterInv => FilteredOnce
  BY Zenon DEF FilterInv, FilteredOnce
<1> QED
  BY <1>1, ResolverInitInv, ResolverNextInv, PTL DEF ResolverSpec
=============================================================================
