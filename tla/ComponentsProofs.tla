-------------------------- MODULE ComponentsProofs --------------------------
(***************************************************************************)
(* Two of the network's components: acknowledgements (AckReply), for every *)
(* number of messages and senders and every capacity, interval and time-   *)
(* out, and the metric of response times (Metric), for every size of the   *)
(* window and every number of requests.                                    *)
(*                                                                         *)
(* FailedIsOld needs to know what a difference of two seconds within the   *)
(* minute says of an entry: it is the age, or the age less a minute, until *)
(* the entry is a minute old.  NoSilentLoss needs that a goroutine that is *)
(* about to resend works on an entry that is still in the map.             *)
(*                                                                         *)
(* SamplesSound says whose time stands in a sample.  The invariant adds    *)
(* that a request knows the position of its own sample until the window is *)
(* shifted, and that the request that shifts or fills holds the mutex.     *)
(* That the expectation is the average of the distances is an equality of  *)
(* two sums over a window of any size, proved by induction: LeastOf gives  *)
(* the least size for which it fails.                                      *)
(***************************************************************************)
EXTENDS AckReply, Metric, FiniteSetTheorems, TLAPS

TypeOK ==
    /\ second \in Second
    /\ SyncWaitAck \in [IDs -> Entry \cup {None}]
    /\ pc \in [Senders -> {"idle", "write", "store"}] /\ id \in [Senders -> IDs \cup {None}]
    /\ \A s \in Senders : pc[s] # "idle" => id[s] \in IDs
    /\ succ \in [IDs -> Nat]
    /\ resend \subseteq Waiting
    /\ cur \in (IDs \X Entry) \cup {None}
    /\ stored \subseteq IDs

\* The seconds of an entry agree with its age, up to a whole minute.
Agrees(e) == e.age < Minute => second - e.when \in {e.age, e.age - Minute}
Clock == \A m \in Waiting : Agrees(SyncWaitAck[m])

Expiring == spc \in {"delete", "fail"} => cur # None /\ cur[2].age > Timeout

IInv == TypeOK /\ Clock /\ Expiring /\ NoSilentLoss

USE DEF time, senders, network, service, history
-----------------------------------------------------------------------------
(* Entries and seconds. *)

\* The parts of the invariant.
LEMMA Parts ==
    ASSUME IInv
    PROVE  TypeOK /\ Clock /\ Expiring /\ NoSilentLoss
  BY DEF IInv

\* And back.
LEMMA Whole ==
    ASSUME TypeOK', Clock', Expiring', NoSilentLoss'
    PROVE  IInv'
  BY DEF IInv

\* What an entry of SyncWaitAck is made of.
LEMMA Entries ==
    ASSUME NEW e \in Entry
    PROVE  e # None /\ e.when \in Second /\ e.latest \in Second /\ e.age \in 0..Minute
  BY Zenon, AckAssumption DEF Entry

\* A message that waits has an entry.
LEMMA Found ==
    ASSUME TypeOK, NEW m \in Waiting
    PROVE  m \in IDs /\ SyncWaitAck[m] \in Entry
  BY DEF TypeOK, Waiting

\* What Expired sees is the true age.
LEMMA ExpiredIsOld ==
    ASSUME second \in Second, NEW e \in Entry, Agrees(e), Expired(e)
    PROVE  e.age > Timeout
  BY Entries, AckAssumption DEF Agrees, Expired, Second

\* The second after a second within the minute.
LEMMA NextSecond ==
    ASSUME second \in Second, second' = (second + 1) % Minute
    PROVE  second' \in Second /\ second' = IF second = Minute - 1 THEN 0 ELSE second + 1
<1>1. Minute \in Nat \ {0} /\ second \in Int /\ 0 <= second /\ second <= Minute - 1
  BY AckAssumption DEF Second
<1>2. CASE second = Minute - 1
  BY <1>1, <1>2 DEF Second
<1>3. CASE second < Minute - 1
  BY <1>1, <1>3 DEF Second
<1> QED BY <1>1, <1>2, <1>3

\* One more second keeps an entry in agreement with the clock.
LEMMA Older ==
    ASSUME second \in Second, second' = (second + 1) % Minute, NEW e \in Entry, Agrees(e)
    PROVE  LET f == [e EXCEPT !.age = IF @ < Minute THEN @ + 1 ELSE @]
           IN  f \in Entry /\ (Agrees(f))' /\ (e.age > Timeout => f.age > Timeout)
<1> DEFINE a == IF e.age < Minute THEN e.age + 1 ELSE e.age
           f == [e EXCEPT !.age = a]
<1>1. /\ e.when \in Second /\ e.latest \in Second /\ e.age \in 0..Minute /\ Minute \in Nat \ {0}
      /\ Timeout \in Nat
  BY Zenon, Entries, AckAssumption
<1>2. a \in 0..Minute /\ (e.age > Timeout => a > Timeout) /\ (a < Minute => e.age < Minute /\ a = e.age + 1)
  BY <1>1
<1>3. f \in Entry /\ f.age = a /\ f.when = e.when
  BY Zenon, <1>1, <1>2 DEF Entry
<1>4. e.age < Minute => second - e.when \in {e.age, e.age - Minute}
  BY DEF Agrees
<1>5. a < Minute => second' - e.when \in {a, a - Minute}
  BY <1>1, <1>2, <1>4, NextSecond DEF Second
<1>6. (Agrees(f))'
  BY Zenon, <1>3, <1>5 DEF Agrees
<1> QED BY Zenon, <1>2, <1>3, <1>6

-----------------------------------------------------------------------------
(* Steps that leave the entries alone. *)

\* A step that leaves the map and the clock alone, and takes back no report.
LEMMA Quiet ==
    ASSUME IInv, UNCHANGED <<second, SyncWaitAck, stored>>,
           pc' \in [Senders -> {"idle", "write", "store"}], id' \in [Senders -> IDs \cup {None}],
           \A s \in Senders : pc'[s] # "idle" => id'[s] \in IDs,
           resend' \subseteq Waiting, succ' \in [IDs -> Nat], reported \subseteq reported',
           \A m \in IDs : succ[m] > 0 => succ'[m] > 0 \/ m \in reported',
           cur' \in (IDs \X Entry) \cup {None}, Expiring',
           spc = "fail" => \/ spc' = "fail" /\ cur' = cur
                           \/ cur[1] \in reported'
    PROVE  IInv'
<1>1. TypeOK /\ Clock /\ NoSilentLoss
  BY Zenon, Parts
<1>2. Waiting' = Waiting
  BY DEF Waiting
<1>3. TypeOK'
  BY Zenon, <1>1, <1>2 DEF TypeOK
<1>4. Clock'
  BY Zenon, <1>1, <1>2 DEF Clock, Agrees
<1>5. NoSilentLoss'
  BY Zenon, <1>1, <1>2 DEF NoSilentLoss, TypeOK
<1> QED BY Zenon, <1>3, <1>4, <1>5, Whole

\* The steps of Quiet that leave the reports and the service alone, too.
LEMMA Silent ==
    ASSUME IInv, UNCHANGED <<second, SyncWaitAck, stored, resend, succ, reported, cur, spc>>,
           pc' \in [Senders -> {"idle", "write", "store"}], id' \in [Senders -> IDs \cup {None}],
           \A s \in Senders : pc'[s] # "idle" => id'[s] \in IDs
    PROVE  IInv'
<1>1. TypeOK /\ Expiring
  BY Zenon, Parts
<1>2. Expiring'
  BY Zenon, <1>1 DEF Expiring
<1> QED BY Zenon, <1>1, <1>2, Quiet DEF TypeOK

\* A sender that has found room and no entry of its ID, or writes its message.
LEMMA SenderIInv ==
    ASSUME IInv, NEW s \in Senders, Write(s) \/ \E m \in IDs : Check(s, m)
    PROVE  IInv'
<1>1. TypeOK
  BY Zenon, Parts
<1>2. UNCHANGED <<second, SyncWaitAck, stored, resend, succ, reported, cur, spc>>
  BY Zenon DEF Write, Check
<1>3. PICK p \in {"idle", "write", "store"}, i \in IDs \cup {None} :
        /\ pc' = [pc EXCEPT ![s] = p] /\ id' = [id EXCEPT ![s] = i]
        /\ p # "idle" => i \in IDs
  <2>1. CASE Write(s)
    <3>1. id[s] \in IDs /\ id' \in {[id EXCEPT ![s] = id[s]], [id EXCEPT ![s] = None]}
      BY Zenon, <1>1, <2>1 DEF Write, TypeOK
    <3>2. CASE pc' = [pc EXCEPT ![s] = "store"] /\ UNCHANGED id
      BY Zenon, <1>1, <3>1, <3>2 DEF TypeOK
    <3>3. CASE pc' = [pc EXCEPT ![s] = "idle"] /\ id' = [id EXCEPT ![s] = None]
      BY Zenon, <3>3
    <3> QED BY Zenon, <2>1, <3>2, <3>3 DEF Write
  <2>2. CASE \E m \in IDs : Check(s, m)
    BY Zenon, <2>2 DEF Check
  <2> QED BY Zenon, <2>1, <2>2
<1>4. /\ pc' \in [Senders -> {"idle", "write", "store"}] /\ id' \in [Senders -> IDs \cup {None}]
      /\ \A u \in Senders : pc'[u] # "idle" => id'[u] \in IDs
  BY Zenon, <1>1, <1>3 DEF TypeOK
<1> QED BY Zenon, <1>2, <1>4, Silent

\* The reports: one more is in the channel, or one less.
LEMMA ReportIInv ==
    ASSUME IInv, (\E m \in IDs : ReportSuccess(m) \/ RemoteAck(m)) \/ ReadReport \/ Cleanup \/ ReportFailure
    PROVE  IInv'
<1>1. TypeOK /\ Expiring
  BY Zenon, Parts
<1>2. ASSUME NEW m \in IDs, ReportSuccess(m) PROVE IInv'
  <2>1. /\ succ' = [succ EXCEPT ![m] = @ - 1] /\ succ[m] > 0 /\ reported' = reported \cup {m}
        /\ UNCHANGED <<second, SyncWaitAck, stored, pc, id, resend, cur, spc>>
    BY Zenon, <1>2 DEF ReportSuccess
  <2>2. succ' \in [IDs -> Nat] /\ \A k \in IDs : succ[k] > 0 => succ'[k] > 0 \/ k \in reported'
    BY <1>1, <2>1 DEF TypeOK
  <2>3. Expiring'
    BY Zenon, <1>1, <2>1 DEF Expiring
  <2> QED BY Zenon, <1>1, <2>1, <2>2, <2>3, Quiet DEF TypeOK
<1>3. ASSUME (\E m \in IDs : RemoteAck(m)) \/ ReadReport \/ Cleanup PROVE IInv'
  BY Zenon, <1>1, <1>3, Silent DEF RemoteAck, ReadReport, Cleanup, TypeOK
<1>4. ASSUME ReportFailure PROVE IInv'
  <2>1. /\ reported' = reported \cup {cur[1]} /\ spc' = "range" /\ cur' = None
        /\ UNCHANGED <<second, SyncWaitAck, stored, pc, id, resend, succ>>
    BY Zenon, <1>4 DEF ReportFailure
  <2>2. Expiring'
    BY Zenon, <2>1 DEF Expiring
  <2> QED BY Zenon, <1>1, <2>1, <2>2, Quiet DEF TypeOK
<1> QED BY Zenon, <1>2, <1>3, <1>4

\* The service visits a key and ends a pass.
LEMMA VisitIInv ==
    ASSUME IInv, Tick \/ (\E m \in IDs : Visit(m)) \/ EndRange \/ Return
    PROVE  IInv'
<1>1. TypeOK /\ Clock /\ Expiring
  BY Zenon, Parts
<1>2. ASSUME Tick \/ EndRange \/ Return PROVE IInv'
  <2>1. /\ UNCHANGED <<second, SyncWaitAck, stored, pc, id, resend, succ, reported, cur>>
        /\ spc \in {"wait", "range"} /\ spc' \in {"range", "wait", "stopped"}
    BY Zenon, <1>2 DEF Tick, EndRange, Return
  <2>2. Expiring'
    BY Zenon, <2>1 DEF Expiring
  <2> QED BY Zenon, <1>1, <2>1, <2>2, Quiet DEF TypeOK
<1>3. ASSUME NEW m \in IDs, Visit(m) PROVE IInv'
  <2>1. /\ UNCHANGED <<second, SyncWaitAck, stored, pc, id, succ, reported>> /\ spc = "range"
        /\ \/ /\ SyncWaitAck[m] # None /\ Expired(SyncWaitAck[m])
              /\ spc' = "delete" /\ cur' = <<m, SyncWaitAck[m]>> /\ UNCHANGED resend
           \/ /\ resend' = resend \/ (resend' = resend \cup {m} /\ SyncWaitAck[m] # None)
              /\ UNCHANGED <<spc, cur>>
    BY Zenon, <1>3 DEF Visit
  <2>2. CASE /\ SyncWaitAck[m] # None /\ Expired(SyncWaitAck[m])
             /\ spc' = "delete" /\ cur' = <<m, SyncWaitAck[m]>> /\ UNCHANGED resend
    <3>1. SyncWaitAck[m] \in Entry /\ Agrees(SyncWaitAck[m])
      BY Zenon, <1>1, <2>2 DEF TypeOK, Clock, Waiting
    <3>2. SyncWaitAck[m].age > Timeout
      BY Zenon, <1>1, <2>2, <3>1, ExpiredIsOld DEF TypeOK
    <3>3. cur' \in IDs \X Entry /\ cur' # None /\ cur'[2].age > Timeout
      BY <2>2, <3>1, <3>2, AckAssumption
    <3>4. Expiring'
      BY Zenon, <3>3 DEF Expiring
    <3> QED BY Zenon, <1>1, <2>1, <2>2, <3>3, <3>4, Quiet DEF TypeOK
  <2>3. CASE /\ resend' = resend \/ (resend' = resend \cup {m} /\ SyncWaitAck[m] # None)
             /\ UNCHANGED <<spc, cur>>
    <3>1. resend' \subseteq Waiting
      BY Zenon, <1>1, <2>3 DEF TypeOK, Waiting
    <3>2. Expiring'
      BY Zenon, <1>1, <2>3 DEF Expiring
    <3> QED BY Zenon, <1>1, <2>1, <2>3, <3>1, <3>2, Quiet DEF TypeOK
  <2> QED BY Zenon, <2>1, <2>2, <2>3
<1> QED BY Zenon, <1>2, <1>3

-----------------------------------------------------------------------------
(* Steps that change entries. *)

\* The entry of m gets the value v.
LEMMA Put ==
    ASSUME IInv, NEW m \in IDs, NEW v \in Entry \cup {None}, SyncWaitAck' = [SyncWaitAck EXCEPT ![m] = v],
           UNCHANGED second, v # None => Agrees(v)
    PROVE  /\ SyncWaitAck' \in [IDs -> Entry \cup {None}] /\ Clock'
           /\ Waiting' = IF v = None THEN Waiting \ {m} ELSE Waiting \cup {m}
<1>1. TypeOK /\ Clock
  BY Zenon, Parts
<1>2. /\ SyncWaitAck' \in [IDs -> Entry \cup {None}]
      /\ SyncWaitAck'[m] = v /\ \A k \in IDs \ {m} : SyncWaitAck'[k] = SyncWaitAck[k]
  BY Zenon, <1>1 DEF TypeOK
<1>3. Waiting' = IF v = None THEN Waiting \ {m} ELSE Waiting \cup {m}
  BY Zenon, <1>2 DEF Waiting
<1>4. Clock'
  BY Zenon, <1>1, <1>2 DEF Clock, Agrees, Waiting
<1> QED BY Zenon, <1>2, <1>3, <1>4

\* A sender that stores the message it has sent.
LEMMA StoreIInv ==
    ASSUME IInv, NEW s \in Senders, Store(s)
    PROVE  IInv'
<1>1. TypeOK /\ Expiring /\ NoSilentLoss
  BY Zenon, Parts
<1>2. PICK v : /\ \E latest \in {0, second} : v = [when |-> second, latest |-> latest, age |-> 0]
               /\ SyncWaitAck' = [SyncWaitAck EXCEPT ![id[s]] = v]
  BY Zenon DEF Store
<1>3. PICK m \in IDs : m = id[s]
  BY Zenon, <1>1 DEF Store, TypeOK
<1>4. /\ UNCHANGED <<second, succ, spc, cur>> /\ SyncWaitAck' = [SyncWaitAck EXCEPT ![m] = v]
      /\ resend' = resend \ {m} /\ stored' = stored \cup {m} /\ reported' = reported \ {m}
      /\ pc' = [pc EXCEPT ![s] = "idle"] /\ id' = [id EXCEPT ![s] = None]
  BY Zenon, <1>2, <1>3 DEF Store
<1>5. v \in Entry /\ Agrees(v) /\ v # None
  <2>1. second \in Second /\ 0 \in Second /\ 0 \in 0..Minute
    BY <1>1, AckAssumption DEF TypeOK, Second
  <2>2. v \in Entry /\ v.age = 0 /\ v.when = second
    BY <1>2, <2>1 DEF Entry
  <2> QED BY <2>1, <2>2, Entries DEF Agrees, Second
<1>6. SyncWaitAck' \in [IDs -> Entry \cup {None}] /\ Clock' /\ Waiting' = Waiting \cup {m}
  BY Zenon, <1>4, <1>5, Put
<1>7. TypeOK'
  <2>1. /\ pc' \in [Senders -> {"idle", "write", "store"}] /\ id' \in [Senders -> IDs \cup {None}]
        /\ \A u \in Senders : pc'[u] # "idle" => id'[u] \in IDs
    BY Zenon, <1>1, <1>4 DEF TypeOK
  <2> QED BY Zenon, <1>1, <1>4, <1>6, <2>1 DEF TypeOK
<1>8. Expiring'
  BY Zenon, <1>1, <1>4 DEF Expiring
<1>9. NoSilentLoss'
  BY Zenon, <1>1, <1>4, <1>6 DEF NoSilentLoss
<1> QED BY Zenon, <1>6, <1>7, <1>8, <1>9, Whole

\* Receive and DeleteExpired: the entry goes, a report is owed.
LEMMA DeleteIInv ==
    ASSUME IInv, (\E m \in IDs : Receive(m)) \/ DeleteExpired
    PROVE  IInv'
<1>1. TypeOK /\ Expiring /\ NoSilentLoss
  BY Zenon, Parts
<1>2. ASSUME NEW m \in IDs, Receive(m) PROVE IInv'
  <2>1. /\ SyncWaitAck' = [SyncWaitAck EXCEPT ![m] = None] /\ succ' = [succ EXCEPT ![m] = @ + 1]
        /\ resend' = resend \ {m} /\ UNCHANGED <<second, pc, id, spc, cur, stored, reported>>
    BY Zenon, <1>2 DEF Receive
  <2>2. SyncWaitAck' \in [IDs -> Entry \cup {None}] /\ Clock' /\ Waiting' = Waiting \ {m}
    BY Zenon, <2>1, Put
  <2>3. succ' \in [IDs -> Nat] /\ succ'[m] > 0 /\ \A k \in IDs : succ[k] > 0 => succ'[k] > 0
    BY <1>1, <2>1 DEF TypeOK
  <2>4. TypeOK'
    BY Zenon, <1>1, <2>1, <2>2, <2>3 DEF TypeOK
  <2>5. Expiring'
    BY Zenon, <1>1, <2>1 DEF Expiring
  <2>6. NoSilentLoss'
    BY Zenon, <1>1, <2>1, <2>2, <2>3 DEF NoSilentLoss, TypeOK
  <2> QED BY Zenon, <2>2, <2>4, <2>5, <2>6, Whole
<1>3. ASSUME DeleteExpired PROVE IInv'
  <2>1. cur # None /\ cur[1] \in IDs
    BY Zenon, <1>1, <1>3 DEF DeleteExpired, Expiring, TypeOK
  <2>2. PICK m \in IDs : m = cur[1]
    BY Zenon, <2>1
  <2>3. /\ SyncWaitAck' = [SyncWaitAck EXCEPT ![m] = None] /\ spc = "delete" /\ spc' = "fail"
        /\ resend' = resend \ {m} /\ UNCHANGED <<second, pc, id, succ, cur, stored, reported>>
    BY Zenon, <1>3, <2>2 DEF DeleteExpired
  <2>4. SyncWaitAck' \in [IDs -> Entry \cup {None}] /\ Clock' /\ Waiting' = Waiting \ {m}
    BY Zenon, <2>3, Put
  <2>5. TypeOK'
    BY Zenon, <1>1, <2>3, <2>4 DEF TypeOK
  <2>6. Expiring'
    BY Zenon, <1>1, <2>3 DEF Expiring
  <2>7. NoSilentLoss'
    BY Zenon, <1>1, <2>2, <2>3, <2>4 DEF NoSilentLoss
  <2> QED BY <2>4, <2>5, <2>6, <2>7, Whole
<1> QED BY Zenon, <1>2, <1>3

\* A resend writes to an entry that is still in the map.
LEMMA ResendIInv ==
    ASSUME IInv, NEW m \in IDs, Resend(m)
    PROVE  IInv'
<1>1. TypeOK /\ Clock /\ Expiring /\ NoSilentLoss
  BY Zenon, Parts
<1>2. /\ resend' \subseteq resend /\ m \in Waiting
      /\ UNCHANGED <<second, pc, id, succ, spc, cur, stored, reported>>
  BY Zenon, <1>1 DEF Resend, TypeOK
<1>3. PICK v : v = [SyncWaitAck[m] EXCEPT !.latest = second]
  BY Zenon
<1>4. SyncWaitAck' = SyncWaitAck \/ SyncWaitAck' = [SyncWaitAck EXCEPT ![m] = v]
  BY Zenon, <1>3 DEF Resend
<1>5. SyncWaitAck[m] \in Entry /\ Agrees(SyncWaitAck[m]) /\ second \in Second
  BY Zenon, <1>1, <1>2, Found DEF Clock, TypeOK
<1>6. v \in Entry /\ v.when = SyncWaitAck[m].when /\ v.age = SyncWaitAck[m].age
  BY Zenon, <1>3, <1>5 DEF Entry
<1>7. Agrees(v) /\ v # None
  BY Zenon, <1>5, <1>6, Entries DEF Agrees
<1>8. SyncWaitAck' \in [IDs -> Entry \cup {None}] /\ Clock' /\ Waiting' = Waiting
  <2>1. CASE SyncWaitAck' = SyncWaitAck
    BY Zenon, <1>1, <1>2, <2>1 DEF TypeOK, Clock, Agrees, Waiting
  <2>2. CASE SyncWaitAck' = [SyncWaitAck EXCEPT ![m] = v]
    <3>1. SyncWaitAck' \in [IDs -> Entry \cup {None}] /\ Clock' /\ Waiting' = Waiting \cup {m}
      BY Zenon, <1>2, <1>6, <1>7, <2>2, Put
    <3> QED BY Zenon, <1>2, <3>1
  <2> QED BY Zenon, <1>4, <2>1, <2>2
<1>9. TypeOK'
  BY Zenon, <1>1, <1>2, <1>8 DEF TypeOK
<1>10. Expiring' /\ NoSilentLoss'
  BY Zenon, <1>1, <1>2, <1>8 DEF Expiring, NoSilentLoss
<1> QED BY Zenon, <1>8, <1>9, <1>10, Whole

\* A second passes for every entry, and for the one that is given up.
LEMMA AdvanceIInv ==
    ASSUME IInv, Advance
    PROVE  IInv'
<1>1. TypeOK /\ Clock /\ Expiring /\ NoSilentLoss
  BY Zenon, Parts
<1>2. second \in Second /\ second' = (second + 1) % Minute
  BY Zenon, <1>1 DEF TypeOK, Advance
<1>3. /\ UNCHANGED <<pc, id, succ, resend, spc, reported, stored>>
      /\ SyncWaitAck' = [m \in IDs |-> IF SyncWaitAck[m] = None THEN None
                           ELSE [SyncWaitAck[m] EXCEPT !.age = IF @ < Minute THEN @ + 1 ELSE @]]
      /\ cur' = IF cur = None THEN None ELSE [cur EXCEPT ![2].age = IF @ < Minute THEN @ + 1 ELSE @]
  BY DEF Advance
<1>4. ASSUME NEW m \in IDs
      PROVE  /\ SyncWaitAck'[m] \in Entry \cup {None} /\ (SyncWaitAck'[m] = None <=> SyncWaitAck[m] = None)
             /\ SyncWaitAck'[m] # None => (Agrees(SyncWaitAck[m]))'
  <2>1. CASE SyncWaitAck[m] = None
    BY Zenon, <1>3, <2>1
  <2>2. CASE SyncWaitAck[m] # None
    <3>1. SyncWaitAck[m] \in Entry /\ Agrees(SyncWaitAck[m])
      BY Zenon, <1>1, <2>2 DEF TypeOK, Clock, Waiting
    <3>2. PICK e \in Entry : e = SyncWaitAck[m]
      BY Zenon, <3>1
    <3>3. PICK f : f = [e EXCEPT !.age = IF @ < Minute THEN @ + 1 ELSE @]
      BY Zenon
    <3>4. f \in Entry /\ (Agrees(f))'
      BY Zenon, <1>2, <3>1, <3>2, <3>3, Older
    <3>5. SyncWaitAck'[m] = f
      BY Zenon, <1>3, <2>2, <3>2, <3>3
    <3>6. f # None
      BY Zenon, <3>4, Entries
    <3> QED BY Zenon, <2>2, <3>4, <3>5, <3>6 DEF Agrees
  <2> QED BY Zenon, <2>1, <2>2
<1>5. Waiting' = Waiting /\ Clock' /\ SyncWaitAck' \in [IDs -> Entry \cup {None}]
  BY Zenon, <1>3, <1>4 DEF Waiting, Clock
<1>6. /\ cur = None => cur' = None
      /\ cur # None => /\ cur' \in IDs \X Entry /\ cur'[1] = cur[1] /\ cur' # None
                       /\ cur[2].age > Timeout => cur'[2].age > Timeout
  <2>1. CASE cur # None
    <3>1. PICK m \in IDs, e \in Entry : cur = <<m, e>>
      BY <1>1, <2>1 DEF TypeOK
    <3>2. cur' = <<m, [e EXCEPT !.age = IF @ < Minute THEN @ + 1 ELSE @]>>
      BY <1>3, <2>1, <3>1
    <3>3. e.when \in Second /\ e.latest \in Second /\ e.age \in 0..Minute /\ Minute \in Nat /\ Timeout \in Nat
      BY Zenon, Entries, AckAssumption
    <3>4. PICK f : f = [e EXCEPT !.age = IF @ < Minute THEN @ + 1 ELSE @]
      BY Zenon
    <3>5. f \in Entry /\ (e.age > Timeout => f.age > Timeout)
      BY <3>3, <3>4 DEF Entry
    <3>6. cur' = <<m, f>> /\ cur' \in IDs \X Entry
      BY Zenon, <3>2, <3>4, <3>5
    <3>7. cur[1] = m /\ cur[2] = e /\ cur'[1] = m /\ cur'[2] = f
      BY Zenon, <3>1, <3>6
    <3> QED BY Zenon, <2>1, <3>5, <3>6, <3>7, AckAssumption
  <2> QED BY Zenon, <1>3, <2>1
<1>7. TypeOK'
  BY Zenon, <1>1, <1>2, <1>3, <1>5, <1>6, NextSecond DEF TypeOK
<1>8. Expiring' /\ NoSilentLoss'
  BY Zenon, <1>1, <1>3, <1>5, <1>6 DEF Expiring, NoSilentLoss
<1> QED BY Zenon, <1>5, <1>7, <1>8, Whole
-----------------------------------------------------------------------------
\* Nothing waits.
LEMMA InitIInv == Init => IInv
  BY AckAssumption DEF Init, IInv, TypeOK, Clock, Expiring, NoSilentLoss, Waiting, Second

\* Every step keeps the invariant.
LEMMA NextIInv ==
    ASSUME IInv, [Next]_vars
    PROVE  IInv'
<1>1. CASE UNCHANGED vars
  <2>1. UNCHANGED <<second, SyncWaitAck, stored, resend, succ, reported, cur, spc, pc, id>>
    BY Zenon, <1>1 DEF vars
  <2> QED BY Zenon, <2>1, Parts, Silent DEF TypeOK
<1> QED BY Zenon, <1>1, SenderIInv, StoreIInv, ReportIInv, VisitIInv, DeleteIInv, ResendIInv, AdvanceIInv
        DEF Next, Sender, Service

\* Hence it always holds.
LEMMA Invariance == Spec => []IInv
  BY InitIInv, NextIInv, PTL DEF Spec

\* The ackreply service gives a message up only when it has really waited longer
\* than ackMessageTimeout, for every time-out and every length of a minute,
\* although the code subtracts seconds within the minute and a pass may be slow
\* (network/components/ackreply checkAckReceivedService).
THEOREM GivenUpIsOld == Spec => []FailedIsOld
<1>1. IInv => FailedIsOld
  BY DEF IInv, Expiring, FailedIsOld
<1> QED BY <1>1, Invariance, PTL

\* A stored message never disappears without a report, made or on its way, for
\* every number of messages and senders and every capacity of AckStatusNotify
\* (client.go AsyncSendAndWaitAck, ackreply Receive, checkAckReceivedService).
THEOREM NothingLost == Spec => []NoSilentLoss
<1>1. IInv => NoSilentLoss
  BY DEF IInv
<1> QED BY <1>1, Invariance, PTL
-----------------------------------------------------------------------------
Sample == [start : Nat, end : Nat, of : Nat, by : Nat]
Request == [pc : {"lock", "shift", "fill", "sent", "done"}, start : Nat, i : Nat, working : Nat, moved : BOOLEAN]

\* A sample that has been started.
SampleOK(s, rs, now) ==
    /\ s.start > 0 /\ s.start <= now /\ (s.end = 0 \/ s.end >= s.start)
    /\ s.by \in 0..Len(rs) /\ (s.by \notin {0, s.of} => rs[s.by].moved)

\* A request shifts only a full window, and knows its own sample while it is
\* under way and the window has not moved.
RequestOK(r, rs, samples, top, now) ==
    /\ rs[r].start > 0 /\ rs[r].start <= now
    /\ rs[r].pc = "shift" => top = SampleSize /\ rs[r].i \in 1..SampleSize
    /\ rs[r].pc = "sent" => rs[r].working \in 1..top /\ (~rs[r].moved => samples[rs[r].working].of = r)

\* The mutex is with the request that shifts or fills; if the window is full, all
\* others that are under way know that it moves.
MutexOK(holder, rs, top) ==
    /\ \A r \in DOMAIN rs : rs[r].pc \in {"shift", "fill"} <=> holder = r
    /\ holder # 0 /\ top = SampleSize => \A q \in DOMAIN rs : rs[q].pc = "sent" => rs[q].moved

MetricType ==
    /\ clock \in Nat \ {0} /\ index \in 0..SampleSize
    /\ timeMetric \in [1..SampleSize -> Sample] /\ requests \in Seq(Request) /\ mutex \in 0..Len(requests)

MetricInv ==
    /\ MetricType
    /\ \A i \in 1..index : SampleOK(timeMetric[i], requests, clock)
    /\ \A r \in DOMAIN requests : RequestOK(r, requests, timeMetric, index, clock)
    /\ MutexOK(mutex, requests, index)
    /\ echoed[1] = echoed[3]

-----------------------------------------------------------------------------
\* Induction: a set of finite sets has a minimal one, a set of numbers a least.
LEMMA Minimal ==
    ASSUME NEW F, F # {}, \A s \in F : IsFiniteSet(s)
    PROVE  \E m \in F : \A s \in F : s \subseteq m => s = m
<1> DEFINE U == UNION F
<1>1. F \subseteq FiniteSubsetsOf(U)
  BY Zenon DEF FiniteSubsetsOf
<1>2. \E m \in F : \A s \in F : <<s, m>> \notin StrictSubsetOrdering(U)
  BY ONLY Zenon, <1>1, F # {}, WFMin, FS_StrictSubsetOrderingWellFounded
<1> QED
  BY Zenon, <1>1, <1>2 DEF StrictSubsetOrdering

\* A nonempty set of numbers has a least element.
LEMMA LeastOf ==
    ASSUME NEW S, S \subseteq Nat, S # {}
    PROVE  \E m \in S : \A k \in S : m <= k
<1> DEFINE Below == {0..n : n \in S}
<1>1. \A s \in Below : IsFiniteSet(s)
  <2>1. ASSUME NEW n \in S PROVE IsFiniteSet(0..n)
    <3>1. 0 \in Int /\ n \in Int
      OBVIOUS
    <3> QED
      BY Zenon, <3>1, FS_Interval
  <2> QED
    BY Zenon, <2>1
<1>2. Below # {}
  BY Zenon
<1> HIDE DEF Below
<1>3. PICK m \in Below : \A s \in Below : s \subseteq m => s = m
  BY <1>1, <1>2, Minimal
<1>4. PICK n \in S : m = 0..n
  BY Zenon, <1>3 DEF Below
<1>5. ASSUME NEW k \in S PROVE n <= k
  <2>1. k < n => 0..k \subseteq 0..n /\ 0..k # 0..n
    OBVIOUS
  <2>2. 0..k \in Below
    BY Zenon DEF Below
  <2> QED
    BY <1>3, <1>4, <2>1, <2>2
<1> QED
  BY Zenon, <1>4, <1>5

\* A set of numbers that has 0, and with every number the next up to n, has all of them.
LEMMA UpTo ==
    ASSUME NEW n \in Nat, NEW S, 0 \in S, \A k \in 0..n : k > 0 /\ k - 1 \in S => k \in S
    PROVE  0..n \subseteq S
<1> DEFINE C == {k \in 0..n : k \notin S}
<1>1. SUFFICES ASSUME C # {} PROVE FALSE
  OBVIOUS
<1>2. C \subseteq Nat
  OBVIOUS
<1>3. PICK m \in C : \A k \in C : m <= k
  BY Zenon, <1>1, <1>2, LeastOf
<1>4. m \in 0..n /\ m # 0 /\ m - 1 \in 0..n /\ ~(m <= m - 1)
  BY <1>3
<1>5. m - 1 \in S
  BY Zenon, <1>3, <1>4
<1> QED
  BY <1>3, <1>4, <1>5

-----------------------------------------------------------------------------
\* The partial sums of f.
Sums(g, f, n) == g \in [0..n -> Int] /\ g[0] = 0 /\ \A i \in 1..n : g[i] = g[i - 1] + f[i]
Agree(g, h, n) == \A i \in 0..n : h[i] = g[i]
Ints(f, n) == \A i \in 1..n : f[i] \in Int
Raised(b, a, p, x, n) == \A i \in 1..n : b[i] = IF i = p THEN a[i] + x ELSE a[i]
Loop(g, f, n) == g = [i \in 0..n |-> IF i = 0 THEN 0 ELSE g[i - 1] + f[i]]

\* The first n values have partial sums.
LEMMA SumsExist ==
    ASSUME NEW n \in Nat, NEW f, Ints(f, n)
    PROVE  \E g : Sums(g, f, n)
<1> DEFINE S == {k \in 0..n : \E g : Sums(g, f, k)}
<1>1. 0 \in S
  <2>1. Sums([i \in 0..0 |-> 0], f, 0)
    BY DEF Sums
  <2> QED
    BY <2>1
<1>2. ASSUME NEW k \in 0..n, k > 0, k - 1 \in S PROVE k \in S
  <2>1. PICK g : Sums(g, f, k - 1)
    BY Zenon, <1>2
  <2> DEFINE h == [i \in 0..k |-> IF i = k THEN g[k - 1] + f[k] ELSE g[i]]
  <2>2. k \in Nat /\ k - 1 \in Nat /\ f[k] \in Int
    BY <1>2 DEF Ints
  <2>3. Sums(h, f, k)
    BY SMTT(20), <1>2, <2>1, <2>2 DEF Sums
  <2> QED
    BY Zenon, <2>3
<1> HIDE DEF S
<1>3. 0..n \subseteq S
  BY Zenon, <1>1, <1>2, UpTo
<1> QED
  BY <1>3 DEF S

\* The loop computes the partial sums.
LEMMA LoopSums ==
    ASSUME NEW n \in Nat, NEW f, NEW g, Sums(g, f, n), NEW m \in 0..n, NEW h, Loop(h, f, m)
    PROVE  Agree(g, h, m)
<1> DEFINE S == {i \in 0..m : h[i] = g[i]}
<1>1. m \in Nat
  OBVIOUS
<1>2. \A i \in 0..m : h[i] = IF i = 0 THEN 0 ELSE h[i - 1] + f[i]
  BY Zenon DEF Loop
<1>3. 0 \in S
  BY <1>1, <1>2 DEF Sums
<1>4. ASSUME NEW k \in 0..m, k > 0, k - 1 \in S PROVE k \in S
  <2>1. k \in 1..n /\ k # 0 /\ h[k - 1] = g[k - 1]
    BY <1>4
  <2>2. h[k] = h[k - 1] + f[k]
    BY Zenon, <1>2, <2>1
  <2>3. g[k] = g[k - 1] + f[k]
    BY Zenon, <2>1 DEF Sums
  <2> QED
    BY Zenon, <2>1, <2>2, <2>3
<1> HIDE DEF S
<1>5. 0..m \subseteq S
  BY Zenon, <1>1, <1>3, <1>4, UpTo
<1> QED
  BY Zenon, <1>5 DEF S, Agree

\* Total of the first k values is their partial sum.
LEMMA TotalSums ==
    ASSUME NEW n \in Nat, NEW f, NEW g, Sums(g, f, n), NEW k \in 0..n
    PROVE  Total(f, k) = g[k]
<1>1. k \in Nat /\ k \in 0..k
  OBVIOUS
<1>2. \E h : Loop(h, f, k)
  <2> DEFINE h == [i \in 0..k |-> g[i]]
  <2>1. ASSUME NEW i \in 0..k PROVE h[i] = IF i = 0 THEN 0 ELSE h[i - 1] + f[i]
    BY <1>1 DEF Sums
  <2> DEFINE l == [i \in 0..k |-> IF i = 0 THEN 0 ELSE h[i - 1] + f[i]]
  <2>2. DOMAIN h = 0..k /\ DOMAIN l = 0..k /\ \A i \in 0..k : h[i] = l[i]
    BY Zenon, <2>1
  <2>3. h = l
    BY <2>2
  <2>4. Loop(h, f, k)
    BY Zenon, <2>3 DEF Loop
  <2> QED
    BY Zenon, <2>4
<1>3. PICK h : Loop(h, f, k) /\ Total(f, k) = h[k]
  BY Zenon, <1>2 DEF Loop, Total
<1>4. Agree(g, h, k)
  BY ONLY Zenon, n \in Nat, Sums(g, f, n), k \in 0..n, <1>3, LoopSums
<1> QED
  BY Zenon, <1>1, <1>3, <1>4 DEF Agree

\* Totals of values that agree, and of values that differ in one place.
LEMMA TotalSame ==
    ASSUME NEW n \in Nat, NEW a, NEW b, \A i \in 1..n : a[i] \in Int /\ b[i] = a[i]
    PROVE  Total(b, n) = Total(a, n)
<1>1. PICK g : Sums(g, a, n)
  BY Zenon, SumsExist DEF Ints
<1>2. Sums(g, b, n)
  BY Zenon, <1>1 DEF Sums
<1>3. n \in 0..n
  OBVIOUS
<1>4. Total(a, n) = g[n]
  BY ONLY Zenon, n \in Nat, <1>1, <1>3, TotalSums
<1>5. Total(b, n) = g[n]
  BY ONLY Zenon, n \in Nat, <1>2, <1>3, TotalSums
<1> QED
  BY Zenon, <1>4, <1>5

\* The sum when one value is raised by x.
LEMMA TotalPlus ==
    ASSUME NEW n \in Nat, NEW a, NEW b, NEW p \in 1..n, NEW x \in Int, Ints(a, n), Raised(b, a, p, x, n)
    PROVE  Total(b, n) = Total(a, n) + x
<1>1. PICK g : Sums(g, a, n)
  BY Zenon, SumsExist
<1> DEFINE h == [i \in 0..n |-> IF i >= p THEN g[i] + x ELSE g[i]]
<1>2. h \in [0..n -> Int] /\ h[0] = 0 /\ h[n] = g[n] + x
  BY <1>1 DEF Sums
<1>3. ASSUME NEW i \in 1..n PROVE h[i] = h[i - 1] + b[i]
  <2>1. /\ g[i] = g[i - 1] + a[i] /\ g[i] \in Int /\ g[i - 1] \in Int /\ a[i] \in Int
        /\ b[i] = IF i = p THEN a[i] + x ELSE a[i]
    BY <1>1 DEF Sums, Ints, Raised
  <2>2. h[i] = (IF i >= p THEN g[i] + x ELSE g[i]) /\ h[i - 1] = (IF i - 1 >= p THEN g[i - 1] + x ELSE g[i - 1])
    OBVIOUS
  <2> HIDE DEF h
  <2> QED
    BY <2>1, <2>2
<1> HIDE DEF h
<1>4. Sums(h, b, n)
  BY Zenon, <1>2, <1>3 DEF Sums
<1>5. n \in 0..n
  OBVIOUS
<1> QED
  BY Zenon, <1>1, <1>2, <1>4, <1>5, TotalSums

\* Total as the loop has it.
LEMMA TotalStep ==
    ASSUME NEW n \in Nat, NEW a, Ints(a, n)
    PROVE  /\ Total(a, n) \in Int /\ Total(a, 0) = 0
           /\ n > 0 => Total(a, n) = Total(a, n - 1) + a[n]
<1>1. PICK g : Sums(g, a, n)
  BY Zenon, SumsExist
<1>2. n \in 0..n /\ 0 \in 0..n /\ (n > 0 => n - 1 \in 0..n /\ n \in 1..n)
  OBVIOUS
<1>3. Total(a, n) = g[n] /\ Total(a, 0) = g[0] /\ (n > 0 => Total(a, n - 1) = g[n - 1])
  BY Zenon, <1>1, <1>2, TotalSums
<1> QED
  BY <1>1, <1>2, <1>3 DEF Sums

-----------------------------------------------------------------------------
\* Counting.
LEMMA CountType ==
    ASSUME NEW n \in Nat, NEW d, NEW x
    PROVE  IsFiniteSet({i \in 1..n : d[i] = x}) /\ Count(d, n, x) \in Nat
<1>1. 1 \in Int /\ n \in Int
  OBVIOUS
<1>2. IsFiniteSet(1..n)
  BY Zenon, <1>1, FS_Interval
<1>3. {i \in 1..n : d[i] = x} \subseteq 1..n
  BY Zenon
<1>4. IsFiniteSet({i \in 1..n : d[i] = x})
  BY Zenon, <1>2, <1>3, FS_Subset
<1> QED
  BY Zenon, <1>4, FS_CardinalityType DEF Count

\* How often a value occurs when one more is counted.
LEMMA CountStep ==
    ASSUME NEW n \in Nat, NEW d, NEW x
    PROVE  Count(d, n + 1, x) = IF d[n + 1] = x THEN Count(d, n, x) + 1 ELSE Count(d, n, x)
<1> DEFINE A == {i \in 1..n : d[i] = x}
           B == {i \in 1..n + 1 : d[i] = x}
<1>1. n + 1 \notin A
  OBVIOUS
<1>0. IsFiniteSet(A)
  BY Zenon, CountType
<1>2. CASE d[n + 1] = x
  <2>1. B = A \cup {n + 1}
    BY <1>2
  <2>2. Cardinality(A \cup {n + 1}) = Cardinality(A) + 1
    BY Zenon, <1>0, <1>1, FS_AddElement
  <2> QED
    BY Zenon, <1>2, <2>1, <2>2 DEF Count
<1>3. CASE d[n + 1] # x
  <2>1. B = A
    BY <1>3
  <2> QED
    BY Zenon, <1>3, <2>1 DEF Count
<1> QED
  BY Zenon, <1>2, <1>3

\* A value that does not occur.
LEMMA CountZero ==
    ASSUME NEW n \in Nat, NEW d, NEW x, \A i \in 1..n : d[i] # x
    PROVE  Count(d, n, x) = 0
<1>1. {i \in 1..n : d[i] = x} = {}
  OBVIOUS
<1> QED
  BY Zenon, <1>1, FS_EmptySet DEF Count

-----------------------------------------------------------------------------
\* One sample more: its distance is new, or it counts at its first occurrence.
LEMMA StaticsStep ==
    ASSUME NEW n \in Nat, NEW d, Ints(d, n + 1)
    PROVE  Total(Statics(d, n + 1), n + 1) = Total(Statics(d, n), n) + d[n + 1]
<1> DEFINE x == d[n + 1]
           a == Statics(d, n)
           b == Statics(d, n + 1)
<1>1. /\ \A i \in 1..n : a[i] = IF \E j \in 1..i - 1 : d[j] = d[i] THEN 0 ELSE Count(d, n, d[i]) * d[i]
      /\ \A i \in 1..n + 1 : b[i] = IF \E j \in 1..i - 1 : d[j] = d[i] THEN 0 ELSE Count(d, n + 1, d[i]) * d[i]
  BY Zenon DEF Statics
<1>2. \A y : Count(d, n, y) \in Nat /\ Count(d, n + 1, y) = IF x = y THEN Count(d, n, y) + 1 ELSE Count(d, n, y)
  BY Zenon, CountType, CountStep
<1>3. n + 1 \in Nat /\ n + 1 > 0 /\ n + 1 \in 1..n + 1 /\ x \in Int /\ (n + 1) - 1 = n
  BY DEF Ints
<1> HIDE DEF a, b
<1>4. Ints(a, n) /\ \A i \in 1..n : i \in 1..n + 1
  <2>1. ASSUME NEW i \in 1..n PROVE a[i] \in Int /\ i \in 1..n + 1
    <3>1. i \in 1..n + 1 /\ d[i] \in Int
      BY DEF Ints
    <3>2. PICK c \in Nat : c = Count(d, n, d[i])
      BY Zenon, <1>2
    <3>3. a[i] = 0 \/ a[i] = c * d[i]
      BY Zenon, <1>1, <3>2
    <3> QED
      BY <3>1, <3>2, <3>3
  <2> QED
    BY Zenon, <2>1 DEF Ints
<1>5. CASE \E j \in 1..n : d[j] = x
  <2> DEFINE F == {j \in 1..n : d[j] = x}
  <2>1. F \subseteq Nat /\ F # {}
    BY <1>5
  <2>2. PICK f \in F : \A j \in F : f <= j
    BY Zenon, <2>1, LeastOf
  <2>3. f \in 1..n /\ d[f] = x
    BY Zenon, <2>2
  <2>4. ~ \E j \in 1..f - 1 : d[j] = x
    BY <2>2, <2>3
  <2> HIDE DEF F
  <2>5. b[n + 1] = 0
    BY Zenon, <1>1, <1>3, <1>5
  <2>6. ASSUME NEW i \in 1..n PROVE b[i] = IF i = f THEN a[i] + x ELSE a[i]
    <3>1. CASE \E j \in 1..i - 1 : d[j] = d[i]
      <4>1. i # f
        BY Zenon, <2>3, <2>4, <3>1
      <4>2. a[i] = 0 /\ b[i] = 0
        BY Zenon, <1>1, <1>4, <3>1
      <4> QED
        BY Zenon, <4>1, <4>2
    <3>2. CASE ~ \E j \in 1..i - 1 : d[j] = d[i]
      <4>1. a[i] = Count(d, n, d[i]) * d[i] /\ b[i] = Count(d, n + 1, d[i]) * d[i]
        BY Zenon, <1>1, <1>4, <3>2
      <4>2. i # f => d[i] # x
        BY <2>2, <2>3, <3>2 DEF F
      <4>3. PICK c \in Nat : c = Count(d, n, d[i])
        BY Zenon, <1>2
      <4>4. CASE i = f
        <5>1. Count(d, n + 1, d[i]) = c + 1
          BY Zenon, <1>2, <2>3, <4>3, <4>4
        <5>2. (c + 1) * x = c * x + x
          BY <1>3, <4>3
        <5> QED
          BY Zenon, <2>3, <4>1, <4>3, <4>4, <5>1, <5>2
      <4>5. CASE i # f
        BY Zenon, <1>2, <4>1, <4>2, <4>5
      <4> QED
        BY Zenon, <4>4, <4>5
    <3> QED
      BY Zenon, <3>1, <3>2
  <2>7. Total(b, n) = Total(a, n) + x
    <3>1. Raised(b, a, f, x, n)
      BY Zenon, <2>6 DEF Raised
    <3> QED
      BY ONLY Zenon, n \in Nat, <1>3, <1>4, <2>3, <3>1, TotalPlus
  <2>8. Ints(b, n + 1)
    BY <1>3, <1>4, <2>5, <2>6 DEF Ints
  <2>9. Total(b, n + 1) = Total(b, n) + 0
    BY Zenon, <1>3, <2>5, <2>8, TotalStep
  <2>10. Total(a, n) \in Int
    BY Zenon, <1>4, TotalStep
  <2>11. Total(b, n + 1) = Total(a, n) + x
    BY <1>3, <2>7, <2>9, <2>10
  <2> QED
    BY Zenon, <2>11 DEF a, b
<1>6. CASE ~ \E j \in 1..n : d[j] = x
  <2>1. Count(d, n, x) = 0
    BY Zenon, <1>6, CountZero
  <2>2. b[n + 1] = x
    <3>1. b[n + 1] = Count(d, n + 1, x) * x
      BY Zenon, <1>1, <1>3, <1>6
    <3>2. Count(d, n + 1, x) = 1
      BY <1>2, <2>1
    <3> QED
      BY <1>3, <3>1, <3>2
  <2>3. ASSUME NEW i \in 1..n PROVE a[i] \in Int /\ b[i] = a[i]
    <3>1. Count(d, n + 1, d[i]) = Count(d, n, d[i])
      BY Zenon, <1>2, <1>6
    <3> QED
      BY Zenon, <1>1, <1>4, <3>1 DEF Ints
  <2>4. Total(b, n) = Total(a, n)
    BY ONLY Zenon, n \in Nat, <2>3, TotalSame
  <2>5. Ints(b, n + 1)
    <3>1. ASSUME NEW i \in 1..n + 1 PROVE i \in 1..n \/ i = n + 1
      BY <1>3
    <3>2. x \in Int
      BY <1>3
    <3> QED
      BY Zenon, <2>2, <2>3, <3>1, <3>2 DEF Ints
  <2>6. Total(b, n + 1) = Total(a, n) + x
    BY ZenonT(30), <1>3, <2>2, <2>4, <2>5, TotalStep
  <2> QED
    BY Zenon, <2>6 DEF a, b
<1> QED
  BY Zenon, <1>5, <1>6

\* The expectation by shares is the average: both divide the same sum.
LEMMA StaticsTotal ==
    ASSUME NEW n \in Nat, NEW d, Ints(d, n)
    PROVE  Total(Statics(d, n), n) = Total(d, n)
<1> DEFINE S == {k \in 0..n : Total(Statics(d, k), k) = Total(d, k)}
<1>1. 0 \in S
  <2>1. 0 \in Nat /\ 0 \in 0..n /\ \A f : Ints(f, 0)
    BY DEF Ints
  <2>2. Total(Statics(d, 0), 0) = 0 /\ Total(d, 0) = 0
    BY Zenon, <2>1, TotalStep
  <2> QED
    BY Zenon, <2>1, <2>2
<1>2. ASSUME NEW k \in 0..n, k > 0, k - 1 \in S PROVE k \in S
  <2>1. k \in Nat /\ k - 1 \in Nat /\ (k - 1) + 1 = k /\ Ints(d, k)
    BY <1>2 DEF Ints
  <2>2. Total(Statics(d, k), k) = Total(Statics(d, k - 1), k - 1) + d[k]
    <3>1. PICK m \in Nat : m = k - 1 /\ m + 1 = k
      BY Zenon, <2>1
    <3>2. Ints(d, m + 1)
      BY Zenon, <2>1, <3>1
    <3>3. Total(Statics(d, m + 1), m + 1) = Total(Statics(d, m), m) + d[m + 1]
      BY Zenon, <3>2, StaticsStep
    <3> QED
      BY Zenon, <3>1, <3>3
  <2>3. Total(d, k) = Total(d, k - 1) + d[k]
    BY Zenon, <1>2, <2>1, TotalStep
  <2> QED
    BY Zenon, <1>2, <2>2, <2>3
<1> HIDE DEF S
<1>3. 0..n \subseteq S
  BY Zenon, <1>1, <1>2, UpTo
<1>4. n \in 0..n
  OBVIOUS
<1> QED
  BY Zenon, <1>3, <1>4 DEF S

\* What echoMetricValues logs.
LEMMA EchoSame == ASSUME MetricInv, echoMetricValues PROVE echoed'[1] = echoed'[3]
<1>1. CASE index = 0
  BY Zenon, <1>1 DEF echoMetricValues, MetricInv
<1>2. CASE index # 0
  <2>1. index \in Nat
    BY MetricAssumption DEF MetricInv, MetricType
  <2>2. Ints(Distances, index)
    <3>1. ASSUME NEW i \in 1..index PROVE Distances[i] \in Int
      <4>1. i \in 1..SampleSize
        BY MetricAssumption DEF MetricInv, MetricType
      <4>2. timeMetric[i].start \in Int /\ timeMetric[i].end \in Int /\ clock \in Int
        BY SMTT(20), <4>1 DEF MetricInv, MetricType, Sample
      <4>3. Distances[i] = (IF timeMetric[i].end = 0 THEN clock ELSE timeMetric[i].end) - timeMetric[i].start
        BY Zenon DEF Distances, Distance
      <4> QED
        BY <4>2, <4>3
    <3> QED
      BY Zenon, <3>1 DEF Ints
  <2>3. Total(Statics(Distances, index), index) = Total(Distances, index)
    BY Zenon, <2>1, <2>2, StaticsTotal
  <2>4. timeDistanceExpect = timeDistanceAverage
    BY Zenon, <1>2, <2>3 DEF timeDistanceExpect, timeDistanceAverage
  <2>5. PICK v : echoed' = <<timeDistanceExpect, v, timeDistanceAverage>>
    BY Zenon, <1>2 DEF echoMetricValues, TimeDistanceStandard, timeDistanceVar
  <2> QED
    BY <2>4, <2>5
<1> QED
  BY Zenon, <1>1, <1>2

-----------------------------------------------------------------------------
\* A window that the requests see full is full.
LEMMA FullWindow == ASSUME MetricInv PROVE Full <=> index = SampleSize
<1>1. SampleSize \in Nat /\ SampleSize > 0 /\ index \in 0..SampleSize
  BY MetricAssumption DEF MetricInv, MetricType
<1>2. index = SampleSize => timeMetric[SampleSize].start > 0
  <2>1. index = SampleSize => SampleSize \in 1..index
    BY <1>1
  <2> QED
    BY Zenon, <2>1 DEF MetricInv, SampleOK
<1> QED
  BY <1>1, <1>2 DEF Full

\* Samples stay good while requests are added and marked, and time passes.
LEMMA SampleKept ==
    ASSUME NEW s, NEW rs, NEW rt, NEW now \in Nat, NEW then \in Nat, s \in Sample,
           SampleOK(s, rs, now), now <= then, Len(rs) \in Nat, Len(rt) \in Nat, Len(rs) <= Len(rt),
           \A q \in 1..Len(rs) : rs[q].moved => rt[q].moved
    PROVE  SampleOK(s, rt, then)
BY DEF SampleOK, Sample

\* The invariant holds initially.
LEMMA MetricInitInv == MetricInit => MetricInv
<1> SUFFICES ASSUME MetricInit PROVE MetricInv
  OBVIOUS
<1>1. SampleSize \in Nat /\ SampleSize > 0
  BY MetricAssumption
<1>2. MetricType
  BY <1>1 DEF MetricInit, MetricType, Sample
<1>3. index = 0 /\ requests = <<>> /\ mutex = 0 /\ echoed = <<0, 0, 0>>
  BY Zenon DEF MetricInit
<1>4. 1..index = {} /\ DOMAIN requests = {} /\ echoed[1] = echoed[3]
  BY <1>3
<1>5. MutexOK(mutex, requests, index)
  BY Zenon, <1>3, <1>4 DEF MutexOK
<1> QED
  BY Zenon, <1>2, <1>4, <1>5 DEF MetricInv

-----------------------------------------------------------------------------
\* One field of a request or a sample is set.
Pcs == {"lock", "shift", "fill", "sent", "done"}

\* A request that goes on.
LEMMA SetPc ==
    ASSUME NEW x \in Request, NEW v \in Pcs, NEW y, y = [x EXCEPT !.pc = v]
    PROVE  y \in Request /\ y.pc = v /\ y.start = x.start /\ y.i = x.i /\ y.working = x.working /\ y.moved = x.moved
BY DEF Request, Pcs

\* A request that has taken a position in the window.
LEMMA SetI ==
    ASSUME NEW x \in Request, NEW v \in Nat, NEW y, y = [x EXCEPT !.i = v]
    PROVE  y \in Request /\ y.i = v /\ y.pc = x.pc /\ y.start = x.start /\ y.working = x.working /\ y.moved = x.moved
BY DEF Request, Pcs

\* A request with another number of working samples.
LEMMA SetWorking ==
    ASSUME NEW x \in Request, NEW v \in Nat, NEW y, y = [x EXCEPT !.working = v]
    PROVE  y \in Request /\ y.working = v /\ y.pc = x.pc /\ y.start = x.start /\ y.i = x.i /\ y.moved = x.moved
BY DEF Request, Pcs

\* A request that has shifted the window.
LEMMA SetMoved ==
    ASSUME NEW x \in Request, NEW v \in BOOLEAN, NEW y, y = [x EXCEPT !.moved = v]
    PROVE  y \in Request /\ y.moved = v /\ y.pc = x.pc /\ y.start = x.start /\ y.i = x.i /\ y.working = x.working
BY DEF Request, Pcs

\* A sample with another end.
LEMMA SetEnd ==
    ASSUME NEW x \in Sample, NEW v \in Nat, NEW y, y = [x EXCEPT !.end = v]
    PROVE  y \in Sample /\ y.end = v /\ y.start = x.start /\ y.of = x.of /\ y.by = x.by
BY DEF Sample

\* A sample that another request has ended.
LEMMA SetBy ==
    ASSUME NEW x \in Sample, NEW v \in Nat, NEW y, y = [x EXCEPT !.by = v]
    PROVE  y \in Sample /\ y.by = v /\ y.start = x.start /\ y.end = x.end /\ y.of = x.of
BY DEF Sample

-----------------------------------------------------------------------------
\* A tick adds a request that waits for the mutex.
LEMMA PeerConnectInv == ASSUME MetricInv, PeerConnect PROVE MetricInv'
<1> DEFINE new == [pc |-> "lock", start |-> clock, i |-> 0, working |-> 0, moved |-> FALSE]
           n == Len(requests)
<1>1. requests' = Append(requests, new) /\ UNCHANGED <<clock, timeMetric, index, isFull, mutex>> /\ echoMetricValues
  BY Zenon DEF PeerConnect, window
<1>2. echoed'[1] = echoed'[3]
  BY Zenon, <1>1, EchoSame
<1>3. /\ clock \in Nat \ {0} /\ index \in 0..SampleSize /\ SampleSize \in Nat /\ mutex \in 0..Len(requests)
      /\ timeMetric \in [1..SampleSize -> Sample] /\ requests \in Seq(Request)
  BY Zenon, MetricAssumption DEF MetricInv, MetricType
<1>4. new \in Request
  BY <1>3 DEF Request
<1>5. /\ requests' \in Seq(Request) /\ n \in Nat /\ Len(requests') = n + 1 /\ DOMAIN requests = 1..n
      /\ DOMAIN requests' = 1..n + 1 /\ requests'[n + 1] = new
  BY <1>1, <1>3, <1>4
<1>6. \A q \in 1..n : requests'[q] = requests[q]
  BY <1>1, <1>3, <1>4
<1>7. MetricType'
  BY <1>1, <1>3, <1>5 DEF MetricType
<1>8. ASSUME NEW i \in 1..index' PROVE SampleOK(timeMetric'[i], requests', clock')
  <2>1. i \in 1..SampleSize /\ i \in 1..index
    BY <1>1, <1>3
  <2>2. SampleOK(timeMetric[i], requests, clock) /\ timeMetric[i] \in Sample
    BY Zenon, <1>3, <2>1 DEF MetricInv
  <2>3. \A q \in 1..n : requests[q].moved => requests'[q].moved
    BY Zenon, <1>6
  <2>4. n <= Len(requests') /\ Len(requests') \in Nat /\ clock <= clock /\ clock \in Nat
    BY <1>3, <1>5
  <2> QED
    BY Zenon, <1>1, <1>5, <2>2, <2>3, <2>4, SampleKept
<1>9. ASSUME NEW r \in DOMAIN requests' PROVE RequestOK(r, requests', timeMetric', index', clock')
  <2>1. CASE r \in 1..n
    <3>1. RequestOK(r, requests, timeMetric, index, clock) /\ requests'[r] = requests[r]
      BY Zenon, <1>5, <1>6, <2>1 DEF MetricInv
    <3> QED
      BY Zenon, <1>1, <3>1 DEF RequestOK
  <2>2. CASE r = n + 1
    <3>1. requests'[r].start = clock /\ requests'[r].pc = "lock"
      BY <1>5, <2>2
    <3> QED
      BY <1>1, <1>3, <3>1 DEF RequestOK
  <2> QED
    BY <1>5, <2>1, <2>2
<1>10. MutexOK(mutex', requests', index')
  <2>1. MutexOK(mutex, requests, index)
    BY Zenon DEF MetricInv
  <2>2. requests'[n + 1].pc = "lock" /\ mutex # n + 1
    BY <1>3, <1>5
  <2>3. \A q \in DOMAIN requests' : q = n + 1 \/ (q \in DOMAIN requests /\ requests'[q] = requests[q])
    BY <1>5, <1>6
  <2> QED
    BY Zenon, <1>1, <2>1, <2>2, <2>3 DEF MutexOK
<1> QED
  BY Zenon, <1>2, <1>7, <1>8, <1>9, <1>10 DEF MetricInv

\* A request takes the mutex; those under way are told if the window will move.
LEMMA LockSamplesInv == ASSUME MetricInv, NEW r \in DOMAIN requests, LockSamples(r) PROVE MetricInv'
<1> DEFINE n == Len(requests)
<1>1. /\ requests[r].pc = "lock" /\ mutex = 0 /\ mutex' = r
      /\ requests' = [q \in DOMAIN requests |->
                        IF q = r THEN [requests[q] EXCEPT !.pc = IF Full THEN "shift" ELSE "fill", !.i = 1]
                        ELSE [requests[q] EXCEPT !.moved = @ \/ (Full /\ requests[q].pc = "sent")]]
  BY Zenon DEF LockSamples
<1>0. /\ mutex = 0 /\ mutex' = r /\ clock' = clock /\ timeMetric' = timeMetric /\ index' = index
      /\ echoed' = echoed
  BY Zenon DEF LockSamples, window
<1>2. /\ clock \in Nat \ {0} /\ index \in 0..SampleSize /\ SampleSize \in Nat /\ SampleSize > 0
      /\ timeMetric \in [1..SampleSize -> Sample] /\ requests \in Seq(Request)
  BY MetricAssumption DEF MetricInv, MetricType
<1>3. n \in Nat /\ DOMAIN requests = 1..n /\ \A q \in 1..n : requests[q] \in Request
  BY <1>2
<1>4. Full <=> index = SampleSize
  BY Zenon, FullWindow
<1>5. ASSUME NEW q \in 1..n
      PROVE  /\ requests'[q] \in Request /\ requests'[q].start = requests[q].start
             /\ requests'[q].working = requests[q].working
             /\ q = r => requests'[q].pc = (IF Full THEN "shift" ELSE "fill") /\ requests'[q].i = 1
             /\ q # r => requests'[q].pc = requests[q].pc /\ requests'[q].i = requests[q].i
             /\ requests[q].moved => requests'[q].moved
             /\ q # r /\ Full /\ requests[q].pc = "sent" => requests'[q].moved
  <2>1. requests[q] \in Request
    BY Zenon, <1>3
  <2>2. CASE q = r
    <3>1. requests'[q] = [requests[q] EXCEPT !.pc = IF Full THEN "shift" ELSE "fill", !.i = 1]
      BY Zenon, <1>1, <2>2
    <3>2. PICK p \in {"shift", "fill"} : p = IF Full THEN "shift" ELSE "fill"
      BY Zenon
    <3>3. requests'[q] = [requests[q] EXCEPT !.pc = p, !.i = 1]
      BY Zenon, <3>1, <3>2
    <3>4. /\ requests'[q] \in Request /\ requests'[q].start = requests[q].start
          /\ requests'[q].working = requests[q].working /\ requests'[q].moved = requests[q].moved
          /\ requests'[q].pc = p /\ requests'[q].i = 1
      <4>1. PICK w : w = requests[q]
        BY Zenon
      <4>2. PICK x : x = [w EXCEPT !.pc = p]
        BY Zenon
      <4>3. PICK y : y = [x EXCEPT !.i = 1]
        BY Zenon
      <4>4. requests'[q] = y
        BY Zenon, <3>3, <4>1, <4>2, <4>3
      <4>5. w \in Request /\ p \in Pcs /\ 1 \in Nat
        BY Zenon, <2>1, <4>1 DEF Pcs
      <4>6. x \in Request /\ x.pc = p /\ x.start = w.start /\ x.working = w.working /\ x.moved = w.moved
        BY ONLY <4>2, <4>5, SetPc
      <4>7. /\ y \in Request /\ y.i = 1 /\ y.pc = x.pc /\ y.start = x.start /\ y.working = x.working
            /\ y.moved = x.moved
        BY ONLY SMTT(20), <4>3, <4>5, <4>6, SetI
      <4> QED
        BY Zenon, <4>1, <4>4, <4>6, <4>7
    <3> QED
      BY Zenon, <2>2, <3>2, <3>4
  <2>3. CASE q # r
    <3>1. requests'[q] = [requests[q] EXCEPT !.moved = requests[q].moved \/ (Full /\ requests[q].pc = "sent")]
      BY Zenon, <1>1, <1>3, <2>3
    <3>2. (requests[q].moved \/ (Full /\ requests[q].pc = "sent")) \in BOOLEAN
      BY Zenon
    <3>3. PICK v \in BOOLEAN : v = (requests[q].moved \/ (Full /\ requests[q].pc = "sent"))
      BY Zenon, <3>2
    <3>4. /\ requests'[q] \in Request /\ requests'[q].moved = v /\ requests'[q].pc = requests[q].pc
          /\ requests'[q].start = requests[q].start /\ requests'[q].i = requests[q].i
          /\ requests'[q].working = requests[q].working
      <4>1. PICK w : w = requests[q]
        BY Zenon
      <4>2. PICK x : x = [w EXCEPT !.moved = v]
        BY Zenon
      <4>3. requests'[q] = x /\ w \in Request
        BY Zenon, <2>1, <3>1, <3>3, <4>1, <4>2
      <4>4. /\ x \in Request /\ x.moved = v /\ x.pc = w.pc /\ x.start = w.start /\ x.i = w.i
            /\ x.working = w.working
        BY ONLY ZenonT(30), <3>3, <4>2, <4>3, SetMoved
      <4> QED
        BY Zenon, <4>1, <4>3, <4>4
    <3> QED
      BY Zenon, <2>3, <3>3, <3>4
  <2> QED
    BY Zenon, <2>2, <2>3
<1>6. requests' \in Seq(Request) /\ Len(requests') = n /\ DOMAIN requests' = 1..n
  <2>1. DOMAIN requests' = 1..n /\ requests' \in [1..n -> Request]
    BY Zenon, <1>1, <1>3, <1>5
  <2> QED
    BY <1>3, <2>1
<1>7. MetricType'
  BY <1>0, <1>2, <1>3, <1>6 DEF MetricType
<1>8. ASSUME NEW i \in 1..index' PROVE SampleOK(timeMetric'[i], requests', clock')
  <2>1. i \in 1..SampleSize /\ i \in 1..index
    BY <1>0, <1>2
  <2>2. SampleOK(timeMetric[i], requests, clock) /\ timeMetric[i] \in Sample
    BY Zenon, <1>2, <2>1 DEF MetricInv
  <2>3. n <= Len(requests') /\ Len(requests') \in Nat /\ clock <= clock /\ clock \in Nat
    BY <1>2, <1>3, <1>6
  <2> QED
    BY Zenon, <1>0, <1>3, <1>5, <2>2, <2>3, SampleKept
<1>9. ASSUME NEW q \in DOMAIN requests' PROVE RequestOK(q, requests', timeMetric', index', clock')
  <2>1. q \in 1..n /\ RequestOK(q, requests, timeMetric, index, clock)
    BY Zenon, <1>3, <1>6 DEF MetricInv
  <2>2. CASE q = r
    <3>1. requests'[q].pc = (IF Full THEN "shift" ELSE "fill") /\ requests'[q].i = 1 /\ requests'[q].start = requests[q].start
      BY Zenon, <1>5, <2>1, <2>2
    <3>2. 1 \in 1..SampleSize
      BY <1>2
    <3>3. requests'[q].pc # "sent" /\ (requests'[q].pc = "shift" => index = SampleSize)
      BY Zenon, <1>4, <3>1
    <3> QED
      BY Zenon, <1>0, <2>1, <3>1, <3>2, <3>3 DEF RequestOK
  <2>3. CASE q # r
    BY Zenon, <1>0, <1>5, <2>1, <2>3 DEF RequestOK
  <2> QED
    BY Zenon, <2>2, <2>3
<1>10. MutexOK(mutex', requests', index')
  <2>1. MutexOK(mutex, requests, index)
    BY Zenon DEF MetricInv
  <2>2. ASSUME NEW q \in DOMAIN requests' PROVE requests'[q].pc \in {"shift", "fill"} <=> mutex' = q
    <3>1. CASE q = r
      BY Zenon, <1>0, <1>5, <1>6, <3>1
    <3>2. CASE q # r
      <4>1. requests[q].pc \in {"shift", "fill"} <=> mutex = q
        BY Zenon, <1>3, <1>6, <2>1 DEF MutexOK
      <4>2. mutex # q
        BY <1>0, <1>3, <1>6
      <4> QED
        BY Zenon, <1>0, <1>5, <1>6, <3>2, <4>1, <4>2
    <3> QED
      BY Zenon, <3>1, <3>2
  <2>3. ASSUME index' = SampleSize, NEW q \in DOMAIN requests', requests'[q].pc = "sent" PROVE requests'[q].moved
    <3>1. q \in 1..n /\ Full
      BY Zenon, <1>0, <1>4, <1>6, <2>3
    <3>2. q # r
      BY Zenon, <1>5, <2>3, <3>1
    <3>3. requests[q].pc = "sent"
      BY Zenon, <1>5, <2>3, <3>1, <3>2
    <3> QED
      BY Zenon, <1>5, <3>1, <3>2, <3>3
  <2> QED
    BY Zenon, <2>2, <2>3 DEF MutexOK
<1> QED
  BY Zenon, <1>0, <1>7, <1>8, <1>9, <1>10 DEF MetricInv

-----------------------------------------------------------------------------
\* One request is replaced.
ReplacedBy(rs, rt, r, y) ==
    /\ rt \in Seq(Request) /\ Len(rt) = Len(rs) /\ DOMAIN rt = DOMAIN rs /\ DOMAIN rs = 1..Len(rs)
    /\ Len(rs) \in Nat /\ rt[r] = y /\ \A q \in DOMAIN rs : rs[q] \in Request /\ (q # r => rt[q] = rs[q])

\* The requests, one of which has changed.
LEMMA Replaced ==
    ASSUME NEW rs \in Seq(Request), NEW r \in DOMAIN rs, NEW y \in Request
    PROVE  ReplacedBy(rs, [rs EXCEPT ![r] = y], r, y)
<1> DEFINE rt == [rs EXCEPT ![r] = y]
<1>1. Len(rs) \in Nat /\ DOMAIN rs = 1..Len(rs) /\ rs \in [1..Len(rs) -> Request]
  OBVIOUS
<1>2. rt \in [1..Len(rs) -> Request] /\ rt[r] = y /\ \A q \in DOMAIN rs : rs[q] \in Request /\ (q # r => rt[q] = rs[q])
  BY Zenon, <1>1
<1> HIDE DEF rt
<1>3. rt \in Seq(Request) /\ Len(rt) = Len(rs) /\ DOMAIN rt = DOMAIN rs
  BY <1>1, <1>2
<1>4. ReplacedBy(rs, rt, r, y)
  BY Zenon, <1>1, <1>2, <1>3 DEF ReplacedBy
<1> QED
  BY Zenon, <1>4 DEF rt

\* The parts of MetricInv that a step of one request r under the mutex keeps, when
\* all it does to the other requests is nothing.
LEMMA MetricFacts ==
    ASSUME MetricInv
    PROVE  /\ clock \in Nat /\ clock > 0 /\ index \in 0..SampleSize /\ SampleSize \in Nat /\ SampleSize > 0
           /\ timeMetric \in [1..SampleSize -> Sample] /\ requests \in Seq(Request) /\ mutex \in 0..Len(requests)
           /\ MutexOK(mutex, requests, index) /\ echoed[1] = echoed[3]
<1>1. clock \in Nat \ {0} /\ SampleSize \in Nat \ {0}
  BY Zenon, MetricAssumption DEF MetricInv, MetricType
<1>2. clock \in Nat /\ clock > 0 /\ SampleSize \in Nat /\ SampleSize > 0
  BY <1>1
<1> QED
  BY Zenon, <1>2 DEF MetricInv, MetricType

\* A sample moves down one place, or the move is over.
LEMMA ShiftInv == ASSUME MetricInv, NEW r \in DOMAIN requests, Shift(r) PROVE MetricInv'
<1> DEFINE n == Len(requests)
           i == requests[r].i
<1>1. requests[r].pc = "shift" /\ UNCHANGED <<clock, index, mutex, echoed>>
  BY Zenon DEF Shift
<1>2. /\ clock \in Nat /\ index \in 0..SampleSize /\ SampleSize \in Nat /\ SampleSize > 0
      /\ timeMetric \in [1..SampleSize -> Sample] /\ requests \in Seq(Request) /\ mutex \in 0..Len(requests)
      /\ MutexOK(mutex, requests, index) /\ echoed[1] = echoed[3]
  BY Zenon, MetricFacts
<1>3. RequestOK(r, requests, timeMetric, index, clock)
  BY Zenon DEF MetricInv
<1>4. index = SampleSize /\ i \in 1..SampleSize
  BY Zenon, <1>1, <1>3 DEF RequestOK
<1>5. mutex = r /\ \A q \in DOMAIN requests : requests[q].pc = "sent" => requests[q].moved
  <2>1. mutex = r
    BY Zenon, <1>1, <1>2 DEF MutexOK
  <2>2. r # 0
    BY <1>2
  <2> QED
    BY Zenon, <1>2, <1>4, <2>1, <2>2 DEF MutexOK
<1>6. PICK w : w = requests[r] /\ w \in Request
  BY <1>2
<1>7. PICK y \in Request : /\ requests' = [requests EXCEPT ![r] = y] /\ y.moved = w.moved /\ y.start = w.start
                           /\ \/ y.pc = "fill" /\ timeMetric' = timeMetric
                              \/ /\ y.pc = "shift" /\ y.i = i + 1 /\ i < SampleSize
                                 /\ timeMetric' = [timeMetric EXCEPT ![i] = timeMetric[i + 1]]
  <2>1. CASE i = SampleSize
    <3>1. PICK y : y = [w EXCEPT !.pc = "fill"]
      BY Zenon
    <3>2. requests' = [requests EXCEPT ![r] = y] /\ timeMetric' = timeMetric
      BY Zenon, <1>6, <2>1, <3>1 DEF Shift
    <3>3. "fill" \in Pcs
      BY Zenon DEF Pcs
    <3>4. y \in Request /\ y.pc = "fill" /\ y.moved = w.moved /\ y.start = w.start
      BY ONLY <1>6, <3>1, <3>3, SetPc
    <3> QED
      BY Zenon, <3>2, <3>4
  <2>2. CASE i # SampleSize
    <3>1. PICK y : y = [w EXCEPT !.i = i + 1]
      BY Zenon
    <3>2. requests' = [requests EXCEPT ![r] = y] /\ timeMetric' = [timeMetric EXCEPT ![i] = timeMetric[i + 1]]
      BY Zenon, <1>6, <2>2, <3>1 DEF Shift
    <3>3. i + 1 \in Nat /\ i < SampleSize
      BY <1>2, <1>4, <2>2
    <3>4. PICK v \in Nat : v = i + 1
      BY Zenon, <3>3
    <3>5. y \in Request /\ y.i = v /\ y.pc = w.pc /\ y.moved = w.moved /\ y.start = w.start
      BY ONLY <1>6, <3>1, <3>4, SetI
    <3> QED
      BY Zenon, <1>1, <1>6, <3>2, <3>3, <3>4, <3>5
  <2> QED
    BY Zenon, <2>1, <2>2
<1>8. /\ requests' \in Seq(Request) /\ Len(requests') = n /\ DOMAIN requests' = DOMAIN requests
      /\ DOMAIN requests = 1..n /\ n \in Nat /\ requests'[r] = y
      /\ \A q \in DOMAIN requests : requests[q] \in Request /\ (q # r => requests'[q] = requests[q])
  <2>1. ReplacedBy(requests, requests', r, y)
    BY Zenon, <1>2, <1>7, Replaced
  <2> QED
    BY Zenon, <2>1 DEF ReplacedBy
<1> HIDE DEF i
<1>9. /\ timeMetric' \in [1..SampleSize -> Sample]
      /\ \A k \in 1..SampleSize : \E j \in 1..SampleSize : timeMetric'[k] = timeMetric[j]
  <2>1. CASE timeMetric' = timeMetric
    BY Zenon, <1>2, <2>1
  <2>2. CASE i < SampleSize /\ timeMetric' = [timeMetric EXCEPT ![i] = timeMetric[i + 1]]
    <3>1. i + 1 \in 1..SampleSize
      BY <1>2, <1>4, <2>2
    <3> QED
      BY Zenon, <1>2, <2>2, <3>1
  <2> QED
    BY Zenon, <1>7, <2>1, <2>2
<1>10. MetricType'
  BY Zenon, <1>1, <1>2, <1>8, <1>9, MetricAssumption DEF MetricType, MetricInv
<1>11. \A q \in 1..n : requests[q].moved => requests'[q].moved
  BY Zenon, <1>6, <1>7, <1>8
<1>12. ASSUME NEW k \in 1..index' PROVE SampleOK(timeMetric'[k], requests', clock')
  <2>1. PICK j \in 1..SampleSize : timeMetric'[k] = timeMetric[j]
    BY Zenon, <1>1, <1>4, <1>9
  <2>2. SampleOK(timeMetric[j], requests, clock) /\ timeMetric[j] \in Sample
    BY Zenon, <1>2, <1>4 DEF MetricInv
  <2>3. n <= Len(requests') /\ clock <= clock
    BY <1>2, <1>8
  <2>4. SampleOK(timeMetric[j], requests', clock)
    BY Zenon, <1>2, <1>8, <1>11, <2>2, <2>3, SampleKept
  <2> QED
    BY Zenon, <1>1, <2>1, <2>4
<1>13. ASSUME NEW q \in DOMAIN requests' PROVE RequestOK(q, requests', timeMetric', index', clock')
  <2>1. RequestOK(q, requests, timeMetric, index, clock)
    BY Zenon, <1>8 DEF MetricInv
  <2>2. CASE q = r
    <3>1. requests'[q].pc = "shift" => i + 1 \in 1..SampleSize /\ requests'[q].i = i + 1
      BY <1>2, <1>4, <1>7, <1>8, <2>2
    <3>2. requests'[q].pc # "sent" /\ requests'[q].start = requests[q].start
      BY Zenon, <1>6, <1>7, <1>8, <2>2
    <3> QED
      BY Zenon, <1>1, <1>4, <2>1, <3>1, <3>2 DEF RequestOK
  <2>3. CASE q # r
    BY Zenon, <1>1, <1>5, <1>8, <2>1, <2>3 DEF RequestOK
  <2> QED
    BY Zenon, <2>2, <2>3
<1>14. MutexOK(mutex', requests', index')
  <2>1. requests'[r].pc \in {"shift", "fill"}
    BY Zenon, <1>7, <1>8
  <2>2. \A q \in DOMAIN requests' : requests'[q].pc \in {"shift", "fill"} <=> mutex' = q
    BY Zenon, <1>1, <1>2, <1>5, <1>8, <2>1 DEF MutexOK
  <2>3. requests'[r].pc # "sent"
    BY Zenon, <1>7, <1>8
  <2>4. \A q \in DOMAIN requests' : requests'[q].pc = "sent" => requests'[q].moved
    BY Zenon, <1>5, <1>8, <2>3
  <2> QED
    BY Zenon, <2>2, <2>4 DEF MutexOK
<1> QED
  BY Zenon, <1>1, <1>2, <1>10, <1>12, <1>13, <1>14 DEF MetricInv

\* The new sample goes to the place the request will complete, above every sample
\* of a request that does not know the window to have moved.
LEMMA FillInv == ASSUME MetricInv, NEW r \in DOMAIN requests, Fill(r) PROVE MetricInv'
<1> DEFINE n == Len(requests)
<1>1. requests[r].pc = "fill" /\ mutex' = 0 /\ UNCHANGED <<clock, echoed>>
  BY Zenon DEF Fill
<1>2. /\ clock \in Nat /\ clock > 0 /\ index \in 0..SampleSize /\ SampleSize \in Nat /\ SampleSize > 0
      /\ timeMetric \in [1..SampleSize -> Sample] /\ requests \in Seq(Request) /\ mutex \in 0..Len(requests)
      /\ MutexOK(mutex, requests, index) /\ echoed[1] = echoed[3]
  BY Zenon, MetricFacts
<1>3. RequestOK(r, requests, timeMetric, index, clock)
  BY Zenon DEF MetricInv
<1>4. Full <=> index = SampleSize
  BY Zenon, FullWindow
<1>5. mutex = r /\ (index = SampleSize => \A q \in DOMAIN requests : requests[q].pc = "sent" => requests[q].moved)
  <2>1. mutex = r
    BY Zenon, <1>1, <1>2 DEF MutexOK
  <2>2. r # 0
    BY <1>2
  <2> QED
    BY Zenon, <1>2, <2>1, <2>2 DEF MutexOK
<1>6. PICK k \in 1..SampleSize : /\ index' = k /\ (k = index \/ k = index + 1) /\ (k = index => index = SampleSize)
                                 /\ k = (IF Full THEN SampleSize ELSE index + 1)
                                 /\ requests' = [requests EXCEPT ![r].pc = "sent", ![r].working = k]
  <2>1. PICK k : k = (IF index + 1 >= SampleSize THEN SampleSize - 1 ELSE index) + 1
    BY Zenon
  <2>2. index' = k /\ requests' = [requests EXCEPT ![r].pc = "sent", ![r].working = k]
    BY Zenon, <2>1 DEF Fill
  <2>3. /\ k \in 1..SampleSize /\ (k = index \/ k = index + 1) /\ (k = index => index = SampleSize)
        /\ k = (IF Full THEN SampleSize ELSE index + 1)
    BY <1>2, <1>4, <2>1
  <2> QED
    BY Zenon, <2>2, <2>3
<1>7. PICK w : w = requests[r] /\ w \in Request
  BY <1>2
<1>8. PICK x \in Sample : /\ x.start = w.start /\ x.end = 0 /\ x.of = r /\ x.by = 0
                          /\ timeMetric' = [timeMetric EXCEPT ![k] = x]
  <2>1. PICK x : x = [start |-> w.start, end |-> 0, of |-> r, by |-> 0]
    BY Zenon
  <2>2. timeMetric' = [timeMetric EXCEPT ![k] = x]
    BY Zenon, <1>6, <1>7, <2>1 DEF Fill
  <2>3. w.start \in Nat /\ r \in Nat
    BY SMTT(20), <1>2, <1>7 DEF Request
  <2>4. x \in Sample /\ x.start = w.start /\ x.end = 0 /\ x.of = r /\ x.by = 0
    BY ONLY <2>1, <2>3 DEF Sample
  <2> QED
    BY Zenon, <2>2, <2>4
<1>9. PICK y \in Request : /\ requests' = [requests EXCEPT ![r] = y] /\ y.moved = w.moved /\ y.start = w.start
                           /\ y.pc = "sent" /\ y.working = k
  <2>1. PICK z : z = [w EXCEPT !.pc = "sent"]
    BY Zenon
  <2>2. PICK y : y = [z EXCEPT !.working = k]
    BY Zenon
  <2>3. "sent" \in Pcs /\ k \in Nat
    <3>1. k \in Nat
      BY <1>2
    <3> QED
      BY Zenon, <3>1 DEF Pcs
  <2>4. z \in Request /\ z.pc = "sent" /\ z.moved = w.moved /\ z.start = w.start
    BY ONLY <1>7, <2>1, <2>3, SetPc
  <2>5. y \in Request /\ y.working = k /\ y.pc = z.pc /\ y.moved = z.moved /\ y.start = z.start
    BY ONLY <2>2, <2>3, <2>4, SetWorking
  <2>6. requests' = [requests EXCEPT ![r] = y]
    BY Zenon, <1>6, <1>7, <2>1, <2>2
  <2> QED
    BY Zenon, <2>4, <2>5, <2>6
<1>10. /\ requests' \in Seq(Request) /\ Len(requests') = n /\ DOMAIN requests' = DOMAIN requests
       /\ DOMAIN requests = 1..n /\ n \in Nat /\ requests'[r] = y
       /\ \A q \in DOMAIN requests : requests[q] \in Request /\ (q # r => requests'[q] = requests[q])
  <2>1. ReplacedBy(requests, requests', r, y)
    BY Zenon, <1>2, <1>9, Replaced
  <2> QED
    BY Zenon, <2>1 DEF ReplacedBy
<1>11. timeMetric' \in [1..SampleSize -> Sample] /\ timeMetric'[k] = x /\ \A j \in 1..SampleSize : j # k => timeMetric'[j] = timeMetric[j]
  BY Zenon, <1>2, <1>8
<1>12. MetricType'
  <2>1. k \in 0..SampleSize /\ 0 \in 0..Len(requests') /\ clock \in Nat \ {0}
    BY <1>2, <1>10
  <2> QED
    BY Zenon, <1>1, <1>6, <1>10, <1>11, <2>1 DEF MetricType
<1>13. \A q \in 1..n : requests[q].moved => requests'[q].moved
  BY Zenon, <1>7, <1>9, <1>10
<1>14. w.start > 0 /\ w.start <= clock
  BY Zenon, <1>3, <1>7 DEF RequestOK
<1>15. ASSUME NEW j \in 1..index' PROVE SampleOK(timeMetric'[j], requests', clock')
  <2>1. CASE j = k
    <3>1. 0 \in 0..Len(requests')
      BY <1>10
    <3> QED
      BY Zenon, <1>1, <1>8, <1>11, <1>14, <2>1, <3>1 DEF SampleOK
  <2>2. CASE j # k
    <3>1. j \in 1..index /\ j \in 1..SampleSize
      BY <1>2, <1>6, <2>2
    <3>2. SampleOK(timeMetric[j], requests, clock) /\ timeMetric[j] \in Sample
      BY Zenon, <1>2, <3>1 DEF MetricInv
    <3>3. n <= Len(requests') /\ clock <= clock
      BY <1>2, <1>10
    <3>4. SampleOK(timeMetric[j], requests', clock)
      BY Zenon, <1>2, <1>10, <1>13, <3>2, <3>3, SampleKept
    <3> QED
      BY Zenon, <1>1, <1>11, <2>2, <3>1, <3>4
  <2> QED
    BY Zenon, <2>1, <2>2
<1>16. ASSUME NEW q \in DOMAIN requests' PROVE RequestOK(q, requests', timeMetric', index', clock')
  <2>1. RequestOK(q, requests, timeMetric, index, clock)
    BY Zenon, <1>10 DEF MetricInv
  <2>2. CASE q = r
    <3>1. k \in 1..k
      BY <1>2
    <3>2. /\ requests'[q].pc = "sent" /\ requests'[q].start = w.start /\ requests'[q].working = k
          /\ timeMetric'[k].of = q
      BY Zenon, <1>8, <1>9, <1>10, <1>11, <2>2
    <3> QED
      BY Zenon, <1>1, <1>6, <1>14, <3>1, <3>2 DEF RequestOK
  <2>3. CASE q # r
    <3>1. requests'[q] = requests[q] /\ requests[q] \in Request /\ requests[q].pc # "shift"
      BY Zenon, <1>2, <1>5, <1>10, <2>3 DEF MutexOK
    <3>2. PICK at : at = requests[q].working
      BY Zenon
    <3>3. ASSUME requests[q].pc = "sent" PROVE at \in 1..k /\ (~requests[q].moved => timeMetric'[at].of = q)
      <4>1. at \in 1..index /\ (~requests[q].moved => timeMetric[at].of = q)
        BY Zenon, <2>1, <3>2, <3>3 DEF RequestOK
      <4>2. at \in 1..k /\ at \in 1..SampleSize
        BY <1>2, <1>6, <4>1
      <4>3. ~requests[q].moved => index # SampleSize
        BY Zenon, <1>5, <1>10, <3>3
      <4>4. ~requests[q].moved => at # k
        BY <1>2, <1>6, <4>1, <4>3
      <4> QED
        BY Zenon, <1>11, <4>1, <4>2, <4>4
    <3> QED
      BY Zenon, <1>1, <1>6, <2>1, <3>1, <3>2, <3>3 DEF RequestOK
  <2> QED
    BY Zenon, <2>2, <2>3
<1>17. MutexOK(mutex', requests', index')
  <2>1. \A q \in DOMAIN requests' : requests'[q].pc \notin {"shift", "fill"}
    BY Zenon, <1>2, <1>5, <1>9, <1>10 DEF MutexOK
  <2>2. \A q \in DOMAIN requests' : q # 0
    BY <1>10
  <2> QED
    BY Zenon, <1>1, <2>1, <2>2 DEF MutexOK
<1> QED
  BY Zenon, <1>1, <1>2, <1>12, <1>15, <1>16, <1>17 DEF MetricInv

\* An answer ends the sample its request knows, and the sample is its own unless
\* the request knows the window to have moved.
LEMMA AnswerInv == ASSUME MetricInv, NEW r \in DOMAIN requests, Answer(r) PROVE MetricInv'
<1> DEFINE n == Len(requests)
<1>1. requests[r].pc = "sent" /\ UNCHANGED <<clock, index, mutex, echoed>>
  BY Zenon DEF Answer
<1>2. /\ clock \in Nat /\ clock > 0 /\ index \in 0..SampleSize /\ SampleSize \in Nat /\ SampleSize > 0
      /\ timeMetric \in [1..SampleSize -> Sample] /\ requests \in Seq(Request) /\ mutex \in 0..Len(requests)
      /\ MutexOK(mutex, requests, index) /\ echoed[1] = echoed[3]
  BY Zenon, MetricFacts
<1>3. PICK w : w = requests[r] /\ w \in Request
  BY <1>2
<1>4. PICK at : at = w.working
  BY Zenon
<1>5. at \in 1..index /\ (~w.moved => timeMetric[at].of = r) /\ RequestOK(r, requests, timeMetric, index, clock)
  BY Zenon, <1>1, <1>3, <1>4 DEF RequestOK, MetricInv
<1>6. at \in 1..SampleSize
  BY <1>2, <1>5
<1>7. PICK s \in Sample : s = timeMetric[at] /\ SampleOK(s, requests, clock)
  BY Zenon, <1>2, <1>5, <1>6 DEF MetricInv
<1>8. PICK y \in Request : requests' = [requests EXCEPT ![r] = y] /\ y.moved = w.moved /\ y.start = w.start /\ y.pc = "done"
  <2>1. PICK y : y = [w EXCEPT !.pc = "done"]
    BY Zenon
  <2>2. "done" \in Pcs
    BY Zenon DEF Pcs
  <2>3. y \in Request /\ y.pc = "done" /\ y.moved = w.moved /\ y.start = w.start
    BY ONLY <1>3, <2>1, <2>2, SetPc
  <2>4. requests' = [requests EXCEPT ![r] = y]
    BY Zenon, <1>3, <2>1 DEF Answer
  <2> QED
    BY Zenon, <2>3, <2>4
<1>9. /\ requests' \in Seq(Request) /\ Len(requests') = n /\ DOMAIN requests' = DOMAIN requests
      /\ DOMAIN requests = 1..n /\ n \in Nat /\ requests'[r] = y
      /\ \A q \in DOMAIN requests : requests[q] \in Request /\ (q # r => requests'[q] = requests[q])
  <2>1. ReplacedBy(requests, requests', r, y)
    BY Zenon, <1>2, <1>8, Replaced
  <2> QED
    BY Zenon, <2>1 DEF ReplacedBy
<1>10. PICK x \in Sample : /\ timeMetric' = [timeMetric EXCEPT ![at] = x] /\ x.of = s.of /\ x.start = s.start
                           /\ \/ x = s
                              \/ x.end = clock /\ x.by = r
  <2>1. CASE timeMetric' = timeMetric
    <3>1. timeMetric' = [timeMetric EXCEPT ![at] = s]
      BY Zenon, <1>2, <1>7, <2>1
    <3> QED
      BY Zenon, <3>1
  <2>2. CASE timeMetric' = [timeMetric EXCEPT ![at].end = clock, ![at].by = r]
    <3>1. PICK z : z = [s EXCEPT !.end = clock]
      BY Zenon
    <3>2. PICK x : x = [z EXCEPT !.by = r]
      BY Zenon
    <3>3. r \in Nat
      BY <1>9
    <3>4. z \in Sample /\ z.end = clock /\ z.of = s.of /\ z.start = s.start
      BY ONLY <1>2, <1>7, <3>1, SetEnd
    <3>5. x \in Sample /\ x.by = r /\ x.of = z.of /\ x.start = z.start /\ x.end = z.end
      BY ONLY <3>2, <3>3, <3>4, SetBy
    <3>6. timeMetric' = [timeMetric EXCEPT ![at] = x]
      BY Zenon, <1>7, <2>2, <3>1, <3>2
    <3> QED
      BY Zenon, <3>4, <3>5, <3>6
  <2> QED
    BY Zenon, <1>3, <1>4, <2>1, <2>2 DEF Answer
<1>11. /\ timeMetric' \in [1..SampleSize -> Sample] /\ timeMetric'[at] = x
       /\ \A j \in 1..SampleSize : j # at => timeMetric'[j] = timeMetric[j]
  BY Zenon, <1>2, <1>6, <1>10
<1>12. \A j \in 1..SampleSize : timeMetric'[j].of = timeMetric[j].of
  BY Zenon, <1>7, <1>10, <1>11
<1>13. MetricType'
  BY Zenon, <1>1, <1>2, <1>9, <1>11 DEF MetricType, MetricInv
<1>14. \A q \in 1..n : requests[q].moved => requests'[q].moved
  BY Zenon, <1>3, <1>8, <1>9
<1>15. n <= Len(requests') /\ clock <= clock
  BY <1>2, <1>9
<1>16. ASSUME NEW j \in 1..index' PROVE SampleOK(timeMetric'[j], requests', clock')
  <2>1. j \in 1..index /\ j \in 1..SampleSize
    BY <1>1, <1>2
  <2>2. SampleOK(timeMetric[j], requests, clock) /\ timeMetric[j] \in Sample
    BY Zenon, <1>2, <2>1 DEF MetricInv
  <2>3. SampleOK(timeMetric[j], requests', clock)
    BY Zenon, <1>2, <1>9, <1>14, <1>15, <2>2, SampleKept
  <2>4. CASE j # at \/ x = s
    <3>1. timeMetric'[j] = timeMetric[j]
      BY Zenon, <1>7, <1>11, <2>1, <2>4
    <3> QED
      BY Zenon, <1>1, <2>3, <3>1
  <2>5. CASE j = at /\ x.end = clock /\ x.by = r
    <3>1. s.start > 0 /\ s.start <= clock /\ s.start \in Nat
      BY <1>7 DEF SampleOK, Sample
    <3>2. x.start > 0 /\ x.start <= clock /\ x.end >= x.start
      BY SMTT(20), <1>2, <1>10, <2>5, <3>1
    <3>3. x.by \in 0..Len(requests')
      BY <1>9, <2>5
    <3>4. x.by # x.of => requests'[x.by].moved
      BY Zenon, <1>5, <1>7, <1>8, <1>9, <1>10, <2>5
    <3> QED
      BY Zenon, <1>1, <1>11, <2>5, <3>2, <3>3, <3>4 DEF SampleOK
  <2> QED
    BY Zenon, <1>10, <2>4, <2>5
<1>17. ASSUME NEW q \in DOMAIN requests' PROVE RequestOK(q, requests', timeMetric', index', clock')
  <2>1. RequestOK(q, requests, timeMetric, index, clock)
    BY Zenon, <1>9 DEF MetricInv
  <2>2. CASE q = r
    <3>1. requests'[q].pc = "done" /\ requests'[q].start = requests[q].start
      BY Zenon, <1>3, <1>8, <1>9, <2>2
    <3> QED
      BY Zenon, <1>1, <2>1, <3>1 DEF RequestOK
  <2>3. CASE q # r
    <3>1. requests'[q] = requests[q]
      BY Zenon, <1>9, <2>3
    <3>2. requests[q].working \in 1..index => requests[q].working \in 1..SampleSize
      BY <1>2
    <3> QED
      BY Zenon, <1>1, <1>12, <2>1, <3>1, <3>2 DEF RequestOK
  <2> QED
    BY Zenon, <2>2, <2>3
<1>18. MutexOK(mutex', requests', index')
  <2>1. \A q \in DOMAIN requests' : requests'[q].pc \in {"shift", "fill"} <=> requests[q].pc \in {"shift", "fill"}
    BY Zenon, <1>1, <1>8, <1>9
  <2>2. \A q \in DOMAIN requests' : requests'[q].pc = "sent" => requests[q].pc = "sent" /\ requests'[q] = requests[q]
    BY Zenon, <1>8, <1>9
  <2> QED
    BY Zenon, <1>1, <1>2, <1>9, <2>1, <2>2 DEF MutexOK
<1> QED
  BY Zenon, <1>1, <1>2, <1>13, <1>16, <1>17, <1>18 DEF MetricInv

\* Time passes.
LEMMA PassInv == ASSUME MetricInv, Pass PROVE MetricInv'
<1>1. clock' = clock + 1 /\ UNCHANGED <<index, timeMetric, requests, mutex, echoed>>
  BY Zenon DEF Pass, window
<1>2. /\ clock \in Nat /\ clock > 0 /\ index \in 0..SampleSize /\ SampleSize \in Nat /\ SampleSize > 0
      /\ timeMetric \in [1..SampleSize -> Sample] /\ requests \in Seq(Request) /\ mutex \in 0..Len(requests)
      /\ MutexOK(mutex, requests, index) /\ echoed[1] = echoed[3]
  BY Zenon, MetricFacts
<1>3. /\ clock' \in Nat \ {0} /\ clock' \in Nat /\ clock <= clock' /\ Len(requests) \in Nat /\ Len(requests) <= Len(requests)
      /\ \A q \in DOMAIN requests : requests[q] \in Request
  BY <1>1, <1>2
<1>4. MetricType'
  BY Zenon, <1>1, <1>2, <1>3 DEF MetricType
<1>5. ASSUME NEW j \in 1..index PROVE SampleOK(timeMetric[j], requests, clock')
  <2>1. j \in 1..SampleSize
    BY <1>2
  <2>2. SampleOK(timeMetric[j], requests, clock) /\ timeMetric[j] \in Sample
    BY Zenon, <1>2, <2>1 DEF MetricInv
  <2> QED
    BY Zenon, <1>2, <1>3, <2>2, SampleKept
<1>6. ASSUME NEW q \in DOMAIN requests PROVE RequestOK(q, requests, timeMetric, index, clock')
  <2>1. RequestOK(q, requests, timeMetric, index, clock)
    BY Zenon DEF MetricInv
  <2>2. requests[q].start \in Nat
    BY <1>3 DEF Request
  <2>3. requests[q].start <= clock => requests[q].start <= clock'
    BY <1>2, <1>3, <2>2
  <2> QED
    BY Zenon, <2>1, <2>3 DEF RequestOK
<1> QED
  BY Zenon, <1>1, <1>2, <1>4, <1>5, <1>6 DEF MetricInv

\* Every step keeps the invariant.
LEMMA MetricNextInv == MetricInv /\ [MetricNext]_metricVars => MetricInv'
<1> SUFFICES ASSUME MetricInv, [MetricNext]_metricVars PROVE MetricInv'
  OBVIOUS
<1>1. CASE PeerConnect
  BY Zenon, <1>1, PeerConnectInv
<1>2. CASE StopTicker \/ UNCHANGED metricVars
  <2>1. UNCHANGED <<clock, timeMetric, index, mutex, requests, echoed>>
    BY Zenon, <1>2 DEF StopTicker, window, metricVars
  <2> QED
    BY Zenon, <2>1 DEF MetricInv, MetricType
<1>3. CASE Pass
  BY Zenon, <1>3, PassInv
<1>4. CASE \E r \in DOMAIN requests : LockSamples(r) \/ Shift(r) \/ Fill(r) \/ Answer(r)
  BY Zenon, <1>4, LockSamplesInv, ShiftInv, FillInv, AnswerInv
<1> QED
  BY Zenon, <1>1, <1>2, <1>3, <1>4 DEF MetricNext

\* For every window size and any number of overlapping requests (sendMetricRequest
\* and echoMetricValues): every sample below index has been started and ends no
\* earlier, an answer's time stands in its own request's sample unless that request
\* was under way when the window moved, and the expectation that is computed from
\* the shares of the distances is their average.
THEOREM WindowSound == MetricSpec => []SamplesSound
<1>1. MetricInit => MetricInv
  BY Zenon, MetricInitInv
<1>2. MetricInv => SamplesSound
  BY Zenon DEF MetricInv, MetricType, SampleOK, SamplesSound
<1> QED
  BY <1>1, <1>2, MetricNextInv, PTL DEF MetricSpec
=============================================================================
