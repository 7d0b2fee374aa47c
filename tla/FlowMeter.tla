----------------------------- MODULE FlowMeter -----------------------------
(***************************************************************************)
(* metric/go-flow-metrics: meters counted by any number of goroutines with *)
(* atomic adds, and the single sweeper goroutine that turns the            *)
(* accumulators into snapshots and forgets meters that went idle.          *)
(*                                                                         *)
(* Every atomic operation of the code is one action here, so the marks of  *)
(* other goroutines fall between the sweeper's load, swap, add-back and    *)
(* subtraction exactly as they can in the program.                         *)
(*                                                                         *)
(* Abstractions.  The slice sw.meters and the channel registerChannel are  *)
(* kept as multiplicities (how often a meter is in them); their order      *)
(* plays no part in what happens to one meter.  snapshot.Rate is kept as   *)
(* live: whether it exceeds IdleRate.  A mark since the last visit always  *)
(* lifts the rate above IdleRate; without one it decays and at some visit  *)
(* falls below.  The uint64 counters are naturals: TypeOK shows that no    *)
(* subtraction ever goes below zero.                                       *)
(***************************************************************************)
EXTENDS Integers, Functions

CONSTANTS
    Meters,     \* the meters of the process
    Markers,    \* goroutines that call Mark
    None,       \* no meter
    ChanCap,    \* capacity of registerChannel, 16 in the code
    Counts,     \* the amounts a goroutine marks
    MaxMarked   \* bound: no meter is marked beyond this total

ASSUME FlowAssumption ==
    /\ None \notin Meters
    /\ ChanCap \in Nat \ {0}
    /\ Counts \subseteq Nat
    /\ MaxMarked \in Nat

VARIABLES
    acc,        \* Meter.accumulator
    total,      \* Meter.snapshot.Total
    live,       \* Meter.snapshot.Rate > IdleRate
    meters,     \* sweeper.meters, as multiplicities
    queued,     \* registerChannel, as multiplicities
    pending,    \* the meter a goroutine is about to send to registerChannel
    pc,         \* where the sweeper goroutine is
    todo,       \* meters the update loop has not visited yet
    cur,        \* the meter the update loop is retiring
    swapped,    \* swappedTotal of update
    marked      \* history: everything ever marked on a meter

vars == <<acc, total, live, meters, queued, pending, pc, todo, cur, swapped, marked>>

\* The type invariant; the counters never go below zero.
TypeOK ==
    /\ acc \in [Meters -> Nat]
    /\ total \in [Meters -> Nat]
    /\ live \in [Meters -> BOOLEAN]
    /\ meters \in [Meters -> Nat]
    /\ queued \in [Meters -> Nat]
    /\ pending \in [Markers -> Meters \cup {None}]
    /\ pc \in {"recv", "select", "sweep", "swap", "addback", "subtract"}
    /\ todo \in [Meters -> Nat]
    /\ cur \in Meters \cup {None}
    /\ swapped \in Nat
    /\ marked \in [Meters -> Nat]

Init ==
    /\ acc = [m \in Meters |-> 0]
    /\ total = [m \in Meters |-> 0]
    /\ live = [m \in Meters |-> FALSE]
    /\ meters = [m \in Meters |-> 0]
    /\ queued = [m \in Meters |-> 0]
    /\ pending = [t \in Markers |-> None]
    /\ pc = "recv"
    /\ todo = [m \in Meters |-> 0]
    /\ cur = None
    /\ swapped = 0
    /\ marked = [m \in Meters |-> 0]
-----------------------------------------------------------------------------
(* The goroutines that count. *)

\* Mutant: every mark registers the meter, not only the first above zero.
MarkAlwaysRegisters(t, m, n) ==
    /\ pending[t] = None
    /\ n > 0
    /\ marked[m] + n <= MaxMarked
    /\ acc' = [acc EXCEPT ![m] = @ + n]
    /\ pending' = [pending EXCEPT ![t] = m]
    /\ marked' = [marked EXCEPT ![m] = @ + n]
    /\ UNCHANGED <<total, live, meters, queued, pc, todo, cur, swapped>>

\* Mark: the goroutine whose add lifts the accumulator from zero registers it.
Mark(t, m, n) ==
    /\ pending[t] = None
    /\ n > 0
    /\ marked[m] + n <= MaxMarked
    /\ acc' = [acc EXCEPT ![m] = @ + n]
    /\ pending' = [pending EXCEPT ![t] = IF acc[m] + n = n THEN m ELSE None]
    /\ marked' = [marked EXCEPT ![m] = @ + n]
    /\ UNCHANGED <<total, live, meters, queued, pc, todo, cur, swapped>>

\* The number of meters in registerChannel.
ChannelLen == FoldFunction(+, 0, queued)

\* sweeper.Register: a send on a channel of ChanCap entries, which blocks when
\* it is full.  The sync.Once has started the sweeper by then.
Register(t) ==
    /\ pending[t] # None
    /\ ChannelLen < ChanCap
    /\ queued' = [queued EXCEPT ![pending[t]] = @ + 1]
    /\ pending' = [pending EXCEPT ![t] = None]
    /\ UNCHANGED <<acc, total, live, meters, pc, todo, cur, swapped, marked>>
-----------------------------------------------------------------------------
(* The sweeper goroutine. *)

\* run and runActive receive from the channel in the same way; register adds
\* back the total that retiring the meter left in its snapshot.
register(m) ==
    /\ pc \in {"recv", "select"}
    /\ queued[m] > 0
    /\ queued' = [queued EXCEPT ![m] = @ - 1]
    /\ acc' = [acc EXCEPT ![m] = @ + total[m]]
    /\ meters' = [meters EXCEPT ![m] = @ + 1]
    /\ pc' = "select"
    /\ UNCHANGED <<total, live, pending, todo, cur, swapped, marked>>

\* The ticker fires: update starts a pass over sw.meters.
Tick ==
    /\ pc = "select"
    /\ todo' = meters
    /\ pc' = "sweep"
    /\ UNCHANGED <<acc, total, live, meters, queued, pending, cur, swapped, marked>>

\* update, one meter: load the accumulator, move rate and total of the
\* snapshot, and either go on or start retiring the meter.
Visit(m) ==
    /\ pc = "sweep"
    /\ todo[m] > 0
    /\ total' = [total EXCEPT ![m] = acc[m]]
    /\ \E stillLive \in BOOLEAN :
         /\ acc[m] > total[m] => stillLive
         /\ acc[m] = total[m] /\ ~live[m] => ~stillLive
         /\ live' = [live EXCEPT ![m] = stillLive]
         /\ IF stillLive
            THEN /\ todo' = [todo EXCEPT ![m] = @ - 1]
                 /\ UNCHANGED <<pc, cur>>
            ELSE /\ pc' = "swap"
                 /\ cur' = m
                 /\ UNCHANGED todo
    /\ UNCHANGED <<acc, meters, queued, pending, swapped, marked>>

\* The tail of update: reset the rate, take the meter out of sw.meters and
\* look at the same index again.
Retire ==
    /\ live' = [live EXCEPT ![cur] = FALSE]
    /\ meters' = [meters EXCEPT ![cur] = @ - 1]
    /\ todo' = [todo EXCEPT ![cur] = @ - 1]
    /\ cur' = None
    /\ pc' = "sweep"

\* update swaps the accumulator with zero and finds out whether somebody has
\* marked since the load.
Swap ==
    /\ pc = "swap"
    /\ acc' = [acc EXCEPT ![cur] = 0]
    /\ swapped' = acc[cur]
    /\ IF acc[cur] > total[cur]
       THEN pc' = "addback" /\ UNCHANGED <<live, meters, todo, cur>>
       ELSE Retire
    /\ UNCHANGED <<total, queued, pending, marked>>

\* Mutant: nobody asks whether the zero was noticed.
AddBackBlind ==
    /\ pc = "addback"
    /\ acc' = [acc EXCEPT ![cur] = @ + swapped]
    /\ todo' = [todo EXCEPT ![cur] = @ - 1]
    /\ cur' = None
    /\ pc' = "sweep"
    /\ UNCHANGED <<total, live, meters, queued, pending, swapped, marked>>

\* Not idle: put the amount back.  If the result is what was put back, nobody
\* saw the zero and the meter stays registered.
AddBack ==
    /\ pc = "addback"
    /\ acc' = [acc EXCEPT ![cur] = @ + swapped]
    /\ IF acc[cur] + swapped = swapped
       THEN /\ todo' = [todo EXCEPT ![cur] = @ - 1]
            /\ cur' = None
            /\ pc' = "sweep"
       ELSE pc' = "subtract" /\ UNCHANGED <<todo, cur>>
    /\ UNCHANGED <<total, live, meters, queued, pending, swapped, marked>>

\* Mutant: the snapshot total is not taken out.
SubtractNothing ==
    /\ pc = "subtract"
    /\ Retire
    /\ UNCHANGED <<acc, total, queued, pending, swapped, marked>>

\* Somebody saw the zero and registers the meter: take the snapshot total out
\* again, register will add it back.
Subtract ==
    /\ pc = "subtract"
    /\ acc' = [acc EXCEPT ![cur] = @ - total[cur]]
    /\ Retire
    /\ UNCHANGED <<total, queued, pending, swapped, marked>>

\* The pass is over; without meters runActive returns to run.
EndSweep ==
    /\ pc = "sweep"
    /\ \A m \in Meters : todo[m] = 0
    /\ pc' = IF \A m \in Meters : meters[m] = 0 THEN "recv" ELSE "select"
    /\ UNCHANGED <<acc, total, live, meters, queued, pending, todo, cur, swapped, marked>>
-----------------------------------------------------------------------------
Sweeper ==
    \/ \E m \in Meters : register(m) \/ Visit(m)
    \/ Tick
    \/ Swap
    \/ AddBack
    \/ Subtract
    \/ EndSweep

Next ==
    \/ \E t \in Markers, m \in Meters, n \in Counts : Mark(t, m, n)
    \/ \E t \in Markers : Register(t)
    \/ Sweeper

\* The sweeper and the senders are goroutines the runtime keeps scheduling;
\* receiving is fair per meter because the channel is FIFO, and the select of
\* runActive takes either ready case sooner or later.  Nobody has to call Mark.
Fairness ==
    /\ \A m \in Meters : SF_vars(register(m)) /\ WF_vars(Visit(m))
    /\ WF_vars(Tick) /\ WF_vars(Swap) /\ WF_vars(AddBack)
    /\ WF_vars(Subtract) /\ WF_vars(EndSweep)
    /\ \A t \in Markers : SF_vars(Register(t))

Spec == Init /\ [][Next]_vars

FairSpec == Spec /\ Fairness
-----------------------------------------------------------------------------
(* Properties. *)

Waiting(m) == queued[m] > 0 \/ \E t \in Markers : pending[t] = m

\* Everything marked on a meter is accounted for once: in the accumulator, in
\* the snapshot of a retired meter, or in the hands of the sweeper between its
\* swap and its add-back.  Lost or doubled counts would show here.
Conservation ==
    \A m \in Meters :
        marked[m] = acc[m] + (IF meters[m] = 0 THEN total[m] ELSE 0)
                           + (IF pc = "addback" /\ cur = m THEN swapped ELSE 0)

\* A meter with counts the sweeper has not seen is never forgotten, and is
\* swept or registered by one party only: while a registration of it is on
\* its way, it is in sw.meters only in the window where update is retiring it.
RegisteredOnce ==
    \A m \in Meters :
        /\ meters[m] <= 1 /\ queued[m] <= 1
        /\ acc[m] > 0 => meters[m] = 1 \/ Waiting(m)
        /\ Waiting(m) /\ meters[m] = 1 => cur = m /\ pc \in {"addback", "subtract"}

\* What Snapshot reports never goes down and never exceeds what was marked,
\* whatever the sweeper swaps, retires and registers in between.
SnapshotMonotone ==
    [][\A m \in Meters : total'[m] >= total[m] /\ total'[m] <= marked'[m]]_vars

\* Every mark reaches the snapshot: no interleaving of Mark with the idle test
\* leaves a count behind in an accumulator nobody sweeps.
EveryMarkSnapshotted ==
    \A m \in Meters, x \in 1..MaxMarked : marked[m] >= x ~> total[m] >= x
=============================================================================
