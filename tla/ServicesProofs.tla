--------------------------- MODULE ServicesProofs ---------------------------
(***************************************************************************)
(* What runs in a process beside the connections: the sweeper of the flow  *)
(* meters, and the components that a network starts.                       *)
(*                                                                         *)
(* FlowMeter, for any set of meters and goroutines and any amounts: the    *)
(* counters stay naturals, nothing marked is lost or counted twice, and a  *)
(* meter is registered once.                                               *)
(*                                                                         *)
(* Lifecycle, for any types, priorities and number of calls of the         *)
(* builder: the components are started once each and in order.  The        *)
(* invariant has two halves, the list of the builder, which Build sorts,   *)
(* and the loop of Listen over it.  That the sort finds an element for     *)
(* every position is the pigeonhole principle: no two components have as   *)
(* many lower ones, so every number below the length is taken.             *)
(***************************************************************************)
EXTENDS FlowMeter, Lifecycle, FiniteSetTheorems, TLAPS

-----------------------------------------------------------------------------
(* The flow meters. *)

\* At most one registration of m is under way.
OneRegistration(m) ==
    /\ queued[m] <= 1
    /\ queued[m] = 1 => \A t \in Markers : pending[t] # m
    /\ \A t, u \in Markers : pending[t] = m /\ pending[u] = m => t = u

\* update is between its load and the end of its decision on m.
Retiring(m) == cur = m /\ pc \in {"swap", "addback", "subtract"}

\* The state of one meter.  It is swept, retired, or in one of the two windows
\* that open when update swaps the accumulator of a meter somebody marks.
MeterInv(m) ==
    /\ OneRegistration(m)
    /\ meters[m] <= 1
    /\ todo[m] <= meters[m]
    /\ Retiring(m) => todo[m] = 1
    /\ meters[m] = 0 =>
         /\ marked[m] = acc[m] + total[m]
         /\ acc[m] > 0 <=> Waiting(m)
    /\ meters[m] = 1 /\ ~(cur = m /\ pc \in {"addback", "subtract"}) =>
         /\ marked[m] = acc[m]
         /\ acc[m] > 0
         /\ total[m] <= acc[m]
         /\ ~Waiting(m)
    /\ cur = m /\ pc = "addback" =>
         /\ swapped > total[m]
         /\ marked[m] = acc[m] + swapped
         /\ acc[m] > 0 <=> Waiting(m)
    /\ cur = m /\ pc = "subtract" =>
         /\ marked[m] = acc[m]
         /\ acc[m] > total[m]
         /\ Waiting(m)

IInv ==
    /\ TypeOK
    /\ pc \in {"swap", "addback", "subtract"} => cur \in Meters
    /\ \A m \in Meters : MeterInv(m)

-----------------------------------------------------------------------------
\* Init satisfies the inductive invariant: no meter is registered or counted.
LEMMA InitIInv == Init => IInv
BY FlowAssumption DEF Init, IInv, TypeOK, MeterInv, OneRegistration, Retiring, Waiting

\* Mark by t on m: it registers m exactly when the accumulator was zero, which
\* is when nobody else sweeps or registers m.
LEMMA MarkIInv ==
    ASSUME IInv, NEW t \in Markers, NEW m \in Meters, NEW n \in Counts, Mark(t, m, n)
    PROVE  IInv'
<1> USE FlowAssumption DEF IInv
<1>1. n \in Nat /\ n > 0
  BY Zenon DEF Mark
<1>2. TypeOK'
  BY <1>1 DEF TypeOK, Mark
<1>3. ASSUME NEW x \in Meters PROVE MeterInv(x)'
  <2>1. MeterInv(x) /\ TypeOK
    BY Zenon DEF IInv
  <2>2. CASE x = m
    BY <1>1, <2>1, <2>2 DEF TypeOK, Mark, MeterInv, OneRegistration, Retiring, Waiting
  <2>3. CASE x # m
    BY <1>1, <2>1, <2>3 DEF TypeOK, Mark, MeterInv, OneRegistration, Retiring, Waiting
  <2> QED BY Zenon, <2>2, <2>3
<1> QED BY Zenon, <1>2, <1>3 DEF Mark

\* The send on registerChannel moves a registration from the goroutine to the
\* channel.
LEMMA RegisterIInv ==
    ASSUME IInv, NEW t \in Markers, Register(t)
    PROVE  IInv'
<1> USE FlowAssumption DEF IInv
<1>1. TypeOK'
  BY DEF TypeOK, Register
<1>2. ASSUME NEW x \in Meters PROVE MeterInv(x)'
  <2>1. MeterInv(x) /\ TypeOK
    BY Zenon DEF IInv
  <2>2. CASE x = pending[t]
    BY <2>1, <2>2 DEF TypeOK, Register, MeterInv, OneRegistration, Retiring, Waiting
  <2>3. CASE x # pending[t]
    BY <2>1, <2>3 DEF TypeOK, Register, MeterInv, OneRegistration, Retiring, Waiting
  <2> QED BY Zenon, <2>2, <2>3
<1> QED BY Zenon, <1>1, <1>2 DEF Register

\* Receiving a registration: the meter is not in sw.meters, and adding back its
\* snapshot total makes its accumulator everything ever marked.
LEMMA registerIInv ==
    ASSUME IInv, NEW m \in Meters, register(m)
    PROVE  IInv'
<1> USE FlowAssumption DEF IInv
<1>1. TypeOK'
  BY DEF TypeOK, register
<1>2. ASSUME NEW x \in Meters PROVE MeterInv(x)'
  <2>1. MeterInv(x) /\ TypeOK
    BY Zenon DEF IInv
  <2>2. CASE x = m
    <3>1. Waiting(m) /\ queued[m] = 1 /\ pc \notin {"swap", "addback", "subtract"}
      <4>1. OneRegistration(m) /\ queued[m] \in Nat
        BY Zenon, <2>1, <2>2 DEF TypeOK, MeterInv
      <4> QED BY <4>1 DEF register, OneRegistration, Waiting
    <3>2. meters[m] = 0 /\ acc[m] > 0
      <4>1. meters[m] \in {0, 1}
        BY <2>1, <2>2 DEF TypeOK, MeterInv
      <4>2. meters[m] # 1
        BY Zenon, <2>1, <2>2, <3>1 DEF MeterInv
      <4> QED BY Zenon, <2>1, <2>2, <3>1, <4>1, <4>2 DEF MeterInv
    <3>3. /\ queued'[m] = 0 /\ meters'[m] = 1 /\ acc'[m] = acc[m] + total[m]
          /\ todo[m] = 0 /\ ~Waiting(m)'
      BY <2>1, <2>2, <3>1, <3>2 DEF TypeOK, register, MeterInv, OneRegistration, Waiting
    <3> QED
      BY <2>1, <2>2, <3>1, <3>2, <3>3
      DEF TypeOK, register, MeterInv, OneRegistration, Retiring
  <2>3. CASE x # m
    BY <2>1, <2>3 DEF TypeOK, register, MeterInv, OneRegistration, Retiring, Waiting
  <2> QED BY Zenon, <2>2, <2>3
<1> QED BY Zenon, <1>1, <1>2 DEF register

\* A pass starts with every registered meter to visit.
LEMMA TickIInv ==
    ASSUME IInv, Tick
    PROVE  IInv'
BY DEF IInv, TypeOK, Tick, MeterInv, OneRegistration, Retiring, Waiting

\* The load of update copies the accumulator to the snapshot.
LEMMA VisitIInv ==
    ASSUME IInv, NEW m \in Meters, Visit(m)
    PROVE  IInv'
<1> USE FlowAssumption DEF IInv
<1>1. TypeOK'
  BY DEF TypeOK, Visit, MeterInv
<1>2. ASSUME NEW x \in Meters PROVE MeterInv(x)'
  <2>1. MeterInv(x) /\ TypeOK
    BY DEF IInv
  <2>4. (OneRegistration(x)' <=> OneRegistration(x)) /\ (Waiting(x)' <=> Waiting(x))
    BY DEF Visit, OneRegistration, Waiting
  <2>2. CASE x = m
    BY <2>1, <2>4, <2>2 DEF TypeOK, Visit, MeterInv, Retiring
  <2>3. CASE x # m
    BY <2>1, <2>4, <2>3 DEF TypeOK, Visit, MeterInv, Retiring
  <2> QED BY <2>2, <2>3
<1> QED BY Zenon, <1>1, <1>2 DEF Visit

\* The swap: either nothing was marked since the load and the meter is retired
\* with all its counts in the snapshot, or the sweeper holds them.
LEMMA SwapIInv ==
    ASSUME IInv, Swap
    PROVE  IInv'
<1> USE FlowAssumption DEF IInv
<1>1. cur \in Meters /\ MeterInv(cur) /\ TypeOK
  BY Zenon DEF Swap
<1>2. TypeOK'
  <2>1. todo[cur] = 1 /\ meters[cur] = 1
    BY <1>1 DEF TypeOK, Swap, MeterInv, Retiring
  <2>2. CASE acc[cur] > total[cur]
    BY Zenon, <1>1, <2>1, <2>2 DEF TypeOK, Swap
  <2>3. CASE ~(acc[cur] > total[cur])
    <3>1. Retire
      BY Zenon, <2>3 DEF Swap
    <3>2. meters' \in [Meters -> Nat] /\ todo' \in [Meters -> Nat]
      BY <1>1, <2>1, <3>1 DEF TypeOK, Retire
    <3>3. acc' \in [Meters -> Nat] /\ swapped' \in Nat
      BY Zenon, <1>1 DEF TypeOK, Swap
    <3> QED BY Zenon, <1>1, <3>1, <3>2, <3>3 DEF TypeOK, Swap, Retire
  <2> QED BY Zenon, <2>2, <2>3
<1>3. ASSUME NEW x \in Meters PROVE MeterInv(x)'
  <2>1. MeterInv(x)
    BY Zenon DEF IInv
  <2>4. (OneRegistration(x)' <=> OneRegistration(x)) /\ (Waiting(x)' <=> Waiting(x))
    BY DEF Swap, OneRegistration, Waiting
  <2>2. CASE x = cur
    BY SMTT(20), <1>1, <2>1, <2>4, <2>2 DEF TypeOK, Swap, Retire, MeterInv, Retiring
  <2>3. CASE x # cur
    BY <1>1, <2>1, <2>4, <2>3 DEF TypeOK, Swap, Retire, MeterInv, Retiring
  <2> QED BY Zenon, <2>2, <2>3
<1> QED BY Zenon, <1>1, <1>2, <1>3 DEF Swap, Retire

\* Putting the counts back, noticed by another goroutine or not.
LEMMA AddBackIInv ==
    ASSUME IInv, AddBack
    PROVE  IInv'
<1> USE FlowAssumption DEF IInv
<1>1. cur \in Meters /\ MeterInv(cur) /\ TypeOK
  BY Zenon DEF AddBack
<1>2. TypeOK'
  BY <1>1 DEF TypeOK, AddBack, MeterInv, Retiring
<1>3. ASSUME NEW x \in Meters PROVE MeterInv(x)'
  <2>1. MeterInv(x)
    BY DEF IInv
  <2>4. (OneRegistration(x)' <=> OneRegistration(x)) /\ (Waiting(x)' <=> Waiting(x))
    BY DEF AddBack, OneRegistration, Waiting
  <2>2. CASE x = cur
    BY SMTT(20), <1>1, <2>1, <2>4, <2>2 DEF TypeOK, AddBack, MeterInv, Retiring
  <2>3. CASE x # cur
    BY <1>1, <2>1, <2>4, <2>3 DEF TypeOK, AddBack, MeterInv, Retiring
  <2> QED BY <2>2, <2>3
<1> QED BY Zenon, <1>1, <1>2, <1>3 DEF AddBack

\* Taking the snapshot total out again leaves what the registration will find.
LEMMA SubtractIInv ==
    ASSUME IInv, Subtract
    PROVE  IInv'
<1> USE FlowAssumption DEF IInv
<1>1. cur \in Meters /\ MeterInv(cur) /\ TypeOK
  BY Zenon DEF Subtract
<1>2. TypeOK'
  BY <1>1 DEF TypeOK, Subtract, Retire, MeterInv, Retiring
<1>3. ASSUME NEW x \in Meters PROVE MeterInv(x)'
  <2>1. MeterInv(x)
    BY DEF IInv
  <2>4. (OneRegistration(x)' <=> OneRegistration(x)) /\ (Waiting(x)' <=> Waiting(x))
    BY SMTT(20) DEF Subtract, OneRegistration, Waiting
  <2>2. CASE x = cur
    BY SMTT(20), <1>1, <2>1, <2>4, <2>2 DEF TypeOK, Subtract, Retire, MeterInv, Retiring
  <2>3. CASE x # cur
    BY <1>1, <2>1, <2>4, <2>3 DEF TypeOK, Subtract, Retire, MeterInv, Retiring
  <2> QED BY <2>2, <2>3
<1> QED BY Zenon, <1>1, <1>2, <1>3 DEF Subtract, Retire

\* The end of a pass changes no meter.
LEMMA EndSweepIInv ==
    ASSUME IInv, EndSweep
    PROVE  IInv'
BY DEF IInv, TypeOK, EndSweep, MeterInv, OneRegistration, Retiring, Waiting

\* IInv is inductive.
LEMMA NextIInv == IInv /\ [Next]_vars => IInv'
<1> SUFFICES ASSUME IInv, [Next]_vars PROVE IInv'
  OBVIOUS
<1>1. CASE UNCHANGED vars
  BY <1>1 DEF vars, IInv, TypeOK, MeterInv, OneRegistration, Retiring, Waiting
<1>2. ASSUME NEW t \in Markers, NEW m \in Meters, NEW n \in Counts, Mark(t, m, n)
      PROVE  IInv'
  BY Zenon, <1>2, MarkIInv
<1>3. ASSUME NEW t \in Markers, Register(t) PROVE IInv'
  BY Zenon, <1>3, RegisterIInv
<1>4. ASSUME NEW m \in Meters, register(m) \/ Visit(m) PROVE IInv'
  BY Zenon, <1>4, registerIInv, VisitIInv
<1>5. CASE Tick \/ Swap \/ AddBack \/ Subtract \/ EndSweep
  BY Zenon, <1>5, TickIInv, SwapIInv, AddBackIInv, SubtractIInv, EndSweepIInv
<1> QED BY Zenon, <1>1, <1>2, <1>3, <1>4, <1>5 DEF Next, Sweeper

\* The inductive invariant holds throughout: every meter is swept, retired or
\* in one of the two windows of update.
THEOREM Inductive == Spec => []IInv
BY InitIInv, NextIInv, PTL DEF Spec

\* The counters of meter.go and sweeper.go stay natural numbers: neither the
\* subtraction of update nor that of the two's complement add goes below zero.
THEOREM TypeCorrect == Spec => []TypeOK
<1>1. IInv => TypeOK
  BY Zenon DEF IInv
<1> QED BY <1>1, Inductive, PTL

\* Nothing marked is lost or counted twice by the swap, add-back and
\* subtraction of update and the add-back of register.
THEOREM NothingLost == Spec => []Conservation
<1>1. IInv => Conservation
  BY DEF IInv, TypeOK, MeterInv, Conservation, Retiring
<1> QED BY <1>1, Inductive, PTL

\* A meter is in sw.meters at most once, has at most one registration under
\* way, and is not forgotten while it holds counts.
THEOREM RegistrationUnique == Spec => []RegisteredOnce
<1>1. IInv => RegisteredOnce
  BY SMTT(20) DEF IInv, TypeOK, MeterInv, OneRegistration, RegisteredOnce, Retiring, Waiting
<1> QED BY <1>1, Inductive, PTL

SnapshotBounded == \A m \in Meters : total[m] <= marked[m]

\* No step of update or register lets the total that Snapshot reports go down
\* or exceed what was marked.
THEOREM SnapshotGrows == Spec => SnapshotMonotone
<1>1. ASSUME IInv, [Next]_vars
      PROVE  \A m \in Meters : total'[m] >= total[m]
  <2>1. ASSUME NEW n \in Meters, Visit(n)
        PROVE  \A m \in Meters : total'[m] >= total[m]
    BY <1>1, <2>1 DEF IInv, TypeOK, MeterInv, Visit
  <2>2. CASE UNCHANGED total
    BY <1>1, <2>2 DEF IInv, TypeOK
  <2>3. UNCHANGED total \/ \E n \in Meters : Visit(n)
    BY Zenon, <1>1 DEF Next, Sweeper, vars, Mark, Register, register, Tick, Swap, AddBack,
                Subtract, EndSweep
  <2> QED BY Zenon, <2>1, <2>2, <2>3
<1>2. IInv => SnapshotBounded
  BY DEF IInv, TypeOK, MeterInv, SnapshotBounded
<1>3. IInv /\ SnapshotBounded' /\ [Next]_vars =>
        [\A m \in Meters : total'[m] >= total[m] /\ total'[m] <= marked'[m]]_vars
  BY Zenon, <1>1 DEF SnapshotBounded
<1> QED BY <1>2, <1>3, Inductive, PTL DEF Spec, SnapshotMonotone
-----------------------------------------------------------------------------
(* Lifecycle: what Build has sorted is what Listen starts. *)

Info == [priority : Int, type : Types, number : Nat]

\* Before Build: one component of a type, numbered below the next one.
Listed(list, k, n) ==
    \A i \in 1..Len(list) :
      /\ list[i].type \in k /\ list[i].number < n
      /\ \A j \in 1..Len(list) : list[i].type = list[j].type \/ list[i].number = list[j].number => i = j

Ascending(list) == \A i, j \in 1..Len(list) : i < j => Less(list[i], list[j])

\* The list of the builder.
ListInv ==
    /\ values \in Seq(Info) /\ calls \in Nat /\ ComponentCount \in Nat /\ Range(values) = installed
    /\ ~built => Listed(values, keys, calls)
    /\ built => Ascending(values)

\* Close has not let go of the components.
Open == \A who \in {"application", "waitExit"} : cpc[who] \in {"idle", "sleep"}

StartInv ==
    /\ components \in Seq(Info) /\ each \in Seq(Info) /\ started \in Seq(Info)
    /\ DOMAIN cpc = {"application", "waitExit"}
    /\ ~built => lpc = "idle"
    /\ lpc = "idle" => started = <<>>
    /\ bootstrap = "through" => listeningCh
    /\ listeningCh => lpc \notin {"idle", "startup"}
    /\ Open /\ built => components = values
    /\ Open /\ lpc = "startup" => started \o each = values
    /\ Open /\ lpc \notin {"idle", "startup"} => started = values

LifeInv == ListInv /\ StartInv

\* The order of two components with different numbers.
LEMMA LessTotal ==
    ASSUME NEW a \in Info, NEW b \in Info
    PROVE  /\ ~Less(a, a)
           /\ a.number # b.number => Less(a, b) \/ Less(b, a)
           /\ \A c \in Info : Less(a, b) /\ Less(b, c) => Less(a, c)
BY DEF Less, Info

\* As for any list without equals: fewer than all are lower than a component ...
LEMMA LowerType ==
    ASSUME NEW list \in Seq(Info), NEW i \in 1..Len(list)
    PROVE  Lower(list, i) \in 0..Len(list) - 1
<1> DEFINE N == 1..Len(list)
           R == {j \in N : Less(list[j], list[i])}
<1>1. Len(list) \in Nat /\ DOMAIN list = N /\ \A j \in N : list[j] \in Info
  OBVIOUS
<1>2. IsFiniteSet(N) /\ Cardinality(N) = Len(list)
  BY SMTT(20), <1>1, FS_Interval
<1>3. i \notin R
  BY Zenon, <1>1, LessTotal
<1>4. IsFiniteSet(R) /\ Cardinality(R) <= Cardinality(N) /\ Cardinality(R) # Cardinality(N)
  BY Zenon, <1>2, <1>3, FS_Subset
<1>5. Cardinality(R) \in Nat
  BY Zenon, <1>4, FS_CardinalityType
<1>6. Lower(list, i) = Cardinality(R)
  BY Zenon, <1>1 DEF Lower
<1> QED
  BY <1>1, <1>2, <1>4, <1>5, <1>6

\* ... and fewer than are lower than a higher one.
LEMMA LowerGrows ==
    ASSUME NEW list \in Seq(Info), NEW i \in 1..Len(list), NEW j \in 1..Len(list), Less(list[i], list[j])
    PROVE  Lower(list, i) < Lower(list, j)
<1> DEFINE N == 1..Len(list)
           P == {k \in N : Less(list[k], list[i])}
           Q == {k \in N : Less(list[k], list[j])}
<1>1. Len(list) \in Nat /\ DOMAIN list = N /\ \A k \in N : list[k] \in Info
  OBVIOUS
<1>2. IsFiniteSet(N)
  BY <1>1, FS_Interval
<1>3. P \subseteq Q
  BY Zenon, <1>1, LessTotal
<1>4. i \in Q /\ i \notin P
  BY Zenon, <1>1, LessTotal
<1>5. IsFiniteSet(Q) /\ IsFiniteSet(P)
  BY Zenon, <1>2, FS_Subset
<1>6. Cardinality(P) <= Cardinality(Q) /\ Cardinality(Q) # Cardinality(P)
  BY Zenon, <1>3, <1>4, <1>5, FS_Subset
<1>7. Cardinality(P) \in Nat /\ Cardinality(Q) \in Nat
  BY Zenon, <1>5, FS_CardinalityType
<1>8. Lower(list, i) = Cardinality(P) /\ Lower(list, j) = Cardinality(Q)
  BY Zenon, <1>1 DEF Lower
<1> QED
  BY <1>6, <1>7, <1>8

Numbered(list) == \A i, j \in 1..Len(list) : list[i].number = list[j].number => i = j

\* Two components with as many lower ones are the same, and fewer lower ones
\* means lower.
LEMMA LowerOrders ==
    ASSUME NEW list \in Seq(Info), Numbered(list), NEW i \in 1..Len(list), NEW j \in 1..Len(list)
    PROVE  /\ Lower(list, i) = Lower(list, j) => i = j
           /\ Lower(list, i) < Lower(list, j) => Less(list[i], list[j])
<1>1. Lower(list, i) \in Int /\ Lower(list, j) \in Int /\ list[i] \in Info /\ list[j] \in Info
  BY LowerType
<1>2. i = j \/ Less(list[i], list[j]) \/ Less(list[j], list[i])
  BY Zenon, <1>1, LessTotal DEF Numbered
<1>3. Less(list[i], list[j]) => Lower(list, i) < Lower(list, j)
  BY Zenon, LowerGrows
<1>4. Less(list[j], list[i]) => Lower(list, j) < Lower(list, i)
  BY Zenon, LowerGrows
<1> QED
  BY <1>1, <1>2, <1>3, <1>4

\* The size of an interval.
LEMMA Interval ==
    ASSUME NEW n \in Nat
    PROVE  /\ IsFiniteSet(1..n) /\ Cardinality(1..n) = n
           /\ IsFiniteSet(0..n - 1) /\ Cardinality(0..n - 1) = n
BY FS_Interval

\* For every number below the length there is a component with as many lower
\* ones.
LEMMA LowerOnto ==
    ASSUME NEW list \in Seq(Info), Numbered(list), NEW r \in 0..Len(list) - 1
    PROVE  \E i \in 1..Len(list) : Lower(list, i) = r
<1> DEFINE n == Len(list)
           f == [i \in 1..n |-> Lower(list, i)]
<1>0. n \in Nat
  OBVIOUS
<1>1. IsFiniteSet(1..n) /\ Cardinality(1..n) = n
  BY Zenon, <1>0, Interval
<1>2. IsFiniteSet(0..n - 1) /\ Cardinality(0..n - 1) = n
  BY Zenon, <1>0, Interval
<1>3. f \in [1..n -> 0..n - 1]
  BY Zenon, LowerType
<1>4. ASSUME NEW i \in 1..n, NEW j \in 1..n, f[i] = f[j] PROVE i = j
  BY Zenon, <1>4, LowerOrders
<1> HIDE DEF f
<1>5. f \in Injection(1..n, 0..n - 1)
  BY Zenon, <1>3, <1>4 DEF Injection, IsInjective
<1>6. f \in Surjection(1..n, 0..n - 1)
  BY Zenon, <1>1, <1>2, <1>5, FS_Injection
<1>7. PICK i \in 1..n : f[i] = r
  BY Zenon, <1>6 DEF Surjection
<1> QED
  BY Zenon, <1>7 DEF f

\* Two functions with the same values.
LEMMA SameRange ==
    ASSUME NEW f, NEW g, \A x \in DOMAIN f : \E y \in DOMAIN g : f[x] = g[y],
           \A y \in DOMAIN g : \E x \in DOMAIN f : f[x] = g[y]
    PROVE  Range(f) = Range(g)
<1>1. ASSUME NEW v PROVE v \in Range(f) <=> v \in Range(g)
  BY Zenon DEF Range
<1> QED
  BY Zenon, <1>1

\* SortByPriority keeps the components and puts them in order.
LEMMA Sorted ==
    ASSUME NEW list \in Seq(Info), Numbered(list), NEW s, s = SortByPriority(list)
    PROVE  /\ s \in Seq(Info) /\ Range(s) = Range(list)
           /\ Ascending(s)
<1> DEFINE n == Len(list)
           p == [k \in DOMAIN list |-> CHOOSE i \in DOMAIN list : Lower(list, i) = k - 1]
<1>1. n \in Nat /\ DOMAIN list = 1..n /\ \A k \in 1..n : list[k] \in Info
  OBVIOUS
<1>2. ASSUME NEW k \in 1..n PROVE p[k] \in 1..n /\ Lower(list, p[k]) = k - 1
  <2>1. k - 1 \in 0..n - 1
    BY <1>1
  <2>2. \E i \in 1..n : Lower(list, i) = k - 1
    BY Zenon, <2>1, LowerOnto
  <2> QED
    BY Zenon, <1>1, <2>2
<1>a. s = [k \in DOMAIN list |-> list[p[k]]]
  BY DEF SortByPriority
<1> HIDE DEF p
<1>3. s = [k \in 1..n |-> list[p[k]]]
  BY Zenon, <1>1, <1>a
<1>4. s \in [1..n -> Info]
  BY Zenon, <1>1, <1>2, <1>3
<1>5. s \in Seq(Info) /\ Len(s) = n /\ DOMAIN s = 1..n
  BY <1>1, <1>4
<1>6. ASSUME NEW i \in 1..n, NEW j \in 1..n, i < j PROVE Less(s[i], s[j])
  <2>1. Lower(list, p[i]) < Lower(list, p[j])
    BY <1>1, <1>2, <1>6
  <2>2. Less(list[p[i]], list[p[j]])
    BY Zenon, <1>2, <2>1, LowerOrders
  <2> QED
    BY Zenon, <1>3, <2>2
<1>7. Range(s) = Range(list)
  <2>1. ASSUME NEW i \in 1..n PROVE \E k \in 1..n : s[k] = list[i]
    <3>1. PICK r \in 0..n - 1 : Lower(list, i) = r
      BY Zenon, LowerType
    <3>2. r + 1 \in 1..n /\ (r + 1) - 1 = r
      BY <1>1
    <3>3. Lower(list, p[r + 1]) = Lower(list, i) /\ p[r + 1] \in 1..n
      BY Zenon, <1>2, <3>1, <3>2
    <3>4. p[r + 1] = i
      BY Zenon, <3>3, LowerOrders
    <3> QED
      BY Zenon, <1>3, <3>2, <3>4
  <2>2. ASSUME NEW k \in 1..n PROVE \E i \in 1..n : s[k] = list[i]
    BY Zenon, <1>2, <1>3
  <2>3. \A y \in DOMAIN list : \E x \in DOMAIN s : s[x] = list[y]
    BY Zenon, <1>1, <1>5, <2>1
  <2>4. \A x \in DOMAIN s : \E y \in DOMAIN list : s[x] = list[y]
    BY Zenon, <1>1, <1>5, <2>2
  <2> QED
    BY Zenon, <2>3, <2>4, SameRange
<1> QED
  BY Zenon, <1>5, <1>6, <1>7 DEF Ascending
-----------------------------------------------------------------------------
(* The list of the builder. *)

\* The elements after Append.
LEMMA Appended ==
    ASSUME NEW list \in Seq(Info), NEW e \in Info
    PROVE  Range(Append(list, e)) = Range(list) \cup {e}
<1> DEFINE t == Append(list, e)
<1>1. /\ t \in Seq(Info) /\ Len(t) = Len(list) + 1 /\ Len(list) \in Nat
      /\ DOMAIN t = 1..Len(list) + 1 /\ DOMAIN list = 1..Len(list) /\ t[Len(list) + 1] = e
      /\ \A i \in 1..Len(list) : t[i] = list[i]
  OBVIOUS
<1> HIDE DEF t
<1>2. ASSUME NEW v PROVE v \in Range(t) <=> v \in Range(list) \/ v = e
  BY <1>1 DEF Range
<1> QED
  BY Zenon, <1>2 DEF t

Others(list, type) == {e \in Range(list) : e.type # type}
Without(list, k) == SubSeq(list, 1, k - 1) \o SubSeq(list, k + 1, Len(list))

Join(t, a, b) ==
    /\ t \in Seq(Info) /\ Len(t) = Len(a) + Len(b)
    /\ \A i \in 1..Len(a) + Len(b) : t[i] = IF i <= Len(a) THEN a[i] ELSE b[i - Len(a)]

\* The elements of a concatenation.
LEMMA Joined ==
    ASSUME NEW a \in Seq(Info), NEW b \in Seq(Info)
    PROVE  Join(a \o b, a, b)
BY DEF Join

\* A list without its k-th element.
LEMMA Removed ==
    ASSUME NEW list \in Seq(Info), NEW k \in 1..Len(list), NEW t, t = Without(list, k)
    PROVE  /\ t \in Seq(Info) /\ Len(t) = Len(list) - 1
           /\ \A i \in 1..Len(t) : t[i] = IF i < k THEN list[i] ELSE list[i + 1]
<1> DEFINE a == SubSeq(list, 1, k - 1)
           b == SubSeq(list, k + 1, Len(list))
<1>1. a \in Seq(Info) /\ Len(a) = k - 1 /\ \A i \in 1..k - 1 : a[i] = list[i]
  OBVIOUS
<1>2. b \in Seq(Info) /\ Len(b) = Len(list) - k /\ \A i \in 1..Len(list) - k : b[i] = list[k + i]
  OBVIOUS
<1>3. t = a \o b
  BY Zenon DEF Without
<1> HIDE DEF a, b
<1>4. Join(t, a, b)
  BY Zenon, <1>1, <1>2, <1>3, Joined
<1>5. Len(t) = Len(list) - 1
  BY <1>1, <1>2, <1>4 DEF Join
<1>6. ASSUME NEW i \in 1..Len(t) PROVE t[i] = IF i < k THEN list[i] ELSE list[i + 1]
  <2>1. Len(a) = k - 1 /\ Len(b) = Len(list) - k /\ Len(list) \in Nat /\ k \in Int
    BY <1>1, <1>2
  <2>2. t[i] = IF i <= k - 1 THEN a[i] ELSE b[i - (k - 1)]
    <3>1. i \in 1..Len(a) + Len(b)
      BY <1>5, <2>1
    <3> QED
      BY Zenon, <1>4, <2>1, <3>1 DEF Join
  <2>3. CASE i <= k - 1
    <3>1. i \in 1..k - 1 /\ i < k
      BY <2>1, <2>3
    <3> QED
      BY Zenon, <1>1, <2>2, <2>3, <3>1
  <2>4. CASE ~(i <= k - 1)
    <3>1. i - (k - 1) \in 1..Len(list) - k /\ k + (i - (k - 1)) = i + 1 /\ ~(i < k)
      BY <1>5, <2>1, <2>4
    <3> QED
      BY Zenon, <1>2, <2>2, <2>4, <3>1
  <2> QED
    BY Zenon, <2>3, <2>4
<1> QED
  BY Zenon, <1>4, <1>5, <1>6 DEF Join

\* A list stays numbered when the counter goes up.
LEMMA ListedLater ==
    ASSUME NEW list \in Seq(Info), NEW k, NEW n \in Nat, Listed(list, k, n)
    PROVE  Listed(list, k, n + 1)
<1>1. \A i \in 1..Len(list) : list[i] \in Info
  OBVIOUS
<1>2. \A i \in 1..Len(list) : list[i].number < n => list[i].number < n + 1
  BY <1>1 DEF Info
<1> QED
  BY Zenon, <1>2 DEF Listed

\* A component of a new type may be added ...
LEMMA AppendListed ==
    ASSUME NEW list \in Seq(Info), NEW k, NEW n \in Nat, Listed(list, k, n), NEW e \in Info, e.type \notin k, e.number = n
    PROVE  Listed(Append(list, e), k \cup {e.type}, n + 1)
<1> DEFINE t == Append(list, e)
<1>1. /\ Len(t) = Len(list) + 1 /\ Len(list) \in Nat /\ t[Len(list) + 1] = e
      /\ \A i \in 1..Len(list) : t[i] = list[i] /\ list[i] \in Info
  OBVIOUS
<1> HIDE DEF t
<1>2. \A i \in 1..Len(list) : list[i].number \in Nat
  BY Zenon, <1>1 DEF Info
<1>3. \A i \in 1..Len(t) : i = Len(list) + 1 \/ i \in 1..Len(list)
  BY <1>1
<1>4. \A i \in 1..Len(list) : list[i].number < n + 1 /\ list[i].number # n /\ list[i].type # e.type
  BY <1>2 DEF Listed
<1>5. ASSUME NEW i \in 1..Len(t), NEW j \in 1..Len(t), t[i].type = t[j].type \/ t[i].number = t[j].number
      PROVE  i = j
  <2>1. CASE i = Len(list) + 1 /\ j = Len(list) + 1
    BY Zenon, <2>1
  <2>2. CASE i \in 1..Len(list) /\ j \in 1..Len(list)
    BY Zenon, <1>1, <1>5, <2>2 DEF Listed
  <2>3. CASE i \in 1..Len(list) /\ j = Len(list) + 1
    BY Zenon, <1>1, <1>4, <1>5, <2>3
  <2>4. CASE i = Len(list) + 1 /\ j \in 1..Len(list)
    BY Zenon, <1>1, <1>4, <1>5, <2>4
  <2> QED
    BY Zenon, <1>3, <2>1, <2>2, <2>3, <2>4
<1>6. ASSUME NEW i \in 1..Len(t) PROVE t[i].type \in k \cup {e.type} /\ t[i].number < n + 1
  <2>1. CASE i = Len(list) + 1
    BY <1>1, <2>1
  <2>2. CASE i \in 1..Len(list)
    BY Zenon, <1>1, <1>4, <2>2 DEF Listed
  <2> QED
    BY Zenon, <1>3, <2>1, <2>2
<1>7. Listed(t, k \cup {e.type}, n + 1)
  BY Zenon, <1>5, <1>6 DEF Listed
<1> QED
  BY Zenon, <1>7 DEF t

\* ... and one that is removed is the only one of its type.
LEMMA RemoveListed ==
    ASSUME NEW list \in Seq(Info), NEW k, NEW n \in Nat, Listed(list, k, n), NEW m \in 1..Len(list),
           NEW t, t = Without(list, m), NEW type, list[m].type = type
    PROVE  /\ Listed(t, k \ {type}, n + 1)
           /\ Range(t) = Others(list, type)
<1> DEFINE f == [i \in 1..Len(t) |-> IF i < m THEN i ELSE i + 1]
<1>1. Len(list) \in Nat /\ m \in Int /\ \A i \in 1..Len(list) : list[i] \in Info
  OBVIOUS
<1>2. t \in Seq(Info) /\ Len(t) = Len(list) - 1 /\ \A i \in 1..Len(t) : t[i] = IF i < m THEN list[i] ELSE list[i + 1]
  BY Removed
<1>3. ASSUME NEW i \in 1..Len(t) PROVE f[i] \in 1..Len(list) /\ f[i] # m /\ t[i] = list[f[i]]
  <2>1. f[i] = (IF i < m THEN i ELSE i + 1) /\ t[i] = IF i < m THEN list[i] ELSE list[i + 1]
    BY Zenon, <1>2
  <2>2. t[i] = list[f[i]]
    BY Zenon, <2>1
  <2>3. Len(t) = Len(list) - 1
    BY Zenon, <1>2
  <2> HIDE DEF f
  <2>4. f[i] \in 1..Len(list) /\ f[i] # m
    BY <1>1, <2>1, <2>3
  <2> QED
    BY Zenon, <2>2, <2>4
<1>4. \A i, j \in 1..Len(t) : f[i] = f[j] => i = j
  BY <1>1, <1>2
<1>5. \A i \in 1..Len(list) : i # m => \E j \in 1..Len(t) : f[j] = i
  <2> SUFFICES ASSUME NEW i \in 1..Len(list), i # m PROVE \E j \in 1..Len(t) : f[j] = i
    OBVIOUS
  <2>1. CASE i < m
    BY SMTT(20), <1>1, <1>2, <2>1
  <2>2. CASE i > m
    <3>1. i - 1 \in 1..Len(t) /\ f[i - 1] = i
      BY <1>1, <1>2, <2>2
    <3> QED
      BY Zenon, <3>1
  <2> QED
    BY <1>1, <2>1, <2>2
<1> HIDE DEF f
<1>6. \A i \in 1..Len(list) : list[i].number < n + 1
  BY SMTT(20), <1>1 DEF Listed, Info
<1>7. Listed(t, k \ {type}, n + 1)
  <2>1. ASSUME NEW i \in 1..Len(t), NEW j \in 1..Len(t), t[i].type = t[j].type \/ t[i].number = t[j].number
        PROVE  i = j
    <3>1. PICK x \in 1..Len(list) : x = f[i] /\ t[i] = list[x]
      BY Zenon, <1>3
    <3>2. PICK y \in 1..Len(list) : y = f[j] /\ t[j] = list[y]
      BY Zenon, <1>3
    <3>3. x = y
      BY Zenon, <2>1, <3>1, <3>2 DEF Listed
    <3> QED
      BY Zenon, <1>4, <3>1, <3>2, <3>3
  <2>2. ASSUME NEW i \in 1..Len(t) PROVE t[i].type \in k \ {type} /\ t[i].number < n + 1
    <3>1. PICK x \in 1..Len(list) : x # m /\ t[i] = list[x]
      BY Zenon, <1>3
    <3> QED
      BY Zenon, <1>6, <3>1 DEF Listed
  <2> QED
    BY Zenon, <2>1, <2>2 DEF Listed
<1>8. DOMAIN t = 1..Len(t) /\ DOMAIN list = 1..Len(list)
  BY <1>2
<1>9. ASSUME NEW v PROVE v \in Range(t) <=> v \in Range(list) /\ v.type # type
  <2>1. v \in Range(t) <=> \E i \in 1..Len(t) : v = t[i]
    BY Zenon, <1>8 DEF Range
  <2>2. v \in Range(list) <=> \E i \in 1..Len(list) : v = list[i]
    BY Zenon, <1>8 DEF Range
  <2> QED
    <3>1. ASSUME NEW i \in 1..Len(t) PROVE t[i].type # type /\ \E j \in 1..Len(list) : t[i] = list[j]
      <4>1. PICK x \in 1..Len(list) : x # m /\ t[i] = list[x]
        BY Zenon, <1>3
      <4> QED
        BY Zenon, <4>1 DEF Listed
    <3>2. ASSUME NEW i \in 1..Len(list), list[i].type # type PROVE \E j \in 1..Len(t) : list[i] = t[j]
      <4>1. i # m
        BY Zenon, <3>2
      <4> QED
        BY <1>3, <1>5, <4>1
    <3>3. v \in Range(t) => v \in Range(list) /\ v.type # type
      BY Zenon, <2>1, <2>2, <3>1
    <3>4. v \in Range(list) /\ v.type # type => v \in Range(t)
      BY Zenon, <2>1, <2>2, <3>2
    <3> QED
      BY Zenon, <3>3, <3>4
<1> QED
  BY Zenon, <1>7, <1>9 DEF Others

\* While the network is built nothing listens.
LEMMA CallingInv ==
    ASSUME LifeInv, Calling
    PROVE  StartInv' /\ calls' \in Nat /\ ~built'
<1>1. ~built' /\ lpc' = "idle"
  BY Zenon DEF LifeInv, StartInv, Calling, listening
<1>2. Open' <=> Open
  BY Zenon DEF Calling, Open, ending
<1> QED
  BY <1>1, <1>2 DEF LifeInv, StartInv, ListInv, Calling, listening, ending

\* Put replaces or appends a component.
LEMMA PutInv ==
    ASSUME LifeInv, Calling, NEW priority \in Int, NEW type \in Types, Put(priority, type), ComponentCount' \in Nat
    PROVE  LifeInv'
<1> DEFINE e == [priority |-> priority, type |-> type, number |-> calls]
<1>1. values \in Seq(Info) /\ calls \in Nat /\ Range(values) = installed /\ Listed(values, keys, calls)
  BY Zenon DEF LifeInv, ListInv, Calling
<1>2. StartInv' /\ calls' \in Nat /\ ~built' /\ calls' = calls + 1
  BY Zenon, CallingInv DEF Calling
<1>3. e \in Info /\ e.type = type /\ e.number = calls
  BY Zenon, <1>1 DEF Info
<1>4. CASE type \in keys
  <2>1. keys' = keys /\ values' = values /\ installed' = installed
    BY Zenon, <1>4 DEF Put
  <2>2. Listed(values, keys, calls + 1)
    BY Zenon, <1>1, ListedLater
  <2>3. ListInv'
    BY Zenon, <1>1, <1>2, <2>1, <2>2 DEF ListInv
  <2> QED
    BY Zenon, <1>2, <2>3 DEF LifeInv
<1>5. CASE type \notin keys
  <2>1. keys' = keys \cup {type} /\ values' = Append(values, e) /\ installed' = installed \cup {e}
    BY Zenon, <1>5 DEF Put
  <2> HIDE DEF e
  <2>2. Listed(Append(values, e), keys \cup {e.type}, calls + 1)
    BY Zenon, <1>1, <1>3, <1>5, AppendListed
  <2>3. Listed(values', keys', calls')
    BY Zenon, <1>2, <1>3, <2>1, <2>2
  <2>4. values' \in Seq(Info)
    BY <1>1, <1>3, <2>1
  <2>5. Range(values') = installed'
    BY Zenon, <1>1, <1>3, <2>1, Appended
  <2>6. ListInv'
    BY Zenon, <1>2, <2>3, <2>4, <2>5 DEF ListInv
  <2> QED
    BY Zenon, <1>2, <2>6 DEF LifeInv
<1> QED
  BY Zenon, <1>4, <1>5

\* AddComponent and AddComponentWithPriority.
LEMMA AddInv ==
    ASSUME LifeInv, NEW type \in Types,
           AddComponent(type) \/ \E priority \in Priorities : AddComponentWithPriority(priority, type)
    PROVE  LifeInv'
<1>1. ComponentCount \in Nat
  BY Zenon DEF LifeInv, ListInv
<1>2. CASE AddComponent(type)
  <2>1. ComponentCount' \in Nat /\ ComponentCount \in Int
    BY <1>1, <1>2 DEF AddComponent
  <2> QED
    BY Zenon, <1>2, <2>1, PutInv DEF AddComponent
<1>3. CASE \E priority \in Priorities : AddComponentWithPriority(priority, type)
  <2>1. PICK priority \in Int : AddComponentWithPriority(priority, type)
    BY Zenon, <1>3, LifecycleAssumption DEF LifecycleAssumption
  <2>2. ComponentCount' \in Nat
    BY Zenon, <1>1, <2>1 DEF AddComponentWithPriority
  <2> QED
    BY Zenon, <2>1, <2>2, PutInv DEF AddComponentWithPriority
<1> QED
  BY Zenon, <1>2, <1>3

\* DeleteComponent.
LEMMA DeleteComponentInv ==
    ASSUME LifeInv, NEW type \in Types, DeleteComponent(type)
    PROVE  LifeInv'
<1>1. /\ values \in Seq(Info) /\ calls \in Nat /\ ComponentCount \in Nat
      /\ Range(values) = installed /\ Listed(values, keys, calls)
  BY Zenon DEF LifeInv, ListInv, DeleteComponent, Calling
<1>2. StartInv' /\ calls' \in Nat /\ ~built' /\ calls' = calls + 1
  BY Zenon, CallingInv DEF DeleteComponent, Calling
<1>3. /\ keys' = keys \ {type} /\ installed' = {info \in installed : info.type # type}
      /\ ComponentCount' \in Nat
  BY Zenon, <1>1 DEF DeleteComponent
<1>4. DOMAIN values = 1..Len(values)
  BY <1>1
<1>5. CASE Matches(type) = {}
  <2>1. values' = values
    BY Zenon, <1>5 DEF DeleteComponent
  <2>2. \A i \in 1..Len(values) : values[i].type # type
    BY Zenon, <1>5 DEF Matches
  <2>3. installed' = installed
    <3>1. \A e \in Range(values) : e.type # type
      BY Zenon, <1>4, <2>2 DEF Range
    <3> QED
      BY Zenon, <1>1, <1>3, <3>1
  <2>4. Listed(values, keys, calls + 1)
    BY Zenon, <1>1, ListedLater
  <2>5. Listed(values, keys', calls + 1)
    BY Zenon, <1>3, <2>2, <2>4 DEF Listed
  <2>6. ListInv'
    BY <1>1, <1>2, <1>3, <2>1, <2>3, <2>5 DEF ListInv
  <2> QED
    BY Zenon, <1>2, <2>6 DEF LifeInv
<1>6. CASE Matches(type) # {}
  <2>1. PICK k : k = CHOOSE i \in Matches(type) : \A j \in Matches(type) : i <= j
    OBVIOUS
  <2>2. values' = Without(values, k)
    BY Zenon, <1>6, <2>1 DEF DeleteComponent, Without
  <2>3. \E i \in Matches(type) : \A j \in Matches(type) : i <= j
    <3>1. PICK i \in 1..Len(values) : values[i].type = type
      BY Zenon, <1>6 DEF Matches
    <3>2. \A j \in Matches(type) : j = i
      BY Zenon, <1>1, <3>1 DEF Matches, Listed
    <3>3. i \in Matches(type) /\ i <= i
      BY <3>1 DEF Matches
    <3> QED
      BY Zenon, <3>2, <3>3
  <2>4. k \in 1..Len(values) /\ values[k].type = type
    BY Zenon, <2>1, <2>3 DEF Matches
  <2>5. /\ Listed(Without(values, k), keys \ {type}, calls + 1)
        /\ Range(Without(values, k)) = Others(values, type)
    BY Zenon, <1>1, <2>4, RemoveListed
  <2>6. Listed(values', keys', calls') /\ Range(values') = installed'
    BY Zenon, <1>1, <1>2, <1>3, <2>2, <2>5 DEF Others
  <2>7. values' \in Seq(Info)
    BY Zenon, <1>1, <2>2, <2>4, Removed
  <2>8. ListInv'
    BY Zenon, <1>2, <1>3, <2>6, <2>7 DEF ListInv
  <2> QED
    BY Zenon, <1>2, <2>8 DEF LifeInv
<1> QED
  BY Zenon, <1>5, <1>6

\* Build sorts the list.
LEMMA BuildInv ==
    ASSUME LifeInv, Build
    PROVE  LifeInv'
<1>1. /\ values \in Seq(Info) /\ calls \in Nat /\ ComponentCount \in Nat
      /\ Range(values) = installed /\ Listed(values, keys, calls)
  BY Zenon DEF LifeInv, ListInv, Build
<1>2. /\ built' /\ values' = SortByPriority(values) /\ components' = values'
      /\ calls' = calls /\ ComponentCount' = ComponentCount /\ installed' = installed
  BY Zenon DEF Build
<1>3. Numbered(values)
  BY Zenon, <1>1 DEF Listed, Numbered
<1>4. values' \in Seq(Info) /\ Range(values') = Range(values) /\ Ascending(values')
  BY Zenon, <1>1, <1>2, <1>3, Sorted
<1>5. ListInv'
  BY Zenon, <1>1, <1>2, <1>4 DEF ListInv
<1>6. lpc' = "idle" /\ started' = started /\ started = <<>> /\ each' = each /\ each \in Seq(Info)
  BY Zenon DEF LifeInv, StartInv, Build, listening
<1>7. StartInv'
  BY Zenon, <1>2, <1>4, <1>6 DEF LifeInv, StartInv, Build, listening, ending
<1> QED
  BY Zenon, <1>5, <1>7 DEF LifeInv
-----------------------------------------------------------------------------
(* Listen and Close. *)

\* From Build on the list stays as it is.
LEMMA ListStill ==
    ASSUME ListInv, UNCHANGED <<building, built>>
    PROVE  ListInv' /\ values' = values /\ built' = built
BY Zenon DEF ListInv, building

\* The empty list on either side.
LEMMA Emptied ==
    ASSUME NEW s \in Seq(Info)
    PROVE  <<>> \o s = s /\ s \o <<>> = s
OBVIOUS

\* One round of the loop over the components.
LEMMA Round ==
    ASSUME NEW s \in Seq(Info), NEW t \in Seq(Info), t # <<>>
    PROVE  /\ Head(t) \in Info /\ Tail(t) \in Seq(Info) /\ Append(s, Head(t)) \in Seq(Info)
           /\ Append(s, Head(t)) \o Tail(t) = s \o t
OBVIOUS

\* Listen begins to start the components.
LEMMA ListenInv ==
    ASSUME LifeInv, Listen
    PROVE  LifeInv'
<1>1. ListInv' /\ values' = values /\ built' = built /\ built
  BY Zenon, ListStill DEF LifeInv, Listen
<1>2. Open' <=> Open
  BY Zenon DEF Listen, Open, ending
<1>3. started' = <<>> /\ each' = components /\ components' = components /\ lpc' = "startup" /\ ~listeningCh
  BY Zenon DEF LifeInv, StartInv, Listen
<1>4. Open => started' \o each' = values
  <2>1. Open => components = values /\ components \in Seq(Info)
    BY Zenon, <1>1 DEF LifeInv, StartInv
  <2> QED
    BY Zenon, <1>3, <2>1, Emptied
<1>5. StartInv'
  BY <1>1, <1>2, <1>3, <1>4 DEF LifeInv, StartInv, Listen, ending
<1> QED
  BY Zenon, <1>1, <1>5 DEF LifeInv

\* The next component is started.
LEMMA StartupInv ==
    ASSUME LifeInv, Startup
    PROVE  LifeInv'
<1>1. ListInv' /\ values' = values /\ built' = built
  BY Zenon, ListStill DEF LifeInv, Startup
<1>2. Open' <=> Open
  BY Zenon DEF Startup, Open, ending
<1>3. started' \in Seq(Info) /\ each' \in Seq(Info) /\ started' \o each' = started \o each
  BY Zenon, Round DEF LifeInv, StartInv, Startup
<1>4. lpc = "startup" /\ lpc' = "startup"
  BY Zenon DEF Startup
<1>5. StartInv'
  BY SMTT(20), <1>1, <1>2, <1>3, <1>4 DEF LifeInv, StartInv, Startup, ending
<1> QED
  BY Zenon, <1>1, <1>5 DEF LifeInv

\* Listening begins when all are started.
LEMMA startListeningInv ==
    ASSUME LifeInv, startListening
    PROVE  LifeInv'
<1>1. ListInv' /\ values' = values /\ built' = built
  BY Zenon, ListStill DEF LifeInv, startListening
<1>2. Open' <=> Open
  BY Zenon DEF startListening, Open, ending
<1>3. started \o each = started /\ lpc' \in {"select", "accept"} /\ lpc = "startup"
  BY Zenon, Emptied DEF LifeInv, StartInv, startListening
<1>4. StartInv'
  BY <1>1, <1>2, <1>3 DEF LifeInv, StartInv, startListening, ending
<1> QED
  BY Zenon, <1>1, <1>4 DEF LifeInv

\* The loop that accepts, and the cleanup of the components.
LEMMA LoopInv ==
    ASSUME LifeInv, AcceptLoop \/ Cleanup
    PROVE  LifeInv'
<1>1. ListInv' /\ values' = values /\ built' = built
  BY Zenon, ListStill DEF LifeInv, AcceptLoop, Cleanup
<1>2. Open' <=> Open
  BY Zenon DEF AcceptLoop, Cleanup, Open, ending
<1>3. lpc \notin {"idle", "startup"} /\ lpc' \notin {"idle", "startup"} /\ started' = started
  BY Zenon DEF AcceptLoop, Cleanup
<1>4. each' \in Seq(Info)
  BY DEF AcceptLoop, Cleanup, LifeInv, StartInv
<1>5. StartInv'
  BY Zenon, <1>1, <1>2, <1>3, <1>4 DEF LifeInv, StartInv, AcceptLoop, Cleanup, ending
<1> QED
  BY Zenon, <1>1, <1>5 DEF LifeInv

\* The steps of Close, which replaces the list.
LEMMA CloseInv ==
    ASSUME LifeInv, NEW who \in DOMAIN cpc, Close(who)
    PROVE  LifeInv'
<1>1. ListInv' /\ values' = values /\ built' = built
  BY Zenon, ListStill DEF LifeInv, Close
<1>2. DOMAIN cpc = {"application", "waitExit"} /\ DOMAIN cpc' = DOMAIN cpc
  <2>1. DOMAIN cpc' = DOMAIN cpc
    BY Zenon DEF Close
  <2> QED
    BY Zenon, <2>1 DEF LifeInv, StartInv
<1>3. components' \in Seq(Info)
  <2>1. components' = components \/ components' = <<>>
    BY Zenon DEF Close
  <2>2. <<>> \in Seq(Info)
    OBVIOUS
  <2> QED
    BY Zenon, <2>1, <2>2 DEF LifeInv, StartInv
<1>4. Open' => Open /\ components' = components
  BY Zenon, <1>2 DEF Open, Close
<1>5. UNCHANGED <<listening, bootstrap>>
  BY Zenon DEF Close
<1>6. StartInv'
  BY Zenon, <1>1, <1>2, <1>3, <1>4, <1>5 DEF LifeInv, StartInv, listening
<1> QED
  BY Zenon, <1>1, <1>6 DEF LifeInv

\* The goroutine that waits for Kill, the keepalive service, and the caller of
\* BlockUntilListening.
LEMMA OtherInv ==
    ASSUME LifeInv, WatchKill \/ KeepaliveStops \/ BlockUntilListening \/ UNCHANGED lifeVars
    PROVE  LifeInv'
<1>1. ListInv' /\ values' = values /\ built' = built
  BY Zenon, ListStill DEF LifeInv, WatchKill, KeepaliveStops, BlockUntilListening, lifeVars, building
<1>2. UNCHANGED <<listening, components, cpc>> /\ (bootstrap' = bootstrap \/ listeningCh)
  BY Zenon DEF WatchKill, KeepaliveStops, BlockUntilListening, lifeVars, listening, ending
<1>3. Open' <=> Open
  BY Zenon, <1>2 DEF Open
<1>4. StartInv'
  BY Zenon, <1>1, <1>2, <1>3 DEF LifeInv, StartInv, listening
<1> QED
  BY Zenon, <1>1, <1>4 DEF LifeInv

\* Hence the invariant of the life cycle always holds.
LEMMA LifeInductive == LifeSpec => []LifeInv
<1>1. LifeInit => LifeInv
  <2> SUFFICES ASSUME LifeInit PROVE LifeInv
    OBVIOUS
  <2>1. values = <<>> /\ <<>> \in Seq(Info) /\ Len(<<>>) = 0 /\ DOMAIN <<>> = {}
    BY DEF LifeInit
  <2>2. ListInv
    BY <2>1 DEF LifeInit, ListInv, Listed, Range
  <2>3. StartInv
    BY Zenon, <2>1 DEF LifeInit, StartInv
  <2> QED
    BY Zenon, <2>2, <2>3 DEF LifeInv
<1>2. LifeInv /\ [LifeNext]_lifeVars => LifeInv'
  BY Zenon, AddInv, DeleteComponentInv, BuildInv, ListenInv, StartupInv, startListeningInv, LoopInv, CloseInv, OtherInv
     DEF LifeNext, Listening, Background
<1> QED
  BY <1>1, <1>2, PTL DEF LifeSpec

\* A list in strict order has as many components as it is long.
LEMMA Counted ==
    ASSUME NEW list \in Seq(Info), Ascending(list)
    PROVE  Cardinality(Range(list)) = Len(list)
<1>1. Len(list) \in Nat /\ DOMAIN list = 1..Len(list) /\ \A i \in 1..Len(list) : list[i] \in Info
  OBVIOUS
<1>2. ASSUME NEW i \in 1..Len(list), NEW j \in 1..Len(list), list[i] = list[j] PROVE i = j
  <2>1. i = j \/ i < j \/ j < i
    OBVIOUS
  <2>2. ~Less(list[i], list[i])
    BY Zenon, <1>1, LessTotal
  <2> QED
    BY Zenon, <1>2, <2>1, <2>2 DEF Ascending
<1>3. list \in [1..Len(list) -> Range(list)]
  BY <1>1 DEF Range
<1>4. list \in Injection(1..Len(list), Range(list))
  BY Zenon, <1>2, <1>3 DEF Injection, IsInjective
<1>5. list \in Surjection(1..Len(list), Range(list))
  BY Zenon, <1>1, <1>3 DEF Surjection, Range
<1>6. ExistsBijection(1..Len(list), Range(list))
  BY Zenon, <1>4, <1>5 DEF ExistsBijection, Bijection
<1> QED
  BY Zenon, <1>1, <1>6, FS_CountingElements

\* Whoever gets past BlockUntilListening finds every component that was added and
\* not deleted started once, in the order of priority and addition, unless the
\* network was being closed: for any types, priorities and number of calls of the
\* builder (component_list.go Put, Delete, SortByPriority; network.go Listen).
THEOREM ComponentsStarted == LifeSpec => []StartedInOrder
<1>1. LifeInv => StartedInOrder
  <2> SUFFICES ASSUME LifeInv, bootstrap = "through", \A who \in DOMAIN cpc : cpc[who] \in {"idle", "sleep"}
               PROVE  /\ Range(started) = installed /\ Len(started) = Cardinality(installed)
                      /\ \A i, j \in 1..Len(started) : i < j =>
                           \/ started[i].priority < started[j].priority
                           \/ started[i].priority = started[j].priority /\ started[i].number < started[j].number
    BY Zenon DEF StartedInOrder
  <2>1. Open
    BY Zenon DEF LifeInv, StartInv, Open
  <2>2. started = values /\ built
    BY Zenon, <2>1 DEF LifeInv, StartInv
  <2>3. values \in Seq(Info) /\ Range(values) = installed /\ Ascending(values)
    BY Zenon, <2>2 DEF LifeInv, ListInv
  <2>4. Len(started) = Cardinality(installed)
    BY Zenon, <2>2, <2>3, Counted
  <2>5. \A i, j \in 1..Len(started) : i < j =>
          \/ started[i].priority < started[j].priority
          \/ started[i].priority = started[j].priority /\ started[i].number < started[j].number
    BY Zenon, <2>2, <2>3 DEF Ascending, Less
  <2> QED
    BY Zenon, <2>2, <2>3, <2>4, <2>5
<1> QED
  BY <1>1, LifeInductive, PTL
=============================================================================
