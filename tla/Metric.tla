------------------------------- MODULE Metric -------------------------------
(***************************************************************************)
(* The metric component: a window of the last SampleSize round trips, which*)
(* a ticker per client extends and a goroutine per request completes       *)
(* (network/components/metric/component.go).  Only the start of a request  *)
(* takes the mutex; the end of it is written without.                      *)
(*                                                                         *)
(* The tickers of all clients fill the same window, so one of them, which  *)
(* may tick at any time, stands for all.  The field distance is written    *)
(* before every use and is left out.  Time is counted from 1 and stands    *)
(* still while values are computed; real arithmetic, rounded at the end,   *)
(* stands for floating point.                                              *)
(***************************************************************************)
EXTENDS Integers, Sequences, FiniteSets

CONSTANTS
    SampleSize,     \* at least 1
    MaxRequests,    \* bound on requests
    MaxClock        \* bound on the time

ASSUME MetricAssumption == SampleSize \in Nat \ {0} /\ MaxRequests \in Nat /\ MaxClock \in Nat

VARIABLES
    clock,
    timeMetric,     \* the samples: start, end (0: none), and whose request and whose answer they are
    index, isFull,
    mutex,          \* the request that holds it, or 0
    requests,       \* the goroutines of sendMetricRequest
    ticking,        \* neither Kill nor CloseSignal is closed
    echoed          \* the last expectation, variance and average that were logged

metricVars == <<clock, timeMetric, index, isFull, mutex, requests, ticking, echoed>>
window == <<timeMetric, index, isFull>>

\* Startup
MetricInit ==
    /\ clock = 1
    /\ timeMetric = [i \in 1..SampleSize |-> [start |-> 0, end |-> 0, of |-> 0, by |-> 0]]
    /\ index = 0 /\ isFull = FALSE /\ mutex = 0
    /\ requests = <<>> /\ ticking = TRUE /\ echoed = <<0, 0, 0>>
-----------------------------------------------------------------------------
(* The statistics, over the samples below index. *)

Distance(i) == (IF timeMetric[i].end = 0 THEN clock ELSE timeMetric[i].end) - timeMetric[i].start

\* What a loop over the first n values adds up.
Total(value, n) == LET sum[i \in 0..n] == IF i = 0 THEN 0 ELSE sum[i - 1] + value[i] IN sum[n]

\* The elements of statics are the distances where they first occur among the
\* first n, each with the number of times it occurs.
Count(distance, n, d) == Cardinality({i \in 1..n : distance[i] = d})
Statics(distance, n) ==
    [i \in 1..n |-> IF \E j \in 1..i - 1 : distance[j] = distance[i] THEN 0
                    ELSE Count(distance, n, distance[i]) * distance[i]]

Distances == [i \in 1..index |-> Distance(i)]

timeDistanceExpect == IF index = 0 THEN 0 ELSE Total(Statics(Distances, index), index) \div index

timeDistanceAverage == IF index = 0 THEN 0 ELSE Total(Distances, index) \div index

timeDistanceVar ==
    IF index = 0 THEN <<0, 0, 0>>
    ELSE LET deviation == [i \in 1..index |-> (timeDistanceExpect - Distance(i))^2]
         IN  <<timeDistanceExpect, Total(deviation, index) \div index, timeDistanceAverage>>

\* The root of the variance, which it returns too, is left out.
TimeDistanceStandard == IF index = 0 THEN <<0, 0, 0>> ELSE timeDistanceVar
-----------------------------------------------------------------------------
(* The ticker and the requests. *)

\* It takes the mutex.
echoMetricValues ==
    IF index = 0 THEN UNCHANGED echoed
    ELSE mutex = 0 /\ echoed' = TimeDistanceStandard

\* A tick: the values are logged and a goroutine starts; a client without an ID
\* skips the tick.
PeerConnect ==
    /\ ticking /\ Len(requests) < MaxRequests
    /\ echoMetricValues
    /\ requests' = Append(requests, [pc |-> "lock", start |-> clock, i |-> 0, working |-> 0, moved |-> FALSE])
    /\ UNCHANGED <<clock, window, mutex, ticking>>

StopTicker ==
    /\ ticking /\ ticking' = FALSE
    /\ UNCHANGED <<clock, window, mutex, requests, echoed>>

Full == index >= SampleSize /\ timeMetric[SampleSize].start > 0

\* The time was read before the mutex is taken.  If the window is going to move,
\* that is noted for the requests under way.
LockSamples(r) ==
    /\ requests[r].pc = "lock" /\ mutex = 0
    /\ mutex' = r
    /\ requests' = [q \in DOMAIN requests |->
                      IF q = r THEN [requests[q] EXCEPT !.pc = IF Full THEN "shift" ELSE "fill", !.i = 1]
                      ELSE [requests[q] EXCEPT !.moved = @ \/ (Full /\ requests[q].pc = "sent")]]
    /\ UNCHANGED <<clock, window, ticking, echoed>>

\* The samples move down one by one.
Shift(r) ==
    /\ requests[r].pc = "shift"
    /\ LET i == requests[r].i
       IN  IF i = SampleSize THEN requests' = [requests EXCEPT ![r].pc = "fill"] /\ UNCHANGED timeMetric
           ELSE /\ timeMetric' = [timeMetric EXCEPT ![i] = timeMetric[i + 1]]
                /\ requests' = [requests EXCEPT ![r].i = i + 1]
    /\ UNCHANGED <<clock, index, isFull, mutex, ticking, echoed>>

\* The new sample and its index, for the answer; here indices are one larger.
Fill(r) ==
    /\ requests[r].pc = "fill"
    /\ timeMetric' = [timeMetric EXCEPT ![IF Full THEN SampleSize ELSE index + 1] =
                        [start |-> requests[r].start, end |-> 0, of |-> r, by |-> 0]]
    /\ LET workingIndex == IF index + 1 >= SampleSize THEN SampleSize - 1 ELSE index
       IN  /\ index' = workingIndex + 1
           /\ requests' = [requests EXCEPT ![r].pc = "sent", ![r].working = workingIndex + 1]
    /\ isFull' = (isFull \/ index + 1 >= SampleSize)
    /\ mutex' = 0
    /\ UNCHANGED <<clock, ticking, echoed>>

\* Mutant: the end is written to the latest sample.
AnswerLatest(r) ==
    /\ requests[r].pc = "sent"
    /\ requests' = [requests EXCEPT ![r].pc = "done"]
    /\ timeMetric' = [timeMetric EXCEPT ![index].end = clock, ![index].by = r]
    /\ UNCHANGED <<clock, index, isFull, mutex, ticking, echoed>>

\* client.Request returns a response, or fails; a response with another timestamp
\* is only logged.
Answer(r) ==
    /\ requests[r].pc = "sent"
    /\ requests' = [requests EXCEPT ![r].pc = "done"]
    /\ LET at == requests[r].working
       IN  timeMetric' \in {timeMetric, [timeMetric EXCEPT ![at].end = clock, ![at].by = r]}
    /\ UNCHANGED <<clock, index, isFull, mutex, ticking, echoed>>

Pass ==
    /\ clock < MaxClock /\ clock' = clock + 1
    /\ UNCHANGED <<window, mutex, requests, ticking, echoed>>

MetricNext ==
    \/ PeerConnect \/ StopTicker \/ Pass
    \/ \E r \in DOMAIN requests : LockSamples(r) \/ Shift(r) \/ Fill(r) \/ Answer(r)

MetricSpec == MetricInit /\ [][MetricNext]_metricVars
-----------------------------------------------------------------------------
\* However requests overlap, fail, and are answered while the window moves: the
\* samples below index have been started and none ends before it starts; the
\* time of an answer goes to the sample of its own request unless the window
\* moved while the request was under way; and the expectation, which is computed
\* from the shares of the distances, is the average (metric/component.go
\* sendMetricRequest, "need to use a workingIndex to backup current index value
\* avoid being covered").
SamplesSound ==
    /\ index \in 0..SampleSize
    /\ \A i \in 1..index :
         LET s == timeMetric[i]
         IN  /\ s.start > 0 /\ (s.end = 0 \/ s.end >= s.start)
             /\ s.by \notin {0, s.of} => requests[s.by].moved
    /\ echoed[1] = echoed[3]
=============================================================================
