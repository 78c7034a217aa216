------------------------------ MODULE WindowHist ------------------------------
(***************************************************************************)
(* The windowhist processor.  ConsumeMetrics buffers the samples of        *)
(* grouped series; one goroutine per send interval closes that interval's  *)
(* window at each tick and forwards one point per series; Shutdown cancels *)
(* the goroutines, waits for them and closes what is open.                 *)
(*                                                                         *)
(* A histogram is the number of values in it.  A counter reading keeps its *)
(* value, its time and its start time, which decide whether it is a rate.  *)
(* src/processor/windowhistprocessor/                                      *)
(***************************************************************************)
EXTENDS Integers, FiniteSets, FiniteSetsExt, Functions

CONSTANTS
    Series,         \* the metric streams that belong to a group
    Route,          \* Route[k]: the settings of the group of k (groupRoute)
    Stopper,        \* the service's call of Shutdown
    EvictAfter,     \* evictAfter
    Readings,       \* values a counter may show, in any order
    Epochs,         \* start times a counter may show
    MaxLag,         \* how old a sample may be when it arrives
    MaxSamples,     \* bound: samples received in a behaviour
    LastSample,     \* bound: no sample arrives after this time
    MaxTime         \* bound: the clock stops here

Kinds == {"plain", "gauge", "counter"}

ASSUME RouteAssumption ==
    /\ IsFiniteSet(Series)
    /\ Route \in [Series -> [send : Nat \ {0}, kind : Kinds,
                             cumulative : BOOLEAN, keepCounter : BOOLEAN]]
    /\ Readings \subseteq Nat
    /\ Epochs \subseteq Nat
    /\ {EvictAfter} \subseteq Nat \ {0}
    /\ {MaxLag, MaxSamples, LastSample, MaxTime} \subseteq Nat

Intervals == {Route[k].send : k \in Series}

ASSUME ProcessAssumption == Stopper \notin Nat

Processes == Intervals \cup {Stopper}

VARIABLES
    now,        \* p.now(), which also drives the tickers
    tick,       \* tick[i]: the ticker of interval i has a tick waiting
    pc,         \* where each goroutine is
    job,        \* job[p]: the interval p closes and the end it has read
    out,        \* out[p]: the points p forwards
    start,      \* start[i]: the start of the open window of interval i
    series,     \* p.series
    todo,       \* the intervals Shutdown has still to close
    received,   \* history: samples received
    ghost       \* history: what became of the samples of each series

vars == <<now, tick, pc, job, out, start, series, todo, received, ghost>>

------------------------------------------------------------------------------
(* Series. *)

NoBaseline == [valid |-> FALSE, value |-> 0, at |-> 0, epoch |-> 0]

NoPoint == [at |-> -1 - MaxLag]

\* An absent key of p.series.
NoSeries ==
    [live |-> FALSE, firstSeen |-> 0, samples |-> 0, idle |-> 0, window |-> 0,
     cum |-> 0, base |-> NoBaseline, last |-> NoPoint, kept |-> NoPoint]

NewSeries == [NoSeries EXCEPT !.live = TRUE, !.firstSeen = now]

SeriesOf(i) == {k \in Series : Route[k].send = i /\ series[k].live}

\* Mutant: a plain group keeps the sample that arrived last.
WithPlainArrived(s, at) == [s EXCEPT !.last = [at |-> at]]

\* A plain group keeps the newest data point of the window.
WithPlain(s, at) ==
    IF s.samples = 1 \/ at >= s.last.at THEN [s EXCEPT !.last = [at |-> at]] ELSE s

\* The reading becomes the one the next rate is measured from.
Rebase(s, r) ==
    [s EXCEPT !.base = [valid |-> TRUE, value |-> r.value, at |-> r.at, epoch |-> r.epoch]]

IsReset(s, r) ==
    s.base.valid /\ (s.base.epoch # r.epoch \/ r.value < s.base.value)

IsInvalid(s, r) == s.base.valid /\ ~IsReset(s, r) /\ r.at <= s.base.at

IsRate(s, r) == s.base.valid /\ ~IsReset(s, r) /\ r.at > s.base.at

\* Mutant: a reading that is not newer than the last one moves the baseline.
WithCounterRebasing(s, r) ==
    IF IsRate(s, r) THEN [Rebase(s, r) EXCEPT !.window = @ + 1] ELSE Rebase(s, r)

\* addCounter, without keep_counter's copy of the point.
WithCounter(s, r) ==
    IF IsInvalid(s, r) THEN s
    ELSE IF IsRate(s, r) THEN [Rebase(s, r) EXCEPT !.window = @ + 1]
    ELSE Rebase(s, r)

\* keep_counter copies every reading, whatever addCounter makes of it.
WithKept(k, s, r) ==
    IF Route[k].keepCounter THEN [s EXCEPT !.kept = [at |-> r.at]] ELSE s

WithGauge(s) == [s EXCEPT !.window = @ + 1]

------------------------------------------------------------------------------
NoJob == [send |-> 0, end |-> 0]

NoHistory ==
    [received |-> 0, aside |-> 0, handedOn |-> 0, since |-> 0, origin |-> 0, counted |-> 0,
     seenAt |-> -1 - EvictAfter, closes |-> 0, forwardedTo |-> 0, newest |-> -1 - MaxLag]

Init ==
    /\ now = 0
    /\ tick = [i \in Intervals |-> FALSE]
    /\ pc = [p \in Processes |-> IF p = Stopper THEN "up" ELSE "select"]
    /\ job = [p \in Processes |-> NoJob]
    /\ out = [p \in Processes |-> {}]
    /\ start = [i \in Intervals |-> 0]
    /\ series = [k \in Series |-> NoSeries]
    /\ todo = Intervals
    /\ received = 0
    /\ ghost = [k \in Series |-> NoHistory]

------------------------------------------------------------------------------
(* ConsumeMetrics: addSample, under the lock. *)

TooLate(k, at) == at < start[Route[k].send] - Route[k].send

Discard(k) ==
    /\ ghost' = [ghost EXCEPT ![k].received = @ + 1, ![k].aside = @ + 1]
    /\ UNCHANGED series

\* The series a sample of k finds or creates, with the sample counted.
Touched(k) ==
    LET s == IF series[k].live THEN series[k] ELSE NewSeries
    IN  [s EXCEPT !.samples = @ + 1]

\* History of an accepted sample of k taken at time at: seenAt is the window it
\* fell in, newest the newest of that window, since the values summarized since
\* the series was created.
Noted(k, at, summarized) ==
    [ghost[k] EXCEPT
        !.received = @ + 1,
        !.since = (IF series[k].live THEN @ ELSE 0) + summarized,
        !.seenAt = ghost[k].closes,
        !.newest = IF Touched(k).samples = 1 THEN at ELSE Max({@, at})]

Environment(k) ==
    /\ pc[Stopper] = "up"
    /\ received < MaxSamples
    /\ now <= LastSample
    /\ received' = received + 1
    /\ UNCHANGED <<now, tick, pc, job, out, start, todo>>

\* NaN or infinite value in a histogram group.
ReceiveInvalid(k) ==
    /\ Route[k].kind # "plain"
    /\ Environment(k)
    /\ Discard(k)

ReceivePlain(k) ==
    /\ Route[k].kind = "plain"
    /\ Environment(k)
    /\ \E lag \in 0 .. MaxLag :
         IF TooLate(k, now - lag) THEN Discard(k)
         ELSE /\ series' = [series EXCEPT ![k] = WithPlain(Touched(k), now - lag)]
              /\ ghost' = [ghost EXCEPT ![k] = Noted(k, now - lag, 0)]

ReceiveGauge(k) ==
    /\ Route[k].kind = "gauge"
    /\ Environment(k)
    /\ \E lag \in 0 .. MaxLag :
         IF TooLate(k, now - lag) THEN Discard(k)
         ELSE /\ series' = [series EXCEPT ![k] = WithGauge(Touched(k))]
              /\ ghost' = [ghost EXCEPT ![k] = Noted(k, now - lag, 1)]

ReceiveCounter(k) ==
    /\ Route[k].kind = "counter"
    /\ Environment(k)
    /\ \E lag \in 0 .. MaxLag, value \in Readings, epoch \in Epochs :
         LET r == [value |-> value, at |-> now - lag, epoch |-> epoch]
             s == Touched(k)
             n == Noted(k, r.at, IF IsRate(s, r) THEN 1 ELSE 0)
         IN  IF TooLate(k, r.at) THEN Discard(k)
             ELSE /\ series' = [series EXCEPT ![k] = WithKept(k, WithCounter(s, r), r)]
                  /\ ghost' = [ghost EXCEPT ![k] =
                       [n EXCEPT
                          !.aside = IF IsRate(s, r) THEN @ ELSE @ + 1,
                          !.origin = IF s.base.valid /\ ~IsReset(s, r) THEN @ ELSE r.value,
                          !.counted = IF ~s.base.valid \/ IsReset(s, r) THEN 0
                                      ELSE IF IsRate(s, r) THEN @ + (r.value - s.base.value)
                                      ELSE @]]

Receive(k) ==
    ReceiveInvalid(k) \/ ReceivePlain(k) \/ ReceiveGauge(k) \/ ReceiveCounter(k)

------------------------------------------------------------------------------
(* Closing a window: collect. *)

\* What a series sends for a window that closes: its summary, the samples in it,
\* the times it covers and the kept counter point.
HasPoint(k) ==
    /\ series[k].samples > 0
    /\ Route[k].kind = "plain" \/ series[k].window > 0 \/ series[k].kept # NoPoint

Weight(s, k) == IF Route[k].kind = "plain" THEN s.samples ELSE s.window

Point(k, from, end) ==
    [series |-> k,
     weight |-> Weight(series[k], k),
     from |-> IF Route[k].cumulative THEN series[k].firstSeen ELSE from,
     end |-> end]

\* Mutant: the idle count is never reset by a window with samples.
ClosedSeriesKeepingIdle(k, s) ==
    IF ~s.live THEN s
    ELSE IF s.samples = 0
         THEN IF s.idle + 1 >= EvictAfter THEN NoSeries ELSE [s EXCEPT !.idle = @ + 1]
         ELSE [s EXCEPT !.samples = 0, !.kept = NoPoint, !.window = 0,
                        !.cum = IF Route[k].cumulative THEN @ + s.window ELSE @]

\* Mutant: the histogram is not cleared when its window closes.
ClosedSeriesKeepingWindow(k, s) ==
    IF ~s.live THEN s
    ELSE IF s.samples = 0
         THEN IF s.idle + 1 >= EvictAfter THEN NoSeries ELSE [s EXCEPT !.idle = @ + 1]
         ELSE [s EXCEPT !.samples = 0, !.idle = 0, !.kept = NoPoint, !.cum = IF Route[k].cumulative THEN @ + s.window ELSE @]

\* markIdle and eviction of a series without samples; emit's merge into the
\* cumulative histogram and endWindow for one with samples.
ClosedSeries(k, s) ==
    IF ~s.live THEN s
    ELSE IF s.samples = 0
         THEN IF s.idle + 1 >= EvictAfter THEN NoSeries ELSE [s EXCEPT !.idle = @ + 1]
         ELSE [s EXCEPT !.samples = 0, !.idle = 0, !.kept = NoPoint, !.window = 0,
                        !.cum = IF Route[k].cumulative THEN @ + s.window ELSE @]

\* Mutant: a goroutine returns when its forwarding is over.
AfterForwardReturning(p) == IF p = Stopper THEN "flushing" ELSE "exited"

\* Mutant: a goroutine that forwards during a shutdown returns before wg.Done.
AfterForwardUndone(p) ==
    IF p = Stopper THEN "flushing"
    ELSE IF pc[Stopper] = "up" THEN "select" ELSE "returned"

AfterForward(p) == IF p = Stopper THEN "flushing" ELSE "select"

\* p holds the lock for the whole of collect, with the end it read before it.
Collect(p) ==
    /\ pc[p] = "closing"
    /\ LET i    == job[p].send
           sent == {k \in SeriesOf(i) : HasPoint(k)}
       IN  /\ out' = [out EXCEPT ![p] = {Point(k, start[i], job[p].end) : k \in sent}]
           /\ job' = [job EXCEPT ![p] = NoJob]
           /\ pc' = [pc EXCEPT ![p] = IF sent = {} THEN AfterForward(p) ELSE "forwarding"]
           /\ series' = [k \in Series |->
                IF Route[k].send = i THEN ClosedSeries(k, series[k]) ELSE series[k]]
           /\ start' = [start EXCEPT ![i] = job[p].end]
           /\ ghost' = [k \in Series |->
                IF Route[k].send = i THEN [ghost[k] EXCEPT !.closes = @ + 1] ELSE ghost[k]]
    /\ UNCHANGED <<now, tick, todo, received>>

\* The next consumer has taken the points, or has refused them (an error of its
\* own, or the cancelled context).  Either way the goroutine goes on and nothing
\* is kept: it logs the error, Shutdown returns it.
Forwarded(p) ==
    /\ pc[p] = "forwarding"
    /\ ghost' = [k \in Series |->
         LET mine == {x \in out[p] : x.series = k}
         IN  IF mine = {} THEN ghost[k]
             ELSE LET x == CHOOSE y \in mine : TRUE
                  IN  [ghost[k] EXCEPT !.handedOn = @ + x.weight, !.forwardedTo = x.end]]
    /\ out' = [out EXCEPT ![p] = {}]
    /\ pc' = [pc EXCEPT ![p] = AfterForward(p)]
    /\ UNCHANGED <<now, tick, job, start, series, todo, received>>

------------------------------------------------------------------------------
(* The goroutine of interval i. *)

\* The end of the window is read before collect takes the lock.
TakeTick(i) ==
    /\ pc[i] = "select"
    /\ tick[i]
    /\ tick' = [tick EXCEPT ![i] = FALSE]
    /\ job' = [job EXCEPT ![i] = [send |-> i, end |-> now]]
    /\ pc' = [pc EXCEPT ![i] = "closing"]
    /\ UNCHANGED <<now, out, start, series, todo, received, ghost>>

Exit(i) ==
    /\ pc[i] = "select"
    /\ pc[Stopper] # "up"
    /\ pc' = [pc EXCEPT ![i] = "exited"]
    /\ UNCHANGED <<now, tick, job, out, start, series, todo, received, ghost>>

------------------------------------------------------------------------------
(* Shutdown. *)

Cancel ==
    /\ pc[Stopper] = "up"
    /\ pc' = [pc EXCEPT ![Stopper] = "waiting"]
    /\ UNCHANGED <<now, tick, job, out, start, series, todo, received, ghost>>

\* Mutant: flushAll starts while the goroutines may still be forwarding.
AwaitNobody ==
    /\ pc[Stopper] = "waiting"
    /\ pc' = [pc EXCEPT ![Stopper] = "flushing"]
    /\ UNCHANGED <<now, tick, job, out, start, series, todo, received, ghost>>

AwaitTickers ==
    /\ pc[Stopper] = "waiting"
    /\ \A i \in Intervals : pc[i] = "exited"
    /\ pc' = [pc EXCEPT ![Stopper] = "flushing"]
    /\ UNCHANGED <<now, tick, job, out, start, series, todo, received, ghost>>

\* flushAll closes the intervals, shortest first.
FlushNext ==
    /\ pc[Stopper] = "flushing"
    /\ todo # {}
    /\ todo' = todo \ {Min(todo)}
    /\ job' = [job EXCEPT ![Stopper] = [send |-> Min(todo), end |-> now]]
    /\ pc' = [pc EXCEPT ![Stopper] = "closing"]
    /\ UNCHANGED <<now, tick, out, start, series, received, ghost>>

FlushDone ==
    /\ pc[Stopper] = "flushing"
    /\ todo = {}
    /\ pc' = [pc EXCEPT ![Stopper] = "down"]
    /\ UNCHANGED <<now, tick, job, out, start, series, todo, received, ghost>>

------------------------------------------------------------------------------
TimePasses ==
    /\ now < MaxTime
    /\ now' = now + 1
    /\ tick' = [i \in Intervals |-> tick[i] \/ now' % i = 0]
    /\ UNCHANGED <<pc, job, out, start, series, todo, received, ghost>>

Next ==
    \/ \E k \in Series : Receive(k)
    \/ \E i \in Intervals : TakeTick(i) \/ Exit(i)
    \/ \E p \in Processes : Collect(p) \/ Forwarded(p)
    \/ Cancel \/ AwaitTickers \/ FlushNext \/ FlushDone
    \/ TimePasses

\* A goroutine that can run does, a forward returns, and Shutdown, once called,
\* is carried on.  Nothing says that Shutdown is called or that samples arrive.
Fairness ==
    /\ \A i \in Intervals : WF_vars(TakeTick(i) \/ Exit(i))
    /\ \A p \in Processes : WF_vars(Collect(p)) /\ WF_vars(Forwarded(p))
    /\ WF_vars(AwaitTickers) /\ WF_vars(FlushNext) /\ WF_vars(FlushDone)
    /\ WF_vars(TimePasses)

Spec == Init /\ [][Next]_vars

FairSpec == Spec /\ Fairness
------------------------------------------------------------------------------
(* Properties. *)

Times == (-1 - MaxLag) .. MaxTime

\* Every part of the state has its type; a goroutine is at one of its own
\* program points and p.series holds counts, never negative ones.
TypeOK ==
    /\ now \in 0 .. MaxTime
    /\ tick \in [Intervals -> BOOLEAN]
    /\ \A i \in Intervals : pc[i] \in {"select", "closing", "forwarding", "exited"}
    /\ pc[Stopper] \in {"up", "waiting", "flushing", "closing", "forwarding", "down"}
    /\ \A p \in Processes :
          /\ job[p].send \in Intervals \cup {0}
          /\ job[p].end \in 0 .. MaxTime
          /\ \A x \in out[p] : x.series \in Series /\ x.weight \in 0 .. MaxSamples
    /\ start \in [Intervals -> 0 .. MaxTime]
    /\ \A k \in Series :
          /\ series[k].live \in BOOLEAN
          /\ {series[k].samples, series[k].window, series[k].cum} \subseteq 0 .. MaxSamples
          /\ series[k].idle \in 0 .. EvictAfter - 1
          /\ {series[k].last.at, series[k].kept.at} \subseteq Times
    /\ todo \subseteq Intervals
    /\ received \in 0 .. MaxSamples

\* The points of k that are being forwarded.
Points(k) == {x \in UNION {out[p] : p \in Processes} : x.series = k}

Pending(k) == Weight(series[k], k) + SumFunction([x \in Points(k) |-> x.weight])

\* Every sample received is set aside (discarded and counted as such, or the first
\* reading of a counter) or is summarized in exactly one window, which is open,
\* being forwarded or handed on.
SamplesAccounted ==
    \A k \in Series :
        ghost[k].received = ghost[k].aside + Pending(k) + ghost[k].handedOn

\* A cumulative histogram counts every value since the series was created, also
\* those of windows whose forwarding failed.
CumulativeIsWhole ==
    \A k \in Series :
        Route[k].cumulative /\ series[k].live
            => series[k].cum + series[k].window = ghost[k].since

\* Between two resets the rates of a counter add up to what the counter gained,
\* whatever repeated or late readings came in between: none is counted twice,
\* no increase is missed.
RatesTelescope ==
    \A k \in Series :
        series[k].base.valid
            => ghost[k].counted = series[k].base.value - ghost[k].origin

\* A series is there exactly while it has a sample in the open window or in one
\* of the EvictAfter windows before it, windows of other intervals not counting.
LiveSeriesAreRecent ==
    \A k \in Series :
        series[k].live <=> ghost[k].closes - ghost[k].seenAt <= EvictAfter

\* A plain group sends the newest data point of the window (series.go:51).
PlainIsNewest ==
    \A k \in Series :
        Route[k].kind = "plain" /\ series[k].samples > 0
            => series[k].last.at = ghost[k].newest

\* keep_counter sends the newest counter point (series.go:59).
KeptCounterIsNewest ==
    \A k \in Series :
        series[k].kept # NoPoint => series[k].kept.at = ghost[k].newest

\* Windows of an interval follow one another: no close moves the start of the
\* open window back, so delta points of a series never overlap.
WindowsMoveForward == [][\A i \in Intervals : start'[i] >= start[i]]_vars

\* The points of a series reach the next consumer in the order of their windows,
\* the last ones being those of Shutdown.
ForwardedInOrder ==
    [][\A k \in Series : ghost'[k].forwardedTo >= ghost[k].forwardedTo]_vars

\* When Shutdown has returned, no sample is left in a window, no goroutine runs
\* and nothing is being forwarded.
ShutdownLeavesNothing ==
    pc[Stopper] = "down" =>
        /\ \A k \in Series : series[k].samples = 0
        /\ \A i \in Intervals : pc[i] = "exited"
        /\ \A p \in Processes : out[p] = {}

\* Shutdown, once called, ends although goroutines forward meanwhile.
ShutdownEnds == (pc[Stopper] = "waiting") ~> (pc[Stopper] = "down")

\* A sample that was buffered is forwarded, or its forwarding fails, without
\* further samples having to arrive.
WindowsClose ==
    \A k \in Series : (Pending(k) > 0) ~> (Pending(k) = 0)
===============================================================================
