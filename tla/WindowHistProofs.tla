-------------------------- MODULE WindowHistProofs --------------------------
(* Theorems about WindowHist, for every value of its constants.               *)
EXTENDS WindowHist, Sums, TLAPS

------------------------------------------------------------------------------
(* Types. *)

ProgramPoints == {"select", "closing", "forwarding", "exited",
                  "up", "waiting", "flushing", "down"}

BaselineType == [valid : BOOLEAN, value : Nat, at : Int, epoch : Nat]

SeriesType ==
    [live : BOOLEAN, firstSeen : 0 .. MaxTime, samples : Nat, idle : 0 .. EvictAfter - 1,
     window : Nat, cum : Nat, base : BaselineType, last : [at : Times], kept : [at : Times]]

PointType == [series : Series, weight : Nat, from : Nat, end : 0 .. MaxTime]

HistoryType ==
    [received : Nat, aside : Nat, handedOn : Nat, since : Nat, origin : Int, counted : Int,
     seenAt : Int, closes : Nat, forwardedTo : Nat, newest : Int]

TypeInv ==
    /\ now \in 0 .. MaxTime
    /\ tick \in [Intervals -> BOOLEAN]
    /\ pc \in [Processes -> ProgramPoints]
    /\ job \in [Processes -> [send : Intervals \cup {0}, end : 0 .. MaxTime]]
    /\ out \in [Processes -> SUBSET PointType]
    /\ start \in [Intervals -> 0 .. MaxTime]
    /\ series \in [Series -> SeriesType]
    /\ todo \subseteq Intervals
    /\ received \in 0 .. MaxSamples
    /\ ghost \in [Series -> HistoryType]

\* Goroutines stand at their own points; what is closed or forwarded is theirs, and
\* Shutdown flushes alone.
ControlInv ==
    /\ \A i \in Intervals : pc[i] \in {"select", "closing", "forwarding", "exited"}
    /\ pc[Stopper] \in {"up", "waiting", "flushing", "closing", "forwarding", "down"}
    /\ \A p \in Processes : pc[p] = "closing" =>
          job[p].send \in Intervals /\ (p \in Intervals => job[p].send = p)
    /\ pc[Stopper] \in {"flushing", "closing", "forwarding", "down"} =>
          \A i \in Intervals : pc[i] = "exited"
    /\ \A p \in Processes : out[p] # {} => pc[p] = "forwarding"
    /\ \A p \in Processes : \A x \in out[p] : p \in Intervals => Route[x.series].send = p

\* No count exceeds what was received.
CountInv ==
    /\ \A k \in Series :
          /\ series[k].samples <= received
          /\ series[k].cum + series[k].window <= received
    /\ \A p \in Processes : \A x \in out[p] : x.weight <= received

LEMMA ConstantFacts ==
    /\ Intervals \subseteq Nat \ {0}
    /\ Stopper \in Processes /\ Stopper \notin Intervals
    /\ \A p \in Processes : p \in Intervals \/ p = Stopper
    /\ \A i \in Intervals : i \in Processes
    /\ \A k \in Series :
          /\ Route[k].send \in Intervals /\ Route[k].kind \in Kinds
          /\ Route[k].cumulative \in BOOLEAN /\ Route[k].keepCounter \in BOOLEAN
    /\ EvictAfter \in Nat \ {0} /\ MaxLag \in Nat /\ MaxSamples \in Nat /\ MaxTime \in Nat
    /\ Readings \subseteq Nat /\ Epochs \subseteq Nat
  BY RouteAssumption, ProcessAssumption DEF Intervals, Processes

LEMMA NoSeriesType == NoSeries \in SeriesType /\ NoPoint \in [at : Times]
<1> USE ConstantFacts
<1>1. NoPoint \in [at : Times]
  BY DEF NoPoint, Times
<1>2. NoBaseline \in BaselineType
  BY DEF NoBaseline, BaselineType
<1>3. QED
  BY <1>1, <1>2 DEF NoSeries, SeriesType

LEMMA InitInv == Init => TypeInv /\ ControlInv /\ CountInv
<1> SUFFICES ASSUME Init PROVE TypeInv /\ ControlInv /\ CountInv
    OBVIOUS
<1> USE ConstantFacts DEF Init
<1>1. series \in [Series -> SeriesType]
  BY NoSeriesType
<1>2. NoHistory \in HistoryType
  BY DEF NoHistory, HistoryType
<1>3. /\ job \in [Processes -> [send : Intervals \cup {0}, end : 0 .. MaxTime]]
      /\ out \in [Processes -> SUBSET PointType]
      /\ pc \in [Processes -> ProgramPoints]
  BY DEF NoJob, ProgramPoints
<1>4. TypeInv
  BY <1>1, <1>2, <1>3 DEF TypeInv
<1>5. ControlInv
  BY DEF ControlInv
<1>6. CountInv
  BY DEF CountInv, NoSeries
<1>7. QED
  BY <1>4, <1>5, <1>6

------------------------------------------------------------------------------
(* What a sample does to its series. *)

\* The series k as a sample finds it.
Found(k, field) == IF series[k].live THEN series[k][field] ELSE 0

\* The sample of k that gives series s and history n weighs one, or is set aside.
Booked(k, s, n) ==
    /\ n.received = ghost[k].received + 1
    /\ n.handedOn = ghost[k].handedOn
    /\ n.aside + Weight(s, k)
         = ghost[k].aside + Found(k, IF Route[k].kind = "plain" THEN "samples" ELSE "window") + 1

\* The series s and its history n after a sample of k was taken in.
Absorbed(k, s, n) ==
    /\ s \in SeriesType /\ n \in HistoryType
    /\ Booked(k, s, n)
    /\ s.live
    /\ s.samples = Found(k, "samples") + 1
    /\ s.idle = Found(k, "idle")
    /\ s.cum = Found(k, "cum")
    /\ \E d \in {0, 1} : /\ s.window = Found(k, "window") + d
                         /\ n.since = (IF series[k].live THEN ghost[k].since ELSE 0) + d
    /\ n.closes = ghost[k].closes /\ n.seenAt = ghost[k].closes
    /\ n.forwardedTo = ghost[k].forwardedTo
    /\ (series[k].base.valid => ghost[k].counted = series[k].base.value - ghost[k].origin)
          => (s.base.valid => n.counted = s.base.value - n.origin)
    /\ Route[k].kind = "plain"
          /\ (series[k].samples > 0 => series[k].last.at = ghost[k].newest)
          => s.last.at = n.newest

\* A receive either sets its sample aside or takes it in.
Received(k) ==
    /\ pc[Stopper] = "up"
    /\ received' = received + 1 /\ received' \in 0 .. MaxSamples
    /\ UNCHANGED <<now, tick, pc, job, out, start, todo>>
    /\ \/ /\ series' = series
          /\ \E n \in HistoryType :
                /\ ghost' = [ghost EXCEPT ![k] = n]
                /\ n.received = ghost[k].received + 1 /\ n.aside = ghost[k].aside + 1
                /\ n.handedOn = ghost[k].handedOn
                /\ n.since = ghost[k].since /\ n.closes = ghost[k].closes
                /\ n.seenAt = ghost[k].seenAt /\ n.forwardedTo = ghost[k].forwardedTo
                /\ n.counted = ghost[k].counted /\ n.origin = ghost[k].origin
                /\ n.newest = ghost[k].newest
       \/ \E s, n : /\ Absorbed(k, s, n)
                    /\ series' = [series EXCEPT ![k] = s]
                    /\ ghost' = [ghost EXCEPT ![k] = n]

LEMMA EnvironmentFacts ==
    ASSUME TypeInv, NEW k \in Series, Environment(k)
    PROVE  /\ pc[Stopper] = "up"
           /\ received' = received + 1 /\ received' \in 0 .. MaxSamples
           /\ UNCHANGED <<now, tick, pc, job, out, start, todo>>
           /\ series[k] \in SeriesType /\ ghost[k] \in HistoryType
  BY ConstantFacts DEF TypeInv, Environment

\* Histories and series keep their types when a field is set.
LEMMA HistoryFields ==
    ASSUME NEW g \in HistoryType
    PROVE  /\ \A v \in Nat : [g EXCEPT !.received = v] \in HistoryType
           /\ \A v \in Nat : [g EXCEPT !.aside = v] \in HistoryType
           /\ \A v \in Nat : [g EXCEPT !.handedOn = v] \in HistoryType
           /\ \A v \in Nat : [g EXCEPT !.since = v] \in HistoryType
           /\ \A v \in Nat : [g EXCEPT !.closes = v] \in HistoryType
           /\ \A v \in Nat : [g EXCEPT !.forwardedTo = v] \in HistoryType
           /\ \A v \in Int : [g EXCEPT !.origin = v] \in HistoryType
           /\ \A v \in Int : [g EXCEPT !.counted = v] \in HistoryType
           /\ \A v \in Int : [g EXCEPT !.seenAt = v] \in HistoryType
           /\ \A v \in Int : [g EXCEPT !.newest = v] \in HistoryType
  BY DEF HistoryType

LEMMA SeriesFields ==
    ASSUME NEW s \in SeriesType
    PROVE  /\ \A v \in Nat : [s EXCEPT !.samples = v] \in SeriesType
           /\ \A v \in Nat : [s EXCEPT !.window = v] \in SeriesType
           /\ \A v \in Nat : [s EXCEPT !.cum = v] \in SeriesType
           /\ \A v \in 0 .. EvictAfter - 1 : [s EXCEPT !.idle = v] \in SeriesType
           /\ \A v \in BaselineType : [s EXCEPT !.base = v] \in SeriesType
           /\ \A v \in [at : Times] : [s EXCEPT !.last = v] \in SeriesType
           /\ \A v \in [at : Times] : [s EXCEPT !.kept = v] \in SeriesType
  BY DEF SeriesType

LEMMA DiscardReceived ==
    ASSUME TypeInv, NEW k \in Series, Environment(k), Discard(k)
    PROVE  Received(k)
<1> DEFINE g == ghost[k]
           r == [g EXCEPT !.received = @ + 1]
           n == [r EXCEPT !.aside = @ + 1]
<1>1. g \in HistoryType
  BY EnvironmentFacts
<1>2. ghost' = [ghost EXCEPT ![k] = n] /\ series' = series
  BY DEF Discard
<1> HIDE DEF g
<1>3. r \in HistoryType
  <2>1. g.received + 1 \in Nat
    BY <1>1 DEF HistoryType
  <2>2. QED
    BY <1>1, <2>1, HistoryFields
<1>4. n \in HistoryType
  <2> HIDE DEF r
  <2>1. r.aside + 1 \in Nat
    BY <1>3 DEF HistoryType
  <2>2. QED
    BY <1>3, <2>1, HistoryFields
<1>5. /\ n.since = g.since /\ n.closes = g.closes /\ n.seenAt = g.seenAt
      /\ n.forwardedTo = g.forwardedTo
      /\ n.counted = g.counted /\ n.origin = g.origin /\ n.newest = g.newest
      /\ n.received = g.received + 1 /\ n.aside = g.aside + 1 /\ n.handedOn = g.handedOn
  BY <1>1 DEF HistoryType
<1> HIDE DEF n
<1>6. QED
  BY <1>2, <1>4, <1>5, EnvironmentFacts DEF Received, g

LEMMA TouchedFacts ==
    ASSUME TypeInv, NEW k \in Series
    PROVE  /\ Touched(k) \in SeriesType
           /\ Touched(k).live
           /\ Touched(k).samples = Found(k, "samples") + 1
           /\ Touched(k).idle = Found(k, "idle")
           /\ Touched(k).cum = Found(k, "cum")
           /\ Touched(k).window = Found(k, "window")
           /\ series[k].live => /\ Touched(k).base = series[k].base
                                /\ Touched(k).last = series[k].last
           /\ ~series[k].live => ~Touched(k).base.valid
<1> DEFINE s == series[k]
           f == IF s.live THEN s ELSE NewSeries
<1>1. s \in SeriesType /\ now \in 0 .. MaxTime
  BY DEF TypeInv
<1>2. /\ NewSeries \in SeriesType
      /\ NewSeries.live /\ NewSeries.samples = 0 /\ NewSeries.idle = 0
      /\ NewSeries.cum = 0 /\ NewSeries.window = 0 /\ ~NewSeries.base.valid
  <2>1. /\ NoSeries \in SeriesType
        /\ NoSeries.samples = 0 /\ NoSeries.idle = 0
        /\ NoSeries.cum = 0 /\ NoSeries.window = 0 /\ ~NoSeries.base.valid
    BY NoSeriesType DEF NoSeries, NoBaseline
  <2> DEFINE z == NoSeries
  <2>2. NewSeries = [z EXCEPT !.live = TRUE, !.firstSeen = now]
    BY DEF NewSeries
  <2> HIDE DEF z
  <2>3. QED
    BY <1>1, <2>1, <2>2 DEF SeriesType, z
<1>3. /\ f \in SeriesType /\ f.live
      /\ f.samples = Found(k, "samples") /\ f.idle = Found(k, "idle")
      /\ f.cum = Found(k, "cum") /\ f.window = Found(k, "window")
      /\ series[k].live => f = series[k]
      /\ ~series[k].live => ~f.base.valid
  BY <1>1, <1>2 DEF Found
<1>4. Touched(k) = [f EXCEPT !.samples = @ + 1]
  BY DEF Touched
<1> HIDE DEF s, f
<1>5. QED
  BY <1>3, <1>4 DEF SeriesType

LEMMA LargerOfTwo ==
    ASSUME NEW a \in Int, NEW b \in Int
    PROVE  /\ Max({a, b}) \in Int
           /\ b >= a => Max({a, b}) = b
           /\ ~(b >= a) => Max({a, b}) = a
<1>1. \E x \in {a, b} : \A y \in {a, b} : x >= y
  OBVIOUS
<1>2. Max({a, b}) \in {a, b} /\ \A y \in {a, b} : Max({a, b}) >= y
  BY <1>1 DEF Max
<1>3. QED
  BY <1>2

LEMMA NotedFacts ==
    ASSUME TypeInv, NEW k \in Series, NEW at \in Int, NEW d \in Nat
    PROVE  LET n == Noted(k, at, d) IN
           /\ n \in HistoryType
           /\ n.since = (IF series[k].live THEN ghost[k].since ELSE 0) + d
           /\ n.closes = ghost[k].closes /\ n.seenAt = ghost[k].closes
           /\ n.forwardedTo = ghost[k].forwardedTo
           /\ n.counted = ghost[k].counted /\ n.origin = ghost[k].origin
           /\ n.received = ghost[k].received + 1
           /\ n.aside = ghost[k].aside /\ n.handedOn = ghost[k].handedOn
           /\ n.newest = IF Touched(k).samples = 1 THEN at ELSE Max({ghost[k].newest, at})
<1> DEFINE g  == ghost[k]
           nw == IF Touched(k).samples = 1 THEN at ELSE Max({g.newest, at})
           sn == (IF series[k].live THEN g.since ELSE 0) + d
           g1 == [g EXCEPT !.received = @ + 1]
           g2 == [g1 EXCEPT !.since = sn]
           g3 == [g2 EXCEPT !.seenAt = g.closes]
           g4 == [g3 EXCEPT !.newest = nw]
<1>1. g \in HistoryType
  BY DEF TypeInv
<1>2. g.newest \in Int /\ g.received + 1 \in Nat /\ sn \in Nat /\ g.closes \in Int
  BY <1>1 DEF HistoryType
<1>3. nw \in Int
  BY <1>2, LargerOfTwo
<1>4. Noted(k, at, d) = [g EXCEPT !.received = @ + 1, !.since = sn, !.seenAt = g.closes,
                                  !.newest = nw]
  <2>1. [g EXCEPT !.received = @ + 1, !.since = sn, !.seenAt = g.closes, !.newest = nw]
        = [g EXCEPT !.received = @ + 1,
                    !.since = (IF series[k].live THEN @ ELSE 0) + d,
                    !.seenAt = ghost[k].closes,
                    !.newest = IF Touched(k).samples = 1 THEN at ELSE Max({@, at})]
    BY <1>1 DEF HistoryType
  <2>2. QED
    BY <2>1 DEF Noted
<1> HIDE DEF g, nw, sn
<1>5. g1 \in HistoryType
  BY <1>1, <1>2, HistoryFields
<1>6. g2 \in HistoryType
  <2> HIDE DEF g1
  <2> QED BY <1>2, <1>5, HistoryFields
<1>7. g3 \in HistoryType
  <2> HIDE DEF g2
  <2> QED BY <1>2, <1>6, HistoryFields
<1>8. g4 \in HistoryType
  <2> HIDE DEF g3
  <2> QED BY <1>3, <1>7, HistoryFields
<1>9. /\ g4.since = sn /\ g4.closes = g.closes /\ g4.seenAt = g.closes
      /\ g4.forwardedTo = g.forwardedTo
      /\ g4.counted = g.counted /\ g4.origin = g.origin /\ g4.newest = nw
      /\ g4.received = g.received + 1 /\ g4.aside = g.aside /\ g4.handedOn = g.handedOn
  BY <1>1 DEF HistoryType
<1>10. Noted(k, at, d) = g4
  BY <1>4
<1> HIDE DEF g4
<1>11. QED
  BY <1>8, <1>9, <1>10 DEF g, sn, nw

LEMMA SampleTime ==
    ASSUME TypeInv, NEW lag \in 0 .. MaxLag
    PROVE  now - lag \in Int /\ now - lag \in Times
  BY ConstantFacts DEF TypeInv, Times

LEMMA PlainReceived ==
    ASSUME TypeInv, NEW k \in Series, ReceivePlain(k)
    PROVE  Received(k)
<1> PICK lag \in 0 .. MaxLag :
        IF TooLate(k, now - lag) THEN Discard(k)
        ELSE /\ series' = [series EXCEPT ![k] = WithPlain(Touched(k), now - lag)]
             /\ ghost' = [ghost EXCEPT ![k] = Noted(k, now - lag, 0)]
  BY DEF ReceivePlain
<1>1. CASE TooLate(k, now - lag)
  BY <1>1, DiscardReceived DEF ReceivePlain
<1>2. CASE ~TooLate(k, now - lag)
  <2> DEFINE at == now - lag
             t == Touched(k)
             s == WithPlain(t, at)
             n == Noted(k, at, 0)
  <2>0. at \in Int /\ at \in Times
    BY SampleTime
  <2>1. /\ series' = [series EXCEPT ![k] = s]
        /\ ghost' = [ghost EXCEPT ![k] = n]
    BY <1>2
  <2> HIDE DEF at
  <2>2. /\ t \in SeriesType /\ t.live
        /\ t.samples = Found(k, "samples") + 1
        /\ t.idle = Found(k, "idle") /\ t.cum = Found(k, "cum")
        /\ t.window = Found(k, "window")
        /\ series[k].live => t.base = series[k].base /\ t.last = series[k].last
        /\ ~series[k].live => ~t.base.valid
    BY TouchedFacts
  <2>3. /\ n \in HistoryType
        /\ n.since = (IF series[k].live THEN ghost[k].since ELSE 0) + 0
        /\ n.closes = ghost[k].closes /\ n.seenAt = ghost[k].closes
        /\ n.forwardedTo = ghost[k].forwardedTo
        /\ n.counted = ghost[k].counted /\ n.origin = ghost[k].origin
        /\ n.received = ghost[k].received + 1
        /\ n.aside = ghost[k].aside /\ n.handedOn = ghost[k].handedOn
        /\ n.newest = IF t.samples = 1 THEN at ELSE Max({ghost[k].newest, at})
    BY <2>0, NotedFacts
  <2> HIDE DEF t, n
  <2>4. /\ s \in SeriesType
        /\ s.live = t.live /\ s.samples = t.samples /\ s.idle = t.idle /\ s.cum = t.cum
        /\ s.window = t.window /\ s.base = t.base
        /\ s.last.at = IF t.samples = 1 \/ at >= t.last.at THEN at ELSE t.last.at
    <3>1. [at |-> at] \in [at : Times]
      BY <2>0
    <3>2. [t EXCEPT !.last = [at |-> at]] \in SeriesType
      BY <2>2, <3>1, SeriesFields
    <3>3. QED
      BY <2>2, <3>2 DEF WithPlain, SeriesType
  <2>5. Route[k].kind = "plain"
          /\ (series[k].samples > 0 => series[k].last.at = ghost[k].newest)
          => s.last.at = n.newest
    <3> SUFFICES ASSUME series[k].samples > 0 => series[k].last.at = ghost[k].newest
                 PROVE  s.last.at = n.newest
      OBVIOUS
    <3>1. series[k] \in SeriesType /\ ghost[k] \in HistoryType
      BY DEF TypeInv
    <3>2. CASE t.samples = 1
      BY <2>3, <2>4, <3>2
    <3>3. CASE t.samples # 1
      <4>1. series[k].live /\ series[k].samples > 0
        BY <2>2, <3>1, <3>3 DEF Found, SeriesType
      <4>2. t.last.at = ghost[k].newest /\ ghost[k].newest \in Int
        BY <2>2, <3>1, <4>1 DEF HistoryType
      <4>3. QED
        BY <2>0, <2>3, <2>4, <3>3, <4>2, LargerOfTwo
    <3>4. QED
      BY <3>2, <3>3
  <2> HIDE DEF s
  <2>6. Absorbed(k, s, n)
    <3>1. \E d \in {0, 1} :
             /\ s.window = Found(k, "window") + d
             /\ n.since = (IF series[k].live THEN ghost[k].since ELSE 0) + d
      <4>1. t.window \in Nat
        BY <2>2 DEF SeriesType
      <4>2. s.window = Found(k, "window") + 0
        BY <2>2, <2>4, <4>1
      <4>3. QED
        BY <2>3, <4>2
    <3>2. (series[k].base.valid => ghost[k].counted = series[k].base.value - ghost[k].origin)
            => (s.base.valid => n.counted = s.base.value - n.origin)
      BY <2>2, <2>3, <2>4
    <3>3. Booked(k, s, n)
      <4>1. Weight(s, k) = Found(k, "samples") + 1 /\ Route[k].kind = "plain"
        BY <2>2, <2>4 DEF Weight, ReceivePlain
      <4>2. ghost[k].aside \in Nat /\ Found(k, "samples") \in Nat
        BY DEF TypeInv, HistoryType, SeriesType, Found
      <4>3. QED
        BY <2>3, <4>1, <4>2 DEF Booked
    <3>4. QED
      BY <2>2, <2>3, <2>4, <2>5, <3>1, <3>2, <3>3 DEF Absorbed
  <2>7. QED
    BY <2>1, <2>6, EnvironmentFacts DEF Received, ReceivePlain
<1>3. QED
  BY <1>1, <1>2

LEMMA GaugeReceived ==
    ASSUME TypeInv, NEW k \in Series, ReceiveGauge(k)
    PROVE  Received(k)
<1> PICK lag \in 0 .. MaxLag :
        IF TooLate(k, now - lag) THEN Discard(k)
        ELSE /\ series' = [series EXCEPT ![k] = WithGauge(Touched(k))]
             /\ ghost' = [ghost EXCEPT ![k] = Noted(k, now - lag, 1)]
  BY DEF ReceiveGauge
<1>1. CASE TooLate(k, now - lag)
  BY <1>1, DiscardReceived DEF ReceiveGauge
<1>2. CASE ~TooLate(k, now - lag)
  <2> DEFINE at == now - lag
             t == Touched(k)
             s == WithGauge(t)
             n == Noted(k, at, 1)
  <2>0. at \in Int
    BY SampleTime
  <2>1. /\ series' = [series EXCEPT ![k] = s]
        /\ ghost' = [ghost EXCEPT ![k] = n]
        /\ Route[k].kind # "plain"
    BY <1>2 DEF ReceiveGauge
  <2> HIDE DEF at
  <2>2. /\ t \in SeriesType /\ t.live
        /\ t.samples = Found(k, "samples") + 1
        /\ t.idle = Found(k, "idle") /\ t.cum = Found(k, "cum")
        /\ t.window = Found(k, "window")
        /\ series[k].live => t.base = series[k].base
        /\ ~series[k].live => ~t.base.valid
    BY TouchedFacts
  <2>3. /\ n \in HistoryType
        /\ n.since = (IF series[k].live THEN ghost[k].since ELSE 0) + 1
        /\ n.closes = ghost[k].closes /\ n.seenAt = ghost[k].closes
        /\ n.forwardedTo = ghost[k].forwardedTo
        /\ n.counted = ghost[k].counted /\ n.origin = ghost[k].origin
        /\ n.received = ghost[k].received + 1
        /\ n.aside = ghost[k].aside /\ n.handedOn = ghost[k].handedOn
    <3> DEFINE m == Noted(k, at, 1)
    <3>1. /\ m \in HistoryType
          /\ m.since = (IF series[k].live THEN ghost[k].since ELSE 0) + 1
          /\ m.closes = ghost[k].closes /\ m.seenAt = ghost[k].closes
          /\ m.forwardedTo = ghost[k].forwardedTo
          /\ m.counted = ghost[k].counted /\ m.origin = ghost[k].origin
          /\ m.received = ghost[k].received + 1
          /\ m.aside = ghost[k].aside /\ m.handedOn = ghost[k].handedOn
          /\ m.newest = IF Touched(k).samples = 1 THEN at ELSE Max({ghost[k].newest, at})
      BY <2>0, NotedFacts
    <3> HIDE DEF m
    <3>2. QED
      BY <3>1 DEF m
  <2> HIDE DEF t, n
  <2>4. /\ s \in SeriesType
        /\ s.live = t.live /\ s.samples = t.samples /\ s.idle = t.idle /\ s.cum = t.cum
        /\ s.window = t.window + 1 /\ s.base = t.base
    <3>1. t.window + 1 \in Nat
      BY <2>2 DEF SeriesType
    <3>2. [t EXCEPT !.window = t.window + 1] \in SeriesType
      BY <2>2, <3>1, SeriesFields
    <3>3. QED
      BY <2>2, <3>2 DEF WithGauge, SeriesType
  <2> HIDE DEF s
  <2>5. \E d \in {0, 1} :
           /\ s.window = Found(k, "window") + d
           /\ n.since = (IF series[k].live THEN ghost[k].since ELSE 0) + d
    BY <2>2, <2>3, <2>4
  <2>6. (series[k].base.valid => ghost[k].counted = series[k].base.value - ghost[k].origin)
          => (s.base.valid => n.counted = s.base.value - n.origin)
    BY <2>2, <2>3, <2>4
  <2>7. Booked(k, s, n)
    <3>1. Weight(s, k) = Found(k, "window") + 1
      BY <2>1, <2>2, <2>4 DEF Weight
    <3>2. ghost[k].aside \in Nat /\ Found(k, "window") \in Nat
      BY DEF TypeInv, HistoryType, SeriesType, Found
    <3>3. n.aside + Weight(s, k) = ghost[k].aside + Found(k, "window") + 1
      BY <2>3, <3>1, <3>2
    <3>4. Found(k, IF Route[k].kind = "plain" THEN "samples" ELSE "window") = Found(k, "window")
      BY <2>1
    <3>5. QED
      BY <2>3, <3>3, <3>4 DEF Booked
  <2>8. Absorbed(k, s, n)
    BY <2>1, <2>2, <2>3, <2>4, <2>5, <2>6, <2>7 DEF Absorbed
  <2>9. QED
    BY <2>1, <2>8, EnvironmentFacts DEF Received, ReceiveGauge
<1>3. QED
  BY <1>1, <1>2

\* A reading makes a rate, moves the baseline, or is ignored.
LEMMA CounterSeries ==
    ASSUME NEW t \in SeriesType,
           NEW r \in [value : Nat, at : Int, epoch : Nat]
    PROVE  LET s == WithCounter(t, r) IN
           /\ s \in SeriesType
           /\ s.live = t.live /\ s.samples = t.samples /\ s.idle = t.idle /\ s.cum = t.cum
           /\ s.window = t.window + (IF IsRate(t, r) THEN 1 ELSE 0)
           /\ s.base = IF IsInvalid(t, r) THEN t.base
                       ELSE [valid |-> TRUE, value |-> r.value, at |-> r.at, epoch |-> r.epoch]
           /\ IsRate(t, r) => ~IsInvalid(t, r)
<1> DEFINE base == [valid |-> TRUE, value |-> r.value, at |-> r.at, epoch |-> r.epoch]
           b == [t EXCEPT !.base = base]
           w == [b EXCEPT !.window = @ + 1]
<1>0. IsRate(t, r) => ~IsInvalid(t, r)
  BY DEF IsRate, IsInvalid, SeriesType, BaselineType
<1>1. base \in BaselineType
  BY DEF BaselineType
<1>2. Rebase(t, r) = b
  BY DEF Rebase
<1> HIDE DEF base
<1>3. /\ b \in SeriesType /\ b.base = base
      /\ b.live = t.live /\ b.samples = t.samples /\ b.idle = t.idle /\ b.cum = t.cum
      /\ b.window = t.window
  <2>1. b \in SeriesType
    BY <1>1, SeriesFields
  <2>2. QED
    BY <2>1 DEF SeriesType
<1> HIDE DEF b
<1>4. /\ w \in SeriesType /\ w.base = base
      /\ w.live = t.live /\ w.samples = t.samples /\ w.idle = t.idle /\ w.cum = t.cum
      /\ w.window = t.window + 1
  <2>1. b.window + 1 \in Nat
    BY <1>3 DEF SeriesType
  <2>2. w \in SeriesType
    BY <1>3, <2>1, SeriesFields
  <2>3. QED
    BY <1>3, <2>2 DEF SeriesType
<1>5. [Rebase(t, r) EXCEPT !.window = @ + 1] = w
  BY <1>2
<1> HIDE DEF w
<1>6. t.window \in Nat
  BY DEF SeriesType
<1>7. QED
  BY <1>0, <1>2, <1>3, <1>4, <1>5, <1>6 DEF WithCounter, base

LEMMA CounterReceived ==
    ASSUME TypeInv, NEW k \in Series, ReceiveCounter(k)
    PROVE  Received(k)
<1>0. PICK lag \in 0 .. MaxLag, value \in Readings, epoch \in Epochs :
        LET r == [value |-> value, at |-> now - lag, epoch |-> epoch]
            s == Touched(k)
            n == Noted(k, r.at, IF IsRate(s, r) THEN 1 ELSE 0)
        IN  IF TooLate(k, r.at) THEN Discard(k)
            ELSE /\ series' = [series EXCEPT ![k] = WithKept(k, WithCounter(s, r), r)]
                 /\ ghost' = [ghost EXCEPT ![k] =
                      [n EXCEPT
                         !.aside = IF IsRate(s, r) THEN @ ELSE @ + 1,
                         !.origin = IF s.base.valid /\ ~IsReset(s, r) THEN @ ELSE r.value,
                         !.counted = IF ~s.base.valid \/ IsReset(s, r) THEN 0
                                     ELSE IF IsRate(s, r) THEN @ + (r.value - s.base.value)
                                     ELSE @]]
  BY DEF ReceiveCounter
<1> DEFINE r == [value |-> value, at |-> now - lag, epoch |-> epoch]
           t == Touched(k)
           d == IF IsRate(t, r) THEN 1 ELSE 0
           n0 == Noted(k, r.at, d)
           aside == IF IsRate(t, r) THEN n0.aside ELSE n0.aside + 1
           origin == IF t.base.valid /\ ~IsReset(t, r) THEN n0.origin ELSE r.value
           counted == IF ~t.base.valid \/ IsReset(t, r) THEN 0
                      ELSE IF IsRate(t, r) THEN n0.counted + (r.value - t.base.value)
                      ELSE n0.counted
           c == WithCounter(t, r)
           s == WithKept(k, c, r)
           n1 == [n0 EXCEPT !.aside = aside]
           n2 == [n1 EXCEPT !.origin = origin]
           n == [n2 EXCEPT !.counted = counted]
<1>1. CASE TooLate(k, r.at)
  BY <1>0, <1>1, DiscardReceived DEF ReceiveCounter
<1>2. CASE ~TooLate(k, r.at)
  <2>1. /\ series' = [series EXCEPT ![k] = s]
        /\ ghost' = [ghost EXCEPT ![k] = n]
        /\ Route[k].kind # "plain"
    BY <1>0, <1>2 DEF ReceiveCounter
  <2>2. /\ r \in [value : Nat, at : Int, epoch : Nat]
        /\ [at |-> r.at] \in [at : Times]
        /\ d \in {0, 1}
    BY SampleTime, ConstantFacts
  <2>3. IsInvalid(t, r) <=> t.base.valid /\ ~IsReset(t, r) /\ ~IsRate(t, r)
    <3>1. t \in SeriesType
      BY TouchedFacts
    <3> HIDE DEF t
    <3>2. t.base.at \in Int /\ r.at \in Int
      BY <2>2, <3>1 DEF SeriesType, BaselineType
    <3>3. QED
      BY <3>2 DEF IsInvalid, IsRate
  <2>4. IsRate(t, r) => t.base.valid /\ ~IsReset(t, r)
    BY DEF IsRate
  <2> HIDE DEF r
  <2>5. /\ t \in SeriesType /\ t.live
        /\ t.samples = Found(k, "samples") + 1
        /\ t.idle = Found(k, "idle") /\ t.cum = Found(k, "cum")
        /\ t.window = Found(k, "window")
        /\ series[k].live => t.base = series[k].base
        /\ ~series[k].live => ~t.base.valid
    BY TouchedFacts
  <2>6. r.at \in Int /\ r.value \in Nat
    BY <2>2
  <2>7. /\ n0 \in HistoryType
        /\ n0.since = (IF series[k].live THEN ghost[k].since ELSE 0) + d
        /\ n0.closes = ghost[k].closes /\ n0.seenAt = ghost[k].closes
        /\ n0.forwardedTo = ghost[k].forwardedTo
        /\ n0.counted = ghost[k].counted /\ n0.origin = ghost[k].origin
        /\ n0.received = ghost[k].received + 1
        /\ n0.aside = ghost[k].aside /\ n0.handedOn = ghost[k].handedOn
    <3> HIDE DEF t, d
    <3>1. PICK a \in Int, e \in Nat : a = r.at /\ e = d
      BY <2>2, <2>6
    <3>2. n0 = Noted(k, a, e)
      BY <3>1
    <3> DEFINE m == Noted(k, a, e)
    <3>3. /\ m \in HistoryType
          /\ m.since = (IF series[k].live THEN ghost[k].since ELSE 0) + e
          /\ m.closes = ghost[k].closes /\ m.seenAt = ghost[k].closes
          /\ m.forwardedTo = ghost[k].forwardedTo
          /\ m.counted = ghost[k].counted /\ m.origin = ghost[k].origin
          /\ m.received = ghost[k].received + 1
          /\ m.aside = ghost[k].aside /\ m.handedOn = ghost[k].handedOn
      BY NotedFacts
    <3> HIDE DEF n0, m
    <3>4. n0 = m
      BY <3>2 DEF m
    <3>5. QED
      BY <3>1, <3>3, <3>4
  <2> HIDE DEF t, n0
  <2>8. /\ c \in SeriesType
        /\ c.live = t.live /\ c.samples = t.samples /\ c.idle = t.idle /\ c.cum = t.cum
        /\ c.window = t.window + d
        /\ c.base = IF IsInvalid(t, r) THEN t.base
                    ELSE [valid |-> TRUE, value |-> r.value, at |-> r.at, epoch |-> r.epoch]
    BY <2>2, <2>5, CounterSeries
  <2> HIDE DEF c
  <2>9. /\ s \in SeriesType
        /\ s.live = c.live /\ s.samples = c.samples /\ s.idle = c.idle /\ s.cum = c.cum
        /\ s.window = c.window /\ s.base = c.base
    <3>1. [c EXCEPT !.kept = [at |-> r.at]] \in SeriesType
      BY <2>2, <2>8, SeriesFields
    <3>2. QED
      BY <2>8, <3>1 DEF WithKept, SeriesType
  <2> HIDE DEF s
  <2>10. /\ aside \in Nat /\ origin \in Int /\ counted \in Int
    <3>1. /\ n0.aside \in Nat /\ n0.origin \in Int /\ n0.counted \in Int
          /\ t.base.value \in Int
      BY <2>5, <2>7 DEF HistoryType, SeriesType, BaselineType
    <3>2. QED
      BY <2>6, <3>1
  <2> HIDE DEF aside, origin, counted
  <2>11. n1 \in HistoryType
    BY <2>7, <2>10, HistoryFields
  <2>12. n2 \in HistoryType
    <3> HIDE DEF n1
    <3>1. QED
      BY <2>10, <2>11, HistoryFields
  <2>13. n \in HistoryType
    <3> HIDE DEF n2
    <3>1. QED
      BY <2>10, <2>12, HistoryFields
  <2>14. /\ n.since = n0.since /\ n.closes = n0.closes /\ n.seenAt = n0.seenAt
         /\ n.forwardedTo = n0.forwardedTo /\ n.origin = origin /\ n.counted = counted
         /\ n.received = n0.received /\ n.aside = aside /\ n.handedOn = n0.handedOn
    BY <2>7 DEF HistoryType
  <2> HIDE DEF n
  <2>15. (series[k].base.valid => ghost[k].counted = series[k].base.value - ghost[k].origin)
          => (s.base.valid => n.counted = s.base.value - n.origin)
    <3> SUFFICES ASSUME series[k].base.valid =>
                          ghost[k].counted = series[k].base.value - ghost[k].origin
                 PROVE  s.base.valid => n.counted = s.base.value - n.origin
      OBVIOUS
    <3>0. /\ ghost[k].counted \in Int /\ ghost[k].origin \in Int /\ t.base.value \in Int
          /\ t.base.valid \in BOOLEAN
      BY <2>5 DEF TypeInv, HistoryType, SeriesType, BaselineType
    <3>1. t.base.valid => ghost[k].counted = t.base.value - ghost[k].origin
      BY <2>5
    <3>2. CASE ~t.base.valid \/ IsReset(t, r)
      <4>1. s.base.value = r.value /\ origin = r.value /\ counted = 0
        BY <2>3, <2>8, <2>9, <3>2 DEF origin, counted
      <4>2. QED
        BY <2>6, <2>14, <4>1
    <3>3. CASE t.base.valid /\ ~IsReset(t, r) /\ IsRate(t, r)
      <4>1. /\ s.base.value = r.value /\ origin = ghost[k].origin
            /\ counted = ghost[k].counted + (r.value - t.base.value)
        BY <2>3, <2>7, <2>8, <2>9, <3>3 DEF origin, counted
      <4>2. QED
        BY <2>6, <2>14, <3>0, <3>1, <3>3, <4>1
    <3>4. CASE t.base.valid /\ ~IsReset(t, r) /\ ~IsRate(t, r)
      <4>1. /\ s.base = t.base /\ origin = ghost[k].origin
            /\ counted = ghost[k].counted
        BY <2>3, <2>7, <2>8, <2>9, <3>4 DEF origin, counted
      <4>2. QED
        BY <2>14, <3>1, <3>4, <4>1
    <3>5. QED
      BY <3>2, <3>3, <3>4
  <2>16. /\ s.window = Found(k, "window") + d
         /\ n.since = (IF series[k].live THEN ghost[k].since ELSE 0) + d
    BY <2>5, <2>7, <2>8, <2>9, <2>14
  <2>17. Booked(k, s, n)
    <3>1. ghost[k].aside \in Nat /\ Found(k, "window") \in Nat
      BY DEF TypeInv, HistoryType, SeriesType, Found
    <3>2. aside + d = ghost[k].aside + 1
      BY <2>7, <3>1 DEF aside, d
    <3>3. Weight(s, k) = Found(k, "window") + d
      BY <2>1, <2>16 DEF Weight
    <3>4. QED
      BY <2>1, <2>2, <2>7, <2>10, <2>14, <3>1, <3>2, <3>3 DEF Booked
  <2> HIDE DEF d
  <2>18. Absorbed(k, s, n)
    BY <2>1, <2>2, <2>5, <2>7, <2>8, <2>9, <2>13, <2>14, <2>15, <2>16, <2>17 DEF Absorbed
  <2>19. QED
    BY <2>1, <2>18, EnvironmentFacts DEF Received, ReceiveCounter
<1>3. QED
  BY <1>1, <1>2

LEMMA EveryReceive ==
    ASSUME TypeInv, NEW k \in Series, Receive(k)
    PROVE  Received(k)
  BY PlainReceived, GaugeReceived, CounterReceived, DiscardReceived DEF Receive, ReceiveInvalid

------------------------------------------------------------------------------
(* The inductive invariant. *)

\* What a series s and its history g have in common.
SeriesFact(k, s, g) ==
    /\ ~s.live => s.samples = 0
    /\ s.samples = 0 => s.window = 0
    /\ s.live => IF s.samples = 0 THEN s.idle = g.closes - g.seenAt - 1
                 ELSE g.closes = g.seenAt
    /\ ~s.live => g.closes - g.seenAt > EvictAfter
    /\ Route[k].cumulative /\ s.live => s.cum + s.window = g.since
    /\ s.base.valid => g.counted = s.base.value - g.origin
    /\ Route[k].kind = "plain" /\ s.samples > 0 => s.last.at = g.newest

SeriesInv == \A k \in Series : SeriesFact(k, series[k], ghost[k])

\* Ends of windows are never ahead of the clock nor behind the window they close; what
\* is forwarded ends where the open window starts.
OrderInv ==
    /\ \A i \in Intervals : start[i] <= now
    /\ \A p \in Processes : pc[p] = "closing" =>
          start[job[p].send] <= job[p].end /\ job[p].end <= now
    /\ \A p \in Processes : \A x \in out[p] : x.end = start[Route[x.series].send]
    /\ \A k \in Series : ghost[k].forwardedTo <= start[Route[k].send]

\* A sample in a window is in one that Shutdown has still to close.
FlushInv ==
    /\ pc[Stopper] \in {"up", "waiting"} => todo = Intervals
    /\ pc[Stopper] = "down" => todo = {}
    /\ \A k \in Series :
          \/ series[k].samples = 0
          \/ Route[k].send \in todo
          \/ pc[Stopper] = "closing" /\ job[Stopper].send = Route[k].send

Inv == TypeInv /\ ControlInv /\ CountInv /\ OrderInv /\ FlushInv /\ SeriesInv

LEMMA InitAll == Init => Inv
<1> SUFFICES ASSUME Init PROVE Inv
    OBVIOUS
<1> USE ConstantFacts DEF Init
<1>1. OrderInv
  BY DEF OrderInv, NoHistory
<1>2. FlushInv
  BY DEF FlushInv, NoSeries
<1>3. SeriesInv
  BY DEF SeriesInv, SeriesFact, NoSeries, NoBaseline, NoHistory
<1>4. QED
  BY <1>1, <1>2, <1>3, InitInv DEF Inv

LEMMA AbsorbedFact ==
    ASSUME TypeInv, SeriesInv, CountInv, NEW k \in Series, NEW s, NEW n, Absorbed(k, s, n)
    PROVE  /\ SeriesFact(k, s, n)
           /\ s.samples <= received + 1
           /\ s.cum + s.window <= received + 1
<1> USE ConstantFacts
<1>1. series[k] \in SeriesType /\ ghost[k] \in HistoryType /\ received \in Nat
  BY DEF TypeInv
<1>2. SeriesFact(k, series[k], ghost[k])
  BY DEF SeriesInv
<1>3. /\ Found(k, "samples") \in Nat /\ Found(k, "samples") <= received
      /\ Found(k, "cum") \in Nat /\ Found(k, "window") \in Nat
      /\ Found(k, "cum") + Found(k, "window") <= received
  BY <1>1 DEF CountInv, Found, SeriesType
<1>4. PICK d \in {0, 1} : /\ s.window = Found(k, "window") + d
                          /\ n.since = (IF series[k].live THEN ghost[k].since ELSE 0) + d
  BY DEF Absorbed
<1>5. /\ s.samples = Found(k, "samples") + 1 /\ s.cum = Found(k, "cum") /\ s.live
      /\ n.closes = ghost[k].closes /\ n.seenAt = ghost[k].closes
  BY DEF Absorbed
<1>6. s.samples <= received + 1 /\ s.cum + s.window <= received + 1 /\ s.samples > 0
  BY <1>1, <1>3, <1>4, <1>5
<1>7. Route[k].cumulative => s.cum + s.window = n.since
  <2>1. CASE series[k].live
    BY <1>1, <1>2, <1>4, <1>5, <2>1 DEF SeriesFact, Found, SeriesType, HistoryType
  <2>2. CASE ~series[k].live
    BY <1>4, <1>5, <2>2 DEF Found
  <2>3. QED
    BY <2>1, <2>2
<1>8. s.base.valid => n.counted = s.base.value - n.origin
  BY <1>2 DEF Absorbed, SeriesFact
<1>9. Route[k].kind = "plain" => s.last.at = n.newest
  BY <1>2 DEF Absorbed, SeriesFact
<1>10. n.closes = n.seenAt
  BY <1>5
<1>11. QED
  BY <1>5, <1>6, <1>7, <1>8, <1>9, <1>10 DEF SeriesFact

LEMMA ReceivedInv ==
    ASSUME Inv, NEW k \in Series, Received(k)
    PROVE  Inv'
<1> USE ConstantFacts DEF Inv
<1>1. /\ pc[Stopper] = "up"
      /\ received' = received + 1 /\ received' \in 0 .. MaxSamples /\ received \in Nat
      /\ UNCHANGED <<now, tick, pc, job, out, start, todo>>
  BY DEF Received, TypeInv
<1>2. /\ series \in [Series -> SeriesType] /\ ghost \in [Series -> HistoryType]
      /\ out \in [Processes -> SUBSET PointType]
  BY DEF TypeInv
<1>3. PICK s, n :
        /\ s \in SeriesType /\ n \in HistoryType
        /\ series' = [series EXCEPT ![k] = s] /\ ghost' = [ghost EXCEPT ![k] = n]
        /\ SeriesFact(k, s, n)
        /\ s.samples <= received + 1 /\ s.cum + s.window <= received + 1
        /\ n.forwardedTo = ghost[k].forwardedTo
  <2>1. CASE \E s, n : /\ Absorbed(k, s, n)
                       /\ series' = [series EXCEPT ![k] = s]
                       /\ ghost' = [ghost EXCEPT ![k] = n]
    <3>1. PICK s, n : /\ Absorbed(k, s, n)
                      /\ series' = [series EXCEPT ![k] = s]
                      /\ ghost' = [ghost EXCEPT ![k] = n]
      BY <2>1
    <3>2. QED
      BY <3>1, AbsorbedFact DEF Absorbed
  <2>2. CASE /\ series' = series
             /\ \E n \in HistoryType :
                  /\ ghost' = [ghost EXCEPT ![k] = n]
                  /\ n.received = ghost[k].received + 1 /\ n.aside = ghost[k].aside + 1
                  /\ n.handedOn = ghost[k].handedOn
                  /\ n.since = ghost[k].since /\ n.closes = ghost[k].closes
                  /\ n.seenAt = ghost[k].seenAt /\ n.forwardedTo = ghost[k].forwardedTo
                  /\ n.counted = ghost[k].counted /\ n.origin = ghost[k].origin
                  /\ n.newest = ghost[k].newest
    <3>1. PICK n \in HistoryType :
                  /\ ghost' = [ghost EXCEPT ![k] = n]
                  /\ n.received = ghost[k].received + 1 /\ n.aside = ghost[k].aside + 1
                  /\ n.handedOn = ghost[k].handedOn
                  /\ n.since = ghost[k].since /\ n.closes = ghost[k].closes
                  /\ n.seenAt = ghost[k].seenAt /\ n.forwardedTo = ghost[k].forwardedTo
                  /\ n.counted = ghost[k].counted /\ n.origin = ghost[k].origin
                  /\ n.newest = ghost[k].newest
      BY <2>2
    <3>2. SeriesFact(k, series[k], ghost[k])
      BY DEF SeriesInv
    <3>3. SeriesFact(k, series[k], n)
      BY <3>1, <3>2 DEF SeriesFact
    <3>4. /\ series[k] \in SeriesType
          /\ series[k].samples <= received + 1
          /\ series[k].cum + series[k].window <= received + 1
      BY <1>1, <1>2 DEF CountInv, SeriesType
    <3>5. series' = [series EXCEPT ![k] = series[k]]
      BY <1>2, <2>2
    <3>6. QED
      BY <3>1, <3>3, <3>4, <3>5
  <2>3. QED
    BY <2>1, <2>2 DEF Received
<1>4. TypeInv'
  BY <1>1, <1>2, <1>3 DEF TypeInv
<1>5. ControlInv'
  BY <1>1 DEF ControlInv
<1>6. CountInv'
  <2>1. \A j \in Series : /\ series[j].samples \in Nat /\ series[j].cum \in Nat
                          /\ series[j].window \in Nat
    BY <1>2 DEF SeriesType
  <2>2. \A p \in Processes : \A x \in out[p] : x.weight \in Nat
    BY <1>2 DEF PointType
  <2>3. \A j \in Series : /\ series'[j].samples <= received'
                          /\ series'[j].cum + series'[j].window <= received'
    BY <1>1, <1>2, <1>3, <2>1 DEF CountInv
  <2>4. \A p \in Processes : \A x \in out'[p] : x.weight <= received'
    BY <1>1, <2>2 DEF CountInv
  <2>5. QED
    BY <2>3, <2>4 DEF CountInv
<1>7. OrderInv'
  BY <1>1, <1>2, <1>3 DEF OrderInv
<1>8. FlushInv'
  BY <1>1 DEF FlushInv
<1>9. SeriesInv'
  BY <1>2, <1>3 DEF SeriesInv
<1>10. QED
  BY <1>4, <1>5, <1>6, <1>7, <1>8, <1>9

------------------------------------------------------------------------------
(* What closing a window does to a series. *)

\* The history of a series whose window is closed.
ClosedHistory(g) == [g EXCEPT !.closes = @ + 1]

\* A series s whose window is closed becomes c: it was absent, is evicted, has been
\* idle for one window more, or has its window emptied.
Closed(k, s, c) ==
    /\ c \in SeriesType
    /\ \/ ~s.live /\ c = s
       \/ s.live /\ s.samples = 0 /\ s.idle + 1 >= EvictAfter /\ c = NoSeries
       \/ /\ s.live /\ s.samples = 0
          /\ c.live /\ c.samples = 0 /\ c.idle = s.idle + 1
          /\ c.window = s.window /\ c.cum = s.cum
          /\ c.base = s.base
       \/ /\ s.live /\ s.samples > 0
          /\ c.live /\ c.samples = 0 /\ c.idle = 0
          /\ c.window = 0
          /\ c.cum = (IF Route[k].cumulative THEN s.cum + s.window ELSE s.cum)
          /\ c.base = s.base

LEMMA ClosedType ==
    ASSUME NEW k \in Series, NEW s \in SeriesType
    PROVE  Closed(k, s, ClosedSeries(k, s))
<1> USE ConstantFacts
<1> DEFINE cum == IF Route[k].cumulative THEN s.cum + s.window ELSE s.cum
           s1 == [s EXCEPT !.samples = 0]
           s2 == [s1 EXCEPT !.idle = 0]
           s3 == [s2 EXCEPT !.kept = NoPoint]
           s4 == [s3 EXCEPT !.window = 0]
           s5 == [s4 EXCEPT !.cum = cum]
           aged == [s EXCEPT !.idle = s.idle + 1]
<1>1. /\ s.live \in BOOLEAN /\ s.samples \in Nat /\ s.idle \in 0 .. EvictAfter - 1
      /\ s.cum \in Nat /\ s.window \in Nat
  BY DEF SeriesType
<1>2. cum \in Nat /\ 0 \in Nat /\ 0 \in 0 .. EvictAfter - 1 /\ NoPoint \in [at : Times]
  BY <1>1, NoSeriesType
<1>3. /\ s5.live = s.live /\ s5.samples = 0 /\ s5.idle = 0 /\ s5.window = 0
      /\ s5.cum = cum /\ s5.base = s.base
  BY DEF SeriesType
<1>4. s5 = [s EXCEPT !.samples = 0, !.idle = 0, !.kept = NoPoint, !.window = 0,
                     !.cum = IF Route[k].cumulative THEN @ + s.window ELSE @]
  BY DEF SeriesType
<1> HIDE DEF cum
<1>5. s1 \in SeriesType
  BY <1>2, SeriesFields
<1>6. s2 \in SeriesType
  <2> HIDE DEF s1
  <2> QED BY <1>2, <1>5, SeriesFields
<1>7. s3 \in SeriesType
  <2> HIDE DEF s2
  <2> QED BY <1>2, <1>6, SeriesFields
<1>8. s4 \in SeriesType
  <2> HIDE DEF s3
  <2> QED BY <1>2, <1>7, SeriesFields
<1>9. s5 \in SeriesType
  <2> HIDE DEF s4
  <2> QED BY <1>2, <1>8, SeriesFields
<1> HIDE DEF s5
<1>10. CASE ~s.live
  BY <1>10 DEF ClosedSeries, Closed
<1>11. CASE s.live /\ s.samples = 0 /\ s.idle + 1 >= EvictAfter
  BY <1>11, NoSeriesType DEF ClosedSeries, Closed
<1>12. CASE s.live /\ s.samples = 0 /\ ~(s.idle + 1 >= EvictAfter)
  <2>1. s.idle + 1 \in 0 .. EvictAfter - 1
    BY <1>1, <1>12
  <2>2. aged \in SeriesType
    BY <2>1, SeriesFields
  <2>3. /\ aged.live = s.live /\ aged.samples = s.samples /\ aged.idle = s.idle + 1
        /\ aged.window = s.window /\ aged.cum = s.cum /\ aged.base = s.base
    BY DEF SeriesType
  <2>4. ClosedSeries(k, s) = aged
    BY <1>12 DEF ClosedSeries
  <2> HIDE DEF aged
  <2>5. QED
    BY <1>12, <2>2, <2>3, <2>4 DEF Closed
<1>13. CASE s.live /\ s.samples # 0
  <2>1. ClosedSeries(k, s) = s5
    BY <1>4, <1>13 DEF ClosedSeries
  <2>2. s5.live /\ s.samples > 0
    BY <1>1, <1>3, <1>13
  <2>3. s5.cum = (IF Route[k].cumulative THEN s.cum + s.window ELSE s.cum)
    BY <1>3 DEF cum
  <2>4. QED
    BY <1>3, <1>9, <1>13, <2>1, <2>2, <2>3 DEF Closed
<1>14. QED
  BY <1>1, <1>10, <1>11, <1>12, <1>13

LEMMA ClosedFact ==
    ASSUME NEW k \in Series, NEW s \in SeriesType, NEW g \in HistoryType,
           SeriesFact(k, s, g)
    PROVE  LET c == ClosedSeries(k, s) IN
           /\ SeriesFact(k, c, ClosedHistory(g))
           /\ c.samples = 0
           /\ c.cum + c.window <= s.cum + s.window
<1> USE ConstantFacts
<1> DEFINE c == ClosedSeries(k, s)
           h == ClosedHistory(g)
<1> SUFFICES /\ SeriesFact(k, c, h) /\ c.samples = 0
             /\ c.cum + c.window <= s.cum + s.window
    OBVIOUS
<1>1. /\ h.closes = g.closes + 1 /\ h.seenAt = g.seenAt /\ h.since = g.since
      /\ h.counted = g.counted /\ h.origin = g.origin /\ h.newest = g.newest
      /\ g.closes \in Nat /\ g.seenAt \in Int
  BY DEF ClosedHistory, HistoryType
<1>2. /\ s.live \in BOOLEAN /\ s.samples \in Nat /\ s.idle \in 0 .. EvictAfter - 1
      /\ s.cum \in Nat /\ s.window \in Nat
  BY DEF SeriesType
<1>3. /\ c \in SeriesType
      /\ \/ ~s.live /\ c = s
         \/ s.live /\ s.samples = 0 /\ s.idle + 1 >= EvictAfter /\ c = NoSeries
         \/ /\ s.live /\ s.samples = 0
            /\ c.live /\ c.samples = 0 /\ c.idle = s.idle + 1
            /\ c.window = s.window /\ c.cum = s.cum
            /\ c.base = s.base
         \/ /\ s.live /\ s.samples > 0
            /\ c.live /\ c.samples = 0 /\ c.idle = 0
            /\ c.window = 0
            /\ c.cum = (IF Route[k].cumulative THEN s.cum + s.window ELSE s.cum)
            /\ c.base = s.base
  BY ClosedType DEF Closed
<1> HIDE DEF c, h
<1>4. CASE ~s.live /\ c = s
  BY <1>1, <1>2, <1>4 DEF SeriesFact
<1>5. CASE s.live /\ s.samples = 0 /\ s.idle + 1 >= EvictAfter /\ c = NoSeries
  <2>1. ~c.live /\ c.samples = 0 /\ c.cum = 0 /\ c.window = 0 /\ ~c.base.valid
    BY <1>5 DEF NoSeries, NoBaseline
  <2>2. h.closes - h.seenAt > EvictAfter
    BY <1>1, <1>2, <1>5 DEF SeriesFact
  <2>3. SeriesFact(k, c, h)
    BY <2>1, <2>2 DEF SeriesFact
  <2>4. QED
    BY <1>2, <2>1, <2>3
<1>6. CASE /\ s.live /\ s.samples = 0
           /\ c.live /\ c.samples = 0 /\ c.idle = s.idle + 1
           /\ c.window = s.window /\ c.cum = s.cum
           /\ c.base = s.base
  <2>1. c.idle = h.closes - h.seenAt - 1
    BY <1>1, <1>2, <1>6 DEF SeriesFact
  <2>2. SeriesFact(k, c, h)
    BY <1>1, <1>6, <2>1 DEF SeriesFact
  <2>3. QED
    BY <1>2, <1>6, <2>2
<1>7. CASE /\ s.live /\ s.samples > 0
           /\ c.live /\ c.samples = 0 /\ c.idle = 0
           /\ c.window = 0
           /\ c.cum = (IF Route[k].cumulative THEN s.cum + s.window ELSE s.cum)
           /\ c.base = s.base
  <2>1. c.idle = h.closes - h.seenAt - 1
    BY <1>1, <1>2, <1>7 DEF SeriesFact
  <2>2. Route[k].cumulative => c.cum + c.window = h.since
    BY <1>1, <1>2, <1>7 DEF SeriesFact
  <2>3. SeriesFact(k, c, h)
    BY <1>1, <1>7, <2>1, <2>2 DEF SeriesFact
  <2>4. QED
    BY <1>2, <1>7, <2>3
<1>8. QED
  BY <1>3, <1>4, <1>5, <1>6, <1>7

------------------------------------------------------------------------------
(* Closing and forwarding. *)

LEMMA PointFacts ==
    ASSUME TypeInv, CountInv, NEW k \in Series, NEW from \in Nat, NEW end \in 0 .. MaxTime
    PROVE  /\ Point(k, from, end) \in PointType
           /\ Point(k, from, end).weight <= received
           /\ Point(k, from, end).end = end
           /\ Point(k, from, end).series = k
<1>1. series[k] \in SeriesType /\ received \in Nat
  BY DEF TypeInv
<1>2. /\ series[k].samples \in Nat /\ series[k].window \in Nat /\ series[k].cum \in Nat
      /\ series[k].firstSeen \in Nat
  BY <1>1, ConstantFacts DEF SeriesType
<1>3. Weight(series[k], k) \in Nat /\ Weight(series[k], k) <= received
  BY <1>1, <1>2 DEF Weight, CountInv
<1>4. QED
  BY <1>2, <1>3 DEF Point, PointType

LEMMA WindowStarts ==
    ASSUME TypeInv
    PROVE  \A i \in Intervals : start[i] \in Nat
<1>1. start \in [Intervals -> 0 .. MaxTime] /\ MaxTime \in Nat
  BY ConstantFacts DEF TypeInv
<1>2. \A i \in Intervals : start[i] \in 0 .. MaxTime
  BY <1>1
<1>3. QED
  BY <1>1, <1>2

\* What p forwards after it has closed the window of interval i.
Sent(p) == {Point(k, start[job[p].send], job[p].end) :
               k \in {j \in SeriesOf(job[p].send) : HasPoint(j)}}

LEMMA CollectFacts ==
    ASSUME Inv, NEW p \in Processes, Collect(p)
    PROVE  /\ pc[p] = "closing" /\ job[p].send \in Intervals /\ job[p].end \in 0 .. MaxTime
           /\ out' = [out EXCEPT ![p] = Sent(p)]
           /\ job' = [job EXCEPT ![p] = NoJob]
           /\ \/ pc' = [pc EXCEPT ![p] = "forwarding"]
              \/ pc' = [pc EXCEPT ![p] = AfterForward(p)] /\ Sent(p) = {}
           /\ \A k \in Series :
                 /\ Route[k].send = job[p].send =>
                       /\ series'[k] = ClosedSeries(k, series[k])
                       /\ ghost'[k] = ClosedHistory(ghost[k])
                 /\ Route[k].send # job[p].send =>
                       series'[k] = series[k] /\ ghost'[k] = ghost[k]
           /\ start' = [start EXCEPT ![job[p].send] = job[p].end]
           /\ UNCHANGED <<now, tick, todo, received>>
           /\ \A x \in Sent(p) :
                 /\ x \in PointType /\ x.weight <= received
                 /\ x.end = job[p].end
                 /\ Route[x.series].send = job[p].send
           /\ \A q \in Processes : pc[q] = "closing" /\ q # p => job[q].send # job[p].send
           /\ \A q \in Processes : q # p =>
                 \A x \in out[q] : Route[x.series].send # job[p].send
<1> USE ConstantFacts DEF Inv
<1>1. pc[p] = "closing" /\ job[p].send \in Intervals /\ job[p].end \in 0 .. MaxTime
  BY DEF Collect, ControlInv, TypeInv
<1>2. /\ out' = [out EXCEPT ![p] = Sent(p)]
      /\ job' = [job EXCEPT ![p] = NoJob]
      /\ start' = [start EXCEPT ![job[p].send] = job[p].end]
      /\ UNCHANGED <<now, tick, todo, received>>
  BY DEF Collect, Sent
<1>3. \/ pc' = [pc EXCEPT ![p] = "forwarding"]
      \/ pc' = [pc EXCEPT ![p] = AfterForward(p)] /\ Sent(p) = {}
  <2>1. CASE {k \in SeriesOf(job[p].send) : HasPoint(k)} = {}
    BY <2>1 DEF Collect, Sent
  <2>2. CASE {k \in SeriesOf(job[p].send) : HasPoint(k)} # {}
    BY <2>2 DEF Collect
  <2>3. QED
    BY <2>1, <2>2
<1>4. \A k \in Series :
         /\ Route[k].send = job[p].send =>
               /\ series'[k] = ClosedSeries(k, series[k])
               /\ ghost'[k] = ClosedHistory(ghost[k])
         /\ Route[k].send # job[p].send =>
               series'[k] = series[k] /\ ghost'[k] = ghost[k]
  BY DEF Collect, ClosedHistory
<1>5. \A x \in Sent(p) :
         /\ x \in PointType /\ x.weight <= received
         /\ x.end = job[p].end
         /\ Route[x.series].send = job[p].send
  <2> SUFFICES ASSUME NEW x \in Sent(p)
               PROVE  /\ x \in PointType /\ x.weight <= received
                      /\ x.end = job[p].end
                      /\ Route[x.series].send = job[p].send
    OBVIOUS
  <2>1. PICK k \in SeriesOf(job[p].send) : x = Point(k, start[job[p].send], job[p].end)
    BY DEF Sent
  <2>2. k \in Series /\ Route[k].send = job[p].send
    BY DEF SeriesOf
  <2>3. start[job[p].send] \in Nat
    BY <1>1, WindowStarts
  <2>4. QED
    BY <1>1, <2>1, <2>2, <2>3, PointFacts
<1>6. \A q \in Processes : pc[q] = "closing" /\ q # p => job[q].send # job[p].send
  <2> SUFFICES ASSUME NEW q \in Processes, q # p, pc[q] = "closing",
                      job[q].send = job[p].send
               PROVE  FALSE
    OBVIOUS
  <2>1. /\ q \in Intervals => q = job[p].send
        /\ p \in Intervals => p = job[p].send
    BY <1>1 DEF ControlInv
  <2>2. p = Stopper \/ q = Stopper
    BY <2>1
  <2>3. QED
    BY <1>1, <2>2 DEF ControlInv
<1>7. \A q \in Processes : q # p =>
         \A x \in out[q] : Route[x.series].send # job[p].send
  <2> SUFFICES ASSUME NEW q \in Processes, q # p, NEW x \in out[q],
                      Route[x.series].send = job[p].send
               PROVE  FALSE
    OBVIOUS
  <2>1. pc[q] = "forwarding"
    BY DEF ControlInv
  <2>2. q \in Intervals => q = job[p].send
    BY DEF ControlInv
  <2>3. p \in Intervals => p = job[p].send
    BY <1>1 DEF ControlInv
  <2>4. p = Stopper \/ q = Stopper
    BY <2>2, <2>3
  <2>5. QED
    BY <1>1, <2>1, <2>4 DEF ControlInv
<1>8. QED
  BY <1>1, <1>2, <1>3, <1>4, <1>5, <1>6, <1>7

LEMMA CollectInv ==
    ASSUME Inv, NEW p \in Processes, Collect(p)
    PROVE  Inv'
<1> USE ConstantFacts DEF Inv
<1> DEFINE i == job[p].send
           end == job[p].end
<1>1. /\ pc[p] = "closing" /\ i \in Intervals /\ end \in 0 .. MaxTime
      /\ out' = [out EXCEPT ![p] = Sent(p)]
      /\ job' = [job EXCEPT ![p] = NoJob]
      /\ start' = [start EXCEPT ![i] = end]
      /\ UNCHANGED <<now, tick, todo, received>>
  BY CollectFacts
<1>2. \/ pc' = [pc EXCEPT ![p] = "forwarding"]
      \/ pc' = [pc EXCEPT ![p] = AfterForward(p)] /\ Sent(p) = {}
  BY CollectFacts
<1>3. \A k \in Series :
         /\ Route[k].send = i => /\ series'[k] = ClosedSeries(k, series[k])
                                 /\ ghost'[k] = ClosedHistory(ghost[k])
         /\ Route[k].send # i => series'[k] = series[k] /\ ghost'[k] = ghost[k]
  BY CollectFacts
<1>4. \A x \in Sent(p) : /\ x \in PointType /\ x.weight <= received
                         /\ x.end = end /\ Route[x.series].send = i
  BY CollectFacts
<1>5. /\ \A q \in Processes : pc[q] = "closing" /\ q # p => job[q].send # i
      /\ \A q \in Processes : q # p => \A x \in out[q] : Route[x.series].send # i
  BY CollectFacts
<1>6. \A k \in Series : /\ series[k] \in SeriesType /\ ghost[k] \in HistoryType
                        /\ SeriesFact(k, series[k], ghost[k])
  BY DEF TypeInv, SeriesInv
<1>7. \A k \in Series :
         /\ series'[k] \in SeriesType /\ ghost'[k] \in HistoryType
         /\ SeriesFact(k, series'[k], ghost'[k])
         /\ ghost'[k].forwardedTo = ghost[k].forwardedTo
         /\ Route[k].send = i => series'[k].samples = 0
         /\ series'[k].samples \in {series[k].samples, 0}
         /\ series'[k].cum + series'[k].window <= series[k].cum + series[k].window
  <2> SUFFICES ASSUME NEW k \in Series
               PROVE  /\ series'[k] \in SeriesType /\ ghost'[k] \in HistoryType
                      /\ SeriesFact(k, series'[k], ghost'[k])
                      /\ ghost'[k].forwardedTo = ghost[k].forwardedTo
                      /\ Route[k].send = i => series'[k].samples = 0
                      /\ series'[k].samples \in {series[k].samples, 0}
                      /\ series'[k].cum + series'[k].window
                            <= series[k].cum + series[k].window
    OBVIOUS
  <2>1. CASE Route[k].send = i
    <3>1. /\ ClosedSeries(k, series[k]) \in SeriesType
          /\ SeriesFact(k, ClosedSeries(k, series[k]), ClosedHistory(ghost[k]))
          /\ ClosedSeries(k, series[k]).samples = 0
          /\ ClosedSeries(k, series[k]).cum + ClosedSeries(k, series[k]).window
                <= series[k].cum + series[k].window
      BY <1>6, ClosedType, ClosedFact DEF Closed
    <3>2. /\ ClosedHistory(ghost[k]) \in HistoryType
          /\ ClosedHistory(ghost[k]).forwardedTo = ghost[k].forwardedTo
      BY <1>6 DEF ClosedHistory, HistoryType
    <3>3. QED
      BY <1>3, <2>1, <3>1, <3>2
  <2>2. CASE Route[k].send # i
    BY <1>3, <1>6, <2>2 DEF SeriesType
  <2>3. QED
    BY <2>1, <2>2
<1>8. /\ series' \in [Series -> SeriesType] /\ ghost' \in [Series -> HistoryType]
  <2>1. series' = [k \in Series |-> series'[k]] /\ ghost' = [k \in Series |-> ghost'[k]]
    BY DEF Collect
  <2>2. QED
    BY <1>7, <2>1
<1>9. pc' \in [Processes -> ProgramPoints] /\ pc'[p] # "closing" /\ pc'[p] # "down"
      /\ pc'[p] # "up" /\ pc'[p] # "waiting"
      /\ (p = Stopper => pc'[p] \in {"forwarding", "flushing"})
      /\ (p # Stopper => pc'[p] \in {"forwarding", "select"})
      /\ \A q \in Processes : q # p => pc'[q] = pc[q]
      /\ (Sent(p) # {} => pc'[p] = "forwarding")
  BY <1>2 DEF TypeInv, AfterForward, ProgramPoints
<1> HIDE DEF i, end
<1>10. TypeInv'
  <2>1. out' \in [Processes -> SUBSET PointType]
    BY <1>1, <1>4 DEF TypeInv
  <2>2. job' \in [Processes -> [send : Intervals \cup {0}, end : 0 .. MaxTime]]
    BY <1>1 DEF TypeInv, NoJob
  <2>3. start' \in [Intervals -> 0 .. MaxTime]
    BY <1>1 DEF TypeInv
  <2>4. QED
    BY <1>1, <1>8, <1>9, <2>1, <2>2, <2>3 DEF TypeInv
<1>11. ControlInv'
  <2>1. /\ \A j \in Intervals : pc'[j] \in {"select", "closing", "forwarding", "exited"}
        /\ pc'[Stopper] \in {"up", "waiting", "flushing", "closing", "forwarding", "down"}
    BY <1>9 DEF ControlInv
  <2>2. \A q \in Processes : pc'[q] = "closing" =>
           job'[q].send \in Intervals /\ (q \in Intervals => job'[q].send = q)
    BY <1>1, <1>9 DEF ControlInv, TypeInv
  <2>3. pc'[Stopper] \in {"flushing", "closing", "forwarding", "down"} =>
           \A j \in Intervals : pc'[j] = "exited"
    <3>1. CASE p = Stopper
      BY <1>1, <1>9, <3>1 DEF ControlInv
    <3>2. CASE p # Stopper
      BY <1>1, <1>9, <3>2 DEF ControlInv
    <3>3. QED
      BY <3>1, <3>2
  <2>4. \A q \in Processes : out'[q] # {} => pc'[q] = "forwarding"
    BY <1>1, <1>9 DEF ControlInv, TypeInv
  <2>5. \A q \in Processes : \A x \in out'[q] : q \in Intervals => Route[x.series].send = q
    <3>1. p \in Intervals => i = p
      BY <1>1 DEF ControlInv, i
    <3>2. QED
      BY <1>1, <1>4, <3>1 DEF ControlInv, TypeInv
  <2>6. QED
    BY <2>1, <2>2, <2>3, <2>4, <2>5 DEF ControlInv
<1>12. CountInv'
  <2>1. \A k \in Series : series'[k].samples <= received'
    BY <1>1, <1>7 DEF CountInv, TypeInv
  <2>2. \A k \in Series : series'[k].cum + series'[k].window <= received'
    <3> SUFFICES ASSUME NEW k \in Series
                 PROVE  series'[k].cum + series'[k].window <= received'
      OBVIOUS
    <3>1. /\ series'[k].cum \in Nat /\ series'[k].window \in Nat
          /\ series[k].cum \in Nat /\ series[k].window \in Nat
      BY <1>6, <1>7 DEF SeriesType
    <3>2. QED
      BY <1>1, <1>7, <3>1 DEF CountInv, TypeInv
  <2>3. \A q \in Processes : \A x \in out'[q] : x.weight <= received'
    BY <1>1, <1>4 DEF CountInv, TypeInv
  <2>4. QED
    BY <2>1, <2>2, <2>3 DEF CountInv
<1>13. start[i] <= end /\ end <= now
  BY <1>1 DEF OrderInv, i, end
<1>14. OrderInv'
  <2>1. \A j \in Intervals : start'[j] >= start[j] /\ start'[j] <= now'
    BY <1>1, <1>13 DEF OrderInv, TypeInv
  <2>2. \A q \in Processes : pc'[q] = "closing" =>
           start'[job'[q].send] <= job'[q].end /\ job'[q].end <= now'
    BY <1>1, <1>5, <1>9 DEF OrderInv, ControlInv, TypeInv
  <2>3. \A q \in Processes : \A x \in out'[q] : x.end = start'[Route[x.series].send]
    <3> SUFFICES ASSUME NEW q \in Processes, NEW x \in out'[q]
                 PROVE  x.end = start'[Route[x.series].send]
      OBVIOUS
    <3>1. CASE q = p
      BY <1>1, <1>4, <3>1 DEF TypeInv
    <3>2. CASE q # p
      <4>1. x \in out[q] /\ Route[x.series].send # i
        BY <1>1, <1>5, <3>2 DEF TypeInv
      <4>2. x.series \in Series
        BY <4>1 DEF TypeInv, PointType
      <4>3. QED
        BY <1>1, <4>1, <4>2 DEF OrderInv, TypeInv
    <3>3. QED
      BY <3>1, <3>2
  <2>4. \A k \in Series : ghost'[k].forwardedTo <= start'[Route[k].send]
    <3> SUFFICES ASSUME NEW k \in Series
                 PROVE  ghost'[k].forwardedTo <= start'[Route[k].send]
      OBVIOUS
    <3>0. \A j \in Intervals : start'[j] \in Nat
      <4>1. \A j \in Intervals : start'[j] \in 0 .. MaxTime
        BY <1>10 DEF TypeInv
      <4>2. QED
        BY <4>1
    <3>1. /\ ghost[k].forwardedTo \in Nat /\ start[Route[k].send] \in Nat
          /\ start'[Route[k].send] \in Nat
      BY <1>6, <3>0, WindowStarts DEF HistoryType
    <3>2. ghost[k].forwardedTo <= start[Route[k].send]
      BY DEF OrderInv
    <3>3. PICK j \in Intervals : j = Route[k].send
      OBVIOUS
    <3>4. start'[j] >= start[j]
      BY <2>1
    <3>5. ghost'[k].forwardedTo = ghost[k].forwardedTo
      BY <1>7
    <3>6. QED
      BY <3>1, <3>2, <3>3, <3>4, <3>5
  <2>5. QED
    BY <2>1, <2>2, <2>3, <2>4 DEF OrderInv
<1>15. FlushInv'
  <2>1. todo' = todo
    BY <1>1
  <2>2. \A k \in Series :
          \/ series'[k].samples = 0
          \/ Route[k].send \in todo'
          \/ pc'[Stopper] = "closing" /\ job'[Stopper].send = Route[k].send
    <3>1. CASE p = Stopper
      BY <1>1, <1>7, <3>1 DEF FlushInv, i
    <3>2. CASE p # Stopper
      <4>1. pc'[Stopper] = pc[Stopper] /\ job'[Stopper] = job[Stopper]
        BY <1>1, <1>9, <3>2 DEF TypeInv
      <4>2. QED
        BY <1>7, <2>1, <4>1 DEF FlushInv
    <3>3. QED
      BY <3>1, <3>2
  <2>3. (pc'[Stopper] \in {"up", "waiting"} => todo' = Intervals)
        /\ (pc'[Stopper] = "down" => todo' = {})
    BY <1>9, <2>1 DEF FlushInv
  <2>4. QED
    BY <2>2, <2>3 DEF FlushInv
<1>16. SeriesInv'
  BY <1>7 DEF SeriesInv
<1>17. QED
  BY <1>10, <1>11, <1>12, <1>14, <1>15, <1>16

\* A forward adds to what was handed on and moves the end of it, nothing else.
LEMMA ForwardedFacts ==
    ASSUME Inv, NEW p \in Processes, Forwarded(p), NEW k \in Series
    PROVE  /\ ghost'[k] \in HistoryType
           /\ ghost'[k].since = ghost[k].since /\ ghost'[k].closes = ghost[k].closes
           /\ ghost'[k].seenAt = ghost[k].seenAt /\ ghost'[k].newest = ghost[k].newest
           /\ ghost'[k].counted = ghost[k].counted /\ ghost'[k].origin = ghost[k].origin
           /\ ghost'[k].forwardedTo >= ghost[k].forwardedTo
           /\ ghost'[k].forwardedTo <= start[Route[k].send]
<1> USE ConstantFacts DEF Inv
<1> DEFINE g == ghost[k]
           mine == {x \in out[p] : x.series = k}
<1>1. g \in HistoryType /\ g.forwardedTo \in Nat /\ g.forwardedTo <= start[Route[k].send]
  BY DEF TypeInv, HistoryType, OrderInv
<1>2. ghost'[k] = IF mine = {} THEN g
                  ELSE LET x == CHOOSE y \in mine : TRUE
                       IN  [g EXCEPT !.handedOn = @ + x.weight, !.forwardedTo = x.end]
  BY DEF Forwarded
<1> HIDE DEF g
<1>3. CASE mine = {}
  BY <1>1, <1>2, <1>3 DEF g
<1>4. CASE mine # {}
  <2>1. PICK x \in mine :
           ghost'[k] = [g EXCEPT !.handedOn = @ + x.weight, !.forwardedTo = x.end]
    BY <1>2, <1>4
  <2>2. x \in out[p] /\ x.series = k
    OBVIOUS
  <2>3. x.weight \in Nat /\ x.end \in 0 .. MaxTime /\ x.end = start[Route[k].send]
    BY <2>2 DEF TypeInv, PointType, OrderInv
  <2>4. x.end \in Nat
    BY <2>3
  <2> DEFINE g1 == [g EXCEPT !.handedOn = g.handedOn + x.weight]
             g2 == [g1 EXCEPT !.forwardedTo = x.end]
  <2>5. g.handedOn + x.weight \in Nat
    BY <1>1, <2>3 DEF HistoryType
  <2>6. g1 \in HistoryType
    BY <1>1, <2>5, HistoryFields
  <2>7. g2 \in HistoryType
    <3> HIDE DEF g1
    <3>1. QED
      BY <2>4, <2>6, HistoryFields
  <2>8. ghost'[k] = g2
    BY <1>1, <2>1 DEF HistoryType
  <2>9. /\ g2.since = g.since /\ g2.closes = g.closes
        /\ g2.seenAt = g.seenAt /\ g2.newest = g.newest
        /\ g2.counted = g.counted /\ g2.origin = g.origin
        /\ g2.forwardedTo = x.end
    BY <1>1 DEF HistoryType
  <2> HIDE DEF g2
  <2>10. x.end >= g.forwardedTo /\ x.end <= start[Route[k].send]
    BY <1>1, <2>3, <2>4
  <2>11. QED
    BY <2>7, <2>8, <2>9, <2>10 DEF g
<1>5. QED
  BY <1>3, <1>4

LEMMA ForwardedInv ==
    ASSUME Inv, NEW p \in Processes, Forwarded(p)
    PROVE  Inv'
<1> USE ConstantFacts DEF Inv
<1>1. /\ pc[p] = "forwarding"
      /\ out' = [out EXCEPT ![p] = {}]
      /\ pc' = [pc EXCEPT ![p] = AfterForward(p)]
      /\ UNCHANGED <<now, tick, job, start, series, todo, received>>
  BY DEF Forwarded
<1>2. ghost' \in [Series -> HistoryType]
  <2>1. ghost' = [k \in Series |-> ghost'[k]]
    BY DEF Forwarded
  <2>2. QED
    BY <2>1, ForwardedFacts
<1>3. /\ pc' \in [Processes -> ProgramPoints]
      /\ (p = Stopper => pc'[p] = "flushing") /\ (p # Stopper => pc'[p] = "select")
      /\ \A q \in Processes : q # p => pc'[q] = pc[q]
  BY <1>1 DEF TypeInv, AfterForward, ProgramPoints
<1>4. \A q \in Processes : out'[q] \subseteq out[q] /\ (q = p => out'[q] = {})
  BY <1>1 DEF TypeInv
<1>5. TypeInv'
  <2>1. out' \in [Processes -> SUBSET PointType]
    BY <1>1 DEF TypeInv
  <2>2. QED
    BY <1>1, <1>2, <1>3, <2>1 DEF TypeInv
<1>6. ControlInv'
  <2>1. /\ \A j \in Intervals : pc'[j] \in {"select", "closing", "forwarding", "exited"}
        /\ pc'[Stopper] \in {"up", "waiting", "flushing", "closing", "forwarding", "down"}
    BY <1>3 DEF ControlInv
  <2>2. \A q \in Processes : pc'[q] = "closing" =>
           job'[q].send \in Intervals /\ (q \in Intervals => job'[q].send = q)
    BY <1>1, <1>3 DEF ControlInv
  <2>3. pc'[Stopper] \in {"flushing", "closing", "forwarding", "down"} =>
           \A j \in Intervals : pc'[j] = "exited"
    <3>1. CASE p = Stopper
      BY <1>1, <1>3, <3>1 DEF ControlInv
    <3>2. CASE p # Stopper
      BY <1>1, <1>3, <3>2 DEF ControlInv
    <3>3. QED
      BY <3>1, <3>2
  <2>4. \A q \in Processes : out'[q] # {} => pc'[q] = "forwarding"
    BY <1>3, <1>4 DEF ControlInv
  <2>5. \A q \in Processes : \A x \in out'[q] : q \in Intervals => Route[x.series].send = q
    BY <1>4 DEF ControlInv
  <2>6. QED
    BY <2>1, <2>2, <2>3, <2>4, <2>5 DEF ControlInv
<1>7. CountInv'
  BY <1>1, <1>4 DEF CountInv
<1>8. OrderInv'
  <2>1. \A q \in Processes : pc'[q] = "closing" => pc[q] = "closing"
    BY <1>3
  <2>2. QED
    BY <1>1, <1>4, <2>1, ForwardedFacts DEF OrderInv
<1>9. FlushInv'
  BY <1>1, <1>3 DEF FlushInv
<1>10. SeriesInv'
  <2> SUFFICES ASSUME NEW k \in Series PROVE SeriesFact(k, series'[k], ghost'[k])
    BY DEF SeriesInv
  <2>1. SeriesFact(k, series[k], ghost[k]) /\ series'[k] = series[k]
    BY <1>1 DEF SeriesInv
  <2>2. QED
    BY <2>1, ForwardedFacts DEF SeriesFact
<1>11. QED
  BY <1>5, <1>6, <1>7, <1>8, <1>9, <1>10

------------------------------------------------------------------------------
(* The steps of the goroutines and of Shutdown that touch no series. *)

LEMMA TakeTickInv ==
    ASSUME Inv, NEW i \in Intervals, TakeTick(i)
    PROVE  Inv'
<1> USE ConstantFacts DEF Inv, TakeTick
<1>1. TypeInv'
  BY DEF TypeInv, ProgramPoints
<1>2. ControlInv'
  BY DEF ControlInv, TypeInv
<1>3. CountInv' /\ SeriesInv'
  BY DEF CountInv, SeriesInv
<1>4. OrderInv'
  <2>1. start[i] <= now /\ now <= now
    BY DEF OrderInv, TypeInv
  <2>2. \A p \in Processes : pc'[p] = "closing" =>
           start[job'[p].send] <= job'[p].end /\ job'[p].end <= now
    BY <2>1 DEF OrderInv, TypeInv
  <2>3. QED
    BY <2>2 DEF OrderInv
<1>5. FlushInv'
  BY DEF FlushInv, TypeInv
<1>6. QED
  BY <1>1, <1>2, <1>3, <1>4, <1>5

\* Steps that only move a goroutine or Shutdown, none of them to the closing of a window.
LEMMA MoveInv ==
    ASSUME Inv,
           \/ \E i \in Intervals : Exit(i)
           \/ Cancel \/ AwaitTickers \/ FlushDone
    PROVE  Inv'
<1> USE ConstantFacts DEF Inv
<1>1. UNCHANGED <<now, tick, job, out, start, series, todo, received, ghost>>
  BY DEF Exit, Cancel, AwaitTickers, FlushDone
<1>2. TypeInv'
  <2>1. pc' \in [Processes -> ProgramPoints]
    BY DEF Exit, Cancel, AwaitTickers, FlushDone, TypeInv, ProgramPoints
  <2>2. QED
    BY <1>1, <2>1 DEF TypeInv
<1>3. ControlInv'
  <2>1. CASE \E i \in Intervals : Exit(i)
    BY <1>1, <2>1 DEF Exit, ControlInv, TypeInv
  <2>2. CASE Cancel
    BY <1>1, <2>2 DEF Cancel, ControlInv, TypeInv
  <2>3. CASE AwaitTickers
    BY <1>1, <2>3 DEF AwaitTickers, ControlInv, TypeInv
  <2>4. CASE FlushDone
    BY <1>1, <2>4 DEF FlushDone, ControlInv, TypeInv
  <2>5. QED
    BY <2>1, <2>2, <2>3, <2>4
<1>4. \A p \in Processes : pc'[p] = "closing" => pc[p] = "closing"
  BY DEF Exit, Cancel, AwaitTickers, FlushDone, TypeInv
<1>5. CountInv' /\ SeriesInv'
  BY <1>1 DEF CountInv, SeriesInv
<1>6. OrderInv'
  BY <1>1, <1>4 DEF OrderInv
<1>7. FlushInv'
  <2>1. CASE \E i \in Intervals : Exit(i)
    BY <1>1, <2>1 DEF Exit, FlushInv, TypeInv
  <2>2. CASE Cancel
    BY <1>1, <2>2 DEF Cancel, FlushInv, TypeInv
  <2>3. CASE AwaitTickers
    BY <1>1, <2>3 DEF AwaitTickers, FlushInv, TypeInv
  <2>4. CASE FlushDone
    BY <1>1, <2>4 DEF FlushDone, FlushInv, TypeInv
  <2>5. QED
    BY <2>1, <2>2, <2>3, <2>4
<1>8. QED
  BY <1>2, <1>3, <1>5, <1>6, <1>7

LEMMA FlushNextInv ==
    ASSUME Inv, FlushNext
    PROVE  Inv'
<1> USE ConstantFacts DEF Inv
<1>1. todo \subseteq Intervals /\ todo # {}
  BY DEF FlushNext, TypeInv
<1>2. PICK i : i = Min(todo)
  OBVIOUS
<1>3. i \in todo
  <2>1. todo \subseteq Nat
    BY <1>1
  <2>2. \E x \in todo : \A y \in todo : x <= y
    BY <1>1, <2>1, LeastExists
  <2>3. QED
    BY <1>2, <2>2 DEF Min
<1>4. /\ pc[Stopper] = "flushing"
      /\ todo' = todo \ {i}
      /\ job' = [job EXCEPT ![Stopper] = [send |-> i, end |-> now]]
      /\ pc' = [pc EXCEPT ![Stopper] = "closing"]
      /\ UNCHANGED <<now, tick, out, start, series, received, ghost>>
  BY <1>2 DEF FlushNext
<1>5. i \in Intervals
  BY <1>1, <1>3
<1>6. TypeInv'
  BY <1>1, <1>4, <1>5 DEF TypeInv, ProgramPoints
<1>7. ControlInv'
  BY <1>4, <1>5 DEF ControlInv, TypeInv
<1>8. CountInv' /\ SeriesInv'
  BY <1>4 DEF CountInv, SeriesInv
<1>9. OrderInv'
  <2>1. start[i] <= now /\ now <= now
    BY <1>5 DEF OrderInv, TypeInv
  <2>2. \A p \in Processes : pc'[p] = "closing" =>
           start[job'[p].send] <= job'[p].end /\ job'[p].end <= now
    BY <1>4, <2>1 DEF OrderInv, TypeInv
  <2>3. QED
    BY <1>4, <2>2 DEF OrderInv
<1>10. FlushInv'
  <2>1. pc'[Stopper] = "closing" /\ job'[Stopper].send = i
    BY <1>4 DEF TypeInv
  <2>2. QED
    BY <1>4, <2>1 DEF FlushInv
<1>11. QED
  BY <1>6, <1>7, <1>8, <1>9, <1>10

LEMMA TimeInv ==
    ASSUME Inv, TimePasses
    PROVE  Inv'
<1> USE ConstantFacts DEF Inv
<1>1. now' = now + 1 /\ now' \in 0 .. MaxTime /\ now \in 0 .. MaxTime
  BY DEF TimePasses, TypeInv
<1>2. UNCHANGED <<pc, job, out, start, series, todo, received, ghost>>
  BY DEF TimePasses
<1>3. tick' \in [Intervals -> BOOLEAN]
  <2>1. \A i \in Intervals : tick[i] \in BOOLEAN
    BY DEF TypeInv
  <2>2. QED
    BY <2>1 DEF TimePasses
<1>4. TypeInv'
  BY <1>1, <1>2, <1>3 DEF TypeInv
<1>5. ControlInv' /\ CountInv' /\ FlushInv' /\ SeriesInv'
  BY <1>2 DEF ControlInv, CountInv, FlushInv, SeriesInv
<1>6. OrderInv'
  <2>1. \A i \in Intervals : start[i] <= now'
    BY <1>1, WindowStarts DEF OrderInv
  <2>2. \A p \in Processes : pc[p] = "closing" =>
           start[job[p].send] <= job[p].end /\ job[p].end <= now'
    <3>1. \A p \in Processes : job[p].end \in 0 .. MaxTime
      BY DEF TypeInv
    <3>2. QED
      BY <1>1, <3>1 DEF OrderInv
  <2>3. QED
    BY <1>2, <2>1, <2>2 DEF OrderInv
<1>7. QED
  BY <1>4, <1>5, <1>6

------------------------------------------------------------------------------
(* Theorems. *)

LEMMA NextInv == Inv /\ [Next]_vars => Inv'
<1> SUFFICES ASSUME Inv, [Next]_vars PROVE Inv'
    OBVIOUS
<1> USE ConstantFacts
<1>1. CASE \E k \in Series : Receive(k)
  BY <1>1, EveryReceive, ReceivedInv DEF Inv
<1>2. CASE \E i \in Intervals : TakeTick(i)
  BY <1>2, TakeTickInv
<1>3. CASE \E p \in Processes : Collect(p)
  BY <1>3, CollectInv
<1>4. CASE \E p \in Processes : Forwarded(p)
  BY <1>4, ForwardedInv
<1>5. CASE (\E i \in Intervals : Exit(i)) \/ Cancel \/ AwaitTickers \/ FlushDone
  BY <1>5, MoveInv
<1>6. CASE FlushNext
  BY <1>6, FlushNextInv
<1>7. CASE TimePasses
  BY <1>7, TimeInv
<1>8. CASE UNCHANGED vars
  BY <1>8 DEF vars, Inv, TypeInv, ControlInv, CountInv, OrderInv, FlushInv, SeriesInv
<1>9. QED
  BY <1>1, <1>2, <1>3, <1>4, <1>5, <1>6, <1>7, <1>8 DEF Next

\* In every reachable state goroutines stand where their locks allow, windows follow one
\* another, Shutdown has what is open still to close, and every series agrees with what
\* became of its samples (processor.go, window.go, series.go).
THEOREM Windows == Spec => []Inv
  BY InitAll, NextInv, PTL DEF Spec

\* Every part of the state has its type, whatever the groups, the readings and their times.
THEOREM TypeCorrect == Spec => []TypeOK
<1>1. Inv => TypeOK
  <2> SUFFICES ASSUME Inv PROVE TypeOK
    OBVIOUS
  <2> USE ConstantFacts DEF Inv
  <2>1. received \in 0 .. MaxSamples
    BY DEF TypeInv
  <2>2. \A p \in Processes :
          /\ job[p].send \in Intervals \cup {0}
          /\ job[p].end \in 0 .. MaxTime
    BY DEF TypeInv
  <2>3. \A p \in Processes : \A x \in out[p] :
           x.series \in Series /\ x.weight \in Nat /\ x.weight <= received
    BY DEF TypeInv, PointType, CountInv
  <2>4. \A k \in Series :
          /\ series[k].live \in BOOLEAN
          /\ series[k].samples \in 0 .. MaxSamples
          /\ series[k].window \in 0 .. MaxSamples
          /\ series[k].cum \in 0 .. MaxSamples
          /\ series[k].idle \in 0 .. EvictAfter - 1
          /\ series[k].last.at \in Times /\ series[k].kept.at \in Times
    <3> SUFFICES ASSUME NEW k \in Series
                 PROVE  /\ series[k].live \in BOOLEAN
                        /\ series[k].samples \in 0 .. MaxSamples
                        /\ series[k].window \in 0 .. MaxSamples
                        /\ series[k].cum \in 0 .. MaxSamples
                        /\ series[k].idle \in 0 .. EvictAfter - 1
                        /\ series[k].last.at \in Times /\ series[k].kept.at \in Times
      OBVIOUS
    <3>1. series[k] \in SeriesType
      BY DEF TypeInv
    <3>2. /\ series[k].samples \in Nat /\ series[k].window \in Nat /\ series[k].cum \in Nat
          /\ series[k].samples <= received
          /\ series[k].cum + series[k].window <= received
      BY <3>1 DEF SeriesType, CountInv
    <3>3. QED
      BY <2>1, <3>1, <3>2 DEF SeriesType
  <2>5. \A p \in Processes : \A x \in out[p] : x.weight \in 0 .. MaxSamples
    BY <2>1, <2>3
  <2>6. QED
    BY <2>2, <2>3, <2>4, <2>5 DEF TypeOK, TypeInv, ControlInv
<1>2. QED
  BY <1>1, Windows, PTL

\* A cumulative histogram holds every value since its series was created: what a refused
\* forward drops is merged before it is sent, and eviction starts it anew (emit).
THEOREM CumulativeLosesNothing == Spec => []CumulativeIsWhole
<1>1. Inv => CumulativeIsWhole
  BY DEF Inv, SeriesInv, SeriesFact, CumulativeIsWhole
<1>2. QED
  BY <1>1, Windows, PTL

\* Between resets the rates add up to what the counter gained, for readings that come
\* repeated, late, lower or with another start time (addCounter).
THEOREM RatesAddUp == Spec => []RatesTelescope
<1>1. Inv => RatesTelescope
  BY DEF Inv, SeriesInv, SeriesFact, RatesTelescope
<1>2. QED
  BY <1>1, Windows, PTL

\* A series is kept for EvictAfter windows of its own interval without a sample, no window
\* more or less (markIdle).
THEOREM EvictionIsExact == Spec => []LiveSeriesAreRecent
<1>1. Inv => LiveSeriesAreRecent
  <2> SUFFICES ASSUME Inv, NEW k \in Series
               PROVE  series[k].live <=> ghost[k].closes - ghost[k].seenAt <= EvictAfter
    BY DEF LiveSeriesAreRecent
  <2>1. /\ series[k].live \in BOOLEAN /\ series[k].samples \in Nat
        /\ series[k].idle \in 0 .. EvictAfter - 1
        /\ ghost[k].closes \in Int /\ ghost[k].seenAt \in Int
    BY DEF Inv, TypeInv, SeriesType, HistoryType
  <2>2. SeriesFact(k, series[k], ghost[k])
    BY DEF Inv, SeriesInv
  <2>3. QED
    BY <2>1, <2>2, ConstantFacts DEF SeriesFact
<1>2. QED
  BY <1>1, Windows, PTL

\* A plain group sends the newest point of the window, in whatever order they arrive
\* (series.go:51).
THEOREM PlainKeepsNewest == Spec => []PlainIsNewest
<1>1. Inv => PlainIsNewest
  BY DEF Inv, SeriesInv, SeriesFact, PlainIsNewest
<1>2. QED
  BY <1>1, Windows, PTL

\* When Shutdown has returned no sample is left behind and nothing runs (flushAll).
THEOREM ShutdownIsComplete == Spec => []ShutdownLeavesNothing
<1>1. Inv => ShutdownLeavesNothing
  <2> SUFFICES ASSUME Inv, pc[Stopper] = "down"
               PROVE  /\ \A k \in Series : series[k].samples = 0
                      /\ \A i \in Intervals : pc[i] = "exited"
                      /\ \A p \in Processes : out[p] = {}
    BY DEF ShutdownLeavesNothing
  <2>1. \A k \in Series : series[k].samples = 0
    BY DEF Inv, FlushInv
  <2>2. \A i \in Intervals : pc[i] = "exited"
    BY DEF Inv, ControlInv
  <2>3. \A p \in Processes : pc[p] # "forwarding"
    BY <2>2, ConstantFacts
  <2>4. QED
    BY <2>1, <2>2, <2>3 DEF Inv, ControlInv
<1>2. QED
  BY <1>1, Windows, PTL

\* No close moves the start of an open window back, although the end is read before the
\* lock is taken (closeWindow, collect).
THEOREM WindowsInOrder == Spec => WindowsMoveForward
<1>1. Inv /\ [Next]_vars => [\A i \in Intervals : start'[i] >= start[i]]_vars
  <2> SUFFICES ASSUME Inv, Next, NEW i \in Intervals PROVE start'[i] >= start[i]
    BY DEF vars
  <2>0. start[i] \in Nat
    BY WindowStarts DEF Inv
  <2>1. CASE \E p \in Processes : Collect(p)
    <3>1. PICK p \in Processes : Collect(p)
      BY <2>1
    <3>2. /\ start' = [start EXCEPT ![job[p].send] = job[p].end]
          /\ start[job[p].send] <= job[p].end
      BY <3>1, CollectFacts DEF Inv, OrderInv
    <3>3. QED
      BY <2>0, <3>2 DEF Inv, TypeInv
  <2>2. CASE ~ \E p \in Processes : Collect(p)
    <3>1. start' = start
      BY <2>2 DEF Next, Receive, ReceiveInvalid, ReceivePlain, ReceiveGauge, ReceiveCounter,
                  Environment, TakeTick, Exit, Forwarded, Cancel, AwaitTickers, FlushNext,
                  FlushDone, TimePasses
    <3>2. QED
      BY <2>0, <3>1
  <2>3. QED
    BY <2>1, <2>2
<1>2. QED
  BY <1>1, Windows, PTL DEF Spec, WindowsMoveForward

\* The points of a series are handed on in the order of their windows, those of Shutdown
\* after those of the goroutine it waited for (startTickers, flushAll).
THEOREM PointsInOrder == Spec => ForwardedInOrder
<1>1. Inv /\ [Next]_vars =>
         [\A k \in Series : ghost'[k].forwardedTo >= ghost[k].forwardedTo]_vars
  <2> SUFFICES ASSUME Inv, Next, NEW k \in Series
               PROVE  ghost'[k].forwardedTo >= ghost[k].forwardedTo
    BY DEF vars
  <2>0. ghost[k] \in HistoryType /\ ghost[k].forwardedTo \in Nat
    BY DEF Inv, TypeInv, HistoryType
  <2>1. CASE \E j \in Series : Receive(j)
    <3>1. PICK j \in Series : Received(j)
      BY <2>1, EveryReceive DEF Inv
    <3>2. \E n : ghost' = [ghost EXCEPT ![j] = n] /\ n.forwardedTo = ghost[j].forwardedTo
      BY <3>1 DEF Received, Absorbed
    <3>3. QED
      BY <2>0, <3>2 DEF Inv, TypeInv
  <2>2. CASE \E p \in Processes : Collect(p)
    <3>1. ghost'[k] \in {ghost[k], ClosedHistory(ghost[k])}
      BY <2>2, CollectFacts
    <3>2. ClosedHistory(ghost[k]).forwardedTo = ghost[k].forwardedTo
      BY <2>0 DEF ClosedHistory, HistoryType
    <3>3. QED
      BY <2>0, <3>1, <3>2
  <2>3. CASE \E p \in Processes : Forwarded(p)
    BY <2>3, ForwardedFacts
  <2>4. CASE \/ \E i \in Intervals : TakeTick(i) \/ Exit(i)
             \/ Cancel \/ AwaitTickers \/ FlushNext \/ FlushDone \/ TimePasses
    <3>1. ghost' = ghost
      BY <2>4 DEF TakeTick, Exit, Cancel, AwaitTickers, FlushNext, FlushDone, TimePasses
    <3>2. QED
      BY <2>0, <3>1
  <2>5. QED
    BY <2>1, <2>2, <2>3, <2>4 DEF Next
<1>2. QED
  BY <1>1, Windows, PTL DEF Spec, ForwardedInOrder

------------------------------------------------------------------------------
(* Where every sample went.  A series has at most one point on its way, since  *)
(* one goroutine at a time closes and forwards its windows; so the sum over    *)
(* its points is nothing or the weight of that one.                            *)

\* w is the weight of what is being forwarded for k.
OnItsWay(k, w) ==
    \/ Points(k) = {} /\ w = 0
    \/ \E x : Points(k) = {x} /\ w = x.weight

Account(k) ==
    \E w \in Nat :
        /\ OnItsWay(k, w)
        /\ ghost[k].received
             = ghost[k].aside + Weight(series[k], k) + w + ghost[k].handedOn

AccountInv == \A k \in Series : Account(k)

LEMMA PendingFact ==
    ASSUME NEW k \in Series, NEW w \in Nat, OnItsWay(k, w)
    PROVE  Pending(k) = Weight(series[k], k) + w
<1> DEFINE f == [x \in Points(k) |-> x.weight]
<1>1. SumFunction(f) = SumFunctionOnSet(f, Points(k))
  BY DEF SumFunction
<1>2. CASE Points(k) = {} /\ w = 0
  <2>1. SumFunctionOnSet(f, {}) = 0
    BY SumOfNone
  <2>2. QED
    BY <1>1, <1>2, <2>1 DEF Pending
<1>3. CASE \E x : Points(k) = {x} /\ w = x.weight
  <2>1. PICK x : Points(k) = {x} /\ w = x.weight
    BY <1>3
  <2>2. f[x] = w
    BY <2>1
  <2> HIDE DEF f
  <2>3. SumFunctionOnSet(f, {x}) = w
    BY <2>2, SumOfOne
  <2>4. SumFunction(f) = w
    BY <1>1, <2>1, <2>3
  <2>5. QED
    BY <2>4 DEF Pending, f
<1>4. QED
  BY <1>2, <1>3 DEF OnItsWay

\* No two goroutines forward points of one series.
LEMMA PointsAreOne ==
    ASSUME Inv, NEW p \in Processes, NEW q \in Processes,
           NEW x \in out[p], NEW y \in out[q], x.series = y.series
    PROVE  p = q
<1> USE ConstantFacts DEF Inv
<1>1. pc[p] = "forwarding" /\ pc[q] = "forwarding"
  BY DEF ControlInv
<1>2. /\ p \in Intervals => p = Route[x.series].send
      /\ q \in Intervals => q = Route[x.series].send
  BY DEF ControlInv
<1>3. SUFFICES ASSUME p # q PROVE FALSE
  OBVIOUS
<1>4. \/ p = Stopper /\ q \in Intervals
      \/ q = Stopper /\ p \in Intervals
  BY <1>2, <1>3
<1>5. QED
  BY <1>1, <1>4 DEF ControlInv

LEMMA WeightFacts ==
    ASSUME Inv, NEW k \in Series
    PROVE  /\ Weight(series[k], k) \in Nat
           /\ series[k].samples = 0 => Weight(series[k], k) = 0
           /\ ~series[k].live => Weight(series[k], k) = 0
           /\ Weight(series[k], k)
                = Found(k, IF Route[k].kind = "plain" THEN "samples" ELSE "window")
<1>1. /\ series[k] \in SeriesType /\ SeriesFact(k, series[k], ghost[k])
  BY DEF Inv, TypeInv, SeriesInv
<1>2. /\ series[k].samples \in Nat /\ series[k].window \in Nat
      /\ ~series[k].live => series[k].samples = 0
      /\ series[k].samples = 0 => series[k].window = 0
  BY <1>1 DEF SeriesType, SeriesFact
<1>3. QED
  BY <1>2 DEF Weight, Found

\* A sample that is received is set aside or weighs one in the open window.
LEMMA ReceivedAccount ==
    ASSUME Inv, AccountInv, NEW j \in Series, Received(j)
    PROVE  AccountInv'
<1>1. SUFFICES ASSUME NEW k \in Series PROVE Account(k)'
  BY DEF AccountInv
<1>2. /\ series \in [Series -> SeriesType] /\ ghost \in [Series -> HistoryType]
  BY DEF Inv, TypeInv
<1>3. PICK w \in Nat :
        /\ OnItsWay(k, w)
        /\ ghost[k].received
             = ghost[k].aside + Weight(series[k], k) + w + ghost[k].handedOn
  BY DEF AccountInv, Account
<1>4. out' = out /\ Points(k)' = Points(k)
  BY DEF Received, Points
<1>5. OnItsWay(k, w)'
  BY <1>3, <1>4 DEF OnItsWay
<1>6. /\ ghost[k].received \in Nat /\ ghost[k].aside \in Nat /\ ghost[k].handedOn \in Nat
      /\ Weight(series[k], k) \in Nat
  BY <1>2, WeightFacts DEF HistoryType
<1>7. CASE j # k
  <2>1. series'[k] = series[k] /\ ghost'[k] = ghost[k]
    BY <1>2, <1>7 DEF Received
  <2>2. QED
    BY <1>3, <1>5, <2>1 DEF Account, Weight
<1>8. CASE j = k
  <2>1. CASE \E s, n : /\ Absorbed(k, s, n)
                       /\ series' = [series EXCEPT ![k] = s]
                       /\ ghost' = [ghost EXCEPT ![k] = n]
    <3>1. PICK s, n : /\ Absorbed(k, s, n)
                      /\ series' = [series EXCEPT ![k] = s]
                      /\ ghost' = [ghost EXCEPT ![k] = n]
      BY <2>1
    <3>2. series'[k] = s /\ ghost'[k] = n
      BY <1>2, <3>1
    <3>3. /\ n.received = ghost[k].received + 1 /\ n.handedOn = ghost[k].handedOn
          /\ n.aside + Weight(s, k) = ghost[k].aside + Weight(series[k], k) + 1
      BY <3>1, WeightFacts DEF Absorbed, Booked
    <3>4. n.aside \in Nat /\ Weight(s, k) \in Nat
      BY <3>1 DEF Absorbed, HistoryType, SeriesType, Weight
    <3>5. n.received = n.aside + Weight(s, k) + w + n.handedOn
      BY <1>3, <1>6, <3>3, <3>4
    <3>6. QED
      BY <1>5, <3>2, <3>5 DEF Account, Weight
  <2>2. CASE series' = series /\ \E n : /\ ghost' = [ghost EXCEPT ![k] = n]
                                        /\ n.received = ghost[k].received + 1
                                        /\ n.aside = ghost[k].aside + 1
                                        /\ n.handedOn = ghost[k].handedOn
    <3>1. /\ series'[k] = series[k]
          /\ ghost'[k].received = ghost[k].received + 1
          /\ ghost'[k].aside = ghost[k].aside + 1
          /\ ghost'[k].handedOn = ghost[k].handedOn
      BY <1>2, <2>2
    <3>2. ghost'[k].received
            = ghost'[k].aside + Weight(series[k], k) + w + ghost'[k].handedOn
      BY <1>3, <1>6, <3>1
    <3>3. QED
      BY <1>5, <3>1, <3>2 DEF Account, Weight
  <2>3. QED
    BY <1>8, <2>1, <2>2 DEF Received
<1>9. QED
  BY <1>7, <1>8

\* A window that closes moves its weight to the one point made of it; a series
\* that sends none had no weight.
LEMMA CollectAccount ==
    ASSUME Inv, AccountInv, NEW p \in Processes, Collect(p)
    PROVE  AccountInv'
<1> DEFINE i == job[p].send
<1>1. SUFFICES ASSUME NEW k \in Series PROVE Account(k)'
  BY DEF AccountInv
<1>2. /\ pc[p] = "closing" /\ out' = [out EXCEPT ![p] = Sent(p)]
      /\ Route[k].send = i => /\ series'[k] = ClosedSeries(k, series[k])
                              /\ ghost'[k] = ClosedHistory(ghost[k])
      /\ Route[k].send # i => series'[k] = series[k] /\ ghost'[k] = ghost[k]
      /\ \A x \in Sent(p) : Route[x.series].send = i
      /\ \A q \in Processes : q # p => \A x \in out[q] : Route[x.series].send # i
  BY CollectFacts
<1>3. out \in [Processes -> SUBSET PointType] /\ out[p] = {}
  BY <1>2 DEF Inv, TypeInv, ControlInv
<1>4. PICK w \in Nat :
        /\ OnItsWay(k, w)
        /\ ghost[k].received
             = ghost[k].aside + Weight(series[k], k) + w + ghost[k].handedOn
  BY DEF AccountInv, Account
<1>5. \A q \in Processes : out'[q] = IF q = p THEN Sent(p) ELSE out[q]
  BY <1>2, <1>3
<1>6. CASE Route[k].send # i
  <2>1. Points(k)' = Points(k)
    BY <1>2, <1>3, <1>5, <1>6 DEF Points
  <2>2. OnItsWay(k, w)'
    BY <1>4, <2>1 DEF OnItsWay
  <2>3. QED
    BY <1>2, <1>4, <1>6, <2>2 DEF Account, Weight
<1>7. CASE Route[k].send = i
  <2>1. Points(k) = {}
    BY <1>2, <1>3, <1>7 DEF Points
  <2>2. w = 0
    BY <1>4, <2>1 DEF OnItsWay
  <2>3. Points(k)' = {x \in Sent(p) : x.series = k}
    BY <1>2, <1>3, <1>5, <1>7 DEF Points
  <2> DEFINE pt == Point(k, start[i], job[p].end)
  <2>4. Points(k)' = IF series[k].live /\ HasPoint(k) THEN {pt} ELSE {}
    <3>1. \A j \in Series : Point(j, start[i], job[p].end).series = j
      BY DEF Point
    <3> DEFINE P(j) == Point(j, start[i], job[p].end)
    <3>2. Sent(p) = {P(j) : j \in {m \in SeriesOf(i) : HasPoint(m)}}
      BY DEF Sent
    <3>3. \A j \in SeriesOf(i) : P(j).series = j
      BY <3>1 DEF SeriesOf
    <3>4. k \in SeriesOf(i) <=> series[k].live
      BY <1>7 DEF SeriesOf
    <3> HIDE DEF P
    <3>5. Points(k)' = {P(j) : j \in {m \in SeriesOf(i) : HasPoint(m) /\ m = k}}
      BY <2>3, <3>2, <3>3
    <3>6. pt = P(k)
      BY DEF P
    <3> HIDE DEF pt
    <3>7. QED
      BY <3>4, <3>5, <3>6
  <2>5. pt.weight = Weight(series[k], k) /\ Weight(series[k], k) \in Nat
    BY WeightFacts DEF Point
  <2> HIDE DEF pt
  <2>6. Weight(ClosedSeries(k, series[k]), k) = 0
    <3>1. series[k] \in SeriesType /\ SeriesFact(k, series[k], ghost[k])
      BY DEF Inv, TypeInv, SeriesInv
    <3>2. Closed(k, series[k], ClosedSeries(k, series[k]))
      BY <3>1, ClosedType
    <3>3. /\ NoSeries.samples = 0 /\ NoSeries.window = 0
      BY DEF NoSeries
    <3>4. QED
      BY <3>1, <3>2, <3>3 DEF Closed, SeriesFact, Weight
  <2>7. /\ ghost'[k].received = ghost[k].received /\ ghost'[k].aside = ghost[k].aside
        /\ ghost'[k].handedOn = ghost[k].handedOn
        /\ ghost[k].aside \in Nat /\ ghost[k].handedOn \in Nat
        /\ ghost[k].received \in Nat
    <3>1. ghost[k] \in HistoryType
      BY DEF Inv, TypeInv
    <3>2. QED
      BY <1>2, <1>7, <3>1 DEF ClosedHistory, HistoryType
  <2>8. Weight(series'[k], k) = 0
    BY <1>2, <1>7, <2>6
  <2>9. CASE series[k].live /\ HasPoint(k)
    <3>1. PICK v, y : v \in Nat /\ v = Weight(series[k], k) /\ y = pt
      BY <2>5
    <3>2. Points(k)' = {y} /\ y.weight = v
      BY <2>4, <2>5, <2>9, <3>1
    <3>3. OnItsWay(k, v)'
      BY <3>2 DEF OnItsWay
    <3>4. ghost'[k].received
            = ghost'[k].aside + Weight(series'[k], k) + v + ghost'[k].handedOn
      BY <1>4, <2>2, <2>7, <2>8, <3>1
    <3>5. Weight(series[k], k)' = Weight(series'[k], k)
      BY DEF Weight
    <3>6. QED
      BY <3>1, <3>3, <3>4, <3>5 DEF Account
  <2>10. CASE ~(series[k].live /\ HasPoint(k))
    <3>1. Weight(series[k], k) = 0
      <4>1. series[k].live /\ series[k].samples # 0 =>
              Route[k].kind # "plain" /\ ~(series[k].window > 0)
        BY <2>10 DEF HasPoint, Inv, TypeInv, SeriesType
      <4>2. series[k].window \in Nat
        BY DEF Inv, TypeInv, SeriesType
      <4>3. QED
        BY <4>1, <4>2, WeightFacts DEF Weight
    <3>2. OnItsWay(k, 0)'
      BY <2>4, <2>10 DEF OnItsWay
    <3>3. ghost'[k].received
            = ghost'[k].aside + Weight(series'[k], k) + 0 + ghost'[k].handedOn
      BY <1>4, <2>2, <2>7, <2>8, <3>1
    <3>4. Weight(series[k], k)' = Weight(series'[k], k)
      BY DEF Weight
    <3>5. QED
      BY <3>2, <3>3, <3>4 DEF Account
  <2>11. QED
    BY <2>9, <2>10
<1>8. QED
  BY <1>6, <1>7

\* What was forwarded for a series is its one point, handed on whole.
LEMMA ForwardedAccount ==
    ASSUME Inv, AccountInv, NEW p \in Processes, Forwarded(p)
    PROVE  AccountInv'
<1>1. SUFFICES ASSUME NEW k \in Series PROVE Account(k)'
  BY DEF AccountInv
<1> DEFINE g == ghost[k]
           mine == {x \in out[p] : x.series = k}
<1>2. /\ out' = [out EXCEPT ![p] = {}] /\ series' = series
      /\ out \in [Processes -> SUBSET PointType] /\ g \in HistoryType
      /\ ghost'[k] = IF mine = {} THEN g
                     ELSE LET x == CHOOSE y \in mine : TRUE
                          IN  [g EXCEPT !.handedOn = @ + x.weight, !.forwardedTo = x.end]
  BY DEF Forwarded, Inv, TypeInv
<1>3. PICK w \in Nat :
        /\ OnItsWay(k, w)
        /\ g.received = g.aside + Weight(series[k], k) + w + g.handedOn
  BY DEF AccountInv, Account
<1>4. \A q \in Processes : out'[q] = IF q = p THEN {} ELSE out[q]
  BY <1>2
<1>5. Weight(series[k], k)' = Weight(series[k], k) /\ Weight(series[k], k) \in Nat
  BY <1>2, WeightFacts DEF Weight
<1>6. CASE mine = {}
  <2>1. Points(k)' = Points(k)
    BY <1>4, <1>6 DEF Points
  <2>2. OnItsWay(k, w)'
    BY <1>3, <2>1 DEF OnItsWay
  <2>3. QED
    BY <1>2, <1>3, <1>5, <1>6, <2>2 DEF Account
<1>7. CASE mine # {}
  <2>1. PICK x \in mine :
           ghost'[k] = [g EXCEPT !.handedOn = @ + x.weight, !.forwardedTo = x.end]
    BY <1>2, <1>7
  <2>2. x \in out[p] /\ x.series = k /\ x.weight \in Nat
    BY <1>2 DEF PointType
  <2>3. \A q \in Processes : \A y \in out[q] : y.series = k => q = p
    BY <2>2, PointsAreOne
  <2>4. Points(k)' = {}
    BY <1>4, <2>3 DEF Points
  <2>5. x \in Points(k)
    BY <2>2 DEF Points
  <2>6. w = x.weight
    BY <1>3, <2>5 DEF OnItsWay
  <2>7. /\ ghost'[k].received = g.received /\ ghost'[k].aside = g.aside
        /\ ghost'[k].handedOn = g.handedOn + x.weight
        /\ g.received \in Nat /\ g.aside \in Nat /\ g.handedOn \in Nat
    BY <1>2, <2>1 DEF HistoryType
  <2> HIDE DEF g
  <2>8. ghost'[k].received
          = ghost'[k].aside + Weight(series[k], k) + 0 + ghost'[k].handedOn
    BY <1>3, <1>5, <2>2, <2>6, <2>7
  <2>9. OnItsWay(k, 0)'
    BY <2>4 DEF OnItsWay
  <2>10. QED
    BY <1>5, <2>8, <2>9 DEF Account
<1>8. QED
  BY <1>6, <1>7

LEMMA AccountNext == Inv /\ AccountInv /\ [Next]_vars => AccountInv'
<1>1. SUFFICES ASSUME Inv, AccountInv, [Next]_vars PROVE AccountInv'
  OBVIOUS
<1>2. CASE \E k \in Series : Receive(k)
  BY <1>1, <1>2, EveryReceive, ReceivedAccount DEF Inv
<1>3. CASE \E p \in Processes : Collect(p)
  BY <1>1, <1>3, CollectAccount
<1>4. CASE \E p \in Processes : Forwarded(p)
  BY <1>1, <1>4, ForwardedAccount
<1>5. CASE \/ \E i \in Intervals : TakeTick(i) \/ Exit(i)
           \/ Cancel \/ AwaitTickers \/ FlushNext \/ FlushDone \/ TimePasses
           \/ UNCHANGED vars
  <2>1. UNCHANGED <<series, out, ghost>>
    BY <1>5 DEF TakeTick, Exit, Cancel, AwaitTickers, FlushNext, FlushDone, TimePasses, vars
  <2>2. QED
    BY <1>1, <2>1 DEF AccountInv, Account, OnItsWay, Points, Weight
<1>6. QED
  BY <1>1, <1>2, <1>3, <1>4, <1>5 DEF Next

\* No sample is lost or counted twice: it is set aside when it arrives, or it weighs in
\* exactly one window, which is open, being forwarded or handed on, in every interleaving
\* of arrivals, ticks, forwards and Shutdown (addSample, collect, flushAll).
THEOREM NoSampleLost == Spec => []SamplesAccounted
<1>1. Init => AccountInv
  <2>1. SUFFICES ASSUME Init, NEW k \in Series PROVE Account(k)
    BY DEF AccountInv
  <2>2. Points(k) = {}
    BY <2>1 DEF Init, Points
  <2>3. /\ ghost[k].received = 0 /\ ghost[k].aside = 0 /\ ghost[k].handedOn = 0
        /\ Weight(series[k], k) = 0
    BY <2>1 DEF Init, NoHistory, NoSeries, Weight
  <2>4. QED
    BY <2>2, <2>3 DEF Account, OnItsWay
<1>2. Inv /\ AccountInv => SamplesAccounted
  <2>1. SUFFICES ASSUME Inv, AccountInv, NEW k \in Series
                 PROVE  ghost[k].received = ghost[k].aside + Pending(k) + ghost[k].handedOn
    BY DEF SamplesAccounted
  <2>2. PICK w \in Nat :
          /\ OnItsWay(k, w)
          /\ ghost[k].received
               = ghost[k].aside + Weight(series[k], k) + w + ghost[k].handedOn
    BY <2>1 DEF AccountInv, Account
  <2>3. Pending(k) = Weight(series[k], k) + w
    BY <2>2, PendingFact
  <2>4. ghost[k].aside \in Nat /\ ghost[k].handedOn \in Nat /\ Weight(series[k], k) \in Nat
    BY <2>1, WeightFacts DEF Inv, TypeInv, HistoryType
  <2>5. QED
    BY <2>2, <2>3, <2>4
<1>3. QED
  BY <1>1, <1>2, AccountNext, InitAll, NextInv, PTL DEF Spec
=============================================================================
