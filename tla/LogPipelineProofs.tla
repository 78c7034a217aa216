-------------------------- MODULE LogPipelineProofs --------------------------
(***************************************************************************)
(* Proofs about the pipelines, for every configuration of the processors   *)
(* and every batch.                                                        *)
(*                                                                         *)
(* What a processor leaves of a group are records of that group, each      *)
(* under its own place and in the order in which they were.  So the        *)
(* invariant says of each group of a batch on its way that its records     *)
(* are left of one group that came.                                        *)
(*                                                                         *)
(* That a record fares as it would alone follows from a second invariant:  *)
(* what the batch has of a record after some stages, and of its resource,  *)
(* is what a batch of this record alone may be after these stages.         *)
(***************************************************************************)
EXTENDS LogPipeline, Sums, FiniteSetTheorems, SequenceTheorems, TLAPS

------------------------------------------------------------------------------
(* Sequences *)

\* A sequence is the function on the numbers up to its length.
LEMMA SequenceForm ==
    ASSUME NEW s, IsSequence(s)
    PROVE  /\ Len(s) \in Nat
           /\ DOMAIN s = 1 .. Len(s)
           /\ s = [i \in 1 .. Len(s) |-> s[i]]
BY DEF IsSequence

\* A function on the numbers up to n is a sequence of length n.
LEMMA MadeSequence ==
    ASSUME NEW s, NEW n \in Nat, s = [i \in 1 .. n |-> s[i]]
    PROVE  IsSequence(s) /\ Len(s) = n
<1>1. \A i \in 1 .. n : s[i] \in Range(s)
  BY DEF Range
<1>2. s \in [1 .. n -> Range(s)]
  BY <1>1
<1>3. QED
  BY <1>2 DEF IsSequence

\* r is what has become of rec: it has the same place.
Same(r, rec) == "id" \in DOMAIN r /\ r.id = rec.id

\* at tells where in s the elements of t were; they are in the same order.
Rising(t, s, at) ==
    /\ at \in [DOMAIN t -> DOMAIN s]
    /\ \A i, j \in DOMAIN t : i < j => at[i] < at[j]

\* The records t are what is left of the records s.
LeftOf(t, s) ==
    /\ IsSequence(t)
    /\ \E at : /\ Rising(t, s, at)
               /\ \A i \in DOMAIN t : Same(t[i], s[at[i]])

HaveIds(s) == IsSequence(s) /\ \A i \in DOMAIN s : "id" \in DOMAIN s[i]

\* What is left of records knows its places.
LEMMA LeftIds ==
    ASSUME NEW t, NEW s, LeftOf(t, s)
    PROVE  HaveIds(t)
BY DEF LeftOf, HaveIds, Same

\* Each record changed, and none removed.
LEMMA LeftChanged ==
    ASSUME NEW s, IsSequence(s), NEW t, IsSequence(t), DOMAIN t = DOMAIN s,
           \A i \in DOMAIN s : Same(t[i], s[i])
    PROVE  LeftOf(t, s)
<1>1. Rising(t, s, [i \in DOMAIN s |-> i])
  BY SequenceForm DEF Rising
<1>2. QED
  BY <1>1 DEF LeftOf

LEMMA LeftAll ==
    ASSUME NEW s, HaveIds(s)
    PROVE  LeftOf(s, s)
BY LeftChanged DEF HaveIds, Same

\* What is left of what was left is left of what there was.
LEMMA LeftOfLeft ==
    ASSUME NEW t, NEW u, NEW s, IsSequence(s), LeftOf(t, u), LeftOf(u, s)
    PROVE  LeftOf(t, s)
<1>1. PICK a : Rising(t, u, a) /\ \A i \in DOMAIN t : Same(t[i], u[a[i]])
  BY DEF LeftOf
<1>2. PICK b : Rising(u, s, b) /\ \A i \in DOMAIN u : Same(u[i], s[b[i]])
  BY DEF LeftOf
<1>3. \A i \in DOMAIN t : a[i] \in DOMAIN u /\ b[a[i]] \in DOMAIN s
  BY <1>1, <1>2 DEF Rising
<1>4. Rising(t, s, [i \in DOMAIN t |-> b[a[i]]])
  BY <1>1, <1>2, <1>3 DEF Rising
<1>5. \A i \in DOMAIN t : Same(t[i], s[b[a[i]]])
  BY <1>1, <1>2, <1>3 DEF Same
<1>6. QED
  BY <1>4, <1>5 DEF LeftOf

------------------------------------------------------------------------------
(* The elements at some places of a sequence *)

Rank(I, i) == Cardinality({j \in I : j <= i})

\* Every set of numbers up to n is finite.
LEMMA FiniteParts ==
    ASSUME NEW n \in Nat, NEW I \in SUBSET (1 .. n)
    PROVE  \A J \in SUBSET I : IsFiniteSet(J) /\ Cardinality(J) \in Nat
<1>1. SUFFICES ASSUME NEW J \in SUBSET I PROVE IsFiniteSet(J) /\ Cardinality(J) \in Nat
  OBVIOUS
<1>2. IsFiniteSet(1 .. n)
  BY FS_Interval
<1>3. J \in SUBSET (1 .. n)
  OBVIOUS
<1>4. IsFiniteSet(J)
  BY <1>2, <1>3, FS_Subset
<1>5. QED
  BY <1>4, FS_CardinalityType

\* Every number up to the size of a set of numbers is the rank of one of them.
LEMMA RanksReached ==
    ASSUME NEW n \in Nat, NEW I \in SUBSET (1 .. n), NEW k \in 1 .. Cardinality(I)
    PROVE  \E i \in I : Rank(I, i) = k
<1> DEFINE Missed == {l \in 1 .. Cardinality(I) : \A i \in I : Rank(I, i) # l}
<1>1. \A J \in SUBSET I : IsFiniteSet(J) /\ Cardinality(J) \in Nat
  BY FiniteParts
<1>2. ASSUME Missed # {} PROVE FALSE
  <2>1. PICK l \in Missed : \A m \in Missed : l <= m
    <3>1. Missed \subseteq Nat
      OBVIOUS
    <3> HIDE DEF Missed
    <3>2. QED
      BY <1>2, <3>1, LeastExists
  <2>2. l \in 1 .. Cardinality(I) /\ Cardinality(I) \in Nat
    BY <1>1
  <2>3. PICK J \in SUBSET I : /\ Cardinality(J) = l - 1
                              /\ \A i \in J, j \in I \ J : i < j
    <3>1. CASE l = 1
      BY <1>1, <2>2, <3>1, FS_EmptySet
    <3>2. CASE l # 1
      <4>1. l - 1 \in 1 .. Cardinality(I) /\ l - 1 \notin Missed
        BY <2>1, <2>2, <3>2
      <4>2. PICK i \in I : Rank(I, i) = l - 1
        BY <4>1
      <4>3. {j \in I : j <= i} \in SUBSET I
        OBVIOUS
      <4>4. \A a \in {j \in I : j <= i}, b \in I \ {j \in I : j <= i} : a < b
        OBVIOUS
      <4>5. QED
        BY <4>2, <4>3, <4>4 DEF Rank
    <3>3. QED
      BY <3>1, <3>2
  <2>4. I \ J # {}
    <3>1. SUFFICES ASSUME I \ J = {} PROVE FALSE
      OBVIOUS
    <3>2. J = I
      BY <3>1
    <3>3. QED
      BY <2>2, <2>3, <3>2
  <2>5. PICK i \in I \ J : \A j \in I \ J : i <= j
    <3>1. I \ J \subseteq Nat
      OBVIOUS
    <3>2. QED
      BY <2>4, <3>1, LeastExists
  <2>6. {j \in I : j <= i} = J \cup {i}
    <3>1. i \in I /\ i \in Nat /\ \A j \in J : j < i
      BY <2>3, <2>5
    <3>2. \A j \in I : j \in Nat
      OBVIOUS
    <3>3. \A j \in I : j \in J \/ i <= j
      BY <2>5
    <3>4. J \subseteq I
      BY <2>3
    <3>5. \A j \in I : j <= i <=> j \in J \/ j = i
      <4>1. SUFFICES ASSUME NEW j \in I PROVE j <= i <=> j \in J \/ j = i
        OBVIOUS
      <4>2. j \in Nat /\ i \in Nat /\ (j \in J => j < i) /\ (j \in J \/ i <= j)
        BY <3>1, <3>2, <3>3
      <4>3. QED
        BY <4>2
    <3>6. QED
      BY <3>1, <3>4, <3>5
  <2>7. Cardinality(J \cup {i}) = Cardinality(J) + 1
    BY <1>1, <2>3, <2>5, FS_AddElement
  <2>8. Rank(I, i) = l
    BY <2>2, <2>3, <2>6, <2>7 DEF Rank
  <2>9. QED
    BY <2>1, <2>5, <2>8
<1>3. QED
  BY <1>2

\* The elements at some places are a sequence, in the order of the places.
LEMMA PickedRises ==
    ASSUME NEW s, IsSequence(s), NEW I \in SUBSET DOMAIN s
    PROVE  /\ IsSequence(Picked(s, I))
           /\ \E at : /\ Rising(Picked(s, I), s, at)
                      /\ \A k \in DOMAIN Picked(s, I) :
                           at[k] \in I /\ Picked(s, I)[k] = s[at[k]]
<1>1. PICK n \in Nat : DOMAIN s = 1 .. n
  BY SequenceForm
<1>2. \A J \in SUBSET I : IsFiniteSet(J) /\ Cardinality(J) \in Nat
  BY <1>1, FiniteParts
<1> DEFINE nth(k) == CHOOSE i \in I : Rank(I, i) = k
           at     == [k \in 1 .. Cardinality(I) |-> nth(k)]
<1>3. Picked(s, I) = [k \in 1 .. Cardinality(I) |-> s[nth(k)]]
  BY DEF Picked, Rank
<1>4. \A k \in 1 .. Cardinality(I) : nth(k) \in I /\ Rank(I, nth(k)) = k
  <2>1. SUFFICES ASSUME NEW k \in 1 .. Cardinality(I)
                 PROVE  nth(k) \in I /\ Rank(I, nth(k)) = k
    OBVIOUS
  <2>2. \E i \in I : Rank(I, i) = k
    BY <1>1, RanksReached
  <2>3. QED
    BY <2>2
<1>5. ASSUME NEW k \in 1 .. Cardinality(I), NEW l \in 1 .. Cardinality(I), k < l
      PROVE  nth(k) < nth(l)
  <2>1. PICK i, j : i = nth(k) /\ j = nth(l)
    OBVIOUS
  <2>2. i \in I /\ Rank(I, i) = k /\ j \in I /\ Rank(I, j) = l
    BY <1>4, <2>1
  <2> HIDE DEF nth
  <2>3. ASSUME j <= i PROVE FALSE
    <3>1. {m \in I : m <= j} \subseteq {m \in I : m <= i}
      BY <1>1, <2>2, <2>3
    <3>2. Cardinality({m \in I : m <= j}) <= Cardinality({m \in I : m <= i})
      BY <1>2, <3>1, FS_Subset
    <3>3. QED
      BY <1>2, <1>5, <2>2, <3>2 DEF Rank
  <2>4. i \in 1 .. n /\ j \in 1 .. n
    BY <1>1, <2>2
  <2>5. QED
    BY <2>1, <2>3, <2>4
<1> HIDE DEF nth
<1>6. IsSequence(Picked(s, I)) /\ DOMAIN Picked(s, I) = 1 .. Cardinality(I)
  <2>1. Cardinality(I) \in Nat
    BY <1>2
  <2>2. QED
    BY <1>3, <2>1, MadeSequence
<1>7. Rising(Picked(s, I), s, at)
  <2>1. at \in [1 .. Cardinality(I) -> DOMAIN s]
    BY <1>4
  <2>2. \A k, l \in 1 .. Cardinality(I) : k < l => at[k] < at[l]
    BY <1>5
  <2> HIDE DEF at
  <2>3. QED
    BY <1>6, <2>1, <2>2 DEF Rising
<1>8. \A k \in DOMAIN Picked(s, I) : at[k] \in I /\ Picked(s, I)[k] = s[at[k]]
  BY <1>3, <1>4, <1>6
<1> HIDE DEF at
<1>9. QED
  BY <1>6, <1>7, <1>8

\* The records at some places of a group are left of it.
LEMMA LeftPicked ==
    ASSUME NEW s, HaveIds(s), NEW I \in SUBSET DOMAIN s
    PROVE  LeftOf(Picked(s, I), s)
<1>1. IsSequence(s)
  BY DEF HaveIds
<1>2. PICK at : /\ Rising(Picked(s, I), s, at)
                /\ \A k \in DOMAIN Picked(s, I) : at[k] \in I /\ Picked(s, I)[k] = s[at[k]]
  BY <1>1, PickedRises
<1>3. \A k \in DOMAIN Picked(s, I) : Same(Picked(s, I)[k], s[at[k]])
  BY <1>2 DEF HaveIds, Same
<1>4. QED
  BY <1>1, <1>2, <1>3, PickedRises DEF LeftOf

------------------------------------------------------------------------------
(* A processor leaves a record its place. *)

\* What the parsers share leaves a record its place.
LEMMA HelpersKeep ==
    ASSUME NEW rec, "id" \in DOMAIN rec
    PROVE  /\ \A r : Same(r, rec) =>
                /\ \A x : Same([r EXCEPT !.body = x], rec)
                /\ \A x : Same([r EXCEPT !.attrs = x], rec)
                /\ \A x : Same([r EXCEPT !.sev = x], rec)
                /\ \A x : Same([r EXCEPT !.time = x], rec)
                /\ \A x : Same(SetAttrs(r, x), rec)
                /\ \A w, x : Same(Rewritten(r, w, x), rec)
                /\ \A a, x : Same(Rated(r, a, x), rec)
                /\ \A p, x : Same(Timed(r, p, x), rec)
                /\ \A x : Same(Saved(r, x), rec)
                /\ Same(Renamed(r), rec)
                /\ \A cfg, x : Same(Kept(cfg, r, x), rec)
           /\ Same(rec, rec)
<1>1. Same(rec, rec)
  BY DEF Same
<1>2. SUFFICES ASSUME NEW r, Same(r, rec)
      PROVE  /\ \A x : Same([r EXCEPT !.body = x], rec)
             /\ \A x : Same([r EXCEPT !.attrs = x], rec)
             /\ \A x : Same([r EXCEPT !.sev = x], rec)
             /\ \A x : Same([r EXCEPT !.time = x], rec)
             /\ \A x : Same(SetAttrs(r, x), rec)
             /\ \A w, x : Same(Rewritten(r, w, x), rec)
             /\ \A a, x : Same(Rated(r, a, x), rec)
             /\ \A p, x : Same(Timed(r, p, x), rec)
             /\ \A x : Same(Saved(r, x), rec)
             /\ Same(Renamed(r), rec)
             /\ \A cfg, x : Same(Kept(cfg, r, x), rec)
  BY <1>1
<1>3. \A x : Same([r EXCEPT !.body = x], rec)
  BY <1>2 DEF Same
<1>4. \A x : Same([r EXCEPT !.attrs = x], rec)
  BY <1>2 DEF Same
<1>5. \A x : Same([r EXCEPT !.sev = x], rec)
  BY <1>2 DEF Same
<1>6. \A x : Same([r EXCEPT !.time = x], rec)
  BY <1>2 DEF Same
<1>7. \A x : Same(SetAttrs(r, x), rec)
  BY <1>4 DEF SetAttrs
<1>8. \A w, x : Same(Rewritten(r, w, x), rec)
  BY <1>2, <1>3 DEF Rewritten
<1>9. \A a, x : Same(Rated(r, a, x), rec)
  BY <1>2, <1>5 DEF Rated
<1>10. \A p, x : Same(Timed(r, p, x), rec)
  BY <1>2, <1>6 DEF Timed
<1>11. \A x : Same(Saved(r, x), rec)
  BY <1>4 DEF Saved
<1>12. Same(Renamed(r), rec)
  BY <1>2, <1>11 DEF Renamed
<1>13. \A cfg, x : Same(Kept(cfg, r, x), rec)
  BY <1>2, <1>7 DEF Kept
<1>14. QED
  BY <1>3, <1>4, <1>5, <1>6, <1>7, <1>8, <1>9, <1>10, <1>11, <1>12, <1>13

\* Each processor that changes nothing but records leaves a record its place.
LEMMA ChangedKeeps ==
    ASSUME NEW cfg, NEW rec, "id" \in DOMAIN rec
    PROVE  /\ Same(Charon(cfg, rec), rec)
           /\ Same(Cron(cfg, rec), rec)
           /\ Same(Kernel(cfg, rec), rec)
           /\ Same(Containerd(cfg, rec), rec)
           /\ Same(Klog(cfg, rec), rec)
           /\ Same(Kafka(cfg, rec), rec)
           /\ Same(Postgres(cfg, rec), rec)
           /\ Same(Snuba(cfg, rec), rec)
           /\ Same(Uvicorn(cfg, rec), rec)
           /\ Same(Tekton(cfg, rec), rec)
           /\ Same(Logrus(cfg, rec), rec)
           /\ Same(Snooze(cfg, rec), rec)
           /\ Same(K8sEvent(cfg, rec), rec)
           /\ Same(ExtractMAC(cfg, rec), rec)
           /\ Same(ExtractIP(cfg, rec), rec)
           /\ Same(Enriched(cfg, rec), rec)
           /\ Same(Transformed(rec), rec)
<1>1. Same(Charon(cfg, rec), rec)
  BY DEF Charon, Same, SetAttrs
<1>2. Same(Cron(cfg, rec), rec)
  BY DEF Cron, Same, Rewritten
<1>3. Same(Kernel(cfg, rec), rec)
  BY DEF Kernel, Same, Rewritten
<1>4. Same(Containerd(cfg, rec), rec)
  BY DEF Containerd, Same, Rewritten
<1>5. Same(Klog(cfg, rec), rec)
  BY DEF Klog, Same
<1>6. Same(Kafka(cfg, rec), rec)
  BY HelpersKeep DEF Kafka
<1>7. Same(Postgres(cfg, rec), rec)
  BY HelpersKeep DEF Postgres
<1>8. Same(Snuba(cfg, rec), rec)
  BY HelpersKeep DEF Snuba
<1>9. Same(Uvicorn(cfg, rec), rec)
  BY HelpersKeep DEF Uvicorn
<1>10. Same(Tekton(cfg, rec), rec)
  BY HelpersKeep DEF Tekton
<1>11. Same(Logrus(cfg, rec), rec)
  BY HelpersKeep DEF Logrus
<1>12. Same(Snooze(cfg, rec), rec)
  BY DEF Snooze, Same
<1>13. Same(K8sEvent(cfg, rec), rec)
  BY DEF K8sEvent, Same, SetAttrs, Rewritten
<1>14. Same(ExtractMAC(cfg, rec), rec)
  BY HelpersKeep DEF ExtractMAC, WithFound
<1>15. Same(ExtractIP(cfg, rec), rec)
  BY HelpersKeep DEF ExtractIP, WithFound
<1>16. Same(Enriched(cfg, rec), rec)
  BY HelpersKeep DEF Enriched
<1>17. Same(Transformed(rec), rec)
  BY HelpersKeep DEF Transformed
<1>18. QED
  BY <1>1, <1>2, <1>3, <1>4, <1>5, <1>6, <1>7, <1>8, <1>9, <1>10, <1>11, <1>12, <1>13,
     <1>14, <1>15, <1>16, <1>17

\* What a processor leaves of a record: nothing, or the record in its place.
OneAtMost(next, rec) ==
    next.recs = <<>> \/ \E r : next.recs = <<r>> /\ Same(r, rec)

\* A record in its place is what is left of itself.
LEMMA OneOutcome ==
    ASSUME NEW res, NEW r, NEW rec, Same(r, rec)
    PROVE  OneAtMost(Outcome(res, r), rec)
BY DEF OneAtMost, Outcome

\* So it is with the formats of ciscolog, whatever the port database says.
LEMMA CiscoKeeps ==
    ASSUME NEW cfg, NEW res, NEW rec, "id" \in DOMAIN rec
    PROVE  \A next \in Cisco(cfg, res, rec) : OneAtMost(next, rec)
<1>1. \A r : Same(r, rec) => Same(WithCleanBody(cfg, r), rec)
  BY HelpersKeep DEF WithCleanBody
<1>2. \A r : Same(r, rec) => Same(WithCiscoSeverity(cfg, r), rec)
  BY HelpersKeep DEF WithCiscoSeverity
<1>3. \A text, host, r : Same(r, rec) =>
        \A x \in WithInterface(cfg, text, host, r) : Same(x, rec)
  BY HelpersKeep DEF WithInterface
<1>4. \A text, r : Same(r, rec) => Same(Controller(cfg, text, r), rec)
  BY <1>1, <1>2, HelpersKeep DEF Controller
<1>5. \A text, r : Same(r, rec) => Same(Switch(cfg, text, r), rec)
  BY <1>1, HelpersKeep DEF Switch
<1>6. Same(rec, rec) /\ \A x : Same(SetAttrs(rec, x), rec)
  BY HelpersKeep
<1>7. QED
  BY <1>1, <1>2, <1>3, <1>4, <1>5, <1>6, OneOutcome DEF Cisco

\* Every processor but journald leaves of a record nothing, or the record in its place.
LEMMA OutcomesKeep ==
    ASSUME NEW cfg, cfg.proc \in Processors \ {"journald"},
           NEW res, NEW rec, "id" \in DOMAIN rec
    PROVE  \A next \in Outcomes(cfg, res, rec) : OneAtMost(next, rec)
<1>1. \A r, x : Same(x, rec) => OneAtMost(Outcome(r, x), rec)
  BY OneOutcome
<1>2. Same(rec, rec)
  BY DEF Same
<1>3. CASE cfg.proc = "syslog"
  <2>1. \A r : Same(r, rec) => Same(WithPriority(cfg, r), rec)
    BY HelpersKeep DEF WithPriority
  <2>2. OneAtMost(Syslog(cfg, res, rec), rec)
    BY <1>1, <1>2, <2>1, HelpersKeep DEF Syslog
  <2>3. QED
    BY <1>3, <2>2 DEF Outcomes
<1>4. CASE cfg.proc = "ciscolog"
  BY <1>4, CiscoKeeps DEF Outcomes
<1>5. CASE cfg.proc = "filterlog"
  <2>1. OneAtMost(FilterLog(cfg, res, rec), rec)
    BY <1>1, <1>2, HelpersKeep DEF FilterLog
  <2>2. QED
    BY <1>5, <2>1 DEF Outcomes
<1>6. CASE cfg.proc = "nginxlog"
  <2>1. OneAtMost(Nginx(cfg, res, rec), rec)
    BY <1>1, <1>2, HelpersKeep DEF Nginx
  <2>2. QED
    BY <1>6, <2>1 DEF Outcomes
<1>7. CASE cfg.proc = "pgbouncerlog"
  <2>1. OneAtMost(PgBouncer(cfg, res, rec), rec)
    BY <1>1, <1>2, HelpersKeep DEF PgBouncer
  <2>2. QED
    BY <1>7, <2>1 DEF Outcomes
<1>8. CASE cfg.proc = "redislog"
  <2>1. OneAtMost(Redis(cfg, res, rec), rec)
    BY <1>1, <1>2, HelpersKeep DEF Redis
  <2>2. QED
    BY <1>8, <2>1 DEF Outcomes
<1>9. CASE cfg.proc = "sentrylog"
  <2>1. OneAtMost(Sentry(cfg, res, rec), rec)
    BY <1>1, <1>2, HelpersKeep DEF Sentry
  <2>2. QED
    BY <1>9, <2>1 DEF Outcomes
<1>10. CASE cfg.proc = "resourceversion"
  BY <1>1, <1>2, <1>10 DEF Outcomes
<1>11. CASE cfg.proc = "healthprobe"
  <2>1. \A recs \in Sampled(cfg, rec) : recs = <<>> \/ \E r : recs = <<r>> /\ Same(r, rec)
    BY <1>2, HelpersKeep DEF Sampled
  <2>2. QED
    BY <1>11, <2>1 DEF Outcomes, OneAtMost
<1>12. CASE cfg.proc = "winlog"
  <2>1. \A r : Same(r, rec) => Same(WithOriginal(cfg, r), rec)
    BY HelpersKeep DEF WithOriginal
  <2>2. Same(Windows(cfg, rec), rec)
    <3>1. Same(WithOriginal(cfg, rec), rec)
      BY <1>2, <2>1
    <3>2. \A a, b, c : Same([SetAttrs(WithOriginal(cfg, rec), a) EXCEPT !.sev = b, !.body = c],
                           rec)
      BY <3>1 DEF Same, SetAttrs
    <3>3. CASE ~IsMap(rec.body) \/ Str(rec.body.fields, "channel") = ""
      <4>1. Windows(cfg, rec) = rec
        BY <3>3 DEF Windows
      <4>2. QED
        BY <1>2, <4>1
    <3>4. CASE IsMap(rec.body) /\ Str(rec.body.fields, "channel") # ""
      BY <3>2, <3>4 DEF Windows
    <3>5. QED
      BY <3>3, <3>4
  <2>3. Windowed(cfg, rec) = <<>> \/ \E r : Windowed(cfg, rec) = <<r>> /\ Same(r, rec)
    BY <2>2 DEF Windowed
  <2>4. QED
    BY <1>12, <2>3 DEF Outcomes, OneAtMost
<1>13. CASE cfg.proc \notin {"syslog", "ciscolog", "filterlog", "nginxlog", "pgbouncerlog",
                             "redislog", "sentrylog", "resourceversion", "healthprobe",
                             "winlog"}
  <2>1. Same(Changed(cfg, rec), rec)
    <3>1. cfg.proc \in {"charonlog", "cronlog", "kernellog", "containerdlog", "klog", "kafkalog",
                        "postgreslog", "snubalog", "uvicornlog", "tektonlog", "logruslog",
                        "snoozelog", "k8sevent", "macextractor", "ipextractor", "assetdb",
                        "transform/syslog"}
      BY <1>13 DEF Processors
    <3>2. QED
      BY <3>1, ChangedKeeps DEF Changed
  <2>2. Outcomes(cfg, res, rec)
          = {Outcome(res, IF Mine(cfg, res) THEN Changed(cfg, rec) ELSE rec)}
    BY <1>13 DEF Outcomes
  <2>3. QED
    BY <1>1, <1>2, <2>1, <2>2
<1>14. QED
  BY <1>3, <1>4, <1>5, <1>6, <1>7, <1>8, <1>9, <1>10, <1>11, <1>12, <1>13

------------------------------------------------------------------------------
(* A group, record by record *)

\* The records t are what is left of the first n of the records s.
LeftOfFirst(t, s, n) ==
    /\ IsSequence(t)
    /\ \E at : /\ Rising(t, s, at)
               /\ \A i \in DOMAIN t : at[i] <= n /\ Same(t[i], s[at[i]])

\* A sequence with nothing behind it is itself.
LEMMA NothingAdded ==
    ASSUME NEW t, IsSequence(t)
    PROVE  t \o <<>> = t
<1>1. t \in Seq(Range(t))
  BY DEF IsSequence
<1>2. QED
  BY <1>1

\* One record more is processed, and kept or removed.
LEMMA LeftOneMore ==
    ASSUME NEW s, IsSequence(s), NEW n \in 1 .. Len(s), NEW t, LeftOfFirst(t, s, n - 1),
           NEW u, u = <<>> \/ \E r : u = <<r>> /\ Same(r, s[n])
    PROVE  LeftOfFirst(t \o u, s, n)
<1>1. PICK at : /\ Rising(t, s, at)
                /\ \A i \in DOMAIN t : at[i] <= n - 1 /\ Same(t[i], s[at[i]])
  BY DEF LeftOfFirst
<1>2. PICK m \in Nat : /\ m = Len(t) /\ DOMAIN t = 1 .. m /\ t = [i \in 1 .. m |-> t[i]]
  BY SequenceForm DEF LeftOfFirst
<1>3. /\ Len(s) \in Nat /\ DOMAIN s = 1 .. Len(s) /\ n \in Nat
  BY SequenceForm
<1>4. \A i \in 1 .. m : at[i] \in 1 .. Len(s)
  BY <1>1, <1>2, <1>3 DEF Rising
<1>5. \A i \in 1 .. m : at[i] \in Nat /\ at[i] <= n - 1 /\ at[i] < n /\ at[i] <= n
  <2>1. SUFFICES ASSUME NEW i \in 1 .. m
                 PROVE  at[i] \in Nat /\ at[i] <= n - 1 /\ at[i] < n /\ at[i] <= n
    OBVIOUS
  <2>2. at[i] <= n - 1 /\ at[i] \in 1 .. Len(s)
    BY <1>1, <1>2, <1>4
  <2>3. QED
    BY <1>3, <2>2
<1>6. CASE u = <<>>
  <2>1. t \o u = t
    BY <1>6, NothingAdded DEF LeftOfFirst
  <2>2. \A i \in DOMAIN t : at[i] <= n
    BY <1>2, <1>5
  <2>3. QED
    BY <1>1, <2>1, <2>2 DEF LeftOfFirst
<1>7. CASE \E r : u = <<r>> /\ Same(r, s[n])
  <2>1. PICK r : u = <<r>> /\ Same(r, s[n])
    BY <1>7
  <2> DEFINE v  == [i \in 1 .. m + 1 |-> IF i = m + 1 THEN r ELSE t[i]]
             to == [i \in 1 .. m + 1 |-> IF i = m + 1 THEN n ELSE at[i]]
  <2>2. t \o u = v
    <3>1. PICK S : t \in Seq(S) /\ u \in Seq(S)
      <4>1. t \in Seq(Range(t) \cup {r})
        BY SeqMonotonic DEF LeftOfFirst, IsSequence
      <4>2. u \in Seq(Range(t) \cup {r})
        BY <2>1
      <4>3. QED
        BY <4>1, <4>2
    <3>2. Len(u) = 1 /\ u[1] = r
      BY <2>1
    <3>3. /\ t \o u \in Seq(S)
          /\ Len(t \o u) = m + 1
          /\ \A i \in 1 .. m + 1 : (t \o u)[i] = IF i <= m THEN t[i] ELSE u[i - m]
      <4>1. /\ t \o u \in Seq(S)
            /\ Len(t \o u) = Len(t) + Len(u)
            /\ \A i \in 1 .. Len(t) + Len(u) :
                 (t \o u)[i] = IF i <= Len(t) THEN t[i] ELSE u[i - Len(t)]
        BY <3>1, ConcatProperties
      <4>2. Len(t) = m /\ Len(u) = 1
        BY <1>2, <3>2
      <4>3. QED
        BY <4>1, <4>2
    <3>4. \A i \in 1 .. m + 1 : (t \o u)[i] = v[i]
      <4>1. SUFFICES ASSUME NEW i \in 1 .. m + 1 PROVE (t \o u)[i] = v[i]
        OBVIOUS
      <4>2. CASE i = m + 1
        <5>1. ~(i <= m) /\ i - m = 1
          BY <1>2, <4>2
        <5>2. QED
          BY <3>2, <3>3, <4>2, <5>1
      <4>3. CASE i # m + 1
        BY <3>3, <4>3
      <4>4. QED
        BY <4>2, <4>3
    <3>5. t \o u = [i \in 1 .. m + 1 |-> (t \o u)[i]]
      <4>1. t \o u = [i \in 1 .. Len(t \o u) |-> (t \o u)[i]]
        BY <3>3, LenProperties
      <4>2. QED
        BY <3>3, <4>1
    <3> HIDE DEF v
    <3>6. v = [i \in 1 .. m + 1 |-> v[i]]
      BY DEF v
    <3>7. QED
      BY <3>4, <3>5, <3>6
  <2>3. IsSequence(v) /\ DOMAIN v = 1 .. m + 1
    <3>1. v = [i \in 1 .. m + 1 |-> v[i]] /\ m + 1 \in Nat
      OBVIOUS
    <3> HIDE DEF v
    <3>2. QED
      BY <3>1, MadeSequence
  <2>4. to \in [1 .. m + 1 -> DOMAIN s]
    BY <1>3, <1>4
  <2>5. \A i, j \in 1 .. m + 1 : i < j => to[i] < to[j]
    <3>1. SUFFICES ASSUME NEW i \in 1 .. m + 1, NEW j \in 1 .. m + 1, i < j
                   PROVE  to[i] < to[j]
      OBVIOUS
    <3>2. i \in 1 .. m /\ to[i] = at[i] /\ at[i] < n
      <4>1. i \in 1 .. m /\ i # m + 1
        BY <3>1
      <4>2. QED
        BY <1>5, <4>1
    <3>3. CASE j = m + 1
      BY <1>3, <3>2, <3>3
    <3>4. CASE j # m + 1
      <4>1. j \in 1 .. m /\ to[j] = at[j]
        BY <3>4
      <4>2. QED
        BY <1>1, <1>2, <3>1, <3>2, <4>1 DEF Rising
    <3>5. QED
      BY <3>3, <3>4
  <2>6. \A i \in 1 .. m + 1 : to[i] <= n /\ Same(v[i], s[to[i]])
    <3>1. SUFFICES ASSUME NEW i \in 1 .. m + 1
                   PROVE  to[i] <= n /\ Same(v[i], s[to[i]])
      OBVIOUS
    <3>2. CASE i = m + 1
      BY <1>3, <2>1, <3>2
    <3>3. CASE i # m + 1
      <4>1. i \in 1 .. m /\ to[i] = at[i] /\ v[i] = t[i]
        BY <3>3
      <4>2. at[i] <= n /\ Same(t[i], s[at[i]])
        BY <1>1, <1>2, <1>5, <4>1
      <4>3. QED
        BY <1>3, <4>1, <4>2
    <3>4. QED
      BY <3>2, <3>3
  <2> HIDE DEF to, v
  <2>7. QED
    BY <2>2, <2>3, <2>4, <2>5, <2>6 DEF LeftOfFirst, Rising
<1>8. QED
  BY <1>6, <1>7

\* What the groups of a set may be when one more record has been processed.
RecordMore(cfg, gs, rec) ==
    UNION {{[res |-> next.res, recs |-> g.recs \o next.recs] :
              next \in Outcomes(cfg, g.res, rec)} : g \in gs}

\* after[n] is what a group may be when n records have been processed.
RecordByRecord(cfg, group, after) ==
    /\ InTurn(cfg, group) = after[Len(group.recs)]
    /\ after[0] = {[res |-> group.res, recs |-> <<>>]}
    /\ \A n \in 1 .. Len(group.recs) :
         after[n] = RecordMore(cfg, after[n - 1], group.recs[n])

\* InTurn takes a group record by record.
LEMMA InTurnSteps ==
    ASSUME NEW cfg, NEW group, IsSequence(group.recs)
    PROVE  \E after : RecordByRecord(cfg, group, after)
<1> DEFINE N          == Len(group.recs)
           First      == {[res |-> group.res, recs |-> <<>>]}
           More(X, n) == RecordMore(cfg, X, group.recs[n])
           After(f, m) == f = [n \in 0 .. m |-> IF n = 0 THEN First ELSE More(f[n - 1], n)]
<1>1. N \in Nat /\ DOMAIN group.recs = 1 .. N /\ IsSequence(group.recs)
  BY SequenceForm
<1>2. InTurn(cfg, group) = (CHOOSE f : After(f, N))[N]
  BY DEF InTurn, RecordMore
<1>3. \E f : After(f, N)
  <2> HIDE DEF N, First, More
  <2> DEFINE Lacking == {m \in Nat : ~ \E f : After(f, m)}
  <2>1. \E f : After(f, 0)
    <3>1. After([n \in 0 .. 0 |-> First], 0)
      OBVIOUS
    <3>2. QED
      BY <3>1
  <2>2. ASSUME NEW m \in Nat, NEW f, After(f, m)
        PROVE  \E h : After(h, m + 1)
    <3> DEFINE h == [n \in 0 .. m + 1 |-> IF n = m + 1 THEN More(f[m], m + 1) ELSE f[n]]
    <3>1. \A n \in 0 .. m + 1 : h[n] = IF n = 0 THEN First ELSE More(h[n - 1], n)
      BY <2>2
    <3>2. After(h, m + 1)
      BY <3>1
    <3>3. QED
      BY <3>2
  <2>3. ASSUME Lacking # {} PROVE FALSE
    <3>1. Lacking \subseteq Nat
      OBVIOUS
    <3>2. PICK m \in Lacking : \A k \in Lacking : m <= k
      <4> HIDE DEF Lacking
      <4>1. QED
        BY <2>3, <3>1, LeastExists
    <3>3. m \in Nat /\ m # 0
      BY <2>1, <3>2
    <3>4. m - 1 \in Nat /\ m - 1 \notin Lacking
      BY <3>2, <3>3
    <3>5. PICK f : After(f, m - 1)
      BY <3>4
    <3>6. \E h : After(h, (m - 1) + 1)
      <4> HIDE DEF After
      <4>1. QED
        BY <2>2, <3>4, <3>5
    <3>7. (m - 1) + 1 = m
      BY <3>3
    <3>8. QED
      BY <3>2, <3>6, <3>7
  <2>4. QED
    BY <1>1, <2>3
<1>4. PICK after : after = (CHOOSE f : After(f, N)) /\ After(after, N)
  BY <1>3
<1>5. /\ after[0] = First
      /\ \A n \in 1 .. N : after[n] = More(after[n - 1], n)
  <2>1. after = [n \in 0 .. N |-> IF n = 0 THEN First ELSE More(after[n - 1], n)]
    BY <1>4
  <2> HIDE DEF First, More, N
  <2>2. \A n \in 0 .. N : after[n] = IF n = 0 THEN First ELSE More(after[n - 1], n)
    BY <2>1
  <2>3. QED
    BY <1>1, <2>2
<1>6. InTurn(cfg, group) = after[N]
  BY <1>2, <1>4
<1> HIDE DEF After
<1>7. RecordByRecord(cfg, group, after)
  BY <1>5, <1>6 DEF RecordByRecord
<1>8. QED
  BY <1>7

\* A processor that takes a group record by record leaves records of the group, in order.
LEMMA InTurnLeft ==
    ASSUME NEW cfg, cfg.proc \in Processors \ {"journald"}, NEW group, HaveIds(group.recs)
    PROVE  \A g \in InTurn(cfg, group) :
             LeftOf(g.recs, group.recs)
<1> DEFINE N == Len(group.recs)
<1>1. N \in Nat /\ DOMAIN group.recs = 1 .. N /\ IsSequence(group.recs)
  BY SequenceForm DEF HaveIds
<1>2. PICK after : RecordByRecord(cfg, group, after)
  BY <1>1, InTurnSteps
<1>3. /\ InTurn(cfg, group) = after[N]
      /\ after[0] = {[res |-> group.res, recs |-> <<>>]}
      /\ \A n \in 1 .. N : after[n] = RecordMore(cfg, after[n - 1], group.recs[n])
  BY <1>2 DEF RecordByRecord
<1> DEFINE Wrong == {n \in 0 .. N : \E g \in after[n] : ~LeftOfFirst(g.recs, group.recs, n)}
<1>4. ASSUME Wrong # {} PROVE FALSE
  <2>1. Wrong \subseteq Nat
    BY <1>1
  <2>2. PICK n \in Wrong : \A k \in Wrong : n <= k
    <3> HIDE DEF Wrong
    <3>1. QED
      BY <1>4, <2>1, LeastExists
  <2>3. PICK g \in after[n] : ~LeftOfFirst(g.recs, group.recs, n)
    BY <2>2
  <2>4. n # 0
    <3>1. SUFFICES ASSUME n = 0 PROVE FALSE
      OBVIOUS
    <3>2. g.recs = <<>>
      BY <1>3, <2>3, <3>1
    <3>3. IsSequence(<<>>) /\ DOMAIN <<>> = {}
      BY DEF IsSequence
    <3>4. Rising(<<>>, group.recs, <<>>)
      BY DEF Rising
    <3>5. QED
      BY <2>3, <3>2, <3>3, <3>4 DEF LeftOfFirst
  <2>5. n \in 1 .. N /\ n - 1 \in 0 .. N /\ n - 1 \notin Wrong
    BY <1>1, <2>2, <2>4
  <2>6. PICK h, next : /\ h \in after[n - 1]
                       /\ next \in Outcomes(cfg, h.res, group.recs[n])
                       /\ g = [res |-> next.res, recs |-> h.recs \o next.recs]
    <3>1. g \in RecordMore(cfg, after[n - 1], group.recs[n])
      BY <1>3, <2>3, <2>5
    <3>2. QED
      BY <3>1 DEF RecordMore
  <2>7. LeftOfFirst(h.recs, group.recs, n - 1)
    BY <2>5, <2>6
  <2>8. "id" \in DOMAIN group.recs[n]
    BY <1>1, <2>5 DEF HaveIds
  <2>9. OneAtMost(next, group.recs[n])
    BY <2>6, <2>8, OutcomesKeep
  <2>10. LeftOfFirst(h.recs \o next.recs, group.recs, n)
    BY <1>1, <2>5, <2>7, <2>9, LeftOneMore DEF OneAtMost
  <2>11. QED
    BY <2>3, <2>6, <2>10
<1>5. \A g \in after[N] : LeftOfFirst(g.recs, group.recs, N)
  BY <1>1, <1>4
<1>6. \A g \in after[N] : LeftOf(g.recs, group.recs)
  BY <1>5 DEF LeftOf, LeftOfFirst
<1>7. QED
  BY <1>3, <1>6

------------------------------------------------------------------------------
(* Sequences of sequences *)

\* The elements of the sequences of a sequence.
Within(seqs) == UNION {Range(seqs[i]) : i \in DOMAIN seqs}

\* The sequences FlattenSeq makes of the first sequences of a sequence.
LEMMA FlattenSteps ==
    ASSUME NEW seqs, IsSequence(seqs)
    PROVE  /\ Len(seqs) = 0 => FlattenSeq(seqs) = <<>>
           /\ Len(seqs) # 0 =>
                \E f : /\ FlattenSeq(seqs) = f[Len(seqs)]
                      /\ \A i \in 1 .. Len(seqs) :
                           f[i] = IF i = 1 THEN seqs[i] ELSE f[i - 1] \o seqs[i]
<1> DEFINE N           == Len(seqs)
           More(s, i)  == s \o seqs[i]
           Flat(f, m)  == f = [i \in 1 .. m |-> IF i = 1 THEN seqs[i] ELSE More(f[i - 1], i)]
<1>1. N \in Nat /\ DOMAIN seqs = 1 .. N
  BY SequenceForm
<1>2. CASE N = 0
  <2>1. FlattenSeq(seqs) = seqs
    BY <1>2 DEF FlattenSeq
  <2>2. seqs = <<>>
    BY <1>2 DEF IsSequence
  <2>3. QED
    BY <2>1, <2>2
<1>3. CASE N # 0
  <2>1. FlattenSeq(seqs) = (CHOOSE f : Flat(f, N))[N]
    BY <1>3 DEF FlattenSeq
  <2>2. \E f : Flat(f, N)
    <3> HIDE DEF N, More
    <3> DEFINE Lacking == {m \in Nat : ~ \E f : Flat(f, m)}
    <3>1. \E f : Flat(f, 0)
      <4>1. Flat([i \in 1 .. 0 |-> seqs[i]], 0)
        OBVIOUS
      <4>2. QED
        BY <4>1
    <3>2. ASSUME NEW m \in Nat, NEW f, Flat(f, m)
          PROVE  \E h : Flat(h, m + 1)
      <4> DEFINE h == [i \in 1 .. m + 1 |-> IF i = m + 1
                                            THEN IF i = 1 THEN seqs[i] ELSE More(f[m], i)
                                            ELSE f[i]]
      <4>1. \A i \in 1 .. m + 1 : h[i] = IF i = 1 THEN seqs[i] ELSE More(h[i - 1], i)
        BY <3>2
      <4>2. Flat(h, m + 1)
        BY <4>1
      <4>3. QED
        BY <4>2
    <3>3. ASSUME Lacking # {} PROVE FALSE
      <4>1. Lacking \subseteq Nat
        OBVIOUS
      <4>2. PICK m \in Lacking : \A k \in Lacking : m <= k
        <5> HIDE DEF Lacking
        <5>1. QED
          BY <3>3, <4>1, LeastExists
      <4>3. m \in Nat /\ m # 0
        BY <3>1, <4>2
      <4>4. m - 1 \in Nat /\ m - 1 \notin Lacking
        <5>1. m - 1 \in Nat /\ ~(m <= m - 1)
          BY <4>3
        <5> HIDE DEF Lacking
        <5>2. QED
          BY <4>2, <5>1
      <4>5. PICK f : Flat(f, m - 1)
        BY <4>4
      <4>6. \E h : Flat(h, (m - 1) + 1)
        <5> HIDE DEF Flat
        <5>1. QED
          BY <3>2, <4>4, <4>5
      <4>7. (m - 1) + 1 = m
        BY <4>3
      <4>8. QED
        BY <4>2, <4>6, <4>7
    <3>4. QED
      BY <1>1, <3>3
  <2>3. PICK f : f = (CHOOSE h : Flat(h, N)) /\ Flat(f, N)
    BY <2>2
  <2>4. \A i \in 1 .. N : f[i] = IF i = 1 THEN seqs[i] ELSE f[i - 1] \o seqs[i]
    BY <2>3
  <2>5. FlattenSeq(seqs) = f[N]
    BY <2>1, <2>3
  <2>6. QED
    BY <1>3, <2>4, <2>5
<1>4. QED
  BY <1>2, <1>3

\* A flattened sequence of sequences holds their elements and no others.
LEMMA FlattenedElements ==
    ASSUME NEW seqs, IsSequence(seqs), \A i \in DOMAIN seqs : IsSequence(seqs[i])
    PROVE  FlattenSeq(seqs) \in Seq(Within(seqs))
<1> DEFINE N == Len(seqs)
<1>1. N \in Nat /\ DOMAIN seqs = 1 .. N
  BY SequenceForm
<1>2. CASE N = 0
  <2>1. FlattenSeq(seqs) = <<>>
    BY <1>2, FlattenSteps
  <2>2. QED
    BY <2>1
<1>3. CASE N # 0
  <2>1. PICK f : /\ FlattenSeq(seqs) = f[N]
                 /\ \A i \in 1 .. N : f[i] = IF i = 1 THEN seqs[i] ELSE f[i - 1] \o seqs[i]
    BY <1>3, FlattenSteps
  <2>5. \A i \in 1 .. N : seqs[i] \in Seq(Within(seqs))
    <3>1. SUFFICES ASSUME NEW i \in 1 .. N PROVE seqs[i] \in Seq(Within(seqs))
      OBVIOUS
    <3>2. seqs[i] \in Seq(Range(seqs[i])) /\ Range(seqs[i]) \subseteq Within(seqs)
      BY <1>1 DEF IsSequence, Within
    <3>3. QED
      BY <3>2, SeqMonotonic
  <2> DEFINE Wrong == {i \in 1 .. N : f[i] \notin Seq(Within(seqs))}
  <2>6. ASSUME Wrong # {} PROVE FALSE
    <3>1. Wrong \subseteq Nat
      BY <1>1
    <3>2. PICK i \in Wrong : \A k \in Wrong : i <= k
      <4> HIDE DEF Wrong
      <4>1. QED
        BY <2>6, <3>1, LeastExists
    <3>3. i # 1
      BY <2>1, <2>5, <3>2
    <3>4. i - 1 \in 1 .. N /\ i - 1 \notin Wrong
      BY <1>1, <3>2, <3>3
    <3>5. f[i - 1] \in Seq(Within(seqs)) /\ seqs[i] \in Seq(Within(seqs))
      BY <2>5, <3>2, <3>4
    <3>6. f[i] = f[i - 1] \o seqs[i]
      BY <2>1, <3>2, <3>3
    <3>7. f[i] \in Seq(Within(seqs))
      BY <3>5, <3>6, ConcatProperties
    <3>8. QED
      BY <3>2, <3>7
  <2>7. f[N] \in Seq(Within(seqs))
    BY <1>1, <1>3, <2>6
  <2>8. QED
    BY <2>1, <2>7
<1>4. QED
  BY <1>2, <1>3

\* So does the concatenation of two sequences.
LEMMA JoinedElements ==
    ASSUME NEW s, IsSequence(s), NEW t, IsSequence(t)
    PROVE  IsSequence(s \o t) /\ Range(s \o t) = Range(s) \cup Range(t)
<1>1. PICK S : s \in Seq(S) /\ t \in Seq(S)
  <2>1. s \in Seq(Range(s) \cup Range(t)) /\ t \in Seq(Range(s) \cup Range(t))
    BY SeqMonotonic DEF IsSequence
  <2>2. QED
    BY <2>1
<1>2. s \o t \in Seq(S)
  BY <1>1, ConcatProperties
<1>3. IsSequence(s \o t)
  BY <1>2, SeqOfRange DEF IsSequence
<1>4. Range(s \o t) = Range(s) \cup Range(t)
  BY <1>1, RangeConcatenation DEF IsSequence
<1>5. QED
  BY <1>3, <1>4

\* Groups without records are removed, and the others left as they are.
LEMMA FilledGroups ==
    ASSUME NEW groups, IsSequence(groups)
    PROVE  IsSequence(Filled(groups)) /\ Range(Filled(groups)) \subseteq Range(groups)
<1> DEFINE I == {i \in DOMAIN groups : groups[i].recs # <<>>}
<1>1. Filled(groups) = Picked(groups, I) /\ I \in SUBSET DOMAIN groups
  BY DEF Filled
<1> HIDE DEF I
<1>2. QED
  BY <1>1, PickedRises DEF Range

------------------------------------------------------------------------------
(* A batch *)

\* The records of each group are what is left of one group there was.
GroupsOf(groups, from) ==
    /\ IsSequence(groups)
    /\ \A group \in Range(groups) : \E o \in Range(from) : LeftOf(group.recs, o.recs)

\* Records know their places.
GroupsHaveIds(groups) ==
    IsSequence(groups) /\ \A group \in Range(groups) : HaveIds(group.recs)

\* processRecord leaves a record its place.
LEMMA JournalRecordKeeps ==
    ASSUME NEW cfg, NEW rec, "id" \in DOMAIN rec
    PROVE  Same(JournalRecord(cfg, rec), rec)
BY DEF JournalRecord, Same

\* processInPlace removes no record and moves none.
LEMMA JournalInPlaceLeft ==
    ASSUME NEW cfg, NEW group, HaveIds(group.recs)
    PROVE  LeftOf(JournalInPlace(cfg, group).recs, group.recs)
<1> DEFINE recs == JournalInPlace(cfg, group).recs
<1>1. PICK n \in Nat : n = Len(group.recs) /\ DOMAIN group.recs = 1 .. n
  BY SequenceForm DEF HaveIds
<1>2. recs = [i \in 1 .. n |-> IF IsMap(group.recs[i].body)
                               THEN JournalRecord(cfg, group.recs[i]) ELSE group.recs[i]]
  BY <1>1 DEF JournalInPlace
<1>3. \A i \in 1 .. n : Same(recs[i], group.recs[i])
  <2>1. SUFFICES ASSUME NEW i \in 1 .. n PROVE Same(recs[i], group.recs[i])
    OBVIOUS
  <2>2. "id" \in DOMAIN group.recs[i]
    BY <1>1 DEF HaveIds
  <2>3. Same(JournalRecord(cfg, group.recs[i]), group.recs[i])
    BY <2>2, JournalRecordKeeps
  <2>4. Same(group.recs[i], group.recs[i])
    BY <2>2 DEF Same
  <2> HIDE DEF recs
  <2>5. QED
    BY <1>2, <2>3, <2>4
<1> HIDE DEF recs
<1>4. IsSequence(recs) /\ DOMAIN recs = 1 .. n
  BY <1>2, MadeSequence
<1>5. LeftOf(recs, group.recs)
  BY <1>1, <1>3, <1>4, LeftChanged DEF HaveIds
<1>6. QED
  BY <1>5 DEF recs

\* Each group that split makes has records of the group it splits, in their order.
LEMMA JournalSplitLeft ==
    ASSUME NEW cfg, NEW group, HaveIds(group.recs)
    PROVE  /\ IsSequence(JournalSplit(cfg, group))
           /\ \A g \in Range(JournalSplit(cfg, group)) : LeftOf(g.recs, group.recs)
<1> DEFINE firsts  == FirstOfKey(group.recs)
           mine(k) == [res  |-> group.res,
                       recs |-> OfKey(group.recs, JournalKey(firsts[k]))]
<1>1. IsSequence(group.recs) /\ Maps(group.recs) \in SUBSET DOMAIN group.recs
  BY DEF HaveIds, Maps
<1>2. IsSequence(firsts)
  <2> DEFINE I == {i \in Maps(group.recs) : \A j \in Maps(group.recs) :
                     j < i => JournalKey(group.recs[j]) # JournalKey(group.recs[i])}
  <2>1. firsts = Picked(group.recs, I) /\ I \in SUBSET DOMAIN group.recs
    BY <1>1 DEF FirstOfKey
  <2> HIDE DEF I, firsts
  <2>2. QED
    BY <1>1, <2>1, PickedRises
<1>3. PICK n \in Nat : n = Len(firsts) /\ DOMAIN firsts = 1 .. n
  BY <1>2, SequenceForm
<1>4. JournalSplit(cfg, group) = [k \in 1 .. n |-> JournalInPlace(cfg, mine(k))]
  BY <1>3 DEF JournalSplit
<1>5. ASSUME NEW key
      PROVE  LET g == [res |-> group.res, recs |-> OfKey(group.recs, key)]
             IN  LeftOf(JournalInPlace(cfg, g).recs, group.recs)
  <2> DEFINE g == [res |-> group.res, recs |-> OfKey(group.recs, key)]
             I == {i \in Maps(group.recs) : JournalKey(group.recs[i]) = key}
  <2>1. I \in SUBSET DOMAIN group.recs /\ OfKey(group.recs, key) = Picked(group.recs, I)
    BY <1>1 DEF OfKey
  <2> HIDE DEF I
  <2>2. LeftOf(OfKey(group.recs, key), group.recs)
    BY <2>1, LeftPicked
  <2>3. g.recs = OfKey(group.recs, key)
    OBVIOUS
  <2> HIDE DEF g
  <2>4. HaveIds(g.recs)
    BY <2>2, <2>3, LeftIds
  <2>5. LeftOf(JournalInPlace(cfg, g).recs, g.recs)
    BY <2>4, JournalInPlaceLeft
  <2>6. LeftOf(JournalInPlace(cfg, g).recs, group.recs)
    BY <1>1, <2>2, <2>3, <2>5, LeftOfLeft
  <2>7. QED
    BY <2>6 DEF g
<1>6. \A k \in 1 .. n : LeftOf(JournalInPlace(cfg, mine(k)).recs, group.recs)
  BY <1>5
<1> HIDE DEF mine
<1>7. IsSequence(JournalSplit(cfg, group)) /\ DOMAIN JournalSplit(cfg, group) = 1 .. n
  BY <1>4, MadeSequence
<1>8. \A g \in Range(JournalSplit(cfg, group)) : LeftOf(g.recs, group.recs)
  BY <1>4, <1>6, <1>7 DEF Range
<1>9. QED
  BY <1>7, <1>8

\* A batch is left of what came, also without the groups that are empty.
LEMMA FilledLeft ==
    ASSUME NEW groups, NEW from, GroupsOf(groups, from)
    PROVE  GroupsOf(Filled(groups), from)
BY FilledGroups DEF GroupsOf

\* What the journal processor makes of a batch is left of it, split or not.
LEMMA JournalLeft ==
    ASSUME NEW cfg, NEW groups, GroupsHaveIds(groups)
    PROVE  GroupsOf(Journal(cfg, groups), groups)
<1> DEFINE split == cfg.setResource /\ cfg.splitResources
           apart == {i \in DOMAIN groups : split /\ ~SingleTuple(groups[i])}
           first == [i \in DOMAIN groups |->
                       IF i \in apart THEN JournalStays(groups[i])
                       ELSE JournalInPlace(cfg, groups[i])]
           news  == [i \in DOMAIN groups |->
                       IF i \in apart THEN JournalSplit(cfg, groups[i]) ELSE <<>>]
           added == FlattenSeq(news)
<1>1. Journal(cfg, groups) = IF split THEN Filled(first \o added) ELSE first
  BY DEF Journal
<1>2. PICK n \in Nat : n = Len(groups) /\ DOMAIN groups = 1 .. n
  BY SequenceForm DEF GroupsHaveIds
<1>3. \A i \in 1 .. n : groups[i] \in Range(groups) /\ HaveIds(groups[i].recs)
  BY <1>2 DEF GroupsHaveIds, Range
<1>4. IsSequence(first) /\ DOMAIN first = 1 .. n
  <2>1. first = [i \in 1 .. n |-> first[i]]
    BY <1>2
  <2> HIDE DEF first
  <2>2. QED
    BY <2>1, MadeSequence
<1>5. ASSUME NEW i \in 1 .. n
      PROVE  LeftOf(first[i].recs, groups[i].recs)
  <2>1. CASE i \in apart
    <3>1. first[i] = JournalStays(groups[i])
      BY <1>2, <2>1
    <3> HIDE DEF first
    <3>2. first[i].recs = Picked(groups[i].recs, Rest(groups[i].recs))
      BY <3>1 DEF JournalStays
    <3>3. Rest(groups[i].recs) \in SUBSET DOMAIN groups[i].recs
      BY DEF Rest
    <3>4. QED
      BY <1>3, <3>2, <3>3, LeftPicked
  <2>2. CASE i \notin apart
    <3>1. first[i] = JournalInPlace(cfg, groups[i])
      BY <1>2, <2>2
    <3> HIDE DEF first
    <3>2. QED
      BY <1>3, <3>1, JournalInPlaceLeft
  <2>3. QED
    BY <2>1, <2>2
<1>6. GroupsOf(first, groups)
  <2> HIDE DEF first
  <2>1. \A g \in Range(first) : \E i \in 1 .. n : g = first[i]
    BY <1>4 DEF Range
  <2>2. QED
    BY <1>3, <1>4, <1>5, <2>1 DEF GroupsOf
<1>7. IsSequence(news) /\ DOMAIN news = 1 .. n
  <2>1. news = [i \in 1 .. n |-> news[i]]
    BY <1>2
  <2> HIDE DEF news
  <2>2. QED
    BY <2>1, MadeSequence
<1>8. ASSUME NEW i \in 1 .. n
      PROVE  /\ IsSequence(news[i])
             /\ \A g \in Range(news[i]) : LeftOf(g.recs, groups[i].recs)
  <2>1. CASE i \in apart
    <3>1. news[i] = JournalSplit(cfg, groups[i])
      BY <1>2, <2>1
    <3> HIDE DEF news
    <3>2. QED
      BY <1>3, <3>1, JournalSplitLeft
  <2>2. CASE i \notin apart
    <3>1. news[i] = <<>>
      BY <1>2, <2>2
    <3>2. IsSequence(<<>>) /\ Range(<<>>) = {}
      BY DEF IsSequence, Range
    <3> HIDE DEF news
    <3>3. QED
      BY <3>1, <3>2
  <2>3. QED
    BY <2>1, <2>2
<1> HIDE DEF first, news
<1>9. added \in Seq(Within(news))
  BY <1>7, <1>8, FlattenedElements
<1>10. \A g \in Within(news) : \E o \in Range(groups) : LeftOf(g.recs, o.recs)
  <2>1. \A g \in Within(news) : \E i \in 1 .. n : g \in Range(news[i])
    BY <1>7 DEF Within
  <2>2. QED
    BY <1>3, <1>8, <2>1
<1>11. IsSequence(added) /\ Range(added) \subseteq Within(news)
  BY <1>9, SeqOfRange, RangeOfSeq DEF IsSequence
<1> HIDE DEF added
<1>12. GroupsOf(first \o added, groups)
  BY <1>4, <1>6, <1>10, <1>11, JoinedElements DEF GroupsOf
<1>13. QED
  BY <1>1, <1>6, <1>12, FilledLeft

\* One group more of what is left.
LEMMA OneGroupMore ==
    ASSUME NEW groups, NEW from, GroupsOf(groups, from),
           NEW g, NEW o \in Range(from), LeftOf(g.recs, o.recs)
    PROVE  GroupsOf(Append(groups, g), from)
<1>1. PICK S : groups \in Seq(S) /\ g \in S /\ S = Range(groups) \cup {g}
  BY SeqMonotonic DEF GroupsOf, IsSequence
<1>2. Append(groups, g) \in Seq(S)
  BY <1>1
<1>3. IsSequence(Append(groups, g)) /\ Range(Append(groups, g)) \subseteq S
  BY <1>2, SeqOfRange, RangeOfSeq DEF IsSequence
<1>4. QED
  BY <1>1, <1>3 DEF GroupsOf

\* What the first groups of a batch may be when one more has been processed.
GroupMore(cfg, batches, group) ==
    {Append(gs, g) : gs \in batches, g \in InTurn(cfg, group)}

\* The processors that may remove records.
Removes(cfg) == cfg.proc \in {"healthprobe", "winlog"}

\* What a processor hands on of the batches it may have made.
Handed(cfg, batches) ==
    IF Removes(cfg) THEN {Filled(gs) : gs \in batches} ELSE batches

\* done[n] is what the first n groups may be.
GroupByGroup(cfg, groups, done) ==
    /\ Consumed(cfg, groups) = Handed(cfg, done[Len(groups)])
    /\ done[0] = {<<>>}
    /\ \A n \in 1 .. Len(groups) : done[n] = GroupMore(cfg, done[n - 1], groups[n])

\* Consumed takes a batch group by group.
LEMMA ConsumedSteps ==
    ASSUME NEW cfg, cfg.proc # "journald", NEW groups, IsSequence(groups)
    PROVE  \E done : GroupByGroup(cfg, groups, done)
<1> DEFINE N           == Len(groups)
           Start       == {<<>>}
           More(X, n)  == GroupMore(cfg, X, groups[n])
           Done(f, m)  == f = [n \in 0 .. m |-> IF n = 0 THEN Start ELSE More(f[n - 1], n)]
           whole       == (CHOOSE f : Done(f, N))[N]
<1>1. N \in Nat /\ DOMAIN groups = 1 .. N
  BY SequenceForm
<1>2. Consumed(cfg, groups)
        = IF cfg.proc \in {"healthprobe", "winlog"} THEN {Filled(gs) : gs \in whole} ELSE whole
  BY DEF Consumed, GroupMore
<1>3. \E f : Done(f, N)
  <2> HIDE DEF N, Start, More
  <2> DEFINE Lacking == {m \in Nat : ~ \E f : Done(f, m)}
  <2>1. \E f : Done(f, 0)
    <3>1. Done([n \in 0 .. 0 |-> Start], 0)
      OBVIOUS
    <3>2. QED
      BY <3>1
  <2>2. ASSUME NEW m \in Nat, NEW f, Done(f, m)
        PROVE  \E h : Done(h, m + 1)
    <3> DEFINE h == [n \in 0 .. m + 1 |-> IF n = m + 1 THEN More(f[m], m + 1) ELSE f[n]]
    <3>1. \A n \in 0 .. m + 1 : h[n] = IF n = 0 THEN Start ELSE More(h[n - 1], n)
      BY <2>2
    <3>2. Done(h, m + 1)
      BY <3>1
    <3>3. QED
      BY <3>2
  <2>3. ASSUME Lacking # {} PROVE FALSE
    <3>1. Lacking \subseteq Nat
      OBVIOUS
    <3>2. PICK m \in Lacking : \A k \in Lacking : m <= k
      <4> HIDE DEF Lacking
      <4>1. QED
        BY <2>3, <3>1, LeastExists
    <3>3. m \in Nat /\ m # 0
      BY <2>1, <3>2
    <3>4. m - 1 \in Nat /\ m - 1 \notin Lacking
      <4>1. m - 1 \in Nat /\ ~(m <= m - 1)
        BY <3>3
      <4> HIDE DEF Lacking
      <4>2. QED
        BY <3>2, <4>1
    <3>5. PICK f : Done(f, m - 1)
      BY <3>4
    <3>6. \E h : Done(h, (m - 1) + 1)
      <4> HIDE DEF Done
      <4>1. QED
        BY <2>2, <3>4, <3>5
    <3>7. (m - 1) + 1 = m
      BY <3>3
    <3>8. QED
      BY <3>2, <3>6, <3>7
  <2>4. QED
    BY <1>1, <2>3
<1>4. PICK done : done = (CHOOSE f : Done(f, N)) /\ Done(done, N)
  BY <1>3
<1>5. /\ done[0] = Start
      /\ \A n \in 1 .. N : done[n] = More(done[n - 1], n)
  <2> HIDE DEF N, Start, More
  <2>1. done = [n \in 0 .. N |-> IF n = 0 THEN Start ELSE More(done[n - 1], n)]
    BY <1>4
  <2>2. \A n \in 0 .. N : done[n] = IF n = 0 THEN Start ELSE More(done[n - 1], n)
    BY <2>1
  <2>3. QED
    BY <1>1, <2>2
<1>6. Consumed(cfg, groups) = Handed(cfg, done[N])
  BY <1>2, <1>4 DEF Removes, Handed
<1> HIDE DEF Done, whole
<1>7. GroupByGroup(cfg, groups, done)
  BY <1>5, <1>6 DEF GroupByGroup
<1>8. QED
  BY <1>7

\* What any processor makes of a batch is left of it.
LEMMA ConsumedLeft ==
    ASSUME NEW cfg, cfg.proc \in Processors, NEW groups, GroupsHaveIds(groups)
    PROVE  \A gs \in Consumed(cfg, groups) : GroupsOf(gs, groups)
<1>1. CASE cfg.proc = "journald"
  <2>1. Consumed(cfg, groups) = {Journal(cfg, groups)}
    BY <1>1 DEF Consumed
  <2>2. QED
    BY <2>1, JournalLeft
<1>2. CASE cfg.proc # "journald"
  <2> DEFINE N == Len(groups)
  <2>1. N \in Nat /\ DOMAIN groups = 1 .. N /\ IsSequence(groups)
    BY SequenceForm DEF GroupsHaveIds
  <2>2. PICK done : GroupByGroup(cfg, groups, done)
    BY <1>2, <2>1, ConsumedSteps
  <2>3. /\ Consumed(cfg, groups) = Handed(cfg, done[N])
        /\ done[0] = {<<>>}
        /\ \A n \in 1 .. N : done[n] = GroupMore(cfg, done[n - 1], groups[n])
    BY <2>2 DEF GroupByGroup
  <2> DEFINE Wrong == {n \in 0 .. N : \E gs \in done[n] : ~GroupsOf(gs, groups)}
  <2>4. ASSUME Wrong # {} PROVE FALSE
    <3>1. Wrong \subseteq Nat
      BY <2>1
    <3>2. PICK n \in Wrong : \A k \in Wrong : n <= k
      <4> HIDE DEF Wrong
      <4>1. QED
        BY <2>4, <3>1, LeastExists
    <3>3. PICK gs \in done[n] : ~GroupsOf(gs, groups)
      BY <3>2
    <3>4. n # 0
      <4>1. IsSequence(<<>>) /\ Range(<<>>) = {}
        BY DEF IsSequence, Range
      <4>2. QED
        BY <2>3, <3>3, <4>1 DEF GroupsOf
    <3>5. n \in 1 .. N /\ n - 1 \in 0 .. N /\ ~(n <= n - 1)
      BY <2>1, <3>2, <3>4
    <3>6. n - 1 \notin Wrong
      <4> HIDE DEF Wrong
      <4>1. QED
        BY <3>2, <3>5
    <3>7. PICK hs, g : hs \in done[n - 1] /\ g \in InTurn(cfg, groups[n]) /\ gs = Append(hs, g)
      <4>1. gs \in GroupMore(cfg, done[n - 1], groups[n])
        BY <2>3, <3>3, <3>5
      <4>2. QED
        BY <4>1 DEF GroupMore
    <3>8. GroupsOf(hs, groups)
      BY <3>5, <3>6, <3>7
    <3>9. groups[n] \in Range(groups) /\ HaveIds(groups[n].recs)
      BY <2>1, <3>5 DEF GroupsHaveIds, Range
    <3>10. LeftOf(g.recs, groups[n].recs)
      BY <1>2, <3>7, <3>9, InTurnLeft
    <3>11. QED
      BY <3>3, <3>7, <3>8, <3>9, <3>10, OneGroupMore
  <2>5. \A gs \in done[N] : GroupsOf(gs, groups)
    BY <2>1, <2>4
  <2>6. QED
    BY <2>3, <2>5, FilledLeft DEF Handed
<1>3. QED
  BY <1>1, <1>2

\* What is left of what was left is left of the first.
LEMMA GroupsOfGroups ==
    ASSUME NEW t, NEW u, NEW s, GroupsHaveIds(s), GroupsOf(t, u), GroupsOf(u, s)
    PROVE  GroupsOf(t, s)
<1>1. SUFFICES ASSUME NEW group \in Range(t)
               PROVE  \E o \in Range(s) : LeftOf(group.recs, o.recs)
  BY DEF GroupsOf
<1>2. PICK v \in Range(u) : LeftOf(group.recs, v.recs)
  BY DEF GroupsOf
<1>3. PICK o \in Range(s) : LeftOf(v.recs, o.recs)
  BY DEF GroupsOf
<1>4. QED
  BY <1>2, <1>3, LeftOfLeft DEF GroupsHaveIds, HaveIds

\* A batch that is left of another has records that know their places.
LEMMA GroupsOfHaveIds ==
    ASSUME NEW t, NEW s, GroupsOf(t, s)
    PROVE  GroupsHaveIds(t)
BY LeftIds DEF GroupsOf, GroupsHaveIds

\* A batch is left of itself.
LEMMA GroupsOfThemselves ==
    ASSUME NEW s, GroupsHaveIds(s)
    PROVE  GroupsOf(s, s)
BY LeftAll DEF GroupsOf, GroupsHaveIds

------------------------------------------------------------------------------
(* The batches that come *)

\* Each record has the place where it is.
InPlace(groups) ==
    /\ IsSequence(groups)
    /\ \A g \in DOMAIN groups :
         /\ IsSequence(groups[g].recs)
         /\ \A i \in DOMAIN groups[g].recs :
              "id" \in DOMAIN groups[g].recs[i] /\ groups[g].recs[i].id = <<g, i>>

\* Records in place know their places.
LEMMA InPlaceHaveIds ==
    ASSUME NEW groups, InPlace(groups)
    PROVE  GroupsHaveIds(groups)
BY DEF InPlace, GroupsHaveIds, HaveIds, Range

\* Placed puts the records of a batch in their places.
LEMMA PlacedInPlace ==
    ASSUME NEW groups, IsSequence(groups), \A g \in DOMAIN groups : IsSequence(groups[g].recs)
    PROVE  InPlace(Placed(groups))
<1> DEFINE placed == Placed(groups)
           with(rec, place) == [body |-> rec.body, attrs |-> rec.attrs, sev |-> rec.sev,
                                time |-> rec.time, id |-> place]
<1>1. PICK n \in Nat : DOMAIN groups = 1 .. n
  BY SequenceForm
<1>2. placed = [g \in 1 .. n |->
                  [res  |-> groups[g].res,
                   recs |-> [i \in DOMAIN groups[g].recs |-> with(groups[g].recs[i], <<g, i>>)]]]
  BY <1>1 DEF Placed
<1>3. \A rec, place : "id" \in DOMAIN with(rec, place) /\ with(rec, place).id = place
  OBVIOUS
<1> HIDE DEF placed, with
<1>4. IsSequence(placed) /\ DOMAIN placed = 1 .. n
  <2>1. placed = [g \in 1 .. n |-> placed[g]]
    BY <1>2
  <2>2. QED
    BY <2>1, MadeSequence
<1>5. ASSUME NEW g \in 1 .. n
      PROVE  /\ IsSequence(placed[g].recs)
             /\ \A i \in DOMAIN placed[g].recs :
                  "id" \in DOMAIN placed[g].recs[i] /\ placed[g].recs[i].id = <<g, i>>
  <2>1. placed[g].recs = [i \in DOMAIN groups[g].recs |-> with(groups[g].recs[i], <<g, i>>)]
    BY <1>2
  <2>2. PICK m \in Nat : DOMAIN groups[g].recs = 1 .. m
    BY <1>1, SequenceForm
  <2>3. IsSequence(placed[g].recs) /\ DOMAIN placed[g].recs = 1 .. m
    <3>1. placed[g].recs = [i \in 1 .. m |-> placed[g].recs[i]]
      BY <2>1, <2>2
    <3>2. QED
      BY <3>1, MadeSequence
  <2>4. \A i \in 1 .. m : placed[g].recs[i] = with(groups[g].recs[i], <<g, i>>)
    BY <2>1, <2>2
  <2>5. QED
    BY <1>3, <2>3, <2>4
<1>6. QED
  BY <1>4, <1>5 DEF InPlace, placed

\* SetToSeq lists elements of a finite set.
LEMMA ListedSet ==
    ASSUME NEW S, IsFiniteSet(S)
    PROVE  IsSequence(SetToSeq(S)) /\ Range(SetToSeq(S)) \subseteq S
<1>1. PICK n \in Nat : n = Cardinality(S)
  BY FS_CardinalityType
<1>2. \E f \in [1 .. n -> S] : IsInjective(f)
  <2>1. ExistsBijection(1 .. n, S)
    BY <1>1, FS_CardinalityType
  <2>2. QED
    BY <2>1 DEF ExistsBijection, Bijection, Injection, IsInjective
<1>3. SetToSeq(S) \in [1 .. n -> S]
  BY <1>1, <1>2 DEF SetToSeq
<1>4. SetToSeq(S) = [i \in 1 .. n |-> SetToSeq(S)[i]]
  BY <1>3
<1>5. QED
  BY <1>3, <1>4, MadeSequence DEF Range

\* What the auth0 receiver makes of an envelope: one record at most.
LEMMA EventGroup ==
    ASSUME NEW env
    PROVE  IsFiniteSet(Auth0Logs(env)) /\ \A group \in Auth0Logs(env) : IsSequence(group.recs)
<1>1. ASSUME NEW rec PROVE IsSequence(<<rec>>)
  <2>1. <<rec>> \in Seq({rec})
    OBVIOUS
  <2>2. QED
    BY <2>1, SeqOfRange DEF IsSequence
<1>2. \/ Auth0Logs(env) = {}
      \/ \E res : Auth0Logs(env) = {[res |-> res, recs |-> <<Auth0Record(env)>>]}
  BY DEF Auth0Logs
<1>3. \A group \in Auth0Logs(env) : group.recs = <<Auth0Record(env)>>
  BY <1>2
<1>4. IsFiniteSet(Auth0Logs(env))
  <2>1. IsFiniteSet({}) /\ \A x : IsFiniteSet({x})
    BY FS_EmptySet, FS_Singleton
  <2>2. \E x : Auth0Logs(env) \in {{}, {x}}
    BY <1>2
  <2>3. QED
    BY <2>1, <2>2
<1>5. QED
  BY <1>1, <1>3, <1>4

\* The batch the receiver makes of a poll.
LEMMA EventGroups ==
    ASSUME NEW poll, IsSequence(poll)
    PROVE  LET groups == FlattenSeq([i \in DOMAIN poll |-> SetToSeq(Auth0Logs(poll[i]))])
           IN  IsSequence(groups) /\ \A g \in DOMAIN groups : IsSequence(groups[g].recs)
<1> DEFINE lists  == [i \in DOMAIN poll |-> SetToSeq(Auth0Logs(poll[i]))]
           groups == FlattenSeq(lists)
<1>1. PICK n \in Nat : DOMAIN poll = 1 .. n
  BY SequenceForm
<1>2. \A i \in 1 .. n : /\ IsSequence(lists[i])
                        /\ \A group \in Range(lists[i]) : IsSequence(group.recs)
  BY <1>1, EventGroup, ListedSet
<1>3. IsSequence(lists) /\ DOMAIN lists = 1 .. n
  <2>1. lists = [i \in 1 .. n |-> lists[i]]
    BY <1>1
  <2> HIDE DEF lists
  <2>2. QED
    BY <2>1, MadeSequence
<1> HIDE DEF lists
<1>4. groups \in Seq(Within(lists))
  BY <1>2, <1>3, FlattenedElements
<1>5. \A group \in Within(lists) : IsSequence(group.recs)
  BY <1>2, <1>3 DEF Within
<1> HIDE DEF groups
<1>6. IsSequence(groups) /\ \A g \in DOMAIN groups : groups[g] \in Within(lists)
  BY <1>4, SeqOfRange, ElementOfSeq, LenProperties DEF IsSequence
<1>7. QED
  BY <1>5, <1>6 DEF groups, lists

------------------------------------------------------------------------------
(* The order of a source *)

\* The invariant: the records that came know their places, and what the batch has
\* become so far is left of it.
LeftOfWhatCame ==
    /\ IsPipeline(left)
    /\ InPlace(came)
    /\ GroupsOf(batch, came)

\* The invariant is enough: the records of a group are left of one group that came,
\* in its order.
LEMMA LeftInOrder ==
    ASSUME LeftOfWhatCame
    PROVE  SourceOrderKept
<1>1. SUFFICES ASSUME NEW g \in DOMAIN batch,
                      NEW i \in DOMAIN batch[g].recs, NEW j \in DOMAIN batch[g].recs,
                      i < j
               PROVE  batch[g].recs[i].id[2] < batch[g].recs[j].id[2]
  BY DEF SourceOrderKept
<1>2. batch[g] \in Range(batch)
  BY DEF Range
<1>3. PICK o \in Range(came) : LeftOf(batch[g].recs, o.recs)
  BY <1>2 DEF LeftOfWhatCame, GroupsOf
<1>4. PICK h \in DOMAIN came : o = came[h]
  BY DEF Range
<1>5. PICK at : /\ Rising(batch[g].recs, o.recs, at)
                /\ \A k \in DOMAIN batch[g].recs : Same(batch[g].recs[k], o.recs[at[k]])
  BY <1>3 DEF LeftOf
<1>6. \A k \in DOMAIN batch[g].recs : batch[g].recs[k].id = <<h, at[k]>>
  BY <1>4, <1>5 DEF LeftOfWhatCame, InPlace, Rising, Same
<1>7. at[i] < at[j]
  BY <1>1, <1>5 DEF Rising
<1>8. QED
  BY <1>6, <1>7

\* A batch that arrives is left of itself.
LEMMA ArrivesInPlace ==
    ASSUME NEW pipeline, IsPipeline(pipeline),
           NEW groups, IsSequence(groups), \A g \in DOMAIN groups : IsSequence(groups[g].recs),
           Arrives(pipeline, groups)
    PROVE  LeftOfWhatCame'
<1>1. InPlace(Placed(groups))
  BY PlacedInPlace
<1>2. GroupsOf(Placed(groups), Placed(groups))
  BY <1>1, InPlaceHaveIds, GroupsOfThemselves
<1>3. left' = pipeline /\ came' = Placed(groups) /\ batch' = Placed(groups)
  BY DEF Arrives
<1>4. QED
  BY <1>1, <1>2, <1>3 DEF LeftOfWhatCame

\* The rest of a pipeline is a pipeline.
LEMMA RestOfPipeline ==
    ASSUME NEW pipeline, IsPipeline(pipeline), pipeline # <<>>
    PROVE  Head(pipeline).proc \in Processors /\ IsPipeline(Tail(pipeline))
<1>1. PICK S : pipeline \in Seq(S) /\ S = Range(pipeline)
  BY DEF IsPipeline, IsSequence
<1>2. \A cfg \in S : cfg.proc \in Processors
  BY <1>1 DEF IsPipeline, Range
<1>3. Head(pipeline) \in S /\ Tail(pipeline) \in Seq(S)
  BY <1>1
<1>4. \A k \in DOMAIN Tail(pipeline) : Tail(pipeline)[k] \in S
  BY <1>3, ElementOfSeq, LenProperties
<1>5. IsSequence(Tail(pipeline))
  BY <1>3, SeqOfRange DEF IsSequence
<1>6. QED
  BY <1>2, <1>3, <1>4, <1>5 DEF IsPipeline

\* Without a batch the invariant holds.
LEMMA NothingCame ==
    IsPipeline(<<>>) /\ InPlace(<<>>) /\ GroupsOf(<<>>, <<>>)
<1>1. IsSequence(<<>>) /\ Range(<<>>) = {} /\ DOMAIN <<>> = {}
  BY DEF IsSequence, Range
<1>2. QED
  BY <1>1 DEF IsPipeline, InPlace, GroupsOf

\* The invariant holds at first.
LEMMA LeftInit == Init => LeftOfWhatCame
BY NothingCame DEF Init, LeftOfWhatCame

\* Every step preserves the invariant.
LEMMA LeftNext ==
    ASSUME LeftOfWhatCame, [Next]_vars
    PROVE  LeftOfWhatCame'
<1>1. CASE Receive
  <2>1. PICK route \in Routes : \E groups \in route.batches : Arrives(route.stages, groups)
    BY <1>1 DEF Receive
  <2>2. PICK groups \in route.batches : Arrives(route.stages, groups)
    BY <2>1
  <2>3. IsPipeline(route.stages) /\ IsSequence(groups)
    BY RoutesAssumption
  <2>4. \A g \in DOMAIN groups : IsSequence(groups[g].recs)
    BY RoutesAssumption
  <2>5. QED
    BY <2>2, <2>3, <2>4, ArrivesInPlace
<1>2. CASE ReceiveEvents
  <2> DEFINE groups(poll) == FlattenSeq([i \in DOMAIN poll |-> SetToSeq(Auth0Logs(poll[i]))])
  <2>1. PICK feed, poll : /\ feed \in Feeds /\ poll \in feed.polls
                          /\ Arrives(feed.stages, groups(poll))
    BY <1>2, Zenon DEF ReceiveEvents
  <2>2. IsPipeline(feed.stages) /\ IsSequence(poll)
    BY <2>1, RoutesAssumption
  <2>3. /\ IsSequence(groups(poll))
        /\ \A g \in DOMAIN groups(poll) : IsSequence(groups(poll)[g].recs)
    BY <2>2, EventGroups
  <2> HIDE DEF groups
  <2>4. QED
    BY <2>1, <2>2, <2>3, ArrivesInPlace
<1>3. CASE Process
  <2>1. Head(left).proc \in Processors /\ IsPipeline(Tail(left))
    BY <1>3, RestOfPipeline DEF Process, LeftOfWhatCame
  <2>2. GroupsHaveIds(batch) /\ GroupsHaveIds(came)
    BY InPlaceHaveIds, GroupsOfHaveIds DEF LeftOfWhatCame
  <2>3. GroupsOf(batch', batch)
    BY <1>3, <2>1, <2>2, ConsumedLeft DEF Process
  <2>4. GroupsOf(batch', came)
    BY <2>2, <2>3, GroupsOfGroups DEF LeftOfWhatCame
  <2>5. QED
    BY <1>3, <2>1, <2>4 DEF Process, LeftOfWhatCame
<1>4. CASE Deliver
  BY <1>4 DEF Deliver, LeftOfWhatCame
<1>5. CASE GiveUp
  BY <1>5, NothingCame DEF GiveUp, LeftOfWhatCame
<1>6. CASE Return
  BY <1>6, NothingCame DEF Return, LeftOfWhatCame
<1>7. CASE UNCHANGED vars
  BY <1>7 DEF vars, LeftOfWhatCame
<1>8. QED
  BY <1>1, <1>2, <1>3, <1>4, <1>5, <1>6, <1>7 DEF Next

\* The records of one source stay in the order in which they came as long as they
\* stay in one group, whatever the processors of the pipeline are, how they are
\* configured and what the batch is.
THEOREM SourcesKeepOrder == Spec => []SourceOrderKept
<1>1. Spec => []LeftOfWhatCame
  <2>1. LeftOfWhatCame /\ [Next]_vars => LeftOfWhatCame'
    BY LeftNext
  <2>2. QED
    BY LeftInit, <2>1, PTL DEF Spec
<1>2. LeftOfWhatCame => SourceOrderKept
  BY LeftInOrder
<1>3. QED
  BY <1>1, <1>2, PTL

------------------------------------------------------------------------------
(* Where a record is *)

\* Among the records there is one of that place, and it is rec.
Has(recs, place, rec) ==
    \E j \in DOMAIN recs : /\ recs[j] = rec /\ rec.id = place
                           /\ \A i \in DOMAIN recs : recs[i].id = place => i = j

\* Among the records there is none of that place.
Hasnt(recs, place) == \A i \in DOMAIN recs : recs[i].id # place

\* In the batch there is one record of that place: it is rec, and its resource is res.
Holds(groups, place, res, rec) ==
    \E h \in DOMAIN groups :
        /\ groups[h].res = res /\ Has(groups[h].recs, place, rec)
        /\ \A g \in DOMAIN groups : g # h => Hasnt(groups[g].recs, place)

\* In the batch there is no record of that place.
Lacks(groups, place) == \A g \in DOMAIN groups : Hasnt(groups[g].recs, place)

\* The elements of two sequences that are put together.
LEMMA Joined ==
    ASSUME NEW s, IsSequence(s), NEW t, IsSequence(t)
    PROVE  /\ IsSequence(s \o t)
           /\ DOMAIN (s \o t) = 1 .. Len(s) + Len(t)
           /\ \A i \in DOMAIN s : i \in DOMAIN (s \o t) /\ (s \o t)[i] = s[i]
           /\ \A i \in DOMAIN t : /\ Len(s) + i \in DOMAIN (s \o t)
                                  /\ (s \o t)[Len(s) + i] = t[i]
           /\ \A k \in DOMAIN (s \o t) : k \in DOMAIN s \/ \E i \in DOMAIN t : k = Len(s) + i
<1>1. PICK S : s \in Seq(S) /\ t \in Seq(S)
  <2>1. s \in Seq(Range(s) \cup Range(t)) /\ t \in Seq(Range(s) \cup Range(t))
    BY SeqMonotonic DEF IsSequence
  <2>2. QED
    BY <2>1
<1>2. PICK m, n : m = Len(s) /\ n = Len(t)
  OBVIOUS
<1>3. m \in Nat /\ n \in Nat /\ DOMAIN s = 1 .. m /\ DOMAIN t = 1 .. n
  BY <1>2, SequenceForm
<1>4. /\ s \o t \in Seq(S)
      /\ Len(s \o t) = Len(s) + Len(t)
      /\ \A i \in 1 .. Len(s) + Len(t) :
           (s \o t)[i] = IF i <= Len(s) THEN s[i] ELSE t[i - Len(s)]
  BY <1>1, ConcatProperties
<1>5. IsSequence(s \o t) /\ DOMAIN (s \o t) = 1 .. m + n
  BY <1>2, <1>4, SeqOfRange, LenProperties DEF IsSequence
<1>6. \A i \in 1 .. m + n : (s \o t)[i] = IF i <= m THEN s[i] ELSE t[i - m]
  BY <1>2, <1>4
<1>7. \A i \in 1 .. m : i \in 1 .. m + n /\ i <= m
  BY <1>3
<1>8. \A i \in 1 .. n : m + i \in 1 .. m + n /\ ~(m + i <= m) /\ (m + i) - m = i
  BY <1>3
<1>9. \A k \in 1 .. m + n : k \in 1 .. m \/ \E i \in 1 .. n : k = m + i
  <2>1. SUFFICES ASSUME NEW k \in 1 .. m + n, k \notin 1 .. m
                 PROVE  \E i \in 1 .. n : k = m + i
    OBVIOUS
  <2>2. k - m \in 1 .. n /\ k = m + (k - m)
    BY <1>3, <2>1
  <2>3. QED
    BY <2>2
<1>10. \A i \in 1 .. m : i \in DOMAIN (s \o t) /\ (s \o t)[i] = s[i]
  BY <1>5, <1>6, <1>7
<1>11. \A i \in 1 .. n : m + i \in DOMAIN (s \o t) /\ (s \o t)[m + i] = t[i]
  BY <1>5, <1>6, <1>8
<1>12. QED
  BY <1>2, <1>3, <1>5, <1>9, <1>10, <1>11

\* What two batches have, they have together.
LEMMA JoinedHolds ==
    ASSUME NEW s, IsSequence(s), NEW t, IsSequence(t), NEW place
    PROVE  /\ Lacks(s, place) /\ Lacks(t, place) => Lacks(s \o t, place)
           /\ \A res, rec : Holds(s, place, res, rec) /\ Lacks(t, place)
                              => Holds(s \o t, place, res, rec)
           /\ \A res, rec : Lacks(s, place) /\ Holds(t, place, res, rec)
                              => Holds(s \o t, place, res, rec)
<1> DEFINE u == s \o t
           m == Len(s)
<1>1. /\ \A i \in DOMAIN s : i \in DOMAIN u /\ u[i] = s[i]
      /\ \A i \in DOMAIN t : m + i \in DOMAIN u /\ u[m + i] = t[i]
      /\ \A k \in DOMAIN u : k \in DOMAIN s \/ \E i \in DOMAIN t : k = m + i
  BY Joined
<1>2. m \in Nat /\ DOMAIN s = 1 .. m /\ DOMAIN t = 1 .. Len(t) /\ Len(t) \in Nat
  BY SequenceForm
<1>3. \A i \in DOMAIN s, j \in DOMAIN t : i # m + j
  BY <1>2
<1>4. \A i, j \in DOMAIN t : m + i = m + j => i = j
  BY <1>2
<1> HIDE DEF u, m
<1>5. Lacks(s, place) /\ Lacks(t, place) => Lacks(u, place)
  BY <1>1 DEF Lacks
<1>6. ASSUME NEW res, NEW rec, Holds(s, place, res, rec), Lacks(t, place)
      PROVE  Holds(u, place, res, rec)
  <2>1. PICK h \in DOMAIN s : /\ s[h].res = res /\ Has(s[h].recs, place, rec)
                              /\ \A g \in DOMAIN s : g # h => Hasnt(s[g].recs, place)
    BY <1>6 DEF Holds
  <2>2. h \in DOMAIN u /\ u[h] = s[h]
    BY <1>1, <2>1
  <2>3. \A k \in DOMAIN u : k # h => Hasnt(u[k].recs, place)
    BY <1>1, <1>6, <2>1 DEF Lacks
  <2>4. QED
    BY <2>1, <2>2, <2>3 DEF Holds
<1>7. ASSUME NEW res, NEW rec, Lacks(s, place), Holds(t, place, res, rec)
      PROVE  Holds(u, place, res, rec)
  <2>1. PICK h \in DOMAIN t : /\ t[h].res = res /\ Has(t[h].recs, place, rec)
                              /\ \A g \in DOMAIN t : g # h => Hasnt(t[g].recs, place)
    BY <1>7 DEF Holds
  <2>2. m + h \in DOMAIN u /\ u[m + h] = t[h]
    BY <1>1, <2>1
  <2>3. \A k \in DOMAIN u : k # m + h => Hasnt(u[k].recs, place)
    BY <1>1, <1>7, <2>1 DEF Lacks
  <2>4. QED
    BY <2>1, <2>2, <2>3 DEF Holds
<1>8. QED
  BY <1>5, <1>6, <1>7 DEF u

\* Of two numbers the larger has the larger rank.
LEMMA RanksRise ==
    ASSUME NEW n \in Nat, NEW I \in SUBSET (1 .. n), NEW i \in I, NEW j \in I, i < j
    PROVE  Rank(I, i) < Rank(I, j)
<1> DEFINE A == {m \in I : m <= i}
           B == {m \in I : m <= j}
<1>1. A \in SUBSET I /\ B \in SUBSET I /\ j \notin A /\ A \cup {j} \subseteq B
  <2>1. \A m \in I : m \in Nat
    OBVIOUS
  <2>2. i \in Nat /\ j \in Nat /\ ~(j <= i) /\ j <= j
    BY <2>1
  <2>3. \A m \in I : m <= i => m <= j
    BY <2>1, <2>2
  <2>4. QED
    BY <2>2, <2>3
<1>2. /\ IsFiniteSet(A) /\ Cardinality(A) \in Nat
      /\ IsFiniteSet(B) /\ Cardinality(B) \in Nat
  BY <1>1, FiniteParts
<1> HIDE DEF A, B
<1>3. Cardinality(A \cup {j}) = Cardinality(A) + 1
  BY <1>1, <1>2, FS_AddElement
<1>4. Cardinality(A \cup {j}) <= Cardinality(B)
  BY <1>1, <1>2, FS_Subset
<1>5. Rank(I, i) = Cardinality(A) /\ Rank(I, j) = Cardinality(B)
  BY DEF Rank, A, B
<1>6. QED
  BY <1>2, <1>3, <1>4, <1>5

\* Each element at one of the places is among those that are picked.
LEMMA PickedReaches ==
    ASSUME NEW s, IsSequence(s), NEW I \in SUBSET DOMAIN s, NEW i \in I
    PROVE  \E k \in DOMAIN Picked(s, I) : Picked(s, I)[k] = s[i]
<1>1. PICK n \in Nat : DOMAIN s = 1 .. n
  BY SequenceForm
<1>2. \A J \in SUBSET I : IsFiniteSet(J) /\ Cardinality(J) \in Nat
  BY <1>1, FiniteParts
<1> DEFINE A == {m \in I : m <= i}
           k == Cardinality(A)
<1>3. A \in SUBSET I /\ i \in A
  BY <1>1
<1>4. k \in Nat /\ Cardinality(I) \in Nat /\ k <= Cardinality(I)
  <2>1. IsFiniteSet(I) /\ A \subseteq I
    BY <1>2, <1>3
  <2>2. Cardinality(A) <= Cardinality(I)
    BY <2>1, FS_Subset
  <2>3. QED
    BY <1>2, <1>3, <2>2
<1>5. k # 0
  BY <1>2, <1>3, FS_EmptySet
<1>6. Rank(I, i) = k
  BY DEF Rank
<1> HIDE DEF A, k
<1>7. k \in 1 .. Cardinality(I)
  BY <1>4, <1>5
<1>8. (CHOOSE j \in I : Rank(I, j) = k) = i
  <2>1. \A j \in I : Rank(I, j) = k => j = i
    <3>1. SUFFICES ASSUME NEW j \in I, Rank(I, j) = k, j # i PROVE FALSE
      OBVIOUS
    <3>2. j \in Nat /\ i \in Nat
      BY <1>1
    <3>3. i < j \/ j < i
      BY <3>1, <3>2
    <3>4. Rank(I, i) < Rank(I, j) \/ Rank(I, j) < Rank(I, i)
      BY <1>1, <3>3, RanksRise
    <3>5. QED
      BY <1>4, <1>6, <3>1, <3>4
  <2>2. QED
    BY <1>6, <2>1
<1>9. Picked(s, I) = [l \in 1 .. Cardinality(I) |-> s[CHOOSE j \in I : Rank(I, j) = l]]
  BY DEF Picked, Rank
<1>10. k \in DOMAIN Picked(s, I) /\ Picked(s, I)[k] = s[i]
  BY <1>7, <1>8, <1>9
<1>11. QED
  BY <1>10

\* No element is picked twice.
LEMMA PickedOnce ==
    ASSUME NEW s, IsSequence(s), NEW I \in SUBSET DOMAIN s
    PROVE  \E at : /\ \A k \in DOMAIN Picked(s, I) :
                        at[k] \in I /\ Picked(s, I)[k] = s[at[k]]
                   /\ \A k, l \in DOMAIN Picked(s, I) : at[k] = at[l] => k = l
<1> DEFINE p == Picked(s, I)
<1>1. PICK at : /\ Rising(p, s, at)
                /\ \A k \in DOMAIN p : at[k] \in I /\ p[k] = s[at[k]]
  BY PickedRises
<1>2. PICK m \in Nat : DOMAIN p = 1 .. m
  BY PickedRises, SequenceForm
<1>3. PICK n \in Nat : DOMAIN s = 1 .. n
  BY SequenceForm
<1> HIDE DEF p
<1>4. ASSUME NEW k \in DOMAIN p, NEW l \in DOMAIN p, at[k] = at[l], k # l
      PROVE  FALSE
  <2>1. k \in Nat /\ l \in Nat /\ at[k] \in Nat
    BY <1>1, <1>2, <1>3
  <2>2. k < l \/ l < k
    BY <1>4, <2>1
  <2>3. QED
    BY <1>1, <1>4, <2>1, <2>2 DEF Rising
<1>5. QED
  BY <1>1, <1>4 DEF p

\* A record is among those that are picked if its place is, and only once.
LEMMA PickedHas ==
    ASSUME NEW s, IsSequence(s), NEW I \in SUBSET DOMAIN s, NEW place
    PROVE  /\ (\A i \in I : s[i].id # place) => Hasnt(Picked(s, I), place)
           /\ \A rec : Has(s, place, rec) /\ (\E i \in I : s[i].id = place)
                         => Has(Picked(s, I), place, rec)
<1> DEFINE p == Picked(s, I)
<1>1. PICK at : /\ \A k \in DOMAIN p : at[k] \in I /\ p[k] = s[at[k]]
                /\ \A k, l \in DOMAIN p : at[k] = at[l] => k = l
  BY PickedOnce
<1>2. \A i \in I : \E k \in DOMAIN p : p[k] = s[i]
  BY PickedReaches
<1> HIDE DEF p
<1>3. ASSUME \A i \in I : s[i].id # place PROVE Hasnt(p, place)
  BY <1>1, <1>3 DEF Hasnt
<1>4. ASSUME NEW rec, Has(s, place, rec), \E i \in I : s[i].id = place
      PROVE  Has(p, place, rec)
  <2>1. PICK j \in DOMAIN s : /\ s[j] = rec /\ rec.id = place
                              /\ \A i \in DOMAIN s : s[i].id = place => i = j
    BY <1>4 DEF Has
  <2>2. j \in I
    BY <1>4, <2>1
  <2>3. PICK k \in DOMAIN p : p[k] = rec
    BY <1>2, <2>1, <2>2
  <2>4. \A l \in DOMAIN p : p[l].id = place => at[l] = j
    BY <1>1, <2>1
  <2>5. \A l \in DOMAIN p : p[l].id = place => l = k
    BY <1>1, <2>1, <2>3, <2>4
  <2>6. QED
    BY <2>1, <2>3, <2>5 DEF Has
<1>5. QED
  BY <1>3, <1>4 DEF p

\* Removing the groups without records removes no record.
LEMMA FilledHolds ==
    ASSUME NEW groups, IsSequence(groups), NEW place
    PROVE  /\ Lacks(groups, place) => Lacks(Filled(groups), place)
           /\ \A res, rec : Holds(groups, place, res, rec)
                              => Holds(Filled(groups), place, res, rec)
<1> DEFINE I == {i \in DOMAIN groups : groups[i].recs # <<>>}
           p == Filled(groups)
<1>1. p = Picked(groups, I) /\ I \in SUBSET DOMAIN groups
  BY DEF Filled
<1>2. \A h \in DOMAIN groups : (\E rec : Has(groups[h].recs, place, rec)) => h \in I
  <2>1. DOMAIN <<>> = {}
    OBVIOUS
  <2>2. QED
    BY <2>1 DEF Has
<1> HIDE DEF I
<1>3. PICK at : /\ \A k \in DOMAIN p : at[k] \in I /\ p[k] = groups[at[k]]
                /\ \A k, l \in DOMAIN p : at[k] = at[l] => k = l
  BY <1>1, PickedOnce
<1>4. \A i \in I : \E k \in DOMAIN p : p[k] = groups[i]
  BY <1>1, PickedReaches
<1> HIDE DEF p
<1>5. ASSUME Lacks(groups, place) PROVE Lacks(p, place)
  BY <1>1, <1>3, <1>5 DEF Lacks
<1>6. ASSUME NEW res, NEW rec, Holds(groups, place, res, rec) PROVE Holds(p, place, res, rec)
  <2>1. PICK h \in DOMAIN groups :
          /\ groups[h].res = res /\ Has(groups[h].recs, place, rec)
          /\ \A g \in DOMAIN groups : g # h => Hasnt(groups[g].recs, place)
    BY <1>6 DEF Holds
  <2>2. PICK k \in DOMAIN p : p[k] = groups[h]
    BY <1>2, <1>4, <2>1
  <2>3. \A g \in DOMAIN groups : ~Hasnt(groups[g].recs, place) => g = h
    BY <2>1
  <2>4. ~Hasnt(groups[h].recs, place)
    BY <2>1 DEF Has, Hasnt
  <2>5. at[k] = h
    BY <1>1, <1>3, <2>2, <2>3, <2>4
  <2>6. \A l \in DOMAIN p : l # k => Hasnt(p[l].recs, place)
    BY <1>1, <1>3, <2>3, <2>5
  <2>7. QED
    BY <2>1, <2>2, <2>6 DEF Holds
<1>7. QED
  BY <1>5, <1>6 DEF p

\* A flattened sequence of batches has what one of them has and the others have not.
LEMMA FlattenedHolds ==
    ASSUME NEW seqs, IsSequence(seqs), \A i \in DOMAIN seqs : IsSequence(seqs[i]),
           NEW place, NEW res, NEW rec, NEW h \in Nat \ {0},
           \A i \in DOMAIN seqs : i # h => Lacks(seqs[i], place),
           h \in DOMAIN seqs => Holds(seqs[h], place, res, rec)
    PROVE  IF h \in DOMAIN seqs THEN Holds(FlattenSeq(seqs), place, res, rec)
           ELSE Lacks(FlattenSeq(seqs), place)
<1> DEFINE N == Len(seqs)
           P(s, i) == /\ IsSequence(s)
                      /\ i < h => Lacks(s, place)
                      /\ h <= i => Holds(s, place, res, rec)
<1>1. N \in Nat /\ DOMAIN seqs = 1 .. N
  BY SequenceForm
<1>2. CASE N = 0
  <2>1. FlattenSeq(seqs) = <<>> /\ h \notin DOMAIN seqs
    BY <1>1, <1>2, FlattenSteps
  <2>2. QED
    BY <2>1 DEF Lacks
<1>3. CASE N # 0
  <2>1. PICK f : /\ FlattenSeq(seqs) = f[N]
                 /\ \A i \in 1 .. N : f[i] = IF i = 1 THEN seqs[i] ELSE f[i - 1] \o seqs[i]
    BY <1>3, FlattenSteps
  <2> HIDE DEF N
  <2> DEFINE Wrong == {i \in 1 .. N : ~P(f[i], i)}
  <2>2. ASSUME Wrong # {} PROVE FALSE
    <3>1. Wrong \subseteq Nat
      BY <1>1
    <3>2. PICK i \in Wrong : \A k \in Wrong : i <= k
      <4> HIDE DEF Wrong
      <4>1. QED
        BY <2>2, <3>1, LeastExists
    <3>3. i \in 1 .. N /\ ~P(f[i], i)
      BY <3>2
    <3>4. IsSequence(seqs[i])
      BY <1>1, <3>3
    <3>5. CASE i = 1
      <4>1. f[i] = seqs[i]
        BY <2>1, <3>3, <3>5
      <4>2. P(seqs[i], i)
        BY <1>1, <3>3, <3>4, <3>5
      <4>3. QED
        BY <3>3, <4>1, <4>2
    <3>6. CASE i # 1
      <4>1. i - 1 \in 1 .. N /\ ~(i <= i - 1)
        BY <1>1, <3>3, <3>6
      <4>2. i - 1 \notin Wrong
        <5> HIDE DEF Wrong
        <5>1. QED
          BY <3>2, <4>1
      <4>3. P(f[i - 1], i - 1)
        BY <4>1, <4>2
      <4>4. f[i] = f[i - 1] \o seqs[i]
        BY <2>1, <3>3, <3>6
      <4>5. IsSequence(f[i])
        BY <3>4, <4>3, <4>4, Joined
      <4>6. CASE i < h
        <5>1. i - 1 < h /\ i # h /\ ~(h <= i)
          BY <3>3, <4>6
        <5>2. Lacks(f[i - 1], place) /\ Lacks(seqs[i], place)
          BY <1>1, <3>3, <4>3, <5>1
        <5>3. Lacks(f[i], place)
          BY <3>4, <4>3, <4>4, <5>2, JoinedHolds
        <5>4. QED
          BY <3>3, <4>5, <5>1, <5>3
      <4>7. CASE i = h
        <5>1. i - 1 < h /\ ~(i < h)
          BY <3>3, <4>7
        <5>2. Lacks(f[i - 1], place) /\ Holds(seqs[i], place, res, rec)
          BY <1>1, <3>3, <4>3, <4>7, <5>1
        <5>3. Holds(f[i], place, res, rec)
          BY <3>4, <4>3, <4>4, <5>2, JoinedHolds
        <5>4. QED
          BY <3>3, <4>5, <5>1, <5>3
      <4>8. CASE h < i
        <5>1. h <= i - 1 /\ i # h /\ ~(i < h)
          BY <3>3, <4>8
        <5>2. Holds(f[i - 1], place, res, rec) /\ Lacks(seqs[i], place)
          BY <1>1, <3>3, <4>3, <5>1
        <5>3. Holds(f[i], place, res, rec)
          BY <3>4, <4>3, <4>4, <5>2, JoinedHolds
        <5>4. QED
          BY <3>3, <4>5, <5>1, <5>3
      <4>9. QED
        BY <3>3, <4>6, <4>7, <4>8
    <3>7. QED
      BY <3>5, <3>6
  <2>3. P(f[N], N)
    BY <1>1, <1>3, <2>2
  <2>4. CASE h \in DOMAIN seqs
    <3>1. h <= N
      BY <1>1, <2>4
    <3>2. QED
      BY <2>1, <2>3, <2>4, <3>1
  <2>5. CASE h \notin DOMAIN seqs
    <3>1. N < h
      BY <1>1, <2>5
    <3>2. QED
      BY <2>1, <2>3, <2>5, <3>1
  <2>6. QED
    BY <2>4, <2>5
<1>4. QED
  BY <1>1, <1>2, <1>3

\* A sequence behind nothing is itself.
LEMMA AddedToNothing ==
    ASSUME NEW t, IsSequence(t)
    PROVE  <<>> \o t = t
<1>1. t \in Seq(Range(t))
  BY DEF IsSequence
<1>2. QED
  BY <1>1, ConcatEmptySeq

\* A flattened sequence of sequences of which all but one are empty is that one.
LEMMA FlattenedOne ==
    ASSUME NEW seqs, IsSequence(seqs), NEW t, IsSequence(t), NEW h \in Nat \ {0},
           \A i \in DOMAIN seqs : seqs[i] = IF i = h THEN t ELSE <<>>
    PROVE  FlattenSeq(seqs) = IF h \in DOMAIN seqs THEN t ELSE <<>>
<1> DEFINE N == Len(seqs)
<1>1. N \in Nat /\ DOMAIN seqs = 1 .. N
  BY SequenceForm
<1>2. CASE N = 0
  BY <1>1, <1>2, FlattenSteps
<1>3. CASE N # 0
  <2>1. PICK f : /\ FlattenSeq(seqs) = f[N]
                 /\ \A i \in 1 .. N : f[i] = IF i = 1 THEN seqs[i] ELSE f[i - 1] \o seqs[i]
    BY <1>3, FlattenSteps
  <2> HIDE DEF N
  <2>2. IsSequence(<<>>)
    BY DEF IsSequence
  <2>3. <<>> \o <<>> = <<>> /\ <<>> \o t = t /\ t \o <<>> = t
    BY <2>2, NothingAdded, AddedToNothing
  <2> DEFINE Wrong == {i \in 1 .. N : f[i] # IF i < h THEN <<>> ELSE t}
  <2>4. ASSUME Wrong # {} PROVE FALSE
    <3>1. Wrong \subseteq Nat
      BY <1>1
    <3>2. PICK i \in Wrong : \A k \in Wrong : i <= k
      <4> HIDE DEF Wrong
      <4>1. QED
        BY <2>4, <3>1, LeastExists
    <3>3. i \in 1 .. N /\ f[i] # IF i < h THEN <<>> ELSE t
      BY <3>2
    <3>4. CASE i = 1
      <4>1. f[i] = seqs[i]
        BY <2>1, <3>3, <3>4
      <4>2. seqs[i] = IF i < h THEN <<>> ELSE t
        BY <1>1, <3>3, <3>4
      <4>3. QED
        BY <3>3, <4>1, <4>2
    <3>5. CASE i # 1
      <4>1. i - 1 \in 1 .. N /\ ~(i <= i - 1)
        BY <1>1, <3>3, <3>5
      <4>2. i - 1 \notin Wrong
        <5> HIDE DEF Wrong
        <5>1. QED
          BY <3>2, <4>1
      <4>3. f[i - 1] = IF i - 1 < h THEN <<>> ELSE t
        BY <4>1, <4>2
      <4>4. f[i] = f[i - 1] \o seqs[i]
        BY <2>1, <3>3, <3>5
      <4>5. seqs[i] = IF i = h THEN t ELSE <<>>
        BY <1>1, <3>3
      <4>6. CASE i < h
        <5>1. i - 1 < h /\ i # h
          BY <3>3, <4>6
        <5>2. QED
          BY <2>3, <3>3, <4>3, <4>4, <4>5, <4>6, <5>1
      <4>7. CASE i = h
        <5>1. i - 1 < h /\ ~(i < h)
          BY <3>3, <4>7
        <5>2. QED
          BY <2>3, <3>3, <4>3, <4>4, <4>5, <4>7, <5>1
      <4>8. CASE h < i
        <5>1. ~(i - 1 < h) /\ i # h /\ ~(i < h)
          BY <3>3, <4>8
        <5>2. QED
          BY <2>3, <3>3, <4>3, <4>4, <4>5, <5>1
      <4>9. QED
        BY <3>3, <4>6, <4>7, <4>8
    <3>6. QED
      BY <3>4, <3>5
  <2>5. f[N] = IF N < h THEN <<>> ELSE t
    BY <1>1, <1>3, <2>4
  <2>6. QED
    BY <1>1, <2>1, <2>5
<1>4. QED
  BY <1>2, <1>3

\* No element, and one, of a sequence.
LEMMA PickedFew ==
    ASSUME NEW s
    PROVE  /\ Picked(s, {}) = <<>>
           /\ \A j \in Nat : Picked(s, {j}) = <<s[j]>>
<1>1. Picked(s, {}) = <<>>
  <2>1. Cardinality({}) = 0
    BY FS_EmptySet
  <2>2. QED
    BY <2>1 DEF Picked
<1>2. ASSUME NEW j \in Nat PROVE Picked(s, {j}) = <<s[j]>>
  <2>1. Cardinality({j}) = 1
    BY FS_Singleton
  <2>2. {m \in {j} : m <= j} = {j}
    OBVIOUS
  <2>3. Rank({j}, j) = 1
    BY <2>1, <2>2 DEF Rank
  <2> DEFINE nth(k) == CHOOSE i \in {j} : Rank({j}, i) = k
  <2>4. nth(1) = j
    BY <2>3
  <2>5. Picked(s, {j}) = [k \in 1 .. 1 |-> s[nth(k)]]
    BY <2>1 DEF Picked, Rank
  <2> HIDE DEF nth
  <2>6. Picked(s, {j}) = [k \in 1 .. 1 |-> s[j]]
    <3>1. \A k \in 1 .. 1 : k = 1
      OBVIOUS
    <3>2. QED
      BY <2>4, <2>5, <3>1
  <2>7. QED
    BY <2>6
<1>3. QED
  BY <1>1, <1>2

\* What became of a record is what the batch has of it.
LEMMA FateOfRecord ==
    ASSUME NEW groups, IsSequence(groups),
           \A g \in DOMAIN groups : IsSequence(groups[g].recs), NEW place
    PROVE  /\ Lacks(groups, place) => Fate(groups, place) = <<>>
           /\ \A res, rec : Holds(groups, place, res, rec)
                              => Fate(groups, place) = <<<<res, rec>>>>
<1> DEFINE at(g)   == {i \in DOMAIN groups[g].recs : groups[g].recs[i].id = place}
           mine(g) == Picked(groups[g].recs, at(g))
           seqs    == [g \in DOMAIN groups |->
                         [i \in DOMAIN mine(g) |-> <<groups[g].res, mine(g)[i]>>]]
<1>1. Fate(groups, place) = FlattenSeq(seqs)
  BY DEF Fate
<1>2. PICK n \in Nat : DOMAIN groups = 1 .. n
  BY SequenceForm
<1>3. IsSequence(seqs) /\ DOMAIN seqs = 1 .. n
  <2>1. seqs = [g \in 1 .. n |-> seqs[g]]
    BY <1>2
  <2> HIDE DEF seqs
  <2>2. QED
    BY <2>1, MadeSequence
<1>4. ASSUME NEW g \in DOMAIN groups, Hasnt(groups[g].recs, place)
      PROVE  seqs[g] = <<>>
  <2>1. at(g) = {}
    BY <1>4 DEF Hasnt
  <2>2. mine(g) = <<>>
    BY <2>1, PickedFew
  <2>3. seqs[g] = [i \in DOMAIN mine(g) |-> <<groups[g].res, mine(g)[i]>>]
    OBVIOUS
  <2> HIDE DEF mine, seqs
  <2>4. QED
    BY <2>2, <2>3
<1>5. ASSUME NEW g \in DOMAIN groups, NEW rec, Has(groups[g].recs, place, rec)
      PROVE  seqs[g] = <<<<groups[g].res, rec>>>>
  <2>1. PICK j \in DOMAIN groups[g].recs :
          /\ groups[g].recs[j] = rec /\ rec.id = place
          /\ \A i \in DOMAIN groups[g].recs : groups[g].recs[i].id = place => i = j
    BY <1>5 DEF Has
  <2>2. at(g) = {j}
    BY <2>1
  <2>3. j \in Nat
    <3>1. PICK m \in Nat : DOMAIN groups[g].recs = 1 .. m
      BY SequenceForm
    <3>2. QED
      BY <2>1, <3>1
  <2> HIDE DEF at
  <2>4. mine(g) = <<rec>>
    BY <2>1, <2>2, <2>3, PickedFew
  <2>5. seqs[g] = [i \in DOMAIN mine(g) |-> <<groups[g].res, mine(g)[i]>>]
    OBVIOUS
  <2> HIDE DEF mine, seqs
  <2>6. DOMAIN mine(g) = 1 .. 1 /\ mine(g)[1] = rec
    BY <2>4
  <2>7. \A i \in 1 .. 1 : i = 1
    OBVIOUS
  <2>8. QED
    BY <2>5, <2>6, <2>7
<1> HIDE DEF seqs
<1>6. ASSUME Lacks(groups, place) PROVE FlattenSeq(seqs) = <<>>
  <2>1. IsSequence(<<>>)
    BY DEF IsSequence
  <2>2. n + 1 \in Nat \ {0} /\ n + 1 \notin 1 .. n
    BY <1>2
  <2>3. \A i \in 1 .. n : seqs[i] = IF i = n + 1 THEN <<>> ELSE <<>>
    BY <1>2, <1>4, <1>6 DEF Lacks
  <2>4. QED
    BY <1>3, <2>1, <2>2, <2>3, FlattenedOne
<1>7. ASSUME NEW res, NEW rec, Holds(groups, place, res, rec)
      PROVE  FlattenSeq(seqs) = <<<<res, rec>>>>
  <2>1. PICK h \in DOMAIN groups :
          /\ groups[h].res = res /\ Has(groups[h].recs, place, rec)
          /\ \A g \in DOMAIN groups : g # h => Hasnt(groups[g].recs, place)
    BY <1>7 DEF Holds
  <2>2. IsSequence(<<<<res, rec>>>>)
    <3>1. <<<<res, rec>>>> \in Seq({<<res, rec>>})
      OBVIOUS
    <3>2. QED
      BY <3>1, SeqOfRange DEF IsSequence
  <2>3. \A i \in 1 .. n : seqs[i] = IF i = h THEN <<<<res, rec>>>> ELSE <<>>
    BY <1>2, <1>4, <1>5, <2>1
  <2>4. h \in Nat \ {0} /\ h \in 1 .. n
    BY <1>2, <2>1
  <2>5. FlattenSeq(seqs) = IF h \in DOMAIN seqs THEN <<<<res, rec>>>> ELSE <<>>
    <3> DEFINE t == <<<<res, rec>>>>
    <3> HIDE DEF t
    <3>1. IsSequence(t) /\ \A i \in DOMAIN seqs : seqs[i] = IF i = h THEN t ELSE <<>>
      BY <1>3, <2>2, <2>3 DEF t
    <3>2. FlattenSeq(seqs) = IF h \in DOMAIN seqs THEN t ELSE <<>>
      BY <1>3, <2>4, <3>1, FlattenedOne
    <3>3. QED
      BY <3>2 DEF t
  <2>6. QED
    BY <1>3, <2>4, <2>5
<1>8. QED
  BY <1>1, <1>6, <1>7

------------------------------------------------------------------------------
(* What a processor makes of a record among others *)

\* What two sequences of records have, they have together.
LEMMA JoinedHas ==
    ASSUME NEW s, IsSequence(s), NEW t, IsSequence(t), NEW place
    PROVE  /\ Hasnt(s, place) /\ Hasnt(t, place) => Hasnt(s \o t, place)
           /\ \A rec : Has(s, place, rec) /\ Hasnt(t, place) => Has(s \o t, place, rec)
           /\ \A rec : Hasnt(s, place) /\ Has(t, place, rec) => Has(s \o t, place, rec)
<1> DEFINE u == s \o t
           m == Len(s)
<1>1. /\ \A i \in DOMAIN s : i \in DOMAIN u /\ u[i] = s[i]
      /\ \A i \in DOMAIN t : m + i \in DOMAIN u /\ u[m + i] = t[i]
      /\ \A k \in DOMAIN u : k \in DOMAIN s \/ \E i \in DOMAIN t : k = m + i
  BY Joined
<1> HIDE DEF u, m
<1>2. Hasnt(s, place) /\ Hasnt(t, place) => Hasnt(u, place)
  BY <1>1 DEF Hasnt
<1>3. ASSUME NEW rec, Has(s, place, rec), Hasnt(t, place) PROVE Has(u, place, rec)
  <2>1. PICK j \in DOMAIN s : /\ s[j] = rec /\ rec.id = place
                              /\ \A i \in DOMAIN s : s[i].id = place => i = j
    BY <1>3 DEF Has
  <2>2. j \in DOMAIN u /\ u[j] = rec
    BY <1>1, <2>1
  <2>3. \A k \in DOMAIN u : u[k].id = place => k = j
    BY <1>1, <1>3, <2>1 DEF Hasnt
  <2>4. QED
    BY <2>1, <2>2, <2>3 DEF Has
<1>4. ASSUME NEW rec, Hasnt(s, place), Has(t, place, rec) PROVE Has(u, place, rec)
  <2>1. PICK j \in DOMAIN t : /\ t[j] = rec /\ rec.id = place
                              /\ \A i \in DOMAIN t : t[i].id = place => i = j
    BY <1>4 DEF Has
  <2>2. m + j \in DOMAIN u /\ u[m + j] = rec
    BY <1>1, <2>1
  <2>3. \A k \in DOMAIN u : u[k].id = place => k = m + j
    BY <1>1, <1>4, <2>1 DEF Hasnt
  <2>4. QED
    BY <2>1, <2>2, <2>3 DEF Has
<1>5. QED
  BY <1>2, <1>3, <1>4 DEF u

\* What is left of records without one of that place is without one.
LEMMA LeftHasnt ==
    ASSUME NEW t, NEW s, LeftOf(t, s), NEW place, Hasnt(s, place)
    PROVE  Hasnt(t, place)
BY DEF LeftOf, Rising, Same, Hasnt

\* The resource when a processor that is not to write it has processed a record.
Settled(cfg, res) == IF cfg.proc = "resourceversion" THEN Stamped(cfg, res) ELSE res

\* A resource is stamped once.
LEMMA StampedOnce ==
    ASSUME NEW cfg, NEW res
    PROVE  Stamped(cfg, Stamped(cfg, res)) = Stamped(cfg, res)
<1> DEFINE key    == "collector." \o cfg.role \o ".version"
           put(f) == Put(f, key, cfg.version)
<1>1. \A f : Stamped(cfg, f) = put(f)
  BY DEF Stamped
<1> HIDE DEF key
<1>2. \A f : put(f) = [k \in DOMAIN f \cup {key} |-> IF k = key THEN cfg.version ELSE f[k]]
  BY DEF Put, PutAll
<1> HIDE DEF put
<1>3. /\ DOMAIN put(res) = DOMAIN res \cup {key}
      /\ \A k \in DOMAIN put(res) : put(res)[k] = IF k = key THEN cfg.version ELSE res[k]
  BY <1>2
<1>4. put(put(res)) = [k \in DOMAIN res \cup {key} |-> IF k = key THEN cfg.version ELSE put(res)[k]]
  BY <1>2, <1>3
<1>5. put(put(res)) = [k \in DOMAIN res \cup {key} |-> IF k = key THEN cfg.version ELSE res[k]]
  BY <1>3, <1>4
<1>6. QED
  BY <1>1, <1>2, <1>5

\* The processors that are not to write the resource treat a record in the same way
\* before and after they have processed others of its group.
LEMMA OutcomesSettled ==
    ASSUME NEW cfg, cfg.proc \in Processors \ {"journald"}, ~WritesResource(cfg),
           NEW first, NEW res \in {first, Settled(cfg, first)}, NEW rec,
           NEW next \in Outcomes(cfg, res, rec)
    PROVE  /\ next.res = Settled(cfg, first)
           /\ \E o \in Outcomes(cfg, first, rec) : o.res = next.res /\ o.recs = next.recs
<1>1. CASE cfg.proc = "resourceversion"
  <2>1. \A r : Outcomes(cfg, r, rec) = {Outcome(Stamped(cfg, r), rec)}
    BY <1>1 DEF Outcomes
  <2>2. Stamped(cfg, res) = Stamped(cfg, first) /\ Settled(cfg, first) = Stamped(cfg, first)
    BY <1>1, StampedOnce DEF Settled
  <2>3. next = Outcome(Stamped(cfg, first), rec)
    BY <2>1, <2>2
  <2>4. next.res = Stamped(cfg, first)
    BY <2>3 DEF Outcome
  <2>5. QED
    BY <2>1, <2>2, <2>3, <2>4
<1>2. CASE cfg.proc # "resourceversion"
  <2>1. res = first /\ Settled(cfg, first) = first
    BY <1>2 DEF Settled
  <2>2. next.res = res
    <3>1. CASE cfg.proc = "healthprobe"
      BY <3>1 DEF Outcomes
    <3>2. CASE cfg.proc = "winlog"
      BY <3>2 DEF Outcomes
    <3>3. CASE cfg.proc \notin {"healthprobe", "winlog"}
      <4>1. Outcomes(cfg, res, rec)
              = {Outcome(res, IF Mine(cfg, res) THEN Changed(cfg, rec) ELSE rec)}
        BY <1>2, <3>3 DEF Outcomes, WritesResource, Processors
      <4>2. QED
        BY <4>1 DEF Outcome
    <3>4. QED
      BY <3>1, <3>2, <3>3
  <2>3. QED
    BY <2>1, <2>2
<1>3. QED
  BY <1>1, <1>2

\* The group is what the record next became makes it: without the record or with it.
Became(group, place, next) ==
    /\ group.res = next.res
    /\ next.recs = <<>> => Hasnt(group.recs, place)
    /\ \A r : next.recs = <<r>> => Has(group.recs, place, r)

\* What is left of one record.
LEMMA LeftOfOne ==
    ASSUME NEW next, NEW rec, OneAtMost(next, rec)
    PROVE  /\ IsSequence(next.recs)
           /\ \A place : rec.id # place => Hasnt(next.recs, place)
           /\ next.recs = <<>> => Hasnt(next.recs, rec.id)
           /\ \A r : next.recs = <<r>> => Has(next.recs, rec.id, r)
<1>1. CASE next.recs = <<>>
  <2>1. IsSequence(<<>>) /\ DOMAIN <<>> = {}
    BY DEF IsSequence
  <2>2. QED
    BY <1>1, <2>1 DEF Hasnt
<1>2. CASE \E r : next.recs = <<r>> /\ Same(r, rec)
  <2>1. PICK r : next.recs = <<r>> /\ Same(r, rec)
    BY <1>2
  <2>2. <<r>> \in Seq({r}) /\ DOMAIN <<r>> = 1 .. 1 /\ <<r>>[1] = r
    OBVIOUS
  <2>3. IsSequence(<<r>>)
    BY <2>2, SeqOfRange DEF IsSequence
  <2>4. \A i \in 1 .. 1 : i = 1
    OBVIOUS
  <2>5. Has(<<r>>, rec.id, r)
    BY <2>1, <2>2, <2>4 DEF Has, Same
  <2>6. \A place : rec.id # place => Hasnt(<<r>>, place)
    BY <2>1, <2>2, <2>4 DEF Hasnt, Same
  <2>7. \A x : <<r>> = <<x>> => x = r
    OBVIOUS
  <2>8. QED
    BY <2>1, <2>3, <2>5, <2>6, <2>7
<1>3. QED
  BY <1>1, <1>2 DEF OneAtMost

\* What a processor that takes a group record by record makes of one record is what
\* it makes of that record with the resource as it came, if it does not write the
\* resource or there is no other record.
LEMMA InTurnHas ==
    ASSUME NEW cfg, cfg.proc \in Processors \ {"journald"},
           NEW group, HaveIds(group.recs), ~WritesResource(cfg) \/ Len(group.recs) = 1,
           NEW place, NEW rec, Has(group.recs, place, rec)
    PROVE  \A g \in InTurn(cfg, group) :
             \E next \in Outcomes(cfg, group.res, rec) : Became(g, place, next)
<1> DEFINE N       == Len(group.recs)
           Done(g) == \E next \in Outcomes(cfg, group.res, rec) : Became(g, place, next)
<1>1. N \in Nat /\ DOMAIN group.recs = 1 .. N /\ IsSequence(group.recs)
  BY SequenceForm DEF HaveIds
<1>2. PICK after : RecordByRecord(cfg, group, after)
  BY <1>1, InTurnSteps
<1>3. /\ InTurn(cfg, group) = after[N]
      /\ after[0] = {[res |-> group.res, recs |-> <<>>]}
      /\ \A n \in 1 .. N : after[n] = RecordMore(cfg, after[n - 1], group.recs[n])
  BY <1>2 DEF RecordByRecord
<1>4. PICK j \in 1 .. N : /\ group.recs[j] = rec /\ rec.id = place
                          /\ \A i \in 1 .. N : group.recs[i].id = place => i = j
  BY <1>1 DEF Has
<1> HIDE DEF N, Done
<1> DEFINE P(g, n) == /\ IsSequence(g.recs)
                      /\ n = 0 => g.res = group.res
                      /\ n # 0 /\ ~WritesResource(cfg) => g.res = Settled(cfg, group.res)
                      /\ n < j => Hasnt(g.recs, place)
                      /\ j <= n => Done(g)
           Wrong   == {n \in 0 .. N : \E g \in after[n] : ~P(g, n)}
<1>5. ASSUME Wrong # {} PROVE FALSE
  <2>1. Wrong \subseteq Nat
    BY <1>1
  <2>2. PICK n \in Wrong : \A k \in Wrong : n <= k
    <3> HIDE DEF Wrong
    <3>1. QED
      BY <1>5, <2>1, LeastExists
  <2>3. PICK g \in after[n] : ~P(g, n)
    BY <2>2
  <2>4. n # 0
    <3>1. SUFFICES ASSUME n = 0 PROVE FALSE
      OBVIOUS
    <3>2. g.recs = <<>> /\ g.res = group.res
      BY <1>3, <2>3, <3>1
    <3>3. IsSequence(<<>>) /\ Hasnt(<<>>, place)
      BY DEF IsSequence, Hasnt
    <3>4. 0 < j /\ ~(j <= 0)
      BY <1>1, <1>4
    <3>5. QED
      BY <2>3, <3>1, <3>2, <3>3, <3>4
  <2>5. n \in 1 .. N /\ n - 1 \in 0 .. N /\ ~(n <= n - 1)
    BY <1>1, <2>2, <2>4
  <2>6. n - 1 \notin Wrong
    <3> HIDE DEF Wrong
    <3>1. QED
      BY <2>2, <2>5
  <2>7. PICK h, next : /\ h \in after[n - 1]
                       /\ next \in Outcomes(cfg, h.res, group.recs[n])
                       /\ g = [res |-> next.res, recs |-> h.recs \o next.recs]
    <3>1. g \in RecordMore(cfg, after[n - 1], group.recs[n])
      BY <1>3, <2>3, <2>5
    <3>2. QED
      BY <3>1 DEF RecordMore
  <2>8. P(h, n - 1)
    BY <2>5, <2>6, <2>7
  <2> HIDE DEF Wrong, P
  <2>9. g.res = next.res /\ g.recs = h.recs \o next.recs
    BY <2>7
  <2>10. OneAtMost(next, group.recs[n])
    <3>1. "id" \in DOMAIN group.recs[n]
      BY <1>1, <2>5 DEF HaveIds
    <3>2. QED
      BY <2>7, <3>1, OutcomesKeep
  <2>11. /\ IsSequence(next.recs) /\ IsSequence(h.recs) /\ IsSequence(g.recs)
    BY <2>8, <2>9, <2>10, LeftOfOne, Joined DEF P
  <2>12. ASSUME n # j PROVE Hasnt(next.recs, place)
    BY <1>4, <2>5, <2>10, <2>12, LeftOfOne
  <2>13. ASSUME NEW o, n = j, Hasnt(h.recs, place), o.res = next.res, o.recs = next.recs
         PROVE  Became(g, place, o)
    <3>1. o.recs = <<>> => Hasnt(next.recs, place)
      BY <1>4, <2>10, <2>13, LeftOfOne
    <3>2. \A r : o.recs = <<r>> => Has(next.recs, place, r)
      BY <1>4, <2>10, <2>13, LeftOfOne
    <3>3. o.recs = <<>> => Hasnt(g.recs, place)
      BY <2>9, <2>11, <2>13, <3>1, JoinedHas
    <3>4. \A r : o.recs = <<r>> => Has(g.recs, place, r)
      BY <2>9, <2>11, <2>13, <3>2, JoinedHas
    <3>5. QED
      BY <2>9, <2>13, <3>3, <3>4 DEF Became
  <2>14. CASE WritesResource(cfg)
    <3>1. N = 1 /\ n = 1 /\ j = 1
      BY <1>4, <2>5, <2>14 DEF N
    <3>2. h.res = group.res /\ Hasnt(h.recs, place)
      BY <2>8, <3>1 DEF P
    <3>3. Became(g, place, next)
      BY <2>13, <3>1, <3>2
    <3>4. Done(g)
      BY <1>4, <2>7, <3>1, <3>2, <3>3 DEF Done
    <3>5. QED
      BY <2>3, <2>11, <2>14, <3>1, <3>4 DEF P
  <2>15. CASE ~WritesResource(cfg)
    <3>1. h.res \in {group.res, Settled(cfg, group.res)}
      BY <2>8, <2>15 DEF P
    <3>2. /\ next.res = Settled(cfg, group.res)
          /\ \E o \in Outcomes(cfg, group.res, group.recs[n]) :
               o.res = next.res /\ o.recs = next.recs
      BY <2>7, <2>15, <3>1, OutcomesSettled
    <3>3. g.res = Settled(cfg, group.res)
      BY <2>9, <3>2
    <3>4. CASE n < j
      <4>1. n - 1 < j /\ n # j /\ ~(j <= n)
        BY <1>4, <2>5, <3>4
      <4>2. Hasnt(g.recs, place)
        BY <2>8, <2>9, <2>11, <2>12, <4>1, JoinedHas DEF P
      <4>3. QED
        BY <2>3, <2>4, <2>11, <3>3, <4>1, <4>2 DEF P
    <3>5. CASE n = j
      <4>1. n - 1 < j /\ ~(n < j)
        BY <1>4, <2>5, <3>5
      <4>2. PICK o \in Outcomes(cfg, group.res, rec) : o.res = next.res /\ o.recs = next.recs
        BY <1>4, <3>2, <3>5
      <4>3. Hasnt(h.recs, place)
        BY <2>8, <4>1 DEF P
      <4>4. Became(g, place, o)
        BY <2>13, <3>5, <4>2, <4>3
      <4>5. Done(g)
        BY <4>4 DEF Done
      <4>6. QED
        BY <2>3, <2>4, <2>11, <3>3, <4>1, <4>5 DEF P
    <3>6. CASE j < n
      <4>1. j <= n - 1 /\ n # j /\ ~(n < j)
        BY <1>4, <2>5, <3>6
      <4>2. PICK o \in Outcomes(cfg, group.res, rec) : Became(h, place, o)
        BY <2>8, <4>1 DEF P, Done
      <4>3. o.res = Settled(cfg, group.res)
        BY <2>15, OutcomesSettled
      <4>4. Hasnt(next.recs, place)
        BY <2>12, <4>1
      <4>5. o.recs = <<>> => Hasnt(g.recs, place)
        BY <2>9, <2>11, <4>2, <4>4, JoinedHas DEF Became
      <4>6. \A r : o.recs = <<r>> => Has(g.recs, place, r)
        BY <2>9, <2>11, <4>2, <4>4, JoinedHas DEF Became
      <4>7. Became(g, place, o)
        BY <3>3, <4>3, <4>5, <4>6 DEF Became
      <4>8. Done(g)
        BY <4>7 DEF Done
      <4>9. QED
        BY <2>3, <2>4, <2>11, <3>3, <4>1, <4>8 DEF P
    <3>7. QED
      BY <1>4, <2>5, <3>4, <3>5, <3>6
  <2>16. QED
    BY <2>14, <2>15
<1>6. \A g \in after[N] : P(g, N)
  BY <1>1, <1>5
<1>7. j <= N
  BY <1>4
<1>8. \A g \in after[N] : Done(g)
  BY <1>6, <1>7
<1>9. QED
  BY <1>3, <1>8 DEF Done

\* One element more.
LEMMA Appended ==
    ASSUME NEW s, IsSequence(s), NEW e
    PROVE  /\ IsSequence(Append(s, e))
           /\ DOMAIN Append(s, e) = 1 .. Len(s) + 1
           /\ \A i \in 1 .. Len(s) : Append(s, e)[i] = s[i]
           /\ Append(s, e)[Len(s) + 1] = e
<1>1. PICK S : s \in Seq(S) /\ e \in S
  <2>1. s \in Seq(Range(s) \cup {e})
    BY SeqMonotonic DEF IsSequence
  <2>2. QED
    BY <2>1
<1>2. /\ Append(s, e) \in Seq(S)
      /\ Len(Append(s, e)) = Len(s) + 1
      /\ \A i \in 1 .. Len(s) : Append(s, e)[i] = s[i]
      /\ Append(s, e)[Len(s) + 1] = e
  BY <1>1, AppendProperties
<1>3. IsSequence(Append(s, e)) /\ DOMAIN Append(s, e) = 1 .. Len(Append(s, e))
  BY <1>2, SeqOfRange, LenProperties DEF IsSequence
<1>4. QED
  BY <1>2, <1>3

\* A processor that takes a batch group by group makes of each what it makes of a group.
LEMMA EachInTurn ==
    ASSUME NEW cfg, NEW groups, IsSequence(groups), NEW done, GroupByGroup(cfg, groups, done)
    PROVE  \A gs \in done[Len(groups)] :
             /\ IsSequence(gs) /\ DOMAIN gs = DOMAIN groups
             /\ \A n \in DOMAIN groups : gs[n] \in InTurn(cfg, groups[n])
<1> DEFINE N        == Len(groups)
           P(gs, n) == /\ IsSequence(gs) /\ DOMAIN gs = 1 .. n /\ Len(gs) = n
                       /\ \A k \in 1 .. n : gs[k] \in InTurn(cfg, groups[k])
<1>1. N \in Nat /\ DOMAIN groups = 1 .. N
  BY SequenceForm
<1>2. /\ done[0] = {<<>>}
      /\ \A n \in 1 .. N : done[n] = GroupMore(cfg, done[n - 1], groups[n])
  BY DEF GroupByGroup
<1> HIDE DEF N
<1> DEFINE Wrong == {n \in 0 .. N : \E gs \in done[n] : ~P(gs, n)}
<1>3. ASSUME Wrong # {} PROVE FALSE
  <2>1. Wrong \subseteq Nat
    BY <1>1
  <2>2. PICK n \in Wrong : \A k \in Wrong : n <= k
    <3> HIDE DEF Wrong
    <3>1. QED
      BY <1>3, <2>1, LeastExists
  <2>3. PICK gs \in done[n] : ~P(gs, n)
    BY <2>2
  <2>4. n # 0
    <3>1. P(<<>>, 0)
      BY DEF IsSequence
    <3> HIDE DEF P
    <3>2. QED
      BY <1>2, <2>3, <3>1
  <2>5. n \in 1 .. N /\ n - 1 \in 0 .. N /\ ~(n <= n - 1) /\ (n - 1) + 1 = n
    BY <1>1, <2>2, <2>4
  <2>6. n - 1 \notin Wrong
    <3> HIDE DEF Wrong
    <3>1. QED
      BY <2>2, <2>5
  <2>7. PICK hs, g : hs \in done[n - 1] /\ g \in InTurn(cfg, groups[n]) /\ gs = Append(hs, g)
    <3>1. gs \in GroupMore(cfg, done[n - 1], groups[n])
      BY <1>2, <2>3, <2>5
    <3>2. QED
      BY <3>1 DEF GroupMore
  <2>8. P(hs, n - 1)
    BY <2>5, <2>6, <2>7
  <2>9. /\ IsSequence(gs) /\ DOMAIN gs = 1 .. n
        /\ \A k \in 1 .. n - 1 : gs[k] = hs[k]
        /\ gs[n] = g
    BY <2>5, <2>7, <2>8, Appended
  <2>10. Len(gs) = n
    BY <1>1, <2>5, <2>9, SequenceForm
  <2>11. \A k \in 1 .. n : gs[k] \in InTurn(cfg, groups[k])
    <3>1. \A k \in 1 .. n : k = n \/ k \in 1 .. n - 1
      BY <2>5
    <3>2. QED
      BY <2>7, <2>8, <2>9, <3>1
  <2>12. QED
    BY <2>3, <2>9, <2>10, <2>11
<1>4. \A gs \in done[N] : P(gs, N)
  BY <1>1, <1>3
<1>5. QED
  BY <1>1, <1>4 DEF N

\* A processor puts no record into a batch.
LEMMA ConsumedLacks ==
    ASSUME NEW cfg, cfg.proc \in Processors, NEW groups, GroupsHaveIds(groups),
           NEW place, Lacks(groups, place)
    PROVE  \A gs \in Consumed(cfg, groups) : Lacks(gs, place)
<1>1. SUFFICES ASSUME NEW gs \in Consumed(cfg, groups), NEW h \in DOMAIN gs
               PROVE  Hasnt(gs[h].recs, place)
  BY DEF Lacks
<1>2. GroupsOf(gs, groups)
  BY ConsumedLeft
<1>3. PICK o \in Range(groups) : LeftOf(gs[h].recs, o.recs)
  BY <1>2 DEF GroupsOf, Range
<1>4. Hasnt(o.recs, place)
  BY <1>3 DEF Lacks, Range
<1>5. QED
  BY <1>3, <1>4, LeftHasnt

\* A record of that place is in a group of its own.
AloneInGroup(groups, place) ==
    \A h \in DOMAIN groups : ~Hasnt(groups[h].recs, place) => Len(groups[h].recs) = 1

\* What a processor that takes a group record by record makes of one record of a batch.
LEMMA ConsumedHas ==
    ASSUME NEW cfg, cfg.proc \in Processors \ {"journald"},
           NEW groups, GroupsHaveIds(groups), NEW place, NEW res, NEW rec,
           Holds(groups, place, res, rec),
           ~WritesResource(cfg) \/ AloneInGroup(groups, place)
    PROVE  \A gs \in Consumed(cfg, groups) :
             \E next \in Outcomes(cfg, res, rec) :
               /\ next.recs = <<>> => Lacks(gs, place)
               /\ \A r : next.recs = <<r>> => Holds(gs, place, next.res, r)
<1>1. IsSequence(groups) /\ \A h \in DOMAIN groups : HaveIds(groups[h].recs)
  BY DEF GroupsHaveIds, Range
<1>2. PICK h \in DOMAIN groups :
        /\ groups[h].res = res /\ Has(groups[h].recs, place, rec)
        /\ \A g \in DOMAIN groups : g # h => Hasnt(groups[g].recs, place)
  BY DEF Holds
<1>3. ~WritesResource(cfg) \/ Len(groups[h].recs) = 1
  BY <1>2 DEF AloneInGroup, Has, Hasnt
<1>4. PICK done : GroupByGroup(cfg, groups, done)
  BY <1>1, ConsumedSteps
<1>5. ASSUME NEW gs \in done[Len(groups)]
      PROVE  \E next \in Outcomes(cfg, res, rec) :
               /\ next.recs = <<>> => Lacks(gs, place)
               /\ \A r : next.recs = <<r>> => Holds(gs, place, next.res, r)
  <2>1. /\ IsSequence(gs) /\ DOMAIN gs = DOMAIN groups
        /\ \A n \in DOMAIN groups : gs[n] \in InTurn(cfg, groups[n])
    BY <1>1, <1>4, EachInTurn
  <2>2. PICK next \in Outcomes(cfg, res, rec) : Became(gs[h], place, next)
    BY <1>1, <1>2, <1>3, <2>1, InTurnHas
  <2>3. \A n \in DOMAIN gs : n # h => Hasnt(gs[n].recs, place)
    BY <1>1, <1>2, <2>1, InTurnLeft, LeftHasnt
  <2>4. next.recs = <<>> => Lacks(gs, place)
    BY <2>2, <2>3 DEF Became, Lacks
  <2>5. \A r : next.recs = <<r>> => Holds(gs, place, next.res, r)
    BY <1>2, <2>1, <2>2, <2>3 DEF Became, Holds
  <2>6. QED
    BY <2>4, <2>5
<1>6. ASSUME NEW gs \in done[Len(groups)]
      PROVE  \E next \in Outcomes(cfg, res, rec) :
               /\ next.recs = <<>> => Lacks(Filled(gs), place)
               /\ \A r : next.recs = <<r>> => Holds(Filled(gs), place, next.res, r)
  <2>1. IsSequence(gs)
    BY <1>1, <1>4, EachInTurn
  <2>2. PICK next \in Outcomes(cfg, res, rec) :
          /\ next.recs = <<>> => Lacks(gs, place)
          /\ \A r : next.recs = <<r>> => Holds(gs, place, next.res, r)
    BY <1>5
  <2>3. QED
    BY <2>1, <2>2, FilledHolds
<1>7. Consumed(cfg, groups) = Handed(cfg, done[Len(groups)])
  BY <1>4 DEF GroupByGroup
<1>8. QED
  BY <1>5, <1>6, <1>7 DEF Handed

------------------------------------------------------------------------------
(* What a processor makes of a record alone *)

\* The batch is one record and its resource.
Single(groups, res, rec) ==
    \E g : groups = <<g>> /\ g.res = res /\ g.recs = <<rec>>

\* Only the processors that may remove records remove one.
LEMMA OutcomeStays ==
    ASSUME NEW cfg, cfg.proc \in Processors \ {"journald"}, ~Removes(cfg), NEW res, NEW rec
    PROVE  \A next \in Outcomes(cfg, res, rec) : next.recs # <<>>
<1> DEFINE Stays(next) == next.recs # <<>>
<1>1. \A r, x : Stays(Outcome(r, x))
  BY DEF Outcome
<1> HIDE DEF Stays
<1>2. Stays(Syslog(cfg, res, rec))
  BY <1>1 DEF Syslog
<1>3. \A next \in Cisco(cfg, res, rec) : Stays(next)
  BY <1>1 DEF Cisco
<1>4. Stays(FilterLog(cfg, res, rec))
  BY <1>1 DEF FilterLog
<1>5. Stays(Nginx(cfg, res, rec))
  BY <1>1 DEF Nginx
<1>6. Stays(PgBouncer(cfg, res, rec))
  BY <1>1 DEF PgBouncer
<1>7. Stays(Redis(cfg, res, rec))
  BY <1>1 DEF Redis
<1>8. Stays(Sentry(cfg, res, rec))
  BY <1>1 DEF Sentry
<1>9. \A next \in Outcomes(cfg, res, rec) : Stays(next)
  BY <1>1, <1>2, <1>3, <1>4, <1>5, <1>6, <1>7, <1>8 DEF Outcomes, Removes
<1>10. QED
  BY <1>9 DEF Stays

\* A batch of one group stays if the group has records.
LEMMA FilledOne ==
    ASSUME NEW g
    PROVE  Filled(<<g>>) = IF g.recs = <<>> THEN <<>> ELSE <<g>>
<1>1. DOMAIN <<g>> = {1} /\ <<g>>[1] = g
  OBVIOUS
<1>2. {i \in {1} : <<g>>[i].recs # <<>>} = IF g.recs = <<>> THEN {} ELSE {1}
  BY <1>1
<1>3. Filled(<<g>>) = Picked(<<g>>, IF g.recs = <<>> THEN {} ELSE {1})
  BY <1>1, <1>2 DEF Filled
<1>4. Picked(<<g>>, {}) = <<>> /\ Picked(<<g>>, {1}) = <<<<g>>[1]>>
  BY PickedFew
<1>5. QED
  BY <1>1, <1>3, <1>4

\* One group is a sequence of groups.
LEMMA OneElement ==
    ASSUME NEW e
    PROVE  IsSequence(<<e>>) /\ Len(<<e>>) = 1 /\ DOMAIN <<e>> = 1 .. 1 /\ <<e>>[1] = e
<1>1. <<e>> \in Seq({e})
  OBVIOUS
<1>2. IsSequence(<<e>>)
  BY <1>1, SeqOfRange DEF IsSequence
<1>3. QED
  BY <1>2

\* What a processor that takes a group record by record may make of a record alone.
LEMMA AloneConsumed ==
    ASSUME NEW cfg, cfg.proc \in Processors \ {"journald"},
           NEW groups, NEW res, NEW rec, Single(groups, res, rec), "id" \in DOMAIN rec,
           NEW next \in Outcomes(cfg, res, rec)
    PROVE  \/ <<>> \in Consumed(cfg, groups) /\ next.recs = <<>>
           \/ \E r, o : /\ next.recs = <<r>> /\ Same(r, rec)
                        /\ o \in Consumed(cfg, groups) /\ Single(o, next.res, r)
<1>1. PICK g : groups = <<g>> /\ g.res = res /\ g.recs = <<rec>>
  BY DEF Single
<1>2. IsSequence(groups) /\ Len(groups) = 1 /\ groups[1] = g
  BY <1>1, OneElement
<1>3. IsSequence(g.recs) /\ Len(g.recs) = 1 /\ g.recs[1] = rec
  BY <1>1, OneElement
<1> DEFINE made == [res |-> next.res, recs |-> <<>> \o next.recs]
<1>4. made \in InTurn(cfg, g)
  <2>1. PICK after : RecordByRecord(cfg, g, after)
    BY <1>3, InTurnSteps
  <2>2. InTurn(cfg, g) = after[1] /\ after[1] = RecordMore(cfg, after[0], rec)
    <3>1. 1 \in 1 .. 1 /\ 1 - 1 = 0
      OBVIOUS
    <3>2. QED
      BY <1>3, <2>1, <3>1 DEF RecordByRecord
  <2>3. [res |-> res, recs |-> <<>>] \in after[0]
    BY <1>1, <2>1 DEF RecordByRecord
  <2>4. made \in RecordMore(cfg, after[0], rec)
    <3> DEFINE start == [res |-> res, recs |-> <<>>]
    <3>1. start \in after[0] /\ start.res = res /\ start.recs = <<>>
      BY <2>3
    <3> HIDE DEF start
    <3> DEFINE more(h) == {[res |-> n.res, recs |-> h.recs \o n.recs] :
                             n \in Outcomes(cfg, h.res, rec)}
    <3>2. RecordMore(cfg, after[0], rec) = UNION {more(h) : h \in after[0]}
      BY DEF RecordMore
    <3>3. made \in more(start)
      BY <3>1
    <3> HIDE DEF more
    <3>4. QED
      BY <3>1, <3>2, <3>3
  <2>5. QED
    BY <2>2, <2>4
<1>5. OneAtMost(next, rec)
  BY OutcomesKeep
<1>6. made.res = next.res /\ made.recs = next.recs
  <2>1. IsSequence(next.recs)
    BY <1>5, LeftOfOne
  <2>2. QED
    BY <2>1, AddedToNothing
<1> HIDE DEF made
<1>7. PICK done : GroupByGroup(cfg, groups, done)
  BY <1>2, ConsumedSteps
<1>8. <<made>> \in done[1]
  <2>1. <<>> \in done[0] /\ done[1] = GroupMore(cfg, done[0], g)
    <3>1. 1 \in 1 .. 1 /\ 1 - 1 = 0
      OBVIOUS
    <3>2. QED
      BY <1>2, <1>7, <3>1 DEF GroupByGroup
  <2>2. Append(<<>>, made) \in GroupMore(cfg, done[0], g)
    BY <1>4, <2>1 DEF GroupMore
  <2>3. Append(<<>>, made) = <<made>>
    OBVIOUS
  <2>4. QED
    BY <2>1, <2>2, <2>3
<1>9. Consumed(cfg, groups) = Handed(cfg, done[1])
  BY <1>2, <1>7 DEF GroupByGroup
<1>10. CASE next.recs = <<>>
  <2>1. Removes(cfg)
    BY <1>10, OutcomeStays
  <2>2. Filled(<<made>>) = <<>>
    BY <1>6, <1>10, FilledOne
  <2>3. QED
    BY <1>8, <1>9, <1>10, <2>1, <2>2 DEF Handed
<1>11. CASE next.recs # <<>>
  <2>1. PICK r : next.recs = <<r>> /\ Same(r, rec)
    BY <1>5, <1>11 DEF OneAtMost
  <2>2. Filled(<<made>>) = <<made>>
    BY <1>6, <1>11, FilledOne
  <2>3. <<made>> \in Consumed(cfg, groups)
    BY <1>8, <1>9, <2>2 DEF Handed
  <2>4. Single(<<made>>, next.res, r)
    BY <1>6, <2>1 DEF Single
  <2>5. QED
    BY <2>1, <2>3, <2>4
<1>12. QED
  BY <1>10, <1>11

------------------------------------------------------------------------------
(* What the journal processor makes of a record, among others and alone *)

\* What becomes of a record, and of its resource when the record is alone in its group.
JournalMade(cfg, rec) == IF IsMap(rec.body) THEN JournalRecord(cfg, rec) ELSE rec

JournalRes(cfg, res, rec) ==
    IF cfg.setResource /\ cfg.splitResources /\ ~IsMap(rec.body) THEN res
    ELSE JournalResource(cfg, [res |-> res, recs |-> <<rec>>])

\* Records that name one resource say what one of them says.
LEMMA SaidByAll ==
    ASSUME NEW recs, IsSequence(recs), recs # <<>>, NEW key,
           \A i \in DOMAIN recs : IsMap(recs[i].body) /\ JournalKey(recs[i]) = key
    PROVE  JournalSaid(recs) = key
<1> DEFINE owner(i)  == JournalOwner(recs[i].body.fields)
           naming(a) == {i \in Maps(recs) : a \in DOMAIN owner(i)}
           last(a)   == CHOOSE i \in naming(a) : \A j \in naming(a) : j <= i
<1>1. JournalSaid(recs) = [a \in {b \in DOMAIN ResourceFields : naming(b) # {}} |->
                             owner(last(a))[a]]
  BY DEF JournalSaid
<1>2. PICK n \in Nat : n = Len(recs) /\ DOMAIN recs = 1 .. n
  BY SequenceForm
<1>3. n \in 1 .. n
  <2>1. n # 0
    BY <1>2 DEF IsSequence
  <2>2. QED
    BY <2>1
<1>4. Maps(recs) = 1 .. n
  BY <1>2 DEF Maps
<1>5. \A i \in 1 .. n : owner(i) = key
  BY <1>2 DEF JournalKey
<1>6. DOMAIN key \subseteq DOMAIN ResourceFields /\ key = [a \in DOMAIN key |-> key[a]]
  <2> DEFINE fields == recs[n].body.fields
             said   == {a \in DOMAIN ResourceFields : ResourceFields[a] \in DOMAIN fields}
  <2>1. key = [a \in said |-> fields[ResourceFields[a]]]
    BY <1>3, <1>5 DEF JournalOwner
  <2>2. said \subseteq DOMAIN ResourceFields
    OBVIOUS
  <2> HIDE DEF said
  <2>3. QED
    BY <2>1, <2>2
<1> HIDE DEF owner
<1>7. \A a : naming(a) = IF a \in DOMAIN key THEN 1 .. n ELSE {}
  BY <1>4, <1>5
<1> HIDE DEF naming
<1>8. {b \in DOMAIN ResourceFields : naming(b) # {}} = DOMAIN key
  BY <1>3, <1>6, <1>7
<1>9. \A a \in DOMAIN key : owner(last(a)) = key
  <2>1. SUFFICES ASSUME NEW a \in DOMAIN key PROVE owner(last(a)) = key
    OBVIOUS
  <2>2. n \in naming(a) /\ \A j \in naming(a) : j <= n
    BY <1>3, <1>7
  <2>3. last(a) \in naming(a)
    BY <2>2
  <2>4. QED
    BY <1>5, <1>7, <2>3
<1> HIDE DEF last
<1>10. JournalSaid(recs) = [a \in DOMAIN key |-> key[a]]
  BY <1>1, <1>8, <1>9
<1>11. QED
  BY <1>6, <1>10

\* Records that name one resource make of a resource what one of them makes of it.
LEMMA JournalResAll ==
    ASSUME NEW cfg, NEW group, IsSequence(group.recs), group.recs # <<>>, NEW rec,
           IsMap(rec.body),
           \A i \in DOMAIN group.recs :
              IsMap(group.recs[i].body) /\ JournalKey(group.recs[i]) = JournalKey(rec)
    PROVE  JournalResource(cfg, group) = JournalRes(cfg, group.res, rec)
<1> DEFINE key   == JournalKey(rec)
           alone == [res |-> group.res, recs |-> <<rec>>]
<1>1. JournalSaid(group.recs) = key
  BY SaidByAll
<1>2. JournalSaid(<<rec>>) = key
  <2>1. IsSequence(<<rec>>) /\ DOMAIN <<rec>> = 1 .. 1 /\ <<rec>>[1] = rec /\ <<rec>> # <<>>
    BY OneElement
  <2>2. \A i \in DOMAIN <<rec>> : <<rec>>[i] = rec
    BY <2>1
  <2>3. QED
    BY <2>1, <2>2, SaidByAll
<1>3. alone.res = group.res /\ alone.recs = <<rec>>
  OBVIOUS
<1>4. JournalRes(cfg, group.res, rec) = JournalResource(cfg, alone)
  BY DEF JournalRes
<1> HIDE DEF alone, key
<1>5. QED
  BY <1>1, <1>2, <1>3, <1>4 DEF JournalResource

\* processInPlace changes a record where it is.
LEMMA JournalInPlaceHas ==
    ASSUME NEW cfg, NEW group, HaveIds(group.recs), NEW place
    PROVE  /\ Hasnt(group.recs, place) => Hasnt(JournalInPlace(cfg, group).recs, place)
           /\ \A rec : Has(group.recs, place, rec)
                         => Has(JournalInPlace(cfg, group).recs, place, JournalMade(cfg, rec))
           /\ JournalInPlace(cfg, group).res = JournalResource(cfg, group)
<1> DEFINE made == JournalInPlace(cfg, group).recs
<1>1. Hasnt(group.recs, place) => Hasnt(made, place)
  BY JournalInPlaceLeft, LeftHasnt
<1>2. made = [i \in DOMAIN group.recs |-> JournalMade(cfg, group.recs[i])]
  BY DEF JournalInPlace, JournalMade
<1>3. \A i \in DOMAIN group.recs : JournalMade(cfg, group.recs[i]).id = group.recs[i].id
  BY JournalRecordKeeps DEF JournalMade, HaveIds, Same
<1>4. JournalInPlace(cfg, group).res = JournalResource(cfg, group)
  BY DEF JournalInPlace
<1> HIDE DEF made
<1>5. DOMAIN made = DOMAIN group.recs
  BY <1>2
<1>6. \A i \in DOMAIN made : /\ made[i] = JournalMade(cfg, group.recs[i])
                             /\ made[i].id = group.recs[i].id
  BY <1>2, <1>3
<1>7. ASSUME NEW rec, Has(group.recs, place, rec) PROVE Has(made, place, JournalMade(cfg, rec))
  <2>1. PICK j \in DOMAIN group.recs :
          /\ group.recs[j] = rec /\ rec.id = place
          /\ \A i \in DOMAIN group.recs : group.recs[i].id = place => i = j
    BY <1>7 DEF Has
  <2>2. made[j] = JournalMade(cfg, rec) /\ JournalMade(cfg, rec).id = place
    BY <1>3, <1>5, <1>6, <2>1
  <2>3. QED
    BY <1>5, <1>6, <2>1, <2>2 DEF Has
<1>8. QED
  BY <1>1, <1>4, <1>7 DEF made

\* A group that is split keeps a record if it is no map.
LEMMA JournalStaysHas ==
    ASSUME NEW group, HaveIds(group.recs), NEW place
    PROVE  /\ Hasnt(group.recs, place) => Hasnt(JournalStays(group).recs, place)
           /\ \A rec : Has(group.recs, place, rec) =>
                         IF IsMap(rec.body) THEN Hasnt(JournalStays(group).recs, place)
                         ELSE Has(JournalStays(group).recs, place, rec)
           /\ JournalStays(group).res = group.res
<1> DEFINE recs == group.recs
<1>1. JournalStays(group).recs = Picked(recs, Rest(recs)) /\ JournalStays(group).res = group.res
  BY DEF JournalStays
<1>2. Rest(recs) \in SUBSET DOMAIN recs /\ IsSequence(recs)
  BY DEF Rest, HaveIds
<1>3. \A i \in DOMAIN recs : i \in Rest(recs) <=> ~IsMap(recs[i].body)
  BY DEF Rest, Maps
<1>4. Hasnt(recs, place) => Hasnt(Picked(recs, Rest(recs)), place)
  BY <1>2, PickedHas DEF Hasnt
<1>5. ASSUME NEW rec, Has(recs, place, rec)
      PROVE  IF IsMap(rec.body) THEN Hasnt(Picked(recs, Rest(recs)), place)
             ELSE Has(Picked(recs, Rest(recs)), place, rec)
  <2>1. PICK j \in DOMAIN recs : /\ recs[j] = rec /\ rec.id = place
                                 /\ \A i \in DOMAIN recs : recs[i].id = place => i = j
    BY <1>5 DEF Has
  <2>2. CASE IsMap(rec.body)
    <3>1. \A i \in Rest(recs) : recs[i].id # place
      BY <1>2, <1>3, <2>1, <2>2
    <3>2. QED
      BY <1>2, <2>2, <3>1, PickedHas
  <2>3. CASE ~IsMap(rec.body)
    <3>1. \E i \in Rest(recs) : recs[i].id = place
      BY <1>3, <2>1, <2>3
    <3>2. QED
      BY <1>2, <1>5, <2>3, <3>1, PickedHas
  <2>4. QED
    BY <2>2, <2>3
<1>6. QED
  BY <1>1, <1>4, <1>5

\* Each resource that a group names has one group of those that split makes.
LEMMA FirstsOfKeys ==
    ASSUME NEW recs, IsSequence(recs)
    PROVE  /\ IsSequence(FirstOfKey(recs))
           /\ \A k, l \in DOMAIN FirstOfKey(recs) :
                JournalKey(FirstOfKey(recs)[k]) = JournalKey(FirstOfKey(recs)[l]) => k = l
           /\ \A i \in Maps(recs) : \E k \in DOMAIN FirstOfKey(recs) :
                JournalKey(FirstOfKey(recs)[k]) = JournalKey(recs[i])
<1> DEFINE I      == {i \in Maps(recs) : \A j \in Maps(recs) :
                        j < i => JournalKey(recs[j]) # JournalKey(recs[i])}
           firsts == FirstOfKey(recs)
<1>1. firsts = Picked(recs, I)
  BY DEF FirstOfKey
<1>2. I \in SUBSET DOMAIN recs /\ Maps(recs) \subseteq DOMAIN recs
  BY DEF Maps
<1>3. PICK n \in Nat : DOMAIN recs = 1 .. n
  BY SequenceForm
<1>4. \A i, j \in I : JournalKey(recs[i]) = JournalKey(recs[j]) => i = j
  <2>1. SUFFICES ASSUME NEW i \in I, NEW j \in I, JournalKey(recs[i]) = JournalKey(recs[j])
                 PROVE  i = j
    OBVIOUS
  <2>2. i \in Nat /\ j \in Nat /\ ~(j < i) /\ ~(i < j)
    BY <1>2, <1>3, <2>1
  <2>3. QED
    BY <2>2
<1>5. ASSUME NEW i \in Maps(recs)
      PROVE  \E m \in I : JournalKey(recs[m]) = JournalKey(recs[i])
  <2> DEFINE Equal == {m \in Maps(recs) : JournalKey(recs[m]) = JournalKey(recs[i])}
  <2>1. Equal \subseteq Nat /\ Equal # {}
    BY <1>2, <1>3
  <2>2. PICK m \in Equal : \A l \in Equal : m <= l
    <3> HIDE DEF Equal
    <3>1. QED
      BY <2>1, LeastExists
  <2>3. \A j \in Maps(recs) : j < m => JournalKey(recs[j]) # JournalKey(recs[m])
    <3>1. SUFFICES ASSUME NEW j \in Maps(recs), j < m,
                          JournalKey(recs[j]) = JournalKey(recs[m])
                   PROVE  FALSE
      OBVIOUS
    <3>2. j \in Equal
      BY <2>2, <3>1
    <3>3. j \in Nat /\ m \in Nat /\ m <= j
      BY <2>1, <2>2, <3>2
    <3>4. QED
      BY <3>1, <3>3
  <2>4. m \in I
    BY <2>2, <2>3
  <2>5. QED
    BY <2>2, <2>4
<1> HIDE DEF I, firsts
<1>6. IsSequence(firsts)
  BY <1>1, <1>2, PickedRises
<1>7. PICK at : /\ \A k \in DOMAIN firsts : at[k] \in I /\ firsts[k] = recs[at[k]]
                /\ \A k, l \in DOMAIN firsts : at[k] = at[l] => k = l
  BY <1>1, <1>2, PickedOnce
<1>8. \A k, l \in DOMAIN firsts : JournalKey(firsts[k]) = JournalKey(firsts[l]) => k = l
  BY <1>4, <1>7
<1>9. \A i \in Maps(recs) : \E k \in DOMAIN firsts : JournalKey(firsts[k]) = JournalKey(recs[i])
  <2>1. SUFFICES ASSUME NEW i \in Maps(recs)
                 PROVE  \E k \in DOMAIN firsts : JournalKey(firsts[k]) = JournalKey(recs[i])
    OBVIOUS
  <2>2. PICK m \in I : JournalKey(recs[m]) = JournalKey(recs[i])
    BY <1>5
  <2>3. PICK k \in DOMAIN firsts : firsts[k] = recs[m]
    BY <1>1, <1>2, PickedReaches
  <2>4. QED
    BY <2>2, <2>3
<1>10. QED
  BY <1>6, <1>8, <1>9 DEF firsts

\* split moves a record that is a map to one group, whose resource is what the record
\* makes of it, and no other record.
LEMMA JournalSplitHas ==
    ASSUME NEW cfg, cfg.setResource, NEW group, HaveIds(group.recs), NEW place
    PROVE  /\ Hasnt(group.recs, place) => Lacks(JournalSplit(cfg, group), place)
           /\ \A rec : Has(group.recs, place, rec) =>
                IF IsMap(rec.body)
                THEN Holds(JournalSplit(cfg, group), place,
                           JournalRes(cfg, group.res, rec), JournalMade(cfg, rec))
                ELSE Lacks(JournalSplit(cfg, group), place)
<1> DEFINE recs    == group.recs
           firsts  == FirstOfKey(recs)
           key(k)  == JournalKey(firsts[k])
           mine(k) == [res |-> group.res, recs |-> OfKey(recs, key(k))]
           split   == JournalSplit(cfg, group)
<1>1. split = [k \in DOMAIN firsts |-> JournalInPlace(cfg, mine(k))]
  BY DEF JournalSplit
<1>2. IsSequence(recs) /\ Maps(recs) \subseteq DOMAIN recs
  BY DEF HaveIds, Maps
<1>3. \A i \in DOMAIN recs : i \in Maps(recs) <=> IsMap(recs[i].body)
  BY DEF Maps
<1>4. \A k : mine(k).res = group.res /\ mine(k).recs = OfKey(recs, key(k))
  OBVIOUS
<1> DEFINE I(k) == {i \in Maps(recs) : JournalKey(recs[i]) = key(k)}
<1>5. \A k : OfKey(recs, key(k)) = Picked(recs, I(k)) /\ I(k) \in SUBSET DOMAIN recs
  BY <1>2 DEF OfKey
<1>6. \A k : \A i \in DOMAIN recs :
        i \in I(k) <=> IsMap(recs[i].body) /\ JournalKey(recs[i]) = key(k)
  BY <1>2, <1>3
<1> HIDE DEF split, mine, I
<1>7. DOMAIN split = DOMAIN firsts /\ \A k \in DOMAIN split : split[k] = JournalInPlace(cfg, mine(k))
  BY <1>1
<1>8. \A k, l \in DOMAIN firsts : key(k) = key(l) => k = l
  BY <1>2, FirstsOfKeys
<1>9. \A i \in Maps(recs) : \E k \in DOMAIN firsts : key(k) = JournalKey(recs[i])
  BY <1>2, FirstsOfKeys
<1> HIDE DEF key, firsts
<1>10. \A k : HaveIds(mine(k).recs)
  BY <1>4, <1>5, LeftPicked, LeftIds
<1>11. ASSUME NEW k \in DOMAIN split, \A i \in I(k) : recs[i].id # place
       PROVE  Hasnt(split[k].recs, place)
  <2>1. Hasnt(mine(k).recs, place)
    BY <1>2, <1>4, <1>5, <1>11, PickedHas
  <2>2. QED
    BY <1>7, <1>10, <2>1, JournalInPlaceHas
<1>12. ASSUME Hasnt(recs, place) PROVE Lacks(split, place)
  BY <1>5, <1>11, <1>12 DEF Hasnt, Lacks
<1>13. ASSUME NEW rec, Has(recs, place, rec)
       PROVE  IF IsMap(rec.body)
              THEN Holds(split, place, JournalRes(cfg, group.res, rec), JournalMade(cfg, rec))
              ELSE Lacks(split, place)
  <2>1. PICK j \in DOMAIN recs : /\ recs[j] = rec /\ rec.id = place
                                 /\ \A i \in DOMAIN recs : recs[i].id = place => i = j
    BY <1>13 DEF Has
  <2>2. CASE ~IsMap(rec.body)
    <3>1. \A k : \A i \in I(k) : recs[i].id # place
      BY <1>5, <1>6, <2>1, <2>2
    <3>2. Lacks(split, place)
      BY <1>11, <3>1 DEF Lacks
    <3>3. QED
      BY <2>2, <3>2
  <2>3. CASE IsMap(rec.body)
    <3>1. PICK h \in DOMAIN split : key(h) = JournalKey(rec)
      BY <1>3, <1>7, <1>9, <2>1, <2>3
    <3>2. j \in I(h)
      BY <1>6, <2>1, <2>3, <3>1
    <3>3. \A k \in DOMAIN split : k # h => Hasnt(split[k].recs, place)
      <4>1. SUFFICES ASSUME NEW k \in DOMAIN split, k # h PROVE Hasnt(split[k].recs, place)
        OBVIOUS
      <4>2. key(k) # JournalKey(rec)
        BY <1>7, <1>8, <3>1, <4>1
      <4>3. \A i \in I(k) : recs[i].id # place
        BY <1>5, <1>6, <2>1, <4>2
      <4>4. QED
        BY <1>11, <4>3
    <3>4. Has(mine(h).recs, place, rec)
      BY <1>2, <1>4, <1>5, <1>13, <2>1, <3>2, PickedHas
    <3>5. Has(split[h].recs, place, JournalMade(cfg, rec))
      BY <1>7, <1>10, <3>4, JournalInPlaceHas
    <3>6. split[h].res = JournalRes(cfg, group.res, rec)
      <4>1. split[h].res = JournalResource(cfg, mine(h))
        BY <1>7, <1>10, JournalInPlaceHas
      <4>2. mine(h).recs # <<>>
        <5>1. DOMAIN <<>> = {}
          OBVIOUS
        <5>2. QED
          BY <3>4, <5>1 DEF Has
      <4>3. PICK at : \A k \in DOMAIN mine(h).recs :
                        at[k] \in I(h) /\ mine(h).recs[k] = recs[at[k]]
        BY <1>2, <1>4, <1>5, PickedOnce
      <4>4. \A k \in DOMAIN mine(h).recs : /\ IsMap(mine(h).recs[k].body)
                                           /\ JournalKey(mine(h).recs[k]) = JournalKey(rec)
        BY <1>5, <1>6, <3>1, <4>3
      <4>5. IsSequence(mine(h).recs)
        BY <1>10 DEF HaveIds
      <4>6. JournalResource(cfg, mine(h)) = JournalRes(cfg, mine(h).res, rec)
        BY <2>3, <4>2, <4>4, <4>5, JournalResAll
      <4>7. QED
        BY <1>4, <4>1, <4>6
    <3>7. Holds(split, place, JournalRes(cfg, group.res, rec), JournalMade(cfg, rec))
      BY <3>3, <3>5, <3>6 DEF Holds
    <3>8. QED
      BY <2>3, <3>7
  <2>4. QED
    BY <2>2, <2>3
<1>14. QED
  BY <1>12, <1>13 DEF split

\* A group that is not split has the resource that its record makes of it alone.
LEMMA JournalKeptRes ==
    ASSUME NEW cfg, cfg.proc = "journald", NEW group, HaveIds(group.recs),
           NEW place, NEW rec, Has(group.recs, place, rec),
           ~WritesResource(cfg) \/ Len(group.recs) = 1,
           cfg.setResource /\ cfg.splitResources => SingleTuple(group)
    PROVE  JournalResource(cfg, group) = JournalRes(cfg, group.res, rec)
<1>1. IsSequence(group.recs) /\ group.recs # <<>>
  <2>1. DOMAIN <<>> = {}
    OBVIOUS
  <2>2. QED
    BY <2>1 DEF Has, HaveIds
<1>2. PICK j \in DOMAIN group.recs : group.recs[j] = rec
  BY DEF Has
<1>3. CASE cfg.setResource /\ cfg.splitResources
  <2>1. \A i \in DOMAIN group.recs :
          /\ IsMap(group.recs[i].body) /\ IsMap(group.recs[j].body)
          /\ JournalKey(group.recs[i]) = JournalKey(group.recs[j])
    BY <1>3 DEF SingleTuple, Range
  <2>2. QED
    BY <1>1, <1>2, <2>1, JournalResAll
<1>4. CASE ~(cfg.setResource /\ cfg.splitResources)
  <2> DEFINE alone == [res |-> group.res, recs |-> <<rec>>]
  <2>1. JournalRes(cfg, group.res, rec) = JournalResource(cfg, alone)
    BY <1>4 DEF JournalRes
  <2>2. alone.res = group.res /\ alone.recs = <<rec>>
    OBVIOUS
  <2> HIDE DEF alone
  <2>3. CASE cfg.setResource
    <3>1. Len(group.recs) = 1
      BY <1>4, <2>3 DEF WritesResource
    <3>2. DOMAIN group.recs = 1 .. 1 /\ group.recs = [i \in 1 .. 1 |-> group.recs[i]]
      BY <1>1, <3>1, SequenceForm
    <3>3. j = 1 /\ group.recs[1] = rec
      BY <1>2, <3>2
    <3>4. group.recs = <<rec>>
      BY <3>2, <3>3
    <3>5. QED
      BY <2>1, <2>2, <3>4 DEF JournalResource
  <2>4. CASE ~cfg.setResource
    BY <2>1, <2>2, <2>4 DEF JournalResource
  <2>5. QED
    BY <2>3, <2>4
<1>5. QED
  BY <1>3, <1>4

\* What the journal processor makes of one record of a batch.
LEMMA JournalHas ==
    ASSUME NEW cfg, cfg.proc = "journald", NEW groups, GroupsHaveIds(groups),
           NEW place, NEW res, NEW rec, Holds(groups, place, res, rec),
           ~WritesResource(cfg) \/ AloneInGroup(groups, place)
    PROVE  Holds(Journal(cfg, groups), place, JournalRes(cfg, res, rec), JournalMade(cfg, rec))
<1> DEFINE split == cfg.setResource /\ cfg.splitResources
           apart == {i \in DOMAIN groups : split /\ ~SingleTuple(groups[i])}
           first == [i \in DOMAIN groups |->
                       IF i \in apart THEN JournalStays(groups[i])
                       ELSE JournalInPlace(cfg, groups[i])]
           news  == [i \in DOMAIN groups |->
                       IF i \in apart THEN JournalSplit(cfg, groups[i]) ELSE <<>>]
           added == FlattenSeq(news)
           r2    == JournalRes(cfg, res, rec)
           x2    == JournalMade(cfg, rec)
<1>1. Journal(cfg, groups) = IF split THEN Filled(first \o added) ELSE first
  BY DEF Journal
<1>2. PICK n \in Nat : n = Len(groups) /\ DOMAIN groups = 1 .. n
  BY SequenceForm DEF GroupsHaveIds
<1>3. \A i \in 1 .. n : HaveIds(groups[i].recs)
  BY <1>2 DEF GroupsHaveIds, Range
<1>4. PICK h \in 1 .. n : /\ groups[h].res = res /\ Has(groups[h].recs, place, rec)
                          /\ \A i \in 1 .. n : i # h => Hasnt(groups[i].recs, place)
  BY <1>2 DEF Holds
<1>5. ~WritesResource(cfg) \/ Len(groups[h].recs) = 1
  BY <1>2, <1>4 DEF AloneInGroup, Has, Hasnt
<1>6. IsSequence(first) /\ DOMAIN first = 1 .. n
  <2>1. first = [i \in 1 .. n |-> first[i]]
    BY <1>2
  <2> HIDE DEF first
  <2>2. QED
    BY <2>1, MadeSequence
<1>7. IsSequence(news) /\ DOMAIN news = 1 .. n
  <2>1. news = [i \in 1 .. n |-> news[i]]
    BY <1>2
  <2> HIDE DEF news
  <2>2. QED
    BY <2>1, MadeSequence
<1>8. \A i \in 1 .. n : /\ i \in apart => first[i] = JournalStays(groups[i])
                        /\ i \in apart => news[i] = JournalSplit(cfg, groups[i])
                        /\ i \notin apart => first[i] = JournalInPlace(cfg, groups[i])
                        /\ i \notin apart => news[i] = <<>>
  BY <1>2
<1>9. \A i \in 1 .. n : i \in apart <=> split /\ ~SingleTuple(groups[i])
  BY <1>2
<1> HIDE DEF first, news, apart, added, r2, x2
<1>10. \A i \in 1 .. n : IsSequence(news[i])
  <2>1. IsSequence(<<>>)
    BY DEF IsSequence
  <2>2. QED
    BY <1>3, <1>8, <2>1, JournalSplitLeft
<1>11. Lacks(<<>>, place)
  BY DEF Lacks
<1>12. \A i \in 1 .. n : i # h => Hasnt(first[i].recs, place) /\ Lacks(news[i], place)
  <2>1. SUFFICES ASSUME NEW i \in 1 .. n, i # h
                 PROVE  Hasnt(first[i].recs, place) /\ Lacks(news[i], place)
    OBVIOUS
  <2>2. Hasnt(groups[i].recs, place) /\ HaveIds(groups[i].recs)
    BY <1>3, <1>4, <2>1
  <2>3. CASE i \in apart
    BY <1>8, <1>9, <2>2, <2>3, JournalStaysHas, JournalSplitHas
  <2>4. CASE i \notin apart
    BY <1>8, <1>11, <2>2, <2>4, JournalInPlaceHas
  <2>5. QED
    BY <2>3, <2>4
<1>13. IsSequence(added)
  BY <1>7, <1>10, FlattenedElements, SeqOfRange DEF added, IsSequence
<1>14. ASSUME first[h].res = r2, Has(first[h].recs, place, x2)
       PROVE  Holds(first, place, r2, x2)
  BY <1>6, <1>12, <1>14 DEF Holds
<1>15. ASSUME Hasnt(first[h].recs, place) PROVE Lacks(first, place)
  BY <1>6, <1>12, <1>15 DEF Lacks
<1>16. ASSUME Holds(news[h], place, r2, x2) PROVE Holds(added, place, r2, x2)
  <2>1. h \in Nat \ {0} /\ h \in DOMAIN news
    BY <1>2, <1>4, <1>7
  <2>2. \A i \in DOMAIN news : IsSequence(news[i]) /\ (i # h => Lacks(news[i], place))
    BY <1>7, <1>10, <1>12
  <2>3. IF h \in DOMAIN news THEN Holds(FlattenSeq(news), place, r2, x2)
        ELSE Lacks(FlattenSeq(news), place)
    BY <1>7, <1>16, <2>1, <2>2, FlattenedHolds
  <2>4. QED
    BY <2>1, <2>3 DEF added
<1>17. ASSUME Lacks(news[h], place) PROVE Lacks(added, place)
  <2>1. n + 1 \in Nat \ {0} /\ n + 1 \notin DOMAIN news
    BY <1>2, <1>7
  <2>2. \A i \in DOMAIN news : IsSequence(news[i]) /\ Lacks(news[i], place)
    BY <1>7, <1>10, <1>12, <1>17
  <2>3. IF n + 1 \in DOMAIN news THEN Holds(FlattenSeq(news), place, r2, x2)
        ELSE Lacks(FlattenSeq(news), place)
    BY <1>7, <2>1, <2>2, FlattenedHolds
  <2>4. QED
    BY <2>1, <2>3 DEF added
<1>18. \/ Holds(first, place, r2, x2) /\ Lacks(added, place)
       \/ Lacks(first, place) /\ Holds(added, place, r2, x2) /\ split
  <2>1. CASE h \in apart /\ IsMap(rec.body)
    <3>1. Hasnt(first[h].recs, place)
      BY <1>3, <1>4, <1>8, <2>1, JournalStaysHas
    <3>2. Holds(news[h], place, r2, x2)
      BY <1>3, <1>4, <1>8, <1>9, <2>1, JournalSplitHas DEF r2, x2
    <3>3. QED
      BY <1>9, <1>15, <1>16, <2>1, <3>1, <3>2
  <2>2. CASE h \in apart /\ ~IsMap(rec.body)
    <3>1. first[h].res = res /\ Has(first[h].recs, place, rec)
      BY <1>3, <1>4, <1>8, <2>2, JournalStaysHas
    <3>2. r2 = res /\ x2 = rec
      BY <1>9, <2>2 DEF r2, x2, JournalRes, JournalMade
    <3>3. Lacks(news[h], place)
      BY <1>3, <1>4, <1>8, <1>9, <2>2, JournalSplitHas
    <3>4. QED
      BY <1>14, <1>17, <3>1, <3>2, <3>3
  <2>3. CASE h \notin apart
    <3>1. first[h].res = JournalResource(cfg, groups[h]) /\ Has(first[h].recs, place, x2)
      BY <1>3, <1>4, <1>8, <2>3, JournalInPlaceHas DEF x2
    <3>2. JournalResource(cfg, groups[h]) = r2
      BY <1>3, <1>4, <1>5, <1>9, <2>3, JournalKeptRes DEF r2
    <3>3. Lacks(news[h], place)
      BY <1>8, <1>11, <2>3
    <3>4. QED
      BY <1>14, <1>17, <3>1, <3>2, <3>3
  <2>4. QED
    BY <2>1, <2>2, <2>3
<1>19. CASE split
  <2>1. Holds(first \o added, place, r2, x2) /\ IsSequence(first \o added)
    BY <1>6, <1>13, <1>18, JoinedHolds, Joined
  <2>2. QED
    BY <1>1, <1>19, <2>1, FilledHolds DEF r2, x2
<1>20. CASE ~split
  BY <1>1, <1>18, <1>20 DEF r2, x2
<1>21. QED
  BY <1>19, <1>20

\* One sequence, flattened.
LEMMA FlattenedSingle ==
    ASSUME NEW s
    PROVE  FlattenSeq(<<s>>) = s
<1>1. IsSequence(<<s>>) /\ Len(<<s>>) = 1 /\ <<s>>[1] = s
  BY OneElement
<1>2. PICK f : /\ FlattenSeq(<<s>>) = f[1]
               /\ \A i \in 1 .. 1 : f[i] = IF i = 1 THEN <<s>>[i] ELSE f[i - 1] \o <<s>>[i]
  <2>1. Len(<<s>>) # 0
    BY <1>1
  <2>2. \E f : /\ FlattenSeq(<<s>>) = f[Len(<<s>>)]
               /\ \A i \in 1 .. Len(<<s>>) :
                    f[i] = IF i = 1 THEN <<s>>[i] ELSE f[i - 1] \o <<s>>[i]
    BY <1>1, <2>1, FlattenSteps
  <2>3. QED
    BY <1>1, <2>2
<1>3. f[1] = <<s>>[1]
  <2>1. 1 \in 1 .. 1
    OBVIOUS
  <2>2. QED
    BY <1>2, <2>1
<1>4. QED
  BY <1>1, <1>2, <1>3

\* What the journal processor makes of a record alone.
LEMMA JournalAlone ==
    ASSUME NEW cfg, cfg.proc = "journald",
           NEW groups, NEW res, NEW rec, Single(groups, res, rec), "id" \in DOMAIN rec
    PROVE  Single(Journal(cfg, groups), JournalRes(cfg, res, rec), JournalMade(cfg, rec))
<1> DEFINE split == cfg.setResource /\ cfg.splitResources
           apart == {i \in DOMAIN groups : split /\ ~SingleTuple(groups[i])}
           first == [i \in DOMAIN groups |->
                       IF i \in apart THEN JournalStays(groups[i])
                       ELSE JournalInPlace(cfg, groups[i])]
           news  == [i \in DOMAIN groups |->
                       IF i \in apart THEN JournalSplit(cfg, groups[i]) ELSE <<>>]
           added == FlattenSeq(news)
           r2    == JournalRes(cfg, res, rec)
           x2    == JournalMade(cfg, rec)
<1>1. Journal(cfg, groups) = IF split THEN Filled(first \o added) ELSE first
  BY DEF Journal
<1>2. PICK g : groups = <<g>> /\ g.res = res /\ g.recs = <<rec>>
  BY DEF Single
<1>3. IsSequence(groups) /\ DOMAIN groups = 1 .. 1 /\ groups[1] = g
  BY <1>2, OneElement
<1>4. IsSequence(g.recs) /\ Len(g.recs) = 1 /\ DOMAIN g.recs = 1 .. 1 /\ g.recs[1] = rec
  BY <1>2, OneElement
<1>5. \A i \in 1 .. 1 : i = 1
  OBVIOUS
<1>6. HaveIds(g.recs) /\ Has(g.recs, rec.id, rec)
  BY <1>4, <1>5 DEF HaveIds, Has
<1>7. first = <<IF 1 \in apart THEN JournalStays(g) ELSE JournalInPlace(cfg, g)>>
  BY <1>3
<1>8. news = <<IF 1 \in apart THEN JournalSplit(cfg, g) ELSE <<>>>>
  BY <1>3
<1>9. 1 \in apart <=> split /\ ~SingleTuple(g)
  BY <1>3
<1> HIDE DEF first, news, apart, added, r2, x2
<1>10. SingleTuple(g) <=> IsMap(rec.body)
  <2>1. Range(g.recs) = {rec}
    BY <1>4, <1>5 DEF Range
  <2>2. QED
    BY <2>1 DEF SingleTuple
<1>11. Maps(g.recs) = IF IsMap(rec.body) THEN {1} ELSE {}
  <2>1. \A i \in 1 .. 1 : IsMap(g.recs[i].body) <=> IsMap(rec.body)
    BY <1>4, <1>5
  <2>2. Maps(g.recs) = {i \in 1 .. 1 : IsMap(g.recs[i].body)}
    BY <1>4 DEF Maps
  <2>3. QED
    BY <1>5, <2>1, <2>2
<1>12. ASSUME NEW o, news = <<<<>>>>, first = <<o>>, o.res = r2, o.recs = <<x2>>
       PROVE  Single(Journal(cfg, groups), r2, x2)
  <2>1. added = <<>>
    BY <1>12, FlattenedSingle DEF added
  <2>2. first \o added = <<o>>
    BY <1>12, <2>1, OneElement, NothingAdded
  <2>3. Filled(<<o>>) = <<o>>
    <3>1. o.recs # <<>>
      BY <1>12
    <3>2. QED
      BY <3>1, FilledOne
  <2>4. Journal(cfg, groups) = <<o>>
    BY <1>1, <1>12, <2>2, <2>3
  <2>5. QED
    BY <1>12, <2>4 DEF Single
<1>13. CASE 1 \in apart
  <2>1. ~IsMap(rec.body) /\ split
    BY <1>9, <1>10, <1>13
  <2>2. Maps(g.recs) = {} /\ Rest(g.recs) = {1}
    BY <1>4, <1>11, <2>1 DEF Rest
  <2>3. JournalStays(g).res = res /\ JournalStays(g).recs = <<rec>>
    BY <1>2, <1>4, <2>2, PickedFew DEF JournalStays
  <2>4. FirstOfKey(g.recs) = <<>>
    <3>1. {i \in Maps(g.recs) : \A j \in Maps(g.recs) :
             j < i => JournalKey(g.recs[j]) # JournalKey(g.recs[i])} = {}
      BY <2>2
    <3>2. FirstOfKey(g.recs) = Picked(g.recs, {})
      BY <3>1 DEF FirstOfKey
    <3>3. QED
      BY <3>2, PickedFew
  <2>5. JournalSplit(cfg, g) = <<>>
    BY <2>4 DEF JournalSplit
  <2>6. r2 = res /\ x2 = rec
    BY <2>1 DEF r2, x2, JournalRes, JournalMade
  <2>7. QED
    BY <1>7, <1>8, <1>12, <1>13, <2>3, <2>5, <2>6 DEF r2, x2
<1>14. CASE 1 \notin apart
  <2> DEFINE o == JournalInPlace(cfg, g)
  <2>1. o.res = JournalResource(cfg, g)
    BY <1>6, JournalInPlaceHas
  <2>2. JournalResource(cfg, g) = r2
    BY <1>2, <1>4, <1>6, <1>9, <1>14, JournalKeptRes DEF r2
  <2>3. o.recs = [i \in 1 .. 1 |-> JournalMade(cfg, g.recs[i])]
    BY <1>4 DEF JournalInPlace, JournalMade
  <2> HIDE DEF o
  <2>4. o.recs = <<x2>>
    BY <1>4, <1>5, <2>3 DEF x2
  <2>5. first = <<o>> /\ news = <<<<>>>>
    BY <1>7, <1>8, <1>14 DEF o
  <2>6. QED
    BY <1>12, <2>1, <2>2, <2>4, <2>5 DEF r2, x2
<1>15. QED
  BY <1>13, <1>14

------------------------------------------------------------------------------
(* A record in its batch and alone, processor by processor *)

\* The record of that place is in the batch b as it is in o, where it is alone: with the
\* same resource, or in neither.
Alike(b, o, place) ==
    \/ o = <<>> /\ Lacks(b, place)
    \/ \E res, rec : Single(o, res, rec) /\ Holds(b, place, res, rec)

\* A processor may leave a batch without groups as it is.
LEMMA ConsumedNothing ==
    ASSUME NEW cfg
    PROVE  <<>> \in Consumed(cfg, <<>>)
<1>1. IsSequence(<<>>) /\ Len(<<>>) = 0 /\ Range(<<>>) = {}
  BY DEF IsSequence, Range
<1>2. CASE cfg.proc = "journald"
  <2>1. Consumed(cfg, <<>>) = {Journal(cfg, <<>>)}
    BY <1>2 DEF Consumed
  <2>2. GroupsHaveIds(<<>>)
    BY <1>1 DEF GroupsHaveIds
  <2>3. GroupsOf(Journal(cfg, <<>>), <<>>)
    BY <2>2, JournalLeft
  <2>4. IsSequence(Journal(cfg, <<>>)) /\ Range(Journal(cfg, <<>>)) = {}
    BY <1>1, <2>3 DEF GroupsOf
  <2>5. Journal(cfg, <<>>) = <<>>
    BY <2>4 DEF IsSequence
  <2>6. QED
    BY <2>1, <2>5
<1>3. CASE cfg.proc # "journald"
  <2>1. PICK done : GroupByGroup(cfg, <<>>, done)
    BY <1>1, <1>3, ConsumedSteps
  <2>2. Consumed(cfg, <<>>) = Handed(cfg, done[0]) /\ done[0] = {<<>>}
    BY <1>1, <2>1 DEF GroupByGroup
  <2>3. Filled(<<>>) = <<>>
    <3>1. {i \in DOMAIN <<>> : <<>>[i].recs # <<>>} = {}
      OBVIOUS
    <3>2. Filled(<<>>) = Picked(<<>>, {})
      BY <3>1 DEF Filled
    <3>3. QED
      BY <3>2, PickedFew
  <2>4. QED
    BY <2>2, <2>3 DEF Handed
<1>4. QED
  BY <1>2, <1>3

\* What a processor makes of a record among others it may make of it alone.
LEMMA ConsumedAlike ==
    ASSUME NEW cfg, cfg.proc \in Processors, NEW b, GroupsHaveIds(b),
           NEW o, NEW place, Alike(b, o, place),
           ~WritesResource(cfg) \/ AloneInGroup(b, place),
           NEW gs \in Consumed(cfg, b)
    PROVE  \E p \in Consumed(cfg, o) : Alike(gs, p, place)
<1>1. CASE o = <<>> /\ Lacks(b, place)
  <2>1. Lacks(gs, place)
    BY <1>1, ConsumedLacks
  <2>2. Alike(gs, <<>>, place)
    BY <2>1 DEF Alike
  <2>3. QED
    BY <1>1, <2>2, ConsumedNothing
<1>2. ASSUME NEW res, NEW rec, Single(o, res, rec), Holds(b, place, res, rec)
      PROVE  \E p \in Consumed(cfg, o) : Alike(gs, p, place)
  <2>1. "id" \in DOMAIN rec
    BY <1>2 DEF Holds, Has, GroupsHaveIds, HaveIds, Range
  <2>2. CASE cfg.proc = "journald"
    <3>1. Consumed(cfg, b) = {Journal(cfg, b)} /\ Consumed(cfg, o) = {Journal(cfg, o)}
      BY <2>2 DEF Consumed
    <3>2. Holds(gs, place, JournalRes(cfg, res, rec), JournalMade(cfg, rec))
      BY <1>2, <2>2, <3>1, JournalHas
    <3>3. Single(Journal(cfg, o), JournalRes(cfg, res, rec), JournalMade(cfg, rec))
      BY <1>2, <2>1, <2>2, JournalAlone
    <3>4. QED
      BY <3>1, <3>2, <3>3 DEF Alike
  <2>3. CASE cfg.proc # "journald"
    <3>1. PICK next \in Outcomes(cfg, res, rec) :
            /\ next.recs = <<>> => Lacks(gs, place)
            /\ \A r : next.recs = <<r>> => Holds(gs, place, next.res, r)
      BY <1>2, <2>3, ConsumedHas
    <3>2. CASE <<>> \in Consumed(cfg, o) /\ next.recs = <<>>
      BY <3>1, <3>2 DEF Alike
    <3>3. ASSUME NEW r, NEW p \in Consumed(cfg, o), next.recs = <<r>>, Single(p, next.res, r)
          PROVE  \E q \in Consumed(cfg, o) : Alike(gs, q, place)
      BY <3>1, <3>3 DEF Alike
    <3>4. QED
      BY <1>2, <2>1, <2>3, <3>2, <3>3, AloneConsumed
  <2>4. QED
    BY <2>2, <2>3
<1>3. QED
  BY <1>1, <1>2 DEF Alike

\* Alike records have the same fate.
LEMMA AlikeFate ==
    ASSUME NEW b, GroupsHaveIds(b), NEW o, NEW place, Alike(b, o, place)
    PROVE  Fate(b, place) = Fate(o, place)
<1>1. IsSequence(b) /\ \A g \in DOMAIN b : IsSequence(b[g].recs)
  BY DEF GroupsHaveIds, HaveIds, Range
<1>2. CASE o = <<>> /\ Lacks(b, place)
  <2>1. IsSequence(<<>>) /\ Lacks(<<>>, place) /\ DOMAIN <<>> = {}
    BY DEF IsSequence, Lacks
  <2>2. QED
    BY <1>1, <1>2, <2>1, FateOfRecord
<1>3. ASSUME NEW res, NEW rec, Single(o, res, rec), Holds(b, place, res, rec)
      PROVE  Fate(b, place) = Fate(o, place)
  <2>1. rec.id = place
    BY <1>3 DEF Holds, Has
  <2>2. PICK g : o = <<g>> /\ g.res = res /\ g.recs = <<rec>>
    BY <1>3 DEF Single
  <2>3. IsSequence(o) /\ DOMAIN o = 1 .. 1 /\ o[1] = g
    BY <2>2, OneElement
  <2>4. IsSequence(g.recs) /\ DOMAIN g.recs = 1 .. 1 /\ g.recs[1] = rec
    BY <2>2, OneElement
  <2>5. 1 \in 1 .. 1 /\ \A i \in 1 .. 1 : i = 1
    OBVIOUS
  <2>6. Holds(o, place, res, rec)
    BY <2>1, <2>2, <2>3, <2>4, <2>5 DEF Holds, Has
  <2>7. \A h \in DOMAIN o : IsSequence(o[h].recs)
    BY <2>3, <2>4, <2>5
  <2>8. Fate(o, place) = <<<<res, rec>>>>
    BY <2>3, <2>6, <2>7, FateOfRecord
  <2>9. QED
    BY <1>1, <1>3, <2>8, FateOfRecord
<1>4. QED
  BY <1>2, <1>3 DEF Alike

------------------------------------------------------------------------------
(* A record in its batch and alone, all along a pipeline *)

\* What a batch may become in one stage more.
StageMore(cfg, batches) == UNION {Consumed(cfg, b) : b \in batches}

\* after[n] is what the batch may be when n stages have consumed it.
StageByStage(pipeline, groups, after) ==
    /\ Through(pipeline, groups) = after[Len(pipeline)]
    /\ after[0] = {groups}
    /\ \A n \in 1 .. Len(pipeline) : after[n] = StageMore(pipeline[n], after[n - 1])

\* Through takes a batch stage by stage.
LEMMA ThroughSteps ==
    ASSUME NEW pipeline, IsSequence(pipeline), NEW groups
    PROVE  \E after : StageByStage(pipeline, groups, after)
<1> DEFINE N           == Len(pipeline)
           Start       == {groups}
           More(X, n)  == StageMore(pipeline[n], X)
           Done(f, m)  == f = [n \in 0 .. m |-> IF n = 0 THEN Start ELSE More(f[n - 1], n)]
<1>1. N \in Nat
  BY SequenceForm
<1>2. Through(pipeline, groups) = (CHOOSE f : Done(f, N))[N]
  BY DEF Through, StageMore
<1>3. \E f : Done(f, N)
  <2> HIDE DEF N, Start, More
  <2> DEFINE Lacking == {m \in Nat : ~ \E f : Done(f, m)}
  <2>1. \E f : Done(f, 0)
    <3>1. Done([n \in 0 .. 0 |-> Start], 0)
      OBVIOUS
    <3>2. QED
      BY <3>1
  <2>2. ASSUME NEW m \in Nat, NEW f, Done(f, m)
        PROVE  \E h : Done(h, m + 1)
    <3> DEFINE h == [n \in 0 .. m + 1 |-> IF n = m + 1 THEN More(f[m], m + 1) ELSE f[n]]
    <3>1. \A n \in 0 .. m + 1 : h[n] = IF n = 0 THEN Start ELSE More(h[n - 1], n)
      BY <2>2
    <3>2. Done(h, m + 1)
      BY <3>1
    <3>3. QED
      BY <3>2
  <2>3. ASSUME Lacking # {} PROVE FALSE
    <3>1. Lacking \subseteq Nat
      OBVIOUS
    <3>2. PICK m \in Lacking : \A k \in Lacking : m <= k
      <4> HIDE DEF Lacking
      <4>1. QED
        BY <2>3, <3>1, LeastExists
    <3>3. m \in Nat /\ m # 0
      BY <2>1, <3>2
    <3>4. m - 1 \in Nat /\ m - 1 \notin Lacking
      <4>1. m - 1 \in Nat /\ ~(m <= m - 1)
        BY <3>3
      <4> HIDE DEF Lacking
      <4>2. QED
        BY <3>2, <4>1
    <3>5. PICK f : Done(f, m - 1)
      BY <3>4
    <3>6. \E h : Done(h, (m - 1) + 1)
      <4> HIDE DEF Done
      <4>1. QED
        BY <2>2, <3>4, <3>5
    <3>7. (m - 1) + 1 = m
      BY <3>3
    <3>8. QED
      BY <3>2, <3>6, <3>7
  <2>4. QED
    BY <1>1, <2>3
<1>4. PICK after : after = (CHOOSE f : Done(f, N)) /\ Done(after, N)
  BY <1>3
<1>5. /\ after[0] = Start
      /\ \A n \in 1 .. N : after[n] = More(after[n - 1], n)
  <2> HIDE DEF N, Start, More
  <2>1. after = [n \in 0 .. N |-> IF n = 0 THEN Start ELSE More(after[n - 1], n)]
    BY <1>4
  <2>2. \A n \in 0 .. N : after[n] = IF n = 0 THEN Start ELSE More(after[n - 1], n)
    BY <2>1
  <2>3. QED
    BY <1>1, <2>2
<1>6. Through(pipeline, groups) = after[N]
  BY <1>2, <1>4
<1> HIDE DEF Done
<1>7. StageByStage(pipeline, groups, after)
  BY <1>5, <1>6 DEF StageByStage
<1>8. QED
  BY <1>7

\* c is what the batch first may be after each of the first k stages.
Chain(c, pipeline, first, k) ==
    c[0] = first /\ \A n \in 1 .. k : c[n] \in Consumed(pipeline[n], c[n - 1])

\* The batch first may be o after k stages.
Becomes(pipeline, first, k, o) == \E c : Chain(c, pipeline, first, k) /\ c[k] = o

\* Before the first stage a batch is what it is.
LEMMA BecomesFirst ==
    ASSUME NEW pipeline, NEW first
    PROVE  Becomes(pipeline, first, 0, first)
<1>1. Chain([n \in 0 .. 0 |-> first], pipeline, first, 0)
  BY DEF Chain
<1>2. [n \in 0 .. 0 |-> first][0] = first
  OBVIOUS
<1>3. QED
  BY <1>1, <1>2 DEF Becomes

\* One stage more.
LEMMA BecomesNext ==
    ASSUME NEW pipeline, NEW first, NEW k \in Nat, NEW o, Becomes(pipeline, first, k, o),
           NEW p \in Consumed(pipeline[k + 1], o)
    PROVE  Becomes(pipeline, first, k + 1, p)
<1>1. PICK c : Chain(c, pipeline, first, k) /\ c[k] = o
  BY DEF Becomes
<1> DEFINE d == [n \in 0 .. k + 1 |-> IF n = k + 1 THEN p ELSE c[n]]
<1>2. d[0] = first /\ d[k + 1] = p
  BY <1>1 DEF Chain
<1>3. ASSUME NEW n \in 1 .. k + 1 PROVE d[n] \in Consumed(pipeline[n], d[n - 1])
  <2>1. CASE n = k + 1
    <3>1. d[n] = p /\ d[n - 1] = c[k] /\ pipeline[n] = pipeline[k + 1]
      BY <2>1
    <3> HIDE DEF d
    <3>2. QED
      BY <1>1, <3>1
  <2>2. CASE n # k + 1
    <3>1. n \in 1 .. k /\ d[n] = c[n] /\ d[n - 1] = c[n - 1]
      BY <2>2
    <3> HIDE DEF d
    <3>2. QED
      BY <1>1, <3>1 DEF Chain
  <2>3. QED
    BY <2>1, <2>2
<1> HIDE DEF d
<1>4. QED
  BY <1>2, <1>3 DEF Becomes, Chain

\* A batch that is empty after some stages may be empty at the end.
LEMMA BecomesNothing ==
    ASSUME NEW pipeline, NEW first, NEW k \in Nat, NEW m \in Nat, k <= m,
           Becomes(pipeline, first, k, <<>>)
    PROVE  Becomes(pipeline, first, m, <<>>)
<1>1. PICK c : Chain(c, pipeline, first, k) /\ c[k] = <<>>
  BY DEF Becomes
<1> DEFINE d == [n \in 0 .. m |-> IF n <= k THEN c[n] ELSE <<>>]
<1>2. d[0] = first /\ d[m] = <<>>
  <2>1. d[0] = first
    BY <1>1 DEF Chain
  <2>2. d[m] = <<>>
    BY <1>1
  <2>3. QED
    BY <2>1, <2>2
<1>3. ASSUME NEW n \in 1 .. m PROVE d[n] \in Consumed(pipeline[n], d[n - 1])
  <2>1. CASE n <= k
    <3>1. n \in 1 .. k /\ d[n] = c[n] /\ d[n - 1] = c[n - 1]
      BY <2>1
    <3> HIDE DEF d
    <3>2. QED
      BY <1>1, <3>1 DEF Chain
  <2>2. CASE ~(n <= k)
    <3>1. d[n] = <<>> /\ d[n - 1] = <<>>
      <4>1. n - 1 \in 0 .. m /\ (n - 1 <= k => n - 1 = k)
        BY <2>2
      <4>2. QED
        BY <1>1, <2>2, <4>1
    <3> HIDE DEF d
    <3>2. QED
      BY <3>1, ConsumedNothing
  <2>3. QED
    BY <2>1, <2>2
<1> HIDE DEF d
<1>4. QED
  BY <1>2, <1>3 DEF Becomes, Chain

\* What a batch may be after the last stage may become of it.
LEMMA BecomesThrough ==
    ASSUME NEW pipeline, IsSequence(pipeline), NEW first, NEW o,
           Becomes(pipeline, first, Len(pipeline), o)
    PROVE  o \in Through(pipeline, first)
<1>1. PICK c : Chain(c, pipeline, first, Len(pipeline)) /\ c[Len(pipeline)] = o
  BY DEF Becomes
<1>2. PICK after : StageByStage(pipeline, first, after)
  BY ThroughSteps
<1>3. Len(pipeline) \in Nat
  BY SequenceForm
<1> DEFINE Wrong == {n \in 0 .. Len(pipeline) : c[n] \notin after[n]}
<1>4. ASSUME Wrong # {} PROVE FALSE
  <2>1. Wrong \subseteq Nat
    BY <1>3
  <2>2. PICK n \in Wrong : \A k \in Wrong : n <= k
    <3> HIDE DEF Wrong
    <3>1. QED
      BY <1>4, <2>1, LeastExists
  <2>3. n # 0
    BY <1>1, <1>2, <2>2 DEF Chain, StageByStage
  <2>4. n \in 1 .. Len(pipeline) /\ n - 1 \in 0 .. Len(pipeline) /\ ~(n <= n - 1)
    BY <1>3, <2>2, <2>3
  <2>5. c[n - 1] \in after[n - 1]
    BY <2>2, <2>4
  <2>6. c[n] \in Consumed(pipeline[n], c[n - 1])
    BY <1>1, <2>4 DEF Chain
  <2>7. c[n] \in StageMore(pipeline[n], after[n - 1])
    BY <2>5, <2>6 DEF StageMore
  <2>8. c[n] \in after[n]
    BY <1>2, <2>4, <2>7 DEF StageByStage
  <2>9. QED
    BY <2>2, <2>8
<1>5. o \in after[Len(pipeline)]
  BY <1>1, <1>3, <1>4
<1>6. QED
  BY <1>2, <1>5 DEF StageByStage

------------------------------------------------------------------------------
(* Every record fares as it would alone *)

\* The record that came at a place, in a batch of its own.
Alone(place) == <<[came[place[1]] EXCEPT !.recs = <<@[place[2]]>>]>>

\* It shares a resource that a processor of the pipeline writes.
Shares(place) ==
    Len(came[place[1]].recs) > 1 /\ \E k \in DOMAIN stages : WritesResource(stages[k])

\* The stages the batch has passed.
PassedStages == Len(stages) - Len(left)

\* The stages that are left are the last ones of the pipeline.
LastStagesLeft ==
    /\ IsPipeline(stages) /\ PassedStages >= 0
    /\ \A i \in 1 .. Len(left) : left[i] = stages[PassedStages + i]

\* What the batch has of a record so far, it may have of it when it is alone.
AlikeSoFar ==
    \A place \in Places(came) :
        \/ Shares(place)
        \/ \E o : Becomes(stages, Alone(place), PassedStages, o) /\ Alike(batch, o, place)

\* The invariant.
AlikeWhatCame ==
    /\ phase = "passing" => LastStagesLeft /\ AlikeSoFar
    /\ EachAsIfAlone

\* A place of a batch, taken apart.
LEMMA PlaceParts ==
    ASSUME NEW groups, NEW place \in Places(groups)
    PROVE  /\ place[1] \in DOMAIN groups /\ place[2] \in DOMAIN groups[place[1]].recs
           /\ place = <<place[1], place[2]>>
<1>1. PICK g \in DOMAIN groups : place \in {<<g, i>> : i \in DOMAIN groups[g].recs}
  BY DEF Places
<1>2. PICK i \in DOMAIN groups[g].recs : place = <<g, i>>
  BY <1>1
<1>3. place[1] = g /\ place[2] = i
  BY <1>2
<1>4. QED
  BY <1>2, <1>3

\* A record that came alone in its group stays alone in it.
LEMMA LoneStaysLone ==
    ASSUME LeftOfWhatCame, NEW place \in Places(came), ~(Len(came[place[1]].recs) > 1)
    PROVE  AloneInGroup(batch, place)
<1>1. SUFFICES ASSUME NEW h \in DOMAIN batch, NEW j \in DOMAIN batch[h].recs,
                      batch[h].recs[j].id = place
               PROVE  Len(batch[h].recs) = 1
  BY DEF AloneInGroup, Hasnt
<1>2. place[1] \in DOMAIN came /\ place = <<place[1], place[2]>>
  BY PlaceParts
<1>3. PICK g \in DOMAIN came : LeftOf(batch[h].recs, came[g].recs)
  BY DEF LeftOfWhatCame, GroupsOf, Range
<1>4. PICK at : /\ Rising(batch[h].recs, came[g].recs, at)
                /\ \A i \in DOMAIN batch[h].recs : Same(batch[h].recs[i], came[g].recs[at[i]])
  BY <1>3 DEF LeftOf
<1>5. batch[h].recs[j].id = <<g, at[j]>>
  BY <1>3, <1>4 DEF LeftOfWhatCame, InPlace, Rising, Same
<1>6. g = place[1]
  BY <1>1, <1>2, <1>5
<1>7. PICK n \in Nat : DOMAIN came[g].recs = 1 .. n /\ Len(came[g].recs) = n
  BY <1>3, SequenceForm DEF LeftOfWhatCame, InPlace
<1>8. PICK m \in Nat : DOMAIN batch[h].recs = 1 .. m /\ Len(batch[h].recs) = m
  BY <1>3, SequenceForm DEF LeftOf
<1>9. \A i \in 1 .. m : at[i] = 1
  <2>1. n <= 1
    BY <1>6, <1>7
  <2>2. \A i \in 1 .. m : at[i] \in 1 .. n
    BY <1>4, <1>7, <1>8 DEF Rising
  <2>3. QED
    BY <2>1, <2>2
<1>10. \A i, k \in 1 .. m : ~(i < k)
  BY <1>4, <1>8, <1>9 DEF Rising
<1>11. m = 1
  <2>1. m >= 1
    BY <1>8
  <2>2. m > 1 => FALSE
    <3>1. m > 1 => 1 \in 1 .. m /\ 2 \in 1 .. m /\ 1 < 2
      OBVIOUS
    <3>2. QED
      BY <1>10, <3>1
  <2>3. QED
    BY <2>1, <2>2
<1>12. QED
  BY <1>8, <1>11

\* A batch that arrives has its records as they are alone.
LEMMA ArrivesAlike ==
    ASSUME NEW pipeline, IsPipeline(pipeline),
           NEW groups, IsSequence(groups), \A g \in DOMAIN groups : IsSequence(groups[g].recs),
           Arrives(pipeline, groups)
    PROVE  AlikeWhatCame'
<1>1. /\ stages' = pipeline /\ left' = pipeline
      /\ came' = Placed(groups) /\ batch' = Placed(groups)
      /\ phase' = "passing"
  BY DEF Arrives
<1>2. Len(pipeline) \in Nat
  BY SequenceForm DEF IsPipeline
<1>3. PassedStages' = 0
  BY <1>1, <1>2 DEF PassedStages
<1>4. LastStagesLeft'
  <2>1. \A i \in 1 .. Len(pipeline) : 0 + i = i
    BY <1>2
  <2>2. QED
    BY <1>1, <1>3, <2>1 DEF LastStagesLeft
<1>5. InPlace(Placed(groups))
  BY PlacedInPlace
<1>6. ASSUME NEW place \in Places(Placed(groups))
      PROVE  \E o : Becomes(stages', Alone(place)', 0, o) /\ Alike(batch', o, place)
  <2> DEFINE placed == Placed(groups)
             g      == place[1]
             rec    == placed[g].recs[place[2]]
  <2>1. g \in DOMAIN placed /\ place[2] \in DOMAIN placed[g].recs /\ place = <<g, place[2]>>
    BY PlaceParts
  <2>2. placed[g] = [res |-> placed[g].res, recs |-> placed[g].recs]
    BY <2>1 DEF Placed
  <2>3. Alone(place)' = <<[placed[g] EXCEPT !.recs = <<rec>>]>>
    BY <1>1 DEF Alone
  <2> HIDE DEF placed
  <2>4. Single(Alone(place)', placed[g].res, rec)
    <3>1. [placed[g] EXCEPT !.recs = <<rec>>].res = placed[g].res
      BY <2>2
    <3>2. [placed[g] EXCEPT !.recs = <<rec>>].recs = <<rec>>
      BY <2>2
    <3>3. QED
      BY <2>3, <3>1, <3>2 DEF Single
  <2>5. /\ rec.id = place
        /\ \A i \in DOMAIN placed[g].recs : placed[g].recs[i].id = <<g, i>>
    BY <1>5, <2>1 DEF InPlace, placed
  <2>6. Has(placed[g].recs, place, rec)
    <3>1. \A i \in DOMAIN placed[g].recs : placed[g].recs[i].id = place => i = place[2]
      BY <2>1, <2>5
    <3>2. QED
      BY <2>1, <2>5, <3>1 DEF Has
  <2>7. \A h \in DOMAIN placed : h # g => Hasnt(placed[h].recs, place)
    <3>1. SUFFICES ASSUME NEW h \in DOMAIN placed, h # g, NEW i \in DOMAIN placed[h].recs
                   PROVE  placed[h].recs[i].id # place
      BY DEF Hasnt
    <3>2. placed[h].recs[i].id = <<h, i>>
      BY <1>5, <3>1 DEF InPlace, placed
    <3>3. QED
      BY <2>1, <3>1, <3>2
  <2>8. Holds(placed, place, placed[g].res, rec)
    BY <2>1, <2>6, <2>7 DEF Holds
  <2>9. Becomes(stages', Alone(place)', 0, Alone(place)')
    BY BecomesFirst
  <2>10. QED
    BY <1>1, <2>4, <2>8, <2>9 DEF Alike, placed
<1>7. AlikeSoFar'
  BY <1>1, <1>3, <1>6 DEF AlikeSoFar
<1>8. EachAsIfAlone'
  BY <1>1 DEF EachAsIfAlone
<1>9. QED
  BY <1>4, <1>7, <1>8 DEF AlikeWhatCame

\* What reaches the end of the pipeline fared as it would alone.
LEMMA AlikeAtTheEnd ==
    ASSUME IsPipeline(stages), GroupsHaveIds(batch), phase' = "delivered",
           UNCHANGED <<stages, came, batch>>,
           \A place \in Places(came) :
               \/ Shares(place)
               \/ \E o : Becomes(stages, Alone(place), Len(stages), o) /\ Alike(batch, o, place)
    PROVE  EachAsIfAlone'
<1>1. ASSUME NEW place \in Places(came)
      PROVE  \/ Shares(place)
             \/ \E other \in Through(stages, Alone(place)) : Fate(batch, place) = Fate(other, place)
  <2>1. CASE Shares(place)
    BY <2>1
  <2>2. ASSUME NEW o, Becomes(stages, Alone(place), Len(stages), o), Alike(batch, o, place)
        PROVE  \E other \in Through(stages, Alone(place)) : Fate(batch, place) = Fate(other, place)
    <3>1. o \in Through(stages, Alone(place))
      BY <2>2, BecomesThrough DEF IsPipeline
    <3>2. Fate(batch, place) = Fate(o, place)
      BY <2>2, AlikeFate
    <3>3. QED
      BY <3>1, <3>2
  <2>3. QED
    BY <2>1, <2>2
<1>2. QED
  BY <1>1 DEF EachAsIfAlone, Shares, Alone

\* The invariant holds at first.
LEMMA AlikeInit == Init => AlikeWhatCame
BY DEF Init, AlikeWhatCame, EachAsIfAlone

\* A stage more keeps the batch's record as it may be alone.
LEMMA ProcessAlike ==
    ASSUME LeftOfWhatCame, LastStagesLeft, AlikeSoFar, Process
    PROVE  LastStagesLeft' /\ AlikeSoFar'
<1> DEFINE k == PassedStages
<1>1. /\ left # <<>> /\ batch' \in Consumed(Head(left), batch) /\ left' = Tail(left)
      /\ stages' = stages /\ came' = came
  BY DEF Process
<1>2. PICK S : left \in Seq(S)
  BY DEF LeftOfWhatCame, IsPipeline, IsSequence
<1>3. /\ Len(left) \in Nat /\ Len(left) >= 1 /\ Len(stages) \in Nat
      /\ Head(left) = left[1] /\ Len(left') = Len(left) - 1
      /\ \A i \in 1 .. Len(left) - 1 : left'[i] = left[i + 1]
  <2>1. Len(stages) \in Nat
    BY SequenceForm DEF LastStagesLeft, IsPipeline
  <2>2. QED
    BY <1>1, <1>2, <2>1
<1>4. k \in Nat /\ PassedStages' = k + 1
  BY <1>1, <1>3 DEF PassedStages, LastStagesLeft
<1>5. Head(left) = stages[k + 1] /\ k + 1 \in DOMAIN stages
  <2>1. Head(left) = stages[k + 1]
    BY <1>3 DEF LastStagesLeft
  <2>2. DOMAIN stages = 1 .. Len(stages)
    BY SequenceForm DEF LastStagesLeft, IsPipeline
  <2>3. k + 1 \in 1 .. Len(stages)
    BY <1>3, <1>4 DEF PassedStages
  <2>4. QED
    BY <2>1, <2>2, <2>3
<1>6. stages[k + 1].proc \in Processors
  BY <1>5 DEF LastStagesLeft, IsPipeline
<1> HIDE DEF k
<1>7. LastStagesLeft'
  <2>1. \A i \in 1 .. Len(left) : left[i] = stages[k + i]
    BY DEF LastStagesLeft, k
  <2>2. ASSUME NEW i \in 1 .. Len(left) - 1
        PROVE  left'[i] = stages[(k + 1) + i]
    <3>1. i + 1 \in 1 .. Len(left) /\ k + (i + 1) = (k + 1) + i
      BY <1>3, <1>4
    <3>2. left'[i] = stages[k + (i + 1)]
      BY <1>3, <2>1, <3>1
    <3>3. QED
      BY <3>1, <3>2
  <2>3. IsPipeline(stages)' /\ PassedStages' >= 0
    BY <1>1, <1>4 DEF LastStagesLeft
  <2>4. \A i \in 1 .. Len(left') : left'[i] = stages'[PassedStages' + i]
    BY <1>1, <1>3, <1>4, <2>2
  <2>5. QED
    BY <2>3, <2>4 DEF LastStagesLeft
<1>8. GroupsHaveIds(batch)
  BY GroupsOfHaveIds DEF LeftOfWhatCame
<1>9. ASSUME NEW place \in Places(came)
      PROVE  \/ Shares(place)
             \/ \E p : Becomes(stages, Alone(place), k + 1, p) /\ Alike(batch', p, place)
  <2>1. CASE Shares(place)
    BY <2>1
  <2>2. ASSUME ~Shares(place), NEW o,
               Becomes(stages, Alone(place), k, o), Alike(batch, o, place)
        PROVE  \E p : Becomes(stages, Alone(place), k + 1, p) /\ Alike(batch', p, place)
    <3>1. ~WritesResource(stages[k + 1]) \/ AloneInGroup(batch, place)
      BY <1>5, <2>2, LoneStaysLone DEF Shares
    <3>2. batch' \in Consumed(stages[k + 1], batch)
      BY <1>1, <1>5
    <3>3. PICK p \in Consumed(stages[k + 1], o) : Alike(batch', p, place)
      BY <1>6, <1>8, <2>2, <3>1, <3>2, ConsumedAlike
    <3>4. Becomes(stages, Alone(place), k + 1, p)
      BY <1>4, <2>2, <3>3, BecomesNext
    <3>5. QED
      BY <3>3, <3>4
  <2>3. QED
    BY <2>1, <2>2 DEF AlikeSoFar, k
<1>10. AlikeSoFar'
  BY <1>1, <1>4, <1>9 DEF AlikeSoFar, Shares, Alone
<1>11. QED
  BY <1>7, <1>10

\* Every step preserves the invariant.
LEMMA AlikeNext ==
    ASSUME LeftOfWhatCame, AlikeWhatCame, [Next]_vars
    PROVE  AlikeWhatCame'
<1>1. CASE Receive
  <2>1. PICK route \in Routes : \E groups \in route.batches : Arrives(route.stages, groups)
    BY <1>1 DEF Receive
  <2>2. PICK groups \in route.batches : Arrives(route.stages, groups)
    BY <2>1
  <2>3. IsPipeline(route.stages) /\ IsSequence(groups)
    BY RoutesAssumption
  <2>4. \A g \in DOMAIN groups : IsSequence(groups[g].recs)
    BY RoutesAssumption
  <2>5. QED
    BY <2>2, <2>3, <2>4, ArrivesAlike
<1>2. CASE ReceiveEvents
  <2> DEFINE groups(poll) == FlattenSeq([i \in DOMAIN poll |-> SetToSeq(Auth0Logs(poll[i]))])
  <2>1. PICK feed, poll : /\ feed \in Feeds /\ poll \in feed.polls
                          /\ Arrives(feed.stages, groups(poll))
    BY <1>2, Zenon DEF ReceiveEvents
  <2>2. IsPipeline(feed.stages) /\ IsSequence(poll)
    BY <2>1, RoutesAssumption
  <2>3. /\ IsSequence(groups(poll))
        /\ \A g \in DOMAIN groups(poll) : IsSequence(groups(poll)[g].recs)
    BY <2>2, EventGroups
  <2> HIDE DEF groups
  <2>4. QED
    BY <2>1, <2>2, <2>3, ArrivesAlike
<1>3. CASE Process
  <2>1. phase = "passing" /\ phase' = "passing"
    BY <1>3 DEF Process
  <2>2. LastStagesLeft' /\ AlikeSoFar'
    BY <1>3, <2>1, ProcessAlike DEF AlikeWhatCame
  <2>3. QED
    BY <2>1, <2>2 DEF AlikeWhatCame, EachAsIfAlone
<1>4. ASSUME phase = "passing"
      PROVE  /\ IsPipeline(stages) /\ GroupsHaveIds(batch)
             /\ Len(stages) \in Nat /\ Len(left) \in Nat /\ PassedStages \in Nat
             /\ PassedStages <= Len(stages)
  <2>1. LastStagesLeft
    BY <1>4 DEF AlikeWhatCame
  <2>2. IsPipeline(stages) /\ GroupsHaveIds(batch)
    BY <2>1, GroupsOfHaveIds DEF LastStagesLeft, LeftOfWhatCame
  <2>3. Len(stages) \in Nat /\ Len(left) \in Nat
    BY <2>2, SequenceForm DEF IsPipeline, LeftOfWhatCame
  <2>4. QED
    BY <2>1, <2>2, <2>3 DEF LastStagesLeft, PassedStages
<1>5. CASE Deliver
  <2>1. phase = "passing" /\ left = <<>> /\ phase' = "delivered" /\ UNCHANGED <<stages, came, batch>>
    BY <1>5 DEF Deliver
  <2>2. PassedStages = Len(stages)
    BY <1>4, <2>1 DEF PassedStages
  <2>3. AlikeSoFar
    BY <2>1 DEF AlikeWhatCame
  <2>4. EachAsIfAlone'
    BY <1>4, <2>1, <2>2, <2>3, AlikeAtTheEnd DEF AlikeSoFar
  <2>5. QED
    BY <2>1, <2>4 DEF AlikeWhatCame
<1>6. CASE GiveUp
  <2>1. phase = "passing" /\ batch = <<>> /\ phase' = "delivered" /\ UNCHANGED <<stages, came, batch>>
    BY <1>6 DEF GiveUp
  <2>2. ASSUME NEW place \in Places(came), ~Shares(place)
        PROVE  \E o : Becomes(stages, Alone(place), Len(stages), o) /\ Alike(batch, o, place)
    <3>1. PICK o : Becomes(stages, Alone(place), PassedStages, o) /\ Alike(batch, o, place)
      BY <2>1, <2>2 DEF AlikeWhatCame, AlikeSoFar
    <3>2. ~ \E res, rec : Holds(batch, place, res, rec)
      BY <2>1 DEF Holds
    <3>3. o = <<>>
      BY <3>1, <3>2 DEF Alike
    <3>4. Becomes(stages, Alone(place), Len(stages), <<>>)
      BY <1>4, <2>1, <3>1, <3>3, BecomesNothing
    <3>5. QED
      BY <3>1, <3>3, <3>4
  <2>3. EachAsIfAlone'
    BY <1>4, <2>1, <2>2, AlikeAtTheEnd
  <2>4. QED
    BY <2>1, <2>3 DEF AlikeWhatCame
<1>7. CASE Return
  BY <1>7 DEF Return, AlikeWhatCame, EachAsIfAlone
<1>8. CASE UNCHANGED vars
  BY <1>8 DEF vars, AlikeWhatCame, LastStagesLeft, AlikeSoFar, PassedStages, Alone, Shares,
              EachAsIfAlone
<1>9. QED
  BY <1>1, <1>2, <1>3, <1>5, <1>6, <1>7, <1>8 DEF Next

\* A record fares in its batch as it would alone, whatever the processors of the
\* pipeline are, how they are configured and what else is in the batch: it is neither
\* lost nor doubled, and takes nothing from another record.  Where a processor writes
\* the resource this is said of records that came in a group of their own.
THEOREM EachFaresAsAlone == Spec => []EachAsIfAlone
<1>1. Spec => [](LeftOfWhatCame /\ AlikeWhatCame)
  <2>1. LeftOfWhatCame /\ AlikeWhatCame /\ [Next]_vars => (LeftOfWhatCame /\ AlikeWhatCame)'
    BY LeftNext, AlikeNext
  <2>2. Init => LeftOfWhatCame /\ AlikeWhatCame
    BY LeftInit, AlikeInit
  <2>3. QED
    BY <2>1, <2>2, PTL DEF Spec
<1>2. AlikeWhatCame => EachAsIfAlone
  BY DEF AlikeWhatCame
<1>3. QED
  BY <1>1, <1>2, PTL
==============================================================================
