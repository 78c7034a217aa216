----------------------------- MODULE DropSummary -----------------------------
(***************************************************************************)
(* The winlog processor with its drop summary on.  ConsumeLogs drops the   *)
(* records a rule matches, counts them in the open window and forwards the *)
(* rest; a goroutine looks at each tick whether the window is old enough   *)
(* to be sent; Shutdown ends it and sends what is left.                    *)
(*                                                                         *)
(* A record keeps what rules and summary read.  Its event data is a        *)
(* function from names to values in both of the receiver's layouts; names  *)
(* and values that compare equal are equal here (upper and lower case,     *)
(* suffixes); values are numbered in their text order.  The clock counts   *)
(* the ticks of the goroutine.                                             *)
(* src/processor/winlogprocessor/                                          *)
(***************************************************************************)
EXTENDS Integers, Sequences, FiniteSets, FiniteSetsExt, Functions, Bags

BE == INSTANCE BagsExt

CONSTANTS
    Callers,        \* goroutines that call ConsumeLogs
    Batches,        \* the batches they may bring, sequences of records
    Rules,          \* the compiled drop rules, in order
    Missing,        \* missingValue
    Other,          \* otherValue
    MaxTracked,     \* summaryMaxTracked
    TopValues,      \* summaryTopValues
    Interval,       \* summaryInterval, in ticks
    MaxRecords,     \* bound: records received in a behaviour
    MaxTime         \* bound: the clock stops here

Records == UNION {{batch[i] : i \in DOMAIN batch} : batch \in Batches}

\* A rule as compileRules makes it: every set lists alternatives, and an empty one
\* matches anything, but a rule sets at least one.  Its name is its index.
ValidRule(rule) ==
    /\ rule \in [channels : SUBSET STRING, ids : SUBSET (Nat \X Nat),
                 providers : SUBSET STRING, levels : SUBSET (0 .. 5),
                 fields : SUBSET [name : STRING, values : SUBSET Nat],
                 tallyBy : SUBSET STRING]
    /\ \/ rule.channels # {} \/ rule.ids # {} \/ rule.levels # {}
       \/ rule.providers # {} \/ rule.fields # {}
    /\ \A range \in rule.ids : range[1] <= range[2]
    /\ \A cond \in rule.fields : cond.values # {}

ASSUME RulesAssumption ==
    /\ Rules \in Seq({Rules[i] : i \in DOMAIN Rules})
    /\ \A i \in DOMAIN Rules : ValidRule(Rules[i])

ASSUME BoundsAssumption ==
    /\ IsFiniteSet(Callers)
    /\ \A batch \in Batches : batch \in Seq(Records)
    /\ {MaxTracked, TopValues, Interval} \subseteq Nat \ {0}
    /\ {Missing, Other, MaxRecords, MaxTime} \subseteq Nat

VARIABLES
    now,        \* s.now(), which also drives the ticker
    tick,       \* the ticker has a tick waiting
    loop,       \* where summaryLoop is
    service,    \* where the service's call of Shutdown is
    pc,         \* pc[c]: where a caller is
    todo,       \* todo[c]: the records its call has still to handle
    kept,       \* kept[c]: its batch has records left to forward
    tally,      \* tally[c]: the counts of its call
    window,     \* s.rules: the tallies of the rules; none stands for nil
    start,      \* s.start
    read,       \* otelcol_winlog_events_read
    dropped,    \* otelcol_winlog_events_dropped
    received,   \* history: records received
    drops,      \* history: the drops in the order they were counted
    summaries   \* history: the summaries taken, and what became of them

calls   == <<pc, todo, kept, tally>>
metrics == <<read, dropped>>
vars    == <<now, tick, loop, service, calls, window, start, metrics,
             received, drops, summaries>>

------------------------------------------------------------------------------
(* Rules. *)

EventLevel(rec) == IF rec.xmlLevel >= 0 THEN rec.xmlLevel ELSE rec.rendered

Matches(rule, rec) ==
    /\ rule.channels = {} \/ rec.channel \in rule.channels
    /\ rule.ids = {} \/ \E range \in rule.ids : rec.id \in range[1] .. range[2]
    /\ rule.providers = {} \/ rec.provider \in rule.providers
    /\ rule.levels = {} \/ EventLevel(rec) \in rule.levels
    /\ \A cond \in rule.fields :
         cond.name \in DOMAIN rec.data /\ rec.data[cond.name] \in cond.values

\* The rules that match; the first one gets the drop.
Matching(rec) == {i \in DOMAIN Rules : Matches(Rules[i], rec)}

FirstMatch(rec) == Min(Matching(rec))

------------------------------------------------------------------------------
(* Tallies. *)

NoTally  == [counts |-> EmptyBag, other |-> 0]
NoCounts == [reads |-> EmptyBag, drops |-> EmptyBag]

\* Mutant: the limit is compared after one more value was taken in.
AddValueLate(v, value) ==
    IF value \in DOMAIN v.counts \/ Cardinality(DOMAIN v.counts) <= MaxTracked
    THEN [v EXCEPT !.counts = BE!BagAdd(@, value)]
    ELSE [v EXCEPT !.other = @ + 1]

\* Mutant: at the limit, values already held count as other too.
AddValueFull(v, value) ==
    IF Cardinality(DOMAIN v.counts) < MaxTracked
    THEN [v EXCEPT !.counts = BE!BagAdd(@, value)]
    ELSE [v EXCEPT !.other = @ + 1]

\* valueTally.add
AddValue(v, value) ==
    IF value \in DOMAIN v.counts \/ Cardinality(DOMAIN v.counts) < MaxTracked
    THEN [v EXCEPT !.counts = BE!BagAdd(@, value)]
    ELSE [v EXCEPT !.other = @ + 1]

\* The value of a tally_by field of rec.
ValueOf(rec, name) == IF name \in DOMAIN rec.data THEN rec.data[name] ELSE Missing

NewRuleTally(rule) ==
    [total |-> 0, ids |-> EmptyBag, fields |-> [name \in rule.tallyBy |-> NoTally]]

\* A rule's tally with one more drop.  All its fields exist from its first drop.  The
\* id is there although no rule may ask for it: with the summary enabled the factory
\* has every record's id read (factory.go, needsID).
Counted(t, rec) ==
    [total  |-> t.total + 1,
     ids    |-> IF rec.id >= 0 THEN BE!BagAdd(t.ids, rec.id) ELSE t.ids,
     fields |-> [name \in DOMAIN t.fields |->
                    AddValue(t.fields[name], ValueOf(rec, name))]]

\* The window with one more drop by rule i.
Added(i, rec) ==
    LET t == IF i \in DOMAIN window THEN window[i] ELSE NewRuleTally(Rules[i])
    IN  [j \in DOMAIN window \cup {i} |-> IF j = i THEN Counted(t, rec) ELSE window[j]]

\* valueTally.top: the most frequent values, then one count named other, which
\* takes the place of a value of that name.
Top(v) ==
    LET before(x, y) == \/ v.counts[x] > v.counts[y]
                        \/ v.counts[x] = v.counts[y] /\ x < y
        shown == {x \in DOMAIN v.counts :
                    Cardinality({y \in DOMAIN v.counts : before(y, x)}) < TopValues}
        rest  == v.other + SumFunctionOnSet(v.counts, DOMAIN v.counts \ shown)
    IN  [x \in shown \cup (IF rest > 0 THEN {Other} ELSE {}) |->
            IF rest > 0 /\ x = Other THEN rest ELSE v.counts[x]]

\* buildSummary.  last is the drop it ends with, fate what becomes of it.
Summary(end) ==
    [start |-> start,
     end   |-> end,
     total |-> SumFunction([i \in DOMAIN window |-> window[i].total]),
     rules |-> [i \in DOMAIN window |->
                  [total  |-> window[i].total,
                   ids    |-> window[i].ids,
                   fields |-> [name \in DOMAIN window[i].fields |->
                                 Top(window[i].fields[name])]]],
     last  |-> Len(drops),
     fate  |-> "sending"]

------------------------------------------------------------------------------
\* The processor as Start leaves it.
Init ==
    /\ now = 0
    /\ tick = FALSE
    /\ loop = "waiting"
    /\ service = "up"
    /\ pc = [c \in Callers |-> "idle"]
    /\ todo = [c \in Callers |-> <<>>]
    /\ kept = [c \in Callers |-> FALSE]
    /\ tally = [c \in Callers |-> NoCounts]
    /\ window = <<>>
    /\ start = 0
    /\ read = EmptyBag
    /\ dropped = EmptyBag
    /\ received = 0
    /\ drops = <<>>
    /\ summaries = <<>>

------------------------------------------------------------------------------
(* ConsumeLogs. *)

\* The service shuts the receivers down before the processors.
Enter(c) ==
    /\ service = "up"
    /\ pc[c] = "idle"
    /\ \E batch \in Batches :
         /\ received + Len(batch) <= MaxRecords
         /\ received' = received + Len(batch)
         /\ todo' = [todo EXCEPT ![c] = batch]
    /\ pc' = [pc EXCEPT ![c] = "handling"]
    /\ UNCHANGED <<now, tick, loop, service, kept, tally, window, start,
                   metrics, drops, summaries>>

\* The next record of c's batch.
Handles(c, rec) ==
    /\ pc[c] = "handling"
    /\ todo[c] # <<>>
    /\ rec = Head(todo[c])
    /\ todo' = [todo EXCEPT ![c] = Tail(@)]

\* A body that is not a map with a channel passes uncounted.
Pass(c) ==
    /\ \E rec \in Records : Handles(c, rec) /\ ~rec.isEvent
    /\ kept' = [kept EXCEPT ![c] = TRUE]
    /\ UNCHANGED <<now, tick, loop, service, pc, tally, window, start, metrics,
                   received, drops, summaries>>

\* No rule matches: the record is shaped and stays in the batch.
Keep(c) ==
    /\ \E rec \in Records :
         /\ Handles(c, rec)
         /\ rec.isEvent
         /\ Matching(rec) = {}
         /\ tally' = [tally EXCEPT ![c].reads = BE!BagAdd(@, rec.channel)]
    /\ kept' = [kept EXCEPT ![c] = TRUE]
    /\ UNCHANGED <<now, tick, loop, service, pc, window, start, metrics,
                   received, drops, summaries>>

\* Mutant: a window keeps the start of the first one.
DropKeepingStart(c) ==
    /\ \E rec \in Records :
         LET i == FirstMatch(rec)
         IN  /\ Handles(c, rec)
             /\ rec.isEvent
             /\ Matching(rec) # {}
             /\ tally' = [tally EXCEPT ![c].reads = BE!BagAdd(@, rec.channel),
                                       ![c].drops = BE!BagAdd(@, <<rec.channel, i>>)]
             /\ window' = Added(i, rec)
             /\ drops' = Append(drops, [rule |-> i, rec |-> rec, at |-> now])
    /\ start' = IF drops = <<>> THEN now ELSE start
    /\ UNCHANGED <<now, tick, loop, service, pc, kept, metrics, received, summaries>>

\* The first rule that matches drops the record; dropSummary.add counts it under
\* its lock, and opens the window if none is open.
Drop(c) ==
    /\ \E rec \in Records :
         LET i == FirstMatch(rec)
         IN  /\ Handles(c, rec)
             /\ rec.isEvent
             /\ Matching(rec) # {}
             /\ tally' = [tally EXCEPT ![c].reads = BE!BagAdd(@, rec.channel),
                                       ![c].drops = BE!BagAdd(@, <<rec.channel, i>>)]
             /\ window' = Added(i, rec)
             /\ drops' = Append(drops, [rule |-> i, rec |-> rec, at |-> now])
    /\ start' = IF window = <<>> THEN now ELSE start
    /\ UNCHANGED <<now, tick, loop, service, pc, kept, metrics, received, summaries>>

\* The call adds its counts to the counters and forwards the batch, if any of it
\* is left.
Flush(c) ==
    /\ pc[c] = "handling"
    /\ todo[c] = <<>>
    /\ read' = read (+) tally[c].reads
    /\ dropped' = dropped (+) tally[c].drops
    /\ tally' = [tally EXCEPT ![c] = NoCounts]
    /\ kept' = [kept EXCEPT ![c] = FALSE]
    /\ pc' = [pc EXCEPT ![c] = IF kept[c] THEN "sending" ELSE "idle"]
    /\ UNCHANGED <<now, tick, loop, service, todo, window, start, received,
                   drops, summaries>>

\* The next consumer answers, with or without an error.
Return(c) ==
    /\ pc[c] = "sending"
    /\ pc' = [pc EXCEPT ![c] = "idle"]
    /\ UNCHANGED <<now, tick, loop, service, todo, kept, tally, window, start,
                   metrics, received, drops, summaries>>

------------------------------------------------------------------------------
(* The summary. *)

\* Mutant: the window stays open after it was taken.
TakeKeepingWindow ==
    /\ summaries' = Append(summaries, Summary(now))
    /\ UNCHANGED <<window, start>>

\* dropSummary.take of an open window.
Take ==
    /\ summaries' = Append(summaries, Summary(now))
    /\ window' = <<>>
    /\ UNCHANGED start

\* The next consumer answers to the summary being sent; a refused one is gone.
Answered ==
    \E fate \in {"delivered", "refused"} :
        summaries' = [summaries EXCEPT ![Len(summaries)].fate = fate]

TakeTick ==
    /\ loop = "waiting"
    /\ tick
    /\ tick' = FALSE
    /\ loop' = "checking"
    /\ UNCHANGED <<now, service, calls, window, start, metrics, received, drops, summaries>>

Due == window # <<>> /\ now - start >= Interval

TakeDue ==
    /\ loop = "checking"
    /\ Due
    /\ Take
    /\ loop' = "sending"
    /\ UNCHANGED <<now, tick, service, calls, metrics, received, drops>>

NotDue ==
    /\ loop = "checking"
    /\ ~Due
    /\ loop' = "waiting"
    /\ UNCHANGED <<now, tick, service, calls, window, start, metrics, received,
                   drops, summaries>>

\* Mutant: the goroutine ends when a summary is refused.
SummarySentReturning ==
    /\ loop = "sending"
    /\ Answered
    /\ loop' = IF summaries'[Len(summaries)].fate = "refused" THEN "done" ELSE "waiting"
    /\ UNCHANGED <<now, tick, service, calls, window, start, metrics, received, drops>>

SummarySent ==
    /\ loop = "sending"
    /\ Answered
    /\ loop' = "waiting"
    /\ UNCHANGED <<now, tick, service, calls, window, start, metrics, received, drops>>

Exit ==
    /\ loop = "waiting"
    /\ service # "up"
    /\ loop' = "done"
    /\ UNCHANGED <<now, tick, service, calls, window, start, metrics, received,
                   drops, summaries>>

------------------------------------------------------------------------------
(* Shutdown. *)

\* close(p.stop); no call is under way, as the receivers are down.
Stop ==
    /\ service = "up"
    /\ \A c \in Callers : pc[c] = "idle"
    /\ service' = "stopping"
    /\ UNCHANGED <<now, tick, loop, calls, window, start, metrics, received,
                   drops, summaries>>

\* Once the goroutine has ended, an open window of any age is taken.
TakeLast ==
    /\ service = "stopping"
    /\ loop = "done"
    /\ window # <<>>
    /\ Take
    /\ service' = "sending"
    /\ UNCHANGED <<now, tick, loop, calls, metrics, received, drops>>

NothingLeft ==
    /\ service = "stopping"
    /\ loop = "done"
    /\ window = <<>>
    /\ service' = "down"
    /\ UNCHANGED <<now, tick, loop, calls, window, start, metrics, received,
                   drops, summaries>>

LastSent ==
    /\ service = "sending"
    /\ Answered
    /\ service' = "down"
    /\ UNCHANGED <<now, tick, loop, calls, window, start, metrics, received, drops>>

------------------------------------------------------------------------------
\* The ticker holds one tick; one that finds it full is dropped.
TimePasses ==
    /\ now < MaxTime
    /\ now' = now + 1
    /\ tick' = (loop # "done")
    /\ UNCHANGED <<loop, service, calls, window, start, metrics, received,
                   drops, summaries>>

Next ==
    \/ \E c \in Callers :
         Enter(c) \/ Pass(c) \/ Keep(c) \/ Drop(c) \/ Flush(c) \/ Return(c)
    \/ TakeTick \/ TakeDue \/ NotDue \/ SummarySent \/ Exit
    \/ Stop \/ TakeLast \/ NothingLeft \/ LastSent
    \/ TimePasses

\* The goroutine and a Shutdown that has begun run, and the next consumer answers
\* them.  Calls need not come or return, nor does Shutdown.
Fairness ==
    /\ WF_vars(TakeTick \/ TakeDue \/ NotDue \/ SummarySent \/ Exit)
    /\ WF_vars(TakeLast \/ NothingLeft \/ LastSent)

Spec == Init /\ [][Next]_vars /\ Fairness

------------------------------------------------------------------------------
(* Properties. *)

\* The drops that summary k, or for k past the last one the open window, covers.
Covered(k) ==
    LET first == IF k = 1 THEN 1 ELSE summaries[k - 1].last + 1
    IN  first .. IF k <= Len(summaries) THEN summaries[k].last ELSE Len(drops)

Open == Len(summaries) + 1

\* The drops among indices that rule i made.
DropsOf(indices, i) == {n \in indices : drops[n].rule = i}

DropsWith(indices, i, name, value) ==
    {n \in DropsOf(indices, i) : ValueOf(drops[n].rec, name) = value}

\* What a window or a summary says of rule i, and a bag of drops by channel and rule.
TotalOf(rules, i) == IF i \in DOMAIN rules THEN rules[i].total ELSE 0

CountOf(B, i) == SumFunctionOnSet(B, {x \in DOMAIN B : x[2] = i})

IsBag(B) == \A x \in DOMAIN B : B[x] \in Nat \ {0}

IsTally(v) ==
    /\ DOMAIN v = {"counts", "other"}
    /\ IsBag(v.counts)
    /\ IsFiniteSet(DOMAIN v.counts)
    /\ Cardinality(DOMAIN v.counts) <= MaxTracked
    /\ v.other \in Nat

IsRuleTally(t, rule) ==
    /\ t.total \in Nat
    /\ IsBag(t.ids)
    /\ DOMAIN t.fields = rule.tallyBy
    /\ \A name \in rule.tallyBy : IsTally(t.fields[name])

\* The state has its type; a tally holds at most summaryMaxTracked values.
TypeOK ==
    /\ now \in 0 .. MaxTime
    /\ tick \in BOOLEAN
    /\ loop \in {"waiting", "checking", "sending", "done"}
    /\ service \in {"up", "stopping", "sending", "down"}
    /\ pc \in [Callers -> {"idle", "handling", "sending"}]
    /\ todo \in [Callers -> Seq(Records)]
    /\ kept \in [Callers -> BOOLEAN]
    /\ DOMAIN tally = Callers
    /\ \A c \in Callers : /\ DOMAIN tally[c] = {"reads", "drops"}
                          /\ IsBag(tally[c].reads) /\ IsBag(tally[c].drops)
    /\ DOMAIN window \subseteq DOMAIN Rules
    /\ \A i \in DOMAIN window : IsRuleTally(window[i], Rules[i])
    /\ start \in 0 .. now
    /\ IsBag(read) /\ IsBag(dropped)
    /\ received \in 0 .. MaxRecords
    /\ drops \in Seq([rule : DOMAIN Rules, rec : Records, at : 0 .. now])
    /\ \A k \in DOMAIN summaries :
         /\ summaries[k].last \in DOMAIN drops
         /\ summaries[k].fate \in {"sending", "delivered", "refused"}

\* Every drop is counted in one summary, or in the open window: whatever calls,
\* ticks and Shutdown do between its steps, a rule's totals add up to the drops
\* the rule made, which its counter, with what calls have not added yet, says
\* too.  Shutdown leaves no drop unreported.
EveryDropReported ==
    /\ \A i \in DOMAIN Rules :
         LET made == Cardinality(DropsOf(DOMAIN drops, i))
         IN  /\ made = SumFunction([k \in DOMAIN summaries |-> TotalOf(summaries[k].rules, i)])
                       + TotalOf(window, i)
             /\ made = CountOf(dropped, i)
                       + SumFunction([c \in Callers |-> CountOf(tally[c].drops, i)])
    /\ service = "down" =>
         /\ window = <<>>
         /\ \A k \in DOMAIN summaries : summaries[k].fate # "sending"

\* The values shown for a field add up to the rule's total.
AddsUp(s) ==
    \A i \in DOMAIN s.rules : \A name \in DOMAIN s.rules[i].fields :
        SumFunction(s.rules[i].fields[name]) = s.rules[i].total

\* A summary is right about the drops it covers: totals and event ids are exact,
\* and so is the count of every value it shows, even though values beyond the
\* limits are merged; with no more than summaryMaxTracked distinct values, no
\* value merged into other is more frequent than one shown.
SummaryIsTrue ==
    \A k \in DOMAIN summaries :
        LET s == summaries[k]
        IN  /\ s.total = Cardinality(Covered(k))
            /\ AddsUp(s)
            /\ DOMAIN s.rules = {drops[n].rule : n \in Covered(k)}
            /\ \A i \in DOMAIN s.rules :
                 LET mine == DropsOf(Covered(k), i)
                 IN  /\ s.rules[i].total = Cardinality(mine)
                     /\ \A id \in DOMAIN s.rules[i].ids :
                          s.rules[i].ids[id]
                            = Cardinality({n \in mine : drops[n].rec.id = id})
                     /\ \A name \in Rules[i].tallyBy :
                          LET field == s.rules[i].fields[name]
                              shown == DOMAIN field \ {Other}
                              all   == {ValueOf(drops[n].rec, name) : n \in mine}
                              count(x) == Cardinality(DropsWith(mine, i, name, x))
                          IN  /\ \A x \in shown : field[x] = count(x)
                              /\ Cardinality(all) <= MaxTracked =>
                                   \A x \in all \ shown, y \in shown : count(x) <= count(y)

\* Windows follow one another: a summary starts with its first drop, ends after
\* its last, lasts at least an hour unless it is the one of Shutdown, and the
\* next one starts no earlier; the next consumer gets them in that order.
WindowsFollow ==
    /\ \A k \in DOMAIN summaries :
         /\ summaries[k].start = drops[Min(Covered(k))].at
         /\ summaries[k].end >= drops[Max(Covered(k))].at
         /\ \/ summaries[k].end - summaries[k].start >= Interval
            \/ k = Len(summaries) /\ service \in {"sending", "down"}
         /\ k > 1 => summaries[k - 1].end <= summaries[k].start
         /\ k < Len(summaries) => summaries[k].fate # "sending"
    /\ window # <<>> =>
         /\ start = drops[Min(Covered(Open))].at
         /\ \A k \in DOMAIN summaries : summaries[k].end <= start

\* A window that is an hour old is taken without further records, also after a
\* summary was refused and while Shutdown runs.
DueWindowIsTaken ==
    \A k \in 0 .. MaxTime \div Interval :
        (Len(summaries) = k /\ Due) ~> Len(summaries) > k

\* docs/windows-edge.md:174: the summary counts the values of the events the
\* rule dropped, and what it does not show counts under other.
ValuesAddUp == \A k \in DOMAIN summaries : AddsUp(summaries[k])
===============================================================================
