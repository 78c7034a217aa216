# otelcol-custom: formal models

This directory holds TLA+ models of
[otelcol-custom](https://github.com/vladistan/otelcol-custom), a distribution of
the OpenTelemetry Collector with its own receivers and processors in Go.  The
models are checked with TLC on small instances; the theorems about them are
proved with TLAPS for every value of their constants.  `PROJECT.json` lists the
runs, the properties and the source lines each definition stands for.

## 1. The system

A collector is a graph of components.  Receivers make batches and call the next
consumer; a processor's `ConsumeLogs` / `ConsumeMetrics` is called by any number
of goroutines, changes the batch and calls the next consumer in turn.  A refusal
is an error returned up the call chain.  The service starts components from the
exporters backwards and shuts them down from the receivers forwards: no call
enters a processor that is being shut down.

| Component | State it keeps | Operations | What is hard | What makes it correct |
|---|---|---|---|---|
| logrecombine processor | one buffered entry per source under a mutex | `ConsumeLogs`, flush loop, `Shutdown` | callers, ticks and shutdown interleave around a mutex that is released to send | every line in exactly one entry, of one source, in order, within limits |
| windowhist processor | series and windows under a mutex | `ConsumeMetrics`, one ticker per send interval, `Shutdown` | late samples, counter resets, slow or refused forwards, a flush racing shutdown | every sample in one window, rates add up, windows follow one another |
| gpu receiver | per GPU: handle, lost, unsupported calls, integrators | scrape, shutdown | driver reloads, GPUs lost in mid-scrape, long gaps | monotonic, never invented totals; honest status |
| auth0 receiver | none of its own; the queue's | poll loop, `Shutdown` | redelivery, crashes, partial deletes, invalid messages | at-least-once, shutdown ends |
| winlog processor | the tallies of the open window under a mutex | `ConsumeLogs`, summary loop, `Shutdown` | callers and the hourly take interleave; bounded tallies; a refused summary is gone | every drop in one summary, counts shown are exact, windows follow one another |
| psi receiver | none | ticker loop | a failing file among three; `Start`'s context | the others are sent |
| log parsers (syslog, cisco, filterlog, charon, journald, cron, kernel, containerd, klog, kafka, postgres, snuba, uvicorn, nginx, pgbouncer, redis, sentry, tekton, logrus, snooze, k8s events, Windows events) | none from one batch to the next | `ConsumeLogs` on each record | records of a group share one resource that some parsers write; several parsers save and rewrite the text one after the other; journald takes groups apart | a record does not depend on its neighbours; its text and its order survive |
| asset, IP and MAC enrichment, resource version | a table loaded at start | `ConsumeLogs/Metrics/Traces` | notations of one address, duplicate rows | lookups find what was loaded |
| probe samplers | none | `ConsumeLogs` | which lines count as probes, emptied groups | nothing but probes is dropped |
| binary: zap and Sentry cores, service wrapper, rotating sink | field slices; a log file | `With`, `Write`; `Run` | sharing of slices between loggers | a log entry carries its own fields |

`PROJECT.json` lists all of them under `components`, with what is left out and
why, and under `hazards` every place where this code can go wrong in a way a
test would hardly reach.

## 2. Modules

| Module | Models | Source |
|---|---|---|
| `LineGroups` | what logrecombine promises: lines of a source are cut into consecutive groups | (abstract) |
| `LogRecombine` | the processor | `src/processor/logrecombineprocessor/processor.go` |
| `LogRecombineProofs` | theorems about it: where lines are | |
| `LogRecombineShapes` | theorems about it: what entries look like; it implements `LineGroups` | |
| `WindowHist` | the processor | `src/processor/windowhistprocessor/` |
| `WindowHistProofs` | theorems about it | |
| `GpuReceiver` | scraper, collector and integrators | `src/receiver/gpureceiver/` |
| `GpuReceiverProofs` | theorems about it | |
| `AtLeastOnce` | what the auth0 receiver promises | (abstract) |
| `Auth0Receiver` | the poll loop of several receivers on one queue | `src/receiver/auth0receiver/receiver.go` |
| `Auth0ReceiverProofs` | theorems about it | |
| `DropSummary` | rules, drops and the hourly summary | `src/processor/winlogprocessor/` |
| `DropSummaryProofs` | theorems about it | |
| `LogRecord` | texts, records, resources and what all parsers do with them | `src/processor/*logprocessor/` |
| `NetworkLogs` | syslog; Cisco, HP and wireless controllers with the port database; filterlog; charon | `src/processor/{syslog,ciscolog,filterlog,charonlog}processor/` |
| `HostLogs` | journald, cron, kernel, containerd, klog | `src/processor/{journald,cronlog,kernellog,containerdlog,klog}processor/` |
| `AppLogs` | kafka, postgres, snuba, uvicorn, nginx, pgbouncer, redis, sentry, tekton, logrus | `src/processor/*logprocessor/` |
| `ObjectLogs` | k8s events, shaping of Windows events, auth0 events, snooze | `src/processor/{k8sevent,winlog,snoozelog}processor/`, `src/receiver/auth0receiver/mapping.go` |
| `Enrichment` | MAC and IP extraction, asset database, resource version, probe sampling | `src/processor/{assetdb,ipextractor,macextractor,resourceversion}processor/`, `src/processor/{internal,healthprobesampler}/` |
| `LogPipeline` | a batch on its way through the processors of a pipeline; composes the six above | `ConsumeLogs` of each |
| `LogPipelineProofs` | theorems about it | |
| `Sums` | lemmas three of the proof modules use: sums over finite sets, least numbers | |
| `MC*` | the constants of the runs | |

An operator marked *Mutant* is a faulty variant of the operator after it.  No
specification uses it; it shows that a property notices that fault.

### LogRecombine

`pc[p]` says where each goroutine is: callers of `ConsumeLogs`, the flush loop
and the service's call of `Shutdown`.  A step is what happens between two points
at which others may run: one record under the mutex (`ProcessRecord`), the end of
the loop (`Unlock`), a send (`Accepted` or `Refused`), the second lock for the
deferred unlock (`Return`).  `flushStaleBuffers` runs under the mutex up to its
send and is one step, as is the flush in `Shutdown`, which keeps the mutex while
it sends (`sendingLocked`).  `LockFree` derives the mutex from `pc`.  Records in
a call are read one by one at one `now` each, and the clock may move between
them.  A line is its arrival number and an entry the set of its lines, since the
code only appends; `size` counts the delimiters the way `strings.Count` does.
`seen`, `delivered` and `lost` are history.

### WindowHist

`ConsumeMetrics` handles a sample under the lock (`Receive...`, one action per
kind of series); a goroutine per interval takes a tick and reads the end of the
window *before* the lock (`TakeTick`), closes the window under it (`Collect`) and
forwards outside it (`Forwarded`).  `Shutdown` cancels (`Cancel`), waits
(`AwaitTickers`) and closes what is open, shortest interval first (`FlushNext`,
`Collect`, `Forwarded`, `FlushDone`).  A histogram is the number of its values; a
counter reading keeps value, time and start time.  A forward that fails and one
that succeeds leave the same state, so one action stands for both.  `ghost` is
history per series and no action's guard reads it.

### GpuReceiver

A scrape is a sequence of steps, one per NVML call, and errors, driver reloads
and time come between any two.  A call fails with one of the kinds
`recordFailure` tells apart.  Gauge reads (utilization, memory, temperature,
power, clocks) differ only in their names for this state, so one of them stands
for all.  The scraper controller runs scrapes and shutdown one after the other.
The `hw.status` points can be turned off; the model has them on, and the
other toggles appear as the choice of `Reads`.

### Auth0Receiver

One action per outcome of each call in `pollOnce`.  "polling" is inside
`ReceiveMessage`; the loop's look at its context is part of the step that ends
the previous poll.  SQS is external, modelled from the way the receiver uses it:
a received message is hidden until its visibility timeout, an answer may be lost,
a batch may be deleted in part, and a delete with an older receipt may still
succeed.  There is no redrive policy in the model: an invalid message comes back
for ever.

### DropSummary

`ConsumeLogs` handles one record per step (`Pass`, `Keep`, `Drop`): counting a
drop is one critical section, and others run between two records of a call.
`Flush` adds the counts of the call to the two counters, `Return` is the next
consumer's answer.  The loop takes a tick (`TakeTick`), takes the window under
the lock if it is due (`TakeDue`, `NotDue`) and sends outside it (`SummarySent`);
`Stop` to `LastSent` is `Shutdown`.  Rules, first match, the bounded tally and
the summary are operators.  A record keeps the fields the rules read: reading
them from XML or from either layout of the event data is left out, and values
that compare equal are one value.  `drops` and `summaries` are history: what a
summary should say is computed from the drops it covers.

### LogPipeline

A text is a record: `form` names the pattern it was written with, the other
fields are what the pattern captures, and a text within a text is its `content`.
A regular expression of the code is a test of the form and its groups are fields;
what the code tries first and what it falls back to is the order of the tests.  A
batch is a sequence of groups whose records share a resource.  `NetworkLogs` to
`Enrichment` have one operator per processor, from its configuration `cfg` (a
record, one per stage) and a record, with its resource where it reads or writes
it, to what it makes of them.

`Receive` hands over a batch of a pipeline, `ReceiveEvents` the batch the auth0
receiver makes of a poll.  `Process` is `ConsumeLogs` of the next processor on the
whole batch; `Deliver` is the call of the exporter, `GiveUp` the early return of a
processor that has removed every record, `Return` the end of the call.  `batch'`
is one of a set of outcomes where the code leaves it open: the port database is a
Go map whose order decides between switches with the same short name, and probe
sampling draws a number.  There is one batch at a time since none of these
processors keeps anything between batches; the ones that do have modules of
their own.  `id`, the place of a record in the batch that came, is history.
`transform/syslog` is external, taken from `test/configs/local-gateway.yaml`.

## 3. Runs

| Run | Instance | Shows |
|---|---|---|
| `LogRecombine` | 3 sources of which 2 fit, 2 callers, 4 records in calls of up to 2, entries of up to 3 lines, timeouts of 1 tick | accounting, shape, limits, shutdown |
| `LogRecombineLive` | 2 sources of which 1 fits, 1 caller, 3 records | a buffered line leaves; refinement of `LineGroups` |
| `LogRecombineSpan` | as above, `MaxTimeout` 2, `GapTimeout` 1 | **violated**: an entry may span more than `MaxTimeout` |
| `WindowHist` | cumulative gauge every 1, plain series every 2, 2 samples up to 2 late, time to 5 | accounting, eviction, order of windows, shutdown |
| `WindowHistCounter` | one counter, readings 0..2, 2 start times, 4 samples up to 1 late | rates telescope; windows close; shutdown ends |
| `WindowHistKept` | the same with `keep_counter` | **violated**: the kept point is not the newest |
| `GpuReceiver` | 1 GPU with a PCIe, an ECC and a gauge call, 2 errors, time to 4 with an interval of 1 | totals, status, library |
| `Auth0Receiver` | 2 valid and 1 invalid message, batches of 2, 2 receivers, 1 crash | at-least-once, liveness |
| `DropSummary` | 2 rules, 2 callers, 5 records in batches of 2 or 3, 4 values of a field in a tally that holds 2 and shows 1, an hour of 2 ticks, time to 4 | accounting, true summaries, windows, a due window is taken |
| `DropSummaryOther` | the same, one of the values being `other` | **violated**: the values shown add up to the rule's total |
| `LogPipeline` | every processor with records of every format it knows and one it does not, alone and in the pipelines of the configurations; polls of up to 6 envelopes | records fare as if alone, keep a text they came with, and their order |
| `LogPipelineAlias` | the gateway pipeline `transform/syslog`, `ciscolog` with one and with two switches in a batch | **violated**: an alias is the one the record's own switch gives the port |

Why the bounds are enough.  Four records and three sources let one source fill
an entry, gap, be evicted by another and start again while two callers are in
mid-send; a fourth source or a third caller only repeats these.  Two samples in
two windows reach every combination of late, idle and evicted series because a
series needs `EvictAfter` = 2 idle windows; five time units give each interval
at least two closes after its last sample.  A counter needs three readings for a
reset between two rates, and has four.  With `MaxGap` = 3 a clock that runs to 4
passes the largest gap.  Each further GPU would be read in the same way after the
first; the proofs cover any number.  A tally of 2 with 4 values reaches both
limits of the summary, and time for two whole windows shows what one leaves to
the next.  The batches of `LogPipeline` reach every format and every branch; the
processors go through a batch record by record, so two or three records that
share a resource show what one can do to another.  A clock bound (`MaxTime`, `LastArrival`,
`LastSample`) stops time, not the processes.

`CHECK_DEADLOCK FALSE` is set where the system really stops: after `Shutdown`.

### What the violations say

* `config.go:45` of logrecombine says `MaxTimeout` is the maximum total time a
  combined entry can span.  Appending never compares it; only the 5 ms flush loop
  does.  TLC's trace appends a line to an entry that is already due.
* `series.go:59` of windowhist calls `lastCounter` the newest counter point.
  `addCounter` copies a reading into it before it compares times, so a late
  reading, itself discarded as invalid, replaces the newer one.
* `docs/windows-edge.md:174` says the summary counts the values of the events a
  rule dropped, and the rest under `other`.  `top` (`summary.go:68`) writes the
  rest over the count of a value whose text is `other`, which then counts nowhere.

* `ciscologprocessor/portdb.go:15` says that its per-device structure "allows same
  port name to have different meanings on different switches".  In the gateway
  pipeline the records of all switches in a batch share one resource.
  `maybeSetHostname` writes the name of the first record's switch to `host.name`,
  which the second record's port is then looked up under (`processor.go:235`).

## 4. Fairness

* `LogRecombine`: weak fairness of every runnable goroutine and of downstream
  calls (they return); strong fairness where a goroutine waits for the mutex,
  because `sync.Mutex` hands over to a waiter it has starved for a millisecond.
* `WindowHist`: weak fairness of the goroutines, of forwards and of the clock.
  `Cancel` and arrivals are not fair: shutdown need not come.
* `DropSummary`: weak fairness of the summary loop and of a `Shutdown` under way,
  with the consumer's answer to them.  Calls, their ends and `Stop` are not fair.
* `Auth0Receiver`: the visibility timeout expires, SQS answers polls with every
  message that is visible again and again, the next consumer does not refuse a
  message for ever (strong fairness, and only then can a message arrive), and
  every call of the goroutine returns.  `Start`, `Shutdown`, `Crash` and `Send`
  are not fair.

`GpuReceiver` and `LogPipeline` state no fairness: their runs check safety only.
No safety property uses fairness.

## 5. Proofs

All proofs assume the named `ASSUME`s of the modules: the ranges
`Config.Validate` enforces, finiteness, and that process names differ.

* **`LogRecombineProofs`**.  `NothingTwice` is not inductive: that an id is not in
  two places says nothing of a new id.  The invariant (`Accounting`) says that
  each arrived line lies in exactly one of the entries, that the entries are
  disjoint, that an id beyond `Len(seen)` lies in none, and that at most one process
  holds the mutex (so a caller's batch reserves its ids).  From it: `TypeCorrect`,
  `LinesNeverVanish`, `LinesNeverTwice`.
* **`LogRecombineShapes`** takes that account and adds the shapes.  The set of
  entries changes only where a record is processed: every step closes, sends or
  keeps entries (`Kept`), or numbers a new line that stands alone (`Alone`) or
  joins its source's buffer (`Joined`).  The properties are not inductive without
  three facts about an open buffer: its lines are its source's, its `lastSeen` is
  the time of its newest line, and no other line of the source is newer.  From the
  invariant (`Shapes`): `EntriesOfOneSource`, `EntriesInOrder`, `GapsKept`,
  `MemoryBounded`, `ShutdownClean`; and, step by step, the refinement
  `LineGroupsImplemented`.
* **`WindowHistProofs`**.  One invariant (`Windows`) of six parts: types; at which
  point each goroutine stands, that what it closes or forwards is of its own
  interval, and that `Shutdown` flushes alone; no count beyond what was received;
  no end of a window ahead of the clock or behind the start of the window it
  closes, and what is forwarded ends where the open window starts; a sample in a
  window is in one `Shutdown` has still to close; and, series by series
  (`SeriesFact`), how its counts, its idle windows and its baseline agree with
  its history.  That part is preserved by each sample (`Absorbed`) and by each
  close (`ClosedFact`).  From it: `TypeCorrect`, `CumulativeLosesNothing`,
  `RatesAddUp`, `EvictionIsExact`, `PlainKeepsNewest`, `ShutdownIsComplete`,
  `WindowsInOrder`, `PointsInOrder`.  `NoSampleLost` adds an account of each
  series (`AccountInv`): at most one of its points is being forwarded at a time,
  so that a close moves its weight from the window to that point, and a forward
  from there to what was handed on, without changing the sum.
* **`GpuReceiverProofs`**.  What an integrator returns is a lemma
  (`EccSampleGrows`, `IoSampleGrows`).  `ErrorsNotInvented` needs to know how far
  the raw counter is from the last reading: emitted total plus what the next
  reading would add never exceeds what happened.  `StatusIsHonest` needs that
  `succeeded` counts the answered calls of the GPU being read.  All seven
  properties of the run are proved.
* **`Auth0ReceiverProofs`**.  What carries safety from poll to delete is the batch
  in hand: all valid, and handed on once the goroutine is at its delete.  From it
  `NeverLost`, `InvalidStay` and, step by step, the refinement
  `AtLeastOnceDelivery`.
* **`DropSummaryProofs`**.  `WindowsFollow` says when windows begin and end, and
  is not inductive.  The invariant (`WindowInv`) numbers the drops in the order of
  their critical sections: the summaries cut that row into consecutive stretches
  (`Stretches`), the open window is what comes after the last one (`OpenWindow`),
  and at most one of loop and `Shutdown` is sending (`Turns`).  From it:
  `WindowsInOrder` and, as nothing is open once `Shutdown` has returned,
  `ShutdownReportsAll`.  `TypeCorrect` rests on lemmas about the tallies
  (`TallyBounded`: adding a value never exceeds `summaryMaxTracked`) and on
  `LeastExists`: the rules that match have a first one.
  `NoDropUnreported` follows from a ledger (`LedgerInv`): the summaries' totals
  of a rule with the window's are the drops of the rule, as are the counters with
  what each call has still to add.  A step changes one entry of one of these
  sums; that `Take` moves an entry needs that a new summary adds one place to a
  sequence (`SumPadded`).
  `SummariesTrue` follows from `TruthInv`: the open window, and each summary, tells
  the number of its drops per rule and event id, and for a field counts a value
  either exactly or not at all, the rest being under `other` (`FieldTells`).  That
  the values shown are the most frequent ones (`TopTells`) uses that `top` leaves
  out a value only for as many others as it shows, none of them rarer.  The
  invariant holds for every set of records; the theorem assumes `OtherIsNoValue`:
  no record has, in a field some rule counts by, the value that stands for the
  rest.  Without it the property is false, which is what run `DropSummaryOther`
  shows, and the constants of run `DropSummary` satisfy it.
* **`Sums`**.  A sum of numbers over a finite set is the number of cells of a table
  with `f[x]` cells in the row of `x` (`SumIsCells`, by induction over the
  subsets of the set).  That sums of disjoint sets add up, that raising one
  value raises the sum by as much, and that a sum of sums may be taken in either
  order then follow from what is known of cardinalities.

* **`LogPipelineProofs`**.  `SourcesKeepOrder` holds for any pipeline of the modelled
  processors, however configured, and any batch: all that is assumed is that
  pipelines, batches, groups and polls are sequences, of stages that name a
  processor (`RoutesAssumption`).  `SourceOrderKept` is not inductive: it says
  nothing of the batch a record came in.  The invariant (`LeftOfWhatCame`) says that
  the records of every group are left of one group that came: some of its records,
  changed but each with its own `id`, in their order (`LeftOf`, which is
  transitive).  A lemma for every processor says that it leaves at most the record
  it was given (`OutcomesKeep`); a group taken record by record (`InTurnLeft`) and
  a batch group by group (`ConsumedLeft`) follow by least counterexample.  The
  journal processor takes the elements at some places of a group, in their order
  (`Picked`, `LeftPicked`), and puts the groups it splits off behind the others.
  `EachFaresAsAlone` follows a record through its batch and alone in step: the
  batch holds exactly one record of its place, which is the one record of the other
  run, with the same resource, or neither has it (`Alike`).  `EachAsIfAlone` speaks
  of delivered batches only, so the invariant (`AlikeWhatCame`) says it of every
  prefix of the pipeline: what the batch has of a record after some stages is what
  it may be after these stages alone (`Becomes`).  It needs `LeftOfWhatCame`, which
  tells that a record that came in a group of its own stays alone in its group, the
  only case in which the property covers the processors that write the resource
  (`AloneInGroup`).  One processor preserves it by `ConsumedHas` and `JournalHas`,
  what it makes of one record of a batch, and `AloneConsumed` and `JournalAlone`,
  what it may make of that record alone.  The last step is what `Fate` is of a batch
  that holds a record or lacks it (`FateOfRecord`): flattened, one entry or none.
  Nothing is assumed beyond `RoutesAssumption`.

Only model-checked: all liveness (fairness and `ENABLED` are out of the prover's
reach), and `SourceTextSurvives` of `LogPipeline`.  That one is a statement about the
configurations of the runs, not about every value of the constants: a
configuration may name `original_message` as the target of an extractor, and then
the text is not kept.  Its proof would besides have to show of some twenty tables of
attribute names, unions of single entries and of composed names, that none of them
has that name, and the provers do not see into those.  What the property says is
also less than that nothing is lost: of a record whose body, source attribute,
`full_message` and earlier `original_message` differ, it asks that one of those the
pipeline reads is kept.  Which one depends on the parser: nginx and pgbouncer keep
the source attribute, kafka, postgres and uvicorn the body, and redis, sentry and
snuba `full_message`.  The run has such a record for each of these parsers, as well
as a syslog line that comes with an `original_message` and a map with a text.

## 6. Not modelled

* **psi receiver**: at each tick it reads three files and sends what it could
  parse; it keeps nothing in between, so a model would restate the reads.
* **normalized load**: divides floating point gauges by the number of processors.
* **binary** (main, Sentry core, service wrapper, rotating sink): start-up code and
  calls of the operating system and of libraries.  What siblings of a logger share
  is memory of the Go runtime; it is listed as a hazard.
* **SQS client, NVML adapter, fake port, factories, configurations, stanza
  operators, placeholders**: wiring, bindings, test doubles, stateless transformers
  of an entry.
* **asset database and resource version for metrics and traces**: they do to a
  resource what the modelled logs processors do.
* Histogram buckets (a third-party library), the scanning of text by regular
  expressions, the reading of XML, generated metadata, logging, telemetry counters
  but for the two of the winlog processor.  No test bench or build file is modelled.

Noticed while modelling, and in no run: the Sentry parser slices 30 bytes of a
line of which it has checked 15 (`sentrylogprocessor/parser.go:71`); nginx saves
the original text whatever `preserve_original` says; kafka, postgres and uvicorn
remove `full_message` where their comment says rename, and redis, sentry and snuba
do rename it, over the text they have just saved, also where the two differ (redis
and sentry even with `preserve_original`); klog, kafka,
logrus, nginx and pgbouncer replace an `original_message` that an earlier parser
has saved (`SourceTextSurvives` says when a text survives nevertheless); the
resource of a group of syslog records is that of its last record.

## 7. Order of the work, and what is open

The modules were written in the order of section 2's table: first the processors
with state shared between goroutines, each with an abstract specification or a
history to compare with, then the receivers, then the parsers and their
composition.  Of the abstract specifications worth stating, `LineGroups` and
`AtLeastOnce` are there and proved to be implemented.  What is open:

1. `SourceTextSurvives` for every pipeline, under the condition on configurations
   that section 5 names.
2. Sibling loggers of the Sentry core over shared slices, with capacity; the psi
   receiver's context.
3. A batch whose windowhist or logrecombine stage is called by several pipelines at
   once: today these processors and `LogPipeline` are checked apart.
