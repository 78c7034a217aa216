---------------------------- MODULE LogRecombine ----------------------------
(***************************************************************************)
(* The logrecombine processor: lines of one log source are joined into one *)
(* multi-line entry.  ConsumeLogs (any number of callers), the flush-loop  *)
(* goroutine and Shutdown share the map of buffers under one mutex; all of *)
(* them send downstream, and only Shutdown does so while it holds it.      *)
(*                                                                         *)
(* A line is named by its arrival number.  The text of an entry is the set *)
(* of its lines: the code only ever appends, so the set in arrival order   *)
(* is the text.  src/processor/logrecombineprocessor/processor.go          *)
(***************************************************************************)
EXTENDS Integers, Sequences, FiniteSets

CONSTANTS
    Sources,        \* values of the source identifier field
    Messages,       \* what a record can be: its source, its kind, its size
    Callers,        \* goroutines that call ConsumeLogs
    FlushLoop,      \* the goroutine Start creates
    Stopper,        \* the service's call of Shutdown
    MaxSources, MaxBatchSize, GapTimeout, MaxTimeout,   \* Config
    TickPeriod,     \* period of the ticker, in clock units
    MaxRecords,     \* bound: records that arrive in a behaviour
    MaxCall,        \* bound: records of one ConsumeLogs call
    LastArrival,    \* bound: no call starts after this time
    MaxTime         \* bound: the clock stops here

Kinds == {"first", "continuation", "passthrough"}

Processes == Callers \cup {FlushLoop, Stopper}

ASSUME ProcessAssumption ==
    /\ FlushLoop \notin Callers
    /\ Stopper \notin Callers
    /\ FlushLoop # Stopper

\* Config.Validate refuses anything but positive limits and timeouts.
ASSUME ConfigAssumption ==
    /\ {MaxSources, MaxBatchSize, GapTimeout, MaxTimeout, TickPeriod}
          \subseteq Nat \ {0}
    /\ {MaxRecords, MaxCall, LastArrival, MaxTime} \subseteq Nat

\* size is the number of text lines in the message (delimiters in it, plus 1).
ASSUME MessageAssumption ==
    Messages \subseteq [src : Sources, kind : Kinds, size : Nat \ {0}]

ASSUME SourcesAssumption == IsFiniteSet(Sources)

VARIABLES
    now,        \* the clock both time.Now() and the ticker read
    tick,       \* the ticker's channel (capacity one) holds a tick
    pc,         \* where each process is
    input,      \* input[c]: records of caller c's batch not yet processed
    out,        \* out[p]: the entries p is collecting or sending (plog.Logs)
    buffers,    \* p.buffers, one entry per source
    seen,       \* history: the records processed, in order, with their time
    delivered,  \* history: the entries the next consumer accepted
    lost        \* history: the entries of sends the next consumer refused

vars == <<now, tick, pc, input, out, buffers, seen, delivered, lost>>

------------------------------------------------------------------------------
(* The buffers. *)

NoEntry == [lines |-> {}, size |-> 0, firstSeen |-> 0, lastSeen |-> 0]

BufferedIn(b) == {s \in Sources : b[s].lines # {}}

\* The entry a message opens: copied record, text, firstSeen = lastSeen = now.
NewEntry(m, id) ==
    [lines |-> {id}, size |-> m.size, firstSeen |-> now, lastSeen |-> now]

ExtendedEntry(m, id) ==
    [lines |-> buffers[m.src].lines \cup {id},
     size |-> buffers[m.src].size + m.size,
     firstSeen |-> buffers[m.src].firstSeen,
     lastSeen |-> now]

\* evictOldestBuffer takes an entry with the smallest firstSeen; Go's map order
\* decides among equals.
Oldest(b) ==
    {s \in BufferedIn(b) :
        \A t \in BufferedIn(b) : b[s].firstSeen <= b[t].firstSeen}

\* Mutants: the gap is not compared; a matching line does not close an entry.
OpensEntryIgnoringGap(m) == m.kind = "first" \/ buffers[m.src].lines = {}
OpensEntryIgnoringPattern(m) ==
    \/ buffers[m.src].lines = {}
    \/ now - buffers[m.src].lastSeen > GapTimeout

OpensEntry(m) ==
    \/ m.kind = "first"
    \/ buffers[m.src].lines = {}
    \/ now - buffers[m.src].lastSeen > GapTimeout

Stale(e) ==
    /\ e.lines # {}
    /\ \/ now - e.lastSeen > GapTimeout
       \/ now - e.firstSeen > MaxTimeout

------------------------------------------------------------------------------
Init ==
    /\ now = 0
    /\ tick = FALSE
    /\ pc = [p \in Processes |->
                IF p = FlushLoop THEN "waiting"
                ELSE IF p = Stopper THEN "up" ELSE "idle"]
    /\ input = [c \in Callers |-> <<>>]
    /\ out = [p \in Processes |-> {}]
    /\ buffers = [s \in Sources |-> NoEntry]
    /\ seen = <<>>
    /\ delivered = {}
    /\ lost = {}

\* The mutex is held by a caller from its Lock to its last record, and by
\* Shutdown until its send returns.  flushStaleBuffers holds it within a step.
LockFree == \A p \in Processes : pc[p] \notin {"locked", "sendingLocked"}

------------------------------------------------------------------------------
(* ConsumeLogs. *)

\* The service calls no processor that it has begun to shut down.
Enter(c) ==
    /\ pc[c] = "idle"
    /\ pc[Stopper] = "up"
    /\ LockFree
    /\ now <= LastArrival
    /\ \E n \in 1 .. MaxCall :
         /\ Len(seen) + n <= MaxRecords
         /\ \E batch \in [1 .. n -> Messages] :
              input' = [input EXCEPT ![c] = batch]
    /\ pc' = [pc EXCEPT ![c] = "locked"]
    /\ UNCHANGED <<now, tick, out, buffers, seen, delivered, lost>>

\* Excluded record, or no source identifier, or no text: passed on as it is.
PassThrough(c, m, id) ==
    /\ m.kind = "passthrough"
    /\ out' = [out EXCEPT ![c] = @ \cup {{id}}]
    /\ UNCHANGED buffers

\* Mutant: the previous buffer of the source is overwritten, not sent.
OpenDroppingPrevious(c, m, id) ==
    /\ m.kind # "passthrough"
    /\ OpensEntry(m)
    /\ buffers' = [buffers EXCEPT ![m.src] = NewEntry(m, id)]
    /\ UNCHANGED out

\* Mutant: the sources limit is never compared.
OpenWithoutEviction(c, m, id) ==
    /\ m.kind # "passthrough"
    /\ OpensEntry(m)
    /\ buffers' = [buffers EXCEPT ![m.src] = NewEntry(m, id)]
    /\ out' = [out EXCEPT ![c] = @ \cup ({buffers[m.src].lines} \ {{}})]

\* The line opens an entry: its source's previous entry goes out, and when that
\* makes one source too many an oldest entry goes out too.
Open(c, m, id) ==
    /\ m.kind # "passthrough"
    /\ OpensEntry(m)
    /\ LET opened == [buffers EXCEPT ![m.src] = NewEntry(m, id)]
           closed == {buffers[m.src].lines} \ {{}}
       IN  IF Cardinality(BufferedIn(opened)) > MaxSources
           THEN \E s \in Oldest(opened) :
                  /\ buffers' = [opened EXCEPT ![s] = NoEntry]
                  /\ out' = [out EXCEPT ![c] = @ \cup closed \cup {opened[s].lines}]
           ELSE /\ buffers' = opened
                /\ out' = [out EXCEPT ![c] = @ \cup closed]

\* Mutant: a full entry goes out and stays buffered.
ExtendKeepingFull(c, m, id) ==
    /\ m.kind # "passthrough"
    /\ ~OpensEntry(m)
    /\ LET e == ExtendedEntry(m, id)
       IN  /\ buffers' = [buffers EXCEPT ![m.src] = e]
           /\ out' = [out EXCEPT ![c] =
                        IF e.size >= MaxBatchSize THEN @ \cup {e.lines} ELSE @]

\* The line continues the entry of its source, which goes out once it is full.
Extend(c, m, id) ==
    /\ m.kind # "passthrough"
    /\ ~OpensEntry(m)
    /\ LET e == ExtendedEntry(m, id)
       IN  IF e.size >= MaxBatchSize
           THEN /\ buffers' = [buffers EXCEPT ![m.src] = NoEntry]
                /\ out' = [out EXCEPT ![c] = @ \cup {e.lines}]
           ELSE /\ buffers' = [buffers EXCEPT ![m.src] = e]
                /\ UNCHANGED out

\* Mutant: the record is processed and stays in the batch.
ProcessRecordAgain(c) ==
    /\ pc[c] = "locked"
    /\ input[c] # <<>>
    /\ LET m  == Head(input[c])
           id == Len(seen) + 1
       IN  /\ PassThrough(c, m, id) \/ Open(c, m, id) \/ Extend(c, m, id)
           /\ seen' = Append(seen, [src |-> m.src, kind |-> m.kind, at |-> now])
    /\ UNCHANGED <<now, tick, pc, input, delivered, lost>>

ProcessRecord(c) ==
    /\ pc[c] = "locked"
    /\ input[c] # <<>>
    /\ LET m  == Head(input[c])
           id == Len(seen) + 1
       IN  /\ \/ PassThrough(c, m, id)
              \/ Open(c, m, id)
              \/ Extend(c, m, id)
           /\ seen' = Append(seen, [src |-> m.src, kind |-> m.kind, at |-> now])
    /\ input' = [input EXCEPT ![c] = Tail(@)]
    /\ UNCHANGED <<now, tick, pc, delivered, lost>>

\* The batch is processed: the mutex is released, to return or to send.
Unlock(c) ==
    /\ pc[c] = "locked"
    /\ input[c] = <<>>
    /\ pc' = [pc EXCEPT ![c] = IF out[c] = {} THEN "idle" ELSE "sending"]
    /\ UNCHANGED <<now, tick, input, out, buffers, seen, delivered, lost>>

\* After its send a caller locks again for the deferred unlock, and returns.
Return(c) ==
    /\ pc[c] = "relocking"
    /\ LockFree
    /\ pc' = [pc EXCEPT ![c] = "idle"]
    /\ UNCHANGED <<now, tick, input, out, buffers, seen, delivered, lost>>

------------------------------------------------------------------------------
(* flushLoop and flushStaleBuffers. *)

\* Go's select takes either ready channel, so a tick may win over done.
TakeTick ==
    /\ pc[FlushLoop] = "waiting"
    /\ tick
    /\ tick' = FALSE
    /\ pc' = [pc EXCEPT ![FlushLoop] = "flushing"]
    /\ UNCHANGED <<now, input, out, buffers, seen, delivered, lost>>

Exit ==
    /\ pc[FlushLoop] = "waiting"
    /\ pc[Stopper] # "up"
    /\ pc' = [pc EXCEPT ![FlushLoop] = "exited"]
    /\ UNCHANGED <<now, tick, input, out, buffers, seen, delivered, lost>>

\* Mutant: the stale entries are sent and stay in the map.
FlushStaleKeeping ==
    /\ pc[FlushLoop] = "flushing"
    /\ LockFree
    /\ LET stale == {s \in Sources : Stale(buffers[s])}
       IN  /\ out' = [out EXCEPT ![FlushLoop] = {buffers[s].lines : s \in stale}]
           /\ pc' = [pc EXCEPT ![FlushLoop] =
                        IF stale = {} THEN "waiting" ELSE "sending"]
    /\ UNCHANGED <<now, tick, input, buffers, seen, delivered, lost>>

\* Mutant: the flush loop returns when it finds nothing to flush.
FlushStaleReturning ==
    /\ pc[FlushLoop] = "flushing"
    /\ LockFree
    /\ LET stale == {s \in Sources : Stale(buffers[s])}
       IN  /\ buffers' = [s \in Sources |->
                            IF s \in stale THEN NoEntry ELSE buffers[s]]
           /\ out' = [out EXCEPT ![FlushLoop] = {buffers[s].lines : s \in stale}]
           /\ pc' = [pc EXCEPT ![FlushLoop] =
                        IF stale = {} THEN "exited" ELSE "sending"]
    /\ UNCHANGED <<now, tick, input, seen, delivered, lost>>

FlushStale ==
    /\ pc[FlushLoop] = "flushing"
    /\ LockFree
    /\ LET stale == {s \in Sources : Stale(buffers[s])}
       IN  /\ buffers' = [s \in Sources |->
                            IF s \in stale THEN NoEntry ELSE buffers[s]]
           /\ out' = [out EXCEPT ![FlushLoop] = {buffers[s].lines : s \in stale}]
           /\ pc' = [pc EXCEPT ![FlushLoop] =
                        IF stale = {} THEN "waiting" ELSE "sending"]
    /\ UNCHANGED <<now, tick, input, seen, delivered, lost>>

------------------------------------------------------------------------------
(* Shutdown. *)

\* close(done) and ticker.Stop().  The receivers have stopped before this, so
\* no call is in progress (the collector's order of shutdown).
BeginShutdown ==
    /\ pc[Stopper] = "up"
    /\ \A c \in Callers : pc[c] = "idle"
    /\ pc' = [pc EXCEPT ![Stopper] = "closing"]
    /\ UNCHANGED <<now, tick, input, out, buffers, seen, delivered, lost>>

\* Mutant: the map is not replaced, so a late tick sends its entries again.
FlushAllKeepingBuffers ==
    /\ pc[Stopper] = "closing"
    /\ LockFree
    /\ out' = [out EXCEPT ![Stopper] = {buffers[s].lines : s \in BufferedIn(buffers)}]
    /\ pc' = [pc EXCEPT ![Stopper] =
                IF BufferedIn(buffers) = {} THEN "down" ELSE "sendingLocked"]
    /\ UNCHANGED <<now, tick, input, buffers, seen, delivered, lost>>

FlushAll ==
    /\ pc[Stopper] = "closing"
    /\ LockFree
    /\ buffers' = [s \in Sources |-> NoEntry]
    /\ out' = [out EXCEPT ![Stopper] = {buffers[s].lines : s \in BufferedIn(buffers)}]
    /\ pc' = [pc EXCEPT ![Stopper] =
                IF BufferedIn(buffers) = {} THEN "down" ELSE "sendingLocked"]
    /\ UNCHANGED <<now, tick, input, seen, delivered, lost>>

------------------------------------------------------------------------------
(* The next consumer's answer to a send, whoever sends. *)

Sending(p) == pc[p] \in {"sending", "sendingLocked"}

AfterSend(p) ==
    IF p = FlushLoop THEN "waiting"
    ELSE IF p = Stopper THEN "down" ELSE "relocking"

Accepted(p) ==
    /\ Sending(p)
    /\ delivered' = delivered \cup out[p]
    /\ out' = [out EXCEPT ![p] = {}]
    /\ pc' = [pc EXCEPT ![p] = AfterSend(p)]
    /\ UNCHANGED <<now, tick, input, buffers, seen, lost>>

\* A caller returns the error; the flush loop logs it; Shutdown ignores it.
\* None of them keeps the entries.
Refused(p) ==
    /\ Sending(p)
    /\ lost' = lost \cup out[p]
    /\ out' = [out EXCEPT ![p] = {}]
    /\ pc' = [pc EXCEPT ![p] = AfterSend(p)]
    /\ UNCHANGED <<now, tick, input, buffers, seen, delivered>>

------------------------------------------------------------------------------
(* Time. *)

\* The clock moves in every state but, to keep the behaviours bounded, it waits
\* at LastArrival for the batches being processed; at MaxTime only the ticker
\* goes on.
TimePasses ==
    /\ now < LastArrival \/ \A c \in Callers : pc[c] # "locked"
    /\ now' = IF now < MaxTime THEN now + 1 ELSE now
    /\ tick' = \/ tick
               \/ pc[Stopper] = "up" /\ (now' % TickPeriod = 0 \/ now = MaxTime)
    /\ UNCHANGED <<pc, input, out, buffers, seen, delivered, lost>>

Next ==
    \/ \E c \in Callers : Enter(c) \/ ProcessRecord(c) \/ Unlock(c) \/ Return(c)
    \/ TakeTick \/ Exit \/ FlushStale
    \/ BeginShutdown \/ FlushAll
    \/ \E p \in Processes : Accepted(p) \/ Refused(p)
    \/ TimePasses

\* A runnable goroutine runs; a downstream call returns; the clock moves.  A
\* goroutine that waits for the mutex gets it although others take it in
\* between (sync.Mutex hands it over to a waiter it has starved for 1 ms).
Fairness ==
    /\ WF_vars(TimePasses)
    /\ WF_vars(TakeTick \/ Exit)
    /\ SF_vars(FlushStale)
    /\ SF_vars(FlushAll)
    /\ \A c \in Callers :
         /\ WF_vars(ProcessRecord(c) \/ Unlock(c))
         /\ SF_vars(Return(c))
    /\ \A p \in Processes : WF_vars(Accepted(p) \/ Refused(p))

Spec == Init /\ [][Next]_vars

FairSpec == Spec /\ Fairness
------------------------------------------------------------------------------
(* Properties. *)

Entry == [lines : SUBSET (1 .. MaxRecords), size : Nat,
          firstSeen : 0 .. MaxTime, lastSeen : 0 .. MaxTime]

\* The state is always one the code can represent: what each process does is
\* one of its own program points, every line id is one that has arrived.
TypeOK ==
    /\ now \in 0 .. MaxTime
    /\ tick \in BOOLEAN
    /\ pc \in [Processes -> {"idle", "locked", "sending", "relocking", "waiting",
                             "flushing", "exited", "up", "closing",
                             "sendingLocked", "down"}]
    /\ input \in [Callers -> Seq(Messages)]
    /\ buffers \in [Sources -> Entry]
    /\ seen \in Seq([src : Sources, kind : Kinds, at : 0 .. MaxTime])
    /\ Len(seen) <= MaxRecords
    /\ out \in [Processes -> SUBSET SUBSET (1 .. Len(seen))]
    /\ delivered \subseteq SUBSET (1 .. Len(seen))
    /\ lost \subseteq SUBSET (1 .. Len(seen))

BufferedEntries == {buffers[s].lines : s \in BufferedIn(buffers)}

Entries ==
    BufferedEntries \cup (UNION {out[p] : p \in Processes}) \cup delivered \cup lost

\* No line that arrived disappears: each one is buffered, being sent, accepted
\* by the next consumer, or was in a send that consumer refused.
NothingVanishes == UNION Entries = 1 .. Len(seen)

\* No line is sent twice or kept after it was sent: entries are disjoint, and
\* each is in one place only.
NothingTwice ==
    /\ \A e, f \in Entries : e = f \/ e \cap f = {}
    /\ \A s, t \in BufferedIn(buffers) : buffers[s].lines = buffers[t].lines => s = t
    /\ BufferedEntries \cap (delivered \cup lost) = {}
    /\ delivered \cap lost = {}
    /\ \A p \in Processes : out[p] \cap (BufferedEntries \cup delivered \cup lost) = {}
    /\ \A p, q \in Processes : p # q => out[p] \cap out[q] = {}

\* An entry holds lines of one source, and only its oldest line may match the
\* first-entry pattern, whatever batches, callers and flushes its lines met.
EntriesAreWellFormed ==
    \A e \in Entries : \A x, y \in e :
        x < y => /\ seen[x].src = seen[y].src
                 /\ seen[x].kind # "passthrough"
                 /\ seen[y].kind = "continuation"

Before(e, f) == \A x \in e, y \in f : x < y

\* Two entries of one source never interleave: the lines of a source are cut
\* into consecutive runs, so no line joins a text it does not follow.
EntriesDoNotInterleave ==
    \A e, f \in Entries :
        (\E x \in e, y \in f : /\ seen[x].src = seen[y].src
                              /\ "passthrough" \notin {seen[x].kind, seen[y].kind})
            => e = f \/ Before(e, f) \/ Before(f, e)

\* GapTimeout is the maximum time between consecutive messages of an entry,
\* even when the flush loop is late (config.go:40).
GapsWithinTimeout ==
    \A e \in Entries : \A x, y \in e :
        (x < y /\ \A z \in e : z <= x \/ y <= z)
            => seen[y].at - seen[x].at <= GapTimeout

\* MaxTimeout is the maximum total time an entry spans (config.go:45).
SpanWithinTimeout ==
    \A e \in Entries : \A x, y \in e : seen[y].at - seen[x].at <= MaxTimeout

\* Memory is bounded: never more than MaxSources entries are buffered, and no
\* entry combines more than MaxBatchSize lines (two when the limit is one: a
\* new buffer is not compared with the limit).
BuffersBounded ==
    /\ Cardinality(BufferedIn(buffers)) <= MaxSources
    /\ \A e \in Entries :
          Cardinality(e) <= IF MaxBatchSize = 1 THEN 2 ELSE MaxBatchSize

\* When Shutdown has returned nothing is left behind: only a flush the loop had
\* already taken out of the map may still be on its way downstream.
ShutdownLeavesNothing ==
    pc[Stopper] = "down" =>
        /\ BufferedIn(buffers) = {}
        /\ \A p \in Processes \ {FlushLoop} : out[p] = {}

\* A buffered line leaves: a source that goes quiet is flushed by the loop, or
\* by Shutdown, without any further record of that source.
BufferedLinesLeave ==
    \A r \in 1 .. MaxRecords :
        (r \in UNION BufferedEntries) ~> (r \in UNION (delivered \cup lost))
\* The processor implements the promise of LineGroups: buffers are the open
\* groups, what the processes hold to send are the closed ones.
Groups == INSTANCE LineGroups
            WITH MaxLines <- MaxRecords,
                 n <- Len(seen),
                 open <- [s \in Sources |-> buffers[s].lines],
                 closed <- UNION {out[p] : p \in Processes},
                 accepted <- delivered,
                 refused <- lost

ImplementsLineGroups == Groups!Spec
==============================================================================
