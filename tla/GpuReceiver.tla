----------------------------- MODULE GpuReceiver -----------------------------
(***************************************************************************)
(* The gpu receiver: the first scrape opens NVML and enumerates the GPUs;  *)
(* every scrape asks each GPU its enabled calls in schema order, remembers *)
(* per GPU which calls are unsupported and whether the GPU is lost, and    *)
(* integrates the ECC counters and PCIe rates into cumulative totals.      *)
(* Scrapes and Shutdown do not overlap (the scraper controller runs them). *)
(*                                                                         *)
(* NVML and the GPUs are the environment: a call answers or fails as it    *)
(* likes, a raw ECC counter counts the errors since the driver was loaded. *)
(* A rate is in units per time unit, so hw.gpu.io has no unit factor.      *)
(* src/receiver/gpureceiver/                                               *)
(***************************************************************************)
EXTENDS Integers, Sequences, FiniteSets

CONSTANTS
    Devices,        \* the indexes NVML counts
    Reads,          \* the enabled calls of a GPU, in schema order
    EccCalls,       \* those that read an ECC counter
    IoCalls,        \* those that read a PCIe rate
    Rates,          \* the rates a PCIe call may answer
    Interval,       \* collection_interval
    MaxErrors,      \* bound: errors of one counter in a behaviour
    MaxTime         \* bound: the clock stops here

Calls == {Reads[i] : i \in 1 .. Len(Reads)}

ErrorKinds == {"NotSupported", "GPULost", "Other"}

ASSUME DevicesAssumption == Devices \subseteq Nat /\ IsFiniteSet(Devices)

ASSUME CallsAssumption ==
    /\ Reads \in Seq(STRING)
    /\ EccCalls \subseteq Calls
    /\ IoCalls \subseteq Calls
    /\ EccCalls \cap IoCalls = {}
    /\ Rates \subseteq Nat
    /\ Interval \in Nat \ {0}
    /\ MaxErrors \in Nat
    /\ MaxTime \in Nat

MaxGap == 3 * Interval

VARIABLES
    now,        \* the clock
    nvml,       \* the library: unopened, open or closed
    pc,         \* the receiver: ready, reading or down
    initOnce,   \* the first scrape has run initialise
    initOK,     \* port.Init succeeded and Shutdown has not run
    collector,  \* the GPUs of s.collector; none stands for the nil collector
    todo,       \* the GPUs this scrape has still to finish
    next,       \* index in Reads of the next call to the GPU being read, or 0
    scrapedAt,  \* the time Collect was called with
    succeeded,  \* calls of this GPU that succeeded in this scrape
    handle,     \* GPUs whose handle is cached
    lost,       \* GPUs that have reported GPULost
    unsupported,\* unsupported[d]: the calls known to be unsupported
    ecc,        \* ecc[d, c]: the ECC integrators
    io,         \* io[d, c]: the PCIe integrators
    raw,        \* raw[d, c]: NVML's volatile ECC counters
    happened,   \* history: errors since the receiver's first reading
    errors,     \* history: the last hw.errors point
    bytes,      \* history: the last hw.gpu.io point
    status,     \* history: the state of the last hw.status points
    answered    \* history: calls answered in the last scrape of a GPU

library == <<nvml, initOnce, initOK, collector>>
device  == <<handle, lost, unsupported>>
totals  == <<ecc, io, errors, bytes>>
world   == <<raw, happened>>
vars    == <<now, pc, todo, next, scrapedAt, succeeded, status, answered,
             library, device, totals, world>>

------------------------------------------------------------------------------
(* The integrators. *)

NewEcc == [started |-> FALSE, baseline |-> 0, previous |-> 0, total |-> 0]
NewIo  == [started |-> FALSE, last |-> 0, total |-> 0]

\* Mutant: a reading below the previous one is taken as it is.
EccSampleWithoutReload(e, r) ==
    IF ~e.started THEN [started |-> TRUE, baseline |-> r, previous |-> r, total |-> 0]
    ELSE [e EXCEPT !.previous = r]

\* Mutant: the errors before a driver reload are kept twice.
EccSampleKeepingBaseline(e, r) ==
    IF ~e.started THEN [started |-> TRUE, baseline |-> r, previous |-> r, total |-> 0]
    ELSE IF r < e.previous
         THEN [e EXCEPT !.total = @ + e.previous + r, !.baseline = r, !.previous = r]
         ELSE [e EXCEPT !.previous = r]

\* A reading below the previous one means the driver reloaded.
EccSample(e, r) ==
    IF ~e.started THEN [started |-> TRUE, baseline |-> r, previous |-> r, total |-> 0]
    ELSE IF r < e.previous
         THEN [e EXCEPT !.total = @ + (e.previous - e.baseline) + r,
                        !.baseline = r, !.previous = r]
         ELSE [e EXCEPT !.previous = r]

EccTotal(e) == e.total + (e.previous - e.baseline)

\* Mutant: a gap of any length is integrated.
IoSampleOverGap(i, at, rate) ==
    [started |-> TRUE,
     last |-> at,
     total |-> IF i.started THEN i.total + rate * (at - i.last) ELSE i.total]

\* The first sample, and one after more than three intervals, is a baseline.
IoSample(i, at, rate) ==
    [started |-> TRUE,
     last |-> at,
     total |-> IF i.started /\ at > i.last /\ at - i.last <= MaxGap
               THEN i.total + rate * (at - i.last) ELSE i.total]

------------------------------------------------------------------------------
Counters == Devices \X EccCalls
Ports    == Devices \X IoCalls

Init ==
    /\ now = 0
    /\ nvml = "unopened"
    /\ pc = "ready"
    /\ initOnce = FALSE
    /\ initOK = FALSE
    /\ collector = {}
    /\ todo = {}
    /\ next = 0
    /\ scrapedAt = 0
    /\ succeeded = 0
    /\ handle = {}
    /\ lost = {}
    /\ unsupported = [d \in Devices |-> {}]
    /\ ecc = [x \in Counters |-> NewEcc]
    /\ io = [x \in Ports |-> NewIo]
    /\ raw \in [Counters -> 0 .. 1]
    /\ happened = [x \in Counters |-> 0]
    /\ errors = [x \in Counters |-> 0]
    /\ bytes = [x \in Ports |-> 0]
    /\ status = [d \in Devices |-> "none"]
    /\ answered = [d \in Devices |-> {}]

------------------------------------------------------------------------------
(* The first scrape. *)

\* port.Init fails: the receiver is disabled until the collector restarts.
InitFails ==
    /\ pc = "ready"
    /\ ~initOnce
    /\ initOnce' = TRUE
    /\ UNCHANGED <<now, pc, todo, next, scrapedAt, succeeded, status, answered,
                   nvml, initOK, collector, device, totals, world>>

\* Mutant: initOK is set only once the collector is built.
InitOpensLate ==
    /\ pc = "ready"
    /\ ~initOnce
    /\ initOnce' = TRUE
    /\ nvml' = "open"
    /\ collector' \in SUBSET Devices
    /\ initOK' = (collector' # {})
    /\ UNCHANGED <<now, pc, todo, next, scrapedAt, succeeded, status, answered,
                   device, totals, world>>

\* port.Init succeeds.  No GPU is usable when DeviceCount fails or counts none,
\* or when each one fails to tell its handle, UUID or name.
InitOpens ==
    /\ pc = "ready"
    /\ ~initOnce
    /\ initOnce' = TRUE
    /\ nvml' = "open"
    /\ initOK' = TRUE
    /\ collector' \in SUBSET Devices
    /\ UNCHANGED <<now, pc, todo, next, scrapedAt, succeeded, status, answered,
                   device, totals, world>>

------------------------------------------------------------------------------
(* Collect. *)

Collect ==
    /\ pc = "ready"
    /\ collector # {}
    /\ pc' = "reading"
    /\ todo' = collector
    /\ scrapedAt' = now
    /\ UNCHANGED <<now, next, succeeded, status, answered, library, device, totals, world>>

\* d is the GPU being read, or the one to be read next: they go by index.
Current(d) == pc = "reading" /\ d \in todo /\ \A e \in todo : d <= e

\* emitStatus: one of three states; all three are 0 in the unknown one.
StatusOf(isLost, known) ==
    IF isLost THEN "failed" ELSE IF known THEN "ok" ELSE "unknown"

\* recordFailure for a failed call.
Fails(d, call, kind) ==
    /\ unsupported' = [unsupported EXCEPT
                          ![d] = IF kind = "NotSupported" THEN @ \cup {call} ELSE @]
    /\ lost' = IF kind = "GPULost" THEN lost \cup {d} ELSE lost

Finish(d, isLost, known) ==
    /\ todo' = todo \ {d}
    /\ next' = 0
    /\ status' = [status EXCEPT ![d] = StatusOf(isLost, known)]

\* A GPU that is lost is not asked anything.
SkipLost(d) ==
    /\ Current(d)
    /\ next = 0
    /\ d \in lost
    /\ Finish(d, TRUE, FALSE)
    /\ answered' = [answered EXCEPT ![d] = {}]
    /\ UNCHANGED <<now, pc, scrapedAt, succeeded, library, device, totals, world>>

\* deviceHandle finds the handle, cached or by a call that succeeds.
OpenDevice(d) ==
    /\ Current(d)
    /\ next = 0
    /\ d \notin lost
    /\ handle' = handle \cup {d}
    /\ next' = 1
    /\ succeeded' = 0
    /\ answered' = [answered EXCEPT ![d] = {}]
    /\ UNCHANGED <<now, pc, todo, scrapedAt, status, library, lost, unsupported, totals, world>>

\* deviceHandle fails: a failed call, after which hw.status is all there is.
OpenFails(d) ==
    /\ Current(d)
    /\ next = 0
    /\ d \notin lost \cup handle
    /\ \E kind \in ErrorKinds :
         /\ Fails(d, "Device", kind)
         /\ Finish(d, kind = "GPULost", FALSE)
    /\ answered' = [answered EXCEPT ![d] = {}]
    /\ UNCHANGED <<now, pc, scrapedAt, succeeded, library, handle, totals, world>>

Reading(d) == Current(d) /\ next \in 1 .. Len(Reads)

\* Mutant: a call made to a lost GPU, as if the check were made per scrape.
SkippedUnlessUnsupported(d, call) == call \in unsupported[d]

\* query makes no call that is known to be useless.
Skipped(d, call) == d \in lost \/ call \in unsupported[d]

QuerySkips(d) ==
    /\ Reading(d)
    /\ Skipped(d, Reads[next])
    /\ next' = next + 1
    /\ UNCHANGED <<now, pc, todo, scrapedAt, succeeded, status, answered,
                   library, device, totals, world>>

QueryFails(d) ==
    /\ Reading(d)
    /\ ~Skipped(d, Reads[next])
    /\ \E kind \in ErrorKinds : Fails(d, Reads[next], kind)
    /\ next' = next + 1
    /\ UNCHANGED <<now, pc, todo, scrapedAt, succeeded, status, answered,
                   library, handle, totals, world>>

\* The call answers; an ECC or PCIe reading is folded in and its total emitted.
QueryAnswers(d) ==
    /\ Reading(d)
    /\ LET call == Reads[next]
           x    == <<d, call>>
       IN  /\ ~Skipped(d, call)
           /\ IF call \in EccCalls
              THEN /\ ecc' = [ecc EXCEPT ![x] = EccSample(@, raw[x])]
                   /\ errors' = [errors EXCEPT ![x] = EccTotal(ecc'[x])]
              ELSE UNCHANGED <<ecc, errors>>
           /\ IF call \in IoCalls
              THEN \E rate \in Rates :
                     /\ io' = [io EXCEPT ![x] = IoSample(@, scrapedAt, rate)]
                     /\ bytes' = [bytes EXCEPT ![x] = io'[x].total]
              ELSE UNCHANGED <<io, bytes>>
           /\ answered' = [answered EXCEPT ![d] = @ \cup {call}]
    /\ succeeded' = succeeded + 1
    /\ next' = next + 1
    /\ UNCHANGED <<now, pc, todo, scrapedAt, status, library, device, world>>

\* Mutant: a GPU that answered before it was lost counts as ok.
EndDeviceTrustingAnswers(d) ==
    /\ Current(d)
    /\ next > Len(Reads)
    /\ Finish(d, d \in lost /\ succeeded = 0, succeeded > 0)
    /\ UNCHANGED <<now, pc, scrapedAt, succeeded, answered, library, device, totals, world>>

EndDevice(d) ==
    /\ Current(d)
    /\ next > Len(Reads)
    /\ Finish(d, d \in lost, d \in lost \/ succeeded > 0)
    /\ UNCHANGED <<now, pc, scrapedAt, succeeded, answered, library, device, totals, world>>

EndScrape ==
    /\ pc = "reading"
    /\ todo = {}
    /\ pc' = "ready"
    /\ UNCHANGED <<now, todo, next, scrapedAt, succeeded, status, answered,
                   library, device, totals, world>>

\* The collector reference stays; no scrape follows a shutdown.
Shutdown ==
    /\ pc = "ready"
    /\ pc' = "down"
    /\ nvml' = IF initOK THEN "closed" ELSE nvml
    /\ initOK' = FALSE
    /\ UNCHANGED <<now, todo, next, scrapedAt, succeeded, status, answered,
                   initOnce, collector, device, totals, world>>

------------------------------------------------------------------------------
(* The environment. *)

\* An ECC error.  One before the receiver's first reading is not its to report.
ErrorHappens(x) ==
    /\ raw[x] < MaxErrors
    /\ raw' = [raw EXCEPT ![x] = @ + 1]
    /\ happened' = [happened EXCEPT ![x] = IF ecc[x].started THEN @ + 1 ELSE @]
    /\ happened'[x] <= MaxErrors
    /\ UNCHANGED <<now, pc, todo, next, scrapedAt, succeeded, status, answered,
                   library, device, totals>>

\* The driver of a GPU reloads, which clears its volatile counters.
Reload(d) ==
    /\ raw' = [x \in Counters |-> IF x[1] = d THEN 0 ELSE raw[x]]
    /\ UNCHANGED <<now, pc, todo, next, scrapedAt, succeeded, status, answered,
                   library, device, totals, happened>>

TimePasses ==
    /\ now < MaxTime
    /\ now' = now + 1
    /\ UNCHANGED <<pc, todo, next, scrapedAt, succeeded, status, answered,
                   library, device, totals, world>>

Next ==
    \/ InitFails \/ InitOpens
    \/ Collect \/ EndScrape \/ Shutdown
    \/ \E d \in Devices :
         \/ SkipLost(d) \/ OpenDevice(d) \/ OpenFails(d) \/ EndDevice(d)
         \/ QuerySkips(d) \/ QueryFails(d) \/ QueryAnswers(d)
         \/ Reload(d)
    \/ \E x \in Counters : ErrorHappens(x)
    \/ TimePasses

Spec == Init /\ [][Next]_vars
------------------------------------------------------------------------------
(* Properties. *)

EccState == [started : BOOLEAN, baseline : Nat, previous : Nat, total : Nat]
IoState  == [started : BOOLEAN, last : 0 .. MaxTime, total : Nat]

\* The state has its type: only enumerated GPUs are read, a failed call is
\* remembered under a call name, integrators hold counts, never negative ones.
TypeOK ==
    /\ now \in 0 .. MaxTime
    /\ nvml \in {"unopened", "open", "closed"}
    /\ pc \in {"ready", "reading", "down"}
    /\ initOnce \in BOOLEAN
    /\ initOK \in BOOLEAN
    /\ collector \subseteq Devices
    /\ todo \subseteq IF pc = "reading" THEN collector ELSE {}
    /\ next \in 0 .. Len(Reads) + 1
    /\ scrapedAt \in 0 .. now
    /\ succeeded \in Nat
    /\ handle \subseteq Devices
    /\ lost \subseteq Devices
    /\ unsupported \in [Devices -> SUBSET (Calls \cup {"Device"})]
    /\ ecc \in [Counters -> EccState]
    /\ io \in [Ports -> IoState]
    /\ raw \in [Counters -> Nat]
    /\ happened \in [Counters -> Nat]
    /\ errors \in [Counters -> Nat]
    /\ bytes \in [Ports -> Nat]
    /\ status \in [Devices -> {"none", "unknown", "ok", "failed"}]
    /\ answered \in [Devices -> SUBSET Calls]

\* hw.errors counts no error that did not happen since the first reading,
\* wherever driver reloads fall between readings.
ErrorsNotInvented == \A x \in Counters : errors[x] <= happened[x]

\* hw.errors is a cumulative counter: a later point is never below an earlier
\* one, although the raw counter falls at each driver reload.
ErrorsNeverFall == [][\A x \in Counters : errors'[x] >= errors[x]]_vars

\* hw.gpu.io never falls, and one point adds at most what the highest rate moves
\* in three collection intervals, however long the GPU did not answer.
IoStepsBounded ==
    [][\A x \in Ports : \E rate \in Rates \cup {0} :
         bytes'[x] - bytes[x] \in 0 .. rate * MaxGap]_vars

\* A lost GPU stays lost until restart, answers nothing more, and its counters
\* stop.
LostIsFinal ==
    [][\A d \in lost :
         /\ d \in lost'
         /\ answered'[d] \subseteq answered[d]
         /\ \A c \in EccCalls : errors'[<<d, c>>] = errors[<<d, c>>]
         /\ \A c \in IoCalls : bytes'[<<d, c>>] = bytes[<<d, c>>]]_vars

\* Once a scrape has finished a GPU, hw.status says ok exactly if at least one
\* enabled call succeeded in it and the GPU has not reported to be lost.
StatusIsHonest ==
    \A d \in Devices :
        (pc # "reading" \/ d \notin todo) /\ status[d] # "none" =>
            /\ (status[d] = "ok") <=> (answered[d] # {} /\ d \notin lost)
            /\ (status[d] = "failed") <=> (d \in lost)

\* GPUs are read only while NVML is open, and Shutdown leaves it closed if it
\* was ever opened, also when no GPU was usable.
LibraryIsReleased ==
    /\ pc = "reading" => nvml = "open"
    /\ pc = "down" => nvml # "open"
===============================================================================
