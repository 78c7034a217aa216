-------------------------- MODULE GpuReceiverProofs --------------------------
(***************************************************************************)
(* Proofs about the gpu receiver, for every set of GPUs and calls: what it *)
(* reports never falls, never exceeds what happened, and is honest about   *)
(* GPUs that stop answering.                                               *)
(*                                                                         *)
(* The counters need an invariant that says how far NVML's raw counter is  *)
(* from the last reading: errors the next reading will add have happened.  *)
(***************************************************************************)
EXTENDS GpuReceiver, TLAPS

------------------------------------------------------------------------------
(* What the integrators return. *)

EccOK(e) ==
    /\ e \in EccState
    /\ e.baseline <= e.previous
    /\ ~e.started => e = NewEcc

\* What the next reading of raw counter r adds to the total of integrator e.
EccGrowth(e, r) == IF r < e.previous THEN r ELSE r - e.previous

\* A reading of a started ECC integrator adds exactly what it should: the whole
\* counter after a reload that shows, the difference otherwise.
LEMMA EccSampleGrows ==
    ASSUME NEW e, EccOK(e), NEW r \in Nat
    PROVE  /\ EccOK(EccSample(e, r))
           /\ EccSample(e, r).started
           /\ EccSample(e, r).previous = r
           /\ EccTotal(EccSample(e, r)) =
                EccTotal(e) + (IF e.started THEN EccGrowth(e, r) ELSE 0)
           /\ EccTotal(EccSample(e, r)) \in Nat
           /\ EccTotal(e) \in Nat
<1>1. CASE ~e.started
  BY <1>1 DEF EccOK, EccState, EccSample, EccTotal, NewEcc
<1>2. CASE e.started /\ r < e.previous
  <2>1. EccSample(e, r) = [started |-> TRUE, baseline |-> r, previous |-> r,
                           total |-> e.total + (e.previous - e.baseline) + r]
    BY <1>2 DEF EccOK, EccState, EccSample
  <2>2. QED
    BY <1>2, <2>1 DEF EccOK, EccState, EccTotal, EccGrowth
<1>3. CASE e.started /\ ~(r < e.previous)
  <2>1. EccSample(e, r) = [started |-> TRUE, baseline |-> e.baseline, previous |-> r,
                           total |-> e.total]
    BY <1>3 DEF EccOK, EccState, EccSample
  <2>2. QED
    BY <1>3, <2>1 DEF EccOK, EccState, EccTotal, EccGrowth
<1>4. QED
  BY <1>1, <1>2, <1>3

LEMMA ProductGrows ==
    ASSUME NEW a \in Nat, NEW b \in Nat, NEW r \in Nat, a <= b
    PROVE  r * a \in Nat /\ r * a <= r * b
OBVIOUS

\* A PCIe sample keeps the total or adds the rate over a gap of at most MaxGap.
LEMMA IoSampleGrows ==
    ASSUME NEW i \in IoState, NEW at \in 0 .. MaxTime, NEW rate \in Nat
    PROVE  /\ IoSample(i, at, rate) \in IoState
           /\ IoSample(i, at, rate).total - i.total \in 0 .. rate * MaxGap
<1>0. MaxGap \in Nat
  BY CallsAssumption DEF MaxGap
<1>1. CASE i.started /\ at > i.last /\ at - i.last <= MaxGap
  <2>1. at - i.last \in Nat
    BY <1>1, CallsAssumption DEF IoState
  <2>2. /\ rate * (at - i.last) \in Nat
        /\ rate * (at - i.last) <= rate * MaxGap
    BY <1>0, <1>1, <2>1, ProductGrows
  <2>3. IoSample(i, at, rate) =
          [started |-> TRUE, last |-> at, total |-> i.total + rate * (at - i.last)]
    BY <1>1 DEF IoSample
  <2>4. rate * MaxGap \in Nat
    BY <1>0, ProductGrows
  <2>5. i.total \in Nat
    BY DEF IoState
  <2> DEFINE inc == rate * (at - i.last)
             most == rate * MaxGap
  <2>6. /\ inc \in Nat
        /\ most \in Nat
        /\ inc <= most
    BY <2>2, <2>4
  <2>7. IoSample(i, at, rate) = [started |-> TRUE, last |-> at, total |-> i.total + inc]
    BY <2>3
  <2> HIDE DEF inc, most
  <2>8. IoSample(i, at, rate) \in IoState /\ IoSample(i, at, rate).total - i.total \in 0 .. most
    BY <2>5, <2>6, <2>7 DEF IoState
  <2>9. QED
    BY <2>8 DEF most
<1>2. CASE ~(i.started /\ at > i.last /\ at - i.last <= MaxGap)
  <2>1. IoSample(i, at, rate) = [started |-> TRUE, last |-> at, total |-> i.total]
    BY <1>2 DEF IoSample
  <2>2. rate * MaxGap \in Nat
    BY <1>0, ProductGrows
  <2>3. QED
    BY <2>1, <2>2 DEF IoState
<1>3. QED
  BY <1>1, <1>2

------------------------------------------------------------------------------
(* Type correctness. *)

LEMMA LenIsNat == Len(Reads) \in Nat /\ \A i \in 1 .. Len(Reads) : Reads[i] \in Calls
BY CallsAssumption DEF Calls

LEMMA TypeInit == Init => TypeOK
<1>1. SUFFICES ASSUME Init PROVE TypeOK
  OBVIOUS
<1>2. NewEcc \in EccState /\ NewIo \in IoState
  BY CallsAssumption DEF NewEcc, NewIo, EccState, IoState
<1>3. raw \in [Counters -> Nat]
  BY <1>1 DEF Init
<1>4. /\ ecc \in [Counters -> EccState] /\ io \in [Ports -> IoState]
      /\ happened \in [Counters -> Nat] /\ errors \in [Counters -> Nat]
      /\ bytes \in [Ports -> Nat]
  BY <1>1, <1>2 DEF Init
<1>5. /\ unsupported \in [Devices -> SUBSET (Calls \cup {"Device"})]
      /\ status \in [Devices -> {"none", "unknown", "ok", "failed"}]
      /\ answered \in [Devices -> SUBSET Calls]
  BY <1>1 DEF Init
<1>6. now \in 0 .. MaxTime /\ next \in 0 .. Len(Reads) + 1
  BY <1>1, LenIsNat, CallsAssumption DEF Init
<1>8. initOnce \in BOOLEAN /\ initOK \in BOOLEAN
  BY <1>1, Zenon DEF Init
<1>7. /\ nvml \in {"unopened", "open", "closed"} /\ pc \in {"ready", "reading", "down"}
      /\ collector \subseteq Devices
      /\ todo \subseteq IF pc = "reading" THEN collector ELSE {}
      /\ scrapedAt \in 0 .. now /\ succeeded \in Nat
      /\ handle \subseteq Devices /\ lost \subseteq Devices
  BY <1>1 DEF Init
<1>9. QED
  BY <1>8, <1>3, <1>4, <1>5, <1>6, <1>7 DEF TypeOK

\* The steps that leave the integrators alone.
LEMMA TypeStepQuiet ==
    ASSUME TypeOK, UNCHANGED <<totals, world>>,
           InitFails \/ InitOpens \/ Collect \/ EndScrape \/ Shutdown
    PROVE  TypeOK'
<1>1. CASE InitFails
  BY <1>1 DEF TypeOK, InitFails, library, device, totals, world
<1>2. CASE InitOpens
  BY <1>2 DEF TypeOK, InitOpens, device, totals, world
<1>3. CASE Collect
  BY <1>3 DEF TypeOK, Collect, library, device, totals, world
<1>4. CASE EndScrape
  BY <1>4 DEF TypeOK, EndScrape, library, device, totals, world
<1>5. CASE Shutdown
  BY <1>5 DEF TypeOK, Shutdown, library, device, totals, world
<1>6. QED
  BY <1>1, <1>2, <1>3, <1>4, <1>5

LEMMA TypeStepDevice ==
    ASSUME TypeOK, NEW d \in Devices,
           \/ SkipLost(d) \/ OpenDevice(d) \/ OpenFails(d)
           \/ EndDevice(d) \/ QuerySkips(d) \/ QueryFails(d)
    PROVE  TypeOK'
<1>0. Len(Reads) \in Nat
  BY LenIsNat
<1>1. CASE SkipLost(d)
  BY <1>0, <1>1 DEF TypeOK, SkipLost, Finish, StatusOf, library, device, totals, world
<1>2. CASE OpenDevice(d)
  BY <1>0, <1>2 DEF TypeOK, OpenDevice, library, totals, world
<1>3. CASE OpenFails(d)
  BY <1>0, <1>3 DEF TypeOK, OpenFails, Fails, Finish, StatusOf, library, totals, world
<1>4. CASE EndDevice(d)
  BY <1>0, <1>4 DEF TypeOK, EndDevice, Finish, StatusOf, library, device, totals, world
<1>5. CASE QuerySkips(d)
  BY <1>0, <1>5 DEF TypeOK, QuerySkips, Reading, library, device, totals, world
<1>6. CASE QueryFails(d)
  <2>1. Reads[next] \in Calls
    BY <1>6, LenIsNat DEF QueryFails, Reading
  <2>2. QED
    BY <1>0, <1>6, <2>1 DEF TypeOK, QueryFails, Reading, Fails, library, totals, world
<1>7. QED
  BY <1>1, <1>2, <1>3, <1>4, <1>5, <1>6

\* What an answer of GPU d does to the totals, given well-formed integrators.
EccInv == \A x \in Counters : EccOK(ecc[x])

LEMMA EccAnswer ==
    ASSUME TypeOK, EccInv, NEW d \in Devices, QueryAnswers(d)
    PROVE  /\ ecc' \in [Counters -> EccState]
           /\ errors' \in [Counters -> Nat]
           /\ EccInv'
           /\ \A x \in Counters :
                \/ ecc'[x] = ecc[x] /\ errors'[x] = errors[x]
                \/ /\ x = <<d, Reads[next]>>
                   /\ ~Skipped(d, Reads[next])
                   /\ ecc'[x] = EccSample(ecc[x], raw[x])
                   /\ errors'[x] = EccTotal(ecc'[x])
<1> DEFINE call == Reads[next]
           x == <<d, call>>
<1>1. CASE call \in EccCalls
  <2>1. x \in Counters
    BY <1>1 DEF Counters
  <2>2. EccOK(ecc[x]) /\ raw[x] \in Nat
    BY <2>1 DEF EccInv, TypeOK
  <2>3. /\ EccOK(EccSample(ecc[x], raw[x]))
        /\ EccTotal(EccSample(ecc[x], raw[x])) \in Nat
    BY <2>2, EccSampleGrows
  <2>4. /\ ecc' = [ecc EXCEPT ![x] = EccSample(ecc[x], raw[x])]
        /\ errors' = [errors EXCEPT ![x] = EccTotal(ecc'[x])]
        /\ ~Skipped(d, call)
    BY <1>1 DEF QueryAnswers
  <2>5. ecc'[x] = EccSample(ecc[x], raw[x])
    BY <2>1, <2>4 DEF TypeOK
  <2>6. \A y \in Counters : y # x => ecc'[y] = ecc[y] /\ errors'[y] = errors[y]
    BY <2>1, <2>4 DEF TypeOK
  <2>7. errors'[x] = EccTotal(ecc'[x])
    BY <2>1, <2>4 DEF TypeOK
  <2>8. ecc' \in [Counters -> EccState]
    BY <2>3, <2>4 DEF TypeOK, EccOK
  <2>9. errors' \in [Counters -> Nat]
    BY <2>3, <2>4, <2>5 DEF TypeOK
  <2>10. \A y \in Counters : EccOK(ecc'[y])
    BY <2>3, <2>5, <2>6 DEF EccInv
  <2>11. QED
    BY <2>4, <2>5, <2>6, <2>7, <2>8, <2>9, <2>10 DEF EccInv
<1>2. CASE call \notin EccCalls
  <2>1. UNCHANGED <<ecc, errors>>
    BY <1>2 DEF QueryAnswers
  <2>2. QED
    BY <2>1 DEF TypeOK, EccInv
<1>3. QED
  BY <1>1, <1>2

\* bytes is what the PCIe integrators hold.
IoInv == \A x \in Ports : bytes[x] = io[x].total

LEMMA IoAnswer ==
    ASSUME TypeOK, IoInv, NEW d \in Devices, QueryAnswers(d)
    PROVE  /\ io' \in [Ports -> IoState]
           /\ bytes' \in [Ports -> Nat]
           /\ IoInv'
           /\ \A x \in Ports :
                \/ bytes'[x] = bytes[x]
                \/ /\ x = <<d, Reads[next]>>
                   /\ ~Skipped(d, Reads[next])
                   /\ \E rate \in Rates : bytes'[x] - bytes[x] \in 0 .. rate * MaxGap
<1> DEFINE call == Reads[next]
           x == <<d, call>>
<1>1. CASE call \in IoCalls
  <2>1. x \in Ports
    BY <1>1 DEF Ports
  <2>2. PICK rate \in Rates :
          /\ io' = [io EXCEPT ![x] = IoSample(io[x], scrapedAt, rate)]
          /\ bytes' = [bytes EXCEPT ![x] = io'[x].total]
          /\ ~Skipped(d, call)
    BY <1>1 DEF QueryAnswers
  <2>3. io[x] \in IoState /\ scrapedAt \in 0 .. MaxTime /\ rate \in Nat
    BY <2>1, CallsAssumption DEF TypeOK
  <2>4. /\ IoSample(io[x], scrapedAt, rate) \in IoState
        /\ IoSample(io[x], scrapedAt, rate).total - io[x].total \in 0 .. rate * MaxGap
    BY <2>3, IoSampleGrows
  <2>5. /\ io'[x] = IoSample(io[x], scrapedAt, rate)
        /\ \A y \in Ports : y # x => io'[y] = io[y] /\ bytes'[y] = bytes[y]
        /\ bytes'[x] = io'[x].total
    BY <2>1, <2>2 DEF TypeOK
  <2>6. io' \in [Ports -> IoState]
    BY <2>2, <2>4 DEF TypeOK
  <2>7. io'[x].total \in Nat
    BY <2>4, <2>5 DEF IoState
  <2>8. bytes' \in [Ports -> Nat]
    BY <2>2, <2>7 DEF TypeOK
  <2>9. IoInv'
    BY <2>5 DEF IoInv
  <2>10. bytes'[x] - bytes[x] \in 0 .. rate * MaxGap
    BY <2>1, <2>4, <2>5 DEF IoInv
  <2>11. QED
    BY <2>2, <2>5, <2>6, <2>8, <2>9, <2>10
<1>2. CASE call \notin IoCalls
  <2>1. UNCHANGED <<io, bytes>>
    BY <1>2 DEF QueryAnswers
  <2>2. QED
    BY <2>1 DEF TypeOK, IoInv
<1>3. QED
  BY <1>1, <1>2

LEMMA TypeStepAnswer ==
    ASSUME TypeOK, EccInv, IoInv, NEW d \in Devices, QueryAnswers(d)
    PROVE  TypeOK'
<1>1. /\ ecc' \in [Counters -> EccState] /\ errors' \in [Counters -> Nat]
      /\ io' \in [Ports -> IoState] /\ bytes' \in [Ports -> Nat]
  BY EccAnswer, IoAnswer
<1>2. Reads[next] \in Calls /\ Len(Reads) \in Nat /\ next \in 1 .. Len(Reads)
  BY LenIsNat DEF QueryAnswers, Reading
<1>3. /\ answered' = [answered EXCEPT ![d] = @ \cup {Reads[next]}]
      /\ succeeded' = succeeded + 1
      /\ next' = next + 1
      /\ UNCHANGED <<now, pc, todo, scrapedAt, status, library, device, world>>
  BY DEF QueryAnswers
<1>4. QED
  BY <1>1, <1>2, <1>3 DEF TypeOK, library, device, world

LEMMA TypeStepWorld ==
    ASSUME TypeOK,
           (\E x \in Counters : ErrorHappens(x)) \/ (\E d \in Devices : Reload(d)) \/ TimePasses
    PROVE  TypeOK'
<1>1. CASE \E x \in Counters : ErrorHappens(x)
  <2>1. PICK x \in Counters : ErrorHappens(x)
    BY <1>1
  <2>2. raw' \in [Counters -> Nat] /\ happened' \in [Counters -> Nat]
    BY <2>1 DEF TypeOK, ErrorHappens
  <2>3. QED
    BY <2>1, <2>2 DEF TypeOK, ErrorHappens, library, device, totals
<1>2. CASE \E d \in Devices : Reload(d)
  <2>1. PICK d \in Devices : Reload(d)
    BY <1>2
  <2>2. raw' \in [Counters -> Nat]
    BY <2>1 DEF TypeOK, Reload
  <2>3. QED
    BY <2>1, <2>2 DEF TypeOK, Reload, library, device, totals
<1>3. CASE TimePasses
  BY <1>3, CallsAssumption DEF TypeOK, TimePasses, library, device, totals, world
<1>4. QED
  BY <1>1, <1>2, <1>3

------------------------------------------------------------------------------
(* The inductive invariant. *)

\* The next reading of a counter will add no more than has happened since.
CountInv ==
    \A x \in Counters :
        /\ errors[x] = EccTotal(ecc[x])
        /\ errors[x] + (IF ecc[x].started THEN EccGrowth(ecc[x], raw[x]) ELSE 0)
              <= happened[x]

\* initOK remembers that NVML is open; only an open library has GPUs.
LibraryInv ==
    /\ (initOK = TRUE) <=> nvml = "open"
    /\ initOnce = FALSE => nvml = "unopened" /\ collector = {}
    /\ collector # {} /\ pc # "down" => nvml = "open"
    /\ pc = "reading" => collector # {}
    /\ pc = "down" => nvml # "open"

\* While a GPU is read, succeeded tells whether it has answered.
AnswerInv ==
    /\ todo = {} => next = 0
    /\ \A d \in Devices :
          Current(d) /\ next > 0 => (succeeded > 0 <=> answered[d] # {})

IInv ==
    /\ TypeOK
    /\ EccInv
    /\ IoInv
    /\ CountInv
    /\ LibraryInv
    /\ AnswerInv
    /\ StatusIsHonest

LEMMA InitInv == Init => IInv
<1>1. SUFFICES ASSUME Init PROVE IInv
  OBVIOUS
<1>2. TypeOK
  BY <1>1, TypeInit
<1>3. EccInv
  BY <1>1 DEF Init, EccInv, EccOK, EccState, NewEcc
<1>4. IoInv
  BY <1>1 DEF Init, IoInv, NewIo
<1>5. CountInv
  BY <1>1 DEF Init, CountInv, EccTotal, NewEcc
<1>6. LibraryInv
  <2>1. initOK = FALSE /\ nvml = "unopened" /\ pc = "ready" /\ collector = {}
    BY <1>1, Zenon DEF Init
  <2>2. QED
    BY <2>1 DEF LibraryInv
<1>7. AnswerInv
  BY <1>1 DEF Init, AnswerInv, Current
<1>8. StatusIsHonest
  BY <1>1 DEF Init, StatusIsHonest
<1>9. QED
  BY <1>2, <1>3, <1>4, <1>5, <1>6, <1>7, <1>8 DEF IInv

\* An ECC counter: an answer takes over what was pending, an error is pending
\* and has happened, a reload leaves nothing pending.
LEMMA CountAnswer ==
    ASSUME TypeOK, EccInv, CountInv, NEW d \in Devices, QueryAnswers(d)
    PROVE  CountInv' /\ \A x \in Counters : errors'[x] >= errors[x]
<1>1. SUFFICES ASSUME NEW x \in Counters
      PROVE  /\ errors'[x] = EccTotal(ecc'[x])
             /\ errors'[x] + (IF ecc'[x].started THEN EccGrowth(ecc'[x], raw'[x]) ELSE 0)
                   <= happened'[x]
             /\ errors'[x] >= errors[x]
  BY DEF CountInv
<1>2. raw'[x] = raw[x] /\ happened'[x] = happened[x]
  BY DEF QueryAnswers, world
<1>3. /\ errors[x] = EccTotal(ecc[x])
      /\ errors[x] + (IF ecc[x].started THEN EccGrowth(ecc[x], raw[x]) ELSE 0) <= happened[x]
      /\ EccOK(ecc[x]) /\ errors[x] \in Nat /\ raw[x] \in Nat /\ happened[x] \in Nat
  BY DEF CountInv, EccInv, TypeOK
<1>4. CASE ecc'[x] = ecc[x] /\ errors'[x] = errors[x]
  BY <1>2, <1>3, <1>4
<1>5. CASE ecc'[x] = EccSample(ecc[x], raw[x]) /\ errors'[x] = EccTotal(ecc'[x])
  <2>0. EccOK(ecc[x]) /\ raw[x] \in Nat
    BY <1>3
  <2>5. /\ EccSample(ecc[x], raw[x]).started
        /\ EccSample(ecc[x], raw[x]).previous = raw[x]
        /\ EccTotal(EccSample(ecc[x], raw[x])) = EccTotal(ecc[x])
             + (IF ecc[x].started THEN EccGrowth(ecc[x], raw[x]) ELSE 0)
    BY <2>0, EccSampleGrows
  <2>1. /\ ecc'[x].started
        /\ ecc'[x].previous = raw[x]
        /\ EccTotal(ecc'[x]) = EccTotal(ecc[x])
             + (IF ecc[x].started THEN EccGrowth(ecc[x], raw[x]) ELSE 0)
    BY <1>5, <2>5, Zenon
  <2>2. EccGrowth(ecc'[x], raw'[x]) = 0
    BY <1>2, <1>3, <2>1 DEF EccGrowth
  <2>3. ecc[x].started => EccGrowth(ecc[x], raw[x]) \in Nat
    BY <1>3 DEF EccGrowth, EccOK, EccState
  <2>4. QED
    BY <1>2, <1>3, <1>5, <2>1, <2>2, <2>3
<1>6. QED
  BY <1>4, <1>5, EccAnswer

LEMMA CountWorld ==
    ASSUME TypeOK, EccInv, CountInv,
           (\E x \in Counters : ErrorHappens(x)) \/ (\E d \in Devices : Reload(d))
    PROVE  CountInv'
<1>1. SUFFICES ASSUME NEW x \in Counters
      PROVE  /\ errors'[x] = EccTotal(ecc'[x])
             /\ errors'[x] + (IF ecc'[x].started THEN EccGrowth(ecc'[x], raw'[x]) ELSE 0)
                   <= happened'[x]
  BY DEF CountInv
<1>2. /\ errors[x] = EccTotal(ecc[x])
      /\ errors[x] + (IF ecc[x].started THEN EccGrowth(ecc[x], raw[x]) ELSE 0) <= happened[x]
      /\ EccOK(ecc[x]) /\ errors[x] \in Nat /\ raw[x] \in Nat /\ happened[x] \in Nat
  BY DEF CountInv, EccInv, TypeOK
<1>3. ecc' = ecc /\ errors' = errors
  BY DEF ErrorHappens, Reload, totals
<1>4. \/ raw'[x] = raw[x] /\ happened'[x] = happened[x]
      \/ /\ raw'[x] = raw[x] + 1
         /\ happened'[x] = IF ecc[x].started THEN happened[x] + 1 ELSE happened[x]
      \/ raw'[x] = 0 /\ happened'[x] = happened[x]
  BY DEF ErrorHappens, Reload, TypeOK
<1>5. QED
  BY <1>2, <1>3, <1>4 DEF EccGrowth, EccOK, EccState

LEMMA LibraryStep ==
    ASSUME TypeOK, LibraryInv, [Next]_vars
    PROVE  LibraryInv'
<1>1. CASE InitFails
  BY <1>1 DEF LibraryInv, InitFails
<1>2. CASE InitOpens
  BY <1>2 DEF LibraryInv, InitOpens
<1>3. CASE Shutdown
  <2>1. initOK' = FALSE /\ nvml' # "open" /\ UNCHANGED <<initOnce, collector>>
    BY <1>3, Zenon DEF LibraryInv, Shutdown, TypeOK
  <2>2. pc' = "down" /\ (initOnce = FALSE => nvml' = "unopened")
    BY <1>3 DEF LibraryInv, Shutdown, TypeOK
  <2>3. QED
    BY <2>1, <2>2 DEF LibraryInv
<1>4. CASE Collect
  BY <1>4 DEF LibraryInv, Collect, library
<1>5. CASE UNCHANGED library /\ (pc' = pc \/ (pc = "reading" /\ pc' = "ready"))
  BY <1>5 DEF LibraryInv, library
<1>6. QED
  BY <1>1, <1>2, <1>3, <1>4, <1>5
     DEF Next, vars, SkipLost, OpenDevice, OpenFails, EndDevice, EndScrape, QuerySkips,
         QueryFails, QueryAnswers, Reload, ErrorHappens, TimePasses

\* One GPU is read at a time.
LEMMA CurrentIsUnique ==
    ASSUME NEW d \in Devices, NEW e \in Devices, Current(d), Current(e)
    PROVE  d = e
<1>1. d \in Nat /\ e \in Nat
  BY DevicesAssumption
<1>2. QED
  BY <1>1 DEF Current

\* Where the steps that finish a GPU leave the scrape.
LEMMA FinishStep ==
    ASSUME NEW d \in Devices, SkipLost(d) \/ OpenFails(d) \/ EndDevice(d)
    PROVE  next' = 0 /\ todo' = todo \ {d} /\ pc' = pc
BY DEF SkipLost, OpenFails, EndDevice, Finish, StatusOf

LEMMA AnswerStep ==
    ASSUME TypeOK, AnswerInv, [Next]_vars
    PROVE  AnswerInv'
<1>0. todo' = {} => next' = 0
  <2>1. CASE UNCHANGED <<todo, next>>
    BY <2>1 DEF AnswerInv
  <2>2. CASE Collect
    BY <2>2 DEF Collect
  <2>3. ASSUME NEW d \in Devices, SkipLost(d) \/ OpenFails(d) \/ EndDevice(d)
        PROVE  next' = 0
    BY <2>3, FinishStep
  <2>4. ASSUME NEW d \in Devices, OpenDevice(d) \/ QuerySkips(d) \/ QueryFails(d) \/ QueryAnswers(d)
        PROVE  todo' # {}
    BY <2>4 DEF OpenDevice, QuerySkips, QueryFails, QueryAnswers, Reading, Current
  <2>5. QED
    BY <2>1, <2>2, <2>3, <2>4
       DEF Next, vars, InitFails, InitOpens, EndScrape, Shutdown, Reload, ErrorHappens, TimePasses
<1>1. SUFFICES ASSUME NEW e \in Devices, Current(e)', next' > 0
               PROVE  succeeded' > 0 <=> answered'[e] # {}
  BY <1>0 DEF AnswerInv
<1>2. CASE UNCHANGED <<pc, todo, next, succeeded, answered>>
  BY <1>1, <1>2 DEF AnswerInv, Current
<1>3. CASE Collect
  <2>1. next = 0
    BY <1>3 DEF Collect, AnswerInv, TypeOK
  <2>2. QED
    BY <2>1, <1>1, <1>3 DEF Collect
<1>4. CASE EndScrape \/ Shutdown
  BY <1>1, <1>4 DEF EndScrape, Shutdown, Current
<1>5. ASSUME NEW d \in Devices, SkipLost(d) \/ OpenFails(d) \/ EndDevice(d)
      PROVE  FALSE
  BY <1>1, <1>5, FinishStep
<1>6. ASSUME NEW d \in Devices, OpenDevice(d)
      PROVE  succeeded' > 0 <=> answered'[e] # {}
  <2>1. Current(d) /\ Current(e)
    BY <1>1, <1>6 DEF OpenDevice, Current
  <2>2. d = e
    BY <2>1, CurrentIsUnique
  <2>3. QED
    BY <1>6, <2>2 DEF OpenDevice, TypeOK
<1>7. ASSUME NEW d \in Devices, QuerySkips(d) \/ QueryFails(d)
      PROVE  succeeded' > 0 <=> answered'[e] # {}
  <2>1. Current(e) /\ next > 0
    BY <1>1, <1>7 DEF QuerySkips, QueryFails, Reading, Current
  <2>2. QED
    BY <1>7, <2>1 DEF AnswerInv, QuerySkips, QueryFails
<1>8. ASSUME NEW d \in Devices, QueryAnswers(d)
      PROVE  succeeded' > 0 <=> answered'[e] # {}
  <2>1. Current(d) /\ Current(e)
    BY <1>1, <1>8 DEF QueryAnswers, Reading, Current
  <2>2. d = e
    BY <2>1, CurrentIsUnique
  <2>3. succeeded' > 0 /\ Reads[next] \in answered'[e]
    BY <1>8, <2>2 DEF QueryAnswers, TypeOK
  <2>4. QED
    BY <2>3
<1>9. QED
  BY <1>2, <1>3, <1>4, <1>5, <1>6, <1>7, <1>8
     DEF Next, vars, InitFails, InitOpens, Reload, ErrorHappens, TimePasses

\* What hw.status last said about a GPU is true of its last scrape.
LEMMA StatusStep ==
    ASSUME TypeOK, AnswerInv, LibraryInv, StatusIsHonest, [Next]_vars
    PROVE  StatusIsHonest'
<1>1. SUFFICES ASSUME NEW e \in Devices,
                      (pc # "reading" \/ e \notin todo)',
                      status'[e] # "none"
               PROVE  /\ (status'[e] = "ok") <=> (answered'[e] # {} /\ e \notin lost')
                      /\ (status'[e] = "failed") <=> (e \in lost')
  BY DEF StatusIsHonest
<1>2. CASE UNCHANGED <<status, answered, lost>> /\ (pc # "reading" \/ e \notin todo)
  BY <1>1, <1>2 DEF StatusIsHonest
<1>3. CASE UNCHANGED <<pc, todo, status, answered, lost>>
  BY <1>1, <1>2, <1>3
<1>4. CASE Collect \/ Shutdown
  BY <1>2, <1>4 DEF Collect, Shutdown, device
<1>5. CASE EndScrape
  BY <1>2, <1>5 DEF EndScrape, device
<1>6. ASSUME NEW d \in Devices, Current(d), d # e,
             /\ e \in lost <=> e \in lost'
             /\ pc' = pc
             /\ todo' = todo \/ todo' = todo \ {d}
             /\ status'[e] = status[e]
             /\ answered'[e] = answered[e]
      PROVE  /\ (status'[e] = "ok") <=> (answered'[e] # {} /\ e \notin lost')
             /\ (status'[e] = "failed") <=> (e \in lost')
  BY <1>1, <1>6 DEF StatusIsHonest
<1>7. ASSUME NEW d \in Devices, OpenDevice(d) \/ QueryFails(d) \/ QueryAnswers(d)
      PROVE  /\ (status'[e] = "ok") <=> (answered'[e] # {} /\ e \notin lost')
             /\ (status'[e] = "failed") <=> (e \in lost')
  <2>1. Current(d) /\ todo' = todo /\ pc' = pc /\ status' = status
    BY <1>7 DEF OpenDevice, QueryFails, QueryAnswers, Reading
  <2>2. d # e
    BY <1>1, <2>1 DEF Current
  <2>3. answered'[e] = answered[e]
    BY <1>7, <2>2 DEF OpenDevice, QueryFails, QueryAnswers, TypeOK
  <2>4. e \in lost <=> e \in lost'
    BY <1>7, <2>2 DEF OpenDevice, QueryFails, QueryAnswers, Fails, device
  <2>5. QED
    BY <1>6, <2>1, <2>2, <2>3, <2>4
<1>8. ASSUME NEW d \in Devices, SkipLost(d) \/ OpenFails(d) \/ EndDevice(d)
      PROVE  /\ (status'[e] = "ok") <=> (answered'[e] # {} /\ e \notin lost')
             /\ (status'[e] = "failed") <=> (e \in lost')
  <2>1. /\ Current(d)
        /\ pc' = pc
        /\ todo' = todo \ {d}
    BY <1>8, FinishStep DEF SkipLost, OpenFails, EndDevice
  <2>2. CASE d # e
    <3>1. status'[e] = status[e] /\ answered'[e] = answered[e]
      BY <1>8, <2>2 DEF SkipLost, OpenFails, EndDevice, Finish, StatusOf, TypeOK
    <3>2. e \in lost <=> e \in lost'
      BY <1>8, <2>2 DEF SkipLost, OpenFails, EndDevice, Fails, device
    <3>3. QED
      BY <1>6, <2>1, <2>2, <3>1, <3>2
  <2>3. CASE d = e /\ SkipLost(d)
    BY <2>3 DEF SkipLost, Finish, StatusOf, TypeOK, device
  <2>4. CASE d = e /\ OpenFails(d)
    <3>1. PICK kind \in ErrorKinds :
            /\ lost' = IF kind = "GPULost" THEN lost \cup {d} ELSE lost
            /\ status' = [status EXCEPT ![d] = StatusOf(kind = "GPULost", FALSE)]
      BY <2>4 DEF OpenFails, Fails, Finish
    <3>2. d \notin lost /\ answered' = [answered EXCEPT ![d] = {}]
      BY <2>4 DEF OpenFails
    <3>3. CASE kind = "GPULost"
      <4>1. StatusOf(kind = "GPULost", FALSE) = "failed"
        BY <3>3 DEF StatusOf
      <4>2. QED
        BY <2>4, <3>1, <3>2, <3>3, <4>1 DEF TypeOK
    <3>4. CASE kind # "GPULost"
      <4>1. StatusOf(kind = "GPULost", FALSE) = "unknown"
        BY <3>4 DEF StatusOf
      <4>2. QED
        BY <2>4, <3>1, <3>2, <3>4, <4>1 DEF TypeOK
    <3>5. QED
      BY <3>3, <3>4
  <2>5. CASE d = e /\ EndDevice(d)
    <3>1. next > 0
      BY <2>5, LenIsNat DEF EndDevice, TypeOK
    <3>2. succeeded > 0 <=> answered[d] # {}
      BY <2>1, <3>1 DEF AnswerInv
    <3>3. /\ status' = [status EXCEPT ![d] =
                          StatusOf(d \in lost, d \in lost \/ succeeded > 0)]
          /\ UNCHANGED <<answered, lost>>
      BY <2>5 DEF EndDevice, Finish, device
    <3>4. status'[d] = StatusOf(d \in lost, d \in lost \/ succeeded > 0)
      BY <3>3 DEF TypeOK
    <3>5. QED
      BY <2>5, <3>2, <3>3, <3>4 DEF StatusOf
  <2>6. QED
    BY <1>8, <2>2, <2>3, <2>4, <2>5
<1>9. QED
  BY <1>3, <1>4, <1>5, <1>7, <1>8
     DEF Next, vars, InitFails, InitOpens, QuerySkips, Reload, ErrorHappens, TimePasses, device

LEMMA NextInv == IInv /\ [Next]_vars => IInv'
<1>1. SUFFICES ASSUME IInv, [Next]_vars PROVE IInv'
  OBVIOUS
<1>2. /\ TypeOK /\ EccInv /\ IoInv /\ CountInv /\ LibraryInv /\ AnswerInv
      /\ StatusIsHonest
  BY <1>1 DEF IInv
<1>3. LibraryInv' /\ AnswerInv' /\ StatusIsHonest'
  BY <1>1, <1>2, LibraryStep, AnswerStep, StatusStep
<1>4. CASE UNCHANGED <<totals, world>>
  <2>1. EccInv' /\ IoInv' /\ CountInv'
    BY <1>2, <1>4 DEF EccInv, IoInv, CountInv, totals, world
  <2>2. TypeOK'
    <3>1. CASE UNCHANGED vars
      BY <1>2, <3>1 DEF TypeOK, vars, library, device, totals, world
    <3>2. CASE InitFails \/ InitOpens \/ Collect \/ EndScrape \/ Shutdown
      BY <1>2, <1>4, <3>2, TypeStepQuiet
    <3>3. ASSUME NEW d \in Devices,
                 \/ SkipLost(d) \/ OpenDevice(d) \/ OpenFails(d)
                 \/ EndDevice(d) \/ QuerySkips(d) \/ QueryFails(d)
          PROVE  TypeOK'
      BY <1>2, <3>3, TypeStepDevice
    <3>4. ASSUME NEW d \in Devices, QueryAnswers(d)
          PROVE  TypeOK'
      BY <1>2, <3>4, TypeStepAnswer
    <3>5. CASE (\E x \in Counters : ErrorHappens(x)) \/ (\E d \in Devices : Reload(d)) \/ TimePasses
      BY <1>2, <3>5, TypeStepWorld
    <3>6. QED
      BY <1>1, <3>1, <3>2, <3>3, <3>4, <3>5 DEF Next
  <2>3. QED
    BY <1>3, <2>1, <1>2, <2>2 DEF IInv
<1>5. ASSUME NEW d \in Devices, QueryAnswers(d)
      PROVE  IInv'
  BY <1>2, <1>3, <1>5, TypeStepAnswer, EccAnswer, IoAnswer, CountAnswer DEF IInv
<1>6. CASE (\E x \in Counters : ErrorHappens(x)) \/ (\E d \in Devices : Reload(d))
  <2>1. EccInv' /\ IoInv'
    BY <1>2, <1>6 DEF EccInv, IoInv, ErrorHappens, Reload, totals
  <2>2. CountInv'
    BY <1>2, <1>6, CountWorld
  <2>3. TypeOK'
    BY <1>2, <1>6, TypeStepWorld
  <2>4. QED
    BY <1>2, <1>3, <2>1, <2>2, <2>3 DEF IInv
<1>7. QED
  BY <1>1, <1>4, <1>5, <1>6
     DEF Next, vars, InitFails, InitOpens, Collect, EndScrape, Shutdown, SkipLost, OpenDevice,
         OpenFails, EndDevice, QuerySkips, QueryFails, TimePasses

\* What a step does to the emitted totals.
LEMMA TotalsStep ==
    ASSUME IInv, [Next]_vars
    PROVE  \/ UNCHANGED <<errors, bytes, answered>>
           \/ UNCHANGED <<errors, bytes>> /\
              \E d \in Devices : answered' = [answered EXCEPT ![d] = {}]
           \/ \E d \in Devices : QueryAnswers(d)
BY DEF Next, vars, InitFails, InitOpens, Collect, EndScrape, Shutdown, SkipLost, OpenDevice,
       OpenFails, EndDevice, QuerySkips, QueryFails, Reload, ErrorHappens, TimePasses, totals

\* The state of the receiver has its type, whatever GPUs and calls there are.
THEOREM TypeCorrect == Spec => []TypeOK
<1>1. IInv => TypeOK
  BY DEF IInv
<1>2. QED
  BY InitInv, NextInv, <1>1, PTL DEF Spec

\* hw.errors reports no error that did not happen since the first reading.
THEOREM ErrorsAreReal == Spec => []ErrorsNotInvented
<1>1. IInv => ErrorsNotInvented
  <2>1. SUFFICES ASSUME IInv, NEW x \in Counters PROVE errors[x] <= happened[x]
    BY DEF ErrorsNotInvented
  <2>2. /\ errors[x] + (IF ecc[x].started THEN EccGrowth(ecc[x], raw[x]) ELSE 0)
             <= happened[x]
        /\ EccOK(ecc[x]) /\ errors[x] \in Nat /\ raw[x] \in Nat /\ happened[x] \in Nat
    BY <2>1 DEF IInv, TypeOK, EccInv, CountInv
  <2>3. QED
    BY <2>2 DEF EccGrowth, EccOK, EccState
<1>2. QED
  BY InitInv, NextInv, <1>1, PTL DEF Spec

\* hw.errors never falls, across driver reloads.
THEOREM ErrorsMonotone == Spec => ErrorsNeverFall
<1>1. IInv /\ [Next]_vars => [\A x \in Counters : errors'[x] >= errors[x]]_vars
  <2>1. SUFFICES ASSUME IInv, [Next]_vars PROVE \A x \in Counters : errors'[x] >= errors[x]
    OBVIOUS
  <2>2. CASE UNCHANGED errors
    BY <2>1, <2>2 DEF IInv, TypeOK
  <2>3. ASSUME NEW d \in Devices, QueryAnswers(d)
        PROVE  \A x \in Counters : errors'[x] >= errors[x]
    BY <2>1, <2>3, CountAnswer DEF IInv
  <2>4. QED
    BY <2>1, <2>2, <2>3, TotalsStep
<1>2. QED
  BY InitInv, NextInv, <1>1, PTL DEF Spec, ErrorsNeverFall

\* hw.gpu.io never falls and grows by at most three intervals of the rate read.
THEOREM IoBounded == Spec => IoStepsBounded
<1>1. IInv /\ [Next]_vars =>
        [\A x \in Ports : \E rate \in Rates \cup {0} :
            bytes'[x] - bytes[x] \in 0 .. rate * MaxGap]_vars
  <2>1. SUFFICES ASSUME IInv, [Next]_vars, NEW x \in Ports
                 PROVE  \E rate \in Rates \cup {0} : bytes'[x] - bytes[x] \in 0 .. rate * MaxGap
    OBVIOUS
  <2>2. CASE bytes'[x] = bytes[x]
    <3>1. bytes[x] \in Nat /\ MaxGap \in Nat
      BY <2>1, CallsAssumption DEF IInv, TypeOK, MaxGap
    <3>2. bytes'[x] - bytes[x] \in 0 .. 0 * MaxGap
      BY <2>2, <3>1
    <3>3. QED
      BY <3>2
  <2>3. ASSUME NEW d \in Devices, QueryAnswers(d), bytes'[x] # bytes[x]
        PROVE  \E rate \in Rates : bytes'[x] - bytes[x] \in 0 .. rate * MaxGap
    BY <2>1, <2>3, IoAnswer DEF IInv
  <2>4. QED
    BY <2>1, <2>2, <2>3, TotalsStep
<1>2. QED
  BY InitInv, NextInv, <1>1, PTL DEF Spec, IoStepsBounded

\* A lost GPU answers nothing more and its counters stop.
THEOREM LostForGood == Spec => LostIsFinal
<1> DEFINE Final == \A d \in lost :
         /\ d \in lost'
         /\ answered'[d] \subseteq answered[d]
         /\ \A c \in EccCalls : errors'[<<d, c>>] = errors[<<d, c>>]
         /\ \A c \in IoCalls : bytes'[<<d, c>>] = bytes[<<d, c>>]
<1>1. IInv /\ [Next]_vars => [Final]_vars
  <2>1. SUFFICES ASSUME IInv, [Next]_vars, NEW d \in lost
                 PROVE  /\ d \in lost'
                        /\ answered'[d] \subseteq answered[d]
                        /\ \A c \in EccCalls : errors'[<<d, c>>] = errors[<<d, c>>]
                        /\ \A c \in IoCalls : bytes'[<<d, c>>] = bytes[<<d, c>>]
    BY DEF Final
  <2>2. lost \subseteq lost'
    BY <2>1 DEF Next, vars, InitFails, InitOpens, Collect, EndScrape, Shutdown, SkipLost,
                OpenDevice, OpenFails, EndDevice, QuerySkips, QueryFails, QueryAnswers, Fails,
                Reload, ErrorHappens, TimePasses, device
  <2>3. TypeOK /\ EccInv /\ IoInv /\ d \in Devices
    BY <2>1 DEF IInv, TypeOK
  <2>4. CASE UNCHANGED <<errors, bytes>> /\
             (answered' = answered \/ \E e \in Devices : answered' = [answered EXCEPT ![e] = {}])
    BY <2>2, <2>3, <2>4 DEF TypeOK
  <2>5. ASSUME NEW e \in Devices, QueryAnswers(e)
        PROVE  /\ answered'[d] \subseteq answered[d]
               /\ \A c \in EccCalls : errors'[<<d, c>>] = errors[<<d, c>>]
               /\ \A c \in IoCalls : bytes'[<<d, c>>] = bytes[<<d, c>>]
    <3>1. e # d
      BY <2>5 DEF QueryAnswers, Skipped
    <3>2. answered'[d] = answered[d]
      BY <2>3, <2>5, <3>1 DEF QueryAnswers, TypeOK
    <3>3. ASSUME NEW c \in EccCalls PROVE errors'[<<d, c>>] = errors[<<d, c>>]
      <4>1. <<d, c>> \in Counters /\ <<d, c>> # <<e, Reads[next]>>
        BY <2>3, <3>1 DEF Counters
      <4>2. QED
        BY <2>3, <2>5, <4>1, EccAnswer
    <3>4. ASSUME NEW c \in IoCalls PROVE bytes'[<<d, c>>] = bytes[<<d, c>>]
      <4>1. <<d, c>> \in Ports /\ <<d, c>> # <<e, Reads[next]>>
        BY <2>3, <3>1 DEF Ports
      <4>2. QED
        BY <2>3, <2>5, <4>1, IoAnswer
    <3>5. QED
      BY <3>2, <3>3, <3>4
  <2>6. QED
    BY <2>1, <2>2, <2>4, <2>5, TotalsStep
<1>2. QED
  BY InitInv, NextInv, <1>1, PTL DEF Spec, LostIsFinal

\* hw.status tells the truth about the last scrape of a GPU.
THEOREM StatusHonest == Spec => []StatusIsHonest
<1>1. IInv => StatusIsHonest
  BY DEF IInv
<1>2. QED
  BY InitInv, NextInv, <1>1, PTL DEF Spec

\* NVML is open while GPUs are read and closed after Shutdown.
THEOREM LibraryReleased == Spec => []LibraryIsReleased
<1>1. IInv => LibraryIsReleased
  BY DEF IInv, LibraryInv, LibraryIsReleased
<1>2. QED
  BY InitInv, NextInv, <1>1, PTL DEF Spec

===============================================================================
