-------------------------- MODULE DropSummaryProofs --------------------------
(***************************************************************************)
(* Proofs about the drop summary, for every set of rules, callers and      *)
(* limits: windows follow one another in the order in which drops are      *)
(* counted, Shutdown leaves none open, tallies stay within their limit,    *)
(* every drop is counted once, and a summary says what was dropped.        *)
(*                                                                         *)
(* The drops are numbered in the order of their critical sections.  The    *)
(* first invariant says that the summaries cut this row of numbers into    *)
(* consecutive stretches, the open window being the stretch after the last *)
(* one, and which process may be sending.  The second one is a ledger:     *)
(* per rule, what the stretches and the window have counted, and what the  *)
(* counters and the calls have.  The third says of each stretch that what  *)
(* is told of it is true, which is where the bounded tallies come in.      *)
(***************************************************************************)
EXTENDS DropSummary, Sums, FiniteSetTheorems, TLAPS

IsSeq(s) == \E S : s \in Seq(S)

\* The last drop that the first k summaries cover.
Last(k) == IF k = 0 THEN 0 ELSE summaries[k].last

\* Drops are counted as the clock goes.
Counting ==
    /\ now \in Nat
    /\ IsSeq(drops)
    /\ \A n \in 1 .. Len(drops) : drops[n].at \in Nat /\ drops[n].at <= now
    /\ \A m, n \in 1 .. Len(drops) : m <= n => drops[m].at <= drops[n].at

\* Summary k covers the drops after the previous one's, and its times say so.
Fits(k) ==
    /\ DOMAIN summaries[k] = {"start", "end", "total", "rules", "last", "fate"}
    /\ summaries[k].last \in Last(k - 1) + 1 .. Len(drops)
    /\ summaries[k].start \in Nat
    /\ summaries[k].start = drops[Last(k - 1) + 1].at
    /\ summaries[k].end \in drops[summaries[k].last].at .. now
    /\ k > 1 => summaries[k - 1].end <= summaries[k].start

Stretches ==
    /\ IsSeq(summaries)
    /\ \A k \in 0 .. Len(summaries) : Last(k) \in 0 .. Len(drops)
    /\ \A j, k \in 0 .. Len(summaries) : j < k => Last(j) < Last(k)
    /\ \A k \in 1 .. Len(summaries) : Fits(k)

\* The open window is what comes after the last summary.
OpenWindow ==
    /\ start \in Nat
    /\ start <= now
    /\ window = <<>> <=> Last(Len(summaries)) = Len(drops)
    /\ window # <<>> =>
         /\ start = drops[Last(Len(summaries)) + 1].at
         /\ \A k \in 1 .. Len(summaries) : summaries[k].end <= start

\* Only one process sends at a time, only the last summary is being sent, and
\* only Shutdown takes a window before its time.
Turns ==
    /\ loop \in {"waiting", "checking", "sending", "done"}
    /\ service \in {"up", "stopping", "sending", "down"}
    /\ service # "up" => \A c \in Callers : pc[c] = "idle"
    /\ service \in {"sending", "down"} => loop = "done"
    /\ loop = "sending" \/ service = "sending" => Len(summaries) > 0
    /\ service \in {"sending", "down"} => window = <<>>
    /\ \A k \in 1 .. Len(summaries) :
         summaries[k].fate = "sending" =>
           k = Len(summaries) /\ (loop = "sending" \/ service = "sending")
    /\ \A k \in 1 .. Len(summaries) :
         \/ summaries[k].end - summaries[k].start >= Interval
         \/ k = Len(summaries) /\ service \in {"sending", "down"}

WindowInv == Counting /\ Stretches /\ OpenWindow /\ Turns

------------------------------------------------------------------------------
(* Sequences and intervals. *)

\* What appending does to any sequence.
LEMMA AppendGrows ==
    ASSUME NEW s, IsSeq(s), NEW e
    PROVE  /\ IsSeq(Append(s, e))
           /\ Len(s) \in Nat
           /\ DOMAIN s = 1 .. Len(s)
           /\ Len(Append(s, e)) = Len(s) + 1
           /\ Append(s, e)[Len(s) + 1] = e
           /\ \A n \in 1 .. Len(s) : Append(s, e)[n] = s[n]
<1>1. PICK S : s \in Seq(S)
  BY DEF IsSeq
<1>2. s \in Seq(S \cup {e}) /\ e \in S \cup {e}
  BY <1>1
<1>3. Append(s, e) \in Seq(S \cup {e})
  BY <1>2
<1>4. QED
  BY <1>2, <1>3 DEF IsSeq

LEMMA MinOfInterval ==
    ASSUME NEW a \in Int, NEW b \in Int, a <= b
    PROVE  Min(a .. b) = a /\ Max(a .. b) = b
<1>1. Min(a .. b) = a
  <2>1. a \in a .. b /\ \A y \in a .. b : a <= y
    OBVIOUS
  <2>2. QED
    BY <2>1 DEF Min
<1>2. Max(a .. b) = b
  <2>1. b \in a .. b /\ \A y \in a .. b : b >= y
    OBVIOUS
  <2>2. QED
    BY <2>1 DEF Max
<1>3. QED
  BY <1>1, <1>2

------------------------------------------------------------------------------
(* Windows. *)

LEMMA Limits == MaxTime \in Nat /\ Interval \in Nat /\ Interval > 0
BY BoundsAssumption

LEMMA WindowInit == Init => WindowInv
<1>1. SUFFICES ASSUME Init PROVE WindowInv
  OBVIOUS
<1>2. IsSeq(<<>>) /\ Len(<<>>) = 0
  BY DEF IsSeq
<1>3. QED
  BY <1>1, <1>2 DEF Init, WindowInv, Counting, Stretches, OpenWindow, Turns, Last

\* A step that leaves drops, summaries and window alone keeps the windows.
LEMMA WindowsStay ==
    ASSUME Counting, Stretches, OpenWindow, now' \in Nat, now <= now',
           UNCHANGED <<window, start, drops, summaries>>
    PROVE  Counting' /\ Stretches' /\ OpenWindow'
<1>1. Counting'
  BY DEF Counting
<1>2. Stretches'
  <2>1. \A k : Last(k)' = Last(k)
    BY DEF Last
  <2>2. \A k \in 1 .. Len(summaries) : Fits(k)'
    BY <2>1 DEF Counting, Stretches, Fits
  <2>3. QED
    BY <2>1, <2>2 DEF Stretches
<1>3. OpenWindow'
  BY DEF Counting, OpenWindow, Last
<1>4. QED
  BY <1>1, <1>2, <1>3

LEMMA DropKeeps ==
    ASSUME WindowInv, NEW c \in Callers, Drop(c)
    PROVE  WindowInv'
<1> DEFINE n == Len(drops) + 1
<1>1. PICK rec \in Records :
        LET i == FirstMatch(rec)
        IN  /\ Handles(c, rec)
            /\ window' = Added(i, rec)
            /\ drops' = Append(drops, [rule |-> i, rec |-> rec, at |-> now])
  BY DEF Drop
<1>2. /\ start' = IF window = <<>> THEN now ELSE start
      /\ UNCHANGED <<now, loop, service, pc, summaries>>
  BY DEF Drop
<1>3. /\ IsSeq(drops') /\ Len(drops) \in Nat
      /\ Len(drops') = n
      /\ drops'[n].at = now
      /\ \A m \in 1 .. Len(drops) : drops'[m] = drops[m]
  BY <1>1, AppendGrows DEF WindowInv, Counting
<1>4. window' # <<>>
  <2>1. FirstMatch(rec) \in DOMAIN window'
    BY <1>1 DEF Added
  <2>2. QED
    BY <2>1
<1>5. Counting'
  BY <1>2, <1>3 DEF WindowInv, Counting
<1>6. Last(Len(summaries)) \in 0 .. Len(drops) /\ Len(summaries) \in Nat
  BY AppendGrows DEF WindowInv, Stretches
<1>7. Stretches'
  <2>1. \A k \in 0 .. Len(summaries) : Last(k)' = Last(k)
    BY <1>2 DEF Last
  <2>5. /\ IsSeq(summaries')
        /\ \A k \in 0 .. Len(summaries') : Last(k)' \in 0 .. Len(drops')
        /\ \A j, k \in 0 .. Len(summaries') : j < k => Last(j)' < Last(k)'
    BY <1>2, <1>3, <2>1 DEF WindowInv, Stretches
  <2>2. SUFFICES ASSUME NEW k \in 1 .. Len(summaries) PROVE Fits(k)'
    BY <1>2, <2>5 DEF Stretches
  <2>3. Fits(k) /\ Last(k - 1) \in 0 .. Len(drops) /\ Last(k - 1)' = Last(k - 1)
    BY <1>6, <2>1 DEF WindowInv, Stretches
  <2>4. QED
    BY <1>2, <1>3, <2>3 DEF Fits
<1>8. OpenWindow'
  <2>1. Last(Len(summaries))' = Last(Len(summaries))
    BY <1>2 DEF Last
  <2>2. start' \in Nat /\ start' <= now'
    BY <1>2 DEF WindowInv, Counting, OpenWindow
  <2>3. CASE window = <<>>
    <3>1. Last(Len(summaries)) + 1 = n /\ start' = now
      BY <1>2, <2>3 DEF WindowInv, OpenWindow
    <3>2. \A k \in 1 .. Len(summaries) : summaries[k].end <= now
      BY <1>3 DEF WindowInv, Stretches, Fits, Counting
    <3>3. QED
      BY <1>2, <1>3, <1>4, <1>6, <2>1, <2>2, <3>1, <3>2 DEF OpenWindow
  <2>4. CASE window # <<>>
    BY <1>2, <1>3, <1>4, <1>6, <2>1, <2>2, <2>4 DEF WindowInv, OpenWindow
  <2>5. QED
    BY <2>3, <2>4
<1>9. Turns'
  <2>1. service = "up"
    BY <1>1 DEF WindowInv, Turns, Handles
  <2>2. QED
    BY <1>2, <2>1 DEF WindowInv, Turns
<1>10. QED
  BY <1>5, <1>7, <1>8, <1>9 DEF WindowInv

\* Taking an open window makes it the last stretch.
LEMMA TakeKeeps ==
    ASSUME Counting, Stretches, OpenWindow, window # <<>>, Take,
           UNCHANGED <<now, drops>>
    PROVE  /\ Counting' /\ Stretches' /\ OpenWindow'
           /\ window' = <<>>
           /\ Len(summaries) \in Nat
           /\ Len(summaries') = Len(summaries) + 1
           /\ \A k \in 1 .. Len(summaries) : summaries'[k] = summaries[k]
           /\ summaries'[Len(summaries')].start = start
           /\ summaries'[Len(summaries')].end = now
<1>0. PICK n : n = Len(summaries) + 1
  OBVIOUS
<1>1. /\ IsSeq(summaries') /\ Len(summaries) \in Nat
      /\ Len(summaries') = n
      /\ summaries'[n] = Summary(now)
      /\ \A k \in 1 .. Len(summaries) : summaries'[k] = summaries[k]
  BY <1>0, AppendGrows DEF Take, Stretches
<1>2. /\ DOMAIN summaries'[n] = {"start", "end", "total", "rules", "last", "fate"}
      /\ summaries'[n].start = start
      /\ summaries'[n].end = now
      /\ summaries'[n].last = Len(drops)
  BY <1>1 DEF Summary
<1>3. Counting'
  BY DEF Counting
<1>4. /\ window' = <<>> /\ start' = start /\ now' = now /\ drops' = drops
      /\ Len(drops) \in Nat
  BY AppendGrows DEF Take, Counting
<1>5. /\ \A k \in 0 .. Len(summaries) : Last(k)' = Last(k)
      /\ Last(n)' = Len(drops)
  BY <1>0, <1>1, <1>2 DEF Last
<1>6. /\ Last(Len(summaries)) \in 0 .. Len(drops)
      /\ Last(Len(summaries)) # Len(drops)
  BY <1>1 DEF Stretches, OpenWindow
<1>7. Fits(n)'
  <2>1. n - 1 = Len(summaries)
    BY <1>0, <1>1
  <2>2. drops[Len(drops)].at <= now /\ drops[Len(drops)].at \in Nat
    BY <1>4, <1>6 DEF Counting
  <2>3. n > 1 => summaries[n - 1].end <= start
    BY <1>0, <1>1, <2>1 DEF OpenWindow
  <2>4. QED
    BY <1>1, <1>2, <1>4, <1>5, <1>6, <2>1, <2>2, <2>3 DEF Fits, OpenWindow, Counting
<1>8. \A k \in 1 .. Len(summaries) : Fits(k)'
  <2>1. SUFFICES ASSUME NEW k \in 1 .. Len(summaries) PROVE Fits(k)'
    OBVIOUS
  <2>2. Fits(k) /\ Last(k - 1)' = Last(k - 1) /\ summaries'[k] = summaries[k]
    BY <1>1, <1>5 DEF Stretches
  <2>3. k > 1 => summaries'[k - 1] = summaries[k - 1]
    BY <1>1
  <2>4. QED
    BY <1>4, <2>2, <2>3 DEF Fits
<1>9. Stretches'
  <2>1. \A k \in 0 .. n : Last(k)' \in 0 .. Len(drops')
    BY <1>0, <1>1, <1>4, <1>5 DEF Stretches
  <2>2. \A j, k \in 0 .. n : j < k => Last(j)' < Last(k)'
    <3>1. SUFFICES ASSUME NEW j \in 0 .. n, NEW k \in 0 .. n, j < k
                   PROVE  Last(j)' < Last(k)'
      OBVIOUS
    <3>2. CASE k # n
      BY <1>0, <1>1, <1>5, <3>1, <3>2 DEF Stretches
    <3>3. CASE k = n
      <4>1. j \in 0 .. Len(summaries)
        BY <1>0, <1>1, <3>1, <3>3
      <4>2. Last(j) <= Last(Len(summaries)) /\ Last(j) \in 0 .. Len(drops)
        <5>1. Len(summaries) \in 0 .. Len(summaries)
          BY <1>1
        <5>2. CASE j = Len(summaries)
          BY <1>6, <5>2
        <5>3. CASE j # Len(summaries)
          BY <1>1, <1>4, <4>1, <5>1, <5>3 DEF Stretches
        <5>4. QED
          BY <5>2, <5>3
      <4>3. QED
        BY <1>4, <1>5, <1>6, <3>3, <4>1, <4>2
    <3>4. QED
      BY <3>2, <3>3
  <2>3. QED
    BY <1>0, <1>1, <1>7, <1>8, <2>1, <2>2 DEF Stretches
<1>10. OpenWindow'
  BY <1>0, <1>1, <1>4, <1>5 DEF OpenWindow
<1>11. QED
  BY <1>0, <1>1, <1>2, <1>3, <1>4, <1>9, <1>10

\* The answer to the last summary changes its fate only.
LEMMA AnswerKeeps ==
    ASSUME Counting, Stretches, OpenWindow, Len(summaries) > 0, Answered,
           UNCHANGED <<now, window, start, drops>>
    PROVE  /\ Counting' /\ Stretches' /\ OpenWindow'
           /\ Len(summaries) \in Nat
           /\ Len(summaries') = Len(summaries)
           /\ \A k \in 1 .. Len(summaries) :
                 /\ summaries'[k].start = summaries[k].start
                 /\ summaries'[k].end = summaries[k].end
                 /\ k < Len(summaries) => summaries'[k].fate = summaries[k].fate
           /\ summaries'[Len(summaries)].fate # "sending"
<1>0. PICK n : n = Len(summaries)
  OBVIOUS
<1>1. n \in Nat /\ n \in 1 .. Len(summaries)
  BY <1>0, AppendGrows DEF Stretches
<1>2. PICK fate \in {"delivered", "refused"} :
        summaries' = [summaries EXCEPT ![n] = [summaries[n] EXCEPT !.fate = fate]]
  BY <1>0 DEF Answered
<1>3. /\ IsSeq(summaries')
      /\ Len(summaries') = n
      /\ \A k \in 1 .. n :
           summaries'[k] = IF k = n THEN [summaries[n] EXCEPT !.fate = fate] ELSE summaries[k]
  <2> DEFINE e == [summaries[n] EXCEPT !.fate = fate]
  <2>1. IsSeq(summaries) /\ n \in 1 .. Len(summaries)
    BY <1>1 DEF Stretches
  <2>2. summaries' = [summaries EXCEPT ![n] = e]
    BY <1>2
  <2> HIDE DEF e
  <2>3. /\ IsSeq(summaries')
        /\ Len(summaries') = Len(summaries)
        /\ \A k \in 1 .. Len(summaries) :
             summaries'[k] = IF k = n THEN e ELSE summaries[k]
    <3>1. PICK S : summaries \in Seq(S)
      BY <2>1 DEF IsSeq
    <3>2. summaries' \in Seq(S \cup {e})
      BY <2>1, <2>2, <3>1
    <3>3. QED
      BY <2>1, <2>2, <3>1, <3>2 DEF IsSeq
  <2>4. QED
    BY <1>0, <2>3 DEF e
<1>4. \A k \in 1 .. n :
        /\ DOMAIN summaries'[k] = DOMAIN summaries[k]
        /\ summaries'[k].start = summaries[k].start
        /\ summaries'[k].end = summaries[k].end
        /\ summaries'[k].last = summaries[k].last
        /\ k < n => summaries'[k].fate = summaries[k].fate
  <2>1. DOMAIN summaries[n] = {"start", "end", "total", "rules", "last", "fate"}
    BY <1>0, <1>1 DEF Stretches, Fits
  <2>2. QED
    BY <1>1, <1>3, <2>1
<1>5. summaries'[n].fate = fate
  <2>1. DOMAIN summaries[n] = {"start", "end", "total", "rules", "last", "fate"}
    BY <1>0, <1>1 DEF Stretches, Fits
  <2>2. QED
    BY <1>1, <1>3, <2>1
<1>6. \A k \in 0 .. n : Last(k)' = Last(k)
  BY <1>1, <1>4 DEF Last
<1>7. Counting'
  BY DEF Counting
<1>8. Stretches'
  <2>1. SUFFICES ASSUME NEW k \in 1 .. n PROVE Fits(k)'
    BY <1>0, <1>3, <1>6 DEF Stretches
  <2>2. Fits(k) /\ Last(k - 1)' = Last(k - 1)
    BY <1>0, <1>1, <1>6 DEF Stretches
  <2>3. k > 1 => k - 1 \in 1 .. n
    BY <1>1
  <2>4. QED
    BY <1>4, <2>2, <2>3 DEF Fits
<1>9. OpenWindow'
  BY <1>0, <1>1, <1>3, <1>4, <1>6 DEF OpenWindow
<1>10. QED
  BY <1>0, <1>1, <1>3, <1>4, <1>5, <1>7, <1>8, <1>9

LEMMA WindowNext == WindowInv /\ [Next]_vars => WindowInv'
<1> USE Limits
<1>1. SUFFICES ASSUME WindowInv, [Next]_vars PROVE WindowInv'
  OBVIOUS
<1>2. now \in Nat /\ Len(summaries) \in Nat
  BY <1>1, AppendGrows DEF WindowInv, Counting, Stretches
<1>3. CASE UNCHANGED vars
  BY <1>1, <1>2, <1>3, WindowsStay DEF vars, calls, metrics, WindowInv, Turns
<1>4. ASSUME NEW c \in Callers,
             Enter(c) \/ Pass(c) \/ Keep(c) \/ Flush(c) \/ Return(c)
      PROVE  WindowInv'
  <2>1. UNCHANGED <<now, loop, service, window, start, drops, summaries>>
    BY <1>4 DEF Enter, Pass, Keep, Flush, Return
  <2>2. service = "up"
    BY <1>1, <1>4 DEF WindowInv, Turns, Enter, Pass, Keep, Flush, Return, Handles
  <2>3. QED
    BY <1>1, <1>2, <2>1, <2>2, WindowsStay DEF WindowInv, Turns
<1>5. ASSUME NEW c \in Callers, Drop(c) PROVE WindowInv'
  BY <1>1, <1>5, DropKeeps
<1>6. CASE TakeTick \/ NotDue \/ Exit \/ Stop \/ NothingLeft \/ TimePasses
  <2>1. /\ UNCHANGED <<window, start, drops, summaries>>
        /\ now' \in Nat /\ now <= now'
    BY <1>2, <1>6 DEF TakeTick, NotDue, Exit, Stop, NothingLeft, TimePasses
  <2>2. Turns'
    BY <1>1, <1>6, <2>1
    DEF WindowInv, Turns, TakeTick, NotDue, Exit, Stop, NothingLeft, TimePasses, calls
  <2>3. QED
    BY <1>1, <2>1, <2>2, WindowsStay DEF WindowInv
<1>7. CASE TakeDue
  <2>1. /\ window # <<>> /\ now - start >= Interval /\ Take
        /\ loop = "checking" /\ loop' = "sending"
        /\ UNCHANGED <<now, drops, service, pc>>
    BY <1>7 DEF TakeDue, Due, calls
  <2>2. /\ Counting' /\ Stretches' /\ OpenWindow'
        /\ window' = <<>>
        /\ Len(summaries') = Len(summaries) + 1
        /\ \A k \in 1 .. Len(summaries) : summaries'[k] = summaries[k]
        /\ summaries'[Len(summaries')].start = start
        /\ summaries'[Len(summaries')].end = now
    BY <1>1, <2>1, TakeKeeps DEF WindowInv
  <2>3. QED
    BY <1>1, <1>2, <2>1, <2>2 DEF WindowInv, Turns
<1>8. CASE TakeLast
  <2>1. /\ window # <<>> /\ Take
        /\ service = "stopping" /\ loop = "done" /\ service' = "sending"
        /\ UNCHANGED <<now, drops, loop, pc>>
    BY <1>8 DEF TakeLast, calls
  <2>2. /\ Counting' /\ Stretches' /\ OpenWindow'
        /\ window' = <<>>
        /\ Len(summaries') = Len(summaries) + 1
        /\ \A k \in 1 .. Len(summaries) : summaries'[k] = summaries[k]
    BY <1>1, <2>1, TakeKeeps DEF WindowInv
  <2>3. QED
    BY <1>1, <1>2, <2>1, <2>2 DEF WindowInv, Turns
<1>9. CASE SummarySent \/ LastSent
  <2>1. /\ Answered
        /\ Len(summaries) > 0
        /\ UNCHANGED <<now, window, start, drops, pc>>
        /\ \/ loop = "sending" /\ loop' = "waiting" /\ service' = service
           \/ service = "sending" /\ service' = "down" /\ loop' = loop
    BY <1>1, <1>9 DEF SummarySent, LastSent, WindowInv, Turns, calls
  <2>2. /\ Counting' /\ Stretches' /\ OpenWindow'
        /\ Len(summaries') = Len(summaries)
        /\ \A k \in 1 .. Len(summaries) :
              /\ summaries'[k].start = summaries[k].start
              /\ summaries'[k].end = summaries[k].end
              /\ k < Len(summaries) => summaries'[k].fate = summaries[k].fate
        /\ summaries'[Len(summaries)].fate # "sending"
    BY <1>1, <2>1, AnswerKeeps DEF WindowInv
  <2>3. service = "sending" => window = <<>>
    BY <1>1 DEF WindowInv, Turns
  <2>4. QED
    BY <1>1, <1>2, <2>1, <2>2, <2>3 DEF WindowInv, Turns
<1>10. QED
  BY <1>1, <1>3, <1>4, <1>5, <1>6, <1>7, <1>8, <1>9 DEF Next

\* WindowInv says what WindowsFollow promises.
LEMMA WindowUse == WindowInv => WindowsFollow
<1>1. SUFFICES ASSUME WindowInv PROVE WindowsFollow
  OBVIOUS
<1>2. /\ Len(drops) \in Nat /\ DOMAIN drops = 1 .. Len(drops)
      /\ Len(summaries) \in Nat /\ DOMAIN summaries = 1 .. Len(summaries)
  BY <1>1, AppendGrows DEF WindowInv, Counting, Stretches
<1>3. ASSUME NEW k \in 1 .. Len(summaries)
      PROVE  /\ Min(Covered(k)) = Last(k - 1) + 1
             /\ Max(Covered(k)) = summaries[k].last
  <2>1. Covered(k) = Last(k - 1) + 1 .. summaries[k].last
    BY <1>2, <1>3 DEF Covered, Last
  <2>2. Last(k - 1) + 1 <= summaries[k].last /\ Last(k - 1) \in Int /\ summaries[k].last \in Int
    BY <1>1, <1>2 DEF WindowInv, Stretches, Fits
  <2>3. QED
    BY <2>1, <2>2, MinOfInterval
<1>4. ASSUME window # <<>> PROVE Min(Covered(Open)) = Last(Len(summaries)) + 1
  <2>1. Covered(Open) = Last(Len(summaries)) + 1 .. Len(drops)
    BY <1>2 DEF Covered, Open, Last
  <2>2. Last(Len(summaries)) + 1 <= Len(drops) /\ Last(Len(summaries)) \in Int
    BY <1>1, <1>2, <1>4 DEF WindowInv, Stretches, OpenWindow
  <2>3. QED
    BY <1>2, <2>1, <2>2, MinOfInterval
<1>5. \A k \in 1 .. Len(summaries) :
        /\ summaries[k].start = drops[Min(Covered(k))].at
        /\ summaries[k].end >= drops[Max(Covered(k))].at
        /\ k > 1 => summaries[k - 1].end <= summaries[k].start
  <2>1. SUFFICES ASSUME NEW k \in 1 .. Len(summaries)
                 PROVE  /\ summaries[k].start = drops[Min(Covered(k))].at
                        /\ summaries[k].end >= drops[Max(Covered(k))].at
                        /\ k > 1 => summaries[k - 1].end <= summaries[k].start
    OBVIOUS
  <2>2. Fits(k) /\ Last(k - 1) \in 0 .. Len(drops)
    BY <1>1, <1>2 DEF WindowInv, Stretches
  <2>3. drops[summaries[k].last].at \in Nat /\ now \in Nat
    BY <1>1, <1>2, <2>2 DEF WindowInv, Counting, Fits
  <2>4. QED
    BY <1>3, <2>2, <2>3 DEF Fits
<1>6. \A k \in 1 .. Len(summaries) :
        /\ \/ summaries[k].end - summaries[k].start >= Interval
           \/ k = Len(summaries) /\ service \in {"sending", "down"}
        /\ k < Len(summaries) => summaries[k].fate # "sending"
  <2>1. \A k \in 1 .. Len(summaries) :
           \/ summaries[k].end - summaries[k].start >= Interval
           \/ k = Len(summaries) /\ service \in {"sending", "down"}
    BY <1>1, Zenon DEF WindowInv, Turns
  <2>2. \A k \in 1 .. Len(summaries) :
           summaries[k].fate = "sending" => k = Len(summaries)
    BY <1>1, Zenon DEF WindowInv, Turns
  <2>3. \A k \in 1 .. Len(summaries) : k < Len(summaries) => k # Len(summaries)
    <3>1. \A n \in Nat : \A k \in 1 .. n : k < n => k # n
      OBVIOUS
    <3>2. QED
      BY <1>2, <3>1, Zenon
  <2>4. QED
    BY <2>1, <2>2, <2>3, Zenon
<1>7. window # <<>> =>
        /\ start = drops[Min(Covered(Open))].at
        /\ \A k \in 1 .. Len(summaries) : summaries[k].end <= start
  BY <1>1, <1>4 DEF WindowInv, OpenWindow
<1>8. QED
  BY <1>2, <1>5, <1>6, <1>7 DEF WindowsFollow

\* Windows follow one another, for every schedule of callers, ticks, answers and
\* Shutdown: each summary's times fit the drops it covers, it lasts an hour unless
\* it is the last, and summaries are sent in their order.
THEOREM WindowsInOrder == Spec => []WindowsFollow
<1>1. WindowInv /\ [Next]_vars => WindowInv'
  BY WindowNext
<1>2. QED
  BY WindowInit, <1>1, WindowUse, PTL DEF Spec

\* After Shutdown the summaries cover every drop that was ever counted, each in
\* exactly one of them, and all of them are answered.
AllCovered ==
    service = "down" =>
        /\ \A n \in DOMAIN drops : \E k \in DOMAIN summaries :
              /\ n \in Covered(k)
              /\ \A j \in DOMAIN summaries : n \in Covered(j) => j = k
        /\ \A k \in DOMAIN summaries : summaries[k].fate # "sending"

LEMMA LastGrows ==
    ASSUME WindowInv, NEW j \in 0 .. Len(summaries), NEW k \in 0 .. Len(summaries), j <= k
    PROVE  Last(j) <= Last(k)
<1>1. Last(j) \in 0 .. Len(drops) /\ Len(drops) \in Nat /\ Len(summaries) \in Nat
  BY AppendGrows DEF WindowInv, Counting, Stretches
<1>2. CASE j = k
  BY <1>1, <1>2
<1>3. CASE j # k
  BY <1>1, <1>3 DEF WindowInv, Stretches
<1>4. QED
  BY <1>2, <1>3

LEMMA CoveredUse == WindowInv => AllCovered
<1>1. SUFFICES ASSUME WindowInv, service = "down" PROVE AllCovered
  BY DEF AllCovered
<1>2. /\ Len(drops) \in Nat /\ DOMAIN drops = 1 .. Len(drops)
      /\ Len(summaries) \in Nat /\ DOMAIN summaries = 1 .. Len(summaries)
  BY <1>1, AppendGrows DEF WindowInv, Counting, Stretches
<1>3. /\ \A k \in 0 .. Len(summaries) : Last(k) \in 0 .. Len(drops)
      /\ \A j, k \in 0 .. Len(summaries) : j < k => Last(j) < Last(k)
      /\ Last(Len(summaries)) = Len(drops)
  BY <1>1 DEF WindowInv, Stretches, OpenWindow, Turns
<1>4. ASSUME NEW k \in 1 .. Len(summaries)
      PROVE  Covered(k) = Last(k - 1) + 1 .. Last(k)
  BY <1>2, <1>4 DEF Covered, Last
<1>5. ASSUME NEW n \in 1 .. Len(drops)
      PROVE  \E k \in 1 .. Len(summaries) :
                /\ n \in Covered(k)
                /\ \A j \in 1 .. Len(summaries) : n \in Covered(j) => j = k
  <2> DEFINE T == {k \in 1 .. Len(summaries) : n <= Last(k)}
  <2>1. Len(summaries) \in T
    BY <1>2, <1>3, <1>5 DEF Last
  <2>2. T \subseteq Nat
    BY <1>2
  <2>3. PICK k \in T : \A y \in T : k <= y
    BY <2>1, <2>2, LeastExists
  <2>4. k \in 1 .. Len(summaries) /\ n <= Last(k)
    BY <2>3
  <2>5. Last(k - 1) < n
    <3>1. CASE k = 1
      BY <1>5, <3>1 DEF Last
    <3>2. CASE k # 1
      <4>1. k - 1 \in 1 .. Len(summaries) /\ k - 1 \notin T
        BY <1>2, <2>3, <2>4, <3>2
      <4>2. Last(k - 1) \in Int
        BY <1>2, <1>3, <4>1
      <4>3. QED
        BY <4>1, <4>2
    <3>3. QED
      BY <3>1, <3>2
  <2>6. ASSUME NEW j \in 1 .. Len(summaries), n \in Covered(j) PROVE j = k
    <3>1. Last(j - 1) < n /\ n <= Last(j)
      BY <1>2, <1>3, <1>4, <2>6
    <3>2. ~ (j < k) /\ ~ (k < j)
      <4>1. CASE j < k
        <5>1. j \in 0 .. Len(summaries) /\ k - 1 \in 0 .. Len(summaries) /\ j <= k - 1
          BY <1>2, <2>4, <4>1
        <5>2. Last(j) <= Last(k - 1)
          BY <1>1, <5>1, LastGrows
        <5>3. QED
          BY <1>3, <2>5, <3>1, <5>1, <5>2
      <4>2. CASE k < j
        <5>1. k \in 0 .. Len(summaries) /\ j - 1 \in 0 .. Len(summaries) /\ k <= j - 1
          BY <1>2, <2>4, <4>2
        <5>2. Last(k) <= Last(j - 1)
          BY <1>1, <5>1, LastGrows
        <5>3. QED
          BY <1>3, <2>4, <3>1, <5>1, <5>2
      <4>3. QED
        BY <4>1, <4>2
    <3>3. QED
      BY <1>2, <2>4, <3>2
  <2>7. n \in Covered(k)
    BY <1>2, <1>3, <1>4, <2>4, <2>5
  <2>8. QED
    BY <2>4, <2>6, <2>7
<1>6. \A k \in 1 .. Len(summaries) : summaries[k].fate # "sending"
  BY <1>1 DEF WindowInv, Turns
<1>7. QED
  BY <1>2, <1>5, <1>6 DEF AllCovered

\* Shutdown leaves no drop outside a summary and none in two.
THEOREM ShutdownReportsAll == Spec => []AllCovered
<1>1. WindowInv /\ [Next]_vars => WindowInv'
  BY WindowNext
<1>2. QED
  BY WindowInit, <1>1, CoveredUse, PTL DEF Spec

------------------------------------------------------------------------------
(* Type correctness. *)

LEMMA BagGrows ==
    ASSUME NEW B, IsBag(B), NEW x
    PROVE  /\ IsBag(BE!BagAdd(B, x))
           /\ DOMAIN BE!BagAdd(B, x) = DOMAIN B \cup {x}
BY DEF IsBag, BE!BagAdd

LEMMA BagsAddUp ==
    ASSUME NEW B, IsBag(B), NEW C, IsBag(C)
    PROVE  IsBag(B (+) C)
BY DEF IsBag, (+)

LEMMA EmptyIsBag == IsBag(EmptyBag) /\ DOMAIN EmptyBag = {}
BY DEF IsBag, EmptyBag, SetToBag

\* A tally of one field never holds more than summaryMaxTracked values.
LEMMA TallyBounded ==
    ASSUME NEW v, IsTally(v), NEW value
    PROVE  IsTally(AddValue(v, value))
<1>1. MaxTracked \in Nat
  BY BoundsAssumption
<1>2. CASE value \in DOMAIN v.counts \/ Cardinality(DOMAIN v.counts) < MaxTracked
  <2> DEFINE new == BE!BagAdd(v.counts, value)
             D   == DOMAIN v.counts
  <2>1. IsBag(new) /\ DOMAIN new = D \cup {value}
    BY BagGrows DEF IsTally
  <2>2. IsFiniteSet(D) /\ Cardinality(D) \in Nat /\ Cardinality(D) <= MaxTracked
    BY FS_CardinalityType DEF IsTally
  <2>3. /\ IsFiniteSet(D \cup {value})
        /\ Cardinality(D \cup {value}) = IF value \in D THEN Cardinality(D) ELSE Cardinality(D) + 1
    BY <2>2, FS_AddElement
  <2>4. Cardinality(D \cup {value}) <= MaxTracked
    BY <1>1, <1>2, <2>2, <2>3
  <2>5. AddValue(v, value) = [v EXCEPT !.counts = new]
    BY <1>2 DEF AddValue
  <2> HIDE DEF new
  <2>6. /\ DOMAIN AddValue(v, value) = {"counts", "other"}
        /\ AddValue(v, value).counts = new
        /\ AddValue(v, value).other = v.other
    BY <2>5 DEF IsTally
  <2>7. QED
    BY <2>1, <2>3, <2>4, <2>6 DEF IsTally
<1>3. CASE ~ (value \in DOMAIN v.counts \/ Cardinality(DOMAIN v.counts) < MaxTracked)
  BY <1>3 DEF AddValue, IsTally
<1>4. QED
  BY <1>2, <1>3

LEMMA NewTallyOK == IsTally(NoTally)
<1>1. MaxTracked \in Nat /\ Cardinality({}) = 0 /\ IsFiniteSet({})
  BY BoundsAssumption, FS_EmptySet
<1>2. QED
  BY <1>1, EmptyIsBag DEF NoTally, IsTally

LEMMA CountedOK ==
    ASSUME NEW t, NEW rule, IsRuleTally(t, rule), NEW rec
    PROVE  IsRuleTally(Counted(t, rec), rule)
<1>1. /\ Counted(t, rec).total = t.total + 1
      /\ Counted(t, rec).ids = IF rec.id >= 0 THEN BE!BagAdd(t.ids, rec.id) ELSE t.ids
      /\ DOMAIN Counted(t, rec).fields = DOMAIN t.fields
      /\ \A name \in DOMAIN t.fields :
           Counted(t, rec).fields[name] = AddValue(t.fields[name], ValueOf(rec, name))
  BY DEF Counted
<1>2. IsBag(Counted(t, rec).ids)
  <2>1. IsBag(t.ids)
    BY DEF IsRuleTally
  <2>2. IsBag(BE!BagAdd(t.ids, rec.id))
    BY <2>1, BagGrows
  <2>3. QED
    BY <1>1, <2>1, <2>2
<1>3. \A name \in rule.tallyBy : IsTally(Counted(t, rec).fields[name])
  BY <1>1, TallyBounded DEF IsRuleTally
<1>4. QED
  BY <1>1, <1>2, <1>3 DEF IsRuleTally

LEMMA NewRuleTallyOK ==
    ASSUME NEW rule
    PROVE  IsRuleTally(NewRuleTally(rule), rule)
BY NewTallyOK, EmptyIsBag DEF IsRuleTally, NewRuleTally

\* The rule that gets a drop is one of the rules.
LEMMA FirstMatchIsRule ==
    ASSUME NEW rec, Matching(rec) # {}
    PROVE  FirstMatch(rec) \in DOMAIN Rules
<1>1. Matching(rec) \subseteq DOMAIN Rules /\ DOMAIN Rules \subseteq Nat
  BY RulesAssumption DEF Matching
<1>2. \E i \in Matching(rec) : \A j \in Matching(rec) : i <= j
  BY <1>1, LeastExists
<1>3. Min(Matching(rec)) \in Matching(rec)
  BY <1>2 DEF Min
<1>4. QED
  BY <1>1, <1>3 DEF FirstMatch

\* The records of a batch are records, and what is left of one is one.
LEMMA TailIsRest ==
    ASSUME NEW s \in Seq(Records), s # <<>>
    PROVE  Head(s) \in Records /\ Tail(s) \in Seq(Records)
OBVIOUS

LEMMA TypeInit == Init => TypeOK
<1>1. SUFFICES ASSUME Init PROVE TypeOK
  OBVIOUS
<1>2. MaxTime \in Nat /\ MaxRecords \in Nat
  BY BoundsAssumption
<1>3. NoCounts.reads = EmptyBag /\ NoCounts.drops = EmptyBag /\ DOMAIN NoCounts = {"reads", "drops"}
  BY DEF NoCounts
<1>4. DOMAIN tally = Callers
      /\ \A c \in Callers : /\ DOMAIN tally[c] = {"reads", "drops"}
                            /\ IsBag(tally[c].reads) /\ IsBag(tally[c].drops)
  BY <1>1, <1>3, EmptyIsBag DEF Init
<1>5. DOMAIN window = {} /\ DOMAIN summaries = {} /\ IsBag(read) /\ IsBag(dropped)
  BY <1>1, EmptyIsBag DEF Init
<1>6. /\ now \in 0 .. MaxTime /\ start \in 0 .. now /\ received \in 0 .. MaxRecords
  BY <1>1, <1>2 DEF Init
<1>7. tick \in BOOLEAN
  BY <1>1 DEF Init
<1>8. /\ loop \in {"waiting", "checking", "sending", "done"}
      /\ service \in {"up", "stopping", "sending", "down"}
      /\ pc \in [Callers -> {"idle", "handling", "sending"}]
      /\ todo \in [Callers -> Seq(Records)]
      /\ kept \in [Callers -> BOOLEAN]
  BY <1>1 DEF Init
<1>9. drops \in Seq([rule : DOMAIN Rules, rec : Records, at : 0 .. now])
  BY <1>1 DEF Init
<1>10. QED
  BY <1>4, <1>5, <1>6, <1>7, <1>8, <1>9 DEF TypeOK

------------------------------------------------------------------------------
(* The parts of TypeOK. *)

CallsTyped ==
    /\ pc \in [Callers -> {"idle", "handling", "sending"}]
    /\ todo \in [Callers -> Seq(Records)]
    /\ kept \in [Callers -> BOOLEAN]

TalliesTyped ==
    /\ DOMAIN tally = Callers
    /\ \A c \in Callers : /\ DOMAIN tally[c] = {"reads", "drops"}
                          /\ IsBag(tally[c].reads) /\ IsBag(tally[c].drops)

CountsTyped ==
    /\ DOMAIN window \subseteq DOMAIN Rules
    /\ \A i \in DOMAIN window : IsRuleTally(window[i], Rules[i])
    /\ IsBag(read) /\ IsBag(dropped)

DropsTyped == drops \in Seq([rule : DOMAIN Rules, rec : Records, at : 0 .. now])

FatesTyped ==
    \A k \in 1 .. Len(summaries) : summaries[k].fate \in {"sending", "delivered", "refused"}

RestTyped ==
    /\ now \in 0 .. MaxTime
    /\ received \in 0 .. MaxRecords

PartsTyped ==
    /\ CallsTyped /\ TalliesTyped /\ CountsTyped /\ DropsTyped /\ FatesTyped /\ RestTyped
    /\ tick \in BOOLEAN

TypeInv == TypeOK /\ WindowInv

\* The parts give TypeOK: start and what summaries cover come from the windows.
LEMMA PartsOfType == WindowInv => (TypeOK <=> PartsTyped)
<1>0. SUFFICES ASSUME WindowInv PROVE TypeOK <=> PartsTyped
  OBVIOUS
<1>1. DOMAIN summaries = 1 .. Len(summaries) /\ DOMAIN drops = 1 .. Len(drops)
  BY <1>0, AppendGrows DEF WindowInv, Stretches, Counting
<1>2. start \in 0 .. now
  BY <1>0 DEF WindowInv, OpenWindow, Counting
<1>3. \A k \in 1 .. Len(summaries) : summaries[k].last \in 1 .. Len(drops)
  <2>1. SUFFICES ASSUME NEW k \in 1 .. Len(summaries)
                 PROVE  summaries[k].last \in 1 .. Len(drops)
    OBVIOUS
  <2>2. Len(summaries) \in Nat /\ Len(drops) \in Nat
    BY <1>0, AppendGrows DEF WindowInv, Stretches, Counting
  <2>3. Last(k - 1) \in 0 .. Len(drops) /\ Fits(k)
    BY <1>0, <2>2 DEF WindowInv, Stretches
  <2>4. QED
    BY <2>2, <2>3 DEF Fits
<1>4. /\ loop \in {"waiting", "checking", "sending", "done"}
      /\ service \in {"up", "stopping", "sending", "down"}
  BY <1>0 DEF WindowInv, Turns
<1>5. QED
  BY <1>1, <1>2, <1>3, <1>4
     DEF TypeOK, PartsTyped, CallsTyped, TalliesTyped, CountsTyped, DropsTyped, FatesTyped,
         RestTyped

LEMMA CallsNext == CallsTyped /\ [Next]_vars => CallsTyped'
<1>1. SUFFICES ASSUME CallsTyped, [Next]_vars PROVE CallsTyped'
  OBVIOUS
<1>2. ASSUME NEW c \in Callers, Enter(c) PROVE CallsTyped'
  <2>1. PICK batch \in Batches : todo' = [todo EXCEPT ![c] = batch]
    BY <1>2 DEF Enter
  <2>2. batch \in Seq(Records)
    BY BoundsAssumption
  <2>3. QED
    BY <1>1, <1>2, <2>1, <2>2 DEF Enter, CallsTyped
<1>3. ASSUME NEW c \in Callers, Pass(c) \/ Keep(c) \/ Drop(c) PROVE CallsTyped'
  <2>1. /\ todo[c] # <<>>
        /\ todo' = [todo EXCEPT ![c] = Tail(@)]
        /\ pc' = pc
        /\ kept' = kept \/ kept' = [kept EXCEPT ![c] = TRUE]
    BY <1>3 DEF Pass, Keep, Drop, Handles
  <2>2. Tail(todo[c]) \in Seq(Records)
    BY <1>1, <2>1 DEF CallsTyped
  <2>3. todo' \in [Callers -> Seq(Records)]
    BY <1>1, <2>1, <2>2 DEF CallsTyped
  <2>4. kept' \in [Callers -> BOOLEAN]
    BY <1>1, <2>1 DEF CallsTyped
  <2>5. QED
    BY <1>1, <2>1, <2>3, <2>4 DEF CallsTyped
<1>4. ASSUME NEW c \in Callers, Flush(c) \/ Return(c) PROVE CallsTyped'
  <2>1. /\ todo' = todo
        /\ kept' = kept \/ kept' = [kept EXCEPT ![c] = FALSE]
        /\ pc' = [pc EXCEPT ![c] = "sending"] \/ pc' = [pc EXCEPT ![c] = "idle"]
    BY <1>4 DEF Flush, Return
  <2>2. kept' \in [Callers -> BOOLEAN]
    BY <1>1, <2>1 DEF CallsTyped
  <2>3. pc' \in [Callers -> {"idle", "handling", "sending"}]
    BY <1>1, <2>1 DEF CallsTyped
  <2>4. QED
    BY <1>1, <2>1, <2>2, <2>3 DEF CallsTyped
<1>5. CASE \/ TakeTick \/ TakeDue \/ NotDue \/ SummarySent \/ Exit
           \/ Stop \/ TakeLast \/ NothingLeft \/ LastSent
           \/ TimePasses \/ UNCHANGED vars
  <2>1. UNCHANGED <<pc, todo, kept>>
    BY <1>5 DEF TakeTick, TakeDue, NotDue, SummarySent, Exit, Stop, TakeLast,
                NothingLeft, LastSent, TimePasses, calls, vars
  <2>2. QED
    BY <1>1, <2>1 DEF CallsTyped
<1>6. QED
  BY <1>1, <1>2, <1>3, <1>4, <1>5 DEF Next

LEMMA TalliesNext == TalliesTyped /\ [Next]_vars => TalliesTyped'
<1>1. SUFFICES ASSUME TalliesTyped, [Next]_vars PROVE TalliesTyped'
  OBVIOUS
<1>2. ASSUME NEW c \in Callers, Keep(c) \/ Drop(c) PROVE TalliesTyped'
  <2>1. PICK rec : \/ tally' = [tally EXCEPT ![c].reads = BE!BagAdd(@, rec.channel)]
                   \/ tally' = [tally EXCEPT ![c].reads = BE!BagAdd(@, rec.channel),
                                             ![c].drops = BE!BagAdd(@, <<rec.channel, FirstMatch(rec)>>)]
    BY <1>2 DEF Keep, Drop
  <2> DEFINE reads == BE!BagAdd(tally[c].reads, rec.channel)
             some  == BE!BagAdd(tally[c].drops, <<rec.channel, FirstMatch(rec)>>)
  <2>2. IsBag(reads) /\ IsBag(some)
    BY <1>1, BagGrows DEF TalliesTyped
  <2>3. \/ tally' = [tally EXCEPT ![c].reads = reads]
        \/ tally' = [tally EXCEPT ![c].reads = reads, ![c].drops = some]
    BY <1>1, <2>1 DEF TalliesTyped
  <2> HIDE DEF reads, some
  <2>4. QED
    BY <1>1, <2>2, <2>3 DEF TalliesTyped
<1>3. ASSUME NEW c \in Callers, Flush(c) PROVE TalliesTyped'
  <2>1. tally' = [tally EXCEPT ![c] = [reads |-> EmptyBag, drops |-> EmptyBag]]
    BY <1>3 DEF Flush, NoCounts
  <2>2. QED
    BY <1>1, <2>1, EmptyIsBag DEF TalliesTyped
<1>4. CASE \/ \E c \in Callers : Enter(c) \/ Pass(c) \/ Return(c)
           \/ TakeTick \/ TakeDue \/ NotDue \/ SummarySent \/ Exit
           \/ Stop \/ TakeLast \/ NothingLeft \/ LastSent
           \/ TimePasses \/ UNCHANGED vars
  <2>1. UNCHANGED tally
    BY <1>4 DEF Enter, Pass, Return, TakeTick, TakeDue, NotDue, SummarySent, Exit,
                Stop, TakeLast, NothingLeft, LastSent, TimePasses, calls, vars
  <2>2. QED
    BY <1>1, <2>1 DEF TalliesTyped
<1>5. QED
  BY <1>1, <1>2, <1>3, <1>4 DEF Next

LEMMA CountsNext == TalliesTyped /\ CountsTyped /\ [Next]_vars => CountsTyped'
<1>1. SUFFICES ASSUME TalliesTyped, CountsTyped, [Next]_vars PROVE CountsTyped'
  OBVIOUS
<1>2. ASSUME NEW c \in Callers, Drop(c) PROVE CountsTyped'
  <2>1. PICK rec \in Records : /\ Matching(rec) # {}
                               /\ window' = Added(FirstMatch(rec), rec)
    BY <1>2 DEF Drop
  <2>2. PICK i \in DOMAIN Rules : i = FirstMatch(rec)
    BY <2>1, FirstMatchIsRule
  <2>3. PICK t : t = IF i \in DOMAIN window THEN window[i] ELSE NewRuleTally(Rules[i])
    OBVIOUS
  <2>4. window' = [j \in DOMAIN window \cup {i} |-> IF j = i THEN Counted(t, rec) ELSE window[j]]
    BY <2>1, <2>2, <2>3 DEF Added
  <2>5. IsRuleTally(t, Rules[i])
    BY <1>1, <2>3, NewRuleTallyOK DEF CountsTyped
  <2>6. IsRuleTally(Counted(t, rec), Rules[i])
    BY <2>5, CountedOK
  <2>7. UNCHANGED <<read, dropped>>
    BY <1>2 DEF Drop, metrics
  <2>8. QED
    BY <1>1, <2>2, <2>4, <2>6, <2>7 DEF CountsTyped
<1>3. ASSUME NEW c \in Callers, Flush(c) PROVE CountsTyped'
  <2>1. /\ read' = read (+) tally[c].reads
        /\ dropped' = dropped (+) tally[c].drops
        /\ window' = window
    BY <1>3 DEF Flush
  <2>2. IsBag(read') /\ IsBag(dropped')
    BY <1>1, <2>1, BagsAddUp DEF CountsTyped, TalliesTyped
  <2>3. QED
    BY <1>1, <2>1, <2>2 DEF CountsTyped
<1>4. CASE TakeDue \/ TakeLast
  <2>1. window' = <<>> /\ UNCHANGED <<read, dropped>>
    BY <1>4 DEF TakeDue, TakeLast, Take, metrics
  <2>2. DOMAIN window' = {}
    BY <2>1
  <2>3. QED
    BY <1>1, <2>1, <2>2 DEF CountsTyped
<1>5. CASE \/ \E c \in Callers : Enter(c) \/ Pass(c) \/ Keep(c) \/ Return(c)
           \/ TakeTick \/ NotDue \/ SummarySent \/ Exit
           \/ Stop \/ NothingLeft \/ LastSent
           \/ TimePasses \/ UNCHANGED vars
  <2>1. UNCHANGED <<window, read, dropped>>
    BY <1>5 DEF Enter, Pass, Keep, Return, TakeTick, NotDue, SummarySent, Exit,
                Stop, NothingLeft, LastSent, TimePasses, metrics, vars
  <2>2. QED
    BY <1>1, <2>1 DEF CountsTyped
<1>6. QED
  BY <1>1, <1>2, <1>3, <1>4, <1>5 DEF Next

LEMMA RestNext == RestTyped /\ [Next]_vars => RestTyped'
<1>1. SUFFICES ASSUME RestTyped, [Next]_vars PROVE RestTyped'
  OBVIOUS
<1>2. MaxTime \in Nat /\ MaxRecords \in Nat
  BY BoundsAssumption
<1>3. ASSUME NEW c \in Callers, Enter(c) PROVE RestTyped'
  <2>1. PICK batch \in Batches : /\ received + Len(batch) <= MaxRecords
                                 /\ received' = received + Len(batch)
    BY <1>3 DEF Enter
  <2>2. Len(batch) \in Nat
    BY BoundsAssumption
  <2>3. now' = now
    BY <1>3 DEF Enter
  <2>4. QED
    BY <1>1, <1>2, <2>1, <2>2, <2>3 DEF RestTyped
<1>4. CASE TimePasses
  BY <1>1, <1>2, <1>4 DEF RestTyped, TimePasses
<1>5. CASE \/ \E c \in Callers : Pass(c) \/ Keep(c) \/ Drop(c) \/ Flush(c) \/ Return(c)
           \/ TakeTick \/ TakeDue \/ NotDue \/ SummarySent \/ Exit
           \/ Stop \/ TakeLast \/ NothingLeft \/ LastSent \/ UNCHANGED vars
  <2>1. UNCHANGED <<now, received>>
    BY <1>5 DEF Pass, Keep, Drop, Flush, Return, TakeTick, TakeDue, NotDue, SummarySent,
                Exit, Stop, TakeLast, NothingLeft, LastSent, vars
  <2>2. QED
    BY <1>1, <2>1 DEF RestTyped
<1>6. QED
  BY <1>1, <1>3, <1>4, <1>5 DEF Next

LEMMA DropsNext == WindowInv /\ DropsTyped /\ [Next]_vars => DropsTyped'
<1> DEFINE Made(t) == [rule : DOMAIN Rules, rec : Records, at : 0 .. t]
<1>1. SUFFICES ASSUME WindowInv, DropsTyped, [Next]_vars PROVE DropsTyped'
  OBVIOUS
<1>2. now \in Nat /\ drops \in Seq(Made(now))
  BY <1>1 DEF WindowInv, Counting, DropsTyped
<1>3. ASSUME NEW c \in Callers, Drop(c) PROVE DropsTyped'
  <2>1. PICK rec \in Records :
          /\ Matching(rec) # {}
          /\ drops' = Append(drops, [rule |-> FirstMatch(rec), rec |-> rec, at |-> now])
    BY <1>3 DEF Drop
  <2>2. FirstMatch(rec) \in DOMAIN Rules
    BY <2>1, FirstMatchIsRule
  <2>3. [rule |-> FirstMatch(rec), rec |-> rec, at |-> now] \in Made(now)
    BY <1>2, <2>2
  <2>4. now' = now
    BY <1>3 DEF Drop
  <2> HIDE DEF Made
  <2>5. drops' \in Seq(Made(now))
    BY <1>2, <2>1, <2>3
  <2>6. QED
    BY <2>4, <2>5 DEF DropsTyped, Made
<1>4. CASE TimePasses
  <2>1. now' = now + 1 /\ drops' = drops
    BY <1>4 DEF TimePasses
  <2>2. Made(now) \subseteq Made(now + 1)
    BY <1>2
  <2> HIDE DEF Made
  <2>3. drops \in Seq(Made(now + 1))
    BY <1>2, <2>2
  <2>4. QED
    BY <2>1, <2>3 DEF DropsTyped, Made
<1>5. CASE \/ \E c \in Callers : Enter(c) \/ Pass(c) \/ Keep(c) \/ Flush(c) \/ Return(c)
           \/ TakeTick \/ TakeDue \/ NotDue \/ SummarySent \/ Exit
           \/ Stop \/ TakeLast \/ NothingLeft \/ LastSent \/ UNCHANGED vars
  <2>1. UNCHANGED <<now, drops>>
    BY <1>5 DEF Enter, Pass, Keep, Flush, Return, TakeTick, TakeDue, NotDue, SummarySent,
                Exit, Stop, TakeLast, NothingLeft, LastSent, vars
  <2>2. QED
    BY <1>1, <2>1 DEF DropsTyped
<1>6. QED
  BY <1>1, <1>3, <1>4, <1>5 DEF Next

LEMMA FatesNext == WindowInv /\ FatesTyped /\ [Next]_vars => FatesTyped'
<1>1. SUFFICES ASSUME WindowInv, FatesTyped, [Next]_vars PROVE FatesTyped'
  OBVIOUS
<1>2. Len(summaries) \in Nat /\ IsSeq(summaries)
  BY <1>1, AppendGrows DEF WindowInv, Stretches
<1>3. CASE TakeDue \/ TakeLast
  <2>1. summaries' = Append(summaries, Summary(now))
    BY <1>3 DEF TakeDue, TakeLast, Take
  <2>2. /\ Len(summaries') = Len(summaries) + 1
        /\ summaries'[Len(summaries) + 1] = Summary(now)
        /\ \A k \in 1 .. Len(summaries) : summaries'[k] = summaries[k]
    BY <1>2, <2>1, AppendGrows
  <2>3. Summary(now).fate = "sending"
    BY DEF Summary
  <2>4. QED
    BY <1>1, <1>2, <2>2, <2>3 DEF FatesTyped
<1>4. CASE SummarySent \/ LastSent
  <2>1. /\ Len(summaries) > 0
        /\ \E fate \in {"delivered", "refused"} :
             summaries' = [summaries EXCEPT ![Len(summaries)].fate = fate]
    BY <1>1, <1>4 DEF WindowInv, Turns, SummarySent, LastSent, Answered
  <2>2. PICK fate \in {"delivered", "refused"} :
          summaries' = [summaries EXCEPT ![Len(summaries)] =
                          [summaries[Len(summaries)] EXCEPT !.fate = fate]]
    BY <2>1
  <2>3. DOMAIN summaries = 1 .. Len(summaries)
        /\ "fate" \in DOMAIN summaries[Len(summaries)]
    BY <1>1, <1>2, <2>1, AppendGrows DEF WindowInv, Stretches, Fits
  <2>4. Len(summaries') = Len(summaries)
    BY <1>2, <2>2 DEF IsSeq
  <2>5. \A k \in 1 .. Len(summaries) :
          summaries'[k].fate = IF k = Len(summaries) THEN fate ELSE summaries[k].fate
    BY <1>2, <2>2, <2>3
  <2>6. QED
    BY <1>1, <2>4, <2>5 DEF FatesTyped
<1>5. CASE \/ \E c \in Callers :
                Enter(c) \/ Pass(c) \/ Keep(c) \/ Drop(c) \/ Flush(c) \/ Return(c)
           \/ TakeTick \/ NotDue \/ Exit \/ Stop \/ NothingLeft
           \/ TimePasses \/ UNCHANGED vars
  <2>1. UNCHANGED summaries
    BY <1>5 DEF Enter, Pass, Keep, Drop, Flush, Return, TakeTick, NotDue, Exit, Stop,
                NothingLeft, TimePasses, vars
  <2>2. QED
    BY <1>1, <2>1 DEF FatesTyped
<1>6. QED
  BY <1>1, <1>3, <1>4, <1>5 DEF Next

LEMMA TickNext == tick \in BOOLEAN /\ [Next]_vars => tick' \in BOOLEAN
BY DEF Next, Enter, Pass, Keep, Drop, Flush, Return, TakeTick, TakeDue, NotDue, SummarySent,
       Exit, Stop, TakeLast, NothingLeft, LastSent, TimePasses, vars

LEMMA TypeNext == TypeInv /\ [Next]_vars => TypeInv'
<1>1. WindowInv' => (TypeOK' <=> PartsTyped')
  BY PartsOfType, PTL
<1>2. SUFFICES ASSUME TypeInv, [Next]_vars PROVE TypeInv'
  OBVIOUS
<1>3. WindowInv /\ WindowInv'
  BY <1>2, WindowNext DEF TypeInv
<1>4. PartsTyped
  BY <1>2, <1>3, PartsOfType DEF TypeInv
<1>5. PartsTyped'
  BY <1>2, <1>3, <1>4, CallsNext, TalliesNext, CountsNext, DropsNext, FatesNext,
     RestNext, TickNext DEF PartsTyped
<1>6. QED
  BY <1>1, <1>3, <1>5 DEF TypeInv

\* The state of the processor keeps its type; a tally never holds more than
\* summaryMaxTracked values, however many the dropped records bring, for every
\* set of rules and callers.
THEOREM TypeCorrect == Spec => []TypeOK
<1>1. Init => TypeInv
  BY TypeInit, WindowInit DEF TypeInv
<1>2. TypeInv => TypeOK
  BY DEF TypeInv
<1>3. QED
  BY <1>1, <1>2, TypeNext, PTL DEF Spec

------------------------------------------------------------------------------
(* Every drop is reported. *)

\* What the summaries say of rule i, one number each.
Told(i) == [k \in DOMAIN summaries |-> TotalOf(summaries[k].rules, i)]

\* What the calls have not yet added to the counter of rule i.
Held(i) == [c \in Callers |-> CountOf(tally[c].drops, i)]

\* The totals of summaries and window add up to the drops.
TotalsInv ==
    \A i \in DOMAIN Rules :
        /\ \A k \in DOMAIN summaries : Told(i)[k] \in Nat
        /\ TotalOf(window, i) \in Nat
        /\ Cardinality(DropsOf(DOMAIN drops, i)) = SumFunction(Told(i)) + TotalOf(window, i)

\* So do the counter and what calls hold.
CountersInv ==
    /\ IsFiniteSet(DOMAIN dropped)
    /\ \A c \in Callers : IsFiniteSet(DOMAIN tally[c].drops)
    /\ \A i \in DOMAIN Rules :
         Cardinality(DropsOf(DOMAIN drops, i)) = CountOf(dropped, i) + SumFunction(Held(i))

LedgerInv == TotalsInv /\ CountersInv

LEMMA CountIsNat ==
    ASSUME NEW B, IsBag(B), IsFiniteSet(DOMAIN B), NEW i
    PROVE  CountOf(B, i) \in Nat
<1>1. IsFiniteSet({x \in DOMAIN B : x[2] = i})
  BY FS_Subset
<1>2. QED
  BY <1>1, SumInNat DEF CountOf, IsBag

\* One more drop raises the count of its rule.
LEMMA CountMore ==
    ASSUME NEW B, IsBag(B), IsFiniteSet(DOMAIN B), NEW i, NEW e
    PROVE  CountOf(BE!BagAdd(B, e), i) = CountOf(B, i) + IF e[2] = i THEN 1 ELSE 0
<1> DEFINE C == BE!BagAdd(B, e)
           S == {x \in DOMAIN B : x[2] = i}
<1>1. /\ DOMAIN C = DOMAIN B \cup {e}
      /\ \A x \in DOMAIN B : x # e => C[x] = B[x]
      /\ C[e] = IF e \in DOMAIN B THEN B[e] + 1 ELSE 1
  BY DEF BE!BagAdd
<1> HIDE DEF C
<1>2. IsFiniteSet(S) /\ \A x \in S : B[x] \in Nat
  BY FS_Subset DEF IsBag
<1>3. CountOf(B, i) = SumFunctionOnSet(B, S)
  BY DEF CountOf
<1>4. CASE e[2] # i
  <2>1. {x \in DOMAIN C : x[2] = i} = S /\ \A x \in S : C[x] = B[x]
    BY <1>1, <1>4
  <2>2. SumFunctionOnSet(C, S) = SumFunctionOnSet(B, S)
    BY <1>2, <2>1, SumSame
  <2>3. CountOf(C, i) = CountOf(B, i) /\ CountOf(B, i) \in Nat
    BY <1>3, <2>1, <2>2, CountIsNat DEF CountOf
  <2>4. QED
    BY <1>4, <2>3 DEF C
<1>5. CASE e[2] = i /\ e \in DOMAIN B
  <2>1. /\ {x \in DOMAIN C : x[2] = i} = S
        /\ e \in S
        /\ \A x \in S : B[x] \in Nat /\ C[x] = IF x = e THEN B[x] + 1 ELSE B[x]
    BY <1>1, <1>2, <1>5
  <2>2. SumFunctionOnSet(C, S) = SumFunctionOnSet(B, S) + 1
    BY <1>2, <2>1, SumGrows
  <2>3. QED
    BY <1>3, <1>5, <2>1, <2>2 DEF CountOf, C
<1>6. CASE e[2] = i /\ e \notin DOMAIN B
  <2>1. /\ {x \in DOMAIN C : x[2] = i} = S \cup {e}
        /\ e \notin S
        /\ \A x \in S : C[x] = B[x]
        /\ \A x \in S \cup {e} : C[x] \in Nat
        /\ C[e] = 1
    BY <1>1, <1>2, <1>6
  <2>2. SumFunctionOnSet(C, S \cup {e}) = SumFunctionOnSet(C, S) + 1
    BY <1>2, <2>1, SumOfMore
  <2>3. SumFunctionOnSet(C, S) = SumFunctionOnSet(B, S)
    BY <1>2, <2>1, SumSame
  <2>4. QED
    BY <1>3, <1>6, <2>1, <2>2, <2>3 DEF CountOf, C
<1>7. QED
  BY <1>4, <1>5, <1>6

\* Two bags together count what each counts.
LEMMA CountBoth ==
    ASSUME NEW B, IsBag(B), IsFiniteSet(DOMAIN B),
           NEW C, IsBag(C), IsFiniteSet(DOMAIN C), NEW i
    PROVE  CountOf(B (+) C, i) = CountOf(B, i) + CountOf(C, i)
<1> DEFINE D == {x \in DOMAIN B \cup DOMAIN C : x[2] = i}
           SB == {x \in DOMAIN B : x[2] = i}
           SC == {x \in DOMAIN C : x[2] = i}
           f == [x \in D |-> IF x \in DOMAIN B THEN B[x] ELSE 0]
           g == [x \in D |-> IF x \in DOMAIN C THEN C[x] ELSE 0]
           h == B (+) C
<1>1. /\ DOMAIN h = DOMAIN B \cup DOMAIN C
      /\ \A x \in D : h[x] = f[x] + g[x]
  BY DEF (+)
<1>2. \A x \in D : f[x] \in Nat /\ g[x] \in Nat
  BY DEF IsBag
<1>3. IsFiniteSet(D)
  <2>1. IsFiniteSet(DOMAIN B \cup DOMAIN C)
    BY FS_Union
  <2>2. QED
    BY <2>1, FS_Subset
<1>4. /\ SB \in SUBSET D /\ SC \in SUBSET D
      /\ IsFiniteSet(SB) /\ IsFiniteSet(SC)
  BY <1>3, FS_Subset
<1>5. /\ \A x \in SB : B[x] \in Nat /\ f[x] = B[x]
      /\ \A x \in SC : C[x] \in Nat /\ g[x] = C[x]
      /\ \A x \in D \ SB : f[x] = 0
      /\ \A x \in D \ SC : g[x] = 0
  BY DEF IsBag
<1>6. CountOf(h, i) = SumFunctionOnSet(h, D)
  BY <1>1 DEF CountOf
<1>7. CountOf(B, i) = SumFunctionOnSet(B, SB) /\ CountOf(C, i) = SumFunctionOnSet(C, SC)
  BY DEF CountOf
<1> HIDE DEF D, SB, SC, f, g, h
<1>8. SumFunctionOnSet(h, D) = SumFunctionOnSet(f, D) + SumFunctionOnSet(g, D)
  BY <1>1, <1>2, <1>3, SumOfSums
<1>9. SumFunctionOnSet(f, D) = SumFunctionOnSet(f, SB)
  BY <1>2, <1>3, <1>4, <1>5, SumPadded
<1>10. SumFunctionOnSet(g, D) = SumFunctionOnSet(g, SC)
  BY <1>2, <1>3, <1>4, <1>5, SumPadded
<1>11. /\ SumFunctionOnSet(f, SB) = SumFunctionOnSet(B, SB)
       /\ SumFunctionOnSet(g, SC) = SumFunctionOnSet(C, SC)
  BY <1>4, <1>5, SumSame
<1>12. QED
  BY <1>6, <1>7, <1>8, <1>9, <1>10, <1>11 DEF h

LEMMA DropsFinite ==
    ASSUME WindowInv
    PROVE  /\ Len(drops) \in Nat /\ DOMAIN drops = 1 .. Len(drops)
           /\ IsFiniteSet(DOMAIN drops)
           /\ \A i : /\ IsFiniteSet(DropsOf(DOMAIN drops, i))
                     /\ Cardinality(DropsOf(DOMAIN drops, i)) \in Nat
<1>1. Len(drops) \in Nat /\ DOMAIN drops = 1 .. Len(drops)
  BY AppendGrows DEF WindowInv, Counting
<1>2. IsFiniteSet(DOMAIN drops)
  BY <1>1, FS_Interval
<1>3. \A i : DropsOf(DOMAIN drops, i) \subseteq DOMAIN drops
  BY DEF DropsOf
<1>4. QED
  BY <1>1, <1>2, <1>3, FS_Subset, FS_CardinalityType

LEMMA SummariesFinite ==
    ASSUME WindowInv
    PROVE  /\ Len(summaries) \in Nat /\ DOMAIN summaries = 1 .. Len(summaries)
           /\ IsFiniteSet(DOMAIN summaries)
<1>1. Len(summaries) \in Nat /\ DOMAIN summaries = 1 .. Len(summaries)
  BY AppendGrows DEF WindowInv, Stretches
<1>2. QED
  BY <1>1, FS_Interval

\* A drop is one more for its rule and none for another.
LEMMA OneDropMore ==
    ASSUME WindowInv, NEW d, drops' = Append(drops, d), NEW i
    PROVE  Cardinality(DropsOf(DOMAIN drops, i))'
             = Cardinality(DropsOf(DOMAIN drops, i)) + IF d.rule = i THEN 1 ELSE 0
<1> DEFINE S == DropsOf(DOMAIN drops, i)
<1>0. PICK n : n = Len(drops) + 1
  OBVIOUS
<1>1. /\ IsSeq(drops') /\ n \in Nat
      /\ DOMAIN drops' = 1 .. n
      /\ drops'[n] = d
      /\ \A m \in 1 .. Len(drops) : drops'[m] = drops[m]
      /\ DOMAIN drops = 1 .. Len(drops) /\ Len(drops) \in Nat
  BY <1>0, AppendGrows DEF WindowInv, Counting
<1>2. DOMAIN drops' = DOMAIN drops \cup {n} /\ n \notin DOMAIN drops
  BY <1>0, <1>1
<1>3. DropsOf(DOMAIN drops, i)' = IF d.rule = i THEN S \cup {n} ELSE S
  BY <1>1, <1>2 DEF DropsOf
<1>4. n \notin S
  BY <1>2 DEF DropsOf
<1>5. IsFiniteSet(S) /\ Cardinality(S) \in Nat
  BY DropsFinite
<1>6. Cardinality(S \cup {n}) = Cardinality(S) + 1
  BY <1>4, <1>5, FS_AddElement
<1>7. QED
  BY <1>3, <1>5, <1>6

\* What the window says after a drop.
LEMMA WindowTotals ==
    ASSUME NEW i, NEW rec, window' = Added(i, rec), NEW j,
           TotalOf(window, j) \in Nat
    PROVE  TotalOf(window, j)' = TotalOf(window, j) + IF i = j THEN 1 ELSE 0
<1>1. PICK t : t = IF i \in DOMAIN window THEN window[i] ELSE NewRuleTally(Rules[i])
  OBVIOUS
<1>2. window' = [k \in DOMAIN window \cup {i} |-> IF k = i THEN Counted(t, rec) ELSE window[k]]
  BY <1>1 DEF Added
<1>3. Counted(t, rec).total = t.total + 1
  BY DEF Counted
<1>4. t.total = TotalOf(window, i)
  BY <1>1 DEF TotalOf, NewRuleTally
<1>5. CASE i = j
  BY <1>2, <1>3, <1>4, <1>5 DEF TotalOf
<1>6. CASE i # j
  BY <1>2, <1>6 DEF TotalOf
<1>7. QED
  BY <1>5, <1>6

LEMMA DropTotals ==
    ASSUME WindowInv, TotalsInv, NEW c \in Callers, Drop(c)
    PROVE  TotalsInv'
<1>1. PICK rec, r :
        /\ rec \in Records
        /\ r = FirstMatch(rec)
        /\ window' = Added(r, rec)
        /\ drops' = Append(drops, [rule |-> r, rec |-> rec, at |-> now])
  BY DEF Drop
<1>2. summaries' = summaries
  BY DEF Drop
<1>3. SUFFICES ASSUME NEW i \in DOMAIN Rules
               PROVE  /\ \A k \in DOMAIN summaries' : Told(i)'[k] \in Nat
                      /\ TotalOf(window, i)' \in Nat
                      /\ Cardinality(DropsOf(DOMAIN drops, i))'
                           = SumFunction(Told(i))' + TotalOf(window, i)'
  BY DEF TotalsInv
<1>4. Told(i)' = Told(i)
  BY <1>2 DEF Told, TotalOf
<1>5. SumFunction(Told(i))' = SumFunction(Told(i))
  BY <1>4 DEF SumFunction
<1>6. /\ \A k \in DOMAIN summaries : Told(i)[k] \in Nat
      /\ TotalOf(window, i) \in Nat
      /\ Cardinality(DropsOf(DOMAIN drops, i)) = SumFunction(Told(i)) + TotalOf(window, i)
  BY DEF TotalsInv
<1>7. SumFunction(Told(i)) \in Nat
  <2>1. IsFiniteSet(DOMAIN summaries) /\ DOMAIN Told(i) = DOMAIN summaries
    BY SummariesFinite DEF Told
  <2>2. QED
    BY <1>6, <2>1, SumInNat DEF SumFunction
<1>8. TotalOf(window, i)' = TotalOf(window, i) + IF r = i THEN 1 ELSE 0
  BY <1>1, <1>6, WindowTotals
<1>9. Cardinality(DropsOf(DOMAIN drops, i))'
        = Cardinality(DropsOf(DOMAIN drops, i)) + IF r = i THEN 1 ELSE 0
  BY <1>1, OneDropMore
<1>10. QED
  BY <1>2, <1>4, <1>5, <1>6, <1>7, <1>8, <1>9

\* A summary takes over what the window says.
LEMMA TakeTotals ==
    ASSUME WindowInv, TotalsInv, Take, drops' = drops
    PROVE  TotalsInv'
<1>1. PICK n : n = Len(summaries) + 1
  OBVIOUS
<1>2. /\ n \in Nat
      /\ DOMAIN summaries = 1 .. Len(summaries) /\ Len(summaries) \in Nat
      /\ DOMAIN summaries' = DOMAIN summaries \cup {n} /\ n \notin DOMAIN summaries
      /\ summaries'[n] = Summary(now)
      /\ \A k \in DOMAIN summaries : summaries'[k] = summaries[k]
  <2>1. IsSeq(summaries) /\ summaries' = Append(summaries, Summary(now))
    BY DEF WindowInv, Stretches, Take
  <2>2. /\ IsSeq(summaries') /\ Len(summaries) \in Nat
        /\ DOMAIN summaries = 1 .. Len(summaries)
        /\ Len(summaries') = n
        /\ summaries'[n] = Summary(now)
        /\ \A k \in 1 .. Len(summaries) : summaries'[k] = summaries[k]
    BY <1>1, <2>1, AppendGrows
  <2>3. DOMAIN summaries' = 1 .. n
    BY <2>2, AppendGrows
  <2>4. QED
    BY <1>1, <2>2, <2>3
<1>3. SUFFICES ASSUME NEW i \in DOMAIN Rules
               PROVE  /\ \A k \in DOMAIN summaries' : Told(i)'[k] \in Nat
                      /\ TotalOf(window, i)' \in Nat
                      /\ Cardinality(DropsOf(DOMAIN drops, i))'
                           = SumFunction(Told(i))' + TotalOf(window, i)'
  BY DEF TotalsInv
<1>4. /\ \A k \in DOMAIN summaries : Told(i)[k] \in Nat
      /\ TotalOf(window, i) \in Nat
      /\ Cardinality(DropsOf(DOMAIN drops, i)) = SumFunction(Told(i)) + TotalOf(window, i)
  BY DEF TotalsInv
<1>5. TotalOf(Summary(now).rules, i) = TotalOf(window, i)
  BY DEF Summary, TotalOf
<1>6. PICK f, g : f = Told(i) /\ g = Told(i)'
  OBVIOUS
<1>7. /\ DOMAIN f = DOMAIN summaries
      /\ DOMAIN g = DOMAIN summaries \cup {n}
      /\ \A k \in DOMAIN summaries : g[k] = f[k]
      /\ g[n] = TotalOf(window, i)
  <2>1. g = [k \in DOMAIN summaries' |-> TotalOf(summaries'[k].rules, i)]
    BY <1>6 DEF Told, TotalOf
  <2>2. f = [k \in DOMAIN summaries |-> TotalOf(summaries[k].rules, i)]
    BY <1>6 DEF Told
  <2>3. QED
    BY <1>2, <1>5, <2>1, <2>2
<1>8. SumFunction(g) = SumFunction(f) + TotalOf(window, i)
  <2>1. PICK D : D = DOMAIN summaries
    OBVIOUS
  <2>2. IsFiniteSet(D) /\ n \notin D
    BY <1>2, <2>1, SummariesFinite
  <2>3. \A k \in D : f[k] \in Nat /\ g[k] = f[k]
    BY <1>4, <1>6, <1>7, <2>1
  <2>4. \A k \in D \cup {n} : g[k] \in Nat
    BY <1>4, <1>7, <2>1, <2>3
  <2>5. SumFunctionOnSet(g, D \cup {n}) = SumFunctionOnSet(g, D) + g[n]
    BY <2>2, <2>4, SumOfMore
  <2>6. SumFunctionOnSet(g, D) = SumFunctionOnSet(f, D)
    BY <2>2, <2>3, SumSame
  <2>7. QED
    BY <1>7, <2>1, <2>5, <2>6 DEF SumFunction
<1>9. TotalOf(window, i)' = 0
  BY DEF Take, TotalOf
<1>10. DropsOf(DOMAIN drops, i)' = DropsOf(DOMAIN drops, i)
  BY DEF DropsOf
<1>11. SumFunction(f) \in Nat
  BY <1>4, <1>6, <1>7, SummariesFinite, SumInNat DEF SumFunction
<1>12. QED
  BY <1>2, <1>4, <1>6, <1>7, <1>8, <1>9, <1>10, <1>11

\* An answer changes no total.
LEMMA AnswerTotals ==
    ASSUME WindowInv, TotalsInv, Answered, Len(summaries) > 0, UNCHANGED <<window, drops>>
    PROVE  TotalsInv'
<1>1. PICK n : n = Len(summaries)
  OBVIOUS
<1>2. n \in DOMAIN summaries /\ DOMAIN summaries[n] = {"start", "end", "total", "rules", "last", "fate"}
  BY <1>1, SummariesFinite DEF WindowInv, Stretches, Fits
<1>3. PICK fate : summaries' = [summaries EXCEPT ![n] = [summaries[n] EXCEPT !.fate = fate]]
  BY <1>1 DEF Answered
<1>4. /\ DOMAIN summaries' = DOMAIN summaries
      /\ \A k \in DOMAIN summaries : summaries'[k].rules = summaries[k].rules
  BY <1>2, <1>3
<1>5. \A i : Told(i)' = Told(i)
  BY <1>4 DEF Told, TotalOf
<1>6. \A i : /\ SumFunction(Told(i))' = SumFunction(Told(i))
             /\ TotalOf(window, i)' = TotalOf(window, i)
             /\ DropsOf(DOMAIN drops, i)' = DropsOf(DOMAIN drops, i)
  BY <1>5 DEF SumFunction, TotalOf, DropsOf
<1>7. QED
  BY <1>4, <1>5, <1>6 DEF TotalsInv

LEMMA TotalsNext == WindowInv /\ TotalsInv /\ [Next]_vars => TotalsInv'
<1>1. SUFFICES ASSUME WindowInv, TotalsInv, [Next]_vars PROVE TotalsInv'
  OBVIOUS
<1>2. ASSUME NEW c \in Callers, Drop(c) PROVE TotalsInv'
  BY <1>1, <1>2, DropTotals
<1>3. CASE TakeDue \/ TakeLast
  BY <1>1, <1>3, TakeTotals DEF TakeDue, TakeLast
<1>4. CASE SummarySent \/ LastSent
  <2>1. Answered /\ Len(summaries) > 0 /\ UNCHANGED <<window, drops>>
    BY <1>1, <1>4 DEF SummarySent, LastSent, WindowInv, Turns
  <2>2. QED
    BY <1>1, <2>1, AnswerTotals
<1>5. CASE \/ \E c \in Callers : Enter(c) \/ Pass(c) \/ Keep(c) \/ Flush(c) \/ Return(c)
           \/ TakeTick \/ NotDue \/ Exit \/ Stop \/ NothingLeft
           \/ TimePasses \/ UNCHANGED vars
  <2>1. UNCHANGED <<summaries, window, drops>>
    BY <1>5 DEF Enter, Pass, Keep, Flush, Return, TakeTick, NotDue, Exit, Stop,
                NothingLeft, TimePasses, vars
  <2>2. \A i : /\ Told(i)' = Told(i)
               /\ TotalOf(window, i)' = TotalOf(window, i)
               /\ DropsOf(DOMAIN drops, i)' = DropsOf(DOMAIN drops, i)
    BY <2>1 DEF Told, TotalOf, DropsOf
  <2>3. \A i : SumFunction(Told(i))' = SumFunction(Told(i))
    BY <2>2 DEF SumFunction
  <2>4. QED
    BY <1>1, <2>1, <2>2, <2>3 DEF TotalsInv
<1>6. QED
  BY <1>1, <1>2, <1>3, <1>4, <1>5 DEF Next

\* A call counts the drop that it made.
LEMMA DropCounters ==
    ASSUME WindowInv, TalliesTyped, IsBag(dropped), CountersInv, NEW c \in Callers, Drop(c)
    PROVE  CountersInv'
<1>1. PICK rec, r :
        /\ rec \in Records
        /\ r = FirstMatch(rec)
        /\ tally' = [tally EXCEPT ![c].reads = BE!BagAdd(@, rec.channel),
                                  ![c].drops = BE!BagAdd(@, <<rec.channel, r>>)]
        /\ drops' = Append(drops, [rule |-> r, rec |-> rec, at |-> now])
  BY DEF Drop
<1>2. dropped' = dropped
  BY DEF Drop, metrics
<1>3. PICK e, B : e = <<rec.channel, r>> /\ B = tally[c].drops
  OBVIOUS
<1>4. /\ IsBag(B) /\ IsFiniteSet(DOMAIN B) /\ e[2] = r
      /\ \A d \in Callers : IsBag(tally[d].drops) /\ IsFiniteSet(DOMAIN tally[d].drops)
  BY <1>3 DEF TalliesTyped, CountersInv
<1>5. PICK some : some = BE!BagAdd(B, e)
  OBVIOUS
<1>6. IsFiniteSet(DOMAIN some)
  <2>1. DOMAIN some = DOMAIN B \cup {e}
    BY <1>4, <1>5, BagGrows
  <2>2. QED
    BY <1>4, <2>1, FS_AddElement
<1>7. \A d \in Callers : tally'[d].drops = IF d = c THEN some ELSE tally[d].drops
  <2>1. PICK reads : reads = BE!BagAdd(tally[c].reads, rec.channel)
    OBVIOUS
  <2>2. /\ DOMAIN tally = Callers
        /\ \A d \in Callers : DOMAIN tally[d] = {"reads", "drops"}
    BY DEF TalliesTyped
  <2>3. tally' = [tally EXCEPT ![c].reads = reads, ![c].drops = some]
    BY <1>1, <1>3, <1>5, <2>1, <2>2
  <2>4. QED
    BY <2>2, <2>3
<1>8. \A d \in Callers : IsFiniteSet(DOMAIN tally'[d].drops)
  BY <1>4, <1>6, <1>7
<1>9. ASSUME NEW i \in DOMAIN Rules
      PROVE  Cardinality(DropsOf(DOMAIN drops, i))' = CountOf(dropped, i)' + SumFunction(Held(i))'
  <2>1. PICK n \in Nat : n = IF r = i THEN 1 ELSE 0
    OBVIOUS
  <2>2. Cardinality(DropsOf(DOMAIN drops, i))' = Cardinality(DropsOf(DOMAIN drops, i)) + n
    BY <1>1, <2>1, OneDropMore
  <2>3. CountOf(some, i) = CountOf(B, i) + n
    BY <1>4, <1>5, <2>1, CountMore
  <2>4. PICK f, g : f = Held(i) /\ g = Held(i)'
    OBVIOUS
  <2>5. DOMAIN f = Callers /\ DOMAIN g = Callers
    BY <2>4 DEF Held
  <2>6. \A d \in Callers : f[d] \in Nat /\ g[d] = IF d = c THEN f[d] + n ELSE f[d]
    <3>1. \A d \in Callers : f[d] = CountOf(tally[d].drops, i)
      BY <2>4 DEF Held
    <3>2. \A d \in Callers : g[d] = CountOf(tally'[d].drops, i)
      BY <2>4 DEF Held, CountOf
    <3>3. \A d \in Callers : f[d] \in Nat
      BY <1>4, <3>1, CountIsNat
    <3>4. f[c] = CountOf(B, i) /\ g[c] = CountOf(some, i)
      BY <1>3, <1>7, <3>1, <3>2
    <3>5. \A d \in Callers : d # c => g[d] = f[d]
      BY <1>7, <3>1, <3>2
    <3>6. QED
      BY <2>3, <3>3, <3>4, <3>5
  <2>7. IsFiniteSet(Callers)
    BY BoundsAssumption
  <2>8. SumFunctionOnSet(g, Callers) = SumFunctionOnSet(f, Callers) + n
    BY <2>6, <2>7, SumGrows
  <2>9. SumFunctionOnSet(f, Callers) \in Nat
    BY <2>6, <2>7, SumInNat
  <2>10. CountOf(dropped, i)' = CountOf(dropped, i)
    BY <1>2 DEF CountOf
  <2>11. /\ Cardinality(DropsOf(DOMAIN drops, i)) = CountOf(dropped, i) + SumFunctionOnSet(f, Callers)
         /\ SumFunction(Held(i))' = SumFunctionOnSet(g, Callers)
    BY <2>4, <2>5 DEF CountersInv, SumFunction
  <2>12. CountOf(dropped, i) \in Nat
    BY CountIsNat DEF CountersInv
  <2>13. QED
    BY <2>2, <2>8, <2>9, <2>10, <2>11, <2>12
<1>10. QED
  BY <1>2, <1>8, <1>9 DEF CountersInv

\* Flush moves what a call counted into the counters.
LEMMA FlushCounters ==
    ASSUME WindowInv, TalliesTyped, IsBag(dropped), CountersInv, NEW c \in Callers, Flush(c)
    PROVE  CountersInv'
<1>1. PICK B : B = tally[c].drops
  OBVIOUS
<1>2. /\ dropped' = dropped (+) B
      /\ tally' = [tally EXCEPT ![c] = NoCounts]
      /\ drops' = drops
  BY <1>1 DEF Flush
<1>3. /\ IsBag(B) /\ IsFiniteSet(DOMAIN B) /\ IsFiniteSet(DOMAIN dropped)
      /\ \A d \in Callers : IsBag(tally[d].drops) /\ IsFiniteSet(DOMAIN tally[d].drops)
      /\ DOMAIN tally = Callers
  BY <1>1 DEF TalliesTyped, CountersInv
<1>4. \A d \in Callers : tally'[d].drops = IF d = c THEN EmptyBag ELSE tally[d].drops
  BY <1>2, <1>3 DEF NoCounts
<1>5. DOMAIN EmptyBag = {} /\ IsFiniteSet({})
  BY EmptyIsBag, FS_EmptySet
<1>6. IsFiniteSet(DOMAIN dropped')
  <2>1. DOMAIN dropped' = DOMAIN dropped \cup DOMAIN B
    BY <1>2 DEF (+)
  <2>2. QED
    BY <1>3, <2>1, FS_Union
<1>7. \A d \in Callers : IsFiniteSet(DOMAIN tally'[d].drops)
  BY <1>3, <1>4, <1>5
<1>8. ASSUME NEW i \in DOMAIN Rules
      PROVE  Cardinality(DropsOf(DOMAIN drops, i))' = CountOf(dropped, i)' + SumFunction(Held(i))'
  <2>1. PICK n \in Nat : n = CountOf(B, i)
    BY <1>3, CountIsNat
  <2>2. CountOf(dropped, i)' = CountOf(dropped, i) + n
    <3>1. CountOf(dropped, i)' = CountOf(dropped (+) B, i)
      BY <1>2 DEF CountOf
    <3>2. QED
      BY <1>3, <2>1, <3>1, CountBoth
  <2>3. PICK f, g : f = Held(i) /\ g = Held(i)'
    OBVIOUS
  <2>4. DOMAIN f = Callers /\ DOMAIN g = Callers
    BY <2>3 DEF Held
  <2>5. \A d \in Callers : g[d] \in Nat /\ f[d] = IF d = c THEN g[d] + n ELSE g[d]
    <3>1. \A d \in Callers : f[d] = CountOf(tally[d].drops, i)
      BY <2>3 DEF Held
    <3>2. \A d \in Callers : g[d] = CountOf(tally'[d].drops, i)
      BY <2>3 DEF Held, CountOf
    <3>3. \A d \in Callers : f[d] \in Nat
      BY <1>3, <3>1, CountIsNat
    <3>4. f[c] = n /\ g[c] = 0
      <4>1. CountOf(EmptyBag, i) = SumFunctionOnSet(EmptyBag, {})
        <5>1. {x \in DOMAIN EmptyBag : x[2] = i} = {}
          BY <1>5
        <5>2. QED
          BY <5>1 DEF CountOf
      <4>2. CountOf(EmptyBag, i) = 0
        BY <4>1, SumOfNone
      <4>3. QED
        BY <1>1, <1>4, <2>1, <3>1, <3>2, <4>2
    <3>5. \A d \in Callers : d # c => g[d] = f[d]
      BY <1>4, <3>1, <3>2
    <3>6. QED
      BY <3>3, <3>4, <3>5
  <2>6. IsFiniteSet(Callers)
    BY BoundsAssumption
  <2>7. SumFunctionOnSet(f, Callers) = SumFunctionOnSet(g, Callers) + n
    BY <2>5, <2>6, SumGrows
  <2>8. SumFunctionOnSet(g, Callers) \in Nat /\ CountOf(dropped, i) \in Nat
    BY <1>3, <2>5, <2>6, SumInNat, CountIsNat
  <2>9. DropsOf(DOMAIN drops, i)' = DropsOf(DOMAIN drops, i)
    BY <1>2 DEF DropsOf
  <2>10. /\ Cardinality(DropsOf(DOMAIN drops, i)) = CountOf(dropped, i) + SumFunctionOnSet(f, Callers)
         /\ SumFunction(Held(i))' = SumFunctionOnSet(g, Callers)
    BY <2>3, <2>4 DEF CountersInv, SumFunction
  <2>11. QED
    BY <2>2, <2>7, <2>8, <2>9, <2>10
<1>9. QED
  BY <1>6, <1>7, <1>8 DEF CountersInv

LEMMA CountersNext ==
    WindowInv /\ TalliesTyped /\ IsBag(dropped) /\ CountersInv /\ [Next]_vars => CountersInv'
<1>1. SUFFICES ASSUME WindowInv, TalliesTyped, IsBag(dropped), CountersInv, [Next]_vars
               PROVE  CountersInv'
  OBVIOUS
<1>2. ASSUME NEW c \in Callers, Drop(c) PROVE CountersInv'
  BY <1>1, <1>2, DropCounters
<1>3. ASSUME NEW c \in Callers, Flush(c) PROVE CountersInv'
  BY <1>1, <1>3, FlushCounters
<1>4. ASSUME NEW c \in Callers, Keep(c) PROVE CountersInv'
  <2>1. PICK reads : tally' = [tally EXCEPT ![c].reads = reads]
    <3>1. PICK rec : tally' = [tally EXCEPT ![c].reads = BE!BagAdd(@, rec.channel)]
      BY <1>4 DEF Keep
    <3>2. tally' = [tally EXCEPT ![c].reads = BE!BagAdd(tally[c].reads, rec.channel)]
      BY <1>1, <3>1 DEF TalliesTyped
    <3>3. QED
      BY <3>2
  <2>2. \A d \in Callers : tally'[d].drops = tally[d].drops
    BY <1>1, <2>1 DEF TalliesTyped
  <2>3. UNCHANGED <<dropped, drops>>
    BY <1>4 DEF Keep, metrics
  <2>4. \A i : /\ DropsOf(DOMAIN drops, i)' = DropsOf(DOMAIN drops, i)
               /\ CountOf(dropped, i)' = CountOf(dropped, i)
               /\ Held(i)' = Held(i)
    BY <2>2, <2>3 DEF DropsOf, CountOf, Held
  <2>5. \A i : SumFunction(Held(i))' = SumFunction(Held(i))
    BY <2>4 DEF SumFunction
  <2>6. QED
    BY <1>1, <2>2, <2>3, <2>4, <2>5 DEF CountersInv
<1>5. CASE \/ \E c \in Callers : Enter(c) \/ Pass(c) \/ Return(c)
           \/ TakeTick \/ TakeDue \/ NotDue \/ SummarySent \/ Exit
           \/ Stop \/ TakeLast \/ NothingLeft \/ LastSent
           \/ TimePasses \/ UNCHANGED vars
  <2>1. UNCHANGED <<tally, dropped, drops>>
    BY <1>5 DEF Enter, Pass, Return, TakeTick, TakeDue, NotDue, SummarySent, Exit,
                Stop, TakeLast, NothingLeft, LastSent, TimePasses, calls, metrics, vars
  <2>2. \A i : /\ DropsOf(DOMAIN drops, i)' = DropsOf(DOMAIN drops, i)
               /\ CountOf(dropped, i)' = CountOf(dropped, i)
               /\ Held(i)' = Held(i)
    BY <2>1 DEF DropsOf, CountOf, Held
  <2>3. \A i : SumFunction(Held(i))' = SumFunction(Held(i))
    BY <2>2 DEF SumFunction
  <2>4. QED
    BY <1>1, <2>1, <2>2, <2>3 DEF CountersInv
<1>6. QED
  BY <1>1, <1>2, <1>3, <1>4, <1>5 DEF Next

LEMMA LedgerInit == Init => LedgerInv
<1>1. SUFFICES ASSUME Init PROVE LedgerInv
  OBVIOUS
<1>2. /\ DOMAIN drops = {} /\ DOMAIN summaries = {} /\ DOMAIN window = {}
      /\ dropped = EmptyBag /\ DOMAIN EmptyBag = {} /\ IsFiniteSet({}) /\ Cardinality({}) = 0
      /\ \A c \in Callers : tally[c].drops = EmptyBag
  BY <1>1, EmptyIsBag, FS_EmptySet DEF Init, NoCounts
<1>3. ASSUME NEW i
      PROVE  /\ Cardinality(DropsOf(DOMAIN drops, i)) = 0
             /\ TotalOf(window, i) = 0
             /\ SumFunction(Told(i)) = 0
             /\ CountOf(EmptyBag, i) = 0
             /\ SumFunction(Held(i)) = 0
  <2>1. DropsOf(DOMAIN drops, i) = {}
    BY <1>2 DEF DropsOf
  <2>2. DOMAIN Told(i) = {} /\ DOMAIN Held(i) = Callers
    BY <1>2 DEF Told, Held
  <2>3. SumFunction(Told(i)) = 0
    BY <2>2, SumOfNone DEF SumFunction
  <2>4. CountOf(EmptyBag, i) = 0
    <3>1. {x \in DOMAIN EmptyBag : x[2] = i} = {}
      BY <1>2
    <3>2. QED
      BY <3>1, SumOfNone DEF CountOf
  <2>5. \A c \in Callers : Held(i)[c] = 0
    BY <1>2, <2>4 DEF Held
  <2>6. SumFunction(Held(i)) = 0
    BY <2>2, <2>5, BoundsAssumption, SumOfZeros DEF SumFunction
  <2>7. QED
    BY <1>2, <2>1, <2>3, <2>4, <2>6 DEF TotalOf
<1>4. TotalsInv
  BY <1>2, <1>3 DEF TotalsInv
<1>5. CountersInv
  <2>1. \A i : CountOf(dropped, i) = 0
    BY <1>2, <1>3
  <2>2. IsFiniteSet(DOMAIN dropped) /\ \A c \in Callers : IsFiniteSet(DOMAIN tally[c].drops)
    BY <1>2
  <2>3. QED
    BY <1>3, <2>1, <2>2 DEF CountersInv
<1>6. QED
  BY <1>4, <1>5 DEF LedgerInv

LEMMA LedgerUse == WindowInv /\ LedgerInv => EveryDropReported
<1>1. SUFFICES ASSUME WindowInv, LedgerInv PROVE EveryDropReported
  OBVIOUS
<1>2. service = "down" =>
        /\ window = <<>>
        /\ \A k \in DOMAIN summaries : summaries[k].fate # "sending"
  BY <1>1, SummariesFinite DEF WindowInv, Turns
<1>3. ASSUME NEW i \in DOMAIN Rules
      PROVE  /\ Cardinality(DropsOf(DOMAIN drops, i))
                  = SumFunction([k \in DOMAIN summaries |-> TotalOf(summaries[k].rules, i)])
                    + TotalOf(window, i)
             /\ Cardinality(DropsOf(DOMAIN drops, i))
                  = CountOf(dropped, i)
                    + SumFunction([c \in Callers |-> CountOf(tally[c].drops, i)])
  BY <1>1 DEF LedgerInv, TotalsInv, CountersInv, Told, Held
<1>4. QED
  BY <1>2, <1>3 DEF EveryDropReported

\* Each rule's totals, in the summaries and the open window, add up to the drops it
\* made, and so does its counter with what calls still hold: for every set of rules,
\* callers and batches, whatever calls, ticks, answers and Shutdown do meanwhile.
THEOREM NoDropUnreported == Spec => []EveryDropReported
<1>1. Init => TypeInv /\ LedgerInv
  BY TypeInit, WindowInit, LedgerInit DEF TypeInv
<1>2. TypeInv /\ LedgerInv /\ [Next]_vars => TypeInv' /\ LedgerInv'
  BY TypeNext, TotalsNext, CountersNext DEF TypeInv, TypeOK, TalliesTyped, LedgerInv
<1>3. TypeInv /\ LedgerInv => EveryDropReported
  BY LedgerUse DEF TypeInv
<1>4. QED
  BY <1>1, <1>2, <1>3, PTL DEF Spec

------------------------------------------------------------------------------
(* Summaries are true.  The operators take the row of drops as a parameter, *)
(* so that what a summary says of its stretch of the row stays said when    *)
(* the row grows.                                                           *)

\* The drops among M by rule i, and those among M with a value.
By(d, M, i) == {n \in M : d[n].rule = i}

Having(d, M, name, x) == {n \in M : ValueOf(d[n].rec, name) = x}

ValuesOf(d, M, name) == {ValueOf(d[n].rec, name) : n \in M}

\* The tally of a field counts every value it holds from its first drop on: one goes
\* to other only when the tally is full, and from then on no value enters.
FieldTells(v, d, M, name) ==
    /\ DOMAIN v.counts \subseteq ValuesOf(d, M, name)
    /\ \A x \in DOMAIN v.counts : v.counts[x] = Cardinality(Having(d, M, name, x))
    /\ v.other = 0 => ValuesOf(d, M, name) \subseteq DOMAIN v.counts
    /\ v.other > 0 =>
         /\ Cardinality(DOMAIN v.counts) = MaxTracked
         /\ \E x \in ValuesOf(d, M, name) : x \notin DOMAIN v.counts
    /\ SumFunction(v.counts) + v.other = Cardinality(M)

IdsTell(ids, d, M) ==
    /\ DOMAIN ids = {d[n].rec.id : n \in {m \in M : d[m].rec.id >= 0}}
    /\ \A id \in DOMAIN ids : ids[id] = Cardinality({n \in M : d[n].rec.id = id})

TallyTells(t, rule, d, M) ==
    /\ t.total = Cardinality(M)
    /\ IdsTell(t.ids, d, M)
    /\ \A name \in rule.tallyBy : FieldTells(t.fields[name], d, M, name)

\* The open window tells of the drops after the last summary.
OpenDrops == Last(Len(summaries)) + 1 .. Len(drops)

WindowTells ==
    /\ DOMAIN window = {drops[n].rule : n \in OpenDrops}
    /\ SumFunction([i \in DOMAIN window |-> window[i].total]) = Cardinality(OpenDrops)
    /\ \A i \in DOMAIN window :
         TallyTells(window[i], Rules[i], drops, By(drops, OpenDrops, i))

\* What is shown of a field.  A value that has the name of other is taken for it.
ShownTells(field, d, M, name) ==
    LET shown == DOMAIN field \ {Other}
        all   == ValuesOf(d, M, name)
    IN  /\ \A x \in shown : field[x] = Cardinality(Having(d, M, name, x))
        /\ Other \notin all =>
             /\ SumFunction(field) = Cardinality(M)
             /\ Cardinality(all) <= MaxTracked =>
                  \A x \in all \ shown, y \in shown :
                      Cardinality(Having(d, M, name, x)) <= Cardinality(Having(d, M, name, y))

SummaryTells(s, d, M) ==
    /\ s.total = Cardinality(M)
    /\ DOMAIN s.rules = {d[n].rule : n \in M}
    /\ \A i \in DOMAIN s.rules :
         /\ s.rules[i].total = Cardinality(By(d, M, i))
         /\ IdsTell(s.rules[i].ids, d, By(d, M, i))
         /\ DOMAIN s.rules[i].fields = Rules[i].tallyBy
         /\ \A name \in Rules[i].tallyBy :
              ShownTells(s.rules[i].fields[name], d, By(d, M, i), name)

TruthInv ==
    /\ WindowTells
    /\ \A k \in DOMAIN summaries : SummaryTells(summaries[k], drops, Covered(k))

\* What is said of drops that stay as they are stays true.
LEMMA StillTold ==
    ASSUME NEW s, NEW t, NEW d, NEW e, NEW M, SummaryTells(s, d, M),
           t.total = s.total, t.rules = s.rules, \A n \in M : e[n] = d[n]
    PROVE  SummaryTells(t, e, M)
<1>1. \A i : By(e, M, i) = By(d, M, i) /\ By(d, M, i) \subseteq M
  BY DEF By
<1>2. {e[n].rule : n \in M} = {d[n].rule : n \in M}
  OBVIOUS
<1>3. ASSUME NEW L \in SUBSET M
      PROVE  /\ \A ids : IdsTell(ids, d, L) => IdsTell(ids, e, L)
             /\ \A field, name : ShownTells(field, d, L, name) => ShownTells(field, e, L, name)
  <2>1. \A n \in L : e[n] = d[n]
    OBVIOUS
  <2>2. /\ {e[n].rec.id : n \in {m \in L : e[m].rec.id >= 0}}
             = {d[n].rec.id : n \in {m \in L : d[m].rec.id >= 0}}
        /\ \A id : {n \in L : e[n].rec.id = id} = {n \in L : d[n].rec.id = id}
    BY <2>1
  <2>3. \A name : /\ ValuesOf(e, L, name) = ValuesOf(d, L, name)
                  /\ \A x : Having(e, L, name, x) = Having(d, L, name, x)
    BY <2>1 DEF ValuesOf, Having
  <2>4. QED
    BY <2>2, <2>3 DEF IdsTell, ShownTells
<1>4. QED
  BY <1>1, <1>2, <1>3 DEF SummaryTells

LEMMA NoneTold ==
    ASSUME NEW d, NEW rule
    PROVE  TallyTells(NewRuleTally(rule), rule, d, {})
<1>1. Cardinality({}) = 0 /\ DOMAIN EmptyBag = {}
  BY FS_EmptySet, EmptyIsBag
<1>2. SumFunction(EmptyBag) = 0
  BY <1>1, SumOfNone DEF SumFunction
<1>3. \A name : FieldTells(NoTally, d, {}, name)
  BY <1>1, <1>2 DEF FieldTells, NoTally, ValuesOf
<1>4. IdsTell(EmptyBag, d, {})
  BY <1>1 DEF IdsTell
<1>5. QED
  BY <1>1, <1>3, <1>4 DEF TallyTells, NewRuleTally

\* One more index in a set of those that pass a test.
LEMMA OneMoreCounted ==
    ASSUME NEW M, IsFiniteSet(M), NEW n, n \notin M, NEW S, NEW T, S \subseteq M,
           T = S \/ T = S \cup {n}
    PROVE  /\ IsFiniteSet(S) /\ Cardinality(S) \in Nat
           /\ Cardinality(T) = Cardinality(S) + IF n \in T THEN 1 ELSE 0
<1>1. IsFiniteSet(S) /\ Cardinality(S) \in Nat /\ n \notin S
  BY FS_Subset, FS_CardinalityType
<1>2. Cardinality(S \cup {n}) = Cardinality(S) + 1
  BY <1>1, FS_AddElement
<1>3. CASE T = S
  BY <1>1, <1>3
<1>4. CASE T = S \cup {n}
  BY <1>1, <1>2, <1>4
<1>5. QED
  BY <1>3, <1>4

\* A bag with one more element sums up to one more.
LEMMA BagSumGrows ==
    ASSUME NEW B, IsBag(B), IsFiniteSet(DOMAIN B), NEW x
    PROVE  SumFunction(BE!BagAdd(B, x)) = SumFunction(B) + 1
<1>1. PICK C, D : C = BE!BagAdd(B, x) /\ D = DOMAIN B
  OBVIOUS
<1>2. /\ DOMAIN C = D \cup {x}
      /\ \A y \in D : y # x => C[y] = B[y]
      /\ C[x] = IF x \in D THEN B[x] + 1 ELSE 1
  BY <1>1 DEF BE!BagAdd
<1>3. IsFiniteSet(D) /\ \A y \in D : B[y] \in Nat
  BY <1>1 DEF IsBag
<1>4. CASE x \in D
  <2>1. \A y \in D : B[y] \in Nat /\ C[y] = IF y = x THEN B[y] + 1 ELSE B[y]
    BY <1>2, <1>3, <1>4
  <2>2. SumFunctionOnSet(C, D) = SumFunctionOnSet(B, D) + 1
    BY <1>3, <1>4, <2>1, SumGrows
  <2>3. DOMAIN C = D
    BY <1>2, <1>4
  <2>4. QED
    BY <1>1, <2>2, <2>3 DEF SumFunction
<1>5. CASE x \notin D
  <2>1. /\ \A y \in D : B[y] \in Nat /\ C[y] = B[y]
        /\ \A y \in D \cup {x} : C[y] \in Nat
        /\ C[x] = 1
    BY <1>2, <1>3, <1>5
  <2>2. SumFunctionOnSet(C, D \cup {x}) = SumFunctionOnSet(C, D) + C[x]
    BY <1>3, <1>5, <2>1, SumOfMore
  <2>3. SumFunctionOnSet(C, D) = SumFunctionOnSet(B, D)
    BY <1>3, <2>1, SumSame
  <2>4. QED
    BY <1>1, <1>2, <2>1, <2>2, <2>3 DEF SumFunction
<1>6. QED
  BY <1>4, <1>5

\* valueTally.add counts one more drop.
LEMMA FieldStillTells ==
    ASSUME NEW v, IsTally(v), NEW d, NEW e, NEW M, IsFiniteSet(M), NEW name,
           FieldTells(v, d, M, name),
           NEW n, n \notin M, \A m \in M : e[m] = d[m]
    PROVE  FieldTells(AddValue(v, ValueOf(e[n].rec, name)), e, M \cup {n}, name)
<1>1. PICK value, B, N : /\ value = ValueOf(e[n].rec, name)
                         /\ B = v.counts
                         /\ N = M \cup {n}
  OBVIOUS
<1>2. /\ IsBag(B) /\ IsFiniteSet(DOMAIN B) /\ Cardinality(DOMAIN B) \in Nat
      /\ Cardinality(DOMAIN B) <= MaxTracked /\ v.other \in Nat /\ MaxTracked \in Nat
      /\ DOMAIN v = {"counts", "other"}
  BY <1>1, BoundsAssumption, FS_CardinalityType DEF IsTally
<1>3. Cardinality(M) \in Nat /\ Cardinality(N) = Cardinality(M) + 1
  BY <1>1, FS_CardinalityType, FS_AddElement
<1>4. /\ ValuesOf(e, N, name) = ValuesOf(d, M, name) \cup {value}
      /\ \A x : Having(e, N, name, x) = IF x = value THEN Having(d, M, name, x) \cup {n}
                                                     ELSE Having(d, M, name, x)
  BY <1>1 DEF ValuesOf, Having
<1>5. \A x : /\ Cardinality(Having(d, M, name, x)) \in Nat
             /\ Cardinality(Having(e, N, name, x))
                  = Cardinality(Having(d, M, name, x)) + IF x = value THEN 1 ELSE 0
  <2>1. SUFFICES ASSUME NEW x
                 PROVE  /\ Cardinality(Having(d, M, name, x)) \in Nat
                        /\ Cardinality(Having(e, N, name, x))
                             = Cardinality(Having(d, M, name, x)) + IF x = value THEN 1 ELSE 0
    OBVIOUS
  <2>2. PICK S, T : S = Having(d, M, name, x) /\ T = Having(e, N, name, x)
    OBVIOUS
  <2>3. S \subseteq M /\ T = IF x = value THEN S \cup {n} ELSE S
    BY <1>4, <2>2 DEF Having
  <2>4. /\ n \in T <=> x = value
        /\ T = S \/ T = S \cup {n}
    BY <2>3
  <2>5. /\ Cardinality(S) \in Nat
        /\ Cardinality(T) = Cardinality(S) + IF n \in T THEN 1 ELSE 0
    BY <2>3, <2>4, OneMoreCounted
  <2>6. QED
    BY <2>2, <2>4, <2>5
<1>6. /\ DOMAIN B \subseteq ValuesOf(d, M, name)
      /\ \A x \in DOMAIN B : B[x] = Cardinality(Having(d, M, name, x))
      /\ v.other = 0 => ValuesOf(d, M, name) \subseteq DOMAIN B
      /\ v.other > 0 =>
           /\ Cardinality(DOMAIN B) = MaxTracked
           /\ \E x \in ValuesOf(d, M, name) : x \notin DOMAIN B
      /\ SumFunction(B) + v.other = Cardinality(M)
  BY <1>1 DEF FieldTells
<1>7. SumFunction(B) \in Nat
  BY <1>2, SumInNat DEF SumFunction, IsBag
<1>8. CASE value \in DOMAIN B \/ Cardinality(DOMAIN B) < MaxTracked
  <2>1. PICK C : C = BE!BagAdd(B, value)
    OBVIOUS
  <2>2. PICK w : w = AddValue(v, value)
    OBVIOUS
  <2>3. w.counts = C /\ w.other = v.other
    BY <1>1, <1>2, <1>8, <2>1, <2>2 DEF AddValue
  <2>4. /\ DOMAIN C = DOMAIN B \cup {value}
        /\ \A x \in DOMAIN B : x # value => C[x] = B[x]
        /\ C[value] = IF value \in DOMAIN B THEN B[value] + 1 ELSE 1
    BY <2>1 DEF BE!BagAdd
  <2>5. value \notin DOMAIN B => Cardinality(Having(d, M, name, value)) = 0
    <3>1. SUFFICES ASSUME value \notin DOMAIN B PROVE Having(d, M, name, value) = {}
      BY FS_EmptySet
    <3>2. v.other = 0
      BY <1>2, <1>6, <1>8, <3>1
    <3>3. value \notin ValuesOf(d, M, name)
      BY <1>6, <3>1, <3>2
    <3>4. QED
      BY <3>3 DEF Having, ValuesOf
  <2>6. \A x \in DOMAIN C : C[x] = Cardinality(Having(e, N, name, x))
    BY <1>5, <1>6, <2>4, <2>5
  <2>7. SumFunction(C) = SumFunction(B) + 1
    BY <1>2, <2>1, BagSumGrows
  <2>8. v.other > 0 => value \in DOMAIN B
    BY <1>2, <1>6, <1>8
  <2>9. /\ DOMAIN C \subseteq ValuesOf(e, N, name)
        /\ v.other = 0 => ValuesOf(e, N, name) \subseteq DOMAIN C
        /\ v.other > 0 =>
             /\ Cardinality(DOMAIN C) = MaxTracked
             /\ \E x \in ValuesOf(e, N, name) : x \notin DOMAIN C
    <3>1. DOMAIN C \subseteq ValuesOf(e, N, name)
      BY <1>4, <1>6, <2>4
    <3>2. v.other = 0 => ValuesOf(e, N, name) \subseteq DOMAIN C
      BY <1>4, <1>6, <2>4
    <3>3. v.other > 0 => DOMAIN C = DOMAIN B
      BY <2>4, <2>8
    <3>4. QED
      BY <1>4, <1>6, <3>1, <3>2, <3>3
  <2>10. SumFunction(C) + v.other = Cardinality(N)
    BY <1>2, <1>3, <1>6, <1>7, <2>7
  <2>11. FieldTells(w, e, N, name)
    BY <2>3, <2>6, <2>9, <2>10 DEF FieldTells
  <2>12. QED
    BY <1>1, <2>2, <2>11
<1>9. CASE ~ (value \in DOMAIN B \/ Cardinality(DOMAIN B) < MaxTracked)
  <2>1. PICK w : w = AddValue(v, value)
    OBVIOUS
  <2>2. w.counts = B /\ w.other = v.other + 1
    BY <1>1, <1>2, <1>9, <2>1 DEF AddValue
  <2>3. Cardinality(DOMAIN B) = MaxTracked /\ value \notin DOMAIN B
    BY <1>2, <1>9
  <2>4. \A x \in DOMAIN B : B[x] = Cardinality(Having(e, N, name, x))
    BY <1>5, <1>6, <2>3
  <2>5. DOMAIN B \subseteq ValuesOf(e, N, name) /\ value \in ValuesOf(e, N, name)
    BY <1>4, <1>6
  <2>6. SumFunction(B) + w.other = Cardinality(N) /\ w.other # 0
    BY <1>2, <1>3, <1>6, <1>7, <2>2
  <2>7. FieldTells(w, e, N, name)
    BY <2>2, <2>3, <2>4, <2>5, <2>6 DEF FieldTells
  <2>8. QED
    BY <1>1, <2>1, <2>7
<1>10. QED
  BY <1>8, <1>9

LEMMA IdsStillTell ==
    ASSUME NEW ids, NEW d, NEW e, NEW M, IsFiniteSet(M), IdsTell(ids, d, M),
           NEW n, n \notin M, \A m \in M : e[m] = d[m], NEW id, id = e[n].rec.id
    PROVE  IdsTell(IF id >= 0 THEN BE!BagAdd(ids, id) ELSE ids, e, M \cup {n})
<1>1. PICK N, new : /\ N = M \cup {n}
                    /\ new = IF id >= 0 THEN BE!BagAdd(ids, id) ELSE ids
  OBVIOUS
<1> DEFINE Ids(f, L)   == {f[m].rec.id : m \in {l \in L : f[l].rec.id >= 0}}
           With(f, L, x) == {m \in L : f[m].rec.id = x}
<1>2. DOMAIN ids = Ids(d, M) /\ \A x \in DOMAIN ids : ids[x] = Cardinality(With(d, M, x))
  BY DEF IdsTell
<1>3. Ids(e, N) = IF id >= 0 THEN Ids(d, M) \cup {id} ELSE Ids(d, M)
  BY <1>1
<1>4. \A x : /\ Cardinality(With(d, M, x)) \in Nat
             /\ Cardinality(With(e, N, x)) = Cardinality(With(d, M, x)) + IF x = id THEN 1 ELSE 0
  <2>1. SUFFICES ASSUME NEW x
                 PROVE  /\ Cardinality(With(d, M, x)) \in Nat
                        /\ Cardinality(With(e, N, x))
                             = Cardinality(With(d, M, x)) + IF x = id THEN 1 ELSE 0
    OBVIOUS
  <2>2. PICK S, T : S = With(d, M, x) /\ T = With(e, N, x)
    OBVIOUS
  <2>3. S \subseteq M /\ T = IF x = id THEN S \cup {n} ELSE S
    BY <1>1, <2>2
  <2> HIDE DEF With
  <2>4. IsFiniteSet(S) /\ Cardinality(S) \in Nat /\ n \notin S
    BY <2>3, FS_Subset, FS_CardinalityType
  <2>5. Cardinality(S \cup {n}) = Cardinality(S) + 1
    BY <2>4, FS_AddElement
  <2>6. QED
    BY <2>2, <2>3, <2>4, <2>5
<1>5. id \notin DOMAIN ids /\ id >= 0 => Cardinality(With(d, M, id)) = 0
  <2>1. SUFFICES ASSUME id \notin DOMAIN ids, id >= 0 PROVE With(d, M, id) = {}
    BY FS_EmptySet
  <2>2. QED
    BY <1>2, <2>1
<1> HIDE DEF Ids, With
<1>6. DOMAIN new = Ids(e, N)
  BY <1>1, <1>2, <1>3 DEF BE!BagAdd
<1>7. \A x \in DOMAIN new : new[x] = Cardinality(With(e, N, x))
  <2>1. CASE id >= 0
    <3>1. /\ DOMAIN new = DOMAIN ids \cup {id}
          /\ \A x \in DOMAIN ids : x # id => new[x] = ids[x]
          /\ new[id] = IF id \in DOMAIN ids THEN ids[id] + 1 ELSE 1
      BY <1>1, <2>1 DEF BE!BagAdd
    <3>2. QED
      BY <1>2, <1>4, <1>5, <2>1, <3>1
  <2>2. CASE ~ (id >= 0)
    <3>1. new = ids /\ id \notin DOMAIN ids
      BY <1>1, <1>2, <2>2 DEF Ids
    <3>2. QED
      BY <1>2, <1>4, <3>1
  <2>3. QED
    BY <2>1, <2>2
<1>8. QED
  BY <1>1, <1>6, <1>7 DEF IdsTell, Ids, With

LEMMA TallyStillTells ==
    ASSUME NEW t, NEW rule, IsRuleTally(t, rule), NEW d, NEW e, NEW M, IsFiniteSet(M),
           TallyTells(t, rule, d, M), NEW n, n \notin M, \A m \in M : e[m] = d[m]
    PROVE  TallyTells(Counted(t, e[n].rec), rule, e, M \cup {n})
<1>1. PICK rec, N, u : rec = e[n].rec /\ N = M \cup {n} /\ u = Counted(t, rec)
  OBVIOUS
<1>2. /\ u.total = t.total + 1
      /\ u.ids = IF rec.id >= 0 THEN BE!BagAdd(t.ids, rec.id) ELSE t.ids
      /\ \A name \in DOMAIN t.fields : u.fields[name] = AddValue(t.fields[name], ValueOf(rec, name))
  BY <1>1 DEF Counted
<1>3. u.total = Cardinality(N)
  <2>1. Cardinality(N) = Cardinality(M) + 1
    BY <1>1, FS_AddElement
  <2>2. QED
    BY <1>2, <2>1 DEF TallyTells
<1>4. IdsTell(u.ids, e, N)
  <2>1. IdsTell(t.ids, d, M)
    BY DEF TallyTells
  <2>2. IdsTell(IF rec.id >= 0 THEN BE!BagAdd(t.ids, rec.id) ELSE t.ids, e, M \cup {n})
    BY <1>1, <2>1, IdsStillTell
  <2>3. QED
    BY <1>1, <1>2, <2>2
<1>5. ASSUME NEW name \in rule.tallyBy
      PROVE  FieldTells(u.fields[name], e, N, name)
  <2>1. IsTally(t.fields[name]) /\ DOMAIN t.fields = rule.tallyBy
    BY DEF IsRuleTally
  <2>2. FieldTells(t.fields[name], d, M, name)
    BY DEF TallyTells
  <2>3. FieldTells(AddValue(t.fields[name], ValueOf(e[n].rec, name)), e, M \cup {n}, name)
    BY <2>1, <2>2, FieldStillTells
  <2>4. QED
    BY <1>1, <1>2, <2>1, <2>3
<1>6. QED
  BY <1>1, <1>3, <1>4, <1>5 DEF TallyTells

\* valueTally.top shows the most frequent values with their counts, and sums the
\* others up.
LEMMA TopTells ==
    ASSUME NEW v, IsTally(v), NEW d, NEW M, IsFiniteSet(M), NEW name, FieldTells(v, d, M, name)
    PROVE  ShownTells(Top(v), d, M, name)
<1> DEFINE before(x, y) == \/ v.counts[x] > v.counts[y]
                           \/ v.counts[x] = v.counts[y] /\ x < y
           ahead(x) == {y \in DOMAIN v.counts : before(y, x)}
<1>1. PICK B, D, shown, rest, field, all :
        /\ B = v.counts /\ D = DOMAIN v.counts
        /\ shown = {x \in D : Cardinality(ahead(x)) < TopValues}
        /\ rest = v.other + SumFunctionOnSet(B, D \ shown)
        /\ field = Top(v)
        /\ all = ValuesOf(d, M, name)
  OBVIOUS
<1>2. field = [x \in shown \cup (IF rest > 0 THEN {Other} ELSE {}) |->
                 IF rest > 0 /\ x = Other THEN rest ELSE B[x]]
  BY <1>1 DEF Top
<1>3. /\ IsBag(B) /\ IsFiniteSet(D) /\ DOMAIN B = D /\ v.other \in Nat
      /\ \A x \in D : B[x] \in Nat
      /\ MaxTracked \in Nat /\ TopValues \in Nat
      /\ shown \subseteq D
  BY <1>1, BoundsAssumption DEF IsTally, IsBag
<1>4. /\ D \subseteq all
      /\ \A x \in D : B[x] = Cardinality(Having(d, M, name, x))
      /\ v.other = 0 => all \subseteq D
      /\ v.other > 0 => /\ Cardinality(D) = MaxTracked
                        /\ \E x \in all : x \notin D
      /\ SumFunctionOnSet(B, D) + v.other = Cardinality(M)
  BY <1>1 DEF FieldTells, SumFunction
<1>5. /\ \A x : IsFiniteSet(ahead(x)) /\ Cardinality(ahead(x)) \in Nat
      /\ IsFiniteSet(shown) /\ IsFiniteSet(D \ shown)
  <2>1. \A x : ahead(x) \subseteq D
    BY <1>1
  <2>2. QED
    BY <1>3, <2>1, FS_Subset, FS_CardinalityType
<1>6. ASSUME NEW x \in D \ shown, NEW y \in shown PROVE B[x] <= B[y]
  <2>1. SUFFICES ASSUME B[x] > B[y] PROVE FALSE
    BY <1>3
  <2>2. ahead(x) \subseteq ahead(y)
    <3>1. SUFFICES ASSUME NEW z \in D, before(z, x) PROVE before(z, y)
      BY <1>1
    <3>2. B[z] >= B[x] /\ B[x] > B[y] /\ {B[z], B[x], B[y]} \subseteq Nat
      BY <1>1, <1>3, <2>1, <3>1
    <3>3. QED
      BY <1>1, <3>2
  <2>3. PICK p, q : p = Cardinality(ahead(x)) /\ q = Cardinality(ahead(y))
    OBVIOUS
  <2>4. p < TopValues \/ ~ (p < TopValues)
    OBVIOUS
  <2>5. q < TopValues /\ ~ (p < TopValues)
    BY <1>1, <2>3
  <2>6. p \in Nat /\ q \in Nat
    BY <1>5, <2>3
  <2>7. p <= q
    <3> HIDE DEF ahead
    <3>1. QED
      BY <1>5, <2>2, <2>3, FS_Subset
  <2>8. QED
    BY <1>3, <2>5, <2>6, <2>7
<1> HIDE DEF before, ahead
<1>7. rest \in Nat /\ rest = v.other + SumFunctionOnSet(B, D \ shown)
      /\ SumFunctionOnSet(B, D \ shown) \in Nat /\ SumFunctionOnSet(B, shown) \in Nat
  <2>1. SumFunctionOnSet(B, D \ shown) \in Nat
    BY <1>3, <1>5, SumInNat
  <2>2. SumFunctionOnSet(B, shown) \in Nat
    BY <1>3, <1>5, SumInNat
  <2>3. QED
    BY <1>1, <1>3, <2>1, <2>2
<1>8. \A x \in DOMAIN field \ {Other} : field[x] = Cardinality(Having(d, M, name, x))
  BY <1>2, <1>3, <1>4
<1>9. ASSUME Other \notin all
      PROVE  SumFunction(field) = Cardinality(M)
  <2>1. Other \notin shown
    BY <1>3, <1>4, <1>9
  <2>2. SumFunctionOnSet(B, D) = SumFunctionOnSet(B, shown) + SumFunctionOnSet(B, D \ shown)
    <3>1. PICK R : R = D \ shown
      OBVIOUS
    <3>2. D = shown \cup R /\ shown \cap R = {} /\ IsFiniteSet(R)
      BY <1>3, <1>5, <3>1
    <3>3. SumFunctionOnSet(B, shown \cup R) = SumFunctionOnSet(B, shown) + SumFunctionOnSet(B, R)
      BY <1>3, <1>5, <3>2, SumOfUnion
    <3>4. QED
      BY <3>1, <3>2, <3>3
  <2>3. \A x \in shown : B[x] \in Nat /\ field[x] = B[x]
    BY <1>2, <1>3, <2>1
  <2>4. SumFunctionOnSet(field, shown) = SumFunctionOnSet(B, shown)
    BY <1>5, <2>3, SumSame
  <2>5. SumFunction(field) = SumFunctionOnSet(B, shown) + rest
    <3>1. CASE rest > 0
      <4>1. DOMAIN field = shown \cup {Other} /\ field[Other] = rest
        BY <1>2, <3>1
      <4>2. \A x \in shown \cup {Other} : field[x] \in Nat
        BY <1>7, <2>3, <4>1
      <4>3. SumFunctionOnSet(field, shown \cup {Other}) = SumFunctionOnSet(field, shown) + field[Other]
        BY <1>5, <2>1, <4>2, SumOfMore
      <4>4. QED
        BY <2>4, <4>1, <4>3 DEF SumFunction
    <3>2. CASE ~ (rest > 0)
      <4>1. DOMAIN field = shown /\ rest = 0
        BY <1>2, <1>7, <3>2
      <4>2. QED
        BY <1>7, <2>4, <4>1 DEF SumFunction
    <3>3. QED
      BY <3>1, <3>2
  <2>6. QED
    BY <1>3, <1>4, <1>7, <2>2, <2>5
<1>10. ASSUME Other \notin all, Cardinality(all) <= MaxTracked,
              NEW x \in all \ (DOMAIN field \ {Other}), NEW y \in DOMAIN field \ {Other}
       PROVE  Cardinality(Having(d, M, name, x)) <= Cardinality(Having(d, M, name, y))
  <2>1. y \in shown /\ x \notin shown
    BY <1>2, <1>3, <1>4, <1>10
  <2>2. IsFiniteSet(all)
    <3>1. PICK f : f = [n \in M |-> ValueOf(d[n].rec, name)]
      OBVIOUS
    <3>2. f \in Surjection(M, all)
      BY <1>1, <3>1 DEF ValuesOf, Surjection
    <3>3. QED
      BY <3>2, FS_Surjection
  <2>3. v.other = 0
    <3>1. SUFFICES ASSUME v.other # 0 PROVE FALSE
      OBVIOUS
    <3>2. PICK z \in all : z \notin D
      BY <1>3, <1>4, <3>1
    <3>3. Cardinality(D) = MaxTracked
      BY <1>3, <1>4, <3>1
    <3>4. Cardinality(D \cup {z}) = MaxTracked + 1
      BY <1>3, <3>2, <3>3, FS_AddElement
    <3>5. D \cup {z} \subseteq all
      BY <1>4, <3>2
    <3>6. Cardinality(D \cup {z}) <= Cardinality(all) /\ Cardinality(all) \in Nat
      BY <2>2, <3>5, FS_Subset, FS_CardinalityType
    <3>7. QED
      BY <1>3, <1>10, <3>4, <3>6
  <2>4. x \in D \ shown
    BY <1>4, <2>1, <2>3
  <2>5. B[x] <= B[y]
    BY <1>6, <2>1, <2>4
  <2>6. QED
    BY <1>3, <1>4, <2>1, <2>4, <2>5
<1>11. QED
  BY <1>1, <1>8, <1>9, <1>10 DEF ShownTells

LEMMA TallyKept ==
    ASSUME NEW t, NEW rule, NEW d, NEW e, NEW M, TallyTells(t, rule, d, M),
           \A m \in M : e[m] = d[m]
    PROVE  TallyTells(t, rule, e, M)
<1>1. /\ {e[n].rec.id : n \in {m \in M : e[m].rec.id >= 0}}
           = {d[n].rec.id : n \in {m \in M : d[m].rec.id >= 0}}
      /\ \A id : {n \in M : e[n].rec.id = id} = {n \in M : d[n].rec.id = id}
  OBVIOUS
<1>2. \A name : /\ ValuesOf(e, M, name) = ValuesOf(d, M, name)
                /\ \A x : Having(e, M, name, x) = Having(d, M, name, x)
  BY DEF ValuesOf, Having
<1>3. IdsTell(t.ids, e, M)
  BY <1>1 DEF TallyTells, IdsTell
<1>4. \A name \in rule.tallyBy : FieldTells(t.fields[name], e, M, name)
  BY <1>2 DEF TallyTells, FieldTells
<1>5. QED
  BY <1>3, <1>4 DEF TallyTells

\* What the summaries cover, and what is left.
LEMMA CoveredStretch ==
    ASSUME WindowInv
    PROVE  /\ \A k \in DOMAIN summaries :
                /\ Covered(k) = Last(k - 1) + 1 .. summaries[k].last
                /\ Covered(k) \subseteq 1 .. Len(drops)
           /\ OpenDrops \subseteq 1 .. Len(drops)
           /\ Last(Len(summaries)) \in 0 .. Len(drops)
           /\ Len(drops) \in Nat
           /\ IsFiniteSet(OpenDrops)
<1>1. /\ Len(drops) \in Nat /\ Len(summaries) \in Nat
      /\ DOMAIN summaries = 1 .. Len(summaries)
      /\ \A k \in 0 .. Len(summaries) : Last(k) \in 0 .. Len(drops)
  BY DropsFinite, SummariesFinite DEF WindowInv, Stretches
<1>2. Last(Len(summaries)) \in 0 .. Len(drops)
  BY <1>1
<1>3. OpenDrops \subseteq 1 .. Len(drops) /\ IsFiniteSet(OpenDrops)
  <2>1. PICK l, n : l = Last(Len(summaries)) /\ n = Len(drops)
    OBVIOUS
  <2>2. l \in Nat /\ n \in Nat /\ OpenDrops = l + 1 .. n
    BY <1>1, <1>2, <2>1 DEF OpenDrops
  <2>3. OpenDrops \subseteq 1 .. n
    BY <2>2
  <2>4. IsFiniteSet(1 .. n)
    BY <2>2, FS_Interval
  <2>5. QED
    BY <2>1, <2>3, <2>4, FS_Subset
<1>4. ASSUME NEW k \in DOMAIN summaries
      PROVE  /\ Covered(k) = Last(k - 1) + 1 .. summaries[k].last
             /\ Covered(k) \subseteq 1 .. Len(drops)
  <2>1. k \in 1 .. Len(summaries) /\ k \in 0 .. Len(summaries) /\ k - 1 \in 0 .. Len(summaries)
    BY <1>1, <1>4
  <2>2. Covered(k) = Last(k - 1) + 1 .. summaries[k].last
    BY <1>1, <1>4 DEF Covered, Last
  <2>3. Last(k - 1) \in 0 .. Len(drops) /\ Last(k) \in 0 .. Len(drops) /\ Last(k) = summaries[k].last
    BY <1>1, <2>1 DEF Last
  <2>4. QED
    BY <1>1, <2>2, <2>3
<1>5. QED
  BY <1>1, <1>2, <1>3, <1>4

\* A drop is told of by the window.
LEMMA DropTold ==
    ASSUME TypeInv, TruthInv, NEW c \in Callers, Drop(c)
    PROVE  TruthInv'
<1>1. PICK rec, r :
        /\ rec \in Records
        /\ Matching(rec) # {} /\ r = FirstMatch(rec)
        /\ window' = Added(r, rec)
        /\ drops' = Append(drops, [rule |-> r, rec |-> rec, at |-> now])
  BY DEF Drop
<1>2. summaries' = summaries
  BY DEF Drop
<1>3. PICK d, e, n, M, N : /\ d = drops /\ e = drops' /\ n = Len(drops) + 1
                           /\ M = OpenDrops /\ N = OpenDrops'
  OBVIOUS
<1>4. /\ Len(drops) \in Nat
      /\ \A m \in 1 .. Len(drops) : e[m] = d[m]
      /\ e[n].rule = r /\ e[n].rec = rec
      /\ Len(drops') = n
  BY <1>1, <1>3, AppendGrows DEF TypeInv, WindowInv, Counting
<1>5. /\ M \subseteq 1 .. Len(drops) /\ IsFiniteSet(M)
      /\ n \notin M
      /\ N = M \cup {n}
  <2>1. Last(Len(summaries))' = Last(Len(summaries))
    BY <1>2 DEF Last
  <2>2. PICK l : l = Last(Len(summaries))
    OBVIOUS
  <2>3. l \in 0 .. Len(drops) /\ IsFiniteSet(M)
    BY <1>3, <2>2, CoveredStretch DEF TypeInv
  <2>4. M = l + 1 .. Len(drops)
    BY <1>3, <2>2 DEF OpenDrops
  <2>5. N = l + 1 .. n
    BY <1>3, <1>4, <2>1, <2>2 DEF OpenDrops
  <2>6. QED
    BY <1>3, <1>4, <2>3, <2>4, <2>5
<1>6. \A m \in M : e[m] = d[m]
  BY <1>4, <1>5
<1>7. \A i : By(e, N, i) = IF i = r THEN By(d, M, i) \cup {n} ELSE By(d, M, i)
  BY <1>4, <1>5, <1>6 DEF By
<1>8. \A i : By(d, M, i) \subseteq M /\ IsFiniteSet(By(d, M, i)) /\ n \notin By(d, M, i)
  <2>1. \A i : By(d, M, i) \subseteq M
    BY DEF By
  <2>2. QED
    BY <1>5, <2>1, FS_Subset
<1>9. /\ DOMAIN window = {d[m].rule : m \in M}
      /\ SumFunction([i \in DOMAIN window |-> window[i].total]) = Cardinality(M)
      /\ \A i \in DOMAIN window : TallyTells(window[i], Rules[i], d, By(d, M, i))
  BY <1>3 DEF TruthInv, WindowTells
<1>10. PICK t : t = IF r \in DOMAIN window THEN window[r] ELSE NewRuleTally(Rules[r])
  OBVIOUS
<1>11. window' = [i \in DOMAIN window \cup {r} |-> IF i = r THEN Counted(t, rec) ELSE window[i]]
  BY <1>1, <1>10 DEF Added
<1>12. TallyTells(t, Rules[r], d, By(d, M, r)) /\ IsRuleTally(t, Rules[r])
  <2>1. CASE r \in DOMAIN window
    BY <1>9, <1>10, <2>1 DEF TypeInv, TypeOK
  <2>2. CASE r \notin DOMAIN window
    <3>1. By(d, M, r) = {}
      BY <1>9, <2>2 DEF By
    <3>2. QED
      BY <1>10, <2>2, <3>1, NoneTold, NewRuleTallyOK
  <2>3. QED
    BY <2>1, <2>2
<1>13. TallyTells(Counted(t, rec), Rules[r], e, By(e, N, r))
  <2>1. PICK L : L = By(d, M, r)
    OBVIOUS
  <2>2. IsFiniteSet(L) /\ n \notin L /\ \A m \in L : e[m] = d[m]
    BY <1>6, <1>8, <2>1
  <2>3. TallyTells(Counted(t, e[n].rec), Rules[r], e, L \cup {n})
    BY <1>12, <2>1, <2>2, TallyStillTells
  <2>4. QED
    BY <1>4, <1>7, <2>1, <2>3
<1>14. \A i \in DOMAIN window' : TallyTells(window'[i], Rules[i], e, By(e, N, i))
  <2>1. SUFFICES ASSUME NEW i \in DOMAIN window, i # r
                 PROVE  TallyTells(window[i], Rules[i], e, By(e, N, i))
    BY <1>11, <1>13
  <2>2. TallyTells(window[i], Rules[i], d, By(d, M, i)) /\ \A m \in By(d, M, i) : e[m] = d[m]
    BY <1>6, <1>8, <1>9, <2>1
  <2>3. TallyTells(window[i], Rules[i], e, By(d, M, i))
    BY <2>2, TallyKept
  <2>4. QED
    BY <1>7, <2>1, <2>3
<1>15. DOMAIN window' = {e[m].rule : m \in N}
  BY <1>4, <1>5, <1>6, <1>9, <1>11
<1>16. SumFunction([i \in DOMAIN window' |-> window'[i].total]) = Cardinality(N)
  <2>1. PICK f, g, D : /\ f = [i \in DOMAIN window |-> window[i].total]
                       /\ g = [i \in DOMAIN window' |-> window'[i].total]
                       /\ D = DOMAIN window
    OBVIOUS
  <2>2. IsFiniteSet(D) /\ \A i \in D : f[i] \in Nat
    <3>1. D \subseteq DOMAIN Rules /\ \A i \in D : IsRuleTally(window[i], Rules[i])
      BY <2>1 DEF TypeInv, TypeOK
    <3>2. IsFiniteSet(DOMAIN Rules)
      <4>1. Rules \in Seq({Rules[i] : i \in DOMAIN Rules})
        BY RulesAssumption
      <4>2. PICK S : Rules \in Seq(S)
        BY <4>1
      <4>3. Len(Rules) \in Nat /\ DOMAIN Rules = 1 .. Len(Rules)
        BY <4>2
      <4>4. QED
        BY <4>3, FS_Interval
    <3>3. QED
      BY <2>1, <3>1, <3>2, FS_Subset DEF IsRuleTally
  <2>3. Counted(t, rec).total = t.total + 1
    BY DEF Counted
  <2>4. /\ DOMAIN f = D /\ DOMAIN g = D \cup {r}
        /\ \A i \in D : i # r => g[i] = f[i]
        /\ g[r] = IF r \in D THEN f[r] + 1 ELSE 1
    BY <1>10, <1>11, <2>1, <2>3 DEF NewRuleTally
  <2>5. SumFunctionOnSet(g, D \cup {r}) = SumFunctionOnSet(f, D) + 1
    <3>1. CASE r \in D
      <4>1. \A i \in D : f[i] \in Nat /\ g[i] = IF i = r THEN f[i] + 1 ELSE f[i]
        BY <2>2, <2>4, <3>1
      <4>2. SumFunctionOnSet(g, D) = SumFunctionOnSet(f, D) + 1
        BY <2>2, <3>1, <4>1, SumGrows
      <4>3. D \cup {r} = D
        BY <3>1
      <4>4. QED
        BY <4>2, <4>3
    <3>2. CASE r \notin D
      <4>1. /\ \A i \in D : f[i] \in Nat /\ g[i] = f[i]
            /\ \A i \in D \cup {r} : g[i] \in Nat
            /\ g[r] = 1
        BY <2>2, <2>4, <3>2
      <4>2. SumFunctionOnSet(g, D \cup {r}) = SumFunctionOnSet(g, D) + g[r]
        BY <2>2, <3>2, <4>1, SumOfMore
      <4>3. SumFunctionOnSet(g, D) = SumFunctionOnSet(f, D)
        BY <2>2, <4>1, SumSame
      <4>4. QED
        BY <4>1, <4>2, <4>3
    <3>3. QED
      BY <3>1, <3>2
  <2>6. Cardinality(N) = Cardinality(M) + 1
    BY <1>5, FS_AddElement
  <2>7. QED
    BY <1>9, <2>1, <2>4, <2>5, <2>6 DEF SumFunction
<1>17. WindowTells'
  BY <1>3, <1>14, <1>15, <1>16 DEF WindowTells
<1>18. ASSUME NEW k \in DOMAIN summaries PROVE SummaryTells(summaries[k], e, Covered(k)')
  <2>1. Covered(k)' = Covered(k)
    <3>1. k <= Len(summaries)
      BY <1>18, SummariesFinite DEF TypeInv
    <3>2. QED
      BY <1>2, <3>1 DEF Covered
  <2>2. \A m \in Covered(k) : e[m] = d[m]
    BY <1>4, <1>18, CoveredStretch DEF TypeInv
  <2>3. SummaryTells(summaries[k], d, Covered(k))
    BY <1>3, <1>18 DEF TruthInv
  <2>4. QED
    BY <2>1, <2>2, <2>3, StillTold
<1>19. QED
  BY <1>2, <1>3, <1>17, <1>18 DEF TruthInv

\* buildSummary says what the window tells.
LEMMA SummaryOfWindow ==
    ASSUME TypeInv, WindowTells
    PROVE  SummaryTells(Summary(now), drops, OpenDrops)
<1>1. PICK s : s = Summary(now)
  OBVIOUS
<1>2. /\ s.total = SumFunction([i \in DOMAIN window |-> window[i].total])
      /\ DOMAIN s.rules = DOMAIN window
      /\ \A i \in DOMAIN window :
           /\ s.rules[i].total = window[i].total
           /\ s.rules[i].ids = window[i].ids
           /\ s.rules[i].fields = [name \in DOMAIN window[i].fields |-> Top(window[i].fields[name])]
  BY <1>1 DEF Summary
<1>3. /\ s.total = Cardinality(OpenDrops)
      /\ DOMAIN s.rules = {drops[n].rule : n \in OpenDrops}
  BY <1>2 DEF WindowTells
<1>4. ASSUME NEW i \in DOMAIN s.rules
      PROVE  /\ s.rules[i].total = Cardinality(By(drops, OpenDrops, i))
             /\ IdsTell(s.rules[i].ids, drops, By(drops, OpenDrops, i))
             /\ DOMAIN s.rules[i].fields = Rules[i].tallyBy
             /\ \A name \in Rules[i].tallyBy :
                  ShownTells(s.rules[i].fields[name], drops, By(drops, OpenDrops, i), name)
  <2>1. PICK M, t : M = By(drops, OpenDrops, i) /\ t = window[i]
    OBVIOUS
  <2>2. TallyTells(t, Rules[i], drops, M) /\ IsRuleTally(t, Rules[i])
    BY <1>2, <1>4, <2>1 DEF TypeInv, TypeOK, WindowTells
  <2>3. IsFiniteSet(M)
    <3>1. M \subseteq OpenDrops
      BY <2>1 DEF By
    <3>2. QED
      BY <3>1, CoveredStretch, FS_Subset DEF TypeInv
  <2>4. /\ s.rules[i].total = t.total
        /\ s.rules[i].ids = t.ids
        /\ s.rules[i].fields = [name \in DOMAIN t.fields |-> Top(t.fields[name])]
    BY <1>2, <1>4, <2>1
  <2>5. DOMAIN t.fields = Rules[i].tallyBy /\ \A name \in Rules[i].tallyBy : IsTally(t.fields[name])
    BY <2>2 DEF IsRuleTally
  <2>6. ASSUME NEW name \in Rules[i].tallyBy
        PROVE  ShownTells(s.rules[i].fields[name], drops, M, name)
    <3>1. FieldTells(t.fields[name], drops, M, name)
      BY <2>2 DEF TallyTells
    <3>2. ShownTells(Top(t.fields[name]), drops, M, name)
      BY <2>3, <2>5, <3>1, TopTells
    <3>3. s.rules[i].fields[name] = Top(t.fields[name])
      BY <2>4, <2>5
    <3>4. QED
      BY <3>2, <3>3
  <2>7. t.total = Cardinality(M) /\ IdsTell(t.ids, drops, M)
    BY <2>2 DEF TallyTells
  <2>8. QED
    BY <2>1, <2>4, <2>5, <2>6, <2>7
<1>5. QED
  BY <1>1, <1>3, <1>4 DEF SummaryTells

LEMMA TakeTold ==
    ASSUME TypeInv, TruthInv, window # <<>>, Take, UNCHANGED <<now, drops>>
    PROVE  TruthInv'
<1>1. PICK n, d : n = Len(summaries) + 1 /\ d = drops
  OBVIOUS
<1>2. /\ Len(summaries) \in Nat /\ DOMAIN summaries = 1 .. Len(summaries)
      /\ Len(summaries') = n
      /\ DOMAIN summaries' = DOMAIN summaries \cup {n}
      /\ summaries'[n] = Summary(now)
      /\ \A k \in DOMAIN summaries : summaries'[k] = summaries[k]
  <2>1. IsSeq(summaries) /\ summaries' = Append(summaries, Summary(now))
    BY DEF TypeInv, WindowInv, Stretches, Take
  <2>2. /\ IsSeq(summaries') /\ Len(summaries) \in Nat
        /\ DOMAIN summaries = 1 .. Len(summaries)
        /\ Len(summaries') = n
        /\ summaries'[n] = Summary(now)
        /\ \A k \in 1 .. Len(summaries) : summaries'[k] = summaries[k]
    BY <1>1, <2>1, AppendGrows
  <2>3. DOMAIN summaries' = 1 .. n
    BY <2>2, AppendGrows
  <2>4. QED
    BY <1>1, <2>2, <2>3
<1>3. summaries'[n].last = Len(drops)
  BY <1>2 DEF Summary
<1>4. SummaryTells(Summary(now), d, OpenDrops)
  BY <1>1, SummaryOfWindow DEF TruthInv
<1>5. Covered(n)' = OpenDrops
  <2>1. Covered(n)' = (IF n = 1 THEN 1 ELSE summaries'[n - 1].last + 1) .. Len(drops)
    BY <1>1, <1>2, <1>3 DEF Covered
  <2>2. n # 1 => n - 1 = Len(summaries) /\ summaries'[n - 1] = summaries[Len(summaries)]
    BY <1>1, <1>2
  <2>3. (IF n = 1 THEN 1 ELSE summaries'[n - 1].last + 1) = Last(Len(summaries)) + 1
    BY <1>1, <1>2, <2>2 DEF Last
  <2>4. QED
    BY <2>1, <2>3 DEF OpenDrops
<1>6. ASSUME NEW k \in DOMAIN summaries PROVE SummaryTells(summaries'[k], d, Covered(k)')
  <2>1. Covered(k)' = Covered(k)
    <3>1. k <= Len(summaries) /\ k <= n /\ k \in Nat /\ k >= 1
      BY <1>1, <1>2, <1>6
    <3>2. k # 1 => k - 1 \in DOMAIN summaries
      BY <1>2, <3>1
    <3>3. summaries'[k] = summaries[k] /\ (k # 1 => summaries'[k - 1] = summaries[k - 1])
      BY <1>2, <1>6, <3>2
    <3>4. QED
      BY <1>2, <3>1, <3>3 DEF Covered
  <2>2. SummaryTells(summaries[k], d, Covered(k))
    BY <1>1, <1>6 DEF TruthInv
  <2>3. QED
    BY <1>2, <1>6, <2>1, <2>2
<1>7. WindowTells'
  <2>1. DOMAIN window' = {}
    BY DEF Take
  <2>2. OpenDrops' = {}
    <3>1. Last(Len(summaries))' = Len(drops)
      BY <1>1, <1>2, <1>3 DEF Last
    <3>2. Len(drops) \in Nat
      BY CoveredStretch DEF TypeInv
    <3>3. QED
      BY <3>1, <3>2 DEF OpenDrops
  <2>3. DOMAIN [i \in DOMAIN window' |-> window'[i].total] = {}
    BY <2>1
  <2>4. SumFunction([i \in DOMAIN window' |-> window'[i].total]) = 0
    BY <2>3, SumOfNone DEF SumFunction
  <2>5. QED
    BY <2>1, <2>2, <2>4, FS_EmptySet DEF WindowTells
<1>8. QED
  BY <1>1, <1>2, <1>4, <1>5, <1>6, <1>7 DEF TruthInv

LEMMA AnswerTold ==
    ASSUME TypeInv, TruthInv, Answered, Len(summaries) > 0, UNCHANGED <<window, drops>>
    PROVE  TruthInv'
<1>1. PICK n : n = Len(summaries)
  OBVIOUS
<1>2. /\ n \in DOMAIN summaries
      /\ DOMAIN summaries[n] = {"start", "end", "total", "rules", "last", "fate"}
      /\ IsSeq(summaries) /\ DOMAIN summaries = 1 .. n /\ n \in Nat
  BY <1>1, SummariesFinite DEF TypeInv, WindowInv, Stretches, Fits
<1>3. PICK fate : summaries' = [summaries EXCEPT ![n] = [summaries[n] EXCEPT !.fate = fate]]
  BY <1>1 DEF Answered
<1>4. /\ DOMAIN summaries' = DOMAIN summaries
      /\ \A k \in DOMAIN summaries : /\ summaries'[k].rules = summaries[k].rules
                                     /\ summaries'[k].total = summaries[k].total
                                     /\ summaries'[k].last = summaries[k].last
  BY <1>2, <1>3
<1>5. Len(summaries') = Len(summaries)
  BY <1>1, <1>2, <1>3 DEF IsSeq
<1>6. OpenDrops' = OpenDrops
  BY <1>1, <1>2, <1>4, <1>5 DEF OpenDrops, Last
<1>7. WindowTells'
  BY <1>6 DEF TruthInv, WindowTells
<1>8. ASSUME NEW k \in DOMAIN summaries PROVE SummaryTells(summaries'[k], drops', Covered(k)')
  <2>1. Covered(k)' = Covered(k)
    <3>1. k <= Len(summaries) /\ k \in Nat /\ k >= 1
      BY <1>1, <1>2, <1>8
    <3>2. k # 1 => k - 1 \in DOMAIN summaries
      BY <1>2, <1>8, <3>1
    <3>3. QED
      BY <1>4, <1>5, <1>8, <3>1, <3>2 DEF Covered
  <2>2. SummaryTells(summaries[k], drops, Covered(k))
    BY <1>8 DEF TruthInv
  <2>3. SummaryTells(summaries'[k], drops, Covered(k))
    BY <1>4, <1>8, <2>2, StillTold
  <2>4. QED
    BY <2>1, <2>3
<1>9. QED
  BY <1>4, <1>7, <1>8 DEF TruthInv

LEMMA TruthNext == TypeInv /\ TruthInv /\ [Next]_vars => TruthInv'
<1>1. SUFFICES ASSUME TypeInv, TruthInv, [Next]_vars PROVE TruthInv'
  OBVIOUS
<1>2. ASSUME NEW c \in Callers, Drop(c) PROVE TruthInv'
  BY <1>1, <1>2, DropTold
<1>3. CASE TakeDue \/ TakeLast
  <2>1. Take /\ window # <<>> /\ UNCHANGED <<now, drops>>
    BY <1>3 DEF TakeDue, TakeLast, Due
  <2>2. QED
    BY <1>1, <2>1, TakeTold
<1>4. CASE SummarySent \/ LastSent
  <2>1. Answered /\ Len(summaries) > 0 /\ UNCHANGED <<window, drops>>
    BY <1>1, <1>4 DEF SummarySent, LastSent, TypeInv, WindowInv, Turns
  <2>2. QED
    BY <1>1, <2>1, AnswerTold
<1>5. CASE \/ \E c \in Callers : Enter(c) \/ Pass(c) \/ Keep(c) \/ Flush(c) \/ Return(c)
           \/ TakeTick \/ NotDue \/ Exit \/ Stop \/ NothingLeft
           \/ TimePasses \/ UNCHANGED vars
  <2>1. UNCHANGED <<summaries, window, drops>>
    BY <1>5 DEF Enter, Pass, Keep, Flush, Return, TakeTick, NotDue, Exit, Stop,
                NothingLeft, TimePasses, vars
  <2>2. OpenDrops' = OpenDrops /\ \A k : Covered(k)' = Covered(k)
    BY <2>1 DEF OpenDrops, Last, Covered
  <2>3. QED
    BY <1>1, <2>1, <2>2 DEF TruthInv, WindowTells
<1>6. QED
  BY <1>1, <1>2, <1>3, <1>4, <1>5 DEF Next

LEMMA TruthInit == Init => TruthInv
<1>1. SUFFICES ASSUME Init PROVE TruthInv
  OBVIOUS
<1>2. /\ DOMAIN window = {} /\ DOMAIN summaries = {}
      /\ Len(summaries) = 0 /\ Len(drops) = 0
  BY <1>1 DEF Init
<1>3. OpenDrops = {}
  BY <1>2 DEF OpenDrops, Last
<1>4. DOMAIN [i \in DOMAIN window |-> window[i].total] = {}
  BY <1>2
<1>5. SumFunction([i \in DOMAIN window |-> window[i].total]) = 0
  BY <1>4, SumOfNone DEF SumFunction
<1>6. QED
  BY <1>2, <1>3, <1>5, FS_EmptySet DEF TruthInv, WindowTells

\* No field that a rule counts by has the value that stands for the rest.
OtherIsNoValue ==
    \A rec \in Records : \A i \in DOMAIN Rules : \A name \in Rules[i].tallyBy :
        ValueOf(rec, name) # Other

LEMMA TruthUse ==
    ASSUME OtherIsNoValue, TypeInv, TruthInv
    PROVE  SummaryIsTrue
<1>1. ASSUME NEW k \in DOMAIN summaries,
             NEW s, s = summaries[k]
      PROVE  /\ s.total = Cardinality(Covered(k))
             /\ AddsUp(s)
             /\ DOMAIN s.rules = {drops[n].rule : n \in Covered(k)}
             /\ \A i \in DOMAIN s.rules :
                  /\ s.rules[i].total = Cardinality(DropsOf(Covered(k), i))
                  /\ \A id \in DOMAIN s.rules[i].ids :
                       s.rules[i].ids[id]
                         = Cardinality({n \in DropsOf(Covered(k), i) : drops[n].rec.id = id})
                  /\ \A name \in Rules[i].tallyBy :
                       /\ \A x \in DOMAIN s.rules[i].fields[name] \ {Other} :
                            s.rules[i].fields[name][x]
                              = Cardinality(DropsWith(DropsOf(Covered(k), i), i, name, x))
                       /\ Cardinality({ValueOf(drops[n].rec, name) : n \in DropsOf(Covered(k), i)})
                            <= MaxTracked =>
                            \A x \in {ValueOf(drops[n].rec, name) : n \in DropsOf(Covered(k), i)}
                                       \ (DOMAIN s.rules[i].fields[name] \ {Other}),
                               y \in DOMAIN s.rules[i].fields[name] \ {Other} :
                                 Cardinality(DropsWith(DropsOf(Covered(k), i), i, name, x))
                                   <= Cardinality(DropsWith(DropsOf(Covered(k), i), i, name, y))
  <2>1. SummaryTells(s, drops, Covered(k))
    BY <1>1 DEF TruthInv
  <2>2. Covered(k) \subseteq DOMAIN drops
    BY <1>1, CoveredStretch, DropsFinite DEF TypeInv
  <2>3. \A i : DropsOf(Covered(k), i) = By(drops, Covered(k), i)
    BY DEF DropsOf, By
  <2>4. \A i, name, x : DropsWith(DropsOf(Covered(k), i), i, name, x)
                          = Having(drops, By(drops, Covered(k), i), name, x)
    BY DEF DropsWith, DropsOf, By, Having
  <2>5. ASSUME NEW i \in DOMAIN s.rules, NEW name \in Rules[i].tallyBy
        PROVE  Other \notin ValuesOf(drops, By(drops, Covered(k), i), name)
    <3>1. SUFFICES ASSUME NEW n \in By(drops, Covered(k), i)
                   PROVE  ValueOf(drops[n].rec, name) # Other
      BY DEF ValuesOf
    <3>2. n \in DOMAIN drops /\ drops[n].rule = i
      BY <2>2, <3>1 DEF By
    <3>3. drops[n].rule \in DOMAIN Rules /\ drops[n].rec \in Records
      <4>1. drops \in Seq([rule : DOMAIN Rules, rec : Records, at : 0 .. now])
        BY DEF TypeInv, TypeOK
      <4>2. PICK R : R = [rule : DOMAIN Rules, rec : Records, at : 0 .. now]
        OBVIOUS
      <4>3. drops \in Seq(R)
        BY <4>1, <4>2
      <4>4. drops[n] \in R
        BY <3>2, <4>3
      <4>5. QED
        BY <4>2, <4>4
    <3>4. QED
      BY <2>5, <3>2, <3>3 DEF OtherIsNoValue
  <2>6. /\ s.total = Cardinality(Covered(k))
        /\ DOMAIN s.rules = {drops[n].rule : n \in Covered(k)}
    BY <2>1 DEF SummaryTells
  <2>7. ASSUME NEW i \in DOMAIN s.rules
        PROVE  /\ s.rules[i].total = Cardinality(By(drops, Covered(k), i))
               /\ IdsTell(s.rules[i].ids, drops, By(drops, Covered(k), i))
               /\ DOMAIN s.rules[i].fields = Rules[i].tallyBy
               /\ \A name \in Rules[i].tallyBy :
                    ShownTells(s.rules[i].fields[name], drops, By(drops, Covered(k), i), name)
    BY <2>1, <2>7 DEF SummaryTells
  <2>8. AddsUp(s)
    BY <2>5, <2>7 DEF AddsUp, ShownTells
  <2>9. ASSUME NEW i \in DOMAIN s.rules
        PROVE  /\ s.rules[i].total = Cardinality(DropsOf(Covered(k), i))
               /\ \A id \in DOMAIN s.rules[i].ids :
                    s.rules[i].ids[id]
                      = Cardinality({n \in DropsOf(Covered(k), i) : drops[n].rec.id = id})
    BY <2>3, <2>7 DEF IdsTell
  <2>10. ASSUME NEW i \in DOMAIN s.rules, NEW name \in Rules[i].tallyBy, NEW L, NEW field,
                L = DropsOf(Covered(k), i), field = s.rules[i].fields[name]
         PROVE  /\ \A x \in DOMAIN field \ {Other} :
                     field[x] = Cardinality(DropsWith(L, i, name, x))
                /\ Cardinality({ValueOf(drops[n].rec, name) : n \in L}) <= MaxTracked =>
                     \A x \in {ValueOf(drops[n].rec, name) : n \in L} \ (DOMAIN field \ {Other}),
                        y \in DOMAIN field \ {Other} :
                          Cardinality(DropsWith(L, i, name, x))
                            <= Cardinality(DropsWith(L, i, name, y))
    <3>1. L = By(drops, Covered(k), i)
      BY <2>3, <2>10
    <3>2. ShownTells(field, drops, L, name) /\ Other \notin ValuesOf(drops, L, name)
      BY <2>5, <2>7, <2>10, <3>1
    <3>3. \A x : DropsWith(L, i, name, x) = Having(drops, L, name, x)
      BY <2>4, <2>10, <3>1
    <3>4. ValuesOf(drops, L, name) = {ValueOf(drops[n].rec, name) : n \in L}
      BY DEF ValuesOf
    <3>5. QED
      BY <3>2, <3>3, <3>4 DEF ShownTells
  <2>11. QED
    BY <2>6, <2>8, <2>9, <2>10
<1>2. QED
  BY <1>1 DEF SummaryIsTrue

\* A summary is right about the drops it covers: totals, event ids and the counts of
\* the values it shows, for every set of rules, batches and limits, as long as no
\* record carries the value that stands for the rest.
THEOREM SummariesTrue ==
    ASSUME OtherIsNoValue
    PROVE  Spec => []SummaryIsTrue
<1>1. Init => TypeInv /\ TruthInv
  BY TypeInit, WindowInit, TruthInit DEF TypeInv
<1>2. TypeInv /\ TruthInv /\ [Next]_vars => TypeInv' /\ TruthInv'
  BY TypeNext, TruthNext
<1>3. TypeInv /\ TruthInv => SummaryIsTrue
  BY TruthUse
<1>4. QED
  BY <1>1, <1>2, <1>3, PTL DEF Spec

==============================================================================
