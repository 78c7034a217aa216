------------------------- MODULE LogRecombineProofs -------------------------
(* Theorems about LogRecombine, for every value of its constants.           *)
EXTENDS LogRecombine, TLAPS

------------------------------------------------------------------------------
(* Types. *)

ProgramPoints == {"idle", "locked", "sending", "relocking", "waiting", "flushing",
                  "exited", "up", "closing", "sendingLocked", "down"}

Holds(p) == pc[p] \in {"locked", "sendingLocked"}

OneHolder == \A p, q \in Processes : Holds(p) /\ Holds(q) => p = q

\* The ids of the records still to process are reserved for the holder's batch.
IdsReserved ==
    \A c \in Callers : pc[c] = "locked" => Len(seen) + Len(input[c]) <= MaxRecords

LinesArrived == \A s \in Sources : buffers[s].lines \subseteq 1 .. Len(seen)

TypeInv == TypeOK /\ OneHolder /\ IdsReserved /\ LinesArrived

LEMMA NoEntryType == NoEntry \in Entry
  BY ConfigAssumption DEF NoEntry, Entry

LEMMA TypeInvInit == Init => TypeInv
<1> SUFFICES ASSUME Init PROVE TypeInv
    OBVIOUS
<1> USE ProcessAssumption DEF Init
<1>1. /\ now \in 0 .. MaxTime
      /\ tick \in BOOLEAN
      /\ pc \in [Processes -> ProgramPoints]
      /\ input \in [Callers -> Seq(Messages)]
  <2>1. now \in 0 .. MaxTime
    BY ConfigAssumption
  <2>2. pc \in [Processes -> ProgramPoints]
    BY DEF ProgramPoints
  <2>3. input \in [Callers -> Seq(Messages)]
    OBVIOUS
  <2>4. QED
    BY <2>1, <2>2, <2>3
<1>2. buffers \in [Sources -> Entry]
  BY NoEntryType
<1>3. /\ seen \in Seq([src : Sources, kind : Kinds, at : 0 .. MaxTime])
      /\ Len(seen) = 0
  OBVIOUS
<1>4. /\ out \in [Processes -> SUBSET SUBSET (1 .. Len(seen))]
      /\ delivered \subseteq SUBSET (1 .. Len(seen))
      /\ lost \subseteq SUBSET (1 .. Len(seen))
  OBVIOUS
<1>5. TypeOK
  BY <1>1, <1>2, <1>3, <1>4, ConfigAssumption DEF TypeOK, ProgramPoints
<1>6. OneHolder /\ IdsReserved
  BY DEF OneHolder, IdsReserved, Holds, Processes
<1>7. LinesArrived
  BY DEF LinesArrived, NoEntry
<1>8. QED
  BY <1>5, <1>6, <1>7 DEF TypeInv

\* An action that changes neither the records nor the entries preserves types
\* as soon as it keeps the program points right and starts no holder.
LEMMA ControlStep ==
    ASSUME TypeInv,
           UNCHANGED <<out, buffers, seen, delivered, lost>>,
           now' \in 0 .. MaxTime, tick' \in BOOLEAN,
           pc' \in [Processes -> ProgramPoints],
           input' \in [Callers -> Seq(Messages)],
           OneHolder', IdsReserved'
    PROVE  TypeInv'
  BY DEF TypeInv, TypeOK, LinesArrived, ProgramPoints

LEMMA EnterType ==
    ASSUME TypeInv, NEW c \in Callers, Enter(c)
    PROVE  TypeInv'
<1> USE DEF TypeInv, TypeOK
<1>0. PICK n \in 1 .. MaxCall :
        /\ Len(seen) + n <= MaxRecords
        /\ \E batch \in [1 .. n -> Messages] : input' = [input EXCEPT ![c] = batch]
  BY DEF Enter
<1>1. PICK batch \in [1 .. n -> Messages] : input' = [input EXCEPT ![c] = batch]
  BY <1>0
<1>2. batch \in Seq(Messages) /\ Len(batch) = n
  BY <1>1, ConfigAssumption
<1>3. input' \in [Callers -> Seq(Messages)]
  BY <1>1, <1>2
<1>4. pc' \in [Processes -> ProgramPoints]
  BY DEF Enter, ProgramPoints, Processes
<1>5. OneHolder'
  BY DEF Enter, OneHolder, Holds, LockFree, Processes
<1>6. IdsReserved'
  BY <1>0, <1>1, <1>2 DEF Enter, IdsReserved, Processes
<1>7. QED
  BY <1>3, <1>4, <1>5, <1>6, ControlStep DEF Enter

\* Steps that only move a process to another program point.
LEMMA ControlType ==
    ASSUME TypeInv,
           \/ \E c \in Callers : Unlock(c) \/ Return(c)
           \/ TakeTick \/ Exit \/ BeginShutdown \/ TimePasses
    PROVE  TypeInv'
<1>1. CASE \E c \in Callers : Unlock(c) \/ Return(c)
  <2> PICK c \in Callers : Unlock(c) \/ Return(c)
    BY <1>1
  <2> USE DEF TypeInv, TypeOK, Unlock, Return
  <2>1. pc' \in [Processes -> ProgramPoints]
    BY DEF ProgramPoints
  <2>2. OneHolder' /\ IdsReserved'
    BY DEF OneHolder, IdsReserved, Holds, Processes
  <2>3. QED
    BY <2>1, <2>2, ControlStep
<1>2. CASE TakeTick \/ Exit \/ BeginShutdown
  <2> USE <1>2 DEF TypeInv, TypeOK, TakeTick, Exit, BeginShutdown
  <2>1. pc' \in [Processes -> ProgramPoints]
    BY DEF ProgramPoints
  <2>2. OneHolder' /\ IdsReserved'
    BY ProcessAssumption DEF OneHolder, IdsReserved, Holds, Processes
  <2>3. QED
    BY <2>1, <2>2, ControlStep
<1>3. CASE TimePasses
  <2> USE <1>3 DEF TypeInv, TypeOK, TimePasses
  <2>1. now' \in 0 .. MaxTime /\ tick' \in BOOLEAN
    BY ConfigAssumption
  <2>2. OneHolder' /\ IdsReserved'
    BY DEF OneHolder, IdsReserved, Holds
  <2>3. QED
    BY <2>1, <2>2, ControlStep DEF ProgramPoints
<1>4. QED
  BY <1>1, <1>2, <1>3

\* Adding a record makes room for its id and gives it to one more place.
LEMMA ProcessRecordSeen ==
    ASSUME TypeInv, NEW c \in Callers, ProcessRecord(c)
    PROVE  /\ Head(input[c]) \in Messages
           /\ seen' \in Seq([src : Sources, kind : Kinds, at : 0 .. MaxTime])
           /\ Len(seen') = Len(seen) + 1
           /\ Len(seen') <= MaxRecords
           /\ \A i \in 1 .. Len(seen) : seen'[i] = seen[i]
           /\ seen'[Len(seen')].src = Head(input[c]).src
           /\ seen'[Len(seen')].kind = Head(input[c]).kind
           /\ seen'[Len(seen')].at = now
           /\ input' \in [Callers -> Seq(Messages)]
           /\ IdsReserved'
<1> USE DEF TypeInv, TypeOK
<1>1. /\ input[c] \in Seq(Messages)
      /\ input[c] # <<>>
      /\ pc[c] = "locked"
      /\ c \in Processes
  BY DEF ProcessRecord, Processes
<1>2. /\ Head(input[c]) \in Messages
      /\ Tail(input[c]) \in Seq(Messages)
      /\ Len(Tail(input[c])) = Len(input[c]) - 1
      /\ Len(input[c]) \in Nat \ {0}
  BY <1>1
<1>3. Head(input[c]) \in [src : Sources, kind : Kinds, size : Nat \ {0}]
  BY <1>2, MessageAssumption
<1> DEFINE rec == [src |-> Head(input[c]).src, kind |-> Head(input[c]).kind, at |-> now]
<1>4. /\ seen' = Append(seen, rec)
      /\ rec \in [src : Sources, kind : Kinds, at : 0 .. MaxTime]
  BY <1>3 DEF ProcessRecord
<1> HIDE DEF rec
<1>5. /\ seen' \in Seq([src : Sources, kind : Kinds, at : 0 .. MaxTime])
      /\ Len(seen') = Len(seen) + 1
      /\ \A i \in 1 .. Len(seen) : seen'[i] = seen[i]
      /\ seen'[Len(seen')] = rec
  BY <1>4
<1>6. input' = [input EXCEPT ![c] = Tail(input[c])]
  BY DEF ProcessRecord
<1>7. Len(seen) + Len(input[c]) <= MaxRecords
  BY <1>1 DEF IdsReserved
<1>8. input' \in [Callers -> Seq(Messages)]
  BY <1>2, <1>6
<1>9. IdsReserved'
  <2> SUFFICES ASSUME NEW d \in Callers, pc'[d] = "locked"
               PROVE  Len(seen') + Len(input'[d]) <= MaxRecords
    BY DEF IdsReserved
  <2>1. pc[d] = "locked" /\ d = c
    BY <1>1 DEF ProcessRecord, OneHolder, Holds, Processes
  <2>2. QED
    BY <2>1, <1>2, <1>5, <1>6, <1>7
<1>10. Len(seen') <= MaxRecords
  BY <1>2, <1>5, <1>7, ConfigAssumption
<1>11. QED
  BY <1>2, <1>4, <1>3, <1>5, <1>8, <1>9, <1>10 DEF rec

------------------------------------------------------------------------------
(* Accounting for lines, stated on values rather than on the state: B[s] is  *)
(* the text buffered for s, O[p] what p is sending, D and L what downstream  *)
(* took or refused, and N lines have arrived.  Every action is a short       *)
(* composition of the moves the lemmas below are about.                      *)

Disjoint(e, f) == \A x \in e : x \notin f

Covered(B, O, D, L, N) ==
    \A r \in 1 .. N :
        \/ \E s \in Sources : r \in B[s]
        \/ \E p \in Processes : \E e \in O[p] : r \in e
        \/ \E e \in D : r \in e
        \/ \E e \in L : r \in e

InRange(B, O, D, L, N) ==
    /\ \A s \in Sources : B[s] \subseteq 1 .. N
    /\ \A p \in Processes : \A e \in O[p] : e # {} /\ e \subseteq 1 .. N
    /\ \A e \in D : e # {} /\ e \subseteq 1 .. N
    /\ \A e \in L : e # {} /\ e \subseteq 1 .. N

BuffersApart(B, O, D, L) ==
    /\ \A s, t \in Sources : s = t \/ Disjoint(B[s], B[t])
    /\ \A s \in Sources : \A p \in Processes : \A e \in O[p] : Disjoint(B[s], e)
    /\ \A s \in Sources : \A e \in D : Disjoint(B[s], e)
    /\ \A s \in Sources : \A e \in L : Disjoint(B[s], e)

SentApart(O, D, L) ==
    /\ \A p, q \in Processes : \A e \in O[p] : \A f \in O[q] :
          (p = q /\ e = f) \/ Disjoint(e, f)
    /\ \A p \in Processes : \A e \in O[p] : \A f \in D : Disjoint(e, f)
    /\ \A p \in Processes : \A e \in O[p] : \A f \in L : Disjoint(e, f)
    /\ \A e, f \in D : e = f \/ Disjoint(e, f)
    /\ \A e, f \in L : e = f \/ Disjoint(e, f)
    /\ \A e \in D : \A f \in L : Disjoint(e, f)

Accounted(B, O, D, L, N) ==
    /\ B \in [Sources -> SUBSET Nat]
    /\ O \in [Processes -> SUBSET SUBSET Nat]
    /\ Covered(B, O, D, L, N)
    /\ InRange(B, O, D, L, N)
    /\ BuffersApart(B, O, D, L)
    /\ SentApart(O, D, L)

\* A new line joins what is buffered for its source.
LEMMA AccountJoin ==
    ASSUME NEW B, NEW O, NEW D, NEW L, NEW N \in Nat, NEW s \in Sources,
           Accounted(B, O, D, L, N)
    PROVE  Accounted([B EXCEPT ![s] = @ \cup {N + 1}], O, D, L, N + 1)
<1> DEFINE C == [B EXCEPT ![s] = B[s] \cup {N + 1}]
<1> USE DEF Accounted
<1>1. /\ C \in [Sources -> SUBSET Nat]
      /\ C[s] = B[s] \cup {N + 1}
      /\ \A t \in Sources : t # s => C[t] = B[t]
      /\ \A t \in Sources : B[t] \subseteq C[t] /\ C[t] \subseteq B[t] \cup {N + 1}
  OBVIOUS
<1> HIDE DEF C
<1>2. Covered(C, O, D, L, N + 1)
  BY <1>1 DEF Covered
<1>3. InRange(C, O, D, L, N + 1)
  BY <1>1 DEF InRange
<1>4. BuffersApart(C, O, D, L)
  BY <1>1 DEF BuffersApart, InRange, Disjoint
<1>5. QED
  BY <1>1, <1>2, <1>3, <1>4 DEF C

\* A new line goes out on its own.
LEMMA AccountAlone ==
    ASSUME NEW B, NEW O, NEW D, NEW L, NEW N \in Nat, NEW p \in Processes,
           Accounted(B, O, D, L, N)
    PROVE  Accounted(B, [O EXCEPT ![p] = @ \cup {{N + 1}}], D, L, N + 1)
<1> DEFINE P == [O EXCEPT ![p] = O[p] \cup {{N + 1}}]
<1> USE DEF Accounted
<1>1. /\ P \in [Processes -> SUBSET SUBSET Nat]
      /\ P[p] = O[p] \cup {{N + 1}}
      /\ \A q \in Processes : q # p => P[q] = O[q]
  OBVIOUS
<1> HIDE DEF P
<1>2. Covered(B, P, D, L, N + 1)
  <2>1. \A q \in Processes : O[q] \subseteq P[q]
    BY <1>1
  <2>2. \E e \in P[p] : N + 1 \in e
    BY <1>1
  <2>3. \A r \in 1 .. N + 1 : r \in 1 .. N \/ r = N + 1
    OBVIOUS
  <2>4. QED
    BY <2>1, <2>2, <2>3 DEF Covered
<1>3. InRange(B, P, D, L, N + 1)
  BY <1>1 DEF InRange
<1>4. BuffersApart(B, P, D, L)
  BY <1>1 DEF BuffersApart, InRange, Disjoint
<1>5. SentApart(P, D, L)
  <2>1. \A q \in Processes : \A e \in P[q] :
           (q = p /\ e = {N + 1}) \/ (e \in O[q] /\ N + 1 \notin e)
    BY <1>1 DEF InRange
  <2>2. \A e \in D \cup L : N + 1 \notin e
    BY DEF InRange
  <2>3. \A q1, q2 \in Processes : \A e \in P[q1] : \A f \in P[q2] :
           (q1 = q2 /\ e = f) \/ Disjoint(e, f)
    <3> TAKE q1, q2 \in Processes
    <3> TAKE e \in P[q1]
    <3> TAKE f \in P[q2]
    <3>1. CASE e \in O[q1] /\ f \in O[q2]
      BY <3>1 DEF SentApart
    <3>2. CASE q1 = p /\ e = {N + 1}
      BY <3>2, <2>1 DEF Disjoint
    <3>3. CASE q2 = p /\ f = {N + 1}
      BY <3>3, <2>1 DEF Disjoint
    <3>4. QED
      BY <2>1, <3>1, <3>2, <3>3
  <2>4. \A q \in Processes : \A e \in P[q] : \A f \in D \cup L : Disjoint(e, f)
    <3> TAKE q \in Processes
    <3> TAKE e \in P[q]
    <3> TAKE f \in D \cup L
    <3>1. CASE e \in O[q]
      BY <3>1 DEF SentApart
    <3>2. CASE e = {N + 1}
      BY <3>2, <2>2 DEF Disjoint
    <3>3. QED
      BY <2>1, <3>1, <3>2
  <2>5. QED
    BY <2>3, <2>4 DEF SentApart
<1>6. QED
  BY <1>1, <1>2, <1>3, <1>4, <1>5 DEF P

\* The entries of the sources in S are taken out of the map by p.
LEMMA AccountTake ==
    ASSUME NEW B, NEW O, NEW D, NEW L, NEW N \in Nat, Accounted(B, O, D, L, N),
           NEW S \in SUBSET Sources, NEW p \in Processes,
           NEW C \in [Sources -> SUBSET Nat],
           \A s \in Sources : C[s] = IF s \in S THEN {} ELSE B[s],
           NEW T,
           \A e \in T : e # {} /\ \E s \in S : e = B[s],
           \A s \in S : B[s] = {} \/ B[s] \in T,
           NEW P, P = [O EXCEPT ![p] = @ \cup T]
    PROVE  Accounted(C, P, D, L, N)
<1> USE DEF Accounted
<1>1. \A s \in Sources : C[s] = IF s \in S THEN {} ELSE B[s]
  OBVIOUS
<1>2. /\ \A e \in T : e # {} /\ \E s \in S : e = B[s]
      /\ \A s \in S : B[s] = {} \/ B[s] \in T
  OBVIOUS
<1>3. /\ P \in [Processes -> SUBSET SUBSET Nat]
      /\ P[p] = O[p] \cup T
      /\ \A q \in Processes : q # p => P[q] = O[q]
  <2>1. T \subseteq SUBSET Nat
    OBVIOUS
  <2>2. QED
    BY <2>1
<1>4. Covered(C, P, D, L, N)
  BY <1>1, <1>2, <1>3 DEF Covered
<1>5. InRange(C, P, D, L, N)
  BY <1>1, <1>2, <1>3 DEF InRange
<1>6. BuffersApart(C, P, D, L)
  BY <1>1, <1>2, <1>3 DEF BuffersApart, Disjoint
<1>7. SentApart(P, D, L)
  BY <1>1, <1>2, <1>3 DEF SentApart, BuffersApart, Disjoint
<1>8. QED
  BY <1>1, <1>3, <1>4, <1>5, <1>6, <1>7

\* A send of p ends: its entries are accepted, or refused.
LEMMA AccountSent ==
    ASSUME NEW B, NEW O, NEW D, NEW L, NEW N \in Nat, NEW p \in Processes,
           Accounted(B, O, D, L, N)
    PROVE  /\ Accounted(B, [O EXCEPT ![p] = {}], D \cup O[p], L, N)
           /\ Accounted(B, [O EXCEPT ![p] = {}], D, L \cup O[p], N)
<1> DEFINE P == [O EXCEPT ![p] = {}]
<1> USE DEF Accounted
<1>1. /\ P \in [Processes -> SUBSET SUBSET Nat]
      /\ P[p] = {}
      /\ \A q \in Processes : q # p => P[q] = O[q]
  OBVIOUS
<1> HIDE DEF P
<1>2. Covered(B, P, D \cup O[p], L, N) /\ Covered(B, P, D, L \cup O[p], N)
  BY <1>1 DEF Covered
<1>3. InRange(B, P, D \cup O[p], L, N) /\ InRange(B, P, D, L \cup O[p], N)
  BY <1>1 DEF InRange
<1>4. BuffersApart(B, P, D \cup O[p], L) /\ BuffersApart(B, P, D, L \cup O[p])
  BY <1>1 DEF BuffersApart
<1>5. SentApart(P, D \cup O[p], L) /\ SentApart(P, D, L \cup O[p])
  BY <1>1 DEF SentApart, Disjoint
<1>6. QED
  BY <1>1, <1>2, <1>3, <1>4, <1>5 DEF P

------------------------------------------------------------------------------
(* The accounting invariant of the processor. *)

Texts == [s \in Sources |-> buffers[s].lines]

AccountInv == Accounted(Texts, out, delivered, lost, Len(seen))

\* A process has entries in hand only while it collects or sends them.
InHand ==
    \A p \in Processes : out[p] # {} => pc[p] \in {"locked", "sending", "sendingLocked"}

IInv == TypeInv /\ AccountInv /\ InHand

LEMMA IInvInit == Init => IInv
<1> SUFFICES ASSUME Init PROVE IInv
    OBVIOUS
<1>1. TypeInv
  BY TypeInvInit
<1>2. /\ Len(seen) = 0
      /\ Texts = [s \in Sources |-> {}]
      /\ out = [p \in Processes |-> {}]
      /\ delivered = {}
      /\ lost = {}
  BY DEF Init, Texts, NoEntry
<1>3. AccountInv
  BY <1>2 DEF AccountInv, Accounted, Covered, InRange, BuffersApart, SentApart, Disjoint
<1>4. InHand
  BY <1>2 DEF InHand
<1>5. QED
  BY <1>1, <1>3, <1>4 DEF IInv

\* The lines of all entries being in range is what types say of them.
LEMMA TypeFromAccount ==
    ASSUME AccountInv', now' \in 0 .. MaxTime, tick' \in BOOLEAN,
           pc' \in [Processes -> ProgramPoints],
           input' \in [Callers -> Seq(Messages)],
           buffers' \in [Sources -> Entry],
           seen' \in Seq([src : Sources, kind : Kinds, at : 0 .. MaxTime]),
           Len(seen') <= MaxRecords, OneHolder', IdsReserved'
    PROVE  TypeInv'
<1>1. /\ \A s \in Sources : buffers'[s].lines \subseteq 1 .. Len(seen')
      /\ out' \in [Processes -> SUBSET SUBSET (1 .. Len(seen'))]
      /\ delivered' \subseteq SUBSET (1 .. Len(seen'))
      /\ lost' \subseteq SUBSET (1 .. Len(seen'))
  BY DEF AccountInv, Accounted, InRange, Texts
<1>2. QED
  BY <1>1 DEF TypeInv, TypeOK, LinesArrived, ProgramPoints

LEMMA EntryTypes ==
    ASSUME TypeInv, NEW m \in Messages, m.src \in Sources, m.size \in Nat,
           NEW id \in 1 .. MaxRecords
    PROVE  /\ NewEntry(m, id) \in Entry
           /\ NewEntry(m, id).lines = {id}
           /\ ExtendedEntry(m, id) \in Entry
           /\ ExtendedEntry(m, id).lines = buffers[m.src].lines \cup {id}
<1> DEFINE b == buffers[m.src]
<1>1. b \in Entry /\ now \in 0 .. MaxTime /\ MaxTime \in Nat
  BY ConfigAssumption DEF TypeInv, TypeOK
<1>2. /\ NewEntry(m, id) \in Entry
      /\ NewEntry(m, id).lines = {id}
  BY <1>1 DEF NewEntry, Entry
<1>3. ExtendedEntry(m, id) = [lines |-> b.lines \cup {id}, size |-> b.size + m.size,
                              firstSeen |-> b.firstSeen, lastSeen |-> now]
  BY DEF ExtendedEntry
<1>4. /\ b.lines \cup {id} \in SUBSET (1 .. MaxRecords)
      /\ b.size + m.size \in Nat
      /\ b.firstSeen \in 0 .. MaxTime
  BY <1>1 DEF Entry
<1> HIDE DEF b
<1>5. /\ ExtendedEntry(m, id) \in Entry
      /\ ExtendedEntry(m, id).lines = b.lines \cup {id}
  BY <1>1, <1>3, <1>4 DEF Entry
<1>6. QED
  BY <1>2, <1>5 DEF b

\* What ProcessRecord gives every branch of processRecord to work with.
LEMMA RecordFacts ==
    ASSUME IInv, NEW c \in Callers, ProcessRecord(c)
    PROVE  LET m == Head(input[c]) IN
           /\ c \in Processes /\ Len(seen) \in Nat /\ Len(seen') = Len(seen) + 1
           /\ Len(seen) + 1 \in 1 .. MaxRecords
           /\ m \in Messages /\ m.src \in Sources /\ m.size \in Nat
           /\ delivered' = delivered /\ lost' = lost
           /\ buffers \in [Sources -> Entry]
           /\ out \in [Processes -> SUBSET SUBSET Nat]
           /\ Texts \in [Sources -> SUBSET Nat]
           /\ \A s \in Sources : Texts[s] = buffers[s].lines
<1>1. /\ Len(seen') = Len(seen) + 1
      /\ Len(seen') <= MaxRecords
      /\ Head(input[c]) \in Messages
  BY ProcessRecordSeen DEF IInv
<1>2. Head(input[c]) \in [src : Sources, kind : Kinds, size : Nat \ {0}]
  BY <1>1, MessageAssumption
<1>3. Len(seen) \in Nat /\ buffers \in [Sources -> Entry]
  BY DEF IInv, TypeInv, TypeOK
<1>4. MaxRecords \in Nat
  BY ConfigAssumption
<1>5. Len(seen) + 1 \in 1 .. MaxRecords
  BY <1>1, <1>3, <1>4
<1>6. delivered' = delivered /\ lost' = lost
  BY DEF ProcessRecord
<1>7. /\ out \in [Processes -> SUBSET SUBSET Nat]
      /\ Texts \in [Sources -> SUBSET Nat]
  BY DEF IInv, AccountInv, Accounted
<1>8. QED
  BY <1>1, <1>2, <1>3, <1>5, <1>6, <1>7 DEF Processes, Texts

LEMMA PassThroughAccount ==
    ASSUME IInv, NEW c \in Callers, ProcessRecord(c),
           PassThrough(c, Head(input[c]), Len(seen) + 1)
    PROVE  AccountInv' /\ buffers' \in [Sources -> Entry]
<1>1. c \in Processes /\ Len(seen) \in Nat /\ Len(seen') = Len(seen) + 1
  BY ProcessRecordSeen DEF IInv, TypeInv, TypeOK, Processes
<1>2. /\ out' = [out EXCEPT ![c] = @ \cup {{Len(seen) + 1}}]
      /\ buffers' = buffers
      /\ delivered' = delivered /\ lost' = lost
  BY DEF PassThrough, ProcessRecord
<1>3. Texts' = Texts
  BY <1>2 DEF Texts
<1>4. Accounted(Texts, out', delivered, lost, Len(seen) + 1)
  BY <1>1, <1>2, AccountAlone DEF IInv, AccountInv
<1>5. QED
  BY <1>1, <1>2, <1>3, <1>4 DEF AccountInv, IInv, TypeInv, TypeOK

LEMMA ExtendAccount ==
    ASSUME IInv, NEW c \in Callers, ProcessRecord(c),
           Extend(c, Head(input[c]), Len(seen) + 1)
    PROVE  AccountInv' /\ buffers' \in [Sources -> Entry]
<1> DEFINE m  == Head(input[c])
           id == Len(seen) + 1
           e  == ExtendedEntry(m, id)
           B  == [Texts EXCEPT ![m.src] = @ \cup {id}]
<1>1. /\ c \in Processes /\ Len(seen) \in Nat /\ Len(seen') = id
      /\ id \in 1 .. MaxRecords
      /\ m \in Messages /\ m.src \in Sources /\ m.size \in Nat
      /\ delivered' = delivered /\ lost' = lost
      /\ buffers \in [Sources -> Entry]
      /\ out \in [Processes -> SUBSET SUBSET Nat]
      /\ Texts \in [Sources -> SUBSET Nat]
      /\ \A s \in Sources : Texts[s] = buffers[s].lines
  BY RecordFacts
<1>2. e \in Entry /\ e.lines = buffers[m.src].lines \cup {id}
  BY <1>1, EntryTypes DEF IInv
<1>3. Accounted(B, out, delivered, lost, id)
  BY <1>1, AccountJoin DEF IInv, AccountInv
<1> HIDE DEF m, id, e
<1>4. CASE e.size >= MaxBatchSize
  <2>1. /\ buffers' = [buffers EXCEPT ![m.src] = NoEntry]
        /\ out' = [out EXCEPT ![c] = @ \cup {e.lines}]
    BY <1>4 DEF Extend, m, id, e
  <2>2. B[m.src] = e.lines /\ e.lines # {}
    BY <1>1, <1>2
  <2>3. /\ Texts' \in [Sources -> SUBSET Nat]
        /\ \A s \in Sources : Texts'[s] = IF s \in {m.src} THEN {} ELSE B[s]
    BY <1>1, <2>1 DEF Texts, NoEntry
  <2>4. Accounted(Texts', out', delivered, lost, id)
    <3> DEFINE S == {m.src}
               T == {e.lines}
    <3> HIDE DEF B
    <3>1. /\ id \in Nat /\ S \in SUBSET Sources
          /\ \A x \in T : x # {} /\ \E s \in S : x = B[s]
          /\ \A s \in S : B[s] = {} \/ B[s] \in T
          /\ \A s \in Sources : Texts'[s] = IF s \in S THEN {} ELSE B[s]
          /\ out' = [out EXCEPT ![c] = @ \cup T]
      BY <1>1, <2>1, <2>2, <2>3 DEF id
    <3> HIDE DEF S, T
    <3>2. QED
      BY <1>1, <1>3, <2>3, <3>1, AccountTake
  <2>5. AccountInv'
    BY <1>1, <2>4 DEF AccountInv
  <2>6. QED
    BY <1>1, <2>1, <2>5, NoEntryType
<1>5. CASE ~(e.size >= MaxBatchSize)
  <2>1. buffers' = [buffers EXCEPT ![m.src] = e] /\ out' = out
    BY <1>5 DEF Extend, m, id, e
  <2>2. Texts' = B
    BY <1>1, <1>2, <2>1 DEF Texts
  <2>3. QED
    BY <1>1, <1>2, <1>3, <2>1, <2>2 DEF AccountInv
<1>6. QED
  BY <1>4, <1>5

LEMMA OpenAccount ==
    ASSUME IInv, NEW c \in Callers, ProcessRecord(c),
           Open(c, Head(input[c]), Len(seen) + 1)
    PROVE  AccountInv' /\ buffers' \in [Sources -> Entry]
<1> DEFINE m  == Head(input[c])
           N  == Len(seen)
           id == Len(seen) + 1
           B  == Texts
           S1 == {m.src}
           T1 == {B[m.src]} \ {{}}
           C1 == [B EXCEPT ![m.src] = {}]
           P1 == [out EXCEPT ![c] = @ \cup T1]
           C2 == [C1 EXCEPT ![m.src] = @ \cup {id}]
           opened == [buffers EXCEPT ![m.src] = NewEntry(m, id)]
<1>1. /\ c \in Processes /\ N \in Nat /\ Len(seen') = id /\ id = N + 1
      /\ id \in 1 .. MaxRecords
      /\ m \in Messages /\ m.src \in Sources /\ m.size \in Nat
      /\ delivered' = delivered /\ lost' = lost
      /\ buffers \in [Sources -> Entry]
      /\ out \in [Processes -> SUBSET SUBSET Nat]
      /\ B \in [Sources -> SUBSET Nat]
      /\ \A s \in Sources : B[s] = buffers[s].lines
  BY RecordFacts
<1>2. NewEntry(m, id) \in Entry /\ NewEntry(m, id).lines = {id}
  BY <1>1, EntryTypes DEF IInv
<1>3. /\ opened \in [Sources -> Entry]
      /\ opened[m.src].lines = {id}
      /\ \A s \in Sources : s # m.src => opened[s].lines = B[s]
  BY <1>1, <1>2
<1>4. Accounted(C1, P1, delivered, lost, N)
  <2>1. /\ Accounted(B, out, delivered, lost, N)
        /\ S1 \in SUBSET Sources
        /\ C1 \in [Sources -> SUBSET Nat]
        /\ \A s \in Sources : C1[s] = IF s \in S1 THEN {} ELSE B[s]
        /\ \A e \in T1 : e # {} /\ \E s \in S1 : e = B[s]
        /\ \A s \in S1 : B[s] = {} \/ B[s] \in T1
        /\ P1 = [out EXCEPT ![c] = @ \cup T1]
    BY <1>1 DEF IInv, AccountInv
  <2> HIDE DEF m, N, B, S1, T1, C1, P1
  <2>2. QED
    BY <1>1, <2>1, AccountTake
<1>5. Accounted(C2, P1, delivered, lost, id)
  <2> HIDE DEF C1, P1
  <2>1. QED
    BY <1>1, <1>4, AccountJoin
<1>6. /\ C2 \in [Sources -> SUBSET Nat]
      /\ \A s \in Sources : C2[s] = opened[s].lines
      /\ P1 = [out EXCEPT ![c] = out[c] \cup ({buffers[m.src].lines} \ {{}})]
  <2>1. /\ B[m.src] = buffers[m.src].lines
        /\ C2[m.src] = {id}
        /\ \A s \in Sources : s # m.src => C2[s] = B[s]
    <3> HIDE DEF B, m, id
    <3>1. QED
      BY <1>1
  <2>2. C2 \in [Sources -> SUBSET Nat]
    <3> HIDE DEF B, m
    <3>1. QED
      BY <1>1
  <2>3. P1 = [out EXCEPT ![c] = out[c] \cup ({buffers[m.src].lines} \ {{}})]
    BY <2>1
  <2> HIDE DEF C2, opened, P1
  <2>4. QED
    BY <1>1, <1>3, <2>1, <2>2, <2>3
<1>7. CASE Cardinality(BufferedIn(opened)) > MaxSources
  <2>1. PICK v \in Oldest(opened) :
          /\ buffers' = [opened EXCEPT ![v] = NoEntry]
          /\ out' = [out EXCEPT ![c] = @ \cup ({buffers[m.src].lines} \ {{}})
                                         \cup {opened[v].lines}]
    BY <1>7 DEF Open
  <2> HIDE DEF opened
  <2>2. v \in Sources /\ opened[v].lines # {}
    BY DEF Oldest, BufferedIn
  <2> DEFINE S2 == {v}
             T2 == {opened[v].lines}
  <2>3. /\ buffers' \in [Sources -> Entry]
        /\ Texts' \in [Sources -> SUBSET Nat]
        /\ \A s \in Sources : Texts'[s] = IF s \in S2 THEN {} ELSE C2[s]
    <3>1. /\ buffers' \in [Sources -> Entry]
          /\ \A s \in Sources :
                buffers'[s].lines = IF s = v THEN {} ELSE opened[s].lines
      BY <1>3, <2>1, <2>2, NoEntryType DEF NoEntry
    <3>2. QED
      BY <3>1, <1>6 DEF Texts
  <2>4. /\ S2 \in SUBSET Sources
        /\ \A e \in T2 : e # {} /\ \E s \in S2 : e = C2[s]
        /\ \A s \in S2 : C2[s] = {} \/ C2[s] \in T2
    BY <1>6, <2>2
  <2>5. out' = [P1 EXCEPT ![c] = @ \cup T2]
    BY <1>1, <1>6, <2>1
  <2> HIDE DEF m, N, id, B, T1, S1, C1, P1, C2, T2, S2
  <2>6. id \in Nat
    BY <1>1
  <2>7. Accounted(Texts', out', delivered, lost, id)
    BY <1>1, <1>5, <2>3, <2>4, <2>5, <2>6, AccountTake
  <2>8. QED
    BY <1>1, <2>3, <2>7 DEF AccountInv
<1>8. CASE ~(Cardinality(BufferedIn(opened)) > MaxSources)
  <2>1. /\ buffers' = opened
        /\ out' = P1
    BY <1>6, <1>8 DEF Open
  <2>2. Texts' = C2
    BY <1>6, <2>1 DEF Texts
  <2>3. QED
    BY <1>1, <1>3, <1>5, <2>1, <2>2 DEF AccountInv
<1>9. QED
  BY <1>7, <1>8

LEMMA ProcessRecordInv ==
    ASSUME IInv, NEW c \in Callers, ProcessRecord(c)
    PROVE  IInv'
<1>1. AccountInv' /\ buffers' \in [Sources -> Entry]
  BY PassThroughAccount, OpenAccount, ExtendAccount DEF ProcessRecord
<1>2. /\ now' \in 0 .. MaxTime /\ tick' \in BOOLEAN
      /\ pc' \in [Processes -> ProgramPoints] /\ OneHolder'
  BY DEF ProcessRecord, IInv, TypeInv, TypeOK, ProgramPoints, OneHolder, Holds
<1>3. TypeInv'
  BY <1>1, <1>2, ProcessRecordSeen, TypeFromAccount DEF IInv
<1>4. InHand'
  <2>1. \A p \in Processes : p # c => out'[p] = out[p]
    BY RecordFacts DEF ProcessRecord, PassThrough, Open, Extend
  <2>2. pc' = pc /\ pc[c] = "locked"
    BY DEF ProcessRecord
  <2>3. QED
    BY <2>1, <2>2 DEF InHand, IInv
<1>5. QED
  BY <1>1, <1>3, <1>4 DEF IInv

LEMMA FlushStaleInv == ASSUME IInv, FlushStale PROVE IInv'
<1> DEFINE S == {s \in Sources : Stale(buffers[s])}
           T == {buffers[s].lines : s \in S}
           B == Texts
<1>1. /\ FlushLoop \in Processes /\ Len(seen) \in Nat
      /\ buffers \in [Sources -> Entry]
      /\ out \in [Processes -> SUBSET SUBSET Nat]
      /\ Accounted(B, out, delivered, lost, Len(seen))
      /\ \A s \in Sources : B[s] = buffers[s].lines
  BY DEF IInv, TypeInv, TypeOK, AccountInv, Accounted, Texts, Processes
<1>2. /\ buffers' = [s \in Sources |-> IF s \in S THEN NoEntry ELSE buffers[s]]
      /\ out' = [out EXCEPT ![FlushLoop] = T]
      /\ pc' = [pc EXCEPT ![FlushLoop] = IF S = {} THEN "waiting" ELSE "sending"]
      /\ pc[FlushLoop] = "flushing"
      /\ UNCHANGED <<now, tick, input, seen, delivered, lost>>
  BY DEF FlushStale
<1>3. /\ S \in SUBSET Sources
      /\ \A e \in T : e # {} /\ \E s \in S : e = B[s]
      /\ \A s \in S : B[s] = {} \/ B[s] \in T
      /\ S = {} => T = {}
  BY <1>1 DEF Stale
<1> HIDE DEF S, T
<1>4. /\ buffers' \in [Sources -> Entry]
      /\ Texts' \in [Sources -> SUBSET Nat]
      /\ \A s \in Sources : Texts'[s] = IF s \in S THEN {} ELSE B[s]
  <2>1. \A s \in Sources : buffers'[s].lines = IF s \in S THEN {} ELSE B[s]
    BY <1>1, <1>2 DEF NoEntry
  <2>2. buffers' \in [Sources -> Entry]
    BY <1>1, <1>2, NoEntryType
  <2>3. B \in [Sources -> SUBSET Nat]
    BY <1>1 DEF Accounted
  <2>4. QED
    BY <2>1, <2>2, <2>3 DEF Texts
<1>5. out' = [out EXCEPT ![FlushLoop] = @ \cup T]
  BY <1>1, <1>2 DEF IInv, InHand
<1> HIDE DEF B
<1>6. AccountInv'
  <2>1. Accounted(Texts', out', delivered, lost, Len(seen))
    BY <1>1, <1>3, <1>4, <1>5, AccountTake
  <2>2. QED
    BY <2>1, <1>2 DEF AccountInv
<1>7. /\ pc' \in [Processes -> ProgramPoints]
      /\ OneHolder' /\ IdsReserved' /\ InHand'
  <2>1. pc \in [Processes -> ProgramPoints]
    BY DEF IInv, TypeInv, TypeOK, ProgramPoints
  <2>2. pc' \in [Processes -> ProgramPoints]
    BY <1>2, <2>1 DEF ProgramPoints
  <2>3. OneHolder'
    BY <1>2, <2>1 DEF OneHolder, Holds, IInv, TypeInv
  <2>4. IdsReserved'
    BY <1>2, <2>1, ProcessAssumption DEF IdsReserved, IInv, TypeInv, Processes
  <2>5. InHand'
    BY <1>1, <1>2, <1>3, <2>1 DEF InHand, IInv
  <2>6. QED
    BY <2>2, <2>3, <2>4, <2>5
<1>8. TypeInv'
  BY <1>2, <1>4, <1>6, <1>7, TypeFromAccount DEF IInv, TypeInv, TypeOK
<1>9. QED
  BY <1>6, <1>7, <1>8 DEF IInv

LEMMA FlushAllInv == ASSUME IInv, FlushAll PROVE IInv'
<1> DEFINE S == BufferedIn(buffers)
           T == {buffers[s].lines : s \in S}
           B == Texts
<1>1. /\ Stopper \in Processes /\ Len(seen) \in Nat
      /\ buffers \in [Sources -> Entry]
      /\ out \in [Processes -> SUBSET SUBSET Nat]
      /\ Accounted(B, out, delivered, lost, Len(seen))
      /\ \A s \in Sources : B[s] = buffers[s].lines
  BY DEF IInv, TypeInv, TypeOK, AccountInv, Accounted, Texts, Processes
<1>2. /\ buffers' = [s \in Sources |-> NoEntry]
      /\ out' = [out EXCEPT ![Stopper] = T]
      /\ pc' = [pc EXCEPT ![Stopper] = IF S = {} THEN "down" ELSE "sendingLocked"]
      /\ pc[Stopper] = "closing"
      /\ LockFree
      /\ UNCHANGED <<now, tick, input, seen, delivered, lost>>
  BY DEF FlushAll
<1>3. /\ S \in SUBSET Sources
      /\ \A e \in T : e # {} /\ \E s \in S : e = B[s]
      /\ \A s \in S : B[s] = {} \/ B[s] \in T
      /\ S = {} => T = {}
  BY <1>1 DEF BufferedIn
<1>3a. \A s \in Sources : s \notin S => B[s] = {}
  BY <1>1 DEF BufferedIn
<1> HIDE DEF S, T
<1>4. /\ buffers' \in [Sources -> Entry]
      /\ Texts' \in [Sources -> SUBSET Nat]
      /\ \A s \in Sources : Texts'[s] = IF s \in S THEN {} ELSE B[s]
  <2>1. \A s \in Sources : buffers'[s].lines = {}
    BY <1>2 DEF NoEntry
  <2>2. buffers' \in [Sources -> Entry]
    BY <1>2, NoEntryType
  <2>3. QED
    BY <1>3a, <2>1, <2>2 DEF Texts
<1>5. out' = [out EXCEPT ![Stopper] = @ \cup T]
  BY <1>1, <1>2 DEF IInv, InHand
<1> HIDE DEF B
<1>6. AccountInv'
  <2>1. Accounted(Texts', out', delivered, lost, Len(seen))
    BY <1>1, <1>3, <1>4, <1>5, AccountTake
  <2>2. QED
    BY <2>1, <1>2 DEF AccountInv
<1>7. /\ pc' \in [Processes -> ProgramPoints]
      /\ OneHolder' /\ IdsReserved' /\ InHand'
  <2>1. pc \in [Processes -> ProgramPoints]
    BY DEF IInv, TypeInv, TypeOK, ProgramPoints
  <2>2. pc' \in [Processes -> ProgramPoints]
    BY <1>2, <2>1 DEF ProgramPoints
  <2>3. OneHolder'
    BY <1>2, <2>1 DEF OneHolder, Holds, LockFree
  <2>4. IdsReserved'
    BY <1>2, <2>1, ProcessAssumption DEF IdsReserved, IInv, TypeInv, Processes
  <2>5. InHand'
    BY <1>1, <1>2, <1>3, <2>1 DEF InHand, IInv
  <2>6. QED
    BY <2>2, <2>3, <2>4, <2>5
<1>8. TypeInv'
  BY <1>2, <1>4, <1>6, <1>7, TypeFromAccount DEF IInv, TypeInv, TypeOK
<1>9. QED
  BY <1>6, <1>7, <1>8 DEF IInv

LEMMA SentInv ==
    ASSUME IInv, NEW p \in Processes, Accepted(p) \/ Refused(p)
    PROVE  IInv'
<1>1. /\ out' = [out EXCEPT ![p] = {}]
      /\ pc' = [pc EXCEPT ![p] = AfterSend(p)]
      /\ UNCHANGED <<now, tick, input, buffers, seen>>
      /\ \/ delivered' = delivered \cup out[p] /\ lost' = lost
         \/ delivered' = delivered /\ lost' = lost \cup out[p]
  BY DEF Accepted, Refused
<1>2. AccountInv'
  <2>1. Texts' = Texts
    BY <1>1 DEF Texts
  <2>2. Len(seen) \in Nat
    BY DEF IInv, TypeInv, TypeOK
  <2>3. /\ Accounted(Texts, out', delivered \cup out[p], lost, Len(seen))
        /\ Accounted(Texts, out', delivered, lost \cup out[p], Len(seen))
    BY <1>1, <2>2, AccountSent DEF IInv, AccountInv
  <2>4. QED
    BY <1>1, <2>1, <2>3 DEF AccountInv
<1>3. pc \in [Processes -> ProgramPoints] /\ out \in [Processes -> SUBSET SUBSET Nat]
  BY DEF IInv, TypeInv, TypeOK, ProgramPoints, AccountInv, Accounted
<1>4. pc' \in [Processes -> ProgramPoints]
  BY <1>1, <1>3 DEF ProgramPoints, AfterSend
<1>5. OneHolder' /\ IdsReserved'
  BY <1>1, <1>3 DEF AfterSend, OneHolder, IdsReserved, Holds, IInv, TypeInv, Processes
<1>6. InHand'
  BY <1>1, <1>3 DEF InHand, IInv
<1>7. TypeInv'
  BY <1>1, <1>2, <1>4, <1>5, TypeFromAccount DEF IInv, TypeInv, TypeOK
<1>8. QED
  BY <1>2, <1>6, <1>7 DEF IInv

LEMMA ControlInv ==
    ASSUME IInv,
           \/ \E c \in Callers : Enter(c) \/ Unlock(c) \/ Return(c)
           \/ TakeTick \/ Exit \/ BeginShutdown \/ TimePasses
    PROVE  IInv'
<1>1. TypeInv'
  BY EnterType, ControlType DEF IInv
<1>2. UNCHANGED <<out, buffers, seen, delivered, lost>>
  BY DEF Enter, Unlock, Return, TakeTick, Exit, BeginShutdown, TimePasses
<1>3. AccountInv'
  BY <1>2 DEF AccountInv, Texts, IInv
<1>4. InHand'
  <2>1. pc \in [Processes -> ProgramPoints]
    BY DEF IInv, TypeInv, TypeOK, ProgramPoints
  <2>2. \A p \in Processes :
          pc[p] \in {"locked", "sending", "sendingLocked"} /\ out[p] # {}
            => pc'[p] \in {"locked", "sending", "sendingLocked"}
    BY <2>1 DEF Enter, Unlock, Return, TakeTick, Exit, BeginShutdown, TimePasses, Processes
  <2>3. QED
    BY <1>2, <2>2 DEF InHand, IInv
<1>5. QED
  BY <1>1, <1>3, <1>4 DEF IInv

LEMMA StutterInv == ASSUME IInv, UNCHANGED vars PROVE IInv'
  BY DEF IInv, TypeInv, TypeOK, OneHolder, Holds, IdsReserved, LinesArrived,
         AccountInv, Texts, InHand, vars

\* The processor keeps its accounts: every line that arrived is in one entry,
\* every entry in one place, under every interleaving of callers, flush loop
\* and Shutdown, for any number of sources, callers and records.
THEOREM Accounting == Spec => []IInv
<1>1. IInv /\ [Next]_vars => IInv'
  <2> SUFFICES ASSUME IInv, [Next]_vars PROVE IInv'
    OBVIOUS
  <2>1. CASE \E c \in Callers : ProcessRecord(c)
    BY <2>1, ProcessRecordInv
  <2>2. CASE FlushStale
    BY <2>2, FlushStaleInv
  <2>3. CASE FlushAll
    BY <2>3, FlushAllInv
  <2>4. CASE \E p \in Processes : Accepted(p) \/ Refused(p)
    BY <2>4, SentInv
  <2>5. CASE \/ \E c \in Callers : Enter(c) \/ Unlock(c) \/ Return(c)
             \/ TakeTick \/ Exit \/ BeginShutdown \/ TimePasses
    BY <2>5, ControlInv
  <2>6. CASE UNCHANGED vars
    BY <2>6, StutterInv
  <2>7. QED
    BY <2>1, <2>2, <2>3, <2>4, <2>5, <2>6 DEF Next
<1>2. QED
  BY IInvInit, <1>1, PTL DEF Spec

\* The state is always one the code can represent.
THEOREM TypeCorrect == Spec => []TypeOK
<1>1. IInv => TypeOK
  BY DEF IInv, TypeInv
<1>2. QED
  BY Accounting, <1>1, PTL

LEMMA EntriesCases ==
    \A e : e \in Entries <=>
              \/ e # {} /\ \E s \in Sources : e = buffers[s].lines
              \/ \E p \in Processes : e \in out[p]
              \/ e \in delivered
              \/ e \in lost
<1>1. \A e : e \in BufferedEntries <=> e # {} /\ \E s \in Sources : e = buffers[s].lines
  BY DEF BufferedEntries, BufferedIn
<1> DEFINE U == UNION {out[p] : p \in Processes}
<1>2. \A e : e \in U <=> \E p \in Processes : e \in out[p]
  OBVIOUS
<1>3. Entries = BufferedEntries \cup U \cup delivered \cup lost
  BY Zenon DEF Entries
<1> HIDE DEF U
<1>4. QED
  BY <1>1, <1>2, <1>3

\* No line that reached the processor disappears from it.
THEOREM LinesNeverVanish == Spec => []NothingVanishes
<1>1. IInv => NothingVanishes
  <2> SUFFICES ASSUME IInv PROVE UNION Entries = 1 .. Len(seen)
    BY DEF NothingVanishes
  <2>1. /\ Covered(Texts, out, delivered, lost, Len(seen))
        /\ InRange(Texts, out, delivered, lost, Len(seen))
        /\ \A s \in Sources : Texts[s] = buffers[s].lines
    BY DEF IInv, AccountInv, Accounted, Texts
  <2>2. \A e \in Entries : e \subseteq 1 .. Len(seen)
    BY <2>1, EntriesCases DEF InRange
  <2>3. \A r \in 1 .. Len(seen) : \E e \in Entries : r \in e
    BY <2>1, EntriesCases DEF Covered
  <2>4. QED
    BY <2>2, <2>3
<1>2. QED
  BY Accounting, <1>1, PTL

\* No line is in two entries, and no entry in two places: nothing is sent twice.
THEOREM LinesNeverTwice == Spec => []NothingTwice
<1>1. IInv => NothingTwice
  <2> SUFFICES ASSUME IInv PROVE NothingTwice
    OBVIOUS
  <2>1. /\ InRange(Texts, out, delivered, lost, Len(seen))
        /\ BuffersApart(Texts, out, delivered, lost)
        /\ SentApart(out, delivered, lost)
        /\ \A s \in Sources : Texts[s] = buffers[s].lines
    BY DEF IInv, AccountInv, Accounted, Texts
  <2>2. \A e \in Entries : e # {}
    BY <2>1, EntriesCases DEF InRange
  <2>3. \A e, f \in Entries : e = f \/ Disjoint(e, f)
    BY <2>1, EntriesCases DEF BuffersApart, SentApart, Disjoint
  <2>4. \A s, t \in BufferedIn(buffers) : buffers[s].lines = buffers[t].lines => s = t
    BY <2>1 DEF BufferedIn, BuffersApart, Disjoint
  <2>5. \A e \in BufferedEntries : e \notin delivered \cup lost
    BY <2>1 DEF BufferedEntries, BufferedIn, BuffersApart, Disjoint
  <2>6. \A e \in delivered : e \notin lost
    BY <2>1 DEF SentApart, InRange, Disjoint
  <2>7. \A p \in Processes : \A e \in out[p] :
           e \notin BufferedEntries \cup delivered \cup lost
    BY <2>1 DEF BufferedEntries, BufferedIn, BuffersApart, SentApart, InRange, Disjoint
  <2>8. \A p, q \in Processes : p # q => out[p] \cap out[q] = {}
    BY <2>1 DEF SentApart, InRange, Disjoint
  <2>9. \A e, f \in Entries : e = f \/ e \cap f = {}
    BY <2>3 DEF Disjoint
  <2>10. QED
    BY <2>4, <2>5, <2>6, <2>7, <2>8, <2>9 DEF NothingTwice
<1>2. QED
  BY Accounting, <1>1, PTL

=============================================================================
