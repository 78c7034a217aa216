------------------------- MODULE LogRecombineShapes -------------------------
(* What the entries of LogRecombine look like, and that the processor          *)
(* implements LineGroups: theorems for every value of the constants, on top    *)
(* of the accounts kept by LogRecombineProofs.                                 *)
EXTENDS LogRecombineProofs, FiniteSetTheorems

------------------------------------------------------------------------------
(* What a step does to the entries. *)

\* A step without a new line only closes entries, sends them or stands still.
Kept ==
    /\ seen' = seen
    /\ \A e \in Entries' : e \in Entries
    /\ \A s \in Sources : buffers'[s] = buffers[s] \/ buffers'[s] = NoEntry

\* A step with a new line m numbers it and leaves the buffers of other sources
\* alone, or closes them.
Arrival(m, id) ==
    /\ m \in Messages
    /\ m.src \in Sources /\ m.kind \in Kinds /\ m.size \in Nat \ {0}
    /\ Len(seen) \in Nat
    /\ id = Len(seen) + 1 /\ Len(seen') = id
    /\ \A i \in 1 .. Len(seen) : seen'[i] = seen[i]
    /\ seen'[id].src = m.src /\ seen'[id].kind = m.kind /\ seen'[id].at = now
    /\ \A s \in Sources : s # m.src => buffers'[s] = buffers[s] \/ buffers'[s] = NoEntry

\* The line is an entry of its own, passed on or opened.
Alone(m, id) ==
    /\ \A e \in Entries' : e \in Entries \/ e = {id}
    /\ \/ buffers'[m.src] = buffers[m.src] /\ m.kind = "passthrough"
       \/ buffers'[m.src] = NoEntry
       \/ buffers'[m.src] = NewEntry(m, id) /\ m.kind # "passthrough"

\* The line joins the entry of its source.
Joined(m, id) ==
    LET b == buffers[m.src].lines
    IN  /\ b # {} /\ m.kind = "continuation"
        /\ now - buffers[m.src].lastSeen <= GapTimeout
        /\ \A e \in Entries' : (e \in Entries /\ e # b) \/ e = b \cup {id}
        /\ \/ buffers'[m.src] = NoEntry
           \/ /\ buffers'[m.src] = ExtendedEntry(m, id)
              /\ ~(ExtendedEntry(m, id).size >= MaxBatchSize)

\* Entries lie within the lines that arrived, and no two of them meet.
LEMMA EntriesApart ==
    ASSUME IInv
    PROVE  /\ Len(seen) \in Nat
           /\ \A e \in Entries : e # {} /\ e \subseteq 1 .. Len(seen)
           /\ \A e, f \in Entries : e = f \/ Disjoint(e, f)
           /\ \A s \in Sources : buffers[s].lines # {} => buffers[s].lines \in Entries
           /\ \A s \in Sources : buffers[s].lines \subseteq 1 .. Len(seen)
<1>1. /\ InRange(Texts, out, delivered, lost, Len(seen))
      /\ BuffersApart(Texts, out, delivered, lost)
      /\ SentApart(out, delivered, lost)
      /\ \A s \in Sources : Texts[s] = buffers[s].lines
      /\ Len(seen) \in Nat
  BY DEF IInv, AccountInv, Accounted, Texts, TypeInv, TypeOK
<1>2. \A e \in Entries : e # {} /\ e \subseteq 1 .. Len(seen)
  BY <1>1, EntriesCases DEF InRange
<1>3. \A e, f \in Entries : e = f \/ Disjoint(e, f)
  BY <1>1, EntriesCases DEF BuffersApart, SentApart, Disjoint
<1>4. QED
  BY <1>1, <1>2, <1>3, EntriesCases DEF InRange

LEMMA EntriesCasesNext ==
    \A e : e \in Entries' <=>
              \/ e # {} /\ \E s \in Sources : e = buffers'[s].lines
              \/ \E p \in Processes : e \in out'[p]
              \/ e \in delivered'
              \/ e \in lost'
<1>1. \A e : e \in BufferedEntries' <=> e # {} /\ \E s \in Sources : e = buffers'[s].lines
  BY DEF BufferedEntries, BufferedIn
<1> DEFINE U == UNION {out'[p] : p \in Processes}
<1>2. \A e : e \in U <=> \E p \in Processes : e \in out'[p]
  OBVIOUS
<1>3. Entries' = BufferedEntries' \cup U \cup delivered' \cup lost'
  BY Zenon DEF Entries
<1> HIDE DEF U
<1>4. QED
  BY <1>1, <1>2, <1>3

LEMMA ArrivalFacts ==
    ASSUME IInv, NEW c \in Callers, ProcessRecord(c)
    PROVE  LET m == Head(input[c]) IN
           /\ c \in Processes
           /\ m \in Messages
           /\ m.src \in Sources /\ m.kind \in Kinds /\ m.size \in Nat \ {0}
           /\ Len(seen) \in Nat /\ Len(seen') = Len(seen) + 1
           /\ \A i \in 1 .. Len(seen) : seen'[i] = seen[i]
           /\ seen'[Len(seen) + 1].src = m.src
           /\ seen'[Len(seen) + 1].kind = m.kind
           /\ seen'[Len(seen) + 1].at = now
           /\ delivered' = delivered /\ lost' = lost
           /\ buffers \in [Sources -> Entry]
           /\ out \in [Processes -> SUBSET SUBSET Nat]
<1>1. Head(input[c]) \in [src : Sources, kind : Kinds, size : Nat \ {0}]
  BY ProcessRecordSeen, MessageAssumption DEF IInv
<1>2. QED
  BY <1>1, RecordFacts, ProcessRecordSeen DEF IInv

LEMMA PassThroughStep ==
    ASSUME IInv, NEW c \in Callers, ProcessRecord(c),
           PassThrough(c, Head(input[c]), Len(seen) + 1)
    PROVE  /\ Arrival(Head(input[c]), Len(seen) + 1)
           /\ Alone(Head(input[c]), Len(seen) + 1)
<1> DEFINE m == Head(input[c])
           id == Len(seen) + 1
<1>1. /\ m.kind = "passthrough"
      /\ buffers' = buffers
      /\ out' = [out EXCEPT ![c] = @ \cup {{id}}]
      /\ delivered' = delivered /\ lost' = lost
  BY DEF PassThrough, ProcessRecord
<1>2. \A p \in Processes : \A e \in out'[p] : e \in out[p] \/ e = {id}
  BY <1>1, ArrivalFacts
<1>3. \A e \in Entries' : e \in Entries \/ e = {id}
  BY <1>1, <1>2, EntriesCases, EntriesCasesNext
<1>4. Arrival(m, id)
  BY <1>1, ArrivalFacts DEF Arrival
<1>5. QED
  BY <1>1, <1>3, <1>4 DEF Alone

LEMMA OpenStep ==
    ASSUME IInv, NEW c \in Callers, ProcessRecord(c),
           Open(c, Head(input[c]), Len(seen) + 1)
    PROVE  /\ Arrival(Head(input[c]), Len(seen) + 1)
           /\ Alone(Head(input[c]), Len(seen) + 1)
<1> DEFINE m == Head(input[c])
           id == Len(seen) + 1
           opened == [buffers EXCEPT ![m.src] = NewEntry(m, id)]
<1>1. /\ m.kind # "passthrough"
      /\ m.src \in Sources /\ c \in Processes
      /\ buffers \in [Sources -> Entry]
      /\ out \in [Processes -> SUBSET SUBSET Nat]
      /\ delivered' = delivered /\ lost' = lost
      /\ NewEntry(m, id).lines = {id}
  BY ArrivalFacts DEF Open, NewEntry
<1>2. /\ opened[m.src] = NewEntry(m, id)
      /\ \A s \in Sources : s # m.src => opened[s] = buffers[s]
  BY <1>1
<1>3. /\ \A s \in Sources : buffers'[s] = opened[s] \/ buffers'[s] = NoEntry
      /\ \A p \in Processes : \A e \in out'[p] :
            \/ e \in out[p]
            \/ e # {} /\ (e = buffers[m.src].lines \/ \E s \in Sources : e = opened[s].lines)
  <2>1. CASE Cardinality(BufferedIn(opened)) > MaxSources
    <3>1. PICK v \in Oldest(opened) :
            /\ buffers' = [opened EXCEPT ![v] = NoEntry]
            /\ out' = [out EXCEPT ![c] = @ \cup ({buffers[m.src].lines} \ {{}})
                                           \cup {opened[v].lines}]
      BY <2>1 DEF Open
    <3>2. v \in Sources /\ opened[v].lines # {}
      BY DEF Oldest, BufferedIn
    <3> HIDE DEF m, id
    <3>3. QED
      BY <1>1, <3>1, <3>2
  <2>2. CASE ~(Cardinality(BufferedIn(opened)) > MaxSources)
    <3>1. /\ buffers' = opened
          /\ out' = [out EXCEPT ![c] = @ \cup ({buffers[m.src].lines} \ {{}})]
      BY <2>2 DEF Open
    <3> HIDE DEF m, id
    <3>2. QED
      BY <1>1, <3>1
  <2>3. QED
    BY <2>1, <2>2
<1> HIDE DEF opened
<1>4. NoEntry.lines = {}
  BY DEF NoEntry
<1>5. \A e \in Entries' : e \in Entries \/ e = {id}
  <2> HIDE DEF m, id
  <2>1. \A s \in Sources : opened[s].lines # {} =>
            opened[s].lines = {id} \/ opened[s].lines \in Entries
    BY <1>1, <1>2, EntriesCases
  <2>2. QED
    BY <1>1, <1>3, <1>4, <2>1, EntriesCases, EntriesCasesNext
<1>6. Arrival(m, id)
  BY <1>2, <1>3, ArrivalFacts DEF Arrival
<1>7. QED
  BY <1>1, <1>2, <1>3, <1>5, <1>6 DEF Alone

LEMMA ExtendStep ==
    ASSUME IInv, IInv', NEW c \in Callers, ProcessRecord(c),
           Extend(c, Head(input[c]), Len(seen) + 1)
    PROVE  /\ Arrival(Head(input[c]), Len(seen) + 1)
           /\ Joined(Head(input[c]), Len(seen) + 1)
<1> DEFINE m == Head(input[c])
           id == Len(seen) + 1
           b == buffers[m.src].lines
           e == ExtendedEntry(m, id)
<1>1. /\ m.src \in Sources /\ c \in Processes /\ m.kind \in Kinds
      /\ buffers \in [Sources -> Entry]
      /\ out \in [Processes -> SUBSET SUBSET Nat]
      /\ delivered' = delivered /\ lost' = lost
      /\ now \in Int /\ GapTimeout \in Int
      /\ e.lines = b \cup {id}
  <2>1. now \in Int /\ GapTimeout \in Int
    BY ConfigAssumption DEF IInv, TypeInv, TypeOK
  <2>2. e.lines = b \cup {id}
    BY DEF ExtendedEntry
  <2>3. QED
    BY <2>1, <2>2, ArrivalFacts
<1>2. /\ m.kind # "passthrough" /\ m.kind # "first" /\ b # {}
      /\ ~(now - buffers[m.src].lastSeen > GapTimeout)
  BY DEF Extend, OpensEntry
<1>3. buffers[m.src].lastSeen \in Int
  BY <1>1, ConfigAssumption DEF Entry
<1>4. m.kind = "continuation" /\ now - buffers[m.src].lastSeen <= GapTimeout
  <2>1. m.kind = "continuation"
    BY <1>1, <1>2 DEF Kinds
  <2>2. now - buffers[m.src].lastSeen <= GapTimeout
    BY <1>1, <1>2, <1>3
  <2>3. QED
    BY <2>1, <2>2
<1>5. /\ \A s \in Sources : s # m.src => buffers'[s] = buffers[s]
      /\ \A p \in Processes : \A f \in out'[p] : f \in out[p] \/ f = e.lines
      /\ \/ buffers'[m.src] = NoEntry /\ e.lines \in out'[c]
         \/ buffers'[m.src] = e /\ ~(e.size >= MaxBatchSize)
  <2>1. CASE e.size >= MaxBatchSize
    <3>1. /\ buffers' = [buffers EXCEPT ![m.src] = NoEntry]
          /\ out' = [out EXCEPT ![c] = @ \cup {e.lines}]
      BY <2>1 DEF Extend
    <3> HIDE DEF m, id, e
    <3>2. QED
      BY <1>1, <3>1
  <2>2. CASE ~(e.size >= MaxBatchSize)
    <3>1. buffers' = [buffers EXCEPT ![m.src] = e] /\ out' = out
      BY <2>2 DEF Extend
    <3> HIDE DEF m, id, e
    <3>2. QED
      BY <1>1, <2>2, <3>1
  <2>3. QED
    BY <2>1, <2>2
<1>6. \A f \in Entries' : f \in Entries \/ f = b \cup {id}
  <2> HIDE DEF m, id, e
  <2>1. NoEntry.lines = {}
    BY DEF NoEntry
  <2>2. QED
    BY <1>1, <1>5, <2>1, EntriesCases, EntriesCasesNext
<1>7. b \notin Entries'
  <2>1. b \subseteq 1 .. Len(seen) /\ Len(seen) \in Nat
    BY <1>1, EntriesApart
  <2>2. b \cup {id} \in Entries'
    <3> HIDE DEF m, id, e
    <3>1. b \cup {id} # {}
      OBVIOUS
    <3>2. QED
      BY <1>1, <1>5, <3>1, EntriesCasesNext
  <2>3. \A f, g \in Entries' : f = g \/ Disjoint(f, g)
    <3>1. /\ BuffersApart(Texts', out', delivered', lost')
          /\ SentApart(out', delivered', lost')
          /\ \A s \in Sources : Texts'[s] = buffers'[s].lines
      BY DEF IInv, AccountInv, Accounted, Texts
    <3>2. QED
      BY <3>1, EntriesCasesNext DEF BuffersApart, SentApart, Disjoint
  <2>4. id \notin b
    BY <2>1
  <2>5. QED
    BY <1>2, <2>2, <2>3, <2>4 DEF Disjoint
<1>8. Arrival(m, id)
  BY <1>5, ArrivalFacts DEF Arrival
<1>9. QED
  BY <1>2, <1>4, <1>5, <1>6, <1>7, <1>8 DEF Joined

LEMMA FlushStep ==
    ASSUME IInv, FlushStale \/ FlushAll
    PROVE  Kept
<1>1. /\ seen' = seen /\ delivered' = delivered /\ lost' = lost
      /\ out \in [Processes -> SUBSET SUBSET Nat]
  BY DEF FlushStale, FlushAll, IInv, AccountInv, Accounted
<1>2. /\ \A s \in Sources : buffers'[s] = buffers[s] \/ buffers'[s] = NoEntry
      /\ \A p \in Processes : \A e \in out'[p] :
            e \in out[p] \/ (e # {} /\ \E s \in Sources : e = buffers[s].lines)
  <2>1. CASE FlushStale
    BY <1>1, <2>1 DEF FlushStale, Stale
  <2>2. CASE FlushAll
    BY <1>1, <2>2 DEF FlushAll, BufferedIn
  <2>3. QED
    BY <2>1, <2>2
<1>3. NoEntry.lines = {}
  BY DEF NoEntry
<1>4. \A e \in Entries' : e \in Entries
  BY <1>1, <1>2, <1>3, EntriesCases, EntriesCasesNext
<1>5. QED
  BY <1>1, <1>2, <1>4 DEF Kept

LEMMA SentStep ==
    ASSUME IInv, NEW p \in Processes, Accepted(p) \/ Refused(p)
    PROVE  Kept
<1>1. /\ seen' = seen /\ buffers' = buffers
      /\ out' = [out EXCEPT ![p] = {}]
      /\ delivered' \subseteq delivered \cup out[p]
      /\ lost' \subseteq lost \cup out[p]
      /\ out \in [Processes -> SUBSET SUBSET Nat]
  BY DEF Accepted, Refused, IInv, AccountInv, Accounted
<1>2. \A q \in Processes : \A e \in out'[q] : e \in out[q]
  BY <1>1
<1>3. \A e \in Entries' : e \in Entries
  BY <1>1, <1>2, EntriesCases, EntriesCasesNext
<1>4. QED
  BY <1>1, <1>3 DEF Kept

\* Every step either keeps the entries or adds one line to them.
LEMMA EveryStep ==
    ASSUME IInv, IInv', [Next]_vars
    PROVE  \/ Kept
           \/ \E m \in Messages : \E id \in Nat :
                 Arrival(m, id) /\ (Alone(m, id) \/ Joined(m, id))
<1>1. CASE \E c \in Callers : ProcessRecord(c)
  <2> PICK c \in Callers : ProcessRecord(c)
    BY <1>1
  <2> DEFINE m == Head(input[c])
             id == Len(seen) + 1
  <2>1. m \in Messages /\ id \in Nat
    BY ArrivalFacts
  <2>2. PassThrough(c, m, id) \/ Open(c, m, id) \/ Extend(c, m, id)
    BY DEF ProcessRecord
  <2>3. Arrival(m, id) /\ (Alone(m, id) \/ Joined(m, id))
    BY <2>2, PassThroughStep, OpenStep, ExtendStep
  <2> HIDE DEF m, id
  <2>4. QED
    BY <2>1, <2>3
<1>2. CASE FlushStale \/ FlushAll
  BY <1>2, FlushStep
<1>3. CASE \E p \in Processes : Accepted(p) \/ Refused(p)
  BY <1>3, SentStep
<1>4. CASE \/ \E c \in Callers : Enter(c) \/ Unlock(c) \/ Return(c)
           \/ TakeTick \/ Exit \/ BeginShutdown \/ TimePasses \/ UNCHANGED vars
  <2>1. UNCHANGED <<out, buffers, seen, delivered, lost>>
    BY <1>4 DEF Enter, Unlock, Return, TakeTick, Exit, BeginShutdown, TimePasses, vars
  <2>2. \A e \in Entries' : e \in Entries
    BY <2>1, EntriesCases, EntriesCasesNext
  <2>3. QED
    BY <2>1, <2>2 DEF Kept
<1>5. QED
  BY <1>1, <1>2, <1>3, <1>4 DEF Next

------------------------------------------------------------------------------
(* Entries hold one source, in order, without gaps. *)

\* What is buffered for a source are lines of that source.
BuffersOwned ==
    \A s \in Sources : \A x \in buffers[s].lines :
        seen[x].src = s /\ seen[x].kind # "passthrough"

FormInv == EntriesAreWellFormed /\ BuffersOwned

\* lastSeen is the time of the newest line.
LastSeenIsNewest ==
    \A s \in Sources : \A x \in buffers[s].lines :
        (\A z \in buffers[s].lines : z <= x) => seen[x].at = buffers[s].lastSeen

GapInv == GapsWithinTimeout /\ LastSeenIsNewest

\* What is buffered for a source is the newest of it.
BufferIsNewest ==
    \A s \in Sources : \A e \in Entries : \A x \in e :
        seen[x].src = s /\ seen[x].kind # "passthrough" /\ buffers[s].lines # {} =>
            e = buffers[s].lines \/ Before(e, buffers[s].lines)

OrderInv == EntriesDoNotInterleave /\ BufferIsNewest

LEMMA NoEntryEmpty == NoEntry.lines = {}
  BY DEF NoEntry

LEMMA KeptShapes ==
    ASSUME Kept, FormInv, GapInv, OrderInv
    PROVE  FormInv' /\ GapInv' /\ OrderInv'
<1> USE NoEntryEmpty DEF Kept
<1>1. FormInv'
  BY DEF FormInv, EntriesAreWellFormed, BuffersOwned
<1>2. GapInv'
  BY DEF GapInv, GapsWithinTimeout, LastSeenIsNewest
<1>3. OrderInv'
  BY DEF OrderInv, EntriesDoNotInterleave, BufferIsNewest, Before
<1>4. QED
  BY <1>1, <1>2, <1>3

LEMMA AloneShapes ==
    ASSUME IInv, NEW m, NEW id, Arrival(m, id), Alone(m, id), FormInv, GapInv, OrderInv
    PROVE  FormInv' /\ GapInv' /\ OrderInv'
<1> USE NoEntryEmpty DEF Arrival, Alone
<1>1. /\ \A e \in Entries : e # {} /\ e \subseteq 1 .. Len(seen)
      /\ \A s \in Sources : buffers[s].lines \subseteq 1 .. Len(seen)
      /\ \A s \in Sources : buffers[s].lines # {} => buffers[s].lines \in Entries
  BY EntriesApart
<1>2. /\ \A x \in 1 .. Len(seen) : x # id /\ x < id /\ ~(id < x)
      /\ id \in Nat
  OBVIOUS
<1>3. /\ NewEntry(m, id).lines = {id}
      /\ NewEntry(m, id).lastSeen = now
  BY DEF NewEntry
<1>4. FormInv'
  <2>1. EntriesAreWellFormed'
    BY <1>1, <1>2 DEF FormInv, EntriesAreWellFormed
  <2>2. BuffersOwned'
    BY <1>1, <1>3 DEF FormInv, BuffersOwned
  <2>3. QED
    BY <2>1, <2>2 DEF FormInv
<1>5. GapInv'
  <2>1. GapsWithinTimeout'
    BY <1>1, <1>2 DEF GapInv, GapsWithinTimeout
  <2>2. LastSeenIsNewest'
    BY <1>1, <1>3 DEF GapInv, LastSeenIsNewest
  <2>3. QED
    BY <2>1, <2>2 DEF GapInv
<1>6. OrderInv'
  <2>0. \A e \in Entries : Before(e, {id})
    BY <1>1, <1>2 DEF Before
  <2>1. EntriesDoNotInterleave'
    <3> SUFFICES ASSUME NEW e \in Entries', NEW f \in Entries', NEW x \in e, NEW y \in f,
                        seen'[x].src = seen'[y].src,
                        "passthrough" \notin {seen'[x].kind, seen'[y].kind}
                 PROVE  e = f \/ Before(e, f) \/ Before(f, e)
      BY DEF EntriesDoNotInterleave, Before
    <3>1. CASE e = {id} \/ f = {id}
      BY <2>0, <3>1
    <3>2. CASE e \in Entries /\ f \in Entries
      <4>1. seen'[x] = seen[x] /\ seen'[y] = seen[y]
        BY <1>1, <3>2
      <4>2. QED
        BY <3>2, <4>1 DEF OrderInv, EntriesDoNotInterleave
    <3>3. QED
      BY <3>1, <3>2
  <2>2. BufferIsNewest'
    <3> SUFFICES ASSUME NEW s \in Sources, NEW e \in Entries', NEW x \in e,
                        seen'[x].src = s, seen'[x].kind # "passthrough",
                        buffers'[s].lines # {}
                 PROVE  e = buffers'[s].lines \/ Before(e, buffers'[s].lines)
      BY DEF BufferIsNewest, Before
    <3>1. CASE e = {id}
      <4>1. s = m.src /\ m.kind # "passthrough"
        BY <3>1
      <4>2. buffers'[s] = NewEntry(m, id)
        BY <4>1
      <4>3. QED
        BY <1>3, <3>1, <4>2
    <3>2. CASE e \in Entries
      <4>1. /\ e \subseteq 1 .. Len(seen)
            /\ seen[x].src = s /\ seen[x].kind # "passthrough"
        BY <1>1, <3>2
      <4>2. CASE buffers'[s] = buffers[s]
        BY <3>2, <4>1, <4>2 DEF OrderInv, BufferIsNewest
      <4>3. CASE buffers'[s] = NewEntry(m, id)
        BY <1>2, <1>3, <4>1, <4>3 DEF Before
      <4>4. QED
        BY <4>2, <4>3
    <3>3. QED
      BY <3>1, <3>2
  <2>3. QED
    BY <2>1, <2>2 DEF OrderInv
<1>7. QED
  BY <1>4, <1>5, <1>6

LEMMA JoinedShapes ==
    ASSUME IInv, NEW m, NEW id, Arrival(m, id), Joined(m, id), FormInv, GapInv, OrderInv
    PROVE  FormInv' /\ GapInv' /\ OrderInv'
<1> DEFINE b == buffers[m.src].lines
           j == b \cup {id}
<1> USE NoEntryEmpty DEF Arrival
<1>1. /\ \A e \in Entries : e # {} /\ e \subseteq 1 .. Len(seen)
      /\ \A e, f \in Entries : e = f \/ Disjoint(e, f)
      /\ \A s \in Sources : buffers[s].lines \subseteq 1 .. Len(seen)
      /\ \A s \in Sources : buffers[s].lines # {} => buffers[s].lines \in Entries
  BY EntriesApart
<1>2. /\ \A x \in 1 .. Len(seen) : x \in Int /\ x # id /\ x < id /\ ~(id < x) /\ ~(id <= x)
      /\ id \in Nat /\ id <= id
  OBVIOUS
<1>3. /\ ExtendedEntry(m, id).lines = j
      /\ ExtendedEntry(m, id).lastSeen = now
  BY DEF ExtendedEntry
<1>4. /\ b # {} /\ b \in Entries /\ b \subseteq 1 .. Len(seen)
      /\ m.kind = "continuation"
      /\ now - buffers[m.src].lastSeen <= GapTimeout
      /\ \A e \in Entries' : (e \in Entries /\ e # b) \/ e = j
      /\ \A s \in Sources :
            \/ buffers'[s] = NoEntry
            \/ s # m.src /\ buffers'[s] = buffers[s]
            \/ s = m.src /\ buffers'[s].lines = j /\ buffers'[s].lastSeen = now
  BY <1>1, <1>3 DEF Joined
<1>5. \A x \in b : seen[x].src = m.src /\ seen[x].kind # "passthrough"
  BY DEF FormInv, BuffersOwned
<1>6. FormInv'
  <2>1. EntriesAreWellFormed'
    <3> SUFFICES ASSUME NEW e \in Entries', NEW x \in e, NEW y \in e, x < y
                 PROVE  /\ seen'[x].src = seen'[y].src
                        /\ seen'[x].kind # "passthrough"
                        /\ seen'[y].kind = "continuation"
      BY DEF EntriesAreWellFormed
    <3>1. CASE y # id
      <4>1. x # id /\ \E f \in Entries : x \in f /\ y \in f
        BY <1>1, <1>2, <1>4, <3>1
      <4>2. x \in 1 .. Len(seen) /\ y \in 1 .. Len(seen)
        BY <1>1, <4>1
      <4>3. QED
        BY <4>1, <4>2 DEF FormInv, EntriesAreWellFormed
    <3>2. CASE y = id
      <4>1. x \in b
        BY <1>1, <1>2, <1>4, <3>2
      <4>2. QED
        BY <1>4, <1>5, <3>2, <4>1
    <3>3. QED
      BY <3>1, <3>2
  <2>2. BuffersOwned'
    BY <1>1, <1>4, <1>5 DEF FormInv, BuffersOwned
  <2>3. QED
    BY <2>1, <2>2 DEF FormInv
<1>7. GapInv'
  <2>1. GapsWithinTimeout'
    <3> SUFFICES ASSUME NEW e \in Entries', NEW x \in e, NEW y \in e, x < y,
                        \A z \in e : z <= x \/ y <= z
                 PROVE  seen'[y].at - seen'[x].at <= GapTimeout
      BY DEF GapsWithinTimeout
    <3>1. CASE e \in Entries
      BY <1>1, <3>1 DEF GapInv, GapsWithinTimeout
    <3>2. CASE e = j /\ y = id
      <4>1. x \in b
        BY <1>2, <3>2
      <4>2. \A z \in b : z <= x
        BY <1>2, <1>4, <3>2
      <4>3. seen[x].at = buffers[m.src].lastSeen
        BY <4>1, <4>2 DEF GapInv, LastSeenIsNewest
      <4>4. QED
        BY <1>4, <3>2, <4>1, <4>3
    <3>3. CASE e = j /\ y # id
      <4>1. x \in b /\ y \in b
        BY <1>2, <1>4, <3>3
      <4>2. \A z \in b : z <= x \/ y <= z
        BY <3>3
      <4>3. QED
        BY <1>4, <4>1, <4>2 DEF GapInv, GapsWithinTimeout
    <3>4. QED
      BY <1>4, <3>1, <3>2, <3>3
  <2>2. LastSeenIsNewest'
    <3> SUFFICES ASSUME NEW s \in Sources, NEW x \in buffers'[s].lines,
                        \A z \in buffers'[s].lines : z <= x
                 PROVE  seen'[x].at = buffers'[s].lastSeen
      BY DEF LastSeenIsNewest
    <3>1. CASE s # m.src /\ buffers'[s] = buffers[s]
      BY <1>1, <3>1 DEF GapInv, LastSeenIsNewest
    <3>2. CASE s = m.src /\ buffers'[s].lines = j /\ buffers'[s].lastSeen = now
      <4>1. x = id
        BY <1>2, <1>4, <3>2
      <4>2. QED
        BY <3>2, <4>1
    <3>3. QED
      BY <1>4, <3>1, <3>2
  <2>3. QED
    BY <2>1, <2>2 DEF GapInv
<1>8. \A e \in Entries : \A x \in e :
          seen[x].src = m.src /\ seen[x].kind # "passthrough" /\ e # b => Before(e, j)
  <2> SUFFICES ASSUME NEW e \in Entries, NEW x \in e, seen[x].src = m.src,
                      seen[x].kind # "passthrough", e # b
               PROVE  Before(e, j)
    OBVIOUS
  <2>1. Before(e, b)
    BY <1>4 DEF OrderInv, BufferIsNewest
  <2>2. QED
    BY <1>1, <1>2, <2>1 DEF Before
<1>9. \A x \in j : seen'[x].src = m.src /\ seen'[x].kind # "passthrough"
  BY <1>4, <1>5
<1>10. OrderInv'
  <2>1. EntriesDoNotInterleave'
    <3> SUFFICES ASSUME NEW e \in Entries', NEW f \in Entries', NEW x \in e, NEW y \in f,
                        seen'[x].src = seen'[y].src,
                        "passthrough" \notin {seen'[x].kind, seen'[y].kind}
                 PROVE  e = f \/ Before(e, f) \/ Before(f, e)
      BY DEF EntriesDoNotInterleave, Before
    <3>1. CASE e = j /\ f = j
      BY <3>1
    <3>2. CASE e = j /\ f \in Entries /\ f # b
      BY <1>1, <1>8, <1>9, <3>2
    <3>3. CASE f = j /\ e \in Entries /\ e # b
      BY <1>1, <1>8, <1>9, <3>3
    <3>4. CASE e \in Entries /\ f \in Entries
      <4>1. seen'[x] = seen[x] /\ seen'[y] = seen[y]
        BY <1>1, <3>4
      <4>2. QED
        BY <3>4, <4>1 DEF OrderInv, EntriesDoNotInterleave
    <3>5. QED
      BY <1>4, <3>1, <3>2, <3>3, <3>4
  <2>2. BufferIsNewest'
    <3> SUFFICES ASSUME NEW s \in Sources, NEW e \in Entries', NEW x \in e,
                        seen'[x].src = s, seen'[x].kind # "passthrough",
                        buffers'[s].lines # {}
                 PROVE  e = buffers'[s].lines \/ Before(e, buffers'[s].lines)
      BY DEF BufferIsNewest, Before
    <3>1. CASE s = m.src
      <4>1. buffers'[s].lines = j
        BY <1>4, <3>1
      <4>2. CASE e = j
        BY <4>1, <4>2
      <4>3. CASE e \in Entries /\ e # b
        BY <1>1, <1>8, <3>1, <4>1, <4>3
      <4>4. QED
        BY <1>4, <4>2, <4>3
    <3>2. CASE s # m.src
      <4>1. buffers'[s] = buffers[s] /\ e \in Entries
        BY <1>4, <1>9, <3>2
      <4>2. seen'[x] = seen[x]
        BY <1>1, <4>1
      <4>3. QED
        BY <4>1, <4>2 DEF OrderInv, BufferIsNewest
    <3>3. QED
      BY <3>1, <3>2
  <2>3. QED
    BY <2>1, <2>2 DEF OrderInv
<1>11. QED
  BY <1>6, <1>7, <1>10

LEMMA ShapesInit == Init => FormInv /\ GapInv /\ OrderInv
<1> SUFFICES ASSUME Init PROVE FormInv /\ GapInv /\ OrderInv
    OBVIOUS
<1>1. /\ \A s \in Sources : buffers[s].lines = {}
      /\ \A p \in Processes : out[p] = {}
      /\ delivered = {} /\ lost = {}
  BY DEF Init, NoEntry
<1>2. \A e : e \notin Entries
  BY <1>1, EntriesCases
<1>3. QED
  BY <1>1, <1>2 DEF FormInv, EntriesAreWellFormed, BuffersOwned, GapInv, GapsWithinTimeout,
                    LastSeenIsNewest, OrderInv, EntriesDoNotInterleave, BufferIsNewest

\* The shape of entries under every interleaving of callers, flush loop and Shutdown.
THEOREM Shapes == Spec => [](FormInv /\ GapInv /\ OrderInv)
<1>1. IInv /\ IInv' /\ FormInv /\ GapInv /\ OrderInv /\ [Next]_vars
         => FormInv' /\ GapInv' /\ OrderInv'
  BY EveryStep, KeptShapes, AloneShapes, JoinedShapes
<1>2. QED
  BY ShapesInit, Accounting, <1>1, PTL DEF Spec

\* An entry holds lines of one source, and only its oldest may match the pattern.
THEOREM EntriesOfOneSource == Spec => []EntriesAreWellFormed
<1>1. FormInv => EntriesAreWellFormed
  BY DEF FormInv
<1>2. QED
  BY Shapes, <1>1, PTL

\* Entries of one source are consecutive runs of its lines.
THEOREM EntriesInOrder == Spec => []EntriesDoNotInterleave
<1>1. OrderInv => EntriesDoNotInterleave
  BY DEF OrderInv
<1>2. QED
  BY Shapes, <1>1, PTL

\* No two consecutive lines of an entry are further apart than GapTimeout.
THEOREM GapsKept == Spec => []GapsWithinTimeout
<1>1. GapInv => GapsWithinTimeout
  BY DEF GapInv
<1>2. QED
  BY Shapes, <1>1, PTL

------------------------------------------------------------------------------
(* Memory. *)

\* A buffered entry has no more lines than its size says, and is below the limit
\* unless it has just been opened.
BufferBelowLimit ==
    \A s \in Sources : buffers[s].lines # {} =>
        /\ Cardinality(buffers[s].lines) <= buffers[s].size
        /\ Cardinality(buffers[s].lines) = 1 \/ buffers[s].size < MaxBatchSize

Limit == IF MaxBatchSize = 1 THEN 2 ELSE MaxBatchSize

EntriesLimited == \A e \in Entries : Cardinality(e) <= Limit

SourcesLimited == Cardinality(BufferedIn(buffers)) <= MaxSources

LEMMA LimitedStep ==
    ASSUME IInv, IInv', [Next]_vars, BufferBelowLimit, EntriesLimited
    PROVE  BufferBelowLimit' /\ EntriesLimited'
<1> USE NoEntryEmpty
<1>1. CASE Kept
  BY <1>1 DEF Kept, BufferBelowLimit, EntriesLimited, Limit
<1>2. ASSUME NEW m, NEW id, Arrival(m, id), Alone(m, id)
      PROVE  BufferBelowLimit' /\ EntriesLimited'
  <2>1. Cardinality({id}) = 1
    BY FS_Singleton
  <2>2. /\ NewEntry(m, id).lines = {id}
        /\ NewEntry(m, id).size = m.size /\ m.size >= 1
    BY <1>2 DEF NewEntry, Arrival
  <2>3. Limit \in Nat /\ 1 <= Limit
    BY ConfigAssumption DEF Limit
  <2>4. EntriesLimited'
    BY <1>2, <2>1, <2>3 DEF Alone, EntriesLimited, Limit
  <2>5. BufferBelowLimit'
    BY <1>2, <2>1, <2>2 DEF Arrival, Alone, BufferBelowLimit
  <2>6. QED
    BY <2>4, <2>5
<1>3. ASSUME NEW m, NEW id, Arrival(m, id), Joined(m, id)
      PROVE  BufferBelowLimit' /\ EntriesLimited'
  <2> DEFINE b == buffers[m.src].lines
             size == buffers[m.src].size
             e == ExtendedEntry(m, id)
  <2>1. /\ m.src \in Sources /\ b # {} /\ m.size \in Nat \ {0}
        /\ Len(seen) \in Nat /\ id = Len(seen) + 1
    BY <1>3 DEF Arrival, Joined
  <2>2. b \subseteq 1 .. Len(seen)
    BY <2>1, EntriesApart
  <2>3. IsFiniteSet(b) /\ Cardinality(b) \in Nat
    <3>1. IsFiniteSet(1 .. Len(seen))
      BY <2>1, FS_Interval
    <3>2. QED
      BY <2>2, <3>1, FS_Subset, FS_CardinalityType
  <2>4. Cardinality(b \cup {id}) = Cardinality(b) + 1
    <3>1. id \notin b
      BY <2>1, <2>2
    <3>2. QED
      BY <2>3, <3>1, FS_AddElement
  <2>5. /\ e.lines = b \cup {id}
        /\ e.size = size + m.size
    BY DEF ExtendedEntry
  <2>6. size \in Nat /\ MaxBatchSize \in Nat \ {0}
    BY <2>1, ConfigAssumption DEF IInv, TypeInv, TypeOK, Entry
  <2>7. /\ Cardinality(b) <= size
        /\ Cardinality(b) = 1 \/ size < MaxBatchSize
    BY <2>1 DEF BufferBelowLimit
  <2> HIDE DEF b, size, e
  <2>8. Cardinality(b \cup {id}) <= Limit
    BY <2>3, <2>4, <2>6, <2>7 DEF Limit
  <2>9. Cardinality(e.lines) <= e.size
    BY <2>1, <2>3, <2>4, <2>5, <2>6, <2>7
  <2>10. EntriesLimited'
    BY <1>3, <2>8 DEF Joined, EntriesLimited, b, Limit
  <2>11. ~(e.size >= MaxBatchSize) => e.size < MaxBatchSize
    BY <2>1, <2>5, <2>6
  <2>12. BufferBelowLimit'
    BY <1>3, <2>1, <2>9, <2>11 DEF Arrival, Joined, BufferBelowLimit, e
  <2>13. QED
    BY <2>10, <2>12
<1>4. QED
  BY <1>1, <1>2, <1>3, EveryStep

LEMMA BufferedFinite ==
    ASSUME NEW b
    PROVE  IsFiniteSet(BufferedIn(b)) /\ Cardinality(BufferedIn(b)) \in Nat
<1>1. BufferedIn(b) \in SUBSET Sources
  BY DEF BufferedIn
<1>2. QED
  BY <1>1, SourcesAssumption, FS_Subset, FS_CardinalityType

\* Opening an entry evicts another as soon as it makes one source too many.
LEMMA OpenLimited ==
    ASSUME IInv, SourcesLimited, NEW c \in Callers, ProcessRecord(c),
           Open(c, Head(input[c]), Len(seen) + 1)
    PROVE  SourcesLimited'
<1> DEFINE m == Head(input[c])
           id == Len(seen) + 1
           opened == [buffers EXCEPT ![m.src] = NewEntry(m, id)]
<1>1. m.src \in Sources /\ buffers \in [Sources -> Entry]
  BY ArrivalFacts
<1>2. /\ BufferedIn(opened) = BufferedIn(buffers) \cup {m.src}
      /\ opened \in [Sources -> {NewEntry(m, id)} \cup Entry]
  <2>1. NewEntry(m, id).lines # {}
    BY DEF NewEntry
  <2>2. QED
    BY <1>1, <2>1 DEF BufferedIn
<1>3. MaxSources \in Nat
  BY ConfigAssumption
<1>4. Cardinality(BufferedIn(opened)) <= MaxSources + 1
  <2> DEFINE S == BufferedIn(buffers)
  <2>1. IsFiniteSet(S) /\ Cardinality(S) \in Nat /\ Cardinality(S) <= MaxSources
    BY BufferedFinite DEF SourcesLimited
  <2>2. Cardinality(S \cup {m.src}) <= Cardinality(S) + 1
    <3> HIDE DEF S
    <3>1. Cardinality(S \cup {m.src}) = IF m.src \in S THEN Cardinality(S) ELSE Cardinality(S) + 1
      BY <2>1, FS_AddElement
    <3>2. QED
      BY <2>1, <3>1
  <2>3. Cardinality(BufferedIn(opened)) <= Cardinality(S) + 1
    BY <1>2, <2>2
  <2> HIDE DEF S, opened
  <2>4. QED
    BY <1>3, <2>1, <2>3, BufferedFinite
<1>5. CASE Cardinality(BufferedIn(opened)) > MaxSources
  <2>1. PICK v \in Oldest(opened) : buffers' = [opened EXCEPT ![v] = NoEntry]
    BY <1>5 DEF Open
  <2> HIDE DEF opened
  <2>2. v \in BufferedIn(opened) /\ v \in Sources
    BY DEF Oldest, BufferedIn
  <2>3. BufferedIn(buffers') = BufferedIn(opened) \ {v}
    BY <1>2, <2>1, <2>2, NoEntryEmpty DEF BufferedIn
  <2>4. Cardinality(BufferedIn(buffers')) = Cardinality(BufferedIn(opened)) - 1
    BY <2>2, <2>3, BufferedFinite, FS_RemoveElement
  <2>5. QED
    BY <1>3, <1>4, <2>4, BufferedFinite DEF SourcesLimited
<1>6. CASE ~(Cardinality(BufferedIn(opened)) > MaxSources)
  <2>1. buffers' = opened
    BY <1>6 DEF Open
  <2>2. QED
    BY <1>3, <1>6, <2>1, BufferedFinite DEF SourcesLimited
<1>7. QED
  BY <1>5, <1>6

LEMMA SourcesLimitedStep ==
    ASSUME IInv, IInv', [Next]_vars, SourcesLimited
    PROVE  SourcesLimited'
<1>1. ASSUME BufferedIn(buffers') \subseteq BufferedIn(buffers)
      PROVE  SourcesLimited'
  <2>1. /\ Cardinality(BufferedIn(buffers')) <= Cardinality(BufferedIn(buffers))
        /\ Cardinality(BufferedIn(buffers')) \in Nat
        /\ Cardinality(BufferedIn(buffers)) \in Nat
    BY <1>1, BufferedFinite, FS_Subset
  <2>2. QED
    BY <2>1, ConfigAssumption DEF SourcesLimited
<1>2. CASE Kept
  BY <1>1, <1>2, NoEntryEmpty DEF Kept, BufferedIn
<1>3. CASE ~Kept
  <2>1. PICK c \in Callers : ProcessRecord(c)
    <3>1. CASE FlushStale \/ FlushAll
      BY <1>3, <3>1, FlushStep
    <3>2. CASE \E p \in Processes : Accepted(p) \/ Refused(p)
      BY <1>3, <3>2, SentStep
    <3>3. CASE \/ \E c \in Callers : Enter(c) \/ Unlock(c) \/ Return(c)
               \/ TakeTick \/ Exit \/ BeginShutdown \/ TimePasses \/ UNCHANGED vars
      <4>1. UNCHANGED <<out, buffers, seen, delivered, lost>>
        BY <3>3 DEF Enter, Unlock, Return, TakeTick, Exit, BeginShutdown, TimePasses, vars
      <4>2. QED
        BY <1>3, <4>1, EntriesCases, EntriesCasesNext DEF Kept
    <3>4. QED
      BY <3>1, <3>2, <3>3 DEF Next
  <2> DEFINE m == Head(input[c])
             id == Len(seen) + 1
  <2>2. CASE PassThrough(c, m, id)
    BY <1>1, <2>2 DEF PassThrough
  <2>3. CASE Open(c, m, id)
    BY <2>1, <2>3, OpenLimited
  <2>4. CASE Extend(c, m, id)
    <3>1. Arrival(m, id) /\ Joined(m, id)
      BY <2>1, <2>4, ExtendStep
    <3>2. BufferedIn(buffers') \subseteq BufferedIn(buffers)
      BY <3>1, NoEntryEmpty DEF Arrival, Joined, BufferedIn
    <3>3. QED
      BY <1>1, <3>2
  <2>5. QED
    BY <2>1, <2>2, <2>3, <2>4 DEF ProcessRecord
<1>4. QED
  BY <1>2, <1>3

LEMMA MemoryInit == Init => BufferBelowLimit /\ EntriesLimited /\ SourcesLimited
<1> SUFFICES ASSUME Init PROVE BufferBelowLimit /\ EntriesLimited /\ SourcesLimited
    OBVIOUS
<1>1. /\ \A s \in Sources : buffers[s].lines = {}
      /\ \A p \in Processes : out[p] = {}
      /\ delivered = {} /\ lost = {}
  BY DEF Init, NoEntry
<1>2. \A e : e \notin Entries
  BY <1>1, EntriesCases
<1>3. BufferedIn(buffers) = {}
  BY <1>1 DEF BufferedIn
<1>4. SourcesLimited
  BY <1>3, FS_EmptySet, ConfigAssumption DEF SourcesLimited
<1>5. QED
  BY <1>1, <1>2, <1>4 DEF BufferBelowLimit, EntriesLimited

\* Never more sources are buffered than the limit, nor more lines combined.
THEOREM MemoryBounded == Spec => []BuffersBounded
<1>1. IInv /\ IInv' /\ [Next]_vars /\ BufferBelowLimit /\ EntriesLimited /\ SourcesLimited
         => BufferBelowLimit' /\ EntriesLimited' /\ SourcesLimited'
  <2> SUFFICES ASSUME IInv, IInv', [Next]_vars,
                      BufferBelowLimit, EntriesLimited, SourcesLimited
               PROVE  BufferBelowLimit' /\ EntriesLimited' /\ SourcesLimited'
    OBVIOUS
  <2>1. BufferBelowLimit' /\ EntriesLimited'
    BY LimitedStep
  <2>2. SourcesLimited'
    BY SourcesLimitedStep
  <2>3. QED
    BY <2>1, <2>2
<1>2. EntriesLimited /\ SourcesLimited => BuffersBounded
  BY DEF EntriesLimited, Limit, SourcesLimited, BuffersBounded
<1>3. QED
  BY MemoryInit, Accounting, <1>1, <1>2, PTL DEF Spec

------------------------------------------------------------------------------
(* Shutdown. *)

Stopping ==
    /\ pc[Stopper] # "up" => \A c \in Callers : pc[c] = "idle"
    /\ pc[Stopper] \in {"sendingLocked", "down"} => BufferedIn(buffers) = {}
    /\ pc[Stopper] \in {"up", "closing", "sendingLocked", "down"}

LEMMA StoppingStep ==
    ASSUME IInv, IInv', [Next]_vars, Stopping
    PROVE  Stopping'
<1> USE ProcessAssumption
<1>0. pc \in [Processes -> ProgramPoints] /\ Stopper \in Processes /\ FlushLoop \in Processes
  BY DEF IInv, TypeInv, TypeOK, ProgramPoints, Processes
<1>1. CASE \E c \in Callers : Enter(c) \/ ProcessRecord(c) \/ Unlock(c) \/ Return(c)
  BY <1>0, <1>1 DEF Enter, ProcessRecord, Unlock, Return, Stopping, Processes
<1>2. CASE FlushStale
  <2>1. BufferedIn(buffers') \subseteq BufferedIn(buffers)
    BY <1>2, NoEntryEmpty DEF FlushStale, BufferedIn
  <2>2. QED
    BY <1>0, <1>2, <2>1 DEF FlushStale, Stopping, Processes
<1>3. CASE FlushAll
  <2>1. BufferedIn(buffers') = {}
    BY <1>3, NoEntryEmpty DEF FlushAll, BufferedIn
  <2>2. QED
    BY <1>0, <1>3, <2>1 DEF FlushAll, Stopping, Processes
<1>4. CASE TakeTick \/ Exit \/ BeginShutdown \/ TimePasses
  BY <1>0, <1>4 DEF TakeTick, Exit, BeginShutdown, TimePasses, Stopping, Processes
<1>5. CASE \E p \in Processes : Accepted(p) \/ Refused(p)
  BY <1>0, <1>5 DEF Accepted, Refused, Sending, AfterSend, Stopping, Processes
<1>6. CASE UNCHANGED vars
  BY <1>6 DEF vars, Stopping
<1>7. QED
  BY <1>1, <1>2, <1>3, <1>4, <1>5, <1>6 DEF Next

\* When Shutdown has returned, no line is left in the processor but those of a
\* flush that the loop is sending.
THEOREM ShutdownClean == Spec => []ShutdownLeavesNothing
<1>1. Init => Stopping
  BY ProcessAssumption DEF Init, Stopping, Processes
<1>2. IInv /\ IInv' /\ [Next]_vars /\ Stopping => Stopping'
  BY StoppingStep
<1>3. IInv /\ Stopping => ShutdownLeavesNothing
  BY DEF IInv, InHand, Stopping, ShutdownLeavesNothing, Processes
<1>4. QED
  BY <1>1, <1>2, <1>3, Accounting, PTL DEF Spec

------------------------------------------------------------------------------
(* The processor implements LineGroups. *)

Waiting == UNION {out[p] : p \in Processes}

LEMMA WaitingCases ==
    /\ \A e : e \in Waiting <=> \E p \in Processes : e \in out[p]
    /\ \A e : e \in Waiting' <=> \E p \in Processes : e \in out'[p]
  BY DEF Waiting

LEMMA GroupsInit == Init => Groups!Init
<1> SUFFICES ASSUME Init PROVE Groups!Init
    OBVIOUS
<1>1. /\ Len(seen) = 0 /\ delivered = {} /\ lost = {}
      /\ [s \in Sources |-> buffers[s].lines] = [s \in Sources |-> {}]
      /\ \A p \in Processes : out[p] = {}
  BY DEF Init, NoEntry
<1>2. Waiting = {}
  BY <1>1, WaitingCases
<1>3. QED
  BY <1>1, <1>2 DEF Groups!Init, Waiting

\* A record is a line that stands alone, begins a group or joins one.
LEMMA RecordImplements ==
    ASSUME IInv, IInv', NEW c \in Callers, ProcessRecord(c)
    PROVE  Groups!Next
<1> DEFINE m == Head(input[c])
           id == Len(seen) + 1
           opened == [buffers EXCEPT ![m.src] = NewEntry(m, id)]
<1> USE DEF Texts
<1>1. /\ c \in Processes /\ m.src \in Sources
      /\ Len(seen) \in Nat /\ Len(seen') = id
      /\ delivered' = delivered /\ lost' = lost
      /\ buffers \in [Sources -> Entry]
      /\ out \in [Processes -> SUBSET SUBSET Nat]
  BY ArrivalFacts
<1>2. Len(seen) < MaxRecords
  BY <1>1, RecordFacts, ConfigAssumption
<1>2a. PICK src \in Sources : src = m.src
  BY <1>1
<1>3. CASE PassThrough(c, m, id)
  <2>1. buffers' = buffers /\ out' = [out EXCEPT ![c] = @ \cup {{id}}]
    BY <1>3 DEF PassThrough
  <2>2. Waiting' = Waiting \cup {{id}}
    <3> HIDE DEF id
    <3>1. QED
      BY <1>1, <2>1, WaitingCases
  <2>3. Groups!Alone
    BY <1>1, <1>2, <2>1, <2>2 DEF Groups!Alone, Waiting
  <2>4. QED
    BY <2>3 DEF Groups!Next
<1>4. CASE Open(c, m, id)
  <2>1. PICK S \in {{}} \cup {{t} : t \in Sources} :
          /\ \A t \in Sources : buffers'[t].lines = IF t \in S THEN {} ELSE opened[t].lines
          /\ out' = [out EXCEPT ![c] = @ \cup ({buffers[m.src].lines} \ {{}})
                                          \cup ({opened[t].lines : t \in S} \ {{}})]
    <3>1. CASE Cardinality(BufferedIn(opened)) > MaxSources
      <4>1. PICK v \in Oldest(opened) :
              /\ buffers' = [opened EXCEPT ![v] = NoEntry]
              /\ out' = [out EXCEPT ![c] = @ \cup ({buffers[m.src].lines} \ {{}})
                                             \cup {opened[v].lines}]
        BY <1>4, <3>1 DEF Open
      <4> HIDE DEF m, id
      <4>2. v \in Sources /\ opened[v].lines # {}
        BY DEF Oldest, BufferedIn
      <4>4. \A t \in Sources :
               buffers'[t].lines = IF t \in {v} THEN {} ELSE opened[t].lines
        BY <1>1, <4>1, <4>2, NoEntryEmpty
      <4>5. {opened[t].lines : t \in {v}} \ {{}} = {opened[v].lines}
        BY <4>2
      <4>6. {v} \in {{}} \cup {{t} : t \in Sources}
        BY <4>2
      <4> HIDE DEF opened
      <4>7. out' = [out EXCEPT ![c] = @ \cup ({buffers[m.src].lines} \ {{}})
                                     \cup ({opened[t].lines : t \in {v}} \ {{}})]
        BY <4>1, <4>5
      <4>8. QED
        BY <4>4, <4>6, <4>7
    <3>2. CASE ~(Cardinality(BufferedIn(opened)) > MaxSources)
      <4>1. /\ buffers' = opened
            /\ out' = [out EXCEPT ![c] = @ \cup ({buffers[m.src].lines} \ {{}})]
        BY <1>4, <3>2 DEF Open
      <4> HIDE DEF opened, m
      <4>2. /\ {} \in {{}} \cup {{t} : t \in Sources}
            /\ \A t \in Sources :
                  buffers'[t].lines = IF t \in {} THEN {} ELSE opened[t].lines
            /\ out' = [out EXCEPT ![c] = @ \cup ({buffers[m.src].lines} \ {{}})
                                            \cup ({opened[t].lines : t \in {}} \ {{}})]
        BY <4>1
      <4>3. QED
        BY <4>2
    <3>3. QED
      BY <3>1, <3>2
  <2> DEFINE open == [s \in Sources |-> buffers[s].lines]
             grown == [open EXCEPT ![m.src] = {id}]
  <2>2. \A t \in Sources : opened[t].lines = grown[t]
    <3>1. NewEntry(m, id).lines = {id}
      BY DEF NewEntry
    <3> HIDE DEF m, id
    <3>2. QED
      BY <1>1, <3>1
  <2> HIDE DEF opened, grown
  <2>3. {opened[t].lines : t \in S} \ {{}} = {grown[t] : t \in S} \ {{}}
    BY <2>2
  <2>4. Waiting' = Waiting \cup ({open[t] : t \in {m.src}} \ {{}})
                           \cup ({grown[t] : t \in S} \ {{}})
    <3>1. {open[t] : t \in {m.src}} = {buffers[m.src].lines}
      BY <1>1
    <3> DEFINE C1 == {buffers[m.src].lines} \ {{}}
               C2 == {grown[t] : t \in S} \ {{}}
    <3>2. out' = [out EXCEPT ![c] = @ \cup C1 \cup C2]
      BY <2>1, <2>3
    <3> HIDE DEF C1, C2
    <3>3. Waiting' = Waiting \cup C1 \cup C2
      BY <1>1, <3>2, WaitingCases
    <3>4. QED
      BY <3>1, <3>3 DEF C1, C2
  <2>5. [s \in Sources |-> buffers'[s].lines]
           = [t \in Sources |-> IF t \in S THEN {} ELSE grown[t]]
    BY <2>1, <2>2
  <2>6. Groups!Begin(src)
    <3>1. \E S1 \in {{}} \cup {{t} : t \in Sources} :
             /\ [s \in Sources |-> buffers'[s].lines]
                   = [t \in Sources |-> IF t \in S1 THEN {} ELSE [open EXCEPT ![src] = {id}][t]]
             /\ Waiting' = Waiting \cup Groups!Closing(open, {src})
                                   \cup Groups!Closing([open EXCEPT ![src] = {id}], S1)
      <4>1. grown = [open EXCEPT ![src] = {id}]
        BY <1>2a DEF grown
      <4>2. Groups!Closing(open, {src}) = {open[t] : t \in {m.src}} \ {{}}
        BY <1>2a DEF Groups!Closing
      <4>3. Groups!Closing(grown, S) = {grown[t] : t \in S} \ {{}}
        BY DEF Groups!Closing
      <4> HIDE DEF m, id, open
      <4>4. QED
        BY <2>1, <2>4, <2>5, <4>1, <4>2, <4>3
    <3>2. Len(seen) < MaxRecords /\ Len(seen') = Len(seen) + 1
      BY <1>1, <1>2
    <3> QED
      BY <1>1, <3>1, <3>2 DEF Groups!Begin, Waiting
  <2>7. QED
    BY <1>1, <2>6 DEF Groups!Next
<1>5. CASE Extend(c, m, id)
  <2> DEFINE e == ExtendedEntry(m, id)
             open == [s \in Sources |-> buffers[s].lines]
             group == open[m.src] \cup {id}
  <2>1. e.lines = group /\ open[m.src] # {}
    BY <1>1, <1>5 DEF ExtendedEntry, Extend, OpensEntry
  <2>2. CASE e.size >= MaxBatchSize
    <3>1. /\ buffers' = [buffers EXCEPT ![m.src] = NoEntry]
          /\ out' = [out EXCEPT ![c] = @ \cup {e.lines}]
      BY <1>5, <2>2 DEF Extend
    <3> HIDE DEF e, m, id
    <3>2. [s \in Sources |-> buffers'[s].lines] = [open EXCEPT ![m.src] = {}]
      BY <1>1, <3>1, NoEntryEmpty
    <3> HIDE DEF group
    <3>3. Waiting' = Waiting \cup {group}
      BY <1>1, <2>1, <3>1, WaitingCases
    <3>4. Groups!Join(src)
      BY <1>1, <1>2, <1>2a, <2>1, <3>2, <3>3 DEF Groups!Join, Waiting, group, id
    <3>5. QED
      BY <1>1, <3>4 DEF Groups!Next
  <2>3. CASE ~(e.size >= MaxBatchSize)
    <3>1. buffers' = [buffers EXCEPT ![m.src] = e] /\ out' = out
      BY <1>5, <2>3 DEF Extend
    <3> HIDE DEF e, m, id
    <3>2. [s \in Sources |-> buffers'[s].lines] = [open EXCEPT ![m.src] = group]
      BY <1>1, <2>1, <3>1
    <3>3. Waiting' = Waiting
      BY <3>1 DEF Waiting
    <3>4. Groups!Join(src)
      BY <1>1, <1>2, <1>2a, <2>1, <3>2, <3>3 DEF Groups!Join, Waiting, id
    <3>5. QED
      BY <1>1, <3>4 DEF Groups!Next
  <2>4. QED
    BY <2>2, <2>3
<1>6. QED
  BY <1>3, <1>4, <1>5 DEF ProcessRecord

\* A flush, by the loop or by Shutdown, closes groups.
LEMMA FlushImplements ==
    ASSUME IInv, FlushStale \/ FlushAll
    PROVE  Groups!Next
<1>1. /\ FlushLoop \in Processes /\ Stopper \in Processes
      /\ buffers \in [Sources -> Entry]
      /\ out \in [Processes -> SUBSET SUBSET Nat]
      /\ pc[FlushLoop] = "flushing" => out[FlushLoop] = {}
      /\ pc[Stopper] = "closing" => out[Stopper] = {}
      /\ seen' = seen /\ delivered' = delivered /\ lost' = lost
  BY DEF Processes, IInv, InHand, AccountInv, Accounted, TypeInv, TypeOK, FlushStale, FlushAll
<1> DEFINE open == [s \in Sources |-> buffers[s].lines]
<1>2. PICK S \in SUBSET Sources, p \in Processes :
        /\ out[p] = {}
        /\ out' = [out EXCEPT ![p] = {open[s] : s \in S} \ {{}}]
        /\ \A t \in Sources : buffers'[t].lines = IF t \in S THEN {} ELSE open[t]
  <2>1. CASE FlushStale
    <3> DEFINE S == {s \in Sources : Stale(buffers[s])}
    <3>1. /\ \A s \in S : buffers[s].lines # {}
          /\ out' = [out EXCEPT ![FlushLoop] = {buffers[s].lines : s \in S}]
          /\ buffers' = [s \in Sources |-> IF s \in S THEN NoEntry ELSE buffers[s]]
          /\ out[FlushLoop] = {}
      BY <1>1, <2>1 DEF FlushStale, Stale
    <3>2. S \in SUBSET Sources
      OBVIOUS
    <3> HIDE DEF S
    <3>3. {buffers[s].lines : s \in S} = {open[s] : s \in S} \ {{}}
      BY <3>1, <3>2
    <3>4. QED
      BY <1>1, <3>1, <3>2, <3>3, NoEntryEmpty
  <2>2. CASE FlushAll
    <3> DEFINE S == BufferedIn(buffers)
    <3>1. /\ \A s \in S : buffers[s].lines # {}
          /\ \A s \in Sources \ S : buffers[s].lines = {}
          /\ out' = [out EXCEPT ![Stopper] = {buffers[s].lines : s \in S}]
          /\ buffers' = [s \in Sources |-> NoEntry]
          /\ out[Stopper] = {}
          /\ S \in SUBSET Sources
      BY <1>1, <2>2 DEF FlushAll, BufferedIn
    <3> HIDE DEF S
    <3>2. {buffers[s].lines : s \in S} = {open[s] : s \in S} \ {{}}
      BY <3>1
    <3>3. QED
      BY <1>1, <3>1, <3>2, NoEntryEmpty
  <2>3. QED
    BY <2>1, <2>2
<1> DEFINE T == {open[s] : s \in S} \ {{}}
<1>3. Waiting' = Waiting \cup T
  <2> HIDE DEF T
  <2>1. out' = [out EXCEPT ![p] = T]
    BY <1>2 DEF T
  <2>2. QED
    BY <1>1, <1>2, <2>1, WaitingCases
<1>4. [s \in Sources |-> buffers'[s].lines]
         = [t \in Sources |-> IF t \in S THEN {} ELSE open[t]]
  BY <1>2
<1>5. Groups!Close
  BY <1>1, <1>3, <1>4 DEF Groups!Close, Groups!Closing, Waiting
<1>6. QED
  BY <1>5 DEF Groups!Next

\* A send that ends resolves the groups that were sent, and no others.
LEMMA SentImplements ==
    ASSUME IInv, NEW p \in Processes, Accepted(p) \/ Refused(p)
    PROVE  Groups!Next
<1>1. /\ seen' = seen /\ buffers' = buffers
      /\ out' = [out EXCEPT ![p] = {}]
      /\ \/ delivered' = delivered \cup out[p] /\ lost' = lost
         \/ delivered' = delivered /\ lost' = lost \cup out[p]
      /\ out \in [Processes -> SUBSET SUBSET Nat]
  BY DEF Accepted, Refused, IInv, AccountInv, Accounted
<1>2. \A q \in Processes : q # p => out[p] \cap out[q] = {}
  BY DEF IInv, AccountInv, Accounted, SentApart, InRange, Disjoint
<1>3. Waiting' = Waiting \ out[p] /\ out[p] \in SUBSET Waiting
  BY <1>1, <1>2, WaitingCases
<1>4. Groups!Resolve
  BY <1>1, <1>3 DEF Groups!Resolve, Waiting
<1>5. QED
  BY <1>4 DEF Groups!Next

\* Every behaviour of the processor is one of LineGroups: lines of a source are
\* cut into consecutive groups, each of which is resolved once.
THEOREM LineGroupsImplemented == Spec => ImplementsLineGroups
<1>1. IInv /\ IInv' /\ [Next]_vars => [Groups!Next]_Groups!vars
  <2> SUFFICES ASSUME IInv, IInv', [Next]_vars PROVE [Groups!Next]_Groups!vars
    OBVIOUS
  <2>1. CASE \E c \in Callers : ProcessRecord(c)
    BY <2>1, RecordImplements
  <2>2. CASE FlushStale \/ FlushAll
    BY <2>2, FlushImplements
  <2>3. CASE \E p \in Processes : Accepted(p) \/ Refused(p)
    BY <2>3, SentImplements
  <2>4. CASE \/ \E c \in Callers : Enter(c) \/ Unlock(c) \/ Return(c)
             \/ TakeTick \/ Exit \/ BeginShutdown \/ TimePasses \/ UNCHANGED vars
    <3>1. UNCHANGED <<out, buffers, seen, delivered, lost>>
      BY <2>4 DEF Enter, Unlock, Return, TakeTick, Exit, BeginShutdown, TimePasses, vars
    <3>2. QED
      BY <3>1 DEF Groups!vars
  <2>5. QED
    BY <2>1, <2>2, <2>3, <2>4 DEF Next
<1>2. QED
  BY GroupsInit, Accounting, <1>1, PTL DEF Spec, ImplementsLineGroups, Groups!Spec
=============================================================================
