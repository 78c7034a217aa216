------------------------- MODULE Auth0ReceiverProofs -------------------------
(***************************************************************************)
(* Proofs about Auth0Receiver: its type invariant, that no message is lost *)
(* and no invalid one handed on or deleted, and that it implements         *)
(* AtLeastOnce, for any number of messages, receivers and crashes.         *)
(***************************************************************************)
EXTENDS Auth0Receiver, FiniteSetTheorems, TLAPS

\* Neither NothingLost nor InvalidMessagesStay is inductive.  What carries them
\* from a poll to its delete is the batch in the goroutine's hands: it is all
\* valid, and from the moment the consumer has accepted it, all handed on.
BatchInv ==
    \A r \in Receivers :
        /\ entries[r] \subseteq Valid
        /\ pc[r] = "deleting" => entries[r] \subseteq handedOn

IInv == TypeOK /\ BatchInv /\ NothingLost /\ InvalidMessagesStay

------------------------------------------------------------------------------

\* The valid part of a poll's answer is no larger than the answer.
LEMMA ValidPartIsSmall ==
    ASSUME NEW batch \in SUBSET Messages,
           Cardinality(batch) <= MaxNumberOfMessages
    PROVE  Cardinality(batch \cap Valid) <= MaxNumberOfMessages
<1>1. IsFiniteSet(batch)
  BY MessagesAssumption, FS_Subset
<1>2. IsFiniteSet(batch \cap Valid) /\ Cardinality(batch \cap Valid) <= Cardinality(batch)
  BY <1>1, FS_Subset
<1>3. Cardinality(batch) \in Nat /\ Cardinality(batch \cap Valid) \in Nat
  BY <1>1, <1>2, FS_CardinalityType
<1> QED BY <1>2, <1>3, ConfigAssumption

LEMMA EmptyIsSmall == Cardinality({}) <= MaxNumberOfMessages
BY FS_EmptySet, ConfigAssumption

\* The initial states satisfy the invariant.
LEMMA InitHolds == Init => IInv
BY EmptyIsSmall, ConfigAssumption
   DEF Init, IInv, TypeOK, BatchInv, NothingLost, InvalidMessagesStay, Places

\* Every step preserves the invariant.
LEMMA StepHolds == IInv /\ [Next]_vars => IInv'
<1> SUFFICES ASSUME IInv, [Next]_vars PROVE IInv'
  OBVIOUS
<1> USE DEF IInv, TypeOK, BatchInv, NothingLost, InvalidMessagesStay, Places, queue
<1>1. ASSUME NEW m \in Messages, Send(m) \/ VisibilityExpires(m) PROVE IInv'
  BY <1>1 DEF Send, VisibilityExpires
<1>2. ASSUME NEW r \in Receivers, NEW batch \in SUBSET visible, Receives(r, batch)
      PROVE IInv'
  <2>1. Cardinality(batch \cap Valid) <= MaxNumberOfMessages
    BY <1>2, ValidPartIsSmall DEF Receives, Answers
  <2>2. CASE batch \cap Valid = {}
    BY <1>2, <2>1, <2>2 DEF Receives, Answers, Go, AfterPoll
  <2>3. CASE batch \cap Valid # {}
    BY <1>2, <2>1, <2>3 DEF Receives, Answers, Go
  <2> QED BY <2>2, <2>3
<1>3. ASSUME NEW r \in Receivers, ReceiveFails(r) PROVE IInv'
  BY <1>3 DEF ReceiveFails, Answers, Go, AfterError, AfterPoll
<1>4. ASSUME NEW r \in Receivers, Accepted(r) PROVE IInv'
  BY <1>4 DEF Accepted, Go
<1>5. ASSUME NEW r \in Receivers, Refused(r) PROVE IInv'
  BY <1>5, EmptyIsSmall DEF Refused, Go, AfterError, AfterPoll
<1>6. ASSUME NEW r \in Receivers, NEW place \in {"polling", "backoff", "exited"},
             Deletes(r, place)
      PROVE IInv'
  BY <1>6, EmptyIsSmall DEF Deletes, Go
<1>7. ASSUME NEW r \in Receivers, BackoffEnds(r) PROVE IInv'
  BY <1>7 DEF BackoffEnds, Go, AfterPoll
<1>8. ASSUME NEW r \in Receivers, Shutdown(r) PROVE IInv'
  BY <1>8 DEF Shutdown
<1>9. ASSUME NEW r \in Receivers, Crash(r) PROVE IInv'
  BY <1>9, EmptyIsSmall, ConfigAssumption DEF Crash, Go
<1>10. ASSUME NEW r \in Receivers, Start(r) PROVE IInv'
  BY <1>10 DEF Start, Running, Go
<1>11. CASE UNCHANGED vars
  BY <1>11 DEF vars
<1>12. \A r \in Receivers :
          AfterPoll(r) \in {"polling", "backoff", "exited"}
          /\ AfterError(r) \in {"polling", "backoff", "exited"}
  BY DEF AfterPoll, AfterError
<1> QED
  BY <1>1, <1>2, <1>3, <1>4, <1>5, <1>6, <1>7, <1>8, <1>9, <1>10, <1>11, <1>12
     DEF Next, Polls

------------------------------------------------------------------------------

\* The inductive invariant holds in every reachable state.
THEOREM Invariance == Spec => []IInv
BY InitHolds, StepHolds, PTL DEF Spec

\* The receivers and the queue keep their types, and a goroutine holds a batch
\* exactly between its poll and its delete.
THEOREM TypeCorrect == Spec => []TypeOK
BY Invariance, PTL DEF IInv

\* A message that has left the queue was handed on: pollOnce deletes after the
\* consumer has accepted.
THEOREM NeverLost == Spec => []NothingLost
BY Invariance, PTL DEF IInv

\* An invalid message is neither handed on nor deleted.
THEOREM InvalidStay == Spec => []InvalidMessagesStay
BY Invariance, PTL DEF IInv

\* Every step of the receivers and the queue is a step of AtLeastOnce, or none.
LEMMA StepRefines == IInv /\ [Next]_vars => [Promise!Next]_(Promise!vars)
<1> SUFFICES ASSUME IInv, [Next]_vars PROVE [Promise!Next]_(Promise!vars)
  OBVIOUS
<1> USE DEF Promise!vars, queue
<1>1. ASSUME NEW m \in Messages, Send(m) PROVE Promise!Next
  BY <1>1 DEF Send, Promise!Next, Promise!Send
<1>2. ASSUME NEW r \in Receivers, Accepted(r) PROVE Promise!Next
  <2>1. entries[r] \in SUBSET Messages /\ entries[r] \subseteq sent \cap Valid
    BY MessagesAssumption DEF IInv, TypeOK, BatchInv
  <2>2. Promise!HandOn(entries[r])
    BY <1>2, <2>1 DEF Accepted, Promise!HandOn
  <2> QED BY <2>1, <2>2 DEF Promise!Next
<1>3. ASSUME NEW r \in Receivers, NEW place, Deletes(r, place) PROVE Promise!Next
  <2>1. PICK batch \in SUBSET entries[r] : deleted' = deleted \cup batch
    BY <1>3 DEF Deletes
  <2>2. batch \in SUBSET Messages /\ batch \subseteq handedOn
    BY <1>3, <2>1 DEF Deletes, IInv, TypeOK, BatchInv
  <2>3. Promise!Remove(batch)
    BY <1>3, <2>1, <2>2 DEF Deletes, Promise!Remove
  <2> QED BY <2>2, <2>3 DEF Promise!Next
<1>4. ASSUME NEW m \in Messages, VisibilityExpires(m) PROVE UNCHANGED Promise!vars
  BY <1>4 DEF VisibilityExpires
<1>5. ASSUME NEW r \in Receivers,
             Polls(r) \/ ReceiveFails(r) \/ Refused(r) \/ BackoffEnds(r)
             \/ Shutdown(r) \/ Crash(r) \/ Start(r)
      PROVE UNCHANGED Promise!vars
  BY <1>5 DEF Polls, Receives, ReceiveFails, Refused, BackoffEnds, Shutdown, Crash, Start
<1>6. CASE UNCHANGED vars
  BY <1>6 DEF vars
<1> QED
  BY <1>1, <1>2, <1>3, <1>4, <1>5, <1>6 DEF Next

\* At-least-once delivery: Auth0Receiver implements AtLeastOnce, its messages
\* deleted from SQS being those removed.
THEOREM AtLeastOnceDelivery == Spec => ImplementsAtLeastOnce
<1>1. Init => Promise!Init
  BY DEF Init, Promise!Init
<1> QED
  BY <1>1, Invariance, StepRefines, PTL DEF Spec, ImplementsAtLeastOnce, Promise!Spec
===============================================================================
