---------------------------- MODULE Auth0Receiver ----------------------------
(***************************************************************************)
(* The auth0 receiver: a goroutine polls an SQS queue, hands the valid     *)
(* messages of a batch on in one call, and deletes them once the next      *)
(* consumer has accepted it.  Several collectors may poll one queue; each  *)
(* may be shut down, or crash and be started again.                        *)
(*                                                                         *)
(* SQS is external: it hides a received message until its visibility       *)
(* timeout expires, an answer of it may be lost after it has acted, and it *)
(* deletes some, all or none of a batch, also for a receiver whose message *)
(* is already with another.  src/receiver/auth0receiver/receiver.go        *)
(***************************************************************************)
EXTENDS Integers, FiniteSets

CONSTANTS
    Messages,       \* the messages the producer may send
    Valid,          \* those decode accepts: Auth0 EventBridge envelopes
    Receivers,      \* the collectors that poll the queue
    MaxNumberOfMessages,    \* Config: messages of one poll
    MaxCrashes      \* bound: crashes in a behaviour

ASSUME MessagesAssumption == Valid \subseteq Messages /\ IsFiniteSet(Messages)

\* Config.Validate accepts 1 .. 10.
ASSUME ConfigAssumption == MaxNumberOfMessages \in 1 .. 10 /\ MaxCrashes \in Nat

VARIABLES
    sent,       \* the messages put on the queue
    visible,    \* those a poll may receive
    deleted,    \* those SQS has deleted
    pc,         \* where the goroutine of each receiver is
    cancelled,  \* Shutdown has cancelled the receiver's context
    entries,    \* entries[r]: the valid messages of r's batch
    handedOn,   \* history: messages the next consumer has accepted
    crashes     \* history: crashes so far

vars == <<sent, visible, deleted, pc, cancelled, entries, handedOn, crashes>>

queue == <<sent, visible, deleted>>

Init ==
    /\ sent = {}
    /\ visible = {}
    /\ deleted = {}
    /\ pc = [r \in Receivers |-> "polling"]
    /\ cancelled = [r \in Receivers |-> FALSE]
    /\ entries = [r \in Receivers |-> {}]
    /\ handedOn = {}
    /\ crashes = 0

------------------------------------------------------------------------------
(* The queue. *)

Send(m) ==
    /\ m \in Messages \ sent
    /\ sent' = sent \cup {m}
    /\ visible' = visible \cup {m}
    /\ UNCHANGED <<deleted, pc, cancelled, entries, handedOn, crashes>>

VisibilityExpires(m) ==
    /\ m \in sent \ (deleted \cup visible)
    /\ visible' = visible \cup {m}
    /\ UNCHANGED <<sent, deleted, pc, cancelled, entries, handedOn, crashes>>

------------------------------------------------------------------------------
(* run and pollOnce.  A receiver at "polling" is inside ReceiveMessage; run  *)
(* looks at its context before every further poll.                          *)

Go(r, place) == pc' = [pc EXCEPT ![r] = place]

\* Mutant: the loop does not look at its context.
AfterPollUnchecked(r) == "polling"

AfterPoll(r) == IF cancelled[r] THEN "exited" ELSE "polling"

\* Nobody waits out a back-off on a cancelled context.
AfterError(r) == IF cancelled[r] THEN AfterPoll(r) ELSE "backoff"

Answers(r, batch) ==
    /\ pc[r] = "polling"
    /\ batch \subseteq visible
    /\ Cardinality(batch) <= MaxNumberOfMessages
    /\ visible' = visible \ batch

\* Mutant: an invalid message ends the poll, nothing of its batch is handed on.
ReceivesAllOrNothing(r, batch) ==
    /\ Answers(r, batch)
    /\ entries' = [entries EXCEPT ![r] = IF batch \subseteq Valid THEN batch ELSE {}]
    /\ Go(r, IF entries'[r] = {} THEN AfterPoll(r) ELSE "consuming")
    /\ UNCHANGED <<sent, deleted, cancelled, handedOn, crashes>>

\* A poll answers with a batch, empty when the long poll times out.  Invalid
\* messages stay on the queue; a batch without a valid one is polled over.
Receives(r, batch) ==
    /\ Answers(r, batch)
    /\ entries' = [entries EXCEPT ![r] = batch \cap Valid]
    /\ Go(r, IF entries'[r] = {} THEN AfterPoll(r) ELSE "consuming")
    /\ UNCHANGED <<sent, deleted, cancelled, handedOn, crashes>>

\* The call fails, as it does when the context is cancelled.  Its answer may
\* have been lost after SQS has hidden the messages.
ReceiveFails(r) ==
    /\ \E batch \in SUBSET visible : Answers(r, batch)
    /\ Go(r, AfterError(r))
    /\ UNCHANGED <<sent, deleted, cancelled, entries, handedOn, crashes>>

Accepted(r) ==
    /\ pc[r] = "consuming"
    /\ handedOn' = handedOn \cup entries[r]
    /\ Go(r, "deleting")
    /\ UNCHANGED <<queue, cancelled, entries, crashes>>

\* Mutant: the batch is deleted although the consumer has refused it.
RefusedDeleting(r) ==
    /\ pc[r] = "consuming"
    /\ Go(r, "deleting")
    /\ UNCHANGED <<queue, cancelled, entries, handedOn, crashes>>

\* Mutant: the refused batch is kept for the next poll.
RefusedKeepingBatch(r) ==
    /\ pc[r] = "consuming"
    /\ Go(r, AfterError(r))
    /\ UNCHANGED <<queue, cancelled, entries, handedOn, crashes>>

Refused(r) ==
    /\ pc[r] = "consuming"
    /\ Go(r, AfterError(r))
    /\ entries' = [entries EXCEPT ![r] = {}]
    /\ UNCHANGED <<queue, cancelled, handedOn, crashes>>

\* SQS deletes what it deletes of the batch; what failed will be received again.
\* The whole call may fail after that, which only adds a back-off.
Deletes(r, place) ==
    /\ pc[r] = "deleting"
    /\ \E batch \in SUBSET entries[r] :
         /\ deleted' = deleted \cup batch
         /\ visible' = visible \ batch
    /\ Go(r, place)
    /\ entries' = [entries EXCEPT ![r] = {}]
    /\ UNCHANGED <<sent, cancelled, handedOn, crashes>>

\* The back-off ends, by time or by cancellation.
BackoffEnds(r) ==
    /\ pc[r] = "backoff"
    /\ Go(r, AfterPoll(r))
    /\ UNCHANGED <<queue, cancelled, entries, handedOn, crashes>>

------------------------------------------------------------------------------
(* Shutdown, crashes, Start. *)

Running(r) == pc[r] \notin {"exited", "crashed"}

\* Shutdown cancels the context.  It then waits for the goroutine, or for its
\* own deadline, after which the goroutine may still be on its way.
Shutdown(r) ==
    /\ Running(r)
    /\ cancelled' = [cancelled EXCEPT ![r] = TRUE]
    /\ UNCHANGED <<queue, pc, entries, handedOn, crashes>>

Crash(r) ==
    /\ Running(r)
    /\ crashes < MaxCrashes
    /\ crashes' = crashes + 1
    /\ Go(r, "crashed")
    /\ entries' = [entries EXCEPT ![r] = {}]
    /\ UNCHANGED <<queue, cancelled, handedOn>>

\* The collector is started again with a receiver made anew.
Start(r) ==
    /\ ~Running(r)
    /\ Go(r, "polling")
    /\ cancelled' = [cancelled EXCEPT ![r] = FALSE]
    /\ UNCHANGED <<queue, entries, handedOn, crashes>>

Polls(r) == \E batch \in SUBSET visible : Receives(r, batch)

Next ==
    \/ \E m \in Messages : Send(m) \/ VisibilityExpires(m)
    \/ \E r \in Receivers :
         \/ Polls(r) \/ ReceiveFails(r)
         \/ Accepted(r) \/ Refused(r)
         \/ Deletes(r, AfterPoll(r)) \/ Deletes(r, AfterError(r))
         \/ BackoffEnds(r)
         \/ Shutdown(r) \/ Crash(r) \/ Start(r)

Spec == Init /\ [][Next]_vars

------------------------------------------------------------------------------
(* Fairness.  The queue shows a hidden message again, and answers polls with *)
(* every message that is visible again and again; the next consumer does not *)
(* refuse a message for ever.  Within the goroutine every call returns:      *)
(* DeleteMessageBatch, the back-off, and ReceiveMessage once cancelled.      *)

ReceivesMessage(m) ==
    \E r \in Receivers : \E batch \in SUBSET visible :
        m \in batch /\ Receives(r, batch)

AcceptsMessage(m) == \E r \in Receivers : m \in entries[r] /\ Accepted(r)

CancelledPollEnds(r) == cancelled[r] /\ (Polls(r) \/ ReceiveFails(r))

Returns(r) ==
    \/ Accepted(r) \/ Refused(r)
    \/ Deletes(r, AfterPoll(r)) \/ Deletes(r, AfterError(r))
    \/ BackoffEnds(r)

Fairness ==
    /\ \A m \in Messages :
         /\ WF_vars(VisibilityExpires(m))
         /\ SF_vars(ReceivesMessage(m))
         /\ SF_vars(AcceptsMessage(m))
    /\ \A r \in Receivers :
         /\ WF_vars(CancelledPollEnds(r))
         /\ WF_vars(Returns(r))

FairSpec == Spec /\ Fairness

------------------------------------------------------------------------------
(* Properties. *)

Places == {"polling", "consuming", "deleting", "backoff", "exited", "crashed"}

\* Every variable has its type; only a goroutine between its poll and its
\* delete holds a batch, and the batch is as large as a poll returns at most.
TypeOK ==
    /\ sent \subseteq Messages
    /\ visible \subseteq sent
    /\ deleted \subseteq sent
    /\ pc \in [Receivers -> Places]
    /\ cancelled \in [Receivers -> BOOLEAN]
    /\ entries \in [Receivers -> SUBSET sent]
    /\ \A r \in Receivers :
         /\ (entries[r] # {}) <=> (pc[r] \in {"consuming", "deleting"})
         /\ Cardinality(entries[r]) <= MaxNumberOfMessages
    /\ handedOn \subseteq sent
    /\ crashes \in 0 .. MaxCrashes

\* No message is lost: one that has left the queue was accepted by the next
\* consumer, whatever crashes, refusals, lost answers and competing receivers
\* there were between its poll and its delete.  (docs/scrape-collector.md:65)
NothingLost == deleted \subseteq handedOn

\* A message that is no Auth0 envelope is never handed on and never deleted,
\* also when it comes in one batch with valid ones.  (pollOnce, lines 92-93)
InvalidMessagesStay == (deleted \cup handedOn) \subseteq Valid

\* The receivers and the queue together deliver at least once: every step is a
\* step of AtLeastOnce or leaves it unchanged.
Promise == INSTANCE AtLeastOnce WITH removed <- deleted

ImplementsAtLeastOnce == Promise!Spec

\* A valid message is handed on in the end, also next to invalid ones and
\* after crashes, unless there comes a time when no receiver is at work.
NoneAtWork == \A r \in Receivers : cancelled[r] \/ ~Running(r)

ValidMessagesArrive ==
    \A m \in Valid : m \in sent ~> m \in handedOn \/ NoneAtWork

\* A receiver that was shut down stops, wherever its goroutine was; it neither
\* polls on nor waits for a poll.  (Shutdown waits for done)
ShutdownEnds == \A r \in Receivers : cancelled[r] ~> ~Running(r)
===============================================================================
