----------------------------- MODULE AtLeastOnce -----------------------------
(***************************************************************************)
(* What the auth0 receiver promises about a queue message: it leaves the   *)
(* queue only after it was handed on, and only a valid one is handed on.   *)
(* It may be handed on again at any time, even after it has left.          *)
(***************************************************************************)
CONSTANTS
    Messages,   \* every message there may be
    Valid       \* those that are Auth0 EventBridge envelopes

VARIABLES
    sent,       \* the messages that were put on the queue
    handedOn,   \* those the next consumer has accepted, once or more
    removed     \* those that have left the queue

vars == <<sent, handedOn, removed>>

Init ==
    /\ sent = {}
    /\ handedOn = {}
    /\ removed = {}

Send(m) ==
    /\ m \in Messages \ sent
    /\ sent' = sent \cup {m}
    /\ UNCHANGED <<handedOn, removed>>

HandOn(batch) ==
    /\ batch \subseteq sent \cap Valid
    /\ handedOn' = handedOn \cup batch
    /\ UNCHANGED <<sent, removed>>

Remove(batch) ==
    /\ batch \subseteq handedOn
    /\ removed' = removed \cup batch
    /\ UNCHANGED <<sent, handedOn>>

Next ==
    \/ \E m \in Messages : Send(m)
    \/ \E batch \in SUBSET Messages : HandOn(batch) \/ Remove(batch)

Spec == Init /\ [][Next]_vars
==============================================================================
