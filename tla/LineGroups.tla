----------------------------- MODULE LineGroups -----------------------------
(***************************************************************************)
(* What the logrecombine processor promises, without its mutex, threads,   *)
(* clock and limits: the lines of a source are cut into consecutive        *)
(* groups.  A source has at most one open group, the only one that grows;  *)
(* a group closes once and is then accepted or refused downstream once.    *)
(***************************************************************************)
EXTENDS Integers

CONSTANTS Sources, MaxLines

VARIABLES
    n,          \* how many lines have arrived
    open,       \* open[s]: the lines of the group of s that may still grow
    closed,     \* the groups that wait for downstream
    accepted,   \* the groups downstream accepted
    refused     \* the groups downstream refused

vars == <<n, open, closed, accepted, refused>>

Init ==
    /\ n = 0
    /\ open = [s \in Sources |-> {}]
    /\ closed = {}
    /\ accepted = {}
    /\ refused = {}

\* The open groups of the sources in S close, out of the groups o.
Closing(o, S) == {o[s] : s \in S} \ {{}}

\* A line that stands alone.
Alone ==
    /\ n < MaxLines
    /\ n' = n + 1
    /\ closed' = closed \cup {{n + 1}}
    /\ UNCHANGED <<open, accepted, refused>>

\* A line of s joins its open group, and the group may close with it.
Join(s) ==
    /\ n < MaxLines
    /\ open[s] # {}
    /\ n' = n + 1
    /\ LET group == open[s] \cup {n + 1}
       IN  \/ /\ open' = [open EXCEPT ![s] = group]
              /\ UNCHANGED closed
           \/ /\ open' = [open EXCEPT ![s] = {}]
              /\ closed' = closed \cup {group}
    /\ UNCHANGED <<accepted, refused>>

\* A line of s opens a group.  The previous group of s closes, and so may one
\* group of the resulting ones.
Begin(s) ==
    /\ n < MaxLines
    /\ n' = n + 1
    /\ LET opened == [open EXCEPT ![s] = {n + 1}]
       IN  \E S \in {{}} \cup {{t} : t \in Sources} :
             /\ open' = [t \in Sources |-> IF t \in S THEN {} ELSE opened[t]]
             /\ closed' = closed \cup Closing(open, {s}) \cup Closing(opened, S)
    /\ UNCHANGED <<accepted, refused>>

\* Groups close because time passed or because the processor stops.
Close ==
    \E S \in SUBSET Sources :
        /\ open' = [t \in Sources |-> IF t \in S THEN {} ELSE open[t]]
        /\ closed' = closed \cup Closing(open, S)
        /\ UNCHANGED <<n, accepted, refused>>

Resolve ==
    \E G \in SUBSET closed :
        /\ closed' = closed \ G
        /\ \/ accepted' = accepted \cup G /\ UNCHANGED refused
           \/ refused' = refused \cup G /\ UNCHANGED accepted
        /\ UNCHANGED <<n, open>>

Next ==
    \/ Alone
    \/ \E s \in Sources : Join(s) \/ Begin(s)
    \/ Close
    \/ Resolve

Spec == Init /\ [][Next]_vars
=============================================================================
