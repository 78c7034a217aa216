--------------------------- MODULE MCLogRecombine ---------------------------
(* Sources and messages for TLC: s1 sends lines of every kind, the others a   *)
(* continuation line each, so that every branch of processRecord is met with  *)
(* the smallest choice of batches.                                            *)
EXTENDS LogRecombine, TLC

CONSTANTS s1, s2, s3

MCMessages ==
    {[src |-> s1, kind |-> k, size |-> 1] : k \in Kinds}
    \cup {[src |-> s, kind |-> "continuation", size |-> 1] : s \in Sources \ {s1}}

\* Callers run the same code on any batch (sound: no liveness under this).
CallerSymmetry == Permutations(Callers)
=============================================================================
