--------------------------- MODULE MCAuth0Receiver ---------------------------
(* Auth0Receiver with two valid messages and an invalid one, so that a batch *)
(* of two may be mixed, and two collectors on one queue, one of which may    *)
(* crash.                                                                    *)
EXTENDS Auth0Receiver, TLC

CONSTANTS m1, m2, bad, r1, r2

MCMessages == {m1, m2, bad}
MCValid == {m1, m2}
MCReceivers == {r1, r2}
==============================================================================
