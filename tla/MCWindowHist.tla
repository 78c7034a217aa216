----------------------------- MODULE MCWindowHist -----------------------------
(* A counter and a gauge that share an interval, summarized cumulatively, and  *)
(* a plain series of a slower interval.                                        *)
EXTENDS WindowHist

CONSTANTS counter, gauge, plain, KeepCounter

MCRoute ==
    [k \in Series |->
        [send |-> IF k = plain THEN 2 ELSE 1,
         kind |-> CASE k = counter -> "counter" [] k = gauge -> "gauge" [] OTHER -> "plain",
         cumulative |-> k # plain,
         keepCounter |-> k = counter /\ KeepCounter]]
===============================================================================
