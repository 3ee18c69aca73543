--------------------------- MODULE MCHarnessSlots ----------------------------
(* Two replicas, one with two slots; two requests, one of them repeated.   *)
EXTENDS HarnessSlots, TLC

CONSTANTS s1, s2, a1, a2, a3, r1, r2

MCServer == {s1, s2}
MCAttempt == {a1, a2, a3}
MCRequest == {r1, r2}
MCRequestOf == (a1 :> r1) @@ (a2 :> r1) @@ (a3 :> r2)
MCConcurrency == (s1 :> 2) @@ (s2 :> 1)
=============================================================================
