--------------------------- MODULE MCBotsExecutor ---------------------------
(***************************************************************************)
(* Two agents; one worker serves both of them, the other only the first.   *)
(***************************************************************************)
EXTENDS BotsExecutor, TLC

CONSTANTS a, b, m1, m2, m3, v, w

MCAgent == {a, b}
MCMessage == {m1, m2}
MCWorker == {v, w}
MCHosts == (v :> {a}) @@ (w :> MCAgent)

Interchangeable == Permutations(MCMessage)

MCThree == {m1, m2, m3}

=============================================================================
