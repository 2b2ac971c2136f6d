-------------------------- MODULE MCLocalHubCards --------------------------
(***************************************************************************)
(* A small hub: one code card that may spawn and wait, two other cards,    *)
(* and two computers, the first with two sessions (a worker and the one    *)
(* started after it crashed).                                              *)
(***************************************************************************)
EXTENDS LocalHubCards, TLC

CONSTANTS c1, c2, c3, s1, s2, s3, n1, n2, x

MCCard == {c1, c2, c3}
MCSession == {s1, s2, s3}
MCNode == {n1, n2}
MCNodeOf == (s1 :> n1) @@ (s2 :> n1) @@ (s3 :> n2)
MCCode == {c1}
\* The second computer can run the second card only.
MCEligible == ({n1} \X MCCard) \cup {<<n2, c2>>}
MCScope == [s \in MCSession |-> MCCard]
MCDeclaredDeps == (c1 :> {}) @@ (c2 :> {}) @@ (c3 :> {c2})
MCTtl == (c1 :> 2) @@ (c2 :> 1) @@ (c3 :> 1)
MCContent == {x}

=============================================================================
