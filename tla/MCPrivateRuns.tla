--------------------------- MODULE MCPrivateRuns ---------------------------
(***************************************************************************)
(* Two small fleets.  In the first, one private task that may spawn a      *)
(* child, two sessions of its target and one of another computer; in the   *)
(* second, two private tasks that share the queue of their target.         *)
(***************************************************************************)
EXTENDS PrivateRuns, TLC

CONSTANTS c1, c2, s1, s2, s3, n1, n2, r1, r2, r3, x

MCCard == {c1, c2}
MCSession == {s1, s2, s3}
MCNode == {n1, n2}
MCNodeOf == (s1 :> n1) @@ (s2 :> n1) @@ (s3 :> n2)
MCScope == [s \in MCSession |-> MCCard]
MCDeclaredDeps == [c \in MCCard |-> {}]
MCTtl == [c \in MCCard |-> 1]
MCContent == {x}

OneTask == {c1}
OneTarget == (c1 :> n1)
OneEligible == {<<n1, c1>>, <<n2, c2>>}
ThreeRuns == {r1, r2, r3}

\* Runs are interchangeable, and so are the two sessions of the target.
RunSymmetry == Permutations(ThreeRuns) \cup Permutations({s1, s2})
=============================================================================
