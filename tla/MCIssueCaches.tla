---------------------------- MODULE MCIssueCaches ----------------------------
(* Instances of IssueCaches: issues created a second apart. *)
EXTENDS IssueCaches, TLC

Apart == [i \in Issues |-> i * 1000000]

Symmetry == Permutations(Requests)
=============================================================================
