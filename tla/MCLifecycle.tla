---------------------------- MODULE MCLifecycle ----------------------------
(* An instance of Lifecycle for TLC: two runners, one after the other or   *)
(* together, two simple callables and a MultipleCallable.                  *)
EXTENDS Lifecycle, TLC

CONSTANTS r1, r2, c1, c2, m1

MCRunner == {r1, r2}

MCSimple == {c1, c2}

MCMultiple == {m1}

Symmetry == Permutations(MCRunner) \cup Permutations(MCSimple)
=============================================================================
