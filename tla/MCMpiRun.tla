------------------------------ MODULE MCMpiRun ------------------------------
(* Instances of MpiRun for TLC: three callables, one of them a             *)
(* MultipleCallable, and one to three ranks, so that a rank has up to      *)
(* three callables.  Neighbours share a key, as in DecryptorSequence.      *)
EXTENDS MpiRun

MCArgs == [u \in Unit |-> CASE u = 0 -> <<1, 0>> [] u = 1 -> <<1, 2>> [] u = 2 -> <<3, 2>>]

MCKind == [u \in Unit |-> IF u = 1 THEN "multiple" ELSE "map"]

MCKey == 0 .. 3

(* Nobody succeeds, one callable does, two neighbours do, all three do.    *)
MCExpectedSets == {{}, {3}, {1}, {2}, {1, 2}}

(* Either all generators end, or that of one callable does not.            *)
MCEndlessSets == {{}, {2}}
=============================================================================
