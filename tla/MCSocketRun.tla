---------------------------- MODULE MCSocketRun ----------------------------
(* Instances of SocketRun for TLC: the keys are 1 and 2, and the units     *)
(* share a key, as neighbours in DecryptorSequence do.                     *)
EXTENDS SocketRun

MCArgs == [u \in Unit |-> IF u = 0 THEN <<2>> ELSE <<1, 2>>]

MCKind == [u \in Unit |-> IF u = 1 THEN "multiple" ELSE "map"]

MCKey == 1 .. 2

(* Nobody succeeds, one unit does and goes on, both do with their last key. *)
MCExpectedSets == {{}, {1}, {2}}

(* All generators end.                                                     *)
MCEndlessSets == {{}}
=============================================================================
