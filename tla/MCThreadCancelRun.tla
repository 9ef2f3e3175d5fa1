------------------------- MODULE MCThreadCancelRun -------------------------
(* Instances of ThreadCancelRun for TLC: the keys are 0 .. 3, and         *)
(* neighbouring units share a boundary key, as in DecryptorSequence.       *)
EXTENDS ThreadCancelRun

MCArgs == [u \in Unit |-> IF u = 2 THEN <<3, 2>> ELSE <<u, u + 1>>]

MCKind == [u \in Unit |-> IF u = 1 THEN "multiple" ELSE "map"]

MCKey == 0 .. 3

MCExpectedSets == SUBSET MCKey

(* All generators end: a thread that has not set its running flag when the *)
(* winner looks at it is passed over, and goes on to the end of its own.   *)
MCNoEndless == {{}}
=============================================================================
