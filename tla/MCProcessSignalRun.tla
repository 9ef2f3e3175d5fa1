------------------------ MODULE MCProcessSignalRun ------------------------
(* Instances of ProcessSignalRun for TLC: the keys are 0 .. 3, and         *)
(* neighbouring units share a boundary key, as in DecryptorSequence.       *)
EXTENDS ProcessSignalRun

MCArgs == [u \in Unit |-> CASE u = 0 -> <<1, 0>> [] u = 1 -> <<1, 2>> [] u = 2 -> <<3, 2>>]

MCKind == [u \in Unit |-> IF u = 1 THEN "multiple" ELSE "map"]

MCKey == 0 .. 3

MCExpectedSets == SUBSET MCKey

(* Either all generators end, or that of one unit does not.                *)
MCEndlessSets == {{}, {2}}
=============================================================================
