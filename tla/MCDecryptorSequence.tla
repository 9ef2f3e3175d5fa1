------------------------ MODULE MCDecryptorSequence ------------------------
(* Instances of DecryptorSequence for TLC. *)
EXTENDS DecryptorSequence

(* Every call for one to three units with a word of sixteen values.        *)
MCRequests ==
  [range_begin : UInt, range_end : UInt, num_threads : 1 .. 3]
=============================================================================
