--------------------------- MODULE MCChainingTable ---------------------------
(***************************************************************************)
(* ChainingTable on small instances.  The threads are interchangeable and  *)
(* so are the addresses of arrays; the keys are their own hash values.     *)
(***************************************************************************)
EXTENDS ChainingTable, TLC

Symmetry == Permutations(Threads) \cup Permutations(ArrayIds)
=============================================================================
