----------------------------- MODULE Evaluation -----------------------------
(***************************************************************************)
(* A value that an operation works out once and uses more than once.       *)
(***************************************************************************)
Once(v, F(_)) == CHOOSE y \in {F(x) : x \in {v}} : TRUE
=============================================================================
