---------------------------- MODULE MCOrderedTable ----------------------------
(***************************************************************************)
(* OrderedTable for TLC: the homes in a table of four buckets are the last *)
(* two, so that probes collide and wrap; three keys share theirs in a      *)
(* table of eight, which makes it linear, and two of them beyond.          *)
(***************************************************************************)
EXTENDS OrderedTable

MCHash == [k \in Keys |-> CASE k <= 2 -> 2 [] k = 3 -> 10 [] OTHER -> 3]
=============================================================================
