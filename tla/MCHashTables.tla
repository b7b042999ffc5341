----------------------------- MODULE MCHashTables -----------------------------
(***************************************************************************)
(* The hash tables as one thread uses them, one kind per behaviour:        *)
(* BucketChain, or OrderedTable; the other stays empty.                    *)
(*                                                                         *)
(* Of the chains, with two buckets one has three of the keys, and two of   *)
(* these have the same tiny hash.  In an ordered table of four buckets the *)
(* homes are the last two, so that probes collide and wrap; three keys     *)
(* share theirs in a table of eight, which makes it linear, and two of     *)
(* them beyond.                                                            *)
(***************************************************************************)
EXTENDS BucketChain

CONSTANT Kinds                          \* the tables of the run

VARIABLES
  kind,                                 \* the table of this behaviour
  seq, key, tab, past                   \* OrderedTable

orderedVars == <<seq, key, tab, past>>
allVars     == <<kind, vars, orderedVars>>

ChainHash   == [k \in 1 .. 5 |-> IF k <= 3 THEN 0 ELSE k - 3]
ChainTiny   == [k \in 1 .. 5 |-> IF k <= 2 THEN 7 ELSE k]
OrderedKeys == 1 .. 4
OrderedHash == [k \in 1 .. 4 |-> CASE k <= 2 -> 2 [] k = 3 -> 10 [] OTHER -> 3]

Ordered == INSTANCE OrderedTable WITH
  Keys <- OrderedKeys, Iterators <- OrderedKeys, MinMask <- 3, MaxDistance <- 2, LowDistance <- 1,
  LoadNum <- 3, LoadDen <- 5, Sizes <- {4, 8}, CopySizes <- {1, 3},
  HashOf <- OrderedHash

ASSUME HashTablesAssumption == BucketChainAssumption /\ Ordered!OrderedTableAssumption

InitOne == kind \in Kinds /\ Init /\ Ordered!Init

NextOne ==
  /\ UNCHANGED kind
  /\ \/ kind = "chains" /\ Next /\ UNCHANGED orderedVars
     \/ kind = "ordered" /\ Ordered!Next /\ UNCHANGED vars

SpecOne == InitOne /\ [][NextOne]_allVars

-----------------------------------------------------------------------------
\* The index of an ordered table has its shape, stored distances are real ones, nothing ends a
\* probe too early, and a lookup finds the keys of the sequence and no other (OrderedTable).
IndexIsSound == Ordered!TypeOK /\ Ordered!IndexIsSound /\ Ordered!LookupFinds

\* Of equal keys in a dirty sequence the first stays, in its place (OrderedTable).
DedupeKeepsFirst == Ordered!DedupeKeepsFirst
=============================================================================
