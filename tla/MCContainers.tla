---------------------------- MODULE MCContainers ----------------------------
(***************************************************************************)
(* The containers that are not hash tables on small instances, one kind of *)
(* container per behaviour; the others stay empty.  The state and the      *)
(* properties of DEVector are here as they are there.                      *)
(***************************************************************************)
EXTENDS DEVector

CONSTANTS
  Kinds,                            \* the containers of the run
  Hole,
  Count, MaxChunks, MaxIndex,       \* sequence
  MinBSize, MaxBSize, CheckBelow, CheckEvery, MaxSize,    \* tiered_vector
  MaxKey, MaxKeys,                  \* flat containers
  RadixKeys                         \* radix trees

VARIABLES
  kind,                             \* the container of this behaviour
  q, t, d_deque, d_data, range      \* and d of DEVector

allVars == <<kind, q, d, t, d_deque, d_data, range>>

\* Vectors of few values have small buckets, larger ones those of twice the size.
SmallBelow(n) == IF n < 7 THEN MinBSize ELSE MaxBSize
SmallKeys(n)  == IF n < 5 THEN MinBSize ELSE MaxBSize

List   == INSTANCE SequenceList WITH Value <- 1
Tiered == INSTANCE TieredVector WITH FindBSize <- SmallBelow

\* The instances of the templates that the kinds stand for, and of other kinds the first one.
TypeOf(types) == IF kind \in DOMAIN types THEN types[kind] ELSE types[CHOOSE k \in DOMAIN types : TRUE]
TypesIn(types) == {types[k] : k \in DOMAIN types}

\* Numbers, and keys with a three-way comparison; then equal keys, fewer of them.
FlatTypes ==
  [k \in {"flat_set", "flat_set of names", "flat_multiset"} |->
    [unique |-> k # "flat_multiset",
     search |-> CASE k = "flat_set" -> "probe" [] k = "flat_set of names" -> "compare" [] OTHER -> "bisect",
     stable |-> k = "flat_set of names",
     maxKey |-> CASE k = "flat_set" -> MaxKey [] k = "flat_set of names" -> MaxKey - 1 [] OTHER -> 2]]

Flat == INSTANCE FlatTree WITH FindBSize <- SmallKeys, MaxSize <- MaxKeys,
          Types <- TypesIn(FlatTypes), type <- TypeOf(FlatTypes)

\* A sorted tree of six bits, and one where keys share their hashes.
RadixTypes ==
  [k \in {"radix_set", "radix_hash_set"} |->
    [ordered |-> k = "radix_set",
     hash |-> [key \in RadixKeys |-> IF k = "radix_set" THEN key ELSE 2 * (key % 4)],
     hashBits |-> IF k = "radix_set" THEN 6 ELSE 3]]

Radix == INSTANCE RadixTree WITH Keys <- RadixKeys, NoKey <- -1, Arity <- 1, LeafCap <- 2,
           Types <- TypesIn(RadixTypes), type <- TypeOf(RadixTypes)

\* Sorts of a list, and of an array, where the network sorts blocks of eight.
SortTypes ==
  [k \in {"net_sort of a list", "net_sort of an array"} |->
    LET array == k = "net_sort of an array"
        Of(x, y) == IF array THEN x ELSE y
    IN [maxKey |-> Of(2, 3), maxLen |-> Of(10, 7), small |-> Of(8, 2), block |-> Of(8, 1), chunk |-> Of(8, 2),
        waves |-> 3, maxRuns |-> 3, unbalance |-> 2, randomAccess |-> array, relocatable |-> array,
        buffers |-> Of({0, 4, 16}, {0, 1, 2, 3})]]

Sort == INSTANCE NetSort WITH Types <- TypesIn(SortTypes), type <- TypeOf(SortTypes)

ASSUME ContainersAssumption ==
  /\ List!SequenceAssumption /\ DEVectorAssumption /\ Tiered!TieredVectorAssumption
  /\ Flat!FlatTreeAssumption /\ Radix!RadixTreeAssumption /\ Sort!NetSortAssumption

InitOne ==
  /\ kind \in Kinds
  /\ List!Init /\ Init /\ Tiered!Init /\ Flat!Init /\ Radix!Init /\ Sort!Init

NextOne ==
  \/ UNCHANGED kind /\ kind = "sequence" /\ List!Next /\ UNCHANGED <<d, t, d_deque, d_data, range>>
  \/ UNCHANGED kind /\ kind = "devector" /\ Next /\ UNCHANGED <<q, t, d_deque, d_data, range>>
  \/ UNCHANGED kind /\ kind = "tiered_vector" /\ Tiered!Next /\ UNCHANGED <<q, d, d_deque, d_data, range>>
  \/ UNCHANGED kind /\ kind \in DOMAIN FlatTypes /\ Flat!Next /\ UNCHANGED <<q, d, t, d_data, range>>
  \/ UNCHANGED kind /\ kind \in DOMAIN RadixTypes /\ Radix!Next /\ UNCHANGED <<q, d, t, d_deque, range>>
  \/ UNCHANGED kind /\ kind \in DOMAIN SortTypes /\ Sort!Next /\ UNCHANGED <<q, d, t, d_deque, d_data>>

SpecOne == InitOne /\ [][NextOne]_allVars

-----------------------------------------------------------------------------
\* The list of chunks with a free slot is exact (SequenceList).
FreeListExact == List!FreeListExact

\* The chunks hold values, have exact bounds and ordered numbers (SequenceList).
ChunksInOrder == List!ChunksInOrder

\* Iterators jump where they would step, and compare as their places do (SequenceList).
JumpsAgree == List!JumpsAgree

\* The arithmetic of positions has the full buckets it needs (TieredVector).
BucketsFull == Tiered!BucketsFull

\* Searches by the stored back values find exact bounds (FlatTree).
BoundsExact == kind \in DOMAIN FlatTypes => Flat!BoundsExact

\* Counts, prefixes and places of keys are those of the children (RadixTree).
TreeExact == kind \in DOMAIN RadixTypes => Radix!TreeExact

\* Every call makes of the values what it promises.
KeepsPromise ==
  CASE kind = "sequence"               -> List!KeepsPromise
    [] kind = "devector"               -> KeepsValues
    [] kind = "tiered_vector"          -> Tiered!KeepsPromise
    [] kind \in DOMAIN FlatTypes       -> Flat!ChangesKeys
    [] kind \in DOMAIN RadixTypes      -> Radix!KeepsPromise
    [] kind \in DOMAIN SortTypes       -> Sort!KeepsPromise

\* Below a directory whose prefix is compared there is a key (RadixTree).
AnyChildFinds == Radix!AnyChildFinds

\* Equal values of an array keep their order (NetSort).
SortsStably == Sort!SortsStably
=============================================================================
