------------------------------ MODULE FlatTree ------------------------------
(***************************************************************************)
(* flat_tree of seq/flat_map.hpp, the base of flat_set, flat_map and their *)
(* multi variants: a sorted tiered_vector.  A search goes over the back    *)
(* values stored with the buckets, then over one of the two pieces of a    *)
(* bucket.  The model follows keys that are stored by value, those up to   *)
(* 16 bytes that copy without throwing; others are reached by a pointer.   *)
(***************************************************************************)
EXTENDS RingVector, BinarySearch

CONSTANTS
  Types,        \* the instances of the template: unique, search, stable, and maxKey,
                \* a bound: keys are 1 .. maxKey, and 0 the default constructed one
  MaxSize       \* bound: keys in the container

FlatTreeAssumption ==
  /\ MaxSize \in Nat
  /\ Types \subseteq [unique : BOOLEAN, search : {"probe", "bisect", "compare"},
                     stable : BOOLEAN, maxKey : Nat]

VARIABLES type, d_deque

Unique == type.unique     \* sets and maps; or multisets and multimaps
Search == type.search     \* by the kind of key
Stable == type.stable     \* a template parameter: a stable sort of inserted ranges
Keys   == 1 .. type.maxKey

Init == type \in Types /\ d_deque = Vector(MinBSize)

-----------------------------------------------------------------------------
(***************************************************************************)
(* tvector_lower_bound.  An empty vector may still have a bucket, whose    *)
(* stored value is that of a key gone; whatever it is, 0 is found.         *)
(***************************************************************************)
Lookup(c) ==
  IF Search = "probe" THEN Probed(c, 1) ELSE Bisected(c, Search = "compare" /\ Unique)

\* Mutant: the key is behind the end of every buffer that has values there.
WrapsAlways(b, pastEnd) == b.begin # 0 /\ b.begin + b.size > b.cap

\* The key is behind the end of the buffer: past the value at its end.
Wraps(b, pastEnd) == b.begin # 0 /\ b.begin + b.size > b.cap /\ pastEnd

\* c[a] compares the key a with the searched one.
Find(t, c) ==
  LET k     == Lookup([j \in 0 .. Len(t.buckets) - 1 |-> c[t.buckets[j + 1].back]])
      b     == t.buckets[k + 1]
      low   == Wraps(b, c[b.slot[b.cap - 1]] < 0)
      from  == IF low THEN 0 ELSE b.begin
      n     == IF low THEN (b.begin + b.size) % b.cap ELSE Min({b.size, b.cap - b.begin})
      first == IF k = 0 THEN 0 ELSE t.buckets[1].size + (k - 1) * b.cap
  IN CASE t.size = 0                         -> 0
       [] t.size > 0 /\ k = Len(t.buckets)   -> t.size
       [] OTHER -> first + (IF low THEN b.cap - b.begin ELSE 0)
                         + Lookup([i \in 0 .. n - 1 |-> c[b.slot[from + i]]])

Comparable == 0 .. type.maxKey + 1

LowerBound(t, x) ==
  Find(t, [a \in Comparable |-> IF a < x THEN -1 ELSE IF a = x THEN 0 ELSE 1])
UpperBound(t, x) == Find(t, [a \in Comparable |-> IF a <= x THEN -1 ELSE 1])

HasKey(t, x) == LET p == LowerBound(t, x) IN p # t.size /\ ItemAt(t, p) = x

-----------------------------------------------------------------------------
(***************************************************************************)
(* emplace_pos, emplace_pos_hint, erase.                                   *)
(***************************************************************************)
AddKey(t, x) ==
  IF Unique /\ HasKey(t, x) THEN t
  ELSE Once(IF Unique THEN LowerBound(t, x) ELSE UpperBound(t, x), LAMBDA pos : Insert(t, pos, x))

\* The key belongs right before the hint.
HintHolds(t, hint, x) ==
  /\ hint < t.size
  /\ x < ItemAt(t, hint)
  /\ IF Unique THEN hint = 0 \/ ItemAt(t, hint - 1) < x
     ELSE hint # 0 /\ ItemAt(t, hint - 1) <= x

AddKeyAt(t, hint, x) == IF HintHolds(t, hint, x) THEN Insert(t, hint, x) ELSE AddKey(t, x)

\* Mutant: one of equal keys would be erased.
EraseOne(t, x) == IF HasKey(t, x) THEN EraseAt(t, LowerBound(t, x)) ELSE t

EraseKey(t, x) ==
  IF Unique THEN IF HasKey(t, x) THEN Once(LowerBound(t, x), LAMBDA pos : EraseAt(t, pos)) ELSE t
  ELSE Once(<<LowerBound(t, x), UpperBound(t, x)>>, LAMBDA p : EraseRange(t, p[1], p[2]))

(***************************************************************************)
(* BucketManager::sort, from the bucket of a position on: the first bucket *)
(* is filled from the last, the last made to begin at its first slot, and  *)
(* then the buffers are sorted as they lie in memory.                      *)
(***************************************************************************)
Filled(t) ==
  LET Step(r) == IF Len(r.buckets) > 1 /\ ~Full(Head(r.buckets))
                 THEN PushFront(PopBack(r), BackOf(Last(r.buckets))) ELSE r
  IN Repeat(Step, t, t.bsize)

Rewound(b) ==
  LET Step(r) == IF r.begin # 0 THEN EmplaceFront(DropBack(r), BackOf(r)) ELSE r
  IN IF Full(b) THEN b ELSE Repeat(Step, b, b.cap)

InMemory(b) == [i \in 1 .. b.size |-> b.slot[i - 1]]

(***************************************************************************)
(* The buckets are counted before the first one is filled.  If that takes  *)
(* all values of the last, the list of sorted buckets has an entry for     *)
(* none, which inplace_merge dereferences: the code does not survive it.   *)
(***************************************************************************)
FillLosesBucket(t, start) ==
  BucketOf(t, start) = 0 /\ Len(Filled(t).buckets) < Len(t.buckets)

\* Sorts of the other vectors.
SortBuckets(t, start) ==
  LET k       == BucketOf(t, start) + 1
      filled  == IF k = 1 THEN Filled(t) ELSE t
      ready   == [filled EXCEPT !.buckets[Len(filled.buckets)] = Rewound(@)]
      before  == IF k = 1 THEN 0 ELSE t.buckets[1].size + (k - 2) * t.bsize
      sorted  == SortSeq(FlattenSeq([j \in 1 .. Len(ready.buckets) - k + 1 |->
                                       InMemory(ready.buckets[k + j - 1])]), <)
      Part(j) == SubSeq(sorted, (j - k) * t.bsize + 1, Min({(j - k + 1) * t.bsize, Len(sorted)}))
  IN [ready EXCEPT !.buckets = [j \in DOMAIN @ |->
       IF j < k THEN @[j] ELSE Update(RingOf(t.bsize, Part(j)))]]

SortFrom(t, start) ==
  IF Stable
  THEN LET s == Values(t)
       IN Overwrite(t, SubSeq(s, 1, start) \o SortSeq(SubSeq(s, start + 1, Len(s)), <))
  ELSE SortBuckets(t, start)

Ascending(K) == [i \in 1 .. Cardinality(K) |-> CHOOSE k \in K : Cardinality({l \in K : l < k}) = i - 1]

\* std::unique, then the rest is erased.
WithoutDoubles(t) ==
  LET s == Values(t)
      u == Ascending(ToSet(s))
  IN IF Unique THEN EraseRange(Overwrite(t, u), Len(u), Len(s)) ELSE t

InOrder(s) == \A i \in 1 .. Len(s) - 1 : s[i] <= s[i + 1]

Assigned(t, s) == Overwrite(Resize(t, Len(s), 0), s)
Appended(t, s) == Overwrite(Resize(t, t.size + Len(s), 0), Values(t) \o s)

AssignRange(t, s) ==
  IF s = <<>> THEN Cleared(t)
  ELSE Once(Assigned(t, s), LAMBDA r :
         UpdateAll(Once(IF InOrder(s) THEN r ELSE SortFrom(r, 0), WithoutDoubles)))

AddRange(t, s) ==
  IF s = <<>> THEN t
  ELSE IF t.size = 0 THEN AssignRange(t, s)
  ELSE Once(SortFrom(Appended(t, s), t.size), LAMBDA sorted :
         Once(Overwrite(sorted, SortSeq(Values(sorted), <)), LAMBDA merged :
           UpdateAll(WithoutDoubles(merged))))

\* The calls whose sort loses a bucket.
AssignCrashes(t, s) ==
  s # <<>> /\ ~InOrder(s) /\ ~Stable /\ FillLosesBucket(Assigned(t, s), 0)

AddCrashes(t, s) ==
  IF t.size = 0 THEN AssignCrashes(t, s)
  ELSE s # <<>> /\ ~Stable /\ FillLosesBucket(Appended(t, s), t.size)

(***************************************************************************)
(* merge() of a set with one of the keys K: the result goes to a new       *)
(* vector, sized before it is filled, and cut if keys were in both.  The   *)
(* stored back values are those of the default constructed keys unless the *)
(* cut stores them again.                                                  *)
(***************************************************************************)
Merged(t, K) ==
  LET s   == Ascending(ToSet(Values(t)) \cup K)
      n   == t.size + Cardinality(K)
  IN EraseRange(Overwrite(Resize(Vector(MinBSize), n, 0), s), Len(s), n)

-----------------------------------------------------------------------------
Becomes(r) == r.size <= MaxSize /\ d_deque' = r /\ UNCHANGED type

CallEmplace     == \E x \in Keys : Becomes(AddKey(d_deque, x))
CallEmplaceHint == \E x \in Keys : \E hint \in 0 .. d_deque.size : Becomes(AddKeyAt(d_deque, hint, x))
CallErase       == \/ \E x \in Keys : Becomes(EraseKey(d_deque, x))
                   \/ \E pos \in 0 .. d_deque.size - 1 : Becomes(EraseAt(d_deque, pos))
CallEraseRange  == \E i \in 0 .. d_deque.size : \E j \in i .. d_deque.size : Becomes(EraseRange(d_deque, i, j))
CallClear       == Becomes(Cleared(d_deque))

\* bound: ranges of up to three keys are inserted, and of all in turn assigned
Ranges == {s \in UNION {[1 .. n -> Keys] : n \in 0 .. 3} : Len(s) <= MaxSize}
CallInsertRange == \E s \in Ranges :
                     /\ d_deque.size + Len(s) <= MaxSize /\ ~AddCrashes(d_deque, s)
                     /\ Becomes(AddRange(d_deque, s))
CallAssign      == \E s \in Ranges : ~AssignCrashes(d_deque, s) /\ Becomes(AssignRange(d_deque, s))

\* A merge of disjoint sets leaves stored back values behind.
CallMerge == \E K \in SUBSET Keys :
               /\ Unique /\ d_deque.size + Cardinality(K) <= MaxSize
               /\ K \cap ToSet(Values(d_deque)) # {}
               /\ Becomes(Merged(d_deque, K))

Next ==
  \/ CallEmplace \/ CallEmplaceHint \/ CallErase \/ CallEraseRange
  \/ CallClear \/ CallInsertRange \/ CallAssign \/ CallMerge

vars == <<type, d_deque>>
Spec == Init /\ [][Next]_vars

-----------------------------------------------------------------------------
\* Properties.

(***************************************************************************)
(* A search by the stored back values and in one piece of a bucket returns *)
(* the position that all keys before it, and none after it, come before.   *)
(***************************************************************************)
Finds(t) ==
  LET s == Values(t)
  IN \A x \in Comparable :
       /\ LowerBound(t, x) = Cardinality({i \in DOMAIN s : s[i] < x})
       /\ UpperBound(t, x) = Cardinality({i \in DOMAIN s : s[i] <= x})

BoundsExact == Finds(d_deque)

(***************************************************************************)
(* Every call that does not crash adds and removes the keys it says.       *)
(***************************************************************************)
SortedUp(s) == IF Unique THEN Ascending(ToSet(s)) ELSE SortSeq(s, <)

ChangesKeys ==
  LET t == d_deque
      s == Values(t)
  IN
  /\ \A x \in Keys :
       /\ Values(AddKey(t, x)) = SortedUp(Append(s, x))
       /\ \A hint \in 0 .. t.size : Values(AddKeyAt(t, hint, x)) = SortedUp(Append(s, x))
       /\ Values(EraseKey(t, x)) = SelectSeq(s, LAMBDA y : y # x)
  /\ \A r \in Ranges :
       /\ ~AddCrashes(t, r) => Values(AddRange(t, r)) = SortedUp(s \o r)
       /\ ~AssignCrashes(t, r) => Values(AssignRange(t, r)) = SortedUp(r)
=============================================================================
