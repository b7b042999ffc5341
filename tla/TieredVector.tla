---------------------------- MODULE TieredVector ----------------------------
(***************************************************************************)
(* seq::tiered_vector of seq/tiered_vector.hpp under calls of its member   *)
(* functions; what they do is in RingVector.                               *)
(***************************************************************************)
EXTENDS RingVector

CONSTANTS
  MaxSize,      \* bound: values
  Value         \* a value; the code does not look at values

TieredVectorAssumption == MaxSize \in Nat /\ Value # Raw

VARIABLE t

Init == t = Vector(MinBSize)

Sizes == 0 .. MaxSize
Becomes(r) == r.size <= MaxSize /\ t' = r

CallInsert         == \E pos \in 0 .. t.size : Becomes(Insert(t, pos, Value))
CallErase          == \E pos \in 0 .. t.size - 1 : Becomes(EraseAt(t, pos))
CallResize(n)      == Becomes(Resize(t, n, Value)) \/ Becomes(ResizeFront(t, n, Value))
CallInsertRange(n) == /\ t.size + n <= MaxSize
                      /\ \E pos \in 0 .. t.size :
                           Becomes(InsertRange(t, pos, Copies(n, Value), Value))
CallEraseRange     == \E i \in 0 .. t.size : \E j \in i + 1 .. t.size : Becomes(EraseRange(t, i, j))

\* An assignment of nothing clears the vector and then asks it for a bucket.
CallAssign(n)      == n > 0 /\ Becomes(Assign(t, Copies(n, Value), Value))
CallClear          == Becomes(Cleared(t))

\* A constructor throws: new buckets go with their values, filled ones stay.
ResizeThrows(n) ==
  \E done \in t.size .. n - 1 :
    LET r == Sized(t, n, Values(t))
        whole == IF r.buckets = <<>> THEN 0 ELSE Head(r.buckets).size
    IN (done - whole) % r.bsize = 0 /\ Becomes(FoldLeft(PushBack, r, Copies(done - t.size, Value)))

Next ==
  \/ CallInsert \/ CallErase \/ CallEraseRange \/ CallClear
  \/ \E n \in Sizes :
       CallResize(n) \/ CallInsertRange(n) \/ CallAssign(n) \/ ResizeThrows(n)

vars == <<t>>
Spec == Init /\ [][Next]_vars

-----------------------------------------------------------------------------
\* Properties.

(***************************************************************************)
(* All buckets but the first and the last are full, none is empty in a     *)
(* vector of several, and exactly the slots of the values have one: what   *)
(* the arithmetic of positions needs.                                      *)
(***************************************************************************)
BucketsFull ==
  LET b == t.buckets IN
  /\ \A k \in DOMAIN b :
       /\ b[k].cap = t.bsize /\ b[k].begin \in 0 .. t.bsize - 1
       /\ 1 < k /\ k < Len(b) => Full(b[k])
       /\ Len(b) > 1 => b[k].size > 0
       /\ \A i \in 0 .. t.bsize - 1 :
            b[k].slot[At(b[k], i)] = IF i < b[k].size THEN Value ELSE Raw
  /\ t.size = Len(Values(t))

(***************************************************************************)
(* Every call makes of the values what it promises, here in each state for *)
(* distinct values in its slots.  The values are found in their order, by  *)
(* their positions, and at the backs stored for a search.                  *)
(***************************************************************************)
Holds(r, s) ==
  /\ Values(r) = s
  /\ r.size = Len(s)
  /\ \A p \in 0 .. r.size - 1 : ItemAt(r, p) = s[p + 1]

HoldsBacks(r, s) ==
  Holds(r, s) /\ \A b \in ToSet(r.buckets) : b.size > 0 => b.back = BackOf(b)

KeepsPromise ==
  LET n == t.size
      s == [i \in 1 .. n |-> i]
      r == UpdateAll(Overwrite(t, s))
      v == 0
  IN
  /\ Holds(r, s)
  /\ \A pos \in 0 .. n : HoldsBacks(Insert(r, pos, v), Splice(s, pos, <<v>>))
  /\ \A pos \in 0 .. n - 1 : HoldsBacks(EraseAt(r, pos), Cut(s, pos, pos + 1))
  /\ \A i \in 0 .. n : \A j \in i + 1 .. n : HoldsBacks(EraseRange(r, i, j), Cut(s, i, j))
  /\ \A m \in Sizes :
       /\ HoldsBacks(Resize(r, m, v), ResizedTo(s, m, v))
       /\ HoldsBacks(ResizeFront(r, m, v), ResizedFrontTo(s, m, v))
       /\ LET new == [i \in 1 .. m |-> -i] IN
            /\ m > 0 => Holds(Assign(r, new, v), new)
            /\ n + m <= MaxSize =>
                 \A pos \in 0 .. n : Holds(InsertRange(r, pos, new, v), Splice(s, pos, new))
=============================================================================
