----------------------------- MODULE BucketChain -----------------------------
(***************************************************************************)
(* What is inside the buckets of a ChainingHashTable, seq/internal/        *)
(* concurrent_hash_table.hpp: a bucket is a node of NodeSize tiny hashes   *)
(* and values and, once that one is full, a chain of dense nodes.  One     *)
(* thread uses the table; module ChainingTable has the threads, and takes  *)
(* for granted what this module shows, that a bucket is a set of keys.     *)
(*                                                                         *)
(* The values can be moved without an exception, so that a rehash moves    *)
(* them, and moves them back when a dense node cannot be allocated.        *)
(***************************************************************************)
EXTENDS Integers, FiniteSets, SequencesExt

CONSTANTS
  Keys,
  HashOf,       \* the hash of each key
  TinyOf,       \* its tiny hash, never 0; two keys may have the same
  NodeSize,     \* values of the main node of a bucket: 15
  DenseSize,    \* values of a dense node: 7
  PerBucket,    \* values per bucket before a rehash: 16 * max_load_factor()
  MaxMask,      \* the largest mask tried
  Addresses,    \* addresses of dense nodes; a freed one comes back
  Null

Masks == {m \in 0 .. MaxMask : \E i \in 0 .. m : m + 1 = 2^i}

(***************************************************************************)
(* The main node of bucket i of the array of nodes a is <<a, i>>; array 0  *)
(* is the static node, which stands for no array, and a rehash goes from   *)
(* array 1 to array 2 or back.                                             *)
(***************************************************************************)
Main  == {1, 2} \X (0 .. MaxMask)
Nodes == Main \cup Addresses

BucketChainAssumption ==
  /\ HashOf \in [Keys -> Nat]
  /\ TinyOf \in [Keys -> 1 .. 255]
  /\ {NodeSize, DenseSize, PerBucket, MaxMask} \subseteq Nat \ {0}
  /\ \E i \in 1 .. 31 : MaxMask + 1 = 2^i
  /\ Null \notin Nodes \cup Keys
  /\ Addresses \cap Main = {}

VARIABLES
  node,         \* the nodes that are allocated
  array,        \* d_buckets and d_values
  mask,         \* d_hash_mask
  size,         \* d_size
  nextTarget,   \* d_next_target
  chainCount,   \* d_chain_count
  op,           \* the operation under way
  walk,         \* the loops of erase_if
  content       \* the keys a user has put into the table and not erased

vars == <<node, array, mask, size, nextTarget, chainCount, op, walk, content>>

\* key: what the rehash is for; mask, todo: where it goes, and the slots it has to move.
Op(pc, key, m, todo) == [pc |-> pc, key |-> key, mask |-> m, todo |-> todo]
NoOp == Op("idle", Null, 0, <<>>)

\* unasked: the keys that the functor of erase_if has not seen.
Walk(bucket, at, pos, prev, unasked) ==
  [bucket |-> bucket, at |-> at, pos |-> pos, prev |-> prev, unasked |-> unasked]
NoWalk == Walk(0, Null, 0, Null, {})

Init ==
  /\ node = <<>>
  /\ array = 0 /\ mask = 0
  /\ size = 0 /\ nextTarget = 0 /\ chainCount = 0
  /\ op = NoOp /\ walk = NoWalk
  /\ content = {}

-----------------------------------------------------------------------------
\* Nodes and chains, in the memory mem.

Capacity(n) == IF n \in Addresses THEN DenseSize ELSE NodeSize

Node(count, hashs, vals, left, right) ==
  [count |-> count, hashs |-> hashs, vals |-> vals, left |-> left, right |-> right]

NewNode(n, left) ==
  Node(0, [p \in 1 .. Capacity(n) |-> 0], [p \in 1 .. Capacity(n) |-> Null], left, Null)

\* A new array, of m + 1 buckets.
WithArray(mem, a, m) ==
  [n \in DOMAIN mem \cup ({a} \X (0 .. m)) |-> IF n \in DOMAIN mem THEN mem[n] ELSE NewNode(n, Null)]

Full(mem, n) == mem[n].count = Capacity(n)

\* A node and those on its right.
Chain(mem, n) ==
  LET c[d \in DOMAIN mem] == IF mem[d].right \in DOMAIN mem THEN <<d>> \o c[mem[d].right] ELSE <<d>>
  IN c[n]

\* The nodes a lookup, for_each and the destruction go through: no dense node if the main one has room.
NodesOf(mem, b) == IF Full(mem, b) THEN Chain(mem, b) ELSE <<b>>

Bucket(a, m, k) == <<a, HashOf[k] % (m + 1)>>

\* FindWithTh and the walk around it: it stops at the number of slots, not of values.
Find(mem, b, k) ==
  {s \in {<<n, p>> : n \in Range(NodesOf(mem, b)), p \in 1 .. NodeSize + DenseSize} :
     LET d == mem[s[1]] IN
     /\ s[2] <= Capacity(s[1]) /\ d.count > 0
     /\ d.hashs[s[2]] = TinyOf[k] /\ d.vals[s[2]] = k}

\* for_each over the buckets of an array, as the sequence of the slots.
Slots(mem, a, m) ==
  LET InNode(n)   == [p \in 1 .. mem[n].count |-> <<n, p>>]
      InBucket(b) == FlattenSeq([i \in DOMAIN NodesOf(mem, b) |-> InNode(NodesOf(mem, b)[i])])
  IN FlattenSeq([i \in 1 .. m + 1 |-> InBucket(<<a, i - 1>>)])

SetSlot(d, p, hash, k) ==
  Node(d.count, [d.hashs EXCEPT ![p] = hash], [d.vals EXCEPT ![p] = k], d.left, d.right)

Write(mem, n, p, k) == [mem EXCEPT ![n] = SetSlot(@, p, TinyOf[k], k)]

\* A value behind the others of a node; a node on its right.
WithValue(d, k) ==
  LET p == d.count + 1
  IN Node(p, [d.hashs EXCEPT ![p] = TinyOf[k]], [d.vals EXCEPT ![p] = k], d.left, d.right)

WithRight(d, r) == Node(d.count, d.hashs, d.vals, d.left, r)

WithNode(mem, a, left, last, k) ==
  [n \in DOMAIN mem \cup {a} |->
     IF n = a THEN WithValue(NewNode(a, left), k)
     ELSE IF n = last THEN WithRight(mem[n], a) ELSE mem[n]]

NeedsDense(mem, b) == Full(mem, Last(NodesOf(mem, b)))

\* Mutant: a new dense node does not get its link to the left.
PutUnlinked(mem, b, k) ==
  LET last == Last(NodesOf(mem, b)) IN
  IF ~NeedsDense(mem, b) THEN {[mem EXCEPT ![last] = WithValue(@, k)]}
  ELSE {WithNode(mem, a, b, last, k) : a \in Addresses \ DOMAIN mem}

\* FindInsertNode behind the search: the memories it can lead to.
Put(mem, b, k) ==
  LET last == Last(NodesOf(mem, b)) IN
  IF ~NeedsDense(mem, b) THEN {[mem EXCEPT ![last] = WithValue(@, k)]}
  ELSE {WithNode(mem, a, last, last, k) : a \in Addresses \ DOMAIN mem}

(***************************************************************************)
(* ++d_chain_count for a new dense node.  The counter is only compared     *)
(* with (mask + 1) / 32, so that values above ChainBound are all the same. *)
(***************************************************************************)
ChainBound == (MaxMask + 1) \div 32 + 1

Count(n, mem, b) == IF NeedsDense(mem, b) /\ n < ChainBound THEN n + 1 ELSE n

(***************************************************************************)
(* erase_from_bucket and erase_from_dense: the hole goes right, each node  *)
(* takes the last value of the next one, until the last node closes its    *)
(* hole; if that leaves a dense node empty it is freed.                    *)
(***************************************************************************)
TakeLastOf(d, p, r) == SetSlot(d, p, r.hashs[r.count], r.vals[r.count])

Shift(f, p, last, none) ==
  [q \in DOMAIN f |-> IF q < p THEN f[q] ELSE IF q < last THEN f[q + 1] ELSE none]

\* Mutant: the last value and its hash stay.
CloseHoleKeepsHash(d, p) ==
  Node(d.count - 1, Shift(d.hashs, p, d.count, d.hashs[d.count]),
       Shift(d.vals, p, d.count, d.vals[d.count]), d.left, d.right)

CloseHole(d, p) ==
  Node(d.count - 1, Shift(d.hashs, p, d.count, 0), Shift(d.vals, p, d.count, Null), d.left, d.right)

FreeIfEmpty(mem, n) ==
  IF n \in Addresses /\ mem[n].count = 0
  THEN Restrict([mem EXCEPT ![mem[n].left] = WithRight(@, Null)], DOMAIN mem \ {n})
  ELSE mem

EraseSlot(mem, n, p) ==
  LET last    == Last(Chain(mem, n))
      hole(d) == IF d = n THEN p ELSE mem[d].count
      After(d) == IF d = last THEN CloseHole(mem[d], hole(d))
                  ELSE TakeLastOf(mem[d], hole(d), mem[mem[d].right])
  IN FreeIfEmpty([d \in DOMAIN mem |-> IF d \in Range(Chain(mem, n)) THEN After(d) ELSE mem[d]], last)

\* destroy_buckets
Destroy(mem, a, m) ==
  Restrict(mem, DOMAIN mem \ UNION {Range(NodesOf(mem, <<a, i>>)) : i \in {j \in 0 .. m : a # 0}})

-----------------------------------------------------------------------------
(***************************************************************************)
(* emplace: a rehash if it is time, then the insertion, which may throw    *)
(* when it needs a dense node.                                             *)
(***************************************************************************)
MustRehash ==
  /\ size >= nextTarget
  /\ array = 0 \/ chainCount > (mask + 1) \div 32
  /\ mask < MaxMask

Insert(k) ==
  LET b == Bucket(array, mask, k) IN
  /\ IF Find(node, b, k) # {}
     THEN UNCHANGED <<node, chainCount, size, content>>
     ELSE \/ /\ node' \in Put(node, b, k)
             /\ chainCount' = Count(chainCount, node, b)
             /\ size' = size + 1
             /\ content' = content \cup {k}
          \/ /\ NeedsDense(node, b)
             /\ UNCHANGED <<node, chainCount, size, content>>
  /\ op' = NoOp
  /\ UNCHANGED <<array, mask, nextTarget, walk>>

NewArray == IF array = 1 THEN 2 ELSE 1

EnterRehash(m, k) ==
  /\ node' = WithArray(node, NewArray, m)
  /\ chainCount' = 0
  /\ op' = Op("move", k, m, IF array = 0 THEN <<>> ELSE Slots(node, array, mask))
  /\ UNCHANGED <<array, mask, size, nextTarget, walk, content>>

\* Mutant: the next mask is made as the next number of buckets would be.
EmplaceDoubles(k) ==
  /\ op.pc = "idle"
  /\ IF MustRehash THEN EnterRehash(IF size = 0 THEN 0 ELSE 2 * (mask + 1), k) ELSE Insert(k)

Emplace(k) ==
  /\ op.pc = "idle"
  /\ IF MustRehash THEN EnterRehash(IF size = 0 THEN 0 ELSE 2 * mask + 1, k) ELSE Insert(k)

EmplaceGoesOn ==
  /\ op.pc = "insert"
  /\ Insert(op.key)

Rehash(m) ==
  /\ op.pc = "idle"
  /\ m # mask \/ m = 0          \* rehash(0) does not look at the mask
  /\ EnterRehash(m, Null)

-----------------------------------------------------------------------------
(***************************************************************************)
(* rehash_internal, value by value                                         *)
(***************************************************************************)
Take(mem, s) == [mem EXCEPT ![s[1]] = SetSlot(@, s[2], 0, Null)]

\* What is left to do of the rehash.
ToDo(pc, todo) == Op(pc, op.key, op.mask, todo)

MoveValue ==
  LET s == Head(op.todo)
      k == node[s[1]].vals[s[2]]
      b == Bucket(NewArray, op.mask, k)
  IN /\ op.pc = "move" /\ op.todo # <<>>
     /\ node' \in {Take(mem, s) : mem \in Put(node, b, k)}
     /\ chainCount' = Count(chainCount, node, b)
     /\ op' = ToDo(op.pc, Tail(op.todo))
     /\ UNCHANGED <<array, mask, size, nextTarget, walk, content>>

EndRehash ==
  /\ op.pc = "move" /\ op.todo = <<>>
  /\ nextTarget' = (op.mask + 1) * PerBucket
  /\ array' = NewArray
  /\ mask' = op.mask
  /\ node' = Destroy(node, array, mask)
  /\ op' = IF op.key = Null THEN NoOp ELSE Op("insert", op.key, 0, <<>>)
  /\ UNCHANGED <<size, chainCount, walk, content>>

\* bad_alloc
MoveFails ==
  LET s == Head(op.todo) IN
  /\ op.pc = "move" /\ op.todo # <<>>
  /\ NeedsDense(node, Bucket(NewArray, op.mask, node[s[1]].vals[s[2]]))
  /\ op' = ToDo("back", Slots(node, NewArray, op.mask))
  /\ UNCHANGED <<node, array, mask, size, nextTarget, chainCount, walk, content>>

\* FindFreeSlotInNode: slots without a hash, in the first node that has some.
FreeSlots(b) ==
  LET c       == Chain(node, b)
      Free(n) == {<<n, p>> : p \in {q \in 1 .. Capacity(n) : node[n].hashs[q] = 0}}
      i       == CHOOSE j \in DOMAIN c : Free(c[j]) # {} /\ \A h \in 1 .. j - 1 : Free(c[h]) = {}
  IN Free(c[i])

\* move_back; the hash of a value that moved back stays.
Cleared(mem, s) == [mem EXCEPT ![s[1]] = SetSlot(@, s[2], @.hashs[s[2]], Null)]

MoveBack ==
  LET s == Head(op.todo)
      k == node[s[1]].vals[s[2]]
  IN /\ op.pc = "back" /\ op.todo # <<>>
     /\ LET free == FreeSlots(Bucket(array, mask, k)) IN
        \E f \in free : /\ \A g \in free : f[2] <= g[2]
                       /\ node' = Write(Cleared(node, s), f[1], f[2], k)
     /\ op' = ToDo(op.pc, Tail(op.todo))
     /\ UNCHANGED <<array, mask, size, nextTarget, chainCount, walk, content>>

RehashThrows ==
  /\ op.pc = "back" /\ op.todo = <<>>
  /\ node' = Destroy(node, NewArray, op.mask)
  /\ op' = NoOp
  /\ UNCHANGED <<array, mask, size, nextTarget, chainCount, walk, content>>

-----------------------------------------------------------------------------
Erase(k) ==
  /\ op.pc = "idle" /\ array # 0
  /\ \E s \in Find(node, Bucket(array, mask, k), k) : node' = EraseSlot(node, s[1], s[2])
  /\ size' = size - 1
  /\ content' = content \ {k}
  /\ UNCHANGED <<array, mask, nextTarget, chainCount, op, walk>>

\* Mutant: erase_if does not go to the most right node.
FirstDense(b) == NodesOf(node, b)[IF Len(NodesOf(node, b)) > 1 THEN 2 ELSE 1]

MostRight(b) == Last(NodesOf(node, b))

\* The loops at the last value of node n; prev is read before a value is erased.
AtNode(b, n, unasked) == Walk(b, n, node[n].count, node[n].left, unasked)

EraseIf ==
  /\ op.pc = "idle" /\ array # 0
  /\ op' = Op("erase_if", Null, 0, <<>>)
  /\ walk' = AtNode(0, MostRight(<<array, 0>>), content)
  /\ UNCHANGED <<node, array, mask, size, nextTarget, chainCount, content>>

\* The functor is called, and says whether the value goes.
AskFunctor ==
  LET k == node[walk.at].vals[walk.pos] IN
  /\ op.pc = "erase_if" /\ walk.pos > 0
  /\ walk' = Walk(walk.bucket, walk.at, walk.pos - 1, walk.prev, walk.unasked \ {k})
  /\ \/ UNCHANGED <<node, size, content>>
     \/ /\ node' = EraseSlot(node, walk.at, walk.pos)
        /\ size' = size - 1
        /\ content' = content \ {k}
  /\ UNCHANGED <<array, mask, nextTarget, chainCount, op>>

NodeOnLeft ==
  /\ op.pc = "erase_if" /\ walk.pos = 0
  /\ \/ walk.prev # Null /\ walk' = AtNode(walk.bucket, walk.prev, walk.unasked) /\ UNCHANGED op
     \/ /\ walk.prev = Null /\ walk.bucket < mask
        /\ LET b == walk.bucket + 1 IN walk' = AtNode(b, MostRight(<<array, b>>), walk.unasked)
        /\ UNCHANGED op
     \/ /\ walk.prev = Null /\ walk.bucket = mask
        /\ op' = NoOp /\ walk' = Walk(0, Null, 0, Null, walk.unasked)
  /\ UNCHANGED <<node, array, mask, size, nextTarget, chainCount, content>>

\* d_chain_count stays.
Clear ==
  /\ op.pc = "idle" /\ array # 0
  /\ node' = Destroy(node, array, mask)
  /\ array' = 0 /\ mask' = 0
  /\ size' = 0 /\ nextTarget' = 0
  /\ content' = {}
  /\ UNCHANGED <<chainCount, op, walk>>

Next ==
  \/ \E k \in Keys : Emplace(k) \/ Erase(k)
  \/ EmplaceGoesOn
  \/ \E m \in Masks : Rehash(m)
  \/ MoveValue \/ EndRehash
  \/ MoveFails \/ MoveBack \/ RehashThrows
  \/ EraseIf \/ AskFunctor \/ NodeOnLeft
  \/ Clear

Spec == Init /\ [][Next]_vars
-----------------------------------------------------------------------------
\* Properties.

NodeType(n) ==
  [count : 0 .. Capacity(n), hashs : [1 .. Capacity(n) -> 0 .. 255],
   vals : [1 .. Capacity(n) -> Keys \cup {Null}],
   left : Nodes \cup {Null}, right : Addresses \cup {Null}]

(***************************************************************************)
(* The type invariant; a node never counts more values than it has room    *)
(* for, and the nodes that erase_if is at, and goes to next, are there.    *)
(***************************************************************************)
TypeOK ==
  /\ DOMAIN node \subseteq Nodes
  /\ \A n \in DOMAIN node : node[n] \in NodeType(n)
  /\ array \in 0 .. 2 /\ mask \in Masks
  /\ {size, nextTarget, chainCount} \subseteq Nat
  /\ content \subseteq Keys
  /\ op.pc \in {"idle", "move", "back", "insert", "erase_if"}
  /\ op.key \in Keys \cup {Null} /\ op.mask \in Masks /\ walk.unasked \subseteq Keys
  /\ op.todo \in Seq(Nodes \X Nat)
  /\ op.pc = "erase_if" =>
       /\ walk.bucket \in 0 .. mask /\ walk.pos \in 0 .. Capacity(walk.at)
       /\ walk.pos > 0 => walk.at \in DOMAIN node
       /\ walk.prev \in DOMAIN node \cup {Null}

(***************************************************************************)
(* The chains: a node with another one on its right is full, no dense node *)
(* is empty, the links to the left are those to the right reversed, and    *)
(* every dense node that is allocated is in the chain of one bucket:       *)
(* nothing dangles and nothing leaks, while both arrays of a rehash live   *)
(* and after one that failed.                                              *)
(***************************************************************************)
ChainShape ==
  LET Dense(b) == Range(Chain(node, b)) \ {b}
      Live     == DOMAIN node \cap Main
  IN /\ \A n \in DOMAIN node : LET r == node[n].right IN
          r # Null => r \in DOMAIN node /\ Full(node, n) /\ node[r].left = n /\ node[r].count > 0
     /\ DOMAIN node \cap Addresses = UNION {Dense(b) : b \in Live}
     /\ \A n \in Live : node[n].left = Null
     /\ Live = (IF array = 0 THEN {} ELSE {array} \X (0 .. mask)) \cup
               (IF op.pc \in {"move", "back"} THEN {NewArray} \X (0 .. op.mask) ELSE {})

(***************************************************************************)
(* Outside a rehash a lookup finds exactly the keys that were inserted and *)
(* not erased, each of them in one slot, and size() is their number: no    *)
(* sequence of insertions, erasures from any slot, rehashes and failed     *)
(* rehashes leaves a hash without its value, a value a lookup cannot see,  *)
(* or the ghost of an erased one.                                          *)
(***************************************************************************)
LookupFinds ==
  op.pc \notin {"move", "back"} =>
    /\ size = Cardinality(content)
    /\ \A k \in Keys :
         Cardinality(IF array = 0 THEN {} ELSE Find(node, Bucket(array, mask, k), k)) =
           IF k \in content THEN 1 ELSE 0

(***************************************************************************)
(* erase_if calls the functor on every value of the table once, though the *)
(* erasures move values between the nodes it walks over: the values it has *)
(* not been asked about are those in the slots the loops still have to     *)
(* reach.                                                                  *)
(***************************************************************************)
ValuesIn(ns) == UNION {{node[n].vals[p] : p \in 1 .. node[n].count} : n \in ns}

EraseIfAsksAll ==
  LET Upto(n) == {d \in DOMAIN node : n \in Range(Chain(node, d))}
  IN walk.unasked =
       IF op.pc # "erase_if" THEN {}
       ELSE {node[walk.at].vals[p] : p \in 1 .. walk.pos}
              \cup (IF walk.prev = Null THEN {} ELSE ValuesIn(Upto(walk.prev)))
              \cup ValuesIn(UNION {Range(Chain(node, <<array, b>>)) : b \in walk.bucket + 1 .. mask})
=============================================================================
