------------------------- MODULE ChainingTableProofs -------------------------
(***************************************************************************)
(* Proofs about one shard of a concurrent table.  The inductive invariant  *)
(* CInv says which call is where, which locks it holds, and what it knows  *)
(* of the arrays, of the keys in them and of the counter.  With it every   *)
(* step of a shard is one of ConcurrentSet, or none.                       *)
(***************************************************************************)
EXTENDS ChainingTable, PowersOfTwo

-----------------------------------------------------------------------------
\* The inductive invariant.

(***************************************************************************)
(* The settings: with readers that really share a lock, the only calls     *)
(* that take it so are walks that change nothing; and calls run at the     *)
(* same time unless they clear() the table or their values fail to be      *)
(* allocated.                                                              *)
(***************************************************************************)
ReadersOnlyWalk == Shared => Ops \cap {"cvisit", "visit_all"} = {}
Concurrent      == "clear" \notin Ops /\ "values" \notin Failures

AllOps == Points \cup Walks \cup {"rehash", "clear"}

GetPlaces    == {"gn_locks", "gn_wait", "gn_global", "gn_again", "gn_mask", "gn_lock",
                 "gn_shared", "gn_check", "gn_update"}
NodePlaces   == GetPlaces \cup {"crit", "fin"}
InRehash     == {"rh_lock", "rh_start", "rh_bucket", "rh_move", "rh_store", "rh_mask",
                 "rh_unlock", "rh_unlock_failed", "rh_release", "rh_leave"}
RehashPlaces == InRehash \cup {"rh_enter", "rh_return"}
WalkPlaces   == {"wk_lock", "wk_start", "wk_bucket", "wk_visit", "wk_unlock", "wk_release"}
ClearPlaces  == {"cl_lock", "cl_start", "cl_bucket", "cl_mask", "cl_unlock", "cl_release"}
Places == {"idle", "ins_size", "ins_need"} \cup NodePlaces \cup RehashPlaces
            \cup WalkPlaces \cup ClearPlaces

Addresses == {Static} \cup ArrayIds
Counts    == 0 .. MaxMask + 1
Locals ==
  [op : AllOps \cup {"none"}, key : Keys \cup {0}, wait : BOOLEAN, hm : Masks, pos : Masks,
   lk : Locks, target : TableMasks, grow : BOOLEAN, s : Int, i : Counts, count : Counts,
   locks : BOOLEAN, new : Addresses, old : Addresses,
   res : {"pending", "found", "absent", "threw"}, seen : SUBSET Keys, stop : BOOLEAN]

Types ==
  /\ TypeOK
  /\ dMask \in TableMasks
  /\ pc \in [Threads -> Places]
  /\ loc \in [Threads -> Locals]

(***************************************************************************)
(* Which call is where, and what it knows of itself.                       *)
(***************************************************************************)
ControlOf(p, l) ==
  /\ p = "idle" => l = NoLocals
  /\ p # "idle" => l.op \in Ops
  /\ p \in NodePlaces => l.op \in Points
  /\ p \in {"ins_size", "ins_need"} => l.op = "insert"
  /\ p \in RehashPlaces => l.op \in {"insert", "rehash"}
  /\ p \in WalkPlaces => l.op \in Walks
  /\ p \in ClearPlaces => l.op = "clear"
  /\ p = "gn_shared" => l.op = "cvisit"
  /\ l.op \in Points => l.key \in Keys
  /\ l.op = "insert" /\ ~l.wait => p \in {"gn_mask", "gn_lock", "gn_check", "gn_update", "crit", "fin"}
  /\ p \in {"ins_size", "ins_need", "crit", "rh_enter", "rh_lock", "rh_start", "rh_bucket", "rh_move",
            "rh_store", "rh_mask", "rh_unlock"} \cup GetPlaces => l.res = "pending"
  /\ p = "fin" => l.res \in {"found", "absent"}
  /\ p = "rh_unlock_failed" => l.res = "threw"
  /\ p \in {"rh_release", "rh_leave", "rh_return"} => l.res \in {"pending", "threw"}
  /\ p = "rh_return" /\ l.op = "insert" => l.res = "threw"
  /\ p \in {"gn_shared", "gn_check", "gn_update"} => l.lk = l.pos
  /\ p \in {"gn_lock", "gn_shared", "gn_check", "gn_update"} => l.pos = Bucket(l.key, l.hm)
  /\ p \in {"rh_bucket", "rh_unlock", "rh_unlock_failed", "wk_bucket", "cl_bucket", "cl_unlock"} => l.i <= l.count
  /\ p \in {"rh_move", "wk_visit", "wk_unlock"} => l.i < l.count
  /\ p \in {"rh_store", "rh_mask", "cl_mask"} => l.i = l.count
  /\ p \in {"rh_unlock", "rh_unlock_failed", "cl_bucket", "cl_mask", "cl_unlock"} /\ ~l.locks => l.count = 0
  /\ p = "wk_lock" => l.i = 0 /\ l.seen = {} /\ ~l.stop
  /\ p \in {"wk_start", "cl_lock", "cl_start"} => l.i = 0 /\ l.seen = {} /\ ~l.stop
  /\ p \in {"wk_bucket", "wk_visit"} => ~l.stop

Control == \A t \in Threads : ControlOf(pc[t], loc[t])

(***************************************************************************)
(* The locks a thread holds, and how.                                      *)
(***************************************************************************)
Held(p, l) ==
  CASE p \in {"gn_check", "gn_update", "crit", "fin"} -> {l.lk}
    [] p \in {"gn_again", "rh_start", "rh_release", "wk_start", "wk_bucket", "wk_release",
              "cl_start", "cl_release"} -> {Rehash}
    [] p \in {"rh_bucket", "rh_store", "rh_mask", "cl_bucket", "cl_mask"} ->
         {Rehash} \cup (IF l.locks THEN 0 .. l.i - 1 ELSE {})
    [] p = "rh_move" -> {Rehash} \cup (IF l.locks THEN 0 .. l.i ELSE {})
    [] p \in {"wk_visit", "wk_unlock"} -> {Rehash} \cup (IF l.locks THEN {l.i} ELSE {})
    [] p \in {"rh_unlock", "rh_unlock_failed", "cl_unlock"} -> {Rehash} \cup l.i .. l.count - 1
    [] OTHER -> {}

Reads(l) == Shared /\ l.op = "cvisit_all"
Holders(l) == {t \in Threads : l \in Held(pc[t], loc[t])}
Readers(l) == {t \in Holders(l) : Reads(loc[t])}

LockExact(n) ==
  /\ lock[n].w => \E t \in Holders(n) : ~Reads(loc[t])
  /\ lock[n].r = Cardinality(Readers(n))
  /\ \A s, t \in Holders(n) : s # t => Reads(loc[s]) /\ Reads(loc[t])
  /\ Concurrent => \A t \in Holders(n) : ~Reads(loc[t]) => lock[n].w

LocksExact == \A n \in Locks : LockExact(n)

\* d_in_rehash is set exactly while one thread is in rehash_internal().
OneRehash ==
  /\ \A s, t \in Threads : pc[s] \in InRehash /\ pc[t] \in InRehash => s = t
  /\ inRehash <=> \E t \in Threads : pc[t] \in InRehash

(***************************************************************************)
(* What each thread knows of the table.                                    *)
(***************************************************************************)
NodeAt(p, l) ==
  /\ p \in {"gn_mask", "gn_lock", "gn_shared", "gn_check", "gn_update"} => haveLocks
  /\ p = "crit" => /\ l.lk = IF haveLocks THEN l.pos ELSE Rehash
                   /\ l.pos = Bucket(l.key, dMask)
  /\ l.op = "insert" =>
       /\ p \in {"gn_global", "gn_again", "crit"} => dBuckets # Static
       /\ p \in {"gn_mask", "gn_lock", "gn_check", "gn_update"} => l.wait \/ dBuckets # Static

\* The new array of a rehash that has not stored it yet: what it moved so far is in it.
Moves(l) ==
  /\ l.new \in ArrayIds \ {dBuckets}
  /\ arrays[l.new].mask = l.target
  /\ l.locks = haveLocks
  /\ l.count = LockedBuckets
  /\ dBuckets # Static => \A b \in 0 .. l.i - 1 : arrays[dBuckets].cells[b] = {}
  /\ \A k \in Content(l.new) : Bucket(k, dMask) < l.i

\* The old array of a rehash that has stored the new one.
Stored(l) ==
  /\ l.locks = haveLocks
  /\ dBuckets # Static
  /\ l.old # l.new
  /\ l.new \in ArrayIds
  /\ arrays[l.new].mask = l.target
  /\ l.old # Static => Content(l.old) = {}

RehashAt(p, l) ==
  /\ p \in {"rh_bucket", "rh_move"} => Moves(l)
  /\ p = "rh_store" => /\ l.locks = haveLocks
                       /\ l.new \in ArrayIds \ {l.old}
                       /\ arrays[l.new].mask = l.target
                       /\ {dBuckets, dValues} = {l.new, l.old}
                       /\ l.count = IF l.old # Static THEN dMask + 1 ELSE 0
                       /\ Concurrent /\ l.locks => l.old # Static
                       /\ l.old # Static => Content(l.old) = {} /\ arrays[l.old].mask = dMask
  /\ p = "rh_mask" => /\ Stored(l)
                      /\ dBuckets = l.new /\ dValues = l.new
                      /\ l.count = IF l.old # Static THEN dMask + 1 ELSE 0
                      /\ Concurrent /\ l.locks => l.old # Static
  /\ p = "rh_unlock" => /\ Stored(l)
                        /\ dBuckets = l.new

WalkAt(p, l, st) ==
  /\ p \in {"wk_bucket", "wk_visit", "wk_unlock"} =>
       dBuckets # Static /\ l.locks = haveLocks /\ l.count = dMask + 1
  /\ p \in WalkPlaces => st \subseteq Contents
  /\ p \in {"wk_bucket", "wk_visit"} =>
       /\ \A k \in l.seen : Bucket(k, dMask) < l.i
       /\ \A k \in st : Bucket(k, dMask) < l.i => k \in l.seen
  /\ p = "wk_unlock" =>
       /\ \A k \in l.seen : Bucket(k, dMask) <= l.i
       /\ ~l.stop => \A k \in st : Bucket(k, dMask) <= l.i => k \in l.seen
  /\ p = "wk_release" => l.stop \/ st \subseteq l.seen

ClearAt(p, l) ==
  /\ p = "cl_bucket" => /\ dBuckets # Static
                        /\ l.locks = haveLocks
                        /\ l.count = IF l.locks THEN dMask + 1 ELSE 0
  /\ p = "cl_mask" => dBuckets = Static /\ dValues = Static

Knows(p, l, st) ==
  /\ NodeAt(p, l)
  /\ RehashAt(p, l)
  /\ WalkAt(p, l, st)
  /\ ClearAt(p, l)

View(t) == Knows(pc[t], loc[t], steady[t])

Views == \A t \in Threads : View(t)

\* Where the arrays are, but for the moments at which they change.
Settled == \A t \in Threads : pc[t] \notin {"rh_store", "rh_mask", "cl_mask"}

TableShape ==
  /\ Settled => /\ dValues = dBuckets
                /\ dBuckets # Static => arrays[dBuckets].mask = dMask
  /\ \A a \in ArrayIds : arrays[a].mask = -1 => Content(a) = {}
  /\ \A a \in ArrayIds : Content(a) # {} =>
       \/ a = dBuckets
       \/ \E t \in Threads : pc[t] \in {"rh_bucket", "rh_move", "rh_store"} /\ a = loc[t].new
  /\ Concurrent /\ haveLocks => dBuckets # Static

Counted == IsFiniteSet(Contents) /\ SizeCounts

CInv ==
  /\ Types /\ Control /\ LocksExact /\ OneRehash /\ Views /\ TableShape /\ KeysInPlace /\ Counted

-----------------------------------------------------------------------------
\* Generalities.

LEMMA MaskFacts ==
  ASSUME TableAssumption
  PROVE  /\ TableMasks \subseteq Masks
         /\ Masks \subseteq Nat
         /\ 0 \in TableMasks
         /\ Masks \subseteq Locks
         /\ Rehash \in Locks
         /\ Rehash \notin Masks
         /\ Static \notin ArrayIds
<1>1. 0 \in TableMasks
  <2>1. 0 \in 0 .. 0 /\ 0 + 1 = 2 ^ 0
    BY PowerZero
  <2>2. \E n \in 0 .. 0 : 0 + 1 = 2 ^ n
    BY <2>1
  <2>3. 0 \in 0 .. MaxMask
    BY DEF TableAssumption
  <2>4. QED
    BY <2>2, <2>3 DEF TableMasks
<1>2. QED
  BY <1>1 DEF TableMasks, TableAssumption, Masks, Locks, Rehash

\* A table is doubled until it has all the buckets it may have.
LEMMA MaskDoubles ==
  ASSUME TableAssumption, NEW m \in TableMasks, m < MaxMask
  PROVE  2 * (m + 1) - 1 \in TableMasks
<1>1. PICK a \in 0 .. m : m + 1 = 2 ^ a
  BY DEF TableMasks
<1>2. PICK b \in 0 .. MaxMask : MaxMask + 1 = 2 ^ b
  BY DEF TableAssumption, TableMasks
<1>3. m \in Nat /\ MaxMask \in Nat /\ a \in Nat /\ b \in Nat
  BY DEF TableMasks, TableAssumption
<1>4. 2 ^ (a + 1) = 2 * (m + 1)
  BY <1>1, <1>3, PowerDoubles
<1>5. 2 ^ a \in Nat /\ 2 ^ b \in Nat /\ 2 ^ (b + 1) = 2 * 2 ^ b /\ 2 ^ (b + 1) \in Nat
  BY <1>3, PowerPositive, PowerDoubles
<1>6. a < b
  <2>1. SUFFICES ASSUME b <= a PROVE FALSE
    BY <1>3
  <2>2. CASE b = a
    BY <1>1, <1>2, <1>3, <2>2
  <2>3. CASE b < a
    <3>1. 2 ^ (b + 1) <= 2 ^ a
      BY <1>3, <2>3, PowerGrows
    <3>2. QED
      BY <1>1, <1>2, <1>3, <1>5, <3>1
  <2>4. QED
    BY <1>3, <2>1, <2>2, <2>3
<1>7. 2 * (m + 1) <= MaxMask + 1
  BY <1>2, <1>3, <1>4, <1>6, PowerGrows
<1>8. a + 1 \in 0 .. 2 * (m + 1) - 1
  <2>1. a + 1 < 2 ^ (a + 1)
    BY <1>3, PowerExceeds
  <2>2. QED
    BY <1>3, <1>4, <2>1
<1>9. QED
  BY <1>3, <1>4, <1>7, <1>8 DEF TableMasks

LEMMA BucketInMask ==
  ASSUME NEW k \in Nat, NEW m \in Nat
  PROVE  Bucket(k, m) \in 0 .. m
BY DEF Bucket

-----------------------------------------------------------------------------
(***************************************************************************)
(* What a step of thread t does to t: it goes to place p with locals l,    *)
(* takes or drops at most one lock, and enters or leaves rehash_internal().*)
(***************************************************************************)
TakeAs(l, n) ==
  /\ ~lock[n].w
  /\ IF Reads(l) THEN lock[n].r < 32 /\ lock' = [lock EXCEPT ![n].r = @ + 1]
                 ELSE lock[n].r = 0 /\ lock' = [lock EXCEPT ![n].w = TRUE]

DropAs(l, n) ==
  IF Reads(l) THEN lock' = [lock EXCEPT ![n].r = IF @ = 0 THEN 63 ELSE @ - 1]
              ELSE lock' = [lock EXCEPT ![n].w = FALSE]

LockStep(H, J, m, l) ==
  \/ lock' = lock /\ H = J /\ (l.op = m.op \/ H = {})
  \/ ~Concurrent /\ lock' = lock /\ H \subseteq J /\ ~Reads(l) /\ l.op = m.op
  \/ \E n \in Locks \ H : J = H \cup {n} /\ TakeAs(l, n) /\ l.op = m.op
  \/ \E n \in H : J = H \ {n} /\ DropAs(m, n) /\ (l.op = m.op \/ J = {})

FlagStep(q, p) ==
  \/ UNCHANGED inRehash /\ (q \in InRehash <=> p \in InRehash)
  \/ inRehash' = TRUE /\ IF inRehash THEN q \notin InRehash /\ p \notin InRehash
                              ELSE p \in InRehash
  \/ inRehash' = FALSE /\ q \in InRehash /\ p \notin InRehash

Move(t, p, l) ==
  /\ pc' = [pc EXCEPT ![t] = p]
  /\ loc' = [loc EXCEPT ![t] = l]
  /\ p \in Places
  /\ l \in Locals
  /\ ControlOf(p, l)
  /\ LockStep(Held(pc[t], loc[t]), Held(p, l), loc[t], l)
  /\ FlagStep(pc[t], p)

LEMMA LocalsOf ==
  ASSUME Types, Control, NEW t \in Threads
  PROVE  pc[t] \in Places /\ loc[t] \in Locals /\ ControlOf(pc[t], loc[t])
BY DEF Types, Control

\* A call takes and drops locks the way its operation holds them.
LEMMA TakesAsHeld ==
  ASSUME ReadersOnlyWalk, NEW t \in Threads, loc[t].op \in Ops, NEW n \in Locks
  PROVE  /\ Take(t, n) => TakeAs(loc[t], n)
         /\ Drop(t, n) => DropAs(loc[t], n)
         /\ TakeWrite(n) /\ loc[t].op \notin ReadOnly => TakeAs(loc[t], n)
         /\ DropWrite(n) /\ loc[t].op \notin ReadOnly => DropAs(loc[t], n)
         /\ TakeRead(n) /\ loc[t].op \in {"visit_all", "cvisit_all"} => TakeAs(loc[t], n)
         /\ DropRead(n) /\ loc[t].op \in {"visit_all", "cvisit_all"} => DropAs(loc[t], n)
         /\ TakeRead(n) /\ loc[t].op = "cvisit" => TakeAs(loc[t], n)
         /\ TakeWrite(n) /\ loc[t].op = "cvisit" => TakeAs(loc[t], n)
BY DEF ReadersOnlyWalk, Take, Drop, TakeRead, TakeWrite, DropRead, DropWrite, Unlocked, ReadOnly,
       TakeAs, DropAs, Reads

LEMMA BucketTyped ==
  ASSUME TableAssumption, NEW k \in Keys \cup {0}, NEW m \in Masks
  PROVE  Bucket(k, m) \in 0 .. m /\ Bucket(k, m) \in Masks
<1>1. k \in Nat /\ m \in Nat /\ m <= MaxMask /\ MaxMask \in Nat
  BY DEF TableAssumption, Masks
<1>2. Bucket(k, m) \in 0 .. m
  BY <1>1, BucketInMask
<1>3. QED
  BY <1>1, <1>2 DEF Masks

LEMMA TableTyped ==
  ASSUME TableAssumption, Types
  PROVE  /\ dMask \in Masks /\ dMask \in TableMasks /\ dMask \in Nat /\ dMask + 1 \in Counts
         /\ dBuckets \in Addresses /\ dValues \in Addresses
         /\ haveLocks \in BOOLEAN /\ inRehash \in BOOLEAN /\ dSize \in Int
         /\ MaxMask \in Nat /\ 0 \in Counts /\ 0 \in Masks
BY MaskFacts DEF Types, TypeOK, Masks, Counts, Addresses, TableAssumption

LEMMA IndexTyped ==
  ASSUME TableAssumption, NEW i \in Counts, NEW c \in Counts, i < c
  PROVE  i \in Masks /\ i \in Locks /\ i # Rehash /\ i + 1 \in Counts
BY DEF TableAssumption, Counts, Masks, Locks, Rehash

LEMMA NoLocalsTyped ==
  ASSUME TableAssumption
  PROVE  /\ NoLocals \in Locals /\ NoLocals.op = "none"
         /\ "idle" \in Places
         /\ ControlOf("idle", NoLocals)
<1>1. NoLocals \in Locals
  BY MaskFacts DEF NoLocals, Locals, Counts, Addresses, TableAssumption, AllOps
<1>2. NoLocals.op = "none"
  BY DEF NoLocals
<1>3. ControlOf("idle", NoLocals)
  BY <1>2 DEF ControlOf, Points, NodePlaces, GetPlaces, RehashPlaces, InRehash, WalkPlaces, ClearPlaces
<1>4. QED
  BY <1>1, <1>2, <1>3 DEF Places

LEMMA EndTyped ==
  ASSUME TableAssumption, NEW t \in Threads, loc[t] \in Locals
  PROVE  /\ EndOfRehash(t) \in Locals
         /\ EndOfRehash(t).op = loc[t].op
         /\ EndOfRehash(t).key = loc[t].key
         /\ EndOfRehash(t).wait = loc[t].wait
         /\ EndOfRehash(t).res = loc[t].res
<1>1. NoLocals \in Locals
  BY NoLocalsTyped
<1>2. QED
  BY <1>1 DEF EndOfRehash, Locals

-----------------------------------------------------------------------------
\* How each action moves its thread.

LEMMA CallPointMoves ==
  ASSUME TableAssumption, ReadersOnlyWalk, Types, Control, Views, NEW t \in Threads, NEW op \in Points, NEW k \in Keys,
         CallPoint(t, op, k)
  PROVE  Move(t, IF op \in Inserts THEN "ins_size" ELSE "gn_locks",
              [loc[t] EXCEPT !.op = op, !.key = k, !.wait = (op \in Inserts)])
<1> DEFINE m == loc[t]
           l == [m EXCEPT !.op = op, !.key = k, !.wait = (op \in Inserts)]
           p == IF op \in Inserts THEN "ins_size" ELSE "gn_locks"
<1>1. m \in Locals /\ ControlOf(pc[t], m)
  BY LocalsOf
<1>2. pc' = [pc EXCEPT ![t] = p] /\ loc' = [loc EXCEPT ![t] = l]
  BY <1>1 DEF CallPoint, Goto, Points, Walks, Inserts, NoLocals, AllOps, Types, Locals, TakeIfArray, DropIfArray
<1>3. p \in Places /\ l \in Locals
  <2>1. (op \in Inserts) \in BOOLEAN /\ op \in AllOps /\ k \in Keys \cup {0}
    BY DEF AllOps
  <2>2. l \in Locals
    BY <1>1, <2>1 DEF Locals
  <2>3. QED
    BY <2>2 DEF Places, NodePlaces, GetPlaces
<1>4. ControlOf(p, l)
  <2>1. m = NoLocals /\ op \in Ops
    BY <1>1 DEF CallPoint, Goto, ControlOf
  <2>2. l.op = op /\ l.key = k /\ l.wait = (op \in Inserts) /\ l.res = "pending"
    BY <2>1 DEF NoLocals
  <2> HIDE DEF l
  <2>3. p \in {"ins_size", "gn_locks"} /\ (p = "ins_size" <=> op = "insert")
    BY DEF Inserts
  <2> HIDE DEF p
  <2>4. QED
    BY <2>1, <2>2, <2>3 DEF ControlOf, Points, Inserts, NodePlaces, GetPlaces, RehashPlaces, InRehash, WalkPlaces, ClearPlaces
<1>5. LockStep(Held(pc[t], m), Held(p, l), m, l)
  <2>1. lock' = lock
    BY DEF CallPoint, Goto, Points, Walks, Inserts, NoLocals, AllOps
  <2>2. Held(pc[t], m) = Held(p, l)
    BY <1>1 DEF CallPoint, Goto, Points, Walks, Inserts, NoLocals, AllOps, Held, ControlOf, Locals, Counts
  <2>3. l.op = m.op \/ Held(pc[t], m) = {}
    BY <1>1 DEF CallPoint, Goto, Points, Walks, Inserts, NoLocals, AllOps, Held, ControlOf, Locals
  <2>4. QED
    BY <2>1, <2>2, <2>3 DEF LockStep
<1>6. FlagStep(pc[t], p)
  BY TableTyped DEF CallPoint, Goto, Points, Walks, Inserts, NoLocals, AllOps, FlagStep, InRehash
<1>7. QED
  BY <1>2, <1>3, <1>4, <1>5, <1>6 DEF Move

LEMMA CallWalkMoves ==
  ASSUME TableAssumption, ReadersOnlyWalk, Types, Control, Views, NEW t \in Threads, NEW op \in Walks,
         CallWalk(t, op)
  PROVE  Move(t, "wk_lock",
              [loc[t] EXCEPT !.op = op])
<1> DEFINE m == loc[t]
           l == [m EXCEPT !.op = op]
           p == "wk_lock"
<1>1. m \in Locals /\ ControlOf(pc[t], m)
  BY LocalsOf
<1>2. pc' = [pc EXCEPT ![t] = p] /\ loc' = [loc EXCEPT ![t] = l]
  BY <1>1 DEF CallWalk, Goto, Points, Walks, Inserts, NoLocals, AllOps, Types, Locals, TakeIfArray, DropIfArray
<1>3. p \in Places /\ l \in Locals
  BY <1>1, MaskFacts, TableTyped DEF CallWalk, Goto, Points, Walks, Inserts, NoLocals, AllOps, Locals, Counts, ControlOf, HeldBuckets, Places, NodePlaces, GetPlaces, RehashPlaces, InRehash, WalkPlaces, ClearPlaces
<1>4. ControlOf(p, l)
  BY <1>1, MaskFacts, TableTyped DEF CallWalk, Goto, Points, Walks, Inserts, NoLocals, AllOps, ControlOf, Locals, Counts, HeldBuckets, Places, NodePlaces, GetPlaces, RehashPlaces, InRehash, WalkPlaces, ClearPlaces
<1>5. LockStep(Held(pc[t], m), Held(p, l), m, l)
  <2>1. lock' = lock
    BY DEF CallWalk, Goto, Points, Walks, Inserts, NoLocals, AllOps
  <2>2. Held(pc[t], m) = Held(p, l)
    BY <1>1 DEF CallWalk, Goto, Points, Walks, Inserts, NoLocals, AllOps, Held, ControlOf, Locals, Counts
  <2>3. l.op = m.op \/ Held(pc[t], m) = {}
    BY <1>1 DEF CallWalk, Goto, Points, Walks, Inserts, NoLocals, AllOps, Held, ControlOf, Locals
  <2>4. QED
    BY <2>1, <2>2, <2>3 DEF LockStep
<1>6. FlagStep(pc[t], p)
  BY TableTyped DEF CallWalk, Goto, Points, Walks, Inserts, NoLocals, AllOps, FlagStep, InRehash
<1>7. QED
  BY <1>2, <1>3, <1>4, <1>5, <1>6 DEF Move

LEMMA CallRehashMoves ==
  ASSUME TableAssumption, ReadersOnlyWalk, Types, Control, Views, NEW t \in Threads, NEW mask \in RehashMasks,
         CallRehash(t, mask)
  PROVE  Move(t, "rh_enter",
              [loc[t] EXCEPT !.op = "rehash", !.target = mask])
<1> DEFINE m == loc[t]
           l == [m EXCEPT !.op = "rehash", !.target = mask]
           p == "rh_enter"
<1>1. m \in Locals /\ ControlOf(pc[t], m)
  BY LocalsOf
<1>2. pc' = [pc EXCEPT ![t] = p] /\ loc' = [loc EXCEPT ![t] = l]
  BY <1>1 DEF CallRehash, Goto, Points, Walks, Inserts, NoLocals, AllOps, Types, Locals, TakeIfArray, DropIfArray
<1>3. p \in Places /\ l \in Locals
  <2>1. mask \in TableMasks
    BY DEF TableAssumption
  <2>2. l \in Locals
    BY <1>1, <2>1 DEF Locals, AllOps
  <2>3. QED
    BY <2>2 DEF Places, RehashPlaces
<1>4. ControlOf(p, l)
  BY <1>1, MaskFacts, TableTyped DEF CallRehash, Goto, Points, Walks, Inserts, NoLocals, AllOps, ControlOf, Locals, Counts, HeldBuckets, Places, NodePlaces, GetPlaces, RehashPlaces, InRehash, WalkPlaces, ClearPlaces
<1>5. LockStep(Held(pc[t], m), Held(p, l), m, l)
  <2>1. lock' = lock
    BY DEF CallRehash, Goto, Points, Walks, Inserts, NoLocals, AllOps
  <2>2. Held(pc[t], m) = Held(p, l)
    BY <1>1 DEF CallRehash, Goto, Points, Walks, Inserts, NoLocals, AllOps, Held, ControlOf, Locals, Counts
  <2>3. l.op = m.op \/ Held(pc[t], m) = {}
    BY <1>1 DEF CallRehash, Goto, Points, Walks, Inserts, NoLocals, AllOps, Held, ControlOf, Locals
  <2>4. QED
    BY <2>1, <2>2, <2>3 DEF LockStep
<1>6. FlagStep(pc[t], p)
  BY TableTyped DEF CallRehash, Goto, Points, Walks, Inserts, NoLocals, AllOps, FlagStep, InRehash
<1>7. QED
  BY <1>2, <1>3, <1>4, <1>5, <1>6 DEF Move

LEMMA CallClearMoves ==
  ASSUME TableAssumption, ReadersOnlyWalk, Types, Control, Views, NEW t \in Threads,
         CallClear(t)
  PROVE  Move(t, "cl_lock",
              [loc[t] EXCEPT !.op = "clear"])
<1> DEFINE m == loc[t]
           l == [m EXCEPT !.op = "clear"]
           p == "cl_lock"
<1>1. m \in Locals /\ ControlOf(pc[t], m)
  BY LocalsOf
<1>2. pc' = [pc EXCEPT ![t] = p] /\ loc' = [loc EXCEPT ![t] = l]
  BY <1>1 DEF CallClear, Goto, Points, Walks, Inserts, NoLocals, AllOps, Types, Locals, TakeIfArray, DropIfArray
<1>3. p \in Places /\ l \in Locals
  BY <1>1, MaskFacts, TableTyped DEF CallClear, Goto, Points, Walks, Inserts, NoLocals, AllOps, Locals, Counts, ControlOf, HeldBuckets, Places, NodePlaces, GetPlaces, RehashPlaces, InRehash, WalkPlaces, ClearPlaces
<1>4. ControlOf(p, l)
  BY <1>1, MaskFacts, TableTyped DEF CallClear, Goto, Points, Walks, Inserts, NoLocals, AllOps, ControlOf, Locals, Counts, HeldBuckets, Places, NodePlaces, GetPlaces, RehashPlaces, InRehash, WalkPlaces, ClearPlaces
<1>5. LockStep(Held(pc[t], m), Held(p, l), m, l)
  <2>1. lock' = lock
    BY DEF CallClear, Goto, Points, Walks, Inserts, NoLocals, AllOps
  <2>2. Held(pc[t], m) = Held(p, l)
    BY <1>1 DEF CallClear, Goto, Points, Walks, Inserts, NoLocals, AllOps, Held, ControlOf, Locals, Counts
  <2>3. l.op = m.op \/ Held(pc[t], m) = {}
    BY <1>1 DEF CallClear, Goto, Points, Walks, Inserts, NoLocals, AllOps, Held, ControlOf, Locals
  <2>4. QED
    BY <2>1, <2>2, <2>3 DEF LockStep
<1>6. FlagStep(pc[t], p)
  BY TableTyped DEF CallClear, Goto, Points, Walks, Inserts, NoLocals, AllOps, FlagStep, InRehash
<1>7. QED
  BY <1>2, <1>3, <1>4, <1>5, <1>6 DEF Move

LEMMA LoadLocksMoves ==
  ASSUME TableAssumption, ReadersOnlyWalk, Types, Control, Views, NEW t \in Threads,
         LoadLocks(t)
  PROVE  Move(t, IF haveLocks THEN "gn_mask" ELSE "gn_wait",
              loc[t])
<1> DEFINE m == loc[t]
           l == m
           p == IF haveLocks THEN "gn_mask" ELSE "gn_wait"
<1>1. m \in Locals /\ ControlOf(pc[t], m)
  BY LocalsOf
<1>2. pc' = [pc EXCEPT ![t] = p] /\ loc' = [loc EXCEPT ![t] = l]
  BY <1>1 DEF LoadLocks, Goto, Types, Locals, TakeIfArray, DropIfArray
<1>3. p \in Places /\ l \in Locals
  BY <1>1, MaskFacts, TableTyped DEF LoadLocks, Goto, Locals, Counts, ControlOf, HeldBuckets, Places, NodePlaces, GetPlaces, RehashPlaces, InRehash, WalkPlaces, ClearPlaces
<1>4. ControlOf(p, l)
  BY <1>1, MaskFacts, TableTyped DEF LoadLocks, Goto, ControlOf, Locals, Counts, HeldBuckets, Places, NodePlaces, GetPlaces, RehashPlaces, InRehash, WalkPlaces, ClearPlaces
<1>5. LockStep(Held(pc[t], m), Held(p, l), m, l)
  <2>1. lock' = lock
    BY DEF LoadLocks, Goto
  <2>2. Held(pc[t], m) = Held(p, l)
    BY <1>1 DEF LoadLocks, Goto, Held, ControlOf, Locals, Counts
  <2>3. l.op = m.op \/ Held(pc[t], m) = {}
    BY <1>1 DEF LoadLocks, Goto, Held, ControlOf, Locals
  <2>4. QED
    BY <2>1, <2>2, <2>3 DEF LockStep
<1>6. FlagStep(pc[t], p)
  BY TableTyped DEF LoadLocks, Goto, FlagStep, InRehash
<1>7. QED
  BY <1>2, <1>3, <1>4, <1>5, <1>6 DEF Move

LEMMA GlobalLockMoves ==
  ASSUME TableAssumption, ReadersOnlyWalk, Types, Control, Views, NEW t \in Threads,
         GlobalLock(t)
  PROVE  Move(t, "gn_global",
              loc[t])
<1> DEFINE m == loc[t]
           l == m
           p == "gn_global"
<1>1. m \in Locals /\ ControlOf(pc[t], m)
  BY LocalsOf
<1>2. pc' = [pc EXCEPT ![t] = p] /\ loc' = [loc EXCEPT ![t] = l]
  BY <1>1 DEF GlobalLock, Goto, Types, Locals, TakeIfArray, DropIfArray
<1>3. p \in Places /\ l \in Locals
  BY <1>1, MaskFacts, TableTyped DEF GlobalLock, Goto, Locals, Counts, ControlOf, HeldBuckets, Places, NodePlaces, GetPlaces, RehashPlaces, InRehash, WalkPlaces, ClearPlaces
<1>4. ControlOf(p, l)
  BY <1>1, MaskFacts, TableTyped DEF GlobalLock, Goto, ControlOf, Locals, Counts, HeldBuckets, Places, NodePlaces, GetPlaces, RehashPlaces, InRehash, WalkPlaces, ClearPlaces
<1>5. LockStep(Held(pc[t], m), Held(p, l), m, l)
  <2>1. lock' = lock
    BY DEF GlobalLock, Goto
  <2>2. Held(pc[t], m) = Held(p, l)
    BY <1>1 DEF GlobalLock, Goto, Held, ControlOf, Locals, Counts
  <2>3. l.op = m.op \/ Held(pc[t], m) = {}
    BY <1>1 DEF GlobalLock, Goto, Held, ControlOf, Locals
  <2>4. QED
    BY <2>1, <2>2, <2>3 DEF LockStep
<1>6. FlagStep(pc[t], p)
  BY TableTyped DEF GlobalLock, Goto, FlagStep, InRehash
<1>7. QED
  BY <1>2, <1>3, <1>4, <1>5, <1>6 DEF Move

LEMMA TakeGlobalLockMoves ==
  ASSUME TableAssumption, ReadersOnlyWalk, Types, Control, Views, NEW t \in Threads,
         TakeGlobalLock(t)
  PROVE  Move(t, "gn_again",
              loc[t])
<1> DEFINE m == loc[t]
           l == m
           p == "gn_again"
<1>1. m \in Locals /\ ControlOf(pc[t], m)
  BY LocalsOf
<1>2. pc' = [pc EXCEPT ![t] = p] /\ loc' = [loc EXCEPT ![t] = l]
  BY <1>1 DEF TakeGlobalLock, Goto, Types, Locals, TakeIfArray, DropIfArray
<1>3. p \in Places /\ l \in Locals
  BY <1>1, MaskFacts, TableTyped DEF TakeGlobalLock, Goto, Locals, Counts, ControlOf, HeldBuckets, Places, NodePlaces, GetPlaces, RehashPlaces, InRehash, WalkPlaces, ClearPlaces
<1>4. ControlOf(p, l)
  BY <1>1, MaskFacts, TableTyped DEF TakeGlobalLock, Goto, ControlOf, Locals, Counts, HeldBuckets, Places, NodePlaces, GetPlaces, RehashPlaces, InRehash, WalkPlaces, ClearPlaces
<1>5. LockStep(Held(pc[t], m), Held(p, l), m, l)
  <2>1. Rehash \in Locks /\ Rehash \notin Held(pc[t], m)
    BY <1>1, MaskFacts, IndexTyped DEF TakeGlobalLock, Goto, Held, ControlOf, Locals, Locks, Masks, Counts, Rehash
  <2>2. Held(p, l) = Held(pc[t], m) \cup {Rehash}
    BY <1>1, MaskFacts DEF TakeGlobalLock, Goto, Held, ControlOf, Locals, Counts, Locks, Masks, Rehash
  <2>3. TakeAs(l, Rehash) /\ (l.op = m.op)
    <3>1. m.op \in Ops
      BY <1>1 DEF TakeGlobalLock, Goto, ControlOf
    <3>2. QED
      BY <1>1, <3>1, <2>1, TakesAsHeld DEF TakeGlobalLock, Goto, ControlOf, TakeIfArray, DropIfArray, TakeAs, Reads, ReadOnly, Walks, Places, NodePlaces, GetPlaces, RehashPlaces, InRehash, WalkPlaces, ClearPlaces, Held, Locals
  <2>4. QED
    BY <2>1, <2>2, <2>3 DEF LockStep
<1>6. FlagStep(pc[t], p)
  BY TableTyped DEF TakeGlobalLock, Goto, FlagStep, InRehash
<1>7. QED
  BY <1>2, <1>3, <1>4, <1>5, <1>6 DEF Move

LEMMA GlobalLockStaleMoves ==
  ASSUME TableAssumption, ReadersOnlyWalk, Types, Control, Views, NEW t \in Threads,
         GlobalLockStale(t)
  PROVE  Move(t, "gn_mask",
              [loc[t] EXCEPT !.wait = FALSE])
<1> DEFINE m == loc[t]
           l == [m EXCEPT !.wait = FALSE]
           p == "gn_mask"
<1>1. m \in Locals /\ ControlOf(pc[t], m)
  BY LocalsOf
<1>2. pc' = [pc EXCEPT ![t] = p] /\ loc' = [loc EXCEPT ![t] = l]
  BY <1>1 DEF GlobalLockStale, Goto, Types, Locals, TakeIfArray, DropIfArray
<1>3. p \in Places /\ l \in Locals
  BY <1>1, MaskFacts, TableTyped DEF GlobalLockStale, Goto, Locals, Counts, ControlOf, HeldBuckets, Places, NodePlaces, GetPlaces, RehashPlaces, InRehash, WalkPlaces, ClearPlaces
<1>4. ControlOf(p, l)
  BY <1>1, MaskFacts, TableTyped DEF GlobalLockStale, Goto, ControlOf, Locals, Counts, HeldBuckets, Places, NodePlaces, GetPlaces, RehashPlaces, InRehash, WalkPlaces, ClearPlaces
<1>5. LockStep(Held(pc[t], m), Held(p, l), m, l)
  <2>1. Rehash \in Locks /\ Rehash \in Held(pc[t], m)
    BY <1>1, MaskFacts, IndexTyped DEF GlobalLockStale, Goto, Held, ControlOf, Locals, Locks, Masks, Counts, Rehash
  <2>2. Held(p, l) = Held(pc[t], m) \ {Rehash}
    BY <1>1, MaskFacts DEF GlobalLockStale, Goto, Held, ControlOf, Locals, Counts, Locks, Masks, Rehash
  <2>3. DropAs(m, Rehash) /\ (l.op = m.op)
    <3>1. m.op \in Ops
      BY <1>1 DEF GlobalLockStale, Goto, ControlOf
    <3>2. QED
      BY <1>1, <3>1, <2>1, TakesAsHeld DEF GlobalLockStale, Goto, ControlOf, TakeIfArray, DropIfArray, TakeAs, Reads, ReadOnly, Walks, Places, NodePlaces, GetPlaces, RehashPlaces, InRehash, WalkPlaces, ClearPlaces, Held, Locals
  <2>4. QED
    BY <2>1, <2>2, <2>3 DEF LockStep
<1>6. FlagStep(pc[t], p)
  BY TableTyped DEF GlobalLockStale, Goto, FlagStep, InRehash
<1>7. QED
  BY <1>2, <1>3, <1>4, <1>5, <1>6 DEF Move

LEMMA GlobalLockHeldMoves ==
  ASSUME TableAssumption, ReadersOnlyWalk, Types, Control, Views, NEW t \in Threads,
         GlobalLockHeld(t)
  PROVE  Move(t, "crit",
              [loc[t] EXCEPT !.lk = Rehash, !.pos = Bucket(loc[t].key, dMask)])
<1> DEFINE m == loc[t]
           l == [m EXCEPT !.lk = Rehash, !.pos = Bucket(m.key, dMask)]
           p == "crit"
<1>1. m \in Locals /\ ControlOf(pc[t], m)
  BY LocalsOf
<1>1b. Bucket(m.key, dMask) \in Masks
  BY <1>1, TableTyped, BucketTyped DEF Locals
<1>2. pc' = [pc EXCEPT ![t] = p] /\ loc' = [loc EXCEPT ![t] = l]
  BY <1>1, <1>1b DEF GlobalLockHeld, Goto, Types, Locals, TakeIfArray, DropIfArray
<1>3. p \in Places /\ l \in Locals
  BY <1>1, <1>1b, MaskFacts, TableTyped DEF GlobalLockHeld, Goto, Locals, Counts, ControlOf, HeldBuckets, Places, NodePlaces, GetPlaces, RehashPlaces, InRehash, WalkPlaces, ClearPlaces
<1>4. ControlOf(p, l)
  BY <1>1, <1>1b, MaskFacts, TableTyped DEF GlobalLockHeld, Goto, ControlOf, Locals, Counts, HeldBuckets, Places, NodePlaces, GetPlaces, RehashPlaces, InRehash, WalkPlaces, ClearPlaces
<1>5. LockStep(Held(pc[t], m), Held(p, l), m, l)
  <2>1. lock' = lock
    BY DEF GlobalLockHeld, Goto
  <2>2. Held(pc[t], m) = Held(p, l)
    BY <1>1 DEF GlobalLockHeld, Goto, Held, ControlOf, Locals, Counts
  <2>3. l.op = m.op \/ Held(pc[t], m) = {}
    BY <1>1 DEF GlobalLockHeld, Goto, Held, ControlOf, Locals
  <2>4. QED
    BY <2>1, <2>2, <2>3 DEF LockStep
<1>6. FlagStep(pc[t], p)
  BY TableTyped DEF GlobalLockHeld, Goto, FlagStep, InRehash
<1>7. QED
  BY <1>2, <1>3, <1>4, <1>5, <1>6 DEF Move

LEMMA LoadMaskMoves ==
  ASSUME TableAssumption, ReadersOnlyWalk, Types, Control, Views, NEW t \in Threads,
         LoadMask(t)
  PROVE  Move(t, "gn_lock",
              [loc[t] EXCEPT !.hm = dMask, !.pos = Bucket(loc[t].key, dMask)])
<1> DEFINE m == loc[t]
           l == [m EXCEPT !.hm = dMask, !.pos = Bucket(m.key, dMask)]
           p == "gn_lock"
<1>1. m \in Locals /\ ControlOf(pc[t], m)
  BY LocalsOf
<1>1b. Bucket(m.key, dMask) \in Masks
  BY <1>1, TableTyped, BucketTyped DEF Locals
<1>2. pc' = [pc EXCEPT ![t] = p] /\ loc' = [loc EXCEPT ![t] = l]
  BY <1>1, <1>1b DEF LoadMask, Goto, Types, Locals, TakeIfArray, DropIfArray
<1>3. p \in Places /\ l \in Locals
  BY <1>1, <1>1b, MaskFacts, TableTyped DEF LoadMask, Goto, Locals, Counts, ControlOf, HeldBuckets, Places, NodePlaces, GetPlaces, RehashPlaces, InRehash, WalkPlaces, ClearPlaces
<1>4. ControlOf(p, l)
  BY <1>1, <1>1b, MaskFacts, TableTyped DEF LoadMask, Goto, ControlOf, Locals, Counts, HeldBuckets, Places, NodePlaces, GetPlaces, RehashPlaces, InRehash, WalkPlaces, ClearPlaces
<1>5. LockStep(Held(pc[t], m), Held(p, l), m, l)
  <2>1. lock' = lock
    BY DEF LoadMask, Goto
  <2>2. Held(pc[t], m) = Held(p, l)
    BY <1>1 DEF LoadMask, Goto, Held, ControlOf, Locals, Counts
  <2>3. l.op = m.op \/ Held(pc[t], m) = {}
    BY <1>1 DEF LoadMask, Goto, Held, ControlOf, Locals
  <2>4. QED
    BY <2>1, <2>2, <2>3 DEF LockStep
<1>6. FlagStep(pc[t], p)
  BY TableTyped DEF LoadMask, Goto, FlagStep, InRehash
<1>7. QED
  BY <1>2, <1>3, <1>4, <1>5, <1>6 DEF Move

LEMMA LockBucketMoves ==
  ASSUME TableAssumption, ReadersOnlyWalk, Types, Control, Views, NEW t \in Threads,
         LockBucket(t)
  PROVE  Move(t, "gn_check",
              [loc[t] EXCEPT !.lk = loc[t].pos])
<1> DEFINE m == loc[t]
           l == [m EXCEPT !.lk = m.pos]
           p == "gn_check"
<1>1. m \in Locals /\ ControlOf(pc[t], m)
  BY LocalsOf
<1>2. pc' = [pc EXCEPT ![t] = p] /\ loc' = [loc EXCEPT ![t] = l]
  BY <1>1 DEF LockBucket, Goto, Types, Locals, TakeIfArray, DropIfArray
<1>3. p \in Places /\ l \in Locals
  BY <1>1, MaskFacts, TableTyped DEF LockBucket, Goto, Locals, Counts, ControlOf, HeldBuckets, Places, NodePlaces, GetPlaces, RehashPlaces, InRehash, WalkPlaces, ClearPlaces
<1>4. ControlOf(p, l)
  BY <1>1, MaskFacts, TableTyped DEF LockBucket, Goto, ControlOf, Locals, Counts, HeldBuckets, Places, NodePlaces, GetPlaces, RehashPlaces, InRehash, WalkPlaces, ClearPlaces
<1>5. LockStep(Held(pc[t], m), Held(p, l), m, l)
  <2>1. m.pos \in Locks /\ m.pos \notin Held(pc[t], m)
    BY <1>1, MaskFacts, IndexTyped DEF LockBucket, Goto, Held, ControlOf, Locals, Locks, Masks, Counts, Rehash
  <2>2. Held(p, l) = Held(pc[t], m) \cup {m.pos}
    BY <1>1, MaskFacts DEF LockBucket, Goto, Held, ControlOf, Locals, Counts, Locks, Masks, Rehash
  <2>3. TakeAs(l, m.pos) /\ (l.op = m.op)
    <3>1. m.op \in Ops
      BY <1>1 DEF LockBucket, Goto, ControlOf
    <3>2. QED
      BY <1>1, <3>1, <2>1, TakesAsHeld DEF LockBucket, Goto, ControlOf, TakeIfArray, DropIfArray, TakeAs, Reads, ReadOnly, Walks, Places, NodePlaces, GetPlaces, RehashPlaces, InRehash, WalkPlaces, ClearPlaces, Held, Locals
  <2>4. QED
    BY <2>1, <2>2, <2>3 DEF LockStep
<1>6. FlagStep(pc[t], p)
  BY TableTyped DEF LockBucket, Goto, FlagStep, InRehash
<1>7. QED
  BY <1>2, <1>3, <1>4, <1>5, <1>6 DEF Move

LEMMA LockBucketSharedFirstMoves ==
  ASSUME TableAssumption, ReadersOnlyWalk, Types, Control, Views, NEW t \in Threads,
         LockBucketSharedFirst(t)
  PROVE  Move(t, IF Unlocked(loc[t].pos) THEN "gn_check" ELSE "gn_shared",
              [loc[t] EXCEPT !.lk = loc[t].pos])
<1> DEFINE m == loc[t]
           l == [m EXCEPT !.lk = m.pos]
           p == IF Unlocked(m.pos) THEN "gn_check" ELSE "gn_shared"
<1>1. m \in Locals /\ ControlOf(pc[t], m)
  BY LocalsOf
<1>2. pc' = [pc EXCEPT ![t] = p] /\ loc' = [loc EXCEPT ![t] = l]
  BY <1>1 DEF LockBucketSharedFirst, Goto, Types, Locals, TakeIfArray, DropIfArray
<1>3. p \in Places /\ l \in Locals
  BY <1>1, MaskFacts, TableTyped DEF LockBucketSharedFirst, Goto, Locals, Counts, ControlOf, HeldBuckets, Places, NodePlaces, GetPlaces, RehashPlaces, InRehash, WalkPlaces, ClearPlaces
<1>4. ControlOf(p, l)
  <2>1. m.op = "cvisit"
    BY <1>1 DEF LockBucketSharedFirst, Goto, ControlOf, ReadOnly, Points, NodePlaces, GetPlaces
  <2>2. QED
    BY <1>1, <2>1 DEF LockBucketSharedFirst, Goto, ControlOf, Locals, NodePlaces, GetPlaces, RehashPlaces, InRehash, WalkPlaces, ClearPlaces
<1>5. LockStep(Held(pc[t], m), Held(p, l), m, l)
  <2>1. CASE Unlocked(m.pos)
    <3>1. m.pos \in Locks /\ m.pos \notin Held(pc[t], m)
      BY <1>1, MaskFacts, IndexTyped, <2>1 DEF LockBucketSharedFirst, Goto, Held, ControlOf, Locals, Locks, Masks, Counts, Rehash
    <3>2. Held(p, l) = Held(pc[t], m) \cup {m.pos}
      BY <1>1, MaskFacts, <2>1 DEF LockBucketSharedFirst, Goto, Held, ControlOf, Locals, Counts, Locks, Masks, Rehash
    <3>3. TakeAs(l, m.pos) /\ (l.op = m.op)
      <4>1. m.op = "cvisit" /\ m.op \in Ops
        BY <1>1 DEF LockBucketSharedFirst, Goto, ControlOf, ReadOnly, Points, NodePlaces, GetPlaces
      <4>2. TakeAs(m, m.pos)
        BY <2>1, <3>1, <4>1, TakesAsHeld DEF LockBucketSharedFirst
      <4>3. l.op = m.op
        BY <1>1 DEF Locals
      <4>4. QED
        BY <4>2, <4>3 DEF TakeAs, Reads
    <3>4. QED
      BY <3>1, <3>2, <3>3 DEF LockStep
  <2>2. CASE ~(Unlocked(m.pos))
    <3>1. lock' = lock
      BY <2>2 DEF LockBucketSharedFirst, Goto, TakeIfArray, DropIfArray
    <3>2. Held(pc[t], m) = Held(p, l) /\ l.op = m.op
      BY <1>1, <2>2 DEF LockBucketSharedFirst, Goto, Held, ControlOf, Locals, Counts
    <3>3. QED
      BY <3>1, <3>2 DEF LockStep
  <2>3. QED
    BY <2>1, <2>2
<1>6. FlagStep(pc[t], p)
  BY TableTyped DEF LockBucketSharedFirst, Goto, FlagStep, InRehash
<1>7. QED
  BY <1>2, <1>3, <1>4, <1>5, <1>6 DEF Move

LEMMA LockBucketSharedMoves ==
  ASSUME TableAssumption, ReadersOnlyWalk, Types, Control, Views, NEW t \in Threads,
         LockBucketShared(t)
  PROVE  Move(t, "gn_check",
              loc[t])
<1> DEFINE m == loc[t]
           l == m
           p == "gn_check"
<1>1. m \in Locals /\ ControlOf(pc[t], m)
  BY LocalsOf
<1>2. pc' = [pc EXCEPT ![t] = p] /\ loc' = [loc EXCEPT ![t] = l]
  BY <1>1 DEF LockBucketShared, Goto, Types, Locals, TakeIfArray, DropIfArray
<1>3. p \in Places /\ l \in Locals
  BY <1>1, MaskFacts, TableTyped DEF LockBucketShared, Goto, Locals, Counts, ControlOf, HeldBuckets, Places, NodePlaces, GetPlaces, RehashPlaces, InRehash, WalkPlaces, ClearPlaces
<1>4. ControlOf(p, l)
  BY <1>1, MaskFacts, TableTyped DEF LockBucketShared, Goto, ControlOf, Locals, Counts, HeldBuckets, Places, NodePlaces, GetPlaces, RehashPlaces, InRehash, WalkPlaces, ClearPlaces
<1>5. LockStep(Held(pc[t], m), Held(p, l), m, l)
  <2>1. m.pos \in Locks /\ m.pos \notin Held(pc[t], m)
    BY <1>1, MaskFacts, IndexTyped DEF LockBucketShared, Goto, Held, ControlOf, Locals, Locks, Masks, Counts, Rehash
  <2>2. Held(p, l) = Held(pc[t], m) \cup {m.pos}
    BY <1>1, MaskFacts DEF LockBucketShared, Goto, Held, ControlOf, Locals, Counts, Locks, Masks, Rehash
  <2>3. TakeAs(l, m.pos) /\ (l.op = m.op)
    <3>1. m.op \in Ops
      BY <1>1 DEF LockBucketShared, Goto, ControlOf
    <3>2. QED
      BY <1>1, <3>1, <2>1, TakesAsHeld DEF LockBucketShared, Goto, ControlOf, TakeIfArray, DropIfArray, TakeAs, Reads, ReadOnly, Walks, Places, NodePlaces, GetPlaces, RehashPlaces, InRehash, WalkPlaces, ClearPlaces, Held, Locals
  <2>4. QED
    BY <2>1, <2>2, <2>3 DEF LockStep
<1>6. FlagStep(pc[t], p)
  BY TableTyped DEF LockBucketShared, Goto, FlagStep, InRehash
<1>7. QED
  BY <1>2, <1>3, <1>4, <1>5, <1>6 DEF Move

LEMMA CheckNodeMoves ==
  ASSUME TableAssumption, ReadersOnlyWalk, Types, Control, Views, NEW t \in Threads,
         CheckNode(t)
  PROVE  Move(t, IF NodeIsCurrent(t) THEN "crit" ELSE "gn_update",
              loc[t])
<1> DEFINE m == loc[t]
           l == m
           p == IF NodeIsCurrent(t) THEN "crit" ELSE "gn_update"
<1>1. m \in Locals /\ ControlOf(pc[t], m)
  BY LocalsOf
<1>2. pc' = [pc EXCEPT ![t] = p] /\ loc' = [loc EXCEPT ![t] = l]
  BY <1>1 DEF CheckNode, Goto, Types, Locals, TakeIfArray, DropIfArray
<1>3. p \in Places /\ l \in Locals
  BY <1>1, MaskFacts, TableTyped DEF CheckNode, Goto, Locals, Counts, ControlOf, HeldBuckets, Places, NodePlaces, GetPlaces, RehashPlaces, InRehash, WalkPlaces, ClearPlaces
<1>4. ControlOf(p, l)
  BY <1>1, MaskFacts, TableTyped DEF CheckNode, Goto, ControlOf, Locals, Counts, HeldBuckets, Places, NodePlaces, GetPlaces, RehashPlaces, InRehash, WalkPlaces, ClearPlaces
<1>5. LockStep(Held(pc[t], m), Held(p, l), m, l)
  <2>1. lock' = lock
    BY DEF CheckNode, Goto
  <2>2. Held(pc[t], m) = Held(p, l)
    BY <1>1 DEF CheckNode, Goto, Held, ControlOf, Locals, Counts
  <2>3. l.op = m.op \/ Held(pc[t], m) = {}
    BY <1>1 DEF CheckNode, Goto, Held, ControlOf, Locals
  <2>4. QED
    BY <2>1, <2>2, <2>3 DEF LockStep
<1>6. FlagStep(pc[t], p)
  BY TableTyped DEF CheckNode, Goto, FlagStep, InRehash
<1>7. QED
  BY <1>2, <1>3, <1>4, <1>5, <1>6 DEF Move

LEMMA UpdateLockMoves ==
  ASSUME TableAssumption, ReadersOnlyWalk, Types, Control, Views, NEW t \in Threads,
         UpdateLock(t)
  PROVE  Move(t, IF Bucket(loc[t].key, dMask) = loc[t].pos THEN "gn_check" ELSE "gn_lock",
              [loc[t] EXCEPT !.hm = dMask, !.pos = Bucket(loc[t].key, dMask)])
<1> DEFINE m == loc[t]
           l == [m EXCEPT !.hm = dMask, !.pos = Bucket(m.key, dMask)]
           p == IF Bucket(m.key, dMask) = m.pos THEN "gn_check" ELSE "gn_lock"
<1>1. m \in Locals /\ ControlOf(pc[t], m)
  BY LocalsOf
<1>1b. Bucket(m.key, dMask) \in Masks
  BY <1>1, TableTyped, BucketTyped DEF Locals
<1>2. pc' = [pc EXCEPT ![t] = p] /\ loc' = [loc EXCEPT ![t] = l]
  BY <1>1, <1>1b DEF UpdateLock, Goto, Types, Locals, TakeIfArray, DropIfArray
<1>3. p \in Places /\ l \in Locals
  BY <1>1, <1>1b, MaskFacts, TableTyped DEF UpdateLock, Goto, Locals, Counts, ControlOf, HeldBuckets, Places, NodePlaces, GetPlaces, RehashPlaces, InRehash, WalkPlaces, ClearPlaces
<1>4. ControlOf(p, l)
  BY <1>1, <1>1b, MaskFacts, TableTyped DEF UpdateLock, Goto, ControlOf, Locals, Counts, HeldBuckets, Places, NodePlaces, GetPlaces, RehashPlaces, InRehash, WalkPlaces, ClearPlaces
<1>5. LockStep(Held(pc[t], m), Held(p, l), m, l)
  <2>1. CASE Bucket(m.key, dMask) # m.pos
    <3>1. m.lk \in Locks /\ m.lk \in Held(pc[t], m)
      BY <1>1, MaskFacts, IndexTyped, <2>1 DEF UpdateLock, Goto, Held, ControlOf, Locals, Locks, Masks, Counts, Rehash
    <3>2. Held(p, l) = Held(pc[t], m) \ {m.lk}
      BY <1>1, MaskFacts, <2>1 DEF UpdateLock, Goto, Held, ControlOf, Locals, Counts, Locks, Masks, Rehash
    <3>3. DropAs(m, m.lk) /\ (l.op = m.op)
      <4>1. m.op \in Ops
        BY <1>1 DEF UpdateLock, Goto, ControlOf
      <4>2. QED
        BY <1>1, <4>1, <3>1, TakesAsHeld, <2>1 DEF UpdateLock, Goto, ControlOf, TakeIfArray, DropIfArray, TakeAs, Reads, ReadOnly, Walks, Places, NodePlaces, GetPlaces, RehashPlaces, InRehash, WalkPlaces, ClearPlaces, Held, Locals
    <3>4. QED
      BY <3>1, <3>2, <3>3 DEF LockStep
  <2>2. CASE ~(Bucket(m.key, dMask) # m.pos)
    <3>1. lock' = lock
      BY <2>2 DEF UpdateLock, Goto, TakeIfArray, DropIfArray
    <3>2. Held(pc[t], m) = Held(p, l) /\ l.op = m.op
      BY <1>1, <2>2 DEF UpdateLock, Goto, Held, ControlOf, Locals, Counts
    <3>3. QED
      BY <3>1, <3>2 DEF LockStep
  <2>3. QED
    BY <2>1, <2>2
<1>6. FlagStep(pc[t], p)
  BY TableTyped DEF UpdateLock, Goto, FlagStep, InRehash
<1>7. QED
  BY <1>2, <1>3, <1>4, <1>5, <1>6 DEF Move

LEMMA FindInsertMoves ==
  ASSUME TableAssumption, ReadersOnlyWalk, Types, Control, Views, NEW t \in Threads,
         FindInsert(t)
  PROVE  Move(t, "fin",
              [loc[t] EXCEPT !.res = IF loc[t].key \in Cell(t) THEN "found" ELSE "absent"])
<1> DEFINE m == loc[t]
           l == [m EXCEPT !.res = IF m.key \in Cell(t) THEN "found" ELSE "absent"]
           p == "fin"
<1>1. m \in Locals /\ ControlOf(pc[t], m)
  BY LocalsOf
<1>2. pc' = [pc EXCEPT ![t] = p] /\ loc' = [loc EXCEPT ![t] = l]
  BY <1>1 DEF FindInsert, Goto, Points, Inserts, Types, Locals, TakeIfArray, DropIfArray
<1>3. p \in Places /\ l \in Locals
  BY <1>1, MaskFacts, TableTyped DEF FindInsert, Goto, Points, Inserts, Locals, Counts, ControlOf, HeldBuckets, Places, NodePlaces, GetPlaces, RehashPlaces, InRehash, WalkPlaces, ClearPlaces
<1>4. ControlOf(p, l)
  BY <1>1, MaskFacts, TableTyped DEF FindInsert, Goto, Points, Inserts, ControlOf, Locals, Counts, HeldBuckets, Places, NodePlaces, GetPlaces, RehashPlaces, InRehash, WalkPlaces, ClearPlaces
<1>5. LockStep(Held(pc[t], m), Held(p, l), m, l)
  <2>1. lock' = lock
    BY DEF FindInsert, Goto, Points, Inserts
  <2>2. Held(pc[t], m) = Held(p, l)
    BY <1>1 DEF FindInsert, Goto, Points, Inserts, Held, ControlOf, Locals, Counts
  <2>3. l.op = m.op \/ Held(pc[t], m) = {}
    BY <1>1 DEF FindInsert, Goto, Points, Inserts, Held, ControlOf, Locals
  <2>4. QED
    BY <2>1, <2>2, <2>3 DEF LockStep
<1>6. FlagStep(pc[t], p)
  BY TableTyped DEF FindInsert, Goto, Points, Inserts, FlagStep, InRehash
<1>7. QED
  BY <1>2, <1>3, <1>4, <1>5, <1>6 DEF Move

LEMMA EraseKeyMoves ==
  ASSUME TableAssumption, ReadersOnlyWalk, Types, Control, Views, NEW t \in Threads,
         EraseKey(t)
  PROVE  Move(t, "fin",
              [loc[t] EXCEPT !.res = IF loc[t].key \in Cell(t) THEN "found" ELSE "absent"])
<1> DEFINE m == loc[t]
           l == [m EXCEPT !.res = IF m.key \in Cell(t) THEN "found" ELSE "absent"]
           p == "fin"
<1>1. m \in Locals /\ ControlOf(pc[t], m)
  BY LocalsOf
<1>2. pc' = [pc EXCEPT ![t] = p] /\ loc' = [loc EXCEPT ![t] = l]
  BY <1>1 DEF EraseKey, Goto, Points, Inserts, Types, Locals, TakeIfArray, DropIfArray
<1>3. p \in Places /\ l \in Locals
  BY <1>1, MaskFacts, TableTyped DEF EraseKey, Goto, Points, Inserts, Locals, Counts, ControlOf, HeldBuckets, Places, NodePlaces, GetPlaces, RehashPlaces, InRehash, WalkPlaces, ClearPlaces
<1>4. ControlOf(p, l)
  BY <1>1, MaskFacts, TableTyped DEF EraseKey, Goto, Points, Inserts, ControlOf, Locals, Counts, HeldBuckets, Places, NodePlaces, GetPlaces, RehashPlaces, InRehash, WalkPlaces, ClearPlaces
<1>5. LockStep(Held(pc[t], m), Held(p, l), m, l)
  <2>1. lock' = lock
    BY DEF EraseKey, Goto, Points, Inserts
  <2>2. Held(pc[t], m) = Held(p, l)
    BY <1>1 DEF EraseKey, Goto, Points, Inserts, Held, ControlOf, Locals, Counts
  <2>3. l.op = m.op \/ Held(pc[t], m) = {}
    BY <1>1 DEF EraseKey, Goto, Points, Inserts, Held, ControlOf, Locals
  <2>4. QED
    BY <2>1, <2>2, <2>3 DEF LockStep
<1>6. FlagStep(pc[t], p)
  BY TableTyped DEF EraseKey, Goto, Points, Inserts, FlagStep, InRehash
<1>7. QED
  BY <1>2, <1>3, <1>4, <1>5, <1>6 DEF Move

LEMMA VisitHashMoves ==
  ASSUME TableAssumption, ReadersOnlyWalk, Types, Control, Views, NEW t \in Threads,
         VisitHash(t)
  PROVE  Move(t, "fin",
              [loc[t] EXCEPT !.res = IF loc[t].key \in Cell(t) THEN "found" ELSE "absent"])
<1> DEFINE m == loc[t]
           l == [m EXCEPT !.res = IF m.key \in Cell(t) THEN "found" ELSE "absent"]
           p == "fin"
<1>1. m \in Locals /\ ControlOf(pc[t], m)
  BY LocalsOf
<1>2. pc' = [pc EXCEPT ![t] = p] /\ loc' = [loc EXCEPT ![t] = l]
  BY <1>1 DEF VisitHash, Goto, Points, Inserts, Types, Locals, TakeIfArray, DropIfArray
<1>3. p \in Places /\ l \in Locals
  BY <1>1, MaskFacts, TableTyped DEF VisitHash, Goto, Points, Inserts, Locals, Counts, ControlOf, HeldBuckets, Places, NodePlaces, GetPlaces, RehashPlaces, InRehash, WalkPlaces, ClearPlaces
<1>4. ControlOf(p, l)
  BY <1>1, MaskFacts, TableTyped DEF VisitHash, Goto, Points, Inserts, ControlOf, Locals, Counts, HeldBuckets, Places, NodePlaces, GetPlaces, RehashPlaces, InRehash, WalkPlaces, ClearPlaces
<1>5. LockStep(Held(pc[t], m), Held(p, l), m, l)
  <2>1. lock' = lock
    BY DEF VisitHash, Goto, Points, Inserts
  <2>2. Held(pc[t], m) = Held(p, l)
    BY <1>1 DEF VisitHash, Goto, Points, Inserts, Held, ControlOf, Locals, Counts
  <2>3. l.op = m.op \/ Held(pc[t], m) = {}
    BY <1>1 DEF VisitHash, Goto, Points, Inserts, Held, ControlOf, Locals
  <2>4. QED
    BY <2>1, <2>2, <2>3 DEF LockStep
<1>6. FlagStep(pc[t], p)
  BY TableTyped DEF VisitHash, Goto, Points, Inserts, FlagStep, InRehash
<1>7. QED
  BY <1>2, <1>3, <1>4, <1>5, <1>6 DEF Move

LEMMA StaticNodeMoves ==
  ASSUME TableAssumption, ReadersOnlyWalk, Types, Control, Views, NEW t \in Threads,
         StaticNode(t)
  PROVE  Move(t, "fin",
              [loc[t] EXCEPT !.res = "absent"])
<1> DEFINE m == loc[t]
           l == [m EXCEPT !.res = "absent"]
           p == "fin"
<1>1. m \in Locals /\ ControlOf(pc[t], m)
  BY LocalsOf
<1>2. pc' = [pc EXCEPT ![t] = p] /\ loc' = [loc EXCEPT ![t] = l]
  BY <1>1 DEF StaticNode, Goto, Points, Inserts, Types, Locals, TakeIfArray, DropIfArray
<1>3. p \in Places /\ l \in Locals
  BY <1>1, MaskFacts, TableTyped DEF StaticNode, Goto, Points, Inserts, Locals, Counts, ControlOf, HeldBuckets, Places, NodePlaces, GetPlaces, RehashPlaces, InRehash, WalkPlaces, ClearPlaces
<1>4. ControlOf(p, l)
  BY <1>1, MaskFacts, TableTyped DEF StaticNode, Goto, Points, Inserts, ControlOf, Locals, Counts, HeldBuckets, Places, NodePlaces, GetPlaces, RehashPlaces, InRehash, WalkPlaces, ClearPlaces
<1>5. LockStep(Held(pc[t], m), Held(p, l), m, l)
  <2>1. lock' = lock
    BY DEF StaticNode, Goto, Points, Inserts
  <2>2. Held(pc[t], m) = Held(p, l)
    BY <1>1 DEF StaticNode, Goto, Points, Inserts, Held, ControlOf, Locals, Counts
  <2>3. l.op = m.op \/ Held(pc[t], m) = {}
    BY <1>1 DEF StaticNode, Goto, Points, Inserts, Held, ControlOf, Locals
  <2>4. QED
    BY <2>1, <2>2, <2>3 DEF LockStep
<1>6. FlagStep(pc[t], p)
  BY TableTyped DEF StaticNode, Goto, Points, Inserts, FlagStep, InRehash
<1>7. QED
  BY <1>2, <1>3, <1>4, <1>5, <1>6 DEF Move

LEMMA FinishMoves ==
  ASSUME TableAssumption, ReadersOnlyWalk, Types, Control, Views, NEW t \in Threads,
         Finish(t)
  PROVE  Move(t, "idle",
              NoLocals)
<1> DEFINE m == loc[t]
           l == NoLocals
           p == "idle"
<1>1. m \in Locals /\ ControlOf(pc[t], m)
  BY LocalsOf
<1>2. pc' = [pc EXCEPT ![t] = p] /\ loc' = [loc EXCEPT ![t] = l]
  BY <1>1 DEF Finish, Goto, Return, Types, Locals, TakeIfArray, DropIfArray
<1>3. p \in Places /\ l \in Locals
  BY NoLocalsTyped
<1>4. ControlOf(p, l)
  BY NoLocalsTyped
<1>5. LockStep(Held(pc[t], m), Held(p, l), m, l)
  <2>1. m.lk \in Locks /\ m.lk \in Held(pc[t], m)
    BY <1>1, MaskFacts, IndexTyped DEF Finish, Goto, Return, Held, ControlOf, Locals, Locks, Masks, Counts, Rehash
  <2>2. Held(p, l) = Held(pc[t], m) \ {m.lk}
    BY <1>1, MaskFacts DEF Finish, Goto, Return, Held, ControlOf, Locals, Counts, Locks, Masks, Rehash
  <2>3. DropAs(m, m.lk) /\ (Held(p, l) = {})
    <3>1. m.op \in Ops
      BY <1>1 DEF Finish, Goto, Return, ControlOf
    <3>2. QED
      BY <1>1, <3>1, <2>1, TakesAsHeld DEF Finish, Goto, Return, ControlOf, TakeIfArray, DropIfArray, TakeAs, Reads, ReadOnly, Walks, Places, NodePlaces, GetPlaces, RehashPlaces, InRehash, WalkPlaces, ClearPlaces, Held, Locals
  <2>4. QED
    BY <2>1, <2>2, <2>3 DEF LockStep
<1>6. FlagStep(pc[t], p)
  BY TableTyped DEF Finish, Goto, Return, FlagStep, InRehash
<1>7. QED
  BY <1>2, <1>3, <1>4, <1>5, <1>6 DEF Move

LEMMA InsertLoadsSizeMoves ==
  ASSUME TableAssumption, ReadersOnlyWalk, Types, Control, Views, NEW t \in Threads,
         InsertLoadsSize(t)
  PROVE  Move(t, "ins_need",
              [loc[t] EXCEPT !.s = dSize])
<1> DEFINE m == loc[t]
           l == [m EXCEPT !.s = dSize]
           p == "ins_need"
<1>1. m \in Locals /\ ControlOf(pc[t], m)
  BY LocalsOf
<1>2. pc' = [pc EXCEPT ![t] = p] /\ loc' = [loc EXCEPT ![t] = l]
  BY <1>1 DEF InsertLoadsSize, Goto, Types, Locals, TakeIfArray, DropIfArray
<1>3. p \in Places /\ l \in Locals
  BY <1>1, MaskFacts, TableTyped DEF InsertLoadsSize, Goto, Locals, Counts, ControlOf, HeldBuckets, Places, NodePlaces, GetPlaces, RehashPlaces, InRehash, WalkPlaces, ClearPlaces
<1>4. ControlOf(p, l)
  BY <1>1, MaskFacts, TableTyped DEF InsertLoadsSize, Goto, ControlOf, Locals, Counts, HeldBuckets, Places, NodePlaces, GetPlaces, RehashPlaces, InRehash, WalkPlaces, ClearPlaces
<1>5. LockStep(Held(pc[t], m), Held(p, l), m, l)
  <2>1. lock' = lock
    BY DEF InsertLoadsSize, Goto
  <2>2. Held(pc[t], m) = Held(p, l)
    BY <1>1 DEF InsertLoadsSize, Goto, Held, ControlOf, Locals, Counts
  <2>3. l.op = m.op \/ Held(pc[t], m) = {}
    BY <1>1 DEF InsertLoadsSize, Goto, Held, ControlOf, Locals
  <2>4. QED
    BY <2>1, <2>2, <2>3 DEF LockStep
<1>6. FlagStep(pc[t], p)
  BY TableTyped DEF InsertLoadsSize, Goto, FlagStep, InRehash
<1>7. QED
  BY <1>2, <1>3, <1>4, <1>5, <1>6 DEF Move

LEMMA EnterRehashMoves ==
  ASSUME TableAssumption, ReadersOnlyWalk, Types, Control, Views, NEW t \in Threads,
         EnterRehash(t)
  PROVE  Move(t, IF inRehash THEN AfterRehash(t) ELSE "rh_lock",
              IF inRehash THEN EndOfRehash(t) ELSE loc[t])
<1> DEFINE m == loc[t]
           l == IF inRehash THEN EndOfRehash(t) ELSE m
           p == IF inRehash THEN AfterRehash(t) ELSE "rh_lock"
<1>1. m \in Locals /\ ControlOf(pc[t], m)
  BY LocalsOf
<1>2. pc' = [pc EXCEPT ![t] = p] /\ loc' = [loc EXCEPT ![t] = l]
  BY <1>1 DEF EnterRehash, Goto, AfterRehash, Inserts, EndOfRehash, NoLocals, Types, Locals, TakeIfArray, DropIfArray
<1>3. p \in Places /\ l \in Locals
  <2>1. l \in Locals
    BY <1>1, EndTyped
  <2>2. QED
    BY <2>1 DEF AfterRehash, Places, NodePlaces, GetPlaces, RehashPlaces, InRehash
<1>4. ControlOf(p, l)
  <2>1. pc[t] = "rh_enter"
    BY DEF EnterRehash, Goto
  <2>2. l.op = m.op /\ l.key = m.key /\ l.wait = m.wait /\ l.res = m.res
    BY <1>1, EndTyped
  <2>3. p = IF ~inRehash THEN "rh_lock" ELSE IF m.op = "insert" THEN "gn_locks" ELSE "rh_return"
    BY DEF AfterRehash, Inserts
  <2> HIDE DEF l, p
  <2>4. QED
    BY <1>1, <2>1, <2>2, <2>3 DEF ControlOf, Points, NodePlaces, GetPlaces, RehashPlaces, InRehash, WalkPlaces, ClearPlaces
<1>5. LockStep(Held(pc[t], m), Held(p, l), m, l)
  <2>1. lock' = lock
    BY DEF EnterRehash, Goto
  <2>2. Held(pc[t], m) = {} /\ Held(p, l) = {}
    BY <1>1 DEF EnterRehash, Goto, AfterRehash, Held
  <2>3. QED
    BY <2>1, <2>2 DEF LockStep
<1>6. FlagStep(pc[t], p)
  BY TableTyped DEF EnterRehash, Goto, AfterRehash, Inserts, EndOfRehash, NoLocals, FlagStep, InRehash
<1>7. QED
  BY <1>2, <1>3, <1>4, <1>5, <1>6 DEF Move

LEMMA RehashTakesLockMoves ==
  ASSUME TableAssumption, ReadersOnlyWalk, Types, Control, Views, NEW t \in Threads,
         RehashTakesLock(t)
  PROVE  Move(t, "rh_start",
              loc[t])
<1> DEFINE m == loc[t]
           l == m
           p == "rh_start"
<1>1. m \in Locals /\ ControlOf(pc[t], m)
  BY LocalsOf
<1>2. pc' = [pc EXCEPT ![t] = p] /\ loc' = [loc EXCEPT ![t] = l]
  BY <1>1 DEF RehashTakesLock, Goto, Types, Locals, TakeIfArray, DropIfArray
<1>3. p \in Places /\ l \in Locals
  BY <1>1, MaskFacts, TableTyped DEF RehashTakesLock, Goto, Locals, Counts, ControlOf, HeldBuckets, Places, NodePlaces, GetPlaces, RehashPlaces, InRehash, WalkPlaces, ClearPlaces
<1>4. ControlOf(p, l)
  BY <1>1, MaskFacts, TableTyped DEF RehashTakesLock, Goto, ControlOf, Locals, Counts, HeldBuckets, Places, NodePlaces, GetPlaces, RehashPlaces, InRehash, WalkPlaces, ClearPlaces
<1>5. LockStep(Held(pc[t], m), Held(p, l), m, l)
  <2>1. Rehash \in Locks /\ Rehash \notin Held(pc[t], m)
    BY <1>1, MaskFacts, IndexTyped DEF RehashTakesLock, Goto, Held, ControlOf, Locals, Locks, Masks, Counts, Rehash
  <2>2. Held(p, l) = Held(pc[t], m) \cup {Rehash}
    BY <1>1, MaskFacts DEF RehashTakesLock, Goto, Held, ControlOf, Locals, Counts, Locks, Masks, Rehash
  <2>3. TakeAs(l, Rehash) /\ (l.op = m.op)
    <3>1. m.op \in Ops
      BY <1>1 DEF RehashTakesLock, Goto, ControlOf
    <3>2. QED
      BY <1>1, <3>1, <2>1, TakesAsHeld DEF RehashTakesLock, Goto, ControlOf, TakeIfArray, DropIfArray, TakeAs, Reads, ReadOnly, Walks, Places, NodePlaces, GetPlaces, RehashPlaces, InRehash, WalkPlaces, ClearPlaces, Held, Locals
  <2>4. QED
    BY <2>1, <2>2, <2>3 DEF LockStep
<1>6. FlagStep(pc[t], p)
  BY TableTyped DEF RehashTakesLock, Goto, FlagStep, InRehash
<1>7. QED
  BY <1>2, <1>3, <1>4, <1>5, <1>6 DEF Move

LEMMA RehashNotNeededMoves ==
  ASSUME TableAssumption, ReadersOnlyWalk, Types, Control, Views, NEW t \in Threads,
         RehashNotNeeded(t)
  PROVE  Move(t, "rh_release",
              loc[t])
<1> DEFINE m == loc[t]
           l == m
           p == "rh_release"
<1>1. m \in Locals /\ ControlOf(pc[t], m)
  BY LocalsOf
<1>2. pc' = [pc EXCEPT ![t] = p] /\ loc' = [loc EXCEPT ![t] = l]
  BY <1>1 DEF RehashNotNeeded, Goto, Types, Locals, TakeIfArray, DropIfArray
<1>3. p \in Places /\ l \in Locals
  BY <1>1, MaskFacts, TableTyped DEF RehashNotNeeded, Goto, Locals, Counts, ControlOf, HeldBuckets, Places, NodePlaces, GetPlaces, RehashPlaces, InRehash, WalkPlaces, ClearPlaces
<1>4. ControlOf(p, l)
  BY <1>1, MaskFacts, TableTyped DEF RehashNotNeeded, Goto, ControlOf, Locals, Counts, HeldBuckets, Places, NodePlaces, GetPlaces, RehashPlaces, InRehash, WalkPlaces, ClearPlaces
<1>5. LockStep(Held(pc[t], m), Held(p, l), m, l)
  <2>1. lock' = lock
    BY DEF RehashNotNeeded, Goto
  <2>2. Held(pc[t], m) = Held(p, l)
    BY <1>1 DEF RehashNotNeeded, Goto, Held, ControlOf, Locals, Counts
  <2>3. l.op = m.op \/ Held(pc[t], m) = {}
    BY <1>1 DEF RehashNotNeeded, Goto, Held, ControlOf, Locals
  <2>4. QED
    BY <2>1, <2>2, <2>3 DEF LockStep
<1>6. FlagStep(pc[t], p)
  BY TableTyped DEF RehashNotNeeded, Goto, FlagStep, InRehash
<1>7. QED
  BY <1>2, <1>3, <1>4, <1>5, <1>6 DEF Move

LEMMA RehashLocksBucketMoves ==
  ASSUME TableAssumption, ReadersOnlyWalk, Types, Control, Views, NEW t \in Threads,
         RehashLocksBucket(t)
  PROVE  Move(t, "rh_move",
              loc[t])
<1> DEFINE m == loc[t]
           l == m
           p == "rh_move"
<1>1. m \in Locals /\ ControlOf(pc[t], m)
  BY LocalsOf
<1>2. pc' = [pc EXCEPT ![t] = p] /\ loc' = [loc EXCEPT ![t] = l]
  BY <1>1 DEF RehashLocksBucket, Goto, Types, Locals, TakeIfArray, DropIfArray
<1>3. p \in Places /\ l \in Locals
  BY <1>1, MaskFacts, TableTyped DEF RehashLocksBucket, Goto, Locals, Counts, ControlOf, HeldBuckets, Places, NodePlaces, GetPlaces, RehashPlaces, InRehash, WalkPlaces, ClearPlaces
<1>4. ControlOf(p, l)
  BY <1>1, MaskFacts, TableTyped DEF RehashLocksBucket, Goto, ControlOf, Locals, Counts, HeldBuckets, Places, NodePlaces, GetPlaces, RehashPlaces, InRehash, WalkPlaces, ClearPlaces
<1>5. LockStep(Held(pc[t], m), Held(p, l), m, l)
  <2>1. CASE m.locks
    <3>1. m.i \in Locks /\ m.i \notin Held(pc[t], m)
      BY <1>1, MaskFacts, IndexTyped, <2>1 DEF RehashLocksBucket, Goto, Held, ControlOf, Locals, Locks, Masks, Counts, Rehash
    <3>2. Held(p, l) = Held(pc[t], m) \cup {m.i}
      BY <1>1, MaskFacts, <2>1 DEF RehashLocksBucket, Goto, Held, ControlOf, Locals, Counts, Locks, Masks, Rehash
    <3>3. TakeAs(l, m.i) /\ (l.op = m.op)
      <4>1. m.op \in Ops
        BY <1>1 DEF RehashLocksBucket, Goto, ControlOf
      <4>2. QED
        BY <1>1, <4>1, <3>1, TakesAsHeld, <2>1 DEF RehashLocksBucket, Goto, ControlOf, TakeIfArray, DropIfArray, TakeAs, Reads, ReadOnly, Walks, Places, NodePlaces, GetPlaces, RehashPlaces, InRehash, WalkPlaces, ClearPlaces, Held, Locals
    <3>4. QED
      BY <3>1, <3>2, <3>3 DEF LockStep
  <2>2. CASE ~(m.locks)
    <3>1. lock' = lock
      BY <2>2 DEF RehashLocksBucket, Goto, TakeIfArray, DropIfArray
    <3>2. Held(pc[t], m) = Held(p, l) /\ l.op = m.op
      BY <1>1, <2>2 DEF RehashLocksBucket, Goto, Held, ControlOf, Locals, Counts
    <3>3. QED
      BY <3>1, <3>2 DEF LockStep
  <2>3. QED
    BY <2>1, <2>2
<1>6. FlagStep(pc[t], p)
  BY TableTyped DEF RehashLocksBucket, Goto, FlagStep, InRehash
<1>7. QED
  BY <1>2, <1>3, <1>4, <1>5, <1>6 DEF Move

LEMMA RehashMovesBucketMoves ==
  ASSUME TableAssumption, ReadersOnlyWalk, Types, Control, Views, NEW t \in Threads,
         RehashMovesBucket(t)
  PROVE  Move(t, "rh_bucket",
              [loc[t] EXCEPT !.i = loc[t].i + 1])
<1> DEFINE m == loc[t]
           l == [m EXCEPT !.i = m.i + 1]
           p == "rh_bucket"
<1>1. m \in Locals /\ ControlOf(pc[t], m)
  BY LocalsOf
<1>2. pc' = [pc EXCEPT ![t] = p] /\ loc' = [loc EXCEPT ![t] = l]
  BY <1>1 DEF RehashMovesBucket, Goto, Types, Locals, TakeIfArray, DropIfArray
<1>3. p \in Places /\ l \in Locals
  BY <1>1, MaskFacts, TableTyped DEF RehashMovesBucket, Goto, Locals, Counts, ControlOf, HeldBuckets, Places, NodePlaces, GetPlaces, RehashPlaces, InRehash, WalkPlaces, ClearPlaces
<1>4. ControlOf(p, l)
  BY <1>1, MaskFacts, TableTyped DEF RehashMovesBucket, Goto, ControlOf, Locals, Counts, HeldBuckets, Places, NodePlaces, GetPlaces, RehashPlaces, InRehash, WalkPlaces, ClearPlaces
<1>5. LockStep(Held(pc[t], m), Held(p, l), m, l)
  <2>1. lock' = lock
    BY DEF RehashMovesBucket, Goto
  <2>2. Held(pc[t], m) = Held(p, l)
    BY <1>1 DEF RehashMovesBucket, Goto, Held, ControlOf, Locals, Counts
  <2>3. l.op = m.op \/ Held(pc[t], m) = {}
    BY <1>1 DEF RehashMovesBucket, Goto, Held, ControlOf, Locals
  <2>4. QED
    BY <2>1, <2>2, <2>3 DEF LockStep
<1>6. FlagStep(pc[t], p)
  BY TableTyped DEF RehashMovesBucket, Goto, FlagStep, InRehash
<1>7. QED
  BY <1>2, <1>3, <1>4, <1>5, <1>6 DEF Move

LEMMA RehashStoresOneMoves ==
  ASSUME TableAssumption, ReadersOnlyWalk, Types, Control, Views, NEW t \in Threads,
         RehashStoresOne(t)
  PROVE  Move(t, "rh_store",
              [loc[t] EXCEPT !.old = dBuckets])
<1> DEFINE m == loc[t]
           l == [m EXCEPT !.old = dBuckets]
           p == "rh_store"
<1>1. m \in Locals /\ ControlOf(pc[t], m)
  BY LocalsOf
<1>1b. Bucket(m.key, dMask) \in Masks
  BY <1>1, TableTyped, BucketTyped DEF Locals
<1>2. pc' = [pc EXCEPT ![t] = p] /\ loc' = [loc EXCEPT ![t] = l]
  BY <1>1, <1>1b DEF RehashStoresOne, Goto, Types, Locals, TakeIfArray, DropIfArray
<1>3. p \in Places /\ l \in Locals
  BY <1>1, <1>1b, MaskFacts, TableTyped DEF RehashStoresOne, Goto, Locals, Counts, ControlOf, HeldBuckets, Places, NodePlaces, GetPlaces, RehashPlaces, InRehash, WalkPlaces, ClearPlaces
<1>4. ControlOf(p, l)
  BY <1>1, <1>1b, MaskFacts, TableTyped DEF RehashStoresOne, Goto, ControlOf, Locals, Counts, HeldBuckets, Places, NodePlaces, GetPlaces, RehashPlaces, InRehash, WalkPlaces, ClearPlaces
<1>5. LockStep(Held(pc[t], m), Held(p, l), m, l)
  <2>1. lock' = lock
    BY DEF RehashStoresOne, Goto
  <2>2. Held(pc[t], m) = Held(p, l)
    BY <1>1 DEF RehashStoresOne, Goto, Held, ControlOf, Locals, Counts
  <2>3. l.op = m.op \/ Held(pc[t], m) = {}
    BY <1>1 DEF RehashStoresOne, Goto, Held, ControlOf, Locals
  <2>4. QED
    BY <2>1, <2>2, <2>3 DEF LockStep
<1>6. FlagStep(pc[t], p)
  BY TableTyped DEF RehashStoresOne, Goto, FlagStep, InRehash
<1>7. QED
  BY <1>2, <1>3, <1>4, <1>5, <1>6 DEF Move

LEMMA RehashStoresBothMoves ==
  ASSUME TableAssumption, ReadersOnlyWalk, Types, Control, Views, NEW t \in Threads,
         RehashStoresBoth(t)
  PROVE  Move(t, "rh_mask",
              loc[t])
<1> DEFINE m == loc[t]
           l == m
           p == "rh_mask"
<1>1. m \in Locals /\ ControlOf(pc[t], m)
  BY LocalsOf
<1>2. pc' = [pc EXCEPT ![t] = p] /\ loc' = [loc EXCEPT ![t] = l]
  BY <1>1 DEF RehashStoresBoth, Goto, Types, Locals, TakeIfArray, DropIfArray
<1>3. p \in Places /\ l \in Locals
  BY <1>1, MaskFacts, TableTyped DEF RehashStoresBoth, Goto, Locals, Counts, ControlOf, HeldBuckets, Places, NodePlaces, GetPlaces, RehashPlaces, InRehash, WalkPlaces, ClearPlaces
<1>4. ControlOf(p, l)
  BY <1>1, MaskFacts, TableTyped DEF RehashStoresBoth, Goto, ControlOf, Locals, Counts, HeldBuckets, Places, NodePlaces, GetPlaces, RehashPlaces, InRehash, WalkPlaces, ClearPlaces
<1>5. LockStep(Held(pc[t], m), Held(p, l), m, l)
  <2>1. lock' = lock
    BY DEF RehashStoresBoth, Goto
  <2>2. Held(pc[t], m) = Held(p, l)
    BY <1>1 DEF RehashStoresBoth, Goto, Held, ControlOf, Locals, Counts
  <2>3. l.op = m.op \/ Held(pc[t], m) = {}
    BY <1>1 DEF RehashStoresBoth, Goto, Held, ControlOf, Locals
  <2>4. QED
    BY <2>1, <2>2, <2>3 DEF LockStep
<1>6. FlagStep(pc[t], p)
  BY TableTyped DEF RehashStoresBoth, Goto, FlagStep, InRehash
<1>7. QED
  BY <1>2, <1>3, <1>4, <1>5, <1>6 DEF Move

LEMMA RehashStoresMaskMoves ==
  ASSUME TableAssumption, ReadersOnlyWalk, Types, Control, Views, NEW t \in Threads,
         RehashStoresMask(t)
  PROVE  Move(t, "rh_unlock",
              [loc[t] EXCEPT !.i = 0, !.count = IF loc[t].locks THEN HeldBuckets ELSE 0])
<1> DEFINE m == loc[t]
           l == [m EXCEPT !.i = 0, !.count = IF m.locks THEN HeldBuckets ELSE 0]
           p == "rh_unlock"
<1>1. m \in Locals /\ ControlOf(pc[t], m)
  BY LocalsOf
<1>1b. Bucket(m.key, dMask) \in Masks
  BY <1>1, TableTyped, BucketTyped DEF Locals
<1>2. pc' = [pc EXCEPT ![t] = p] /\ loc' = [loc EXCEPT ![t] = l]
  BY <1>1, <1>1b DEF RehashStoresMask, Goto, Types, Locals, TakeIfArray, DropIfArray
<1>3. p \in Places /\ l \in Locals
  BY <1>1, <1>1b, MaskFacts, TableTyped DEF RehashStoresMask, Goto, Locals, Counts, ControlOf, HeldBuckets, Places, NodePlaces, GetPlaces, RehashPlaces, InRehash, WalkPlaces, ClearPlaces
<1>4. ControlOf(p, l)
  BY <1>1, <1>1b, MaskFacts, TableTyped DEF RehashStoresMask, Goto, ControlOf, Locals, Counts, HeldBuckets, Places, NodePlaces, GetPlaces, RehashPlaces, InRehash, WalkPlaces, ClearPlaces
<1>5. LockStep(Held(pc[t], m), Held(p, l), m, l)
  <2>1. lock' = lock /\ l.op = m.op /\ pc[t] = "rh_mask"
    BY <1>1 DEF RehashStoresMask, Goto, Locals
  <2>2. /\ m.count = IF m.old # Static THEN dMask + 1 ELSE 0
        /\ Concurrent /\ m.locks => m.old # Static
    BY <2>1 DEF Views, View, Knows, RehashAt
  <2>3. Held(pc[t], m) = {Rehash} \cup (IF m.locks THEN 0 .. m.count - 1 ELSE {})
    BY <1>1, <2>1 DEF Held, ControlOf
  <2>4. Held(p, l) = {Rehash} \cup (IF m.locks THEN 0 .. dMask ELSE {})
    <3>1. l.i = 0 /\ l.count = IF m.locks THEN dMask + 1 ELSE 0
      BY <1>1 DEF Locals, HeldBuckets
    <3> HIDE DEF l
    <3>2. Held(p, l) = {Rehash} \cup 0 .. l.count - 1
      BY <3>1 DEF Held
    <3>3. QED
      BY <3>1, <3>2, TableTyped
  <2> HIDE DEF l, p, m
  <2>5. CASE m.locks /\ m.old = Static
    <3>1. ~Reads(l)
      BY <1>1, <2>1 DEF ControlOf, RehashPlaces, InRehash, Reads
    <3>2. QED
      BY <2>1, <2>2, <2>3, <2>4, <2>5, <3>1, TableTyped DEF LockStep
  <2>6. CASE ~m.locks \/ m.old # Static
    BY <2>1, <2>2, <2>3, <2>4, <2>6, TableTyped DEF LockStep
  <2>7. QED
    BY <2>5, <2>6
<1>6. FlagStep(pc[t], p)
  BY TableTyped DEF RehashStoresMask, Goto, FlagStep, InRehash
<1>7. QED
  BY <1>2, <1>3, <1>4, <1>5, <1>6 DEF Move

LEMMA RehashUnlocksBucketMoves ==
  ASSUME TableAssumption, ReadersOnlyWalk, Types, Control, Views, NEW t \in Threads,
         RehashUnlocksBucket(t)
  PROVE  Move(t, "rh_unlock",
              [loc[t] EXCEPT !.i = loc[t].i + 1])
<1> DEFINE m == loc[t]
           l == [m EXCEPT !.i = m.i + 1]
           p == "rh_unlock"
<1>1. m \in Locals /\ ControlOf(pc[t], m)
  BY LocalsOf
<1>2. pc' = [pc EXCEPT ![t] = p] /\ loc' = [loc EXCEPT ![t] = l]
  BY <1>1 DEF RehashUnlocksBucket, Goto, Types, Locals, TakeIfArray, DropIfArray
<1>3. p \in Places /\ l \in Locals
  BY <1>1, MaskFacts, TableTyped DEF RehashUnlocksBucket, Goto, Locals, Counts, ControlOf, HeldBuckets, Places, NodePlaces, GetPlaces, RehashPlaces, InRehash, WalkPlaces, ClearPlaces
<1>4. ControlOf(p, l)
  BY <1>1, MaskFacts, TableTyped DEF RehashUnlocksBucket, Goto, ControlOf, Locals, Counts, HeldBuckets, Places, NodePlaces, GetPlaces, RehashPlaces, InRehash, WalkPlaces, ClearPlaces
<1>5. LockStep(Held(pc[t], m), Held(p, l), m, l)
  <2>1. m.i \in Locks /\ m.i \in Held(pc[t], m)
    BY <1>1, MaskFacts, IndexTyped DEF RehashUnlocksBucket, Goto, Held, ControlOf, Locals, Locks, Masks, Counts, Rehash
  <2>2. Held(p, l) = Held(pc[t], m) \ {m.i}
    BY <1>1, MaskFacts DEF RehashUnlocksBucket, Goto, Held, ControlOf, Locals, Counts, Locks, Masks, Rehash
  <2>3. DropAs(m, m.i) /\ (l.op = m.op)
    <3>1. m.op \in Ops
      BY <1>1 DEF RehashUnlocksBucket, Goto, ControlOf
    <3>2. QED
      BY <1>1, <3>1, <2>1, TakesAsHeld DEF RehashUnlocksBucket, Goto, ControlOf, TakeIfArray, DropIfArray, TakeAs, Reads, ReadOnly, Walks, Places, NodePlaces, GetPlaces, RehashPlaces, InRehash, WalkPlaces, ClearPlaces, Held, Locals
  <2>4. QED
    BY <2>1, <2>2, <2>3 DEF LockStep
<1>6. FlagStep(pc[t], p)
  BY TableTyped DEF RehashUnlocksBucket, Goto, FlagStep, InRehash
<1>7. QED
  BY <1>2, <1>3, <1>4, <1>5, <1>6 DEF Move

\* What is left of a rehash that frees the old array, and may not have room for the locks.
LEMMA FreesWithResult ==
  ASSUME Types, NEW t \in Threads, RehashFreesOld(t)
  PROVE  \E l \in {loc[t], [loc[t] EXCEPT !.res = "threw"]} : loc' = [loc EXCEPT ![t] = l]
BY DEF RehashFreesOld, Types

LEMMA RehashFreesOldMoves ==
  ASSUME TableAssumption, ReadersOnlyWalk, Types, Control, Views, NEW t \in Threads,
         RehashFreesOld(t),
         NEW l \in {loc[t], [loc[t] EXCEPT !.res = "threw"]}, loc' = [loc EXCEPT ![t] = l]
  PROVE  Move(t, "rh_release", l)
<1> DEFINE m == loc[t]
           p == "rh_release"
<1>1. m \in Locals /\ ControlOf(pc[t], m)
  BY LocalsOf
<1>2. pc' = [pc EXCEPT ![t] = p] /\ loc' = [loc EXCEPT ![t] = l]
  BY <1>1 DEF RehashFreesOld, Goto, Types, Locals, TakeIfArray, DropIfArray
<1>3. p \in Places /\ l \in Locals
  BY <1>1, MaskFacts, TableTyped DEF RehashFreesOld, Goto, Locals, Counts, ControlOf, HeldBuckets, Places, NodePlaces, GetPlaces, RehashPlaces, InRehash, WalkPlaces, ClearPlaces
<1>4. ControlOf(p, l)
  BY <1>1, MaskFacts, TableTyped DEF RehashFreesOld, Goto, ControlOf, Locals, Counts, HeldBuckets, Places, NodePlaces, GetPlaces, RehashPlaces, InRehash, WalkPlaces, ClearPlaces
<1>5. LockStep(Held(pc[t], m), Held(p, l), m, l)
  <2>1. lock' = lock
    BY DEF RehashFreesOld, Goto
  <2>2. Held(pc[t], m) = Held(p, l)
    BY <1>1 DEF RehashFreesOld, Goto, Held, ControlOf, Locals, Counts
  <2>3. l.op = m.op \/ Held(pc[t], m) = {}
    BY <1>1 DEF RehashFreesOld, Goto, Held, ControlOf, Locals
  <2>4. QED
    BY <2>1, <2>2, <2>3 DEF LockStep
<1>6. FlagStep(pc[t], p)
  BY TableTyped DEF RehashFreesOld, Goto, FlagStep, InRehash
<1>7. QED
  BY <1>2, <1>3, <1>4, <1>5, <1>6 DEF Move

LEMMA RehashDropsLockMoves ==
  ASSUME TableAssumption, ReadersOnlyWalk, Types, Control, Views, NEW t \in Threads,
         RehashDropsLock(t)
  PROVE  Move(t, "rh_leave",
              loc[t])
<1> DEFINE m == loc[t]
           l == m
           p == "rh_leave"
<1>1. m \in Locals /\ ControlOf(pc[t], m)
  BY LocalsOf
<1>2. pc' = [pc EXCEPT ![t] = p] /\ loc' = [loc EXCEPT ![t] = l]
  BY <1>1 DEF RehashDropsLock, Goto, Types, Locals, TakeIfArray, DropIfArray
<1>3. p \in Places /\ l \in Locals
  BY <1>1, MaskFacts, TableTyped DEF RehashDropsLock, Goto, Locals, Counts, ControlOf, HeldBuckets, Places, NodePlaces, GetPlaces, RehashPlaces, InRehash, WalkPlaces, ClearPlaces
<1>4. ControlOf(p, l)
  BY <1>1, MaskFacts, TableTyped DEF RehashDropsLock, Goto, ControlOf, Locals, Counts, HeldBuckets, Places, NodePlaces, GetPlaces, RehashPlaces, InRehash, WalkPlaces, ClearPlaces
<1>5. LockStep(Held(pc[t], m), Held(p, l), m, l)
  <2>1. Rehash \in Locks /\ Rehash \in Held(pc[t], m)
    BY <1>1, MaskFacts, IndexTyped DEF RehashDropsLock, Goto, Held, ControlOf, Locals, Locks, Masks, Counts, Rehash
  <2>2. Held(p, l) = Held(pc[t], m) \ {Rehash}
    BY <1>1, MaskFacts DEF RehashDropsLock, Goto, Held, ControlOf, Locals, Counts, Locks, Masks, Rehash
  <2>3. DropAs(m, Rehash) /\ (l.op = m.op)
    <3>1. m.op \in Ops
      BY <1>1 DEF RehashDropsLock, Goto, ControlOf
    <3>2. QED
      BY <1>1, <3>1, <2>1, TakesAsHeld DEF RehashDropsLock, Goto, ControlOf, TakeIfArray, DropIfArray, TakeAs, Reads, ReadOnly, Walks, Places, NodePlaces, GetPlaces, RehashPlaces, InRehash, WalkPlaces, ClearPlaces, Held, Locals
  <2>4. QED
    BY <2>1, <2>2, <2>3 DEF LockStep
<1>6. FlagStep(pc[t], p)
  BY TableTyped DEF RehashDropsLock, Goto, FlagStep, InRehash
<1>7. QED
  BY <1>2, <1>3, <1>4, <1>5, <1>6 DEF Move

LEMMA LeaveRehashMoves ==
  ASSUME TableAssumption, ReadersOnlyWalk, Types, Control, Views, NEW t \in Threads,
         LeaveRehash(t)
  PROVE  Move(t, IF loc[t].res = "threw" THEN "rh_return" ELSE AfterRehash(t),
              EndOfRehash(t))
<1> DEFINE m == loc[t]
           l == EndOfRehash(t)
           p == IF m.res = "threw" THEN "rh_return" ELSE AfterRehash(t)
<1>1. m \in Locals /\ ControlOf(pc[t], m)
  BY LocalsOf
<1>2. pc' = [pc EXCEPT ![t] = p] /\ loc' = [loc EXCEPT ![t] = l]
  BY <1>1 DEF LeaveRehash, Goto, AfterRehash, Inserts, EndOfRehash, NoLocals, Types, Locals, TakeIfArray, DropIfArray
<1>3. p \in Places /\ l \in Locals
  <2>1. l \in Locals
    BY <1>1, EndTyped
  <2>2. QED
    BY <2>1 DEF AfterRehash, Places, NodePlaces, GetPlaces, RehashPlaces, InRehash
<1>4. ControlOf(p, l)
  <2>1. pc[t] = "rh_leave"
    BY DEF LeaveRehash, Goto
  <2>2. l.op = m.op /\ l.key = m.key /\ l.wait = m.wait /\ l.res = m.res
    BY <1>1, EndTyped
  <2>3. p = IF m.res # "threw" /\ m.op = "insert" THEN "gn_locks" ELSE "rh_return"
    BY DEF AfterRehash, Inserts
  <2>4. m.op = "insert" => p = "gn_locks" \/ m.res = "threw"
    BY DEF AfterRehash, Inserts
  <2> HIDE DEF l, p
  <2>5. QED
    BY <1>1, <2>1, <2>2, <2>3, <2>4 DEF ControlOf, Points, NodePlaces, GetPlaces, RehashPlaces, InRehash, WalkPlaces, ClearPlaces
<1>5. LockStep(Held(pc[t], m), Held(p, l), m, l)
  <2>1. lock' = lock
    BY DEF LeaveRehash, Goto
  <2>2. Held(pc[t], m) = {} /\ Held(p, l) = {}
    BY <1>1 DEF LeaveRehash, Goto, AfterRehash, Held
  <2>3. QED
    BY <2>1, <2>2 DEF LockStep
<1>6. FlagStep(pc[t], p)
  BY TableTyped DEF LeaveRehash, Goto, AfterRehash, Inserts, EndOfRehash, NoLocals, FlagStep, InRehash
<1>7. QED
  BY <1>2, <1>3, <1>4, <1>5, <1>6 DEF Move

LEMMA ReturnFromRehashMoves ==
  ASSUME TableAssumption, ReadersOnlyWalk, Types, Control, Views, NEW t \in Threads,
         ReturnFromRehash(t)
  PROVE  Move(t, "idle",
              NoLocals)
<1> DEFINE m == loc[t]
           l == NoLocals
           p == "idle"
<1>1. m \in Locals /\ ControlOf(pc[t], m)
  BY LocalsOf
<1>2. pc' = [pc EXCEPT ![t] = p] /\ loc' = [loc EXCEPT ![t] = l]
  BY <1>1 DEF ReturnFromRehash, Goto, Return, Types, Locals, TakeIfArray, DropIfArray
<1>3. p \in Places /\ l \in Locals
  BY NoLocalsTyped
<1>4. ControlOf(p, l)
  BY NoLocalsTyped
<1>5. LockStep(Held(pc[t], m), Held(p, l), m, l)
  <2>1. lock' = lock
    BY DEF ReturnFromRehash, Goto, Return
  <2>2. Held(pc[t], m) = Held(p, l)
    BY <1>1 DEF ReturnFromRehash, Goto, Return, Held, ControlOf, Locals, Counts
  <2>3. l.op = m.op \/ Held(pc[t], m) = {}
    BY <1>1 DEF ReturnFromRehash, Goto, Return, Held, ControlOf, Locals
  <2>4. QED
    BY <2>1, <2>2, <2>3 DEF LockStep
<1>6. FlagStep(pc[t], p)
  BY TableTyped DEF ReturnFromRehash, Goto, Return, FlagStep, InRehash
<1>7. QED
  BY <1>2, <1>3, <1>4, <1>5, <1>6 DEF Move

LEMMA FailureUnlocksBucketMoves ==
  ASSUME TableAssumption, ReadersOnlyWalk, Types, Control, Views, NEW t \in Threads,
         FailureUnlocksBucket(t)
  PROVE  Move(t, "rh_unlock_failed",
              [loc[t] EXCEPT !.i = loc[t].i + 1])
<1> DEFINE m == loc[t]
           l == [m EXCEPT !.i = m.i + 1]
           p == "rh_unlock_failed"
<1>1. m \in Locals /\ ControlOf(pc[t], m)
  BY LocalsOf
<1>2. pc' = [pc EXCEPT ![t] = p] /\ loc' = [loc EXCEPT ![t] = l]
  BY <1>1 DEF FailureUnlocksBucket, Goto, Types, Locals, TakeIfArray, DropIfArray
<1>3. p \in Places /\ l \in Locals
  BY <1>1, MaskFacts, TableTyped DEF FailureUnlocksBucket, Goto, Locals, Counts, ControlOf, HeldBuckets, Places, NodePlaces, GetPlaces, RehashPlaces, InRehash, WalkPlaces, ClearPlaces
<1>4. ControlOf(p, l)
  BY <1>1, MaskFacts, TableTyped DEF FailureUnlocksBucket, Goto, ControlOf, Locals, Counts, HeldBuckets, Places, NodePlaces, GetPlaces, RehashPlaces, InRehash, WalkPlaces, ClearPlaces
<1>5. LockStep(Held(pc[t], m), Held(p, l), m, l)
  <2>1. m.i \in Locks /\ m.i \in Held(pc[t], m)
    BY <1>1, MaskFacts, IndexTyped DEF FailureUnlocksBucket, Goto, Held, ControlOf, Locals, Locks, Masks, Counts, Rehash
  <2>2. Held(p, l) = Held(pc[t], m) \ {m.i}
    BY <1>1, MaskFacts DEF FailureUnlocksBucket, Goto, Held, ControlOf, Locals, Counts, Locks, Masks, Rehash
  <2>3. DropAs(m, m.i) /\ (l.op = m.op)
    <3>1. m.op \in Ops
      BY <1>1 DEF FailureUnlocksBucket, Goto, ControlOf
    <3>2. QED
      BY <1>1, <3>1, <2>1, TakesAsHeld DEF FailureUnlocksBucket, Goto, ControlOf, TakeIfArray, DropIfArray, TakeAs, Reads, ReadOnly, Walks, Places, NodePlaces, GetPlaces, RehashPlaces, InRehash, WalkPlaces, ClearPlaces, Held, Locals
  <2>4. QED
    BY <2>1, <2>2, <2>3 DEF LockStep
<1>6. FlagStep(pc[t], p)
  BY TableTyped DEF FailureUnlocksBucket, Goto, FlagStep, InRehash
<1>7. QED
  BY <1>2, <1>3, <1>4, <1>5, <1>6 DEF Move

LEMMA FailureLeavesMoves ==
  ASSUME TableAssumption, ReadersOnlyWalk, Types, Control, Views, NEW t \in Threads,
         FailureLeaves(t)
  PROVE  Move(t, "rh_release",
              loc[t])
<1> DEFINE m == loc[t]
           l == m
           p == "rh_release"
<1>1. m \in Locals /\ ControlOf(pc[t], m)
  BY LocalsOf
<1>2. pc' = [pc EXCEPT ![t] = p] /\ loc' = [loc EXCEPT ![t] = l]
  BY <1>1 DEF FailureLeaves, Goto, Types, Locals, TakeIfArray, DropIfArray
<1>3. p \in Places /\ l \in Locals
  BY <1>1, MaskFacts, TableTyped DEF FailureLeaves, Goto, Locals, Counts, ControlOf, HeldBuckets, Places, NodePlaces, GetPlaces, RehashPlaces, InRehash, WalkPlaces, ClearPlaces
<1>4. ControlOf(p, l)
  BY <1>1, MaskFacts, TableTyped DEF FailureLeaves, Goto, ControlOf, Locals, Counts, HeldBuckets, Places, NodePlaces, GetPlaces, RehashPlaces, InRehash, WalkPlaces, ClearPlaces
<1>5. LockStep(Held(pc[t], m), Held(p, l), m, l)
  <2>1. lock' = lock
    BY DEF FailureLeaves, Goto
  <2>2. Held(pc[t], m) = Held(p, l)
    BY <1>1 DEF FailureLeaves, Goto, Held, ControlOf, Locals, Counts
  <2>3. l.op = m.op \/ Held(pc[t], m) = {}
    BY <1>1 DEF FailureLeaves, Goto, Held, ControlOf, Locals
  <2>4. QED
    BY <2>1, <2>2, <2>3 DEF LockStep
<1>6. FlagStep(pc[t], p)
  BY TableTyped DEF FailureLeaves, Goto, FlagStep, InRehash
<1>7. QED
  BY <1>2, <1>3, <1>4, <1>5, <1>6 DEF Move

LEMMA RehashFailsMoves ==
  ASSUME TableAssumption, ReadersOnlyWalk, Types, Control, Views, NEW t \in Threads,
         RehashFails(t)
  PROVE  Move(t, "rh_unlock_failed",
              [loc[t] EXCEPT !.res = "threw", !.new = Static, !.count = IF loc[t].locks THEN loc[t].i + 1 ELSE 0, !.i = 0])
<1> DEFINE m == loc[t]
           l == [m EXCEPT !.res = "threw", !.new = Static, !.count = IF m.locks THEN m.i + 1 ELSE 0, !.i = 0]
           p == "rh_unlock_failed"
<1>1. m \in Locals /\ ControlOf(pc[t], m)
  BY LocalsOf
<1>2. pc' = [pc EXCEPT ![t] = p] /\ loc' = [loc EXCEPT ![t] = l]
  BY <1>1 DEF RehashFails, Goto, Types, Locals, TakeIfArray, DropIfArray
<1>3. p \in Places /\ l \in Locals
  <2>1. m.i + 1 \in Counts
    BY <1>1, IndexTyped, TableTyped DEF RehashFails, ControlOf, Locals, Counts
  <2>2. l \in Locals
    BY <1>1, <2>1, TableTyped DEF Locals, Addresses
  <2>3. QED
    BY <2>2 DEF Places, RehashPlaces, InRehash
<1>4. ControlOf(p, l)
  BY <1>1, MaskFacts, TableTyped DEF RehashFails, Goto, ControlOf, Locals, Counts, HeldBuckets, Places, NodePlaces, GetPlaces, RehashPlaces, InRehash, WalkPlaces, ClearPlaces
<1>5. LockStep(Held(pc[t], m), Held(p, l), m, l)
  <2>1. lock' = lock
    BY DEF RehashFails
  <2>2. l.op = m.op /\ l.i = 0 /\ l.count = IF m.locks THEN m.i + 1 ELSE 0
    BY <1>1 DEF Locals
  <2>3. m.i \in Nat
    BY <1>1 DEF Locals, Counts
  <2> HIDE DEF l
  <2>4. Held(p, l) = {Rehash} \cup (IF m.locks THEN 0 .. m.i ELSE {})
    BY <2>2, <2>3 DEF Held
  <2>5. CASE pc[t] = "rh_move"
    <3>1. Held(pc[t], m) = Held(p, l)
      BY <2>4, <2>5 DEF Held
    <3>2. QED
      BY <2>1, <2>2, <3>1 DEF LockStep
  <2>6. CASE pc[t] = "rh_bucket" /\ "values" \in Failures /\ m.i = 0
    <3>1. Held(pc[t], m) = {Rehash}
      BY <2>6 DEF Held
    <3>2. ~Reads(l)
      BY <1>1, <2>2, <2>6 DEF ControlOf, RehashPlaces, InRehash, Reads
    <3>3. QED
      BY <2>1, <2>2, <2>4, <2>6, <3>1, <3>2 DEF LockStep, Concurrent
  <2>7. QED
    BY <2>5, <2>6 DEF RehashFails
<1>6. FlagStep(pc[t], p)
  BY TableTyped DEF RehashFails, Goto, FlagStep, InRehash
<1>7. QED
  BY <1>2, <1>3, <1>4, <1>5, <1>6 DEF Move

LEMMA WalkTakesLockMoves ==
  ASSUME TableAssumption, ReadersOnlyWalk, Types, Control, Views, NEW t \in Threads,
         WalkTakesLock(t)
  PROVE  Move(t, "wk_start",
              loc[t])
<1> DEFINE m == loc[t]
           l == m
           p == "wk_start"
<1>1. m \in Locals /\ ControlOf(pc[t], m)
  BY LocalsOf
<1>2. pc' = [pc EXCEPT ![t] = p] /\ loc' = [loc EXCEPT ![t] = l]
  BY <1>1 DEF WalkTakesLock, Goto, Types, Locals, TakeIfArray, DropIfArray
<1>3. p \in Places /\ l \in Locals
  BY <1>1, MaskFacts, TableTyped DEF WalkTakesLock, Goto, Locals, Counts, ControlOf, HeldBuckets, Places, NodePlaces, GetPlaces, RehashPlaces, InRehash, WalkPlaces, ClearPlaces
<1>4. ControlOf(p, l)
  BY <1>1, MaskFacts, TableTyped DEF WalkTakesLock, Goto, ControlOf, Locals, Counts, HeldBuckets, Places, NodePlaces, GetPlaces, RehashPlaces, InRehash, WalkPlaces, ClearPlaces
<1>5. LockStep(Held(pc[t], m), Held(p, l), m, l)
  <2>1. Rehash \in Locks /\ Rehash \notin Held(pc[t], m)
    BY <1>1, MaskFacts, IndexTyped DEF WalkTakesLock, Goto, Held, ControlOf, Locals, Locks, Masks, Counts, Rehash
  <2>2. Held(p, l) = Held(pc[t], m) \cup {Rehash}
    BY <1>1, MaskFacts DEF WalkTakesLock, Goto, Held, ControlOf, Locals, Counts, Locks, Masks, Rehash
  <2>3. TakeAs(l, Rehash) /\ (l.op = m.op)
    <3>1. m.op \in Ops
      BY <1>1 DEF WalkTakesLock, Goto, ControlOf
    <3>2. QED
      BY <1>1, <3>1, <2>1, TakesAsHeld DEF WalkTakesLock, Goto, ControlOf, TakeIfArray, DropIfArray, TakeAs, Reads, ReadOnly, Walks, Places, NodePlaces, GetPlaces, RehashPlaces, InRehash, WalkPlaces, ClearPlaces, Held, Locals
  <2>4. QED
    BY <2>1, <2>2, <2>3 DEF LockStep
<1>6. FlagStep(pc[t], p)
  BY TableTyped DEF WalkTakesLock, Goto, FlagStep, InRehash
<1>7. QED
  BY <1>2, <1>3, <1>4, <1>5, <1>6 DEF Move

LEMMA WalkStartsMoves ==
  ASSUME TableAssumption, ReadersOnlyWalk, Types, Control, Views, NEW t \in Threads,
         WalkStarts(t)
  PROVE  Move(t, IF dBuckets = Static THEN "wk_release" ELSE "wk_bucket",
              [loc[t] EXCEPT !.count = dMask + 1, !.locks = haveLocks])
<1> DEFINE m == loc[t]
           l == [m EXCEPT !.count = dMask + 1, !.locks = haveLocks]
           p == IF dBuckets = Static THEN "wk_release" ELSE "wk_bucket"
<1>1. m \in Locals /\ ControlOf(pc[t], m)
  BY LocalsOf
<1>2. pc' = [pc EXCEPT ![t] = p] /\ loc' = [loc EXCEPT ![t] = l]
  BY <1>1 DEF WalkStarts, Goto, Types, Locals, TakeIfArray, DropIfArray
<1>3. p \in Places /\ l \in Locals
  BY <1>1, MaskFacts, TableTyped DEF WalkStarts, Goto, Locals, Counts, ControlOf, HeldBuckets, Places, NodePlaces, GetPlaces, RehashPlaces, InRehash, WalkPlaces, ClearPlaces
<1>4. ControlOf(p, l)
  BY <1>1, MaskFacts, TableTyped DEF WalkStarts, Goto, ControlOf, Locals, Counts, HeldBuckets, Places, NodePlaces, GetPlaces, RehashPlaces, InRehash, WalkPlaces, ClearPlaces
<1>5. LockStep(Held(pc[t], m), Held(p, l), m, l)
  <2>1. lock' = lock
    BY DEF WalkStarts, Goto
  <2>2. Held(pc[t], m) = Held(p, l)
    BY <1>1 DEF WalkStarts, Goto, Held, ControlOf, Locals, Counts
  <2>3. l.op = m.op \/ Held(pc[t], m) = {}
    BY <1>1 DEF WalkStarts, Goto, Held, ControlOf, Locals
  <2>4. QED
    BY <2>1, <2>2, <2>3 DEF LockStep
<1>6. FlagStep(pc[t], p)
  BY TableTyped DEF WalkStarts, Goto, FlagStep, InRehash
<1>7. QED
  BY <1>2, <1>3, <1>4, <1>5, <1>6 DEF Move

LEMMA WalkLocksBucketMoves ==
  ASSUME TableAssumption, ReadersOnlyWalk, Types, Control, Views, NEW t \in Threads,
         WalkLocksBucket(t)
  PROVE  Move(t, "wk_visit",
              loc[t])
<1> DEFINE m == loc[t]
           l == m
           p == "wk_visit"
<1>1. m \in Locals /\ ControlOf(pc[t], m)
  BY LocalsOf
<1>2. pc' = [pc EXCEPT ![t] = p] /\ loc' = [loc EXCEPT ![t] = l]
  BY <1>1 DEF WalkLocksBucket, Goto, Types, Locals, TakeIfArray, DropIfArray
<1>3. p \in Places /\ l \in Locals
  BY <1>1, MaskFacts, TableTyped DEF WalkLocksBucket, Goto, Locals, Counts, ControlOf, HeldBuckets, Places, NodePlaces, GetPlaces, RehashPlaces, InRehash, WalkPlaces, ClearPlaces
<1>4. ControlOf(p, l)
  BY <1>1, MaskFacts, TableTyped DEF WalkLocksBucket, Goto, ControlOf, Locals, Counts, HeldBuckets, Places, NodePlaces, GetPlaces, RehashPlaces, InRehash, WalkPlaces, ClearPlaces
<1>5. LockStep(Held(pc[t], m), Held(p, l), m, l)
  <2>1. CASE m.locks
    <3>1. m.i \in Locks /\ m.i \notin Held(pc[t], m)
      BY <1>1, MaskFacts, IndexTyped, <2>1 DEF WalkLocksBucket, Goto, Held, ControlOf, Locals, Locks, Masks, Counts, Rehash
    <3>2. Held(p, l) = Held(pc[t], m) \cup {m.i}
      BY <1>1, MaskFacts, <2>1 DEF WalkLocksBucket, Goto, Held, ControlOf, Locals, Counts, Locks, Masks, Rehash
    <3>3. TakeAs(l, m.i) /\ (l.op = m.op)
      <4>1. m.op \in Ops
        BY <1>1 DEF WalkLocksBucket, Goto, ControlOf
      <4>2. QED
        BY <1>1, <4>1, <3>1, TakesAsHeld, <2>1 DEF WalkLocksBucket, Goto, ControlOf, TakeIfArray, DropIfArray, TakeAs, Reads, ReadOnly, Walks, Places, NodePlaces, GetPlaces, RehashPlaces, InRehash, WalkPlaces, ClearPlaces, Held, Locals
    <3>4. QED
      BY <3>1, <3>2, <3>3 DEF LockStep
  <2>2. CASE ~(m.locks)
    <3>1. lock' = lock
      BY <2>2 DEF WalkLocksBucket, Goto, TakeIfArray, DropIfArray
    <3>2. Held(pc[t], m) = Held(p, l) /\ l.op = m.op
      BY <1>1, <2>2 DEF WalkLocksBucket, Goto, Held, ControlOf, Locals, Counts
    <3>3. QED
      BY <3>1, <3>2 DEF LockStep
  <2>3. QED
    BY <2>1, <2>2
<1>6. FlagStep(pc[t], p)
  BY TableTyped DEF WalkLocksBucket, Goto, FlagStep, InRehash
<1>7. QED
  BY <1>2, <1>3, <1>4, <1>5, <1>6 DEF Move

LEMMA EraseFromBucketMoves ==
  ASSUME TableAssumption, ReadersOnlyWalk, Types, Control, Views, NEW t \in Threads,
         EraseFromBucket(t)
  PROVE  Move(t, "wk_unlock",
              [loc[t] EXCEPT !.seen = loc[t].seen \cup arrays[dBuckets].cells[loc[t].i]])
<1> DEFINE m == loc[t]
           l == [m EXCEPT !.seen = m.seen \cup arrays[dBuckets].cells[m.i]]
           p == "wk_unlock"
<1>1. m \in Locals /\ ControlOf(pc[t], m)
  BY LocalsOf
<1>1b. Bucket(m.key, dMask) \in Masks
  BY <1>1, TableTyped, BucketTyped DEF Locals
<1>2. pc' = [pc EXCEPT ![t] = p] /\ loc' = [loc EXCEPT ![t] = l]
  BY <1>1, <1>1b DEF EraseFromBucket, Goto, Types, Locals, TakeIfArray, DropIfArray
<1>3. p \in Places /\ l \in Locals
  <2>1. m.i \in Masks /\ dBuckets \in ArrayIds
    BY <1>1, IndexTyped, TableTyped DEF EraseFromBucket, Goto, InBounds, ControlOf, Locals, Addresses
  <2>2. arrays[dBuckets].cells[m.i] \subseteq Keys
    BY <2>1 DEF Types, TypeOK
  <2>3. l \in Locals
    BY <1>1, <2>2 DEF Locals
  <2>4. QED
    BY <2>3 DEF Places, WalkPlaces
<1>4. ControlOf(p, l)
  BY <1>1, <1>1b, MaskFacts, TableTyped DEF EraseFromBucket, Goto, ControlOf, Locals, Counts, HeldBuckets, Places, NodePlaces, GetPlaces, RehashPlaces, InRehash, WalkPlaces, ClearPlaces
<1>5. LockStep(Held(pc[t], m), Held(p, l), m, l)
  <2>1. lock' = lock
    BY DEF EraseFromBucket, Goto
  <2>2. Held(pc[t], m) = Held(p, l)
    BY <1>1 DEF EraseFromBucket, Goto, Held, ControlOf, Locals, Counts
  <2>3. l.op = m.op \/ Held(pc[t], m) = {}
    BY <1>1 DEF EraseFromBucket, Goto, Held, ControlOf, Locals
  <2>4. QED
    BY <2>1, <2>2, <2>3 DEF LockStep
<1>6. FlagStep(pc[t], p)
  BY TableTyped DEF EraseFromBucket, Goto, FlagStep, InRehash
<1>7. QED
  BY <1>2, <1>3, <1>4, <1>5, <1>6 DEF Move

LEMMA WalkUnlocksBucketMoves ==
  ASSUME TableAssumption, ReadersOnlyWalk, Types, Control, Views, NEW t \in Threads,
         WalkUnlocksBucket(t)
  PROVE  Move(t, IF loc[t].stop THEN "wk_release" ELSE "wk_bucket",
              [loc[t] EXCEPT !.i = loc[t].i + 1])
<1> DEFINE m == loc[t]
           l == [m EXCEPT !.i = m.i + 1]
           p == IF m.stop THEN "wk_release" ELSE "wk_bucket"
<1>1. m \in Locals /\ ControlOf(pc[t], m)
  BY LocalsOf
<1>2. pc' = [pc EXCEPT ![t] = p] /\ loc' = [loc EXCEPT ![t] = l]
  BY <1>1 DEF WalkUnlocksBucket, Goto, Types, Locals, TakeIfArray, DropIfArray
<1>3. p \in Places /\ l \in Locals
  BY <1>1, MaskFacts, TableTyped DEF WalkUnlocksBucket, Goto, Locals, Counts, ControlOf, HeldBuckets, Places, NodePlaces, GetPlaces, RehashPlaces, InRehash, WalkPlaces, ClearPlaces
<1>4. ControlOf(p, l)
  BY <1>1, MaskFacts, TableTyped DEF WalkUnlocksBucket, Goto, ControlOf, Locals, Counts, HeldBuckets, Places, NodePlaces, GetPlaces, RehashPlaces, InRehash, WalkPlaces, ClearPlaces
<1>5. LockStep(Held(pc[t], m), Held(p, l), m, l)
  <2>1. CASE m.locks
    <3>1. m.i \in Locks /\ m.i \in Held(pc[t], m)
      BY <1>1, MaskFacts, IndexTyped, <2>1 DEF WalkUnlocksBucket, Goto, Held, ControlOf, Locals, Locks, Masks, Counts, Rehash
    <3>2. Held(p, l) = Held(pc[t], m) \ {m.i}
      BY <1>1, MaskFacts, <2>1 DEF WalkUnlocksBucket, Goto, Held, ControlOf, Locals, Counts, Locks, Masks, Rehash
    <3>3. DropAs(m, m.i) /\ (l.op = m.op)
      <4>1. m.op \in Ops
        BY <1>1 DEF WalkUnlocksBucket, Goto, ControlOf
      <4>2. QED
        BY <1>1, <4>1, <3>1, TakesAsHeld, <2>1 DEF WalkUnlocksBucket, Goto, ControlOf, TakeIfArray, DropIfArray, TakeAs, Reads, ReadOnly, Walks, Places, NodePlaces, GetPlaces, RehashPlaces, InRehash, WalkPlaces, ClearPlaces, Held, Locals
    <3>4. QED
      BY <3>1, <3>2, <3>3 DEF LockStep
  <2>2. CASE ~(m.locks)
    <3>1. lock' = lock
      BY <2>2 DEF WalkUnlocksBucket, Goto, TakeIfArray, DropIfArray
    <3>2. Held(pc[t], m) = Held(p, l) /\ l.op = m.op
      BY <1>1, <2>2 DEF WalkUnlocksBucket, Goto, Held, ControlOf, Locals, Counts
    <3>3. QED
      BY <3>1, <3>2 DEF LockStep
  <2>3. QED
    BY <2>1, <2>2
<1>6. FlagStep(pc[t], p)
  BY TableTyped DEF WalkUnlocksBucket, Goto, FlagStep, InRehash
<1>7. QED
  BY <1>2, <1>3, <1>4, <1>5, <1>6 DEF Move

LEMMA WalkPastLastMoves ==
  ASSUME TableAssumption, ReadersOnlyWalk, Types, Control, Views, NEW t \in Threads,
         WalkPastLast(t)
  PROVE  Move(t, "wk_release",
              loc[t])
<1> DEFINE m == loc[t]
           l == m
           p == "wk_release"
<1>1. m \in Locals /\ ControlOf(pc[t], m)
  BY LocalsOf
<1>2. pc' = [pc EXCEPT ![t] = p] /\ loc' = [loc EXCEPT ![t] = l]
  BY <1>1 DEF WalkPastLast, Goto, Types, Locals, TakeIfArray, DropIfArray
<1>3. p \in Places /\ l \in Locals
  BY <1>1, MaskFacts, TableTyped DEF WalkPastLast, Goto, Locals, Counts, ControlOf, HeldBuckets, Places, NodePlaces, GetPlaces, RehashPlaces, InRehash, WalkPlaces, ClearPlaces
<1>4. ControlOf(p, l)
  BY <1>1, MaskFacts, TableTyped DEF WalkPastLast, Goto, ControlOf, Locals, Counts, HeldBuckets, Places, NodePlaces, GetPlaces, RehashPlaces, InRehash, WalkPlaces, ClearPlaces
<1>5. LockStep(Held(pc[t], m), Held(p, l), m, l)
  <2>1. lock' = lock
    BY DEF WalkPastLast, Goto
  <2>2. Held(pc[t], m) = Held(p, l)
    BY <1>1 DEF WalkPastLast, Goto, Held, ControlOf, Locals, Counts
  <2>3. l.op = m.op \/ Held(pc[t], m) = {}
    BY <1>1 DEF WalkPastLast, Goto, Held, ControlOf, Locals
  <2>4. QED
    BY <2>1, <2>2, <2>3 DEF LockStep
<1>6. FlagStep(pc[t], p)
  BY TableTyped DEF WalkPastLast, Goto, FlagStep, InRehash
<1>7. QED
  BY <1>2, <1>3, <1>4, <1>5, <1>6 DEF Move

LEMMA WalkReturnsMoves ==
  ASSUME TableAssumption, ReadersOnlyWalk, Types, Control, Views, NEW t \in Threads,
         WalkReturns(t)
  PROVE  Move(t, "idle",
              NoLocals)
<1> DEFINE m == loc[t]
           l == NoLocals
           p == "idle"
<1>1. m \in Locals /\ ControlOf(pc[t], m)
  BY LocalsOf
<1>2. pc' = [pc EXCEPT ![t] = p] /\ loc' = [loc EXCEPT ![t] = l]
  BY <1>1 DEF WalkReturns, Goto, Return, Types, Locals, TakeIfArray, DropIfArray
<1>3. p \in Places /\ l \in Locals
  BY NoLocalsTyped
<1>4. ControlOf(p, l)
  BY NoLocalsTyped
<1>5. LockStep(Held(pc[t], m), Held(p, l), m, l)
  <2>1. Rehash \in Locks /\ Rehash \in Held(pc[t], m)
    BY <1>1, MaskFacts, IndexTyped DEF WalkReturns, Goto, Return, Held, ControlOf, Locals, Locks, Masks, Counts, Rehash
  <2>2. Held(p, l) = Held(pc[t], m) \ {Rehash}
    BY <1>1, MaskFacts DEF WalkReturns, Goto, Return, Held, ControlOf, Locals, Counts, Locks, Masks, Rehash
  <2>3. DropAs(m, Rehash) /\ (Held(p, l) = {})
    <3>1. m.op \in Ops
      BY <1>1 DEF WalkReturns, Goto, Return, ControlOf
    <3>2. QED
      BY <1>1, <3>1, <2>1, TakesAsHeld DEF WalkReturns, Goto, Return, ControlOf, TakeIfArray, DropIfArray, TakeAs, Reads, ReadOnly, Walks, Places, NodePlaces, GetPlaces, RehashPlaces, InRehash, WalkPlaces, ClearPlaces, Held, Locals
  <2>4. QED
    BY <2>1, <2>2, <2>3 DEF LockStep
<1>6. FlagStep(pc[t], p)
  BY TableTyped DEF WalkReturns, Goto, Return, FlagStep, InRehash
<1>7. QED
  BY <1>2, <1>3, <1>4, <1>5, <1>6 DEF Move

LEMMA ClearTakesLockMoves ==
  ASSUME TableAssumption, ReadersOnlyWalk, Types, Control, Views, NEW t \in Threads,
         ClearTakesLock(t)
  PROVE  Move(t, "cl_start",
              loc[t])
<1> DEFINE m == loc[t]
           l == m
           p == "cl_start"
<1>1. m \in Locals /\ ControlOf(pc[t], m)
  BY LocalsOf
<1>2. pc' = [pc EXCEPT ![t] = p] /\ loc' = [loc EXCEPT ![t] = l]
  BY <1>1 DEF ClearTakesLock, Goto, Types, Locals, TakeIfArray, DropIfArray
<1>3. p \in Places /\ l \in Locals
  BY <1>1, MaskFacts, TableTyped DEF ClearTakesLock, Goto, Locals, Counts, ControlOf, HeldBuckets, Places, NodePlaces, GetPlaces, RehashPlaces, InRehash, WalkPlaces, ClearPlaces
<1>4. ControlOf(p, l)
  BY <1>1, MaskFacts, TableTyped DEF ClearTakesLock, Goto, ControlOf, Locals, Counts, HeldBuckets, Places, NodePlaces, GetPlaces, RehashPlaces, InRehash, WalkPlaces, ClearPlaces
<1>5. LockStep(Held(pc[t], m), Held(p, l), m, l)
  <2>1. Rehash \in Locks /\ Rehash \notin Held(pc[t], m)
    BY <1>1, MaskFacts, IndexTyped DEF ClearTakesLock, Goto, Held, ControlOf, Locals, Locks, Masks, Counts, Rehash
  <2>2. Held(p, l) = Held(pc[t], m) \cup {Rehash}
    BY <1>1, MaskFacts DEF ClearTakesLock, Goto, Held, ControlOf, Locals, Counts, Locks, Masks, Rehash
  <2>3. TakeAs(l, Rehash) /\ (l.op = m.op)
    <3>1. m.op \in Ops
      BY <1>1 DEF ClearTakesLock, Goto, ControlOf
    <3>2. QED
      BY <1>1, <3>1, <2>1, TakesAsHeld DEF ClearTakesLock, Goto, ControlOf, TakeIfArray, DropIfArray, TakeAs, Reads, ReadOnly, Walks, Places, NodePlaces, GetPlaces, RehashPlaces, InRehash, WalkPlaces, ClearPlaces, Held, Locals
  <2>4. QED
    BY <2>1, <2>2, <2>3 DEF LockStep
<1>6. FlagStep(pc[t], p)
  BY TableTyped DEF ClearTakesLock, Goto, FlagStep, InRehash
<1>7. QED
  BY <1>2, <1>3, <1>4, <1>5, <1>6 DEF Move

LEMMA ClearStartsMoves ==
  ASSUME TableAssumption, ReadersOnlyWalk, Types, Control, Views, NEW t \in Threads,
         ClearStarts(t)
  PROVE  Move(t, IF dBuckets = Static THEN "cl_release" ELSE "cl_bucket",
              [loc[t] EXCEPT !.count = IF haveLocks THEN dMask + 1 ELSE 0, !.locks = haveLocks])
<1> DEFINE m == loc[t]
           l == [m EXCEPT !.count = IF haveLocks THEN dMask + 1 ELSE 0, !.locks = haveLocks]
           p == IF dBuckets = Static THEN "cl_release" ELSE "cl_bucket"
<1>1. m \in Locals /\ ControlOf(pc[t], m)
  BY LocalsOf
<1>2. pc' = [pc EXCEPT ![t] = p] /\ loc' = [loc EXCEPT ![t] = l]
  BY <1>1 DEF ClearStarts, Goto, Types, Locals, TakeIfArray, DropIfArray
<1>3. p \in Places /\ l \in Locals
  BY <1>1, MaskFacts, TableTyped DEF ClearStarts, Goto, Locals, Counts, ControlOf, HeldBuckets, Places, NodePlaces, GetPlaces, RehashPlaces, InRehash, WalkPlaces, ClearPlaces
<1>4. ControlOf(p, l)
  BY <1>1, MaskFacts, TableTyped DEF ClearStarts, Goto, ControlOf, Locals, Counts, HeldBuckets, Places, NodePlaces, GetPlaces, RehashPlaces, InRehash, WalkPlaces, ClearPlaces
<1>5. LockStep(Held(pc[t], m), Held(p, l), m, l)
  <2>1. lock' = lock
    BY DEF ClearStarts, Goto
  <2>2. Held(pc[t], m) = Held(p, l)
    BY <1>1 DEF ClearStarts, Goto, Held, ControlOf, Locals, Counts
  <2>3. l.op = m.op \/ Held(pc[t], m) = {}
    BY <1>1 DEF ClearStarts, Goto, Held, ControlOf, Locals
  <2>4. QED
    BY <2>1, <2>2, <2>3 DEF LockStep
<1>6. FlagStep(pc[t], p)
  BY TableTyped DEF ClearStarts, Goto, FlagStep, InRehash
<1>7. QED
  BY <1>2, <1>3, <1>4, <1>5, <1>6 DEF Move

LEMMA ClearLocksBucketMoves ==
  ASSUME TableAssumption, ReadersOnlyWalk, Types, Control, Views, NEW t \in Threads,
         ClearLocksBucket(t)
  PROVE  Move(t, "cl_bucket",
              [loc[t] EXCEPT !.i = loc[t].i + 1])
<1> DEFINE m == loc[t]
           l == [m EXCEPT !.i = m.i + 1]
           p == "cl_bucket"
<1>1. m \in Locals /\ ControlOf(pc[t], m)
  BY LocalsOf
<1>2. pc' = [pc EXCEPT ![t] = p] /\ loc' = [loc EXCEPT ![t] = l]
  BY <1>1 DEF ClearLocksBucket, Goto, Types, Locals, TakeIfArray, DropIfArray
<1>3. p \in Places /\ l \in Locals
  BY <1>1, MaskFacts, TableTyped DEF ClearLocksBucket, Goto, Locals, Counts, ControlOf, HeldBuckets, Places, NodePlaces, GetPlaces, RehashPlaces, InRehash, WalkPlaces, ClearPlaces
<1>4. ControlOf(p, l)
  BY <1>1, MaskFacts, TableTyped DEF ClearLocksBucket, Goto, ControlOf, Locals, Counts, HeldBuckets, Places, NodePlaces, GetPlaces, RehashPlaces, InRehash, WalkPlaces, ClearPlaces
<1>5. LockStep(Held(pc[t], m), Held(p, l), m, l)
  <2>1. CASE m.locks
    <3>1. m.i \in Locks /\ m.i \notin Held(pc[t], m)
      BY <1>1, MaskFacts, IndexTyped, <2>1 DEF ClearLocksBucket, Goto, Held, ControlOf, Locals, Locks, Masks, Counts, Rehash
    <3>2. Held(p, l) = Held(pc[t], m) \cup {m.i}
      BY <1>1, MaskFacts, <2>1 DEF ClearLocksBucket, Goto, Held, ControlOf, Locals, Counts, Locks, Masks, Rehash
    <3>3. TakeAs(l, m.i) /\ (l.op = m.op)
      <4>1. m.op \in Ops
        BY <1>1 DEF ClearLocksBucket, Goto, ControlOf
      <4>2. QED
        BY <1>1, <4>1, <3>1, TakesAsHeld, <2>1 DEF ClearLocksBucket, Goto, ControlOf, TakeIfArray, DropIfArray, TakeAs, Reads, ReadOnly, Walks, Places, NodePlaces, GetPlaces, RehashPlaces, InRehash, WalkPlaces, ClearPlaces, Held, Locals
    <3>4. QED
      BY <3>1, <3>2, <3>3 DEF LockStep
  <2>2. CASE ~(m.locks)
    <3>1. lock' = lock
      BY <2>2 DEF ClearLocksBucket, Goto, TakeIfArray, DropIfArray
    <3>2. Held(pc[t], m) = Held(p, l) /\ l.op = m.op
      BY <1>1, <2>2 DEF ClearLocksBucket, Goto, Held, ControlOf, Locals, Counts
    <3>3. QED
      BY <3>1, <3>2 DEF LockStep
  <2>3. QED
    BY <2>1, <2>2
<1>6. FlagStep(pc[t], p)
  BY TableTyped DEF ClearLocksBucket, Goto, FlagStep, InRehash
<1>7. QED
  BY <1>2, <1>3, <1>4, <1>5, <1>6 DEF Move

LEMMA ClearResetsMoves ==
  ASSUME TableAssumption, ReadersOnlyWalk, Types, Control, Views, NEW t \in Threads,
         ClearResets(t)
  PROVE  Move(t, "cl_mask",
              loc[t])
<1> DEFINE m == loc[t]
           l == m
           p == "cl_mask"
<1>1. m \in Locals /\ ControlOf(pc[t], m)
  BY LocalsOf
<1>2. pc' = [pc EXCEPT ![t] = p] /\ loc' = [loc EXCEPT ![t] = l]
  BY <1>1 DEF ClearResets, Goto, Types, Locals, TakeIfArray, DropIfArray
<1>3. p \in Places /\ l \in Locals
  BY <1>1, MaskFacts, TableTyped DEF ClearResets, Goto, Locals, Counts, ControlOf, HeldBuckets, Places, NodePlaces, GetPlaces, RehashPlaces, InRehash, WalkPlaces, ClearPlaces
<1>4. ControlOf(p, l)
  BY <1>1, MaskFacts, TableTyped DEF ClearResets, Goto, ControlOf, Locals, Counts, HeldBuckets, Places, NodePlaces, GetPlaces, RehashPlaces, InRehash, WalkPlaces, ClearPlaces
<1>5. LockStep(Held(pc[t], m), Held(p, l), m, l)
  <2>1. lock' = lock
    BY DEF ClearResets, Goto
  <2>2. Held(pc[t], m) = Held(p, l)
    BY <1>1 DEF ClearResets, Goto, Held, ControlOf, Locals, Counts
  <2>3. l.op = m.op \/ Held(pc[t], m) = {}
    BY <1>1 DEF ClearResets, Goto, Held, ControlOf, Locals
  <2>4. QED
    BY <2>1, <2>2, <2>3 DEF LockStep
<1>6. FlagStep(pc[t], p)
  BY TableTyped DEF ClearResets, Goto, FlagStep, InRehash
<1>7. QED
  BY <1>2, <1>3, <1>4, <1>5, <1>6 DEF Move

LEMMA ClearResetsMaskMoves ==
  ASSUME TableAssumption, ReadersOnlyWalk, Types, Control, Views, NEW t \in Threads,
         ClearResetsMask(t)
  PROVE  Move(t, "cl_unlock",
              [loc[t] EXCEPT !.i = 0])
<1> DEFINE m == loc[t]
           l == [m EXCEPT !.i = 0]
           p == "cl_unlock"
<1>1. m \in Locals /\ ControlOf(pc[t], m)
  BY LocalsOf
<1>2. pc' = [pc EXCEPT ![t] = p] /\ loc' = [loc EXCEPT ![t] = l]
  BY <1>1 DEF ClearResetsMask, Goto, Types, Locals, TakeIfArray, DropIfArray
<1>3. p \in Places /\ l \in Locals
  BY <1>1, MaskFacts, TableTyped DEF ClearResetsMask, Goto, Locals, Counts, ControlOf, HeldBuckets, Places, NodePlaces, GetPlaces, RehashPlaces, InRehash, WalkPlaces, ClearPlaces
<1>4. ControlOf(p, l)
  BY <1>1, MaskFacts, TableTyped DEF ClearResetsMask, Goto, ControlOf, Locals, Counts, HeldBuckets, Places, NodePlaces, GetPlaces, RehashPlaces, InRehash, WalkPlaces, ClearPlaces
<1>5. LockStep(Held(pc[t], m), Held(p, l), m, l)
  <2>1. lock' = lock
    BY DEF ClearResetsMask, Goto
  <2>2. Held(pc[t], m) = Held(p, l)
    BY <1>1 DEF ClearResetsMask, Goto, Held, ControlOf, Locals, Counts
  <2>3. l.op = m.op \/ Held(pc[t], m) = {}
    BY <1>1 DEF ClearResetsMask, Goto, Held, ControlOf, Locals
  <2>4. QED
    BY <2>1, <2>2, <2>3 DEF LockStep
<1>6. FlagStep(pc[t], p)
  BY TableTyped DEF ClearResetsMask, Goto, FlagStep, InRehash
<1>7. QED
  BY <1>2, <1>3, <1>4, <1>5, <1>6 DEF Move

LEMMA ClearUnlocksBucketMoves ==
  ASSUME TableAssumption, ReadersOnlyWalk, Types, Control, Views, NEW t \in Threads,
         ClearUnlocksBucket(t)
  PROVE  Move(t, "cl_unlock",
              [loc[t] EXCEPT !.i = loc[t].i + 1])
<1> DEFINE m == loc[t]
           l == [m EXCEPT !.i = m.i + 1]
           p == "cl_unlock"
<1>1. m \in Locals /\ ControlOf(pc[t], m)
  BY LocalsOf
<1>2. pc' = [pc EXCEPT ![t] = p] /\ loc' = [loc EXCEPT ![t] = l]
  BY <1>1 DEF ClearUnlocksBucket, Goto, Types, Locals, TakeIfArray, DropIfArray
<1>3. p \in Places /\ l \in Locals
  BY <1>1, MaskFacts, TableTyped DEF ClearUnlocksBucket, Goto, Locals, Counts, ControlOf, HeldBuckets, Places, NodePlaces, GetPlaces, RehashPlaces, InRehash, WalkPlaces, ClearPlaces
<1>4. ControlOf(p, l)
  BY <1>1, MaskFacts, TableTyped DEF ClearUnlocksBucket, Goto, ControlOf, Locals, Counts, HeldBuckets, Places, NodePlaces, GetPlaces, RehashPlaces, InRehash, WalkPlaces, ClearPlaces
<1>5. LockStep(Held(pc[t], m), Held(p, l), m, l)
  <2>1. CASE m.locks
    <3>1. m.i \in Locks /\ m.i \in Held(pc[t], m)
      BY <1>1, MaskFacts, IndexTyped, <2>1 DEF ClearUnlocksBucket, Goto, Held, ControlOf, Locals, Locks, Masks, Counts, Rehash
    <3>2. Held(p, l) = Held(pc[t], m) \ {m.i}
      BY <1>1, MaskFacts, <2>1 DEF ClearUnlocksBucket, Goto, Held, ControlOf, Locals, Counts, Locks, Masks, Rehash
    <3>3. DropAs(m, m.i) /\ (l.op = m.op)
      <4>1. m.op \in Ops
        BY <1>1 DEF ClearUnlocksBucket, Goto, ControlOf
      <4>2. QED
        BY <1>1, <4>1, <3>1, TakesAsHeld, <2>1 DEF ClearUnlocksBucket, Goto, ControlOf, TakeIfArray, DropIfArray, TakeAs, Reads, ReadOnly, Walks, Places, NodePlaces, GetPlaces, RehashPlaces, InRehash, WalkPlaces, ClearPlaces, Held, Locals
    <3>4. QED
      BY <3>1, <3>2, <3>3 DEF LockStep
  <2>2. CASE ~(m.locks)
    <3>1. lock' = lock
      BY <2>2 DEF ClearUnlocksBucket, Goto, TakeIfArray, DropIfArray
    <3>2. Held(pc[t], m) = Held(p, l) /\ l.op = m.op
      BY <1>1, <2>2 DEF ClearUnlocksBucket, Goto, Held, ControlOf, Locals, Counts
    <3>3. QED
      BY <3>1, <3>2 DEF LockStep
  <2>3. QED
    BY <2>1, <2>2
<1>6. FlagStep(pc[t], p)
  BY TableTyped DEF ClearUnlocksBucket, Goto, FlagStep, InRehash
<1>7. QED
  BY <1>2, <1>3, <1>4, <1>5, <1>6 DEF Move

LEMMA ClearUnlockedMoves ==
  ASSUME TableAssumption, ReadersOnlyWalk, Types, Control, Views, NEW t \in Threads,
         ClearUnlocked(t)
  PROVE  Move(t, "cl_release",
              loc[t])
<1> DEFINE m == loc[t]
           l == m
           p == "cl_release"
<1>1. m \in Locals /\ ControlOf(pc[t], m)
  BY LocalsOf
<1>2. pc' = [pc EXCEPT ![t] = p] /\ loc' = [loc EXCEPT ![t] = l]
  BY <1>1 DEF ClearUnlocked, Goto, Types, Locals, TakeIfArray, DropIfArray
<1>3. p \in Places /\ l \in Locals
  BY <1>1, MaskFacts, TableTyped DEF ClearUnlocked, Goto, Locals, Counts, ControlOf, HeldBuckets, Places, NodePlaces, GetPlaces, RehashPlaces, InRehash, WalkPlaces, ClearPlaces
<1>4. ControlOf(p, l)
  BY <1>1, MaskFacts, TableTyped DEF ClearUnlocked, Goto, ControlOf, Locals, Counts, HeldBuckets, Places, NodePlaces, GetPlaces, RehashPlaces, InRehash, WalkPlaces, ClearPlaces
<1>5. LockStep(Held(pc[t], m), Held(p, l), m, l)
  <2>1. lock' = lock
    BY DEF ClearUnlocked, Goto
  <2>2. Held(pc[t], m) = Held(p, l)
    BY <1>1 DEF ClearUnlocked, Goto, Held, ControlOf, Locals, Counts
  <2>3. l.op = m.op \/ Held(pc[t], m) = {}
    BY <1>1 DEF ClearUnlocked, Goto, Held, ControlOf, Locals
  <2>4. QED
    BY <2>1, <2>2, <2>3 DEF LockStep
<1>6. FlagStep(pc[t], p)
  BY TableTyped DEF ClearUnlocked, Goto, FlagStep, InRehash
<1>7. QED
  BY <1>2, <1>3, <1>4, <1>5, <1>6 DEF Move

LEMMA ClearReturnsMoves ==
  ASSUME TableAssumption, ReadersOnlyWalk, Types, Control, Views, NEW t \in Threads,
         ClearReturns(t)
  PROVE  Move(t, "idle",
              NoLocals)
<1> DEFINE m == loc[t]
           l == NoLocals
           p == "idle"
<1>1. m \in Locals /\ ControlOf(pc[t], m)
  BY LocalsOf
<1>2. pc' = [pc EXCEPT ![t] = p] /\ loc' = [loc EXCEPT ![t] = l]
  BY <1>1 DEF ClearReturns, Goto, Return, Types, Locals, TakeIfArray, DropIfArray
<1>3. p \in Places /\ l \in Locals
  BY NoLocalsTyped
<1>4. ControlOf(p, l)
  BY NoLocalsTyped
<1>5. LockStep(Held(pc[t], m), Held(p, l), m, l)
  <2>1. Rehash \in Locks /\ Rehash \in Held(pc[t], m)
    BY <1>1, MaskFacts, IndexTyped DEF ClearReturns, Goto, Return, Held, ControlOf, Locals, Locks, Masks, Counts, Rehash
  <2>2. Held(p, l) = Held(pc[t], m) \ {Rehash}
    BY <1>1, MaskFacts DEF ClearReturns, Goto, Return, Held, ControlOf, Locals, Counts, Locks, Masks, Rehash
  <2>3. DropAs(m, Rehash) /\ (Held(p, l) = {})
    <3>1. m.op \in Ops
      BY <1>1 DEF ClearReturns, Goto, Return, ControlOf
    <3>2. QED
      BY <1>1, <3>1, <2>1, TakesAsHeld DEF ClearReturns, Goto, Return, ControlOf, TakeIfArray, DropIfArray, TakeAs, Reads, ReadOnly, Walks, Places, NodePlaces, GetPlaces, RehashPlaces, InRehash, WalkPlaces, ClearPlaces, Held, Locals
  <2>4. QED
    BY <2>1, <2>2, <2>3 DEF LockStep
<1>6. FlagStep(pc[t], p)
  BY TableTyped DEF ClearReturns, Goto, Return, FlagStep, InRehash
<1>7. QED
  BY <1>2, <1>3, <1>4, <1>5, <1>6 DEF Move

LEMMA GrowTyped ==
  ASSUME NEW m \in Locals, NEW g \in TableMasks
  PROVE  [m EXCEPT !.target = g, !.grow = TRUE, !.s = 0] \in Locals
<1>1. ASSUME NEW n \in Locals PROVE [n EXCEPT !.grow = TRUE] \in Locals
  BY DEF Locals
<1>2. ASSUME NEW n \in Locals PROVE [n EXCEPT !.target = g] \in Locals
  BY DEF Locals
<1>3. ASSUME NEW n \in Locals PROVE [n EXCEPT !.s = 0] \in Locals
  BY DEF Locals
<1>4. [[[m EXCEPT !.target = g] EXCEPT !.grow = TRUE] EXCEPT !.s = 0] \in Locals
  BY <1>1, <1>2, <1>3
<1>5. QED
  BY <1>4

LEMMA InsertMayRehashMoves ==
  ASSUME TableAssumption, ReadersOnlyWalk, Types, Control, NEW t \in Threads, InsertMayRehash(t)
  PROVE  \E p \in {"rh_enter", "gn_locks"}, l \in Locals :
           Move(t, p, l) /\ l.op = "insert" /\ l.wait /\ l.key = loc[t].key /\ l.res = loc[t].res
<1> DEFINE m == loc[t]
           goal == IF m.s = 0 THEN 0 ELSE 2 * (dMask + 1) - 1
<1>1. m \in Locals /\ ControlOf(pc[t], m)
  BY LocalsOf
<1>2. pc[t] = "ins_need" /\ UNCHANGED <<lock, inRehash>>
  BY DEF InsertMayRehash, Goto
<1>3. m.op = "insert" /\ m.wait /\ m.res = "pending" /\ m.op \in Ops /\ m.key \in Keys
  BY <1>1, <1>2 DEF ControlOf, Locals, Points
<1>4. ASSUME NEW p \in {"rh_enter", "gn_locks"}, NEW l \in Locals, pc' = [pc EXCEPT ![t] = p],
             loc' = [loc EXCEPT ![t] = l], l.op = m.op, l.key = m.key, l.wait = m.wait, l.res = m.res
      PROVE  Move(t, p, l) /\ l.op = "insert" /\ l.wait /\ l.key = m.key /\ l.res = m.res
  <2>1. p \in Places
    BY DEF Places, NodePlaces, GetPlaces, RehashPlaces
  <2>2. ControlOf(p, l)
    BY <1>3, <1>4 DEF ControlOf, Points, NodePlaces, GetPlaces, RehashPlaces, InRehash, WalkPlaces, ClearPlaces
  <2>3. LockStep(Held(pc[t], m), Held(p, l), m, l)
    BY <1>2, <1>4 DEF LockStep, Held
  <2>4. FlagStep(pc[t], p)
    BY <1>2 DEF FlagStep, InRehash
  <2>5. QED
    BY <1>3, <1>4, <2>1, <2>2, <2>3, <2>4 DEF Move
<1>5. CASE dMask < MaxMask /\ pc' = [pc EXCEPT ![t] = "rh_enter"]
           /\ loc' = [loc EXCEPT ![t].target = goal, ![t].grow = TRUE, ![t].s = 0]
  <2>1. goal \in TableMasks
    BY <1>5, MaskFacts, MaskDoubles, TableTyped
  <2>2. PICK g \in TableMasks : g = goal
    BY <2>1
  <2> DEFINE l == [m EXCEPT !.target = g, !.grow = TRUE, !.s = 0]
  <2>3. l \in Locals
    <3>1. PICK n \in Locals : n = m
      BY <1>1
    <3>2. [n EXCEPT !.target = g, !.grow = TRUE, !.s = 0] \in Locals
      BY GrowTyped, ZenonT(30)
    <3>3. QED
      BY <3>1, <3>2
  <2>4. loc' = [loc EXCEPT ![t] = l]
    BY <1>5, <2>2 DEF Types
  <2>5. l.op = m.op /\ l.key = m.key /\ l.wait = m.wait /\ l.res = m.res
    BY <1>1 DEF Locals
  <2>6. QED
    BY <1>4, <1>5, <2>3, <2>4, <2>5
<1>6. CASE pc' = [pc EXCEPT ![t] = "gn_locks"] /\ loc' = [loc EXCEPT ![t].s = 0]
  <2> DEFINE l == [m EXCEPT !.s = 0]
  <2>2. l \in Locals /\ loc' = [loc EXCEPT ![t] = l]
    BY <1>1, <1>6 DEF Locals, Types
  <2>3. l.op = m.op /\ l.key = m.key /\ l.wait = m.wait /\ l.res = m.res
    BY <1>1 DEF Locals
  <2>4. QED
    BY <1>4, <1>6, <2>2, <2>3
<1>7. QED
  BY <1>5, <1>6 DEF InsertMayRehash, Goto

LEMMA RehashAllocatesMoves ==
  ASSUME TableAssumption, ReadersOnlyWalk, Types, Control, NEW t \in Threads, RehashAllocates(t)
  PROVE  \E a \in {b \in ArrayIds : ~Allocated(b)} :
           /\ arrays' = [arrays EXCEPT ![a] = Empty(loc[t].target)]
           /\ Move(t, "rh_bucket", [loc[t] EXCEPT !.new = a, !.i = 0, !.locks = haveLocks, !.count = LockedBuckets])
<1> DEFINE m == loc[t]
<1>1. m \in Locals /\ ControlOf(pc[t], m)
  BY LocalsOf
<1>2. PICK a \in {b \in ArrayIds : ~Allocated(b)} :
        /\ arrays' = [arrays EXCEPT ![a] = Empty(m.target)]
        /\ loc' = [loc EXCEPT ![t].new = a, ![t].i = 0, ![t].locks = haveLocks, ![t].count = LockedBuckets]
  BY DEF RehashAllocates
<1> DEFINE l == [m EXCEPT !.new = a, !.i = 0, !.locks = haveLocks, !.count = LockedBuckets]
<1>3. LockedBuckets \in Counts
  BY TableTyped DEF LockedBuckets
<1>4. l \in Locals /\ loc' = [loc EXCEPT ![t] = l]
  BY <1>1, <1>2, <1>3, TableTyped DEF Locals, Types, Addresses
<1>5. pc[t] = "rh_start" /\ pc' = [pc EXCEPT ![t] = "rh_bucket"] /\ UNCHANGED <<lock, inRehash>>
  BY DEF RehashAllocates, Goto
<1>6. /\ l.op = m.op /\ l.key = m.key /\ l.wait = m.wait /\ l.res = m.res
      /\ l.i = 0 /\ l.count = LockedBuckets /\ l.locks = haveLocks
  BY <1>1 DEF Locals
<1> HIDE DEF l
<1>7. ControlOf("rh_bucket", l)
  BY <1>1, <1>3, <1>5, <1>6 DEF ControlOf, Counts, NodePlaces, GetPlaces, RehashPlaces, InRehash, WalkPlaces, ClearPlaces
<1>8. LockStep(Held(pc[t], m), Held("rh_bucket", l), m, l)
  <2>1. Held(pc[t], m) = {Rehash} /\ Held("rh_bucket", l) = {Rehash}
    BY <1>5, <1>6 DEF Held
  <2>2. QED
    BY <1>5, <1>6, <2>1 DEF LockStep
<1>9. FlagStep(pc[t], "rh_bucket")
  BY <1>5 DEF FlagStep, InRehash
<1>10. Move(t, "rh_bucket", l)
  BY <1>4, <1>5, <1>7, <1>8, <1>9 DEF Move, Places, RehashPlaces, InRehash
<1>11. QED
  BY <1>2, <1>10 DEF l

LEMMA VisitBucketMoves ==
  ASSUME TableAssumption, ReadersOnlyWalk, Types, Control, NEW t \in Threads, VisitBucket(t)
  PROVE  \E stop \in BOOLEAN, S \in SUBSET arrays[dBuckets].cells[loc[t].i] :
           /\ ~stop => S = arrays[dBuckets].cells[loc[t].i]
           /\ Move(t, "wk_unlock", [loc[t] EXCEPT !.seen = loc[t].seen \cup S, !.stop = stop])
<1> DEFINE m == loc[t]
<1>1. m \in Locals /\ ControlOf(pc[t], m)
  BY LocalsOf
<1>2. PICK stop \in BOOLEAN, S \in SUBSET arrays[dBuckets].cells[m.i] :
        /\ ~stop => S = arrays[dBuckets].cells[m.i]
        /\ loc' = [loc EXCEPT ![t].seen = @ \cup S, ![t].stop = stop]
  BY DEF VisitBucket
<1> DEFINE l == [m EXCEPT !.seen = m.seen \cup S, !.stop = stop]
<1>3. pc[t] = "wk_visit" /\ pc' = [pc EXCEPT ![t] = "wk_unlock"] /\ UNCHANGED <<lock, inRehash>>
  BY DEF VisitBucket, Goto
<1>4. S \subseteq Keys
  <2>1. m.i \in Masks /\ dBuckets \in ArrayIds
    BY <1>1, <1>3, IndexTyped, TableTyped DEF VisitBucket, InBounds, ControlOf, Locals, Addresses
  <2>2. arrays[dBuckets].cells[m.i] \subseteq Keys
    BY <2>1 DEF Types, TypeOK
  <2>3. QED
    BY <2>2
<1>5. l \in Locals /\ loc' = [loc EXCEPT ![t] = l]
  BY <1>1, <1>2, <1>4 DEF Locals, Types
<1>6. /\ l.op = m.op /\ l.key = m.key /\ l.wait = m.wait /\ l.res = m.res
      /\ l.i = m.i /\ l.count = m.count /\ l.locks = m.locks
  BY <1>1 DEF Locals
<1> HIDE DEF l
<1>7. ControlOf("wk_unlock", l)
  BY <1>1, <1>3, <1>6 DEF ControlOf, Counts, NodePlaces, GetPlaces, RehashPlaces, InRehash, WalkPlaces, ClearPlaces
<1>8. LockStep(Held(pc[t], m), Held("wk_unlock", l), m, l)
  <2>1. Held(pc[t], m) = Held("wk_unlock", l)
    BY <1>3, <1>6 DEF Held
  <2>2. QED
    BY <1>3, <1>6, <2>1 DEF LockStep
<1>9. FlagStep(pc[t], "wk_unlock")
  BY <1>3 DEF FlagStep, InRehash
<1>10. Move(t, "wk_unlock", l)
  BY <1>3, <1>5, <1>7, <1>8, <1>9 DEF Move, Places, WalkPlaces
<1>11. QED
  BY <1>2, <1>10 DEF l

-----------------------------------------------------------------------------
(***************************************************************************)
(* Steps keep the words of the locks exact.  Alone(t): no other thread is  *)
(* in a call, which is what the calls that do not count as Concurrent need.*)
(***************************************************************************)
Alone(t) == \A u \in Threads \ {t} : pc[u] = "idle"

LEMMA OthersStay ==
  ASSUME Types, NEW t \in Threads, NEW p, NEW l, Move(t, p, l)
  PROVE  /\ pc'[t] = p /\ loc'[t] = l
         /\ \A u \in Threads \ {t} : pc'[u] = pc[u] /\ loc'[u] = loc[u]
         /\ pc' \in [Threads -> Places] /\ loc' \in [Threads -> Locals]
BY DEF Move, Types

LEMMA HoldersMove ==
  ASSUME Types, NEW t \in Threads, NEW p, NEW l, Move(t, p, l), NEW n
  PROVE  /\ Holders(n)' = IF n \in Held(p, l) THEN Holders(n) \cup {t} ELSE Holders(n) \ {t}
         /\ Readers(n)' = IF n \in Held(p, l) /\ Reads(l) THEN Readers(n) \cup {t} ELSE Readers(n) \ {t}
         /\ t \in Holders(n) <=> n \in Held(pc[t], loc[t])
         /\ Readers(n) \subseteq Holders(n) /\ Holders(n) \subseteq Threads
<1>1. Holders(n)' = {u \in Threads : n \in Held(pc'[u], loc'[u])}
  BY DEF Holders
<1>2. Readers(n)' = {u \in Threads : n \in Held(pc'[u], loc'[u]) /\ Reads(loc'[u])}
  BY <1>1 DEF Readers
<1>3. QED
  BY <1>1, <1>2, OthersStay DEF Holders, Readers

LEMMA NothingHeld ==
  ASSUME NEW t \in Threads, pc[t] = "idle"
  PROVE  Held(pc[t], loc[t]) = {}
BY DEF Held

\* A lock whose holders stay the same.
LEMMA SameHolders ==
  ASSUME Types, NEW t \in Threads, NEW p, NEW l, Move(t, p, l), NEW n \in Locks, LockExact(n),
         lock'[n] = lock[n],
         n \in Held(p, l) <=> n \in Held(pc[t], loc[t]),
         n \in Held(p, l) => l.op = loc[t].op
  PROVE  LockExact(n)'
<1>1. n \in Held(p, l) => (Reads(l) <=> Reads(loc[t]))
  BY DEF Reads
<1>2. Holders(n)' = Holders(n) /\ Readers(n)' = Readers(n)
  <2>1. t \in Readers(n) <=> n \in Held(pc[t], loc[t]) /\ Reads(loc[t])
    BY HoldersMove DEF Readers
  <2>2. /\ Holders(n)' = IF n \in Held(p, l) THEN Holders(n) \cup {t} ELSE Holders(n) \ {t}
        /\ Readers(n)' = IF n \in Held(p, l) /\ Reads(l) THEN Readers(n) \cup {t} ELSE Readers(n) \ {t}
        /\ t \in Holders(n) <=> n \in Held(pc[t], loc[t])
    BY HoldersMove
  <2>3. CASE n \in Held(p, l)
    <3>1. Holders(n)' = Holders(n)
      BY <2>2, <2>3
    <3>2. Readers(n)' = Readers(n)
      BY <1>1, <2>1, <2>2, <2>3
    <3>3. QED
      BY <3>1, <3>2
  <2>4. CASE n \notin Held(p, l)
    <3>1. Holders(n)' = Holders(n)
      BY <2>2, <2>4
    <3>2. Readers(n)' = Readers(n)
      BY <2>1, <2>2, <2>4
    <3>3. QED
      BY <3>1, <3>2
  <2>5. QED
    BY <2>3, <2>4
<1>3. \A u \in Holders(n) : Reads(loc'[u]) <=> Reads(loc[u])
  BY <1>1, HoldersMove, OthersStay
<1>4. LockExact(n)' <=>
        /\ lock'[n].w => \E u \in Holders(n)' : ~Reads(loc'[u])
        /\ lock'[n].r = Cardinality(Readers(n)')
        /\ \A s, u \in Holders(n)' : s # u => Reads(loc'[s]) /\ Reads(loc'[u])
        /\ Concurrent => \A u \in Holders(n)' : ~Reads(loc'[u]) => lock'[n].w
  BY DEF LockExact
<1>5. QED
  BY <1>2, <1>3, <1>4 DEF LockExact

LEMMA StepLocks ==
  ASSUME TableAssumption, Types, LocksExact, NEW t \in Threads, NEW p, NEW l, Move(t, p, l),
         Concurrent \/ Alone(t)
  PROVE  LocksExact'
<1> DEFINE H == Held(pc[t], loc[t])
           J == Held(p, l)
<1>0. LockStep(H, J, loc[t], l) /\ lock \in [Locks -> [w : BOOLEAN, r : 0 .. 63]]
  BY DEF Move, Types, TypeOK
<1> SUFFICES ASSUME NEW n \in Locks PROVE LockExact(n)'
  BY DEF LocksExact
<1>1. LockExact(n)
  BY DEF LocksExact
<1>2. /\ Holders(n)' = IF n \in J THEN Holders(n) \cup {t} ELSE Holders(n) \ {t}
      /\ Readers(n)' = IF n \in J /\ Reads(l) THEN Readers(n) \cup {t} ELSE Readers(n) \ {t}
      /\ t \in Holders(n) <=> n \in H
      /\ Readers(n) \subseteq Holders(n) /\ Holders(n) \subseteq Threads
  BY HoldersMove
<1>3. LockExact(n)' <=>
        /\ lock'[n].w => \E u \in Holders(n)' : ~Reads(loc'[u])
        /\ lock'[n].r = Cardinality(Readers(n)')
        /\ \A s, u \in Holders(n)' : s # u => Reads(loc'[s]) /\ Reads(loc'[u])
        /\ Concurrent => \A u \in Holders(n)' : ~Reads(loc'[u]) => lock'[n].w
  BY DEF LockExact
<1>4. IsFiniteSet(Readers(n)) /\ Cardinality(Readers(n)) \in Nat /\ IsFiniteSet({}) /\ Cardinality({}) = 0
  BY <1>2, FS_Subset, FS_CardinalityType, FS_EmptySet DEF TableAssumption
<1>5. loc'[t] = l /\ \A u \in Threads \ {t} : loc'[u] = loc[u]
  BY OthersStay
<1>6. ~Concurrent => Holders(n) \subseteq {t}
  BY <1>2, NothingHeld DEF Alone, Holders
<1> HIDE DEF H, J
<1>7. CASE lock' = lock /\ H = J /\ (l.op = loc[t].op \/ H = {})
  BY <1>1, <1>7, SameHolders DEF H, J
<1>8. CASE ~Concurrent /\ lock' = lock /\ H \subseteq J /\ ~Reads(l) /\ l.op = loc[t].op
  <2>1. CASE n \in H \/ n \notin J
    BY <1>1, <1>8, <2>1, SameHolders DEF H, J
  <2>2. CASE n \in J /\ n \notin H
    <3>1. Holders(n) = {} /\ Readers(n) = {}
      BY <1>2, <1>6, <1>8, <2>2
    <3>2. Holders(n)' = {t} /\ Readers(n)' = {}
      BY <1>2, <1>8, <2>2, <3>1
    <3>3. ~lock[n].w /\ lock[n].r = 0
      BY <1>1, <1>4, <3>1 DEF LockExact
    <3>4. QED
      BY <1>3, <1>4, <1>8, <3>2, <3>3
  <2>3. QED
    BY <2>1, <2>2
<1>9. ASSUME NEW k \in Locks \ H, J = H \cup {k}, TakeAs(l, k), l.op = loc[t].op
      PROVE  LockExact(n)'
  <2>1. CASE n # k
    <3>1. lock'[n] = lock[n]
      BY <1>0, <1>9, <2>1 DEF TakeAs
    <3>2. QED
      BY <1>1, <1>9, <2>1, <3>1, SameHolders DEF H, J
  <2>2. CASE n = k
    <3>1. ~lock[n].w /\ t \notin Holders(n)
      BY <1>2, <1>9, <2>2 DEF TakeAs
    <3>2. \A u \in Holders(n) : Reads(loc[u])
      BY <1>1, <1>2, <1>6, <3>1 DEF LockExact
    <3>3. Holders(n)' = Holders(n) \cup {t}
      BY <1>2, <1>9, <2>2
    <3>4. CASE Reads(l)
      <4>1. lock'[n].r = lock[n].r + 1 /\ lock'[n].w = lock[n].w
        BY <1>0, <1>9, <2>2, <3>4 DEF TakeAs
      <4>2. Readers(n)' = Readers(n) \cup {t} /\ t \notin Readers(n)
        BY <1>2, <1>9, <2>2, <3>1, <3>4
      <4>3. Cardinality(Readers(n)') = Cardinality(Readers(n)) + 1
        BY <1>4, <4>2, FS_AddElement
      <4>4. \A u \in Holders(n)' : Reads(loc'[u])
        BY <1>2, <1>5, <3>1, <3>2, <3>3, <3>4
      <4>5. QED
        BY <1>1, <1>3, <3>1, <4>1, <4>3, <4>4 DEF LockExact
    <3>5. CASE ~Reads(l)
      <4>1. lock[n].r = 0 /\ lock'[n].w /\ lock'[n].r = 0
        BY <1>0, <1>9, <2>2, <3>5 DEF TakeAs
      <4>2. Readers(n) = {}
        BY <1>1, <1>4, <4>1, FS_EmptySet DEF LockExact
      <4>3. Holders(n) = {}
        BY <3>2, <4>2 DEF Readers
      <4>4. Holders(n)' = {t} /\ Readers(n)' = {}
        BY <1>2, <3>3, <3>5, <4>2, <4>3
      <4>5. QED
        BY <1>3, <1>4, <1>5, <3>5, <4>1, <4>4
    <3>6. QED
      BY <3>4, <3>5
  <2>3. QED
    BY <2>1, <2>2
<1>10. ASSUME NEW k \in H, J = H \ {k}, DropAs(loc[t], k), l.op = loc[t].op \/ J = {}
       PROVE  LockExact(n)'
  <2>1. CASE n # k
    <3>1. lock'[n] = lock[n]
      BY <1>0, <1>10, <2>1 DEF DropAs
    <3>2. QED
      BY <1>1, <1>10, <2>1, <3>1, SameHolders DEF H, J
  <2>2. CASE n = k
    <3>1. t \in Holders(n) /\ Holders(n)' = Holders(n) \ {t} /\ Readers(n)' = Readers(n) \ {t}
      BY <1>2, <1>10, <2>2
    <3>2. CASE Reads(loc[t])
      <4>1. t \in Readers(n) /\ \A u \in Holders(n) : Reads(loc[u])
        BY <1>1, <3>1, <3>2 DEF LockExact, Readers
      <4>2. Cardinality(Readers(n)') = Cardinality(Readers(n)) - 1 /\ Cardinality(Readers(n)') \in Nat
        BY <1>4, <3>1, <4>1, FS_RemoveElement, FS_CardinalityType
      <4>3. lock[n].r # 0
        BY <1>1, <1>4, <4>2 DEF LockExact
      <4>4. lock'[n].r = lock[n].r - 1 /\ lock'[n].w = lock[n].w
        BY <1>0, <1>10, <2>2, <3>2, <4>3 DEF DropAs
      <4>5. ~lock[n].w
        BY <1>1, <4>1 DEF LockExact
      <4>6. \A u \in Holders(n)' : Reads(loc'[u])
        BY <1>2, <1>5, <3>1, <4>1
      <4>7. QED
        BY <1>1, <1>3, <4>2, <4>4, <4>5, <4>6 DEF LockExact
    <3>3. CASE ~Reads(loc[t])
      <4>1. Holders(n) = {t}
        BY <1>1, <3>1, <3>3 DEF LockExact
      <4>2. Holders(n)' = {} /\ Readers(n)' = {} /\ Readers(n) = {}
        BY <1>2, <3>1, <3>3, <4>1 DEF Readers
      <4>3. ~lock'[n].w /\ lock'[n].r = lock[n].r
        BY <1>0, <1>10, <2>2, <3>3 DEF DropAs
      <4>4. lock[n].r = 0
        BY <1>1, <1>4, <4>2 DEF LockExact
      <4>5. QED
        BY <1>3, <1>4, <4>2, <4>3, <4>4
    <3>4. QED
      BY <3>2, <3>3
  <2>3. QED
    BY <2>1, <2>2
<1>11. QED
  BY <1>0, <1>7, <1>8, <1>9, <1>10 DEF LockStep

-----------------------------------------------------------------------------
\* Steps keep control, and d_in_rehash.

LEMMA StepControl ==
  ASSUME Types, Control, NEW t \in Threads, NEW p, NEW l, Move(t, p, l)
  PROVE  Control'
<1>1. ControlOf(p, l) /\ pc'[t] = p /\ loc'[t] = l
  BY OthersStay DEF Move
<1>2. \A u \in Threads : ControlOf(pc'[u], loc'[u])
  BY <1>1, OthersStay DEF Control
<1>3. QED
  BY <1>2 DEF Control, ControlOf, NoLocals, Bucket

LEMMA StepFlag ==
  ASSUME Types, OneRehash, NEW t \in Threads, NEW p, NEW l, Move(t, p, l)
  PROVE  OneRehash'
<1>1. FlagStep(pc[t], p) /\ pc'[t] = p
  BY OthersStay DEF Move
<1>2. \A u \in Threads \ {t} : pc'[u] = pc[u]
  BY OthersStay
<1>3. inRehash \in BOOLEAN
  BY DEF Types, TypeOK
<1>4. QED
  BY <1>1, <1>2, <1>3 DEF FlagStep, OneRehash

-----------------------------------------------------------------------------
(***************************************************************************)
(* Steps that leave the table as it is.                                    *)
(***************************************************************************)
Quiet(t, p, l) ==
  /\ UNCHANGED table
  /\ steady' \in [Threads -> SUBSET Keys]
  /\ \A u \in Threads \ {t} : steady'[u] = steady[u]
  /\ pc[t] \notin {"rh_store", "rh_mask", "cl_mask", "fin"}
  /\ p \notin {"rh_store", "rh_mask", "cl_mask"}
  /\ pc[t] \in {"rh_bucket", "rh_move"} <=> p \in {"rh_bucket", "rh_move"}
  /\ p \in {"rh_bucket", "rh_move"} => l.new = loc[t].new
  /\ p = "fin" => l.op # "insert" /\ (l.op = "erase" => l.res # "found")

LEMMA HeldAreLocks ==
  ASSUME TableAssumption, Types, Control, NEW t \in Threads
  PROVE  Held(pc[t], loc[t]) \subseteq Locks
<1>1. loc[t] \in Locals /\ ControlOf(pc[t], loc[t])
  BY LocalsOf
<1> DEFINE m == loc[t]
<1>2. m.lk \in Locks /\ m.i \in 0 .. MaxMask + 1 /\ m.count \in 0 .. MaxMask + 1 /\ MaxMask \in Nat
  BY <1>1 DEF Locals, Counts, TableAssumption
<1>3. pc[t] \in {"rh_bucket", "rh_store", "rh_mask", "cl_bucket", "cl_mask"} => m.i <= m.count
  BY <1>1, <1>2 DEF ControlOf
<1>4. pc[t] \in {"rh_move", "wk_visit", "wk_unlock"} => m.i < m.count
  BY <1>1 DEF ControlOf
<1> HIDE DEF m
<1>5. Held(pc[t], m) \subseteq Locks
  BY <1>2, <1>3, <1>4 DEF Held, Locks, Masks, Rehash
<1>6. QED
  BY <1>5 DEF m

LEMMA LockTyped ==
  ASSUME TableAssumption, Types, Control, NEW t \in Threads, NEW p, NEW l, Move(t, p, l)
  PROVE  lock' \in [Locks -> [w : BOOLEAN, r : 0 .. 63]] /\ inRehash' \in BOOLEAN
<1>1. lock \in [Locks -> [w : BOOLEAN, r : 0 .. 63]] /\ inRehash \in BOOLEAN
  BY DEF Types, TypeOK
<1>2. lock' \in [Locks -> [w : BOOLEAN, r : 0 .. 63]]
  <2>1. CASE lock' = lock
    BY <1>1, <2>1
  <2>2. ASSUME NEW n \in Locks, TakeAs(l, n) \/ DropAs(loc[t], n)
        PROVE  lock' \in [Locks -> [w : BOOLEAN, r : 0 .. 63]]
    <3>1. lock[n].r \in 0 .. 63
      BY <1>1
    <3>2. lock[n].r < 32 => lock[n].r + 1 \in 0 .. 63
      BY <3>1
    <3>3. (IF lock[n].r = 0 THEN 63 ELSE lock[n].r - 1) \in 0 .. 63
      BY <3>1
    <3>4. CASE lock' = [lock EXCEPT ![n].r = lock[n].r + 1] /\ lock[n].r < 32
      BY <1>1, <3>2, <3>4
    <3>5. CASE lock' = [lock EXCEPT ![n].r = IF lock[n].r = 0 THEN 63 ELSE lock[n].r - 1]
      BY <1>1, <3>3, <3>5
    <3>6. CASE lock' = [lock EXCEPT ![n].w = TRUE]
      BY <1>1, <3>6
    <3>7. CASE lock' = [lock EXCEPT ![n].w = FALSE]
      BY <1>1, <3>7
    <3>8. QED
      BY <2>2, <3>4, <3>5, <3>6, <3>7 DEF TakeAs, DropAs
  <2>3. ASSUME NEW n \in Held(pc[t], loc[t]) PROVE n \in Locks
    BY <2>3, HeldAreLocks
  <2>4. QED
    BY <2>1, <2>2, <2>3 DEF Move, LockStep
<1>3. QED
  BY <1>1, <1>2 DEF Move, FlagStep

LEMMA QuietTypes ==
  ASSUME TableAssumption, Types, Control, NEW t \in Threads, NEW p, NEW l, Move(t, p, l), Quiet(t, p, l)
  PROVE  Types'
<1>1. lock' \in [Locks -> [w : BOOLEAN, r : 0 .. 63]] /\ inRehash' \in BOOLEAN
  BY LockTyped
<1>2. pc' \in [Threads -> Places] /\ loc' \in [Threads -> Locals]
  BY OthersStay
<1>3. QED
  BY <1>1, <1>2 DEF Quiet, table, Types, TypeOK

LEMMA QuietViews ==
  ASSUME Types, Views, NEW t \in Threads, NEW p, NEW l, Move(t, p, l), Quiet(t, p, l),
         NEW u \in Threads \ {t}
  PROVE  View(u)'
<1>1. pc'[u] = pc[u] /\ loc'[u] = loc[u] /\ steady'[u] = steady[u] /\ UNCHANGED table
  BY OthersStay DEF Quiet
<1>2. View(u)
  BY DEF Views
<1>3. QED
  BY <1>1, <1>2 DEF View, Knows, NodeAt, RehashAt, WalkAt, ClearAt, Moves, Stored, Contents, Content, LockedBuckets, table

LEMMA QuietTable ==
  ASSUME Types, TableShape, KeysInPlace, Counted, NEW t \in Threads, NEW p, NEW l, Move(t, p, l), Quiet(t, p, l)
  PROVE  TableShape' /\ KeysInPlace' /\ Counted'
<1>1. UNCHANGED <<arrays, dBuckets, dValues, dMask, dSize, haveLocks>>
  BY DEF Quiet, table
<1>2. \A u \in Threads : pc'[u] = pc[u] \/ u = t
  BY OthersStay
<1>3. pc'[t] = p /\ loc'[t] = l
  BY OthersStay
<1>4. Settled' <=> Settled
  BY <1>2, <1>3 DEF Settled, Quiet
<1>5. ASSUME NEW u \in Threads, pc[u] \in {"rh_bucket", "rh_move", "rh_store"}
      PROVE  pc'[u] \in {"rh_bucket", "rh_move", "rh_store"} /\ loc'[u].new = loc[u].new
  BY <1>3, <1>5, OthersStay DEF Quiet
<1>6. TableShape'
  BY <1>1, <1>4, <1>5 DEF TableShape, Content
<1>7. KeysInPlace'
  BY <1>1 DEF KeysInPlace, Content
<1>8. Pending("insert", "absent")' = Pending("insert", "absent") /\ Pending("erase", "found")' = Pending("erase", "found")
  <2>1. {u \in Threads : pc'[u] = "fin" /\ loc'[u].op = "insert" /\ loc'[u].res = "absent"}
          = {u \in Threads : pc[u] = "fin" /\ loc[u].op = "insert" /\ loc[u].res = "absent"}
    BY <1>3, OthersStay DEF Quiet
  <2>2. {u \in Threads : pc'[u] = "fin" /\ loc'[u].op = "erase" /\ loc'[u].res = "found"}
          = {u \in Threads : pc[u] = "fin" /\ loc[u].op = "erase" /\ loc[u].res = "found"}
    BY <1>3, OthersStay DEF Quiet
  <2>3. QED
    BY <2>1, <2>2 DEF Pending
<1>9. Counted'
  BY <1>1, <1>8 DEF Counted, SizeCounts, Contents, Content
<1>10. QED
  BY <1>6, <1>7, <1>9

\* A step that leaves the table as it is keeps the invariant, if the thread
\* knows of the table what its new place asks for.
LEMMA QuietStep ==
  ASSUME TableAssumption, CInv, NEW t \in Threads, NEW p, NEW l, Concurrent \/ Alone(t),
         Move(t, p, l), Quiet(t, p, l), Knows(p, l, steady'[t])
  PROVE  CInv'
<1>1. Types' /\ Control' /\ LocksExact' /\ OneRehash'
  BY QuietTypes, StepControl, StepLocks, StepFlag DEF CInv
<1>2. TableShape' /\ KeysInPlace' /\ Counted'
  BY QuietTable DEF CInv
<1>3. View(t)'
  <2>1. pc'[t] = p /\ loc'[t] = l /\ UNCHANGED table
    BY OthersStay DEF CInv, Quiet
  <2>2. PICK st : st = steady'[t]
    OBVIOUS
  <2>3. Knows(p, l, st)' <=> Knows(p, l, st)
    BY <2>1 DEF Knows, NodeAt, RehashAt, WalkAt, ClearAt, Moves, Stored, Contents, Content, LockedBuckets, table
  <2>4. QED
    BY <2>1, <2>2, <2>3 DEF View, Knows
<1>4. \A u \in Threads \ {t} : View(u)'
  BY QuietViews DEF CInv
<1>5. Views'
  BY <1>3, <1>4 DEF Views
<1>6. QED
  BY <1>1, <1>2, <1>5 DEF CInv

-----------------------------------------------------------------------------
\* Who has a lock has it alone, or shares it with walks that only read.

LEMMA OneHolder ==
  ASSUME LocksExact, NEW s \in Threads, NEW t \in Threads, s # t, NEW n \in Locks,
         n \in Held(pc[s], loc[s]), n \in Held(pc[t], loc[t])
  PROVE  Reads(loc[s]) /\ Reads(loc[t])
<1>1. s \in Holders(n) /\ t \in Holders(n) /\ LockExact(n)
  BY DEF LocksExact, Holders
<1>2. QED
  BY <1>1 DEF LockExact

\* The places from which a thread changes the arrays, or will.
Rehashes == {"rh_start", "rh_bucket", "rh_move", "rh_store", "rh_mask", "rh_unlock",
             "rh_unlock_failed", "rh_release"}
Clears   == {"cl_start", "cl_bucket", "cl_mask", "cl_unlock", "cl_release"}

LEMMA RehashHeld ==
  ASSUME TableAssumption, CInv, NEW t \in Threads
  PROVE  /\ pc[t] \in Rehashes \cup Clears => Rehash \in Held(pc[t], loc[t]) /\ ~Reads(loc[t])
         /\ pc[t] \in WalkPlaces \ {"wk_lock"} => Rehash \in Held(pc[t], loc[t])
         /\ pc[t] \in {"gn_again"} => Rehash \in Held(pc[t], loc[t])
         /\ pc[t] \in {"gn_again", "gn_check", "gn_update", "crit", "fin"} => ~Reads(loc[t])
<1>1. ControlOf(pc[t], loc[t])
  BY DEF CInv, Control
<1>2. pc[t] \in Rehashes \cup Clears => Rehash \in Held(pc[t], loc[t])
  BY DEF Rehashes, Clears, Held
<1>3. pc[t] \in Rehashes \cup Clears => ~Reads(loc[t])
  BY <1>1 DEF Rehashes, Clears, ControlOf, RehashPlaces, InRehash, ClearPlaces, Reads
<1>4. pc[t] \in WalkPlaces \ {"wk_lock"} => Rehash \in Held(pc[t], loc[t])
  BY DEF WalkPlaces, Held
<1>5. pc[t] \in {"gn_again"} => Rehash \in Held(pc[t], loc[t])
  BY DEF Held
<1>6. pc[t] \in {"gn_again", "gn_check", "gn_update", "crit", "fin"} => ~Reads(loc[t])
  BY <1>1 DEF ControlOf, NodePlaces, GetPlaces, Reads, Points
<1>7. QED
  BY <1>2, <1>3, <1>4, <1>5, <1>6

\* Under d_rehash_lock no other thread rehashes or clears.
LEMMA NobodyRehashes ==
  ASSUME TableAssumption, CInv, NEW t \in Threads, Rehash \in Held(pc[t], loc[t]), NEW u \in Threads \ {t}
  PROVE  pc[u] \notin Rehashes \cup Clears
<1>1. Rehash \in Locks
  BY MaskFacts
<1>2. LocksExact
  BY DEF CInv
<1>3. QED
  BY <1>1, <1>2, RehashHeld, OneHolder

\* What a thread that holds d_rehash_lock, and is not in the middle of a rehash, finds.
LEMMA WholeTable ==
  ASSUME TableAssumption, CInv, NEW t \in Threads, Rehash \in Held(pc[t], loc[t]),
         pc[t] \notin {"rh_bucket", "rh_move", "rh_store", "rh_mask", "cl_mask"}
  PROVE  /\ Settled /\ dValues = dBuckets
         /\ \A a \in ArrayIds : Content(a) # {} => a = dBuckets
         /\ dBuckets = Static => Contents = {}
         /\ dBuckets # Static => dBuckets \in ArrayIds /\ arrays[dBuckets].mask = dMask /\ Contents = Content(dBuckets)
<1>1. \A u \in Threads : pc[u] \notin {"rh_bucket", "rh_move", "rh_store", "rh_mask", "cl_mask"}
  BY NobodyRehashes DEF Rehashes, Clears
<1>2. Settled
  BY <1>1 DEF Settled
<1>3. \A a \in ArrayIds : Content(a) # {} => a = dBuckets
  BY <1>1 DEF CInv, TableShape
<1>4. dBuckets \in Addresses /\ Static \notin ArrayIds
  BY TableTyped DEF CInv, TableAssumption
<1>5. dBuckets = Static => Contents = {}
  BY <1>3, <1>4 DEF Contents
<1>6. dBuckets # Static => dBuckets \in ArrayIds /\ Contents = Content(dBuckets)
  <2>1. SUFFICES ASSUME dBuckets # Static PROVE dBuckets \in ArrayIds /\ Contents = Content(dBuckets)
    OBVIOUS
  <2>2. dBuckets \in ArrayIds
    BY <1>4, <2>1 DEF Addresses
  <2>3. Contents \subseteq Content(dBuckets)
    BY <1>3 DEF Contents
  <2>4. Content(dBuckets) \subseteq Contents
    BY <2>2 DEF Contents
  <2>5. QED
    BY <2>2, <2>3, <2>4
<1>7. QED
  BY <1>2, <1>3, <1>5, <1>6 DEF CInv, TableShape

\* The bucket of a key in an array.
LEMMA KeyIsIn ==
  ASSUME TableAssumption, CInv, NEW a \in ArrayIds
  PROVE  /\ \A b \in Masks : arrays[a].cells[b] \subseteq Keys
         /\ Content(a) \subseteq Keys
         /\ \A k \in Content(a) : /\ Bucket(k, arrays[a].mask) \in Masks
                                  /\ k \in arrays[a].cells[Bucket(k, arrays[a].mask)]
         /\ \A b \in Masks : \A k \in arrays[a].cells[b] : Bucket(k, arrays[a].mask) = b
<1>1. \A b \in Masks : arrays[a].cells[b] \subseteq Keys
  BY DEF CInv, Types, TypeOK
<1>2. \A b \in Masks : \A k \in arrays[a].cells[b] : Bucket(k, arrays[a].mask) = b
  BY DEF CInv, KeysInPlace
<1>3. \A k \in Content(a) : \E b \in Masks : k \in arrays[a].cells[b]
  BY DEF Content
<1>4. QED
  BY <1>1, <1>2, <1>3

LEMMA ContentsTyped ==
  ASSUME TableAssumption, CInv
  PROVE  Contents \subseteq Keys
BY KeyIsIn DEF Contents

-----------------------------------------------------------------------------
\* The steps that leave the table as it is.

LEMMA CallPointKeeps ==
  ASSUME TableAssumption, ReadersOnlyWalk, CInv, NEW t \in Threads, Concurrent \/ Alone(t),
         NEW op \in Points, NEW k \in Keys, CallPoint(t, op, k)
  PROVE  CInv'
<1> DEFINE m == loc[t]
           l == [m EXCEPT !.op = op, !.key = k, !.wait = (op \in Inserts)]
           p == IF op \in Inserts THEN "ins_size" ELSE "gn_locks"
<1>1. m \in Locals /\ ControlOf(pc[t], m) /\ View(t)
  BY LocalsOf DEF CInv, Views
<1>2. Move(t, p, l)
  <2>1. Types /\ Control /\ Views
    BY DEF CInv
  <2>2. QED
    BY <2>1, CallPointMoves, Zenon
<1>3. Quiet(t, p, l)
  BY <1>1 DEF CallPoint, Goto, Points, Walks, Inserts, Quiet, ControlOf, Locals, CInv, Types, TypeOK, table, Points, InRehash, NodePlaces
<1>4. Knows(p, l, steady'[t])
  BY <1>1, TableTyped DEF CallPoint, Goto, Points, Walks, Inserts, Locals, ControlOf, CInv, View, Knows, NodeAt, RehashAt, WalkAt, ClearAt, NodePlaces, GetPlaces, RehashPlaces, InRehash, WalkPlaces, ClearPlaces
<1> HIDE DEF l, p
<1>5. QED
  BY <1>2, <1>3, <1>4, QuietStep

LEMMA CallWalkKeeps ==
  ASSUME TableAssumption, ReadersOnlyWalk, CInv, NEW t \in Threads, Concurrent \/ Alone(t),
         NEW op \in Walks, CallWalk(t, op)
  PROVE  CInv'
<1> DEFINE m == loc[t]
           l == [m EXCEPT !.op = op]
           p == "wk_lock"
<1>1. m \in Locals /\ ControlOf(pc[t], m) /\ View(t)
  BY LocalsOf DEF CInv, Views
<1>2. Move(t, p, l)
  BY CallWalkMoves DEF CInv
<1>3. Quiet(t, p, l)
  BY <1>1, ContentsTyped DEF CallWalk, Goto, Points, Walks, Inserts, Quiet, ControlOf, Locals, CInv, Types, TypeOK, table, Points, InRehash, NodePlaces
<1>4. Knows(p, l, steady'[t])
  <2>1. steady'[t] = Contents
    BY DEF CallWalk, CInv, Types, TypeOK
  <2>2. QED
    BY <2>1 DEF Knows, NodeAt, RehashAt, WalkAt, ClearAt
<1> HIDE DEF l, p
<1>5. QED
  BY <1>2, <1>3, <1>4, QuietStep

LEMMA CallRehashKeeps ==
  ASSUME TableAssumption, ReadersOnlyWalk, CInv, NEW t \in Threads, Concurrent \/ Alone(t),
         NEW mask \in RehashMasks, CallRehash(t, mask)
  PROVE  CInv'
<1> DEFINE m == loc[t]
           l == [m EXCEPT !.op = "rehash", !.target = mask]
           p == "rh_enter"
<1>1. m \in Locals /\ ControlOf(pc[t], m) /\ View(t)
  BY LocalsOf DEF CInv, Views
<1>2. Move(t, p, l)
  <2>1. Types /\ Control /\ Views
    BY DEF CInv
  <2>2. QED
    BY <2>1, CallRehashMoves, Zenon
<1>3. Quiet(t, p, l)
  BY <1>1 DEF CallRehash, Goto, Points, Walks, Inserts, Quiet, ControlOf, Locals, CInv, Types, TypeOK, table, Points, InRehash, NodePlaces
<1>4. Knows(p, l, steady'[t])
  BY <1>1, TableTyped DEF CallRehash, Goto, Points, Walks, Inserts, Locals, ControlOf, CInv, View, Knows, NodeAt, RehashAt, WalkAt, ClearAt, NodePlaces, GetPlaces, RehashPlaces, InRehash, WalkPlaces, ClearPlaces
<1> HIDE DEF l, p
<1>5. QED
  BY <1>2, <1>3, <1>4, QuietStep

LEMMA CallClearKeeps ==
  ASSUME TableAssumption, ReadersOnlyWalk, CInv, NEW t \in Threads, Concurrent \/ Alone(t),
         CallClear(t)
  PROVE  CInv'
<1> DEFINE m == loc[t]
           l == [m EXCEPT !.op = "clear"]
           p == "cl_lock"
<1>1. m \in Locals /\ ControlOf(pc[t], m) /\ View(t)
  BY LocalsOf DEF CInv, Views
<1>2. Move(t, p, l)
  BY CallClearMoves DEF CInv
<1>3. Quiet(t, p, l)
  BY <1>1 DEF CallClear, Goto, Points, Walks, Inserts, Quiet, ControlOf, Locals, CInv, Types, TypeOK, table, Points, InRehash, NodePlaces
<1>4. Knows(p, l, steady'[t])
  BY <1>1, TableTyped DEF CallClear, Goto, Points, Walks, Inserts, Locals, ControlOf, CInv, View, Knows, NodeAt, RehashAt, WalkAt, ClearAt, NodePlaces, GetPlaces, RehashPlaces, InRehash, WalkPlaces, ClearPlaces
<1> HIDE DEF l, p
<1>5. QED
  BY <1>2, <1>3, <1>4, QuietStep

LEMMA LoadLocksKeeps ==
  ASSUME TableAssumption, ReadersOnlyWalk, CInv, NEW t \in Threads, Concurrent \/ Alone(t),
         LoadLocks(t)
  PROVE  CInv'
<1> DEFINE m == loc[t]
           l == m
           p == IF haveLocks THEN "gn_mask" ELSE "gn_wait"
<1>1. m \in Locals /\ ControlOf(pc[t], m) /\ View(t)
  BY LocalsOf DEF CInv, Views
<1>2. Move(t, p, l)
  BY LoadLocksMoves DEF CInv
<1>3. Quiet(t, p, l)
  BY <1>1 DEF LoadLocks, Goto, Quiet, ControlOf, Locals, CInv, Types, TypeOK, table, Points, InRehash, NodePlaces
<1>4. Knows(p, l, steady'[t])
  BY <1>1, TableTyped DEF LoadLocks, Goto, Locals, ControlOf, CInv, View, Knows, NodeAt, RehashAt, WalkAt, ClearAt, NodePlaces, GetPlaces, RehashPlaces, InRehash, WalkPlaces, ClearPlaces
<1> HIDE DEF l, p
<1>5. QED
  BY <1>2, <1>3, <1>4, QuietStep

LEMMA GlobalLockKeeps ==
  ASSUME TableAssumption, ReadersOnlyWalk, CInv, NEW t \in Threads, Concurrent \/ Alone(t),
         GlobalLock(t)
  PROVE  CInv'
<1> DEFINE m == loc[t]
           l == m
           p == "gn_global"
<1>1. m \in Locals /\ ControlOf(pc[t], m) /\ View(t)
  BY LocalsOf DEF CInv, Views
<1>2. Move(t, p, l)
  BY GlobalLockMoves DEF CInv
<1>3. Quiet(t, p, l)
  BY <1>1 DEF GlobalLock, Goto, Quiet, ControlOf, Locals, CInv, Types, TypeOK, table, Points, InRehash, NodePlaces
<1>4. Knows(p, l, steady'[t])
  BY <1>1, TableTyped DEF GlobalLock, Goto, Locals, ControlOf, CInv, View, Knows, NodeAt, RehashAt, WalkAt, ClearAt, NodePlaces, GetPlaces, RehashPlaces, InRehash, WalkPlaces, ClearPlaces
<1> HIDE DEF l, p
<1>5. QED
  BY <1>2, <1>3, <1>4, QuietStep

LEMMA TakeGlobalLockKeeps ==
  ASSUME TableAssumption, ReadersOnlyWalk, CInv, NEW t \in Threads, Concurrent \/ Alone(t),
         TakeGlobalLock(t)
  PROVE  CInv'
<1> DEFINE m == loc[t]
           l == m
           p == "gn_again"
<1>1. m \in Locals /\ ControlOf(pc[t], m) /\ View(t)
  BY LocalsOf DEF CInv, Views
<1>2. Move(t, p, l)
  BY TakeGlobalLockMoves DEF CInv
<1>3. Quiet(t, p, l)
  BY <1>1 DEF TakeGlobalLock, Goto, Quiet, ControlOf, Locals, CInv, Types, TypeOK, table, Points, InRehash, NodePlaces
<1>4. Knows(p, l, steady'[t])
  BY <1>1, TableTyped DEF TakeGlobalLock, Goto, Locals, ControlOf, CInv, View, Knows, NodeAt, RehashAt, WalkAt, ClearAt, NodePlaces, GetPlaces, RehashPlaces, InRehash, WalkPlaces, ClearPlaces
<1> HIDE DEF l, p
<1>5. QED
  BY <1>2, <1>3, <1>4, QuietStep

LEMMA GlobalLockStaleKeeps ==
  ASSUME TableAssumption, ReadersOnlyWalk, CInv, NEW t \in Threads, Concurrent \/ Alone(t),
         GlobalLockStale(t)
  PROVE  CInv'
<1> DEFINE m == loc[t]
           l == [m EXCEPT !.wait = FALSE]
           p == "gn_mask"
<1>1. m \in Locals /\ ControlOf(pc[t], m) /\ View(t)
  BY LocalsOf DEF CInv, Views
<1>2. Move(t, p, l)
  BY GlobalLockStaleMoves DEF CInv
<1>3. Quiet(t, p, l)
  BY <1>1 DEF GlobalLockStale, Goto, Quiet, ControlOf, Locals, CInv, Types, TypeOK, table, Points, InRehash, NodePlaces
<1>4. Knows(p, l, steady'[t])
  BY <1>1, TableTyped DEF GlobalLockStale, Goto, Locals, ControlOf, CInv, View, Knows, NodeAt, RehashAt, WalkAt, ClearAt, NodePlaces, GetPlaces, RehashPlaces, InRehash, WalkPlaces, ClearPlaces
<1> HIDE DEF l, p
<1>5. QED
  BY <1>2, <1>3, <1>4, QuietStep

LEMMA GlobalLockHeldKeeps ==
  ASSUME TableAssumption, ReadersOnlyWalk, CInv, NEW t \in Threads, Concurrent \/ Alone(t),
         GlobalLockHeld(t)
  PROVE  CInv'
<1> DEFINE m == loc[t]
           l == [m EXCEPT !.lk = Rehash, !.pos = Bucket(m.key, dMask)]
           p == "crit"
<1>1. m \in Locals /\ ControlOf(pc[t], m) /\ View(t)
  BY LocalsOf DEF CInv, Views
<1>2. Move(t, p, l)
  <2>1. Types /\ Control /\ Views
    BY DEF CInv
  <2>2. QED
    BY <2>1, GlobalLockHeldMoves, Zenon
<1>3. Quiet(t, p, l)
  BY <1>1 DEF GlobalLockHeld, Goto, Quiet, ControlOf, Locals, CInv, Types, TypeOK, table, Points, InRehash, NodePlaces
<1>4. Knows(p, l, steady'[t])
  BY <1>1, TableTyped DEF GlobalLockHeld, Goto, Locals, ControlOf, CInv, View, Knows, NodeAt, RehashAt, WalkAt, ClearAt, NodePlaces, GetPlaces, RehashPlaces, InRehash, WalkPlaces, ClearPlaces
<1> HIDE DEF l, p
<1>5. QED
  BY <1>2, <1>3, <1>4, QuietStep

LEMMA LoadMaskKeeps ==
  ASSUME TableAssumption, ReadersOnlyWalk, CInv, NEW t \in Threads, Concurrent \/ Alone(t),
         LoadMask(t)
  PROVE  CInv'
<1> DEFINE m == loc[t]
           l == [m EXCEPT !.hm = dMask, !.pos = Bucket(m.key, dMask)]
           p == "gn_lock"
<1>1. m \in Locals /\ ControlOf(pc[t], m) /\ View(t)
  BY LocalsOf DEF CInv, Views
<1>2. Move(t, p, l)
  <2>1. Types /\ Control /\ Views
    BY DEF CInv
  <2>2. QED
    BY <2>1, LoadMaskMoves, Zenon
<1>3. Quiet(t, p, l)
  BY <1>1 DEF LoadMask, Goto, Quiet, ControlOf, Locals, CInv, Types, TypeOK, table, Points, InRehash, NodePlaces
<1>4. Knows(p, l, steady'[t])
  BY <1>1, TableTyped DEF LoadMask, Goto, Locals, ControlOf, CInv, View, Knows, NodeAt, RehashAt, WalkAt, ClearAt, NodePlaces, GetPlaces, RehashPlaces, InRehash, WalkPlaces, ClearPlaces
<1> HIDE DEF l, p
<1>5. QED
  BY <1>2, <1>3, <1>4, QuietStep

LEMMA LockBucketKeeps ==
  ASSUME TableAssumption, ReadersOnlyWalk, CInv, NEW t \in Threads, Concurrent \/ Alone(t),
         LockBucket(t)
  PROVE  CInv'
<1> DEFINE m == loc[t]
           l == [m EXCEPT !.lk = m.pos]
           p == "gn_check"
<1>1. m \in Locals /\ ControlOf(pc[t], m) /\ View(t)
  BY LocalsOf DEF CInv, Views
<1>2. Move(t, p, l)
  BY LockBucketMoves DEF CInv
<1>3. Quiet(t, p, l)
  BY <1>1 DEF LockBucket, Goto, Quiet, ControlOf, Locals, CInv, Types, TypeOK, table, Points, InRehash, NodePlaces
<1>4. Knows(p, l, steady'[t])
  BY <1>1, TableTyped DEF LockBucket, Goto, Locals, ControlOf, CInv, View, Knows, NodeAt, RehashAt, WalkAt, ClearAt, NodePlaces, GetPlaces, RehashPlaces, InRehash, WalkPlaces, ClearPlaces
<1> HIDE DEF l, p
<1>5. QED
  BY <1>2, <1>3, <1>4, QuietStep

LEMMA LockBucketSharedFirstKeeps ==
  ASSUME TableAssumption, ReadersOnlyWalk, CInv, NEW t \in Threads, Concurrent \/ Alone(t),
         LockBucketSharedFirst(t)
  PROVE  CInv'
<1> DEFINE m == loc[t]
           l == [m EXCEPT !.lk = m.pos]
           p == IF Unlocked(m.pos) THEN "gn_check" ELSE "gn_shared"
<1>1. m \in Locals /\ ControlOf(pc[t], m) /\ View(t)
  BY LocalsOf DEF CInv, Views
<1>2. Move(t, p, l)
  BY LockBucketSharedFirstMoves DEF CInv
<1>3. Quiet(t, p, l)
  BY <1>1 DEF LockBucketSharedFirst, Goto, Quiet, ControlOf, Locals, CInv, Types, TypeOK, table, Points, InRehash, NodePlaces
<1>4. Knows(p, l, steady'[t])
  BY <1>1, TableTyped DEF LockBucketSharedFirst, Goto, Locals, ControlOf, CInv, View, Knows, NodeAt, RehashAt, WalkAt, ClearAt, NodePlaces, GetPlaces, RehashPlaces, InRehash, WalkPlaces, ClearPlaces
<1> HIDE DEF l, p
<1>5. QED
  BY <1>2, <1>3, <1>4, QuietStep

LEMMA LockBucketSharedKeeps ==
  ASSUME TableAssumption, ReadersOnlyWalk, CInv, NEW t \in Threads, Concurrent \/ Alone(t),
         LockBucketShared(t)
  PROVE  CInv'
<1> DEFINE m == loc[t]
           l == m
           p == "gn_check"
<1>1. m \in Locals /\ ControlOf(pc[t], m) /\ View(t)
  BY LocalsOf DEF CInv, Views
<1>2. Move(t, p, l)
  BY LockBucketSharedMoves DEF CInv
<1>3. Quiet(t, p, l)
  BY <1>1 DEF LockBucketShared, Goto, Quiet, ControlOf, Locals, CInv, Types, TypeOK, table, Points, InRehash, NodePlaces
<1>4. Knows(p, l, steady'[t])
  BY <1>1, TableTyped DEF LockBucketShared, Goto, Locals, ControlOf, CInv, View, Knows, NodeAt, RehashAt, WalkAt, ClearAt, NodePlaces, GetPlaces, RehashPlaces, InRehash, WalkPlaces, ClearPlaces
<1> HIDE DEF l, p
<1>5. QED
  BY <1>2, <1>3, <1>4, QuietStep

LEMMA CheckNodeKeeps ==
  ASSUME TableAssumption, ReadersOnlyWalk, CInv, NEW t \in Threads, Concurrent \/ Alone(t),
         CheckNode(t)
  PROVE  CInv'
<1> DEFINE m == loc[t]
           l == m
           p == IF NodeIsCurrent(t) THEN "crit" ELSE "gn_update"
<1>1. m \in Locals /\ ControlOf(pc[t], m) /\ View(t)
  BY LocalsOf DEF CInv, Views
<1>2. Move(t, p, l)
  BY CheckNodeMoves DEF CInv
<1>3. Quiet(t, p, l)
  BY <1>1 DEF CheckNode, Goto, Quiet, ControlOf, Locals, CInv, Types, TypeOK, table, Points, InRehash, NodePlaces
<1>4. Knows(p, l, steady'[t])
  BY <1>1, TableTyped DEF CheckNode, Goto, NodeIsCurrent, Locals, ControlOf, CInv, View, Knows, NodeAt, RehashAt, WalkAt, ClearAt, NodePlaces, GetPlaces, RehashPlaces, InRehash, WalkPlaces, ClearPlaces
<1> HIDE DEF l, p
<1>5. QED
  BY <1>2, <1>3, <1>4, QuietStep

LEMMA UpdateLockKeeps ==
  ASSUME TableAssumption, ReadersOnlyWalk, CInv, NEW t \in Threads, Concurrent \/ Alone(t),
         UpdateLock(t)
  PROVE  CInv'
<1> DEFINE m == loc[t]
           l == [m EXCEPT !.hm = dMask, !.pos = Bucket(m.key, dMask)]
           p == IF Bucket(m.key, dMask) = m.pos THEN "gn_check" ELSE "gn_lock"
<1>1. m \in Locals /\ ControlOf(pc[t], m) /\ View(t)
  BY LocalsOf DEF CInv, Views
<1>2. Move(t, p, l)
  <2>1. Types /\ Control /\ Views
    BY DEF CInv
  <2>2. QED
    BY <2>1, UpdateLockMoves, Zenon
<1>3. Quiet(t, p, l)
  BY <1>1 DEF UpdateLock, Goto, Quiet, ControlOf, Locals, CInv, Types, TypeOK, table, Points, InRehash, NodePlaces
<1>4. Knows(p, l, steady'[t])
  BY <1>1, TableTyped DEF UpdateLock, Goto, Locals, ControlOf, CInv, View, Knows, NodeAt, RehashAt, WalkAt, ClearAt, NodePlaces, GetPlaces, RehashPlaces, InRehash, WalkPlaces, ClearPlaces
<1> HIDE DEF l, p
<1>5. QED
  BY <1>2, <1>3, <1>4, QuietStep

LEMMA VisitHashKeeps ==
  ASSUME TableAssumption, ReadersOnlyWalk, CInv, NEW t \in Threads, Concurrent \/ Alone(t),
         VisitHash(t)
  PROVE  CInv'
<1> DEFINE m == loc[t]
           l == [m EXCEPT !.res = IF m.key \in Cell(t) THEN "found" ELSE "absent"]
           p == "fin"
<1>1. m \in Locals /\ ControlOf(pc[t], m) /\ View(t)
  BY LocalsOf DEF CInv, Views
<1>2. Move(t, p, l)
  BY VisitHashMoves DEF CInv
<1>3. Quiet(t, p, l)
  BY <1>1 DEF VisitHash, Goto, Points, Inserts, Quiet, ControlOf, Locals, CInv, Types, TypeOK, table, Points, InRehash, NodePlaces
<1>4. Knows(p, l, steady'[t])
  BY <1>1, TableTyped DEF VisitHash, Goto, Points, Inserts, Locals, ControlOf, CInv, View, Knows, NodeAt, RehashAt, WalkAt, ClearAt, NodePlaces, GetPlaces, RehashPlaces, InRehash, WalkPlaces, ClearPlaces
<1> HIDE DEF l, p
<1>5. QED
  BY <1>2, <1>3, <1>4, QuietStep

LEMMA StaticNodeKeeps ==
  ASSUME TableAssumption, ReadersOnlyWalk, CInv, NEW t \in Threads, Concurrent \/ Alone(t),
         StaticNode(t)
  PROVE  CInv'
<1> DEFINE m == loc[t]
           l == [m EXCEPT !.res = "absent"]
           p == "fin"
<1>1. m \in Locals /\ ControlOf(pc[t], m) /\ View(t)
  BY LocalsOf DEF CInv, Views
<1>2. Move(t, p, l)
  BY StaticNodeMoves DEF CInv
<1>3. Quiet(t, p, l)
  BY <1>1 DEF StaticNode, Goto, Points, Inserts, Quiet, ControlOf, Locals, CInv, Types, TypeOK, table, Points, InRehash, NodePlaces
<1>4. Knows(p, l, steady'[t])
  BY <1>1, TableTyped DEF StaticNode, Goto, Points, Inserts, Locals, ControlOf, CInv, View, Knows, NodeAt, RehashAt, WalkAt, ClearAt, NodePlaces, GetPlaces, RehashPlaces, InRehash, WalkPlaces, ClearPlaces
<1> HIDE DEF l, p
<1>5. QED
  BY <1>2, <1>3, <1>4, QuietStep

LEMMA InsertLoadsSizeKeeps ==
  ASSUME TableAssumption, ReadersOnlyWalk, CInv, NEW t \in Threads, Concurrent \/ Alone(t),
         InsertLoadsSize(t)
  PROVE  CInv'
<1> DEFINE m == loc[t]
           l == [m EXCEPT !.s = dSize]
           p == "ins_need"
<1>1. m \in Locals /\ ControlOf(pc[t], m) /\ View(t)
  BY LocalsOf DEF CInv, Views
<1>2. Move(t, p, l)
  BY InsertLoadsSizeMoves DEF CInv
<1>3. Quiet(t, p, l)
  BY <1>1 DEF InsertLoadsSize, Goto, Quiet, ControlOf, Locals, CInv, Types, TypeOK, table, Points, InRehash, NodePlaces
<1>4. Knows(p, l, steady'[t])
  BY <1>1, TableTyped DEF InsertLoadsSize, Goto, Locals, ControlOf, CInv, View, Knows, NodeAt, RehashAt, WalkAt, ClearAt, NodePlaces, GetPlaces, RehashPlaces, InRehash, WalkPlaces, ClearPlaces
<1> HIDE DEF l, p
<1>5. QED
  BY <1>2, <1>3, <1>4, QuietStep

LEMMA EnterRehashKeeps ==
  ASSUME TableAssumption, ReadersOnlyWalk, CInv, NEW t \in Threads, Concurrent \/ Alone(t),
         EnterRehash(t)
  PROVE  CInv'
<1> DEFINE m == loc[t]
           l == IF inRehash THEN EndOfRehash(t) ELSE m
           p == IF inRehash THEN AfterRehash(t) ELSE "rh_lock"
<1>1. m \in Locals /\ ControlOf(pc[t], m) /\ View(t)
  BY LocalsOf DEF CInv, Views
<1>2. Move(t, p, l)
  BY EnterRehashMoves DEF CInv
<1>3. Quiet(t, p, l)
  BY <1>1, EndTyped DEF EnterRehash, Goto, AfterRehash, Inserts, Quiet, ControlOf, Locals, CInv, Types, TypeOK, table, Points, InRehash, NodePlaces
<1>4. Knows(p, l, steady'[t])
  BY <1>1, EndTyped, TableTyped DEF EnterRehash, Goto, AfterRehash, Inserts, Locals, ControlOf, CInv, View, Knows, NodeAt, RehashAt, WalkAt, ClearAt, NodePlaces, GetPlaces, RehashPlaces, InRehash, WalkPlaces, ClearPlaces
<1> HIDE DEF l, p
<1>5. QED
  BY <1>2, <1>3, <1>4, QuietStep

LEMMA RehashTakesLockKeeps ==
  ASSUME TableAssumption, ReadersOnlyWalk, CInv, NEW t \in Threads, Concurrent \/ Alone(t),
         RehashTakesLock(t)
  PROVE  CInv'
<1> DEFINE m == loc[t]
           l == m
           p == "rh_start"
<1>1. m \in Locals /\ ControlOf(pc[t], m) /\ View(t)
  BY LocalsOf DEF CInv, Views
<1>2. Move(t, p, l)
  BY RehashTakesLockMoves DEF CInv
<1>3. Quiet(t, p, l)
  BY <1>1 DEF RehashTakesLock, Goto, Quiet, ControlOf, Locals, CInv, Types, TypeOK, table, Points, InRehash, NodePlaces
<1>4. Knows(p, l, steady'[t])
  BY <1>1, TableTyped DEF RehashTakesLock, Goto, Locals, ControlOf, CInv, View, Knows, NodeAt, RehashAt, WalkAt, ClearAt, NodePlaces, GetPlaces, RehashPlaces, InRehash, WalkPlaces, ClearPlaces
<1> HIDE DEF l, p
<1>5. QED
  BY <1>2, <1>3, <1>4, QuietStep

LEMMA RehashNotNeededKeeps ==
  ASSUME TableAssumption, ReadersOnlyWalk, CInv, NEW t \in Threads, Concurrent \/ Alone(t),
         RehashNotNeeded(t)
  PROVE  CInv'
<1> DEFINE m == loc[t]
           l == m
           p == "rh_release"
<1>1. m \in Locals /\ ControlOf(pc[t], m) /\ View(t)
  BY LocalsOf DEF CInv, Views
<1>2. Move(t, p, l)
  BY RehashNotNeededMoves DEF CInv
<1>3. Quiet(t, p, l)
  BY <1>1 DEF RehashNotNeeded, Goto, Quiet, ControlOf, Locals, CInv, Types, TypeOK, table, Points, InRehash, NodePlaces
<1>4. Knows(p, l, steady'[t])
  BY <1>1, TableTyped DEF RehashNotNeeded, Goto, Locals, ControlOf, CInv, View, Knows, NodeAt, RehashAt, WalkAt, ClearAt, NodePlaces, GetPlaces, RehashPlaces, InRehash, WalkPlaces, ClearPlaces
<1> HIDE DEF l, p
<1>5. QED
  BY <1>2, <1>3, <1>4, QuietStep

LEMMA RehashLocksBucketKeeps ==
  ASSUME TableAssumption, ReadersOnlyWalk, CInv, NEW t \in Threads, Concurrent \/ Alone(t),
         RehashLocksBucket(t)
  PROVE  CInv'
<1> DEFINE m == loc[t]
           l == m
           p == "rh_move"
<1>1. m \in Locals /\ ControlOf(pc[t], m) /\ View(t)
  BY LocalsOf DEF CInv, Views
<1>2. Move(t, p, l)
  BY RehashLocksBucketMoves DEF CInv
<1>3. Quiet(t, p, l)
  BY <1>1 DEF RehashLocksBucket, Goto, Quiet, ControlOf, Locals, CInv, Types, TypeOK, table, Points, InRehash, NodePlaces
<1>4. Knows(p, l, steady'[t])
  BY <1>1, TableTyped DEF RehashLocksBucket, Goto, Locals, ControlOf, CInv, View, Knows, NodeAt, RehashAt, WalkAt, ClearAt, Moves, Stored, NodePlaces, GetPlaces, RehashPlaces, InRehash, WalkPlaces, ClearPlaces
<1> HIDE DEF l, p
<1>5. QED
  BY <1>2, <1>3, <1>4, QuietStep

LEMMA RehashUnlocksBucketKeeps ==
  ASSUME TableAssumption, ReadersOnlyWalk, CInv, NEW t \in Threads, Concurrent \/ Alone(t),
         RehashUnlocksBucket(t)
  PROVE  CInv'
<1> DEFINE m == loc[t]
           l == [m EXCEPT !.i = m.i + 1]
           p == "rh_unlock"
<1>1. m \in Locals /\ ControlOf(pc[t], m) /\ View(t)
  BY LocalsOf DEF CInv, Views
<1>2. Move(t, p, l)
  BY RehashUnlocksBucketMoves DEF CInv
<1>3. Quiet(t, p, l)
  BY <1>1 DEF RehashUnlocksBucket, Goto, Quiet, ControlOf, Locals, CInv, Types, TypeOK, table, Points, InRehash, NodePlaces
<1>4. Knows(p, l, steady'[t])
  BY <1>1, TableTyped DEF RehashUnlocksBucket, Goto, Locals, ControlOf, CInv, View, Knows, NodeAt, RehashAt, WalkAt, ClearAt, Moves, Stored, NodePlaces, GetPlaces, RehashPlaces, InRehash, WalkPlaces, ClearPlaces
<1> HIDE DEF l, p
<1>5. QED
  BY <1>2, <1>3, <1>4, QuietStep

LEMMA RehashDropsLockKeeps ==
  ASSUME TableAssumption, ReadersOnlyWalk, CInv, NEW t \in Threads, Concurrent \/ Alone(t),
         RehashDropsLock(t)
  PROVE  CInv'
<1> DEFINE m == loc[t]
           l == m
           p == "rh_leave"
<1>1. m \in Locals /\ ControlOf(pc[t], m) /\ View(t)
  BY LocalsOf DEF CInv, Views
<1>2. Move(t, p, l)
  BY RehashDropsLockMoves DEF CInv
<1>3. Quiet(t, p, l)
  BY <1>1 DEF RehashDropsLock, Goto, Quiet, ControlOf, Locals, CInv, Types, TypeOK, table, Points, InRehash, NodePlaces
<1>4. Knows(p, l, steady'[t])
  BY <1>1, TableTyped DEF RehashDropsLock, Goto, Locals, ControlOf, CInv, View, Knows, NodeAt, RehashAt, WalkAt, ClearAt, NodePlaces, GetPlaces, RehashPlaces, InRehash, WalkPlaces, ClearPlaces
<1> HIDE DEF l, p
<1>5. QED
  BY <1>2, <1>3, <1>4, QuietStep

LEMMA LeaveRehashKeeps ==
  ASSUME TableAssumption, ReadersOnlyWalk, CInv, NEW t \in Threads, Concurrent \/ Alone(t),
         LeaveRehash(t)
  PROVE  CInv'
<1> DEFINE m == loc[t]
           l == EndOfRehash(t)
           p == IF m.res = "threw" THEN "rh_return" ELSE AfterRehash(t)
<1>1. m \in Locals /\ ControlOf(pc[t], m) /\ View(t)
  BY LocalsOf DEF CInv, Views
<1>2. Move(t, p, l)
  BY LeaveRehashMoves DEF CInv
<1>3. Quiet(t, p, l)
  BY <1>1, EndTyped DEF LeaveRehash, Goto, AfterRehash, Inserts, Quiet, ControlOf, Locals, CInv, Types, TypeOK, table, Points, InRehash, NodePlaces
<1>4. Knows(p, l, steady'[t])
  BY <1>1, EndTyped, TableTyped DEF LeaveRehash, Goto, AfterRehash, Inserts, Locals, ControlOf, CInv, View, Knows, NodeAt, RehashAt, WalkAt, ClearAt, NodePlaces, GetPlaces, RehashPlaces, InRehash, WalkPlaces, ClearPlaces
<1> HIDE DEF l, p
<1>5. QED
  BY <1>2, <1>3, <1>4, QuietStep

LEMMA ReturnFromRehashKeeps ==
  ASSUME TableAssumption, ReadersOnlyWalk, CInv, NEW t \in Threads, Concurrent \/ Alone(t),
         ReturnFromRehash(t)
  PROVE  CInv'
<1> DEFINE m == loc[t]
           l == NoLocals
           p == "idle"
<1>1. m \in Locals /\ ControlOf(pc[t], m) /\ View(t)
  BY LocalsOf DEF CInv, Views
<1>2. Move(t, p, l)
  BY ReturnFromRehashMoves DEF CInv
<1>3. Quiet(t, p, l)
  BY <1>1 DEF ReturnFromRehash, Goto, Return, NoLocals, Quiet, ControlOf, Locals, CInv, Types, TypeOK, table, Points, InRehash, NodePlaces
<1>4. Knows(p, l, steady'[t])
  BY <1>1, TableTyped DEF ReturnFromRehash, Goto, Return, NoLocals, Locals, ControlOf, CInv, View, Knows, NodeAt, RehashAt, WalkAt, ClearAt, NodePlaces, GetPlaces, RehashPlaces, InRehash, WalkPlaces, ClearPlaces
<1> HIDE DEF l, p
<1>5. QED
  BY <1>2, <1>3, <1>4, QuietStep

LEMMA FailureUnlocksBucketKeeps ==
  ASSUME TableAssumption, ReadersOnlyWalk, CInv, NEW t \in Threads, Concurrent \/ Alone(t),
         FailureUnlocksBucket(t)
  PROVE  CInv'
<1> DEFINE m == loc[t]
           l == [m EXCEPT !.i = m.i + 1]
           p == "rh_unlock_failed"
<1>1. m \in Locals /\ ControlOf(pc[t], m) /\ View(t)
  BY LocalsOf DEF CInv, Views
<1>2. Move(t, p, l)
  BY FailureUnlocksBucketMoves DEF CInv
<1>3. Quiet(t, p, l)
  BY <1>1 DEF FailureUnlocksBucket, Goto, Quiet, ControlOf, Locals, CInv, Types, TypeOK, table, Points, InRehash, NodePlaces
<1>4. Knows(p, l, steady'[t])
  BY <1>1, TableTyped DEF FailureUnlocksBucket, Goto, Locals, ControlOf, CInv, View, Knows, NodeAt, RehashAt, WalkAt, ClearAt, NodePlaces, GetPlaces, RehashPlaces, InRehash, WalkPlaces, ClearPlaces
<1> HIDE DEF l, p
<1>5. QED
  BY <1>2, <1>3, <1>4, QuietStep

LEMMA FailureLeavesKeeps ==
  ASSUME TableAssumption, ReadersOnlyWalk, CInv, NEW t \in Threads, Concurrent \/ Alone(t),
         FailureLeaves(t)
  PROVE  CInv'
<1> DEFINE m == loc[t]
           l == m
           p == "rh_release"
<1>1. m \in Locals /\ ControlOf(pc[t], m) /\ View(t)
  BY LocalsOf DEF CInv, Views
<1>2. Move(t, p, l)
  BY FailureLeavesMoves DEF CInv
<1>3. Quiet(t, p, l)
  BY <1>1 DEF FailureLeaves, Goto, Quiet, ControlOf, Locals, CInv, Types, TypeOK, table, Points, InRehash, NodePlaces
<1>4. Knows(p, l, steady'[t])
  BY <1>1, TableTyped DEF FailureLeaves, Goto, Locals, ControlOf, CInv, View, Knows, NodeAt, RehashAt, WalkAt, ClearAt, NodePlaces, GetPlaces, RehashPlaces, InRehash, WalkPlaces, ClearPlaces
<1> HIDE DEF l, p
<1>5. QED
  BY <1>2, <1>3, <1>4, QuietStep

LEMMA WalkTakesLockKeeps ==
  ASSUME TableAssumption, ReadersOnlyWalk, CInv, NEW t \in Threads, Concurrent \/ Alone(t),
         WalkTakesLock(t)
  PROVE  CInv'
<1> DEFINE m == loc[t]
           l == m
           p == "wk_start"
<1>1. m \in Locals /\ ControlOf(pc[t], m) /\ View(t)
  BY LocalsOf DEF CInv, Views
<1>2. Move(t, p, l)
  BY WalkTakesLockMoves DEF CInv
<1>3. Quiet(t, p, l)
  BY <1>1 DEF WalkTakesLock, Goto, Quiet, ControlOf, Locals, CInv, Types, TypeOK, table, Points, InRehash, NodePlaces
<1>4. Knows(p, l, steady'[t])
  BY <1>1, TableTyped DEF WalkTakesLock, Goto, Locals, ControlOf, CInv, View, Knows, NodeAt, RehashAt, WalkAt, ClearAt, NodePlaces, GetPlaces, RehashPlaces, InRehash, WalkPlaces, ClearPlaces
<1> HIDE DEF l, p
<1>5. QED
  BY <1>2, <1>3, <1>4, QuietStep

LEMMA WalkStartsKeeps ==
  ASSUME TableAssumption, ReadersOnlyWalk, CInv, NEW t \in Threads, Concurrent \/ Alone(t),
         WalkStarts(t)
  PROVE  CInv'
<1> DEFINE m == loc[t]
           l == [m EXCEPT !.count = dMask + 1, !.locks = haveLocks]
           p == IF dBuckets = Static THEN "wk_release" ELSE "wk_bucket"
<1>1. m \in Locals /\ ControlOf(pc[t], m) /\ View(t)
  BY LocalsOf DEF CInv, Views
<1>2. Move(t, p, l)
  <2>1. Types /\ Control /\ Views
    BY DEF CInv
  <2>2. QED
    BY <2>1, WalkStartsMoves, Zenon
<1>3. Quiet(t, p, l)
  BY <1>1 DEF WalkStarts, Goto, Quiet, ControlOf, Locals, CInv, Types, TypeOK, table, Points, InRehash, NodePlaces
<1>4. Knows(p, l, steady'[t])
  <2>1. pc[t] = "wk_start" /\ steady' = steady /\ p \in {"wk_release", "wk_bucket"}
    BY DEF WalkStarts, Goto
  <2>2. l.i = 0 /\ l.seen = {} /\ l.count = dMask + 1 /\ l.locks = haveLocks /\ l.op \in Walks
    BY <1>1, <2>1 DEF ControlOf, Locals, WalkPlaces
  <2>3. steady[t] \subseteq Contents /\ Contents \subseteq Keys
    BY <1>1, <2>1, ContentsTyped DEF View, Knows, WalkAt, WalkPlaces
  <2>4. \A k \in Keys : Bucket(k, dMask) \in 0 .. dMask
    BY BucketTyped, TableTyped DEF CInv
  <2>5. dBuckets = Static => Contents = {}
    BY <2>1, WholeTable, RehashHeld DEF WalkPlaces
  <2>6. p = IF dBuckets = Static THEN "wk_release" ELSE "wk_bucket"
    OBVIOUS
  <2> HIDE DEF l, p, m
  <2>7. l.op # "insert"
    BY <2>2 DEF Walks
  <2>8. WalkAt(p, l, steady[t])
    BY <2>1, <2>2, <2>3, <2>4, <2>5, <2>6 DEF WalkAt
  <2>9. QED
    BY <2>1, <2>7, <2>8 DEF Knows, NodeAt, RehashAt, ClearAt
<1> HIDE DEF l, p
<1>5. QED
  BY <1>2, <1>3, <1>4, QuietStep

LEMMA WalkLocksBucketKeeps ==
  ASSUME TableAssumption, ReadersOnlyWalk, CInv, NEW t \in Threads, Concurrent \/ Alone(t),
         WalkLocksBucket(t)
  PROVE  CInv'
<1> DEFINE m == loc[t]
           l == m
           p == "wk_visit"
<1>1. m \in Locals /\ ControlOf(pc[t], m) /\ View(t)
  BY LocalsOf DEF CInv, Views
<1>2. Move(t, p, l)
  BY WalkLocksBucketMoves DEF CInv
<1>3. Quiet(t, p, l)
  BY <1>1 DEF WalkLocksBucket, Goto, Quiet, ControlOf, Locals, CInv, Types, TypeOK, table, Points, InRehash, NodePlaces
<1>4. Knows(p, l, steady'[t])
  BY <1>1, TableTyped DEF WalkLocksBucket, Goto, Locals, ControlOf, CInv, View, Knows, NodeAt, RehashAt, WalkAt, ClearAt, NodePlaces, GetPlaces, RehashPlaces, InRehash, WalkPlaces, ClearPlaces
<1> HIDE DEF l, p
<1>5. QED
  BY <1>2, <1>3, <1>4, QuietStep

LEMMA WalkUnlocksBucketKeeps ==
  ASSUME TableAssumption, ReadersOnlyWalk, CInv, NEW t \in Threads, Concurrent \/ Alone(t),
         WalkUnlocksBucket(t)
  PROVE  CInv'
<1> DEFINE m == loc[t]
           l == [m EXCEPT !.i = m.i + 1]
           p == IF m.stop THEN "wk_release" ELSE "wk_bucket"
<1>1. m \in Locals /\ ControlOf(pc[t], m) /\ View(t)
  BY LocalsOf DEF CInv, Views
<1>2. Move(t, p, l)
  BY WalkUnlocksBucketMoves DEF CInv
<1>3. Quiet(t, p, l)
  BY <1>1 DEF WalkUnlocksBucket, Goto, Quiet, ControlOf, Locals, CInv, Types, TypeOK, table, Points, InRehash, NodePlaces
<1>4. Knows(p, l, steady'[t])
  <2>1. pc[t] = "wk_unlock" /\ steady' = steady /\ p = IF m.stop THEN "wk_release" ELSE "wk_bucket"
    BY DEF WalkUnlocksBucket, Goto
  <2>2. /\ l.i = m.i + 1 /\ l.seen = m.seen /\ l.count = m.count /\ l.locks = m.locks
        /\ l.op = m.op /\ l.stop = m.stop /\ m.i \in Nat /\ m.op \in Walks /\ m.seen \subseteq Keys
    BY <1>1, <2>1 DEF ControlOf, Locals, WalkPlaces, Counts
  <2>3. steady[t] \subseteq Contents /\ Contents \subseteq Keys
    BY <1>1, <2>1, ContentsTyped DEF View, Knows, WalkAt, WalkPlaces
  <2>4. \A k \in Keys : Bucket(k, dMask) \in 0 .. dMask
    BY BucketTyped, TableTyped DEF CInv
  <2>5. WalkAt("wk_unlock", m, steady[t])
    BY <1>1, <2>1 DEF View, Knows
  <2> HIDE DEF l, p, m
  <2>6. l.op # "insert"
    BY <2>2 DEF Walks
  <2>7. \A k \in Keys : Bucket(k, dMask) <= m.i <=> Bucket(k, dMask) < l.i
    BY <2>2, <2>4, TableTyped DEF CInv
  <2>8. WalkAt(p, l, steady[t])
    BY <2>1, <2>2, <2>3, <2>5, <2>7 DEF WalkAt, WalkPlaces
  <2>9. QED
    BY <2>1, <2>6, <2>8 DEF Knows, NodeAt, RehashAt, ClearAt
<1> HIDE DEF l, p
<1>5. QED
  BY <1>2, <1>3, <1>4, QuietStep

LEMMA WalkPastLastKeeps ==
  ASSUME TableAssumption, ReadersOnlyWalk, CInv, NEW t \in Threads, Concurrent \/ Alone(t),
         WalkPastLast(t)
  PROVE  CInv'
<1> DEFINE m == loc[t]
           l == m
           p == "wk_release"
<1>1. m \in Locals /\ ControlOf(pc[t], m) /\ View(t)
  BY LocalsOf DEF CInv, Views
<1>2. Move(t, p, l)
  BY WalkPastLastMoves DEF CInv
<1>3. Quiet(t, p, l)
  BY <1>1 DEF WalkPastLast, Goto, Quiet, ControlOf, Locals, CInv, Types, TypeOK, table, Points, InRehash, NodePlaces
<1>4. Knows(p, l, steady'[t])
  <2>1. pc[t] = "wk_bucket" /\ steady' = steady /\ m.i = m.count /\ m.op \in Walks
    BY <1>1 DEF WalkPastLast, Goto, ControlOf, WalkPlaces
  <2>2. steady[t] \subseteq Contents /\ Contents \subseteq Keys
    BY <1>1, <2>1, ContentsTyped DEF View, Knows, WalkAt, WalkPlaces
  <2>3. \A k \in Keys : Bucket(k, dMask) \in 0 .. dMask
    BY BucketTyped, TableTyped DEF CInv
  <2>4. WalkAt("wk_bucket", m, steady[t]) /\ dMask \in Nat
    BY <1>1, <2>1, TableTyped DEF View, Knows, CInv
  <2> HIDE DEF m
  <2>5. m.op # "insert"
    BY <2>1 DEF Walks
  <2>6. steady[t] \subseteq m.seen
    BY <2>1, <2>2, <2>3, <2>4 DEF WalkAt
  <2>7. QED
    BY <2>1, <2>2, <2>5, <2>6 DEF Knows, NodeAt, RehashAt, WalkAt, ClearAt
<1> HIDE DEF l, p
<1>5. QED
  BY <1>2, <1>3, <1>4, QuietStep

LEMMA WalkReturnsKeeps ==
  ASSUME TableAssumption, ReadersOnlyWalk, CInv, NEW t \in Threads, Concurrent \/ Alone(t),
         WalkReturns(t)
  PROVE  CInv'
<1> DEFINE m == loc[t]
           l == NoLocals
           p == "idle"
<1>1. m \in Locals /\ ControlOf(pc[t], m) /\ View(t)
  BY LocalsOf DEF CInv, Views
<1>2. Move(t, p, l)
  BY WalkReturnsMoves DEF CInv
<1>3. Quiet(t, p, l)
  BY <1>1 DEF WalkReturns, Goto, Return, NoLocals, Quiet, ControlOf, Locals, CInv, Types, TypeOK, table, Points, InRehash, NodePlaces
<1>4. Knows(p, l, steady'[t])
  BY <1>1, TableTyped DEF WalkReturns, Goto, Return, NoLocals, Locals, ControlOf, CInv, View, Knows, NodeAt, RehashAt, WalkAt, ClearAt, NodePlaces, GetPlaces, RehashPlaces, InRehash, WalkPlaces, ClearPlaces
<1> HIDE DEF l, p
<1>5. QED
  BY <1>2, <1>3, <1>4, QuietStep

LEMMA ClearTakesLockKeeps ==
  ASSUME TableAssumption, ReadersOnlyWalk, CInv, NEW t \in Threads, Concurrent \/ Alone(t),
         ClearTakesLock(t)
  PROVE  CInv'
<1> DEFINE m == loc[t]
           l == m
           p == "cl_start"
<1>1. m \in Locals /\ ControlOf(pc[t], m) /\ View(t)
  BY LocalsOf DEF CInv, Views
<1>2. Move(t, p, l)
  BY ClearTakesLockMoves DEF CInv
<1>3. Quiet(t, p, l)
  BY <1>1 DEF ClearTakesLock, Goto, Quiet, ControlOf, Locals, CInv, Types, TypeOK, table, Points, InRehash, NodePlaces
<1>4. Knows(p, l, steady'[t])
  BY <1>1, TableTyped DEF ClearTakesLock, Goto, Locals, ControlOf, CInv, View, Knows, NodeAt, RehashAt, WalkAt, ClearAt, NodePlaces, GetPlaces, RehashPlaces, InRehash, WalkPlaces, ClearPlaces
<1> HIDE DEF l, p
<1>5. QED
  BY <1>2, <1>3, <1>4, QuietStep

LEMMA ClearStartsKeeps ==
  ASSUME TableAssumption, ReadersOnlyWalk, CInv, NEW t \in Threads, Concurrent \/ Alone(t),
         ClearStarts(t)
  PROVE  CInv'
<1> DEFINE m == loc[t]
           l == [m EXCEPT !.count = IF haveLocks THEN dMask + 1 ELSE 0, !.locks = haveLocks]
           p == IF dBuckets = Static THEN "cl_release" ELSE "cl_bucket"
<1>1. m \in Locals /\ ControlOf(pc[t], m) /\ View(t)
  BY LocalsOf DEF CInv, Views
<1>2. Move(t, p, l)
  <2>1. Types /\ Control /\ Views
    BY DEF CInv
  <2>2. QED
    BY <2>1, ClearStartsMoves, Zenon
<1>3. Quiet(t, p, l)
  BY <1>1 DEF ClearStarts, Goto, Quiet, ControlOf, Locals, CInv, Types, TypeOK, table, Points, InRehash, NodePlaces
<1>4. Knows(p, l, steady'[t])
  BY <1>1, TableTyped DEF ClearStarts, Goto, Locals, ControlOf, CInv, View, Knows, NodeAt, RehashAt, WalkAt, ClearAt, NodePlaces, GetPlaces, RehashPlaces, InRehash, WalkPlaces, ClearPlaces
<1> HIDE DEF l, p
<1>5. QED
  BY <1>2, <1>3, <1>4, QuietStep

LEMMA ClearLocksBucketKeeps ==
  ASSUME TableAssumption, ReadersOnlyWalk, CInv, NEW t \in Threads, Concurrent \/ Alone(t),
         ClearLocksBucket(t)
  PROVE  CInv'
<1> DEFINE m == loc[t]
           l == [m EXCEPT !.i = m.i + 1]
           p == "cl_bucket"
<1>1. m \in Locals /\ ControlOf(pc[t], m) /\ View(t)
  BY LocalsOf DEF CInv, Views
<1>2. Move(t, p, l)
  BY ClearLocksBucketMoves DEF CInv
<1>3. Quiet(t, p, l)
  BY <1>1 DEF ClearLocksBucket, Goto, Quiet, ControlOf, Locals, CInv, Types, TypeOK, table, Points, InRehash, NodePlaces
<1>4. Knows(p, l, steady'[t])
  BY <1>1, TableTyped DEF ClearLocksBucket, Goto, Locals, ControlOf, CInv, View, Knows, NodeAt, RehashAt, WalkAt, ClearAt, NodePlaces, GetPlaces, RehashPlaces, InRehash, WalkPlaces, ClearPlaces
<1> HIDE DEF l, p
<1>5. QED
  BY <1>2, <1>3, <1>4, QuietStep

LEMMA ClearUnlocksBucketKeeps ==
  ASSUME TableAssumption, ReadersOnlyWalk, CInv, NEW t \in Threads, Concurrent \/ Alone(t),
         ClearUnlocksBucket(t)
  PROVE  CInv'
<1> DEFINE m == loc[t]
           l == [m EXCEPT !.i = m.i + 1]
           p == "cl_unlock"
<1>1. m \in Locals /\ ControlOf(pc[t], m) /\ View(t)
  BY LocalsOf DEF CInv, Views
<1>2. Move(t, p, l)
  BY ClearUnlocksBucketMoves DEF CInv
<1>3. Quiet(t, p, l)
  BY <1>1 DEF ClearUnlocksBucket, Goto, Quiet, ControlOf, Locals, CInv, Types, TypeOK, table, Points, InRehash, NodePlaces
<1>4. Knows(p, l, steady'[t])
  BY <1>1, TableTyped DEF ClearUnlocksBucket, Goto, Locals, ControlOf, CInv, View, Knows, NodeAt, RehashAt, WalkAt, ClearAt, NodePlaces, GetPlaces, RehashPlaces, InRehash, WalkPlaces, ClearPlaces
<1> HIDE DEF l, p
<1>5. QED
  BY <1>2, <1>3, <1>4, QuietStep

LEMMA ClearUnlockedKeeps ==
  ASSUME TableAssumption, ReadersOnlyWalk, CInv, NEW t \in Threads, Concurrent \/ Alone(t),
         ClearUnlocked(t)
  PROVE  CInv'
<1> DEFINE m == loc[t]
           l == m
           p == "cl_release"
<1>1. m \in Locals /\ ControlOf(pc[t], m) /\ View(t)
  BY LocalsOf DEF CInv, Views
<1>2. Move(t, p, l)
  BY ClearUnlockedMoves DEF CInv
<1>3. Quiet(t, p, l)
  BY <1>1 DEF ClearUnlocked, Goto, Quiet, ControlOf, Locals, CInv, Types, TypeOK, table, Points, InRehash, NodePlaces
<1>4. Knows(p, l, steady'[t])
  BY <1>1, TableTyped DEF ClearUnlocked, Goto, Locals, ControlOf, CInv, View, Knows, NodeAt, RehashAt, WalkAt, ClearAt, NodePlaces, GetPlaces, RehashPlaces, InRehash, WalkPlaces, ClearPlaces
<1> HIDE DEF l, p
<1>5. QED
  BY <1>2, <1>3, <1>4, QuietStep

LEMMA ClearReturnsKeeps ==
  ASSUME TableAssumption, ReadersOnlyWalk, CInv, NEW t \in Threads, Concurrent \/ Alone(t),
         ClearReturns(t)
  PROVE  CInv'
<1> DEFINE m == loc[t]
           l == NoLocals
           p == "idle"
<1>1. m \in Locals /\ ControlOf(pc[t], m) /\ View(t)
  BY LocalsOf DEF CInv, Views
<1>2. Move(t, p, l)
  BY ClearReturnsMoves DEF CInv
<1>3. Quiet(t, p, l)
  BY <1>1 DEF ClearReturns, Goto, Return, NoLocals, Quiet, ControlOf, Locals, CInv, Types, TypeOK, table, Points, InRehash, NodePlaces
<1>4. Knows(p, l, steady'[t])
  BY <1>1, TableTyped DEF ClearReturns, Goto, Return, NoLocals, Locals, ControlOf, CInv, View, Knows, NodeAt, RehashAt, WalkAt, ClearAt, NodePlaces, GetPlaces, RehashPlaces, InRehash, WalkPlaces, ClearPlaces
<1> HIDE DEF l, p
<1>5. QED
  BY <1>2, <1>3, <1>4, QuietStep

LEMMA InsertMayRehashKeeps ==
  ASSUME TableAssumption, ReadersOnlyWalk, CInv, NEW t \in Threads, Concurrent \/ Alone(t),
         InsertMayRehash(t)
  PROVE  CInv'
<1>1. PICK p \in {"rh_enter", "gn_locks"}, l \in Locals :
        Move(t, p, l) /\ l.op = "insert" /\ l.wait /\ l.key = loc[t].key /\ l.res = loc[t].res
  BY InsertMayRehashMoves DEF CInv
<1>2. pc[t] = "ins_need" /\ UNCHANGED <<table, steady>>
  BY DEF InsertMayRehash, Goto
<1>3. Quiet(t, p, l)
  BY <1>2 DEF Quiet, CInv, Types, TypeOK
<1>4. Knows(p, l, steady'[t])
  BY <1>1 DEF Knows, NodeAt, RehashAt, WalkAt, ClearAt, WalkPlaces
<1>5. QED
  BY <1>1, <1>3, <1>4, QuietStep

LEMMA VisitBucketKeeps ==
  ASSUME TableAssumption, ReadersOnlyWalk, CInv, NEW t \in Threads, Concurrent \/ Alone(t),
         VisitBucket(t)
  PROVE  CInv'
<1> DEFINE m == loc[t]
           cell == arrays[dBuckets].cells[m.i]
<1>1. m \in Locals /\ ControlOf(pc[t], m) /\ View(t)
  BY LocalsOf DEF CInv, Views
<1>2. pc[t] = "wk_visit" /\ UNCHANGED <<table, steady>> /\ InBounds(m.i)
  BY DEF VisitBucket, Goto
<1>3. PICK stop \in BOOLEAN, S \in SUBSET cell :
        /\ ~stop => S = cell
        /\ Move(t, "wk_unlock", [m EXCEPT !.seen = m.seen \cup S, !.stop = stop])
  <2>1. Types /\ Control /\ Views
    BY DEF CInv
  <2>2. QED
    BY <2>1, VisitBucketMoves, Zenon
<1> DEFINE l == [m EXCEPT !.seen = m.seen \cup S, !.stop = stop]
<1>4. /\ l.seen = m.seen \cup S /\ l.stop = stop /\ l.i = m.i /\ l.count = m.count
      /\ l.locks = m.locks /\ l.op = m.op /\ m.op \in Walks /\ ~m.stop /\ m.i < m.count
      /\ m.i \in Counts /\ m.count \in Counts /\ m.seen \subseteq Keys
  BY <1>1, <1>2 DEF Locals, ControlOf, WalkPlaces
<1>5. Quiet(t, "wk_unlock", l)
  BY <1>2 DEF Quiet, CInv, Types, TypeOK
<1>6. m.i \in Masks /\ m.i \in Nat
  BY <1>4, IndexTyped DEF Counts
<1>7. dBuckets \in ArrayIds /\ arrays[dBuckets].mask = dMask /\ Contents = Content(dBuckets)
  BY <1>2, WholeTable, RehashHeld DEF WalkPlaces, InBounds
<1>8. cell \subseteq Keys /\ \A k \in cell : Bucket(k, dMask) = m.i
  BY <1>6, <1>7, KeyIsIn
<1>9. \A k \in Contents : Bucket(k, dMask) = m.i => k \in cell
  BY <1>7, KeyIsIn
<1>10. \A k \in Keys : Bucket(k, dMask) \in Nat
  BY BucketTyped, TableTyped DEF CInv
<1>11. WalkAt("wk_visit", m, steady[t]) /\ Contents \subseteq Keys
  BY <1>1, <1>2, ContentsTyped DEF View, Knows
<1> HIDE DEF l
<1>12. \A k \in l.seen : Bucket(k, dMask) <= l.i
  BY <1>4, <1>6, <1>8, <1>10, <1>11 DEF WalkAt
<1>13. ASSUME ~l.stop, NEW k \in steady[t], Bucket(k, dMask) <= l.i
       PROVE  k \in l.seen
  <2>1. k \in Contents /\ k \in Keys
    BY <1>11 DEF WalkAt, WalkPlaces
  <2>2. CASE Bucket(k, dMask) = m.i
    BY <1>3, <1>4, <1>9, <1>13, <2>1, <2>2
  <2>3. CASE Bucket(k, dMask) # m.i
    <3>1. Bucket(k, dMask) < m.i
      BY <1>4, <1>6, <1>10, <1>13, <2>1, <2>3
    <3>2. k \in m.seen
      BY <1>11, <3>1 DEF WalkAt
    <3>3. QED
      BY <1>4, <3>2
  <2>4. QED
    BY <2>2, <2>3
<1>14. WalkAt("wk_unlock", l, steady[t])
  BY <1>4, <1>11, <1>12, <1>13 DEF WalkAt, WalkPlaces
<1>15. Knows("wk_unlock", l, steady'[t])
  BY <1>2, <1>4, <1>14 DEF Knows, NodeAt, RehashAt, ClearAt, Walks
<1>16. QED
  BY <1>3, <1>5, <1>15, QuietStep DEF l

-----------------------------------------------------------------------------
(***************************************************************************)
(* The steps that change the table.                                        *)
(***************************************************************************)
TableTypes ==
  /\ arrays \in [ArrayIds -> [mask : -1 .. MaxMask, cells : [Masks -> SUBSET Keys]]]
  /\ dBuckets \in Addresses
  /\ dValues \in Addresses
  /\ dMask \in TableMasks
  /\ dNextTarget \in Nat
  /\ dSize \in Int
  /\ haveLocks \in BOOLEAN
  /\ steady \in [Threads -> SUBSET Keys]

LEMMA TypesOfTable ==
  ASSUME TableAssumption, CInv
  PROVE  /\ TableTypes
         /\ arrays \in [ArrayIds -> [mask : -1 .. MaxMask, cells : [Masks -> SUBSET Keys]]]
         /\ dBuckets \in Addresses /\ dValues \in Addresses /\ dMask \in TableMasks
         /\ dNextTarget \in Nat /\ dSize \in Int /\ haveLocks \in BOOLEAN
         /\ steady \in [Threads -> SUBSET Keys]
BY DEF CInv, Types, TypeOK, TableTypes, Addresses

LEMMA NoisyStep ==
  ASSUME TableAssumption, CInv, NEW t \in Threads, NEW p, NEW l, Concurrent \/ Alone(t), Move(t, p, l),
         TableTypes', Knows(p, l, steady[t])', \A u \in Threads \ {t} : View(u)',
         TableShape', KeysInPlace', Counted'
  PROVE  CInv'
<1>1. Control' /\ LocksExact' /\ OneRehash'
  BY StepControl, StepLocks, StepFlag DEF CInv
<1>2. Types'
  <2>1. lock' \in [Locks -> [w : BOOLEAN, r : 0 .. 63]] /\ inRehash' \in BOOLEAN
    BY LockTyped DEF CInv
  <2>2. pc' \in [Threads -> Places] /\ loc' \in [Threads -> Locals]
    BY OthersStay DEF CInv
  <2>3. dMask' \in Masks
    BY MaskFacts DEF TableTypes
  <2>4. QED
    BY <2>1, <2>2, <2>3 DEF Types, TypeOK, TableTypes, Addresses
<1>3. View(t)'
  BY OthersStay DEF CInv, View
<1>4. Views'
  BY <1>3 DEF Views
<1>5. QED
  BY <1>1, <1>2, <1>4 DEF CInv

\* A thread without a call knows nothing.
LEMMA IdleView ==
  ASSUME TableAssumption, CInv, NEW t \in Threads, NEW p, NEW l, Move(t, p, l),
         NEW u \in Threads \ {t}, pc[u] = "idle"
  PROVE  View(u)'
<1>1. pc'[u] = "idle"
  BY OthersStay DEF CInv
<1>2. QED
  BY <1>1 DEF View, Knows, NodeAt, RehashAt, WalkAt, ClearAt, WalkPlaces

\* Next to a thread that holds d_rehash_lock alone, the others know little.
LEMMA OthersUnderRehash ==
  ASSUME TableAssumption, CInv, NEW t \in Threads, NEW p, NEW l, Move(t, p, l),
         Rehash \in Held(pc[t], loc[t]), ~Reads(loc[t]), NEW u \in Threads \ {t},
         NodeAt(pc[u], loc[u]) /\ pc[u] \notin {"rh_move", "wk_visit"} => NodeAt(pc[u], loc[u])',
         steady[u] \subseteq Contents => steady'[u] \subseteq Contents'
  PROVE  View(u)'
<1>1. pc'[u] = pc[u] /\ loc'[u] = loc[u]
  BY OthersStay DEF CInv
<1>2. pc[u] \notin Rehashes \cup Clears
  BY NobodyRehashes
<1>3. pc[u] \notin WalkPlaces \ {"wk_lock"}
  <2>1. Rehash \in Locks /\ LocksExact
    BY MaskFacts DEF CInv
  <2>2. QED
    BY <2>1, RehashHeld, OneHolder
<1>4. Knows(pc[u], loc[u], steady[u])
  BY DEF CInv, Views, View
<1>5. NodeAt(pc[u], loc[u])'
  BY <1>2, <1>3, <1>4 DEF Knows, Rehashes, WalkPlaces
<1>6. RehashAt(pc[u], loc[u])' /\ ClearAt(pc[u], loc[u])'
  BY <1>1, <1>2 DEF RehashAt, ClearAt, Rehashes, Clears
<1>7. WalkAt(pc[u], loc[u], steady[u])'
  BY <1>1, <1>3, <1>4 DEF Knows, WalkAt, WalkPlaces
<1>8. QED
  BY <1>5, <1>6, <1>7 DEF View, Knows

-----------------------------------------------------------------------------
\* Counting.

LEMMA PendingMoves ==
  ASSUME TableAssumption, CInv, NEW t \in Threads, NEW p, NEW l, Move(t, p, l), NEW op, NEW res
  PROVE  /\ Pending(op, res) \in Nat /\ Pending(op, res)' \in Nat
         /\ Pending(op, res)' =
              Pending(op, res)
                + (IF p = "fin" /\ l.op = op /\ l.res = res THEN 1 ELSE 0)
                - (IF pc[t] = "fin" /\ loc[t].op = op /\ loc[t].res = res THEN 1 ELSE 0)
<1> DEFINE Old == {u \in Threads : pc[u] = "fin" /\ loc[u].op = op /\ loc[u].res = res}
           New == {u \in Threads : pc'[u] = "fin" /\ loc'[u].op = op /\ loc'[u].res = res}
<1>1. Pending(op, res) = Cardinality(Old) /\ Pending(op, res)' = Cardinality(New)
  BY DEF Pending
<1>2. /\ t \in Old <=> pc[t] = "fin" /\ loc[t].op = op /\ loc[t].res = res
      /\ t \in New <=> p = "fin" /\ l.op = op /\ l.res = res
      /\ Old \ {t} = New \ {t}
  BY OthersStay DEF CInv
<1>3. Old \subseteq Threads /\ New \subseteq Threads
  OBVIOUS
<1> HIDE DEF Old, New
<1>4. IsFiniteSet(Old) /\ IsFiniteSet(New) /\ Cardinality(Old) \in Nat /\ Cardinality(New) \in Nat
  BY <1>3, FS_Subset, FS_CardinalityType DEF TableAssumption
<1>5. CASE t \in Old <=> t \in New
  <2>1. Old = New
    BY <1>2, <1>5
  <2>2. QED
    BY <1>1, <1>2, <1>4, <1>5, <2>1
<1>6. CASE t \in Old /\ t \notin New
  <2>1. New = Old \ {t}
    BY <1>2, <1>6
  <2>2. Cardinality(New) = Cardinality(Old) - 1
    BY <1>4, <1>6, <2>1, FS_RemoveElement
  <2>3. QED
    BY <1>1, <1>2, <1>4, <1>6, <2>2
<1>7. CASE t \notin Old /\ t \in New
  <2>1. New = Old \cup {t}
    BY <1>2, <1>7
  <2>2. Cardinality(New) = Cardinality(Old) + 1
    BY <1>4, <1>7, <2>1, FS_AddElement
  <2>3. QED
    BY <1>1, <1>2, <1>4, <1>7, <2>2
<1>8. QED
  BY <1>5, <1>6, <1>7

\* A step from and to places where nothing is pending keeps the count, if the keys are kept.
LEMMA CountKept ==
  ASSUME TableAssumption, CInv, NEW t \in Threads, NEW p, NEW l, Move(t, p, l),
         pc[t] # "fin", p # "fin", dSize' = dSize, Contents' = Contents
  PROVE  Counted'
<1>1. Pending("insert", "absent")' = Pending("insert", "absent")
  BY PendingMoves
<1>2. Pending("erase", "found")' = Pending("erase", "found")
  BY PendingMoves
<1>3. QED
  BY <1>1, <1>2 DEF CInv, Counted, SizeCounts

-----------------------------------------------------------------------------
\* rehash_internal() up to the stores: the new array is private.

\* An array made empty, allocated or free.
LEMMA Emptied ==
  ASSUME TableAssumption, CInv, NEW a \in ArrayIds, NEW mask \in -1 .. MaxMask,
         arrays' = [arrays EXCEPT ![a] = Empty(mask)]
  PROVE  /\ arrays' \in [ArrayIds -> [mask : -1 .. MaxMask, cells : [Masks -> SUBSET Keys]]]
         /\ arrays'[a].mask = mask /\ Content(a)' = {}
         /\ \A b \in ArrayIds \ {a} : arrays'[b] = arrays[b] /\ Content(b)' = Content(b)
         /\ \A b \in ArrayIds : \A c \in Masks : arrays'[b].cells[c] \subseteq arrays[b].cells[c]
         /\ KeysInPlace'
         /\ Content(a) = {} => Contents' = Contents
<1>1. Empty(mask).mask = mask /\ Empty(mask).cells = [b \in Masks |-> {}] /\ Empty(mask) \in [mask : -1 .. MaxMask, cells : [Masks -> SUBSET Keys]]
  BY DEF Empty
<1>2. arrays \in [ArrayIds -> [mask : -1 .. MaxMask, cells : [Masks -> SUBSET Keys]]]
  BY TypesOfTable
<1>3. arrays' \in [ArrayIds -> [mask : -1 .. MaxMask, cells : [Masks -> SUBSET Keys]]]
  BY <1>1, <1>2
<1>4. arrays'[a] = Empty(mask) /\ \A b \in ArrayIds \ {a} : arrays'[b] = arrays[b]
  BY <1>2
<1>5. Content(a)' = {}
  BY <1>1, <1>4 DEF Content
<1>6. \A b \in ArrayIds \ {a} : Content(b)' = Content(b)
  BY <1>4 DEF Content
<1>7. \A b \in ArrayIds : \A c \in Masks : arrays'[b].cells[c] \subseteq arrays[b].cells[c]
  BY <1>1, <1>4
<1>8. KeysInPlace'
  <2>1. ASSUME NEW b \in ArrayIds, NEW c \in Masks, NEW k \in arrays'[b].cells[c]
        PROVE  Bucket(k, arrays'[b].mask) = c
    BY <1>1, <1>4, <2>1 DEF CInv, KeysInPlace
  <2>2. \A b, c \in ArrayIds : b # c => Content(b)' \cap Content(c)' = {}
    BY <1>5, <1>6 DEF CInv, KeysInPlace
  <2>3. QED
    BY <2>1, <2>2 DEF KeysInPlace, Bucket
<1>9. Content(a) = {} => Contents' = Contents
  BY <1>5, <1>6 DEF Contents
<1>10. QED
  BY <1>1, <1>3, <1>4, <1>5, <1>6, <1>7, <1>8, <1>9

LEMMA RehashAllocatesKeeps ==
  ASSUME TableAssumption, ReadersOnlyWalk, CInv, NEW t \in Threads, Concurrent \/ Alone(t),
         RehashAllocates(t)
  PROVE  CInv'
<1> DEFINE m == loc[t]
<1>1. m \in Locals /\ ControlOf(pc[t], m) /\ pc[t] = "rh_start"
  BY LocalsOf DEF CInv, RehashAllocates, Goto
<1>2. UNCHANGED <<dBuckets, dValues, dMask, dNextTarget, dSize, haveLocks, steady>>
  BY DEF RehashAllocates
<1>3. PICK a \in {b \in ArrayIds : ~Allocated(b)} :
        /\ arrays' = [arrays EXCEPT ![a] = Empty(m.target)]
        /\ Move(t, "rh_bucket", [m EXCEPT !.new = a, !.i = 0, !.locks = haveLocks, !.count = LockedBuckets])
  <2>1. Types /\ Control
    BY DEF CInv
  <2>2. QED
    BY <2>1, RehashAllocatesMoves, Zenon
<1>3a. PICK l : l = [m EXCEPT !.new = a, !.i = 0, !.locks = haveLocks, !.count = LockedBuckets]
  OBVIOUS
<1>3b. Move(t, "rh_bucket", l)
  BY <1>3, <1>3a
<1>4. /\ l.new = a /\ l.i = 0 /\ l.locks = haveLocks /\ l.count = LockedBuckets
      /\ l.target = m.target /\ l.op = m.op /\ m.target \in TableMasks
  BY <1>1, <1>3a DEF Locals
<1>5. Rehash \in Held(pc[t], m) /\ ~Reads(m)
  BY <1>1, RehashHeld DEF Rehashes
<1>6. /\ Settled /\ dValues = dBuckets
      /\ \A b \in ArrayIds : Content(b) # {} => b = dBuckets
      /\ dBuckets # Static => arrays[dBuckets].mask = dMask
  BY <1>1, <1>5, WholeTable
<1>7. arrays[a].mask = -1 /\ Content(a) = {} /\ dBuckets # a
  <2>1. arrays[a].mask = -1
    BY TypesOfTable DEF Allocated
  <2>2. dMask \in Nat /\ Static \notin ArrayIds
    BY TableTyped DEF CInv, TableAssumption
  <2>3. QED
    BY <1>6, <2>1, <2>2 DEF CInv, TableShape
<1>8. m.target \in Masks /\ m.target \in -1 .. MaxMask /\ m.target \in Nat
  <2>1. m.target \in 0 .. MaxMask /\ MaxMask \in Nat
    BY <1>4 DEF TableMasks, TableAssumption
  <2>2. QED
    BY <2>1 DEF Masks
<1>9. /\ arrays' \in [ArrayIds -> [mask : -1 .. MaxMask, cells : [Masks -> SUBSET Keys]]]
      /\ arrays'[a].mask = m.target /\ Content(a)' = {} /\ KeysInPlace' /\ Contents' = Contents
      /\ \A b \in ArrayIds \ {a} : arrays'[b] = arrays[b] /\ Content(b)' = Content(b)
  BY <1>3, <1>7, <1>8, Emptied
<1>10. TableTypes'
  BY <1>2, <1>9, TypesOfTable DEF TableTypes
<1>11. Knows("rh_bucket", l, steady[t])'
  <2>1. Moves(l)'
    BY <1>1, <1>2, <1>4, <1>7, <1>9 DEF Moves, LockedBuckets
  <2>2. QED
    BY <2>1 DEF Knows, NodeAt, RehashAt, WalkAt, ClearAt, WalkPlaces
<1>12. \A u \in Threads \ {t} : View(u)'
  <2> SUFFICES ASSUME NEW u \in Threads \ {t} PROVE View(u)'
    OBVIOUS
  <2>1. NodeAt(pc[u], loc[u]) => NodeAt(pc[u], loc[u])'
    BY <1>2, <1>3b, OthersStay DEF CInv, NodeAt
  <2>2. QED
    BY <1>2, <1>3b, <1>5, <1>9, <2>1, OthersUnderRehash
<1>13. TableShape'
  <2>1. \A u \in Threads : pc'[u] \notin {"rh_store", "rh_mask", "cl_mask"}
    BY <1>3b, <1>6, OthersStay DEF CInv, Settled
  <2>2. dBuckets # Static => dBuckets \in ArrayIds \ {a}
    BY <1>7, TableTyped DEF CInv, Addresses
  <2>3. QED
    BY <1>2, <1>6, <1>8, <1>9, <2>1, <2>2 DEF CInv, TableShape, Settled
<1>14. Counted'
  BY <1>1, <1>2, <1>3b, <1>9, CountKept
<1>15. QED
  BY <1>3b, <1>9, <1>10, <1>11, <1>12, <1>13, <1>14, NoisyStep

\* A rehash moves a bucket: the keys go to where they belong in the new array.
MovesKeys(d, a, i, g) ==
  arrays' = [arrays EXCEPT
    ![d].cells[i] = {},
    ![a].cells = [b \in Masks |-> @[b] \cup {k \in arrays[d].cells[i] : Bucket(k, g) = b}]]

LEMMA BucketMoved ==
  ASSUME TableAssumption, CInv, NEW d \in ArrayIds, NEW a \in ArrayIds \ {d}, NEW i \in Masks, NEW g \in TableMasks,
         arrays[a].mask = g, MovesKeys(d, a, i, g)
  PROVE  /\ arrays' \in [ArrayIds -> [mask : -1 .. MaxMask, cells : [Masks -> SUBSET Keys]]]
         /\ \A b \in ArrayIds : arrays'[b].mask = arrays[b].mask
         /\ \A c \in Masks : arrays'[d].cells[c] = IF c = i THEN {} ELSE arrays[d].cells[c]
         /\ Content(a)' = Content(a) \cup arrays[d].cells[i]
         /\ Content(d)' = Content(d) \ arrays[d].cells[i]
         /\ \A b \in ArrayIds \ {a, d} : Content(b)' = Content(b)
         /\ KeysInPlace'
         /\ Contents' = Contents
<1> DEFINE moved == arrays[d].cells[i]
<1>1. arrays \in [ArrayIds -> [mask : -1 .. MaxMask, cells : [Masks -> SUBSET Keys]]]
  BY TypesOfTable
<1>2. moved \subseteq Keys /\ moved \subseteq Content(d)
  BY <1>1 DEF Content
<1>3. \A k \in Keys : Bucket(k, g) \in Masks
  BY BucketTyped, MaskFacts
<1>4. /\ arrays'[d] = [arrays[d] EXCEPT !.cells[i] = {}]
      /\ arrays'[a] = [arrays[a] EXCEPT !.cells = [b \in Masks |-> arrays[a].cells[b] \cup {k \in moved : Bucket(k, g) = b}]]
      /\ \A b \in ArrayIds \ {a, d} : arrays'[b] = arrays[b]
      /\ DOMAIN arrays' = ArrayIds /\ arrays' = [b \in ArrayIds |-> arrays'[b]]
  BY <1>1 DEF MovesKeys
<1>5. /\ arrays'[d].mask = arrays[d].mask /\ arrays'[d].cells = [c \in Masks |-> IF c = i THEN {} ELSE arrays[d].cells[c]]
      /\ arrays'[d] \in [mask : -1 .. MaxMask, cells : [Masks -> SUBSET Keys]]
  <2>1. arrays[d] \in [mask : -1 .. MaxMask, cells : [Masks -> SUBSET Keys]]
    BY <1>1
  <2>2. arrays'[d].mask = arrays[d].mask /\ arrays'[d].cells = [arrays[d].cells EXCEPT ![i] = {}]
    BY <1>4, <2>1
  <2>3. arrays'[d].cells = [c \in Masks |-> IF c = i THEN {} ELSE arrays[d].cells[c]]
    BY <2>1, <2>2
  <2>4. [arrays[d].cells EXCEPT ![i] = {}] \in [Masks -> SUBSET Keys]
    BY <2>1
  <2>5. [arrays[d] EXCEPT !.cells = [arrays[d].cells EXCEPT ![i] = {}]] \in [mask : -1 .. MaxMask, cells : [Masks -> SUBSET Keys]]
    BY <2>1, <2>4
  <2>6. arrays'[d] = [arrays[d] EXCEPT !.cells = [arrays[d].cells EXCEPT ![i] = {}]]
    BY <1>4
  <2>7. QED
    BY <2>2, <2>3, <2>5, <2>6
<1>6. /\ arrays'[a].mask = arrays[a].mask
      /\ arrays'[a].cells = [c \in Masks |-> arrays[a].cells[c] \cup {k \in moved : Bucket(k, g) = c}]
      /\ arrays'[a] \in [mask : -1 .. MaxMask, cells : [Masks -> SUBSET Keys]]
  BY <1>1, <1>2, <1>4
<1>7. arrays' \in [ArrayIds -> [mask : -1 .. MaxMask, cells : [Masks -> SUBSET Keys]]]
  BY <1>1, <1>4, <1>5, <1>6
<1>8. \A b \in ArrayIds : arrays'[b].mask = arrays[b].mask
  BY <1>4, <1>5, <1>6
<1>9. \A c \in Masks : arrays'[d].cells[c] = IF c = i THEN {} ELSE arrays[d].cells[c]
  BY <1>5
<1> HIDE DEF moved
<1>10. Content(a)' = Content(a) \cup moved
  <2>1. Content(a)' = UNION {arrays'[a].cells[c] : c \in Masks}
    BY DEF Content
  <2>2. \A c \in Masks : arrays'[a].cells[c] = arrays[a].cells[c] \cup {k \in moved : Bucket(k, g) = c}
    BY <1>6
  <2>3. \A k \in moved : k \in arrays'[a].cells[Bucket(k, g)] /\ Bucket(k, g) \in Masks
    BY <1>2, <1>3, <2>2
  <2>4. moved \subseteq Content(a)'
    BY <2>1, <2>3
  <2>5. ASSUME NEW k \in Content(a) PROVE k \in Content(a)'
    <3>1. PICK c \in Masks : k \in arrays[a].cells[c]
      BY <2>5 DEF Content
    <3>2. k \in arrays'[a].cells[c]
      BY <2>2, <3>1
    <3>3. QED
      BY <2>1, <3>2
  <2>6. ASSUME NEW k \in Content(a)' PROVE k \in Content(a) \cup moved
    <3>1. PICK c \in Masks : k \in arrays'[a].cells[c]
      BY <2>1, <2>6
    <3>2. k \in arrays[a].cells[c] \/ k \in moved
      BY <2>2, <3>1
    <3>3. QED
      BY <3>2 DEF Content
  <2>7. QED
    BY <2>4, <2>5, <2>6
<1>11. Content(d)' = Content(d) \ moved
  <2>1. Content(d)' = UNION {arrays'[d].cells[c] : c \in Masks}
    BY DEF Content
  <2>2. \A c \in Masks : \A k \in arrays[d].cells[c] : k \in moved => c = i
    <3>1. \A c \in Masks : \A k \in arrays[d].cells[c] : Bucket(k, arrays[d].mask) = c
      BY KeyIsIn
    <3>2. QED
      BY <3>1 DEF moved
  <2>3. \A c \in Masks : arrays'[d].cells[c] \subseteq arrays[d].cells[c] \ moved
    <3>1. ASSUME NEW c \in Masks, NEW k \in arrays'[d].cells[c] PROVE k \in arrays[d].cells[c] /\ k \notin moved
      <4>0. arrays'[d].cells[c] = IF c = i THEN {} ELSE arrays[d].cells[c]
        BY <1>9
      <4>1. c # i /\ k \in arrays[d].cells[c]
        BY <3>1, <4>0
      <4>2. QED
        BY <2>2, <4>1
    <3>2. QED
      BY <3>1
  <2>4. Content(d)' \subseteq Content(d) \ moved
    BY <2>1, <2>3 DEF Content
  <2>5. \A c \in Masks : arrays[d].cells[c] \ moved \subseteq arrays'[d].cells[c]
    BY <1>9 DEF moved
  <2>6. Content(d) \ moved \subseteq Content(d)'
    BY <2>1, <2>5 DEF Content
  <2>7. QED
    BY <2>4, <2>6
<1>12. \A b \in ArrayIds \ {a, d} : Content(b)' = Content(b)
  BY <1>4 DEF Content
<1>13. Contents' = Contents
  <2>1. Content(a)' \cup Content(d)' = Content(a) \cup Content(d)
    BY <1>2, <1>10, <1>11
  <2>2. \A k : (\E b \in ArrayIds : k \in Content(b)') <=> (\E b \in ArrayIds : k \in Content(b))
    BY <1>12, <2>1
  <2>3. Contents' = UNION {Content(b)' : b \in ArrayIds} /\ Contents = UNION {Content(b) : b \in ArrayIds}
    BY DEF Contents
  <2>4. \A k : k \in Contents' <=> k \in Contents
    BY <2>2, <2>3
  <2>5. QED
    BY <2>4
<1>14. KeysInPlace'
  <2>1. ASSUME NEW b \in ArrayIds, NEW c \in Masks, NEW k \in arrays'[b].cells[c]
        PROVE  Bucket(k, arrays'[b].mask) = c
    <3>0. \A x \in ArrayIds : \A y \in Masks : \A z \in arrays[x].cells[y] : Bucket(z, arrays[x].mask) = y
      BY DEF CInv, KeysInPlace
    <3>1. CASE b = d
      BY <1>5, <2>1, <3>0, <3>1
    <3>2. CASE b = a
      BY <1>6, <2>1, <3>0, <3>2
    <3>3. CASE b \notin {a, d}
      BY <1>4, <2>1, <3>0, <3>3
    <3>4. QED
      BY <3>1, <3>2, <3>3
  <2>2. \A b, c \in ArrayIds : b # c => Content(b) \cap Content(c) = {}
    BY DEF CInv, KeysInPlace
  <2>3. \A b, c \in ArrayIds : b # c => Content(b)' \cap Content(c)' = {}
    BY <1>2, <1>10, <1>11, <1>12, <2>2
  <2>4. QED
    BY <2>1, <2>3 DEF KeysInPlace, Bucket
<1>15. QED
  BY <1>7, <1>8, <1>9, <1>10, <1>11, <1>12, <1>13, <1>14 DEF moved

LEMMA RehashMovesBucketKeeps ==
  ASSUME TableAssumption, ReadersOnlyWalk, CInv, NEW t \in Threads, Concurrent \/ Alone(t),
         RehashMovesBucket(t)
  PROVE  CInv'
<1> DEFINE m == loc[t]
<1>1. m \in Locals /\ ControlOf(pc[t], m) /\ View(t) /\ pc[t] = "rh_move"
  BY LocalsOf DEF CInv, Views, RehashMovesBucket, Goto
<1>2. /\ UNCHANGED <<dBuckets, dValues, dMask, dNextTarget, dSize, haveLocks, steady>>
      /\ InBounds(m.i)
  BY DEF RehashMovesBucket
<1>3. PICK l : l = [m EXCEPT !.i = m.i + 1] /\ Move(t, "rh_bucket", l)
  <2>1. Types /\ Control /\ Views
    BY DEF CInv
  <2>2. QED
    BY <2>1, RehashMovesBucketMoves, Zenon
<1>4. /\ l.new = m.new /\ l.i = m.i + 1 /\ l.locks = m.locks /\ l.count = m.count
      /\ l.target = m.target /\ l.op = m.op /\ m.target \in TableMasks
      /\ m.i \in Masks /\ m.i \in Nat /\ m.i < m.count
  BY <1>1, <1>3, IndexTyped DEF Locals, ControlOf, Counts
<1>5. Rehash \in Held(pc[t], m) /\ ~Reads(m)
  BY <1>1, RehashHeld DEF Rehashes
<1>6. Moves(m) /\ m.new \in ArrayIds /\ m.new # dBuckets /\ arrays[m.new].mask = m.target
  BY <1>1 DEF View, Knows, RehashAt, Moves
<1>7. dBuckets \in ArrayIds
  BY <1>2, TableTyped DEF InBounds, CInv, Addresses
<1>8. \A u \in Threads \ {t} : pc[u] \notin Rehashes \cup Clears
  BY <1>5, NobodyRehashes
<1>9. Settled /\ arrays[dBuckets].mask = dMask
  <2>1. Settled
    BY <1>1, <1>8 DEF Settled, Rehashes, Clears
  <2>2. QED
    BY <1>2, <2>1 DEF CInv, TableShape, InBounds
<1>10. PICK d \in ArrayIds, a \in ArrayIds, i \in Masks, g \in TableMasks :
         d = dBuckets /\ a = m.new /\ i = m.i /\ g = m.target /\ a # d
  BY <1>4, <1>6, <1>7
<1> DEFINE moved == arrays[d].cells[i]
<1>11. /\ arrays' \in [ArrayIds -> [mask : -1 .. MaxMask, cells : [Masks -> SUBSET Keys]]]
       /\ \A b \in ArrayIds : arrays'[b].mask = arrays[b].mask
       /\ \A c \in Masks : arrays'[d].cells[c] = IF c = i THEN {} ELSE arrays[d].cells[c]
       /\ Content(a)' = Content(a) \cup moved
       /\ Content(d)' = Content(d) \ moved
       /\ \A b \in ArrayIds \ {a, d} : Content(b)' = Content(b)
       /\ KeysInPlace' /\ Contents' = Contents
  <2>1. MovesKeys(d, a, i, g)
    BY <1>10 DEF RehashMovesBucket, MovesKeys
  <2>2. arrays[a].mask = g
    BY <1>6, <1>10
  <2>3. a \in ArrayIds \ {d} /\ i \in Masks /\ g \in TableMasks /\ d \in ArrayIds
    BY <1>10
  <2>4. QED
    BY <2>1, <2>2, <2>3, BucketMoved
<1>12. TableTypes'
  BY <1>2, <1>11, TypesOfTable DEF TableTypes
<1>14. dBuckets' = d /\ l.new = a
  BY <1>2, <1>4, <1>10
<1>15. Knows("rh_bucket", l, steady[t])'
  <2>1. l.new \in ArrayIds \ {dBuckets'} /\ arrays'[l.new].mask = l.target
    BY <1>2, <1>4, <1>6, <1>11
  <2>2. l.locks = haveLocks' /\ l.count = LockedBuckets'
    BY <1>2, <1>4, <1>6 DEF Moves, LockedBuckets
  <2>3. ASSUME NEW b \in 0 .. l.i - 1 PROVE arrays'[dBuckets'].cells[b] = {}
    <3>1. m.i \in 0 .. MaxMask /\ MaxMask \in Nat
      BY <1>4 DEF TableAssumption, Masks
    <3>2. b \in Masks /\ (b = i \/ b \in 0 .. m.i - 1)
      BY <1>4, <1>10, <2>3, <3>1 DEF Masks
    <3>3. b \in 0 .. m.i - 1 => arrays[d].cells[b] = {}
      BY <1>2, <1>6, <1>10 DEF Moves, InBounds
    <3>4. QED
      BY <1>11, <1>14, <3>2, <3>3
  <2>4. ASSUME NEW k \in Content(a)' PROVE Bucket(k, dMask) < l.i
    <3>1. CASE k \in Content(a)
      <4>1. Bucket(k, dMask) < m.i
        BY <1>6, <1>10, <3>1 DEF Moves
      <4>2. k \in Keys
        BY <1>6, <1>10, <3>1, KeyIsIn
      <4>3. Bucket(k, dMask) \in Nat
        BY <4>2, BucketTyped, TableTyped DEF CInv
      <4>4. QED
        BY <1>4, <4>1, <4>3
    <3>2. CASE k \in moved
      <4>1. Bucket(k, dMask) = m.i
        BY <1>4, <1>7, <1>9, <1>10, <3>2, KeyIsIn
      <4>2. QED
        BY <1>4, <4>1
    <3>3. QED
      BY <1>11, <2>4, <3>1, <3>2
  <2>5. \A k \in Content(a)' : Bucket(k, dMask') < l.i
    BY <1>2, <2>4
  <2>6. Moves(l)'
    BY <1>14, <2>1, <2>2, <2>3, <2>5 DEF Moves, Bucket
  <2>7. QED
    BY <2>6 DEF Knows, NodeAt, RehashAt, WalkAt, ClearAt, WalkPlaces
<1>16. \A u \in Threads \ {t} : View(u)'
  <2> SUFFICES ASSUME NEW u \in Threads \ {t} PROVE View(u)'
    OBVIOUS
  <2>1. NodeAt(pc[u], loc[u]) => NodeAt(pc[u], loc[u])'
    BY <1>2, <1>3, OthersStay DEF CInv, NodeAt
  <2>2. QED
    BY <1>2, <1>3, <1>5, <1>11, <2>1, OthersUnderRehash
<1>17. TableShape'
  <2>1. Settled'
    BY <1>3, <1>8, OthersStay DEF CInv, Settled, Rehashes, Clears
  <2>2. dValues' = dBuckets' /\ (dBuckets' # Static => arrays'[dBuckets'].mask = dMask')
    BY <1>2, <1>7, <1>9, <1>11 DEF InBounds
  <2>3. ASSUME NEW b \in ArrayIds, arrays'[b].mask = -1 PROVE Content(b)' = {}
    <3>1. b # a /\ b # d
      <4>1. arrays[a].mask \in Nat /\ arrays[d].mask \in Nat
        BY <1>4, <1>6, <1>9, <1>10, TableTyped DEF CInv, TableMasks
      <4>2. arrays[b].mask = -1
        BY <1>11, <2>3
      <4>3. QED
        BY <4>1, <4>2
    <3>2. Content(b)' = Content(b) /\ arrays[b].mask = -1
      BY <1>11, <1>10, <2>3, <3>1
    <3>3. QED
      BY <3>2 DEF CInv, TableShape
  <2>4. ASSUME NEW b \in ArrayIds, Content(b)' # {}
        PROVE  b = dBuckets' \/ \E u \in Threads : pc'[u] \in {"rh_bucket", "rh_move", "rh_store"} /\ b = loc'[u].new
    <3>1. CASE b \in {a, d}
      <4>1. pc'[t] = "rh_bucket" /\ loc'[t] = l
        BY <1>3, OthersStay DEF CInv
      <4>2. QED
        BY <1>14, <3>1, <4>1
    <3>2. CASE b \notin {a, d}
      <4>1. Content(b) # {}
        BY <1>11, <1>10, <2>4, <3>2
      <4>2. PICK u \in Threads : pc[u] \in {"rh_bucket", "rh_move", "rh_store"} /\ b = loc[u].new
        BY <1>10, <3>2, <4>1 DEF CInv, TableShape
      <4>3. u = t
        BY <1>8, <4>2 DEF Rehashes
      <4>4. QED
        BY <1>10, <3>2, <4>2, <4>3
    <3>3. QED
      BY <3>1, <3>2
  <2>5. Concurrent /\ haveLocks' => dBuckets' # Static
    BY <1>2 DEF InBounds
  <2>6. QED
    BY <2>1, <2>2, <2>3, <2>4, <2>5 DEF TableShape
<1>18. Counted'
  BY <1>1, <1>2, <1>3, <1>11, CountKept
<1>19. QED
  BY <1>3, <1>11, <1>12, <1>15, <1>16, <1>17, <1>18, NoisyStep

-----------------------------------------------------------------------------
\* The stores that publish the new array.

\* What a thread in rehash_internal() has to itself.
LEMMA InsideRehash ==
  ASSUME TableAssumption, CInv, NEW t \in Threads, pc[t] \in Rehashes
  PROVE  /\ loc[t] \in Locals /\ ControlOf(pc[t], loc[t]) /\ RehashAt(pc[t], loc[t])
         /\ Rehash \in Held(pc[t], loc[t]) /\ ~Reads(loc[t])
         /\ \A u \in Threads \ {t} : pc[u] \notin Rehashes \cup Clears
         /\ pc[t] \notin {"rh_store", "rh_mask"} => Settled
         /\ \A a \in ArrayIds : Content(a) # {} =>
              a = dBuckets \/ (pc[t] \in {"rh_bucket", "rh_move", "rh_store"} /\ a = loc[t].new)
<1>1. loc[t] \in Locals /\ ControlOf(pc[t], loc[t]) /\ RehashAt(pc[t], loc[t])
  BY LocalsOf DEF CInv, Views, View, Knows
<1>2. Rehash \in Held(pc[t], loc[t]) /\ ~Reads(loc[t])
  BY RehashHeld
<1>3. \A u \in Threads \ {t} : pc[u] \notin Rehashes \cup Clears
  BY <1>2, NobodyRehashes
<1>4. pc[t] \notin {"rh_store", "rh_mask"} => Settled
  BY <1>3 DEF Settled, Rehashes, Clears
<1>5. \A u \in Threads : pc[u] \in {"rh_bucket", "rh_move", "rh_store"} => u = t
  BY <1>3 DEF Rehashes
<1>6. \A a \in ArrayIds : Content(a) # {} =>
        a = dBuckets \/ (pc[t] \in {"rh_bucket", "rh_move", "rh_store"} /\ a = loc[t].new)
  <2>1. ASSUME NEW a \in ArrayIds, Content(a) # {}, a # dBuckets
        PROVE  pc[t] \in {"rh_bucket", "rh_move", "rh_store"} /\ a = loc[t].new
    <3>1. PICK u \in Threads : pc[u] \in {"rh_bucket", "rh_move", "rh_store"} /\ a = loc[u].new
      BY <2>1 DEF CInv, TableShape
    <3>2. QED
      BY <1>5, <3>1
  <2>2. QED
    BY <2>1
<1>7. QED
  BY <1>1, <1>2, <1>3, <1>4, <1>6

LEMMA RehashStoresOneKeeps ==
  ASSUME TableAssumption, ReadersOnlyWalk, CInv, NEW t \in Threads, Concurrent \/ Alone(t),
         RehashStoresOne(t)
  PROVE  CInv'
<1> DEFINE m == loc[t]
<1>1. pc[t] = "rh_bucket" /\ m.i = m.count
  BY DEF RehashStoresOne, Goto
<1>2. /\ m \in Locals /\ ControlOf(pc[t], m) /\ Moves(m) /\ Rehash \in Held(pc[t], m) /\ ~Reads(m)
      /\ Settled /\ \A u \in Threads \ {t} : pc[u] \notin Rehashes \cup Clears
      /\ \A a \in ArrayIds : Content(a) # {} => a = dBuckets \/ a = m.new
  BY <1>1, InsideRehash DEF Rehashes, RehashAt
<1>3. /\ UNCHANGED <<arrays, dMask, dSize, haveLocks, steady>>
      /\ dNextTarget' = (m.target + 1) * NodeSize
      /\ \/ dBuckets' = m.new /\ dValues' = dValues
         \/ dValues' = m.new /\ dBuckets' = dBuckets
  BY DEF RehashStoresOne
<1>4. PICK l : l = [m EXCEPT !.old = dBuckets] /\ Move(t, "rh_store", l)
  <2>1. Types /\ Control /\ Views
    BY DEF CInv
  <2>2. QED
    BY <2>1, RehashStoresOneMoves, Zenon
<1>5. /\ l.new = m.new /\ l.i = m.i /\ l.locks = m.locks /\ l.count = m.count
      /\ l.target = m.target /\ l.old = dBuckets /\ m.target \in TableMasks
  BY <1>2, <1>4, TableTyped DEF Locals, CInv
<1>6. dBuckets \in Addresses /\ m.new \in ArrayIds /\ m.new # dBuckets /\ arrays[m.new].mask = m.target
  BY <1>2, TableTyped DEF Moves, CInv
<1>7. dValues = dBuckets /\ (dBuckets # Static => dBuckets \in ArrayIds /\ arrays[dBuckets].mask = dMask)
  BY <1>2, <1>6 DEF CInv, TableShape, Addresses
<1>8. m.count = (IF dBuckets # Static THEN dMask + 1 ELSE 0) /\ m.locks = haveLocks
  BY <1>2 DEF Moves, LockedBuckets
<1>9. dBuckets # Static => Content(dBuckets) = {}
  <2>1. SUFFICES ASSUME dBuckets # Static, NEW k \in Content(dBuckets) PROVE FALSE
    BY <1>7
  <2>2. k \in Keys /\ k \in arrays[dBuckets].cells[Bucket(k, dMask)]
    BY <1>7, <2>1, KeyIsIn
  <2>3. Bucket(k, dMask) \in 0 .. dMask /\ dMask \in Nat
    BY <2>2, BucketTyped, TableTyped DEF CInv
  <2>4. Bucket(k, dMask) \in 0 .. m.i - 1
    BY <1>1, <1>8, <2>1, <2>3
  <2>5. QED
    BY <1>2, <2>1, <2>2, <2>4 DEF Moves
<1>10. dNextTarget' \in Nat
  <2>1. m.target + 1 \in Nat /\ NodeSize \in Nat
    BY <1>5 DEF TableAssumption, TableMasks
  <2>2. QED
    BY <1>3, <2>1
<1>11. TableTypes'
  BY <1>3, <1>6, <1>10, TypesOfTable DEF TableTypes, Addresses
<1>12. \A a \in ArrayIds : Content(a)' = Content(a)
  BY <1>3 DEF Content
<1>13. Contents' = Contents
  BY <1>3 DEF Contents, Content
<1>14. PICK o : o = dBuckets
  OBVIOUS
<1>15. Knows("rh_store", l, steady[t])'
  <2>1. l.old # Static => Content(l.old)' = {} /\ arrays'[l.old].mask = dMask'
    BY <1>3, <1>5, <1>7, <1>9, <1>12, <1>14
  <2>2. {dBuckets', dValues'} = {l.new, l.old} /\ l.new \in ArrayIds \ {l.old} /\ arrays'[l.new].mask = l.target
    BY <1>3, <1>5, <1>6, <1>7
  <2>3. Concurrent /\ l.locks => l.old # Static
    BY <1>5, <1>8 DEF CInv, TableShape
  <2>4. RehashAt("rh_store", l)'
    BY <1>3, <1>5, <1>8, <2>1, <2>2, <2>3 DEF RehashAt
  <2>5. QED
    BY <2>4 DEF Knows, NodeAt, WalkAt, ClearAt, WalkPlaces
<1>16. \A u \in Threads \ {t} : View(u)'
  <2> SUFFICES ASSUME NEW u \in Threads \ {t} PROVE View(u)'
    OBVIOUS
  <2>1. dBuckets # Static => dBuckets' # Static
    BY <1>3, <1>6 DEF TableAssumption
  <2>2. NodeAt(pc[u], loc[u]) => NodeAt(pc[u], loc[u])'
    BY <1>3, <1>4, <2>1, OthersStay DEF CInv, NodeAt
  <2>3. QED
    BY <1>2, <1>3, <1>4, <1>13, <2>2, OthersUnderRehash
<1>17. TableShape'
  <2>1. pc'[t] = "rh_store" /\ loc'[t] = l
    BY <1>4, OthersStay DEF CInv
  <2>2. ~Settled'
    BY <2>1 DEF Settled
  <2>3. ASSUME NEW a \in ArrayIds, Content(a)' # {} PROVE a = loc'[t].new
    <3>1. Content(a) # {}
      BY <1>12, <2>3
    <3>2. a = m.new
      <4>1. a # dBuckets
        BY <1>9, <3>1 DEF TableAssumption
      <4>2. QED
        BY <1>2, <3>1, <4>1
    <3>3. QED
      BY <1>5, <2>1, <3>2
  <2>4. \A a \in ArrayIds : arrays'[a].mask = -1 => Content(a)' = {}
    BY <1>3, <1>12 DEF CInv, TableShape
  <2>5. Concurrent /\ haveLocks' => dBuckets' # Static
    BY <1>3, <1>6 DEF CInv, TableShape, TableAssumption
  <2>6. QED
    BY <2>1, <2>2, <2>3, <2>4, <2>5 DEF TableShape
<1>18. KeysInPlace'
  BY <1>3 DEF CInv, KeysInPlace, Content
<1>19. Counted'
  BY <1>1, <1>3, <1>4, <1>13, CountKept
<1>20. QED
  BY <1>4, <1>11, <1>15, <1>16, <1>17, <1>18, <1>19, NoisyStep

\* While the new array is being published no thread is on a bucket.
LEMMA StoresAlone ==
  ASSUME TableAssumption, CInv, Concurrent, NEW t \in Threads, NEW u \in Threads,
         pc[t] \in {"rh_store", "rh_mask"}, pc[u] = "crit"
  PROVE  FALSE
<1>1. /\ loc[t] \in Locals /\ ControlOf(pc[t], loc[t]) /\ RehashAt(pc[t], loc[t])
      /\ Rehash \in Held(pc[t], loc[t]) /\ ~Reads(loc[t])
  BY InsideRehash DEF Rehashes
<1>2. t # u /\ LocksExact
  BY DEF CInv
<1>3. NodeAt(pc[u], loc[u]) /\ loc[u] \in Locals /\ Held(pc[u], loc[u]) = {loc[u].lk}
  BY LocalsOf DEF CInv, Views, View, Knows, Held
<1>4. loc[u].pos = Bucket(loc[u].key, dMask) /\ loc[u].lk = IF haveLocks THEN loc[u].pos ELSE Rehash
  BY <1>3 DEF NodeAt
<1>5. loc[u].pos \in 0 .. dMask /\ loc[u].pos \in Masks
  <2>1. loc[u].key \in Keys \cup {0}
    BY <1>3 DEF Locals
  <2>2. QED
    BY <1>4, <2>1, BucketTyped, TableTyped DEF CInv
<1>6. haveLocks => loc[t].locks /\ loc[t].count = dMask + 1 /\ loc[t].i = loc[t].count
  BY <1>1 DEF RehashAt, Stored, ControlOf
<1>7. haveLocks => loc[u].pos \in Held(pc[t], loc[t])
  BY <1>5, <1>6, TableTyped DEF Held, CInv
<1>8. loc[u].lk \in Held(pc[t], loc[t]) /\ loc[u].lk \in Locks
  BY <1>1, <1>4, <1>5, <1>7, MaskFacts
<1>9. QED
  BY <1>1, <1>2, <1>3, <1>8, OneHolder

\* A thread on a bucket is ahead of the rehash.
LEMMA AheadOfRehash ==
  ASSUME TableAssumption, CInv, NEW t \in Threads, NEW u \in Threads,
         pc[t] \in {"rh_bucket", "rh_move"}, pc[u] = "crit"
  PROVE  haveLocks /\ loc[u].pos \notin 0 .. loc[t].i - 1
<1>1. /\ loc[t] \in Locals /\ ControlOf(pc[t], loc[t]) /\ RehashAt(pc[t], loc[t])
      /\ Rehash \in Held(pc[t], loc[t]) /\ ~Reads(loc[t])
  BY InsideRehash DEF Rehashes
<1>2. t # u /\ LocksExact
  BY DEF CInv
<1>3. NodeAt(pc[u], loc[u]) /\ Held(pc[u], loc[u]) = {loc[u].lk} /\ loc[u] \in Locals
  BY LocalsOf DEF CInv, Views, View, Knows, Held
<1>4. loc[u].lk = IF haveLocks THEN loc[u].pos ELSE Rehash
  BY <1>3 DEF NodeAt
<1>5. haveLocks
  BY <1>1, <1>2, <1>3, <1>4, OneHolder, MaskFacts
<1>6. loc[t].locks
  BY <1>1, <1>5 DEF RehashAt, Moves
<1>7. loc[u].pos \in 0 .. loc[t].i - 1 => loc[u].pos \in Held(pc[t], loc[t])
  <2>1. loc[t].i \in Nat
    BY <1>1 DEF Locals, Counts
  <2>2. QED
    BY <1>6, <2>1 DEF Held
<1>8. loc[u].pos \in Locks
  BY <1>3, MaskFacts DEF Locals
<1>9. QED
  BY <1>1, <1>2, <1>3, <1>4, <1>5, <1>7, <1>8, OneHolder

LEMMA RehashStoresBothKeeps ==
  ASSUME TableAssumption, ReadersOnlyWalk, CInv, NEW t \in Threads, Concurrent \/ Alone(t),
         RehashStoresBoth(t)
  PROVE  CInv'
<1> DEFINE m == loc[t]
<1>1. pc[t] = "rh_store"
  BY DEF RehashStoresBoth, Goto
<1>2. /\ m \in Locals /\ ControlOf(pc[t], m) /\ RehashAt("rh_store", m) /\ Rehash \in Held(pc[t], m) /\ ~Reads(m)
      /\ \A u \in Threads \ {t} : pc[u] \notin Rehashes \cup Clears
      /\ \A a \in ArrayIds : Content(a) # {} => a = dBuckets \/ a = m.new
  BY <1>1, InsideRehash DEF Rehashes
<1>3. /\ UNCHANGED <<arrays, dMask, dNextTarget, dSize, haveLocks, steady>>
      /\ dBuckets' = m.new /\ dValues' = m.new
  BY DEF RehashStoresBoth
<1>4. PICK l : l = m /\ Move(t, "rh_mask", l)
  <2>1. Types /\ Control /\ Views
    BY DEF CInv
  <2>2. QED
    BY <2>1, RehashStoresBothMoves
<1>5. /\ l.locks = haveLocks /\ l.new \in ArrayIds \ {l.old} /\ arrays[l.new].mask = l.target
      /\ dBuckets \in {l.new, l.old}
      /\ l.count = (IF l.old # Static THEN dMask + 1 ELSE 0)
      /\ Concurrent /\ l.locks => l.old # Static
      /\ l.old # Static => Content(l.old) = {}
  BY <1>2, <1>4 DEF RehashAt
<1>6. TableTypes'
  BY <1>3, <1>4, <1>5, TypesOfTable DEF TableTypes, Addresses
<1>7. \A a : Content(a)' = Content(a)
  BY <1>3 DEF Content
<1>8. Contents' = Contents
  BY <1>3 DEF Contents, Content
<1>9. l.new # Static /\ dBuckets' = l.new
  BY <1>3, <1>4, <1>5 DEF TableAssumption
<1>10. Knows("rh_mask", l, steady[t])'
  BY <1>3, <1>4, <1>5, <1>7, <1>9 DEF Knows, NodeAt, RehashAt, Stored, WalkAt, ClearAt, WalkPlaces
<1>11. \A u \in Threads \ {t} : View(u)'
  <2> SUFFICES ASSUME NEW u \in Threads \ {t} PROVE View(u)'
    OBVIOUS
  <2>1. NodeAt(pc[u], loc[u]) => NodeAt(pc[u], loc[u])'
    BY <1>3, <1>4, <1>9, OthersStay DEF CInv, NodeAt
  <2>2. QED
    BY <1>2, <1>3, <1>4, <1>8, <2>1, OthersUnderRehash
<1>12. TableShape'
  <2>1. pc'[t] = "rh_mask" /\ loc'[t] = l
    BY <1>4, OthersStay DEF CInv
  <2>2. ~Settled'
    BY <2>1 DEF Settled
  <2>3. ASSUME NEW a \in ArrayIds, Content(a)' # {} PROVE a = dBuckets'
    <3>1. Content(a) # {}
      BY <1>7, <2>3
    <3>2. a = l.new \/ a = l.old
      BY <1>2, <1>4, <1>5, <3>1
    <3>3. a # l.old
      BY <1>5, <3>1 DEF TableAssumption
    <3>4. QED
      BY <1>9, <3>2, <3>3
  <2>4. \A a \in ArrayIds : arrays'[a].mask = -1 => Content(a)' = {}
    BY <1>3, <1>7 DEF CInv, TableShape
  <2>5. QED
    BY <1>9, <2>2, <2>3, <2>4 DEF TableShape
<1>13. KeysInPlace'
  BY <1>3 DEF CInv, KeysInPlace, Content
<1>14. Counted'
  BY <1>1, <1>3, <1>4, <1>8, CountKept
<1>15. QED
  BY <1>4, <1>6, <1>10, <1>11, <1>12, <1>13, <1>14, NoisyStep

LEMMA RehashStoresMaskKeeps ==
  ASSUME TableAssumption, ReadersOnlyWalk, CInv, NEW t \in Threads, Concurrent \/ Alone(t),
         RehashStoresMask(t)
  PROVE  CInv'
<1> DEFINE m == loc[t]
<1>1. pc[t] = "rh_mask"
  BY DEF RehashStoresMask, Goto
<1>2. /\ m \in Locals /\ ControlOf(pc[t], m) /\ RehashAt("rh_mask", m) /\ Rehash \in Held(pc[t], m) /\ ~Reads(m)
      /\ \A u \in Threads \ {t} : pc[u] \notin Rehashes \cup Clears
      /\ \A a \in ArrayIds : Content(a) # {} => a = dBuckets
  BY <1>1, InsideRehash DEF Rehashes
<1>3. /\ UNCHANGED <<arrays, dBuckets, dValues, dNextTarget, dSize, haveLocks, steady>>
      /\ dMask' = m.target
  BY DEF RehashStoresMask
<1>4. PICK l : l = [m EXCEPT !.i = 0, !.count = IF m.locks THEN HeldBuckets ELSE 0] /\ Move(t, "rh_unlock", l)
  <2>1. Types /\ Control /\ Views
    BY DEF CInv
  <2>2. QED
    BY <2>1, RehashStoresMaskMoves, Zenon
<1>5. /\ l.new = m.new /\ l.locks = m.locks /\ l.old = m.old /\ l.target = m.target /\ m.target \in TableMasks
  BY <1>2, <1>4 DEF Locals
<1>6. Stored(m) /\ dBuckets = m.new /\ dValues = m.new
  BY <1>2 DEF RehashAt
<1>7. TableTypes'
  BY <1>3, <1>5, TypesOfTable DEF TableTypes
<1>8. \A a : Content(a)' = Content(a)
  BY <1>3 DEF Content
<1>9. Contents' = Contents
  BY <1>3 DEF Contents, Content
<1>10. Knows("rh_unlock", l, steady[t])'
  BY <1>3, <1>5, <1>6, <1>8 DEF Knows, NodeAt, RehashAt, Stored, WalkAt, ClearAt, WalkPlaces
<1>11. \A u \in Threads \ {t} : View(u)'
  <2> SUFFICES ASSUME NEW u \in Threads \ {t} PROVE View(u)'
    OBVIOUS
  <2>1. CASE pc[u] = "idle"
    BY <1>4, <2>1, IdleView
  <2>2. CASE pc[u] # "idle"
    <3>1. pc[u] # "crit"
      BY <1>1, <2>2, StoresAlone DEF Alone
    <3>2. NodeAt(pc[u], loc[u]) => NodeAt(pc[u], loc[u])'
      BY <1>3, <1>4, <3>1, OthersStay DEF CInv, NodeAt
    <3>3. QED
      BY <1>2, <1>3, <1>4, <1>9, <3>2, OthersUnderRehash
  <2>3. QED
    BY <2>1, <2>2
<1>12. TableShape'
  <2>1. dValues' = dBuckets' /\ (dBuckets' # Static => arrays'[dBuckets'].mask = dMask')
    BY <1>3, <1>6 DEF Stored
  <2>2. QED
    BY <1>2, <1>3, <1>8, <2>1 DEF CInv, TableShape
<1>13. KeysInPlace'
  BY <1>3 DEF CInv, KeysInPlace, Content
<1>14. Counted'
  BY <1>1, <1>3, <1>4, <1>9, CountKept
<1>15. QED
  BY <1>4, <1>7, <1>10, <1>11, <1>12, <1>13, <1>14, NoisyStep

LEMMA RehashFreesOldKeeps ==
  ASSUME TableAssumption, ReadersOnlyWalk, CInv, NEW t \in Threads, Concurrent \/ Alone(t),
         RehashFreesOld(t)
  PROVE  CInv'
<1> DEFINE m == loc[t]
<1>1. pc[t] = "rh_unlock"
  BY DEF RehashFreesOld, Goto
<1>2. /\ m \in Locals /\ ControlOf(pc[t], m) /\ RehashAt("rh_unlock", m) /\ Rehash \in Held(pc[t], m) /\ ~Reads(m)
      /\ Settled /\ \A u \in Threads \ {t} : pc[u] \notin Rehashes \cup Clears
      /\ \A a \in ArrayIds : Content(a) # {} => a = dBuckets
  BY <1>1, InsideRehash DEF Rehashes
<1>3. /\ UNCHANGED <<dBuckets, dValues, dMask, dNextTarget, dSize, steady>>
      /\ arrays' = IF m.old = Static THEN arrays ELSE [arrays EXCEPT ![m.old] = Free]
      /\ haveLocks' = (m.locks \/ m.target >= 1) \/ haveLocks' = haveLocks
  BY DEF RehashFreesOld
<1>4. PICK l \in {m, [m EXCEPT !.res = "threw"]} : Move(t, "rh_release", l)
  <2>1. Types /\ Control /\ Views
    BY DEF CInv
  <2>2. PICK l \in {m, [m EXCEPT !.res = "threw"]} : loc' = [loc EXCEPT ![t] = l]
    BY <2>1, FreesWithResult
  <2>3. QED
    BY <2>1, <2>2, RehashFreesOldMoves
<1>5. Stored(m) /\ dBuckets = m.new /\ m.old \in Addresses /\ m.locks \in BOOLEAN
  BY <1>2 DEF RehashAt, Locals
<1>6. PICK o : o = m.old
  OBVIOUS
<1>7. /\ arrays' \in [ArrayIds -> [mask : -1 .. MaxMask, cells : [Masks -> SUBSET Keys]]]
      /\ arrays'[dBuckets] = arrays[dBuckets] /\ KeysInPlace' /\ Contents' = Contents
      /\ \A a \in ArrayIds : Content(a)' = Content(a)
      /\ \A a \in ArrayIds \ {o} : arrays'[a] = arrays[a]
      /\ o # dBuckets
  <2>1. CASE o = Static
    <3>1. arrays' = arrays
      BY <1>3, <1>6, <2>1
    <3>2. dBuckets # Static
      BY <1>5 DEF Stored
    <3>3. QED
      BY <2>1, <3>1, <3>2, TypesOfTable DEF CInv, KeysInPlace, Contents, Content
  <2>2. CASE o # Static
    <3>1. arrays' = [arrays EXCEPT ![o] = Empty(-1)] /\ o \in ArrayIds /\ -1 \in -1 .. MaxMask
      BY <1>3, <1>5, <1>6, <2>2 DEF Free, Addresses, TableAssumption
    <3>2. Content(o) = {} /\ o # dBuckets /\ dBuckets \in ArrayIds
      BY <1>5, <1>6, <2>2 DEF Stored
    <3>3. /\ arrays' \in [ArrayIds -> [mask : -1 .. MaxMask, cells : [Masks -> SUBSET Keys]]]
          /\ Content(o)' = {} /\ KeysInPlace'
          /\ \A b \in ArrayIds \ {o} : arrays'[b] = arrays[b] /\ Content(b)' = Content(b)
          /\ Contents' = Contents
      BY <3>1, <3>2, Emptied
    <3>4. QED
      BY <3>2, <3>3
  <2>3. QED
    BY <2>1, <2>2
<1>8. haveLocks' \in BOOLEAN /\ (haveLocks => haveLocks') /\ (haveLocks' # haveLocks => ~haveLocks)
  BY <1>3, <1>5, TypesOfTable DEF Stored
<1>9. TableTypes'
  BY <1>3, <1>7, <1>8, TypesOfTable DEF TableTypes
<1>10. Knows("rh_release", l, steady[t])'
  BY DEF Knows, NodeAt, RehashAt, WalkAt, ClearAt, WalkPlaces
<1>11. \A u \in Threads \ {t} : View(u)'
  <2> SUFFICES ASSUME NEW u \in Threads \ {t} PROVE View(u)'
    OBVIOUS
  <2>1. NodeAt(pc[u], loc[u]) => NodeAt(pc[u], loc[u])'
    <3>1. SUFFICES ASSUME NodeAt(pc[u], loc[u]) PROVE NodeAt(pc[u], loc[u])'
      OBVIOUS
    <3>2. pc'[u] = pc[u] /\ loc'[u] = loc[u]
      BY <1>4, OthersStay DEF CInv
    <3>3. CASE pc[u] = "crit"
      <4>1. haveLocks
        <5>1. SUFFICES ASSUME ~haveLocks PROVE FALSE
          OBVIOUS
        <5>2. loc[u].lk = Rehash
          BY <3>1, <3>3, <5>1 DEF NodeAt
        <5>3. Rehash \in Held(pc[u], loc[u])
          BY <3>3, <5>2 DEF Held
        <5>4. QED
          BY <1>2, <5>3, OneHolder, MaskFacts DEF CInv
      <4>2. QED
        BY <1>3, <1>8, <3>1, <3>2, <4>1 DEF NodeAt
    <3>4. CASE pc[u] # "crit"
      BY <1>3, <1>8, <3>1, <3>2, <3>4 DEF NodeAt
    <3>5. QED
      BY <3>3, <3>4
  <2>2. QED
    BY <1>2, <1>3, <1>4, <1>7, <2>1, OthersUnderRehash
<1>12. TableShape'
  <2>1. dValues' = dBuckets' /\ (dBuckets' # Static => arrays'[dBuckets'].mask = dMask')
    BY <1>2, <1>3, <1>7 DEF CInv, TableShape
  <2>2. ASSUME NEW a \in ArrayIds, arrays'[a].mask = -1 PROVE Content(a)' = {}
    <3>1. CASE a = o
      BY <1>2, <1>7, <3>1
    <3>2. CASE a # o
      BY <1>7, <2>2, <3>2 DEF CInv, TableShape
    <3>3. QED
      BY <3>1, <3>2
  <2>3. \A a \in ArrayIds : Content(a)' # {} => a = dBuckets'
    BY <1>2, <1>3, <1>7
  <2>4. dBuckets' # Static
    BY <1>3, <1>5 DEF Stored
  <2>5. QED
    BY <2>1, <2>2, <2>3, <2>4 DEF TableShape
<1>13. Counted'
  BY <1>1, <1>3, <1>4, <1>7, CountKept
<1>14. QED
  BY <1>4, <1>7, <1>9, <1>10, <1>11, <1>12, <1>13, NoisyStep

-----------------------------------------------------------------------------
\* A rehash that fails: what it moved goes back to the buckets it came from.
MovesBack(d, a) ==
  arrays' = [arrays EXCEPT
    ![a] = Free,
    ![d].cells = [b \in Masks |-> @[b] \cup {k \in Content(a) : Bucket(k, dMask) = b}]]

LEMMA BucketsRestored ==
  ASSUME TableAssumption, CInv, NEW d \in ArrayIds, NEW a \in ArrayIds, a # d,
         arrays[d].mask = dMask, MovesBack(d, a)
  PROVE  /\ arrays' \in [ArrayIds -> [mask : -1 .. MaxMask, cells : [Masks -> SUBSET Keys]]]
         /\ arrays'[d].mask = arrays[d].mask
         /\ Content(a)' = {}
         /\ Content(d)' = Content(d) \cup Content(a)
         /\ \A b \in ArrayIds \ {a, d} : arrays'[b] = arrays[b] /\ Content(b)' = Content(b)
         /\ KeysInPlace'
         /\ Contents' = Contents
<1> DEFINE back == Content(a)
<1>1. arrays \in [ArrayIds -> [mask : -1 .. MaxMask, cells : [Masks -> SUBSET Keys]]]
  BY TypesOfTable
<1>2. back \subseteq Keys
  BY KeyIsIn
<1>3. \A k \in Keys : Bucket(k, dMask) \in Masks
  BY BucketTyped, TableTyped DEF CInv
<1>4. /\ Empty(-1).cells = [b \in Masks |-> {}] /\ Empty(-1) \in [mask : -1 .. MaxMask, cells : [Masks -> SUBSET Keys]]
  BY DEF Empty, TableAssumption
<1>5. /\ arrays'[a] = Empty(-1)
      /\ arrays'[d] = [arrays[d] EXCEPT !.cells = [b \in Masks |-> arrays[d].cells[b] \cup {k \in back : Bucket(k, dMask) = b}]]
      /\ \A b \in ArrayIds \ {a, d} : arrays'[b] = arrays[b]
      /\ DOMAIN arrays' = ArrayIds /\ arrays' = [b \in ArrayIds |-> arrays'[b]]
  BY <1>1 DEF MovesBack, Free
<1>6. /\ arrays'[d].mask = arrays[d].mask
      /\ arrays'[d].cells = [c \in Masks |-> arrays[d].cells[c] \cup {k \in back : Bucket(k, dMask) = c}]
      /\ arrays'[d] \in [mask : -1 .. MaxMask, cells : [Masks -> SUBSET Keys]]
  BY <1>1, <1>2, <1>5
<1>7. arrays' \in [ArrayIds -> [mask : -1 .. MaxMask, cells : [Masks -> SUBSET Keys]]]
  BY <1>1, <1>4, <1>5, <1>6
<1>8. Content(a)' = {}
  BY <1>4, <1>5 DEF Content
<1> HIDE DEF back
<1>9. Content(d)' = Content(d) \cup back
  <2>1. Content(d)' = UNION {arrays'[d].cells[c] : c \in Masks}
    BY DEF Content
  <2>2. \A c \in Masks : arrays'[d].cells[c] = arrays[d].cells[c] \cup {k \in back : Bucket(k, dMask) = c}
    BY <1>6
  <2>3. \A k \in back : k \in arrays'[d].cells[Bucket(k, dMask)] /\ Bucket(k, dMask) \in Masks
    BY <1>2, <1>3, <2>2
  <2>4. back \subseteq Content(d)'
    BY <2>1, <2>3
  <2>5. ASSUME NEW k \in Content(d) PROVE k \in Content(d)'
    <3>1. PICK c \in Masks : k \in arrays[d].cells[c]
      BY <2>5 DEF Content
    <3>2. k \in arrays'[d].cells[c]
      BY <2>2, <3>1
    <3>3. QED
      BY <2>1, <3>2
  <2>6. ASSUME NEW k \in Content(d)' PROVE k \in Content(d) \cup back
    <3>1. PICK c \in Masks : k \in arrays'[d].cells[c]
      BY <2>1, <2>6
    <3>2. k \in arrays[d].cells[c] \/ k \in back
      BY <2>2, <3>1
    <3>3. QED
      BY <3>2 DEF Content
  <2>7. QED
    BY <2>4, <2>5, <2>6
<1>10. \A b \in ArrayIds \ {a, d} : Content(b)' = Content(b)
  BY <1>5 DEF Content
<1>11. Contents' = Contents
  <2>1. Content(a)' \cup Content(d)' = Content(a) \cup Content(d)
    BY <1>8, <1>9 DEF back
  <2>2. \A k : (\E b \in ArrayIds : k \in Content(b)') <=> (\E b \in ArrayIds : k \in Content(b))
    BY <1>10, <2>1
  <2>3. Contents' = UNION {Content(b)' : b \in ArrayIds} /\ Contents = UNION {Content(b) : b \in ArrayIds}
    BY DEF Contents
  <2>4. \A k : k \in Contents' <=> k \in Contents
    BY <2>2, <2>3
  <2>5. QED
    BY <2>4
<1>12. KeysInPlace'
  <2>1. ASSUME NEW b \in ArrayIds, NEW c \in Masks, NEW k \in arrays'[b].cells[c]
        PROVE  Bucket(k, arrays'[b].mask) = c
    <3>0. \A x \in ArrayIds : \A y \in Masks : \A z \in arrays[x].cells[y] : Bucket(z, arrays[x].mask) = y
      BY DEF CInv, KeysInPlace
    <3>1. CASE b = d
      BY <1>6, <2>1, <3>0, <3>1
    <3>2. CASE b = a
      BY <1>4, <1>5, <2>1, <3>2
    <3>3. CASE b \notin {a, d}
      BY <1>5, <2>1, <3>0, <3>3
    <3>4. QED
      BY <3>1, <3>2, <3>3
  <2>2. \A b, c \in ArrayIds : b # c => Content(b) \cap Content(c) = {}
    BY DEF CInv, KeysInPlace
  <2>3. \A b, c \in ArrayIds : b # c => Content(b)' \cap Content(c)' = {}
    BY <1>8, <1>9, <1>10, <2>2 DEF back
  <2>4. QED
    BY <2>1, <2>3 DEF KeysInPlace, Bucket
<1>13. QED
  BY <1>5, <1>6, <1>7, <1>8, <1>9, <1>10, <1>11, <1>12 DEF back

LEMMA RehashFailsKeeps ==
  ASSUME TableAssumption, ReadersOnlyWalk, CInv, NEW t \in Threads, Concurrent \/ Alone(t),
         RehashFails(t)
  PROVE  CInv'
<1> DEFINE m == loc[t]
<1>1. (pc[t] = "rh_bucket" /\ m.i = 0) \/ pc[t] = "rh_move"
  BY DEF RehashFails
<1>2. /\ m \in Locals /\ ControlOf(pc[t], m) /\ Moves(m) /\ Rehash \in Held(pc[t], m) /\ ~Reads(m)
      /\ Settled /\ \A u \in Threads \ {t} : pc[u] \notin Rehashes \cup Clears
      /\ \A a \in ArrayIds : Content(a) # {} => a = dBuckets \/ a = m.new
  BY <1>1, InsideRehash DEF Rehashes, RehashAt
<1>3. UNCHANGED <<dBuckets, dValues, dMask, dNextTarget, dSize, haveLocks, steady>>
  BY DEF RehashFails
<1>4. PICK l : Move(t, "rh_unlock_failed", l)
  <2>1. Types /\ Control /\ Views
    BY DEF CInv
  <2>2. QED
    BY <2>1, RehashFailsMoves, Zenon
<1>5. PICK a \in ArrayIds, d \in Addresses : a = m.new /\ d = dBuckets /\ a # d
  BY <1>2, TableTyped DEF Moves, CInv
<1>6. dValues = dBuckets /\ (dBuckets # Static => arrays[dBuckets].mask = dMask)
  BY <1>2 DEF CInv, TableShape
<1>7. /\ arrays' \in [ArrayIds -> [mask : -1 .. MaxMask, cells : [Masks -> SUBSET Keys]]]
      /\ d # Static => arrays'[d].mask = dMask
      /\ Content(a)' = {} /\ KeysInPlace' /\ Contents' = Contents
      /\ \A b \in ArrayIds \ {a, d} : arrays'[b] = arrays[b] /\ Content(b)' = Content(b)
  <2>1. CASE d = Static
    <3>1. m.i = 0
      BY <1>1, <1>2, <1>5, <2>1 DEF Moves, LockedBuckets, ControlOf, Locals, Counts
    <3>2. Content(a) = {}
      <4>1. SUFFICES ASSUME NEW k \in Content(a) PROVE FALSE
        OBVIOUS
      <4>2. k \in Keys /\ Bucket(k, dMask) < m.i
        BY <1>2, <1>5, KeyIsIn DEF Moves
      <4>3. Bucket(k, dMask) \in Nat
        BY <4>2, BucketTyped, TableTyped DEF CInv
      <4>4. QED
        BY <3>1, <4>2, <4>3
    <3>3. arrays' = [arrays EXCEPT ![a] = Empty(-1)] /\ -1 \in -1 .. MaxMask
      BY <1>5, <2>1 DEF RehashFails, Free, TableAssumption
    <3>4. /\ arrays' \in [ArrayIds -> [mask : -1 .. MaxMask, cells : [Masks -> SUBSET Keys]]]
          /\ Content(a)' = {} /\ KeysInPlace' /\ Contents' = Contents
          /\ \A b \in ArrayIds \ {a} : arrays'[b] = arrays[b] /\ Content(b)' = Content(b)
      BY <3>2, <3>3, Emptied
    <3>5. QED
      BY <2>1, <3>4
  <2>2. CASE d # Static
    <3>1. d \in ArrayIds /\ arrays[d].mask = dMask
      BY <1>5, <1>6, <2>2 DEF Addresses
    <3>2. MovesBack(d, a)
      BY <1>5, <2>2 DEF RehashFails, MovesBack, MovedBack
    <3>3. QED
      BY <1>5, <3>1, <3>2, BucketsRestored
  <2>3. QED
    BY <2>1, <2>2
<1>8. TableTypes'
  BY <1>3, <1>7, TypesOfTable DEF TableTypes
<1>9. Knows("rh_unlock_failed", l, steady[t])'
  BY DEF Knows, NodeAt, RehashAt, WalkAt, ClearAt, WalkPlaces
<1>10. \A u \in Threads \ {t} : View(u)'
  <2> SUFFICES ASSUME NEW u \in Threads \ {t} PROVE View(u)'
    OBVIOUS
  <2>1. NodeAt(pc[u], loc[u]) => NodeAt(pc[u], loc[u])'
    BY <1>3, <1>4, OthersStay DEF CInv, NodeAt
  <2>2. QED
    BY <1>2, <1>3, <1>4, <1>7, <2>1, OthersUnderRehash
<1>11. TableShape'
  <2>1. dValues' = dBuckets' /\ (dBuckets' # Static => arrays'[dBuckets'].mask = dMask')
    BY <1>3, <1>5, <1>6, <1>7
  <2>2. ASSUME NEW b \in ArrayIds, arrays'[b].mask = -1 PROVE Content(b)' = {}
    <3>1. CASE b = a
      BY <1>7, <3>1
    <3>2. CASE b = d
      <4>1. dMask \in Nat /\ d # Static
        BY <3>2, TableTyped DEF CInv, TableAssumption
      <4>2. QED
        BY <1>7, <2>2, <3>2, <4>1
    <3>3. CASE b \notin {a, d}
      BY <1>7, <2>2, <3>3 DEF CInv, TableShape
    <3>4. QED
      BY <3>1, <3>2, <3>3
  <2>3. \A b \in ArrayIds : Content(b)' # {} => b = dBuckets'
    BY <1>2, <1>3, <1>5, <1>7
  <2>4. Concurrent /\ haveLocks' => dBuckets' # Static
    BY <1>3 DEF CInv, TableShape
  <2>5. QED
    BY <2>1, <2>2, <2>3, <2>4 DEF TableShape
<1>12. Counted'
  BY <1>1, <1>3, <1>4, <1>7, CountKept
<1>13. QED
  BY <1>4, <1>7, <1>8, <1>9, <1>10, <1>11, <1>12, NoisyStep

-----------------------------------------------------------------------------
\* One bucket of the array in use changes.
SetsCell(d, i, S) == arrays' = [arrays EXCEPT ![d].cells[i] = S]

LEMMA CellChanged ==
  ASSUME TableAssumption, CInv, NEW d \in ArrayIds, NEW i \in Masks, NEW S \in SUBSET Keys,
         \A k \in S : Bucket(k, arrays[d].mask) = i,
         \A a \in ArrayIds \ {d} : S \cap Content(a) = {},
         SetsCell(d, i, S)
  PROVE  /\ arrays' \in [ArrayIds -> [mask : -1 .. MaxMask, cells : [Masks -> SUBSET Keys]]]
         /\ \A a \in ArrayIds : arrays'[a].mask = arrays[a].mask
         /\ \A c \in Masks : arrays'[d].cells[c] = IF c = i THEN S ELSE arrays[d].cells[c]
         /\ Content(d)' = (Content(d) \ arrays[d].cells[i]) \cup S
         /\ \A a \in ArrayIds \ {d} : arrays'[a] = arrays[a] /\ Content(a)' = Content(a)
         /\ KeysInPlace'
         /\ Contents' = (Contents \ arrays[d].cells[i]) \cup S
<1> DEFINE old == arrays[d].cells[i]
<1>1. arrays \in [ArrayIds -> [mask : -1 .. MaxMask, cells : [Masks -> SUBSET Keys]]]
  BY TypesOfTable
<1>2. /\ arrays'[d] = [arrays[d] EXCEPT !.cells = [arrays[d].cells EXCEPT ![i] = S]]
      /\ \A a \in ArrayIds \ {d} : arrays'[a] = arrays[a]
      /\ DOMAIN arrays' = ArrayIds /\ arrays' = [a \in ArrayIds |-> arrays'[a]]
  BY <1>1 DEF SetsCell
<1>3. /\ arrays'[d].mask = arrays[d].mask /\ arrays'[d].cells = [c \in Masks |-> IF c = i THEN S ELSE arrays[d].cells[c]]
      /\ arrays'[d] \in [mask : -1 .. MaxMask, cells : [Masks -> SUBSET Keys]]
  <2>1. arrays[d] \in [mask : -1 .. MaxMask, cells : [Masks -> SUBSET Keys]]
    BY <1>1
  <2>2. arrays'[d].mask = arrays[d].mask /\ arrays'[d].cells = [arrays[d].cells EXCEPT ![i] = S]
    BY <1>2, <2>1
  <2>3. arrays'[d].cells = [c \in Masks |-> IF c = i THEN S ELSE arrays[d].cells[c]]
    BY <2>1, <2>2
  <2>4. [arrays[d].cells EXCEPT ![i] = S] \in [Masks -> SUBSET Keys]
    BY <2>1
  <2>5. arrays'[d] \in [mask : -1 .. MaxMask, cells : [Masks -> SUBSET Keys]]
    BY <1>2, <2>1, <2>4
  <2>6. QED
    BY <2>2, <2>3, <2>5
<1>4. arrays' \in [ArrayIds -> [mask : -1 .. MaxMask, cells : [Masks -> SUBSET Keys]]]
  BY <1>1, <1>2, <1>3
<1>5. \A a \in ArrayIds : arrays'[a].mask = arrays[a].mask
  BY <1>2, <1>3
<1>6. \A c \in Masks : arrays'[d].cells[c] = IF c = i THEN S ELSE arrays[d].cells[c]
  BY <1>3
<1>7. \A a \in ArrayIds \ {d} : Content(a)' = Content(a)
  BY <1>2 DEF Content
<1>8. Content(d)' = (Content(d) \ old) \cup S
  <2>1. \A k : k \in Content(d)' <=> \E c \in Masks : k \in arrays'[d].cells[c]
    BY DEF Content
  <2>2. \A k : k \in Content(d) <=> \E c \in Masks : k \in arrays[d].cells[c]
    BY DEF Content
  <2>3. \A c \in Masks : \A k \in arrays[d].cells[c] : k \in old => c = i
    BY KeyIsIn
  <2>4. ASSUME NEW k \in Content(d)' PROVE k \in (Content(d) \ old) \cup S
    <3>1. PICK c \in Masks : k \in arrays'[d].cells[c]
      BY <2>1, <2>4
    <3>2. CASE c = i
      BY <1>6, <3>1, <3>2
    <3>3. CASE c # i
      BY <1>6, <2>2, <2>3, <3>1, <3>3
    <3>4. QED
      BY <3>2, <3>3
  <2>5. ASSUME NEW k \in S PROVE k \in Content(d)'
    BY <1>6, <2>1, <2>5
  <2>6. ASSUME NEW k \in Content(d) \ old PROVE k \in Content(d)'
    <3>1. PICK c \in Masks : k \in arrays[d].cells[c]
      BY <2>2, <2>6
    <3>2. c # i
      BY <2>6, <3>1
    <3>3. k \in arrays'[d].cells[c]
      BY <1>6, <3>1, <3>2
    <3>4. QED
      BY <2>1, <3>3
  <2>7. QED
    BY <2>4, <2>5, <2>6
<1>9. old \subseteq Content(d) /\ \A a \in ArrayIds \ {d} : Content(a) \cap Content(d) = {}
  BY DEF Content, CInv, KeysInPlace
<1>10. KeysInPlace'
  <2>1. ASSUME NEW b \in ArrayIds, NEW c \in Masks, NEW k \in arrays'[b].cells[c]
        PROVE  Bucket(k, arrays'[b].mask) = c
    <3>0. \A x \in ArrayIds : \A y \in Masks : \A z \in arrays[x].cells[y] : Bucket(z, arrays[x].mask) = y
      BY DEF CInv, KeysInPlace
    <3>1. CASE b = d /\ c = i
      BY <1>5, <1>6, <2>1, <3>1
    <3>2. CASE b = d /\ c # i
      BY <1>5, <1>6, <2>1, <3>0, <3>2
    <3>3. CASE b # d
      BY <1>2, <2>1, <3>0, <3>3
    <3>4. QED
      BY <3>1, <3>2, <3>3
  <2>2. \A b, c \in ArrayIds : b # c => Content(b) \cap Content(c) = {}
    BY DEF CInv, KeysInPlace
  <2>3. \A b, c \in ArrayIds : b # c => Content(b)' \cap Content(c)' = {}
    BY <1>7, <1>8, <2>2
  <2>4. QED
    BY <2>1, <2>3 DEF KeysInPlace, Bucket
<1> HIDE DEF old
<1>11. Contents' = (Contents \ old) \cup S
  <2>1. \A k : k \in Contents' <=> \E a \in ArrayIds : k \in Content(a)'
    <3>1. Contents' = UNION {Content(a)' : a \in ArrayIds}
      BY DEF Contents
    <3>2. QED
      BY <3>1
  <2>2. \A k : k \in Contents <=> \E a \in ArrayIds : k \in Content(a)
    BY DEF Contents
  <2>3. ASSUME NEW k PROVE k \in Contents' <=> k \in (Contents \ old) \cup S
    <3>1. CASE k \in Contents'
      <4>1. PICK a \in ArrayIds : k \in Content(a)'
        BY <2>1, <3>1
      <4>2. CASE a = d
        BY <1>8, <2>2, <3>1, <4>1, <4>2
      <4>3. CASE a # d
        BY <1>7, <1>9, <2>2, <3>1, <4>1, <4>3
      <4>4. QED
        BY <4>2, <4>3
    <3>2. CASE k \in S
      BY <1>8, <2>1, <3>2
    <3>3. CASE k \in Contents \ old
      <4>1. PICK a \in ArrayIds : k \in Content(a)
        BY <2>2, <3>3
      <4>2. k \in Content(a)'
        BY <1>7, <1>8, <3>3, <4>1
      <4>3. QED
        BY <2>1, <3>3, <4>2
    <3>4. QED
      BY <3>1, <3>2, <3>3
  <2>4. QED
    BY <2>3
<1>12. QED
  BY <1>2, <1>4, <1>5, <1>6, <1>7, <1>8, <1>10, <1>11 DEF old

-----------------------------------------------------------------------------
\* Insertions and erasures.

LEMMA OnBucket ==
  ASSUME TableAssumption, CInv, NEW t \in Threads, Concurrent \/ Alone(t), pc[t] = "crit", dBuckets # Static
  PROVE  /\ Settled /\ dValues = dBuckets /\ dBuckets \in ArrayIds /\ arrays[dBuckets].mask = dMask
         /\ loc[t] \in Locals /\ ControlOf(pc[t], loc[t]) /\ loc[t].key \in Keys
         /\ loc[t].pos = Bucket(loc[t].key, dMask) /\ loc[t].pos \in Masks
         /\ \A a \in ArrayIds \ {dBuckets} : loc[t].key \notin Content(a)
<1> DEFINE m == loc[t]
<1>1. m \in Locals /\ ControlOf(pc[t], m) /\ NodeAt(pc[t], m)
  BY LocalsOf DEF CInv, Views, View, Knows
<1>2. m.op \in Points /\ m.key \in Keys
  BY <1>1 DEF ControlOf, NodePlaces
<1>3. m.pos = Bucket(m.key, dMask) /\ m.pos \in Masks
  BY <1>1 DEF NodeAt, Locals
<1>4. Settled
  <2>1. SUFFICES ASSUME NEW u \in Threads, pc[u] \in {"rh_store", "rh_mask", "cl_mask"} PROVE FALSE
    BY DEF Settled
  <2>2. u # t /\ pc[u] # "idle"
    BY <2>1
  <2>3. Concurrent
    BY <2>2 DEF Alone
  <2>4. pc[u] # "cl_mask"
    BY <2>3 DEF CInv, Control, ControlOf, ClearPlaces, Concurrent
  <2>5. QED
    BY <2>1, <2>3, <2>4, StoresAlone
<1>5. dValues = dBuckets /\ dBuckets \in ArrayIds /\ arrays[dBuckets].mask = dMask
  BY <1>4, TableTyped DEF CInv, TableShape, Addresses
<1>6. ASSUME NEW a \in ArrayIds \ {dBuckets}, m.key \in Content(a) PROVE FALSE
  <2>1. PICK u \in Threads : pc[u] \in {"rh_bucket", "rh_move", "rh_store"} /\ a = loc[u].new
    BY <1>6 DEF CInv, TableShape
  <2>2. pc[u] \in {"rh_bucket", "rh_move"}
    BY <1>4, <2>1 DEF Settled
  <2>3. Moves(loc[u]) /\ loc[u].i \in Nat
    BY <2>2, LocalsOf DEF CInv, Views, View, Knows, RehashAt, Locals, Counts
  <2>4. m.pos < loc[u].i
    BY <1>3, <1>6, <2>1, <2>3 DEF Moves
  <2>5. m.pos \in 0 .. loc[u].i - 1
    <3>1. m.pos \in Nat
      BY <1>3, MaskFacts
    <3>2. QED
      BY <2>3, <2>4, <3>1
  <2>6. QED
    BY <2>2, <2>5, AheadOfRehash
<1>7. QED
  BY <1>1, <1>2, <1>3, <1>4, <1>5, <1>6

\* What the other threads know is still so after a step on one bucket.
LEMMA OthersOnBucket ==
  ASSUME TableAssumption, CInv, NEW t \in Threads, NEW p, NEW l, Move(t, p, l), Concurrent \/ Alone(t),
         pc[t] = "crit", NEW d \in ArrayIds, d = dBuckets,
         UNCHANGED <<dBuckets, dValues, dMask, haveLocks>>,
         \A a \in ArrayIds : arrays'[a].mask = arrays[a].mask,
         \A a \in ArrayIds \ {d} : Content(a)' = Content(a),
         \A c \in Masks \ {loc[t].pos} : arrays'[d].cells[c] = arrays[d].cells[c],
         NEW u \in Threads \ {t}, steady'[u] \subseteq steady[u],
         steady[u] \subseteq Contents => steady'[u] \subseteq Contents'
  PROVE  View(u)'
<1>1. pc'[u] = pc[u] /\ loc'[u] = loc[u]
  BY OthersStay DEF CInv
<1>2. Knows(pc[u], loc[u], steady[u]) /\ Settled
  BY OnBucket DEF CInv, Views, View, TableAssumption
<1>3. NodeAt(pc[u], loc[u])'
  BY <1>1, <1>2 DEF Knows, NodeAt
<1>4. ClearAt(pc[u], loc[u])'
  BY <1>1, <1>2 DEF Knows, ClearAt
<1>5. WalkAt(pc[u], loc[u], steady[u])'
  BY <1>1, <1>2 DEF Knows, WalkAt
<1>6. RehashAt(pc[u], loc[u])'
  <2>1. pc[u] \notin {"rh_store", "rh_mask"}
    BY <1>2 DEF Settled
  <2>2. PICK n, o : n = loc[u].new /\ o = loc[u].old
    OBVIOUS
  <2>3. CASE pc[u] \in {"rh_bucket", "rh_move"}
    <3>1. Moves(loc[u]) /\ loc[u] \in Locals /\ ControlOf(pc[u], loc[u])
      BY <1>2, <2>3, LocalsOf DEF Knows, RehashAt, CInv
    <3>2. n \in ArrayIds \ {d} /\ Content(n)' = Content(n)
      BY <2>2, <3>1 DEF Moves
    <3>3. \A b \in 0 .. loc[u].i - 1 : b \in Masks \ {loc[t].pos}
      <4>1. loc[u].i \in 0 .. MaxMask + 1 /\ MaxMask \in Nat
        BY <3>1 DEF Locals, Counts, TableAssumption
      <4>2. loc[t].pos \notin 0 .. loc[u].i - 1
        BY <2>3, AheadOfRehash
      <4>3. QED
        BY <4>1, <4>2 DEF Masks
    <3>4. \A b \in 0 .. loc[u].i - 1 : arrays[d].cells[b] = {}
      BY <3>1 DEF Moves, TableAssumption
    <3>5. \A b \in 0 .. loc[u].i - 1 : arrays'[d].cells[b] = {}
      BY <3>3, <3>4
    <3>6. \A k \in Content(n)' : Bucket(k, dMask) < loc[u].i
      BY <2>2, <3>1, <3>2 DEF Moves
    <3>7. n = loc'[u].new
      BY <1>1, <2>2
    <3>8. Moves(loc[u])'
      BY <1>1, <3>1, <3>2, <3>5, <3>6, <3>7 DEF Moves, LockedBuckets, Bucket
    <3>9. QED
      BY <1>1, <2>1, <2>3, <3>8 DEF RehashAt
  <2>4. CASE pc[u] = "rh_unlock"
    <3>1. Stored(loc[u]) /\ dBuckets = loc[u].new /\ loc[u].old \in Addresses
      BY <1>2, <2>4, LocalsOf DEF Knows, RehashAt, CInv, Locals
    <3>2. o # Static => Content(o)' = {}
      BY <2>2, <3>1 DEF Stored, Addresses
    <3>3. o = loc'[u].old
      BY <1>1, <2>2
    <3>4. Stored(loc[u])'
      BY <1>1, <3>1, <3>2, <3>3 DEF Stored
    <3>5. QED
      BY <1>1, <2>4, <3>1, <3>4 DEF RehashAt
  <2>5. CASE pc[u] \notin {"rh_bucket", "rh_move", "rh_store", "rh_mask", "rh_unlock"}
    BY <1>1, <2>5 DEF RehashAt
  <2>6. QED
    BY <2>1, <2>3, <2>4, <2>5
<1>7. QED
  BY <1>3, <1>4, <1>5, <1>6 DEF View, Knows

\* The shape of the table after a step on one bucket.
LEMMA ShapeOnBucket ==
  ASSUME TableAssumption, CInv, NEW t \in Threads, NEW p, NEW l, Move(t, p, l),
         Settled, pc[t] \notin {"rh_bucket", "rh_move"}, p \notin {"rh_store", "rh_mask", "cl_mask"},
         NEW d \in ArrayIds, d = dBuckets,
         UNCHANGED <<dBuckets, dValues, dMask, haveLocks>>,
         \A a \in ArrayIds : arrays'[a].mask = arrays[a].mask,
         \A a \in ArrayIds \ {d} : Content(a)' = Content(a)
  PROVE  TableShape'
<1>1. d # Static /\ arrays[d].mask = dMask /\ dMask \in Nat /\ dValues = d
  BY TableTyped DEF CInv, TableShape, TableAssumption
<1>2. dValues' = dBuckets' /\ arrays'[dBuckets'].mask = dMask'
  BY <1>1
<1>3. ASSUME NEW a \in ArrayIds, arrays'[a].mask = -1 PROVE Content(a)' = {}
  <2>1. a # d /\ arrays[a].mask = -1
    BY <1>1, <1>3
  <2>2. QED
    BY <2>1 DEF CInv, TableShape
<1>4. ASSUME NEW a \in ArrayIds, Content(a)' # {}, a # dBuckets'
      PROVE  \E u \in Threads : pc'[u] \in {"rh_bucket", "rh_move", "rh_store"} /\ a = loc'[u].new
  <2>1. Content(a) # {} /\ a # d
    BY <1>4
  <2>2. PICK u \in Threads : pc[u] \in {"rh_bucket", "rh_move", "rh_store"} /\ a = loc[u].new
    BY <2>1 DEF CInv, TableShape
  <2>3. u # t
    BY <2>2 DEF Settled
  <2>4. QED
    BY <2>2, <2>3, OthersStay DEF CInv
<1>5. dBuckets' # Static
  BY <1>1
<1>6. QED
  BY <1>2, <1>3, <1>4, <1>5 DEF TableShape

LEMMA FindInsertKeeps ==
  ASSUME TableAssumption, ReadersOnlyWalk, CInv, NEW t \in Threads, Concurrent \/ Alone(t),
         FindInsert(t)
  PROVE  CInv'
<1> DEFINE m == loc[t]
<1>1. /\ pc[t] = "crit" /\ m.op = "insert" /\ dBuckets # Static
      /\ UNCHANGED <<dBuckets, dValues, dMask, dNextTarget, dSize, haveLocks, steady>>
  BY DEF FindInsert, Goto, InBounds, Inserts
<1>2. /\ Settled /\ dBuckets \in ArrayIds /\ arrays[dBuckets].mask = dMask
      /\ m \in Locals /\ m.key \in Keys /\ m.pos = Bucket(m.key, dMask) /\ m.pos \in Masks
      /\ \A a \in ArrayIds \ {dBuckets} : m.key \notin Content(a)
  BY <1>1, OnBucket
<1>3. PICK d \in ArrayIds, i \in Masks, k \in Keys : d = dBuckets /\ i = m.pos /\ k = m.key
  BY <1>2
<1>4. PICK l : /\ l = [m EXCEPT !.res = IF m.key \in Cell(t) THEN "found" ELSE "absent"]
               /\ Move(t, "fin", l)
  <2>1. Types /\ Control /\ Views
    BY DEF CInv
  <2>2. QED
    BY <2>1, FindInsertMoves, Zenon
<1> DEFINE cell == arrays[d].cells[i]
<1>4a. Move(t, "fin", l)
  BY <1>4
<1>5. l.op = "insert" /\ l.res = IF k \in cell THEN "found" ELSE "absent"
  BY <1>1, <1>2, <1>3, <1>4 DEF Locals, Cell
<1>6. cell \in SUBSET Keys /\ cell \cup {k} \in SUBSET Keys
  BY KeyIsIn
<1>7. \A x \in cell \cup {k} : Bucket(x, arrays[d].mask) = i
  BY <1>2, <1>3, KeyIsIn
<1>8. \A a \in ArrayIds \ {d} : (cell \cup {k}) \cap Content(a) = {}
  <2>1. cell \subseteq Content(d)
    BY DEF Content
  <2>2. \A a \in ArrayIds \ {d} : Content(d) \cap Content(a) = {}
    BY DEF CInv, KeysInPlace
  <2>3. QED
    BY <1>2, <1>3, <2>1, <2>2
<1>9. SetsCell(d, i, cell \cup {k})
  BY <1>3 DEF FindInsert, SetsCell
<1>10. /\ arrays' \in [ArrayIds -> [mask : -1 .. MaxMask, cells : [Masks -> SUBSET Keys]]]
       /\ \A a \in ArrayIds : arrays'[a].mask = arrays[a].mask
       /\ \A c \in Masks : arrays'[d].cells[c] = IF c = i THEN cell \cup {k} ELSE arrays[d].cells[c]
       /\ \A a \in ArrayIds \ {d} : arrays'[a] = arrays[a] /\ Content(a)' = Content(a)
       /\ KeysInPlace' /\ Contents' = (Contents \ cell) \cup (cell \cup {k})
  BY <1>6, <1>7, <1>8, <1>9, CellChanged
<1>11. Contents' = Contents \cup {k} /\ (k \in Contents <=> k \in cell)
  <2>1. cell \subseteq Contents
    BY DEF Contents, Content
  <2>2. ASSUME k \in Contents PROVE k \in cell
    <3>1. k \in Content(d)
      BY <1>2, <1>3, <2>2 DEF Contents
    <3>2. QED
      BY <1>2, <1>3, <3>1, KeyIsIn
  <2>3. QED
    BY <1>10, <2>1, <2>2
<1>12. TableTypes'
  BY <1>1, <1>10, TypesOfTable DEF TableTypes
<1>13. Knows("fin", l, steady[t])'
  BY DEF Knows, NodeAt, RehashAt, WalkAt, ClearAt, WalkPlaces
<1>14. \A u \in Threads \ {t} : View(u)'
  BY <1>1, <1>3, <1>4, <1>10, <1>11, OthersOnBucket
<1>15. TableShape'
  BY <1>1, <1>2, <1>3, <1>4, <1>10, ShapeOnBucket
<1>16. Counted'
  <2>1. IsFiniteSet(Contents) /\ SizeCounts /\ Cardinality(Contents) \in Nat
    BY FS_CardinalityType DEF CInv, Counted
  <2>2. /\ Pending("insert", "absent")' = Pending("insert", "absent") + IF k \in cell THEN 0 ELSE 1
        /\ Pending("insert", "absent") \in Nat
    BY <1>1, <1>4a, <1>5, PendingMoves
  <2>3. Pending("erase", "found")' = Pending("erase", "found") /\ Pending("erase", "found") \in Nat
    BY <1>1, <1>4a, <1>5, PendingMoves
  <2>4. IsFiniteSet(Contents') /\ Cardinality(Contents') = Cardinality(Contents) + IF k \in cell THEN 0 ELSE 1
    BY <1>11, <2>1, FS_AddElement
  <2>5. dSize \in Int
    BY TypesOfTable
  <2>6. QED
    BY <1>1, <2>1, <2>2, <2>3, <2>4, <2>5 DEF Counted, SizeCounts
<1>17. QED
  BY <1>4, <1>10, <1>12, <1>13, <1>14, <1>15, <1>16, NoisyStep

LEMMA EraseKeyKeeps ==
  ASSUME TableAssumption, ReadersOnlyWalk, CInv, NEW t \in Threads, Concurrent \/ Alone(t),
         EraseKey(t)
  PROVE  CInv'
<1> DEFINE m == loc[t]
<1>1. /\ pc[t] = "crit" /\ m.op = "erase" /\ dBuckets # Static
      /\ UNCHANGED <<dBuckets, dValues, dMask, dNextTarget, dSize, haveLocks>>
      /\ steady' = [s \in Threads |-> steady[s] \ {m.key}]
  BY DEF EraseKey, Goto, InBounds, Unsteady
<1>2. /\ Settled /\ dBuckets \in ArrayIds /\ arrays[dBuckets].mask = dMask
      /\ m \in Locals /\ m.key \in Keys /\ m.pos = Bucket(m.key, dMask) /\ m.pos \in Masks
      /\ \A a \in ArrayIds \ {dBuckets} : m.key \notin Content(a)
  BY <1>1, OnBucket
<1>3. PICK d \in ArrayIds, i \in Masks, k \in Keys : d = dBuckets /\ i = m.pos /\ k = m.key
  BY <1>2
<1>4. PICK l : /\ l = [m EXCEPT !.res = IF m.key \in Cell(t) THEN "found" ELSE "absent"]
               /\ Move(t, "fin", l)
  <2>1. Types /\ Control /\ Views
    BY DEF CInv
  <2>2. QED
    BY <2>1, EraseKeyMoves, Zenon
<1> DEFINE cell == arrays[d].cells[i]
<1>4a. Move(t, "fin", l)
  BY <1>4
<1>5. l.op = "erase" /\ l.res = IF k \in cell THEN "found" ELSE "absent"
  BY <1>1, <1>2, <1>3, <1>4 DEF Locals, Cell
<1>6. cell \ {k} \in SUBSET Keys
  BY KeyIsIn
<1>7. \A x \in cell \ {k} : Bucket(x, arrays[d].mask) = i
  BY KeyIsIn
<1>8. \A a \in ArrayIds \ {d} : (cell \ {k}) \cap Content(a) = {}
  <2>1. cell \subseteq Content(d)
    BY DEF Content
  <2>2. \A a \in ArrayIds \ {d} : Content(d) \cap Content(a) = {}
    BY DEF CInv, KeysInPlace
  <2>3. QED
    BY <2>1, <2>2
<1>9. SetsCell(d, i, cell \ {k})
  BY <1>3 DEF EraseKey, SetsCell
<1>10. /\ arrays' \in [ArrayIds -> [mask : -1 .. MaxMask, cells : [Masks -> SUBSET Keys]]]
       /\ \A a \in ArrayIds : arrays'[a].mask = arrays[a].mask
       /\ \A c \in Masks : arrays'[d].cells[c] = IF c = i THEN cell \ {k} ELSE arrays[d].cells[c]
       /\ \A a \in ArrayIds \ {d} : arrays'[a] = arrays[a] /\ Content(a)' = Content(a)
       /\ KeysInPlace' /\ Contents' = (Contents \ cell) \cup (cell \ {k})
  BY <1>6, <1>7, <1>8, <1>9, CellChanged
<1>11. Contents' = Contents \ {k} /\ (k \in Contents <=> k \in cell)
  <2>1. cell \subseteq Contents
    BY DEF Contents, Content
  <2>2. ASSUME k \in Contents PROVE k \in cell
    <3>1. k \in Content(d)
      BY <1>2, <1>3, <2>2 DEF Contents
    <3>2. QED
      BY <1>2, <1>3, <3>1, KeyIsIn
  <2>3. QED
    BY <1>10, <2>1, <2>2
<1>12. TableTypes'
  <2>1. steady' \in [Threads -> SUBSET Keys]
    BY <1>1, TypesOfTable
  <2>2. QED
    BY <1>1, <1>10, <2>1, TypesOfTable DEF TableTypes
<1>13. Knows("fin", l, steady[t])'
  BY DEF Knows, NodeAt, RehashAt, WalkAt, ClearAt, WalkPlaces
<1>14. \A u \in Threads \ {t} : View(u)'
  <2> SUFFICES ASSUME NEW u \in Threads \ {t} PROVE View(u)'
    OBVIOUS
  <2>1. steady'[u] \subseteq steady[u] /\ (steady[u] \subseteq Contents => steady'[u] \subseteq Contents')
    BY <1>1, <1>3, <1>11
  <2>2. QED
    BY <1>1, <1>3, <1>4, <1>10, <2>1, OthersOnBucket
<1>15. TableShape'
  BY <1>1, <1>2, <1>3, <1>4, <1>10, ShapeOnBucket
<1>16. Counted'
  <2>1. IsFiniteSet(Contents) /\ SizeCounts /\ Cardinality(Contents) \in Nat
    BY FS_CardinalityType DEF CInv, Counted
  <2>2. Pending("insert", "absent")' = Pending("insert", "absent") /\ Pending("insert", "absent") \in Nat
    BY <1>1, <1>4a, <1>5, PendingMoves
  <2>3. /\ Pending("erase", "found")' = Pending("erase", "found") + IF k \in cell THEN 1 ELSE 0
        /\ Pending("erase", "found") \in Nat
    BY <1>1, <1>4a, <1>5, PendingMoves
  <2>4. IsFiniteSet(Contents') /\ Cardinality(Contents') = Cardinality(Contents) - IF k \in cell THEN 1 ELSE 0
    <3>1. CASE k \in cell
      BY <1>11, <2>1, <3>1, FS_RemoveElement
    <3>2. CASE k \notin cell
      <4>1. Contents' = Contents
        BY <1>11, <3>2
      <4>2. QED
        BY <2>1, <3>2, <4>1
    <3>3. QED
      BY <3>1, <3>2
  <2>5. dSize \in Int
    BY TypesOfTable
  <2>6. QED
    BY <1>1, <2>1, <2>2, <2>3, <2>4, <2>5 DEF Counted, SizeCounts
<1>17. QED
  BY <1>4, <1>10, <1>12, <1>13, <1>14, <1>15, <1>16, NoisyStep

LEMMA FinishKeeps ==
  ASSUME TableAssumption, ReadersOnlyWalk, CInv, NEW t \in Threads, Concurrent \/ Alone(t),
         Finish(t)
  PROVE  CInv'
<1> DEFINE m == loc[t]
<1>1. /\ pc[t] = "fin" /\ dSize' = dSize + SizeChange(t)
      /\ UNCHANGED <<arrays, dBuckets, dValues, dMask, dNextTarget, haveLocks>>
      /\ steady' = [steady EXCEPT ![t] = {}]
  BY DEF Finish, Return, Goto
<1>2. m \in Locals /\ ControlOf(pc[t], m)
  BY LocalsOf DEF CInv
<1>3. PICK l : l = NoLocals /\ Move(t, "idle", l)
  <2>1. Types /\ Control /\ Views
    BY DEF CInv
  <2>2. QED
    BY <2>1, FinishMoves
<1>4. TableTypes'
  <2>1. SizeChange(t) \in Int
    BY DEF SizeChange
  <2>2. dSize' \in Int
    BY <1>1, <2>1, TypesOfTable
  <2>3. steady' \in [Threads -> SUBSET Keys]
    BY <1>1, TypesOfTable
  <2>4. QED
    BY <1>1, <2>2, <2>3, TypesOfTable DEF TableTypes
<1>5. Knows("idle", l, steady[t])'
  BY DEF Knows, NodeAt, RehashAt, WalkAt, ClearAt, WalkPlaces
<1>6. \A u \in Threads \ {t} : View(u)'
  <2> SUFFICES ASSUME NEW u \in Threads \ {t} PROVE View(u)'
    OBVIOUS
  <2>1. pc'[u] = pc[u] /\ loc'[u] = loc[u] /\ steady'[u] = steady[u]
    BY <1>1, <1>3, OthersStay, TypesOfTable DEF CInv
  <2>2. View(u)
    BY DEF CInv, Views
  <2>3. QED
    BY <1>1, <2>1, <2>2 DEF View, Knows, NodeAt, RehashAt, WalkAt, ClearAt, Moves, Stored, Contents, Content, LockedBuckets
<1>7. TableShape'
  <2>1. Settled' <=> Settled
    BY <1>1, <1>3, OthersStay DEF CInv, Settled
  <2>2. ASSUME NEW u \in Threads, pc[u] \in {"rh_bucket", "rh_move", "rh_store"}
        PROVE  pc'[u] \in {"rh_bucket", "rh_move", "rh_store"} /\ loc'[u].new = loc[u].new
    BY <1>1, <1>3, <2>2, OthersStay DEF CInv
  <2>3. QED
    BY <1>1, <2>1, <2>2 DEF CInv, TableShape, Content
<1>8. KeysInPlace'
  BY <1>1 DEF CInv, KeysInPlace, Content
<1>9. Counted'
  <2>1. IsFiniteSet(Contents) /\ SizeCounts /\ Cardinality(Contents) \in Nat /\ Contents' = Contents
    BY <1>1, FS_CardinalityType DEF CInv, Counted, Contents, Content
  <2>2. /\ Pending("insert", "absent")' = Pending("insert", "absent") - IF m.op = "insert" /\ m.res = "absent" THEN 1 ELSE 0
        /\ Pending("insert", "absent") \in Nat
    BY <1>1, <1>3, PendingMoves
  <2>3. /\ Pending("erase", "found")' = Pending("erase", "found") - IF m.op = "erase" /\ m.res = "found" THEN 1 ELSE 0
        /\ Pending("erase", "found") \in Nat
    BY <1>1, <1>3, PendingMoves
  <2>4. SizeChange(t) = IF m.op = "insert" /\ m.res = "absent" THEN 1
                        ELSE IF m.op = "erase" /\ m.res = "found" THEN -1 ELSE 0
    BY DEF SizeChange, Inserts
  <2>5. dSize \in Int
    BY TypesOfTable
  <2>6. QED
    BY <1>1, <2>1, <2>2, <2>3, <2>4, <2>5 DEF Counted, SizeCounts
<1>10. QED
  BY <1>3, <1>4, <1>5, <1>6, <1>7, <1>8, <1>9, NoisyStep

-----------------------------------------------------------------------------
\* erase_if and clear.

LEMMA EraseFromBucketKeeps ==
  ASSUME TableAssumption, ReadersOnlyWalk, CInv, NEW t \in Threads, Concurrent \/ Alone(t),
         EraseFromBucket(t)
  PROVE  CInv'
<1> DEFINE m == loc[t]
<1>1. /\ pc[t] = "wk_visit" /\ m.op = "erase_if" /\ dBuckets # Static
      /\ UNCHANGED <<dBuckets, dValues, dMask, dNextTarget, haveLocks>>
  BY DEF EraseFromBucket, Goto, InBounds
<1>2. m \in Locals /\ ControlOf(pc[t], m) /\ Rehash \in Held(pc[t], m) /\ ~Reads(m)
      /\ WalkAt("wk_visit", m, steady[t])
  BY <1>1, LocalsOf, RehashHeld DEF CInv, Views, View, Knows, WalkPlaces, Reads
<1>3. /\ Settled /\ dBuckets \in ArrayIds /\ arrays[dBuckets].mask = dMask
      /\ Contents = Content(dBuckets)
  BY <1>1, <1>2, WholeTable
<1>4. m.i \in Masks /\ m.i \in Nat /\ m.i < m.count /\ m.seen \subseteq Keys
  BY <1>1, <1>2, IndexTyped DEF ControlOf, Locals, Counts
<1>5. PICK d \in ArrayIds, i \in Masks : d = dBuckets /\ i = m.i
  BY <1>3, <1>4
<1> DEFINE cell == arrays[d].cells[i]
<1>6. PICK gone \in SUBSET cell :
        /\ SetsCell(d, i, cell \ gone)
        /\ dSize' = dSize - Cardinality(gone)
        /\ steady' = [s \in Threads |-> steady[s] \ gone]
  <2>1. \E gone \in SUBSET arrays[dBuckets].cells[m.i] :
          /\ arrays' = [arrays EXCEPT ![dBuckets].cells[m.i] = @ \ gone]
          /\ dSize' = dSize - Cardinality(gone)
          /\ Unsteady(gone)
    BY DEF EraseFromBucket
  <2>2. QED
    BY <1>5, <2>1 DEF SetsCell, Unsteady
<1>7. PICK l : l = [m EXCEPT !.seen = m.seen \cup arrays[dBuckets].cells[m.i]] /\ Move(t, "wk_unlock", l)
  <2>1. Types /\ Control /\ Views
    BY DEF CInv
  <2>2. QED
    BY <2>1, EraseFromBucketMoves, Zenon
<1>8. Move(t, "wk_unlock", l)
  BY <1>7
<1>9. /\ l.seen = m.seen \cup cell /\ l.i = i /\ l.count = m.count /\ l.locks = m.locks
      /\ l.op = m.op /\ l.stop = m.stop
  BY <1>2, <1>5, <1>7 DEF Locals
<1>10. cell \subseteq Keys /\ cell \ gone \in SUBSET Keys /\ \A x \in cell : Bucket(x, dMask) = i
  BY <1>3, <1>5, KeyIsIn
<1>11. \A a \in ArrayIds \ {d} : (cell \ gone) \cap Content(a) = {}
  <2>1. cell \subseteq Content(d)
    BY DEF Content
  <2>2. \A a \in ArrayIds \ {d} : Content(d) \cap Content(a) = {}
    BY DEF CInv, KeysInPlace
  <2>3. QED
    BY <2>1, <2>2
<1>12. /\ arrays' \in [ArrayIds -> [mask : -1 .. MaxMask, cells : [Masks -> SUBSET Keys]]]
       /\ \A a \in ArrayIds : arrays'[a].mask = arrays[a].mask
       /\ \A a \in ArrayIds \ {d} : Content(a)' = Content(a)
       /\ KeysInPlace' /\ Contents' = (Contents \ cell) \cup (cell \ gone)
  <2>1. \A x \in cell \ gone : Bucket(x, arrays[d].mask) = i
    BY <1>3, <1>5, <1>10
  <2>2. QED
    BY <1>6, <1>10, <1>11, <2>1, CellChanged
<1>13. cell \subseteq Contents
  BY DEF Contents, Content
<1>14. Contents' = Contents \ gone /\ gone \subseteq Contents
  BY <1>12, <1>13
<1>15. IsFiniteSet(Contents) /\ Cardinality(Contents) \in Nat
  BY FS_CardinalityType DEF CInv, Counted
<1>16. /\ IsFiniteSet(gone) /\ Cardinality(gone) \in Nat /\ IsFiniteSet(Contents')
       /\ Cardinality(Contents') = Cardinality(Contents) - Cardinality(gone)
  <2>1. IsFiniteSet(gone) /\ Cardinality(gone) \in Nat
    BY <1>14, <1>15, FS_Subset, FS_CardinalityType
  <2>2. Contents \cap gone = gone
    BY <1>14
  <2>3. IsFiniteSet(Contents \ gone) /\ Cardinality(Contents \ gone) = Cardinality(Contents) - Cardinality(Contents \cap gone)
    BY <1>15, <2>1, FS_Difference
  <2>4. QED
    BY <1>14, <2>1, <2>2, <2>3
<1>17. TableTypes'
  <2>1. dSize' \in Int
    BY <1>6, <1>16, TypesOfTable
  <2>2. steady' \in [Threads -> SUBSET Keys]
    BY <1>6, TypesOfTable
  <2>3. QED
    BY <1>1, <1>12, <2>1, <2>2, TypesOfTable DEF TableTypes
<1>18. \A k \in Keys : Bucket(k, dMask) \in Nat
  BY BucketTyped, TableTyped DEF CInv
<1>19. Knows("wk_unlock", l, steady[t])'
  <2>1. steady'[t] = steady[t] \ gone /\ steady[t] \subseteq Contents /\ Contents \subseteq Keys
    BY <1>2, <1>6, ContentsTyped DEF WalkAt, WalkPlaces
  <2>2. \A k \in l.seen : Bucket(k, dMask) <= l.i
    BY <1>2, <1>4, <1>5, <1>9, <1>10, <1>18 DEF WalkAt
  <2>3. ASSUME NEW k \in steady[t], Bucket(k, dMask) <= l.i
        PROVE  k \in l.seen
    <3>1. k \in Contents /\ k \in Keys
      BY <2>1
    <3>2. CASE Bucket(k, dMask) = i
      BY <1>3, <1>5, <1>9, <3>1, <3>2, KeyIsIn
    <3>3. CASE Bucket(k, dMask) # i
      <4>1. Bucket(k, dMask) < m.i
        BY <1>4, <1>5, <1>9, <1>18, <2>3, <3>1, <3>3
      <4>2. k \in m.seen
        BY <1>2, <4>1 DEF WalkAt
      <4>3. QED
        BY <1>9, <4>2
    <3>4. QED
      BY <3>2, <3>3
  <2>4. steady'[t] \subseteq Contents'
    BY <1>14, <2>1
  <2>5. dBuckets' # Static /\ l.locks = haveLocks' /\ l.count = dMask' + 1
    BY <1>1, <1>2, <1>9 DEF WalkAt
  <2>6. WalkAt("wk_unlock", l, steady[t])'
    BY <1>1, <2>1, <2>2, <2>3, <2>4, <2>5 DEF WalkAt, Bucket
  <2>7. QED
    BY <1>1, <1>9, <2>6 DEF Knows, NodeAt, RehashAt, ClearAt
<1>20. \A u \in Threads \ {t} : View(u)'
  <2> SUFFICES ASSUME NEW u \in Threads \ {t} PROVE View(u)'
    OBVIOUS
  <2>1. NodeAt(pc[u], loc[u]) => NodeAt(pc[u], loc[u])'
    BY <1>1, <1>8, OthersStay DEF CInv, NodeAt
  <2>2. steady[u] \subseteq Contents => steady'[u] \subseteq Contents'
    BY <1>6, <1>14
  <2>3. QED
    BY <1>2, <1>8, <2>1, <2>2, OthersUnderRehash
<1>21. TableShape'
  BY <1>1, <1>3, <1>5, <1>8, <1>12, ShapeOnBucket
<1>22. Counted'
  <2>1. Pending("insert", "absent")' = Pending("insert", "absent") /\ Pending("insert", "absent") \in Nat
    BY <1>1, <1>8, PendingMoves
  <2>2. Pending("erase", "found")' = Pending("erase", "found") /\ Pending("erase", "found") \in Nat
    BY <1>1, <1>8, PendingMoves
  <2>3. SizeCounts /\ dSize \in Int
    BY TypesOfTable DEF CInv, Counted
  <2>4. QED
    BY <1>6, <1>15, <1>16, <2>1, <2>2, <2>3 DEF Counted, SizeCounts
<1>23. QED
  BY <1>8, <1>12, <1>17, <1>19, <1>20, <1>21, <1>22, NoisyStep

\* A clear() is alone with the table.
LEMMA ClearAlone ==
  ASSUME TableAssumption, CInv, NEW t \in Threads, Concurrent \/ Alone(t), pc[t] \in ClearPlaces
  PROVE  Alone(t) /\ loc[t] \in Locals /\ ControlOf(pc[t], loc[t]) /\ ClearAt(pc[t], loc[t])
<1>1. loc[t] \in Locals /\ ControlOf(pc[t], loc[t]) /\ ClearAt(pc[t], loc[t])
  BY LocalsOf DEF CInv, Views, View, Knows
<1>2. loc[t].op = "clear" /\ loc[t].op \in Ops
  BY <1>1 DEF ControlOf, ClearPlaces
<1>3. QED
  BY <1>1, <1>2 DEF Concurrent

LEMMA ClearResetsKeeps ==
  ASSUME TableAssumption, ReadersOnlyWalk, CInv, NEW t \in Threads, Concurrent \/ Alone(t),
         ClearResets(t)
  PROVE  CInv'
<1>1. /\ pc[t] = "cl_bucket" /\ UNCHANGED <<dMask, haveLocks>>
      /\ steady' = [s \in Threads |-> steady[s] \ Content(dBuckets)]
      /\ arrays' = [arrays EXCEPT ![dBuckets] = Free]
      /\ dBuckets' = Static /\ dValues' = Static /\ dSize' = 0 /\ dNextTarget' = 0
  BY DEF ClearResets, Goto, Unsteady
<1>2. /\ Alone(t) /\ dBuckets # Static /\ \A u \in Threads \ {t} : pc[u] = "idle"
      /\ ~Concurrent
  BY <1>1, ClearAlone DEF ClearPlaces, ClearAt, Alone, ControlOf, Concurrent
<1>3. PICK d \in ArrayIds : d = dBuckets
  BY <1>2, TableTyped DEF CInv, Addresses
<1>4. PICK l : l = loc[t] /\ Move(t, "cl_mask", l)
  <2>1. Types /\ Control /\ Views
    BY DEF CInv
  <2>2. QED
    BY <2>1, ClearResetsMoves
<1>5. \A a \in ArrayIds : Content(a) # {} => a = d
  BY <1>1, <1>2, <1>3 DEF CInv, TableShape
<1>6. /\ arrays' \in [ArrayIds -> [mask : -1 .. MaxMask, cells : [Masks -> SUBSET Keys]]]
      /\ \A a \in ArrayIds : Content(a)' = {}
      /\ KeysInPlace'
  <2>1. arrays' = [arrays EXCEPT ![d] = Empty(-1)] /\ -1 \in -1 .. MaxMask
    BY <1>1, <1>3 DEF Free, TableAssumption
  <2>2. /\ arrays' \in [ArrayIds -> [mask : -1 .. MaxMask, cells : [Masks -> SUBSET Keys]]]
        /\ Content(d)' = {} /\ KeysInPlace'
        /\ \A b \in ArrayIds \ {d} : Content(b)' = Content(b)
    BY <2>1, Emptied
  <2>3. QED
    BY <1>5, <2>2
<1>7. Contents' = {}
  <2>1. Contents' = UNION {Content(a)' : a \in ArrayIds}
    BY DEF Contents
  <2>2. QED
    BY <1>6, <2>1
<1>8. TableTypes'
  <2>1. steady' \in [Threads -> SUBSET Keys]
    BY <1>1, TypesOfTable
  <2>2. QED
    BY <1>1, <1>6, <2>1, TypesOfTable DEF TableTypes, Addresses
<1>9. Knows("cl_mask", l, steady[t])'
  BY <1>1 DEF Knows, NodeAt, RehashAt, WalkAt, ClearAt, WalkPlaces
<1>10. \A u \in Threads \ {t} : View(u)'
  BY <1>2, <1>4, IdleView
<1>11. TableShape'
  <2>1. pc'[t] = "cl_mask"
    BY <1>4, OthersStay DEF CInv
  <2>2. ~Settled'
    BY <2>1 DEF Settled
  <2>3. QED
    BY <1>2, <1>6, <2>2 DEF TableShape
<1>12. Counted'
  <2>1. \A u \in Threads : pc'[u] # "fin"
    BY <1>2, <1>4, OthersStay DEF CInv
  <2>2. {u \in Threads : pc'[u] = "fin" /\ loc'[u].op = "insert" /\ loc'[u].res = "absent"} = {}
    BY <2>1
  <2>3. {u \in Threads : pc'[u] = "fin" /\ loc'[u].op = "erase" /\ loc'[u].res = "found"} = {}
    BY <2>1
  <2>4. Pending("insert", "absent")' = 0 /\ Pending("erase", "found")' = 0
    BY <2>2, <2>3, FS_EmptySet DEF Pending
  <2>5. QED
    BY <1>1, <1>7, <2>4, FS_EmptySet DEF Counted, SizeCounts
<1>13. QED
  BY <1>4, <1>6, <1>8, <1>9, <1>10, <1>11, <1>12, NoisyStep

LEMMA ClearResetsMaskKeeps ==
  ASSUME TableAssumption, ReadersOnlyWalk, CInv, NEW t \in Threads, Concurrent \/ Alone(t),
         ClearResetsMask(t)
  PROVE  CInv'
<1>1. /\ pc[t] = "cl_mask" /\ dMask' = 0
      /\ UNCHANGED <<arrays, dBuckets, dValues, dNextTarget, dSize, haveLocks, steady>>
  BY DEF ClearResetsMask, Goto
<1>2. /\ Alone(t) /\ dBuckets = Static /\ dValues = Static /\ \A u \in Threads \ {t} : pc[u] = "idle"
      /\ ~Concurrent
  BY <1>1, ClearAlone DEF ClearPlaces, ClearAt, Alone, ControlOf, Concurrent
<1>3. PICK l : Move(t, "cl_unlock", l)
  <2>1. Types /\ Control /\ Views
    BY DEF CInv
  <2>2. QED
    BY <2>1, ClearResetsMaskMoves, Zenon
<1>4. Contents' = Contents /\ \A a : Content(a)' = Content(a)
  BY <1>1 DEF Contents, Content
<1>5. TableTypes'
  BY <1>1, MaskFacts, TypesOfTable DEF TableTypes
<1>6. Knows("cl_unlock", l, steady[t])'
  BY DEF Knows, NodeAt, RehashAt, WalkAt, ClearAt, WalkPlaces
<1>7. \A u \in Threads \ {t} : View(u)'
  BY <1>2, <1>3, IdleView
<1>8. TableShape'
  <2>1. \A a \in ArrayIds : Content(a) # {} => a = dBuckets
    BY <1>1, <1>2 DEF CInv, TableShape
  <2>2. QED
    BY <1>1, <1>2, <1>4, <2>1 DEF CInv, TableShape
<1>9. KeysInPlace'
  BY <1>1 DEF CInv, KeysInPlace, Content
<1>10. Counted'
  BY <1>1, <1>3, <1>4, CountKept
<1>11. QED
  BY <1>3, <1>5, <1>6, <1>7, <1>8, <1>9, <1>10, NoisyStep

-----------------------------------------------------------------------------
\* The invariant, and what follows from it.

LEMMA InitKeeps ==
  ASSUME TableAssumption, Init
  PROVE  CInv
<1>1. NoLocals \in Locals /\ NoLocals.op = "none" /\ "idle" \in Places /\ ControlOf("idle", NoLocals)
  BY NoLocalsTyped
<1>2. \A a \in ArrayIds : arrays[a] = Empty(-1)
  BY DEF Init, Free
<1>3. Empty(-1).mask = -1 /\ Empty(-1).cells = [b \in Masks |-> {}] /\ Empty(-1) \in [mask : -1 .. MaxMask, cells : [Masks -> SUBSET Keys]]
  BY DEF Empty, TableAssumption
<1>4. \A a \in ArrayIds : Content(a) = {}
  BY <1>2, <1>3 DEF Content
<1>5. Contents = {}
  BY <1>4 DEF Contents
<1>6. Types
  <2>1. arrays \in [ArrayIds -> [mask : -1 .. MaxMask, cells : [Masks -> SUBSET Keys]]]
    <3>1. arrays = [a \in ArrayIds |-> Empty(-1)]
      BY DEF Init, Free
    <3>2. QED
      BY <1>3, <3>1
  <2>2. lock \in [Locks -> [w : BOOLEAN, r : 0 .. 63]]
    <3>1. [w |-> FALSE, r |-> 0] \in [w : BOOLEAN, r : 0 .. 63]
      OBVIOUS
    <3>2. lock = [n \in Locks |-> [w |-> FALSE, r |-> 0]]
      BY DEF Init
    <3>3. QED
      BY <3>1, <3>2
  <2>3. pc \in [Threads -> Places] /\ loc \in [Threads -> Locals]
    BY <1>1 DEF Init
  <2>4. steady \in [Threads -> SUBSET Keys]
    BY DEF Init
  <2>5. dMask \in TableMasks /\ dMask \in Masks
    BY MaskFacts DEF Init
  <2>6. DOMAIN pc = Threads /\ DOMAIN loc = Threads
    BY <2>3
  <2>7. /\ dBuckets \in {Static} \cup ArrayIds /\ dValues \in {Static} \cup ArrayIds
        /\ dNextTarget \in Nat /\ dSize \in Int /\ haveLocks \in BOOLEAN /\ inRehash \in BOOLEAN
    <3>1. dBuckets = Static /\ dValues = Static /\ dNextTarget = 0 /\ dSize = 0 /\ haveLocks = FALSE /\ inRehash = FALSE
      BY DEF Init
    <3>2. haveLocks \in BOOLEAN /\ inRehash \in BOOLEAN
      BY <3>1, Zenon
    <3>3. dNextTarget \in Nat /\ dSize \in Int
      BY <3>1
    <3>4. dBuckets \in {Static} \cup ArrayIds /\ dValues \in {Static} \cup ArrayIds
      BY <3>1
    <3>5. QED
      BY <3>2, <3>3, <3>4
  <2>8. TypeOK
    BY <2>1, <2>2, <2>4, <2>5, <2>6, <2>7 DEF TypeOK
  <2>9. QED
    BY <2>3, <2>5, <2>8 DEF Types
<1>7. Control
  BY <1>1 DEF Init, Control
<1>8. LocksExact
  <2>1. \A t \in Threads : Held(pc[t], loc[t]) = {}
    BY DEF Init, Held
  <2>2. ASSUME NEW n \in Locks PROVE LockExact(n)
    <3>1. Holders(n) = {} /\ Readers(n) = {}
      BY <2>1 DEF Holders, Readers
    <3>2. lock[n].w = FALSE /\ lock[n].r = 0
      BY DEF Init
    <3>3. QED
      BY <3>1, <3>2, FS_EmptySet DEF LockExact
  <2>3. QED
    BY <2>2 DEF LocksExact
<1>9. OneRehash
  BY DEF Init, OneRehash, InRehash
<1>10. Views
  BY DEF Init, Views, View, Knows, NodeAt, RehashAt, WalkAt, ClearAt, WalkPlaces
<1>11. TableShape
  BY <1>4 DEF Init, TableShape
<1>12. KeysInPlace
  BY <1>2, <1>3, <1>4 DEF KeysInPlace
<1>13. Counted
  <2>1. {t \in Threads : pc[t] = "fin" /\ loc[t].op = "insert" /\ loc[t].res = "absent"} = {}
    BY DEF Init
  <2>2. {t \in Threads : pc[t] = "fin" /\ loc[t].op = "erase" /\ loc[t].res = "found"} = {}
    BY DEF Init
  <2>3. Cardinality({}) = 0 /\ IsFiniteSet({})
    BY FS_EmptySet
  <2>4. Pending("insert", "absent") = 0 /\ Pending("erase", "found") = 0
    BY <2>1, <2>2, <2>3 DEF Pending
  <2>5. dSize = 0
    BY DEF Init
  <2>6. QED
    BY <1>5, <2>3, <2>4, <2>5 DEF Counted, SizeCounts
<1>14. QED
  BY <1>6, <1>7, <1>8, <1>9, <1>10, <1>11, <1>12, <1>13 DEF CInv

\* A thread that runs alone, or among threads that do not clear(), keeps the invariant.
LEMMA StepKeeps ==
  ASSUME TableAssumption, ReadersOnlyWalk, CInv, NEW t \in Threads, Concurrent \/ Alone(t),
         Call(t) \/ Continue(t) \/ RehashFails(t)
  PROVE  CInv'
<1>1. CASE Call(t)
  BY <1>1, CallPointKeeps, CallWalkKeeps, CallRehashKeeps, CallClearKeeps DEF Call
<1>2. CASE GetNode(t)
  BY <1>2, LoadLocksKeeps, GlobalLockKeeps, TakeGlobalLockKeeps, GlobalLockStaleKeeps, GlobalLockHeldKeeps,
     LoadMaskKeeps, LockBucketKeeps, LockBucketSharedFirstKeeps, LockBucketSharedKeeps, CheckNodeKeeps,
     UpdateLockKeeps DEF GetNode
<1>3. CASE OnNode(t)
  BY <1>3, FindInsertKeeps, EraseKeyKeeps, VisitHashKeeps, StaticNodeKeeps, FinishKeeps DEF OnNode
<1>4. CASE DoRehash(t)
  BY <1>4, InsertLoadsSizeKeeps, InsertMayRehashKeeps, EnterRehashKeeps, RehashTakesLockKeeps,
     RehashNotNeededKeeps, RehashAllocatesKeeps, RehashLocksBucketKeeps, RehashMovesBucketKeeps,
     RehashStoresOneKeeps, RehashStoresBothKeeps, RehashStoresMaskKeeps, RehashUnlocksBucketKeeps,
     RehashFreesOldKeeps, RehashDropsLockKeeps, LeaveRehashKeeps, ReturnFromRehashKeeps,
     FailureUnlocksBucketKeeps, FailureLeavesKeeps DEF DoRehash
<1>5. CASE Walk(t)
  BY <1>5, WalkTakesLockKeeps, WalkStartsKeeps, WalkLocksBucketKeeps, VisitBucketKeeps, EraseFromBucketKeeps,
     WalkUnlocksBucketKeeps, WalkPastLastKeeps, WalkReturnsKeeps DEF Walk
<1>6. CASE Clear(t)
  BY <1>6, ClearTakesLockKeeps, ClearStartsKeeps, ClearLocksBucketKeeps, ClearResetsKeeps, ClearResetsMaskKeeps,
     ClearUnlocksBucketKeeps, ClearUnlockedKeeps, ClearReturnsKeeps DEF Clear
<1>7. CASE RehashFails(t)
  BY <1>7, RehashFailsKeeps
<1>8. QED
  BY <1>1, <1>2, <1>3, <1>4, <1>5, <1>6, <1>7 DEF Continue

LEMMA StutterKeeps ==
  ASSUME CInv, UNCHANGED vars
  PROVE  CInv'
<1>1. UNCHANGED <<arrays, dBuckets, dValues, dMask, dNextTarget, dSize, haveLocks, inRehash, lock, pc, loc, steady>>
  BY DEF vars, table
<1>2. Types' /\ Control'
  BY <1>1 DEF CInv, Types, TypeOK, Control
<1>3. LocksExact' /\ OneRehash'
  BY <1>1 DEF CInv, LocksExact, LockExact, OneRehash, Holders, Readers
<1>4. Views'
  BY <1>1 DEF CInv, Views, View, Knows, NodeAt, RehashAt, WalkAt, ClearAt, Moves, Stored, Contents, Content,
              LockedBuckets
<1>5. TableShape' /\ KeysInPlace' /\ Counted'
  BY <1>1 DEF CInv, TableShape, Settled, KeysInPlace, Content, Counted, SizeCounts, Pending, Contents
<1>6. QED
  BY <1>2, <1>3, <1>4, <1>5 DEF CInv

-----------------------------------------------------------------------------
\* What the invariant says, for calls that run at the same time or one at a time.
OneCall == \A s, t \in Threads : pc[s] # "idle" /\ pc[t] # "idle" => s = t

LEMMA IsAlone ==
  ASSUME Concurrent \/ OneCall, NEW t \in Threads, pc[t] # "idle"
  PROVE  Concurrent \/ Alone(t)
BY DEF OneCall, Alone

\* A thread that uses a bucket holds the bucket's lock, or d_rehash_lock before there are any.
LEMMA UsesUnderLock ==
  ASSUME TableAssumption, Concurrent, CInv, NEW t \in Threads, NEW b \in Uses(t)
  PROVE  /\ b \in Masks
         /\ (IF haveLocks THEN b ELSE Rehash) \in Held(pc[t], loc[t])
<1>1. loc[t] \in Locals /\ ControlOf(pc[t], loc[t]) /\ Knows(pc[t], loc[t], steady[t])
  BY LocalsOf DEF CInv, Views, View
<1>2. dBuckets # Static /\ dMask \in Nat /\ 0 .. dMask \subseteq Masks
  <2>1. dBuckets # Static
    BY DEF Uses
  <2>2. dMask \in 0 .. MaxMask /\ MaxMask \in Nat
    BY TableTyped DEF CInv, Masks
  <2>3. QED
    BY <2>1, <2>2 DEF Masks
<1>3. pc[t] # "cl_bucket"
  BY <1>1 DEF ControlOf, ClearPlaces, Concurrent
<1>4. CASE pc[t] = "crit"
  <2>1. b = loc[t].pos /\ b \in Masks
    BY <1>1, <1>2, <1>4 DEF Uses, Locals
  <2>2. Held(pc[t], loc[t]) = {loc[t].lk}
    BY <1>4 DEF Held
  <2>3. QED
    BY <1>1, <1>4, <2>1, <2>2 DEF Knows, NodeAt
<1>5. CASE pc[t] \in {"wk_visit", "rh_move"}
  <2>1. b = loc[t].i
    BY <1>2, <1>5 DEF Uses
  <2>2. loc[t].locks = haveLocks /\ loc[t].i < loc[t].count /\ loc[t].count = dMask + 1
    BY <1>1, <1>2, <1>5 DEF Knows, RehashAt, Moves, LockedBuckets, WalkAt, ControlOf
  <2>3. b \in Nat
    BY <1>1, <2>1 DEF Locals, Counts
  <2>4. b \in Masks
    BY <1>2, <2>1, <2>2, <2>3
  <2>5. QED
    BY <1>5, <2>1, <2>2, <2>3, <2>4 DEF Held
<1>6. QED
  BY <1>2, <1>3, <1>4, <1>5 DEF Uses

LEMMA MutexFollows ==
  ASSUME TableAssumption, Concurrent \/ OneCall, CInv
  PROVE  BucketMutex
<1>1. SUFFICES ASSUME NEW s \in Threads, NEW t \in Threads, s # t, Uses(s) \cap Uses(t) # {}
               PROVE  loc[s].op \in ReadOnly /\ loc[t].op \in ReadOnly
  BY DEF BucketMutex
<1>2. PICK b : b \in Uses(s) /\ b \in Uses(t)
  BY <1>1
<1>3. pc[s] # "idle" /\ pc[t] # "idle"
  BY <1>2 DEF Uses
<1>4. Concurrent
  BY <1>1, <1>3 DEF OneCall
<1>5. PICK n \in Locks : n \in Held(pc[s], loc[s]) /\ n \in Held(pc[t], loc[t])
  BY <1>2, <1>4, UsesUnderLock, MaskFacts
<1>6. Reads(loc[s]) /\ Reads(loc[t])
  BY <1>1, <1>5, OneHolder DEF CInv
<1>7. QED
  BY <1>6 DEF Reads, ReadOnly

LEMMA ExistsFollows ==
  ASSUME TableAssumption, Concurrent \/ OneCall, CInv
  PROVE  BucketExists
<1>1. ASSUME NEW t \in Threads, NEW b \in Uses(t) PROVE InBounds(b)
  <2>1. loc[t] \in Locals /\ ControlOf(pc[t], loc[t]) /\ Knows(pc[t], loc[t], steady[t])
    BY LocalsOf DEF CInv, Views, View
  <2>2. dBuckets # Static /\ dMask \in Nat /\ pc[t] # "idle"
    BY <1>1, TableTyped DEF CInv, Uses
  <2>3. Concurrent \/ Alone(t)
    BY <2>2, IsAlone
  <2>4. CASE pc[t] = "crit"
    <3>1. /\ dValues = dBuckets /\ arrays[dBuckets].mask = dMask
          /\ loc[t].key \in Keys /\ loc[t].pos = Bucket(loc[t].key, dMask)
      BY <2>2, <2>3, <2>4, OnBucket
    <3>2. b = loc[t].pos
      BY <1>1, <2>2, <2>4 DEF Uses
    <3>3. b <= dMask
      BY <2>2, <3>1, <3>2, BucketTyped, TableTyped DEF CInv
    <3>4. QED
      BY <2>2, <3>1, <3>3 DEF InBounds
  <2>5. CASE pc[t] \in {"wk_visit", "rh_move"}
    <3>1. b = loc[t].i
      BY <1>1, <2>2, <2>5 DEF Uses
    <3>2. loc[t].i < loc[t].count /\ loc[t].count = dMask + 1 /\ loc[t].i \in Nat
      BY <2>1, <2>2, <2>5 DEF Knows, RehashAt, Moves, LockedBuckets, WalkAt, ControlOf, Locals, Counts
    <3>3. Settled
      <4>1. CASE pc[t] = "rh_move"
        BY <4>1, InsideRehash DEF Rehashes
      <4>2. CASE pc[t] = "wk_visit"
        BY <4>2, RehashHeld, WholeTable DEF WalkPlaces
      <4>3. QED
        BY <2>5, <4>1, <4>2
    <3>4. dValues = dBuckets /\ arrays[dBuckets].mask = dMask
      BY <2>2, <3>3 DEF CInv, TableShape
    <3>5. b <= dMask
      BY <2>2, <3>1, <3>2
    <3>6. QED
      BY <2>2, <3>4, <3>5 DEF InBounds
  <2>6. CASE pc[t] = "cl_bucket"
    <3>1. b \in 0 .. dMask
      BY <1>1, <2>2, <2>6 DEF Uses
    <3>2. dValues = dBuckets /\ arrays[dBuckets].mask = dMask
      BY <2>2, <2>6, RehashHeld, WholeTable DEF Clears
    <3>3. QED
      BY <2>2, <3>1, <3>2 DEF InBounds
  <2>7. QED
    BY <1>1, <2>2, <2>4, <2>5, <2>6 DEF Uses
<1>2. ASSUME NEW t \in Threads, pc[t] = "crit", loc[t].op \in Inserts PROVE dBuckets # Static
  BY <1>2 DEF CInv, Views, View, Knows, NodeAt, Inserts
<1>3. QED
  BY <1>1, <1>2 DEF BucketExists

LEMMA ReleasedFollows ==
  ASSUME TableAssumption, CInv
  PROVE  LocksReleased
<1>1. SUFFICES ASSUME \A t \in Threads : pc[t] = "idle"
               PROVE  ~inRehash /\ \A n \in Locks : Unlocked(n)
  BY DEF LocksReleased, Idle
<1>2. ~inRehash
  BY <1>1 DEF CInv, OneRehash, InRehash
<1>3. ASSUME NEW n \in Locks PROVE Unlocked(n)
  <2>1. \A t \in Threads : Held(pc[t], loc[t]) = {}
    BY <1>1 DEF Held
  <2>2. Holders(n) = {} /\ Readers(n) = {}
    BY <2>1 DEF Holders, Readers
  <2>3. LockExact(n)
    BY DEF CInv, LocksExact
  <2>4. lock[n].r = 0
    BY <2>2, <2>3, FS_EmptySet DEF LockExact
  <2>5. ~lock[n].w
    BY <2>2, <2>3 DEF LockExact
  <2>6. QED
    BY <2>4, <2>5 DEF Unlocked
<1>4. QED
  BY <1>2, <1>3

\* The six invariants that the runs check.
LEMMA PropertiesFollow ==
  ASSUME TableAssumption, Concurrent \/ OneCall, CInv
  PROVE  TypeOK /\ BucketMutex /\ BucketExists /\ KeysInPlace /\ SizeCounts /\ LocksReleased
BY MutexFollows, ExistsFollows, ReleasedFollows DEF CInv, Types, Counted

\* A step is one of the thread that makes it.
OnlyMoves(t) == UNCHANGED pc \/ \E p : pc' = [pc EXCEPT ![t] = p]

LEMMA Steps ==
  ASSUME NEW t \in Threads, Call(t) \/ Continue(t) \/ RehashFails(t)
  PROVE  OnlyMoves(t)
<1>1. CASE Call(t)
  <2>1. ASSUME NEW op \in Points, NEW k \in Keys, CallPoint(t, op, k) PROVE OnlyMoves(t)
    BY <2>1 DEF CallPoint, Goto, OnlyMoves
  <2>2. ASSUME NEW op \in Walks, CallWalk(t, op) PROVE OnlyMoves(t)
    BY <2>2 DEF CallWalk, Goto, OnlyMoves
  <2>3. ASSUME NEW mask \in RehashMasks, CallRehash(t, mask) PROVE OnlyMoves(t)
    BY <2>3 DEF CallRehash, Goto, OnlyMoves
  <2>4. ASSUME CallClear(t) PROVE OnlyMoves(t)
    BY <2>4 DEF CallClear, Goto, OnlyMoves
  <2>5. QED
    BY <1>1, <2>1, <2>2, <2>3, <2>4 DEF Call
<1>2. CASE GetNode(t)
  BY <1>2 DEF GetNode, LoadLocks, GlobalLock, TakeGlobalLock, GlobalLockStale, GlobalLockHeld, LoadMask,
     LockBucket, LockBucketSharedFirst, LockBucketShared, CheckNode, UpdateLock, Goto, OnlyMoves
<1>3. CASE OnNode(t)
  BY <1>3 DEF OnNode, FindInsert, EraseKey, VisitHash, StaticNode, Finish, Return, Goto, OnlyMoves
<1>4. CASE DoRehash(t)
  <2>1. ASSUME InsertMayRehash(t) PROVE OnlyMoves(t)
    <3>1. PICK p : pc' = [pc EXCEPT ![t] = p]
      BY <2>1 DEF InsertMayRehash, Goto
    <3>2. QED
      BY <3>1 DEF OnlyMoves
  <2>2. ASSUME EnterRehash(t) \/ LeaveRehash(t) \/ ReturnFromRehash(t) PROVE OnlyMoves(t)
    BY <2>2 DEF EnterRehash, LeaveRehash, ReturnFromRehash, Return, Goto, OnlyMoves
  <2>3. ASSUME InsertLoadsSize(t) \/ RehashTakesLock(t) \/ RehashNotNeeded(t) \/ RehashLocksBucket(t)
        PROVE OnlyMoves(t)
    BY <2>3 DEF InsertLoadsSize, RehashTakesLock, RehashNotNeeded, RehashLocksBucket, Goto, OnlyMoves
  <2>4. ASSUME RehashAllocates(t) \/ RehashMovesBucket(t) PROVE OnlyMoves(t)
    <3>1. Goto(t, "rh_start", "rh_bucket") \/ Goto(t, "rh_move", "rh_bucket")
      BY <2>4, Zenon DEF RehashAllocates, RehashMovesBucket
    <3>2. QED
      BY <3>1 DEF Goto, OnlyMoves
  <2>5. ASSUME RehashStoresOne(t) \/ RehashStoresBoth(t) \/ RehashStoresMask(t) \/ RehashUnlocksBucket(t)
               \/ RehashFreesOld(t) \/ RehashDropsLock(t) \/ FailureUnlocksBucket(t) \/ FailureLeaves(t)
        PROVE OnlyMoves(t)
    BY <2>5 DEF RehashStoresOne, RehashStoresBoth, RehashStoresMask, RehashUnlocksBucket, RehashFreesOld,
       RehashDropsLock, FailureUnlocksBucket, FailureLeaves, Goto, OnlyMoves
  <2>6. QED
    BY <1>4, <2>1, <2>2, <2>3, <2>4, <2>5 DEF DoRehash
<1>5. CASE Walk(t)
  BY <1>5 DEF Walk, WalkTakesLock, WalkStarts, WalkLocksBucket, VisitBucket, EraseFromBucket,
     WalkUnlocksBucket, WalkPastLast, WalkReturns, Return, Goto, OnlyMoves
<1>6. CASE Clear(t)
  BY <1>6 DEF Clear, ClearTakesLock, ClearStarts, ClearLocksBucket, ClearResets, ClearResetsMask,
     ClearUnlocksBucket, ClearUnlocked, ClearReturns, Return, Goto, OnlyMoves
<1>7. CASE RehashFails(t)
  BY <1>7 DEF RehashFails, OnlyMoves
<1>8. QED
  BY <1>1, <1>2, <1>3, <1>4, <1>5, <1>6, <1>7 DEF Continue

\* Threads that call one at a time go on to do so.
LEMMA OneCallKept ==
  ASSUME Types, NEW t \in Threads, Alone(t), Call(t) \/ Continue(t) \/ RehashFails(t)
  PROVE  OneCall'
<1>1. pc \in [Threads -> Places] /\ OnlyMoves(t)
  BY Steps DEF Types
<1>2. \A u \in Threads \ {t} : pc'[u] = "idle"
  BY <1>1 DEF OnlyMoves, Alone
<1>3. QED
  BY <1>2 DEF OneCall

(***************************************************************************)
(* The invariant of a shard, whose threads do anything but clear() it at   *)
(* the same time.                                                          *)
(***************************************************************************)
THEOREM Invariant ==
  ASSUME TableAssumption, ReadersOnlyWalk, Concurrent
  PROVE  SafetySpec => []CInv
<1>1. Init => CInv
  BY InitKeeps
<1>2. CInv /\ [Next]_vars => CInv'
  BY StepKeeps, StutterKeeps DEF Next
<1>3. QED
  BY <1>1, <1>2, PTL DEF SafetySpec

(***************************************************************************)
(* Every variable of a shard keeps its type: in particular the six bits   *)
(* that count the readers of a lock never wrap around.                     *)
(***************************************************************************)
THEOREM Typed ==
  ASSUME TableAssumption, ReadersOnlyWalk, Concurrent
  PROVE  SafetySpec => []TypeOK
<1>1. CInv => TypeOK
  BY PropertiesFollow
<1>2. QED
  BY <1>1, Invariant, PTL

(***************************************************************************)
(* No two threads are on one bucket at a time, unless both only read it,   *)
(* also while the lock array appears and while a rehash moves the buckets.  *)
(***************************************************************************)
THEOREM BucketsAreExclusive ==
  ASSUME TableAssumption, ReadersOnlyWalk, Concurrent
  PROVE  SafetySpec => []BucketMutex
<1>1. CInv => BucketMutex
  BY PropertiesFollow
<1>2. QED
  BY <1>1, Invariant, PTL

(***************************************************************************)
(* A thread is only on a bucket that exists, with both halves of the array  *)
(* published, and never inserts in the static node.                         *)
(***************************************************************************)
THEOREM BucketsExist ==
  ASSUME TableAssumption, ReadersOnlyWalk, Concurrent
  PROVE  SafetySpec => []BucketExists
<1>1. CInv => BucketExists
  BY PropertiesFollow
<1>2. QED
  BY <1>1, Invariant, PTL

(***************************************************************************)
(* Every key is in the bucket its hash gives and in one array only.         *)
(***************************************************************************)
THEOREM KeysStayInPlace ==
  ASSUME TableAssumption, ReadersOnlyWalk, Concurrent
  PROVE  SafetySpec => []KeysInPlace
<1>1. CInv => KeysInPlace
  BY PropertiesFollow
<1>2. QED
  BY <1>1, Invariant, PTL

(***************************************************************************)
(* d_size is the number of keys but for the calls about to change it.       *)
(***************************************************************************)
THEOREM SizeIsExact ==
  ASSUME TableAssumption, ReadersOnlyWalk, Concurrent
  PROVE  SafetySpec => []SizeCounts
<1>1. CInv => SizeCounts
  BY PropertiesFollow
<1>2. QED
  BY <1>1, Invariant, PTL

(***************************************************************************)
(* When no thread is in a call, no lock is held and no rehash is on.        *)
(***************************************************************************)
THEOREM LocksAreReleased ==
  ASSUME TableAssumption, ReadersOnlyWalk, Concurrent
  PROVE  SafetySpec => []LocksReleased
<1>1. CInv => LocksReleased
  BY PropertiesFollow
<1>2. QED
  BY <1>1, Invariant, PTL

-----------------------------------------------------------------------------
(***************************************************************************)
(* A shard is a concurrent set: every step is one of ConcurrentSet, or     *)
(* none.                                                                   *)
(***************************************************************************)

\* The call of a thread with locals l, whose walk counts on the keys in st.
CallOf(l, st) ==
  CASE l.op \in Points -> [op |-> l.op, key |-> l.key, res |-> IF l.res = "threw" THEN "pending" ELSE l.res]
    [] l.op \in Walks  -> [op |-> l.op, seen |-> l.seen, steady |-> st, stop |-> l.stop]
    [] OTHER           -> [op |-> l.op]

Calls == [t \in Threads |-> AbstractCall(t)]

SameCall(m, l) ==
  /\ l.op = m.op
  /\ m.op \in Points => l.key = m.key /\ (l.res = m.res \/ {l.res, m.res} \subseteq {"pending", "threw"})
  /\ m.op \in Walks => l.seen = m.seen /\ l.stop = m.stop

LEMMA CallsOf == \A t \in Threads : AbstractCall(t) = CallOf(loc[t], steady[t])
BY DEF AbstractCall, CallOf

LEMMA CallsMove ==
  ASSUME Types, NEW t \in Threads, NEW p, NEW l, Move(t, p, l)
  PROVE  /\ Calls[t] = CallOf(loc[t], steady[t])
         /\ Calls' = [u \in Threads |-> IF u = t THEN CallOf(l, steady'[t]) ELSE CallOf(loc[u], steady'[u])]
<1>1. Calls[t] = CallOf(loc[t], steady[t])
  BY CallsOf DEF Calls
<1>2. \A u \in Threads : AbstractCall(u)' = CallOf(loc'[u], steady'[u])
  BY DEF AbstractCall, CallOf
<1>3. \A u \in Threads : AbstractCall(u)' = IF u = t THEN CallOf(l, steady'[t]) ELSE CallOf(loc[u], steady'[u])
  BY <1>2, OthersStay
<1>4. QED
  BY <1>1, <1>3 DEF Calls

\* A step of one thread that leaves the walks of the others alone.
LEMMA OneCallMoves ==
  ASSUME Types, NEW t \in Threads, NEW p, NEW l, Move(t, p, l), \A u \in Threads \ {t} : steady'[u] = steady[u]
  PROVE  /\ Calls[t] = CallOf(loc[t], steady[t])
         /\ Calls' = [Calls EXCEPT ![t] = CallOf(l, steady'[t])]
<1>1. Calls = [u \in Threads |-> CallOf(loc[u], steady[u])]
  BY CallsOf DEF Calls
<1>2. QED
  BY <1>1, CallsMove

LEMMA SameCalls ==
  ASSUME NEW m, NEW l, SameCall(m, l), NEW st
  PROVE  CallOf(l, st) = CallOf(m, st)
BY DEF SameCall, CallOf

\* A step that changes no key and no call.
LEMMA CallStays ==
  ASSUME Types, NEW t \in Threads, NEW p, NEW l, Move(t, p, l), UNCHANGED <<Contents, steady>>, SameCall(loc[t], l)
  PROVE  UNCHANGED Set!vars
<1>1. Calls = [u \in Threads |-> CallOf(loc[u], steady[u])]
  BY CallsOf DEF Calls
<1>2. CallOf(l, steady'[t]) = CallOf(loc[t], steady[t])
  BY SameCalls
<1>3. UNCHANGED Calls
  BY <1>1, <1>2, CallsMove
<1>4. QED
  BY <1>3 DEF Calls, Set!vars

LEMMA QuietCall ==
  ASSUME Types, NEW t \in Threads, NEW p, NEW l, Move(t, p, l), UNCHANGED <<arrays, steady>>, SameCall(loc[t], l)
  PROVE  UNCHANGED Set!vars
<1>1. Contents' = Contents
  BY DEF Contents, Content
<1>2. QED
  BY <1>1, CallStays

LEMMA GlobalLockStutters ==
  ASSUME TableAssumption, ReadersOnlyWalk, CInv, NEW t \in Threads, GlobalLock(t)
  PROVE  UNCHANGED Set!vars
<1> DEFINE m == loc[t]
           l == m
           p == "gn_global"
<1>1. m \in Locals /\ ControlOf(pc[t], m)
  BY LocalsOf DEF CInv
<1>2. Types /\ Control /\ Views
  BY DEF CInv
<1>3. Move(t, p, l)
  BY <1>2, GlobalLockMoves, Zenon
<1>4. UNCHANGED <<arrays, steady>>
  BY DEF GlobalLock, Goto, table
<1>5. SameCall(m, l)
  BY DEF SameCall
<1> HIDE DEF l, p
<1>6. QED
  BY <1>1, <1>2, <1>3, <1>4, <1>5, QuietCall

LEMMA TakeGlobalLockStutters ==
  ASSUME TableAssumption, ReadersOnlyWalk, CInv, NEW t \in Threads, TakeGlobalLock(t)
  PROVE  UNCHANGED Set!vars
<1> DEFINE m == loc[t]
           l == m
           p == "gn_again"
<1>1. m \in Locals /\ ControlOf(pc[t], m)
  BY LocalsOf DEF CInv
<1>2. Types /\ Control /\ Views
  BY DEF CInv
<1>3. Move(t, p, l)
  BY <1>2, TakeGlobalLockMoves, Zenon
<1>4. UNCHANGED <<arrays, steady>>
  BY DEF TakeGlobalLock, Goto, table
<1>5. SameCall(m, l)
  BY DEF SameCall
<1> HIDE DEF l, p
<1>6. QED
  BY <1>1, <1>2, <1>3, <1>4, <1>5, QuietCall

LEMMA GlobalLockStaleStutters ==
  ASSUME TableAssumption, ReadersOnlyWalk, CInv, NEW t \in Threads, GlobalLockStale(t)
  PROVE  UNCHANGED Set!vars
<1> DEFINE m == loc[t]
           l == [m EXCEPT !.wait = FALSE]
           p == "gn_mask"
<1>1. m \in Locals /\ ControlOf(pc[t], m)
  BY LocalsOf DEF CInv
<1>2. Types /\ Control /\ Views
  BY DEF CInv
<1>3. Move(t, p, l)
  BY <1>2, GlobalLockStaleMoves, Zenon
<1>4. UNCHANGED <<arrays, steady>>
  BY DEF GlobalLockStale, Goto, table
<1>5. SameCall(m, l)
  BY <1>1 DEF SameCall, Locals
<1> HIDE DEF l, p
<1>6. QED
  BY <1>1, <1>2, <1>3, <1>4, <1>5, QuietCall

LEMMA GlobalLockHeldStutters ==
  ASSUME TableAssumption, ReadersOnlyWalk, CInv, NEW t \in Threads, GlobalLockHeld(t)
  PROVE  UNCHANGED Set!vars
<1> DEFINE m == loc[t]
           l == [m EXCEPT !.lk = Rehash, !.pos = Bucket(m.key, dMask)]
           p == "crit"
<1>1. m \in Locals /\ ControlOf(pc[t], m)
  BY LocalsOf DEF CInv
<1>2. Types /\ Control /\ Views
  BY DEF CInv
<1>3. Move(t, p, l)
  BY <1>2, GlobalLockHeldMoves, Zenon
<1>4. UNCHANGED <<arrays, steady>>
  BY DEF GlobalLockHeld, Goto, table
<1>5. SameCall(m, l)
  BY <1>1 DEF SameCall, Locals
<1> HIDE DEF l, p
<1>6. QED
  BY <1>1, <1>2, <1>3, <1>4, <1>5, QuietCall

LEMMA LoadMaskStutters ==
  ASSUME TableAssumption, ReadersOnlyWalk, CInv, NEW t \in Threads, LoadMask(t)
  PROVE  UNCHANGED Set!vars
<1> DEFINE m == loc[t]
           l == [m EXCEPT !.hm = dMask, !.pos = Bucket(m.key, dMask)]
           p == "gn_lock"
<1>1. m \in Locals /\ ControlOf(pc[t], m)
  BY LocalsOf DEF CInv
<1>2. Types /\ Control /\ Views
  BY DEF CInv
<1>3. Move(t, p, l)
  BY <1>2, LoadMaskMoves, Zenon
<1>4. UNCHANGED <<arrays, steady>>
  BY DEF LoadMask, Goto, table
<1>5. SameCall(m, l)
  BY <1>1 DEF SameCall, Locals
<1> HIDE DEF l, p
<1>6. QED
  BY <1>1, <1>2, <1>3, <1>4, <1>5, QuietCall

LEMMA LockBucketStutters ==
  ASSUME TableAssumption, ReadersOnlyWalk, CInv, NEW t \in Threads, LockBucket(t)
  PROVE  UNCHANGED Set!vars
<1> DEFINE m == loc[t]
           l == [m EXCEPT !.lk = m.pos]
           p == "gn_check"
<1>1. m \in Locals /\ ControlOf(pc[t], m)
  BY LocalsOf DEF CInv
<1>2. Types /\ Control /\ Views
  BY DEF CInv
<1>3. Move(t, p, l)
  BY <1>2, LockBucketMoves, Zenon
<1>4. UNCHANGED <<arrays, steady>>
  BY DEF LockBucket, Goto, table
<1>5. SameCall(m, l)
  BY <1>1 DEF SameCall, Locals
<1> HIDE DEF l, p
<1>6. QED
  BY <1>1, <1>2, <1>3, <1>4, <1>5, QuietCall

LEMMA LockBucketSharedFirstStutters ==
  ASSUME TableAssumption, ReadersOnlyWalk, CInv, NEW t \in Threads, LockBucketSharedFirst(t)
  PROVE  UNCHANGED Set!vars
<1> DEFINE m == loc[t]
           l == [m EXCEPT !.lk = m.pos]
           p == IF Unlocked(m.pos) THEN "gn_check" ELSE "gn_shared"
<1>1. m \in Locals /\ ControlOf(pc[t], m)
  BY LocalsOf DEF CInv
<1>2. Types /\ Control /\ Views
  BY DEF CInv
<1>3. Move(t, p, l)
  BY <1>2, LockBucketSharedFirstMoves, Zenon
<1>4. UNCHANGED <<arrays, steady>>
  BY DEF LockBucketSharedFirst, Goto, table
<1>5. SameCall(m, l)
  BY <1>1 DEF SameCall, Locals
<1> HIDE DEF l, p
<1>6. QED
  BY <1>1, <1>2, <1>3, <1>4, <1>5, QuietCall

LEMMA LockBucketSharedStutters ==
  ASSUME TableAssumption, ReadersOnlyWalk, CInv, NEW t \in Threads, LockBucketShared(t)
  PROVE  UNCHANGED Set!vars
<1> DEFINE m == loc[t]
           l == m
           p == "gn_check"
<1>1. m \in Locals /\ ControlOf(pc[t], m)
  BY LocalsOf DEF CInv
<1>2. Types /\ Control /\ Views
  BY DEF CInv
<1>3. Move(t, p, l)
  BY <1>2, LockBucketSharedMoves, Zenon
<1>4. UNCHANGED <<arrays, steady>>
  BY DEF LockBucketShared, Goto, table
<1>5. SameCall(m, l)
  BY DEF SameCall
<1> HIDE DEF l, p
<1>6. QED
  BY <1>1, <1>2, <1>3, <1>4, <1>5, QuietCall

LEMMA CheckNodeStutters ==
  ASSUME TableAssumption, ReadersOnlyWalk, CInv, NEW t \in Threads, CheckNode(t)
  PROVE  UNCHANGED Set!vars
<1> DEFINE m == loc[t]
           l == m
           p == IF NodeIsCurrent(t) THEN "crit" ELSE "gn_update"
<1>1. m \in Locals /\ ControlOf(pc[t], m)
  BY LocalsOf DEF CInv
<1>2. Types /\ Control /\ Views
  BY DEF CInv
<1>3. Move(t, p, l)
  BY <1>2, CheckNodeMoves, Zenon
<1>4. UNCHANGED <<arrays, steady>>
  BY DEF CheckNode, Goto, table
<1>5. SameCall(m, l)
  BY DEF SameCall
<1> HIDE DEF l, p
<1>6. QED
  BY <1>1, <1>2, <1>3, <1>4, <1>5, QuietCall

LEMMA UpdateLockStutters ==
  ASSUME TableAssumption, ReadersOnlyWalk, CInv, NEW t \in Threads, UpdateLock(t)
  PROVE  UNCHANGED Set!vars
<1> DEFINE m == loc[t]
           l == [m EXCEPT !.hm = dMask, !.pos = Bucket(m.key, dMask)]
           p == IF Bucket(m.key, dMask) = m.pos THEN "gn_check" ELSE "gn_lock"
<1>1. m \in Locals /\ ControlOf(pc[t], m)
  BY LocalsOf DEF CInv
<1>2. Types /\ Control /\ Views
  BY DEF CInv
<1>3. Move(t, p, l)
  BY <1>2, UpdateLockMoves, Zenon
<1>4. UNCHANGED <<arrays, steady>>
  BY DEF UpdateLock, Goto, table
<1>5. SameCall(m, l)
  BY <1>1 DEF SameCall, Locals
<1> HIDE DEF l, p
<1>6. QED
  BY <1>1, <1>2, <1>3, <1>4, <1>5, QuietCall

LEMMA LoadLocksStutters ==
  ASSUME TableAssumption, ReadersOnlyWalk, CInv, NEW t \in Threads, LoadLocks(t)
  PROVE  UNCHANGED Set!vars
<1> DEFINE m == loc[t]
           l == m
           p == IF haveLocks THEN "gn_mask" ELSE "gn_wait"
<1>1. m \in Locals /\ ControlOf(pc[t], m)
  BY LocalsOf DEF CInv
<1>2. Types /\ Control /\ Views
  BY DEF CInv
<1>3. Move(t, p, l)
  BY <1>2, LoadLocksMoves, Zenon
<1>4. UNCHANGED <<arrays, steady>>
  BY DEF LoadLocks, Goto, table
<1>5. SameCall(m, l)
  BY DEF SameCall
<1> HIDE DEF l, p
<1>6. QED
  BY <1>1, <1>2, <1>3, <1>4, <1>5, QuietCall

LEMMA InsertLoadsSizeStutters ==
  ASSUME TableAssumption, ReadersOnlyWalk, CInv, NEW t \in Threads, InsertLoadsSize(t)
  PROVE  UNCHANGED Set!vars
<1> DEFINE m == loc[t]
           l == [m EXCEPT !.s = dSize]
           p == "ins_need"
<1>1. m \in Locals /\ ControlOf(pc[t], m)
  BY LocalsOf DEF CInv
<1>2. Types /\ Control /\ Views
  BY DEF CInv
<1>3. Move(t, p, l)
  BY <1>2, InsertLoadsSizeMoves, Zenon
<1>4. UNCHANGED <<arrays, steady>>
  BY DEF InsertLoadsSize, Goto, table
<1>5. SameCall(m, l)
  BY <1>1 DEF SameCall, Locals
<1> HIDE DEF l, p
<1>6. QED
  BY <1>1, <1>2, <1>3, <1>4, <1>5, QuietCall

LEMMA EnterRehashStutters ==
  ASSUME TableAssumption, ReadersOnlyWalk, CInv, NEW t \in Threads, EnterRehash(t)
  PROVE  UNCHANGED Set!vars
<1> DEFINE m == loc[t]
           l == IF inRehash THEN EndOfRehash(t) ELSE m
           p == IF inRehash THEN AfterRehash(t) ELSE "rh_lock"
<1>1. m \in Locals /\ ControlOf(pc[t], m)
  BY LocalsOf DEF CInv
<1>2. Types /\ Control /\ Views
  BY DEF CInv
<1>3. Move(t, p, l)
  BY <1>2, EnterRehashMoves, Zenon
<1>4. UNCHANGED <<arrays, steady>>
  BY DEF EnterRehash, Goto, table
<1>5. SameCall(m, l)
  BY <1>1 DEF EnterRehash, Goto, EndOfRehash, NoLocals, SameCall, Locals, ControlOf, Points, Walks, RehashPlaces, InRehash
<1> HIDE DEF l, p
<1>6. QED
  BY <1>1, <1>2, <1>3, <1>4, <1>5, QuietCall

LEMMA RehashTakesLockStutters ==
  ASSUME TableAssumption, ReadersOnlyWalk, CInv, NEW t \in Threads, RehashTakesLock(t)
  PROVE  UNCHANGED Set!vars
<1> DEFINE m == loc[t]
           l == m
           p == "rh_start"
<1>1. m \in Locals /\ ControlOf(pc[t], m)
  BY LocalsOf DEF CInv
<1>2. Types /\ Control /\ Views
  BY DEF CInv
<1>3. Move(t, p, l)
  BY <1>2, RehashTakesLockMoves, Zenon
<1>4. UNCHANGED <<arrays, steady>>
  BY DEF RehashTakesLock, Goto, table
<1>5. SameCall(m, l)
  BY DEF SameCall
<1> HIDE DEF l, p
<1>6. QED
  BY <1>1, <1>2, <1>3, <1>4, <1>5, QuietCall

LEMMA RehashNotNeededStutters ==
  ASSUME TableAssumption, ReadersOnlyWalk, CInv, NEW t \in Threads, RehashNotNeeded(t)
  PROVE  UNCHANGED Set!vars
<1> DEFINE m == loc[t]
           l == m
           p == "rh_release"
<1>1. m \in Locals /\ ControlOf(pc[t], m)
  BY LocalsOf DEF CInv
<1>2. Types /\ Control /\ Views
  BY DEF CInv
<1>3. Move(t, p, l)
  BY <1>2, RehashNotNeededMoves, Zenon
<1>4. UNCHANGED <<arrays, steady>>
  BY DEF RehashNotNeeded, Goto, table
<1>5. SameCall(m, l)
  BY DEF SameCall
<1> HIDE DEF l, p
<1>6. QED
  BY <1>1, <1>2, <1>3, <1>4, <1>5, QuietCall

LEMMA RehashLocksBucketStutters ==
  ASSUME TableAssumption, ReadersOnlyWalk, CInv, NEW t \in Threads, RehashLocksBucket(t)
  PROVE  UNCHANGED Set!vars
<1> DEFINE m == loc[t]
           l == m
           p == "rh_move"
<1>1. m \in Locals /\ ControlOf(pc[t], m)
  BY LocalsOf DEF CInv
<1>2. Types /\ Control /\ Views
  BY DEF CInv
<1>3. Move(t, p, l)
  BY <1>2, RehashLocksBucketMoves, Zenon
<1>4. UNCHANGED <<arrays, steady>>
  BY DEF RehashLocksBucket, Goto, table
<1>5. SameCall(m, l)
  BY DEF SameCall
<1> HIDE DEF l, p
<1>6. QED
  BY <1>1, <1>2, <1>3, <1>4, <1>5, QuietCall

LEMMA RehashStoresOneStutters ==
  ASSUME TableAssumption, ReadersOnlyWalk, CInv, NEW t \in Threads, RehashStoresOne(t)
  PROVE  UNCHANGED Set!vars
<1> DEFINE m == loc[t]
           l == [m EXCEPT !.old = dBuckets]
           p == "rh_store"
<1>1. m \in Locals /\ ControlOf(pc[t], m)
  BY LocalsOf DEF CInv
<1>2. Types /\ Control /\ Views
  BY DEF CInv
<1>3. Move(t, p, l)
  BY <1>2, RehashStoresOneMoves, Zenon
<1>4. UNCHANGED <<arrays, steady>>
  BY DEF RehashStoresOne, Goto, table
<1>5. SameCall(m, l)
  BY <1>1 DEF SameCall, Locals
<1> HIDE DEF l, p
<1>6. QED
  BY <1>1, <1>2, <1>3, <1>4, <1>5, QuietCall

LEMMA RehashStoresBothStutters ==
  ASSUME TableAssumption, ReadersOnlyWalk, CInv, NEW t \in Threads, RehashStoresBoth(t)
  PROVE  UNCHANGED Set!vars
<1> DEFINE m == loc[t]
           l == m
           p == "rh_mask"
<1>1. m \in Locals /\ ControlOf(pc[t], m)
  BY LocalsOf DEF CInv
<1>2. Types /\ Control /\ Views
  BY DEF CInv
<1>3. Move(t, p, l)
  BY <1>2, RehashStoresBothMoves, Zenon
<1>4. UNCHANGED <<arrays, steady>>
  BY DEF RehashStoresBoth, Goto, table
<1>5. SameCall(m, l)
  BY DEF SameCall
<1> HIDE DEF l, p
<1>6. QED
  BY <1>1, <1>2, <1>3, <1>4, <1>5, QuietCall

LEMMA RehashStoresMaskStutters ==
  ASSUME TableAssumption, ReadersOnlyWalk, CInv, NEW t \in Threads, RehashStoresMask(t)
  PROVE  UNCHANGED Set!vars
<1> DEFINE m == loc[t]
           l == [m EXCEPT !.i = 0, !.count = IF m.locks THEN HeldBuckets ELSE 0]
           p == "rh_unlock"
<1>1. m \in Locals /\ ControlOf(pc[t], m)
  BY LocalsOf DEF CInv
<1>2. Types /\ Control /\ Views
  BY DEF CInv
<1>3. Move(t, p, l)
  BY <1>2, RehashStoresMaskMoves, Zenon
<1>4. UNCHANGED <<arrays, steady>>
  BY DEF RehashStoresMask, Goto, table
<1>5. SameCall(m, l)
  BY <1>1 DEF SameCall, Locals
<1> HIDE DEF l, p
<1>6. QED
  BY <1>1, <1>2, <1>3, <1>4, <1>5, QuietCall

LEMMA RehashUnlocksBucketStutters ==
  ASSUME TableAssumption, ReadersOnlyWalk, CInv, NEW t \in Threads, RehashUnlocksBucket(t)
  PROVE  UNCHANGED Set!vars
<1> DEFINE m == loc[t]
           l == [m EXCEPT !.i = m.i + 1]
           p == "rh_unlock"
<1>1. m \in Locals /\ ControlOf(pc[t], m)
  BY LocalsOf DEF CInv
<1>2. Types /\ Control /\ Views
  BY DEF CInv
<1>3. Move(t, p, l)
  BY <1>2, RehashUnlocksBucketMoves, Zenon
<1>4. UNCHANGED <<arrays, steady>>
  BY DEF RehashUnlocksBucket, Goto, table
<1>5. SameCall(m, l)
  BY <1>1 DEF SameCall, Locals
<1> HIDE DEF l, p
<1>6. QED
  BY <1>1, <1>2, <1>3, <1>4, <1>5, QuietCall

LEMMA RehashDropsLockStutters ==
  ASSUME TableAssumption, ReadersOnlyWalk, CInv, NEW t \in Threads, RehashDropsLock(t)
  PROVE  UNCHANGED Set!vars
<1> DEFINE m == loc[t]
           l == m
           p == "rh_leave"
<1>1. m \in Locals /\ ControlOf(pc[t], m)
  BY LocalsOf DEF CInv
<1>2. Types /\ Control /\ Views
  BY DEF CInv
<1>3. Move(t, p, l)
  BY <1>2, RehashDropsLockMoves, Zenon
<1>4. UNCHANGED <<arrays, steady>>
  BY DEF RehashDropsLock, Goto, table
<1>5. SameCall(m, l)
  BY DEF SameCall
<1> HIDE DEF l, p
<1>6. QED
  BY <1>1, <1>2, <1>3, <1>4, <1>5, QuietCall

LEMMA LeaveRehashStutters ==
  ASSUME TableAssumption, ReadersOnlyWalk, CInv, NEW t \in Threads, LeaveRehash(t)
  PROVE  UNCHANGED Set!vars
<1> DEFINE m == loc[t]
           l == EndOfRehash(t)
           p == IF m.res = "threw" THEN "rh_return" ELSE AfterRehash(t)
<1>1. m \in Locals /\ ControlOf(pc[t], m)
  BY LocalsOf DEF CInv
<1>2. Types /\ Control /\ Views
  BY DEF CInv
<1>3. Move(t, p, l)
  BY <1>2, LeaveRehashMoves, Zenon
<1>4. UNCHANGED <<arrays, steady>>
  BY DEF LeaveRehash, Goto, table
<1>5. SameCall(m, l)
  BY <1>1 DEF LeaveRehash, Goto, EndOfRehash, NoLocals, SameCall, Locals, ControlOf, Points, Walks, RehashPlaces, InRehash
<1> HIDE DEF l, p
<1>6. QED
  BY <1>1, <1>2, <1>3, <1>4, <1>5, QuietCall

LEMMA FailureUnlocksBucketStutters ==
  ASSUME TableAssumption, ReadersOnlyWalk, CInv, NEW t \in Threads, FailureUnlocksBucket(t)
  PROVE  UNCHANGED Set!vars
<1> DEFINE m == loc[t]
           l == [m EXCEPT !.i = m.i + 1]
           p == "rh_unlock_failed"
<1>1. m \in Locals /\ ControlOf(pc[t], m)
  BY LocalsOf DEF CInv
<1>2. Types /\ Control /\ Views
  BY DEF CInv
<1>3. Move(t, p, l)
  BY <1>2, FailureUnlocksBucketMoves, Zenon
<1>4. UNCHANGED <<arrays, steady>>
  BY DEF FailureUnlocksBucket, Goto, table
<1>5. SameCall(m, l)
  BY <1>1 DEF SameCall, Locals
<1> HIDE DEF l, p
<1>6. QED
  BY <1>1, <1>2, <1>3, <1>4, <1>5, QuietCall

LEMMA FailureLeavesStutters ==
  ASSUME TableAssumption, ReadersOnlyWalk, CInv, NEW t \in Threads, FailureLeaves(t)
  PROVE  UNCHANGED Set!vars
<1> DEFINE m == loc[t]
           l == m
           p == "rh_release"
<1>1. m \in Locals /\ ControlOf(pc[t], m)
  BY LocalsOf DEF CInv
<1>2. Types /\ Control /\ Views
  BY DEF CInv
<1>3. Move(t, p, l)
  BY <1>2, FailureLeavesMoves, Zenon
<1>4. UNCHANGED <<arrays, steady>>
  BY DEF FailureLeaves, Goto, table
<1>5. SameCall(m, l)
  BY DEF SameCall
<1> HIDE DEF l, p
<1>6. QED
  BY <1>1, <1>2, <1>3, <1>4, <1>5, QuietCall

LEMMA WalkTakesLockStutters ==
  ASSUME TableAssumption, ReadersOnlyWalk, CInv, NEW t \in Threads, WalkTakesLock(t)
  PROVE  UNCHANGED Set!vars
<1> DEFINE m == loc[t]
           l == m
           p == "wk_start"
<1>1. m \in Locals /\ ControlOf(pc[t], m)
  BY LocalsOf DEF CInv
<1>2. Types /\ Control /\ Views
  BY DEF CInv
<1>3. Move(t, p, l)
  BY <1>2, WalkTakesLockMoves, Zenon
<1>4. UNCHANGED <<arrays, steady>>
  BY DEF WalkTakesLock, Goto, table
<1>5. SameCall(m, l)
  BY DEF SameCall
<1> HIDE DEF l, p
<1>6. QED
  BY <1>1, <1>2, <1>3, <1>4, <1>5, QuietCall

LEMMA WalkStartsStutters ==
  ASSUME TableAssumption, ReadersOnlyWalk, CInv, NEW t \in Threads, WalkStarts(t)
  PROVE  UNCHANGED Set!vars
<1> DEFINE m == loc[t]
           l == [m EXCEPT !.count = dMask + 1, !.locks = haveLocks]
           p == IF dBuckets = Static THEN "wk_release" ELSE "wk_bucket"
<1>1. m \in Locals /\ ControlOf(pc[t], m)
  BY LocalsOf DEF CInv
<1>2. Types /\ Control /\ Views
  BY DEF CInv
<1>3. Move(t, p, l)
  BY <1>2, WalkStartsMoves, Zenon
<1>4. UNCHANGED <<arrays, steady>>
  BY DEF WalkStarts, Goto, table
<1>5. SameCall(m, l)
  BY <1>1 DEF SameCall, Locals
<1> HIDE DEF l, p
<1>6. QED
  BY <1>1, <1>2, <1>3, <1>4, <1>5, QuietCall

LEMMA WalkLocksBucketStutters ==
  ASSUME TableAssumption, ReadersOnlyWalk, CInv, NEW t \in Threads, WalkLocksBucket(t)
  PROVE  UNCHANGED Set!vars
<1> DEFINE m == loc[t]
           l == m
           p == "wk_visit"
<1>1. m \in Locals /\ ControlOf(pc[t], m)
  BY LocalsOf DEF CInv
<1>2. Types /\ Control /\ Views
  BY DEF CInv
<1>3. Move(t, p, l)
  BY <1>2, WalkLocksBucketMoves, Zenon
<1>4. UNCHANGED <<arrays, steady>>
  BY DEF WalkLocksBucket, Goto, table
<1>5. SameCall(m, l)
  BY DEF SameCall
<1> HIDE DEF l, p
<1>6. QED
  BY <1>1, <1>2, <1>3, <1>4, <1>5, QuietCall

LEMMA WalkUnlocksBucketStutters ==
  ASSUME TableAssumption, ReadersOnlyWalk, CInv, NEW t \in Threads, WalkUnlocksBucket(t)
  PROVE  UNCHANGED Set!vars
<1> DEFINE m == loc[t]
           l == [m EXCEPT !.i = m.i + 1]
           p == IF m.stop THEN "wk_release" ELSE "wk_bucket"
<1>1. m \in Locals /\ ControlOf(pc[t], m)
  BY LocalsOf DEF CInv
<1>2. Types /\ Control /\ Views
  BY DEF CInv
<1>3. Move(t, p, l)
  BY <1>2, WalkUnlocksBucketMoves, Zenon
<1>4. UNCHANGED <<arrays, steady>>
  BY DEF WalkUnlocksBucket, Goto, table
<1>5. SameCall(m, l)
  BY <1>1 DEF SameCall, Locals
<1> HIDE DEF l, p
<1>6. QED
  BY <1>1, <1>2, <1>3, <1>4, <1>5, QuietCall

LEMMA WalkPastLastStutters ==
  ASSUME TableAssumption, ReadersOnlyWalk, CInv, NEW t \in Threads, WalkPastLast(t)
  PROVE  UNCHANGED Set!vars
<1> DEFINE m == loc[t]
           l == m
           p == "wk_release"
<1>1. m \in Locals /\ ControlOf(pc[t], m)
  BY LocalsOf DEF CInv
<1>2. Types /\ Control /\ Views
  BY DEF CInv
<1>3. Move(t, p, l)
  BY <1>2, WalkPastLastMoves, Zenon
<1>4. UNCHANGED <<arrays, steady>>
  BY DEF WalkPastLast, Goto, table
<1>5. SameCall(m, l)
  BY DEF SameCall
<1> HIDE DEF l, p
<1>6. QED
  BY <1>1, <1>2, <1>3, <1>4, <1>5, QuietCall

LEMMA ClearTakesLockStutters ==
  ASSUME TableAssumption, ReadersOnlyWalk, CInv, NEW t \in Threads, ClearTakesLock(t)
  PROVE  UNCHANGED Set!vars
<1> DEFINE m == loc[t]
           l == m
           p == "cl_start"
<1>1. m \in Locals /\ ControlOf(pc[t], m)
  BY LocalsOf DEF CInv
<1>2. Types /\ Control /\ Views
  BY DEF CInv
<1>3. Move(t, p, l)
  BY <1>2, ClearTakesLockMoves, Zenon
<1>4. UNCHANGED <<arrays, steady>>
  BY DEF ClearTakesLock, Goto, table
<1>5. SameCall(m, l)
  BY DEF SameCall
<1> HIDE DEF l, p
<1>6. QED
  BY <1>1, <1>2, <1>3, <1>4, <1>5, QuietCall

LEMMA ClearStartsStutters ==
  ASSUME TableAssumption, ReadersOnlyWalk, CInv, NEW t \in Threads, ClearStarts(t)
  PROVE  UNCHANGED Set!vars
<1> DEFINE m == loc[t]
           l == [m EXCEPT !.count = IF haveLocks THEN dMask + 1 ELSE 0, !.locks = haveLocks]
           p == IF dBuckets = Static THEN "cl_release" ELSE "cl_bucket"
<1>1. m \in Locals /\ ControlOf(pc[t], m)
  BY LocalsOf DEF CInv
<1>2. Types /\ Control /\ Views
  BY DEF CInv
<1>3. Move(t, p, l)
  BY <1>2, ClearStartsMoves, Zenon
<1>4. UNCHANGED <<arrays, steady>>
  BY DEF ClearStarts, Goto, table
<1>5. SameCall(m, l)
  BY <1>1 DEF SameCall, Locals
<1> HIDE DEF l, p
<1>6. QED
  BY <1>1, <1>2, <1>3, <1>4, <1>5, QuietCall

LEMMA ClearLocksBucketStutters ==
  ASSUME TableAssumption, ReadersOnlyWalk, CInv, NEW t \in Threads, ClearLocksBucket(t)
  PROVE  UNCHANGED Set!vars
<1> DEFINE m == loc[t]
           l == [m EXCEPT !.i = m.i + 1]
           p == "cl_bucket"
<1>1. m \in Locals /\ ControlOf(pc[t], m)
  BY LocalsOf DEF CInv
<1>2. Types /\ Control /\ Views
  BY DEF CInv
<1>3. Move(t, p, l)
  BY <1>2, ClearLocksBucketMoves, Zenon
<1>4. UNCHANGED <<arrays, steady>>
  BY DEF ClearLocksBucket, Goto, table
<1>5. SameCall(m, l)
  BY <1>1 DEF SameCall, Locals
<1> HIDE DEF l, p
<1>6. QED
  BY <1>1, <1>2, <1>3, <1>4, <1>5, QuietCall

LEMMA ClearResetsMaskStutters ==
  ASSUME TableAssumption, ReadersOnlyWalk, CInv, NEW t \in Threads, ClearResetsMask(t)
  PROVE  UNCHANGED Set!vars
<1> DEFINE m == loc[t]
           l == [m EXCEPT !.i = 0]
           p == "cl_unlock"
<1>1. m \in Locals /\ ControlOf(pc[t], m)
  BY LocalsOf DEF CInv
<1>2. Types /\ Control /\ Views
  BY DEF CInv
<1>3. Move(t, p, l)
  BY <1>2, ClearResetsMaskMoves, Zenon
<1>4. UNCHANGED <<arrays, steady>>
  BY DEF ClearResetsMask, Goto, table
<1>5. SameCall(m, l)
  BY <1>1 DEF SameCall, Locals
<1> HIDE DEF l, p
<1>6. QED
  BY <1>1, <1>2, <1>3, <1>4, <1>5, QuietCall

LEMMA ClearUnlocksBucketStutters ==
  ASSUME TableAssumption, ReadersOnlyWalk, CInv, NEW t \in Threads, ClearUnlocksBucket(t)
  PROVE  UNCHANGED Set!vars
<1> DEFINE m == loc[t]
           l == [m EXCEPT !.i = m.i + 1]
           p == "cl_unlock"
<1>1. m \in Locals /\ ControlOf(pc[t], m)
  BY LocalsOf DEF CInv
<1>2. Types /\ Control /\ Views
  BY DEF CInv
<1>3. Move(t, p, l)
  BY <1>2, ClearUnlocksBucketMoves, Zenon
<1>4. UNCHANGED <<arrays, steady>>
  BY DEF ClearUnlocksBucket, Goto, table
<1>5. SameCall(m, l)
  BY <1>1 DEF SameCall, Locals
<1> HIDE DEF l, p
<1>6. QED
  BY <1>1, <1>2, <1>3, <1>4, <1>5, QuietCall

LEMMA ClearUnlockedStutters ==
  ASSUME TableAssumption, ReadersOnlyWalk, CInv, NEW t \in Threads, ClearUnlocked(t)
  PROVE  UNCHANGED Set!vars
<1> DEFINE m == loc[t]
           l == m
           p == "cl_release"
<1>1. m \in Locals /\ ControlOf(pc[t], m)
  BY LocalsOf DEF CInv
<1>2. Types /\ Control /\ Views
  BY DEF CInv
<1>3. Move(t, p, l)
  BY <1>2, ClearUnlockedMoves, Zenon
<1>4. UNCHANGED <<arrays, steady>>
  BY DEF ClearUnlocked, Goto, table
<1>5. SameCall(m, l)
  BY DEF SameCall
<1> HIDE DEF l, p
<1>6. QED
  BY <1>1, <1>2, <1>3, <1>4, <1>5, QuietCall

-----------------------------------------------------------------------------
\* The steps of a rehash that change the arrays and no key.

LEMMA InsertMayRehashStutters ==
  ASSUME TableAssumption, ReadersOnlyWalk, CInv, NEW t \in Threads, InsertMayRehash(t)
  PROVE  UNCHANGED Set!vars
<1>1. PICK p \in {"rh_enter", "gn_locks"}, l \in Locals :
        Move(t, p, l) /\ l.op = "insert" /\ l.wait /\ l.key = loc[t].key /\ l.res = loc[t].res
  BY InsertMayRehashMoves DEF CInv
<1>2. pc[t] = "ins_need" /\ UNCHANGED <<arrays, steady>>
  BY DEF InsertMayRehash, Goto, table
<1>3. loc[t].op = "insert"
  BY <1>2, LocalsOf DEF CInv, ControlOf
<1>4. SameCall(loc[t], l)
  BY <1>1, <1>3 DEF SameCall, Walks
<1>5. Types
  BY DEF CInv
<1>6. QED
  BY <1>1, <1>2, <1>4, <1>5, QuietCall

LEMMA RehashAllocatesStutters ==
  ASSUME TableAssumption, ReadersOnlyWalk, CInv, NEW t \in Threads, RehashAllocates(t)
  PROVE  UNCHANGED Set!vars
<1> DEFINE m == loc[t]
<1>1. m \in Locals /\ ControlOf(pc[t], m) /\ pc[t] = "rh_start" /\ UNCHANGED steady
  BY LocalsOf DEF CInv, RehashAllocates, Goto
<1>2. Types /\ Control
  BY DEF CInv
<1>3. PICK a \in {b \in ArrayIds : ~Allocated(b)} :
        /\ arrays' = [arrays EXCEPT ![a] = Empty(m.target)]
        /\ Move(t, "rh_bucket", [m EXCEPT !.new = a, !.i = 0, !.locks = haveLocks, !.count = LockedBuckets])
  BY <1>2, RehashAllocatesMoves, Zenon
<1>4. PICK l : l = [m EXCEPT !.new = a, !.i = 0, !.locks = haveLocks, !.count = LockedBuckets]
  OBVIOUS
<1>5. Move(t, "rh_bucket", l)
  BY <1>3, <1>4
<1>6. SameCall(m, l)
  BY <1>1, <1>4 DEF SameCall, Locals
<1>7. Content(a) = {}
  <2>1. arrays[a].mask = -1
    BY TypesOfTable DEF Allocated
  <2>2. QED
    BY <2>1 DEF CInv, TableShape
<1>8. m.target \in -1 .. MaxMask
  <2>1. m.target \in 0 .. MaxMask /\ MaxMask \in Nat
    BY <1>1 DEF Locals, TableMasks, TableAssumption
  <2>2. QED
    BY <2>1
<1>9. Contents' = Contents
  BY <1>3, <1>7, <1>8, Emptied
<1>10. QED
  BY <1>1, <1>2, <1>5, <1>6, <1>9, CallStays

LEMMA RehashMovesBucketStutters ==
  ASSUME TableAssumption, ReadersOnlyWalk, CInv, NEW t \in Threads, RehashMovesBucket(t)
  PROVE  UNCHANGED Set!vars
<1> DEFINE m == loc[t]
<1>1. m \in Locals /\ ControlOf(pc[t], m) /\ RehashAt("rh_move", m) /\ pc[t] = "rh_move"
  BY LocalsOf DEF CInv, Views, View, Knows, RehashMovesBucket, Goto
<1>2. Types /\ Control /\ Views
  BY DEF CInv
<1>3. PICK l : l = [m EXCEPT !.i = m.i + 1] /\ Move(t, "rh_bucket", l)
  BY <1>2, RehashMovesBucketMoves, Zenon
<1>4. SameCall(m, l)
  BY <1>1, <1>3 DEF SameCall, Locals
<1>5. m.i \in Masks /\ m.target \in TableMasks /\ m.new \in ArrayIds \ {dBuckets} /\ arrays[m.new].mask = m.target
  BY <1>1, IndexTyped DEF Locals, ControlOf, Counts, RehashAt, Moves
<1>6. UNCHANGED steady /\ dBuckets \in ArrayIds
  BY <1>2, TableTyped DEF RehashMovesBucket, InBounds, Addresses
<1>7. PICK d \in ArrayIds, a \in ArrayIds, i \in Masks, g \in TableMasks :
        d = dBuckets /\ a = m.new /\ i = m.i /\ g = m.target /\ a # d
  BY <1>5, <1>6
<1>8. MovesKeys(d, a, i, g) /\ arrays[a].mask = g /\ a \in ArrayIds \ {d}
  BY <1>5, <1>7 DEF RehashMovesBucket, MovesKeys
<1>9. Contents' = Contents
  BY <1>8, BucketMoved
<1>10. Move(t, "rh_bucket", l)
  BY <1>3
<1>11. QED
  BY <1>2, <1>4, <1>6, <1>9, <1>10, CallStays

LEMMA RehashFreesOldStutters ==
  ASSUME TableAssumption, ReadersOnlyWalk, CInv, NEW t \in Threads, RehashFreesOld(t)
  PROVE  UNCHANGED Set!vars
<1> DEFINE m == loc[t]
<1>1. pc[t] = "rh_unlock" /\ UNCHANGED steady
      /\ arrays' = IF m.old = Static THEN arrays ELSE [arrays EXCEPT ![m.old] = Free]
  BY DEF RehashFreesOld, Goto
<1>2. Types /\ Control /\ Views
  BY DEF CInv
<1>3. m \in Locals /\ RehashAt("rh_unlock", m)
  BY <1>1, InsideRehash DEF Rehashes
<1>4. PICK l \in {m, [m EXCEPT !.res = "threw"]} : Move(t, "rh_release", l)
  <2>1. PICK l \in {m, [m EXCEPT !.res = "threw"]} : loc' = [loc EXCEPT ![t] = l]
    BY <1>2, FreesWithResult
  <2>2. QED
    BY <1>2, <2>1, RehashFreesOldMoves
<1>5. Contents' = Contents
  <2>1. CASE m.old = Static
    BY <1>1, <2>1 DEF Contents, Content
  <2>2. CASE m.old # Static
    <3>1. PICK o \in ArrayIds : o = m.old
      BY <1>3, <2>2 DEF Locals, Addresses
    <3>2. Content(o) = {}
      BY <1>3, <2>2, <3>1 DEF RehashAt, Stored
    <3>3. arrays' = [arrays EXCEPT ![o] = Empty(-1)] /\ -1 \in -1 .. MaxMask
      BY <1>1, <2>2, <3>1 DEF Free, TableAssumption
    <3>4. QED
      BY <3>2, <3>3, Emptied
  <2>3. QED
    BY <2>1, <2>2
<1>6. SameCall(m, l)
  <2>1. m.res = "pending"
    BY <1>1, <1>2 DEF Control, ControlOf
  <2>2. l.op = m.op /\ l.key = m.key /\ l.seen = m.seen /\ l.stop = m.stop
        /\ l.res \in {"pending", "threw"}
    BY <1>3, <1>4, <2>1 DEF Locals
  <2>3. QED
    BY <2>1, <2>2 DEF SameCall
<1>7. QED
  BY <1>1, <1>2, <1>4, <1>5, <1>6, CallStays

LEMMA RehashFailsStutters ==
  ASSUME TableAssumption, ReadersOnlyWalk, CInv, NEW t \in Threads, RehashFails(t)
  PROVE  UNCHANGED Set!vars
<1> DEFINE m == loc[t]
<1>1. ((pc[t] = "rh_bucket" /\ m.i = 0) \/ pc[t] = "rh_move") /\ UNCHANGED steady
  BY DEF RehashFails
<1>2. Types /\ Control /\ Views
  BY DEF CInv
<1>3. m \in Locals /\ ControlOf(pc[t], m) /\ Moves(m) /\ Settled
  BY <1>1, InsideRehash DEF Rehashes, RehashAt
<1>4. PICK l : /\ l = [m EXCEPT !.res = "threw", !.new = Static, !.count = IF m.locks THEN m.i + 1 ELSE 0, !.i = 0]
               /\ Move(t, "rh_unlock_failed", l)
  BY <1>2, RehashFailsMoves, Zenon
<1>5. l.res = "threw" /\ l.op = m.op /\ l.key = m.key /\ l.seen = m.seen /\ l.stop = m.stop
  BY <1>3, <1>4 DEF Locals
<1>6. m.res = "pending"
  BY <1>1, <1>3 DEF ControlOf
<1>7. SameCall(m, l)
  BY <1>5, <1>6 DEF SameCall
<1>8. PICK a \in ArrayIds, d \in Addresses : a = m.new /\ d = dBuckets /\ a # d
  BY <1>2, <1>3, TableTyped DEF Moves
<1>9. Contents' = Contents
  <2>1. CASE d = Static
    <3>1. m.i = 0
      BY <1>1, <1>3, <1>8, <2>1 DEF Moves, LockedBuckets, ControlOf, Locals, Counts
    <3>2. Content(a) = {}
      <4>1. SUFFICES ASSUME NEW k \in Content(a) PROVE FALSE
        OBVIOUS
      <4>2. k \in Keys /\ Bucket(k, dMask) < m.i
        BY <1>3, <1>8, KeyIsIn DEF Moves
      <4>3. Bucket(k, dMask) \in Nat
        BY <1>2, <4>2, BucketTyped, TableTyped
      <4>4. QED
        BY <3>1, <4>2, <4>3
    <3>3. arrays' = [arrays EXCEPT ![a] = Empty(-1)] /\ -1 \in -1 .. MaxMask
      BY <1>8, <2>1 DEF RehashFails, Free, TableAssumption
    <3>4. QED
      BY <3>2, <3>3, Emptied
  <2>2. CASE d # Static
    <3>1. d \in ArrayIds /\ arrays[d].mask = dMask
      BY <1>3, <1>8, <2>2 DEF Addresses, CInv, TableShape
    <3>2. MovesBack(d, a)
      BY <1>8, <2>2 DEF RehashFails, MovesBack, MovedBack
    <3>3. QED
      BY <1>8, <3>1, <3>2, BucketsRestored
  <2>3. QED
    BY <2>1, <2>2
<1>10. Move(t, "rh_unlock_failed", l)
  BY <1>4
<1>11. QED
  BY <1>1, <1>2, <1>7, <1>9, <1>10, CallStays

-----------------------------------------------------------------------------
\* The steps that are steps of the set.

LEMMA IdleCall ==
  ASSUME NEW st
  PROVE  CallOf(NoLocals, st) = [op |-> "none"]
<1>1. NoLocals.op = "none"
  BY DEF NoLocals
<1>2. QED
  BY <1>1 DEF CallOf, Points, Walks

\* What a walk counts on is all that other threads change of its call.
LEMMA LessSteady ==
  ASSUME NEW l, NEW st, NEW gone
  PROVE  CallOf(l, st \ gone) = IF CallOf(l, st).op \in Walks THEN [CallOf(l, st) EXCEPT !.steady = @ \ gone]
                                ELSE CallOf(l, st)
<1>1. CASE l.op \in Points
  BY <1>1 DEF CallOf, Points, Walks
<1>2. CASE l.op \in Walks
  BY <1>2 DEF CallOf, Points, Walks
<1>3. CASE l.op \notin Points \cup Walks
  BY <1>3 DEF CallOf
<1>4. QED
  BY <1>1, <1>2, <1>3

LEMMA NoWalk ==
  ASSUME NEW l, NEW st, NEW su, l.op \in Walks => st = su
  PROVE  CallOf(l, st) = CallOf(l, su)
BY DEF CallOf, Points, Walks

\* A step that takes the keys in gone from the table and moves one call.
LEMMA CallsLoseSteady ==
  ASSUME Types, NEW t \in Threads, NEW p, NEW l, Move(t, p, l), l.op = loc[t].op, NEW gone,
         \A s \in Threads : loc[s].op \in Walks => steady'[s] = steady[s] \ gone
  PROVE  Calls' = Set!Unsteady([Calls EXCEPT ![t] = CallOf(l, steady[t])], gone)
<1> DEFINE C == [Calls EXCEPT ![t] = CallOf(l, steady[t])]
           next(s) == IF s = t THEN l ELSE loc[s]
<1>1. /\ Calls' = [u \in Threads |-> IF u = t THEN CallOf(l, steady'[t]) ELSE CallOf(loc[u], steady'[u])]
      /\ Calls = [u \in Threads |-> CallOf(loc[u], steady[u])]
  BY CallsMove, CallsOf DEF Calls
<1>2. \A u \in Threads : C[u] = CallOf(next(u), steady[u]) /\ Calls'[u] = CallOf(next(u), steady'[u])
  BY <1>1
<1>3. \A u \in Threads : next(u).op \in Walks => steady'[u] = steady[u] \ gone
  OBVIOUS
<1> HIDE DEF C, next
<1>4. ASSUME NEW u \in Threads
      PROVE  Calls'[u] = IF C[u].op \in Walks THEN [C[u] EXCEPT !.steady = @ \ gone] ELSE C[u]
  <2>1. PICK c, d : c = next(u) /\ d = steady[u]
    OBVIOUS
  <2>2. CallOf(c, d \ gone) = IF CallOf(c, d).op \in Walks THEN [CallOf(c, d) EXCEPT !.steady = @ \ gone]
                              ELSE CallOf(c, d)
    BY LessSteady, Zenon
  <2>3. CallOf(next(u), steady'[u]) = CallOf(c, d \ gone)
    BY <1>3, <2>1, NoWalk, Zenon
  <2>4. QED
    BY <1>2, <2>1, <2>2, <2>3
<1>5. Calls' = [u \in Threads |-> IF C[u].op \in Walks THEN [C[u] EXCEPT !.steady = @ \ gone] ELSE C[u]]
  BY <1>1, <1>4
<1>6. QED
  BY <1>5 DEF Set!Unsteady, Set!WalkOps, Walks, C

\* A thread in a walk is at one of its places, and knows what it counts on.
LEMMA WalkPlace ==
  ASSUME CInv, NEW s \in Threads, loc[s].op \in Walks
  PROVE  pc[s] \in WalkPlaces /\ steady[s] \subseteq Contents
<1>1. pc[s] \in Places /\ ControlOf(pc[s], loc[s]) /\ WalkAt(pc[s], loc[s], steady[s])
  BY LocalsOf DEF CInv, Views, View, Knows
<1>2. pc[s] # "idle"
  BY <1>1 DEF ControlOf, NoLocals, Walks
<1>3. pc[s] \notin {"ins_size", "ins_need"} \cup NodePlaces \cup RehashPlaces \cup ClearPlaces
  BY <1>1 DEF ControlOf, Walks, Points
<1>4. pc[s] \in WalkPlaces
  BY <1>1, <1>2, <1>3 DEF Places
<1>5. QED
  BY <1>1, <1>4 DEF WalkAt

\* A call starts.
LEMMA CallStarts ==
  ASSUME TableAssumption, CInv, NEW t \in Threads, NEW p, NEW l, Move(t, p, l), pc[t] = "idle",
         \A u \in Threads \ {t} : steady'[u] = steady[u]
  PROVE  /\ Calls[t] = [op |-> "none"]
         /\ Calls' = [Calls EXCEPT ![t] = CallOf(l, steady'[t])]
<1>1. loc[t] = NoLocals
  BY LocalsOf DEF CInv, ControlOf
<1>2. QED
  BY <1>1, IdleCall, OneCallMoves DEF CInv

LEMMA CallPointInvokes ==
  ASSUME TableAssumption, ReadersOnlyWalk, CInv, NEW t \in Threads,
         NEW op \in Points, NEW k \in Keys, CallPoint(t, op, k)
  PROVE  Set!InvokePoint(t, op, k)
<1> DEFINE m == loc[t]
           l == [m EXCEPT !.op = op, !.key = k, !.wait = (op \in Inserts)]
           p == IF op \in Inserts THEN "ins_size" ELSE "gn_locks"
<1>1. pc[t] = "idle" /\ UNCHANGED <<arrays, steady>>
  BY DEF CallPoint, Goto, table
<1>2. Types /\ Control /\ Views /\ m \in Locals /\ m = NoLocals
  BY <1>1, LocalsOf DEF CInv, ControlOf
<1>3. Move(t, p, l)
  BY <1>2, CallPointMoves, Zenon
<1>4. l.op = op /\ l.key = k /\ l.res = "pending"
  BY <1>2 DEF Locals, NoLocals
<1> HIDE DEF l, p
<1>5. CallOf(l, steady'[t]) = [op |-> op, key |-> k, res |-> "pending"]
  BY <1>4 DEF CallOf, Points, Walks
<1>6. Calls[t] = [op |-> "none"] /\ Calls' = [Calls EXCEPT ![t] = [op |-> op, key |-> k, res |-> "pending"]]
  BY <1>1, <1>3, <1>5, CallStarts
<1>7. Contents' = Contents
  BY <1>1 DEF Contents, Content
<1>8. QED
  BY <1>6, <1>7 DEF Calls, Set!InvokePoint, Set!Idle, Set!Point

LEMMA CallWalkInvokes ==
  ASSUME TableAssumption, ReadersOnlyWalk, CInv, NEW t \in Threads, NEW op \in Walks, CallWalk(t, op)
  PROVE  Set!InvokeWalk(t, op)
<1> DEFINE m == loc[t]
           l == [m EXCEPT !.op = op]
<1>1. pc[t] = "idle" /\ UNCHANGED arrays /\ steady' = [steady EXCEPT ![t] = Contents]
  BY DEF CallWalk, Goto, table
<1>2. Types /\ Control /\ Views /\ m \in Locals /\ m = NoLocals
  BY <1>1, LocalsOf DEF CInv, ControlOf
<1>3. Move(t, "wk_lock", l)
  BY <1>2, CallWalkMoves, Zenon
<1>4. l.op = op /\ l.seen = {} /\ l.stop = FALSE
  BY <1>2 DEF Locals, NoLocals
<1> HIDE DEF l
<1>5. steady'[t] = Contents /\ \A u \in Threads \ {t} : steady'[u] = steady[u]
  BY <1>1, <1>2 DEF Types, TypeOK
<1>6. CallOf(l, steady'[t]) = [op |-> op, seen |-> {}, steady |-> Contents, stop |-> FALSE]
  BY <1>4, <1>5 DEF CallOf, Points, Walks
<1>7. /\ Calls[t] = [op |-> "none"]
      /\ Calls' = [Calls EXCEPT ![t] = [op |-> op, seen |-> {}, steady |-> Contents, stop |-> FALSE]]
  BY <1>1, <1>3, <1>5, <1>6, CallStarts
<1>8. Contents' = Contents
  BY <1>1 DEF Contents, Content
<1>9. QED
  BY <1>7, <1>8 DEF Calls, Set!InvokeWalk, Set!Idle, Set!Walk

LEMMA CallRehashInvokes ==
  ASSUME TableAssumption, ReadersOnlyWalk, CInv, NEW t \in Threads, NEW mask \in RehashMasks,
         CallRehash(t, mask)
  PROVE  Set!InvokeWhole(t, "rehash")
<1> DEFINE m == loc[t]
           l == [m EXCEPT !.op = "rehash", !.target = mask]
<1>1. pc[t] = "idle" /\ UNCHANGED <<arrays, steady>>
  BY DEF CallRehash, Goto, table
<1>2. Types /\ Control /\ Views /\ m \in Locals
  BY <1>1, LocalsOf DEF CInv
<1>3. Move(t, "rh_enter", l)
  BY <1>2, CallRehashMoves, Zenon
<1>4. l.op = "rehash"
  BY <1>2 DEF Locals
<1> HIDE DEF l
<1>5. CallOf(l, steady'[t]) = [op |-> "rehash"]
  BY <1>4 DEF CallOf, Points, Walks
<1>6. Calls[t] = [op |-> "none"] /\ Calls' = [Calls EXCEPT ![t] = [op |-> "rehash"]]
  BY <1>1, <1>3, <1>5, CallStarts
<1>7. Contents' = Contents
  BY <1>1 DEF Contents, Content
<1>8. QED
  BY <1>6, <1>7 DEF Calls, Set!InvokeWhole, Set!Idle, Set!Whole

LEMMA CallClearInvokes ==
  ASSUME TableAssumption, ReadersOnlyWalk, CInv, NEW t \in Threads, CallClear(t)
  PROVE  Set!InvokeWhole(t, "clear")
<1> DEFINE m == loc[t]
           l == [m EXCEPT !.op = "clear"]
<1>1. pc[t] = "idle" /\ UNCHANGED <<arrays, steady>>
  BY DEF CallClear, Goto, table
<1>2. Types /\ Control /\ Views /\ m \in Locals
  BY <1>1, LocalsOf DEF CInv
<1>3. Move(t, "cl_lock", l)
  BY <1>2, CallClearMoves, Zenon
<1>4. l.op = "clear"
  BY <1>2 DEF Locals
<1> HIDE DEF l
<1>5. CallOf(l, steady'[t]) = [op |-> "clear"]
  BY <1>4 DEF CallOf, Points, Walks
<1>6. Calls[t] = [op |-> "none"] /\ Calls' = [Calls EXCEPT ![t] = [op |-> "clear"]]
  BY <1>1, <1>3, <1>5, CallStarts
<1>7. Contents' = Contents
  BY <1>1 DEF Contents, Content
<1>8. QED
  BY <1>6, <1>7 DEF Calls, Set!InvokeWhole, Set!Idle, Set!Whole

\* A call on a key takes effect.
LEMMA CallApplies ==
  ASSUME TableAssumption, CInv, NEW t \in Threads, NEW p, NEW l, Move(t, p, l), loc[t].op \in Points,
         loc[t].res = "pending", l.op = loc[t].op, l.key = loc[t].key,
         l.res = IF loc[t].key \in Contents THEN "found" ELSE "absent",
         \/ /\ l.op = "insert"
            /\ Contents' = Contents \cup {l.key} /\ UNCHANGED steady
         \/ /\ l.op = "erase"
            /\ Contents' = Contents \ {l.key}
            /\ \A s \in Threads : loc[s].op \in Walks => steady'[s] = steady[s] \ {l.key}
         \/ /\ l.op \notin {"insert", "erase"}
            /\ UNCHANGED <<Contents, steady>>
  PROVE  Set!Apply(t)
<1> DEFINE k == loc[t].key
           r == IF k \in Contents THEN "found" ELSE "absent"
           done == [Calls EXCEPT ![t].res = r]
<1>1. Types /\ steady \in [Threads -> SUBSET Keys]
  BY DEF CInv, Types, TypeOK
<1>2. /\ Calls[t] = CallOf(loc[t], steady[t])
      /\ Calls' = [u \in Threads |-> IF u = t THEN CallOf(l, steady'[t]) ELSE CallOf(loc[u], steady'[u])]
      /\ Calls = [u \in Threads |-> CallOf(loc[u], steady[u])]
  BY <1>1, CallsMove, CallsOf DEF Calls
<1>3. Calls[t] = [op |-> l.op, key |-> k, res |-> "pending"]
  BY <1>2 DEF CallOf, Points, Walks
<1>4. CallOf(l, steady'[t]) = [op |-> l.op, key |-> k, res |-> r]
  BY DEF CallOf, Points, Walks
<1>5. done = [Calls EXCEPT ![t] = CallOf(l, steady'[t])]
  <2>1. PICK x : x = r
    OBVIOUS
  <2>2. [Calls[t] EXCEPT !.res = x] = [op |-> l.op, key |-> k, res |-> x]
    BY <1>3
  <2>3. [Calls[t] EXCEPT !.res = r] = CallOf(l, steady'[t])
    BY <1>4, <2>1, <2>2
  <2> HIDE DEF r, k
  <2>4. QED
    BY <1>2, <2>3
<1>6. Calls[t].op = l.op /\ Calls[t].key = k /\ Calls[t].res = "pending" /\ l.op \in Set!PointOps
  BY <1>3 DEF Points, Set!PointOps
<1>7. CASE l.op # "erase" /\ UNCHANGED steady
  <2>1. Calls' = done
    BY <1>2, <1>5, <1>7
  <2>2. \/ l.op = "insert" /\ Contents' = Contents \cup {k}
        \/ l.op \notin {"insert", "erase"} /\ UNCHANGED Contents
    BY <1>7
  <2>3. QED
    BY <1>6, <2>1, <2>2 DEF Set!Apply, Calls
<1>8. CASE /\ l.op = "erase" /\ Contents' = Contents \ {k}
           /\ \A s \in Threads : loc[s].op \in Walks => steady'[s] = steady[s] \ {k}
  <2>1. CallOf(l, steady'[t]) = CallOf(l, steady[t])
    BY <1>8 DEF CallOf, Points, Walks
  <2>2. done = [Calls EXCEPT ![t] = CallOf(l, steady[t])]
    BY <1>5, <2>1
  <2>3. Calls' = Set!Unsteady(done, {k})
    <3>1. Calls' = Set!Unsteady([Calls EXCEPT ![t] = CallOf(l, steady[t])], {k})
      BY <1>1, <1>8, CallsLoseSteady
    <3>2. QED
      BY <2>2, <3>1
  <2>4. QED
    BY <1>6, <1>8, <2>3 DEF Set!Apply, Calls
<1>9. QED
  BY <1>7, <1>8

\* A key is in the table if it is in the bucket that its thread has locked.
LEMMA KeyInBucket ==
  ASSUME TableAssumption, CInv, NEW t \in Threads, Concurrent \/ Alone(t), pc[t] = "crit", dBuckets # Static
  PROVE  loc[t].key \in Contents <=> loc[t].key \in Cell(t)
<1>1. /\ dBuckets \in ArrayIds /\ arrays[dBuckets].mask = dMask
      /\ loc[t].pos = Bucket(loc[t].key, dMask) /\ loc[t].pos \in Masks
      /\ \A a \in ArrayIds \ {dBuckets} : loc[t].key \notin Content(a)
  BY OnBucket
<1>2. loc[t].key \in Contents <=> loc[t].key \in Content(dBuckets)
  BY <1>1 DEF Contents
<1>3. loc[t].key \in Content(dBuckets) <=> loc[t].key \in Cell(t)
  BY <1>1, KeyIsIn DEF Content, Cell
<1>4. QED
  BY <1>2, <1>3

LEMMA FindInsertApplies ==
  ASSUME TableAssumption, ReadersOnlyWalk, CInv, NEW t \in Threads, Concurrent \/ Alone(t), FindInsert(t)
  PROVE  Set!Apply(t)
<1> DEFINE m == loc[t]
<1>1. pc[t] = "crit" /\ m.op = "insert" /\ dBuckets # Static /\ UNCHANGED steady
  BY DEF FindInsert, Goto, InBounds, Inserts
<1>2. /\ dBuckets \in ArrayIds /\ arrays[dBuckets].mask = dMask
      /\ m \in Locals /\ ControlOf(pc[t], m) /\ m.key \in Keys
      /\ m.pos = Bucket(m.key, dMask) /\ m.pos \in Masks
      /\ \A a \in ArrayIds \ {dBuckets} : m.key \notin Content(a)
  BY <1>1, OnBucket
<1>3. PICK d \in ArrayIds, i \in Masks, k \in Keys : d = dBuckets /\ i = m.pos /\ k = m.key
  BY <1>2
<1> DEFINE cell == arrays[d].cells[i]
<1>4. PICK l : /\ l = [m EXCEPT !.res = IF m.key \in Cell(t) THEN "found" ELSE "absent"]
               /\ Move(t, "fin", l)
  <2>1. Types /\ Control /\ Views
    BY DEF CInv
  <2>2. QED
    BY <2>1, FindInsertMoves, Zenon
<1>5. Move(t, "fin", l) /\ m.res = "pending"
  BY <1>1, <1>2, <1>4 DEF ControlOf
<1>6. l.op = m.op /\ l.key = m.key /\ l.res = IF m.key \in Cell(t) THEN "found" ELSE "absent"
  BY <1>2, <1>4 DEF Locals
<1>7. l.res = IF m.key \in Contents THEN "found" ELSE "absent"
  BY <1>1, <1>6, KeyInBucket
<1>8. Contents' = Contents \cup {k}
  <2>1. cell \subseteq Content(d) /\ cell \subseteq Contents
    BY DEF Contents, Content
  <2>2. cell \cup {k} \in SUBSET Keys /\ \A x \in cell \cup {k} : Bucket(x, arrays[d].mask) = i
    BY <1>2, <1>3, KeyIsIn
  <2>3. \A a \in ArrayIds \ {d} : (cell \cup {k}) \cap Content(a) = {}
    <3>1. \A a \in ArrayIds \ {d} : Content(d) \cap Content(a) = {}
      BY DEF CInv, KeysInPlace
    <3>2. QED
      BY <1>2, <1>3, <2>1, <3>1
  <2>4. SetsCell(d, i, cell \cup {k})
    BY <1>3 DEF FindInsert, SetsCell
  <2>5. Contents' = (Contents \ cell) \cup (cell \cup {k})
    BY <2>2, <2>3, <2>4, CellChanged
  <2>6. QED
    BY <2>1, <2>5
<1>9. m.op \in Points
  BY <1>1 DEF Points
<1>10. QED
  BY <1>1, <1>3, <1>5, <1>6, <1>7, <1>8, <1>9, CallApplies

LEMMA EraseKeyApplies ==
  ASSUME TableAssumption, ReadersOnlyWalk, CInv, NEW t \in Threads, Concurrent \/ Alone(t), EraseKey(t)
  PROVE  Set!Apply(t)
<1> DEFINE m == loc[t]
<1>1. /\ pc[t] = "crit" /\ m.op = "erase" /\ dBuckets # Static
      /\ steady' = [s \in Threads |-> steady[s] \ {m.key}]
  BY DEF EraseKey, Goto, InBounds, Unsteady
<1>2. /\ dBuckets \in ArrayIds /\ arrays[dBuckets].mask = dMask
      /\ m \in Locals /\ ControlOf(pc[t], m) /\ m.key \in Keys
      /\ m.pos = Bucket(m.key, dMask) /\ m.pos \in Masks
      /\ \A a \in ArrayIds \ {dBuckets} : m.key \notin Content(a)
  BY <1>1, OnBucket
<1>3. PICK d \in ArrayIds, i \in Masks, k \in Keys : d = dBuckets /\ i = m.pos /\ k = m.key
  BY <1>2
<1> DEFINE cell == arrays[d].cells[i]
<1>4. PICK l : /\ l = [m EXCEPT !.res = IF m.key \in Cell(t) THEN "found" ELSE "absent"]
               /\ Move(t, "fin", l)
  <2>1. Types /\ Control /\ Views
    BY DEF CInv
  <2>2. QED
    BY <2>1, EraseKeyMoves, Zenon
<1>5. Move(t, "fin", l) /\ m.res = "pending"
  BY <1>1, <1>2, <1>4 DEF ControlOf
<1>6. l.op = m.op /\ l.key = m.key /\ l.res = IF m.key \in Cell(t) THEN "found" ELSE "absent"
  BY <1>2, <1>4 DEF Locals
<1>7. l.res = IF m.key \in Contents THEN "found" ELSE "absent"
  BY <1>1, <1>6, KeyInBucket
<1>8. Contents' = Contents \ {k}
  <2>1. cell \subseteq Content(d) /\ cell \subseteq Contents
    BY DEF Contents, Content
  <2>2. cell \ {k} \in SUBSET Keys /\ \A x \in cell \ {k} : Bucket(x, arrays[d].mask) = i
    BY KeyIsIn
  <2>3. \A a \in ArrayIds \ {d} : (cell \ {k}) \cap Content(a) = {}
    <3>1. \A a \in ArrayIds \ {d} : Content(d) \cap Content(a) = {}
      BY DEF CInv, KeysInPlace
    <3>2. QED
      BY <2>1, <3>1
  <2>4. SetsCell(d, i, cell \ {k})
    BY <1>3 DEF EraseKey, SetsCell
  <2>5. Contents' = (Contents \ cell) \cup (cell \ {k})
    BY <2>2, <2>3, <2>4, CellChanged
  <2>6. k \in Contents => k \in cell
    BY <1>1, <1>3, KeyInBucket DEF Cell
  <2>7. QED
    BY <2>1, <2>5, <2>6
<1>9. m.op \in Points
  BY <1>1 DEF Points
<1>10. QED
  BY <1>1, <1>3, <1>5, <1>6, <1>7, <1>8, <1>9, CallApplies

LEMMA VisitHashApplies ==
  ASSUME TableAssumption, ReadersOnlyWalk, CInv, NEW t \in Threads, Concurrent \/ Alone(t), VisitHash(t)
  PROVE  Set!Apply(t)
<1> DEFINE m == loc[t]
<1>1. /\ pc[t] = "crit" /\ m.op \in {"visit", "cvisit"} /\ dBuckets # Static
      /\ UNCHANGED <<arrays, steady>>
  BY DEF VisitHash, Goto, InBounds, table
<1>2. m \in Locals /\ ControlOf(pc[t], m) /\ Types /\ Control /\ Views
  BY LocalsOf DEF CInv
<1>3. PICK l : /\ l = [m EXCEPT !.res = IF m.key \in Cell(t) THEN "found" ELSE "absent"]
               /\ Move(t, "fin", l)
  BY <1>2, VisitHashMoves, Zenon
<1>4. Move(t, "fin", l) /\ m.res = "pending" /\ m.op \in Points
  BY <1>1, <1>2, <1>3 DEF ControlOf, Points
<1>5. l.op = m.op /\ l.key = m.key /\ l.res = IF m.key \in Cell(t) THEN "found" ELSE "absent"
  BY <1>2, <1>3 DEF Locals
<1>6. l.res = IF m.key \in Contents THEN "found" ELSE "absent"
  BY <1>1, <1>5, KeyInBucket
<1>7. UNCHANGED <<Contents, steady>>
  BY <1>1 DEF Contents, Content
<1>8. QED
  BY <1>1, <1>4, <1>5, <1>6, <1>7, CallApplies

\* While the one static node is in use, there is no key anywhere.
LEMMA StaticNodeApplies ==
  ASSUME TableAssumption, ReadersOnlyWalk, CInv, NEW t \in Threads, Concurrent \/ Alone(t), StaticNode(t)
  PROVE  Set!Apply(t)
<1> DEFINE m == loc[t]
<1>1. /\ pc[t] = "crit" /\ m.op \in Points \ Inserts /\ dBuckets = Static
      /\ UNCHANGED <<arrays, steady>>
  BY DEF StaticNode, Goto, table
<1>2. /\ m \in Locals /\ ControlOf(pc[t], m) /\ Types /\ Control /\ Views /\ NodeAt(pc[t], m)
      /\ m.key \in Keys
  BY <1>1, LocalsOf DEF CInv, Views, View, Knows, ControlOf
<1>3. PICK l : l = [m EXCEPT !.res = "absent"] /\ Move(t, "fin", l)
  BY <1>2, StaticNodeMoves, Zenon
<1>4. Move(t, "fin", l) /\ m.res = "pending" /\ m.op \in Points
  BY <1>1, <1>2, <1>3 DEF ControlOf, Points
<1>5. l.op = m.op /\ l.key = m.key /\ l.res = "absent"
  BY <1>2, <1>3 DEF Locals
<1>6. m.key \notin Contents
  <2>1. SUFFICES ASSUME NEW a \in ArrayIds, m.key \in Content(a) PROVE FALSE
    BY DEF Contents
  <2>2. PICK u \in Threads : pc[u] \in {"rh_bucket", "rh_move", "rh_store"} /\ a = loc[u].new
    BY <1>1, <2>1 DEF CInv, TableShape, TableAssumption
  <2>3. u # t /\ Concurrent
    BY <1>1, <2>2 DEF Alone
  <2>4. ~haveLocks /\ m.lk = Rehash
    BY <1>1, <1>2, <2>3 DEF CInv, TableShape, NodeAt
  <2>5. Rehash \in Held(pc[t], m)
    BY <1>1, <2>4 DEF Held
  <2>6. QED
    BY <2>2, <2>3, <2>5, NobodyRehashes DEF Rehashes
<1>7. l.res = IF m.key \in Contents THEN "found" ELSE "absent"
  BY <1>5, <1>6
<1>8. UNCHANGED <<Contents, steady>>
  BY <1>1 DEF Contents, Content
<1>9. Contents' = Contents \ {l.key} /\ \A s \in Threads : loc[s].op \in Walks => steady'[s] = steady[s] \ {l.key}
  BY <1>5, <1>6, <1>8, WalkPlace
<1>10. l.op \notin {"insert", "erase"} \/ l.op = "erase"
  BY <1>1, <1>5 DEF Inserts
<1>11. QED
  BY <1>4, <1>5, <1>7, <1>8, <1>9, <1>10, CallApplies

\* A walk passes keys, and may erase some of them.
LEMMA CallWalksOver ==
  ASSUME TableAssumption, CInv, NEW t \in Threads, NEW p, NEW l, Move(t, p, l), loc[t].op \in Walks,
         ~loc[t].stop, NEW S \in SUBSET Contents, S \cap loc[t].seen = {},
         l.op = loc[t].op, l.seen = loc[t].seen \cup S,
         NEW gone \in SUBSET S, gone = {} \/ l.op = "erase_if",
         Contents' = Contents \ gone, \A s \in Threads : steady'[s] = steady[s] \ gone
  PROVE  Set!WalkOver(t, S, l.stop)
<1> DEFINE m == loc[t]
<1>1. Types
  BY DEF CInv
<1>2. Calls' = Set!Unsteady([Calls EXCEPT ![t] = CallOf(l, steady[t])], gone)
  BY <1>1, CallsLoseSteady
<1>3. Calls[t] = [op |-> m.op, seen |-> m.seen, steady |-> steady[t], stop |-> m.stop]
  <2>1. Calls[t] = CallOf(m, steady[t])
    BY CallsOf DEF Calls
  <2>2. QED
    BY <2>1 DEF CallOf, Points, Walks
<1>4. CallOf(l, steady[t]) = [op |-> m.op, seen |-> m.seen \cup S, steady |-> steady[t], stop |-> l.stop]
  BY DEF CallOf, Points, Walks
<1>5. [Calls EXCEPT ![t].seen = @ \cup S, ![t].stop = l.stop] = [Calls EXCEPT ![t] = CallOf(l, steady[t])]
  <2>1. [[Calls[t] EXCEPT !.seen = @ \cup S] EXCEPT !.stop = l.stop] = CallOf(l, steady[t])
    <3>1. PICK c, x, y : c = Calls[t] /\ x = m.seen \cup S /\ y = l.stop
      OBVIOUS
    <3>2. [c EXCEPT !.seen = x] = [op |-> m.op, seen |-> x, steady |-> steady[t], stop |-> m.stop]
      BY <1>3, <3>1
    <3>3. [[c EXCEPT !.seen = x] EXCEPT !.stop = y] = [op |-> m.op, seen |-> x, steady |-> steady[t], stop |-> y]
      <4>1. PICK e : e = [op |-> m.op, seen |-> x, steady |-> steady[t], stop |-> m.stop]
        OBVIOUS
      <4>2. [e EXCEPT !.stop = y] = [op |-> m.op, seen |-> x, steady |-> steady[t], stop |-> y]
        BY <4>1
      <4>3. QED
        BY <3>2, <4>1, <4>2
    <3>4. c.seen \cup S = x
      BY <1>3, <3>1
    <3>5. QED
      BY <1>4, <3>1, <3>3, <3>4
  <2>2. DOMAIN Calls = Threads
    BY DEF Calls
  <2>3. QED
    BY <2>1, <2>2
<1>6. Calls[t].op = m.op /\ Calls[t].seen = m.seen /\ ~Calls[t].stop /\ Calls[t].op \in Set!WalkOps
  BY <1>3 DEF Walks, Set!WalkOps
<1>7. gone \in {{}} \cup (IF Calls[t].op = "erase_if" THEN SUBSET S ELSE {})
  BY <1>6
<1>8. Calls' = Set!Unsteady([Calls EXCEPT ![t].seen = @ \cup S, ![t].stop = l.stop], gone)
  BY <1>2, <1>5
<1>9. QED
  BY <1>6, <1>7, <1>8 DEF Set!WalkOver, Calls

LEMMA VisitBucketWalksOver ==
  ASSUME TableAssumption, ReadersOnlyWalk, CInv, NEW t \in Threads, VisitBucket(t)
  PROVE  \E S \in SUBSET Keys, stop \in BOOLEAN : Set!WalkOver(t, S, stop)
<1> DEFINE m == loc[t]
<1>1. /\ pc[t] = "wk_visit" /\ m.op # "erase_if" /\ dBuckets # Static
      /\ UNCHANGED <<arrays, steady>>
  BY DEF VisitBucket, Goto, InBounds, table
<1>2. /\ m \in Locals /\ ControlOf(pc[t], m) /\ Rehash \in Held(pc[t], m)
      /\ WalkAt("wk_visit", m, steady[t]) /\ Types /\ Control
  BY <1>1, LocalsOf, RehashHeld DEF CInv, Views, View, Knows, WalkPlaces
<1>3. dBuckets \in ArrayIds /\ arrays[dBuckets].mask = dMask /\ Contents = Content(dBuckets)
  BY <1>1, <1>2, WholeTable
<1>4. m.i \in Masks /\ m.i \in Nat
  BY <1>1, <1>2, IndexTyped DEF ControlOf, Locals, Counts
<1>5. PICK stop \in BOOLEAN, S \in SUBSET arrays[dBuckets].cells[m.i] :
         Move(t, "wk_unlock", [m EXCEPT !.seen = m.seen \cup S, !.stop = stop])
  BY <1>2, VisitBucketMoves, ZenonT(30)
<1>6. PICK l : l = [m EXCEPT !.seen = m.seen \cup S, !.stop = stop]
  OBVIOUS
<1>7. Move(t, "wk_unlock", l) /\ l.op = m.op /\ l.seen = m.seen \cup S /\ l.stop = stop
  BY <1>2, <1>5, <1>6 DEF Locals
<1>8. S \in SUBSET Contents /\ S \in SUBSET Keys /\ \A k \in S : Bucket(k, dMask) = m.i
  BY <1>3, <1>4, KeyIsIn DEF Content
<1>9. S \cap m.seen = {}
  BY <1>2, <1>4, <1>8 DEF WalkAt
<1>10. m.op \in Walks /\ ~m.stop
  BY <1>1, <1>2 DEF ControlOf, WalkPlaces
<1>11. Contents' = Contents \ {} /\ \A s \in Threads : steady'[s] = steady[s] \ {}
  BY <1>1 DEF Contents, Content
<1>12. Set!WalkOver(t, S, l.stop)
  BY <1>7, <1>8, <1>9, <1>10, <1>11, CallWalksOver
<1>13. QED
  BY <1>7, <1>8, <1>12

LEMMA EraseFromBucketWalksOver ==
  ASSUME TableAssumption, ReadersOnlyWalk, CInv, NEW t \in Threads, EraseFromBucket(t)
  PROVE  \E S \in SUBSET Keys, stop \in BOOLEAN : Set!WalkOver(t, S, stop)
<1> DEFINE m == loc[t]
<1>1. pc[t] = "wk_visit" /\ m.op = "erase_if" /\ dBuckets # Static
  BY DEF EraseFromBucket, Goto, InBounds
<1>2. /\ m \in Locals /\ ControlOf(pc[t], m) /\ Rehash \in Held(pc[t], m)
      /\ WalkAt("wk_visit", m, steady[t]) /\ Types /\ Control /\ Views
  BY <1>1, LocalsOf, RehashHeld DEF CInv, Views, View, Knows, WalkPlaces
<1>3. dBuckets \in ArrayIds /\ arrays[dBuckets].mask = dMask /\ Contents = Content(dBuckets)
  BY <1>1, <1>2, WholeTable
<1>4. m.i \in Masks /\ m.i \in Nat
  BY <1>1, <1>2, IndexTyped DEF ControlOf, Locals, Counts
<1>5. PICK d \in ArrayIds, i \in Masks : d = dBuckets /\ i = m.i
  BY <1>3, <1>4
<1> DEFINE cell == arrays[d].cells[i]
<1>6. PICK gone \in SUBSET cell :
        SetsCell(d, i, cell \ gone) /\ steady' = [s \in Threads |-> steady[s] \ gone]
  <2>1. \E gone \in SUBSET arrays[dBuckets].cells[m.i] :
          /\ arrays' = [arrays EXCEPT ![dBuckets].cells[m.i] = @ \ gone]
          /\ Unsteady(gone)
    BY DEF EraseFromBucket
  <2>2. QED
    BY <1>5, <2>1 DEF SetsCell, Unsteady
<1>7. PICK l : l = [m EXCEPT !.seen = m.seen \cup arrays[dBuckets].cells[m.i]] /\ Move(t, "wk_unlock", l)
  BY <1>2, EraseFromBucketMoves, Zenon
<1>8. Move(t, "wk_unlock", l) /\ l.op = m.op /\ l.seen = m.seen \cup cell /\ l.stop = m.stop
  BY <1>2, <1>5, <1>7 DEF Locals
<1>9. cell \in SUBSET Contents /\ cell \in SUBSET Keys /\ \A k \in cell : Bucket(k, dMask) = i
  BY <1>3, <1>5, KeyIsIn DEF Content
<1>10. cell \cap m.seen = {}
  BY <1>2, <1>4, <1>5, <1>9 DEF WalkAt
<1>11. m.op \in Walks /\ ~m.stop /\ m.stop \in BOOLEAN
  BY <1>1, <1>2 DEF ControlOf, WalkPlaces, Locals
<1>12. Contents' = Contents \ gone
  <2>1. \A a \in ArrayIds \ {d} : Content(d) \cap Content(a) = {} /\ cell \subseteq Content(d)
    BY DEF CInv, KeysInPlace, Content
  <2>2. \A a \in ArrayIds \ {d} : (cell \ gone) \cap Content(a) = {}
    BY <2>1
  <2>3. cell \ gone \in SUBSET Keys /\ \A x \in cell \ gone : Bucket(x, arrays[d].mask) = i
    BY <1>3, <1>5, <1>9
  <2>4. Contents' = (Contents \ cell) \cup (cell \ gone)
    BY <1>6, <2>2, <2>3, CellChanged
  <2>5. QED
    BY <1>9, <2>4
<1>13. \A s \in Threads : steady'[s] = steady[s] \ gone
  BY <1>6
<1>14. Set!WalkOver(t, cell, l.stop)
  BY <1>1, <1>8, <1>9, <1>10, <1>11, <1>12, <1>13, CallWalksOver
<1>15. QED
  BY <1>8, <1>9, <1>11, <1>14

LEMMA ClearResetsWipes ==
  ASSUME TableAssumption, ReadersOnlyWalk, CInv, NEW t \in Threads, Concurrent \/ Alone(t), ClearResets(t)
  PROVE  Set!Wipe(t)
<1> DEFINE m == loc[t]
<1>1. /\ pc[t] = "cl_bucket" /\ steady' = [s \in Threads |-> steady[s] \ Content(dBuckets)]
      /\ arrays' = [arrays EXCEPT ![dBuckets] = Free]
  BY DEF ClearResets, Goto, Unsteady
<1>2. /\ m \in Locals /\ ControlOf(pc[t], m) /\ Alone(t) /\ dBuckets # Static
      /\ Types /\ Control /\ Views /\ Rehash \in Held(pc[t], m)
  BY <1>1, ClearAlone, RehashHeld DEF ClearPlaces, ClearAt, Clears, CInv
<1>3. PICK d \in ArrayIds : d = dBuckets
  BY <1>2, TableTyped DEF Addresses
<1>4. PICK l : l = m /\ Move(t, "cl_mask", l)
  BY <1>2, ClearResetsMoves
<1>5. \A a \in ArrayIds \ {d} : Content(a) = {}
  BY <1>1, <1>2, <1>3 DEF CInv, TableShape, Alone
<1>6. Contents = Content(d)
  BY <1>5 DEF Contents
<1>7. Contents' = {}
  <2>1. arrays' = [arrays EXCEPT ![d] = Empty(-1)] /\ -1 \in -1 .. MaxMask
    BY <1>1, <1>3 DEF Free, TableAssumption
  <2>2. Content(d)' = {} /\ \A b \in ArrayIds \ {d} : Content(b)' = Content(b)
    BY <2>1, Emptied
  <2>3. Contents' = UNION {Content(a)' : a \in ArrayIds}
    BY DEF Contents
  <2>4. QED
    BY <1>5, <2>2, <2>3
<1>8. m.op = "clear"
  BY <1>1, <1>2 DEF ControlOf, ClearPlaces
<1>9. Calls[t].op = "clear"
  BY <1>8, CallsOf DEF Calls, CallOf, Points, Walks
<1>10. Calls' = Set!Unsteady([Calls EXCEPT ![t] = CallOf(l, steady[t])], Contents)
  <2>1. \A s \in Threads : steady'[s] = steady[s] \ Contents
    BY <1>1, <1>3, <1>6
  <2>2. QED
    BY <1>2, <1>4, <2>1, CallsLoseSteady
<1>11. [Calls EXCEPT ![t] = CallOf(l, steady[t])] = Calls
  BY <1>4, CallsOf DEF Calls
<1>12. QED
  BY <1>7, <1>9, <1>10, <1>11 DEF Set!Wipe, Calls

\* A call ends.
LEMMA CallEnds ==
  ASSUME Types, NEW t \in Threads, Move(t, "idle", NoLocals), steady' = [steady EXCEPT ![t] = {}],
         UNCHANGED arrays
  PROVE  /\ Calls[t] = CallOf(loc[t], steady[t])
         /\ Calls' = [Calls EXCEPT ![t] = [op |-> "none"]]
         /\ Contents' = Contents
<1>1. \A u \in Threads \ {t} : steady'[u] = steady[u]
  BY DEF Types, TypeOK
<1>2. Contents' = Contents
  BY DEF Contents, Content
<1>3. CallOf(NoLocals, steady'[t]) = [op |-> "none"]
  BY IdleCall, Zenon
<1>4. QED
  BY <1>1, <1>2, <1>3, OneCallMoves

LEMMA FinishReturns ==
  ASSUME TableAssumption, ReadersOnlyWalk, CInv, NEW t \in Threads, Finish(t)
  PROVE  Set!Return(t)
<1> DEFINE m == loc[t]
<1>1. pc[t] = "fin" /\ UNCHANGED arrays /\ steady' = [steady EXCEPT ![t] = {}]
  BY DEF Finish, Return, Goto
<1>2. ControlOf(pc[t], m) /\ Types /\ Control /\ Views
  BY LocalsOf DEF CInv
<1>3. Move(t, "idle", NoLocals)
  BY <1>2, FinishMoves, Zenon
<1>4. m.op \in Points /\ m.res \in {"found", "absent"}
  BY <1>1, <1>2 DEF ControlOf, NodePlaces
<1>5. CallOf(m, steady[t]) = [op |-> m.op, key |-> m.key, res |-> m.res]
  BY <1>4 DEF CallOf, Points, Walks
<1>6. Calls[t] = [op |-> m.op, key |-> m.key, res |-> m.res]
      /\ Calls' = [Calls EXCEPT ![t] = [op |-> "none"]] /\ Contents' = Contents
  BY <1>1, <1>2, <1>3, <1>5, CallEnds
<1>7. Calls[t].op \in Points /\ Calls[t].res # "pending"
  BY <1>4, <1>6
<1>8. Calls[t] # [op |-> "none"] /\ Calls[t].op \notin Set!WalkOps
  BY <1>7 DEF Points, Set!WalkOps
<1>9. QED
  BY <1>6, <1>7, <1>8 DEF Set!Return, Set!Idle, Calls

LEMMA WalkReturnsReturns ==
  ASSUME TableAssumption, ReadersOnlyWalk, CInv, NEW t \in Threads, WalkReturns(t)
  PROVE  Set!Return(t)
<1> DEFINE m == loc[t]
<1>1. pc[t] = "wk_release" /\ UNCHANGED arrays /\ steady' = [steady EXCEPT ![t] = {}]
  BY DEF WalkReturns, Return, Goto, table
<1>2. ControlOf(pc[t], m) /\ Types /\ Control /\ Views /\ WalkAt(pc[t], m, steady[t])
  BY LocalsOf DEF CInv, Views, View, Knows
<1>3. Move(t, "idle", NoLocals)
  BY <1>2, WalkReturnsMoves, Zenon
<1>4. m.op \in Walks /\ (m.stop \/ steady[t] \subseteq m.seen)
  BY <1>1, <1>2 DEF ControlOf, WalkPlaces, WalkAt
<1>5. CallOf(m, steady[t]) = [op |-> m.op, seen |-> m.seen, steady |-> steady[t], stop |-> m.stop]
  BY <1>4 DEF CallOf, Points, Walks
<1>6. Calls[t] = [op |-> m.op, seen |-> m.seen, steady |-> steady[t], stop |-> m.stop]
      /\ Calls' = [Calls EXCEPT ![t] = [op |-> "none"]] /\ Contents' = Contents
  BY <1>1, <1>2, <1>3, <1>5, CallEnds
<1>7. Calls[t].op \in Walks /\ (~Calls[t].stop => Calls[t].steady \subseteq Calls[t].seen)
  BY <1>4, <1>6
<1>8. Calls[t] # [op |-> "none"] /\ Calls[t].op \notin Set!PointOps
  BY <1>7 DEF Walks, Set!PointOps
<1>9. QED
  BY <1>6, <1>7, <1>8 DEF Set!Return, Set!Idle, Calls

LEMMA ClearReturnsReturns ==
  ASSUME TableAssumption, ReadersOnlyWalk, CInv, NEW t \in Threads, ClearReturns(t)
  PROVE  Set!Return(t)
<1> DEFINE m == loc[t]
<1>1. pc[t] = "cl_release" /\ UNCHANGED arrays /\ steady' = [steady EXCEPT ![t] = {}]
  BY DEF ClearReturns, Return, Goto, table
<1>2. ControlOf(pc[t], m) /\ Types /\ Control /\ Views
  BY LocalsOf DEF CInv
<1>3. Move(t, "idle", NoLocals)
  BY <1>2, ClearReturnsMoves, Zenon
<1>4. m.op = "clear"
  BY <1>1, <1>2 DEF ControlOf, ClearPlaces
<1>5. CallOf(m, steady[t]) = [op |-> "clear"]
  BY <1>4 DEF CallOf, Points, Walks
<1>6. Calls[t] = [op |-> "clear"]
      /\ Calls' = [Calls EXCEPT ![t] = [op |-> "none"]] /\ Contents' = Contents
  BY <1>1, <1>2, <1>3, <1>5, CallEnds
<1>7. Calls[t].op \notin Set!PointOps \cup Set!WalkOps /\ Calls[t] # [op |-> "none"]
  BY <1>6 DEF Set!PointOps, Set!WalkOps
<1>8. QED
  BY <1>6, <1>7 DEF Set!Return, Set!Idle, Calls

\* A rehash that ends, and the insertion whose own rehash threw.
LEMMA ReturnFromRehashThrows ==
  ASSUME TableAssumption, ReadersOnlyWalk, CInv, NEW t \in Threads, ReturnFromRehash(t)
  PROVE  Set!Throw(t)
<1> DEFINE m == loc[t]
<1>1. pc[t] = "rh_return" /\ UNCHANGED arrays /\ steady' = [steady EXCEPT ![t] = {}]
  BY DEF ReturnFromRehash, Return, Goto, table
<1>2. ControlOf(pc[t], m) /\ Types /\ Control /\ Views
  BY LocalsOf DEF CInv
<1>3. Move(t, "idle", NoLocals)
  BY <1>2, ReturnFromRehashMoves, Zenon
<1>4. m.op = "rehash" \/ (m.op = "insert" /\ m.res = "threw")
  BY <1>1, <1>2 DEF ControlOf, RehashPlaces
<1>5. CallOf(m, steady[t]) = IF m.op = "rehash" THEN [op |-> "rehash"]
                             ELSE [op |-> "insert", key |-> m.key, res |-> "pending"]
  BY <1>4 DEF CallOf, Points, Walks
<1>6. Calls[t] = CallOf(m, steady[t])
      /\ Calls' = [Calls EXCEPT ![t] = [op |-> "none"]] /\ Contents' = Contents
  BY <1>1, <1>2, <1>3, CallEnds
<1>7. (Calls[t].op = "insert" /\ Calls[t].res = "pending") \/ Calls[t].op = "rehash"
  BY <1>4, <1>5, <1>6
<1>8. QED
  BY <1>6, <1>7 DEF Set!Throw, Set!Idle, Calls

-----------------------------------------------------------------------------
LEMMA InitRefines ==
  ASSUME Init
  PROVE  Set!Init
<1>1. \A a \in ArrayIds : Content(a) = {}
  BY DEF Init, Free, Empty, Content
<1>2. Contents = {}
  BY <1>1 DEF Contents
<1>3. \A t \in Threads : AbstractCall(t) = [op |-> "none"]
  BY CallsOf, IdleCall DEF Init
<1>4. QED
  BY <1>2, <1>3 DEF Set!Init, Set!Idle

\* The steps of a call that ConcurrentSet has, by the operations they belong to.
LEMMA CallRefines ==
  ASSUME TableAssumption, ReadersOnlyWalk, CInv, NEW t \in Threads, Call(t)
  PROVE  Set!Next
<1>1. ASSUME NEW op \in Points, NEW k \in Keys, CallPoint(t, op, k) PROVE Set!Next
  BY <1>1, CallPointInvokes DEF Set!Next, Set!PointOps, Points
<1>2. ASSUME NEW op \in Walks, CallWalk(t, op) PROVE Set!Next
  BY <1>2, CallWalkInvokes DEF Set!Next, Set!WalkOps, Walks
<1>3. ASSUME NEW mask \in RehashMasks, CallRehash(t, mask) PROVE Set!Next
  BY <1>3, CallRehashInvokes DEF Set!Next, Set!WholeOps
<1>4. ASSUME CallClear(t) PROVE Set!Next
  BY <1>4, CallClearInvokes DEF Set!Next, Set!WholeOps
<1>5. QED
  BY <1>1, <1>2, <1>3, <1>4 DEF Call

LEMMA SetSteps ==
  ASSUME NEW t \in Threads,
         \/ Set!Apply(t) \/ Set!Wipe(t) \/ Set!Return(t) \/ Set!Throw(t)
         \/ \E S \in SUBSET Keys, stop \in BOOLEAN : Set!WalkOver(t, S, stop)
  PROVE  Set!Next
BY DEF Set!Next

LEMMA StepRefines ==
  ASSUME TableAssumption, ReadersOnlyWalk, CInv, NEW t \in Threads, Concurrent \/ Alone(t),
         Call(t) \/ Continue(t) \/ RehashFails(t)
  PROVE  Set!Next \/ UNCHANGED Set!vars
<1>1. CASE Call(t)
  BY <1>1, CallRefines
<1>2. CASE GetNode(t)
  BY <1>2, LoadLocksStutters, GlobalLockStutters, TakeGlobalLockStutters, GlobalLockStaleStutters,
     GlobalLockHeldStutters, LoadMaskStutters, LockBucketStutters, LockBucketSharedFirstStutters,
     LockBucketSharedStutters, CheckNodeStutters, UpdateLockStutters DEF GetNode
<1>3. CASE OnNode(t)
  <2>1. Set!Apply(t) \/ Set!Return(t)
    BY <1>3, FindInsertApplies, EraseKeyApplies, VisitHashApplies, StaticNodeApplies, FinishReturns DEF OnNode
  <2>2. QED
    BY <2>1, SetSteps
<1>4. CASE DoRehash(t)
  <2>1. UNCHANGED Set!vars \/ ReturnFromRehash(t)
    BY <1>4, InsertLoadsSizeStutters, InsertMayRehashStutters, EnterRehashStutters, RehashTakesLockStutters,
       RehashNotNeededStutters, RehashAllocatesStutters, RehashLocksBucketStutters, RehashMovesBucketStutters,
       RehashStoresOneStutters, RehashStoresBothStutters, RehashStoresMaskStutters, RehashUnlocksBucketStutters,
       RehashFreesOldStutters, RehashDropsLockStutters, LeaveRehashStutters, FailureUnlocksBucketStutters,
       FailureLeavesStutters DEF DoRehash
  <2>2. QED
    BY <2>1, ReturnFromRehashThrows, SetSteps
<1>5. CASE Walk(t)
  <2>1. \/ UNCHANGED Set!vars \/ WalkReturns(t)
        \/ \E S \in SUBSET Keys, stop \in BOOLEAN : Set!WalkOver(t, S, stop)
    BY <1>5, WalkTakesLockStutters, WalkStartsStutters, WalkLocksBucketStutters, VisitBucketWalksOver,
       EraseFromBucketWalksOver, WalkUnlocksBucketStutters, WalkPastLastStutters DEF Walk
  <2>2. QED
    BY <2>1, WalkReturnsReturns, SetSteps
<1>6. CASE Clear(t)
  <2>1. UNCHANGED Set!vars \/ Set!Wipe(t) \/ Set!Return(t)
    BY <1>6, ClearTakesLockStutters, ClearStartsStutters, ClearLocksBucketStutters, ClearResetsWipes,
       ClearResetsMaskStutters, ClearUnlocksBucketStutters, ClearUnlockedStutters, ClearReturnsReturns DEF Clear
  <2>2. QED
    BY <2>1, SetSteps
<1>7. CASE RehashFails(t)
  BY <1>7, RehashFailsStutters
<1>8. QED
  BY <1>1, <1>2, <1>3, <1>4, <1>5, <1>6, <1>7 DEF Continue

LEMMA StutterRefines ==
  ASSUME UNCHANGED <<arrays, loc, steady>>
  PROVE  UNCHANGED Set!vars
<1>1. Contents' = Contents
  BY DEF Contents, Content
<1>2. \A t \in Threads : AbstractCall(t)' = AbstractCall(t)
  BY DEF AbstractCall
<1>3. QED
  BY <1>1, <1>2 DEF Set!vars

(***************************************************************************)
(* A shard is a concurrent set: a call on a key takes effect at the one    *)
(* instant at which it is on its bucket, whatever rehash is going on, and  *)
(* a walk passes every key that stays, none of them twice.                 *)
(***************************************************************************)
THEOREM Refinement ==
  ASSUME TableAssumption, ReadersOnlyWalk, Concurrent
  PROVE  SafetySpec => RefinesConcurrentSet
<1>1. Init => Set!Init
  BY InitRefines
<1>2. CInv /\ [Next]_vars => [Set!Next]_(Set!vars)
  <2>1. SUFFICES ASSUME CInv, [Next]_vars PROVE Set!Next \/ UNCHANGED Set!vars
    OBVIOUS
  <2>2. CASE Next
    BY <2>1, <2>2, StepRefines DEF Next
  <2>3. CASE UNCHANGED vars
    BY <2>3, StutterRefines DEF vars, table
  <2>4. QED
    BY <2>1, <2>2, <2>3
<1>3. QED
  BY <1>1, <1>2, Invariant, PTL DEF SafetySpec, RefinesConcurrentSet, Set!Spec
=============================================================================
