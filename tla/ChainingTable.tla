---------------------------- MODULE ChainingTable ----------------------------
(***************************************************************************)
(* ChainingHashTable of seq/internal/concurrent_hash_table.hpp: one shard  *)
(* of a concurrent_map, shared by threads.  A bucket is guarded by a lock  *)
(* of a lock array that outlives the bucket arrays; until that array is    *)
(* first made, at the first rehash to two buckets, d_rehash_lock guards    *)
(* the whole table.  A rehash locks the buckets one after the other while  *)
(* the other threads go on with those it has not reached.                  *)
(*                                                                         *)
(* A key is its own hash; a bucket with its chain is the set of its keys   *)
(* (module BucketChain has the nodes).  A lock is its word (module         *)
(* SharedSpinner has its steps), and a thread spinning on a lock, with or  *)
(* without the condition variable (module BucketLocks), simply waits.      *)
(***************************************************************************)
EXTENDS Integers, FiniteSets

CONSTANTS
  Threads,      \* the threads that use the table
  Keys,         \* the keys, which are their hash values
  MaxMask,      \* max_hash_mask: 2^n - 1
  NodeSize,     \* node_type::size * max_load_factor()
  Ops,          \* the operations the threads call
  RehashMasks,  \* the masks rehash(size) may compute
  ArrayIds,     \* addresses of bucket arrays; a freed one may come back
  Static,       \* get_static_node(), and nullptr for d_values
  Shared,       \* node_lock is shared_spinner<uint8_t>, spinlock otherwise
  Failures      \* the allocations of a rehash that may throw bad_alloc

\* A table has a power of two of buckets.
TableMasks == {m \in 0 .. MaxMask : \E n \in 0 .. m : m + 1 = 2 ^ n}

TableAssumption ==
  /\ IsFiniteSet(Threads)
  /\ Keys \subseteq Nat
  /\ MaxMask \in Nat
  /\ MaxMask \in TableMasks
  /\ NodeSize \in Nat \ {0}
  /\ RehashMasks \subseteq TableMasks
  /\ Static \notin ArrayIds
  /\ Shared \in BOOLEAN
  /\ Failures \subseteq {"values", "chain", "locks"}

VARIABLES
  arrays,       \* the bucket arrays, allocated or free
  dBuckets,     \* d_buckets: the array in use, or Static
  dValues,      \* d_values: that of the same array, or Static for nullptr
  dMask,        \* d_hash_mask
  dNextTarget,  \* d_next_target
  dSize,        \* d_size
  haveLocks,    \* d_locks # nullptr
  inRehash,     \* d_in_rehash
  lock,         \* the words of d_rehash_lock and of the bucket locks
  pc,           \* where each thread is
  loc,          \* its locals
  steady        \* the keys present since the thread's walk started (history)

table == <<arrays, dBuckets, dValues, dMask, dNextTarget, dSize, haveLocks>>
vars  == <<table, inRehash, lock, pc, loc, steady>>

Masks    == 0 .. MaxMask
Rehash   == -1                 \* the index of d_rehash_lock among the locks
Locks    == {Rehash} \cup Masks

Bucket(k, mask) == k % (mask + 1)                     \* hash & mask
Empty(mask)     == [mask |-> mask, cells |-> [b \in Masks |-> {}]]
Free            == Empty(-1)
Allocated(a)    == arrays[a].mask >= 0
Content(a)      == UNION {arrays[a].cells[b] : b \in Masks}
Contents        == UNION {Content(a) : a \in ArrayIds}

Inserts  == {"insert"}
Points   == {"insert", "erase", "visit", "cvisit"}
Walks    == {"visit_all", "cvisit_all", "erase_if"}
ReadOnly == {"cvisit", "cvisit_all"}

NoLocals ==
  [op |-> "none", key |-> 0, wait |-> FALSE, hm |-> 0, pos |-> 0, lk |-> Rehash,
   target |-> 0, grow |-> FALSE, s |-> 0, i |-> 0, count |-> 0, locks |-> FALSE,
   new |-> Static, old |-> Static, res |-> "pending", seen |-> {}, stop |-> FALSE]

Init ==
  /\ arrays = [a \in ArrayIds |-> Free]
  /\ dBuckets = Static
  /\ dValues = Static
  /\ dMask = 0
  /\ dNextTarget = 0
  /\ dSize = 0
  /\ haveLocks = FALSE
  /\ inRehash = FALSE
  /\ lock = [l \in Locks |-> [w |-> FALSE, r |-> 0]]
  /\ pc = [t \in Threads |-> "idle"]
  /\ loc = [t \in Threads |-> NoLocals]
  /\ steady = [t \in Threads |-> {}]

-----------------------------------------------------------------------------
(***************************************************************************)
(* Locks.  lock() and try_lock() need the whole word to be 0.  In the word *)
(* of a shared_spinner<uint8_t> the six reader bits sit above write and    *)
(* need_lock; the lock_shared and unlock_shared of a spinlock are its lock *)
(* and unlock.                                                             *)
(***************************************************************************)
Unlocked(l) == ~lock[l].w /\ lock[l].r = 0

TakeWrite(l) ==
  /\ Unlocked(l)
  /\ lock' = [lock EXCEPT ![l].w = TRUE]

TakeRead(l) ==
  IF Shared
  THEN /\ ~lock[l].w /\ lock[l].r < 32
       /\ lock' = [lock EXCEPT ![l].r = @ + 1]
  ELSE TakeWrite(l)

DropWrite(l) == lock' = [lock EXCEPT ![l].w = FALSE]

DropRead(l) ==
  IF Shared
  THEN lock' = [lock EXCEPT ![l].r = IF @ = 0 THEN 63 ELSE @ - 1]
  ELSE DropWrite(l)

Take(t, l) == IF loc[t].op \in ReadOnly THEN TakeRead(l) ELSE TakeWrite(l)
Drop(t, l) == IF loc[t].op \in ReadOnly THEN DropRead(l) ELSE DropWrite(l)

\* The lock of bucket i, in the loops that only lock when there is an array.
TakeIfArray(t, i) == IF loc[t].locks THEN Take(t, i) ELSE UNCHANGED lock
DropIfArray(t, i) == IF loc[t].locks THEN Drop(t, i) ELSE UNCHANGED lock

Goto(t, from, to) ==
  /\ pc[t] = from
  /\ pc' = [pc EXCEPT ![t] = to]

Return(t, from) ==
  /\ Goto(t, from, "idle")
  /\ loc' = [loc EXCEPT ![t] = NoLocals]
  /\ steady' = [steady EXCEPT ![t] = {}]

\* The walks of other threads can no longer count on the keys in gone.
Unsteady(gone) == steady' = [s \in Threads |-> steady[s] \ gone]

-----------------------------------------------------------------------------
(***************************************************************************)
(* get_node and get_node_shared: lock the bucket of the key, or the table. *)
(***************************************************************************)

\* AtomicLoad(d_locks) of the callers and the test of get_node.
LoadLocks(t) ==
  /\ Goto(t, "gn_locks", IF haveLocks THEN "gn_mask" ELSE "gn_wait")
  /\ UNCHANGED <<table, inRehash, lock, loc, steady>>

\* get_node_global_lock: an insertion first waits for a bucket array.
GlobalLock(t) ==
  /\ loc[t].wait => dBuckets # Static
  /\ Goto(t, "gn_wait", "gn_global")
  /\ UNCHANGED <<table, inRehash, lock, loc, steady>>

TakeGlobalLock(t) ==
  /\ Goto(t, "gn_global", "gn_again")
  /\ Take(t, Rehash)
  /\ UNCHANGED <<table, inRehash, loc, steady>>

\* The lock array appeared meanwhile: start over with it, without waiting.
GlobalLockStale(t) ==
  /\ haveLocks
  /\ Goto(t, "gn_again", "gn_mask")
  /\ loc' = [loc EXCEPT ![t].wait = FALSE]
  /\ Drop(t, Rehash)
  /\ UNCHANGED <<table, inRehash, steady>>

\* Mutant: the lock array is not looked for again.
GlobalLockKept(t) ==
  /\ Goto(t, "gn_again", "crit")
  /\ loc' = [loc EXCEPT ![t].lk = Rehash, ![t].pos = Bucket(loc[t].key, dMask)]
  /\ UNCHANGED <<table, inRehash, lock, steady>>

GlobalLockHeld(t) ==
  /\ ~haveLocks
  /\ Goto(t, "gn_again", "crit")
  /\ loc' = [loc EXCEPT ![t].lk = Rehash, ![t].pos = Bucket(loc[t].key, dMask)]
  /\ UNCHANGED <<table, inRehash, lock, steady>>

LoadMask(t) ==
  /\ Goto(t, "gn_mask", "gn_lock")
  /\ loc' = [loc EXCEPT ![t].hm = dMask, ![t].pos = Bucket(loc[t].key, dMask)]
  /\ UNCHANGED <<table, inRehash, lock, steady>>

\* lock(): the first try_lock() and those of the loop come to the same.
LockBucket(t) ==
  /\ loc[t].op \notin ReadOnly
  /\ Goto(t, "gn_lock", "gn_check")
  /\ TakeWrite(loc[t].pos)
  /\ loc' = [loc EXCEPT ![t].lk = loc[t].pos]
  /\ UNCHANGED <<table, inRehash, steady>>

\* lock_shared(): its first attempt is try_lock(), the loop try_lock_shared().
LockBucketSharedFirst(t) ==
  /\ loc[t].op \in ReadOnly
  /\ loc' = [loc EXCEPT ![t].lk = loc[t].pos]
  /\ IF Unlocked(loc[t].pos)
     THEN /\ Goto(t, "gn_lock", "gn_check")
          /\ TakeWrite(loc[t].pos)
     ELSE /\ Goto(t, "gn_lock", "gn_shared")
          /\ UNCHANGED lock
  /\ UNCHANGED <<table, inRehash, steady>>

LockBucketShared(t) ==
  /\ Goto(t, "gn_shared", "gn_check")
  /\ TakeRead(loc[t].pos)
  /\ UNCHANGED <<table, inRehash, loc, steady>>

NodeTakenAsIs(t) == TRUE                                              \* mutant

\* The loop of get_node: is the lock that of the key's bucket?
NodeIsCurrent(t) == loc[t].hm = dMask /\ (loc[t].wait => dBuckets # Static)

CheckNode(t) ==
  /\ Goto(t, "gn_check", IF NodeIsCurrent(t) THEN "crit" ELSE "gn_update")
  /\ UNCHANGED <<table, inRehash, lock, loc, steady>>

\* Mutant: the mask that was seen is not updated when the lock stays the same.
UpdateForgets(t) ==
  LET pos == Bucket(loc[t].key, dMask) IN
  IF pos = loc[t].pos
  THEN /\ Goto(t, "gn_update", "gn_check")
       /\ UNCHANGED <<table, inRehash, lock, loc, steady>>
  ELSE /\ Goto(t, "gn_update", "gn_lock")
       /\ loc' = [loc EXCEPT ![t].hm = dMask, ![t].pos = pos]
       /\ Drop(t, loc[t].lk)
       /\ UNCHANGED <<table, inRehash, steady>>

\* update_lock and update_lock_shared
UpdateLock(t) ==
  LET pos == Bucket(loc[t].key, dMask) IN
  /\ loc' = [loc EXCEPT ![t].hm = dMask, ![t].pos = pos]
  /\ IF pos = loc[t].pos
     THEN /\ Goto(t, "gn_update", "gn_check")
          /\ UNCHANGED lock
     ELSE /\ Goto(t, "gn_update", "gn_lock")
          /\ Drop(t, loc[t].lk)
  /\ UNCHANGED <<table, inRehash, steady>>

GetNode(t) ==
  \/ LoadLocks(t)
  \/ GlobalLock(t)
  \/ TakeGlobalLock(t)
  \/ GlobalLockStale(t)
  \/ GlobalLockHeld(t)
  \/ LoadMask(t)
  \/ LockBucket(t)
  \/ LockBucketSharedFirst(t)
  \/ LockBucketShared(t)
  \/ CheckNode(t)
  \/ UpdateLock(t)

-----------------------------------------------------------------------------
(***************************************************************************)
(* insert_policy, erase_key and visit_hash on the bucket that get_node     *)
(* gave them.                                                              *)
(***************************************************************************)
CallPoint(t, op, k) ==
  /\ op \in Ops \cap Points
  /\ Goto(t, "idle", IF op \in Inserts THEN "ins_size" ELSE "gn_locks")
  /\ loc' = [loc EXCEPT ![t].op = op, ![t].key = k, ![t].wait = (op \in Inserts)]
  /\ UNCHANGED <<table, inRehash, lock, steady>>

Cell(t)  == arrays[dBuckets].cells[loc[t].pos]

(***************************************************************************)
(* The bucket exists where the thread is about to use it: outside this the *)
(* program's behaviour is undefined, and the model has no step.            *)
(***************************************************************************)
InBounds(b) == /\ dBuckets # Static
               /\ dValues = dBuckets
               /\ b <= arrays[dBuckets].mask

FindInsert(t) ==
  LET k == loc[t].key IN
  /\ loc[t].op \in Inserts
  /\ InBounds(loc[t].pos)
  /\ Goto(t, "crit", "fin")
  /\ arrays' = [arrays EXCEPT ![dBuckets].cells[loc[t].pos] = @ \cup {k}]
  /\ loc' = [loc EXCEPT ![t].res = IF k \in Cell(t) THEN "found" ELSE "absent"]
  /\ UNCHANGED <<dBuckets, dValues, dMask, dNextTarget, dSize, haveLocks,
                 inRehash, lock, steady>>

EraseKey(t) ==
  LET k == loc[t].key IN
  /\ loc[t].op = "erase"
  /\ InBounds(loc[t].pos)
  /\ Goto(t, "crit", "fin")
  /\ arrays' = [arrays EXCEPT ![dBuckets].cells[loc[t].pos] = @ \ {k}]
  /\ loc' = [loc EXCEPT ![t].res = IF k \in Cell(t) THEN "found" ELSE "absent"]
  /\ Unsteady({k})
  /\ UNCHANGED <<dBuckets, dValues, dMask, dNextTarget, dSize, haveLocks,
                 inRehash, lock>>

VisitHash(t) ==
  /\ loc[t].op \in {"visit", "cvisit"}
  /\ InBounds(loc[t].pos)
  /\ Goto(t, "crit", "fin")
  /\ loc' = [loc EXCEPT ![t].res = IF loc[t].key \in Cell(t) THEN "found" ELSE "absent"]
  /\ UNCHANGED <<table, inRehash, lock, steady>>

\* A lookup or an erasure in the one static node, which is empty.
StaticNode(t) ==
  /\ loc[t].op \in Points \ Inserts
  /\ loc[t].op = "erase" \/ loc[t].pos = 0
  /\ dBuckets = Static
  /\ Goto(t, "crit", "fin")
  /\ loc' = [loc EXCEPT ![t].res = "absent"]
  /\ UNCHANGED <<table, inRehash, lock, steady>>

\* Mutant: an insertion counts although it found its key.
CountsFound(t) == CASE loc[t].op \in Inserts -> 1
                    [] loc[t].op = "erase" /\ loc[t].res = "found" -> -1
                    [] OTHER -> 0

SizeChange(t) == CASE loc[t].op \in Inserts /\ loc[t].res = "absent" -> 1
                   [] loc[t].op = "erase" /\ loc[t].res = "found" -> -1
                   [] OTHER -> 0

\* ++d_size or --d_size, then the lock is released and the call returns.
Finish(t) ==
  /\ Return(t, "fin")
  /\ dSize' = dSize + SizeChange(t)
  /\ Drop(t, loc[t].lk)
  /\ UNCHANGED <<arrays, dBuckets, dValues, dMask, dNextTarget, haveLocks, inRehash>>

OnNode(t) ==
  \/ FindInsert(t)
  \/ EraseKey(t)
  \/ VisitHash(t)
  \/ StaticNode(t)
  \/ Finish(t)

-----------------------------------------------------------------------------
(***************************************************************************)
(* rehash_on_insert, rehash and rehash_internal                            *)
(***************************************************************************)
InsertLoadsSize(t) ==
  /\ Goto(t, "ins_size", "ins_need")
  /\ loc' = [loc EXCEPT ![t].s = dSize]
  /\ UNCHANGED <<table, inRehash, lock, steady>>

(***************************************************************************)
(* The fields are read without a lock: in the code one after the other,    *)
(* here all but d_size at once.  chains: d_chain_count is over its         *)
(* threshold, which an insertion leaves to chance here.                    *)
(***************************************************************************)
InsertMayRehash(t) ==
  \E chains \in BOOLEAN :
    LET s    == loc[t].s
        need == /\ s >= dNextTarget
                /\ dBuckets = Static \/ chains
                /\ dMask < MaxMask
                /\ ~inRehash
    IN /\ Goto(t, "ins_need", IF need THEN "rh_enter" ELSE "gn_locks")
       /\ loc' = IF need
                 THEN [loc EXCEPT ![t].target = IF s = 0 THEN 0 ELSE 2 * (dMask + 1) - 1,
                                  ![t].grow = TRUE, ![t].s = 0]
                 ELSE [loc EXCEPT ![t].s = 0]
       /\ UNCHANGED <<table, inRehash, lock, steady>>

\* reserve(), max_load_factor(f) and rehash_table(n); a size of 0 always goes on.
CallRehash(t, mask) ==
  /\ "rehash" \in Ops
  /\ mask # dMask \/ mask = 0
  /\ Goto(t, "idle", "rh_enter")
  /\ loc' = [loc EXCEPT ![t].op = "rehash", ![t].target = mask]
  /\ UNCHANGED <<table, inRehash, lock, steady>>

AfterRehash(t) == IF loc[t].op \in Inserts THEN "gn_locks" ELSE "rh_return"

\* The locals of the rehash are gone; those of the insertion around it stay.
EndOfRehash(t) == [NoLocals EXCEPT !.op = loc[t].op, !.key = loc[t].key,
                                   !.wait = loc[t].wait, !.res = loc[t].res]

\* A rehash that finds another one running leaves it at that.
EnterRehash(t) ==
  /\ Goto(t, "rh_enter", IF inRehash THEN AfterRehash(t) ELSE "rh_lock")
  /\ inRehash' = TRUE
  /\ loc' = IF inRehash THEN [loc EXCEPT ![t] = EndOfRehash(t)] ELSE loc
  /\ UNCHANGED <<table, lock, steady>>

RehashTakesLock(t) ==
  /\ Goto(t, "rh_lock", "rh_start")
  /\ TakeWrite(Rehash)
  /\ UNCHANGED <<table, inRehash, loc, steady>>

AlreadyGrown(t) == loc[t].grow /\ loc[t].target <= dMask /\ dMask # 0

RehashNotNeeded(t) ==
  /\ AlreadyGrown(t)
  /\ Goto(t, "rh_start", "rh_release")
  /\ UNCHANGED <<table, inRehash, lock, loc, steady>>

\* How many bucket locks the loop takes, and how many the end gives back.
LockedBuckets == IF dBuckets # Static THEN dMask + 1 ELSE 0
HeldBuckets   == dMask + 1

RehashAllocates(t) ==
  /\ ~AlreadyGrown(t)
  /\ Goto(t, "rh_start", "rh_bucket")
  /\ \E a \in {b \in ArrayIds : ~Allocated(b)} :
       /\ arrays' = [arrays EXCEPT ![a] = Empty(loc[t].target)]
       /\ loc' = [loc EXCEPT ![t].new = a, ![t].i = 0, ![t].locks = haveLocks,
                             ![t].count = LockedBuckets]
  /\ UNCHANGED <<dBuckets, dValues, dMask, dNextTarget, dSize, haveLocks,
                 inRehash, lock, steady>>

RehashLocksBucket(t) ==
  /\ loc[t].i < loc[t].count
  /\ Goto(t, "rh_bucket", "rh_move")
  /\ TakeIfArray(t, loc[t].i)
  /\ UNCHANGED <<table, inRehash, loc, steady>>

\* Every value of the bucket goes to its new bucket; the lock is kept.
RehashMovesBucket(t) ==
  LET moved == arrays[dBuckets].cells[loc[t].i]
      new   == loc[t].new
  IN /\ Goto(t, "rh_move", "rh_bucket")
     /\ InBounds(loc[t].i)
     /\ arrays' = [arrays EXCEPT
          ![dBuckets].cells[loc[t].i] = {},
          ![new].cells = [b \in Masks |->
             @[b] \cup {k \in moved : Bucket(k, loc[t].target) = b}]]
     /\ loc' = [loc EXCEPT ![t].i = @ + 1]
     /\ UNCHANGED <<dBuckets, dValues, dMask, dNextTarget, dSize, haveLocks,
                    inRehash, lock, steady>>

(***************************************************************************)
(* The new array is published by plain stores.  Optimised builds make them *)
(* with d_buckets and d_values in either order and d_hash_mask last.       *)
(***************************************************************************)
RehashStoresOne(t) ==
  /\ loc[t].i = loc[t].count
  /\ Goto(t, "rh_bucket", "rh_store")
  /\ dNextTarget' = (loc[t].target + 1) * NodeSize
  /\ \/ dBuckets' = loc[t].new /\ UNCHANGED dValues
     \/ dValues' = loc[t].new /\ UNCHANGED dBuckets
  /\ loc' = [loc EXCEPT ![t].old = dBuckets]
  /\ UNCHANGED <<arrays, dMask, dSize, haveLocks, inRehash, lock, steady>>

RehashStoresBoth(t) ==
  /\ Goto(t, "rh_store", "rh_mask")
  /\ dBuckets' = loc[t].new
  /\ dValues' = loc[t].new
  /\ UNCHANGED <<arrays, dMask, dNextTarget, dSize, haveLocks, inRehash, lock, loc, steady>>

\* Mutant: the number of buckets for the mask.
RehashStoresCount(t) ==
  /\ Goto(t, "rh_mask", "rh_unlock")
  /\ dMask' = loc[t].target + 1
  /\ loc' = [loc EXCEPT ![t].i = 0, ![t].count = IF loc[t].locks THEN HeldBuckets ELSE 0]
  /\ UNCHANGED <<arrays, dBuckets, dValues, dNextTarget, dSize, haveLocks,
                 inRehash, lock, steady>>

RehashStoresMask(t) ==
  /\ Goto(t, "rh_mask", "rh_unlock")
  /\ dMask' = loc[t].target
  /\ loc' = [loc EXCEPT ![t].i = 0, ![t].count = IF loc[t].locks THEN HeldBuckets ELSE 0]
  /\ UNCHANGED <<arrays, dBuckets, dValues, dNextTarget, dSize, haveLocks,
                 inRehash, lock, steady>>

RehashUnlocksBucket(t) ==
  /\ pc[t] = "rh_unlock"
  /\ loc[t].i < loc[t].count
  /\ DropWrite(loc[t].i)
  /\ loc' = [loc EXCEPT ![t].i = @ + 1]
  /\ UNCHANGED <<table, inRehash, pc, steady>>

(***************************************************************************)
(* The old array is freed, and the lock array made when there is none yet: *)
(* if it cannot be, the table stays without one, and the call throws with  *)
(* the new buckets in place.                                               *)
(***************************************************************************)
RehashFreesOld(t) ==
  /\ loc[t].i = loc[t].count
  /\ Goto(t, "rh_unlock", "rh_release")
  /\ arrays' = IF loc[t].old = Static THEN arrays
               ELSE [arrays EXCEPT ![loc[t].old] = Free]
  /\ \/ /\ haveLocks' = (loc[t].locks \/ loc[t].target >= 1)
        /\ UNCHANGED loc
     \/ /\ "locks" \in Failures /\ ~loc[t].locks /\ loc[t].target >= 1
        /\ loc' = [loc EXCEPT ![t].res = "threw"]
        /\ UNCHANGED haveLocks
  /\ UNCHANGED <<dBuckets, dValues, dMask, dNextTarget, dSize, inRehash,
                 lock, steady>>

\* The destructors of ll and bl, in this order.
RehashDropsLock(t) ==
  /\ Goto(t, "rh_release", "rh_leave")
  /\ DropWrite(Rehash)
  /\ UNCHANGED <<table, inRehash, loc, steady>>

LeaveRehash(t) ==
  /\ Goto(t, "rh_leave", IF loc[t].res = "threw" THEN "rh_return" ELSE AfterRehash(t))
  /\ inRehash' = FALSE
  /\ loc' = [loc EXCEPT ![t] = EndOfRehash(t)]
  /\ UNCHANGED <<table, lock, steady>>

ReturnFromRehash(t) ==
  /\ Return(t, "rh_return")
  /\ UNCHANGED <<table, inRehash, lock>>

\* What was moved and goes to bucket b of the old array again.
MovedBackByTarget(t, b) ==                                            \* mutant
  {k \in Content(loc[t].new) : Bucket(k, loc[t].target) = b}
NotMovedBack(t, b) == {}                                              \* mutant

MovedBack(t, b) == {k \in Content(loc[t].new) : Bucket(k, dMask) = b}

(***************************************************************************)
(* bad_alloc: at the allocation of the values, before any bucket lock, or  *)
(* at that of a chained node while bucket i is moved.  What was moved goes *)
(* back, the new array is freed and the locks 0 .. i are released.         *)
(***************************************************************************)
RehashFails(t) ==
  /\ \/ "values" \in Failures /\ pc[t] = "rh_bucket" /\ loc[t].i = 0
     \/ "chain" \in Failures /\ pc[t] = "rh_move"
  /\ pc' = [pc EXCEPT ![t] = "rh_unlock_failed"]
  /\ arrays' = IF dBuckets = Static
               THEN [arrays EXCEPT ![loc[t].new] = Free]
               ELSE [arrays EXCEPT
                      ![loc[t].new] = Free,
                      ![dBuckets].cells = [b \in Masks |-> @[b] \cup MovedBack(t, b)]]
  /\ loc' = [loc EXCEPT ![t].res = "threw", ![t].new = Static,
                        ![t].count = IF loc[t].locks THEN loc[t].i + 1 ELSE 0, ![t].i = 0]
  /\ UNCHANGED <<dBuckets, dValues, dMask, dNextTarget, dSize, haveLocks,
                 inRehash, lock, steady>>

FailureUnlocksBucket(t) ==
  /\ loc[t].i < loc[t].count
  /\ pc[t] = "rh_unlock_failed"
  /\ DropWrite(loc[t].i)
  /\ loc' = [loc EXCEPT ![t].i = @ + 1]
  /\ UNCHANGED <<table, inRehash, pc, steady>>

\* Mutant: the last of the locks 0 .. i is kept.
FailureKeepsLast(t) ==
  /\ loc[t].i + 1 >= loc[t].count
  /\ Goto(t, "rh_unlock_failed", "rh_release")
  /\ UNCHANGED <<table, inRehash, lock, loc, steady>>

FailureLeaves(t) ==
  /\ loc[t].i = loc[t].count
  /\ Goto(t, "rh_unlock_failed", "rh_release")
  /\ UNCHANGED <<table, inRehash, lock, loc, steady>>

DoRehash(t) ==
  \/ InsertLoadsSize(t)
  \/ InsertMayRehash(t)
  \/ EnterRehash(t)
  \/ RehashTakesLock(t)
  \/ RehashNotNeeded(t)
  \/ RehashAllocates(t)
  \/ RehashLocksBucket(t)
  \/ RehashMovesBucket(t)
  \/ RehashStoresOne(t)
  \/ RehashStoresBoth(t)
  \/ RehashStoresMask(t)
  \/ RehashUnlocksBucket(t)
  \/ RehashFreesOld(t)
  \/ RehashDropsLock(t)
  \/ LeaveRehash(t)
  \/ ReturnFromRehash(t)
  \/ FailureUnlocksBucket(t)
  \/ FailureLeaves(t)

-----------------------------------------------------------------------------
(***************************************************************************)
(* visit_all and erase_if: d_rehash_lock for the whole walk, and under it  *)
(* one bucket lock after the other.                                        *)
(***************************************************************************)
CallWalk(t, op) ==
  /\ op \in Ops \cap Walks
  /\ Goto(t, "idle", "wk_lock")
  /\ loc' = [loc EXCEPT ![t].op = op]
  /\ steady' = [steady EXCEPT ![t] = Contents]
  /\ UNCHANGED <<table, inRehash, lock>>

WalkTakesLock(t) ==
  /\ Goto(t, "wk_lock", "wk_start")
  /\ IF loc[t].op = "erase_if" THEN TakeWrite(Rehash) ELSE TakeRead(Rehash)
  /\ UNCHANGED <<table, inRehash, loc, steady>>

WalkStarts(t) ==
  /\ Goto(t, "wk_start", IF dBuckets = Static THEN "wk_release" ELSE "wk_bucket")
  /\ loc' = [loc EXCEPT ![t].count = dMask + 1, ![t].locks = haveLocks]
  /\ UNCHANGED <<table, inRehash, lock, steady>>

WalkLocksBucket(t) ==
  /\ loc[t].i < loc[t].count
  /\ Goto(t, "wk_bucket", "wk_visit")
  /\ TakeIfArray(t, loc[t].i)
  /\ UNCHANGED <<table, inRehash, loc, steady>>

\* The functor may stop a visit after any value of the bucket.
VisitBucket(t) ==
  /\ loc[t].op # "erase_if"
  /\ InBounds(loc[t].i)
  /\ Goto(t, "wk_visit", "wk_unlock")
  /\ \E stop \in BOOLEAN, S \in SUBSET arrays[dBuckets].cells[loc[t].i] :
       /\ IF stop THEN S # {} ELSE S = arrays[dBuckets].cells[loc[t].i]
       /\ loc' = [loc EXCEPT ![t].seen = @ \cup S, ![t].stop = stop]
  /\ UNCHANGED <<table, inRehash, lock, steady>>

\* gone: the values the functor of erase_if returns true for.
EraseFromBucket(t) ==
  /\ loc[t].op = "erase_if"
  /\ InBounds(loc[t].i)
  /\ Goto(t, "wk_visit", "wk_unlock")
  /\ \E gone \in SUBSET arrays[dBuckets].cells[loc[t].i] :
       /\ arrays' = [arrays EXCEPT ![dBuckets].cells[loc[t].i] = @ \ gone]
       /\ dSize' = dSize - Cardinality(gone)
       /\ Unsteady(gone)
  /\ loc' = [loc EXCEPT ![t].seen = @ \cup arrays[dBuckets].cells[loc[t].i]]
  /\ UNCHANGED <<dBuckets, dValues, dMask, dNextTarget, haveLocks, inRehash, lock>>

WalkUnlocksBucket(t) ==
  /\ Goto(t, "wk_unlock", IF loc[t].stop THEN "wk_release" ELSE "wk_bucket")
  /\ DropIfArray(t, loc[t].i)
  /\ loc' = [loc EXCEPT ![t].i = @ + 1]
  /\ UNCHANGED <<table, inRehash, steady>>

WalkPastLast(t) ==
  /\ loc[t].i = loc[t].count
  /\ Goto(t, "wk_bucket", "wk_release")
  /\ UNCHANGED <<table, inRehash, lock, loc, steady>>

WalkReturns(t) ==
  /\ Return(t, "wk_release")
  /\ IF loc[t].op = "erase_if" THEN DropWrite(Rehash) ELSE DropRead(Rehash)
  /\ UNCHANGED <<table, inRehash>>

Walk(t) ==
  \/ WalkTakesLock(t)
  \/ WalkStarts(t)
  \/ WalkLocksBucket(t)
  \/ VisitBucket(t)
  \/ EraseFromBucket(t)
  \/ WalkUnlocksBucket(t)
  \/ WalkPastLast(t)
  \/ WalkReturns(t)

-----------------------------------------------------------------------------
(***************************************************************************)
(* clear and clear_no_lock: every bucket lock, then the static node again. *)
(***************************************************************************)
CallClear(t) ==
  /\ "clear" \in Ops
  /\ Goto(t, "idle", "cl_lock")
  /\ loc' = [loc EXCEPT ![t].op = "clear"]
  /\ UNCHANGED <<table, inRehash, lock, steady>>

ClearTakesLock(t) ==
  /\ Goto(t, "cl_lock", "cl_start")
  /\ TakeWrite(Rehash)
  /\ UNCHANGED <<table, inRehash, loc, steady>>

ClearStarts(t) ==
  /\ Goto(t, "cl_start", IF dBuckets = Static THEN "cl_release" ELSE "cl_bucket")
  /\ loc' = [loc EXCEPT ![t].count = IF haveLocks THEN dMask + 1 ELSE 0,
                        ![t].locks = haveLocks]
  /\ UNCHANGED <<table, inRehash, lock, steady>>

ClearLocksBucket(t) ==
  /\ pc[t] = "cl_bucket"
  /\ loc[t].i < loc[t].count
  /\ TakeIfArray(t, loc[t].i)
  /\ loc' = [loc EXCEPT ![t].i = @ + 1]
  /\ UNCHANGED <<table, inRehash, pc, steady>>

ClearResets(t) ==
  /\ loc[t].i = loc[t].count
  /\ Goto(t, "cl_bucket", "cl_mask")
  /\ Unsteady(Content(dBuckets))
  /\ arrays' = [arrays EXCEPT ![dBuckets] = Free]
  /\ dBuckets' = Static
  /\ dValues' = Static
  /\ dSize' = 0
  /\ dNextTarget' = 0
  /\ UNCHANGED <<dMask, haveLocks, inRehash, lock, loc>>

ClearResetsMask(t) ==
  /\ Goto(t, "cl_mask", "cl_unlock")
  /\ dMask' = 0
  /\ loc' = [loc EXCEPT ![t].i = 0]
  /\ UNCHANGED <<arrays, dBuckets, dValues, dNextTarget, dSize, haveLocks,
                 inRehash, lock, steady>>

ClearUnlocksBucket(t) ==
  /\ pc[t] = "cl_unlock"
  /\ loc[t].i < loc[t].count
  /\ DropIfArray(t, loc[t].i)
  /\ loc' = [loc EXCEPT ![t].i = @ + 1]
  /\ UNCHANGED <<table, inRehash, pc, steady>>

ClearUnlocked(t) ==
  /\ loc[t].i = loc[t].count
  /\ Goto(t, "cl_unlock", "cl_release")
  /\ UNCHANGED <<table, inRehash, lock, loc, steady>>

ClearReturns(t) ==
  /\ Return(t, "cl_release")
  /\ DropWrite(Rehash)
  /\ UNCHANGED <<table, inRehash>>

Clear(t) ==
  \/ ClearTakesLock(t)
  \/ ClearStarts(t)
  \/ ClearLocksBucket(t)
  \/ ClearResets(t)
  \/ ClearResetsMask(t)
  \/ ClearUnlocksBucket(t)
  \/ ClearUnlocked(t)
  \/ ClearReturns(t)

-----------------------------------------------------------------------------
Call(t) ==
  \/ \E op \in Points, k \in Keys : CallPoint(t, op, k)
  \/ \E op \in Walks : CallWalk(t, op)
  \/ \E mask \in RehashMasks : CallRehash(t, mask)
  \/ CallClear(t)

Continue(t) == GetNode(t) \/ OnNode(t) \/ DoRehash(t) \/ Walk(t) \/ Clear(t)

Next == \E t \in Threads : Call(t) \/ Continue(t) \/ RehashFails(t)

(***************************************************************************)
(* A thread inside a call keeps being scheduled; nobody has to start one,  *)
(* and no allocation has to fail.                                          *)
(***************************************************************************)
SafetySpec == Init /\ [][Next]_vars
Spec == SafetySpec /\ \A t \in Threads : WF_vars(Continue(t))
-----------------------------------------------------------------------------
\* Properties.

TypeOK ==
  /\ arrays \in [ArrayIds -> [mask : -1 .. MaxMask, cells : [Masks -> SUBSET Keys]]]
  /\ dBuckets \in {Static} \cup ArrayIds
  /\ dValues \in {Static} \cup ArrayIds
  /\ dMask \in Masks
  /\ dNextTarget \in Nat
  /\ dSize \in Int
  /\ haveLocks \in BOOLEAN
  /\ inRehash \in BOOLEAN
  /\ lock \in [Locks -> [w : BOOLEAN, r : 0 .. 63]]
  /\ DOMAIN pc = Threads
  /\ DOMAIN loc = Threads
  /\ steady \in [Threads -> SUBSET Keys]

Idle(t) == pc[t] = "idle"

\* The buckets of the array in use that the thread is about to read or write.
Uses(t) ==
  IF dBuckets = Static THEN {}
  ELSE CASE pc[t] = "crit" -> {loc[t].pos}
         [] pc[t] \in {"wk_visit", "rh_move"} -> {loc[t].i}
         [] pc[t] = "cl_bucket" /\ loc[t].i = loc[t].count -> 0 .. dMask
         [] OTHER -> {}

(***************************************************************************)
(* "The bucket lock is aquired in either read (const lookup) or write mode *)
(* (non const lookup, insert, erase)" (docs/concurrent_map.md:33): no two  *)
(* threads use one bucket at a time unless both only read, whichever of    *)
(* the two kinds of lock each of them relies on, and also while a rehash   *)
(* moves buckets or a thread still works with the mask of the old array.   *)
(***************************************************************************)
BucketMutex ==
  \A s, t \in Threads :
    s # t /\ Uses(s) \cap Uses(t) # {} =>
      loc[s].op \in ReadOnly /\ loc[t].op \in ReadOnly

(***************************************************************************)
(* A thread only uses a bucket that exists, in an array whose two halves   *)
(* are both published, and never inserts in the static node: the position  *)
(* it computed from one mask is not used with the array of another one.    *)
(***************************************************************************)
BucketExists ==
  /\ \A t \in Threads : \A b \in Uses(t) : InBounds(b)
  /\ \A t \in Threads : pc[t] = "crit" /\ loc[t].op \in Inserts => dBuckets # Static

(***************************************************************************)
(* Every key is in the bucket its hash gives for the array it is in, and   *)
(* in one array only, the old or the new one, whatever was inserted while  *)
(* a rehash was moving buckets.                                            *)
(***************************************************************************)
KeysInPlace ==
  /\ \A a \in ArrayIds : \A b \in Masks : \A k \in arrays[a].cells[b] :
       Bucket(k, arrays[a].mask) = b
  /\ \A a, b \in ArrayIds : a # b => Content(a) \cap Content(b) = {}

(***************************************************************************)
(* d_size is the number of keys, but for the insertions and erasures that  *)
(* have changed their bucket and not yet the counter.                      *)
(***************************************************************************)
Pending(op, res) ==
  Cardinality({t \in Threads : pc[t] = "fin" /\ loc[t].op = op /\ loc[t].res = res})

SizeCounts ==
  dSize + Pending("insert", "absent") - Pending("erase", "found") = Cardinality(Contents)

(***************************************************************************)
(* "The bucket lock is released at the end of operation"                   *)
(* (docs/concurrent_map.md:34): when no thread is in a call no lock is     *)
(* held, by its write bit or by a count of readers, and no rehash is said  *)
(* to be running.                                                          *)
(***************************************************************************)
LocksReleased ==
  (\A t \in Threads : Idle(t)) => ~inRehash /\ \A l \in Locks : Unlocked(l)

(***************************************************************************)
(* The table as a whole never comes to a stop, in a circle of threads that *)
(* wait for each other's locks, for d_rehash_lock or for a bucket array:   *)
(* as long as threads are in calls, calls return.                          *)
(***************************************************************************)
CallReturns == \E t \in Threads : ~Idle(t) /\ Idle(t)'
CallsReturn ==
  []<>(\A t \in Threads : Idle(t)) \/ []<><<CallReturns>>_vars

(***************************************************************************)
(* The table is a concurrent set: every call on a key takes effect at one  *)
(* instant, and a walk passes every key that stays, none of them twice.    *)
(***************************************************************************)
AbstractCall(t) ==
  LET l == loc[t] IN
  CASE l.op \in Points -> [op |-> l.op, key |-> l.key,
                           res |-> IF l.res = "threw" THEN "pending" ELSE l.res]
    [] l.op \in Walks  -> [op |-> l.op, seen |-> l.seen, steady |-> steady[t],
                           stop |-> l.stop]
    [] OTHER           -> [op |-> l.op]

Set == INSTANCE ConcurrentSet
         WITH contents <- Contents, call <- [t \in Threads |-> AbstractCall(t)]
RefinesConcurrentSet == Set!Spec
=============================================================================
