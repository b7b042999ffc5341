----------------------------- MODULE BucketLocks -----------------------------
(***************************************************************************)
(* The locks of the buckets, seq/internal/concurrent_hash_table.hpp:       *)
(* SharedLockArray, which makes its arrays of 1, 2, 4, ... locks when they *)
(* are first asked for and never moves them, and the wait for one of its   *)
(* locks, ChainingHashTable::lock(), which sleeps on a condition variable  *)
(* while a rehash runs.  ChainingTable takes both as given: a bucket has   *)
(* one lock, and a thread that waits for it gets to try again.             *)
(*                                                                         *)
(* A lock is its flag (modules Spinlock and SharedSpinner have its steps). *)
(***************************************************************************)
EXTENDS Integers, FiniteSets

CONSTANTS
  Threads,      \* the threads that use the table
  LastBucket,   \* the buckets are 0 .. LastBucket, and all of them are locked by a rehash
  Addresses,    \* addresses of arrays of locks; a freed one may come back
  Null

BucketLocksAssumption ==
  /\ LastBucket \in Nat
  /\ \E k \in 0 .. 31 : LastBucket + 1 = 2^k
  /\ IsFiniteSet(Addresses)
  /\ Null \notin Addresses \cup Threads

Buckets == 0 .. LastBucket

(***************************************************************************)
(* at(i): array bit_scan_reverse(i + 1), and the place i has in it.        *)
(***************************************************************************)
ArrayIndex(i) == CHOOSE a \in 0 .. i : 2^a <= i + 1 /\ i + 1 < 2^(a + 1)
InArray(i)    == i - (2^ArrayIndex(i) - 1)
LastArray     == ArrayIndex(LastBucket)
Place         == {p \in [ai : 0 .. LastArray, idx : 0 .. LastBucket] : p.idx < 2^p.ai}

At(i) == [ai |-> ArrayIndex(i), idx |-> InArray(i)]

\* Mutant: the iterator goes to the next array one lock late.
NextPlaceLate(p) == IF p.idx = 2^p.ai THEN [ai |-> p.ai + 1, idx |-> 0]
                    ELSE [p EXCEPT !.idx = @ + 1]

\* iterator::operator++
NextPlace(p) == IF p.idx + 1 = 2^p.ai THEN [ai |-> p.ai + 1, idx |-> 0]
                ELSE [p EXCEPT !.idx = @ + 1]

VARIABLES
  arrays,       \* SharedLockArray::arrays
  size,         \* the number of locks at each address, 0 when it is free
  taken,        \* the locks that are taken, as pairs of an address and an index
  inRehash,     \* d_in_rehash
  mutex,        \* d_rehash_mutex: its owner or Null
  pc,           \* where each thread is
  loc           \* its locals

vars == <<arrays, size, taken, inRehash, mutex, pc, loc>>

(***************************************************************************)
(* place: where the thread looks for the lock of bucket i; own: the array  *)
(* it has made and not yet published; l: the lock it has found.            *)
(***************************************************************************)
NoLocals == [i |-> 0, place |-> At(0), own |-> Null, l |-> <<Null, 0>>, rehash |-> FALSE]

Init ==
  /\ arrays = [a \in 0 .. LastArray |-> Null]
  /\ size = [m \in Addresses |-> 0]
  /\ taken = {}
  /\ inRehash = FALSE
  /\ mutex = Null
  /\ pc = [t \in Threads |-> "idle"]
  /\ loc = [t \in Threads |-> NoLocals]

Goto(t, from, to) ==
  /\ pc[t] = from
  /\ pc' = [pc EXCEPT ![t] = to]

-----------------------------------------------------------------------------
(***************************************************************************)
(* at() and iterator::operator*, which make the array when there is none.  *)
(***************************************************************************)
CallLock(t, i) ==
  /\ Goto(t, "idle", "at")
  /\ loc' = [loc EXCEPT ![t].i = i, ![t].place = At(i)]
  /\ UNCHANGED <<arrays, size, taken, inRehash, mutex>>

Found(t) == IF loc[t].rehash THEN "rh_lock" ELSE "try"

\* The load of at(), and that of make_array() behind it.
LoadArray(t) ==
  LET p == loc[t].place IN
  /\ pc[t] \in {"at", "make"}
  /\ IF arrays[p.ai] = Null
     THEN /\ pc' = [pc EXCEPT ![t] = IF @ = "at" THEN "make" ELSE "alloc"]
          /\ UNCHANGED loc
     ELSE /\ pc' = [pc EXCEPT ![t] = Found(t)]
          /\ loc' = [loc EXCEPT ![t].l = <<arrays[p.ai], p.idx>>]
  /\ UNCHANGED <<arrays, size, taken, inRehash, mutex>>

AllocateArray(t) ==
  /\ Goto(t, "alloc", "publish")
  /\ \E m \in {n \in Addresses : size[n] = 0} :
       /\ size' = [size EXCEPT ![m] = 2^loc[t].place.ai]
       /\ loc' = [loc EXCEPT ![t].own = m]
  /\ UNCHANGED <<arrays, taken, inRehash, mutex>>

\* Mutant: the array is published by a store.
StoreArray(t) ==
  LET p == loc[t].place IN
  /\ Goto(t, "publish", Found(t))
  /\ arrays' = [arrays EXCEPT ![p.ai] = loc[t].own]
  /\ loc' = [loc EXCEPT ![t].own = Null, ![t].l = <<loc[t].own, p.idx>>]
  /\ UNCHANGED <<size, taken, inRehash, mutex>>

\* Mutant: the array that lost the race is not freed.
PublishLeaks(t) ==
  LET p == loc[t].place
      m == IF arrays[p.ai] = Null THEN loc[t].own ELSE arrays[p.ai]
  IN /\ Goto(t, "publish", Found(t))
     /\ arrays' = [arrays EXCEPT ![p.ai] = m]
     /\ loc' = [loc EXCEPT ![t].own = Null, ![t].l = <<m, p.idx>>]
     /\ UNCHANGED <<size, taken, inRehash, mutex>>

\* The compare-exchange of make_array(): the first array wins.
PublishArray(t) ==
  LET p == loc[t].place
      m == IF arrays[p.ai] = Null THEN loc[t].own ELSE arrays[p.ai]
  IN /\ Goto(t, "publish", Found(t))
     /\ arrays' = [arrays EXCEPT ![p.ai] = m]
     /\ size' = IF m = loc[t].own THEN size ELSE [size EXCEPT ![loc[t].own] = 0]
     /\ loc' = [loc EXCEPT ![t].own = Null, ![t].l = <<m, p.idx>>]
     /\ UNCHANGED <<taken, inRehash, mutex>>

FindLock(t) == LoadArray(t) \/ AllocateArray(t) \/ PublishArray(t)

-----------------------------------------------------------------------------
(***************************************************************************)
(* ChainingHashTable::lock()                                               *)
(***************************************************************************)
TryLock(t) ==
  /\ Goto(t, "try", IF loc[t].l \in taken THEN "look" ELSE "owner")
  /\ taken' = taken \cup {loc[t].l}
  /\ UNCHANGED <<arrays, size, inRehash, mutex, loc>>

\* The first attempt does not look at d_in_rehash, which makes no difference.
LookForRehash(t) ==
  /\ Goto(t, "look", IF inRehash THEN "mutex" ELSE "try")
  /\ UNCHANGED <<arrays, size, taken, inRehash, mutex, loc>>

\* unique_lock, and the relock of wait_for after a notification or a timeout.
TakeMutex(t) ==
  /\ pc[t] \in {"mutex", "notified", "late"}
  /\ mutex = Null
  /\ mutex' = t
  /\ pc' = [pc EXCEPT ![t] = IF @ = "late" THEN "leave" ELSE "check"]
  /\ UNCHANGED <<arrays, size, taken, inRehash, loc>>

\* The predicate of wait_for; the wait releases the mutex as it begins.
CheckAndSleep(t) ==
  /\ IF loc[t].l \in taken
     THEN /\ Goto(t, "check", "asleep")
          /\ mutex' = Null
     ELSE /\ Goto(t, "check", "leave")
          /\ UNCHANGED mutex
  /\ UNCHANGED <<arrays, size, taken, inRehash, loc>>

\* Mutant: wait() in the place of wait_for().
NoTimeout(t) == FALSE /\ UNCHANGED vars

\* The millisecond is over.
Timeout(t) ==
  /\ Goto(t, "asleep", "late")
  /\ UNCHANGED <<arrays, size, taken, inRehash, mutex, loc>>

LeaveMutex(t) ==
  /\ Goto(t, "leave", "try")
  /\ mutex' = Null
  /\ UNCHANGED <<arrays, size, taken, inRehash, loc>>

WaitForLock(t) ==
  \/ TryLock(t)
  \/ LookForRehash(t)
  \/ TakeMutex(t)
  \/ CheckAndSleep(t)
  \/ Timeout(t)
  \/ LeaveMutex(t)

\* The lock is released without a notification.
Unlock(t) ==
  /\ Goto(t, "owner", "idle")
  /\ taken' = taken \ {loc[t].l}
  /\ loc' = [loc EXCEPT ![t] = NoLocals]
  /\ UNCHANGED <<arrays, size, inRehash, mutex>>

-----------------------------------------------------------------------------
(***************************************************************************)
(* rehash_internal, as far as the locks go: an iterator over all of them   *)
(* to lock, another one to unlock, and a notification at the end.          *)
(***************************************************************************)
CallRehash(t) ==
  /\ ~inRehash
  /\ Goto(t, "idle", "at")
  /\ inRehash' = TRUE
  /\ loc' = [loc EXCEPT ![t].rehash = TRUE]
  /\ UNCHANGED <<arrays, size, taken, mutex>>

RehashLocks(t) ==
  /\ loc[t].l \notin taken
  /\ taken' = taken \cup {loc[t].l}
  /\ IF loc[t].i = LastBucket
     THEN /\ Goto(t, "rh_lock", "rh_unlock")
          /\ loc' = [loc EXCEPT ![t].i = 0, ![t].place = At(0)]
     ELSE /\ Goto(t, "rh_lock", "at")
          /\ loc' = [loc EXCEPT ![t].i = @ + 1, ![t].place = NextPlace(@)]
  /\ UNCHANGED <<arrays, size, inRehash, mutex>>

RehashUnlocks(t) ==
  LET p == loc[t].place IN
  /\ Goto(t, "rh_unlock", IF loc[t].i = LastBucket THEN "rh_notify" ELSE "rh_unlock")
  /\ taken' = taken \ {<<arrays[p.ai], p.idx>>}
  /\ loc' = IF loc[t].i = LastBucket THEN loc
            ELSE [loc EXCEPT ![t].i = @ + 1, ![t].place = NextPlace(@)]
  /\ UNCHANGED <<arrays, size, inRehash, mutex>>

\* notify_all(), without the mutex.
RehashNotifies(t) ==
  /\ pc[t] = "rh_notify"
  /\ pc' = [s \in Threads |-> IF s = t THEN "rh_leave"
                              ELSE IF pc[s] = "asleep" THEN "notified" ELSE pc[s]]
  /\ UNCHANGED <<arrays, size, taken, inRehash, mutex, loc>>

LeaveRehash(t) ==
  /\ Goto(t, "rh_leave", "idle")
  /\ inRehash' = FALSE
  /\ loc' = [loc EXCEPT ![t] = NoLocals]
  /\ UNCHANGED <<arrays, size, taken, mutex>>

DoRehash(t) ==
  \/ RehashLocks(t)
  \/ RehashUnlocks(t)
  \/ RehashNotifies(t)
  \/ LeaveRehash(t)

-----------------------------------------------------------------------------
Call(t) == (\E i \in Buckets : CallLock(t, i)) \/ CallRehash(t)

Continue(t) == FindLock(t) \/ WaitForLock(t) \/ Unlock(t) \/ DoRehash(t)

Next == \E t \in Threads : Call(t) \/ Continue(t)

(***************************************************************************)
(* A thread inside a call is scheduled again and again, the wait of a      *)
(* millisecond ends, and who has a lock gives it back.                     *)
(***************************************************************************)
SafetySpec == Init /\ [][Next]_vars
Spec == SafetySpec /\ \A t \in Threads : WF_vars(Continue(t))
-----------------------------------------------------------------------------
\* Properties.

PC == {"idle", "at", "make", "alloc", "publish", "try", "look", "mutex", "check", "asleep",
       "notified", "late", "leave", "owner",
       "rh_lock", "rh_unlock", "rh_notify", "rh_leave"}

(***************************************************************************)
(* The type invariant: an iterator is always at a lock of its array, and a *)
(* lock that is taken is one of an array.                                  *)
(***************************************************************************)
TypeOK ==
  /\ arrays \in [0 .. LastArray -> Addresses \cup {Null}]
  /\ size \in [Addresses -> {0} \cup {2^a : a \in 0 .. LastArray}]
  /\ taken \subseteq Addresses \X (0 .. LastBucket)
  /\ inRehash \in BOOLEAN
  /\ mutex \in Threads \cup {Null}
  /\ pc \in [Threads -> PC]
  /\ loc \in [Threads -> [i : Buckets, place : Place, own : Addresses \cup {Null},
                          l : (Addresses \cup {Null}) \X (0 .. LastBucket), rehash : BOOLEAN]]

Owners(i) ==
  {t \in Threads : \/ pc[t] = "owner" /\ loc[t].i = i
                   \/ loc[t].rehash /\ pc[t] \in {"at", "make", "alloc", "publish", "rh_lock"}
                                    /\ i < loc[t].i
                   \/ pc[t] = "rh_unlock" /\ i >= loc[t].i}

(***************************************************************************)
(* A bucket has one lock: at() and both iterators lead every thread to the *)
(* same one, whoever made its array and however many raced to, so that no  *)
(* two threads are in one bucket, and different buckets have different     *)
(* locks, inside their arrays.                                             *)
(***************************************************************************)
OneLockPerBucket ==
  /\ \A i \in Buckets : \A s, t \in Owners(i) : s = t
  /\ taken = {<<arrays[ArrayIndex(i)], InArray(i)>> : i \in {j \in Buckets : Owners(j) # {}}}
  /\ \A l \in taken : l[2] < size[l[1]]

(***************************************************************************)
(* Locks are "reference stable" in an array "that can only grow"           *)
(* (docs/concurrent_map.md:49): an array of locks stays where it is from   *)
(* its publication on, and no array is forgotten or freed under a thread.  *)
(***************************************************************************)
LocksStay == [][\A a \in 0 .. LastArray : arrays[a] # Null => arrays'[a] = arrays[a]]_arrays

NoArrayLost ==
  {m \in Addresses : size[m] > 0} =
    ({arrays[a] : a \in 0 .. LastArray} \cup {loc[t].own : t \in Threads}) \ {Null}

(***************************************************************************)
(* A thread does not sleep or spin on for ever beside a lock that stays    *)
(* free: neither the notification that comes before it sleeps nor the one  *)
(* that an ordinary unlock never sends is missed for good.                 *)
(***************************************************************************)
Waiting == {"try", "look", "mutex", "check", "asleep", "notified", "late", "leave"}

NoWakeUpIsLost ==
  \A t \in Threads : ~<>[](pc[t] \in Waiting /\ loc[t].l \notin taken)
=============================================================================
