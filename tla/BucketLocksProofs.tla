-------------------------- MODULE BucketLocksProofs --------------------------
(***************************************************************************)
(* Proofs about the locks of the buckets, for any number of buckets and of *)
(* threads: arithmetic of the places first, then the inductive invariant   *)
(* BInv, then the properties.                                              *)
(***************************************************************************)
EXTENDS BucketLocks, PowersOfTwo

\* The powers of two around a number.
LEMMA ArrayOf ==
  ASSUME NEW i \in Nat
  PROVE  /\ ArrayIndex(i) \in 0 .. i
         /\ 2 ^ ArrayIndex(i) <= i + 1
         /\ i + 1 < 2 ^ (ArrayIndex(i) + 1)
<1> DEFINE S == {a \in Nat : i + 1 < 2 ^ (a + 1)}
<1>1. i \in S
  BY PowerExceeds
<1>2. PICK a \in S : \A k \in S : a <= k
  BY <1>1, LeastNumber
<1>3. a \in 0 .. i /\ i + 1 < 2 ^ (a + 1)
  BY <1>1, <1>2
<1>4. 2 ^ a <= i + 1
  <2>1. CASE a = 0
    <3>1. 2 ^ 0 <= i + 1
      BY PowerZero
    <3>2. QED
      BY <2>1, <3>1
  <2>2. CASE a # 0
    <3>1. a - 1 \in Nat /\ a - 1 \notin S /\ (a - 1) + 1 = a
      BY <1>2, <1>3, <2>2
    <3>2. ~(i + 1 < 2 ^ ((a - 1) + 1))
      BY <3>1
    <3>3. 2 ^ a \in Nat /\ ~(i + 1 < 2 ^ a)
      BY <1>3, <3>1, <3>2, PowerPositive
    <3>4. QED
      BY <3>3
  <2>3. QED
    BY <2>1, <2>2
<1>5. QED
  BY <1>3, <1>4 DEF ArrayIndex

\* There is one such pair of powers.
LEMMA ArrayIsUnique ==
  ASSUME NEW i \in Nat, NEW a \in Nat, 2 ^ a <= i + 1, i + 1 < 2 ^ (a + 1)
  PROVE  ArrayIndex(i) = a
<1> DEFINE b == ArrayIndex(i)
<1>1. b \in Nat /\ 2 ^ b <= i + 1 /\ i + 1 < 2 ^ (b + 1)
  BY ArrayOf
<1> HIDE DEF b
<1>2. 2 ^ a \in Nat /\ 2 ^ b \in Nat /\ 2 ^ (a + 1) \in Nat /\ 2 ^ (b + 1) \in Nat
  BY <1>1, PowerPositive
<1>3. ~(a < b)
  <2>1. SUFFICES ASSUME a < b PROVE FALSE
    OBVIOUS
  <2>2. 2 ^ (a + 1) <= 2 ^ b
    BY <1>1, <2>1, PowerGrows
  <2>3. QED
    BY <1>1, <1>2, <2>2
<1>4. ~(b < a)
  <2>1. SUFFICES ASSUME b < a PROVE FALSE
    OBVIOUS
  <2>2. 2 ^ (b + 1) <= 2 ^ a
    BY <1>1, <2>1, PowerGrows
  <2>3. QED
    BY <1>1, <1>2, <2>2
<1>5. b = a
  BY <1>1, <1>3, <1>4
<1>6. QED
  BY <1>5 DEF b

\* A lock's place is inside its array.
LEMMA PlaceInside ==
  ASSUME NEW i \in Nat
  PROVE  InArray(i) \in 0 .. i /\ InArray(i) < 2 ^ ArrayIndex(i)
<1> DEFINE a == ArrayIndex(i)
           p == 2 ^ a
           q == 2 ^ (a + 1)
<1>1. p \in Nat \ {0} /\ q = 2 * p /\ p <= i + 1 /\ i + 1 < q
  <2>1. a \in Nat /\ p <= i + 1 /\ i + 1 < q
    BY ArrayOf
  <2>2. p \in Nat \ {0} /\ q = 2 * p
    BY <2>1, PowerPositive, PowerDoubles
  <2>3. QED
    BY <2>1, <2>2
<1>2. InArray(i) = i - (p - 1)
  BY DEF InArray
<1> HIDE DEF p, q
<1>3. i - (p - 1) \in 0 .. i /\ i - (p - 1) < p
  BY <1>1
<1>4. QED
  BY <1>2, <1>3 DEF p

\* Different buckets have different places.
LEMMA PlacesDiffer ==
  ASSUME NEW i \in Nat, NEW j \in Nat, ArrayIndex(i) = ArrayIndex(j), InArray(i) = InArray(j)
  PROVE  i = j
<1> DEFINE p == 2 ^ ArrayIndex(i)
<1>1. p \in Nat /\ InArray(i) = i - (p - 1) /\ InArray(j) = j - (p - 1)
  BY ArrayOf, PowerPositive DEF InArray
<1> HIDE DEF p
<1>2. i - (p - 1) = j - (p - 1)
  BY <1>1, Zenon
<1>3. QED
  BY <1>1, <1>2

\* The buckets of a table have places in its arrays.
LEMMA PlaceTyped ==
  ASSUME LastBucket \in Nat, NEW i \in Buckets
  PROVE  /\ At(i) \in Place
         /\ ArrayIndex(i) \in 0 .. LastArray
         /\ InArray(i) \in 0 .. LastBucket
<1> DEFINE a == ArrayIndex(i)
           z == LastArray
<1>1. i \in Nat /\ i <= LastBucket
  BY DEF Buckets
<1>2. /\ a \in Nat /\ 2 ^ a <= i + 1
      /\ z \in Nat /\ LastBucket + 1 < 2 ^ (z + 1)
  BY <1>1, ArrayOf DEF LastArray
<1> HIDE DEF a, z
<1>3. ~(z < a)
  <2>1. SUFFICES ASSUME z < a PROVE FALSE
    OBVIOUS
  <2>2. 2 ^ (z + 1) <= 2 ^ a
    BY <1>2, <2>1, PowerGrows
  <2>3. 2 ^ (z + 1) \in Nat /\ 2 ^ a \in Nat
    BY <1>2, PowerPositive
  <2>4. QED
    BY <1>1, <1>2, <2>2, <2>3
<1>4. InArray(i) \in 0 .. LastBucket /\ InArray(i) < 2 ^ a
  BY <1>1, PlaceInside DEF a
<1>5. a \in 0 .. z
  BY <1>2, <1>3
<1>6. QED
  BY <1>4, <1>5 DEF At, Place, a, z

\* The iterator goes to the place of the next bucket.
LEMMA NextIsNext ==
  ASSUME NEW i \in Nat
  PROVE  NextPlace(At(i)) = At(i + 1)
<1> DEFINE a == ArrayIndex(i)
           p == 2 ^ a
           q == 2 ^ (a + 1)
           r == 2 ^ ((a + 1) + 1)
<1>1. a \in Nat /\ p \in Nat /\ p > 0 /\ q = 2 * p /\ r = 2 * q /\ p <= i + 1 /\ i + 1 < q
  <2>1. a \in Nat /\ p <= i + 1 /\ i + 1 < q
    BY ArrayOf
  <2>2. p \in Nat \ {0} /\ q = 2 * p
    BY <2>1, PowerPositive, PowerDoubles
  <2>3. r = 2 * q
    BY <2>1, PowerDoubles
  <2>4. QED
    BY <2>1, <2>2, <2>3
<1>2. At(i) = [ai |-> a, idx |-> i - (p - 1)]
  BY DEF At, InArray
<1>3. CASE (i - (p - 1)) + 1 = p
  <2>1. NextPlace(At(i)) = [ai |-> a + 1, idx |-> 0]
    BY <1>2, <1>3 DEF NextPlace
  <2>2. q <= (i + 1) + 1 /\ (i + 1) + 1 < r /\ (i + 1) - (q - 1) = 0
    <3> HIDE DEF p, q, r
    <3>1. QED
      BY <1>1, <1>3
  <2>3. ArrayIndex(i + 1) = a + 1
    BY <1>1, <2>2, ArrayIsUnique
  <2>4. At(i + 1) = [ai |-> a + 1, idx |-> 0]
    BY <2>2, <2>3 DEF At, InArray
  <2>5. QED
    BY <2>1, <2>4
<1>4. CASE (i - (p - 1)) + 1 # p
  <2>1. NextPlace(At(i)) = [ai |-> a, idx |-> (i - (p - 1)) + 1]
    BY <1>2, <1>4 DEF NextPlace
  <2>2. p <= (i + 1) + 1 /\ (i + 1) + 1 < q /\ (i + 1) - (p - 1) = (i - (p - 1)) + 1
    <3> HIDE DEF p, q, r
    <3>1. QED
      BY <1>1, <1>4
  <2>3. ArrayIndex(i + 1) = a
    BY <1>1, <2>2, ArrayIsUnique
  <2>4. At(i + 1) = [ai |-> a, idx |-> (i - (p - 1)) + 1]
    BY <2>2, <2>3 DEF At, InArray
  <2>5. QED
    BY <2>1, <2>4
<1>5. QED
  BY <1>3, <1>4
-----------------------------------------------------------------------------
(***************************************************************************)
(* The inductive invariant.                                                *)
(***************************************************************************)
Finding   == {"at", "make", "alloc", "publish"}
Trying    == Waiting \cup {"owner"}
Rehashing == {"rh_lock", "rh_unlock", "rh_notify", "rh_leave"}

LockOf(i) == <<arrays[ArrayIndex(i)], InArray(i)>>
Made(i)   == arrays[ArrayIndex(i)] # Null

\* What a thread has looked up is what it looks for now.
LocalsExact(t) ==
  /\ loc[t].place = At(loc[t].i)
  /\ pc[t] = "idle" => loc[t] = NoLocals
  /\ pc[t] \in Trying => ~loc[t].rehash
  /\ pc[t] \in Rehashing => loc[t].rehash
  /\ loc[t].rehash => inRehash
  /\ pc[t] # "publish" => loc[t].own = Null
  /\ pc[t] = "publish" => /\ loc[t].own \in Addresses
                          /\ size[loc[t].own] = 2 ^ loc[t].place.ai
  /\ pc[t] \in Trying \cup {"rh_lock"} => loc[t].l = LockOf(loc[t].i) /\ Made(loc[t].i)

OneRehash == \A s, t \in Threads : loc[s].rehash /\ loc[t].rehash => s = t

\* The addresses in use are of one array each.
ArraysExact ==
  /\ \A a \in 0 .. LastArray : arrays[a] # Null => size[arrays[a]] = 2 ^ a
  /\ \A t \in Threads : \A a \in 0 .. LastArray : loc[t].own # Null => loc[t].own # arrays[a]
  /\ \A s, t \in Threads : loc[s].own # Null /\ loc[s].own = loc[t].own => s = t
  /\ \A m \in Addresses : size[m] > 0 => \/ \E a \in 0 .. LastArray : arrays[a] = m
                                        \/ \E t \in Threads : loc[t].own = m

\* A taken lock is that of a bucket with an owner.
OwnersExact ==
  /\ \A i \in Buckets : \A s, t \in Owners(i) : s = t
  /\ \A i \in Buckets : Owners(i) # {} => Made(i)
  /\ taken = {LockOf(i) : i \in {j \in Buckets : Owners(j) # {}}}

BInv ==
  /\ TypeOK
  /\ \A t \in Threads : LocalsExact(t)
  /\ OneRehash
  /\ ArraysExact
  /\ OwnersExact

-----------------------------------------------------------------------------
\* The first bucket and the empty locals.
LEMMA NoLocalsTyped ==
  ASSUME BucketLocksAssumption
  PROVE  /\ 0 \in Buckets /\ At(0) \in Place
         /\ NoLocals \in [i : Buckets, place : Place, own : Addresses \cup {Null},
                         l : (Addresses \cup {Null}) \X (0 .. LastBucket), rehash : BOOLEAN]
<1>1. LastBucket \in Nat /\ 0 \in Buckets /\ 0 \in 0 .. LastBucket
  BY DEF BucketLocksAssumption, Buckets
<1>2. At(0) \in Place
  BY <1>1, PlaceTyped
<1>3. QED
  BY <1>1, <1>2 DEF NoLocals

\* No thread owns a bucket at first.
LEMMA InitHolds ==
  ASSUME BucketLocksAssumption, Init
  PROVE  BInv
<1>1. TypeOK
  BY NoLocalsTyped DEF Init, TypeOK, PC
<1>2. \A t \in Threads : LocalsExact(t)
  BY DEF Init, LocalsExact, NoLocals, Trying, Waiting, Rehashing
<1>3. OneRehash
  BY DEF Init, OneRehash, NoLocals
<1>4. ArraysExact
  BY DEF Init, ArraysExact, NoLocals
<1>5. OwnersExact
  <2>1. \A i \in Buckets : Owners(i) = {}
    BY DEF Init, Owners, NoLocals
  <2>2. QED
    BY <2>1 DEF Init, OwnersExact
<1>6. QED
  BY <1>1, <1>2, <1>3, <1>4, <1>5 DEF BInv

\* A step that changes neither owners, nor locks, nor arrays in use.
LEMMA OwnersStay ==
  ASSUME OwnersExact, taken' = taken,
         \A i \in Buckets : Owners(i)' = Owners(i),
         \A a : arrays[a] # Null => arrays'[a] = arrays[a]
  PROVE  OwnersExact'
<1>1. \A i \in Buckets : Owners(i) # {} => Made(i)' /\ LockOf(i)' = LockOf(i)
  BY DEF OwnersExact, Made, LockOf
<1> DEFINE J == {j \in Buckets : Owners(j) # {}}
<1>2. {j \in Buckets : Owners(j) # {}}' = J
  OBVIOUS
<1>3. taken' = {LockOf(i)' : i \in J}
  BY <1>1 DEF OwnersExact
<1>4. QED
  BY <1>1, <1>2, <1>3 DEF OwnersExact

\* A thread on its way from one wait to the next, or at the end of a rehash.
LEMMA QuietStep ==
  ASSUME BInv,
         UNCHANGED <<arrays, size, taken, inRehash, loc>>,
         mutex' \in Threads \cup {Null}, pc' \in [Threads -> PC],
         \A s \in Threads : \/ pc'[s] = pc[s]
                            \/ pc[s] \in Waiting /\ pc'[s] \in Waiting
                            \/ pc[s] = "rh_notify" /\ pc'[s] = "rh_leave"
  PROVE  BInv'
<1>1. TypeOK'
  BY DEF BInv, TypeOK
<1>2. ASSUME NEW t \in Threads PROVE LocalsExact(t)'
  <2>1. LocalsExact(t)
    BY DEF BInv
  <2>2. QED
    BY <2>1 DEF LocalsExact, Trying, Waiting, Rehashing, LockOf, Made
<1>3. OneRehash'
  BY DEF BInv, OneRehash
<1>4. ArraysExact'
  BY DEF BInv, ArraysExact
<1>5. OwnersExact'
  <2>1. \A i \in Buckets : Owners(i)' = Owners(i)
    BY DEF Owners, Waiting
  <2>2. QED
    BY <2>1, OwnersStay DEF BInv
<1>6. QED
  BY <1>1, <1>2, <1>3, <1>4, <1>5 DEF BInv

\* The place a thread looks at is that of its bucket.
LEMMA PlaceOf ==
  ASSUME BucketLocksAssumption, BInv, NEW t \in Threads
  PROVE  /\ loc[t].i \in Buckets /\ loc[t].place = At(loc[t].i)
         /\ loc[t].place.ai = ArrayIndex(loc[t].i) /\ loc[t].place.ai \in 0 .. LastArray
         /\ loc[t].place.idx = InArray(loc[t].i) /\ loc[t].place.idx \in 0 .. LastBucket
         /\ loc[t].own \in Addresses \cup {Null}
<1>1. /\ loc[t].i \in Buckets /\ loc[t].own \in Addresses \cup {Null}
      /\ loc[t].place = At(loc[t].i)
  BY DEF BInv, TypeOK, LocalsExact
<1>2. LastBucket \in Nat
  BY DEF BucketLocksAssumption
<1>3. ArrayIndex(loc[t].i) \in 0 .. LastArray /\ InArray(loc[t].i) \in 0 .. LastBucket
  BY <1>1, <1>2, PlaceTyped
<1>4. QED
  BY <1>1, <1>3 DEF At

\* In the steps of one thread the locals of the others stay, and the arrays with them.
LEMMA OthersStay ==
  ASSUME BInv, NEW t \in Threads, NEW s \in Threads, s # t,
         loc'[s] = loc[s], pc'[s] = pc[s],
         inRehash \/ ~loc[s].rehash => (loc[s].rehash => inRehash'),
         \A m \in Addresses : loc[s].own = m => size'[m] = size[m],
         \A a : arrays[a] # Null => arrays'[a] = arrays[a]
  PROVE  LocalsExact(s)'
<1>1. LocalsExact(s)
  BY DEF BInv
<1>2. QED
  BY <1>1 DEF LocalsExact, LockOf, Made

\* A thread begins to look for the lock of a bucket.
LEMMA CallLockKeeps ==
  ASSUME BucketLocksAssumption, BInv, NEW t \in Threads, NEW i \in Buckets, CallLock(t, i)
  PROVE  BInv'
<1>1. /\ pc[t] = "idle" /\ pc' = [pc EXCEPT ![t] = "at"]
      /\ loc' = [loc EXCEPT ![t] = [NoLocals EXCEPT !.i = i, !.place = At(i)]]
      /\ UNCHANGED <<arrays, size, taken, inRehash, mutex>>
      /\ loc[t] = NoLocals
  BY DEF CallLock, Goto, BInv, LocalsExact, TypeOK
<1>2. At(i) \in Place
  BY PlaceTyped DEF BucketLocksAssumption
<1>3. TypeOK'
  BY <1>1, <1>2, NoLocalsTyped DEF BInv, TypeOK, PC
<1>4. ASSUME NEW s \in Threads PROVE LocalsExact(s)'
  <2>1. CASE s = t
    BY <1>1, <2>1 DEF BInv, TypeOK, LocalsExact, NoLocals, Trying, Waiting, Rehashing
  <2>2. CASE s # t
    BY <1>1, <2>2, OthersStay DEF BInv, TypeOK
  <2>3. QED
    BY <2>1, <2>2
<1>5. \A s \in Threads : loc'[s].rehash = loc[s].rehash /\ loc'[s].own = loc[s].own
  BY <1>1 DEF BInv, TypeOK, NoLocals
<1>6. OneRehash'
  BY <1>5 DEF BInv, OneRehash
<1>7. ArraysExact'
  BY <1>1, <1>5 DEF BInv, ArraysExact
<1>8. OwnersExact'
  <2>1. \A j \in Buckets : Owners(j)' = Owners(j)
    BY <1>1 DEF Owners, BInv, TypeOK, NoLocals
  <2>2. QED
    BY <1>1, <2>1, OwnersStay DEF BInv
<1>9. QED
  BY <1>3, <1>4, <1>6, <1>7, <1>8 DEF BInv

\* at() reads the array: it is there, or the thread has to make one.
LEMMA LoadArrayKeeps ==
  ASSUME BucketLocksAssumption, BInv, NEW t \in Threads, LoadArray(t)
  PROVE  BInv'
<1> DEFINE p == loc[t].place
<1>0. /\ p = At(loc[t].i) /\ p \in Place /\ loc[t].i \in Buckets /\ pc[t] \in {"at", "make"}
      /\ p.ai = ArrayIndex(loc[t].i) /\ p.idx = InArray(loc[t].i)
      /\ p.ai \in 0 .. LastArray /\ p.idx \in 0 .. LastBucket
      /\ loc[t].own = Null
  BY PlaceTyped DEF LoadArray, BInv, TypeOK, LocalsExact, At, BucketLocksAssumption
<1>1. CASE arrays[p.ai] = Null
  <2>1. /\ pc' = [pc EXCEPT ![t] = IF @ = "at" THEN "make" ELSE "alloc"]
        /\ UNCHANGED <<arrays, size, taken, inRehash, mutex, loc>>
    BY <1>1 DEF LoadArray
  <2>2. TypeOK'
    BY <2>1 DEF BInv, TypeOK, PC
  <2>3. ASSUME NEW s \in Threads PROVE LocalsExact(s)'
    <3>1. LocalsExact(s)
      BY DEF BInv
    <3>2. QED
      BY <1>0, <2>1, <3>1 DEF LocalsExact, LockOf, Made, Trying, Waiting, Rehashing, BInv, TypeOK
  <2>4. OneRehash' /\ ArraysExact'
    BY <2>1 DEF BInv, OneRehash, ArraysExact
  <2>5. \A j \in Buckets : Owners(j)' = Owners(j)
    BY <1>0, <2>1 DEF Owners, BInv, TypeOK
  <2>6. OwnersExact'
    BY <2>1, <2>5, OwnersStay DEF BInv
  <2>7. QED
    BY <2>2, <2>3, <2>4, <2>6 DEF BInv
<1>2. CASE arrays[p.ai] # Null
  <2>1. /\ pc' = [pc EXCEPT ![t] = IF loc[t].rehash THEN "rh_lock" ELSE "try"]
        /\ loc' = [loc EXCEPT ![t].l = <<arrays[p.ai], p.idx>>]
        /\ UNCHANGED <<arrays, size, taken, inRehash, mutex>>
    BY <1>2 DEF LoadArray, Found
  <2>2. TypeOK'
    <3>1. pc' \in [Threads -> PC]
      BY <2>1 DEF BInv, TypeOK, PC
    <3>2. <<arrays[p.ai], p.idx>> \in (Addresses \cup {Null}) \X (0 .. LastBucket)
      BY <1>0 DEF BInv, TypeOK
    <3> DEFINE L == (Addresses \cup {Null}) \X (0 .. LastBucket)
               l == <<arrays[p.ai], p.idx>>
               Locals == [i : Buckets, place : Place, own : Addresses \cup {Null},
                          l : L, rehash : BOOLEAN]
    <3>3. loc \in [Threads -> Locals] /\ loc' = [loc EXCEPT ![t].l = l] /\ l \in L
      BY <2>1, <3>2 DEF BInv, TypeOK
    <3>4. loc' \in [Threads -> Locals]
      <4> HIDE DEF l, L
      <4>1. QED
        BY <3>3
    <3>5. QED
      BY <2>1, <3>1, <3>4 DEF BInv, TypeOK
  <2>3. ASSUME NEW s \in Threads PROVE LocalsExact(s)'
    <3>1. CASE s = t
      <4>1. LocalsExact(t)
        BY DEF BInv
      <4>2. QED
        BY <1>0, <1>2, <2>1, <3>1, <4>1 DEF LocalsExact, LockOf, Made, Trying, Waiting, Rehashing, BInv, TypeOK
    <3>2. CASE s # t
      BY <2>1, <3>2, OthersStay DEF BInv, TypeOK
    <3>3. QED
      BY <3>1, <3>2
  <2>4. \A s \in Threads : loc'[s].rehash = loc[s].rehash /\ loc'[s].own = loc[s].own /\ loc'[s].i = loc[s].i
    BY <2>1 DEF BInv, TypeOK
  <2>5. OneRehash' /\ ArraysExact'
    BY <2>1, <2>4 DEF BInv, OneRehash, ArraysExact
  <2>6. \A j \in Buckets : Owners(j)' = Owners(j)
    BY <1>0, <2>1, <2>4 DEF Owners, BInv, TypeOK
  <2>7. OwnersExact'
    BY <2>1, <2>6, OwnersStay DEF BInv
  <2>8. QED
    BY <2>2, <2>3, <2>5, <2>7 DEF BInv
<1>3. QED
  BY <1>1, <1>2

\* A new array belongs to the thread that made it.
LEMMA AllocateArrayKeeps ==
  ASSUME BucketLocksAssumption, BInv, NEW t \in Threads, AllocateArray(t)
  PROVE  BInv'
<1>1. PICK m \in Addresses :
        /\ size[m] = 0
        /\ size' = [size EXCEPT ![m] = 2 ^ loc[t].place.ai]
        /\ loc' = [loc EXCEPT ![t].own = m]
  BY DEF AllocateArray
<1>2. /\ pc[t] = "alloc" /\ pc' = [pc EXCEPT ![t] = "publish"]
      /\ UNCHANGED <<arrays, taken, inRehash, mutex>>
  BY DEF AllocateArray, Goto
<1> DEFINE a == loc[t].place.ai
<1>3. /\ a \in 0 .. LastArray /\ a \in Nat /\ 2 ^ a \in Nat /\ 2 ^ a > 0
      /\ loc[t].own = Null
  <2>1. a \in 0 .. LastArray /\ loc[t].own = Null
    BY <1>2, PlaceOf DEF BInv, LocalsExact
  <2>2. a \in Nat
    BY <2>1, ArrayOf DEF LastArray, BucketLocksAssumption
  <2>3. QED
    BY <2>1, <2>2, PowerPositive
<1>4. /\ m # Null /\ \A b \in 0 .. LastArray : arrays[b] # m
      /\ \A s \in Threads : loc[s].own # m
  <2>1. m # Null
    BY DEF BucketLocksAssumption
  <2>2. \A b \in 0 .. LastArray : b \in Nat /\ 2 ^ b # 0
    BY PowerPositive, ArrayOf DEF LastArray, BucketLocksAssumption
  <2>3. ASSUME NEW b \in 0 .. LastArray PROVE arrays[b] # m
    BY <1>1, <2>1, <2>2 DEF BInv, ArraysExact
  <2>4. ASSUME NEW s \in Threads, loc[s].own = m PROVE FALSE
    <3>1. pc[s] = "publish" /\ size[m] = 2 ^ loc[s].place.ai
      BY <2>1, <2>4 DEF BInv, LocalsExact
    <3>2. loc[s].place.ai \in 0 .. LastArray
      BY PlaceOf
    <3>3. QED
      BY <1>1, <2>2, <3>1, <3>2
  <2>5. QED
    BY <2>1, <2>3, <2>4
<1>5. \A n \in Addresses : size'[n] = IF n = m THEN 2 ^ a ELSE size[n]
  BY <1>1 DEF BInv, TypeOK
<1>6. \A s \in Threads : /\ loc'[s].own = IF s = t THEN m ELSE loc[s].own
                         /\ loc'[s].rehash = loc[s].rehash /\ loc'[s].i = loc[s].i
                         /\ loc'[s].place = loc[s].place /\ loc'[s].l = loc[s].l
  BY <1>1 DEF BInv, TypeOK
<1>7. TypeOK'
  <2>1. size' \in [Addresses -> {0} \cup {2 ^ b : b \in 0 .. LastArray}]
    BY <1>1, <1>3 DEF BInv, TypeOK
  <2>2. pc' \in [Threads -> PC]
    BY <1>2 DEF BInv, TypeOK, PC
  <2> DEFINE Locals == [i : Buckets, place : Place, own : Addresses \cup {Null},
                        l : (Addresses \cup {Null}) \X (0 .. LastBucket), rehash : BOOLEAN]
  <2>3. loc' \in [Threads -> Locals]
    <3>1. loc \in [Threads -> Locals]
      BY DEF BInv, TypeOK
    <3>2. loc[t] \in Locals
      BY <3>1
    <3>3. [loc[t] EXCEPT !.own = m] \in Locals
      BY <3>2
    <3>4. loc' = [loc EXCEPT ![t] = [loc[t] EXCEPT !.own = m]]
      BY <1>1, <3>1
    <3> HIDE DEF Locals
    <3>5. QED
      BY <3>1, <3>3, <3>4
  <2>4. QED
    BY <1>2, <2>1, <2>2, <2>3 DEF BInv, TypeOK
<1>8. ASSUME NEW s \in Threads PROVE LocalsExact(s)'
  <2>1. CASE s = t
    <3>1. LocalsExact(t) /\ pc'[t] = "publish"
      BY <1>2 DEF BInv, TypeOK
    <3>2. QED
      BY <1>2, <1>3, <1>4, <1>5, <1>6, <2>1, <3>1 DEF LocalsExact, Trying, Waiting, Rehashing
  <2>2. CASE s # t
    <3>1. \A n \in Addresses : loc[s].own = n => size'[n] = size[n]
      BY <1>4, <1>5
    <3>2. loc'[s] = loc[s] /\ pc'[s] = pc[s]
      BY <1>1, <1>2, <2>2 DEF BInv, TypeOK
    <3>3. QED
      BY <1>2, <2>2, <3>1, <3>2, OthersStay
  <2>3. QED
    BY <2>1, <2>2
<1>9. OneRehash'
  BY <1>6 DEF BInv, OneRehash
<1>10. ArraysExact'
  <2>1. \A b \in 0 .. LastArray : arrays[b] # Null => size'[arrays[b]] = 2 ^ b
    BY <1>4, <1>5 DEF BInv, ArraysExact, TypeOK
  <2>2. \A s \in Threads : \A b \in 0 .. LastArray : loc'[s].own # Null => loc'[s].own # arrays[b]
    BY <1>4, <1>6 DEF BInv, ArraysExact
  <2>3. \A r, s \in Threads : loc'[r].own # Null /\ loc'[r].own = loc'[s].own => r = s
    BY <1>4, <1>6 DEF BInv, ArraysExact
  <2>4. ASSUME NEW n \in Addresses, size'[n] > 0
        PROVE  (\E b \in 0 .. LastArray : arrays[b] = n) \/ (\E s \in Threads : loc'[s].own = n)
    <3>1. CASE n = m
      BY <1>6, <3>1
    <3>2. CASE n # m
      <4>1. size[n] > 0
        BY <1>5, <2>4, <3>2
      <4>2. (\E b \in 0 .. LastArray : arrays[b] = n) \/ (\E s \in Threads : loc[s].own = n)
        BY <4>1 DEF BInv, ArraysExact
      <4>3. n # Null
        BY DEF BucketLocksAssumption
      <4>4. QED
        BY <1>3, <1>6, <4>2, <4>3
    <3>3. QED
      BY <3>1, <3>2
  <2>5. QED
    BY <1>2, <2>1, <2>2, <2>3, <2>4 DEF ArraysExact
<1>11. OwnersExact'
  <2>1. \A j \in Buckets : Owners(j)' = Owners(j)
    BY <1>2, <1>6 DEF Owners, BInv, TypeOK
  <2>2. QED
    BY <1>2, <2>1, OwnersStay DEF BInv
<1>12. QED
  BY <1>7, <1>8, <1>9, <1>10, <1>11 DEF BInv

\* The exchange publishes the own array, or finds that of another thread and frees its own.
LEMMA PublishArrayKeeps ==
  ASSUME BucketLocksAssumption, BInv, NEW t \in Threads, PublishArray(t)
  PROVE  BInv'
<1> DEFINE a   == loc[t].place.ai
           i   == loc[t].i
           own == loc[t].own
           m   == IF arrays[a] = Null THEN own ELSE arrays[a]
<1>1. /\ pc[t] = "publish" /\ pc' = [pc EXCEPT ![t] = IF loc[t].rehash THEN "rh_lock" ELSE "try"]
      /\ arrays' = [arrays EXCEPT ![a] = m]
      /\ size' = IF m = own THEN size ELSE [size EXCEPT ![own] = 0]
      /\ loc' = [loc EXCEPT ![t].own = Null, ![t].l = <<m, loc[t].place.idx>>]
      /\ UNCHANGED <<taken, inRehash, mutex>>
  BY DEF PublishArray, Goto, Found
<1>2. /\ a \in 0 .. LastArray /\ a = ArrayIndex(i) /\ i \in Buckets
      /\ loc[t].place = At(i) /\ loc[t].place.idx = InArray(i) /\ InArray(i) \in 0 .. LastBucket
      /\ own \in Addresses /\ own # Null /\ size[own] = 2 ^ a
  BY <1>1, PlaceOf DEF BInv, LocalsExact, BucketLocksAssumption
<1>3. m \in Addresses /\ m # Null /\ size[m] = 2 ^ a /\ (m = own <=> arrays[a] = Null)
  BY <1>2 DEF BInv, TypeOK, ArraysExact, BucketLocksAssumption
<1> HIDE DEF m
<1>4. \A b \in 0 .. LastArray : arrays'[b] = IF b = a THEN m ELSE arrays[b]
  BY <1>1, <1>2 DEF BInv, TypeOK
<1>5. \A b : arrays[b] # Null => arrays'[b] = arrays[b]
  BY <1>1, <1>2, <1>3 DEF BInv, TypeOK, m
<1>6. \A n \in Addresses : size'[n] = IF n = own /\ m # own THEN 0 ELSE size[n]
  BY <1>1, <1>2 DEF BInv, TypeOK
<1>7. \A s \in Threads : /\ loc'[s].own = IF s = t THEN Null ELSE loc[s].own
                         /\ loc'[s].rehash = loc[s].rehash /\ loc'[s].i = loc[s].i
                         /\ loc'[s].place = loc[s].place
                         /\ loc'[s].l = IF s = t THEN <<m, InArray(i)>> ELSE loc[s].l
  BY <1>1, <1>2 DEF BInv, TypeOK
<1>8. TypeOK'
  <2>1. arrays' \in [0 .. LastArray -> Addresses \cup {Null}]
    BY <1>1, <1>2, <1>3 DEF BInv, TypeOK
  <2>2. size' \in [Addresses -> {0} \cup {2 ^ b : b \in 0 .. LastArray}]
    BY <1>1, <1>2 DEF BInv, TypeOK
  <2>3. pc' \in [Threads -> PC]
    BY <1>1 DEF BInv, TypeOK, PC
  <2> DEFINE L == (Addresses \cup {Null}) \X (0 .. LastBucket)
             l == <<m, loc[t].place.idx>>
             Locals == [i : Buckets, place : Place, own : Addresses \cup {Null},
                        l : L, rehash : BOOLEAN]
  <2>4. loc \in [Threads -> Locals] /\ loc' = [loc EXCEPT ![t].own = Null, ![t].l = l]
    BY <1>1 DEF BInv, TypeOK
  <2>5. l \in L
    BY <1>2, <1>3
  <2>6. loc' \in [Threads -> Locals]
    <3> HIDE DEF l, L
    <3>1. QED
      BY <2>4, <2>5
  <2>7. QED
    BY <1>1, <2>1, <2>2, <2>3, <2>6 DEF BInv, TypeOK
<1>9. \A s \in Threads : s # t => loc[s].own # own
  BY <1>2 DEF BInv, ArraysExact
<1>10. ASSUME NEW s \in Threads PROVE LocalsExact(s)'
  <2>1. CASE s = t
    <3>1. LocalsExact(t) /\ pc'[t] = IF loc[t].rehash THEN "rh_lock" ELSE "try"
      BY <1>1 DEF BInv, TypeOK
    <3>2. arrays'[ArrayIndex(i)] = m /\ loc'[t].i = i
      BY <1>2, <1>4, <1>7
    <3>3. LockOf(loc[t].i)' = <<m, InArray(i)>> /\ Made(loc[t].i)'
      BY <1>3, <3>2 DEF LockOf, Made
    <3>4. pc'[t] # "idle" /\ pc'[t] # "publish" /\ (pc'[t] \in Trying => ~loc[t].rehash)
          /\ (pc'[t] \in Rehashing => loc[t].rehash)
      BY <3>1 DEF Trying, Waiting, Rehashing
    <3>5. QED
      BY <1>1, <1>7, <2>1, <3>1, <3>3, <3>4 DEF LocalsExact
  <2>2. CASE s # t
    <3>1. \A n \in Addresses : loc[s].own = n => size'[n] = size[n]
      BY <1>6, <1>9, <2>2
    <3>2. loc'[s] = loc[s] /\ pc'[s] = pc[s]
      BY <1>1, <2>2 DEF BInv, TypeOK
    <3>3. QED
      BY <1>1, <1>5, <2>2, <3>1, <3>2, OthersStay
  <2>3. QED
    BY <2>1, <2>2
<1>11. OneRehash'
  BY <1>7 DEF BInv, OneRehash
<1>12. ArraysExact'
  <2>1. ASSUME NEW b \in 0 .. LastArray, arrays'[b] # Null PROVE size'[arrays'[b]] = 2 ^ b
    <3>1. CASE b = a
      BY <1>3, <1>4, <1>6, <3>1
    <3>2. CASE b # a
      <4>1. arrays[b] = arrays'[b] /\ arrays[b] # Null
        BY <1>4, <2>1, <3>2
      <4>2. arrays[b] \in Addresses /\ size[arrays[b]] = 2 ^ b
        BY <4>1 DEF BInv, TypeOK, ArraysExact
      <4>3. arrays[b] # own
        BY <1>2 DEF BInv, ArraysExact
      <4>4. QED
        BY <1>6, <4>1, <4>2, <4>3
    <3>3. QED
      BY <3>1, <3>2
  <2>2. ASSUME NEW s \in Threads, NEW b \in 0 .. LastArray, loc'[s].own # Null
        PROVE  loc'[s].own # arrays'[b]
    <3>1. s # t /\ loc'[s].own = loc[s].own /\ loc[s].own # own
      BY <1>7, <1>9, <2>2
    <3>2. loc[s].own # arrays[b] /\ loc[s].own # arrays[a]
      BY <1>2, <2>2, <3>1 DEF BInv, ArraysExact
    <3>3. QED
      BY <1>4, <3>1, <3>2 DEF m
  <2>3. \A r, s \in Threads : loc'[r].own # Null /\ loc'[r].own = loc'[s].own => r = s
    BY <1>7 DEF BInv, ArraysExact
  <2>4. ASSUME NEW n \in Addresses, size'[n] > 0
        PROVE  (\E b \in 0 .. LastArray : arrays'[b] = n) \/ (\E s \in Threads : loc'[s].own = n)
    <3>1. size[n] > 0 /\ (n # own \/ m = own)
      BY <1>6, <2>4
    <3>2. CASE n = own
      BY <1>2, <1>4, <3>1, <3>2
    <3>3. CASE n # own
      <4>1. (\E b \in 0 .. LastArray : arrays[b] = n) \/ (\E s \in Threads : loc[s].own = n)
        BY <3>1 DEF BInv, ArraysExact
      <4>2. n # Null
        BY DEF BucketLocksAssumption
      <4>3. QED
        BY <1>5, <1>7, <3>3, <4>1, <4>2
    <3>4. QED
      BY <3>2, <3>3
  <2>5. QED
    BY <2>1, <2>2, <2>3, <2>4 DEF ArraysExact
<1>13. OwnersExact'
  <2>1. \A j \in Buckets : Owners(j)' = Owners(j)
    BY <1>1, <1>7 DEF Owners, BInv, TypeOK
  <2>2. QED
    BY <1>1, <1>5, <2>1, OwnersStay DEF BInv
<1>14. QED
  BY <1>8, <1>10, <1>11, <1>12, <1>13 DEF BInv

\* Two buckets never share a lock.
LEMMA LocksDiffer ==
  ASSUME BucketLocksAssumption, BInv,
         NEW i \in Buckets, NEW j \in Buckets, Made(i), LockOf(i) = LockOf(j)
  PROVE  i = j
<1> DEFINE a == ArrayIndex(i)
           b == ArrayIndex(j)
<1>1. a \in 0 .. LastArray /\ b \in 0 .. LastArray /\ LastBucket \in Nat
  BY PlaceTyped DEF BucketLocksAssumption
<1>2. i \in Nat /\ j \in Nat
  BY <1>1 DEF Buckets
<1>3. a \in Nat /\ b \in Nat
  BY <1>2, ArrayOf
<1>4. arrays[a] = arrays[b] /\ InArray(i) = InArray(j) /\ arrays[a] # Null
  BY DEF LockOf, Made
<1>5. 2 ^ a = 2 ^ b
  BY <1>1, <1>4 DEF BInv, ArraysExact
<1> HIDE DEF a, b
<1>6. ~(a < b)
  <2>1. SUFFICES ASSUME a < b PROVE FALSE
    OBVIOUS
  <2>2. 2 ^ (a + 1) <= 2 ^ b /\ 2 ^ (a + 1) = 2 * 2 ^ a /\ 2 ^ a \in Nat \ {0}
    BY <1>3, <2>1, PowerGrows, PowerDoubles, PowerPositive
  <2>3. QED
    BY <1>5, <2>2
<1>7. ~(b < a)
  <2>1. SUFFICES ASSUME b < a PROVE FALSE
    OBVIOUS
  <2>2. 2 ^ (b + 1) <= 2 ^ a /\ 2 ^ (b + 1) = 2 * 2 ^ b /\ 2 ^ b \in Nat \ {0}
    BY <1>3, <2>1, PowerGrows, PowerDoubles, PowerPositive
  <2>3. QED
    BY <1>5, <2>2
<1>8. a = b
  BY <1>3, <1>6, <1>7
<1>9. QED
  BY <1>2, <1>4, <1>8, PlacesDiffer DEF a, b

\* A thread becomes the owner of a bucket whose lock is free.
LEMMA OwnerEnters ==
  ASSUME BucketLocksAssumption, BInv, NEW t \in Threads, NEW i \in Buckets,
         Made(i), LockOf(i) \notin taken,
         arrays' = arrays, taken' = taken \cup {LockOf(i)},
         \A j \in Buckets : Owners(j)' = IF j = i THEN Owners(j) \cup {t} ELSE Owners(j)
  PROVE  OwnersExact'
<1>1. Owners(i) = {}
  BY DEF BInv, OwnersExact
<1>2. \A j \in Buckets : LockOf(j)' = LockOf(j) /\ Made(j)' = Made(j)
  BY DEF LockOf, Made
<1>3. \A j \in Buckets : \A r, s \in Owners(j)' : r = s
  BY <1>1 DEF BInv, OwnersExact
<1>4. \A j \in Buckets : Owners(j)' # {} => Made(j)'
  BY <1>2 DEF BInv, OwnersExact
<1> DEFINE J == {j \in Buckets : Owners(j) # {}}
           K == {j \in Buckets : Owners(j)' # {}}
<1>5. K = J \cup {i}
  OBVIOUS
<1>6. taken = {LockOf(j) : j \in J}
  BY DEF BInv, OwnersExact
<1> HIDE DEF J
<1>7. taken' = {LockOf(j) : j \in K}
  BY <1>5, <1>6
<1>8. K \subseteq Buckets /\ {LockOf(j)' : j \in K} = {LockOf(j) : j \in K}
  BY <1>2
<1>9. QED
  BY <1>3, <1>4, <1>7, <1>8 DEF OwnersExact

\* The owner of a bucket releases its lock.
LEMMA OwnerLeaves ==
  ASSUME BucketLocksAssumption, BInv, NEW t \in Threads, NEW i \in Buckets,
         t \in Owners(i),
         arrays' = arrays, taken' = taken \ {LockOf(i)},
         \A j \in Buckets : Owners(j)' = IF j = i THEN Owners(j) \ {t} ELSE Owners(j)
  PROVE  OwnersExact'
<1>1. Owners(i)' = {} /\ Made(i)
  BY DEF BInv, OwnersExact
<1>2. \A j \in Buckets : LockOf(j)' = LockOf(j) /\ Made(j)' = Made(j)
  BY DEF LockOf, Made
<1>3. \A j \in Buckets : \A r, s \in Owners(j)' : r = s
  BY <1>1 DEF BInv, OwnersExact
<1>4. \A j \in Buckets : Owners(j)' # {} => Made(j)'
  BY <1>1, <1>2 DEF BInv, OwnersExact
<1> DEFINE J == {j \in Buckets : Owners(j) # {}}
           K == {j \in Buckets : Owners(j)' # {}}
<1>5. K = J \ {i} /\ J \subseteq Buckets
  BY <1>1
<1>6. taken = {LockOf(j) : j \in J}
  BY DEF BInv, OwnersExact
<1>7. \A j \in Buckets : LockOf(i) = LockOf(j) => i = j
  BY <1>1, LocksDiffer
<1> HIDE DEF J, K
<1>8. taken' = {LockOf(j) : j \in K}
  BY <1>5, <1>6, <1>7
<1>9. K \subseteq Buckets /\ {LockOf(j)' : j \in K} = {LockOf(j) : j \in K}
  BY <1>2, <1>5
<1>10. QED
  BY <1>3, <1>4, <1>8, <1>9 DEF OwnersExact, K

\* An attempt takes the lock of a bucket without an owner, or fails.
LEMMA TryLockKeeps ==
  ASSUME BucketLocksAssumption, BInv, NEW t \in Threads, TryLock(t)
  PROVE  BInv'
<1> DEFINE i == loc[t].i
<1>1. /\ pc[t] = "try" /\ pc' = [pc EXCEPT ![t] = IF loc[t].l \in taken THEN "look" ELSE "owner"]
      /\ taken' = taken \cup {loc[t].l}
      /\ UNCHANGED <<arrays, size, inRehash, mutex, loc>>
  BY DEF TryLock, Goto
<1>2. i \in Buckets /\ loc[t].l = LockOf(i) /\ Made(i) /\ ~loc[t].rehash
  BY <1>1 DEF BInv, TypeOK, LocalsExact, Trying, Waiting
<1>3. TypeOK'
  <2>1. arrays[ArrayIndex(i)] \in Addresses \cup {Null} /\ InArray(i) \in 0 .. LastBucket
    BY <1>2, PlaceTyped DEF BInv, TypeOK, BucketLocksAssumption
  <2>2. loc[t].l \in Addresses \X (0 .. LastBucket)
    BY <1>2, <2>1 DEF LockOf, Made
  <2>3. pc' \in [Threads -> PC]
    BY <1>1 DEF BInv, TypeOK, PC
  <2>4. QED
    BY <1>1, <2>2, <2>3 DEF BInv, TypeOK
<1>4. ASSUME NEW s \in Threads PROVE LocalsExact(s)'
  <2>1. LocalsExact(s) /\ pc'[s] = IF s = t THEN IF loc[t].l \in taken THEN "look" ELSE "owner" ELSE pc[s]
    BY <1>1 DEF BInv, TypeOK
  <2>2. QED
    BY <1>1, <2>1 DEF LocalsExact, Trying, Waiting, Rehashing, LockOf, Made
<1>5. OneRehash' /\ ArraysExact'
  BY <1>1 DEF BInv, OneRehash, ArraysExact
<1>6. OwnersExact'
  <2>1. CASE loc[t].l \in taken
    <3>1. \A j \in Buckets : Owners(j)' = Owners(j)
      BY <1>1, <2>1 DEF Owners, BInv, TypeOK
    <3>2. QED
      BY <1>1, <2>1, <3>1, OwnersStay DEF BInv
  <2>2. CASE loc[t].l \notin taken
    <3>1. \A j \in Buckets : Owners(j)' = IF j = i THEN Owners(j) \cup {t} ELSE Owners(j)
      BY <1>1, <1>2, <2>2 DEF Owners, BInv, TypeOK
    <3>2. QED
      BY <1>1, <1>2, <2>2, <3>1, OwnerEnters
  <2>3. QED
    BY <2>1, <2>2
<1>7. QED
  BY <1>3, <1>4, <1>5, <1>6 DEF BInv

\* The lock is released, and its bucket has no owner.
LEMMA UnlockKeeps ==
  ASSUME BucketLocksAssumption, BInv, NEW t \in Threads, Unlock(t)
  PROVE  BInv'
<1> DEFINE i == loc[t].i
<1>1. /\ pc[t] = "owner" /\ pc' = [pc EXCEPT ![t] = "idle"]
      /\ taken' = taken \ {loc[t].l}
      /\ loc' = [loc EXCEPT ![t] = NoLocals]
      /\ UNCHANGED <<arrays, size, inRehash, mutex>>
  BY DEF Unlock, Goto
<1>2. i \in Buckets /\ loc[t].l = LockOf(i) /\ ~loc[t].rehash /\ loc[t].own = Null
  BY <1>1 DEF BInv, TypeOK, LocalsExact, Trying
<1>3. TypeOK'
  BY <1>1, NoLocalsTyped DEF BInv, TypeOK, PC
<1>4. ASSUME NEW s \in Threads PROVE LocalsExact(s)'
  <2>1. CASE s = t
    BY <1>1, <2>1 DEF BInv, TypeOK, LocalsExact, NoLocals, Trying, Waiting, Rehashing
  <2>2. CASE s # t
    BY <1>1, <2>2, OthersStay DEF BInv, TypeOK
  <2>3. QED
    BY <2>1, <2>2
<1>5. \A s \in Threads : loc'[s].rehash = loc[s].rehash /\ loc'[s].own = loc[s].own
  BY <1>1, <1>2 DEF BInv, TypeOK, NoLocals
<1>6. OneRehash' /\ ArraysExact'
  BY <1>1, <1>5 DEF BInv, OneRehash, ArraysExact
<1>7. OwnersExact'
  <2>1. t \in Owners(i)
    BY <1>1 DEF Owners
  <2>2. \A j \in Buckets : Owners(j)' = IF j = i THEN Owners(j) \ {t} ELSE Owners(j)
    BY <1>1, <1>2 DEF Owners, BInv, TypeOK, NoLocals
  <2>3. QED
    BY <1>1, <1>2, <2>1, <2>2, OwnerLeaves
<1>8. QED
  BY <1>3, <1>4, <1>6, <1>7 DEF BInv

\* One thread at a time begins a rehash, on all buckets in turn.
LEMMA CallRehashKeeps ==
  ASSUME BucketLocksAssumption, BInv, NEW t \in Threads, CallRehash(t)
  PROVE  BInv'
<1>1. /\ ~inRehash /\ pc[t] = "idle" /\ pc' = [pc EXCEPT ![t] = "at"]
      /\ loc' = [loc EXCEPT ![t].rehash = TRUE] /\ inRehash' = TRUE
      /\ UNCHANGED <<arrays, size, taken, mutex>>
  BY DEF CallRehash, Goto
<1>2. loc[t] = NoLocals /\ \A s \in Threads : ~loc[s].rehash
  BY <1>1 DEF BInv, LocalsExact
<1>3. TypeOK'
  BY <1>1 DEF BInv, TypeOK, PC
<1>4. \A s \in Threads : loc'[s].own = loc[s].own /\ loc'[s].rehash = (s = t)
  BY <1>1, <1>2 DEF BInv, TypeOK
<1>5. ASSUME NEW s \in Threads PROVE LocalsExact(s)'
  <2>1. CASE s = t
    BY <1>1, <1>2, <2>1 DEF BInv, TypeOK, LocalsExact, NoLocals, Trying, Waiting, Rehashing
  <2>2. CASE s # t
    BY <1>1, <1>2, <2>2, OthersStay DEF BInv, TypeOK
  <2>3. QED
    BY <2>1, <2>2
<1>6. OneRehash' /\ ArraysExact'
  <2>1. OneRehash'
    BY <1>4 DEF OneRehash
  <2>2. ArraysExact'
    BY <1>1, <1>4 DEF BInv, ArraysExact
  <2>3. QED
    BY <2>1, <2>2
<1>7. OwnersExact'
  <2>1. loc'[t].i = 0 /\ \A j \in Buckets : ~(j < 0)
    BY <1>1, <1>2 DEF BInv, TypeOK, NoLocals, Buckets
  <2>2. \A j \in Buckets : Owners(j)' = Owners(j)
    BY <1>1, <1>2, <2>1 DEF Owners, BInv, TypeOK
  <2>3. QED
    BY <1>1, <2>2, OwnersStay DEF BInv
<1>8. QED
  BY <1>3, <1>5, <1>6, <1>7 DEF BInv

\* A rehash ends.
LEMMA LeaveRehashKeeps ==
  ASSUME BucketLocksAssumption, BInv, NEW t \in Threads, LeaveRehash(t)
  PROVE  BInv'
<1>1. /\ pc[t] = "rh_leave" /\ pc' = [pc EXCEPT ![t] = "idle"]
      /\ loc' = [loc EXCEPT ![t] = NoLocals] /\ inRehash' = FALSE
      /\ UNCHANGED <<arrays, size, taken, mutex>>
  BY DEF LeaveRehash, Goto
<1>2. loc[t].rehash /\ loc[t].own = Null /\ \A s \in Threads : s # t => ~loc[s].rehash
  BY <1>1 DEF BInv, LocalsExact, OneRehash, Rehashing
<1>3. TypeOK'
  BY <1>1, NoLocalsTyped DEF BInv, TypeOK, PC
<1>4. \A s \in Threads : loc'[s].own = loc[s].own /\ ~loc'[s].rehash
  BY <1>1, <1>2 DEF BInv, TypeOK, NoLocals
<1>5. ASSUME NEW s \in Threads PROVE LocalsExact(s)'
  <2>1. CASE s = t
    BY <1>1, <2>1 DEF BInv, TypeOK, LocalsExact, NoLocals, Trying, Waiting, Rehashing
  <2>2. CASE s # t
    BY <1>1, <1>2, <2>2, OthersStay DEF BInv, TypeOK
  <2>3. QED
    BY <2>1, <2>2
<1>6. OneRehash' /\ ArraysExact'
  BY <1>1, <1>4 DEF BInv, OneRehash, ArraysExact
<1>7. OwnersExact'
  <2>1. \A j \in Buckets : Owners(j)' = Owners(j)
    BY <1>1, <1>4 DEF Owners, BInv, TypeOK
  <2>2. QED
    BY <1>1, <2>1, OwnersStay DEF BInv
<1>8. QED
  BY <1>3, <1>5, <1>6, <1>7 DEF BInv

\* The rehash finds the next lock and waits for it.
LEMMA RehashLocksKeeps ==
  ASSUME BucketLocksAssumption, BInv, NEW t \in Threads, RehashLocks(t)
  PROVE  BInv'
<1> DEFINE i    == loc[t].i
           last == i = LastBucket
           j1   == IF last THEN 0 ELSE i + 1
<1>1. /\ pc[t] = "rh_lock" /\ pc' = [pc EXCEPT ![t] = IF last THEN "rh_unlock" ELSE "at"]
      /\ loc[t].l \notin taken /\ taken' = taken \cup {loc[t].l}
      /\ UNCHANGED <<arrays, size, inRehash, mutex>>
  BY DEF RehashLocks, Goto
<1>2. LocalsExact(t) /\ i \in Buckets /\ i \in Nat /\ LastBucket \in Nat /\ i <= LastBucket
  BY DEF BInv, TypeOK, Buckets, BucketLocksAssumption
<1>3. loc[t].l = LockOf(i) /\ Made(i) /\ loc[t].rehash /\ loc[t].own = Null /\ inRehash
  BY <1>1, <1>2 DEF LocalsExact, Rehashing
<1>4. j1 \in Buckets /\ At(j1) \in Place
  <2>1. j1 \in Buckets
    BY <1>2 DEF Buckets
  <2>2. QED
    BY <1>2, <2>1, PlaceTyped
<1>5. loc' = [loc EXCEPT ![t].i = j1, ![t].place = At(j1)]
  <2>1. CASE last
    BY <2>1 DEF RehashLocks
  <2>2. CASE ~last
    <3>1. loc' = [loc EXCEPT ![t].i = i + 1, ![t].place = NextPlace(loc[t].place)]
      BY <2>2 DEF RehashLocks
    <3>2. NextPlace(loc[t].place) = At(i + 1)
      BY <1>2, NextIsNext DEF LocalsExact
    <3>3. QED
      BY <2>2, <3>1, <3>2
  <2>3. QED
    BY <2>1, <2>2
<1> HIDE DEF j1
<1>6. TypeOK'
  <2>1. pc' \in [Threads -> PC]
    BY <1>1 DEF BInv, TypeOK, PC
  <2>2. arrays[ArrayIndex(i)] \in Addresses \cup {Null} /\ InArray(i) \in 0 .. LastBucket
    BY <1>2, PlaceTyped DEF BInv, TypeOK
  <2>3. loc[t].l \in Addresses \X (0 .. LastBucket)
    BY <1>3, <2>2 DEF LockOf, Made
  <2> DEFINE Locals == [i : Buckets, place : Place, own : Addresses \cup {Null},
                        l : (Addresses \cup {Null}) \X (0 .. LastBucket), rehash : BOOLEAN]
  <2>4. loc' \in [Threads -> Locals]
    BY <1>4, <1>5 DEF BInv, TypeOK
  <2>5. QED
    BY <1>1, <2>1, <2>3, <2>4 DEF BInv, TypeOK
<1>7. \A s \in Threads : /\ loc'[s].own = loc[s].own /\ loc'[s].rehash = loc[s].rehash
                         /\ loc'[s].l = loc[s].l
                         /\ loc'[s].i = IF s = t THEN j1 ELSE loc[s].i
                         /\ loc'[s].place = IF s = t THEN At(j1) ELSE loc[s].place
  BY <1>5 DEF BInv, TypeOK
<1>8. ASSUME NEW s \in Threads PROVE LocalsExact(s)'
  <2>1. CASE s = t
    <3>1. pc'[t] \in {"rh_unlock", "at"}
      BY <1>1 DEF BInv, TypeOK
    <3>2. QED
      BY <1>1, <1>3, <1>7, <2>1, <3>1 DEF LocalsExact, Trying, Waiting, Rehashing
  <2>2. CASE s # t
    <3>1. loc'[s] = loc[s] /\ pc'[s] = pc[s]
      BY <1>1, <1>5, <2>2 DEF BInv, TypeOK
    <3>2. QED
      BY <1>1, <1>3, <2>2, <3>1, OthersStay
  <2>3. QED
    BY <2>1, <2>2
<1>9. OneRehash' /\ ArraysExact'
  BY <1>1, <1>7 DEF BInv, OneRehash, ArraysExact
<1>10. OwnersExact'
  <2>1. ASSUME NEW j \in Buckets, NEW s \in Threads
        PROVE  s \in Owners(j)' <=> s \in Owners(j) \/ (j = i /\ s = t)
    <3>1. CASE s # t
      BY <1>1, <1>7, <3>1 DEF Owners, BInv, TypeOK
    <3>2. CASE s = t
      <4>1. t \in Owners(j) <=> j < i
        BY <1>1, <1>3 DEF Owners
      <4>2. t \in Owners(j)' <=> IF last THEN j >= 0 ELSE j < i + 1
        BY <1>1, <1>3, <1>7 DEF Owners, BInv, TypeOK, j1
      <4>3. j \in Nat /\ j <= LastBucket
        BY <1>2 DEF Buckets
      <4>4. QED
        BY <1>2, <3>2, <4>1, <4>2, <4>3
    <3>3. QED
      BY <3>1, <3>2
  <2>2. \A j \in Buckets : Owners(j) \subseteq Threads /\ Owners(j)' \subseteq Threads
    BY DEF Owners
  <2>3. \A j \in Buckets : Owners(j)' = IF j = i THEN Owners(j) \cup {t} ELSE Owners(j)
    BY <2>1, <2>2
  <2>4. QED
    BY <1>1, <1>2, <1>3, <2>3, OwnerEnters
<1>11. QED
  BY <1>6, <1>8, <1>9, <1>10 DEF BInv

\* The rehash finds and releases the next lock.
LEMMA RehashUnlocksKeeps ==
  ASSUME BucketLocksAssumption, BInv, NEW t \in Threads, RehashUnlocks(t)
  PROVE  BInv'
<1> DEFINE i    == loc[t].i
           last == i = LastBucket
           j1   == IF last THEN i ELSE i + 1
<1>1. /\ pc[t] = "rh_unlock" /\ pc' = [pc EXCEPT ![t] = IF last THEN "rh_notify" ELSE "rh_unlock"]
      /\ taken' = taken \ {<<arrays[loc[t].place.ai], loc[t].place.idx>>}
      /\ UNCHANGED <<arrays, size, inRehash, mutex>>
  BY DEF RehashUnlocks, Goto
<1>2. LocalsExact(t) /\ i \in Buckets /\ i \in Nat /\ LastBucket \in Nat /\ i <= LastBucket
  BY DEF BInv, TypeOK, Buckets, BucketLocksAssumption
<1>3. loc[t].rehash /\ loc[t].own = Null /\ inRehash /\ taken' = taken \ {LockOf(i)}
  BY <1>1, <1>2, PlaceOf DEF LocalsExact, Rehashing, LockOf
<1>4. j1 \in Buckets /\ At(j1) \in Place
  <2>1. j1 \in Buckets
    BY <1>2 DEF Buckets
  <2>2. QED
    BY <1>2, <2>1, PlaceTyped
<1>5. loc' = [loc EXCEPT ![t].i = j1, ![t].place = At(j1)]
  <2>1. CASE last
    <3>1. loc' = loc /\ loc[t].place = At(i)
      BY <1>2, <2>1 DEF RehashUnlocks, LocalsExact
    <3>2. QED
      BY <2>1, <3>1 DEF BInv, TypeOK
  <2>2. CASE ~last
    <3>1. loc' = [loc EXCEPT ![t].i = i + 1, ![t].place = NextPlace(loc[t].place)]
      BY <2>2 DEF RehashUnlocks
    <3>2. NextPlace(loc[t].place) = At(i + 1)
      BY <1>2, NextIsNext DEF LocalsExact
    <3>3. QED
      BY <2>2, <3>1, <3>2
  <2>3. QED
    BY <2>1, <2>2
<1> HIDE DEF j1
<1>6. TypeOK'
  <2>1. pc' \in [Threads -> PC]
    BY <1>1 DEF BInv, TypeOK, PC
  <2> DEFINE L == (Addresses \cup {Null}) \X (0 .. LastBucket)
             Locals == [i : Buckets, place : Place, own : Addresses \cup {Null},
                        l : L, rehash : BOOLEAN]
  <2>2. loc' \in [Threads -> Locals]
    <3>1. loc \in [Threads -> Locals]
      BY DEF BInv, TypeOK
    <3> HIDE DEF L
    <3>2. QED
      BY <1>4, <1>5, <3>1
  <2>3. taken' \subseteq Addresses \X (0 .. LastBucket)
    BY <1>1 DEF BInv, TypeOK
  <2>4. QED
    BY <1>1, <2>1, <2>2, <2>3 DEF BInv, TypeOK
<1>7. \A s \in Threads : /\ loc'[s].own = loc[s].own /\ loc'[s].rehash = loc[s].rehash
                         /\ loc'[s].l = loc[s].l
                         /\ loc'[s].i = IF s = t THEN j1 ELSE loc[s].i
                         /\ loc'[s].place = IF s = t THEN At(j1) ELSE loc[s].place
  BY <1>5 DEF BInv, TypeOK
<1>8. ASSUME NEW s \in Threads PROVE LocalsExact(s)'
  <2>1. CASE s = t
    <3>1. pc'[t] \in {"rh_unlock", "rh_notify"}
      BY <1>1 DEF BInv, TypeOK
    <3>2. QED
      BY <1>1, <1>3, <1>7, <2>1, <3>1 DEF LocalsExact, Trying, Waiting, Rehashing
  <2>2. CASE s # t
    <3>1. loc'[s] = loc[s] /\ pc'[s] = pc[s]
      BY <1>1, <1>5, <2>2 DEF BInv, TypeOK
    <3>2. QED
      BY <1>1, <1>3, <2>2, <3>1, OthersStay
  <2>3. QED
    BY <2>1, <2>2
<1>9. OneRehash' /\ ArraysExact'
  BY <1>1, <1>7 DEF BInv, OneRehash, ArraysExact
<1>10. OwnersExact'
  <2>1. ASSUME NEW j \in Buckets, NEW s \in Threads
        PROVE  s \in Owners(j)' <=> s \in Owners(j) /\ ~(j = i /\ s = t)
    <3>1. CASE s # t
      BY <1>1, <1>7, <3>1 DEF Owners, BInv, TypeOK
    <3>2. CASE s = t
      <4>1. t \in Owners(j) <=> j >= i
        BY <1>1 DEF Owners
      <4>2. t \in Owners(j)' <=> ~last /\ j >= i + 1
        BY <1>1, <1>7 DEF Owners, BInv, TypeOK, j1
      <4>3. j \in Nat /\ j <= LastBucket
        BY <1>2 DEF Buckets
      <4>4. QED
        BY <1>2, <3>2, <4>1, <4>2, <4>3
    <3>3. QED
      BY <3>1, <3>2
  <2>2. \A j \in Buckets : Owners(j) \subseteq Threads /\ Owners(j)' \subseteq Threads
    BY DEF Owners
  <2>3. \A j \in Buckets : Owners(j)' = IF j = i THEN Owners(j) \ {t} ELSE Owners(j)
    BY <2>1, <2>2
  <2>4. t \in Owners(i)
    BY <1>1, <1>2 DEF Owners
  <2>5. QED
    BY <1>1, <1>2, <1>3, <2>3, <2>4, OwnerLeaves
<1>11. QED
  BY <1>6, <1>8, <1>9, <1>10 DEF BInv

\* What the steps that only move a thread along its wait change.
LEMMA WaitKeeps ==
  ASSUME BInv, NEW t \in Threads,
         \/ LookForRehash(t) \/ TakeMutex(t) \/ CheckAndSleep(t) \/ Timeout(t)
         \/ LeaveMutex(t) \/ RehashNotifies(t)
  PROVE  BInv'
<1>1. UNCHANGED <<arrays, size, taken, inRehash, loc>>
  BY DEF LookForRehash, TakeMutex, CheckAndSleep, Timeout, LeaveMutex, RehashNotifies
<1>2. mutex' \in Threads \cup {Null}
  BY DEF BInv, TypeOK, LookForRehash, TakeMutex, CheckAndSleep, Timeout, LeaveMutex, RehashNotifies
<1>3. /\ pc' \in [Threads -> PC]
      /\ \A s \in Threads : \/ pc'[s] = pc[s]
                            \/ pc[s] \in Waiting /\ pc'[s] \in Waiting
                            \/ pc[s] = "rh_notify" /\ pc'[s] = "rh_leave"
  <2>1. CASE RehashNotifies(t)
    BY <2>1 DEF RehashNotifies, BInv, TypeOK, PC, Waiting
  <2>2. CASE LookForRehash(t)
    BY <2>2 DEF LookForRehash, Goto, BInv, TypeOK, PC, Waiting
  <2>3. CASE TakeMutex(t)
    BY <2>3 DEF TakeMutex, BInv, TypeOK, PC, Waiting
  <2>4. CASE CheckAndSleep(t)
    BY <2>4 DEF CheckAndSleep, Goto, BInv, TypeOK, PC, Waiting
  <2>5. CASE Timeout(t)
    BY <2>5 DEF Timeout, Goto, BInv, TypeOK, PC, Waiting
  <2>6. CASE LeaveMutex(t)
    BY <2>6 DEF LeaveMutex, Goto, BInv, TypeOK, PC, Waiting
  <2>7. QED
    BY <2>1, <2>2, <2>3, <2>4, <2>5, <2>6
<1>4. QED
  BY <1>1, <1>2, <1>3, QuietStep

\* Every step keeps the invariant.
LEMMA NextKeeps ==
  ASSUME BucketLocksAssumption, BInv, [Next]_vars
  PROVE  BInv'
<1>1. CASE UNCHANGED vars
  <2>1. pc \in [Threads -> PC] /\ mutex \in Threads \cup {Null}
    BY DEF BInv, TypeOK
  <2>2. QED
    BY <1>1, <2>1, QuietStep DEF vars
<1>2. ASSUME NEW t \in Threads, Call(t) \/ Continue(t) PROVE BInv'
  <2>1. CASE Call(t)
    BY <2>1, CallLockKeeps, CallRehashKeeps DEF Call
  <2>2. CASE FindLock(t)
    BY <2>2, LoadArrayKeeps, AllocateArrayKeeps, PublishArrayKeeps DEF FindLock
  <2>3. CASE WaitForLock(t)
    BY <2>3, TryLockKeeps, WaitKeeps DEF WaitForLock
  <2>4. CASE Unlock(t)
    BY <2>4, UnlockKeeps
  <2>5. CASE DoRehash(t)
    BY <2>5, RehashLocksKeeps, RehashUnlocksKeeps, WaitKeeps, LeaveRehashKeeps DEF DoRehash
  <2>6. QED
    BY <1>2, <2>1, <2>2, <2>3, <2>4, <2>5 DEF Continue
<1>3. QED
  BY <1>1, <1>2 DEF Next

(***************************************************************************)
(* The invariant BInv of at(), of the iterators and of lock(): what every  *)
(* thread looks for, has found and owns agrees with the arrays.            *)
(***************************************************************************)
THEOREM Invariant ==
  ASSUME BucketLocksAssumption
  PROVE  SafetySpec => []BInv
<1>1. Init => BInv
  BY InitHolds
<1>2. BInv /\ [Next]_vars => BInv'
  BY NextKeeps
<1>3. QED
  BY <1>1, <1>2, PTL DEF SafetySpec

-----------------------------------------------------------------------------
(***************************************************************************)
(* However many threads race to make the arrays, and whatever the size of  *)
(* the table, every bucket has one lock of its own, and its arrays and     *)
(* iterators lead every thread to it: a bucket has one user.               *)
(***************************************************************************)
THEOREM BucketsHaveOneLock ==
  ASSUME BucketLocksAssumption
  PROVE  SafetySpec => []OneLockPerBucket
<1>1. ASSUME BInv PROVE OneLockPerBucket
  <2>1. \A i \in Buckets : \A s, t \in Owners(i) : s = t
    BY <1>1 DEF BInv, OwnersExact
  <2>2. taken = {LockOf(i) : i \in {j \in Buckets : Owners(j) # {}}}
    BY <1>1 DEF BInv, OwnersExact
  <2>3. ASSUME NEW l \in taken PROVE l[2] < size[l[1]]
    <3>1. PICK i \in Buckets : l = LockOf(i) /\ Owners(i) # {}
      BY <2>2
    <3>2. i \in Nat /\ ArrayIndex(i) \in 0 .. LastArray
      BY PlaceTyped DEF Buckets, BucketLocksAssumption
    <3>3. size[arrays[ArrayIndex(i)]] = 2 ^ ArrayIndex(i)
      BY <1>1, <3>1, <3>2 DEF BInv, OwnersExact, ArraysExact, Made
    <3>4. InArray(i) < 2 ^ ArrayIndex(i)
      BY <3>2, PlaceInside
    <3>5. QED
      BY <3>1, <3>3, <3>4 DEF LockOf
  <2>4. QED
    BY <2>1, <2>2, <2>3 DEF OneLockPerBucket, LockOf
<1>2. QED
  BY <1>1, Invariant, PTL

(***************************************************************************)
(* Of arrays made at the same time by several threads one is published and *)
(* the others are freed: none is leaked, and none is freed in use.         *)
(***************************************************************************)
THEOREM ArraysAreKept ==
  ASSUME BucketLocksAssumption
  PROVE  SafetySpec => []NoArrayLost
<1>1. ASSUME BInv PROVE NoArrayLost
  <2> DEFINE Live == {m \in Addresses : size[m] > 0}
             Known == ({arrays[a] : a \in 0 .. LastArray} \cup {loc[t].own : t \in Threads}) \ {Null}
  <2>1. ASSUME NEW m \in Live PROVE m \in Known
    BY <1>1 DEF BInv, ArraysExact, BucketLocksAssumption
  <2>2. \A a \in 0 .. LastArray : a \in Nat /\ 2 ^ a > 0
    BY PowerPositive, ArrayOf DEF LastArray, BucketLocksAssumption
  <2>3. ASSUME NEW a \in 0 .. LastArray, arrays[a] # Null PROVE arrays[a] \in Live
    BY <1>1, <2>2, <2>3 DEF BInv, TypeOK, ArraysExact
  <2>4. ASSUME NEW t \in Threads, loc[t].own # Null PROVE loc[t].own \in Live
    <3>1. loc[t].own \in Addresses /\ size[loc[t].own] = 2 ^ loc[t].place.ai
      BY <1>1, <2>4 DEF BInv, LocalsExact
    <3>2. loc[t].place.ai \in 0 .. LastArray
      BY <1>1, PlaceOf
    <3>3. QED
      BY <2>2, <3>1, <3>2
  <2>5. Live = Known
    BY <2>1, <2>3, <2>4
  <2>6. QED
    BY <2>5 DEF NoArrayLost
<1>2. QED
  BY <1>1, Invariant, PTL

(***************************************************************************)
(* An array of locks never moves once it is published, as threads keep     *)
(* references to its locks without any protection.                         *)
(***************************************************************************)
THEOREM PublishedArraysStay ==
  ASSUME BucketLocksAssumption
  PROVE  SafetySpec => LocksStay
<1>1. ASSUME BInv, [Next]_vars
      PROVE  [\A a \in 0 .. LastArray : arrays[a] # Null => arrays'[a] = arrays[a]]_arrays
  <2>1. ASSUME NEW t \in Threads, PublishArray(t), NEW a \in 0 .. LastArray, arrays[a] # Null
        PROVE  arrays'[a] = arrays[a]
    BY <1>1, <2>1 DEF PublishArray, BInv, TypeOK
  <2>2. ASSUME NEW t \in Threads, Call(t) \/ Continue(t), ~PublishArray(t)
        PROVE  UNCHANGED arrays
    BY <2>2 DEF Call, Continue, CallLock, CallRehash, FindLock, LoadArray, AllocateArray,
         WaitForLock, TryLock, LookForRehash, TakeMutex, CheckAndSleep, Timeout, LeaveMutex,
         Unlock, DoRehash, RehashLocks, RehashUnlocks, RehashNotifies, LeaveRehash
  <2>3. QED
    BY <1>1, <2>1, <2>2 DEF Next, vars
<1>2. QED
  BY <1>1, Invariant, PTL DEF SafetySpec, LocksStay
=============================================================================
