-------------------------- MODULE ShardedTableProofs --------------------------
(***************************************************************************)
(* Proofs about calls on several tables, for any sets of threads, tables,  *)
(* keys, addresses, and any number of shards.  The inductive invariant     *)
(* TInv says where each thread can be, what it holds there, and that       *)
(* nobody else holds it.  From it follow DataHasOneTable, KeysAccounted    *)
(* and NoCircle.                                                           *)
(***************************************************************************)
EXTENDS ShardedTable, FiniteSetTheorems, FunctionTheorems, TLAPS

-----------------------------------------------------------------------------
\* The inductive invariant.

TwoTables == {"swap", "merge", "compare"}

Locals == [op : {"none", "insert", "erase", "erase_if", "swap", "merge", "compare"},
           a : Tables \cup {Null}, b : Tables \cup {Null}, key : Keys \cup {Null},
           to : DataIds \cup {Null}, from : DataIds \cup {Null},
           i : 0 .. Shards, left : SUBSET Keys, new : BOOLEAN]

\* Which calls can be where.
ControlOf(p, l) ==
  /\ p = "idle" <=> l.op = "none"
  /\ p = "load" => l.op \in {"insert", "erase", "erase_if"}
  /\ p \in {"lock", "make", "unlock"} => l.op = "insert"
  /\ p = "erase" => l.op = "erase"
  /\ p \in {"grow", "put"} => l.op \in {"insert", "merge"}
  /\ p \in {"both", "release"} => l.op \in TwoTables
  /\ p \in {"swap", "swap_second"} => l.op = "swap"
  /\ p \in {"merge", "drop"} => l.op = "merge"
  /\ p \in {"compare", "look"} => l.op = "compare"
  /\ p \in {"walk", "bucket", "value", "left"} => l.op \in {"erase_if", "merge", "compare"}
  /\ l.op # "none" => l.a \in Tables
  /\ l.op \in TwoTables => l.b \in Tables /\ l.a # l.b
  /\ l.op \in {"insert", "erase"} => l.key \in Keys

Control == \A t \in Threads : ControlOf(pc[t], loc[t])

\* The tables whose d_data_lock a thread holds.
HasTables(p, l) ==
  IF l.op = "insert" THEN IF p \in {"make", "unlock"} THEN {l.a} ELSE {}
  ELSE IF l.op \in TwoTables /\ p # "both" THEN {l.a, l.b} ELSE {}

TableLocks ==
  \A x \in Tables, t \in Threads : dataLock[x] = t <=> x \in HasTables(pc[t], loc[t])

\* Walks, in a shard and in a bucket of it.
Walks(p, l) ==
  \/ p \in {"walk", "bucket", "value", "left", "drop", "look"}
  \/ p \in {"grow", "put"} /\ l.op = "merge"
InShard(p, l)  == Walks(p, l) /\ p # "walk"
InBucket(p, l) == InShard(p, l) /\ p # "bucket"

ShardLocks ==
  \A d \in DataIds, i \in ShardIds, t \in Threads :
    walkLock[d][i] = t <=> InShard(pc[t], loc[t]) /\ loc[t].from = d /\ loc[t].i = i

BucketLocks ==
  \A d \in DataIds, k \in Keys, t \in Threads :
    bucketLock[d][k] = t <=>
      InBucket(pc[t], loc[t]) /\ loc[t].from = d /\ loc[t].key = k /\ loc[t].i \in d_locks[d]

\* Where a walk is.
WalkAt(p, l) ==
  /\ InShard(p, l) => l.i < Shards /\ l.left \subseteq KeysOf(l.i)
  /\ InBucket(p, l) => l.key \in KeysOf(l.i)

Places == \A t \in Threads : WalkAt(pc[t], loc[t])

\* The data that threads use: that of the tables, where they hold the locks of these.
DataAt(p, l) ==
  /\ p \in {"unlock", "grow", "put"} => l.to \in made
  /\ p = "erase" \/ Walks(p, l) => l.from \in made
  /\ Walks(p, l) /\ l.op = "merge" => l.to = d_data[l.a] /\ l.from = d_data[l.b] /\ l.to \in made
  /\ Walks(p, l) /\ l.op = "compare" => l.from = d_data[l.a] /\ l.to = d_data[l.b] /\ l.to \in made
  /\ p = "swap_second" => l.from \in made \cup {Null}

DataUse ==
  /\ d_data \in [Tables -> made \cup {Null}]
  /\ \A t \in Threads : DataAt(pc[t], loc[t])

\* The key that a merge moves stays in its table until the merge drops it.
MovedAt(p, l) ==
  p \in {"grow", "put", "drop"} /\ l.op = "merge" => l.key \in keys[l.from]

KeysStay == \A t \in Threads : MovedAt(pc[t], loc[t])

Holders(k) == {d \in made : k \in keys[d]}

KeyCount ==
  /\ \A d \in DataIds \ made : keys[d] = {}
  /\ IsFiniteSet(made)
  /\ \A k \in Keys :
       /\ IsFiniteSet(Moving(k))
       /\ Cardinality(Holders(k)) = net[k] + Cardinality(Moving(k))

TInv ==
  /\ TypeOK /\ Control /\ TableLocks /\ ShardLocks /\ BucketLocks /\ Places
  /\ DataUse /\ KeysStay /\ DataHasOneTable /\ KeyCount

-----------------------------------------------------------------------------
\* Types.

\* A changed local is a local.
LEMMA LocalsChange ==
  ASSUME ShardedTableAssumption, NEW l \in Locals
  PROVE  /\ \A d \in DataIds \cup {Null} : [l EXCEPT !.to = d] \in Locals
         /\ \A d \in DataIds \cup {Null} : [l EXCEPT !.from = d] \in Locals
         /\ \A d, e \in DataIds \cup {Null} : [l EXCEPT !.to = d, !.from = e] \in Locals
         /\ \A d, e \in DataIds \cup {Null} : [l EXCEPT !.from = d, !.to = e] \in Locals
         /\ \A s \in SUBSET Keys : [l EXCEPT !.left = s] \in Locals
         /\ \A j \in 0 .. Shards : [l EXCEPT !.i = j] \in Locals
         /\ \A b \in BOOLEAN : [l EXCEPT !.new = b] \in Locals
         /\ \A s \in SUBSET Keys, k \in Keys : [l EXCEPT !.key = k, !.left = s] \in Locals
         /\ \A s \in SUBSET Keys, b \in BOOLEAN : [l EXCEPT !.left = s, !.new = b] \in Locals
         /\ \A op \in {"insert", "erase"}, x \in Tables, k \in Keys : [l EXCEPT !.op = op, !.a = x, !.key = k] \in Locals
         /\ \A x \in Tables : [l EXCEPT !.op = "erase_if", !.a = x] \in Locals
         /\ \A op \in {"swap", "merge", "compare"}, x, y \in Tables : [l EXCEPT !.op = op, !.a = x, !.b = y] \in Locals
         /\ NoLocals \in Locals
<1>1. \A d \in DataIds \cup {Null} : [l EXCEPT !.to = d] \in Locals
  BY DEF Locals
<1>2. \A d \in DataIds \cup {Null} : [l EXCEPT !.from = d] \in Locals
  BY DEF Locals
<1>3. \A d, e \in DataIds \cup {Null} : [l EXCEPT !.to = d, !.from = e] \in Locals
  BY DEF Locals
<1>31. \A d, e \in DataIds \cup {Null} : [l EXCEPT !.from = d, !.to = e] \in Locals
  BY DEF Locals
<1>4. \A s \in SUBSET Keys : [l EXCEPT !.left = s] \in Locals
  BY DEF Locals
<1>5. \A j \in 0 .. Shards : [l EXCEPT !.i = j] \in Locals
  BY DEF Locals
<1>6. \A b \in BOOLEAN : [l EXCEPT !.new = b] \in Locals
  BY DEF Locals
<1>7. \A s \in SUBSET Keys, k \in Keys : [l EXCEPT !.key = k, !.left = s] \in Locals
  BY DEF Locals
<1>8. \A s \in SUBSET Keys, b \in BOOLEAN : [l EXCEPT !.left = s, !.new = b] \in Locals
  BY DEF Locals
<1>9. \A op \in {"insert", "erase"}, x \in Tables, k \in Keys : [l EXCEPT !.op = op, !.a = x, !.key = k] \in Locals
  BY DEF Locals
<1>10. \A x \in Tables : [l EXCEPT !.op = "erase_if", !.a = x] \in Locals
  BY DEF Locals
<1>11. \A op \in {"swap", "merge", "compare"}, x, y \in Tables : [l EXCEPT !.op = op, !.a = x, !.b = y] \in Locals
  BY DEF Locals
<1>12. NoLocals \in Locals
  BY DEF Locals, NoLocals, ShardedTableAssumption
<1>13. QED
  BY <1>1, <1>2, <1>3, <1>31, <1>4, <1>5, <1>6, <1>7, <1>8, <1>9, <1>10, <1>11, <1>12

SharedTypes ==
  /\ d_data \in [Tables -> DataIds \cup {Null}]
  /\ dataLock \in [Tables -> Threads \cup {Null}]
  /\ made \subseteq DataIds
  /\ keys \in [DataIds -> SUBSET Keys]
  /\ d_locks \in [DataIds -> SUBSET ShardIds]
  /\ walkLock \in [DataIds -> [ShardIds -> Threads \cup {Null}]]
  /\ bucketLock \in [DataIds -> [Keys -> Threads \cup {Null}]]
  /\ net \in [Keys -> Int]

\* The key of a call on a key, and of a walk that is in a bucket.
LEMMA KeyOf ==
  ASSUME Control, Places, NEW t \in Threads,
         pc[t] \in {"unlock", "grow", "put", "erase"} \/ InBucket(pc[t], loc[t])
  PROVE  loc[t].key \in Keys
BY DEF Control, ControlOf, Places, WalkAt, InBucket, InShard, Walks, KeysOf, TwoTables

\* Steps go to places that exist.
LEMMA StepPC ==
  ASSUME TypeOK, Control, NEW t \in Threads, Call(t) \/ Continue(t)
  PROVE  pc' \in [Threads -> PC]
<1>CallPoint. ASSUME NEW op \in {"insert", "erase"}, NEW x \in Tables, NEW k \in Keys, CallPoint(t, op, x, k) PROVE pc' \in [Threads -> PC]
  BY <1>CallPoint DEF TypeOK, PC, CallPoint, Goto
<1>CallEraseIf. ASSUME NEW x \in Tables, CallEraseIf(t, x) PROVE pc' \in [Threads -> PC]
  BY <1>CallEraseIf DEF TypeOK, PC, CallEraseIf, Goto
<1>CallBoth. ASSUME NEW op \in {"swap", "merge", "compare"}, NEW x \in Tables, NEW y \in Tables, CallBoth(t, op, x, y) PROVE pc' \in [Threads -> PC]
  BY <1>CallBoth DEF TypeOK, PC, CallBoth, Goto
<1>LoadData. ASSUME LoadData(t) PROVE pc' \in [Threads -> PC]
  BY <1>LoadData DEF TypeOK, PC, LoadData, Inserting, Return, Goto
<1>LockData. ASSUME LockData(t) PROVE pc' \in [Threads -> PC]
  BY <1>LockData DEF TypeOK, PC, LockData, Goto
<1>MakeData. ASSUME MakeData(t) PROVE pc' \in [Threads -> PC]
  BY <1>MakeData DEF TypeOK, PC, MakeData, Goto
<1>UnlockData. ASSUME UnlockData(t) PROVE pc' \in [Threads -> PC]
  BY <1>UnlockData DEF TypeOK, PC, UnlockData, Inserting, Goto
<1>Grow. ASSUME Grow(t) PROVE pc' \in [Threads -> PC]
  BY <1>Grow DEF TypeOK, PC, Grow, Goto
<1>Put. ASSUME Put(t) PROVE pc' \in [Threads -> PC]
  BY <1>Put DEF TypeOK, PC, Put, Goto, Return
<1>Erase. ASSUME Erase(t) PROVE pc' \in [Threads -> PC]
  BY <1>Erase DEF TypeOK, PC, Erase, Return, Goto
<1>TakeBoth. ASSUME TakeBoth(t) PROVE pc' \in [Threads -> PC]
  BY <1>TakeBoth DEF TypeOK, PC, TakeBoth, Goto, Control, ControlOf, TwoTables
<1>SwapFirst. ASSUME SwapFirst(t) PROVE pc' \in [Threads -> PC]
  BY <1>SwapFirst DEF TypeOK, PC, SwapFirst, Goto
<1>SwapSecond. ASSUME SwapSecond(t) PROVE pc' \in [Threads -> PC]
  BY <1>SwapSecond DEF TypeOK, PC, SwapSecond, Goto
<1>StartMerge. ASSUME StartMerge(t) PROVE pc' \in [Threads -> PC]
  BY <1>StartMerge DEF TypeOK, PC, StartMerge, Goto
<1>StartCompare. ASSUME StartCompare(t) PROVE pc' \in [Threads -> PC]
  BY <1>StartCompare DEF TypeOK, PC, StartCompare, Goto
<1>Release. ASSUME Release(t) PROVE pc' \in [Threads -> PC]
  BY <1>Release DEF TypeOK, PC, Release, Return, Goto
<1>EndWalk. ASSUME EndWalk(t) PROVE pc' \in [Threads -> PC]
  BY <1>EndWalk DEF TypeOK, PC, EndWalk, AfterWalk, Return, Goto
<1>EnterShard. ASSUME EnterShard(t) PROVE pc' \in [Threads -> PC]
  BY <1>EnterShard DEF TypeOK, PC, EnterShard, Goto
<1>EnterBucket. ASSUME EnterBucket(t) PROVE pc' \in [Threads -> PC]
  BY <1>EnterBucket DEF TypeOK, PC, EnterBucket, Goto
<1>EraseValue. ASSUME EraseValue(t) PROVE pc' \in [Threads -> PC]
  BY <1>EraseValue DEF TypeOK, PC, EraseValue, Goto
<1>AskValue. ASSUME AskValue(t) PROVE pc' \in [Threads -> PC]
  BY <1>AskValue DEF TypeOK, PC, AskValue, Inserting, Goto
<1>DropMerged. ASSUME DropMerged(t) PROVE pc' \in [Threads -> PC]
  BY <1>DropMerged DEF TypeOK, PC, DropMerged, Goto
<1>LookFor. ASSUME LookFor(t) PROVE pc' \in [Threads -> PC]
  BY <1>LookFor DEF TypeOK, PC, LookFor, Goto
<1>LeaveBucket. ASSUME LeaveBucket(t) PROVE pc' \in [Threads -> PC]
  BY <1>LeaveBucket DEF TypeOK, PC, LeaveBucket, Goto
<1>LeaveShard. ASSUME LeaveShard(t) PROVE pc' \in [Threads -> PC]
  BY <1>LeaveShard DEF TypeOK, PC, LeaveShard, Goto
<1> QED
  BY <1>CallPoint, <1>CallEraseIf, <1>CallBoth, <1>LoadData, <1>LockData, <1>MakeData, <1>UnlockData, <1>Grow, <1>Put, <1>Erase, <1>TakeBoth, <1>SwapFirst, <1>SwapSecond, <1>StartMerge, <1>StartCompare, <1>Release, <1>EndWalk, <1>EnterShard, <1>EnterBucket, <1>EraseValue, <1>AskValue, <1>DropMerged, <1>LookFor, <1>LeaveBucket, <1>LeaveShard DEF Call, Continue

\* Steps keep the types of the locals.
LEMMA StepLocals ==
  ASSUME ShardedTableAssumption, TypeOK, Control, Places, d_data' \in [Tables -> DataIds \cup {Null}],
         NEW t \in Threads, Call(t) \/ Continue(t)
  PROVE  loc' \in [Threads -> Locals]
<1>1. loc \in [Threads -> Locals] /\ loc[t] \in Locals
  BY DEF TypeOK, Locals
<1>CallPoint. ASSUME NEW op \in {"insert", "erase"}, NEW x \in Tables, NEW k \in Keys, CallPoint(t, op, x, k) PROVE loc' \in [Threads -> Locals]
  BY <1>1, <1>CallPoint, LocalsChange DEF CallPoint, Goto
<1>CallEraseIf. ASSUME NEW x \in Tables, CallEraseIf(t, x) PROVE loc' \in [Threads -> Locals]
  BY <1>1, <1>CallEraseIf, LocalsChange DEF CallEraseIf, Goto
<1>CallBoth. ASSUME NEW op \in {"swap", "merge", "compare"}, NEW x \in Tables, NEW y \in Tables, CallBoth(t, op, x, y) PROVE loc' \in [Threads -> Locals]
  BY <1>1, <1>CallBoth, LocalsChange DEF CallBoth, Goto
<1>LoadData. ASSUME LoadData(t) PROVE loc' \in [Threads -> Locals]
  <2>1. loc[t].a \in Tables
    BY <1>LoadData DEF TypeOK, Control, ControlOf, TwoTables, LoadData, Inserting, Return, Goto
  <2>2. d_data[loc[t].a] \in DataIds \cup {Null}
    BY <2>1 DEF TypeOK
  <2>4. CASE UNCHANGED loc
    BY <1>1, <2>4
  <2>5. ASSUME loc' # loc PROVE \E r \in Locals : loc' = [loc EXCEPT ![t] = r]
    BY <1>1, <1>LoadData, <2>2, <2>5, LocalsChange DEF LoadData, Inserting, Return, Goto
  <2>6. QED
    BY <1>1, <2>4, <2>5
<1>LockData. ASSUME LockData(t) PROVE loc' \in [Threads -> Locals]
  BY <1>1, <1>LockData, LocalsChange DEF LockData, Goto
<1>MakeData. ASSUME MakeData(t) PROVE loc' \in [Threads -> Locals]
  <2>1. loc[t].a \in Tables
    BY <1>MakeData DEF TypeOK, Control, ControlOf, TwoTables, MakeData, Goto
  <2>2. d_data'[loc[t].a] \in DataIds \cup {Null}
    BY <2>1 DEF TypeOK
  <2>3. QED
    BY <1>1, <1>MakeData, <2>2, LocalsChange DEF MakeData, Goto
<1>UnlockData. ASSUME UnlockData(t) PROVE loc' \in [Threads -> Locals]
  BY <1>1, <1>UnlockData, LocalsChange DEF UnlockData, Inserting, Goto
<1>Grow. ASSUME Grow(t) PROVE loc' \in [Threads -> Locals]
  BY <1>1, <1>Grow, LocalsChange DEF Grow, Goto
<1>Put. ASSUME Put(t) PROVE loc' \in [Threads -> Locals]
  BY <1>1, <1>Put, LocalsChange DEF Put, Goto, Return
<1>Erase. ASSUME Erase(t) PROVE loc' \in [Threads -> Locals]
  BY <1>1, <1>Erase, LocalsChange DEF Erase, Return, Goto
<1>TakeBoth. ASSUME TakeBoth(t) PROVE loc' \in [Threads -> Locals]
  BY <1>1, <1>TakeBoth, LocalsChange DEF TakeBoth, Goto
<1>SwapFirst. ASSUME SwapFirst(t) PROVE loc' \in [Threads -> Locals]
  <2>1. loc[t].b \in Tables
    BY <1>SwapFirst DEF TypeOK, Control, ControlOf, TwoTables, SwapFirst, Goto
  <2>2. d_data[loc[t].b] \in DataIds \cup {Null}
    BY <2>1 DEF TypeOK
  <2>3. QED
    BY <1>1, <1>SwapFirst, <2>2, LocalsChange DEF SwapFirst, Goto
<1>SwapSecond. ASSUME SwapSecond(t) PROVE loc' \in [Threads -> Locals]
  BY <1>1, <1>SwapSecond, LocalsChange DEF SwapSecond, Goto
<1>StartMerge. ASSUME StartMerge(t) PROVE loc' \in [Threads -> Locals]
  <2>1. loc[t].a \in Tables /\ loc[t].b \in Tables
    BY <1>StartMerge DEF TypeOK, Control, ControlOf, TwoTables, StartMerge, Goto
  <2>2. d_data'[loc[t].a] \in DataIds \cup {Null} /\ d_data[loc[t].b] \in DataIds \cup {Null}
    BY <2>1 DEF TypeOK
  <2>3. QED
    BY <1>1, <1>StartMerge, <2>2, LocalsChange DEF StartMerge, Goto
<1>StartCompare. ASSUME StartCompare(t) PROVE loc' \in [Threads -> Locals]
  <2>1. loc[t].a \in Tables /\ loc[t].b \in Tables
    BY <1>StartCompare DEF TypeOK, Control, ControlOf, TwoTables, StartCompare, Goto
  <2>2. d_data[loc[t].a] \in DataIds \cup {Null} /\ d_data[loc[t].b] \in DataIds \cup {Null}
    BY <2>1 DEF TypeOK
  <2>3. QED
    BY <1>1, <1>StartCompare, <2>2, LocalsChange DEF StartCompare, Goto
<1>Release. ASSUME Release(t) PROVE loc' \in [Threads -> Locals]
  BY <1>1, <1>Release, LocalsChange DEF Release, Return, Goto
<1>EndWalk. ASSUME EndWalk(t) PROVE loc' \in [Threads -> Locals]
  BY <1>1, <1>EndWalk, LocalsChange DEF EndWalk, AfterWalk, Return, Goto
<1>EnterShard. ASSUME EnterShard(t) PROVE loc' \in [Threads -> Locals]
  <2>1. KeysOf(loc[t].i) \in SUBSET Keys
    BY <1>1, <1>EnterShard DEF KeysOf
  <2>2. QED
    BY <1>1, <1>EnterShard, <2>1, LocalsChange DEF EnterShard, Goto
<1>EnterBucket. ASSUME EnterBucket(t) PROVE loc' \in [Threads -> Locals]
  <2>1. PICK k \in loc[t].left : loc' = [loc EXCEPT ![t].key = k, ![t].left = @ \ {k}]
    BY <1>EnterBucket DEF EnterBucket
  <2>2. k \in Keys /\ loc[t].left \ {k} \in SUBSET Keys
    BY <1>1 DEF Locals
  <2>3. loc' = [loc EXCEPT ![t] = [loc[t] EXCEPT !.key = k, !.left = loc[t].left \ {k}]]
    BY <1>1, <2>1 DEF Locals
  <2>4. [loc[t] EXCEPT !.key = k, !.left = loc[t].left \ {k}] \in Locals
    BY <1>1, <2>2, LocalsChange
  <2>5. QED
    BY <1>1, <2>3, <2>4
<1>EraseValue. ASSUME EraseValue(t) PROVE loc' \in [Threads -> Locals]
  BY <1>1, <1>EraseValue, LocalsChange DEF EraseValue, Goto
<1>AskValue. ASSUME AskValue(t) PROVE loc' \in [Threads -> Locals]
  BY <1>1, <1>AskValue, LocalsChange DEF AskValue, Inserting, Goto
<1>DropMerged. ASSUME DropMerged(t) PROVE loc' \in [Threads -> Locals]
  BY <1>1, <1>DropMerged, LocalsChange DEF DropMerged, Goto
<1>LookFor. ASSUME LookFor(t) PROVE loc' \in [Threads -> Locals]
  BY <1>1, <1>LookFor, LocalsChange DEF LookFor, Goto
<1>LeaveBucket. ASSUME LeaveBucket(t) PROVE loc' \in [Threads -> Locals]
  BY <1>1, <1>LeaveBucket, LocalsChange DEF LeaveBucket, Goto
<1>LeaveShard. ASSUME LeaveShard(t) PROVE loc' \in [Threads -> Locals]
  <2>1. loc[t].i < Shards
    BY <1>LeaveShard DEF LeaveShard, Goto, Places, WalkAt, InShard, Walks
  <2>2. loc[t].i + 1 \in 0 .. Shards /\ Shards \in 0 .. Shards
    BY <1>1, <2>1 DEF Locals, ShardedTableAssumption
  <2>3. PICK j \in 0 .. Shards : loc' = [loc EXCEPT ![t] = [loc[t] EXCEPT !.i = j]]
    BY <1>LeaveShard, <2>2 DEF LeaveShard
  <2>4. [loc[t] EXCEPT !.i = j] \in Locals
    BY <1>1, LocalsChange
  <2>5. QED
    BY <1>1, <2>3, <2>4
<1> QED
  BY <1>CallPoint, <1>CallEraseIf, <1>CallBoth, <1>LoadData, <1>LockData, <1>MakeData, <1>UnlockData, <1>Grow, <1>Put, <1>Erase, <1>TakeBoth, <1>SwapFirst, <1>SwapSecond, <1>StartMerge, <1>StartCompare, <1>Release, <1>EndWalk, <1>EnterShard, <1>EnterBucket, <1>EraseValue, <1>AskValue, <1>DropMerged, <1>LookFor, <1>LeaveBucket, <1>LeaveShard DEF Call, Continue

\* Steps keep the types of what is shared.
LEMMA StepShared ==
  ASSUME ShardedTableAssumption, TypeOK, Control, Places, NEW t \in Threads, Call(t) \/ Continue(t)
  PROVE  SharedTypes'
<1> USE ShardedTableAssumption
<1>CallPoint. ASSUME NEW op \in {"insert", "erase"}, NEW x \in Tables, NEW k \in Keys, CallPoint(t, op, x, k) PROVE SharedTypes'
  BY <1>CallPoint DEF TypeOK, SharedTypes, CallPoint, Goto, tables, locks
<1>CallEraseIf. ASSUME NEW x \in Tables, CallEraseIf(t, x) PROVE SharedTypes'
  BY <1>CallEraseIf DEF TypeOK, SharedTypes, CallEraseIf, Goto, tables, locks
<1>CallBoth. ASSUME NEW op \in {"swap", "merge", "compare"}, NEW x \in Tables, NEW y \in Tables, CallBoth(t, op, x, y) PROVE SharedTypes'
  BY <1>CallBoth DEF TypeOK, SharedTypes, CallBoth, Goto, tables, locks
<1>LoadData. ASSUME LoadData(t) PROVE SharedTypes'
  BY <1>LoadData DEF TypeOK, SharedTypes, LoadData, Inserting, Return, Goto, tables, locks
<1>LockData. ASSUME LockData(t) PROVE SharedTypes'
  BY <1>LockData DEF TypeOK, Control, ControlOf, TwoTables, SharedTypes, ShardedTableAssumption, ShardIds, LockData, Goto, tables, locks
<1>MakeData. ASSUME MakeData(t) PROVE SharedTypes'
  <2>1. loc[t].a \in Tables /\ Made(loc[t].a) /\ UNCHANGED <<dataLock, keys, d_locks, walkLock, bucketLock, net>>
    BY <1>MakeData DEF MakeData, Goto, Control, ControlOf, locks
  <2>2. made' \subseteq DataIds /\ d_data' \in [Tables -> DataIds \cup {Null}]
    BY <2>1 DEF TypeOK, Made, Make
  <2>3. QED
    BY <2>1, <2>2 DEF TypeOK, SharedTypes
<1>UnlockData. ASSUME UnlockData(t) PROVE SharedTypes'
  BY <1>UnlockData DEF TypeOK, Control, ControlOf, TwoTables, SharedTypes, ShardedTableAssumption, ShardIds, UnlockData, Inserting, Goto, tables, locks
<1>Grow. ASSUME Grow(t) PROVE SharedTypes'
  <2>1. d_locks' = [d_locks EXCEPT ![loc[t].to] = @ \cup {index[loc[t].key]}] /\ UNCHANGED <<d_data, dataLock, made, keys, walkLock, bucketLock, net>>
    BY <1>Grow DEF Grow, tables, locks
  <2>2. index[loc[t].key] \in ShardIds
    BY <1>Grow, KeyOf DEF Grow, Goto, ShardedTableAssumption, ShardIds
  <2>3. QED
    BY <2>1, <2>2 DEF TypeOK, SharedTypes
<1>Put. ASSUME Put(t) PROVE SharedTypes'
  <2>1. keys' = [keys EXCEPT ![loc[t].to] = @ \cup {loc[t].key}] /\ UNCHANGED <<d_data, dataLock, made, d_locks, walkLock, bucketLock>>
    BY <1>Put DEF Put, tables, locks
  <2>2. loc[t].key \in Keys
    BY <1>Put, KeyOf DEF Put, Goto
  <2>3. net' \in [Keys -> Int]
    BY <1>Put, <2>2 DEF Put, TypeOK
  <2>4. QED
    BY <2>1, <2>2, <2>3 DEF TypeOK, SharedTypes
<1>Erase. ASSUME Erase(t) PROVE SharedTypes'
  <2>1. UNCHANGED <<d_data, dataLock, made, d_locks, walkLock, bucketLock>> /\ loc[t].key \in Keys
    BY <1>Erase, KeyOf DEF Erase, Return, Goto, tables, locks
  <2>2. keys' \in [DataIds -> SUBSET Keys]
    BY <1>Erase DEF Erase, TypeOK
  <2>3. net' \in [Keys -> Int]
    <3>1. net' = [net EXCEPT ![loc[t].key] = net[loc[t].key] - 1] \/ net' = net
      BY <1>Erase, <2>1 DEF Erase, TypeOK
    <3>2. QED
      BY <2>1, <3>1 DEF TypeOK
  <2>4. QED
    BY <2>1, <2>2, <2>3 DEF TypeOK, SharedTypes
<1>TakeBoth. ASSUME TakeBoth(t) PROVE SharedTypes'
  BY <1>TakeBoth DEF TypeOK, Control, ControlOf, TwoTables, SharedTypes, ShardedTableAssumption, ShardIds, TakeBoth, Goto, tables, locks
<1>SwapFirst. ASSUME SwapFirst(t) PROVE SharedTypes'
  BY <1>SwapFirst DEF TypeOK, Control, ControlOf, TwoTables, SharedTypes, ShardedTableAssumption, ShardIds, SwapFirst, Goto, tables, locks
<1>SwapSecond. ASSUME SwapSecond(t) PROVE SharedTypes'
  BY <1>SwapSecond DEF TypeOK, Control, ControlOf, TwoTables, SharedTypes, ShardedTableAssumption, ShardIds, SwapSecond, Goto, tables, locks
<1>StartMerge. ASSUME StartMerge(t) PROVE SharedTypes'
  <2>1. loc[t].a \in Tables /\ Made(loc[t].a) /\ UNCHANGED <<dataLock, keys, d_locks, walkLock, bucketLock, net>>
    BY <1>StartMerge DEF StartMerge, Goto, Control, ControlOf, locks
  <2>2. made' \subseteq DataIds /\ d_data' \in [Tables -> DataIds \cup {Null}]
    BY <2>1 DEF TypeOK, Made, Make
  <2>3. QED
    BY <2>1, <2>2 DEF TypeOK, SharedTypes
<1>StartCompare. ASSUME StartCompare(t) PROVE SharedTypes'
  BY <1>StartCompare DEF TypeOK, SharedTypes, StartCompare, Goto, tables, locks
<1>Release. ASSUME Release(t) PROVE SharedTypes'
  BY <1>Release DEF TypeOK, Control, ControlOf, TwoTables, SharedTypes, ShardedTableAssumption, ShardIds, Release, Return, Goto, tables, locks
<1>EndWalk. ASSUME EndWalk(t) PROVE SharedTypes'
  BY <1>EndWalk DEF TypeOK, SharedTypes, EndWalk, AfterWalk, Return, Goto, tables, locks
<1>EnterShard. ASSUME EnterShard(t) PROVE SharedTypes'
  BY <1>EnterShard DEF TypeOK, Control, ControlOf, TwoTables, SharedTypes, ShardedTableAssumption, ShardIds, EnterShard, Goto, tables, locks
<1>EnterBucket. ASSUME EnterBucket(t) PROVE SharedTypes'
  <2>1. /\ UNCHANGED <<d_data, dataLock, made, keys, d_locks, walkLock, net>>
        /\ \/ bucketLock' = bucketLock
           \/ \E k \in loc[t].left : bucketLock' = [bucketLock EXCEPT ![loc[t].from][k] = t]
    BY <1>EnterBucket DEF EnterBucket, tables
  <2>2. bucketLock' \in [DataIds -> [Keys -> Threads \cup {Null}]]
    <3>1. bucketLock \in [DataIds -> [Keys -> Threads \cup {Null}]]
      BY DEF TypeOK
    <3>2. ASSUME NEW d, NEW k, bucketLock' = [bucketLock EXCEPT ![d][k] = t]
          PROVE  bucketLock' \in [DataIds -> [Keys -> Threads \cup {Null}]]
      BY <3>1, <3>2
    <3>3. QED
      BY <2>1, <3>1, <3>2
  <2>3. QED
    BY <2>1, <2>2 DEF TypeOK, SharedTypes
<1>EraseValue. ASSUME EraseValue(t) PROVE SharedTypes'
  <2> DEFINE k == loc[t].key  d == loc[t].from
  <2>1. PICK gone \in SUBSET (keys[d] \cap {k}) :
          /\ keys' = [keys EXCEPT ![d] = @ \ gone] /\ net' = [net EXCEPT ![k] = @ - Cardinality(gone)]
          /\ UNCHANGED <<d_data, dataLock, made, d_locks, walkLock, bucketLock>>
    BY <1>EraseValue DEF EraseValue, tables, locks
  <2>2. Cardinality(gone) \in Nat
    BY FS_Singleton, FS_Subset, FS_CardinalityType
  <2> HIDE DEF k, d
  <2>3. keys' \in [DataIds -> SUBSET Keys]
    BY <2>1 DEF TypeOK
  <2>4. net' \in [Keys -> Int]
    <3>1. \A j \in Keys : net'[j] = net[j] \/ net'[j] = net[j] - Cardinality(gone)
      BY <2>1 DEF TypeOK
    <3>2. \A j \in Keys : net'[j] \in Int
      BY <2>2, <3>1 DEF TypeOK
    <3>3. QED
      BY <2>1, <3>2 DEF TypeOK
  <2>5. QED
    BY <2>1, <2>3, <2>4 DEF TypeOK, SharedTypes
<1>AskValue. ASSUME AskValue(t) PROVE SharedTypes'
  BY <1>AskValue DEF TypeOK, SharedTypes, AskValue, Inserting, Goto, tables, locks
<1>DropMerged. ASSUME DropMerged(t) PROVE SharedTypes'
  BY <1>DropMerged DEF TypeOK, Control, ControlOf, TwoTables, SharedTypes, ShardedTableAssumption, ShardIds, DropMerged, Goto, tables, locks
<1>LookFor. ASSUME LookFor(t) PROVE SharedTypes'
  BY <1>LookFor DEF TypeOK, SharedTypes, LookFor, Goto, tables, locks
<1>LeaveBucket. ASSUME LeaveBucket(t) PROVE SharedTypes'
  <2>1. bucketLock' = [bucketLock EXCEPT ![loc[t].from][loc[t].key] = IF @ = t THEN Null ELSE @] /\ UNCHANGED <<d_data, dataLock, made, keys, d_locks, walkLock, net>>
    BY <1>LeaveBucket DEF LeaveBucket, tables
  <2>2. QED
    BY <2>1 DEF TypeOK, SharedTypes
<1>LeaveShard. ASSUME LeaveShard(t) PROVE SharedTypes'
  BY <1>LeaveShard DEF TypeOK, Control, ControlOf, TwoTables, SharedTypes, ShardedTableAssumption, ShardIds, LeaveShard, Goto, tables, locks
<1> QED
  BY <1>CallPoint, <1>CallEraseIf, <1>CallBoth, <1>LoadData, <1>LockData, <1>MakeData, <1>UnlockData, <1>Grow, <1>Put, <1>Erase, <1>TakeBoth, <1>SwapFirst, <1>SwapSecond, <1>StartMerge, <1>StartCompare, <1>Release, <1>EndWalk, <1>EnterShard, <1>EnterBucket, <1>EraseValue, <1>AskValue, <1>DropMerged, <1>LookFor, <1>LeaveBucket, <1>LeaveShard DEF Call, Continue

\* Steps keep types.
LEMMA StepTypeOK ==
  ASSUME ShardedTableAssumption, TypeOK, Control, Places, NEW t \in Threads, Call(t) \/ Continue(t)
  PROVE  TypeOK'
<1>1. SharedTypes'
  BY StepShared
<1>2. pc' \in [Threads -> PC]
  BY StepPC
<1>3. loc' \in [Threads -> Locals]
  BY <1>1, StepLocals DEF SharedTypes
<1>4. QED
  BY <1>1, <1>2, <1>3 DEF SharedTypes, TypeOK, Locals

-----------------------------------------------------------------------------
\* Steps keep the parts of the invariant.

\* What the steps with several outcomes do to the thread that takes them.
Others(t) == \A u \in Threads \ {t} : pc'[u] = pc[u] /\ loc'[u] = loc[u]

LoadDataDoes(t) ==
  /\ loc[t] \in Locals /\ Others(t) /\ UNCHANGED <<d_data, dataLock, made, keys, d_locks, walkLock, bucketLock, net>>
  /\ pc[t] = "load"
  /\ LET d == d_data[loc[t].a] IN
     \/ loc[t].op = "insert" /\ d = Null /\ pc'[t] = "lock" /\ loc'[t] = loc[t]
     \/ loc[t].op # "insert" /\ d = Null /\ pc'[t] = "idle" /\ loc'[t] = NoLocals
     \/ /\ loc[t].op = "insert" /\ d # Null
        /\ pc'[t] \in {"grow", "put"} /\ loc'[t] = [loc[t] EXCEPT !.to = d]
     \/ /\ loc[t].op = "erase" /\ d # Null
        /\ pc'[t] = "erase" /\ loc'[t] = [loc[t] EXCEPT !.from = d]
     \/ /\ loc[t].op = "erase_if" /\ d # Null
        /\ pc'[t] = "walk" /\ loc'[t] = [loc[t] EXCEPT !.from = d]

LEMMA LoadDataEffect ==
  ASSUME TypeOK, NEW t \in Threads, LoadData(t)
  PROVE  LoadDataDoes(t)
  BY DEF TypeOK, LoadData, Inserting, Goto, Return, Others, Locals, tables, locks, LoadDataDoes

PutDoes(t) ==
  /\ loc[t] \in Locals /\ Others(t) /\ UNCHANGED <<d_data, dataLock, made, d_locks, walkLock, bucketLock>>
  /\ pc[t] = "put" /\ Guard(loc[t].to, loc[t].key) = Null
  /\ keys' = [keys EXCEPT ![loc[t].to] = @ \cup {loc[t].key}]
  /\ \/ loc[t].op = "insert" /\ pc'[t] = "idle" /\ loc'[t] = NoLocals
     \/ /\ loc[t].op = "merge" /\ pc'[t] = "drop" /\ UNCHANGED net
        /\ loc'[t] = [loc[t] EXCEPT !.new = loc[t].key \notin keys[loc[t].to]]

LEMMA PutEffect ==
  ASSUME TypeOK, NEW t \in Threads, Put(t)
  PROVE  PutDoes(t)
  BY DEF TypeOK, Put, Goto, Return, Others, Locals, tables, locks, PutDoes

EndWalkDoes(t) ==
  /\ Others(t) /\ UNCHANGED <<d_data, dataLock, made, keys, d_locks, walkLock, bucketLock, net>>
  /\ pc[t] = "walk"
  /\ \/ loc[t].op = "erase_if" /\ pc'[t] = "idle" /\ loc'[t] = NoLocals
     \/ loc[t].op # "erase_if" /\ pc'[t] = "release" /\ loc'[t] = loc[t]

LEMMA EndWalkEffect ==
  ASSUME TypeOK, NEW t \in Threads, EndWalk(t)
  PROVE  EndWalkDoes(t)
  BY DEF TypeOK, EndWalk, AfterWalk, Goto, Return, Others, tables, locks, EndWalkDoes

EraseDoes(t) ==
  /\ Others(t) /\ UNCHANGED <<d_data, dataLock, made, d_locks, walkLock, bucketLock>>
  /\ pc[t] = "erase" /\ pc'[t] = "idle" /\ loc'[t] = NoLocals
  /\ Guard(loc[t].from, loc[t].key) = Null
  /\ keys' = [keys EXCEPT ![loc[t].from] = @ \ {loc[t].key}]

LEMMA EraseEffect ==
  ASSUME TypeOK, NEW t \in Threads, Erase(t)
  PROVE  EraseDoes(t)
  BY DEF TypeOK, Erase, Goto, Return, Others, tables, locks, EraseDoes

\* A table's d_data_lock has one owner, who keeps the table's data from others that use it.
LEMMA TablesApart ==
  ASSUME Control, TableLocks, NEW t \in Threads, NEW u \in Threads, t # u
  PROVE  HasTables(pc[t], loc[t]) \cap HasTables(pc[u], loc[u]) = {}
<1>1. HasTables(pc[t], loc[t]) \subseteq Tables
  BY DEF HasTables, Control, ControlOf, TwoTables
<1>2. QED
  BY <1>1 DEF TableLocks

LEMMA OthersKeepData ==
  ASSUME Control, TableLocks, DataUse, NEW t \in Threads, Others(t), NEW u \in Threads \ {t},
         \A x \in Tables \ HasTables(pc[t], loc[t]) : d_data'[x] = d_data[x],
         made \subseteq made'
  PROVE  DataAt(pc[u], loc[u])'
<1>1. ControlOf(pc[u], loc[u]) /\ DataAt(pc[u], loc[u]) /\ pc'[u] = pc[u] /\ loc'[u] = loc[u]
  BY DEF Control, DataUse, Others
<1>2. ASSUME Walks(pc[u], loc[u]), loc[u].op \in {"merge", "compare"}
      PROVE  d_data'[loc[u].a] = d_data[loc[u].a] /\ d_data'[loc[u].b] = d_data[loc[u].b]
  <2>1. HasTables(pc[u], loc[u]) = {loc[u].a, loc[u].b} /\ loc[u].a \in Tables /\ loc[u].b \in Tables
    BY <1>1, <1>2 DEF HasTables, ControlOf, TwoTables, Walks
  <2>2. QED
    BY <2>1, TablesApart
<1>3. QED
  BY <1>1, <1>2 DEF DataAt, Walks

\* Who is in a bucket holds the lock that guards it.
LEMMA BucketGuarded ==
  ASSUME ShardedTableAssumption, TypeOK, ShardLocks, BucketLocks, Places, DataUse,
         NEW t \in Threads, InBucket(pc[t], loc[t])
  PROVE  /\ Guard(loc[t].from, loc[t].key) = t
         /\ loc[t].from \in made /\ loc[t].from \in DataIds /\ loc[t].key \in Keys
<1>1. loc[t].from \in made /\ made \subseteq DataIds
  BY DEF TypeOK, DataUse, DataAt, InBucket, InShard
<1>2. /\ loc[t].key \in Keys /\ index[loc[t].key] = loc[t].i
      /\ loc[t].i \in ShardIds
  BY DEF ShardedTableAssumption, Places, WalkAt, InBucket, KeysOf, ShardIds
<1>3. walkLock[loc[t].from][loc[t].i] = t
  BY <1>1, <1>2 DEF ShardLocks, InBucket
<1>4. loc[t].i \in d_locks[loc[t].from] => bucketLock[loc[t].from][loc[t].key] = t
  BY <1>1, <1>2 DEF BucketLocks
<1>5. QED
  BY <1>1, <1>2, <1>3, <1>4 DEF Guard

\* A key that nobody but its mover has access to stays where it is.
Moves(p, l) == p \in {"grow", "put", "drop"} /\ l.op = "merge"

LEMMA KeyStays ==
  ASSUME ShardedTableAssumption, TypeOK, ShardLocks, BucketLocks, Places, DataUse, KeysStay,
         NEW d \in DataIds, NEW k \in Keys, NEW gone \in SUBSET {k},
         NEW u \in Threads, Moves(pc[u], loc[u]), Guard(d, k) # u,
         keys' = [keys EXCEPT ![d] = @ \ gone]
  PROVE  loc[u].key \in keys'[loc[u].from]
<1>1. InBucket(pc[u], loc[u])
  BY DEF Moves, InBucket, InShard, Walks
<1>2. Guard(loc[u].from, loc[u].key) = u /\ loc[u].from \in DataIds
  BY <1>1, BucketGuarded
<1>3. loc[u].key \in keys[loc[u].from]
  BY DEF KeysStay, MovedAt, Moves
<1>4. ~(loc[u].from = d /\ loc[u].key = k)
  BY <1>2
<1>5. QED
  BY <1>2, <1>3, <1>4 DEF TypeOK

\* 
LEMMA StepControl ==
  ASSUME ShardedTableAssumption, TypeOK, Control, NEW t \in Threads, Call(t) \/ Continue(t)
  PROVE  Control'
<1> USE ShardedTableAssumption DEF ShardedTableAssumption
<1>CallPoint. ASSUME NEW op \in {"insert", "erase"}, NEW x \in Tables, NEW k \in Keys, CallPoint(t, op, x, k) PROVE Control'
  BY <1>CallPoint DEF TypeOK, Control, ControlOf, TwoTables, CallPoint, Goto, tables, locks
<1>CallEraseIf. ASSUME NEW x \in Tables, CallEraseIf(t, x) PROVE Control'
  BY <1>CallEraseIf DEF TypeOK, Control, ControlOf, TwoTables, CallEraseIf, Goto, tables, locks
<1>CallBoth. ASSUME NEW op \in {"swap", "merge", "compare"}, NEW x \in Tables, NEW y \in Tables, CallBoth(t, op, x, y) PROVE Control'
  BY <1>CallBoth DEF TypeOK, Control, ControlOf, TwoTables, CallBoth, Goto, tables, locks
<1>LoadData. ASSUME LoadData(t) PROVE Control'
  <2>1. LoadDataDoes(t)
    BY <1>LoadData, LoadDataEffect
  <2>2. QED
    BY <2>1 DEF Control, ControlOf, TwoTables, LoadDataDoes, Others, NoLocals, Locals
<1>LockData. ASSUME LockData(t) PROVE Control'
  BY <1>LockData DEF TypeOK, Control, ControlOf, TwoTables, LockData, Goto, tables, locks
<1>MakeData. ASSUME MakeData(t) PROVE Control'
  BY <1>MakeData DEF TypeOK, Control, ControlOf, TwoTables, MakeData, Goto, Made, Make, tables, locks
<1>UnlockData. ASSUME UnlockData(t) PROVE Control'
  BY <1>UnlockData DEF TypeOK, Control, ControlOf, TwoTables, UnlockData, Inserting, Goto, tables, locks
<1>Grow. ASSUME Grow(t) PROVE Control'
  BY <1>Grow DEF TypeOK, Control, ControlOf, TwoTables, Grow, Goto, tables, locks
<1>Put. ASSUME Put(t) PROVE Control'
  <2>1. PutDoes(t)
    BY <1>Put, PutEffect
  <2>2. QED
    BY <2>1 DEF Control, ControlOf, TwoTables, PutDoes, Others, NoLocals, Locals
<1>Erase. ASSUME Erase(t) PROVE Control'
  <2>1. EraseDoes(t)
    BY <1>Erase, EraseEffect
  <2>2. QED
    BY <2>1 DEF Control, ControlOf, TwoTables, EraseDoes, Others, NoLocals, Locals
<1>TakeBoth. ASSUME TakeBoth(t) PROVE Control'
  BY <1>TakeBoth DEF TypeOK, Control, ControlOf, TwoTables, TakeBoth, Goto, tables, locks
<1>SwapFirst. ASSUME SwapFirst(t) PROVE Control'
  BY <1>SwapFirst DEF TypeOK, Control, ControlOf, TwoTables, SwapFirst, Goto, tables, locks
<1>SwapSecond. ASSUME SwapSecond(t) PROVE Control'
  BY <1>SwapSecond DEF TypeOK, Control, ControlOf, TwoTables, SwapSecond, Goto, tables, locks
<1>StartMerge. ASSUME StartMerge(t) PROVE Control'
  BY <1>StartMerge DEF TypeOK, Control, ControlOf, TwoTables, StartMerge, Goto, Made, Make, tables, locks
<1>StartCompare. ASSUME StartCompare(t) PROVE Control'
  BY <1>StartCompare DEF TypeOK, Control, ControlOf, TwoTables, StartCompare, Goto, tables, locks
<1>Release. ASSUME Release(t) PROVE Control'
  BY <1>Release DEF TypeOK, Control, ControlOf, TwoTables, Release, Return, Goto, NoLocals, tables, locks
<1>EndWalk. ASSUME EndWalk(t) PROVE Control'
  <2>1. EndWalkDoes(t)
    BY <1>EndWalk, EndWalkEffect
  <2>2. QED
    BY <2>1 DEF Control, ControlOf, TwoTables, EndWalkDoes, Others, NoLocals, Locals
<1>EnterShard. ASSUME EnterShard(t) PROVE Control'
  BY <1>EnterShard DEF TypeOK, Control, ControlOf, TwoTables, EnterShard, Goto, tables, locks
<1>EnterBucket. ASSUME EnterBucket(t) PROVE Control'
  BY <1>EnterBucket DEF TypeOK, Control, ControlOf, TwoTables, EnterBucket, Goto, tables, locks
<1>EraseValue. ASSUME EraseValue(t) PROVE Control'
  BY <1>EraseValue DEF TypeOK, Control, ControlOf, TwoTables, EraseValue, Goto, tables, locks
<1>AskValue. ASSUME AskValue(t) PROVE Control'
  BY <1>AskValue DEF TypeOK, Control, ControlOf, TwoTables, AskValue, Inserting, Goto, tables, locks
<1>DropMerged. ASSUME DropMerged(t) PROVE Control'
  BY <1>DropMerged DEF TypeOK, Control, ControlOf, TwoTables, DropMerged, Goto, tables, locks
<1>LookFor. ASSUME LookFor(t) PROVE Control'
  BY <1>LookFor DEF TypeOK, Control, ControlOf, TwoTables, LookFor, Goto, tables, locks
<1>LeaveBucket. ASSUME LeaveBucket(t) PROVE Control'
  BY <1>LeaveBucket DEF TypeOK, Control, ControlOf, TwoTables, LeaveBucket, Goto, tables, locks
<1>LeaveShard. ASSUME LeaveShard(t) PROVE Control'
  BY <1>LeaveShard DEF TypeOK, Control, ControlOf, TwoTables, LeaveShard, Goto, tables, locks
<1> QED
  BY <1>CallPoint, <1>CallEraseIf, <1>CallBoth, <1>LoadData, <1>LockData, <1>MakeData, <1>UnlockData, <1>Grow, <1>Put, <1>Erase, <1>TakeBoth, <1>SwapFirst, <1>SwapSecond, <1>StartMerge, <1>StartCompare, <1>Release, <1>EndWalk, <1>EnterShard, <1>EnterBucket, <1>EraseValue, <1>AskValue, <1>DropMerged, <1>LookFor, <1>LeaveBucket, <1>LeaveShard DEF Call, Continue

\* 
LEMMA StepTableLocks ==
  ASSUME ShardedTableAssumption, TypeOK, Control, TableLocks, NEW t \in Threads, Call(t) \/ Continue(t)
  PROVE  TableLocks'
<1> USE ShardedTableAssumption DEF ShardedTableAssumption
<1>CallPoint. ASSUME NEW op \in {"insert", "erase"}, NEW x \in Tables, NEW k \in Keys, CallPoint(t, op, x, k) PROVE TableLocks'
  BY <1>CallPoint DEF TypeOK, Control, ControlOf, TwoTables, TableLocks, HasTables, CallPoint, Goto, tables, locks
<1>CallEraseIf. ASSUME NEW x \in Tables, CallEraseIf(t, x) PROVE TableLocks'
  BY <1>CallEraseIf DEF TypeOK, Control, ControlOf, TwoTables, TableLocks, HasTables, CallEraseIf, Goto, tables, locks
<1>CallBoth. ASSUME NEW op \in {"swap", "merge", "compare"}, NEW x \in Tables, NEW y \in Tables, CallBoth(t, op, x, y) PROVE TableLocks'
  BY <1>CallBoth DEF TypeOK, Control, ControlOf, TwoTables, TableLocks, HasTables, CallBoth, Goto, tables, locks
<1>LoadData. ASSUME LoadData(t) PROVE TableLocks'
  <2>1. LoadDataDoes(t)
    BY <1>LoadData, LoadDataEffect
  <2>2. QED
    BY <2>1 DEF Control, ControlOf, TwoTables, TableLocks, HasTables, LoadDataDoes, Others, NoLocals, Locals
<1>LockData. ASSUME LockData(t) PROVE TableLocks'
  BY <1>LockData DEF TypeOK, Control, ControlOf, TwoTables, TableLocks, HasTables, LockData, Goto, tables, locks
<1>MakeData. ASSUME MakeData(t) PROVE TableLocks'
  BY <1>MakeData DEF TypeOK, Control, ControlOf, TwoTables, TableLocks, HasTables, MakeData, Goto, Made, Make, tables, locks
<1>UnlockData. ASSUME UnlockData(t) PROVE TableLocks'
  BY <1>UnlockData DEF TypeOK, Control, ControlOf, TwoTables, TableLocks, HasTables, UnlockData, Inserting, Goto, tables, locks
<1>Grow. ASSUME Grow(t) PROVE TableLocks'
  BY <1>Grow DEF TypeOK, Control, ControlOf, TwoTables, TableLocks, HasTables, Grow, Goto, tables, locks
<1>Put. ASSUME Put(t) PROVE TableLocks'
  <2>1. PutDoes(t)
    BY <1>Put, PutEffect
  <2>2. QED
    BY <2>1 DEF Control, ControlOf, TwoTables, TableLocks, HasTables, PutDoes, Others, NoLocals, Locals
<1>Erase. ASSUME Erase(t) PROVE TableLocks'
  <2>1. EraseDoes(t)
    BY <1>Erase, EraseEffect
  <2>2. QED
    BY <2>1 DEF Control, ControlOf, TwoTables, TableLocks, HasTables, EraseDoes, Others, NoLocals, Locals
<1>TakeBoth. ASSUME TakeBoth(t) PROVE TableLocks'
  BY <1>TakeBoth DEF TypeOK, Control, ControlOf, TwoTables, TableLocks, HasTables, TakeBoth, Goto, tables, locks
<1>SwapFirst. ASSUME SwapFirst(t) PROVE TableLocks'
  BY <1>SwapFirst DEF TypeOK, Control, ControlOf, TwoTables, TableLocks, HasTables, SwapFirst, Goto, tables, locks
<1>SwapSecond. ASSUME SwapSecond(t) PROVE TableLocks'
  BY <1>SwapSecond DEF TypeOK, Control, ControlOf, TwoTables, TableLocks, HasTables, SwapSecond, Goto, tables, locks
<1>StartMerge. ASSUME StartMerge(t) PROVE TableLocks'
  BY <1>StartMerge DEF TypeOK, Control, ControlOf, TwoTables, TableLocks, HasTables, StartMerge, Goto, Made, Make, tables, locks
<1>StartCompare. ASSUME StartCompare(t) PROVE TableLocks'
  BY <1>StartCompare DEF TypeOK, Control, ControlOf, TwoTables, TableLocks, HasTables, StartCompare, Goto, tables, locks
<1>Release. ASSUME Release(t) PROVE TableLocks'
  BY <1>Release DEF TypeOK, Control, ControlOf, TwoTables, TableLocks, HasTables, Release, Return, Goto, NoLocals, tables, locks
<1>EndWalk. ASSUME EndWalk(t) PROVE TableLocks'
  <2>1. EndWalkDoes(t)
    BY <1>EndWalk, EndWalkEffect
  <2>2. QED
    BY <2>1 DEF Control, ControlOf, TwoTables, TableLocks, HasTables, EndWalkDoes, Others, NoLocals, Locals
<1>EnterShard. ASSUME EnterShard(t) PROVE TableLocks'
  BY <1>EnterShard DEF TypeOK, Control, ControlOf, TwoTables, TableLocks, HasTables, EnterShard, Goto, tables, locks
<1>EnterBucket. ASSUME EnterBucket(t) PROVE TableLocks'
  BY <1>EnterBucket DEF TypeOK, Control, ControlOf, TwoTables, TableLocks, HasTables, EnterBucket, Goto, tables, locks
<1>EraseValue. ASSUME EraseValue(t) PROVE TableLocks'
  BY <1>EraseValue DEF TypeOK, Control, ControlOf, TwoTables, TableLocks, HasTables, EraseValue, Goto, tables, locks
<1>AskValue. ASSUME AskValue(t) PROVE TableLocks'
  BY <1>AskValue DEF TypeOK, Control, ControlOf, TwoTables, TableLocks, HasTables, AskValue, Inserting, Goto, tables, locks
<1>DropMerged. ASSUME DropMerged(t) PROVE TableLocks'
  BY <1>DropMerged DEF TypeOK, Control, ControlOf, TwoTables, TableLocks, HasTables, DropMerged, Goto, tables, locks
<1>LookFor. ASSUME LookFor(t) PROVE TableLocks'
  BY <1>LookFor DEF TypeOK, Control, ControlOf, TwoTables, TableLocks, HasTables, LookFor, Goto, tables, locks
<1>LeaveBucket. ASSUME LeaveBucket(t) PROVE TableLocks'
  BY <1>LeaveBucket DEF TypeOK, Control, ControlOf, TwoTables, TableLocks, HasTables, LeaveBucket, Goto, tables, locks
<1>LeaveShard. ASSUME LeaveShard(t) PROVE TableLocks'
  BY <1>LeaveShard DEF TypeOK, Control, ControlOf, TwoTables, TableLocks, HasTables, LeaveShard, Goto, tables, locks
<1> QED
  BY <1>CallPoint, <1>CallEraseIf, <1>CallBoth, <1>LoadData, <1>LockData, <1>MakeData, <1>UnlockData, <1>Grow, <1>Put, <1>Erase, <1>TakeBoth, <1>SwapFirst, <1>SwapSecond, <1>StartMerge, <1>StartCompare, <1>Release, <1>EndWalk, <1>EnterShard, <1>EnterBucket, <1>EraseValue, <1>AskValue, <1>DropMerged, <1>LookFor, <1>LeaveBucket, <1>LeaveShard DEF Call, Continue

\* 
LEMMA StepShardLocks ==
  ASSUME ShardedTableAssumption, TypeOK, Control, ShardLocks, NEW t \in Threads, Call(t) \/ Continue(t)
  PROVE  ShardLocks'
<1> USE ShardedTableAssumption DEF ShardedTableAssumption
<1>CallPoint. ASSUME NEW op \in {"insert", "erase"}, NEW x \in Tables, NEW k \in Keys, CallPoint(t, op, x, k) PROVE ShardLocks'
  BY <1>CallPoint DEF TypeOK, Control, ControlOf, TwoTables, ShardLocks, InShard, Walks, ShardIds, CallPoint, Goto, tables, locks
<1>CallEraseIf. ASSUME NEW x \in Tables, CallEraseIf(t, x) PROVE ShardLocks'
  BY <1>CallEraseIf DEF TypeOK, Control, ControlOf, TwoTables, ShardLocks, InShard, Walks, ShardIds, CallEraseIf, Goto, tables, locks
<1>CallBoth. ASSUME NEW op \in {"swap", "merge", "compare"}, NEW x \in Tables, NEW y \in Tables, CallBoth(t, op, x, y) PROVE ShardLocks'
  BY <1>CallBoth DEF TypeOK, Control, ControlOf, TwoTables, ShardLocks, InShard, Walks, ShardIds, CallBoth, Goto, tables, locks
<1>LoadData. ASSUME LoadData(t) PROVE ShardLocks'
  <2>1. LoadDataDoes(t)
    BY <1>LoadData, LoadDataEffect
  <2>2. QED
    BY <2>1 DEF Control, ControlOf, TwoTables, ShardLocks, InShard, Walks, ShardIds, LoadDataDoes, Others, NoLocals, Locals
<1>LockData. ASSUME LockData(t) PROVE ShardLocks'
  BY <1>LockData DEF TypeOK, Control, ControlOf, TwoTables, ShardLocks, InShard, Walks, ShardIds, LockData, Goto, tables, locks
<1>MakeData. ASSUME MakeData(t) PROVE ShardLocks'
  BY <1>MakeData DEF TypeOK, Control, ControlOf, TwoTables, ShardLocks, InShard, Walks, ShardIds, MakeData, Goto, Made, Make, tables, locks
<1>UnlockData. ASSUME UnlockData(t) PROVE ShardLocks'
  BY <1>UnlockData DEF TypeOK, Control, ControlOf, TwoTables, ShardLocks, InShard, Walks, ShardIds, UnlockData, Inserting, Goto, tables, locks
<1>Grow. ASSUME Grow(t) PROVE ShardLocks'
  BY <1>Grow DEF TypeOK, Control, ControlOf, TwoTables, ShardLocks, InShard, Walks, ShardIds, Grow, Goto, tables, locks
<1>Put. ASSUME Put(t) PROVE ShardLocks'
  <2>1. PutDoes(t)
    BY <1>Put, PutEffect
  <2>2. QED
    BY <2>1 DEF Control, ControlOf, TwoTables, ShardLocks, InShard, Walks, ShardIds, PutDoes, Others, NoLocals, Locals
<1>Erase. ASSUME Erase(t) PROVE ShardLocks'
  <2>1. EraseDoes(t)
    BY <1>Erase, EraseEffect
  <2>2. QED
    BY <2>1 DEF Control, ControlOf, TwoTables, ShardLocks, InShard, Walks, ShardIds, EraseDoes, Others, NoLocals, Locals
<1>TakeBoth. ASSUME TakeBoth(t) PROVE ShardLocks'
  BY <1>TakeBoth DEF TypeOK, Control, ControlOf, TwoTables, ShardLocks, InShard, Walks, ShardIds, TakeBoth, Goto, tables, locks
<1>SwapFirst. ASSUME SwapFirst(t) PROVE ShardLocks'
  BY <1>SwapFirst DEF TypeOK, Control, ControlOf, TwoTables, ShardLocks, InShard, Walks, ShardIds, SwapFirst, Goto, tables, locks
<1>SwapSecond. ASSUME SwapSecond(t) PROVE ShardLocks'
  BY <1>SwapSecond DEF TypeOK, Control, ControlOf, TwoTables, ShardLocks, InShard, Walks, ShardIds, SwapSecond, Goto, tables, locks
<1>StartMerge. ASSUME StartMerge(t) PROVE ShardLocks'
  BY <1>StartMerge DEF TypeOK, Control, ControlOf, TwoTables, ShardLocks, InShard, Walks, ShardIds, StartMerge, Goto, Made, Make, tables, locks
<1>StartCompare. ASSUME StartCompare(t) PROVE ShardLocks'
  BY <1>StartCompare DEF TypeOK, Control, ControlOf, TwoTables, ShardLocks, InShard, Walks, ShardIds, StartCompare, Goto, tables, locks
<1>Release. ASSUME Release(t) PROVE ShardLocks'
  BY <1>Release DEF TypeOK, Control, ControlOf, TwoTables, ShardLocks, InShard, Walks, ShardIds, Release, Return, Goto, NoLocals, tables, locks
<1>EndWalk. ASSUME EndWalk(t) PROVE ShardLocks'
  <2>1. EndWalkDoes(t)
    BY <1>EndWalk, EndWalkEffect
  <2>2. QED
    BY <2>1 DEF Control, ControlOf, TwoTables, ShardLocks, InShard, Walks, ShardIds, EndWalkDoes, Others, NoLocals, Locals
<1>EnterShard. ASSUME EnterShard(t) PROVE ShardLocks'
  BY <1>EnterShard DEF TypeOK, Control, ControlOf, TwoTables, ShardLocks, InShard, Walks, ShardIds, EnterShard, Goto, tables, locks
<1>EnterBucket. ASSUME EnterBucket(t) PROVE ShardLocks'
  BY <1>EnterBucket DEF TypeOK, Control, ControlOf, TwoTables, ShardLocks, InShard, Walks, ShardIds, EnterBucket, Goto, tables, locks
<1>EraseValue. ASSUME EraseValue(t) PROVE ShardLocks'
  BY <1>EraseValue DEF TypeOK, Control, ControlOf, TwoTables, ShardLocks, InShard, Walks, ShardIds, EraseValue, Goto, tables, locks
<1>AskValue. ASSUME AskValue(t) PROVE ShardLocks'
  BY <1>AskValue DEF TypeOK, Control, ControlOf, TwoTables, ShardLocks, InShard, Walks, ShardIds, AskValue, Inserting, Goto, tables, locks
<1>DropMerged. ASSUME DropMerged(t) PROVE ShardLocks'
  BY <1>DropMerged DEF TypeOK, Control, ControlOf, TwoTables, ShardLocks, InShard, Walks, ShardIds, DropMerged, Goto, tables, locks
<1>LookFor. ASSUME LookFor(t) PROVE ShardLocks'
  BY <1>LookFor DEF TypeOK, Control, ControlOf, TwoTables, ShardLocks, InShard, Walks, ShardIds, LookFor, Goto, tables, locks
<1>LeaveBucket. ASSUME LeaveBucket(t) PROVE ShardLocks'
  BY <1>LeaveBucket DEF TypeOK, Control, ControlOf, TwoTables, ShardLocks, InShard, Walks, ShardIds, LeaveBucket, Goto, tables, locks
<1>LeaveShard. ASSUME LeaveShard(t) PROVE ShardLocks'
  BY <1>LeaveShard DEF TypeOK, Control, ControlOf, TwoTables, ShardLocks, InShard, Walks, ShardIds, LeaveShard, Goto, tables, locks
<1> QED
  BY <1>CallPoint, <1>CallEraseIf, <1>CallBoth, <1>LoadData, <1>LockData, <1>MakeData, <1>UnlockData, <1>Grow, <1>Put, <1>Erase, <1>TakeBoth, <1>SwapFirst, <1>SwapSecond, <1>StartMerge, <1>StartCompare, <1>Release, <1>EndWalk, <1>EnterShard, <1>EnterBucket, <1>EraseValue, <1>AskValue, <1>DropMerged, <1>LookFor, <1>LeaveBucket, <1>LeaveShard DEF Call, Continue

\* 
LEMMA StepBucketLocks ==
  ASSUME ShardedTableAssumption, TypeOK, Control, ShardLocks, BucketLocks, Places, NEW t \in Threads, Call(t) \/ Continue(t)
  PROVE  BucketLocks'
<1> USE ShardedTableAssumption DEF ShardedTableAssumption
<1>CallPoint. ASSUME NEW op \in {"insert", "erase"}, NEW x \in Tables, NEW k \in Keys, CallPoint(t, op, x, k) PROVE BucketLocks'
  BY <1>CallPoint DEF TypeOK, Control, ControlOf, TwoTables, ShardLocks, BucketLocks, InBucket, InShard, Walks, ShardIds, Places, WalkAt, CallPoint, Goto, tables, locks
<1>CallEraseIf. ASSUME NEW x \in Tables, CallEraseIf(t, x) PROVE BucketLocks'
  BY <1>CallEraseIf DEF TypeOK, Control, ControlOf, TwoTables, ShardLocks, BucketLocks, InBucket, InShard, Walks, ShardIds, Places, WalkAt, CallEraseIf, Goto, tables, locks
<1>CallBoth. ASSUME NEW op \in {"swap", "merge", "compare"}, NEW x \in Tables, NEW y \in Tables, CallBoth(t, op, x, y) PROVE BucketLocks'
  BY <1>CallBoth DEF TypeOK, Control, ControlOf, TwoTables, ShardLocks, BucketLocks, InBucket, InShard, Walks, ShardIds, Places, WalkAt, CallBoth, Goto, tables, locks
<1>LoadData. ASSUME LoadData(t) PROVE BucketLocks'
  <2>1. LoadDataDoes(t)
    BY <1>LoadData, LoadDataEffect
  <2>2. QED
    BY <2>1 DEF Control, ControlOf, TwoTables, ShardLocks, BucketLocks, InBucket, InShard, Walks, ShardIds, Places, WalkAt, LoadDataDoes, Others, NoLocals, Locals
<1>LockData. ASSUME LockData(t) PROVE BucketLocks'
  BY <1>LockData DEF TypeOK, Control, ControlOf, TwoTables, ShardLocks, BucketLocks, InBucket, InShard, Walks, ShardIds, Places, WalkAt, LockData, Goto, tables, locks
<1>MakeData. ASSUME MakeData(t) PROVE BucketLocks'
  BY <1>MakeData DEF TypeOK, Control, ControlOf, TwoTables, ShardLocks, BucketLocks, InBucket, InShard, Walks, ShardIds, Places, WalkAt, MakeData, Goto, Made, Make, tables, locks
<1>UnlockData. ASSUME UnlockData(t) PROVE BucketLocks'
  <2>1. CASE Goto(t, "unlock", "grow")
    BY <1>UnlockData, <2>1 DEF TypeOK, Control, ControlOf, TwoTables, ShardLocks, BucketLocks, InBucket, InShard, Walks, ShardIds, Places, WalkAt, UnlockData, Inserting, Goto, tables, locks
  <2>2. CASE Goto(t, "unlock", "put")
    BY <1>UnlockData, <2>2 DEF TypeOK, Control, ControlOf, TwoTables, ShardLocks, BucketLocks, InBucket, InShard, Walks, ShardIds, Places, WalkAt, UnlockData, Inserting, Goto, tables, locks
  <2>3. QED
    BY <1>UnlockData, <2>1, <2>2 DEF TypeOK, UnlockData, Inserting, Goto, tables, locks
<1>Grow. ASSUME Grow(t) PROVE BucketLocks'
  BY <1>Grow DEF TypeOK, Control, ControlOf, TwoTables, ShardLocks, BucketLocks, InBucket, InShard, Walks, ShardIds, Places, WalkAt, Grow, Goto, tables, locks
<1>Put. ASSUME Put(t) PROVE BucketLocks'
  <2>1. PutDoes(t)
    BY <1>Put, PutEffect
  <2>2. QED
    BY <2>1 DEF Control, ControlOf, TwoTables, ShardLocks, BucketLocks, InBucket, InShard, Walks, ShardIds, Places, WalkAt, PutDoes, Others, NoLocals, Locals
<1>Erase. ASSUME Erase(t) PROVE BucketLocks'
  <2>1. EraseDoes(t)
    BY <1>Erase, EraseEffect
  <2>2. QED
    BY <2>1 DEF Control, ControlOf, TwoTables, ShardLocks, BucketLocks, InBucket, InShard, Walks, ShardIds, Places, WalkAt, EraseDoes, Others, NoLocals, Locals
<1>TakeBoth. ASSUME TakeBoth(t) PROVE BucketLocks'
  BY <1>TakeBoth DEF TypeOK, Control, ControlOf, TwoTables, ShardLocks, BucketLocks, InBucket, InShard, Walks, ShardIds, Places, WalkAt, TakeBoth, Goto, tables, locks
<1>SwapFirst. ASSUME SwapFirst(t) PROVE BucketLocks'
  BY <1>SwapFirst DEF TypeOK, Control, ControlOf, TwoTables, ShardLocks, BucketLocks, InBucket, InShard, Walks, ShardIds, Places, WalkAt, SwapFirst, Goto, tables, locks
<1>SwapSecond. ASSUME SwapSecond(t) PROVE BucketLocks'
  BY <1>SwapSecond DEF TypeOK, Control, ControlOf, TwoTables, ShardLocks, BucketLocks, InBucket, InShard, Walks, ShardIds, Places, WalkAt, SwapSecond, Goto, tables, locks
<1>StartMerge. ASSUME StartMerge(t) PROVE BucketLocks'
  BY <1>StartMerge DEF TypeOK, Control, ControlOf, TwoTables, ShardLocks, BucketLocks, InBucket, InShard, Walks, ShardIds, Places, WalkAt, StartMerge, Goto, Made, Make, tables, locks
<1>StartCompare. ASSUME StartCompare(t) PROVE BucketLocks'
  BY <1>StartCompare DEF TypeOK, Control, ControlOf, TwoTables, ShardLocks, BucketLocks, InBucket, InShard, Walks, ShardIds, Places, WalkAt, StartCompare, Goto, tables, locks
<1>Release. ASSUME Release(t) PROVE BucketLocks'
  BY <1>Release DEF TypeOK, Control, ControlOf, TwoTables, ShardLocks, BucketLocks, InBucket, InShard, Walks, ShardIds, Places, WalkAt, Release, Return, Goto, NoLocals, tables, locks
<1>EndWalk. ASSUME EndWalk(t) PROVE BucketLocks'
  <2>1. EndWalkDoes(t)
    BY <1>EndWalk, EndWalkEffect
  <2>2. QED
    BY <2>1 DEF Control, ControlOf, TwoTables, ShardLocks, BucketLocks, InBucket, InShard, Walks, ShardIds, Places, WalkAt, EndWalkDoes, Others, NoLocals, Locals
<1>EnterShard. ASSUME EnterShard(t) PROVE BucketLocks'
  BY <1>EnterShard DEF TypeOK, Control, ControlOf, TwoTables, ShardLocks, BucketLocks, InBucket, InShard, Walks, ShardIds, Places, WalkAt, EnterShard, Goto, tables, locks
<1>EnterBucket. ASSUME EnterBucket(t) PROVE BucketLocks'
  BY <1>EnterBucket DEF TypeOK, Control, ControlOf, TwoTables, ShardLocks, BucketLocks, InBucket, InShard, Walks, ShardIds, Places, WalkAt, EnterBucket, Goto, tables, locks
<1>EraseValue. ASSUME EraseValue(t) PROVE BucketLocks'
  BY <1>EraseValue DEF TypeOK, Control, ControlOf, TwoTables, ShardLocks, BucketLocks, InBucket, InShard, Walks, ShardIds, Places, WalkAt, EraseValue, Goto, tables, locks
<1>AskValue. ASSUME AskValue(t) PROVE BucketLocks'
  <2>1. CASE Goto(t, "value", "left")
    BY <1>AskValue, <2>1 DEF TypeOK, Control, ControlOf, TwoTables, ShardLocks, BucketLocks, InBucket, InShard, Walks, ShardIds, Places, WalkAt, AskValue, Inserting, Goto, tables, locks
  <2>2. CASE Goto(t, "value", "grow")
    BY <1>AskValue, <2>2 DEF TypeOK, Control, ControlOf, TwoTables, ShardLocks, BucketLocks, InBucket, InShard, Walks, ShardIds, Places, WalkAt, AskValue, Inserting, Goto, tables, locks
  <2>3. CASE Goto(t, "value", "put")
    BY <1>AskValue, <2>3 DEF TypeOK, Control, ControlOf, TwoTables, ShardLocks, BucketLocks, InBucket, InShard, Walks, ShardIds, Places, WalkAt, AskValue, Inserting, Goto, tables, locks
  <2>4. CASE Goto(t, "value", "look")
    BY <1>AskValue, <2>4 DEF TypeOK, Control, ControlOf, TwoTables, ShardLocks, BucketLocks, InBucket, InShard, Walks, ShardIds, Places, WalkAt, AskValue, Inserting, Goto, tables, locks
  <2>5. QED
    BY <1>AskValue, <2>1, <2>2, <2>3, <2>4 DEF TypeOK, AskValue, Inserting, Goto, tables, locks
<1>DropMerged. ASSUME DropMerged(t) PROVE BucketLocks'
  BY <1>DropMerged DEF TypeOK, Control, ControlOf, TwoTables, ShardLocks, BucketLocks, InBucket, InShard, Walks, ShardIds, Places, WalkAt, DropMerged, Goto, tables, locks
<1>LookFor. ASSUME LookFor(t) PROVE BucketLocks'
  BY <1>LookFor DEF TypeOK, Control, ControlOf, TwoTables, ShardLocks, BucketLocks, InBucket, InShard, Walks, ShardIds, Places, WalkAt, LookFor, Goto, tables, locks
<1>LeaveBucket. ASSUME LeaveBucket(t) PROVE BucketLocks'
  BY <1>LeaveBucket DEF TypeOK, Control, ControlOf, TwoTables, ShardLocks, BucketLocks, InBucket, InShard, Walks, ShardIds, Places, WalkAt, LeaveBucket, Goto, tables, locks
<1>LeaveShard. ASSUME LeaveShard(t) PROVE BucketLocks'
  BY <1>LeaveShard DEF TypeOK, Control, ControlOf, TwoTables, ShardLocks, BucketLocks, InBucket, InShard, Walks, ShardIds, Places, WalkAt, LeaveShard, Goto, tables, locks
<1> QED
  BY <1>CallPoint, <1>CallEraseIf, <1>CallBoth, <1>LoadData, <1>LockData, <1>MakeData, <1>UnlockData, <1>Grow, <1>Put, <1>Erase, <1>TakeBoth, <1>SwapFirst, <1>SwapSecond, <1>StartMerge, <1>StartCompare, <1>Release, <1>EndWalk, <1>EnterShard, <1>EnterBucket, <1>EraseValue, <1>AskValue, <1>DropMerged, <1>LookFor, <1>LeaveBucket, <1>LeaveShard DEF Call, Continue

\* 
LEMMA StepPlaces ==
  ASSUME ShardedTableAssumption, TypeOK, Control, Places, NEW t \in Threads, Call(t) \/ Continue(t)
  PROVE  Places'
<1> USE ShardedTableAssumption DEF ShardedTableAssumption
<1>CallPoint. ASSUME NEW op \in {"insert", "erase"}, NEW x \in Tables, NEW k \in Keys, CallPoint(t, op, x, k) PROVE Places'
  BY <1>CallPoint DEF TypeOK, Control, ControlOf, TwoTables, InBucket, InShard, Walks, ShardIds, KeysOf, Places, WalkAt, CallPoint, Goto, tables, locks
<1>CallEraseIf. ASSUME NEW x \in Tables, CallEraseIf(t, x) PROVE Places'
  BY <1>CallEraseIf DEF TypeOK, Control, ControlOf, TwoTables, InBucket, InShard, Walks, ShardIds, KeysOf, Places, WalkAt, CallEraseIf, Goto, tables, locks
<1>CallBoth. ASSUME NEW op \in {"swap", "merge", "compare"}, NEW x \in Tables, NEW y \in Tables, CallBoth(t, op, x, y) PROVE Places'
  BY <1>CallBoth DEF TypeOK, Control, ControlOf, TwoTables, InBucket, InShard, Walks, ShardIds, KeysOf, Places, WalkAt, CallBoth, Goto, tables, locks
<1>LoadData. ASSUME LoadData(t) PROVE Places'
  <2>1. LoadDataDoes(t)
    BY <1>LoadData, LoadDataEffect
  <2>2. QED
    BY <2>1 DEF Control, ControlOf, TwoTables, InBucket, InShard, Walks, ShardIds, KeysOf, Places, WalkAt, LoadDataDoes, Others, NoLocals, Locals
<1>LockData. ASSUME LockData(t) PROVE Places'
  BY <1>LockData DEF TypeOK, Control, ControlOf, TwoTables, InBucket, InShard, Walks, ShardIds, KeysOf, Places, WalkAt, LockData, Goto, tables, locks
<1>MakeData. ASSUME MakeData(t) PROVE Places'
  BY <1>MakeData DEF TypeOK, Control, ControlOf, TwoTables, InBucket, InShard, Walks, ShardIds, KeysOf, Places, WalkAt, MakeData, Goto, Made, Make, tables, locks
<1>UnlockData. ASSUME UnlockData(t) PROVE Places'
  <2>1. CASE Goto(t, "unlock", "grow")
    BY <1>UnlockData, <2>1 DEF TypeOK, Control, ControlOf, TwoTables, InBucket, InShard, Walks, ShardIds, KeysOf, Places, WalkAt, UnlockData, Inserting, Goto, tables, locks
  <2>2. CASE Goto(t, "unlock", "put")
    BY <1>UnlockData, <2>2 DEF TypeOK, Control, ControlOf, TwoTables, InBucket, InShard, Walks, ShardIds, KeysOf, Places, WalkAt, UnlockData, Inserting, Goto, tables, locks
  <2>3. QED
    BY <1>UnlockData, <2>1, <2>2 DEF TypeOK, UnlockData, Inserting, Goto, tables, locks
<1>Grow. ASSUME Grow(t) PROVE Places'
  BY <1>Grow DEF TypeOK, Control, ControlOf, TwoTables, InBucket, InShard, Walks, ShardIds, KeysOf, Places, WalkAt, Grow, Goto, tables, locks
<1>Put. ASSUME Put(t) PROVE Places'
  <2>1. PutDoes(t)
    BY <1>Put, PutEffect
  <2>2. QED
    BY <2>1 DEF Control, ControlOf, TwoTables, InBucket, InShard, Walks, ShardIds, KeysOf, Places, WalkAt, PutDoes, Others, NoLocals, Locals
<1>Erase. ASSUME Erase(t) PROVE Places'
  <2>1. EraseDoes(t)
    BY <1>Erase, EraseEffect
  <2>2. QED
    BY <2>1 DEF Control, ControlOf, TwoTables, InBucket, InShard, Walks, ShardIds, KeysOf, Places, WalkAt, EraseDoes, Others, NoLocals, Locals
<1>TakeBoth. ASSUME TakeBoth(t) PROVE Places'
  BY <1>TakeBoth DEF TypeOK, Control, ControlOf, TwoTables, InBucket, InShard, Walks, ShardIds, KeysOf, Places, WalkAt, TakeBoth, Goto, tables, locks
<1>SwapFirst. ASSUME SwapFirst(t) PROVE Places'
  BY <1>SwapFirst DEF TypeOK, Control, ControlOf, TwoTables, InBucket, InShard, Walks, ShardIds, KeysOf, Places, WalkAt, SwapFirst, Goto, tables, locks
<1>SwapSecond. ASSUME SwapSecond(t) PROVE Places'
  BY <1>SwapSecond DEF TypeOK, Control, ControlOf, TwoTables, InBucket, InShard, Walks, ShardIds, KeysOf, Places, WalkAt, SwapSecond, Goto, tables, locks
<1>StartMerge. ASSUME StartMerge(t) PROVE Places'
  BY <1>StartMerge DEF TypeOK, Control, ControlOf, TwoTables, InBucket, InShard, Walks, ShardIds, KeysOf, Places, WalkAt, StartMerge, Goto, Made, Make, tables, locks
<1>StartCompare. ASSUME StartCompare(t) PROVE Places'
  BY <1>StartCompare DEF TypeOK, Control, ControlOf, TwoTables, InBucket, InShard, Walks, ShardIds, KeysOf, Places, WalkAt, StartCompare, Goto, tables, locks
<1>Release. ASSUME Release(t) PROVE Places'
  BY <1>Release DEF TypeOK, Control, ControlOf, TwoTables, InBucket, InShard, Walks, ShardIds, KeysOf, Places, WalkAt, Release, Return, Goto, NoLocals, tables, locks
<1>EndWalk. ASSUME EndWalk(t) PROVE Places'
  <2>1. EndWalkDoes(t)
    BY <1>EndWalk, EndWalkEffect
  <2>2. QED
    BY <2>1 DEF Control, ControlOf, TwoTables, InBucket, InShard, Walks, ShardIds, KeysOf, Places, WalkAt, EndWalkDoes, Others, NoLocals, Locals
<1>EnterShard. ASSUME EnterShard(t) PROVE Places'
  BY <1>EnterShard DEF TypeOK, Control, ControlOf, TwoTables, InBucket, InShard, Walks, ShardIds, KeysOf, Places, WalkAt, EnterShard, Goto, tables, locks
<1>EnterBucket. ASSUME EnterBucket(t) PROVE Places'
  BY <1>EnterBucket DEF TypeOK, Control, ControlOf, TwoTables, InBucket, InShard, Walks, ShardIds, KeysOf, Places, WalkAt, EnterBucket, Goto, tables, locks
<1>EraseValue. ASSUME EraseValue(t) PROVE Places'
  BY <1>EraseValue DEF TypeOK, Control, ControlOf, TwoTables, InBucket, InShard, Walks, ShardIds, KeysOf, Places, WalkAt, EraseValue, Goto, tables, locks
<1>AskValue. ASSUME AskValue(t) PROVE Places'
  <2>1. CASE Goto(t, "value", "left")
    BY <1>AskValue, <2>1 DEF TypeOK, Control, ControlOf, TwoTables, InBucket, InShard, Walks, ShardIds, KeysOf, Places, WalkAt, AskValue, Inserting, Goto, tables, locks
  <2>2. CASE Goto(t, "value", "grow")
    BY <1>AskValue, <2>2 DEF TypeOK, Control, ControlOf, TwoTables, InBucket, InShard, Walks, ShardIds, KeysOf, Places, WalkAt, AskValue, Inserting, Goto, tables, locks
  <2>3. CASE Goto(t, "value", "put")
    BY <1>AskValue, <2>3 DEF TypeOK, Control, ControlOf, TwoTables, InBucket, InShard, Walks, ShardIds, KeysOf, Places, WalkAt, AskValue, Inserting, Goto, tables, locks
  <2>4. CASE Goto(t, "value", "look")
    BY <1>AskValue, <2>4 DEF TypeOK, Control, ControlOf, TwoTables, InBucket, InShard, Walks, ShardIds, KeysOf, Places, WalkAt, AskValue, Inserting, Goto, tables, locks
  <2>5. QED
    BY <1>AskValue, <2>1, <2>2, <2>3, <2>4 DEF TypeOK, AskValue, Inserting, Goto, tables, locks
<1>DropMerged. ASSUME DropMerged(t) PROVE Places'
  BY <1>DropMerged DEF TypeOK, Control, ControlOf, TwoTables, InBucket, InShard, Walks, ShardIds, KeysOf, Places, WalkAt, DropMerged, Goto, tables, locks
<1>LookFor. ASSUME LookFor(t) PROVE Places'
  BY <1>LookFor DEF TypeOK, Control, ControlOf, TwoTables, InBucket, InShard, Walks, ShardIds, KeysOf, Places, WalkAt, LookFor, Goto, tables, locks
<1>LeaveBucket. ASSUME LeaveBucket(t) PROVE Places'
  BY <1>LeaveBucket DEF TypeOK, Control, ControlOf, TwoTables, InBucket, InShard, Walks, ShardIds, KeysOf, Places, WalkAt, LeaveBucket, Goto, tables, locks
<1>LeaveShard. ASSUME LeaveShard(t) PROVE Places'
  BY <1>LeaveShard DEF TypeOK, Control, ControlOf, TwoTables, InBucket, InShard, Walks, ShardIds, KeysOf, Places, WalkAt, LeaveShard, Goto, tables, locks
<1> QED
  BY <1>CallPoint, <1>CallEraseIf, <1>CallBoth, <1>LoadData, <1>LockData, <1>MakeData, <1>UnlockData, <1>Grow, <1>Put, <1>Erase, <1>TakeBoth, <1>SwapFirst, <1>SwapSecond, <1>StartMerge, <1>StartCompare, <1>Release, <1>EndWalk, <1>EnterShard, <1>EnterBucket, <1>EraseValue, <1>AskValue, <1>DropMerged, <1>LookFor, <1>LeaveBucket, <1>LeaveShard DEF Call, Continue

\* 
LEMMA StepDataUse ==
  ASSUME ShardedTableAssumption, TypeOK, Control, TableLocks, DataUse, NEW t \in Threads, Call(t) \/ Continue(t)
  PROVE  DataUse'
<1> USE ShardedTableAssumption DEF ShardedTableAssumption
<1>CallPoint. ASSUME NEW op \in {"insert", "erase"}, NEW x \in Tables, NEW k \in Keys, CallPoint(t, op, x, k) PROVE DataUse'
  BY <1>CallPoint DEF TypeOK, Control, ControlOf, TwoTables, TableLocks, HasTables, DataUse, DataAt, Walks, CallPoint, Goto, tables, locks
<1>CallEraseIf. ASSUME NEW x \in Tables, CallEraseIf(t, x) PROVE DataUse'
  BY <1>CallEraseIf DEF TypeOK, Control, ControlOf, TwoTables, TableLocks, HasTables, DataUse, DataAt, Walks, CallEraseIf, Goto, tables, locks
<1>CallBoth. ASSUME NEW op \in {"swap", "merge", "compare"}, NEW x \in Tables, NEW y \in Tables, CallBoth(t, op, x, y) PROVE DataUse'
  BY <1>CallBoth DEF TypeOK, Control, ControlOf, TwoTables, TableLocks, HasTables, DataUse, DataAt, Walks, CallBoth, Goto, tables, locks
<1>LoadData. ASSUME LoadData(t) PROVE DataUse'
  <2>1. LoadDataDoes(t)
    BY <1>LoadData, LoadDataEffect
  <2>2. QED
    BY <2>1 DEF Control, ControlOf, TwoTables, TableLocks, HasTables, DataUse, DataAt, Walks, LoadDataDoes, Others, NoLocals, Locals
<1>LockData. ASSUME LockData(t) PROVE DataUse'
  BY <1>LockData DEF TypeOK, Control, ControlOf, TwoTables, TableLocks, HasTables, DataUse, DataAt, Walks, LockData, Goto, tables, locks
<1>MakeData. ASSUME MakeData(t) PROVE DataUse'
  BY <1>MakeData DEF TypeOK, Control, ControlOf, TwoTables, TableLocks, HasTables, DataUse, DataAt, Walks, MakeData, Goto, Made, Make, tables, locks
<1>UnlockData. ASSUME UnlockData(t) PROVE DataUse'
  BY <1>UnlockData DEF TypeOK, Control, ControlOf, TwoTables, TableLocks, HasTables, DataUse, DataAt, Walks, UnlockData, Inserting, Goto, tables, locks
<1>Grow. ASSUME Grow(t) PROVE DataUse'
  BY <1>Grow DEF TypeOK, Control, ControlOf, TwoTables, TableLocks, HasTables, DataUse, DataAt, Walks, Grow, Goto, tables, locks
<1>Put. ASSUME Put(t) PROVE DataUse'
  <2>1. PutDoes(t)
    BY <1>Put, PutEffect
  <2>2. QED
    BY <2>1 DEF Control, ControlOf, TwoTables, TableLocks, HasTables, DataUse, DataAt, Walks, PutDoes, Others, NoLocals, Locals
<1>Erase. ASSUME Erase(t) PROVE DataUse'
  <2>1. EraseDoes(t)
    BY <1>Erase, EraseEffect
  <2>2. QED
    BY <2>1 DEF Control, ControlOf, TwoTables, TableLocks, HasTables, DataUse, DataAt, Walks, EraseDoes, Others, NoLocals, Locals
<1>TakeBoth. ASSUME TakeBoth(t) PROVE DataUse'
  BY <1>TakeBoth DEF TypeOK, Control, ControlOf, TwoTables, TableLocks, HasTables, DataUse, DataAt, Walks, TakeBoth, Goto, tables, locks
<1>SwapFirst. ASSUME SwapFirst(t) PROVE DataUse'
  <2>1. Others(t) /\ loc[t] \in Locals
    BY <1>SwapFirst DEF TypeOK, Locals, Others, SwapFirst, Goto, tables, locks
  <2>2. /\ pc[t] = "swap" /\ loc[t].op = "swap" /\ loc[t].a \in Tables /\ loc[t].b \in Tables
        /\ pc'[t] = "swap_second" /\ loc'[t] = [loc[t] EXCEPT !.from = d_data[loc[t].b]]
        /\ d_data' = [d_data EXCEPT ![loc[t].b] = d_data[loc[t].a]] /\ made' = made
    BY <1>SwapFirst DEF TypeOK, Control, ControlOf, TwoTables, SwapFirst, Goto, tables, locks
  <2>3. HasTables(pc[t], loc[t]) = {loc[t].a, loc[t].b}
    BY <2>2 DEF HasTables, TwoTables
  <2>4. d_data' \in [Tables -> made' \cup {Null}]
    BY <2>2 DEF DataUse, DataAt
  <2>5. DataAt(pc[t], loc[t])'
    BY <2>1, <2>2, <2>4 DEF DataUse, DataAt, Walks, Locals
  <2>6. ASSUME NEW u \in Threads \ {t} PROVE DataAt(pc[u], loc[u])'
    <3>1. \A x \in Tables \ HasTables(pc[t], loc[t]) : d_data'[x] = d_data[x]
      BY <2>2, <2>3 DEF DataUse
    <3>2. made \subseteq made'
      BY <2>2
    <3>3. QED
      BY <2>1, <3>1, <3>2, OthersKeepData
  <2>7. QED
    BY <2>4, <2>5, <2>6 DEF DataUse
<1>SwapSecond. ASSUME SwapSecond(t) PROVE DataUse'
  <2>1. Others(t) /\ loc[t] \in Locals
    BY <1>SwapSecond DEF TypeOK, Locals, Others, SwapSecond, Goto, tables, locks
  <2>2. /\ pc[t] = "swap_second" /\ loc[t].op = "swap" /\ loc[t].a \in Tables /\ loc[t].b \in Tables
        /\ pc'[t] = "release" /\ loc'[t] = loc[t]
        /\ d_data' = [d_data EXCEPT ![loc[t].a] = loc[t].from] /\ made' = made
    BY <1>SwapSecond DEF TypeOK, Control, ControlOf, TwoTables, SwapSecond, Goto, tables, locks
  <2>3. HasTables(pc[t], loc[t]) = {loc[t].a, loc[t].b}
    BY <2>2 DEF HasTables, TwoTables
  <2>4. d_data' \in [Tables -> made' \cup {Null}]
    BY <2>2 DEF DataUse, DataAt
  <2>5. DataAt(pc[t], loc[t])'
    BY <2>1, <2>2, <2>4 DEF DataUse, DataAt, Walks, Locals
  <2>6. ASSUME NEW u \in Threads \ {t} PROVE DataAt(pc[u], loc[u])'
    <3>1. \A x \in Tables \ HasTables(pc[t], loc[t]) : d_data'[x] = d_data[x]
      BY <2>2, <2>3 DEF DataUse
    <3>2. made \subseteq made'
      BY <2>2
    <3>3. QED
      BY <2>1, <3>1, <3>2, OthersKeepData
  <2>7. QED
    BY <2>4, <2>5, <2>6 DEF DataUse
<1>StartMerge. ASSUME StartMerge(t) PROVE DataUse'
  <2>1. Others(t) /\ loc[t] \in Locals
    BY <1>StartMerge DEF TypeOK, Locals, Others, StartMerge, Goto, Made, Make, tables, locks
  <2>2. /\ pc[t] = "merge" /\ loc[t].op = "merge" /\ loc[t].a \in Tables /\ loc[t].b \in Tables /\ loc[t].a # loc[t].b
        /\ pc'[t] = IF d_data[loc[t].b] = Null THEN "release" ELSE "walk"
        /\ loc'[t] = [loc[t] EXCEPT !.to = d_data'[loc[t].a], !.from = d_data[loc[t].b]]
        /\ \/ /\ d_data[loc[t].a] = Null
              /\ \E d \in DataIds : made' = made \cup {d} /\ d_data' = [d_data EXCEPT ![loc[t].a] = d]
           \/ /\ d_data[loc[t].a] # Null /\ made' = made /\ d_data' = d_data
    BY <1>StartMerge DEF TypeOK, Control, ControlOf, TwoTables, StartMerge, Goto, Made, Make, tables, locks
  <2>3. HasTables(pc[t], loc[t]) = {loc[t].a, loc[t].b}
    BY <2>2 DEF HasTables, TwoTables
  <2>4. d_data' \in [Tables -> made' \cup {Null}]
    BY <2>2 DEF DataUse, DataAt
  <2>5. DataAt(pc[t], loc[t])'
    BY <2>1, <2>2, <2>4 DEF DataUse, DataAt, Walks, Locals
  <2>6. ASSUME NEW u \in Threads \ {t} PROVE DataAt(pc[u], loc[u])'
    <3>1. \A x \in Tables \ HasTables(pc[t], loc[t]) : d_data'[x] = d_data[x]
      BY <2>2, <2>3 DEF DataUse
    <3>2. made \subseteq made'
      BY <2>2
    <3>3. QED
      BY <2>1, <3>1, <3>2, OthersKeepData
  <2>7. QED
    BY <2>4, <2>5, <2>6 DEF DataUse
<1>StartCompare. ASSUME StartCompare(t) PROVE DataUse'
  BY <1>StartCompare DEF TypeOK, Control, ControlOf, TwoTables, TableLocks, HasTables, DataUse, DataAt, Walks, StartCompare, Goto, tables, locks
<1>Release. ASSUME Release(t) PROVE DataUse'
  BY <1>Release DEF TypeOK, Control, ControlOf, TwoTables, TableLocks, HasTables, DataUse, DataAt, Walks, Release, Return, Goto, NoLocals, tables, locks
<1>EndWalk. ASSUME EndWalk(t) PROVE DataUse'
  <2>1. EndWalkDoes(t)
    BY <1>EndWalk, EndWalkEffect
  <2>2. QED
    BY <2>1 DEF Control, ControlOf, TwoTables, TableLocks, HasTables, DataUse, DataAt, Walks, EndWalkDoes, Others, NoLocals, Locals
<1>EnterShard. ASSUME EnterShard(t) PROVE DataUse'
  BY <1>EnterShard DEF TypeOK, Control, ControlOf, TwoTables, TableLocks, HasTables, DataUse, DataAt, Walks, EnterShard, Goto, tables, locks
<1>EnterBucket. ASSUME EnterBucket(t) PROVE DataUse'
  BY <1>EnterBucket DEF TypeOK, Control, ControlOf, TwoTables, TableLocks, HasTables, DataUse, DataAt, Walks, EnterBucket, Goto, tables, locks
<1>EraseValue. ASSUME EraseValue(t) PROVE DataUse'
  BY <1>EraseValue DEF TypeOK, Control, ControlOf, TwoTables, TableLocks, HasTables, DataUse, DataAt, Walks, EraseValue, Goto, tables, locks
<1>AskValue. ASSUME AskValue(t) PROVE DataUse'
  BY <1>AskValue DEF TypeOK, Control, ControlOf, TwoTables, TableLocks, HasTables, DataUse, DataAt, Walks, AskValue, Inserting, Goto, tables, locks
<1>DropMerged. ASSUME DropMerged(t) PROVE DataUse'
  BY <1>DropMerged DEF TypeOK, Control, ControlOf, TwoTables, TableLocks, HasTables, DataUse, DataAt, Walks, DropMerged, Goto, tables, locks
<1>LookFor. ASSUME LookFor(t) PROVE DataUse'
  BY <1>LookFor DEF TypeOK, Control, ControlOf, TwoTables, TableLocks, HasTables, DataUse, DataAt, Walks, LookFor, Goto, tables, locks
<1>LeaveBucket. ASSUME LeaveBucket(t) PROVE DataUse'
  BY <1>LeaveBucket DEF TypeOK, Control, ControlOf, TwoTables, TableLocks, HasTables, DataUse, DataAt, Walks, LeaveBucket, Goto, tables, locks
<1>LeaveShard. ASSUME LeaveShard(t) PROVE DataUse'
  BY <1>LeaveShard DEF TypeOK, Control, ControlOf, TwoTables, TableLocks, HasTables, DataUse, DataAt, Walks, LeaveShard, Goto, tables, locks
<1> QED
  BY <1>CallPoint, <1>CallEraseIf, <1>CallBoth, <1>LoadData, <1>LockData, <1>MakeData, <1>UnlockData, <1>Grow, <1>Put, <1>Erase, <1>TakeBoth, <1>SwapFirst, <1>SwapSecond, <1>StartMerge, <1>StartCompare, <1>Release, <1>EndWalk, <1>EnterShard, <1>EnterBucket, <1>EraseValue, <1>AskValue, <1>DropMerged, <1>LookFor, <1>LeaveBucket, <1>LeaveShard DEF Call, Continue

\* 
LEMMA StepKeysStay ==
  ASSUME ShardedTableAssumption, TypeOK, Control, ShardLocks, BucketLocks, Places, DataUse, KeysStay, NEW t \in Threads, Call(t) \/ Continue(t)
  PROVE  KeysStay'
<1> USE ShardedTableAssumption DEF ShardedTableAssumption
<1>CallPoint. ASSUME NEW op \in {"insert", "erase"}, NEW x \in Tables, NEW k \in Keys, CallPoint(t, op, x, k) PROVE KeysStay'
  BY <1>CallPoint DEF TypeOK, Control, ControlOf, TwoTables, KeysStay, MovedAt, CallPoint, Goto, tables, locks
<1>CallEraseIf. ASSUME NEW x \in Tables, CallEraseIf(t, x) PROVE KeysStay'
  BY <1>CallEraseIf DEF TypeOK, Control, ControlOf, TwoTables, KeysStay, MovedAt, CallEraseIf, Goto, tables, locks
<1>CallBoth. ASSUME NEW op \in {"swap", "merge", "compare"}, NEW x \in Tables, NEW y \in Tables, CallBoth(t, op, x, y) PROVE KeysStay'
  BY <1>CallBoth DEF TypeOK, Control, ControlOf, TwoTables, KeysStay, MovedAt, CallBoth, Goto, tables, locks
<1>LoadData. ASSUME LoadData(t) PROVE KeysStay'
  <2>1. LoadDataDoes(t)
    BY <1>LoadData, LoadDataEffect
  <2>2. QED
    BY <2>1 DEF Control, ControlOf, TwoTables, KeysStay, MovedAt, LoadDataDoes, Others, NoLocals, Locals
<1>LockData. ASSUME LockData(t) PROVE KeysStay'
  BY <1>LockData DEF TypeOK, Control, ControlOf, TwoTables, KeysStay, MovedAt, LockData, Goto, tables, locks
<1>MakeData. ASSUME MakeData(t) PROVE KeysStay'
  BY <1>MakeData DEF TypeOK, Control, ControlOf, TwoTables, KeysStay, MovedAt, MakeData, Goto, Made, Make, tables, locks
<1>UnlockData. ASSUME UnlockData(t) PROVE KeysStay'
  <2>1. CASE Goto(t, "unlock", "grow")
    BY <1>UnlockData, <2>1 DEF TypeOK, Control, ControlOf, TwoTables, KeysStay, MovedAt, UnlockData, Inserting, Goto, tables, locks
  <2>2. CASE Goto(t, "unlock", "put")
    BY <1>UnlockData, <2>2 DEF TypeOK, Control, ControlOf, TwoTables, KeysStay, MovedAt, UnlockData, Inserting, Goto, tables, locks
  <2>3. QED
    BY <1>UnlockData, <2>1, <2>2 DEF TypeOK, UnlockData, Inserting, Goto, tables, locks
<1>Grow. ASSUME Grow(t) PROVE KeysStay'
  BY <1>Grow DEF TypeOK, Control, ControlOf, TwoTables, KeysStay, MovedAt, Grow, Goto, tables, locks
<1>Put. ASSUME Put(t) PROVE KeysStay'
  <2>1. PutDoes(t)
    BY <1>Put, PutEffect
  <2>2. \A d \in DataIds : keys[d] \subseteq keys'[d]
    BY <2>1 DEF PutDoes, TypeOK
  <2>3. ASSUME NEW u \in Threads, Moves(pc'[u], loc'[u])
        PROVE  loc'[u].key \in keys'[loc'[u].from]
    <3>1. Moves(pc[u], loc[u]) /\ loc'[u].key = loc[u].key /\ loc'[u].from = loc[u].from
      BY <2>1, <2>3 DEF PutDoes, Others, Moves, Locals, NoLocals
    <3>2. loc[u].key \in keys[loc[u].from] /\ loc[u].from \in DataIds
      BY <3>1 DEF Moves, KeysStay, MovedAt, DataUse, DataAt, Walks, TypeOK
    <3>3. QED
      BY <2>2, <3>1, <3>2
  <2>4. QED
    BY <2>3 DEF KeysStay, MovedAt, Moves
<1>Erase. ASSUME Erase(t) PROVE KeysStay'
  <2>1. EraseDoes(t) /\ loc[t].from \in DataIds /\ loc[t].key \in Keys
    BY <1>Erase, EraseEffect DEF EraseDoes, TypeOK, DataUse, DataAt, Control, ControlOf
  <2>2. ASSUME NEW u \in Threads, Moves(pc'[u], loc'[u])
        PROVE  loc'[u].key \in keys'[loc'[u].from]
    <3>1. pc'[u] = pc[u] /\ loc'[u] = loc[u]
      BY <2>1, <2>2 DEF EraseDoes, Others, Moves
    <3>2. Guard(loc[t].from, loc[t].key) # u
      BY <2>1 DEF EraseDoes, ShardedTableAssumption
    <3>3. QED
      BY <2>1, <2>2, <3>1, <3>2, KeyStays DEF EraseDoes
  <2>3. QED
    BY <2>2 DEF KeysStay, MovedAt, Moves
<1>TakeBoth. ASSUME TakeBoth(t) PROVE KeysStay'
  BY <1>TakeBoth DEF TypeOK, Control, ControlOf, TwoTables, KeysStay, MovedAt, TakeBoth, Goto, tables, locks
<1>SwapFirst. ASSUME SwapFirst(t) PROVE KeysStay'
  BY <1>SwapFirst DEF TypeOK, Control, ControlOf, TwoTables, KeysStay, MovedAt, SwapFirst, Goto, tables, locks
<1>SwapSecond. ASSUME SwapSecond(t) PROVE KeysStay'
  BY <1>SwapSecond DEF TypeOK, Control, ControlOf, TwoTables, KeysStay, MovedAt, SwapSecond, Goto, tables, locks
<1>StartMerge. ASSUME StartMerge(t) PROVE KeysStay'
  BY <1>StartMerge DEF TypeOK, Control, ControlOf, TwoTables, KeysStay, MovedAt, StartMerge, Goto, Made, Make, tables, locks
<1>StartCompare. ASSUME StartCompare(t) PROVE KeysStay'
  BY <1>StartCompare DEF TypeOK, Control, ControlOf, TwoTables, KeysStay, MovedAt, StartCompare, Goto, tables, locks
<1>Release. ASSUME Release(t) PROVE KeysStay'
  BY <1>Release DEF TypeOK, Control, ControlOf, TwoTables, KeysStay, MovedAt, Release, Return, Goto, NoLocals, tables, locks
<1>EndWalk. ASSUME EndWalk(t) PROVE KeysStay'
  <2>1. EndWalkDoes(t)
    BY <1>EndWalk, EndWalkEffect
  <2>2. QED
    BY <2>1 DEF EndWalkDoes, Others, KeysStay, MovedAt
<1>EnterShard. ASSUME EnterShard(t) PROVE KeysStay'
  BY <1>EnterShard DEF TypeOK, Control, ControlOf, TwoTables, KeysStay, MovedAt, EnterShard, Goto, tables, locks
<1>EnterBucket. ASSUME EnterBucket(t) PROVE KeysStay'
  BY <1>EnterBucket DEF TypeOK, Control, ControlOf, TwoTables, KeysStay, MovedAt, EnterBucket, Goto, tables, locks
<1>EraseValue. ASSUME EraseValue(t) PROVE KeysStay'
  <2>1. Others(t) /\ pc'[t] = "left" /\ InBucket(pc[t], loc[t])
    BY <1>EraseValue DEF TypeOK, Others, InBucket, InShard, Walks, Drops, EraseValue, Goto, tables, locks
  <2>2. PICK gone \in SUBSET {loc[t].key} : keys' = [keys EXCEPT ![loc[t].from] = @ \ gone]
    BY <1>EraseValue DEF EraseValue, Drops
  <2>3. Guard(loc[t].from, loc[t].key) = t /\ loc[t].from \in DataIds /\ loc[t].key \in Keys
    BY <2>1, BucketGuarded
  <2>4. ASSUME NEW u \in Threads, Moves(pc'[u], loc'[u])
        PROVE  loc'[u].key \in keys'[loc'[u].from]
    <3>1. u # t /\ pc'[u] = pc[u] /\ loc'[u] = loc[u]
      BY <2>1, <2>4 DEF Others, Moves
    <3>2. QED
      BY <2>2, <2>3, <2>4, <3>1, KeyStays
  <2>5. QED
    BY <2>4 DEF KeysStay, MovedAt, Moves
<1>AskValue. ASSUME AskValue(t) PROVE KeysStay'
  <2>1. CASE Goto(t, "value", "left")
    BY <1>AskValue, <2>1 DEF TypeOK, Control, ControlOf, TwoTables, KeysStay, MovedAt, AskValue, Inserting, Goto, tables, locks
  <2>2. CASE Goto(t, "value", "grow")
    BY <1>AskValue, <2>2 DEF TypeOK, Control, ControlOf, TwoTables, KeysStay, MovedAt, AskValue, Inserting, Goto, tables, locks
  <2>3. CASE Goto(t, "value", "put")
    BY <1>AskValue, <2>3 DEF TypeOK, Control, ControlOf, TwoTables, KeysStay, MovedAt, AskValue, Inserting, Goto, tables, locks
  <2>4. CASE Goto(t, "value", "look")
    BY <1>AskValue, <2>4 DEF TypeOK, Control, ControlOf, TwoTables, KeysStay, MovedAt, AskValue, Inserting, Goto, tables, locks
  <2>5. QED
    BY <1>AskValue, <2>1, <2>2, <2>3, <2>4 DEF TypeOK, AskValue, Inserting, Goto, tables, locks
<1>DropMerged. ASSUME DropMerged(t) PROVE KeysStay'
  <2>1. Others(t) /\ pc'[t] = "left" /\ InBucket(pc[t], loc[t])
    BY <1>DropMerged DEF TypeOK, Others, InBucket, InShard, Walks, Drops, DropMerged, Goto, tables, locks
  <2>2. PICK gone \in SUBSET {loc[t].key} : keys' = [keys EXCEPT ![loc[t].from] = @ \ gone]
    <3> DEFINE dropped == IF loc[t].new THEN {loc[t].key} ELSE {}
    <3>1. keys' = [keys EXCEPT ![loc[t].from] = @ \ dropped]
      BY <1>DropMerged DEF DropMerged, Drops
    <3>2. dropped \in SUBSET {loc[t].key}
      OBVIOUS
    <3> HIDE DEF dropped
    <3>3. QED
      BY <3>1, <3>2
  <2>3. Guard(loc[t].from, loc[t].key) = t /\ loc[t].from \in DataIds /\ loc[t].key \in Keys
    BY <2>1, BucketGuarded
  <2>4. ASSUME NEW u \in Threads, Moves(pc'[u], loc'[u])
        PROVE  loc'[u].key \in keys'[loc'[u].from]
    <3>1. u # t /\ pc'[u] = pc[u] /\ loc'[u] = loc[u]
      BY <2>1, <2>4 DEF Others, Moves
    <3>2. QED
      BY <2>2, <2>3, <2>4, <3>1, KeyStays
  <2>5. QED
    BY <2>4 DEF KeysStay, MovedAt, Moves
<1>LookFor. ASSUME LookFor(t) PROVE KeysStay'
  BY <1>LookFor DEF TypeOK, Control, ControlOf, TwoTables, KeysStay, MovedAt, LookFor, Goto, tables, locks
<1>LeaveBucket. ASSUME LeaveBucket(t) PROVE KeysStay'
  BY <1>LeaveBucket DEF TypeOK, Control, ControlOf, TwoTables, KeysStay, MovedAt, LeaveBucket, Goto, tables, locks
<1>LeaveShard. ASSUME LeaveShard(t) PROVE KeysStay'
  BY <1>LeaveShard DEF TypeOK, Control, ControlOf, TwoTables, KeysStay, MovedAt, LeaveShard, Goto, tables, locks
<1> QED
  BY <1>CallPoint, <1>CallEraseIf, <1>CallBoth, <1>LoadData, <1>LockData, <1>MakeData, <1>UnlockData, <1>Grow, <1>Put, <1>Erase, <1>TakeBoth, <1>SwapFirst, <1>SwapSecond, <1>StartMerge, <1>StartCompare, <1>Release, <1>EndWalk, <1>EnterShard, <1>EnterBucket, <1>EraseValue, <1>AskValue, <1>DropMerged, <1>LookFor, <1>LeaveBucket, <1>LeaveShard DEF Call, Continue

-----------------------------------------------------------------------------
\* Data and tables.

\* Where a table's data is: in the hands of a thread that swaps it, or in the table.
Swapping(t, x) == pc[t] = "swap_second" /\ loc[t].a = x

LEMMA HomeOf ==
  ASSUME Control, TableLocks, NEW x \in Tables
  PROVE  /\ \A t \in Threads : Swapping(t, x) => Home(x) = loc[t].from
         /\ (\A t \in Threads : ~Swapping(t, x)) => Home(x) = d_data[x]
<1>1. \A t, u \in Threads : Swapping(t, x) /\ Swapping(u, x) => t = u
  BY DEF Swapping, Control, ControlOf, TwoTables, TableLocks, HasTables
<1>2. QED
  BY <1>1 DEF Home, Swapping

LEMMA NextHomeOf ==
  ASSUME Control', TableLocks', NEW x \in Tables
  PROVE  /\ \A t \in Threads : Swapping(t, x)' => Home(x)' = loc'[t].from
         /\ (\A t \in Threads : ~Swapping(t, x)') => Home(x)' = d_data'[x]
<1>1. \A t, u \in Threads : Swapping(t, x)' /\ Swapping(u, x)' => t = u
  BY DEF Swapping, Control, ControlOf, TwoTables, TableLocks, HasTables
<1>2. QED
  BY <1>1 DEF Home, Swapping

LEMMA HomesStay ==
  ASSUME DataHasOneTable, UNCHANGED <<d_data, made>>,
         \A u \in Threads : /\ pc[u] = "swap_second" <=> pc'[u] = "swap_second"
                            /\ pc[u] = "swap_second" => loc'[u] = loc[u]
  PROVE  /\ \A x \in Tables : Home(x)' = Home(x)
         /\ DataHasOneTable'
<1>1. \A x \in Tables : Home(x)' = Home(x)
  <2> SUFFICES ASSUME NEW x \in Tables PROVE Home(x)' = Home(x)
    OBVIOUS
  <2> DEFINE swaps == {t \in Threads : pc[t] = "swap_second" /\ loc[t].a = x}
             next  == {t \in Threads : pc'[t] = "swap_second" /\ loc'[t].a = x}
             first == CHOOSE t \in swaps : TRUE
  <2>1. swaps = next
    OBVIOUS
  <2>2. Home(x) = (IF swaps = {} THEN d_data[x] ELSE loc[first].from)
    BY DEF Home
  <2>3. Home(x)' = (IF next = {} THEN d_data'[x] ELSE loc'[CHOOSE t \in next : TRUE].from)
    BY DEF Home
  <2>4. swaps # {} => loc'[first] = loc[first]
    OBVIOUS
  <2> HIDE DEF swaps, next
  <2>5. QED
    BY <2>1, <2>2, <2>3, <2>4
<1>2. QED
  BY <1>1 DEF DataHasOneTable

\* Who holds a table's lock and has not begun to swap it finds its data in it.
LEMMA HeldHome ==
  ASSUME Control, TableLocks, NEW t \in Threads, NEW x \in Tables, x \in HasTables(pc[t], loc[t]),
         pc[t] # "swap_second"
  PROVE  Home(x) = d_data[x] /\ \A u \in Threads : ~Swapping(u, x)
<1>1. \A u \in Threads : ~Swapping(u, x)
  BY DEF Swapping, Control, ControlOf, TwoTables, TableLocks, HasTables
<1>2. QED
  BY <1>1, HomeOf

\* What a thread does to d_data, outside of a swap, other tables do not see.
LEMMA OtherHomes ==
  ASSUME Control, TableLocks, Control', TableLocks', NEW t \in Threads, Others(t),
         pc[t] # "swap_second", pc'[t] # "swap_second",
         NEW x \in Tables, d_data'[x] = d_data[x]
  PROVE  Home(x)' = Home(x)
<1>1. \A u \in Threads : Swapping(u, x)' <=> Swapping(u, x)
  BY DEF Swapping, Others
<1>2. CASE \E u \in Threads : Swapping(u, x)
  <2>1. PICK u \in Threads : Swapping(u, x)
    BY <1>2
  <2>2. loc'[u] = loc[u] /\ Swapping(u, x)'
    BY <1>1, <2>1 DEF Swapping, Others
  <2>3. QED
    BY <2>1, <2>2, HomeOf, NextHomeOf
<1>3. CASE \A u \in Threads : ~Swapping(u, x)
  BY <1>1, <1>3, HomeOf, NextHomeOf
<1>4. QED
  BY <1>2, <1>3

\* New data for a table that has none.
LEMMA MadeHome ==
  ASSUME Control, TableLocks, Control', TableLocks', DataHasOneTable, TypeOK,
         d_data \in [Tables -> made \cup {Null}], Null \notin DataIds,
         NEW t \in Threads, Others(t), pc[t] # "swap_second", pc'[t] # "swap_second",
         loc[t].a \in HasTables(pc[t], loc[t]), loc[t].a \in Tables, Made(loc[t].a)
  PROVE  /\ DataHasOneTable'
         /\ \A x \in Tables : Home(x)' = Home(x) \/ (Home(x) = Null /\ Home(x)' \notin made)
         /\ made \subseteq made'
<1>0. PICK y \in Tables : y = loc[t].a
  OBVIOUS
<1>1. Home(y) = d_data[y] /\ \A u \in Threads : ~Swapping(u, y)
  BY <1>0, HeldHome
<1>2. \A u \in Threads : ~Swapping(u, y)'
  BY <1>1 DEF Swapping, Others
<1>3. Home(y)' = d_data'[y]
  BY <1>2, NextHomeOf
<1>4. CASE d_data[y] # Null
  <2>1. UNCHANGED <<made, d_data>>
    BY <1>0, <1>4 DEF Made
  <2>2. \A x \in Tables : Home(x)' = Home(x)
    BY <2>1, OtherHomes
  <2>3. DataHasOneTable'
    BY <2>1, <2>2 DEF DataHasOneTable
  <2>4. QED
    BY <2>1, <2>2, <2>3
<1>5. CASE d_data[y] = Null
  <2>1. PICK d \in DataIds \ made : made' = made \cup {d} /\ d_data' = [d_data EXCEPT ![y] = d]
    BY <1>0, <1>5 DEF Made, Make
  <2>2. Home(y)' = d /\ Home(y) = Null
    BY <1>1, <1>3, <1>5, <2>1
  <2>3. \A x \in Tables \ {y} : Home(x)' = Home(x)
    BY <2>1, OtherHomes
  <2>4. d # Null /\ \A x \in Tables : Home(x) # d
    BY <2>1 DEF DataHasOneTable
  <2>5. \A e \in made' : \E x \in Tables : Home(x)' = e
    <3>1. Null \notin made
      BY DEF TypeOK
    <3>2. ASSUME NEW e \in made PROVE \E x \in Tables : Home(x)' = e
      <4>1. PICK x \in Tables : Home(x) = e
        BY DEF DataHasOneTable
      <4>2. x # y
        BY <2>2, <3>1, <4>1
      <4>3. QED
        BY <2>3, <4>1, <4>2
    <3>3. QED
      BY <2>1, <2>2, <3>2
  <2>6. \A x \in Tables : Home(x)' \in made' \cup {Null}
    BY <2>1, <2>2, <2>3 DEF DataHasOneTable
  <2>7. \A x, z \in Tables : x # z /\ Home(x)' = Home(z)' => Home(x)' = Null
    BY <2>2, <2>3, <2>4 DEF DataHasOneTable
  <2>8. DataHasOneTable'
    BY <2>5, <2>6, <2>7 DEF DataHasOneTable
  <2>9. QED
    BY <2>1, <2>2, <2>3, <2>8
<1>6. QED
  BY <1>4, <1>5

LEMMA SwapFirstHomes ==
  ASSUME Control, TableLocks, Control', TableLocks', DataHasOneTable, TypeOK, NEW t \in Threads, SwapFirst(t)
  PROVE  DataHasOneTable'
<1>0. PICK a \in Tables, b \in Tables : a = loc[t].a /\ b = loc[t].b
  BY DEF SwapFirst, Goto, Control, ControlOf, TwoTables
<1>1. /\ pc[t] = "swap" /\ loc[t].op = "swap" /\ a # b
      /\ pc'[t] = "swap_second" /\ loc'[t].a = a /\ loc'[t].from = d_data[b]
      /\ d_data' = [d_data EXCEPT ![b] = d_data[a]] /\ made' = made
  BY <1>0 DEF TypeOK, SwapFirst, Goto, Control, ControlOf, TwoTables
<1>2. Others(t)
  BY DEF TypeOK, SwapFirst, Goto, Others
<1>3. HasTables(pc[t], loc[t]) = {a, b}
  BY <1>0, <1>1 DEF HasTables, TwoTables
<1>4. Home(a) = d_data[a] /\ Home(b) = d_data[b] /\ \A u \in Threads : ~Swapping(u, b)
  BY <1>1, <1>3, HeldHome
<1>5. Home(a)' = Home(b)
  <2>1. Swapping(t, a)'
    BY <1>0, <1>1 DEF Swapping
  <2>2. QED
    BY <1>1, <1>4, <2>1, NextHomeOf
<1>6. Home(b)' = Home(a)
  <2>1. \A u \in Threads : ~Swapping(u, b)'
    BY <1>0, <1>1, <1>2, <1>4 DEF Swapping, Others
  <2>2. d_data'[b] = d_data[a]
    BY <1>1 DEF TypeOK
  <2>3. QED
    BY <1>1, <1>4, <2>1, <2>2, NextHomeOf
<1>7. ASSUME NEW x \in Tables \ {a, b} PROVE Home(x)' = Home(x)
  <2>1. \A u \in Threads : Swapping(u, x)' <=> Swapping(u, x)
    BY <1>0, <1>1, <1>2 DEF Swapping, Others
  <2>2. d_data'[x] = d_data[x]
    BY <1>1 DEF TypeOK
  <2>3. CASE \E u \in Threads : Swapping(u, x)
    <3>1. PICK u \in Threads : Swapping(u, x)
      BY <2>3
    <3>2. loc'[u] = loc[u] /\ Swapping(u, x)'
      BY <1>1, <1>2, <2>1, <3>1 DEF Swapping, Others
    <3>3. QED
      BY <3>1, <3>2, HomeOf, NextHomeOf
  <2>4. CASE \A u \in Threads : ~Swapping(u, x)
    BY <2>1, <2>2, <2>4, HomeOf, NextHomeOf
  <2>5. QED
    BY <2>3, <2>4
<1>8. QED
  <2>1. a # b /\ made' = made
    BY <1>1
  <2>2. QED
    BY <1>5, <1>6, <1>7, <2>1 DEF DataHasOneTable

LEMMA SwapSecondHomes ==
  ASSUME Control, TableLocks, Control', TableLocks', DataHasOneTable, TypeOK, NEW t \in Threads, SwapSecond(t)
  PROVE  DataHasOneTable' /\ \A x \in Tables : Home(x)' = Home(x)
<1>0. PICK a \in Tables : a = loc[t].a
  BY DEF SwapSecond, Goto, Control, ControlOf, TwoTables
<1>1. /\ pc[t] = "swap_second" /\ loc[t].op = "swap"
      /\ pc'[t] = "release" /\ loc'[t] = loc[t]
      /\ d_data' = [d_data EXCEPT ![a] = loc[t].from] /\ made' = made
  BY <1>0 DEF TypeOK, SwapSecond, Goto, Control, ControlOf, TwoTables
<1>2. Others(t)
  BY DEF TypeOK, SwapSecond, Goto, Others
<1>3. Home(a) = loc[t].from
  BY <1>0, <1>1, HomeOf DEF Swapping
<1>4. Home(a)' = loc[t].from
  <2>1. \A u \in Threads : ~Swapping(u, a)'
    BY <1>0, <1>1, <1>2 DEF Swapping, Others, Control, ControlOf, TwoTables, TableLocks, HasTables
  <2>2. d_data'[a] = loc[t].from
    BY <1>1 DEF TypeOK
  <2>3. QED
    BY <1>1, <2>1, <2>2, NextHomeOf
<1>5. ASSUME NEW x \in Tables \ {a} PROVE Home(x)' = Home(x)
  <2>1. \A u \in Threads : Swapping(u, x)' <=> Swapping(u, x)
    BY <1>0, <1>1, <1>2 DEF Swapping, Others
  <2>2. d_data'[x] = d_data[x]
    BY <1>1 DEF TypeOK
  <2>3. CASE \E u \in Threads : Swapping(u, x)
    <3>1. PICK u \in Threads : Swapping(u, x)
      BY <2>3
    <3>2. loc'[u] = loc[u] /\ Swapping(u, x)'
      BY <1>1, <1>2, <2>1, <3>1 DEF Swapping, Others
    <3>3. QED
      BY <3>1, <3>2, HomeOf, NextHomeOf
  <2>4. CASE \A u \in Threads : ~Swapping(u, x)
    BY <2>1, <2>2, <2>4, HomeOf, NextHomeOf
  <2>5. QED
    BY <2>3, <2>4
<1>6. made' = made /\ \A x \in Tables : Home(x)' = Home(x)
  BY <1>1, <1>3, <1>4, <1>5
<1>7. QED
  BY <1>6 DEF DataHasOneTable

\* Steps keep every data in one table.
LEMMA StepDataHasOneTable ==
  ASSUME ShardedTableAssumption, TypeOK, Control, TableLocks, DataUse, DataHasOneTable, Control', TableLocks',
         NEW t \in Threads, Call(t) \/ Continue(t)
  PROVE  DataHasOneTable'
<1>CallPoint. ASSUME NEW op \in {"insert", "erase"}, NEW x \in Tables, NEW k \in Keys, CallPoint(t, op, x, k) PROVE DataHasOneTable'
  BY <1>CallPoint, HomesStay DEF TypeOK, Control, ControlOf, TwoTables, CallPoint, Goto, tables, locks
<1>CallEraseIf. ASSUME NEW x \in Tables, CallEraseIf(t, x) PROVE DataHasOneTable'
  BY <1>CallEraseIf, HomesStay DEF TypeOK, Control, ControlOf, TwoTables, CallEraseIf, Goto, tables, locks
<1>CallBoth. ASSUME NEW op \in {"swap", "merge", "compare"}, NEW x \in Tables, NEW y \in Tables, CallBoth(t, op, x, y) PROVE DataHasOneTable'
  BY <1>CallBoth, HomesStay DEF TypeOK, Control, ControlOf, TwoTables, CallBoth, Goto, tables, locks
<1>LoadData. ASSUME LoadData(t) PROVE DataHasOneTable'
  BY <1>LoadData, HomesStay DEF TypeOK, Control, ControlOf, TwoTables, LoadData, Inserting, Return, Goto, tables, locks
<1>LockData. ASSUME LockData(t) PROVE DataHasOneTable'
  BY <1>LockData, HomesStay DEF TypeOK, Control, ControlOf, TwoTables, LockData, Goto, tables, locks
<1>MakeData. ASSUME MakeData(t) PROVE DataHasOneTable'
  <2>1. /\ Others(t) /\ pc[t] # "swap_second" /\ pc'[t] # "swap_second"
        /\ loc[t].a \in HasTables(pc[t], loc[t]) /\ loc[t].a \in Tables /\ Made(loc[t].a)
    BY <1>MakeData DEF MakeData, Goto, Others, TypeOK, Control, ControlOf, TwoTables, HasTables
  <2>2. d_data \in [Tables -> made \cup {Null}] /\ Null \notin DataIds
    BY DEF DataUse, ShardedTableAssumption
  <2>3. QED
    BY <2>1, <2>2, MadeHome
<1>UnlockData. ASSUME UnlockData(t) PROVE DataHasOneTable'
  BY <1>UnlockData, HomesStay DEF TypeOK, Control, ControlOf, TwoTables, UnlockData, Inserting, Goto, tables, locks
<1>Grow. ASSUME Grow(t) PROVE DataHasOneTable'
  BY <1>Grow, HomesStay DEF TypeOK, Control, ControlOf, TwoTables, Grow, Goto, tables, locks
<1>Put. ASSUME Put(t) PROVE DataHasOneTable'
  BY <1>Put, HomesStay DEF TypeOK, Control, ControlOf, TwoTables, Put, Goto, Return, tables, locks
<1>Erase. ASSUME Erase(t) PROVE DataHasOneTable'
  BY <1>Erase, HomesStay DEF TypeOK, Control, ControlOf, TwoTables, Erase, Return, Goto, tables, locks
<1>TakeBoth. ASSUME TakeBoth(t) PROVE DataHasOneTable'
  BY <1>TakeBoth, HomesStay DEF TypeOK, Control, ControlOf, TwoTables, TakeBoth, Goto, tables, locks
<1>SwapFirst. ASSUME SwapFirst(t) PROVE DataHasOneTable'
  BY <1>SwapFirst, SwapFirstHomes
<1>SwapSecond. ASSUME SwapSecond(t) PROVE DataHasOneTable'
  BY <1>SwapSecond, SwapSecondHomes
<1>StartMerge. ASSUME StartMerge(t) PROVE DataHasOneTable'
  <2>1. /\ Others(t) /\ pc[t] # "swap_second" /\ pc'[t] # "swap_second"
        /\ loc[t].a \in HasTables(pc[t], loc[t]) /\ loc[t].a \in Tables /\ Made(loc[t].a)
    BY <1>StartMerge DEF StartMerge, Goto, Others, TypeOK, Control, ControlOf, TwoTables, HasTables
  <2>2. d_data \in [Tables -> made \cup {Null}] /\ Null \notin DataIds
    BY DEF DataUse, ShardedTableAssumption
  <2>3. QED
    BY <2>1, <2>2, MadeHome
<1>StartCompare. ASSUME StartCompare(t) PROVE DataHasOneTable'
  BY <1>StartCompare, HomesStay DEF TypeOK, Control, ControlOf, TwoTables, StartCompare, Goto, tables, locks
<1>Release. ASSUME Release(t) PROVE DataHasOneTable'
  BY <1>Release, HomesStay DEF TypeOK, Control, ControlOf, TwoTables, Release, Return, Goto, tables, locks
<1>EndWalk. ASSUME EndWalk(t) PROVE DataHasOneTable'
  BY <1>EndWalk, HomesStay DEF TypeOK, Control, ControlOf, TwoTables, EndWalk, AfterWalk, Return, Goto, tables, locks
<1>EnterShard. ASSUME EnterShard(t) PROVE DataHasOneTable'
  BY <1>EnterShard, HomesStay DEF TypeOK, Control, ControlOf, TwoTables, EnterShard, Goto, tables, locks
<1>EnterBucket. ASSUME EnterBucket(t) PROVE DataHasOneTable'
  BY <1>EnterBucket, HomesStay DEF TypeOK, Control, ControlOf, TwoTables, EnterBucket, Goto, tables, locks
<1>EraseValue. ASSUME EraseValue(t) PROVE DataHasOneTable'
  BY <1>EraseValue, HomesStay DEF TypeOK, Control, ControlOf, TwoTables, EraseValue, Goto, tables, locks
<1>AskValue. ASSUME AskValue(t) PROVE DataHasOneTable'
  BY <1>AskValue, HomesStay DEF TypeOK, Control, ControlOf, TwoTables, AskValue, Inserting, Goto, tables, locks
<1>DropMerged. ASSUME DropMerged(t) PROVE DataHasOneTable'
  BY <1>DropMerged, HomesStay DEF TypeOK, Control, ControlOf, TwoTables, DropMerged, Goto, tables, locks
<1>LookFor. ASSUME LookFor(t) PROVE DataHasOneTable'
  BY <1>LookFor, HomesStay DEF TypeOK, Control, ControlOf, TwoTables, LookFor, Goto, tables, locks
<1>LeaveBucket. ASSUME LeaveBucket(t) PROVE DataHasOneTable'
  BY <1>LeaveBucket, HomesStay DEF TypeOK, Control, ControlOf, TwoTables, LeaveBucket, Goto, tables, locks
<1>LeaveShard. ASSUME LeaveShard(t) PROVE DataHasOneTable'
  BY <1>LeaveShard, HomesStay DEF TypeOK, Control, ControlOf, TwoTables, LeaveShard, Goto, tables, locks
<1> QED
  BY <1>CallPoint, <1>CallEraseIf, <1>CallBoth, <1>LoadData, <1>LockData, <1>MakeData, <1>UnlockData, <1>Grow, <1>Put, <1>Erase, <1>TakeBoth, <1>SwapFirst, <1>SwapSecond, <1>StartMerge, <1>StartCompare, <1>Release, <1>EndWalk, <1>EnterShard, <1>EnterBucket, <1>EraseValue, <1>AskValue, <1>DropMerged, <1>LookFor, <1>LeaveBucket, <1>LeaveShard DEF Call, Continue

-----------------------------------------------------------------------------
\* Keys.

\* The keys that merges have copied and not yet dropped.
LEMMA MovingStays ==
  ASSUME \A u \in Threads : /\ pc[u] = "drop" <=> pc'[u] = "drop"
                            /\ pc[u] = "drop" => loc'[u] = loc[u]
  PROVE  \A k \in Keys : Moving(k)' = Moving(k)
BY DEF Moving

\* Of steps that neither touch keys nor data.
LEMMA CountStays ==
  ASSUME KeyCount, UNCHANGED <<made, keys, net>>,
         \A u \in Threads : /\ pc[u] = "drop" <=> pc'[u] = "drop"
                            /\ pc[u] = "drop" => loc'[u] = loc[u]
  PROVE  KeyCount'
<1>1. \A k \in Keys : Moving(k)' = Moving(k) /\ Holders(k)' = Holders(k)
  BY MovingStays DEF Holders
<1>2. QED
  BY <1>1 DEF KeyCount

\* New data has no keys.
LEMMA CountOfNewData ==
  ASSUME TypeOK, KeyCount, NEW t \in Threads, Made(loc[t].a), UNCHANGED <<keys, net>>,
         \A u \in Threads : /\ pc[u] = "drop" <=> pc'[u] = "drop"
                            /\ pc[u] = "drop" => loc'[u] = loc[u]
  PROVE  KeyCount'
<1>1. CASE made' = made
  BY <1>1, CountStays
<1>2. CASE made' # made
  <2>1. PICK d \in DataIds \ made : made' = made \cup {d}
    BY <1>2 DEF Made, Make
  <2>2. keys[d] = {}
    BY <2>1 DEF KeyCount
  <2>3. \A k \in Keys : Moving(k)' = Moving(k) /\ Holders(k)' = Holders(k)
    BY <2>1, <2>2, MovingStays DEF Holders
  <2>4. IsFiniteSet(made')
    BY <2>1, FS_AddElement DEF KeyCount
  <2>5. \A e \in DataIds \ made' : keys'[e] = {}
    BY <2>1 DEF KeyCount
  <2>6. QED
    BY <2>3, <2>4, <2>5 DEF KeyCount
<1>3. QED
  BY <1>1, <1>2

\* A step that puts one key into some data, or takes it out.
CountChange(d, k, S) ==
  /\ keys' = [keys EXCEPT ![d] = S] /\ made' = made
  /\ \A j \in Keys \ {k} : /\ j \in S <=> j \in keys[d]
                           /\ net'[j] = net[j]
                           /\ Moving(j)' = Moving(j)
  /\ IsFiniteSet(Moving(k)')
  /\ \/ (k \in S <=> k \in keys[d]) /\ net'[k] + Cardinality(Moving(k)') = net[k] + Cardinality(Moving(k))
     \/ /\ k \in S /\ k \notin keys[d]
        /\ net'[k] + Cardinality(Moving(k)') = net[k] + Cardinality(Moving(k)) + 1
     \/ /\ k \notin S /\ k \in keys[d]
        /\ net'[k] + Cardinality(Moving(k)') = net[k] + Cardinality(Moving(k)) - 1

LEMMA CountChanges ==
  ASSUME TypeOK, KeyCount, NEW d \in made, NEW k \in Keys, NEW S \in SUBSET Keys, CountChange(d, k, S)
  PROVE  KeyCount'
<1> USE DEF CountChange
<1>1. d \in DataIds /\ keys'[d] = S /\ \A e \in DataIds \ {d} : keys'[e] = keys[e]
  BY DEF TypeOK
<1>2. \A j \in Keys \ {k} : Holders(j)' = Holders(j)
  BY <1>1 DEF Holders, TypeOK
<1>3. Holders(k) \subseteq made /\ IsFiniteSet(Holders(k))
  BY FS_Subset DEF Holders, KeyCount
<1>4. Cardinality(Holders(k)) \in Nat
  BY <1>3, FS_CardinalityType
<1>5. Cardinality(Holders(k)') = net'[k] + Cardinality(Moving(k)')
  <2>00. net[k] \in Int /\ Cardinality(Moving(k)) \in Nat
    BY FS_CardinalityType DEF TypeOK, KeyCount
  <2>0. Cardinality(Holders(k)) = net[k] + Cardinality(Moving(k))
    BY DEF KeyCount
  <2>1. CASE k \in S <=> k \in keys[d]
    <3>1. Holders(k)' = Holders(k)
      BY <1>1, <2>1 DEF Holders, TypeOK
    <3>2. QED
      BY <2>0, <2>1, <3>1
  <2>2. CASE k \in S /\ k \notin keys[d]
    <3>1. Holders(k)' = Holders(k) \cup {d} /\ d \notin Holders(k)
      BY <1>1, <2>2 DEF Holders, TypeOK
    <3>2. Cardinality(Holders(k)') = Cardinality(Holders(k)) + 1
      BY <1>3, <3>1, FS_AddElement
    <3>3. QED
      BY <2>0, <2>2, <3>2
  <2>3. CASE k \notin S /\ k \in keys[d]
    <3>1. Holders(k)' = Holders(k) \ {d} /\ d \in Holders(k)
      BY <1>1, <2>3 DEF Holders, TypeOK
    <3>2. Cardinality(Holders(k)') = Cardinality(Holders(k)) - 1
      BY <1>3, <3>1, FS_RemoveElement
    <3>3. net'[k] + Cardinality(Moving(k)') = net[k] + Cardinality(Moving(k)) - 1
      BY <2>3
    <3>4. QED
      BY <1>4, <2>00, <2>0, <3>2, <3>3
  <2>4. QED
    BY <2>1, <2>2, <2>3
<1>6. \A e \in DataIds \ made' : keys'[e] = {}
  BY <1>1 DEF KeyCount
<1>7. \A j \in Keys : /\ IsFiniteSet(Moving(j)')
                      /\ Cardinality(Holders(j)') = net'[j] + Cardinality(Moving(j)')
  BY <1>2, <1>5 DEF KeyCount
<1>8. QED
  BY <1>6, <1>7 DEF KeyCount

LEMMA PutCounts ==
  ASSUME ShardedTableAssumption, TypeOK, Control, Places, DataUse, KeyCount, NEW t \in Threads, Put(t)
  PROVE  KeyCount'
<1>1. PutDoes(t)
  BY PutEffect
<1>2. PICK k \in Keys : k = loc[t].key
  BY <1>1, KeyOf DEF PutDoes
<1>3. PICK d \in made : d = loc[t].to
  BY <1>1 DEF PutDoes, DataUse, DataAt
<1>4. d \in DataIds /\ keys[d] \in SUBSET Keys
  BY DEF TypeOK
<1>5. keys' = [keys EXCEPT ![d] = keys[d] \cup {k}] /\ made' = made
  BY <1>1, <1>2, <1>3, <1>4 DEF PutDoes, TypeOK
<1>6. net[k] \in Int /\ IsFiniteSet(Moving(k)) /\ Cardinality(Moving(k)) \in Nat
  BY FS_CardinalityType DEF TypeOK, KeyCount
<1>7. CASE loc[t].op = "insert"
  <2>1. pc'[t] = "idle" /\ net' = [net EXCEPT ![k] = IF k \in keys[d] THEN @ ELSE @ + 1]
    BY <1>1, <1>2, <1>3, <1>7 DEF Put, PutDoes
  <2>2. \A j \in Keys : Moving(j)' = Moving(j)
    BY <1>1, <2>1, MovingStays DEF PutDoes, Others
  <2>3. \A j \in Keys \ {k} : net'[j] = net[j]
    BY <2>1 DEF TypeOK
  <2>4. net'[k] = IF k \in keys[d] THEN net[k] ELSE net[k] + 1
    BY <2>1 DEF TypeOK
  <2>5. CountChange(d, k, keys[d] \cup {k})
    BY <1>4, <1>5, <1>6, <2>2, <2>3, <2>4 DEF CountChange
  <2>6. QED
    BY <1>4, <2>5, CountChanges
<1>8. CASE loc[t].op = "merge"
  <2>1. /\ pc[t] = "put" /\ pc'[t] = "drop" /\ net' = net /\ loc'[t].key = k /\ loc'[t].new = (k \notin keys[d])
        /\ Others(t)
    BY <1>1, <1>2, <1>3, <1>8 DEF PutDoes, Locals
  <2>2. \A j \in Keys : Moving(j)' = IF j = k /\ k \notin keys[d] THEN Moving(j) \cup {t} ELSE Moving(j)
    BY <2>1 DEF Moving, Others
  <2>3. t \notin Moving(k)
    BY <2>1 DEF Moving
  <2>4. k \notin keys[d] => /\ Cardinality(Moving(k)') = Cardinality(Moving(k)) + 1
                            /\ IsFiniteSet(Moving(k)')
    BY <1>6, <2>2, <2>3, FS_AddElement
  <2>5. CountChange(d, k, keys[d] \cup {k})
    BY <1>4, <1>5, <1>6, <2>1, <2>2, <2>4 DEF CountChange
  <2>6. QED
    BY <1>4, <2>5, CountChanges
<1>9. QED
  BY <1>1, <1>7, <1>8 DEF PutDoes

LEMMA EraseCounts ==
  ASSUME ShardedTableAssumption, TypeOK, Control, Places, DataUse, KeyCount, NEW t \in Threads, Erase(t)
  PROVE  KeyCount'
<1>1. EraseDoes(t)
  BY EraseEffect
<1>2. PICK k \in Keys : k = loc[t].key
  BY <1>1, KeyOf DEF EraseDoes
<1>3. PICK d \in made : d = loc[t].from
  BY <1>1 DEF EraseDoes, DataUse, DataAt
<1>4. d \in DataIds /\ keys[d] \in SUBSET Keys
  BY DEF TypeOK
<1>5. keys' = [keys EXCEPT ![d] = keys[d] \ {k}] /\ made' = made
  BY <1>1, <1>2, <1>3, <1>4 DEF EraseDoes, TypeOK
<1>6. net[k] \in Int /\ IsFiniteSet(Moving(k)) /\ Cardinality(Moving(k)) \in Nat
  BY FS_CardinalityType DEF TypeOK, KeyCount
<1>7. net' = [net EXCEPT ![k] = IF k \in keys[d] THEN @ - 1 ELSE @]
  BY <1>2, <1>3 DEF Erase
<1>8. \A j \in Keys : Moving(j)' = Moving(j)
  BY <1>1, MovingStays DEF EraseDoes, Others
<1>9. \A j \in Keys \ {k} : net'[j] = net[j]
  BY <1>7 DEF TypeOK
<1>10. net'[k] = IF k \in keys[d] THEN net[k] - 1 ELSE net[k]
  BY <1>7 DEF TypeOK
<1>11. CountChange(d, k, keys[d] \ {k})
  BY <1>4, <1>5, <1>6, <1>8, <1>9, <1>10 DEF CountChange
<1>12. QED
  BY <1>4, <1>11, CountChanges

LEMMA EraseValueCounts ==
  ASSUME ShardedTableAssumption, TypeOK, Control, Places, DataUse, KeyCount, NEW t \in Threads, EraseValue(t)
  PROVE  KeyCount'
<1>1. pc[t] = "value" /\ pc'[t] = "left" /\ Others(t) /\ made' = made
  BY DEF TypeOK, EraseValue, Goto, Others, tables
<1>2. PICK k \in Keys : k = loc[t].key
  BY <1>1, KeyOf DEF InBucket, InShard, Walks
<1>3. PICK d \in made : d = loc[t].from
  BY <1>1 DEF DataUse, DataAt, Walks
<1>4. d \in DataIds /\ keys[d] \in SUBSET Keys
  BY DEF TypeOK
<1>5. PICK gone \in SUBSET (keys[d] \cap {k}) :
        keys' = [keys EXCEPT ![d] = @ \ gone] /\ net' = [net EXCEPT ![k] = @ - Cardinality(gone)]
  BY <1>2, <1>3 DEF EraseValue
<1>6. net[k] \in Int /\ IsFiniteSet(Moving(k)) /\ Cardinality(Moving(k)) \in Nat
  BY FS_CardinalityType DEF TypeOK, KeyCount
<1>7. keys' = [keys EXCEPT ![d] = keys[d] \ gone]
  BY <1>4, <1>5 DEF TypeOK
<1>8. \A j \in Keys : Moving(j)' = Moving(j)
  BY <1>1, MovingStays DEF Others
<1>9. \A j \in Keys \ {k} : net'[j] = net[j]
  BY <1>5 DEF TypeOK
<1>10. net'[k] = net[k] - Cardinality(gone)
  BY <1>5 DEF TypeOK
<1>11. CASE gone = {}
  <2>1. Cardinality(gone) = 0
    BY <1>11, FS_EmptySet
  <2>2. CountChange(d, k, keys[d] \ gone)
    BY <1>1, <1>4, <1>6, <1>7, <1>8, <1>9, <1>10, <1>11, <2>1 DEF CountChange
  <2>3. QED
    BY <1>4, <2>2, CountChanges
<1>12. CASE gone = {k} /\ k \in keys[d]
  <2>1. Cardinality(gone) = 1
    BY <1>12, FS_Singleton
  <2>2. CountChange(d, k, keys[d] \ gone)
    BY <1>1, <1>4, <1>6, <1>7, <1>8, <1>9, <1>10, <1>12, <2>1 DEF CountChange
  <2>3. QED
    BY <1>4, <2>2, CountChanges
<1>13. QED
  BY <1>11, <1>12

LEMMA DropCounts ==
  ASSUME ShardedTableAssumption, TypeOK, Control, Places, DataUse, KeysStay, KeyCount, NEW t \in Threads, DropMerged(t)
  PROVE  KeyCount'
<1>1. /\ pc[t] = "drop" /\ pc'[t] = "left" /\ Others(t) /\ made' = made /\ net' = net
      /\ loc[t].op = "merge"
  BY DEF TypeOK, DropMerged, Goto, Others, tables, Control, ControlOf
<1>2. PICK k \in Keys : k = loc[t].key
  BY <1>1, KeyOf DEF InBucket, InShard, Walks
<1>3. PICK d \in made : d = loc[t].from
  BY <1>1 DEF DataUse, DataAt, Walks
<1>4. d \in DataIds /\ keys[d] \in SUBSET Keys
  BY DEF TypeOK
<1>5. k \in keys[d]
  BY <1>1, <1>2, <1>3 DEF KeysStay, MovedAt
<1>6. net[k] \in Int /\ IsFiniteSet(Moving(k)) /\ Cardinality(Moving(k)) \in Nat
  BY FS_CardinalityType DEF TypeOK, KeyCount
<1>7. keys' = [keys EXCEPT ![d] = IF loc[t].new THEN keys[d] \ {k} ELSE keys[d]]
  BY <1>2, <1>3, <1>4 DEF TypeOK, DropMerged, Drops
<1>8. \A j \in Keys : Moving(j)' = IF j = k /\ loc[t].new THEN Moving(j) \ {t} ELSE Moving(j)
  BY <1>1, <1>2 DEF Moving, Others
<1>9. loc[t].new => t \in Moving(k)
  BY <1>1, <1>2 DEF Moving
<1>10. CASE loc[t].new
  <2>1. Cardinality(Moving(k)') = Cardinality(Moving(k)) - 1 /\ IsFiniteSet(Moving(k)')
    BY <1>6, <1>8, <1>9, <1>10, FS_RemoveElement
  <2>2. keys' = [keys EXCEPT ![d] = keys[d] \ {k}] /\ \A j \in Keys \ {k} : Moving(j)' = Moving(j)
    BY <1>7, <1>8, <1>10
  <2>3. net'[k] + Cardinality(Moving(k)') = net[k] + Cardinality(Moving(k)) - 1
    BY <1>1, <1>6, <2>1
  <2>4. CountChange(d, k, keys[d] \ {k})
    BY <1>1, <1>4, <1>5, <2>1, <2>2, <2>3 DEF CountChange
  <2>5. QED
    BY <1>4, <2>4, CountChanges
<1>11. CASE ~loc[t].new
  <2>1. \A j \in Keys : Moving(j)' = Moving(j)
    BY <1>8, <1>11
  <2>2. keys' = keys
    BY <1>4, <1>7, <1>11 DEF TypeOK
  <2>3. Holders(k)' = Holders(k) /\ \A j \in Keys : Holders(j)' = Holders(j)
    BY <1>1, <2>2 DEF Holders
  <2>4. QED
    BY <1>1, <2>1, <2>2, <2>3 DEF KeyCount
<1>12. QED
  BY <1>10, <1>11

\* Steps keep the count of keys.
LEMMA StepKeyCount ==
  ASSUME ShardedTableAssumption, TypeOK, Control, Places, DataUse, KeysStay, KeyCount,
         NEW t \in Threads, Call(t) \/ Continue(t)
  PROVE  KeyCount'
<1>CallPoint. ASSUME NEW op \in {"insert", "erase"}, NEW x \in Tables, NEW k \in Keys, CallPoint(t, op, x, k) PROVE KeyCount'
  BY <1>CallPoint, CountStays DEF TypeOK, Control, ControlOf, TwoTables, CallPoint, Goto, tables, locks
<1>CallEraseIf. ASSUME NEW x \in Tables, CallEraseIf(t, x) PROVE KeyCount'
  BY <1>CallEraseIf, CountStays DEF TypeOK, Control, ControlOf, TwoTables, CallEraseIf, Goto, tables, locks
<1>CallBoth. ASSUME NEW op \in {"swap", "merge", "compare"}, NEW x \in Tables, NEW y \in Tables, CallBoth(t, op, x, y) PROVE KeyCount'
  BY <1>CallBoth, CountStays DEF TypeOK, Control, ControlOf, TwoTables, CallBoth, Goto, tables, locks
<1>LoadData. ASSUME LoadData(t) PROVE KeyCount'
  BY <1>LoadData, CountStays DEF TypeOK, Control, ControlOf, TwoTables, LoadData, Inserting, Return, Goto, tables, locks
<1>LockData. ASSUME LockData(t) PROVE KeyCount'
  BY <1>LockData, CountStays DEF TypeOK, Control, ControlOf, TwoTables, LockData, Goto, tables, locks
<1>MakeData. ASSUME MakeData(t) PROVE KeyCount'
  <2>1. Others(t) /\ pc[t] # "drop" /\ pc'[t] # "drop" /\ Made(loc[t].a) /\ UNCHANGED <<keys, net>>
    BY <1>MakeData DEF MakeData, Goto, Others, TypeOK
  <2>2. QED
    BY <2>1, CountOfNewData DEF Others
<1>UnlockData. ASSUME UnlockData(t) PROVE KeyCount'
  BY <1>UnlockData, CountStays DEF TypeOK, Control, ControlOf, TwoTables, UnlockData, Inserting, Goto, tables, locks
<1>Grow. ASSUME Grow(t) PROVE KeyCount'
  BY <1>Grow, CountStays DEF TypeOK, Control, ControlOf, TwoTables, Grow, Goto, tables, locks
<1>Put. ASSUME Put(t) PROVE KeyCount'
  BY <1>Put, PutCounts
<1>Erase. ASSUME Erase(t) PROVE KeyCount'
  BY <1>Erase, EraseCounts
<1>TakeBoth. ASSUME TakeBoth(t) PROVE KeyCount'
  BY <1>TakeBoth, CountStays DEF TypeOK, Control, ControlOf, TwoTables, TakeBoth, Goto, tables, locks
<1>SwapFirst. ASSUME SwapFirst(t) PROVE KeyCount'
  BY <1>SwapFirst, CountStays DEF TypeOK, Control, ControlOf, TwoTables, SwapFirst, Goto, tables, locks
<1>SwapSecond. ASSUME SwapSecond(t) PROVE KeyCount'
  BY <1>SwapSecond, CountStays DEF TypeOK, Control, ControlOf, TwoTables, SwapSecond, Goto, tables, locks
<1>StartMerge. ASSUME StartMerge(t) PROVE KeyCount'
  <2>1. Others(t) /\ pc[t] # "drop" /\ pc'[t] # "drop" /\ Made(loc[t].a) /\ UNCHANGED <<keys, net>>
    BY <1>StartMerge DEF StartMerge, Goto, Others, TypeOK
  <2>2. QED
    BY <2>1, CountOfNewData DEF Others
<1>StartCompare. ASSUME StartCompare(t) PROVE KeyCount'
  BY <1>StartCompare, CountStays DEF TypeOK, Control, ControlOf, TwoTables, StartCompare, Goto, tables, locks
<1>Release. ASSUME Release(t) PROVE KeyCount'
  BY <1>Release, CountStays DEF TypeOK, Control, ControlOf, TwoTables, Release, Return, Goto, tables, locks
<1>EndWalk. ASSUME EndWalk(t) PROVE KeyCount'
  BY <1>EndWalk, CountStays DEF TypeOK, Control, ControlOf, TwoTables, EndWalk, AfterWalk, Return, Goto, tables, locks
<1>EnterShard. ASSUME EnterShard(t) PROVE KeyCount'
  BY <1>EnterShard, CountStays DEF TypeOK, Control, ControlOf, TwoTables, EnterShard, Goto, tables, locks
<1>EnterBucket. ASSUME EnterBucket(t) PROVE KeyCount'
  BY <1>EnterBucket, CountStays DEF TypeOK, Control, ControlOf, TwoTables, EnterBucket, Goto, tables, locks
<1>EraseValue. ASSUME EraseValue(t) PROVE KeyCount'
  BY <1>EraseValue, EraseValueCounts
<1>AskValue. ASSUME AskValue(t) PROVE KeyCount'
  BY <1>AskValue, CountStays DEF TypeOK, Control, ControlOf, TwoTables, AskValue, Inserting, Goto, tables, locks
<1>DropMerged. ASSUME DropMerged(t) PROVE KeyCount'
  BY <1>DropMerged, DropCounts
<1>LookFor. ASSUME LookFor(t) PROVE KeyCount'
  BY <1>LookFor, CountStays DEF TypeOK, Control, ControlOf, TwoTables, LookFor, Goto, tables, locks
<1>LeaveBucket. ASSUME LeaveBucket(t) PROVE KeyCount'
  BY <1>LeaveBucket, CountStays DEF TypeOK, Control, ControlOf, TwoTables, LeaveBucket, Goto, tables, locks
<1>LeaveShard. ASSUME LeaveShard(t) PROVE KeyCount'
  BY <1>LeaveShard, CountStays DEF TypeOK, Control, ControlOf, TwoTables, LeaveShard, Goto, tables, locks
<1> QED
  BY <1>CallPoint, <1>CallEraseIf, <1>CallBoth, <1>LoadData, <1>LockData, <1>MakeData, <1>UnlockData, <1>Grow, <1>Put, <1>Erase, <1>TakeBoth, <1>SwapFirst, <1>SwapSecond, <1>StartMerge, <1>StartCompare, <1>Release, <1>EndWalk, <1>EnterShard, <1>EnterBucket, <1>EraseValue, <1>AskValue, <1>DropMerged, <1>LookFor, <1>LeaveBucket, <1>LeaveShard DEF Call, Continue

\* Each of the tables' data is that of one table: keys are counted by tables or by data alike.
LEMMA CountByTables ==
  ASSUME DataHasOneTable, KeyCount, Null \notin DataIds, made \subseteq DataIds
  PROVE  KeysAccounted
<1> SUFFICES ASSUME NEW k \in Keys
             PROVE  Cardinality({x \in Tables : Home(x) # Null /\ k \in keys[Home(x)]})
                      = net[k] + Cardinality(Moving(k))
  BY DEF KeysAccounted
<1> DEFINE T == {x \in Tables : Home(x) # Null /\ k \in keys[Home(x)]}
           home == [x \in T |-> Home(x)]
<1>1. IsFiniteSet(Holders(k))
  BY FS_Subset DEF Holders, KeyCount
<1>2. home \in [T -> Holders(k)]
  BY DEF DataHasOneTable, Holders
<1>3. \A x, y \in T : home[x] = home[y] => x = y
  BY DEF DataHasOneTable
<1>4. \A d \in Holders(k) : \E x \in T : home[x] = d
  <2> SUFFICES ASSUME NEW d \in Holders(k) PROVE \E x \in T : home[x] = d
    OBVIOUS
  <2>1. d \in made /\ d # Null /\ k \in keys[d]
    BY DEF Holders
  <2>2. PICK x \in Tables : Home(x) = d
    BY <2>1 DEF DataHasOneTable
  <2>3. x \in T
    BY <2>1, <2>2
  <2>4. QED
    BY <2>2, <2>3
<1> HIDE DEF T, home
<1>5. home \in Bijection(T, Holders(k))
  BY <1>2, <1>3, <1>4, Fun_IsBij
<1>6. ExistsBijection(Holders(k), T)
  BY <1>5, Fun_ExistsBij, Fun_ExistsBijSymmetric
<1>7. Cardinality(T) = Cardinality(Holders(k))
  BY <1>1, <1>6, FS_Bijection
<1>8. QED
  BY <1>7 DEF KeyCount, T

-----------------------------------------------------------------------------
\* Who waits for a thread, and for what.
LEMMA WaitsFor ==
  ASSUME ShardedTableAssumption, TypeOK, Control, TableLocks, ShardLocks, BucketLocks, Places, DataUse,
         NEW t \in Threads, NEW u \in Threads, u \in Blockers(t)
  PROVE  /\ pc[t] \in {"lock", "both", "walk", "grow", "put", "look", "erase"}
         /\ pc[t] \in {"lock", "both"} => HasTables(pc[u], loc[u]) # {}
         /\ pc[t] = "walk" => InShard(pc[u], loc[u]) /\ loc[u].from = loc[t].from
         /\ pc[t] \in {"grow", "put", "look"} => InShard(pc[u], loc[u]) /\ loc[u].from = loc[t].to
         /\ pc[t] = "erase" => InShard(pc[u], loc[u])
<1> USE ShardedTableAssumption DEF ShardedTableAssumption
<1>1. made \subseteq DataIds
  BY DEF TypeOK
<1>2. ASSUME NEW d \in made, NEW k \in Keys, Guard(d, k) = u
      PROVE  InShard(pc[u], loc[u]) /\ loc[u].from = d
  <2>1. index[k] \in ShardIds /\ d \in DataIds
    BY <1>1 DEF ShardIds
  <2>2. QED
    BY <1>2, <2>1 DEF Guard, ShardLocks, BucketLocks, InBucket
<1>3. CASE pc[t] = "lock"
  <2>1. loc[t].a \in Tables /\ dataLock[loc[t].a] = u
    BY <1>3 DEF Blockers, Control, ControlOf
  <2>2. QED
    BY <1>3, <2>1 DEF TableLocks
<1>4. CASE pc[t] = "both"
  <2>1. \E x \in Tables : dataLock[x] = u
    BY <1>4 DEF Blockers, Control, ControlOf, TwoTables
  <2>2. QED
    BY <1>4, <2>1 DEF TableLocks
<1>5. CASE pc[t] = "walk"
  <2>1. loc[t].i \in ShardIds /\ loc[t].from \in DataIds /\ walkLock[loc[t].from][loc[t].i] = u
    BY <1>1, <1>5 DEF Blockers, DataUse, DataAt, Walks, TypeOK, ShardIds
  <2>2. QED
    BY <1>5, <2>1 DEF ShardLocks
<1>6. CASE pc[t] = "bucket"
  <2>1. PICK k \in loc[t].left : bucketLock[loc[t].from][k] = u
    BY <1>6 DEF Blockers
  <2>2. /\ loc[t].from \in DataIds /\ k \in Keys /\ loc[t].i \in ShardIds /\ index[k] = loc[t].i
        /\ InShard(pc[t], loc[t]) /\ ~InBucket(pc[t], loc[t])
    BY <1>1, <1>6, <2>1 DEF DataUse, DataAt, Walks, InShard, InBucket, Places, WalkAt, KeysOf, ShardIds
  <2>3. InBucket(pc[u], loc[u]) /\ loc[u].from = loc[t].from /\ loc[u].key = k
    BY <2>1, <2>2 DEF BucketLocks
  <2>4. InShard(pc[u], loc[u]) /\ loc[u].i = loc[t].i
    BY <2>2, <2>3 DEF InBucket, Places, WalkAt, KeysOf
  <2>5. walkLock[loc[t].from][loc[t].i] = t /\ walkLock[loc[t].from][loc[t].i] = u
    BY <2>2, <2>3, <2>4 DEF ShardLocks
  <2>6. QED
    BY <2>2, <2>3, <2>5
<1>7. CASE pc[t] \in {"grow", "put", "look"}
  <2>1. loc[t].to \in made /\ loc[t].key \in Keys
    <3>1. loc[t].to \in made
      BY <1>7 DEF DataUse, DataAt, Control, ControlOf, Walks
    <3>2. loc[t].key \in Keys
      BY <1>7, KeyOf DEF InBucket, InShard, Walks
    <3>3. QED
      BY <3>1, <3>2
  <2>2. CASE pc[t] = "grow"
    <3>1. walkLock[loc[t].to][index[loc[t].key]] = u /\ index[loc[t].key] \in ShardIds
      BY <2>1, <2>2 DEF Blockers, ShardIds
    <3>2. QED
      BY <1>1, <2>1, <2>2, <3>1 DEF ShardLocks
  <2>3. CASE pc[t] \in {"put", "look"}
    <3>1. Guard(loc[t].to, loc[t].key) = u
      BY <2>3 DEF Blockers
    <3>2. QED
      BY <1>2, <2>1, <2>3, <3>1
  <2>4. QED
    BY <1>7, <2>2, <2>3
<1>8. CASE pc[t] = "erase"
  <2>1. loc[t].from \in made /\ loc[t].key \in Keys
    BY <1>8, KeyOf DEF DataUse, DataAt
  <2>2. Guard(loc[t].from, loc[t].key) = u
    BY <1>8 DEF Blockers
  <2>3. QED
    BY <1>2, <1>8, <2>1, <2>2
<1>9. pc[t] \in {"lock", "both", "walk", "bucket", "grow", "put", "look", "erase"}
  BY DEF Blockers
<1>10. QED
  BY <1>3, <1>4, <1>5, <1>6, <1>7, <1>8, <1>9

\* Who holds something while it waits is a walk of a merge or a comparison.
LEMMA HoldersThatWait ==
  ASSUME Control, NEW u \in Threads,
         pc[u] \in {"lock", "both", "walk", "grow", "put", "look", "erase"},
         HasTables(pc[u], loc[u]) # {} \/ InShard(pc[u], loc[u])
  PROVE  /\ loc[u].op \in {"merge", "compare"} /\ pc[u] \in {"walk", "grow", "put", "look"}
         /\ Walks(pc[u], loc[u])
         /\ InShard(pc[u], loc[u]) <=> pc[u] # "walk"
         /\ HasTables(pc[u], loc[u]) = {loc[u].a, loc[u].b}
         /\ loc[u].a \in Tables /\ loc[u].b \in Tables /\ loc[u].a # loc[u].b
<1>1. ControlOf(pc[u], loc[u])
  BY DEF Control
<1>2. CASE pc[u] \in {"lock", "both", "erase"}
  BY <1>1, <1>2 DEF ControlOf, HasTables, InShard, Walks, TwoTables
<1>3. CASE pc[u] = "walk"
  BY <1>1, <1>3 DEF ControlOf, HasTables, InShard, Walks, TwoTables
<1>4. CASE pc[u] \in {"grow", "put"}
  BY <1>1, <1>4 DEF ControlOf, HasTables, InShard, Walks, TwoTables
<1>5. CASE pc[u] = "look"
  BY <1>1, <1>5 DEF ControlOf, HasTables, InShard, Walks, TwoTables
<1>6. QED
  BY <1>2, <1>3, <1>4, <1>5

LEMMA NoCircleFollows ==
  ASSUME ShardedTableAssumption, TypeOK, Control, TableLocks, ShardLocks, BucketLocks, Places, DataUse,
         DataHasOneTable
  PROVE  NoCircle
<1> SUFFICES ASSUME NEW S \in SUBSET Threads, S # {}, \A t \in S : Blockers(t) \cap S # {}
             PROVE  FALSE
  BY DEF NoCircle
<1> DEFINE Waits(t)  == pc[t] \in {"lock", "both", "walk", "grow", "put", "look", "erase"}
           Merges(u) == /\ Waits(u)
                        /\ HasTables(pc[u], loc[u]) # {} \/ InShard(pc[u], loc[u])
<1>1. \A t \in S : Waits(t)
  BY WaitsFor
<1>2. PICK u \in S : Merges(u)
  <2>1. PICK t \in S : TRUE
    OBVIOUS
  <2>2. PICK u \in S : u \in Blockers(t)
    OBVIOUS
  <2>3. HasTables(pc[u], loc[u]) # {} \/ InShard(pc[u], loc[u])
    BY <2>2, WaitsFor
  <2>4. QED
    BY <1>1, <2>3
<1>3. PICK v \in S : v \in Blockers(u)
  OBVIOUS
<1>4. /\ loc[u].op \in {"merge", "compare"} /\ pc[u] \in {"walk", "grow", "put", "look"}
      /\ Walks(pc[u], loc[u]) /\ (InShard(pc[u], loc[u]) <=> pc[u] # "walk")
      /\ HasTables(pc[u], loc[u]) = {loc[u].a, loc[u].b}
      /\ loc[u].a \in Tables /\ loc[u].b \in Tables /\ loc[u].a # loc[u].b
  BY <1>2, HoldersThatWait
<1>5. /\ InShard(pc[v], loc[v])
      /\ loc[v].from = IF pc[u] = "walk" THEN loc[u].from ELSE loc[u].to
  BY <1>3, <1>4, WaitsFor
<1>6. /\ loc[v].op \in {"merge", "compare"} /\ pc[v] \in {"walk", "grow", "put", "look"}
      /\ Walks(pc[v], loc[v])
      /\ HasTables(pc[v], loc[v]) = {loc[v].a, loc[v].b}
      /\ loc[v].a \in Tables /\ loc[v].b \in Tables
  BY <1>1, <1>5, HoldersThatWait
<1>7. ASSUME NEW w \in Threads, loc[w].op \in {"merge", "compare"}, Walks(pc[w], loc[w]),
             pc[w] # "swap_second", HasTables(pc[w], loc[w]) = {loc[w].a, loc[w].b},
             loc[w].a \in Tables, loc[w].b \in Tables
      PROVE  /\ loc[w].from \in made /\ loc[w].to \in made
             /\ \E x \in HasTables(pc[w], loc[w]) : Home(x) = loc[w].from
             /\ \E x \in HasTables(pc[w], loc[w]) : Home(x) = loc[w].to
             /\ loc[w].op = "merge" => Home(loc[w].a) = loc[w].to /\ Home(loc[w].b) = loc[w].from
             /\ loc[w].op = "compare" => Home(loc[w].a) = loc[w].from /\ Home(loc[w].b) = loc[w].to
  <2>1. Home(loc[w].a) = d_data[loc[w].a] /\ Home(loc[w].b) = d_data[loc[w].b]
    BY <1>7, HeldHome
  <2>2. DataAt(pc[w], loc[w])
    BY DEF DataUse
  <2>3. QED
    BY <1>7, <2>1, <2>2 DEF DataAt
<1>8. PICK x \in HasTables(pc[u], loc[u]) : Home(x) = loc[v].from
  BY <1>4, <1>5, <1>7
<1>9. PICK y \in HasTables(pc[v], loc[v]) : Home(y) = loc[v].from /\ loc[v].from \in made
  BY <1>6, <1>7
<1>10. x = y
  BY <1>4, <1>6, <1>8, <1>9 DEF DataHasOneTable, TypeOK, ShardedTableAssumption
<1>11. u = v
  BY <1>8, <1>9, <1>10, TablesApart
<1>12. loc[u].from = loc[u].to /\ loc[u].from \in made
  BY <1>4, <1>5, <1>9, <1>11
<1>13. Home(loc[u].a) = Home(loc[u].b) /\ Home(loc[u].a) \in made
  BY <1>4, <1>7, <1>12
<1>14. QED
  BY <1>4, <1>13 DEF DataHasOneTable, TypeOK, ShardedTableAssumption

-----------------------------------------------------------------------------
\* The theorems.

LEMMA InitInvariant ==
  ASSUME ShardedTableAssumption, Init
  PROVE  TInv
<1> USE ShardedTableAssumption DEF Init, ShardedTableAssumption
<1>1. TypeOK
  <2>1. NoLocals \in Locals
    BY DEF NoLocals, Locals
  <2>2. QED
    BY <2>1 DEF TypeOK, PC, Locals, ShardIds
<1>2. Control /\ Places /\ KeysStay
  BY DEF Control, ControlOf, NoLocals, TwoTables, Places, WalkAt, InBucket, InShard, Walks, KeysStay, MovedAt
<1>3. TableLocks /\ ShardLocks /\ BucketLocks
  BY DEF TableLocks, HasTables, NoLocals, TwoTables, ShardLocks, BucketLocks, InBucket, InShard, Walks, ShardIds
<1>4. DataUse
  BY DEF DataUse, DataAt, Walks, NoLocals
<1>5. DataHasOneTable
  <2>1. \A x \in Tables : Home(x) = Null
    BY DEF Home
  <2>2. QED
    BY <2>1 DEF DataHasOneTable
<1>6. KeyCount
  <2>1. \A k \in Keys : Moving(k) = {} /\ Holders(k) = {} /\ net[k] = 0
    BY DEF Moving, Holders
  <2>2. Cardinality({}) = 0 /\ IsFiniteSet({})
    BY FS_EmptySet
  <2>3. ASSUME NEW k \in Keys
        PROVE  /\ IsFiniteSet(Moving(k))
               /\ Cardinality(Holders(k)) = net[k] + Cardinality(Moving(k))
    <3>1. Moving(k) = {} /\ Holders(k) = {} /\ net[k] = 0
      BY <2>1
    <3>2. Cardinality(Holders(k)) = 0 /\ Cardinality(Moving(k)) = 0 /\ IsFiniteSet(Moving(k))
      BY <2>2, <3>1
    <3> HIDE DEF Init
    <3>3. QED
      BY <3>1, <3>2
  <2>4. made = {} /\ \A d \in DataIds : keys[d] = {}
    OBVIOUS
  <2> HIDE DEF Init
  <2>5. IsFiniteSet(made) /\ \A d \in DataIds \ made : keys[d] = {}
    BY <2>2, <2>4
  <2>6. QED
    BY <2>3, <2>5 DEF KeyCount
<1>7. QED
  BY <1>1, <1>2, <1>3, <1>4, <1>5, <1>6 DEF TInv

LEMMA StepInvariant ==
  ASSUME ShardedTableAssumption, TInv, [Next]_vars
  PROVE  TInv'
<1>1. CASE UNCHANGED vars
  <2> USE <1>1 DEF vars, tables, locks
  <2>1. TypeOK' /\ Control' /\ TableLocks' /\ ShardLocks' /\ BucketLocks' /\ Places'
    BY DEF TInv, TypeOK, Control, TableLocks, ShardLocks, BucketLocks, Places
  <2>2. DataUse' /\ KeysStay'
    BY DEF TInv, DataUse, DataAt, KeysStay, MovedAt
  <2>3. DataHasOneTable' /\ KeyCount'
    BY HomesStay, CountStays DEF TInv
  <2>4. QED
    BY <2>1, <2>2, <2>3 DEF TInv
<1>2. ASSUME NEW t \in Threads, Call(t) \/ Continue(t)
      PROVE  TInv'
  <2> USE <1>2 DEF TInv
  <2>1. TypeOK' /\ Control' /\ TableLocks' /\ ShardLocks' /\ BucketLocks' /\ Places'
    BY StepTypeOK, StepControl, StepTableLocks, StepShardLocks, StepBucketLocks, StepPlaces
  <2>2. DataUse' /\ KeysStay'
    BY StepDataUse, StepKeysStay
  <2>3. DataHasOneTable' /\ KeyCount'
    BY <2>1, StepDataHasOneTable, StepKeyCount
  <2>4. QED
    BY <2>1, <2>2, <2>3
<1>3. QED
  BY <1>1, <1>2 DEF Next

(***************************************************************************)
(* The inductive invariant of calls on several tables: where each thread   *)
(* can be and which locks it holds there, where data and keys are.         *)
(***************************************************************************)
THEOREM Invariant ==
  ASSUME ShardedTableAssumption
  PROVE  Spec => []TInv
<1>1. Init => TInv
  BY InitInvariant
<1>2. TInv /\ [Next]_vars => TInv'
  BY StepInvariant
<1>3. QED
  BY <1>1, <1>2, PTL DEF Spec

(***************************************************************************)
(* All data that make_data() ever made belongs to one table, through lazy  *)
(* creation by several threads, swaps and merges.                          *)
(***************************************************************************)
THEOREM NoDataIsLost ==
  ASSUME ShardedTableAssumption
  PROVE  Spec => []DataHasOneTable
<1>1. TInv => DataHasOneTable
  BY DEF TInv
<1>2. QED
  BY <1>1, Invariant, PTL

(***************************************************************************)
(* A key is in as many tables as calls inserted it and did not erase it,   *)
(* whatever merges move meanwhile and wherever swaps put its data.         *)
(***************************************************************************)
THEOREM NoKeyIsLost ==
  ASSUME ShardedTableAssumption
  PROVE  Spec => []KeysAccounted
<1>1. TInv => KeysAccounted
  BY CountByTables DEF TInv, TypeOK, ShardedTableAssumption
<1>2. QED
  BY <1>1, Invariant, PTL

(***************************************************************************)
(* Threads never wait in a circle for the locks of tables, of shards and   *)
(* of buckets, however many they are and however many tables they use.     *)
(***************************************************************************)
THEOREM NoDeadlock ==
  ASSUME ShardedTableAssumption
  PROVE  Spec => []NoCircle
<1>1. TInv => NoCircle
  BY NoCircleFollows DEF TInv
<1>2. QED
  BY <1>1, Invariant, PTL

\* What the runs check of whole tables.
THEOREM TablesAreSound ==
  ASSUME ShardedTableAssumption
  PROVE  Spec => []TablesSound
<1>1. DataHasOneTable /\ KeysAccounted /\ NoCircle => TablesSound
  BY DEF TablesSound
<1>2. QED
  BY <1>1, NoDataIsLost, NoKeyIsLost, NoDeadlock, PTL
=============================================================================
