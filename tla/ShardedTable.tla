----------------------------- MODULE ShardedTable -----------------------------
(***************************************************************************)
(* ConcurrentHashTable of seq/internal/concurrent_hash_table.hpp, the base *)
(* of concurrent_set and concurrent_map: several tables, shared by         *)
(* threads.  A table points to its data, the array of its shards, made by  *)
(* the first insertion.  Calls on a key, and walks over one table, load    *)
(* the pointer without a lock.  swap(), merge() and operator== hold        *)
(* d_data_lock of both their tables; a merge walks over the shards of one  *)
(* and from each of their buckets inserts in the other.                    *)
(*                                                                         *)
(* A shard is what module ChainingTable shows of it: calls on a key take   *)
(* effect at one instant, when nobody holds their bucket; a walk holds the *)
(* shard's d_rehash_lock, and one bucket after the other.  Each key has a  *)
(* bucket of its own.  Before the shard has its lock array, d_rehash_lock  *)
(* guards its one bucket.                                                  *)
(***************************************************************************)
EXTENDS Integers, FiniteSets

CONSTANTS
  Threads, Tables,
  Keys,
  Shards,       \* map_count
  index,        \* index_from_hash, of a key
  DataIds,      \* addresses of PrivateData
  Null

ShardedTableAssumption ==
  /\ Shards \in Nat \ {0}
  /\ index \in [Keys -> 0 .. Shards - 1]
  /\ Null \notin DataIds \cup Threads

VARIABLES
  d_data,       \* per table, its data or Null
  dataLock,     \* per table, who holds d_data_lock
  made,         \* the data that has been made
  keys,         \* per data, the keys in all its shards
  d_locks,      \* per data, the shards that have a lock array
  walkLock,     \* per data and shard, who holds d_rehash_lock
  bucketLock,   \* per data and key, who holds the lock of its bucket
  pc, loc,      \* where each thread is, and its locals
  net           \* per key, insertions less erasures (history)

tables == <<d_data, dataLock, made>>
locks  == <<walkLock, bucketLock>>
vars   == <<tables, keys, d_locks, locks, pc, loc, net>>

ShardIds  == 0 .. Shards - 1
KeysOf(i) == {k \in Keys : index[k] = i}

NoLocals == [op |-> "none", a |-> Null, b |-> Null, key |-> Null, to |-> Null, from |-> Null,
             i |-> 0, left |-> {}, new |-> FALSE]

Init ==
  /\ d_data = [x \in Tables |-> Null]
  /\ dataLock = [x \in Tables |-> Null]
  /\ made = {}
  /\ keys = [d \in DataIds |-> {}]
  /\ d_locks = [d \in DataIds |-> {}]
  /\ walkLock = [d \in DataIds |-> [i \in ShardIds |-> Null]]
  /\ bucketLock = [d \in DataIds |-> [k \in Keys |-> Null]]
  /\ pc = [t \in Threads |-> "idle"]
  /\ loc = [t \in Threads |-> NoLocals]
  /\ net = [k \in Keys |-> 0]

Goto(t, from, to) == pc[t] = from /\ pc' = [pc EXCEPT ![t] = to]

Return(t, from) == Goto(t, from, "idle") /\ loc' = [loc EXCEPT ![t] = NoLocals]

-----------------------------------------------------------------------------
CallPoint(t, op, x, k) ==
  /\ op \in {"insert", "erase"}
  /\ Goto(t, "idle", "load")
  /\ loc' = [loc EXCEPT ![t].op = op, ![t].a = x, ![t].key = k]
  /\ UNCHANGED <<tables, keys, d_locks, locks, net>>

CallEraseIf(t, x) ==
  /\ Goto(t, "idle", "load")
  /\ loc' = [loc EXCEPT ![t].op = "erase_if", ![t].a = x]
  /\ UNCHANGED <<tables, keys, d_locks, locks, net>>

\* Of two tables: a call with the same one twice waits for itself.
CallBoth(t, op, x, y) ==
  /\ op \in {"swap", "merge", "compare"}
  /\ x # y
  /\ Goto(t, "idle", "both")
  /\ loc' = [loc EXCEPT ![t].op = op, ![t].a = x, ![t].b = y]
  /\ UNCHANGED <<tables, keys, d_locks, locks, net>>

-----------------------------------------------------------------------------
(***************************************************************************)
(* get_data and make_data.  An insertion may have to rehash first.         *)
(***************************************************************************)
Inserting(t, from) ==
  Goto(t, from, "grow") \/ Goto(t, from, "put")

LoadData(t) ==
  LET d == d_data[loc[t].a] IN
  /\ pc[t] = "load"
  /\ \/ /\ d = Null /\ loc[t].op = "insert"
        /\ Goto(t, "load", "lock") /\ UNCHANGED loc
     \/ /\ d = Null /\ loc[t].op # "insert"
        /\ Return(t, "load")
     \/ /\ d # Null /\ loc[t].op = "insert"
        /\ Inserting(t, "load") /\ loc' = [loc EXCEPT ![t].to = d]
     \/ /\ d # Null /\ loc[t].op = "erase"
        /\ Goto(t, "load", "erase") /\ loc' = [loc EXCEPT ![t].from = d]
     \/ /\ d # Null /\ loc[t].op = "erase_if"
        /\ Goto(t, "load", "walk") /\ loc' = [loc EXCEPT ![t].from = d]
  /\ UNCHANGED <<tables, keys, d_locks, locks, net>>

LockData(t) ==
  /\ Goto(t, "lock", "make")
  /\ dataLock[loc[t].a] = Null
  /\ dataLock' = [dataLock EXCEPT ![loc[t].a] = t]
  /\ UNCHANGED <<d_data, made, keys, d_locks, locks, loc, net>>

\* New data of table x.
Make(x) ==
  \E d \in DataIds \ made : made' = made \cup {d} /\ d_data' = [d_data EXCEPT ![x] = d]

\* Mutant: whoever has the lock makes the data, also after another thread did.
MakesAnew(x) == Make(x)

Made(x) == IF d_data[x] = Null THEN Make(x) ELSE UNCHANGED <<made, d_data>>

MakeData(t) ==
  /\ Goto(t, "make", "unlock")
  /\ Made(loc[t].a)
  /\ loc' = [loc EXCEPT ![t].to = d_data'[loc[t].a]]
  /\ UNCHANGED <<dataLock, keys, d_locks, locks, net>>

UnlockData(t) ==
  /\ Inserting(t, "unlock")
  /\ dataLock' = [dataLock EXCEPT ![loc[t].a] = Null]
  /\ UNCHANGED <<d_data, made, keys, d_locks, locks, loc, net>>

-----------------------------------------------------------------------------
(***************************************************************************)
(* A call on a key, in the shard of the data it loaded.                    *)
(***************************************************************************)
Guard(d, k) == IF index[k] \in d_locks[d] THEN bucketLock[d][k] ELSE walkLock[d][index[k]]

\* rehash_on_insert; the first time this makes the lock array.
Grow(t) ==
  LET d == loc[t].to
      i == index[loc[t].key]
  IN /\ Goto(t, "grow", "put")
     /\ walkLock[d][i] = Null
     /\ d_locks' = [d_locks EXCEPT ![d] = @ \cup {i}]
     /\ UNCHANGED <<tables, keys, locks, loc, net>>

\* An insertion returns; that of a merge goes on with the key it came from.
Put(t) ==
  LET d == loc[t].to
      k == loc[t].key
  IN /\ pc[t] = "put" /\ Guard(d, k) = Null
     /\ keys' = [keys EXCEPT ![d] = @ \cup {k}]
     /\ \/ /\ loc[t].op = "insert"
           /\ Return(t, "put")
           /\ net' = [net EXCEPT ![k] = IF k \in keys[d] THEN @ ELSE @ + 1]
        \/ /\ loc[t].op = "merge"
           /\ Goto(t, "put", "drop")
           /\ loc' = [loc EXCEPT ![t].new = k \notin keys[d]]
           /\ UNCHANGED net
     /\ UNCHANGED <<tables, d_locks, locks>>

Erase(t) ==
  LET d == loc[t].from
      k == loc[t].key
  IN /\ Return(t, "erase")
     /\ Guard(d, k) = Null
     /\ keys' = [keys EXCEPT ![d] = @ \ {k}]
     /\ net' = [net EXCEPT ![k] = IF k \in keys[d] THEN @ - 1 ELSE @]
     /\ UNCHANGED <<tables, d_locks, locks>>

-----------------------------------------------------------------------------
(***************************************************************************)
(* swap, merge and operator==.  std::lock, which is external, holds none   *)
(* of two locks while it waits for the other.                              *)
(***************************************************************************)
\* Mutant: the locks are taken in turn.
TakeInTurn(t) ==
  LET x == loc[t].a
      y == loc[t].b
  IN /\ pc[t] = "both"
     /\ IF dataLock[x] # t
        THEN /\ dataLock[x] = Null /\ dataLock' = [dataLock EXCEPT ![x] = t]
             /\ Goto(t, "both", "both")
        ELSE /\ dataLock[y] = Null /\ dataLock' = [dataLock EXCEPT ![y] = t]
             /\ Goto(t, "both", loc[t].op)
     /\ UNCHANGED <<d_data, made, keys, d_locks, locks, loc, net>>

TakeBoth(t) ==
  LET x == loc[t].a
      y == loc[t].b
  IN /\ Goto(t, "both", loc[t].op)
     /\ dataLock[x] = Null /\ dataLock[y] = Null
     /\ dataLock' = [dataLock EXCEPT ![x] = t, ![y] = t]
     /\ UNCHANGED <<d_data, made, keys, d_locks, locks, loc, net>>

\* Two stores, with a moment at which both tables have the same data.
SwapFirst(t) ==
  /\ Goto(t, "swap", "swap_second")
  /\ loc' = [loc EXCEPT ![t].from = d_data[loc[t].b]]
  /\ d_data' = [d_data EXCEPT ![loc[t].b] = d_data[loc[t].a]]
  /\ UNCHANGED <<dataLock, made, keys, d_locks, locks, net>>

SwapSecond(t) ==
  /\ Goto(t, "swap_second", "release")
  /\ d_data' = [d_data EXCEPT ![loc[t].a] = loc[t].from]
  /\ UNCHANGED <<dataLock, made, keys, d_locks, locks, loc, net>>

StartMerge(t) ==
  LET d == d_data[loc[t].b] IN
  /\ Goto(t, "merge", IF d = Null THEN "release" ELSE "walk")
  /\ Made(loc[t].a)
  /\ loc' = [loc EXCEPT ![t].to = d_data'[loc[t].a], ![t].from = d]
  /\ UNCHANGED <<dataLock, keys, d_locks, locks, net>>

StartCompare(t) ==
  LET d == d_data[loc[t].a]
      e == d_data[loc[t].b]
  IN /\ Goto(t, "compare", IF d = Null \/ e = Null THEN "release" ELSE "walk")
     /\ loc' = [loc EXCEPT ![t].from = d, ![t].to = e]
     /\ UNCHANGED <<tables, keys, d_locks, locks, net>>

Release(t) ==
  /\ Return(t, "release")
  /\ dataLock' = [dataLock EXCEPT ![loc[t].a] = Null, ![loc[t].b] = Null]
  /\ UNCHANGED <<d_data, made, keys, d_locks, locks, net>>

-----------------------------------------------------------------------------
(***************************************************************************)
(* Walks: erase_if, which merge is for each shard, and visit_all, which    *)
(* operator== is for each until a value is missing in the other table, or  *)
(* the sizes differ.                                                       *)
(***************************************************************************)
AfterWalk(t) == IF loc[t].op = "erase_if" THEN Return(t, "walk")
                ELSE Goto(t, "walk", "release") /\ UNCHANGED loc

SameSize(t) ==
  LET Size(d) == Cardinality(keys[d] \cap KeysOf(loc[t].i))
  IN loc[t].op = "compare" => Size(loc[t].from) = Size(loc[t].to)

EndWalk(t) ==
  /\ pc[t] = "walk"
  /\ loc[t].i = Shards \/ ~SameSize(t)
  /\ AfterWalk(t)
  /\ UNCHANGED <<tables, keys, d_locks, locks, net>>

EnterShard(t) ==
  LET d == loc[t].from
      i == loc[t].i
  IN /\ Goto(t, "walk", "bucket")
     /\ i < Shards /\ SameSize(t)
     /\ walkLock[d][i] = Null
     /\ walkLock' = [walkLock EXCEPT ![d][i] = t]
     /\ loc' = [loc EXCEPT ![t].left = KeysOf(i)]
     /\ UNCHANGED <<tables, keys, d_locks, bucketLock, net>>

EnterBucket(t) ==
  LET d == loc[t].from IN
  \E k \in loc[t].left :
    /\ Goto(t, "bucket", "value")
    /\ loc' = [loc EXCEPT ![t].key = k, ![t].left = @ \ {k}]
    /\ IF loc[t].i \in d_locks[d]
       THEN bucketLock[d][k] = Null /\ bucketLock' = [bucketLock EXCEPT ![d][k] = t]
       ELSE UNCHANGED bucketLock
    /\ UNCHANGED <<tables, keys, d_locks, walkLock, net>>

\* The functor of an erase_if() may take the value.
EraseValue(t) ==
  LET d == loc[t].from
      k == loc[t].key
  IN /\ Goto(t, "value", "left")
     /\ loc[t].op = "erase_if"
     /\ \E gone \in SUBSET (keys[d] \cap {k}) :
          /\ keys' = [keys EXCEPT ![d] = @ \ gone]
          /\ net' = [net EXCEPT ![k] = @ - Cardinality(gone)]
     /\ UNCHANGED <<tables, d_locks, locks, loc>>

\* In a merge it is inserted in the other table, in a comparison looked for.
AskValue(t) ==
  /\ pc[t] = "value" /\ loc[t].op # "erase_if"
  /\ \/ /\ loc[t].key \notin keys[loc[t].from] /\ Goto(t, "value", "left")
     \/ /\ loc[t].key \in keys[loc[t].from]
        /\ \/ loc[t].op = "merge" /\ Inserting(t, "value")
           \/ loc[t].op = "compare" /\ Goto(t, "value", "look")
  /\ UNCHANGED <<tables, keys, d_locks, locks, loc, net>>

\* Mutant: the value goes although the other table had it.
DropsAlways(t) == TRUE

\* emplace_policy told erase_if that the value was inserted.
Drops(t) == loc[t].new

DropMerged(t) ==
  LET d == loc[t].from IN
  /\ Goto(t, "drop", "left")
  /\ keys' = [keys EXCEPT ![d] = IF Drops(t) THEN @ \ {loc[t].key} ELSE @]
  /\ UNCHANGED <<tables, d_locks, locks, loc, net>>

\* A missing value ends the walk: no buckets are left, and no shards.
LookFor(t) ==
  LET k == loc[t].key IN
  /\ Goto(t, "look", "left")
  /\ Guard(loc[t].to, k) = Null
  /\ loc' = IF k \in keys[loc[t].to] THEN loc
            ELSE [loc EXCEPT ![t].left = {}, ![t].new = TRUE]
  /\ UNCHANGED <<tables, keys, d_locks, locks, net>>

LeaveBucket(t) ==
  LET d == loc[t].from
      k == loc[t].key
  IN /\ Goto(t, "left", "bucket")
     /\ bucketLock' = [bucketLock EXCEPT ![d][k] = IF @ = t THEN Null ELSE @]
     /\ UNCHANGED <<tables, keys, d_locks, walkLock, loc, net>>

LeaveShard(t) ==
  LET stop == loc[t].op = "compare" /\ loc[t].new IN
  /\ Goto(t, "bucket", "walk")
  /\ loc[t].left = {}
  /\ walkLock' = [walkLock EXCEPT ![loc[t].from][loc[t].i] = Null]
  /\ loc' = [loc EXCEPT ![t].i = IF stop THEN Shards ELSE @ + 1]
  /\ UNCHANGED <<tables, keys, d_locks, bucketLock, net>>

-----------------------------------------------------------------------------
Call(t) ==
  \/ \E op \in {"insert", "erase"}, x \in Tables, k \in Keys : CallPoint(t, op, x, k)
  \/ \E x \in Tables : CallEraseIf(t, x)
  \/ \E op \in {"swap", "merge", "compare"}, x, y \in Tables : CallBoth(t, op, x, y)

Continue(t) ==
  \/ LoadData(t) \/ LockData(t) \/ MakeData(t) \/ UnlockData(t)
  \/ Grow(t) \/ Put(t) \/ Erase(t)
  \/ TakeBoth(t) \/ SwapFirst(t) \/ SwapSecond(t) \/ StartMerge(t) \/ StartCompare(t) \/ Release(t)
  \/ EndWalk(t) \/ EnterShard(t) \/ EnterBucket(t) \/ EraseValue(t) \/ AskValue(t)
  \/ DropMerged(t) \/ LookFor(t) \/ LeaveBucket(t) \/ LeaveShard(t)

Next == \E t \in Threads : Call(t) \/ Continue(t)

Spec == Init /\ [][Next]_vars

-----------------------------------------------------------------------------
\* Properties.

PC == {"idle", "load", "lock", "make", "unlock", "grow", "put", "erase", "both", "swap", "swap_second",
       "merge", "compare", "release", "walk", "bucket", "value", "drop", "look", "left"}

TypeOK ==
  /\ d_data \in [Tables -> DataIds \cup {Null}]
  /\ dataLock \in [Tables -> Threads \cup {Null}]
  /\ made \subseteq DataIds
  /\ keys \in [DataIds -> SUBSET Keys]
  /\ d_locks \in [DataIds -> SUBSET ShardIds]
  /\ walkLock \in [DataIds -> [ShardIds -> Threads \cup {Null}]]
  /\ bucketLock \in [DataIds -> [Keys -> Threads \cup {Null}]]
  /\ pc \in [Threads -> PC]
  /\ loc \in [Threads -> [op : {"none", "insert", "erase", "erase_if", "swap", "merge", "compare"},
                          a : Tables \cup {Null}, b : Tables \cup {Null}, key : Keys \cup {Null},
                          to : DataIds \cup {Null}, from : DataIds \cup {Null},
                          i : 0 .. Shards, left : SUBSET Keys, new : BOOLEAN]]
  /\ net \in [Keys -> Int]

(***************************************************************************)
(* All data that was made belongs to one table, whoever made it at the     *)
(* same time, and whatever tables are swapped meanwhile: none is lost with *)
(* the keys in it, and no two tables share one but within a swap.          *)
(***************************************************************************)
Home(x) ==
  LET swaps == {t \in Threads : pc[t] = "swap_second" /\ loc[t].a = x}
  IN IF swaps = {} THEN d_data[x] ELSE loc[CHOOSE t \in swaps : TRUE].from

DataHasOneTable ==
  /\ \A d \in made : \E x \in Tables : Home(x) = d
  /\ \A x \in Tables : Home(x) \in made \cup {Null}
  /\ \A x, y \in Tables : x # y /\ Home(x) = Home(y) => Home(x) = Null

(***************************************************************************)
(* A key is in as many tables as calls inserted it and did not erase it:   *)
(* a merge neither loses nor doubles one, also while other threads insert  *)
(* and erase it on both sides and go on with tables swapped under them.    *)
(***************************************************************************)
Moving(k) == {t \in Threads : pc[t] = "drop" /\ loc[t].key = k /\ loc[t].new}

KeysAccounted ==
  \A k \in Keys :
    Cardinality({x \in Tables : Home(x) # Null /\ k \in keys[Home(x)]})
      = net[k] + Cardinality(Moving(k))

(***************************************************************************)
(* Threads never wait for each other in a circle, of the locks of tables,  *)
(* of shards and of buckets: in any set of them one waits for nobody in it.*)
(***************************************************************************)
Blockers(t) ==
  LET l == loc[t] IN
  CASE pc[t] = "lock"   -> {dataLock[l.a]}
    [] pc[t] = "both"   -> {dataLock[l.a], dataLock[l.b]}
    [] pc[t] = "walk"   -> IF l.i < Shards THEN {walkLock[l.from][l.i]} ELSE {}
    [] pc[t] = "bucket" -> {bucketLock[l.from][k] : k \in l.left}
    [] pc[t] = "grow"   -> {walkLock[l.to][index[l.key]]}
    [] pc[t] \in {"put", "look"} -> {Guard(l.to, l.key)}
    [] pc[t] = "erase"  -> {Guard(l.from, l.key)}
    [] OTHER            -> {}

NoCircle == \A S \in SUBSET Threads : S # {} => \E t \in S : Blockers(t) \cap S = {}

\* All three, for any numbers of threads, tables, keys and shards.
TablesSound == DataHasOneTable /\ KeysAccounted /\ NoCircle
=============================================================================
