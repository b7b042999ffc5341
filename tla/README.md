# A TLA+ model of seq

seq is a header-only C++17 library of containers. This directory holds TLA+
modules that model it, the TLC runs that check them on small instances, and
proofs that TLAPS checks for every instance. Line numbers are those of the files
under `src/seq/`.

The part whose correctness is hardest to test is the concurrent hash table and
the locks it is built from: threads are followed from one atomic operation to the
next, and the most important facts about them are proved. The rest of seq is
sequential: a container is a value and its member functions are functions of it,
modelled where a long sequence of legal calls, or a call that fails half way, can
break the structure.

## 1. Inventory

| part | state | operations | what is hard | what makes it correct |
|---|---|---|---|---|
| locks (`lock.hpp`) | an atomic flag (`spinlock`); an atomic word with a write bit, a bit `need_lock` and a reader count (`shared_spinner`) | lock, try_lock, timed attempts, and the shared forms | an operation is two or three atomic operations with other threads in between; counts that are taken back; deadlines; starvation | writers alone, exact counts, no bit left behind, writers go first, a timed attempt returns |
| concurrent hash table, one shard (`internal/concurrent_hash_table.hpp`, `ChainingHashTable`) | buckets and values (two arrays), the mask, a lock array that only grows, the rehash lock, `d_in_rehash` with a condition variable, size, next target, chain count | lookup, insertion, erasure, walks, `erase_if`, rehash, clear | operations go on in the buckets that a rehash has not reached; the mask is read before its lock; locks outlive buckets; allocations fail half way | one user of a bucket at a time, keys in their bucket, nothing lost or found twice, locks released, calls return |
| its shards (`ConcurrentHashTable`), facades `concurrent_map.hpp` | a pointer to an array of tables, a reader-writer lock on it | as above for one shard; merge, swap, assignment, comparison | two tables at once; lazy creation of the shards | no deadlock between two tables, nothing lost in a merge |
| ordered hash table (`ordered_map.hpp`) | a `sequence` of values, robin hood buckets with iterators into it, the largest distance or "dirty" | insertion, lookup, erasure, rehash, sort, copy, direct access to the sequence | two structures that must agree; a robin hood mode and a linear mode with tombstones; a rehash frees before it allocates | lookup finds exactly the values of the sequence, keys are unique, duplicates are removed in a stable way |
| `sequence.hpp` | a doubly linked list of chunks with a bit mask of used slots; a list of the chunks with free slots; ordered chunk indices | insertion at both ends and anywhere, erasure, compaction, sort | three views of the chunks that must agree; exceptions in a compaction | order kept, free list = chunks with room, indices monotone |
| `devector.hpp` | one block of memory, start, end | insertion and erasure anywhere, growth at either end | overlapping moves partly constructed and partly assigned | content as that of a sequence, capacity kept |
| `tiered_vector.hpp` | circular buffers of one size, all but the first and last of them full | insertion and erasure anywhere, change of the buffer size | a value passed through many buffers; exceptions on the way | content as that of a sequence, all inner buffers full |
| `flat_map.hpp` | a sorted tiered_vector | insertion, lookup, merges of sorted ranges | unsorted tails while a range is inserted | sorted and unique |
| radix tree (`internal/radix_tree.hpp`, `radix_map.hpp`, `radix_hash_map.hpp`) | directories that double, leaves with hashed or sorted values | insertion, erasure, lookup, lower bound, iteration | splits and merges of nodes, prefixes | every value on the path its bits give |
| `tiny_string.hpp` | an inline or a heap buffer | string operations | change of representation, arguments that alias the string | content as that of a string |
| `any.hpp` | a small buffer or a heap object and its type | copy, move, swap, compare | exceptions in swaps and copies | one owner of the object |
| `charconv.hpp`, `format.hpp`, `algorithm.hpp`, `bits.hpp`, `hash.hpp` | none, or thread local buffers | conversions, sorting networks, merges, bit scans, hashes | arithmetic boundaries | agreement with a reference definition |
| `utils.hpp`, `tagged_pointer.hpp`, `type_traits.hpp`, `seq_config.hpp`, `timer.hpp`, `testing.hpp`, tests, benchmarks | none of interest | | | |

How they interact. A shard uses a `spinlock` or a one byte `shared_spinner` per
bucket, taken from its `SharedLockArray`, and one more for rehashes; a thread
that waits for a bucket during a rehash sleeps on a condition variable that the
rehash notifies. `ConcurrentHashTable` picks a shard by the high bits of the
hash and holds `d_data_lock` for reading in the meantime. The ordered table keeps
its values in a `sequence` and stores the sequence's iterators; `sort()` and
`sequence()` change it behind the buckets' back and leave the table dirty.
`flat_map` is a `tiered_vector`, `radix_hash_map` a radix tree of hashes.

## 2. Modules

| module | models | extends / instances |
|---|---|---|
| `RWLock` | what a reader-writer lock promises (abstract) | |
| `SharedSpinner` | `shared_spinner` (`lock.hpp` 105-196), one step per atomic operation, both forms of `try_lock_shared` | instances `RWLock` |
| `Spinlock` | `spinlock` (44-106) with its timed attempts | instances `RWLock` |
| `BucketLocks` | `SharedLockArray` (180-287) and the wait of `ChainingHashTable::lock()` (733-745) against a rehash | |
| `ConcurrentSet` | what a concurrent set promises (abstract): a call takes effect at one instant, a walk passes every key that stays | |
| `ChainingTable` | `ChainingHashTable` (645-1482) with its threads, locks, rehash and failures; a bucket is a set of keys | instances `ConcurrentSet` |
| `BucketChain` | the nodes of the buckets: tiny hashes, dense nodes, erasure, `erase_if`, rehash and its failure, one thread | |
| `ShardedTable` | `ConcurrentHashTable` (1489-2080): several tables, the pointer to their shards, insertion, erasure, `erase_if`, `swap`, `merge`, comparison | |
| `OrderedTable` | `SparseFlatNodeHashTable` of `ordered_map.hpp` | |
| `LinearContainer` | what a linear container promises: operations on a sequence of values (abstract) | |
| `SequenceList` | `sequence.hpp`: chunks, masks, free list, iterators | `LinearContainer` |
| `DEVector` | `devector.hpp`: one block of memory, slot by slot | `LinearContainer` |
| `RingVector` | `CircularBuffer`, `BucketManager` and the member functions of `tiered_vector.hpp`, as functions | `LinearContainer` |
| `TieredVector` | a `tiered_vector` under calls of these | `RingVector` |
| `BinarySearch` | the three searches of `internal/binary_search.hpp` | |
| `FlatTree` | `flat_tree` of `flat_map.hpp`: a sorted tiered vector | `RingVector`, `BinarySearch` |
| `RadixTree` | `internal/radix_tree.hpp`, sorted and hashed | |
| `NetSort` | the sorts and merges of `algorithm.hpp` | |
| `Evaluation` | a value worked out once by an operation (for TLC's sake) | |
| `MCLocks`, `MCTables`, `MCHashTables`, `MCContainers` | the instances TLC checks; each has a variable `kind`, one kind of lock, table or container per behaviour, of the kinds a run names | |
| `MCChainingTable`, `MCOrderedTable` | one instance alone, for the runs that expect a violation | |
| `BucketLocksProofs`, `ChainingTableProofs`, `BucketChainProofs`, `ShardedTableProofs`, `DEVectorProofs` | the proofs about these | the module of that name |
| `LocksProofs` | the proofs about `SharedSpinner` and `Spinlock`, and the facts about all locks of the specification that the runs check | `MCLocks` |
| `TablesProofs` | the facts about one shard of the specification that the runs check | `MCTables` |
| `PowersOfTwo` | the least number of a set, and lemmas about 2^n, for `BucketLocksProofs`, `ChainingTableProofs`, `BucketChainProofs` and `DEVectorProofs` | |

How the modules rest on each other. `ChainingTable` takes the lock of a bucket to
be one word that changes in one step, which is what `SharedSpinner` and `Spinlock`
are shown to implement; that a bucket has one lock of its own is shown by
`BucketLocks`; and that the inside of a bucket is a set of keys by `BucketChain`.
`ShardedTable` takes a shard to be what `ChainingTable` is shown to be, a set whose
calls take effect at one instant, with a lock for its walks. `OrderedTable` takes
the sequence to be an order of iterators that stay where they are, as `SequenceList` has it.
`FlatTree` is built on the functions of `RingVector`, as the code is on
`tiered_vector`.

Correspondence of state and steps:

* A variable or a field has the name of the C++ member where it can (`dMask` is
  `d_hash_mask`). `pc[t]` is where thread t is inside a member function and
  `loc[t]`, `call[t]` or `expect[t]` its locals; an action is one atomic
  operation, or a stretch of code that touches shared state once. In
  `ChainingTable` an operation on a bucket is one step, because `BucketMutex`
  shows that nobody else uses the bucket.
* The sequential containers are one variable each, and an action is a whole call,
  as no one can look at them meanwhile. A call that throws leaves what the code
  leaves. What a call promises is checked in every reachable state for every
  argument (`KeepsPromise`; that of `DEVector` is `KeepsValues`), so the promise is an invariant and need not remember
  the call.
* A hash is a number. In `ChainingTable` the key is its own hash.
  `BucketChain` has tiny hashes as well, equal for some keys.
* Freed bucket arrays, nodes, chunks and lock arrays come from a few addresses and
  come back, so that the comparison of an old pointer with a new one may succeed.
* A word of `shared_spinner` is the record [w, n, r] of its fields, and the count
  r wraps. `ReadCap` is the count at which the overflow bit is set, 32 for one
  byte.
* An insertion decides whether to rehash (918-930) from fields that it loads one after the other
  without a lock. `InsertMayRehash` loads the size first and the others in one step; a
  rehash that it asks for tests the mask again under its lock (`AlreadyGrown`).
* In `ShardedTable` each key has a bucket of its own and data once made is not
  freed while the model runs; a walk may take the buckets of a shard in any order.
* Values, the functors of users, the allocator and `std::lock` are external: an
  allocation may fail, a functor sees a key, and `std::lock` holds neither of two locks while
  it waits for the other.
* Loads and stores are sequentially consistent, also where the code asks for
  less; the effects of weaker orders are not modelled.

## 3. Runs

| run | instance | what it shows |
|---|---|---|
| `SpinnerNarrow` | the one byte `shared_spinner`: 4 threads, full at 2 readers; whole tables: 2 threads, 2 tables, 2 keys in one of 2 shards, 2 arrays of shards | the inductive invariant `IInv` of the proofs, the bounded reader count, a waiting writer that keeps others out, the abstract lock; no keys lost between tables that are filled, swapped, merged, walked and compared, and no circle of waiting threads (`TablesSound`) |
| `Locks` | 3 threads on the four byte `shared_spinner`, 3 on the spinlock; 2 threads on the locks of 4 buckets with 4 addresses | mutual exclusion and exact counts with `fetch_add` and its undo, no forgotten `need_lock`, progress of writers; the flag's owner, timed attempts that return; one lock per bucket whoever makes its array, no lost wake-up |
| `Tables` | `core`: 2 threads, 2 keys in 1 to 4 buckets, insert, erase, rehash to any mask, failing allocations of chained nodes and of the lock array. `shared`: 2 threads with read-write bucket locks. `alone`: 1 thread, 3 keys, every operation with `clear()`, every failure. `mix`: const lookups and walks against insertions, erasures and rehashes | one user per bucket or readers only, keys in their bucket, the size, locks released, refinement of `ConcurrentSet` |
| `TableMix` | `mix` without symmetry, with fairness | calls go on returning |
| `HashTables` | chains: 5 keys, two of them with one tiny hash, nodes of 2 values, 4 dense nodes, 1 to 4 buckets, failure at every value of a rehash. ordered: 4 keys, 4 iterators, 1 to 16 buckets, linear from distance 2 on | chains without gaps, lookup finds exactly what is there, `erase_if` asks for every value; the index is sound, lookup agrees with the sequence, duplicates go in a stable way |
| `Containers` | ten kinds: `sequence` with chunks of 3; `devector` up to 7 slots; `tiered_vector` with buckets of 2 and 4 and up to 10 values; three flat sets, one for each search; a sorted and a hashed radix tree of six keys; `net_sort` of lists and of arrays | the inner invariants of each, and what every operation makes of the values |
| `SharedLookupKeepsLock`, `ClearLosesLock`, `CopyLosesIndex`, `DedupeOverruns`, `EmptyDirectory`, `SortUnstable` | see 5 | counterexamples |

Bounds. Every interleaving hazard listed in `PROJECT.json` is a race of two
threads, or of two with a third that changes the word between their steps; four
threads are needed where a count has to be full at two readers with a third one
racing for the place and a writer waiting. A second rehash during the first
wait needs three array sizes, 1, 2 and 4. `NodeSize`, `DenseSize` and `PerBucket` are small so
that chains of three nodes and rehashes happen with five keys. In the ordered table
`MaxDistance` is 2 so that the linear mode is reached with three keys of one
home; at 126 it takes a hundred. The homes are the last buckets of the smallest
table so that probes wrap. With whole tables all keys are in the first shard: a
second shard with keys of its own repeats the first, and an empty one is enough
for the walk to pass on.

The sizes that are built into the sequential containers are constants of the
models and much smaller than in the code, so that a few values reach every
branch: chunks of a sequence have 3 slots (4 to 64 in the code), which makes a
chunk full, partly free at either side, and emptied; buckets of a tiered vector
have 2 and 4 slots (64 and up), which gives rows of five buckets and two changes of the
bucket size; leaves of a radix tree have 2 keys and a directory leads by one bit, so
that six keys make directories inside directories, prefixes, merges and, for the hashed tree with
three bits, vectors. In `NetSort`, `small`, `block`, `chunk`, `waves`, `maxRuns` and
`unbalance` are the sizes at which the code goes from one way to sort to another; arrays
keep the block of eight that the network sorts, lists are sorted down to blocks of one.
`MaxChunks`, `MaxCapacity`, `MaxSize`, `MaxKeys` and `MaxIndex` only bound how
far a behaviour grows.

The kinds of one run share its time and not its states: a behaviour has one kind
from beginning to end, the variables of the others stay in their initial states.

Deadlock is checked except where a cfg says otherwise: only
`ClearLosesLock` switches it off, since its run is about one invariant and the
lost lock makes threads wait for ever.

Fairness. A thread inside a call of the class is scheduled again and again:
weak fairness of its next step (`Continue`). A critical section ends, which is
part of `Continue` in the lock modules. In `Spinlock` time passes: weak fairness
of `DeadlinePasses`. Nobody has to start a call and no allocation has to fail or
to succeed. No strong fairness is assumed anywhere: a lock that a thread tries
again and again may always be taken when it looks, so the properties say that
some writer, some call, gets on, never each one.

## 4. Proofs

TLC checks a small instance; the theorems below hold for every value of the
constants that the named assumptions allow. `PROJECT.json` lists them.

### Locks

`LocksProofs` proves of `shared_spinner`, for every finite set of threads, every `ReadCap`
and both forms of the lock:

* `TypeCorrect`, `WritersAlone`, `WordIsExact`, `ReadersBounded`,
  `NeedHasAWaiter`: the invariants of the same names as checked by the runs;
* `WriterGoesFirst`: while `need_lock` is set no step lets a reader or a
  `try_lock()` in;
* `ImplementsRWLock`: every behaviour is one of `RWLock`.

Assumption (`SpinnerAssumption`): threads are finitely many, `ReadCap` is at least 1,
and in the wide form there are fewer threads than the count has room for, as
`fetch_add` has no test. The narrow form has the test and needs no such bound:
that the count cannot overflow there is part of what is proved.

Argument. `MutualExclusion` is not inductive: a writer's compare-exchange expects
the word 0, and that tells nothing of the readers unless the count is exact. So
`IInv` says that the count is the number of threads between their increment and
their decrement (`WordCounts`, with the pending undo of the wide form), that
whoever is about to exchange to `write` expects a word without readers
(`ExpectsNoReader`), and that in the narrow form the word a reader expects is
below the cap (`NarrowExact`). `NeedHasWaiter` is part of it because `lock()`
expects either 0 or exactly `need_lock`. The proof has one lemma per group of
steps; what cardinalities need is in `SameHolders`, `HolderEnters`,
`HolderLeaves` and `RoomForOne`. The refinement follows from `IInv`, step by step
(`AbstractStep`).

It proves of `spinlock`, for any set of threads, finite or not, and
with no assumption at all:

* `OneOwner`: the flag is set exactly while one thread owns the lock;
* `SpinlockImplementsRWLock`: every behaviour is one of `RWLock`, the owner being
  its writer (`lock_shared()` is `lock()` there).

Argument. `SpinInv` is the type invariant and `FlagHasOneOwner`, which is
inductive: an exchange that finds the flag set leaves flag and owners alone, and
one that finds it clear has no other owner beside it (`ExchangeOwners`).
`OwnersMove` says of every step what the abstract lock needs to know of it.

### The locks of the buckets

`BucketLocksProofs` proves, for any set of threads, any set of addresses and
tables of any size 2^n (`BucketLocksAssumption`):

* `BucketsHaveOneLock`: whoever made its array, a bucket has one lock, of its own,
  and one user;
* `ArraysAreKept`: arrays made by several threads at a time are published or
  freed, none is leaked and none freed in use;
* `PublishedArraysStay`: a published array never moves;
* `Invariant`: the inductive invariant `BInv` behind them.

Argument. `BInv` relates what a thread looks for, has found and owns to the
arrays. Which lock belongs to a bucket is arithmetic of powers of two: bucket i is
in the array whose index a has 2^a <= i + 1 < 2^(a+1), and two buckets never share
an array and a place in it. The prover knows no more about 2^n than that it is the
number of subsets of n elements, and has no induction: `PowersOfTwo` derives what is needed from there, by
the least number of a set.

### One shard

`ChainingTableProofs` proves of `ChainingTable`, for any finite set of threads, any
keys, any addresses of arrays, any largest mask and both kinds of lock:

* `BucketsAreExclusive`: no two threads are on one bucket unless both only read it;
* `BucketsExist`: nobody is on a bucket that does not exist, or in an array of
  which only one half is published, or inserts in the static node;
* `KeysStayInPlace`: a key is in one array, in the bucket of its hash;
* `SizeIsExact`: `d_size` is the number of keys, but for the calls that have
  changed a bucket and not yet the counter;
* `LocksAreReleased`: no lock is held when no thread is in a call;
* `Typed`: every variable keeps its type; the six bits of readers never wrap;
* `Refinement`: every behaviour is one of `ConcurrentSet`;
* `Invariant`: the inductive invariant `CInv` behind them.

Assumptions. `TableAssumption` says what the constants are; it asks that masks are
2^n - 1 (`TableMasks`), as `rehash()` makes them. The two settings name the calls
that the code does get wrong beside others (section 5), and nothing else.
`ReadersOnlyWalk`: with locks that readers really share, the const calls are whole
walks, for a const lookup leaves its bucket locked and two walks that change values
meet before there is a lock array. `Concurrent`: nobody calls `clear()`, and the array of values is
not what fails to be allocated. Calls that come one at a time may do both: what a step keeps is
proved for `Concurrent` or `Alone(t)`, no other thread being in a call.

Argument. `CInv` is the conjunction of

* `Types` and `Control`: which call can be at which place, with which locals;
* `LocksExact`: from its place and its locals follow the locks a thread holds and how
  (`Held`, `Reads`); the word of every lock is written exactly when somebody
  holds it alone and counts exactly those who read;
* `OneRehash`: `d_in_rehash` is set exactly while one thread is in a rehash;
* `Views`: what each thread knows of the table it is in the middle of: that the
  position a lookup holds is the position of its key in the array in use
  (`NodeAt`), what a rehash has moved and where it went (`RehashAt`), which keys a walk has passed
  (`WalkAt`);
* `TableShape`, `KeysInPlace` and `Counted`: the arrays, the keys in them and their number.

None of the properties is inductive by itself. A thread on a bucket holds the lock
of that bucket, or `d_rehash_lock` before there are any (`UsesUnderLock`);
whoever publishes an array holds `d_rehash_lock` and every bucket lock 0 to
`dMask`, so that nobody is on a bucket then (`StoresAlone`) and what a thread read under
its lock stays true; and a rehash that has moved bucket i holds it, so that a
key that is inserted meanwhile goes where the rehash will find it
(`AheadOfRehash`). The proof has one lemma per action that says how it moves its thread
(`...Moves`) and one that it keeps `CInv` (`...Keeps`); actions that touch neither arrays nor keys
share `QuietStep`, the others `NoisyStep`. That TLC finds no violation of `CInv` on the instances
of `Tables` was checked before it was proved.

The refinement needs no more than `CInv`. The steps of `get_node()` and all but the
last of a rehash change neither the keys nor a call (`...Stutters`): whatever a rehash moves,
moves back or frees, the keys of all arrays together stay the same. A call
on a key takes effect where it is on its bucket (`CallApplies`), where a key is in the
table exactly if it is in that bucket (`KeyInBucket`). A walk passes the keys of one bucket,
which it has not passed before (`CallWalksOver`), and when it is through has passed
all that it counts on. An insertion whose rehash throws has done nothing.

`TablesProofs` draws the conclusion for `MCTables`: `Core`, `SharedLocks` and `Mix` meet the
settings by their constants, and of `Alone` it proves that calls come one at a time (`OneCallKept`).
So `TypeOK`, `BucketMutex`, `BucketExists`, `KeysInPlace`, `SizeCounts`,
`LocksReleased` and `RefinesConcurrentSet` are theorems of the specification that the run
`Tables` checks, for any threads and addresses: all that the run checks.

### The inside of the buckets

`BucketChainProofs` proves of `BucketChain`, for any keys, hashes and tiny hashes, any sizes of
the nodes, any addresses of dense nodes, any largest mask 2^n - 1 up to n = 31 and any number of values per bucket
at which the table grows (`BucketChainAssumption`):

* `NothingLeaks`: through insertions, erasures, `erase_if`, `clear()` and rehashes, done or
  failed, every dense node is in the chain of one live bucket, is not empty, and the nodes
  before the last one are full (`ChainShape`);
* `LookupIsExact`: outside a rehash a lookup finds every key that was inserted and not
  erased in one slot, and no other, and `size()` is their number (`LookupFinds`);
* `EraseIfIsComplete`: what `erase_if` has not asked its functor about is what its loops have
  still to reach, so that it asks about every value once (`EraseIfAsksAll`);
* `BucketTypes`: the type invariant; `BucketsHold`: the inductive invariant `BucketsInv`.

Argument. That chains are what they should be is a statement about paths of links, which
recursion would define and induction would use. `BucketsInv` says instead that the nodes can be
numbered: there are sequences `ch` of nodes, one for each live bucket, and maps `root` and `depth`
back to the bucket and the place of each node, with which the links agree (`Links`). From a
numbering follows what `Chain` computes (`ChainOf`), and every operation has a new numbering
to give: a dense node more or less at the end of one chain, an array of buckets more or
less. `Beyond` adds that slots behind the count have no value.

Of the slots the invariant says that there is a home, node `hn[k]` and slot `hp[k]`, for every
key of the table: a slot of the bucket of its hash, a different one for different keys
(`Placed`), and every slot in use is the home of a key (`Covered`). During a rehash the keys
that have `moved` have a second home, `gn` and `gp`, in the new array, their slots in the old
one have neither value nor hash (`Blank`), and what is left to do is an enumeration of the
homes of the others (`Phase`). A rehash that fails goes back through the second homes, and there
`LookupFinds` needs the most of it: `move_back()` puts a value in the first free slot of
its bucket, which may have been another key's, so the two keys change homes (`Exchange`). The
hashes it leaves behind in the new array do no harm, as that array is destroyed.

An erasure moves the values behind the hole by one slot, through all nodes to the right.
The lemma about it (`EraseMoves`) says where each slot goes (`Goes`) and that no value changes
sides (`Before`): a value that `erase_if` has still to ask about stays ahead of it, one it
has asked about stays behind, even when the node it stands on is freed with its last value. So
the set of values that are not asked about is at all times that of the values ahead (`Asking`).

`BucketsInv` speaks of numberings and homes, which TLC does not enumerate; its parts that have no
quantifier over maps are in `TypeOK` and `ChainShape`, which the run `HashTables` checks. The four
properties are the ones that this run checks of its chains.

### Whole tables

`ShardedTableProofs` proves of `ShardedTable`, for any sets of threads, tables, keys and
shards (`ShardedTableAssumption`):

* `NoDataIsLost`: all data that was made belongs to one table, however many
  threads make it at the same time and whatever is swapped;
* `NoKeyIsLost`: a key is in as many tables as insertions put it in and erasures did not
  take it out, but for merges between their insertion and their erasure;
* `NoDeadlock`: threads never wait for each other in a circle, over the locks of tables, of
  shards and of buckets;
* `Invariant`: the inductive invariant `TInv`.

Argument. `TInv` says which call is where and which locks it holds there (`Control`,
`TableLocks`, `ShardLocks`, `BucketLocks`), where data and keys are (`Places`, `DataUse`, `KeysStay`) and the two
properties themselves. Keys are counted by the data they are in, which a swap does
not change, and then by tables, along the bijection from data to its table. There
is no circle because only a merge or a comparison waits while it holds something: it then
holds `d_data_lock` of both its tables, so does whoever it waits for in such a circle, and both are in the
data of the same table, whose lock only one of them can have.

`LocksProofs` draws the conclusions for `MCLocks`: a behaviour of `SafetySpecOne` is a
behaviour of each lock's own specification, which stutters unless it is the lock of this
behaviour. `FlagHasOneOwner`, `OneLockPerBucket`, `NoArrayLost`,
`LocksStay` and `TablesSound` are theorems of the specification the runs check.
`MCLocks` and `MCTables` instantiate the modules with the proofs so that these can be cited.

### The double-ended vector

`DEVectorProofs` proves of `DEVector`, for a block of any size (`DEVectorAssumption`
only tells values, raw slots and numbers apart):

* `SlotsExactHolds`: there are objects from `start` to `end` and nowhere else, and
  nothing was constructed over, destroyed twice or assigned to a raw slot, whatever
  throws in a push, in a reservation or while values shift;
* `PushesAmortizedHolds`: a push that moves all values leaves room for half as many
  more;
* `KeepsValuesHolds`: in every reachable block, filled with distinct values, the moves, rotations,
  reversals and pops of every call leave what a sequence would have: insertion and erasure
  anywhere, of one value or many, resizing at both ends, assignment, reservation;
* `EachKept`, `ManyKept`: the same of a block of any values and of any arguments;
* `VectorInvHolds`: the inductive invariant `VectorInv`.

Argument. The loops that construct, destroy and move values slot by slot are folds of the
model. What a fold computes is not visible to the provers, so the first part
of the module shows for each of the loops that a set of memories that every step maps into
the next one holds its result (`...Fold`), by induction over the prefixes
of its slots, which is the least number of a set once more. From there follows the
memory each loop leaves, slot by slot (`...Is`): this is where an overlapping move
has to take its values in the right direction and has to
construct in the raw slots and assign in the others. The second part says of every operation which
values the block holds afterwards (`...Holds`): `emplace()` shifts the values before the place
(`MoveForward`, or `Memmove` of their bytes) or rotates the new one from the back, `erase()` moves
the shorter side over the hole and pops what it left, and an insertion of a range pushes its
values one at a time, which is a fold over blocks, then reverses and rotates them. `VectorInv` is then the set of blocks
that these lemmas speak of: slots 0 to `cap` - 1, objects in those from `start` to `end`, raw
slots elsewhere, none `Lost`. `SlotsExact` alone would not be inductive, as it
does not say which slots the memory has. A move that throws to the left of its values
is only in the model while it constructs (section 5), and the theorem says no more.

Only model-checked: all liveness (`SomeWriterProgress`, `FreeLockIsTaken`,
`TimedAttemptReturns`, `NoWakeUpIsLost`, `CallsReturn`), which TLAPS has no
fairness rules for; `OrderedTable` and the sequential containers but
`DEVector`. `OrderedTable`, `RadixTree` and `NetSort` use recursive operators,
which the provers cannot follow. Induction over numbers goes through the least number of a set,
as above, one loop at a time; over trees and recursive searches it does not.

## 5. What the models found in the code

With a run:

* `SharedLookupKeepsLock`: `lock_shared()` (746) first tries `try_lock()`, which
  takes the write lock, but the caller releases a reader. In the `*_shared`
  modes a const lookup leaves its bucket locked. A program with two lookups hangs.
* `ClearLosesLock`: after a `clear()` of a table that has its lock array,
  a rehash takes no bucket lock (795) and releases lock 0 (853).
* `CopyLosesIndex`: copying an `ordered_set` ends with `rehash()`, which does
  nothing when the mask stays the same (595). A copy of a set of one element does
  not find it; an assignment between sets of about the same size keeps the index
  of the old values.
* `DedupeOverruns`: `rehash_remove_duplicates()` passes the number of buckets
  where `start_insert()` wants the mask (432), and writes one past the end.
* `EmptyDirectory`: a merge of radix directories cuts a child into directories for
  empty blocks too (2296-2327); `any_child()` (1206) of one above reads a key that is not there.
* `SortUnstable`: `net_sort()` of an array is not stable. Arrays of 16 values and more (fewer are
  sorted by insertion, 1304) are cut into blocks of eight, which a network sorts; the run has one
  such block.

Without a run, seen in the code or in variants of the runs. Where a call is left
out of a module's `Next` on account of one, the module says so.

* `ordered_map.hpp`: in a linear table `insert_linear()` (686) stops at a tombstone, so a key
  behind it is inserted again; and a failed lookup (658) does not end when
  tombstones have taken the last empty bucket. `Next` of `OrderedTable` leaves the
  first out (`Hidden`), as it leaves out the two findings above; `SpecCopy` and
  `SpecDedupe` put those back. `rehash(n)` with fewer buckets than values does not
  end; the model's `Rehash` is not called so. The load factor may exceed the 0.95
  that the comment at 952 gives as a limit (744 compares the size with the mask).
  `swap()` exchanges the functors twice.
* `concurrent_hash_table.hpp`, one shard: with `clear()` beside insertions, an
  insertion may find the mask of one array and the buckets of another, insert into
  the static node, or visit a bucket together with a rehash. No passing run has
  `clear()` beside other threads. `visit_all()` of the shared modes takes only a
  shared lock while there is no lock array, so two walks that change values meet in
  one bucket; `shared` therefore has no such walk. A failed rehash releases the
  locks 0 to i (833) also when the allocation before the loop failed and none was
  taken; `core` has no failure of that allocation, `alone` has, where no
  other thread holds a lock. `make_nodes()` that throws leads to
  `destroy_buckets()` of a null pointer (828). An insertion that waits for the
  first bucket array (958) waits for ever if the thread that was to make it got
  `bad_alloc`; runs with liveness have no failures. `d_chain_count` is never
  lowered; it is only a hint for the next rehash.
* `concurrent_hash_table.hpp`, whole tables: a table compared or merged with itself
  locks one lock twice (1980, 2024). A call on a key loads the pointer to the
  shards without a lock (1623), so an insertion that meets a `swap()` may land in the other
  table, and after a move that destroys the shards it uses freed memory.
  Assignment walks over a table without `d_data_lock`: `A = B` beside `B = A`, or
  beside `B.merge(A)`, can wait in a circle. Assignments are not modelled.
* `sequence.hpp`: `resize()` and `import` to a size inside one chunk (1285) count past
  zero; the end iterator compares as in a chunk of number 0 (367, 472, 782), which is that of the
  first chunk: `x < end()` is false and `end() - x` negative unless x is in a chunk that was added
  in front (values pushed at the back give `end() - begin()` = -64), so
  `JumpsAgree` is about iterators to values; `shrink_to_fit()` leaves stale links of free chunks, and its moves may throw after
  chunks were renumbered (882); the sort reads the bounds of a freed chunk (2213).
* `devector.hpp`: where values relocate, `emplace()` on the left half moves those before the place
  as bytes (852-853), which leaves the one at the place in two slots, and then assigns the new value
  to one of the two (856): what that value owns is freed while its other copy stays in the
  container, as with a `unique_ptr`, and the default value that `emplace_front()` made is
  overwritten. `InsertBytes` is this for values that own nothing,
  the only ones it is called with; `KeepsValues` says nothing of the others. `erase()` destroys the
  values before it moves bytes and is right for all (`EraseBytes`). The catch at 223-225 destroys the wrong slots; `resize_front()` that throws leaks (490-493).
* `tiered_vector.hpp`: `emplace()` returns the value that was pushed out of the
  bucket (1924, 1959, 2046; the comment at 3232 says the new one); `assign()` of an empty range dereferences null
  (2829); a copy whose allocation fails returns a freed pointer (2674-2685); an
  `emplace_back()` that throws leaves an empty bucket (1886-1888); an insertion into a full row
  that throws loses the value it had taken out (1964).
* `flat_map.hpp`, unstable sorts (the default of `flat_set` for numbers): `BucketManager::sort()` counts the
  buckets (`tiered_vector.hpp` 2436) before it fills the front one from the back (2444-2452). If
  the fill empties the last bucket, the list of sorted runs has an entry for it that was never set
  (2466), and `inplace_merge` (2485) dereferences null: a set in buckets [1][2] of size 2 that is
  assigned <<2, 1>>, or, in the compiled code, a `flat_set<int>` of 0 to 129
  that has lost its first 10 values and is assigned 120 descending ones.
  `AssignCrashes` and `AddCrashes` are these calls, which `Next` leaves out and
  `ChangesKeys` says nothing of; what the sort does otherwise is modelled.
* `flat_map.hpp`: the merge of two sets without common keys leaves stale back values (918-934),
  after which lookups fail; a set of strings compares with a destroyed string
  after its last key was erased (239); insertion of a range without random access does not
  compile.
* `radix_tree.hpp`: a const lookup writes the cache of the first child (1207); the erasure of the last
  value of a vector leaks it (3018); `merge_dir()` that throws leaves the root dangling.
* `algorithm.hpp`: the assertion at 645 compares without the comparator.

## 6. Not modelled

`PROJECT.json` lists every part with its status and the reason. Conversions and
formatting of numbers and text, hashes and SIMD are left out: they have no state
and their interesting inputs are words of 64 bits, which TLC does not enumerate. A
tiny string and an `any` are sequential values with one condition on their
representation. Weak memory orders are left out because nothing in the models
could tell them apart without a model of the hardware. Of the modelled parts:
exceptions of values' moves and constructors except where a module has them (`devector`,
`resize()`; a `std::rotate` or `std::reverse` that throws midway is in neither), insertion and
assignment of ranges without random access, iteration by extraction, copies and assignments of
concurrent tables, swap, move and splice of whole containers, keys of variable
length in radix trees, mapped values (a map is a set of its keys here).
