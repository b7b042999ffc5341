------------------------------- MODULE MCLocks -------------------------------
(***************************************************************************)
(* The locks on small instances, one kind of lock per behaviour:           *)
(* SharedSpinner, Spinlock or BucketLocks, or whole tables, ShardedTable;  *)
(* the others stay in their initial states.                                *)
(***************************************************************************)
EXTENDS SharedSpinner, TLC

CONSTANTS
  Kinds,                    \* the locks of the run
  LastBucket, Addresses, Null, BucketThreads,
  Tables, Keys, Shards, TableThreads

VARIABLES
  kind,                                                     \* the lock of this behaviour
  locked, spinPc, late,                                     \* Spinlock
  arrays, size, taken, inRehash, mutex, bucketPc, loc,      \* BucketLocks
  d_data, dataLock, made, keys, d_locks, walkLock, bucketLock,
  tablePc, call, net                                        \* ShardedTable

\* Symmetry is used for a safety run only.
Symmetry == Permutations(TableThreads) \cup Permutations(Addresses) \cup Permutations(Tables)

spinVars   == <<locked, spinPc, late>>
bucketVars == <<arrays, size, taken, inRehash, mutex, bucketPc, loc>>
tableVars  == <<d_data, dataLock, made, keys, d_locks, walkLock, bucketLock, tablePc, call, net>>

Spin == INSTANCE Spinlock WITH pc <- spinPc

\* These are instances of the modules with the proofs, which LocksProofs cites.
Bucket == INSTANCE BucketLocksProofs WITH pc <- bucketPc, Threads <- BucketThreads

FirstShard == [k \in Keys |-> 0]
Whole == INSTANCE ShardedTableProofs WITH
  Threads <- TableThreads, index <- FirstShard, DataIds <- Addresses, pc <- tablePc, loc <- call

ASSUME LocksAssumption == Bucket!BucketLocksAssumption /\ Whole!ShardedTableAssumption

allVars == <<kind, vars, spinVars, bucketVars, tableVars>>

InitOne ==
  /\ kind \in Kinds
  /\ Init /\ Spin!Init /\ Bucket!Init /\ Whole!Init

NextOne ==
  /\ UNCHANGED kind
  /\ \/ kind = "shared_spinner" /\ Next /\ UNCHANGED <<spinVars, bucketVars, tableVars>>
     \/ kind = "spinlock" /\ Spin!Next /\ UNCHANGED <<vars, bucketVars, tableVars>>
     \/ kind = "bucket locks" /\ Bucket!Next /\ UNCHANGED <<vars, spinVars, tableVars>>
     \/ kind = "tables" /\ Whole!Next /\ UNCHANGED <<vars, spinVars, bucketVars>>

SafetySpecOne == InitOne /\ [][NextOne]_allVars

\* The fairness of the three kinds of lock; who has called nothing has no step to be fair to.
SpecOne ==
  /\ SafetySpecOne
  /\ \A t \in Threads : WF_vars(Continue(t))
  /\ \A t \in Threads : WF_spinVars(Spin!Continue(t)) /\ WF_spinVars(Spin!DeadlinePasses(t))
  /\ \A t \in BucketThreads : WF_bucketVars(Bucket!Continue(t))

-----------------------------------------------------------------------------
\* The flag of a spinlock is set exactly while one thread owns the lock.
FlagHasOneOwner == Spin!FlagHasOneOwner

\* A timed attempt on a lock that is never released again returns.
TimedAttemptReturns == Spin!TimedAttemptReturns

\* A spinlock does not stay free while a thread waits in lock().
FreeLockIsTaken == Spin!FreeLockIsTaken

\* A bucket has one lock, whoever made its array.
OneLockPerBucket == Bucket!OneLockPerBucket

\* No array of locks is leaked, or freed under a thread.
NoArrayLost == Bucket!NoArrayLost

\* A published array of locks never moves.
LocksStay == Bucket!LocksStay

\* No thread sleeps or spins for ever beside a lock that stays free.
NoWakeUpIsLost == Bucket!NoWakeUpIsLost

(***************************************************************************)
(* Of calls on several tables: data belongs to one table, keys are neither *)
(* lost nor doubled, and threads never wait in a circle (ShardedTable).    *)
(***************************************************************************)
TablesSound == Whole!TablesSound
=============================================================================
