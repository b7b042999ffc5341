------------------------------- MODULE MCTables -------------------------------
(***************************************************************************)
(* ChainingTable on small instances, one per behaviour: "core", two        *)
(* threads that insert, erase and rehash up to four buckets; "shared", the *)
(* lookups and walks of two threads with reader locks; "alone", every      *)
(* operation and failure, one call at a time; "mix", writers, readers,     *)
(* walks and a rehash at once, which have to come to an end.               *)
(*                                                                         *)
(* The threads are interchangeable and so are the addresses of arrays; the *)
(* keys are their own hash values.  The instances are of the module with   *)
(* the proofs, which TablesProofs cites.                                   *)
(***************************************************************************)
EXTENDS Integers, TLC

CONSTANTS
  Kinds,                        \* the instances of the run
  Threads, ArrayIds, Static

VARIABLES
  kind,                         \* the instance of this behaviour
  arrays, dBuckets, dValues, dMask, dNextTarget, dSize, haveLocks,
  inRehash, lock, pc, loc, steady

allVars == <<kind, arrays, dBuckets, dValues, dMask, dNextTarget, dSize, haveLocks,
             inRehash, lock, pc, loc, steady>>

Symmetry == Permutations(Threads) \cup Permutations(ArrayIds)

Core == INSTANCE ChainingTableProofs WITH
  Keys <- {1, 3}, MaxMask <- 3, NodeSize <- 1, Shared <- FALSE, Failures <- {"chain", "locks"},
  Ops <- {"insert", "erase", "rehash"}, RehashMasks <- {0, 1, 3}

SharedLocks == INSTANCE ChainingTableProofs WITH
  Keys <- {0, 1}, MaxMask <- 1, NodeSize <- 1, Shared <- TRUE, Failures <- {},
  Ops <- {"insert", "erase", "visit", "cvisit_all", "erase_if"}, RehashMasks <- {0, 1}

Alone == INSTANCE ChainingTableProofs WITH
  Keys <- {0, 1, 3}, MaxMask <- 3, NodeSize <- 1, Shared <- FALSE, Failures <- {"values", "chain", "locks"},
  Ops <- {"insert", "erase", "visit", "cvisit", "visit_all", "cvisit_all", "erase_if", "rehash", "clear"},
  RehashMasks <- {0, 1, 3}

Mix == INSTANCE ChainingTableProofs WITH
  Keys <- {0, 1}, MaxMask <- 1, NodeSize <- 1, Shared <- FALSE, Failures <- {},
  Ops <- {"insert", "erase", "cvisit", "visit_all", "rehash"}, RehashMasks <- {0}

ASSUME TablesAssumption ==
  /\ Kinds \subseteq {"core", "shared", "alone", "mix"}
  /\ Core!TableAssumption /\ SharedLocks!TableAssumption /\ Alone!TableAssumption /\ Mix!TableAssumption

Init ==
  /\ kind \in Kinds
  /\ CASE kind = "core"   -> Core!Init
       [] kind = "shared" -> SharedLocks!Init
       [] kind = "alone"  -> Alone!Init
       [] kind = "mix"    -> Mix!Init

OneAtATime ==
  \E t \in Threads :
    /\ \A u \in Threads \ {t} : Alone!Idle(u)
    /\ Alone!Call(t) \/ Alone!Continue(t) \/ Alone!RehashFails(t)

Next ==
  /\ UNCHANGED kind
  /\ \/ kind = "core" /\ Core!Next
     \/ kind = "shared" /\ SharedLocks!Next
     \/ kind = "alone" /\ OneAtATime
     \/ kind = "mix" /\ Mix!Next

SafetySpec == Init /\ [][Next]_allVars

\* With the fairness of ChainingTable, for runs of "mix".
MixSpec == SafetySpec /\ \A t \in Threads : WF_(Mix!vars)(Mix!Continue(t))

-----------------------------------------------------------------------------
TypeOK ==
  CASE kind = "core" -> Core!TypeOK [] kind = "shared" -> SharedLocks!TypeOK
    [] kind = "alone" -> Alone!TypeOK [] kind = "mix" -> Mix!TypeOK

\* No two threads use one bucket at a time unless both read (ChainingTable).
BucketMutex == Core!BucketMutex

\* A thread uses buckets that exist, and inserts in none that all tables share (ChainingTable).
BucketExists ==
  CASE kind = "core" -> Core!BucketExists [] kind = "shared" -> SharedLocks!BucketExists
    [] kind = "alone" -> Alone!BucketExists [] kind = "mix" -> Mix!BucketExists

\* Every key is in one array only, where its hash leads (ChainingTable).
KeysInPlace ==
  CASE kind = "core" -> Core!KeysInPlace [] kind = "shared" -> SharedLocks!KeysInPlace
    [] kind = "alone" -> Alone!KeysInPlace [] kind = "mix" -> Mix!KeysInPlace

\* d_size is exact but for the calls that are about to change it (ChainingTable).
SizeCounts ==
  CASE kind = "core" -> Core!SizeCounts [] kind = "shared" -> SharedLocks!SizeCounts
    [] kind = "alone" -> Alone!SizeCounts [] kind = "mix" -> Mix!SizeCounts

\* A table without calls holds no lock (ChainingTable).
LocksReleased ==
  CASE kind = "core" -> Core!LocksReleased [] kind = "shared" -> SharedLocks!LocksReleased
    [] kind = "alone" -> Alone!LocksReleased [] kind = "mix" -> Mix!LocksReleased

\* As long as threads are in calls, calls return (ChainingTable).
CallsReturn == Mix!CallsReturn

\* Every instance is a concurrent set (ChainingTable and ConcurrentSet).
Set == INSTANCE ConcurrentSet WITH
  Keys     <- {0, 1, 3},
  contents <- CASE kind \in {"core", "alone"} -> Alone!Contents [] OTHER -> Mix!Contents,
  call     <- [t \in Threads |-> Alone!AbstractCall(t)]

RefinesConcurrentSet == Set!Spec
=============================================================================
