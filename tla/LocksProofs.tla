---------------------------- MODULE LocksProofs ----------------------------
(***************************************************************************)
(* Shared spinners keep writers alone, count their readers exactly and     *)
(* implement the abstract reader-writer lock, for every set of threads and *)
(* every width of the lock word; spinlocks have one owner and implement it *)
(* too.  What is proved of these, of the locks of buckets and of           *)
(* whole tables, each for itself, holds of the specification whose         *)
(* behaviours the runs check: a behaviour of SafetySpecOne is one of each  *)
(* of them, which stutters unless it is the lock of this behaviour.        *)
(***************************************************************************)
EXTENDS MCLocks, FiniteSetTheorems, TLAPS

USE DEF RMod

(***************************************************************************)
(* The values a compare-exchange may expect.                               *)
(***************************************************************************)
LEMMA ConstantWords ==
  /\ Zero \in Word /\ Write \in Word /\ Need \in Word
  /\ Zero.r = 0 /\ ~Zero.w /\ ~Zero.n
  /\ Need.r = 0 /\ ~Need.w /\ Need.n
  /\ Write.r = 0 /\ Write.w /\ ~Write.n
BY SpinnerAssumption DEF Word, Zero, Write, Need

(***************************************************************************)
(* Adding a reader stays in the word; below the wrap it adds one.          *)
(***************************************************************************)
LEMMA AddReadWord ==
  ASSUME NEW v \in Word
  PROVE  /\ AddRead(v) \in Word
         /\ AddRead(v).w = v.w
         /\ AddRead(v).n = v.n
         /\ v.r + 1 < RMod => AddRead(v).r = v.r + 1
BY SpinnerAssumption DEF Word, AddRead

(***************************************************************************)
(* Taking a counted reader away removes one.                               *)
(***************************************************************************)
LEMMA SubReadWord ==
  ASSUME NEW v \in Word
  PROVE  /\ SubRead(v) \in Word
         /\ SubRead(v).w = v.w
         /\ SubRead(v).n = v.n
         /\ v.r > 0 => SubRead(v).r = v.r - 1
BY SpinnerAssumption DEF Word, SubRead

(***************************************************************************)
(* Holders is a finite set; none of its members means a count of 0.        *)
(***************************************************************************)
LEMMA HoldersFinite ==
  /\ IsFiniteSet(Holders)
  /\ Cardinality(Holders) \in Nat
  /\ Cardinality(Holders) <= Cardinality(Threads)
  /\ Cardinality(Holders) = 0 => Holders = {}
<1>1. Holders \subseteq Threads
  BY DEF Holders
<1>2. IsFiniteSet(Threads)
  BY SpinnerAssumption
<1> QED
  BY <1>1, <1>2, FS_Subset, FS_CardinalityType, FS_EmptySet

-----------------------------------------------------------------------------
\* The constructor's word 0, with every thread outside, satisfies IInv.
LEMMA InitInv == Init => IInv
<1> SUFFICES ASSUME Init PROVE IInv
  OBVIOUS
<1>1. TypeOK
  BY ConstantWords DEF Init, TypeOK, PCs
<1>2. Holders = {} /\ Writers = {} /\ Readers = {}
  BY DEF Init, Holders, Writers, Readers, At
<1>3. WordCounts
  BY <1>2, FS_EmptySet, ConstantWords DEF Init, WordCounts
<1>4. ExpectsNoReader /\ NarrowExact /\ NeedHasWaiter
  BY SpinnerAssumption, ConstantWords DEF Init, ExpectsNoReader, NarrowExact, NeedHasWaiter
<1>5. MutualExclusion
  BY <1>2 DEF MutualExclusion
<1> QED
  BY <1>1, <1>3, <1>4, <1>5 DEF IInv

\* Every atomic operation leaves a word of Word, and known locations.
LEMMA TypeStep == TypeOK /\ [Next]_vars => TypeOK'
<1> SUFFICES ASSUME TypeOK, [Next]_vars PROVE TypeOK'
  OBVIOUS
<1> USE DEF TypeOK
<1>1. CASE UNCHANGED vars
  BY <1>1 DEF vars
<1>2. ASSUME NEW t \in Threads, Call(t) PROVE TypeOK'
  BY <1>2, ConstantWords DEF Call, LockCall, TryLockLoad, LockSharedCall,
     TrySharedLoad, Move, PCs
<1>3. ASSUME NEW t \in Threads, Continue(t) PROVE TypeOK'
  <2>1. CASE LockCAS(t) \/ LockCASFails(t) \/ TryLockCAS(t) \/ LockSharedLoad(t)
    BY <2>1, ConstantWords DEF LockCAS, LockCASFails, TryLockCAS, LockSharedLoad, Move, PCs
  <2>2. CASE LockSetNeed(t) \/ Unlock(t)
    BY <2>2 DEF LockSetNeed, Unlock, Move, PCs, Word
  <2>3. CASE EnterNarrow(t) \/ EnterWide(t)
    BY <2>3, AddReadWord DEF EnterNarrow, EnterWide, AfterFailure, PCs
  <2>4. CASE UndoWide(t) \/ UnlockShared(t)
    BY <2>4, SubReadWord DEF UndoWide, UnlockShared, AfterFailure, Move, PCs
  <2> QED
    BY <1>3, <2>1, <2>2, <2>3, <2>4 DEF Continue
<1> QED
  BY <1>1, <1>2, <1>3 DEF Next

(***************************************************************************)
(* The word, the program counters and 'expect' stay what their types say:  *)
(* the additions and subtractions of readers never leave the word.         *)
(***************************************************************************)
THEOREM TypeCorrect == SafetySpec => []TypeOK
<1>1. Init => TypeOK
  BY InitInv DEF IInv
<1> QED
  BY <1>1, TypeStep, PTL DEF SafetySpec

-----------------------------------------------------------------------------
(***************************************************************************)
(* The steps after which the same threads hold the lock, and the word is   *)
(* the same but perhaps for need_lock.                                     *)
(***************************************************************************)
LEMMA SameHolders ==
  ASSUME IInv, TypeOK', NEW t \in Threads,
         word'.w = word.w, word'.r = word.r,
         pc' = [pc EXCEPT ![t] = pc'[t]],
         pc[t]  \notin {"writer", "reader", "ls_undo", "ts_undo"},
         pc'[t] \notin {"writer", "reader", "ls_undo", "ts_undo"}
  PROVE  WordCounts' /\ MutualExclusion'
<1>1. Holders' = Holders
  BY DEF IInv, TypeOK, Holders
<1>2. Writers' = Writers /\ Readers' = Readers
  BY DEF IInv, TypeOK, Writers, Readers, At
<1>3. WordCounts'
  BY <1>1, <1>2 DEF IInv, WordCounts
<1>4. MutualExclusion'
  BY <1>2 DEF IInv, MutualExclusion
<1> QED
  BY <1>3, <1>4

(***************************************************************************)
(* A thread that takes the word from a value without readers and writer to *)
(* 'write' is the only holder.                                             *)
(***************************************************************************)
LEMMA WriterEnters ==
  ASSUME IInv, NEW t \in Threads, word.r = 0, ~word.w, word' = Write,
         pc' = [pc EXCEPT ![t] = "writer"]
  PROVE  WordCounts' /\ MutualExclusion'
<1>1. Holders = {} /\ Writers = {}
  BY HoldersFinite DEF IInv, WordCounts
<1>2. pc \in [Threads -> PCs]
  BY DEF IInv, TypeOK
<1>3. Holders' = {}
  BY <1>1, <1>2 DEF Holders
<1>4. Writers' = {t}
  BY <1>1, <1>2 DEF Writers, At
<1>5. Readers' = {}
  BY <1>3 DEF Readers, Holders, At
<1>6. WordCounts'
  BY <1>3, <1>4, ConstantWords, FS_EmptySet DEF WordCounts
<1>7. MutualExclusion'
  BY <1>4, <1>5 DEF MutualExclusion
<1> QED
  BY <1>6, <1>7

(***************************************************************************)
(* One more counted thread: t, whose increment did not wrap.               *)
(***************************************************************************)
LEMMA HolderEnters ==
  ASSUME IInv, NEW t \in Threads, NEW p \in {"reader", "ls_undo", "ts_undo"},
         pc' = [pc EXCEPT ![t] = p],
         pc[t] \notin {"writer", "reader", "ls_undo", "ts_undo"},
         p = "reader" => ~word.w,
         word' = AddRead(word), word.r + 1 < RMod
  PROVE  WordCounts' /\ MutualExclusion'
<1>0. pc \in [Threads -> PCs] /\ word \in Word
  BY DEF IInv, TypeOK
<1>1. Holders' = Holders \cup {t} /\ t \notin Holders
  BY <1>0 DEF Holders
<1>2. Cardinality(Holders') = Cardinality(Holders) + 1
  BY <1>1, HoldersFinite, FS_AddElement
<1>3. word'.r = word.r + 1 /\ word'.w = word.w
  BY <1>0, AddReadWord
<1>4. Writers' = Writers
  BY <1>0 DEF Writers, At
<1>5. Readers' = IF p = "reader" THEN Readers \cup {t} ELSE Readers
  BY <1>0 DEF Readers, At
<1>6. WordCounts'
  BY <1>2, <1>3, <1>4 DEF IInv, WordCounts
<1>7. MutualExclusion'
  BY <1>4, <1>5 DEF IInv, WordCounts, MutualExclusion
<1> QED
  BY <1>6, <1>7

(***************************************************************************)
(* One counted thread less.                                                *)
(***************************************************************************)
LEMMA HolderLeaves ==
  ASSUME IInv, NEW t \in Threads, NEW p \in PCs,
         pc' = [pc EXCEPT ![t] = p],
         pc[t] \in {"reader", "ls_undo", "ts_undo"},
         p \notin {"writer", "reader", "ls_undo", "ts_undo"},
         word' = SubRead(word)
  PROVE  /\ WordCounts' /\ MutualExclusion'
         /\ word'.r <= word.r
<1>0. pc \in [Threads -> PCs] /\ word \in Word
  BY DEF IInv, TypeOK
<1>1. Holders' = Holders \ {t} /\ t \in Holders
  BY <1>0 DEF Holders
<1>2. Cardinality(Holders') = Cardinality(Holders) - 1 /\ Cardinality(Holders) > 0
  BY <1>1, HoldersFinite, FS_RemoveElement, FS_EmptySet
<1>3. word.r > 0
  BY <1>2 DEF IInv, WordCounts
<1>4. word'.r = word.r - 1 /\ word'.w = word.w
  BY <1>0, <1>3, SubReadWord
<1>5. Writers' = Writers /\ Readers' \subseteq Readers
  BY <1>0 DEF Writers, Readers, At
<1>6. WordCounts'
  BY <1>2, <1>4, <1>5 DEF IInv, WordCounts
<1>7. MutualExclusion'
  BY <1>5 DEF IInv, MutualExclusion
<1>8. word'.r <= word.r
  BY <1>0, <1>4 DEF Word
<1> QED
  BY <1>6, <1>7, <1>8

(***************************************************************************)
(* The wide count never wraps, for want of threads; the narrow one stops   *)
(* at the cap.                                                             *)
(***************************************************************************)
LEMMA RoomForOne ==
  ASSUME IInv, NEW t \in Threads, t \notin Holders,
         Narrow => word.r < ReadCap
  PROVE  word.r + 1 < RMod
<1>1. word.r \in Nat
  BY SpinnerAssumption DEF IInv, TypeOK, Word
<1>2. CASE Narrow
  BY <1>1, <1>2, SpinnerAssumption
<1>3. CASE ~Narrow
  <2>1. Holders \cup {t} \subseteq Threads
    BY DEF Holders
  <2>2. Cardinality(Holders \cup {t}) = Cardinality(Holders) + 1
    BY HoldersFinite, FS_AddElement
  <2>3. IsFiniteSet(Threads)
    BY SpinnerAssumption
  <2>4. Cardinality(Holders \cup {t}) <= Cardinality(Threads)
    BY <2>1, <2>3, FS_Subset
  <2>5. Cardinality(Threads) \in Nat
    BY <2>3, FS_CardinalityType
  <2> QED
    BY <1>1, <1>3, <2>2, <2>4, <2>5, HoldersFinite, SpinnerAssumption DEF IInv, WordCounts
<1> QED
  BY <1>2, <1>3, SpinnerAssumption

-----------------------------------------------------------------------------
(***************************************************************************)
(* Each kind of step preserves the invariant.                              *)
(***************************************************************************)
\* Starting a call changes no holder: the four entry points keep IInv.
LEMMA CallInv ==
  ASSUME IInv, TypeOK', NEW t \in Threads, Call(t)
  PROVE  IInv'
<1> USE DEF Call, LockCall, TryLockLoad, LockSharedCall, TrySharedLoad, Move
<1>0. pc \in [Threads -> PCs] /\ expect \in [Threads -> Word]
  BY DEF IInv, TypeOK
<1>1. WordCounts' /\ MutualExclusion'
  BY <1>0, SameHolders
<1>2. ExpectsNoReader'
  BY <1>0 DEF IInv, ExpectsNoReader
<1>3. NarrowExact'
  BY <1>0 DEF IInv, NarrowExact, MayRead
<1>4. NeedHasWaiter'
  BY <1>0 DEF IInv, NeedHasWaiter, At
<1> QED
  BY <1>1, <1>2, <1>3, <1>4 DEF IInv

\* Waiting in lock() and loading in lock_shared() keep IInv.
LEMMA WaitInv ==
  ASSUME IInv, TypeOK', NEW t \in Threads,
         LockCASFails(t) \/ LockSetNeed(t) \/ LockSharedLoad(t)
  PROVE  IInv'
<1> USE DEF LockCASFails, LockSetNeed, LockSharedLoad, Move
<1>0. pc \in [Threads -> PCs] /\ expect \in [Threads -> Word] /\ word \in Word
  BY DEF IInv, TypeOK
<1>1. word'.w = word.w /\ word'.r = word.r
  BY <1>0 DEF Word
<1>2. WordCounts' /\ MutualExclusion'
  BY <1>0, <1>1, SameHolders
<1>3. ExpectsNoReader'
  BY <1>0 DEF IInv, ExpectsNoReader
<1>4. NarrowExact'
  BY <1>0, <1>1 DEF IInv, NarrowExact, MayRead
<1>5. NeedHasWaiter'
  <2>1. CASE LockSetNeed(t)
    BY <2>1, <1>0 DEF IInv, ExpectsNoReader, NeedHasWaiter, At
  <2>2. CASE LockCASFails(t) \/ LockSharedLoad(t)
    BY <2>2, <1>0 DEF IInv, NeedHasWaiter, At
  <2> QED
    BY <2>1, <2>2
<1> QED
  BY <1>2, <1>3, <1>4, <1>5 DEF IInv

\* The compare-exchanges to 'write' keep IInv.
LEMMA WriterInv ==
  ASSUME IInv, TypeOK', NEW t \in Threads, LockCAS(t) \/ TryLockCAS(t)
  PROVE  IInv'
<1> USE DEF LockCAS, TryLockCAS, Move
<1>0. pc \in [Threads -> PCs] /\ expect \in [Threads -> Word] /\ word \in Word
  BY DEF IInv, TypeOK
<1>1. CASE word = expect[t]
  <2>1. word.r = 0 /\ ~word.w
    BY <1>1, ConstantWords DEF IInv, ExpectsNoReader
  <2>2. word' = Write /\ pc' = [pc EXCEPT ![t] = "writer"] /\ expect' = expect
    BY <1>1
  <2>3. WordCounts' /\ MutualExclusion'
    BY <2>1, <2>2, WriterEnters
  <2>4. ExpectsNoReader'
    BY <1>0, <2>2 DEF IInv, ExpectsNoReader
  <2>5. NarrowExact'
    BY <1>0, <2>2, ConstantWords, SpinnerAssumption DEF IInv, NarrowExact, MayRead
  <2>6. NeedHasWaiter'
    BY <2>2, ConstantWords DEF NeedHasWaiter
  <2> QED
    BY <2>3, <2>4, <2>5, <2>6 DEF IInv
<1>2. CASE word # expect[t]
  <2>1. word' = word /\ pc' = [pc EXCEPT ![t] = "idle"] /\ expect' = expect /\ pc[t] = "tl_cas"
    BY <1>2
  <2>2. WordCounts' /\ MutualExclusion'
    BY <1>0, <2>1, SameHolders
  <2>3. ExpectsNoReader' /\ NarrowExact'
    BY <1>0, <2>1 DEF IInv, ExpectsNoReader, NarrowExact, MayRead
  <2>4. NeedHasWaiter'
    BY <1>0, <2>1 DEF IInv, NeedHasWaiter, At
  <2> QED
    BY <2>2, <2>3, <2>4 DEF IInv
<1> QED
  BY <1>1, <1>2

\* unlock(), which also clears need_lock, keeps IInv.
LEMMA UnlockInv ==
  ASSUME IInv, TypeOK', NEW t \in Threads, Unlock(t)
  PROVE  IInv'
<1> USE DEF Unlock, Move
<1>0. pc \in [Threads -> PCs] /\ expect \in [Threads -> Word] /\ word \in Word
  BY DEF IInv, TypeOK
<1>1. ~word'.w /\ ~word'.n /\ word'.r = word.r
  BY <1>0 DEF Word
<1>2. Holders' = Holders /\ Readers' = Readers
  BY <1>0 DEF Holders, Readers, At
<1>3. Writers' = {}
  BY <1>0 DEF IInv, MutualExclusion, Writers, At
<1>4. WordCounts' /\ MutualExclusion'
  BY <1>1, <1>2, <1>3 DEF IInv, WordCounts, MutualExclusion
<1>5. ExpectsNoReader' /\ NarrowExact'
  BY <1>0, <1>1 DEF IInv, ExpectsNoReader, NarrowExact, MayRead
<1>6. NeedHasWaiter'
  BY <1>1 DEF NeedHasWaiter
<1> QED
  BY <1>4, <1>5, <1>6 DEF IInv

\* The one byte form's reader entry, or its failure, keeps IInv.
LEMMA EnterNarrowInv ==
  ASSUME IInv, TypeOK', NEW t \in Threads, EnterNarrow(t)
  PROVE  IInv'
<1> USE DEF EnterNarrow, AfterFailure
<1>0. pc \in [Threads -> PCs] /\ expect \in [Threads -> Word] /\ word \in Word
  BY DEF IInv, TypeOK
<1>1. CASE word = expect[t]
  <2>1. ~word.w /\ ~word.n /\ word.r < ReadCap
    BY <1>1 DEF IInv, NarrowExact, MayRead
  <2>2. word' = AddRead(word) /\ pc' = [pc EXCEPT ![t] = "reader"] /\ expect' = expect
    BY <1>1
  <2>3. word.r + 1 < RMod
    BY <2>1, RoomForOne DEF Holders
  <2>4. WordCounts' /\ MutualExclusion'
    BY <2>1, <2>2, <2>3, HolderEnters
  <2>5. word'.r = word.r + 1 /\ ~word'.n
    BY <1>0, <2>1, <2>2, <2>3, AddReadWord
  <2>6. ExpectsNoReader'
    BY <1>0, <2>2 DEF IInv, ExpectsNoReader
  <2>7. NarrowExact'
    BY <1>0, <2>1, <2>2, <2>5, SpinnerAssumption DEF IInv, NarrowExact, MayRead, Word
  <2>8. NeedHasWaiter'
    BY <2>5 DEF NeedHasWaiter
  <2> QED
    BY <2>4, <2>6, <2>7, <2>8 DEF IInv
<1>2. CASE word # expect[t]
  <2>1. WordCounts' /\ MutualExclusion'
    BY <1>0, <1>2, SameHolders
  <2>2. ExpectsNoReader' /\ NarrowExact'
    BY <1>0, <1>2 DEF IInv, ExpectsNoReader, NarrowExact, MayRead
  <2>3. NeedHasWaiter'
    BY <1>0, <1>2 DEF IInv, NeedHasWaiter, At
  <2> QED
    BY <2>1, <2>2, <2>3 DEF IInv
<1> QED
  BY <1>1, <1>2

\* The wide form's reader entry, counted before checked, keeps IInv.
LEMMA EnterWideInv ==
  ASSUME IInv, TypeOK', NEW t \in Threads, EnterWide(t)
  PROVE  IInv'
<1> USE DEF EnterWide
<1>0. pc \in [Threads -> PCs] /\ expect \in [Threads -> Word] /\ word \in Word
  BY DEF IInv, TypeOK
<1>1. PICK p \in {"reader", "ls_undo", "ts_undo"} :
        /\ pc' = [pc EXCEPT ![t] = p]
        /\ p = "reader" => ~word.w
  BY <1>0
<1>2. word.r + 1 < RMod
  BY RoomForOne DEF Holders
<1>3. WordCounts' /\ MutualExclusion'
  BY <1>1, <1>2, HolderEnters
<1>4. word'.n = word.n
  BY <1>0, AddReadWord
<1>5. ExpectsNoReader' /\ NarrowExact'
  BY <1>0, <1>1 DEF IInv, ExpectsNoReader, NarrowExact
<1>6. NeedHasWaiter'
  BY <1>0, <1>1, <1>4 DEF IInv, NeedHasWaiter, At
<1> QED
  BY <1>3, <1>5, <1>6 DEF IInv

\* unlock_shared() and the undo of a wide entry keep IInv.
LEMMA LeaveInv ==
  ASSUME IInv, TypeOK', NEW t \in Threads, UndoWide(t) \/ UnlockShared(t)
  PROVE  IInv'
<1> USE DEF UndoWide, UnlockShared, Move, AfterFailure
<1>0. pc \in [Threads -> PCs] /\ expect \in [Threads -> Word] /\ word \in Word
  BY DEF IInv, TypeOK
<1>1. PICK p \in {"idle", "ls_load"} : pc' = [pc EXCEPT ![t] = p]
  BY <1>0
<1>2. p \in PCs
  BY DEF PCs
<1>3. WordCounts' /\ MutualExclusion' /\ word'.r <= word.r
  BY <1>1, <1>2, HolderLeaves
<1>4. word'.n = word.n /\ word'.r \in Nat /\ word.r \in Nat
  BY <1>0, SubReadWord, SpinnerAssumption DEF Word
<1>5. ExpectsNoReader'
  BY <1>0, <1>1 DEF IInv, ExpectsNoReader
<1>6. NarrowExact'
  BY <1>0, <1>1, <1>3, <1>4, SpinnerAssumption DEF IInv, NarrowExact, MayRead
<1>7. NeedHasWaiter'
  BY <1>0, <1>1, <1>4 DEF IInv, NeedHasWaiter, At
<1> QED
  BY <1>3, <1>5, <1>6, <1>7 DEF IInv

\* IInv is inductive: every step of every thread preserves it.
LEMMA InvStep == IInv /\ [Next]_vars => IInv'
<1> SUFFICES ASSUME IInv, [Next]_vars PROVE IInv'
  OBVIOUS
<1>1. TypeOK'
  BY TypeStep DEF IInv
<1>2. CASE UNCHANGED vars
  BY <1>2 DEF vars, IInv, TypeOK, WordCounts, Holders, Writers, Readers, At,
     ExpectsNoReader, NarrowExact, MutualExclusion, NeedHasWaiter
<1>3. ASSUME NEW t \in Threads, Call(t) PROVE IInv'
  BY <1>1, <1>3, CallInv
<1>4. ASSUME NEW t \in Threads, Continue(t) PROVE IInv'
  BY <1>1, <1>4, WaitInv, WriterInv, UnlockInv, EnterNarrowInv, EnterWideInv, LeaveInv
     DEF Continue
<1> QED
  BY <1>2, <1>3, <1>4 DEF Next

\* IInv holds in every reachable state.
THEOREM Invariant == SafetySpec => []IInv
BY InitInv, InvStep, PTL DEF SafetySpec

-----------------------------------------------------------------------------
(***************************************************************************)
(* Writers are alone: no two threads hold the lock for writing, and none   *)
(* for reading with a writer, in either form of try_lock_shared().         *)
(***************************************************************************)
THEOREM WritersAlone == SafetySpec => []MutualExclusion
<1>1. IInv => MutualExclusion
  BY DEF IInv
<1> QED
  BY <1>1, Invariant, PTL

(***************************************************************************)
(* The atomic word always counts the readers, and the attempts that are    *)
(* still to be undone, exactly.                                            *)
(***************************************************************************)
THEOREM WordIsExact == SafetySpec => []WordCounts
<1>1. IInv => WordCounts
  BY DEF IInv
<1> QED
  BY <1>1, Invariant, PTL

(***************************************************************************)
(* The one byte lock never admits more readers than it can count, whatever *)
(* the number of threads.                                                  *)
(***************************************************************************)
THEOREM ReadersBounded == SafetySpec => []NarrowReadersBounded
<1>1. ASSUME IInv PROVE NarrowReadersBounded
  <2>1. Readers \subseteq Holders
    BY DEF Readers, Holders, At
  <2>2. Cardinality(Readers) <= Cardinality(Holders) /\ Cardinality(Readers) \in Nat
    BY <2>1, HoldersFinite, FS_Subset, FS_CardinalityType
  <2> QED
    BY <1>1, <2>2, HoldersFinite, SpinnerAssumption
       DEF IInv, WordCounts, NarrowExact, NarrowReadersBounded
<1> QED
  BY <1>1, Invariant, PTL

(***************************************************************************)
(* need_lock never outlives the writers that wait.                         *)
(***************************************************************************)
THEOREM NeedHasAWaiter == SafetySpec => []NeedHasWaiter
<1>1. IInv => NeedHasWaiter
  BY DEF IInv
<1> QED
  BY <1>1, Invariant, PTL

(***************************************************************************)
(* While need_lock is set no reader and no try_lock() gets in: the writer  *)
(* that set it only waits for those that are in already.                   *)
(***************************************************************************)
THEOREM WriterGoesFirst == SafetySpec => NeedKeepsOthersOut
<1> DEFINE Out == word.n => /\ Readers' \subseteq Readers
                            /\ \A t \in Threads : pc[t] = "tl_cas" => pc'[t] # "writer"
<1>1. ASSUME IInv, [Next]_vars PROVE [Out]_vars
  <2> SUFFICES ASSUME word.n, Next PROVE Out
    BY <1>1
  <2>0. pc \in [Threads -> PCs]
    BY <1>1 DEF IInv, TypeOK
  <2>1. ASSUME NEW t \in Threads, Call(t) PROVE Out
    BY <2>0, <2>1 DEF Call, LockCall, TryLockLoad, LockSharedCall, TrySharedLoad, Move,
       Readers, At
  <2>2. ASSUME NEW t \in Threads, Continue(t) PROVE Out
    <3>1. CASE LockCAS(t) \/ LockCASFails(t) \/ LockSetNeed(t) \/ LockSharedLoad(t)
               \/ UndoWide(t) \/ Unlock(t) \/ UnlockShared(t)
      BY <2>0, <3>1 DEF LockCAS, LockCASFails, LockSetNeed, LockSharedLoad, UndoWide,
         Unlock, UnlockShared, AfterFailure, Move, Readers, At
    <3>2. CASE TryLockCAS(t)
      BY <1>1, <2>0, <3>2, ConstantWords
         DEF TryLockCAS, IInv, ExpectsNoReader, Move, Readers, At
    <3>3. CASE EnterNarrow(t)
      BY <1>1, <2>0, <3>3
         DEF EnterNarrow, AfterFailure, IInv, NarrowExact, MayRead, Readers, At
    <3>4. CASE EnterWide(t)
      BY <2>0, <3>4 DEF EnterWide, Readers, At
    <3> QED
      BY <2>2, <3>1, <3>2, <3>3, <3>4 DEF Continue
  <2> QED
    BY <2>1, <2>2 DEF Next
<1>2. SafetySpec => [][Out]_vars
  BY <1>1, Invariant, PTL DEF SafetySpec
<1> QED
  BY <1>2 DEF NeedKeepsOthersOut

-----------------------------------------------------------------------------
(***************************************************************************)
(* Every step is a step of the abstract lock, or leaves its holders alone. *)
(***************************************************************************)
LEMMA AbstractStep ==
  ASSUME IInv, [Next]_vars
  PROVE  [Abstract!Next]_(Abstract!vars)
<1> USE DEF Abstract!Next, Abstract!vars
<1>0. pc \in [Threads -> PCs]
  BY DEF IInv, TypeOK
<1>1. CASE UNCHANGED vars
  BY <1>1 DEF vars, Writers, Readers, At
<1>2. ASSUME NEW t \in Threads, Call(t) PROVE UNCHANGED <<Writers, Readers>>
  BY <1>0, <1>2 DEF Call, LockCall, TryLockLoad, LockSharedCall, TrySharedLoad, Move,
     Writers, Readers, At
<1>3. ASSUME NEW t \in Threads, LockCAS(t) \/ TryLockCAS(t)
      PROVE  Abstract!AcquireWrite(t) \/ UNCHANGED <<Writers, Readers>>
  <2>1. CASE word = expect[t]
    <3>1. word.r = 0 /\ ~word.w
      BY <1>3, <2>1, ConstantWords
         DEF IInv, ExpectsNoReader, LockCAS, TryLockCAS, Move
    <3>2. Holders = {} /\ Writers = {}
      BY <3>1, HoldersFinite DEF IInv, WordCounts
    <3>3. Readers = {}
      BY <3>2 DEF Holders, Readers, At
    <3>4. Writers' = {t} /\ Readers' = {}
      BY <1>0, <1>3, <2>1, <3>2, <3>3 DEF LockCAS, TryLockCAS, Move, Writers, Readers, At
    <3> QED
      BY <3>2, <3>3, <3>4 DEF Abstract!AcquireWrite
  <2>2. CASE word # expect[t]
    BY <1>0, <1>3, <2>2 DEF LockCAS, TryLockCAS, Move, Writers, Readers, At
  <2> QED
    BY <2>1, <2>2
<1>4. ASSUME NEW t \in Threads, LockCASFails(t) \/ LockSetNeed(t) \/ LockSharedLoad(t)
                                \/ UndoWide(t)
      PROVE  UNCHANGED <<Writers, Readers>>
  BY <1>0, <1>4 DEF LockCASFails, LockSetNeed, LockSharedLoad, UndoWide, AfterFailure, Move,
     Writers, Readers, At
<1>5. ASSUME NEW t \in Threads, EnterNarrow(t) \/ EnterWide(t)
      PROVE  Abstract!AcquireRead(t) \/ UNCHANGED <<Writers, Readers>>
  <2>1. pc[t] \in {"ls_enter", "ts_enter"}
    BY <1>5 DEF EnterNarrow, EnterWide
  <2>2. CASE pc' = [pc EXCEPT ![t] = "reader"] /\ ~word.w
    <3>1. Writers = {}
      BY <2>2 DEF IInv, WordCounts
    <3>2. Writers' = Writers /\ Readers' = Readers \cup {t} /\ t \notin Readers
      BY <1>0, <2>1, <2>2 DEF Writers, Readers, At
    <3> QED
      BY <3>1, <3>2 DEF Abstract!AcquireRead
  <2>3. CASE \E p \in PCs \ {"writer", "reader"} : pc' = [pc EXCEPT ![t] = p]
    BY <1>0, <2>1, <2>3 DEF Writers, Readers, At
  <2> QED
    BY <1>5, <2>1, <2>2, <2>3
       DEF EnterNarrow, EnterWide, AfterFailure, PCs, IInv, NarrowExact, MayRead
<1>6. ASSUME NEW t \in Threads, Unlock(t) PROVE Abstract!ReleaseWrite(t)
  BY <1>0, <1>6 DEF Unlock, Move, Writers, Readers, At, Abstract!ReleaseWrite
<1>7. ASSUME NEW t \in Threads, UnlockShared(t) PROVE Abstract!ReleaseRead(t)
  BY <1>0, <1>7 DEF UnlockShared, Move, Writers, Readers, At, Abstract!ReleaseRead
<1> QED
  BY <1>1, <1>2, <1>3, <1>4, <1>5, <1>6, <1>7 DEF Next, Continue

(***************************************************************************)
(* shared_spinner implements a reader-writer lock.                         *)
(***************************************************************************)
THEOREM ImplementsRWLock == SafetySpec => RefinesRWLock
<1>1. Init => Abstract!Init
  BY DEF Init, Abstract!Init, Writers, Readers, At
<1>2. IInv /\ [Next]_vars => [Abstract!Next]_(Abstract!vars)
  BY AbstractStep
<1> QED
  BY <1>1, <1>2, Invariant, PTL DEF SafetySpec, RefinesRWLock, Abstract!Spec

-----------------------------------------------------------------------------
(***************************************************************************)
(* Spinlocks: one owner, and the flag tells so, timed attempts that never  *)
(* give up early, and the abstract lock.  Threads may be infinite here.    *)
(***************************************************************************)
\* The flag alone does not say who owns the lock: the exchanges are safe
\* because the flag and the owners agree in the state they start from.
SpinInv == Spin!TypeOK /\ Spin!FlagHasOneOwner

LEMMA SpinInit == Spin!Init => SpinInv
BY DEF Spin!Init, SpinInv, Spin!TypeOK, Spin!FlagHasOneOwner, Spin!Owners, Spin!At, Spin!PCs

(***************************************************************************)
(* The exchange of lock(), try_lock() and try_lock_until(): t becomes the  *)
(* only owner of a free lock, and changes nothing of a taken one.          *)
(***************************************************************************)
LEMMA ExchangeOwners ==
  ASSUME SpinInv, NEW t \in Threads, NEW p \in Spin!PCs, p # "owner",
         spinPc[t] # "owner",
         spinPc' = [spinPc EXCEPT ![t] = IF locked THEN p ELSE "owner"],
         locked' = TRUE
  PROVE  /\ Spin!FlagHasOneOwner'
         /\ Spin!Owners' = IF locked THEN Spin!Owners ELSE {t}
<1>0. spinPc \in [Threads -> Spin!PCs]
  BY DEF SpinInv, Spin!TypeOK
<1>1. CASE locked
  <2>1. Spin!Owners' = Spin!Owners
    BY <1>0, <1>1 DEF Spin!Owners, Spin!At
  <2> QED
    BY <1>1, <2>1 DEF SpinInv, Spin!FlagHasOneOwner
<1>2. CASE ~locked
  <2>1. Spin!Owners = {}
    BY <1>2 DEF SpinInv, Spin!FlagHasOneOwner
  <2>2. Spin!Owners' = {t}
    BY <1>0, <1>2, <2>1 DEF Spin!Owners, Spin!At
  <2> QED
    BY <1>2, <2>2 DEF Spin!FlagHasOneOwner
<1> QED
  BY <1>1, <1>2

(***************************************************************************)
(* A step between two locations outside the critical section.              *)
(***************************************************************************)
LEMMA OutsideOwners ==
  ASSUME SpinInv, NEW t \in Threads, NEW p \in Spin!PCs, p # "owner",
         spinPc[t] # "owner", spinPc' = [spinPc EXCEPT ![t] = p], locked' = locked
  PROVE  Spin!FlagHasOneOwner' /\ Spin!Owners' = Spin!Owners
<1>1. Spin!Owners' = Spin!Owners
  BY DEF SpinInv, Spin!TypeOK, Spin!Owners, Spin!At
<1> QED
  BY <1>1 DEF SpinInv, Spin!FlagHasOneOwner

\* unlock() leaves the flag clear and no owner behind.
LEMMA UnlockOwners ==
  ASSUME SpinInv, NEW t \in Threads, Spin!Unlock(t)
  PROVE  Spin!FlagHasOneOwner' /\ Spin!Owners = {t} /\ Spin!Owners' = {}
<1>0. /\ spinPc \in [Threads -> Spin!PCs] /\ spinPc[t] = "owner"
      /\ spinPc' = [spinPc EXCEPT ![t] = "idle"]
  BY DEF SpinInv, Spin!TypeOK, Spin!Unlock, Spin!Move
<1>1. Spin!Owners = {t}
  BY <1>0 DEF SpinInv, Spin!FlagHasOneOwner, Spin!Owners, Spin!At
<1>2. Spin!Owners' = {}
  BY <1>0, <1>1 DEF Spin!Owners, Spin!At
<1>3. locked' = FALSE
  BY DEF Spin!Unlock
<1> QED
  BY <1>1, <1>2, <1>3 DEF Spin!FlagHasOneOwner

-----------------------------------------------------------------------------
(***************************************************************************)
(* What a step of one thread does to the owners, as the abstract lock sees *)
(* it: somebody enters the free lock, the owner leaves, or nobody moves.   *)
(***************************************************************************)
OwnersMove ==
  \/ Spin!Owners' = Spin!Owners
  \/ \E t \in Threads : Spin!Owners = {} /\ Spin!Owners' = {t}
  \/ \E t \in Threads : Spin!Owners = {t} /\ Spin!Owners' = {}

LEMMA StepOwners == SpinInv /\ [Spin!Next]_(Spin!vars) => Spin!FlagHasOneOwner' /\ OwnersMove
<1> SUFFICES ASSUME SpinInv, [Spin!Next]_(Spin!vars) PROVE Spin!FlagHasOneOwner' /\ OwnersMove
  OBVIOUS
<1>0. spinPc \in [Threads -> Spin!PCs] /\ locked \in BOOLEAN
  BY DEF SpinInv, Spin!TypeOK
<1>1. CASE UNCHANGED Spin!vars
  BY <1>1 DEF Spin!vars, SpinInv, Spin!FlagHasOneOwner, OwnersMove, Spin!Owners, Spin!At
<1>2. ASSUME NEW t \in Threads,
             Spin!LockExchange(t) \/ Spin!TryLockExchange(t) \/ Spin!TimedExchange(t)
      PROVE  Spin!FlagHasOneOwner' /\ OwnersMove
  <2>1. PICK p \in {"lk_spin", "idle", "tm_spin"} :
          spinPc' = [spinPc EXCEPT ![t] = IF locked THEN p ELSE "owner"]
    BY <1>2 DEF Spin!LockExchange, Spin!TryLockExchange, Spin!TimedExchange, Spin!Move
  <2>2. spinPc[t] # "owner" /\ locked' = TRUE /\ p \in Spin!PCs /\ p # "owner"
    BY <1>2 DEF Spin!LockExchange, Spin!TryLockExchange, Spin!TimedExchange, Spin!Move, Spin!PCs
  <2>3. /\ Spin!FlagHasOneOwner'
        /\ Spin!Owners' = IF locked THEN Spin!Owners ELSE {t}
    BY <2>1, <2>2, ExchangeOwners
  <2>4. ~locked => Spin!Owners = {}
    BY DEF SpinInv, Spin!FlagHasOneOwner
  <2> QED
    BY <2>3, <2>4 DEF OwnersMove
<1>3. ASSUME NEW t \in Threads,
             Spin!Call(t) \/ Spin!LockSpinEnds(t) \/ Spin!TimedSpin(t) \/ Spin!TimedClock(t)
      PROVE  Spin!FlagHasOneOwner' /\ OwnersMove
  <2>1. PICK p \in {"lk_xchg", "tl_xchg", "tm_xchg", "tm_clock", "tm_spin", "idle"} :
          spinPc' = [spinPc EXCEPT ![t] = p]
    BY <1>3 DEF Spin!Call, Spin!LockCall, Spin!TryLockLoad, Spin!TimedCall, Spin!LockSpinEnds,
       Spin!TimedSpin,
       Spin!TimedClock, Spin!Move
  <2>2. spinPc[t] # "owner" /\ locked' = locked
    BY <1>3 DEF Spin!Call, Spin!LockCall, Spin!TryLockLoad, Spin!TimedCall, Spin!LockSpinEnds,
       Spin!TimedSpin,
       Spin!TimedClock, Spin!Move
  <2>3. Spin!FlagHasOneOwner' /\ Spin!Owners' = Spin!Owners
    BY <2>1, <2>2, OutsideOwners DEF Spin!PCs
  <2> QED
    BY <2>3 DEF OwnersMove
<1>4. ASSUME NEW t \in Threads, Spin!Unlock(t)
      PROVE  Spin!FlagHasOneOwner' /\ OwnersMove
  BY <1>4, UnlockOwners DEF OwnersMove
<1>5. ASSUME NEW t \in Threads, Spin!DeadlinePasses(t)
      PROVE  Spin!FlagHasOneOwner' /\ OwnersMove
  BY <1>5 DEF Spin!DeadlinePasses, SpinInv, Spin!FlagHasOneOwner, OwnersMove, Spin!Owners,
     Spin!At
<1> QED
  BY <1>1, <1>2, <1>3, <1>4, <1>5 DEF Spin!Next, Spin!Continue

\* A thread is only in late while it is in a timed attempt.
LEMMA SpinTypeStep == Spin!TypeOK /\ [Spin!Next]_(Spin!vars) => Spin!TypeOK'
<1> SUFFICES ASSUME Spin!TypeOK, [Spin!Next]_(Spin!vars) PROVE Spin!TypeOK'
  OBVIOUS
<1> USE DEF Spin!TypeOK
<1>1. CASE UNCHANGED Spin!vars
  BY <1>1 DEF Spin!vars
<1>2. ASSUME NEW t \in Threads, Spin!Call(t) PROVE Spin!TypeOK'
  BY <1>2 DEF Spin!Call, Spin!LockCall, Spin!TryLockLoad, Spin!TimedCall, Spin!Move, Spin!PCs,
     Spin!Timed
<1>3. ASSUME NEW t \in Threads, Spin!Continue(t) PROVE Spin!TypeOK'
  <2>1. CASE Spin!LockExchange(t) \/ Spin!LockSpinEnds(t) \/ Spin!TryLockExchange(t)
    BY <2>1 DEF Spin!LockExchange, Spin!LockSpinEnds, Spin!TryLockExchange, Spin!Move,
       Spin!PCs, Spin!Timed
  <2>2. CASE Spin!TimedExchange(t) \/ Spin!TimedSpin(t) \/ Spin!TimedClock(t)
    BY <2>2 DEF Spin!TimedExchange, Spin!TimedSpin, Spin!TimedClock, Spin!Move, Spin!PCs,
       Spin!Timed
  <2> QED
    BY <1>3, <2>1, <2>2 DEF Spin!Continue
<1>4. ASSUME NEW t \in Threads, Spin!Unlock(t) \/ Spin!DeadlinePasses(t) PROVE Spin!TypeOK'
  BY <1>4 DEF Spin!Unlock, Spin!DeadlinePasses, Spin!Move, Spin!PCs, Spin!Timed
<1> QED
  BY <1>1, <1>2, <1>3, <1>4 DEF Spin!Next

LEMMA SpinInvariant == Spin!SafetySpec => []SpinInv
<1>1. SpinInv /\ [Spin!Next]_(Spin!vars) => SpinInv'
  BY StepOwners, SpinTypeStep DEF SpinInv
<1> QED
  BY <1>1, SpinInit, PTL DEF Spin!SafetySpec

(***************************************************************************)
(* However lock(), try_lock(), try_lock_until() and unlock() interleave,   *)
(* the flag is set exactly while one thread owns the lock.                 *)
(***************************************************************************)
THEOREM OneOwner == Spin!SafetySpec => []Spin!FlagHasOneOwner
<1>1. SpinInv => Spin!FlagHasOneOwner
  BY DEF SpinInv
<1> QED
  BY <1>1, SpinInvariant, PTL

(***************************************************************************)
(* A spinlock implements the abstract reader-writer lock with its owner as *)
(* the writer: every step of the class is one acquisition or release of it *)
(* or nothing.                                                             *)
(***************************************************************************)
THEOREM SpinlockImplementsRWLock == Spin!SafetySpec => Spin!RefinesRWLock
<1>1. Spin!Init => Spin!Abstract!Init
  BY DEF Spin!Init, Spin!Abstract!Init, Spin!Owners, Spin!At
<1>2. SpinInv /\ [Spin!Next]_(Spin!vars) => [Spin!Abstract!Next]_(Spin!Abstract!vars)
  BY StepOwners DEF OwnersMove, Spin!Abstract!Next, Spin!Abstract!vars,
     Spin!Abstract!AcquireWrite, Spin!Abstract!ReleaseWrite
<1> QED
  BY <1>1, <1>2, SpinInvariant, PTL DEF Spin!SafetySpec, Spin!RefinesRWLock, Spin!Abstract!Spec

-----------------------------------------------------------------------------
(***************************************************************************)
(* The other locks, and whole tables.                                      *)
(***************************************************************************)
LEMMA SpinlockPart == SafetySpecOne => Spin!SafetySpec
<1>1. InitOne => Spin!Init
  BY DEF InitOne
<1>2. [NextOne]_allVars => [Spin!Next]_(Spin!vars)
  BY DEF NextOne, allVars, Spin!vars, spinVars
<1>3. QED
  BY <1>1, <1>2, PTL DEF SafetySpecOne, Spin!SafetySpec

LEMMA BucketPart == SafetySpecOne => Bucket!SafetySpec
<1>1. InitOne => Bucket!Init
  BY DEF InitOne
<1>2. [NextOne]_allVars => [Bucket!Next]_(Bucket!vars)
  BY DEF NextOne, allVars, Bucket!vars, bucketVars
<1>3. QED
  BY <1>1, <1>2, PTL DEF SafetySpecOne, Bucket!SafetySpec

LEMMA TablesPart == SafetySpecOne => Whole!Spec
<1>1. InitOne => Whole!Init
  BY DEF InitOne
<1>2. [NextOne]_allVars => [Whole!Next]_(Whole!vars)
  BY DEF NextOne, allVars, Whole!vars, Whole!tables, Whole!locks, tableVars
<1>3. QED
  BY <1>1, <1>2, PTL DEF SafetySpecOne, Whole!Spec

-----------------------------------------------------------------------------
\* The flag of a spinlock is set exactly while one thread owns the lock.
THEOREM FlagIsExact == SafetySpecOne => []FlagHasOneOwner
BY SpinlockPart, OneOwner, PTL DEF FlagHasOneOwner

\* Every bucket has one lock of its own, and one user.
THEOREM BucketsAreApart == SafetySpecOne => []OneLockPerBucket
<1>1. Bucket!SafetySpec => []Bucket!OneLockPerBucket
  BY LocksAssumption, Bucket!BucketsHaveOneLock
<1>2. QED
  BY <1>1, BucketPart, PTL DEF OneLockPerBucket

\* No array of locks is leaked, or freed in use.
THEOREM ArraysAreKept == SafetySpecOne => []NoArrayLost
<1>1. Bucket!SafetySpec => []Bucket!NoArrayLost
  BY LocksAssumption, Bucket!ArraysAreKept
<1>2. QED
  BY <1>1, BucketPart, PTL DEF NoArrayLost

\* A published array of locks never moves.
THEOREM ArraysStay == SafetySpecOne => LocksStay
<1>1. Bucket!SafetySpec => Bucket!LocksStay
  BY LocksAssumption, Bucket!PublishedArraysStay
<1>2. QED
  BY <1>1, BucketPart, PTL DEF LocksStay

(***************************************************************************)
(* Data belongs to one table, keys are neither lost nor doubled, and       *)
(* threads never wait in a circle.                                         *)
(***************************************************************************)
THEOREM TablesAreSound == SafetySpecOne => []TablesSound
<1>1. Whole!Spec => []Whole!TablesSound
  BY LocksAssumption, Whole!TablesAreSound
<1>2. QED
  BY <1>1, TablesPart, PTL DEF TablesSound
=============================================================================
