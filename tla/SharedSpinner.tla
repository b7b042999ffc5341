--------------------------- MODULE SharedSpinner ---------------------------
(***************************************************************************)
(* shared_spinner<LockType> of seq/lock.hpp: a reader-writer spin lock     *)
(* made of one atomic word.  Every atomic operation of the class is one    *)
(* step, so the threads interleave between the load and the                *)
(* compare-exchange, between the failed compare-exchange and the fetch_or, *)
(* and between a fetch_add and its undo.                                   *)
(*                                                                         *)
(* The word is [w, n, r]: bit write, bit need_lock, and the reader count   *)
(* in the remaining bits.  The count wraps at RMod = 2 * ReadCap, and      *)
(* max_read_mask, the top bit of the word, is set exactly when             *)
(* r >= ReadCap (ReadCap = 32 for std::uint8_t, 2^29 for std::uint32_t).   *)
(***************************************************************************)
EXTENDS Integers, FiniteSets

CONSTANTS
  Threads,   \* the threads that use the lock
  ReadCap,   \* the reader count at which max_read_mask is set
  Narrow     \* TRUE for a one byte LockType: the load + compare-exchange form

RMod == 2 * ReadCap

(***************************************************************************)
(* The wide form counts with fetch_add and no overflow test, which is only *)
(* sound when the count has room for every thread.  The narrow form has    *)
(* the test, and needs no assumption.                                      *)
(***************************************************************************)
ASSUME SpinnerAssumption ==
  /\ IsFiniteSet(Threads)
  /\ ReadCap \in Nat \ {0}
  /\ Narrow \in BOOLEAN
  /\ ~Narrow => Cardinality(Threads) < RMod

VARIABLES
  word,      \* d_lock
  pc,        \* where each thread is
  expect     \* its local 'expect' of lock(), 'content' of try_lock_shared()

vars == <<word, pc, expect>>

Word  == [w : BOOLEAN, n : BOOLEAN, r : 0 .. RMod - 1]
Zero  == [w |-> FALSE, n |-> FALSE, r |-> 0]
Write == [w |-> TRUE,  n |-> FALSE, r |-> 0]
Need  == [w |-> FALSE, n |-> TRUE,  r |-> 0]

(***************************************************************************)
(* fetch_add(read) and fetch_sub(read) of an unsigned word.                *)
(***************************************************************************)
AddRead(v) == [v EXCEPT !.r = IF @ = RMod - 1 THEN 0 ELSE @ + 1]
SubRead(v) == [v EXCEPT !.r = IF @ = 0 THEN RMod - 1 ELSE @ - 1]

\* A thread in "ls_*" is in lock_shared(), one in "ts_*" in try_lock_shared().
PCs == { "idle", "lk_cas", "lk_or", "tl_cas",
         "ls_load", "ls_enter", "ls_undo", "ts_enter", "ts_undo",
         "writer", "reader" }

TypeOK ==
  /\ word \in Word
  /\ pc \in [Threads -> PCs]
  /\ expect \in [Threads -> Word]

Init ==
  /\ word = Zero
  /\ pc = [t \in Threads |-> "idle"]
  /\ expect = [t \in Threads |-> Zero]

-----------------------------------------------------------------------------
\* The transitions of one thread.

Move(t, from, to) ==
  /\ pc[t] = from
  /\ pc' = [pc EXCEPT ![t] = to]

\* Mutant: 'expect' is not reset.
LockCallStale(t) ==
  /\ Move(t, "idle", "lk_cas")
  /\ UNCHANGED <<word, expect>>

\* lock(): 'expect' starts at 0.
LockCall(t) ==
  /\ Move(t, "idle", "lk_cas")
  /\ expect' = [expect EXCEPT ![t] = Zero]
  /\ UNCHANGED word

\* Mutant: the word is compared without its readers.
LockIgnoresReaders(t) ==
  /\ [word EXCEPT !.r = 0] = expect[t]
  /\ Move(t, "lk_cas", "writer")
  /\ word' = Write
  /\ UNCHANGED expect

\* try_lock(expect): the compare-exchange takes the lock.
LockCAS(t) ==
  /\ word = expect[t]
  /\ Move(t, "lk_cas", "writer")
  /\ word' = Write
  /\ UNCHANGED expect

\* Mutant: 'expect' stays what the compare-exchange loaded.
FailedKeepsLoaded(t) ==
  /\ word # expect[t]
  /\ Move(t, "lk_cas", IF word.n THEN "lk_cas" ELSE "lk_or")
  /\ expect' = [expect EXCEPT ![t] = word]
  /\ UNCHANGED word

(***************************************************************************)
(* The compare-exchange fails and loads the word in 'expect'; the          *)
(* fetch_or that follows in failed_lock() is only done when that value has *)
(* no need_lock bit, and is a step of its own.                             *)
(***************************************************************************)
LockCASFails(t) ==
  /\ word # expect[t]
  /\ Move(t, "lk_cas", IF word.n THEN "lk_cas" ELSE "lk_or")
  /\ expect' = [expect EXCEPT ![t] = Need]
  /\ UNCHANGED word

\* Mutant: failed_lock() does not set need_lock.
NeedNotSet(t) ==
  /\ Move(t, "lk_or", "lk_cas")
  /\ UNCHANGED <<word, expect>>

LockSetNeed(t) ==
  /\ Move(t, "lk_or", "lk_cas")
  /\ word' = [word EXCEPT !.n = TRUE]
  /\ UNCHANGED expect

\* unlock(): one fetch_and clears write and need_lock.
Unlock(t) ==
  /\ Move(t, "writer", "idle")
  /\ word' = [word EXCEPT !.w = FALSE, !.n = FALSE]
  /\ UNCHANGED expect

\* try_lock(): gives up on a load that shows a writer, or one that waits.
TryLockLoad(t) ==
  /\ ~word.n /\ ~word.w
  /\ Move(t, "idle", "tl_cas")
  /\ expect' = [expect EXCEPT ![t] = Zero]
  /\ UNCHANGED word

\* Mutant: try_lock() trusts its load.
TryLockNoCAS(t) ==
  /\ Move(t, "tl_cas", "writer")
  /\ word' = [word EXCEPT !.w = TRUE]
  /\ UNCHANGED expect

TryLockCAS(t) ==
  /\ Move(t, "tl_cas", IF word = expect[t] THEN "writer" ELSE "idle")
  /\ word' = IF word = expect[t] THEN Write ELSE word
  /\ UNCHANGED expect

\* Mutants: the test without the overflow bit, and without need_lock.
MayReadUncapped(v)   == ~v.n /\ ~v.w
MayReadPastNeed(v)   == ~v.w /\ (Narrow => v.r < ReadCap)

\* The first test of try_lock_shared(), in both of its forms.
MayRead(v) ==
  /\ ~v.n
  /\ ~v.w
  /\ Narrow => v.r < ReadCap

LockSharedCall(t) ==
  /\ Move(t, "idle", "ls_load")
  /\ UNCHANGED <<word, expect>>

\* lock_shared() spins on the load until it lets it try.
LockSharedLoad(t) ==
  /\ MayRead(word)
  /\ Move(t, "ls_load", "ls_enter")
  /\ expect' = [expect EXCEPT ![t] = word]
  /\ UNCHANGED word

TrySharedLoad(t) ==
  /\ MayRead(word)
  /\ Move(t, "idle", "ts_enter")
  /\ expect' = [expect EXCEPT ![t] = word]
  /\ UNCHANGED word

\* Where a failed attempt continues: lock_shared() loops, the try returns.
AfterFailure(at) == IF at = "ls_enter" \/ at = "ls_undo" THEN "ls_load" ELSE "idle"

\* sizeof == 1: compare_exchange_strong(content, content + read).
EnterNarrow(t) ==
  /\ Narrow
  /\ pc[t] \in {"ls_enter", "ts_enter"}
  /\ IF word = expect[t]
     THEN /\ word' = AddRead(word)
          /\ pc' = [pc EXCEPT ![t] = "reader"]
     ELSE /\ pc' = [pc EXCEPT ![t] = AfterFailure(@)]
          /\ UNCHANGED word
  /\ UNCHANGED expect

(***************************************************************************)
(* The other sizes: fetch_add counts the reader before it knows whether    *)
(* it may enter, and a second fetch_add takes the count back.              *)
(***************************************************************************)
EnterWide(t) ==
  /\ ~Narrow
  /\ pc[t] \in {"ls_enter", "ts_enter"}
  /\ word' = AddRead(word)
  /\ pc' = [pc EXCEPT ![t] = IF ~word.n /\ ~word.w THEN "reader"
                             ELSE IF @ = "ls_enter" THEN "ls_undo" ELSE "ts_undo"]
  /\ UNCHANGED expect

\* Mutant: a reader that is turned away forgets its fetch_add.
NoUndo(t) ==
  /\ pc[t] \in {"ls_undo", "ts_undo"}
  /\ pc' = [pc EXCEPT ![t] = AfterFailure(@)]
  /\ UNCHANGED <<word, expect>>

UndoWide(t) ==
  /\ pc[t] \in {"ls_undo", "ts_undo"}
  /\ word' = SubRead(word)
  /\ pc' = [pc EXCEPT ![t] = AfterFailure(@)]
  /\ UNCHANGED expect

UnlockShared(t) ==
  /\ Move(t, "reader", "idle")
  /\ word' = SubRead(word)
  /\ UNCHANGED expect

-----------------------------------------------------------------------------
\* What a thread starts of its own will, and what it then cannot avoid.
Call(t) ==
  \/ LockCall(t)
  \/ TryLockLoad(t)
  \/ LockSharedCall(t)
  \/ TrySharedLoad(t)

Continue(t) ==
  \/ LockCAS(t)
  \/ LockCASFails(t)
  \/ LockSetNeed(t)
  \/ TryLockCAS(t)
  \/ LockSharedLoad(t)
  \/ EnterNarrow(t)
  \/ EnterWide(t)
  \/ UndoWide(t)
  \/ Unlock(t)
  \/ UnlockShared(t)

Next == \E t \in Threads : Call(t) \/ Continue(t)

(***************************************************************************)
(* A thread the operating system keeps scheduling runs on inside the       *)
(* class, and a critical section ends; nobody has to start a call.         *)
(***************************************************************************)
SafetySpec == Init /\ [][Next]_vars
Spec == SafetySpec /\ \A t \in Threads : WF_vars(Continue(t))

-----------------------------------------------------------------------------
\* Properties.

At(p)   == {t \in Threads : pc[t] = p}
Writers == At("writer")
Readers == At("reader")
Holders == {t \in Threads : pc[t] \in {"reader", "ls_undo", "ts_undo"}}

(***************************************************************************)
(* Two writers are never in at once, nor a writer with a reader: the       *)
(* compare-exchanges to 'write' of lock() and try_lock() only succeed on a *)
(* word without a counted reader, in either form of try_lock_shared().     *)
(***************************************************************************)
MutualExclusion ==
  /\ \A s, t \in Writers : s = t
  /\ Writers # {} => Readers = {}

(***************************************************************************)
(* The word counts: its reader bits are the readers and the threads that   *)
(* still have to take their fetch_add back, so no increment is lost, done  *)
(* twice or carried out of the word; write is set while a writer is in.    *)
(***************************************************************************)
WordCounts ==
  /\ word.r = Cardinality(Holders)
  /\ word.w <=> Writers # {}

(***************************************************************************)
(* The narrow form "works for very small lock type (like uint8_t) by       *)
(* avoiding overflows" (lock.hpp:179): the readers stop at ReadCap however *)
(* many threads race for the last place.                                   *)
(***************************************************************************)
NarrowReadersBounded == Narrow => Cardinality(Readers) <= ReadCap

(***************************************************************************)
(* need_lock is never left behind: while it is set, which keeps every      *)
(* reader and every try_lock() out, a thread in lock() is about to try its *)
(* compare-exchange against exactly that bit.                              *)
(***************************************************************************)
NeedHasWaiter == word.n => \E t \in At("lk_cas") : expect[t] = Need

(***************************************************************************)
(* "favors write operations" (lock.hpp:108): once a waiting writer has set *)
(* need_lock no reader gets in, not even one whose load came before, and   *)
(* no other thread's try_lock() overtakes it.                              *)
(***************************************************************************)
NeedKeepsOthersOut ==
  [][word.n => /\ Readers' \subseteq Readers
               /\ \A t \in Threads : pc[t] = "tl_cas" => pc'[t] # "writer"]_vars

(***************************************************************************)
(* A waiting writer is not starved by readers: as long as some thread is   *)
(* in lock(), some thread eventually holds the lock for writing.           *)
(***************************************************************************)
SomeWriterProgress ==
  (At("lk_cas") \cup At("lk_or") # {}) ~> (Writers # {})

\* The lock implements the abstract reader-writer lock.
Abstract == INSTANCE RWLock WITH writers <- Writers, readers <- Readers
RefinesRWLock == Abstract!Spec

(***************************************************************************)
(* The inductive invariant behind the safety properties.  The word counts  *)
(* the threads between their increment and their decrement; a thread that  *)
(* is about to compare-exchange to 'write' expects a word without readers; *)
(* in the narrow form a reader expects a word below the cap.               *)
(***************************************************************************)
ExpectsNoReader ==
  \A t \in Threads :
    /\ pc[t] = "lk_cas" => expect[t] \in {Zero, Need}
    /\ pc[t] = "lk_or"  => expect[t] = Need
    /\ pc[t] = "tl_cas" => expect[t] = Zero

NarrowExact ==
  Narrow => /\ word.r <= ReadCap
            /\ \A t \in Threads :
                 /\ pc[t] \notin {"ls_undo", "ts_undo"}
                 /\ pc[t] \in {"ls_enter", "ts_enter"} => MayRead(expect[t])

IInv ==
  /\ TypeOK
  /\ WordCounts
  /\ ExpectsNoReader
  /\ NarrowExact
  /\ MutualExclusion
  /\ NeedHasWaiter
=============================================================================
