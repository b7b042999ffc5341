------------------------------ MODULE Spinlock ------------------------------
(***************************************************************************)
(* spinlock of seq/lock.hpp: one atomic flag, taken by an exchange and     *)
(* waited for by plain loads, with attempts bounded by a deadline.         *)
(* lock_shared(), try_lock_shared() and unlock_shared() are lock(),        *)
(* try_lock() and unlock() under other names, and need no action.          *)
(*                                                                         *)
(* The clock is abstracted to whether the deadline of a thread's timed     *)
(* attempt has passed.                                                     *)
(***************************************************************************)
EXTENDS Integers, FiniteSets

CONSTANT Threads

VARIABLES
  locked,    \* d_lock
  pc,        \* where each thread is
  late       \* the threads in a timed attempt whose timePoint is in the past

vars == <<locked, pc, late>>

\* "lk_*" is lock(), "tl_*" try_lock(), "tm_*" try_lock_until().
PCs == {"idle", "lk_xchg", "lk_spin", "tl_xchg",
        "tm_xchg", "tm_spin", "tm_clock", "owner"}
Timed == {"tm_xchg", "tm_spin", "tm_clock"}

TypeOK ==
  /\ locked \in BOOLEAN
  /\ pc \in [Threads -> PCs]
  /\ late \subseteq {t \in Threads : pc[t] \in Timed}

Init ==
  /\ locked = FALSE
  /\ pc = [t \in Threads |-> "idle"]
  /\ late = {}

-----------------------------------------------------------------------------
Move(t, from, to) ==
  /\ pc[t] = from
  /\ pc' = [pc EXCEPT ![t] = to]

LockCall(t) ==
  /\ Move(t, "idle", "lk_xchg")
  /\ UNCHANGED <<locked, late>>

\* Mutant: a load and a store instead of the exchange.
LockByStore(t) ==
  /\ Move(t, "lk_xchg", "owner")
  /\ locked' = TRUE
  /\ UNCHANGED late

\* exchange(true) takes the flag, or shows that it was taken already.
LockExchange(t) ==
  /\ Move(t, "lk_xchg", IF locked THEN "lk_spin" ELSE "owner")
  /\ locked' = TRUE
  /\ UNCHANGED late

\* Mutant: the spin does not come back to the exchange.
LockSpinsOn(t) ==
  /\ Move(t, "lk_spin", "lk_spin")
  /\ UNCHANGED <<locked, late>>

LockSpinEnds(t) ==
  /\ ~locked
  /\ Move(t, "lk_spin", "lk_xchg")
  /\ UNCHANGED <<locked, late>>

\* try_lock(): no exchange is tried when the load shows a taken flag.
TryLockLoad(t) ==
  /\ ~locked
  /\ Move(t, "idle", "tl_xchg")
  /\ UNCHANGED <<locked, late>>

TryLockExchange(t) ==
  /\ Move(t, "tl_xchg", IF locked THEN "idle" ELSE "owner")
  /\ locked' = TRUE
  /\ UNCHANGED late

\* try_lock_until(), also behind try_lock_for(); the deadline may be past.
TimedCall(t) ==
  /\ Move(t, "idle", "tm_xchg")
  /\ late' \in {late, late \cup {t}}
  /\ UNCHANGED locked

TimedExchange(t) ==
  /\ Move(t, "tm_xchg", IF locked THEN "tm_spin" ELSE "owner")
  /\ locked' = TRUE
  /\ late' = IF locked THEN late ELSE late \ {t}

\* Mutant: the clock is only read once the lock is free.
TimedSpinNoClock(t) ==
  /\ Move(t, "tm_spin", IF locked THEN "tm_spin" ELSE "tm_xchg")
  /\ UNCHANGED <<locked, late>>

\* The load of the inner loop, which the clock is only read in.
TimedSpin(t) ==
  /\ Move(t, "tm_spin", IF locked THEN "tm_clock" ELSE "tm_xchg")
  /\ UNCHANGED <<locked, late>>

TimedClock(t) ==
  /\ Move(t, "tm_clock", IF t \in late THEN "idle" ELSE "tm_spin")
  /\ late' = late \ {t}
  /\ UNCHANGED locked

Unlock(t) ==
  /\ Move(t, "owner", "idle")
  /\ locked' = FALSE
  /\ UNCHANGED late

\* system_clock goes past the timePoint of t.
DeadlinePasses(t) ==
  /\ pc[t] \in Timed
  /\ late' = late \cup {t}
  /\ UNCHANGED <<locked, pc>>

-----------------------------------------------------------------------------
Call(t) == LockCall(t) \/ TryLockLoad(t) \/ TimedCall(t)

\* The steps of the class itself; the owner's critical section is not one.
Continue(t) ==
  \/ LockExchange(t)
  \/ LockSpinEnds(t)
  \/ TryLockExchange(t)
  \/ TimedExchange(t)
  \/ TimedSpin(t)
  \/ TimedClock(t)

Next ==
  \E t \in Threads : Call(t) \/ Continue(t) \/ Unlock(t) \/ DeadlinePasses(t)

(***************************************************************************)
(* Threads inside the class run on and time passes.  Nothing is assumed of *)
(* the owner: it may keep the lock for ever.                               *)
(***************************************************************************)
SafetySpec == Init /\ [][Next]_vars
Spec ==
  /\ SafetySpec
  /\ \A t \in Threads : WF_vars(Continue(t)) /\ WF_vars(DeadlinePasses(t))

-----------------------------------------------------------------------------
At(p)  == {t \in Threads : pc[t] = p}
Owners == At("owner")

(***************************************************************************)
(* The flag is set exactly while one thread owns the lock: an exchange     *)
(* that finds it set changes nothing, and no attempt that gives up, by its *)
(* load or by its deadline, leaves it set or clears it for the owner.      *)
(***************************************************************************)
FlagHasOneOwner ==
  /\ locked <=> Owners # {}
  /\ \A s, t \in Owners : s = t

(***************************************************************************)
(* A timed attempt on a lock that is never released again returns: the     *)
(* clock is read in the inner loop, so a stuck owner does not hang it.     *)
(***************************************************************************)
TimedAttemptReturns ==
  \A t \in Threads : <>[](Owners # {}) => [](pc[t] \in Timed => <>(pc[t] \notin Timed))

(***************************************************************************)
(* The lock does not stay free while a thread waits in lock(): the spin on *)
(* the load always comes back to the exchange.                             *)
(***************************************************************************)
FreeLockIsTaken ==
  (At("lk_xchg") \cup At("lk_spin") # {}) ~> (Owners # {})

\* Shared or not, every owner of a spinlock is a writer of the abstract lock.
Abstract == INSTANCE RWLock WITH writers <- Owners, readers <- {}
RefinesRWLock == Abstract!Spec
=============================================================================
