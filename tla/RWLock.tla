------------------------------- MODULE RWLock -------------------------------
(***************************************************************************)
(* What a reader-writer lock promises its callers, whatever it is made     *)
(* of: the threads that hold it for writing and for reading change one at  *)
(* a time, a writer is alone and readers only meet readers.  The locks of  *)
(* seq/lock.hpp are shown to implement this specification.                 *)
(***************************************************************************)
CONSTANT Threads        \* the threads that use the lock

VARIABLES writers,      \* the threads that hold the lock for writing
          readers       \* the threads that hold the lock for reading

vars == <<writers, readers>>

TypeOK ==
  /\ writers \subseteq Threads
  /\ readers \subseteq Threads

Init ==
  /\ writers = {}
  /\ readers = {}

AcquireWrite(t) ==
  /\ writers = {}
  /\ readers = {}
  /\ writers' = {t}
  /\ UNCHANGED readers

ReleaseWrite(t) ==
  /\ t \in writers
  /\ writers' = writers \ {t}
  /\ UNCHANGED readers

AcquireRead(t) ==
  /\ writers = {}
  /\ t \notin readers
  /\ readers' = readers \cup {t}
  /\ UNCHANGED writers

ReleaseRead(t) ==
  /\ t \in readers
  /\ readers' = readers \ {t}
  /\ UNCHANGED writers

Next ==
  \E t \in Threads :
    \/ AcquireWrite(t)
    \/ ReleaseWrite(t)
    \/ AcquireRead(t)
    \/ ReleaseRead(t)

Spec == Init /\ [][Next]_vars
=============================================================================
