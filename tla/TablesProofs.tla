----------------------------- MODULE TablesProofs -----------------------------
(***************************************************************************)
(* What ChainingTableProofs proves of one shard holds of the specification *)
(* whose behaviours the runs check, for any threads and addresses: of      *)
(* "core", "shared" and "mix" because their threads do nothing that has to *)
(* be alone, and of "alone" because its calls come one at a time.          *)
(***************************************************************************)
EXTENDS MCTables, TLAPS

LEMMA CoreSettings == Core!TableAssumption /\ Core!ReadersOnlyWalk /\ Core!Concurrent
BY TablesAssumption DEF Core!ReadersOnlyWalk, Core!Concurrent

LEMMA SharedLocksSettings == SharedLocks!TableAssumption /\ SharedLocks!ReadersOnlyWalk /\ SharedLocks!Concurrent
BY TablesAssumption DEF SharedLocks!ReadersOnlyWalk, SharedLocks!Concurrent

LEMMA AloneSettings == Alone!TableAssumption /\ Alone!ReadersOnlyWalk
BY TablesAssumption DEF Alone!ReadersOnlyWalk

LEMMA MixSettings == Mix!TableAssumption /\ Mix!ReadersOnlyWalk /\ Mix!Concurrent
BY TablesAssumption DEF Mix!ReadersOnlyWalk, Mix!Concurrent

\* The invariant of the shard of this behaviour.
Inv ==
  /\ kind \in Kinds
  /\ kind = "core" => Core!CInv
  /\ kind = "shared" => SharedLocks!CInv
  /\ kind = "alone" => Alone!CInv /\ Alone!OneCall
  /\ kind = "mix" => Mix!CInv

LEMMA InvStarts == Init => Inv
<1> SUFFICES ASSUME Init PROVE Inv
  OBVIOUS
<1>1. kind \in Kinds
  BY DEF Init
<1>2. ASSUME kind = "core" PROVE Core!CInv
  <2>1. Core!Init
    BY <1>2 DEF Init
  <2>2. QED
    BY <2>1, CoreSettings, Core!InitKeeps
<1>3. ASSUME kind = "shared" PROVE SharedLocks!CInv
  <2>1. SharedLocks!Init
    BY <1>3 DEF Init
  <2>2. QED
    BY <2>1, SharedLocksSettings, SharedLocks!InitKeeps
<1>4. ASSUME kind = "alone" PROVE Alone!CInv /\ Alone!OneCall
  <2>1. Alone!Init
    BY <1>4 DEF Init
  <2>2. Alone!CInv
    BY <2>1, AloneSettings, Alone!InitKeeps
  <2>3. Alone!OneCall
    BY <2>1 DEF Alone!Init, Alone!OneCall
  <2>4. QED
    BY <2>2, <2>3
<1>5. ASSUME kind = "mix" PROVE Mix!CInv
  <2>1. Mix!Init
    BY <1>5 DEF Init
  <2>2. QED
    BY <2>1, MixSettings, Mix!InitKeeps
<1>6. QED
  BY <1>1, <1>2, <1>3, <1>4, <1>5 DEF Inv

LEMMA InvKept == Inv /\ [Next]_allVars => Inv'
<1> SUFFICES ASSUME Inv, [Next]_allVars PROVE Inv'
  OBVIOUS
<1>1. kind' = kind
  BY DEF Next, allVars
<1>2. ASSUME kind = "core" PROVE Core!CInv'
  <2>1. Core!CInv
    BY <1>2 DEF Inv
  <2>2. CASE Core!Next
    BY <2>1, <2>2, CoreSettings, Core!StepKeeps DEF Core!Next
  <2>3. CASE UNCHANGED allVars
    <3>1. UNCHANGED Core!vars
      BY <2>3 DEF allVars, Core!vars, Core!table
    <3>2. QED
      BY <2>1, <3>1, Core!StutterKeeps
  <2>4. QED
    BY <1>2, <2>2, <2>3 DEF Next
<1>3. ASSUME kind = "shared" PROVE SharedLocks!CInv'
  <2>1. SharedLocks!CInv
    BY <1>3 DEF Inv
  <2>2. CASE SharedLocks!Next
    BY <2>1, <2>2, SharedLocksSettings, SharedLocks!StepKeeps DEF SharedLocks!Next
  <2>3. CASE UNCHANGED allVars
    <3>1. UNCHANGED SharedLocks!vars
      BY <2>3 DEF allVars, SharedLocks!vars, SharedLocks!table
    <3>2. QED
      BY <2>1, <3>1, SharedLocks!StutterKeeps
  <2>4. QED
    BY <1>3, <2>2, <2>3 DEF Next
<1>4. ASSUME kind = "alone" PROVE Alone!CInv' /\ Alone!OneCall'
  <2>1. Alone!CInv /\ Alone!OneCall
    BY <1>4 DEF Inv
  <2>2. CASE OneAtATime
    <3>1. PICK t \in Threads : /\ \A u \in Threads \ {t} : Alone!Idle(u)
                               /\ Alone!Call(t) \/ Alone!Continue(t) \/ Alone!RehashFails(t)
      BY <2>2 DEF OneAtATime
    <3>2. Alone!Alone(t)
      BY <3>1 DEF Alone!Alone, Alone!Idle
    <3>3. Alone!CInv'
      BY <2>1, <3>1, <3>2, AloneSettings, Alone!StepKeeps
    <3>4. Alone!Types
      BY <2>1 DEF Alone!CInv
    <3>5. Alone!OneCall'
      BY <3>1, <3>2, <3>4, Alone!OneCallKept
    <3>6. QED
      BY <3>3, <3>5
  <2>3. CASE UNCHANGED allVars
    <3>1. UNCHANGED Alone!vars
      BY <2>3 DEF allVars, Alone!vars, Alone!table
    <3>2. UNCHANGED pc
      BY <2>3 DEF allVars
    <3>3. Alone!CInv'
      BY <2>1, <3>1, Alone!StutterKeeps
    <3>4. Alone!OneCall'
      BY <2>1, <3>2 DEF Alone!OneCall
    <3>5. QED
      BY <3>3, <3>4
  <2>4. QED
    BY <1>4, <2>2, <2>3 DEF Next
<1>5. ASSUME kind = "mix" PROVE Mix!CInv'
  <2>1. Mix!CInv
    BY <1>5 DEF Inv
  <2>2. CASE Mix!Next
    BY <2>1, <2>2, MixSettings, Mix!StepKeeps DEF Mix!Next
  <2>3. CASE UNCHANGED allVars
    <3>1. UNCHANGED Mix!vars
      BY <2>3 DEF allVars, Mix!vars, Mix!table
    <3>2. QED
      BY <2>1, <3>1, Mix!StutterKeeps
  <2>4. QED
    BY <1>5, <2>2, <2>3 DEF Next
<1>6. QED
  BY <1>1, <1>2, <1>3, <1>4, <1>5 DEF Inv

LEMMA InvHolds == SafetySpec => []Inv
BY InvStarts, InvKept, PTL DEF SafetySpec

\* The instances agree on who uses which bucket.
LEMMA OneMutex ==
  /\ Alone!BucketMutex => BucketMutex
  /\ SharedLocks!BucketMutex => BucketMutex
  /\ Mix!BucketMutex => BucketMutex
BY DEF BucketMutex, Core!BucketMutex, Core!Uses, Core!ReadOnly, Alone!BucketMutex, Alone!Uses, Alone!ReadOnly,
       SharedLocks!BucketMutex, SharedLocks!Uses, SharedLocks!ReadOnly, Mix!BucketMutex, Mix!Uses, Mix!ReadOnly

LEMMA AllFollow ==
  ASSUME Inv
  PROVE  TypeOK /\ BucketMutex /\ BucketExists /\ KeysInPlace /\ SizeCounts /\ LocksReleased
<1>1. kind \in {"core", "shared", "alone", "mix"}
  BY TablesAssumption DEF Inv
<1>2. CASE kind = "core"
  <2>1. /\ Core!TypeOK /\ Core!BucketMutex /\ Core!BucketExists
        /\ Core!KeysInPlace /\ Core!SizeCounts /\ Core!LocksReleased
    BY <1>2, CoreSettings, Core!PropertiesFollow DEF Inv
  <2>2. QED
    BY <1>2, <2>1, OneMutex DEF TypeOK, BucketMutex, BucketExists, KeysInPlace, SizeCounts, LocksReleased
<1>3. CASE kind = "shared"
  <2>1. /\ SharedLocks!TypeOK /\ SharedLocks!BucketMutex /\ SharedLocks!BucketExists
        /\ SharedLocks!KeysInPlace /\ SharedLocks!SizeCounts /\ SharedLocks!LocksReleased
    BY <1>3, SharedLocksSettings, SharedLocks!PropertiesFollow DEF Inv
  <2>2. QED
    BY <1>3, <2>1, OneMutex DEF TypeOK, BucketMutex, BucketExists, KeysInPlace, SizeCounts, LocksReleased
<1>4. CASE kind = "alone"
  <2>1. /\ Alone!TypeOK /\ Alone!BucketMutex /\ Alone!BucketExists
        /\ Alone!KeysInPlace /\ Alone!SizeCounts /\ Alone!LocksReleased
    BY <1>4, AloneSettings, Alone!PropertiesFollow DEF Inv
  <2>2. QED
    BY <1>4, <2>1, OneMutex DEF TypeOK, BucketMutex, BucketExists, KeysInPlace, SizeCounts, LocksReleased
<1>5. CASE kind = "mix"
  <2>1. /\ Mix!TypeOK /\ Mix!BucketMutex /\ Mix!BucketExists
        /\ Mix!KeysInPlace /\ Mix!SizeCounts /\ Mix!LocksReleased
    BY <1>5, MixSettings, Mix!PropertiesFollow DEF Inv
  <2>2. QED
    BY <1>5, <2>1, OneMutex DEF TypeOK, BucketMutex, BucketExists, KeysInPlace, SizeCounts, LocksReleased
<1>6. QED
  BY <1>1, <1>2, <1>3, <1>4, <1>5

-----------------------------------------------------------------------------
\* Every variable of a shard keeps its type, the six bits of readers in a lock word among them.
THEOREM EverythingIsTyped == SafetySpec => []TypeOK
<1>1. Inv => TypeOK
  BY AllFollow
<1>2. QED
  BY <1>1, InvHolds, PTL

\* No two threads are on one bucket at a time unless both read it.
THEOREM BucketsAreExclusive == SafetySpec => []BucketMutex
<1>1. Inv => BucketMutex
  BY AllFollow
<1>2. QED
  BY <1>1, InvHolds, PTL

\* A thread is only on a bucket that exists, and inserts in none that all tables share.
THEOREM BucketsExist == SafetySpec => []BucketExists
<1>1. Inv => BucketExists
  BY AllFollow
<1>2. QED
  BY <1>1, InvHolds, PTL

\* Every key is in one array only, where its hash leads.
THEOREM KeysStayInPlace == SafetySpec => []KeysInPlace
<1>1. Inv => KeysInPlace
  BY AllFollow
<1>2. QED
  BY <1>1, InvHolds, PTL

\* d_size is exact but for the calls that are about to change it.
THEOREM SizeIsExact == SafetySpec => []SizeCounts
<1>1. Inv => SizeCounts
  BY AllFollow
<1>2. QED
  BY <1>1, InvHolds, PTL

\* A table without calls holds no lock, and says of no rehash that it runs.
THEOREM LocksAreReleased == SafetySpec => []LocksReleased
<1>1. Inv => LocksReleased
  BY AllFollow
<1>2. QED
  BY <1>1, InvHolds, PTL
-----------------------------------------------------------------------------
(***************************************************************************)
(* The concurrent set that each instance is, is the one of all behaviours. *)
(***************************************************************************)
Contents == CASE kind \in {"core", "alone"} -> Alone!Contents [] OTHER -> Mix!Contents
Calls    == [t \in Threads |-> Alone!AbstractCall(t)]

\* The two steps of ConcurrentSet that take calls apart, from c to d and from x to y.
Applies(t, c, d, x, y) ==
  LET k    == x[t].key
      done == [x EXCEPT ![t].res = IF k \in c THEN "found" ELSE "absent"]
  IN /\ x[t].op \in Set!PointOps /\ x[t].res = "pending"
     /\ CASE x[t].op = "insert" -> d = c \cup {k} /\ y = done
          [] x[t].op = "erase"  -> d = c \ {k} /\ y = Set!Unsteady(done, {k})
          [] OTHER              -> d = c /\ y = done

WalksOver(t, S, stop, c, d, x, y) ==
  /\ x[t].op \in Set!WalkOps /\ ~x[t].stop /\ S \subseteq c /\ S \cap x[t].seen = {}
  /\ \E gone \in {{}} \cup (IF x[t].op = "erase_if" THEN SUBSET S ELSE {}) :
       /\ d = c \ gone
       /\ y = Set!Unsteady([x EXCEPT ![t].seen = @ \cup S, ![t].stop = stop], gone)

LEMMA CoreView ==
  ASSUME kind = "core", kind' = kind
  PROVE  /\ Core!Contents = Contents /\ Core!Contents' = Contents'
         /\ [t \in Threads |-> Core!AbstractCall(t)] = Calls
         /\ [t \in Threads |-> Core!AbstractCall(t)]' = Calls'
<1>1. Core!Contents = Contents /\ Core!Contents' = Contents'
  BY DEF Contents, Core!Contents, Core!Content, Alone!Contents, Alone!Content, Core!Masks, Alone!Masks
<1>2. \A t : Core!AbstractCall(t) = Alone!AbstractCall(t) /\ Core!AbstractCall(t)' = Alone!AbstractCall(t)'
  BY DEF Core!AbstractCall, Alone!AbstractCall, Core!Points, Alone!Points, Core!Walks, Alone!Walks
<1>3. QED
  BY <1>1, <1>2 DEF Calls

LEMMA CoreSetStarts ==
  ASSUME kind = "core", Core!Set!Init
  PROVE  Set!Init
<1>1. Core!Contents = Contents
  BY DEF Contents, Core!Contents, Core!Content, Alone!Contents, Alone!Content, Core!Masks, Alone!Masks
<1>2. \A t : Core!AbstractCall(t) = Alone!AbstractCall(t)
  BY DEF Core!AbstractCall, Alone!AbstractCall, Core!Points, Alone!Points, Core!Walks, Alone!Walks
<1>3. QED
  BY <1>1, <1>2 DEF Core!Set!Init, Core!Set!Idle, Set!Init, Set!Idle, Contents

LEMMA CoreSetSteps ==
  ASSUME kind = "core", kind' = kind, Core!Set!Next
  PROVE  Set!Next
<1>1. PICK t \in Threads :
        \/ \E op \in Set!PointOps, k \in {0, 1, 3} : Core!Set!InvokePoint(t, op, k)
        \/ \E op \in Set!WalkOps : Core!Set!InvokeWalk(t, op)
        \/ \E op \in Set!WholeOps : Core!Set!InvokeWhole(t, op)
        \/ Core!Set!Apply(t)
        \/ \E S \in SUBSET {0, 1, 3}, stop \in BOOLEAN : Core!Set!WalkOver(t, S, stop)
        \/ Core!Set!Wipe(t)
        \/ Core!Set!Return(t)
        \/ Core!Set!Throw(t)
  <2>1. \A S \in SUBSET {1, 3} : S \in SUBSET {0, 1, 3}
    OBVIOUS
  <2>2. QED
    BY <2>1 DEF Core!Set!Next, Core!Set!PointOps, Core!Set!WalkOps, Core!Set!WholeOps,
       Set!PointOps, Set!WalkOps, Set!WholeOps
<1>2. PICK c, d, x, y :
        /\ c = Core!Contents /\ d = Core!Contents' /\ c = Contents /\ d = Contents'
        /\ x = [u \in Threads |-> Core!AbstractCall(u)] /\ y = [u \in Threads |-> Core!AbstractCall(u)]'
        /\ x = Calls /\ y = Calls'
  BY CoreView
<1>3. \A z, g : Core!Set!Unsteady(z, g) = Set!Unsteady(z, g)
  BY DEF Core!Set!Unsteady, Set!Unsteady, Core!Set!WalkOps, Set!WalkOps
<1>4. ASSUME NEW op \in Set!PointOps, NEW k \in {0, 1, 3}, Core!Set!InvokePoint(t, op, k) PROVE Set!Next
  <2>1. Set!InvokePoint(t, op, k)
    BY <1>2, <1>4 DEF Core!Set!InvokePoint, Core!Set!Idle, Core!Set!Point, Set!InvokePoint, Set!Idle, Set!Point,
       Contents, Calls
  <2>2. QED
    BY <2>1 DEF Set!Next
<1>5. ASSUME NEW op \in Set!WalkOps, Core!Set!InvokeWalk(t, op) PROVE Set!Next
  <2>1. Set!InvokeWalk(t, op)
    BY <1>2, <1>5 DEF Core!Set!InvokeWalk, Core!Set!Idle, Core!Set!Walk, Set!InvokeWalk, Set!Idle, Set!Walk,
       Contents, Calls
  <2>2. QED
    BY <2>1 DEF Set!Next
<1>6. ASSUME NEW op \in Set!WholeOps, Core!Set!InvokeWhole(t, op) PROVE Set!Next
  <2>1. Set!InvokeWhole(t, op)
    BY <1>2, <1>6 DEF Core!Set!InvokeWhole, Core!Set!Idle, Core!Set!Whole, Set!InvokeWhole, Set!Idle, Set!Whole,
       Contents, Calls
  <2>2. QED
    BY <2>1 DEF Set!Next
<1>7. ASSUME Core!Set!Apply(t) PROVE Set!Next
  <2>1. Applies(t, c, d, x, y)
    BY <1>2, <1>3, <1>7 DEF Core!Set!Apply, Core!Set!PointOps, Set!PointOps, Applies
  <2>2. Set!Apply(t)
    BY <1>2, <2>1 DEF Set!Apply, Applies, Contents, Calls
  <2>3. QED
    BY <2>2 DEF Set!Next
<1>8. ASSUME NEW S \in SUBSET {0, 1, 3}, NEW stop \in BOOLEAN, Core!Set!WalkOver(t, S, stop) PROVE Set!Next
  <2>1. WalksOver(t, S, stop, c, d, x, y)
    BY <1>2, <1>3, <1>8 DEF Core!Set!WalkOver, Core!Set!WalkOps, Set!WalkOps, WalksOver
  <2>2. Set!WalkOver(t, S, stop)
    BY <1>2, <2>1 DEF Set!WalkOver, WalksOver, Contents, Calls
  <2>3. QED
    BY <2>2 DEF Set!Next
<1>9. ASSUME Core!Set!Wipe(t) PROVE Set!Next
  <2>1. Set!Wipe(t)
    BY <1>2, <1>3, <1>9 DEF Core!Set!Wipe, Set!Wipe, Contents, Calls
  <2>2. QED
    BY <2>1 DEF Set!Next
<1>10. ASSUME Core!Set!Return(t) PROVE Set!Next
  <2>1. Set!Return(t)
    BY <1>2, <1>10 DEF Core!Set!Return, Core!Set!Idle, Core!Set!PointOps, Core!Set!WalkOps,
       Set!Return, Set!Idle, Set!PointOps, Set!WalkOps, Contents, Calls
  <2>2. QED
    BY <2>1 DEF Set!Next
<1>11. ASSUME Core!Set!Throw(t) PROVE Set!Next
  <2>1. Set!Throw(t)
    BY <1>2, <1>11 DEF Core!Set!Throw, Core!Set!Idle, Set!Throw, Set!Idle, Contents, Calls
  <2>2. QED
    BY <2>1 DEF Set!Next
<1>12. QED
  BY <1>1, <1>4, <1>5, <1>6, <1>7, <1>8, <1>9, <1>10, <1>11

LEMMA SharedLocksView ==
  ASSUME kind = "shared", kind' = kind
  PROVE  /\ SharedLocks!Contents = Contents /\ SharedLocks!Contents' = Contents'
         /\ [t \in Threads |-> SharedLocks!AbstractCall(t)] = Calls
         /\ [t \in Threads |-> SharedLocks!AbstractCall(t)]' = Calls'
<1>1. SharedLocks!Contents = Contents /\ SharedLocks!Contents' = Contents'
  BY DEF Contents, SharedLocks!Contents, SharedLocks!Content, Mix!Contents, Mix!Content, SharedLocks!Masks, Mix!Masks
<1>2. \A t : SharedLocks!AbstractCall(t) = Alone!AbstractCall(t) /\ SharedLocks!AbstractCall(t)' = Alone!AbstractCall(t)'
  BY DEF SharedLocks!AbstractCall, Alone!AbstractCall, SharedLocks!Points, Alone!Points, SharedLocks!Walks, Alone!Walks
<1>3. QED
  BY <1>1, <1>2 DEF Calls

LEMMA SharedLocksSetStarts ==
  ASSUME kind = "shared", SharedLocks!Set!Init
  PROVE  Set!Init
<1>1. SharedLocks!Contents = Contents
  BY DEF Contents, SharedLocks!Contents, SharedLocks!Content, Mix!Contents, Mix!Content, SharedLocks!Masks, Mix!Masks
<1>2. \A t : SharedLocks!AbstractCall(t) = Alone!AbstractCall(t)
  BY DEF SharedLocks!AbstractCall, Alone!AbstractCall, SharedLocks!Points, Alone!Points, SharedLocks!Walks, Alone!Walks
<1>3. QED
  BY <1>1, <1>2 DEF SharedLocks!Set!Init, SharedLocks!Set!Idle, Set!Init, Set!Idle, Contents

LEMMA SharedLocksSetSteps ==
  ASSUME kind = "shared", kind' = kind, SharedLocks!Set!Next
  PROVE  Set!Next
<1>1. PICK t \in Threads :
        \/ \E op \in Set!PointOps, k \in {0, 1, 3} : SharedLocks!Set!InvokePoint(t, op, k)
        \/ \E op \in Set!WalkOps : SharedLocks!Set!InvokeWalk(t, op)
        \/ \E op \in Set!WholeOps : SharedLocks!Set!InvokeWhole(t, op)
        \/ SharedLocks!Set!Apply(t)
        \/ \E S \in SUBSET {0, 1, 3}, stop \in BOOLEAN : SharedLocks!Set!WalkOver(t, S, stop)
        \/ SharedLocks!Set!Wipe(t)
        \/ SharedLocks!Set!Return(t)
        \/ SharedLocks!Set!Throw(t)
  <2>1. \A S \in SUBSET {0, 1} : S \in SUBSET {0, 1, 3}
    OBVIOUS
  <2>2. QED
    BY <2>1 DEF SharedLocks!Set!Next, SharedLocks!Set!PointOps, SharedLocks!Set!WalkOps, SharedLocks!Set!WholeOps,
       Set!PointOps, Set!WalkOps, Set!WholeOps
<1>2. PICK c, d, x, y :
        /\ c = SharedLocks!Contents /\ d = SharedLocks!Contents' /\ c = Contents /\ d = Contents'
        /\ x = [u \in Threads |-> SharedLocks!AbstractCall(u)] /\ y = [u \in Threads |-> SharedLocks!AbstractCall(u)]'
        /\ x = Calls /\ y = Calls'
  BY SharedLocksView
<1>3. \A z, g : SharedLocks!Set!Unsteady(z, g) = Set!Unsteady(z, g)
  BY DEF SharedLocks!Set!Unsteady, Set!Unsteady, SharedLocks!Set!WalkOps, Set!WalkOps
<1>4. ASSUME NEW op \in Set!PointOps, NEW k \in {0, 1, 3}, SharedLocks!Set!InvokePoint(t, op, k) PROVE Set!Next
  <2>1. Set!InvokePoint(t, op, k)
    BY <1>2, <1>4 DEF SharedLocks!Set!InvokePoint, SharedLocks!Set!Idle, SharedLocks!Set!Point, Set!InvokePoint, Set!Idle, Set!Point,
       Contents, Calls
  <2>2. QED
    BY <2>1 DEF Set!Next
<1>5. ASSUME NEW op \in Set!WalkOps, SharedLocks!Set!InvokeWalk(t, op) PROVE Set!Next
  <2>1. Set!InvokeWalk(t, op)
    BY <1>2, <1>5 DEF SharedLocks!Set!InvokeWalk, SharedLocks!Set!Idle, SharedLocks!Set!Walk, Set!InvokeWalk, Set!Idle, Set!Walk,
       Contents, Calls
  <2>2. QED
    BY <2>1 DEF Set!Next
<1>6. ASSUME NEW op \in Set!WholeOps, SharedLocks!Set!InvokeWhole(t, op) PROVE Set!Next
  <2>1. Set!InvokeWhole(t, op)
    BY <1>2, <1>6 DEF SharedLocks!Set!InvokeWhole, SharedLocks!Set!Idle, SharedLocks!Set!Whole, Set!InvokeWhole, Set!Idle, Set!Whole,
       Contents, Calls
  <2>2. QED
    BY <2>1 DEF Set!Next
<1>7. ASSUME SharedLocks!Set!Apply(t) PROVE Set!Next
  <2>1. Applies(t, c, d, x, y)
    BY <1>2, <1>3, <1>7 DEF SharedLocks!Set!Apply, SharedLocks!Set!PointOps, Set!PointOps, Applies
  <2>2. Set!Apply(t)
    BY <1>2, <2>1 DEF Set!Apply, Applies, Contents, Calls
  <2>3. QED
    BY <2>2 DEF Set!Next
<1>8. ASSUME NEW S \in SUBSET {0, 1, 3}, NEW stop \in BOOLEAN, SharedLocks!Set!WalkOver(t, S, stop) PROVE Set!Next
  <2>1. WalksOver(t, S, stop, c, d, x, y)
    BY <1>2, <1>3, <1>8 DEF SharedLocks!Set!WalkOver, SharedLocks!Set!WalkOps, Set!WalkOps, WalksOver
  <2>2. Set!WalkOver(t, S, stop)
    BY <1>2, <2>1 DEF Set!WalkOver, WalksOver, Contents, Calls
  <2>3. QED
    BY <2>2 DEF Set!Next
<1>9. ASSUME SharedLocks!Set!Wipe(t) PROVE Set!Next
  <2>1. Set!Wipe(t)
    BY <1>2, <1>3, <1>9 DEF SharedLocks!Set!Wipe, Set!Wipe, Contents, Calls
  <2>2. QED
    BY <2>1 DEF Set!Next
<1>10. ASSUME SharedLocks!Set!Return(t) PROVE Set!Next
  <2>1. Set!Return(t)
    BY <1>2, <1>10 DEF SharedLocks!Set!Return, SharedLocks!Set!Idle, SharedLocks!Set!PointOps, SharedLocks!Set!WalkOps,
       Set!Return, Set!Idle, Set!PointOps, Set!WalkOps, Contents, Calls
  <2>2. QED
    BY <2>1 DEF Set!Next
<1>11. ASSUME SharedLocks!Set!Throw(t) PROVE Set!Next
  <2>1. Set!Throw(t)
    BY <1>2, <1>11 DEF SharedLocks!Set!Throw, SharedLocks!Set!Idle, Set!Throw, Set!Idle, Contents, Calls
  <2>2. QED
    BY <2>1 DEF Set!Next
<1>12. QED
  BY <1>1, <1>4, <1>5, <1>6, <1>7, <1>8, <1>9, <1>10, <1>11

LEMMA AloneView ==
  ASSUME kind = "alone", kind' = kind
  PROVE  /\ Alone!Contents = Contents /\ Alone!Contents' = Contents'
         /\ [t \in Threads |-> Alone!AbstractCall(t)] = Calls
         /\ [t \in Threads |-> Alone!AbstractCall(t)]' = Calls'
<1>1. Alone!Contents = Contents /\ Alone!Contents' = Contents'
  BY DEF Contents, Alone!Contents, Alone!Content, Alone!Contents, Alone!Content, Alone!Masks, Alone!Masks
<1>2. \A t : Alone!AbstractCall(t) = Alone!AbstractCall(t) /\ Alone!AbstractCall(t)' = Alone!AbstractCall(t)'
  BY DEF Alone!AbstractCall, Alone!AbstractCall, Alone!Points, Alone!Points, Alone!Walks, Alone!Walks
<1>3. QED
  BY <1>1, <1>2 DEF Calls

LEMMA AloneSetStarts ==
  ASSUME kind = "alone", Alone!Set!Init
  PROVE  Set!Init
<1>1. Alone!Contents = Contents
  BY DEF Contents, Alone!Contents, Alone!Content, Alone!Contents, Alone!Content, Alone!Masks, Alone!Masks
<1>2. \A t : Alone!AbstractCall(t) = Alone!AbstractCall(t)
  BY DEF Alone!AbstractCall, Alone!AbstractCall, Alone!Points, Alone!Points, Alone!Walks, Alone!Walks
<1>3. QED
  BY <1>1, <1>2 DEF Alone!Set!Init, Alone!Set!Idle, Set!Init, Set!Idle, Contents

LEMMA AloneSetSteps ==
  ASSUME kind = "alone", kind' = kind, Alone!Set!Next
  PROVE  Set!Next
<1>1. PICK t \in Threads :
        \/ \E op \in Set!PointOps, k \in {0, 1, 3} : Alone!Set!InvokePoint(t, op, k)
        \/ \E op \in Set!WalkOps : Alone!Set!InvokeWalk(t, op)
        \/ \E op \in Set!WholeOps : Alone!Set!InvokeWhole(t, op)
        \/ Alone!Set!Apply(t)
        \/ \E S \in SUBSET {0, 1, 3}, stop \in BOOLEAN : Alone!Set!WalkOver(t, S, stop)
        \/ Alone!Set!Wipe(t)
        \/ Alone!Set!Return(t)
        \/ Alone!Set!Throw(t)
  <2>1. \A S \in SUBSET {0, 1, 3} : S \in SUBSET {0, 1, 3}
    OBVIOUS
  <2>2. QED
    BY <2>1 DEF Alone!Set!Next, Alone!Set!PointOps, Alone!Set!WalkOps, Alone!Set!WholeOps,
       Set!PointOps, Set!WalkOps, Set!WholeOps
<1>2. PICK c, d, x, y :
        /\ c = Alone!Contents /\ d = Alone!Contents' /\ c = Contents /\ d = Contents'
        /\ x = [u \in Threads |-> Alone!AbstractCall(u)] /\ y = [u \in Threads |-> Alone!AbstractCall(u)]'
        /\ x = Calls /\ y = Calls'
  BY AloneView
<1>3. \A z, g : Alone!Set!Unsteady(z, g) = Set!Unsteady(z, g)
  BY DEF Alone!Set!Unsteady, Set!Unsteady, Alone!Set!WalkOps, Set!WalkOps
<1>4. ASSUME NEW op \in Set!PointOps, NEW k \in {0, 1, 3}, Alone!Set!InvokePoint(t, op, k) PROVE Set!Next
  <2>1. Set!InvokePoint(t, op, k)
    BY <1>2, <1>4 DEF Alone!Set!InvokePoint, Alone!Set!Idle, Alone!Set!Point, Set!InvokePoint, Set!Idle, Set!Point,
       Contents, Calls
  <2>2. QED
    BY <2>1 DEF Set!Next
<1>5. ASSUME NEW op \in Set!WalkOps, Alone!Set!InvokeWalk(t, op) PROVE Set!Next
  <2>1. Set!InvokeWalk(t, op)
    BY <1>2, <1>5 DEF Alone!Set!InvokeWalk, Alone!Set!Idle, Alone!Set!Walk, Set!InvokeWalk, Set!Idle, Set!Walk,
       Contents, Calls
  <2>2. QED
    BY <2>1 DEF Set!Next
<1>6. ASSUME NEW op \in Set!WholeOps, Alone!Set!InvokeWhole(t, op) PROVE Set!Next
  <2>1. Set!InvokeWhole(t, op)
    BY <1>2, <1>6 DEF Alone!Set!InvokeWhole, Alone!Set!Idle, Alone!Set!Whole, Set!InvokeWhole, Set!Idle, Set!Whole,
       Contents, Calls
  <2>2. QED
    BY <2>1 DEF Set!Next
<1>7. ASSUME Alone!Set!Apply(t) PROVE Set!Next
  <2>1. Applies(t, c, d, x, y)
    BY <1>2, <1>3, <1>7 DEF Alone!Set!Apply, Alone!Set!PointOps, Set!PointOps, Applies
  <2>2. Set!Apply(t)
    BY <1>2, <2>1 DEF Set!Apply, Applies, Contents, Calls
  <2>3. QED
    BY <2>2 DEF Set!Next
<1>8. ASSUME NEW S \in SUBSET {0, 1, 3}, NEW stop \in BOOLEAN, Alone!Set!WalkOver(t, S, stop) PROVE Set!Next
  <2>1. WalksOver(t, S, stop, c, d, x, y)
    BY <1>2, <1>3, <1>8 DEF Alone!Set!WalkOver, Alone!Set!WalkOps, Set!WalkOps, WalksOver
  <2>2. Set!WalkOver(t, S, stop)
    BY <1>2, <2>1 DEF Set!WalkOver, WalksOver, Contents, Calls
  <2>3. QED
    BY <2>2 DEF Set!Next
<1>9. ASSUME Alone!Set!Wipe(t) PROVE Set!Next
  <2>1. Set!Wipe(t)
    BY <1>2, <1>3, <1>9 DEF Alone!Set!Wipe, Set!Wipe, Contents, Calls
  <2>2. QED
    BY <2>1 DEF Set!Next
<1>10. ASSUME Alone!Set!Return(t) PROVE Set!Next
  <2>1. Set!Return(t)
    BY <1>2, <1>10 DEF Alone!Set!Return, Alone!Set!Idle, Alone!Set!PointOps, Alone!Set!WalkOps,
       Set!Return, Set!Idle, Set!PointOps, Set!WalkOps, Contents, Calls
  <2>2. QED
    BY <2>1 DEF Set!Next
<1>11. ASSUME Alone!Set!Throw(t) PROVE Set!Next
  <2>1. Set!Throw(t)
    BY <1>2, <1>11 DEF Alone!Set!Throw, Alone!Set!Idle, Set!Throw, Set!Idle, Contents, Calls
  <2>2. QED
    BY <2>1 DEF Set!Next
<1>12. QED
  BY <1>1, <1>4, <1>5, <1>6, <1>7, <1>8, <1>9, <1>10, <1>11

LEMMA MixView ==
  ASSUME kind = "mix", kind' = kind
  PROVE  /\ Mix!Contents = Contents /\ Mix!Contents' = Contents'
         /\ [t \in Threads |-> Mix!AbstractCall(t)] = Calls
         /\ [t \in Threads |-> Mix!AbstractCall(t)]' = Calls'
<1>1. Mix!Contents = Contents /\ Mix!Contents' = Contents'
  BY DEF Contents, Mix!Contents, Mix!Content, Mix!Contents, Mix!Content, Mix!Masks, Mix!Masks
<1>2. \A t : Mix!AbstractCall(t) = Alone!AbstractCall(t) /\ Mix!AbstractCall(t)' = Alone!AbstractCall(t)'
  BY DEF Mix!AbstractCall, Alone!AbstractCall, Mix!Points, Alone!Points, Mix!Walks, Alone!Walks
<1>3. QED
  BY <1>1, <1>2 DEF Calls

LEMMA MixSetStarts ==
  ASSUME kind = "mix", Mix!Set!Init
  PROVE  Set!Init
<1>1. Mix!Contents = Contents
  BY DEF Contents, Mix!Contents, Mix!Content, Mix!Contents, Mix!Content, Mix!Masks, Mix!Masks
<1>2. \A t : Mix!AbstractCall(t) = Alone!AbstractCall(t)
  BY DEF Mix!AbstractCall, Alone!AbstractCall, Mix!Points, Alone!Points, Mix!Walks, Alone!Walks
<1>3. QED
  BY <1>1, <1>2 DEF Mix!Set!Init, Mix!Set!Idle, Set!Init, Set!Idle, Contents

LEMMA MixSetSteps ==
  ASSUME kind = "mix", kind' = kind, Mix!Set!Next
  PROVE  Set!Next
<1>1. PICK t \in Threads :
        \/ \E op \in Set!PointOps, k \in {0, 1, 3} : Mix!Set!InvokePoint(t, op, k)
        \/ \E op \in Set!WalkOps : Mix!Set!InvokeWalk(t, op)
        \/ \E op \in Set!WholeOps : Mix!Set!InvokeWhole(t, op)
        \/ Mix!Set!Apply(t)
        \/ \E S \in SUBSET {0, 1, 3}, stop \in BOOLEAN : Mix!Set!WalkOver(t, S, stop)
        \/ Mix!Set!Wipe(t)
        \/ Mix!Set!Return(t)
        \/ Mix!Set!Throw(t)
  <2>1. \A S \in SUBSET {0, 1} : S \in SUBSET {0, 1, 3}
    OBVIOUS
  <2>2. QED
    BY <2>1 DEF Mix!Set!Next, Mix!Set!PointOps, Mix!Set!WalkOps, Mix!Set!WholeOps,
       Set!PointOps, Set!WalkOps, Set!WholeOps
<1>2. PICK c, d, x, y :
        /\ c = Mix!Contents /\ d = Mix!Contents' /\ c = Contents /\ d = Contents'
        /\ x = [u \in Threads |-> Mix!AbstractCall(u)] /\ y = [u \in Threads |-> Mix!AbstractCall(u)]'
        /\ x = Calls /\ y = Calls'
  BY MixView
<1>3. \A z, g : Mix!Set!Unsteady(z, g) = Set!Unsteady(z, g)
  BY DEF Mix!Set!Unsteady, Set!Unsteady, Mix!Set!WalkOps, Set!WalkOps
<1>4. ASSUME NEW op \in Set!PointOps, NEW k \in {0, 1, 3}, Mix!Set!InvokePoint(t, op, k) PROVE Set!Next
  <2>1. Set!InvokePoint(t, op, k)
    BY <1>2, <1>4 DEF Mix!Set!InvokePoint, Mix!Set!Idle, Mix!Set!Point, Set!InvokePoint, Set!Idle, Set!Point,
       Contents, Calls
  <2>2. QED
    BY <2>1 DEF Set!Next
<1>5. ASSUME NEW op \in Set!WalkOps, Mix!Set!InvokeWalk(t, op) PROVE Set!Next
  <2>1. Set!InvokeWalk(t, op)
    BY <1>2, <1>5 DEF Mix!Set!InvokeWalk, Mix!Set!Idle, Mix!Set!Walk, Set!InvokeWalk, Set!Idle, Set!Walk,
       Contents, Calls
  <2>2. QED
    BY <2>1 DEF Set!Next
<1>6. ASSUME NEW op \in Set!WholeOps, Mix!Set!InvokeWhole(t, op) PROVE Set!Next
  <2>1. Set!InvokeWhole(t, op)
    BY <1>2, <1>6 DEF Mix!Set!InvokeWhole, Mix!Set!Idle, Mix!Set!Whole, Set!InvokeWhole, Set!Idle, Set!Whole,
       Contents, Calls
  <2>2. QED
    BY <2>1 DEF Set!Next
<1>7. ASSUME Mix!Set!Apply(t) PROVE Set!Next
  <2>1. Applies(t, c, d, x, y)
    BY <1>2, <1>3, <1>7 DEF Mix!Set!Apply, Mix!Set!PointOps, Set!PointOps, Applies
  <2>2. Set!Apply(t)
    BY <1>2, <2>1 DEF Set!Apply, Applies, Contents, Calls
  <2>3. QED
    BY <2>2 DEF Set!Next
<1>8. ASSUME NEW S \in SUBSET {0, 1, 3}, NEW stop \in BOOLEAN, Mix!Set!WalkOver(t, S, stop) PROVE Set!Next
  <2>1. WalksOver(t, S, stop, c, d, x, y)
    BY <1>2, <1>3, <1>8 DEF Mix!Set!WalkOver, Mix!Set!WalkOps, Set!WalkOps, WalksOver
  <2>2. Set!WalkOver(t, S, stop)
    BY <1>2, <2>1 DEF Set!WalkOver, WalksOver, Contents, Calls
  <2>3. QED
    BY <2>2 DEF Set!Next
<1>9. ASSUME Mix!Set!Wipe(t) PROVE Set!Next
  <2>1. Set!Wipe(t)
    BY <1>2, <1>3, <1>9 DEF Mix!Set!Wipe, Set!Wipe, Contents, Calls
  <2>2. QED
    BY <2>1 DEF Set!Next
<1>10. ASSUME Mix!Set!Return(t) PROVE Set!Next
  <2>1. Set!Return(t)
    BY <1>2, <1>10 DEF Mix!Set!Return, Mix!Set!Idle, Mix!Set!PointOps, Mix!Set!WalkOps,
       Set!Return, Set!Idle, Set!PointOps, Set!WalkOps, Contents, Calls
  <2>2. QED
    BY <2>1 DEF Set!Next
<1>11. ASSUME Mix!Set!Throw(t) PROVE Set!Next
  <2>1. Set!Throw(t)
    BY <1>2, <1>11 DEF Mix!Set!Throw, Mix!Set!Idle, Set!Throw, Set!Idle, Contents, Calls
  <2>2. QED
    BY <2>1 DEF Set!Next
<1>12. QED
  BY <1>1, <1>4, <1>5, <1>6, <1>7, <1>8, <1>9, <1>10, <1>11

-----------------------------------------------------------------------------
LEMMA InitRefines == Init => Set!Init
<1> SUFFICES ASSUME Init PROVE Set!Init
  OBVIOUS
<1>1. CASE kind = "core"
  <2>1. Core!Init
    BY <1>1 DEF Init
  <2>2. Core!Set!Init
    BY <2>1, Core!InitRefines
  <2>3. QED
    BY <1>1, <2>2, CoreSetStarts
<1>2. CASE kind = "shared"
  <2>1. SharedLocks!Init
    BY <1>2 DEF Init
  <2>2. SharedLocks!Set!Init
    BY <2>1, SharedLocks!InitRefines
  <2>3. QED
    BY <1>2, <2>2, SharedLocksSetStarts
<1>3. CASE kind = "alone"
  <2>1. Alone!Init
    BY <1>3 DEF Init
  <2>2. Alone!Set!Init
    BY <2>1, Alone!InitRefines
  <2>3. QED
    BY <1>3, <2>2, AloneSetStarts
<1>4. CASE kind = "mix"
  <2>1. Mix!Init
    BY <1>4 DEF Init
  <2>2. Mix!Set!Init
    BY <2>1, Mix!InitRefines
  <2>3. QED
    BY <1>4, <2>2, MixSetStarts
<1>5. QED
  BY <1>1, <1>2, <1>3, <1>4, TablesAssumption DEF Init

LEMMA StepRefines == Inv /\ [Next]_allVars => [Set!Next]_(Set!vars)
<1> SUFFICES ASSUME Inv, [Next]_allVars PROVE Set!Next \/ UNCHANGED Set!vars
  OBVIOUS
<1>1. kind' = kind
  BY DEF Next, allVars
<1>2. CASE kind = "core"
  <2>1. CASE Next
    <3> SUFFICES Core!Set!Next \/ UNCHANGED Core!Set!vars
      BY <1>1, <1>2, CoreSetSteps, CoreView DEF Core!Set!vars, Set!vars, Contents, Calls
    <3>1. Core!Next
      BY <1>2, <2>1 DEF Next
    <3>2. QED
      BY <1>2, <3>1, CoreSettings, Core!StepRefines DEF Inv, Core!Next
  <2>2. CASE UNCHANGED allVars
    <3>1. UNCHANGED Core!Set!vars
      BY <2>2, Core!StutterRefines DEF allVars
    <3>2. QED
      BY <1>1, <1>2, <3>1, CoreView DEF Core!Set!vars, Set!vars, Contents, Calls
  <2>3. QED
    BY <2>1, <2>2
<1>3. CASE kind = "shared"
  <2>1. CASE Next
    <3> SUFFICES SharedLocks!Set!Next \/ UNCHANGED SharedLocks!Set!vars
      BY <1>1, <1>3, SharedLocksSetSteps, SharedLocksView DEF SharedLocks!Set!vars, Set!vars, Contents, Calls
    <3>1. SharedLocks!Next
      BY <1>3, <2>1 DEF Next
    <3>2. QED
      BY <1>3, <3>1, SharedLocksSettings, SharedLocks!StepRefines DEF Inv, SharedLocks!Next
  <2>2. CASE UNCHANGED allVars
    <3>1. UNCHANGED SharedLocks!Set!vars
      BY <2>2, SharedLocks!StutterRefines DEF allVars
    <3>2. QED
      BY <1>1, <1>3, <3>1, SharedLocksView DEF SharedLocks!Set!vars, Set!vars, Contents, Calls
  <2>3. QED
    BY <2>1, <2>2
<1>4. CASE kind = "alone"
  <2>1. CASE Next
    <3> SUFFICES Alone!Set!Next \/ UNCHANGED Alone!Set!vars
      BY <1>1, <1>4, AloneSetSteps, AloneView DEF Alone!Set!vars, Set!vars, Contents, Calls
    <3>1. PICK t \in Threads : /\ \A u \in Threads \ {t} : Alone!Idle(u)
                               /\ Alone!Call(t) \/ Alone!Continue(t) \/ Alone!RehashFails(t)
      BY <1>4, <2>1 DEF Next, OneAtATime
    <3>2. Alone!Alone(t)
      BY <3>1 DEF Alone!Alone, Alone!Idle
    <3>3. QED
      BY <1>4, <3>1, <3>2, AloneSettings, Alone!StepRefines DEF Inv
  <2>2. CASE UNCHANGED allVars
    <3>1. UNCHANGED Alone!Set!vars
      BY <2>2, Alone!StutterRefines DEF allVars
    <3>2. QED
      BY <1>1, <1>4, <3>1, AloneView DEF Alone!Set!vars, Set!vars, Contents, Calls
  <2>3. QED
    BY <2>1, <2>2
<1>5. CASE kind = "mix"
  <2>1. CASE Next
    <3> SUFFICES Mix!Set!Next \/ UNCHANGED Mix!Set!vars
      BY <1>1, <1>5, MixSetSteps, MixView DEF Mix!Set!vars, Set!vars, Contents, Calls
    <3>1. Mix!Next
      BY <1>5, <2>1 DEF Next
    <3>2. QED
      BY <1>5, <3>1, MixSettings, Mix!StepRefines DEF Inv, Mix!Next
  <2>2. CASE UNCHANGED allVars
    <3>1. UNCHANGED Mix!Set!vars
      BY <2>2, Mix!StutterRefines DEF allVars
    <3>2. QED
      BY <1>1, <1>5, <3>1, MixView DEF Mix!Set!vars, Set!vars, Contents, Calls
  <2>3. QED
    BY <2>1, <2>2
<1>6. QED
  BY <1>2, <1>3, <1>4, <1>5, TablesAssumption DEF Inv

(***************************************************************************)
(* Every instance is a concurrent set: a call on a key takes effect at one *)
(* instant, also while a rehash moves its bucket, and a walk passes every  *)
(* key that stays, none of them twice.                                     *)
(***************************************************************************)
THEOREM Refinement == SafetySpec => RefinesConcurrentSet
BY InitRefines, StepRefines, InvHolds, PTL DEF SafetySpec, RefinesConcurrentSet, Set!Spec
=============================================================================
