------------------------------ MODULE DEVector ------------------------------
(***************************************************************************)
(* seq::devector of seq/devector.hpp: one block of memory with room at     *)
(* both ends of the values.  At the end of the block the values slide to   *)
(* its other end if that has more room than they take, or move to a larger *)
(* block.  Each slot is followed through its constructions, moves and      *)
(* destructions, those of an operation that throws included.               *)
(***************************************************************************)
EXTENDS LinearContainer

CONSTANTS
  MaxCapacity,  \* bound: slots of a block
  Value,        \* a value; the code does not look at values
  Raw,          \* a slot without an object
  Moved,        \* an object that was moved from
  Lost          \* constructed over an object, or destroyed or assigned while raw

DEVectorAssumption ==
  /\ MaxCapacity \in Nat
  /\ Value # Moved /\ Raw # Lost
  /\ \A o \in {Raw, Lost} : o \notin {Value, Moved} \cup Int

VARIABLE d      \* cap: slots of the block; start, end; mem: the slots

Block(cap) == [i \in 0 .. cap - 1 |-> Raw]
Vector(cap, start, end, mem) == [cap |-> cap, start |-> start, end |-> end, mem |-> mem]
Empty == Vector(0, 0, 0, Block(0))
Init == d = Empty

Size(r)     == r.end - r.start
Contents(r) == [i \in 1 .. Size(r) |-> r.mem[r.start + i - 1]]

-----------------------------------------------------------------------------
(***************************************************************************)
(* Objects.                                                                *)
(***************************************************************************)
Construct(mem, i, v) == [mem EXCEPT ![i] = IF @ = Raw THEN v ELSE Lost]
Destroy(mem, i)      == [mem EXCEPT ![i] = IF @ = Raw THEN Lost ELSE Raw]
Assign(mem, i, v)    == [mem EXCEPT ![i] = IF @ = Raw THEN Lost ELSE v]

Each(Op(_, _), mem, from, to) == FoldLeft(Op, mem, [k \in 1 .. to - from |-> from + k - 1])
DestroyRange(mem, from, to)   == Each(Destroy, mem, from, to)

ConstructRange(mem, from, s) ==
  Each(LAMBDA m, i : Construct(m, i, s[i - from + 1]), mem, from, from + Len(s))

AssignRange(mem, from, s) ==
  Each(LAMBDA m, i : Assign(m, i, s[i - from + 1]), mem, from, from + Len(s))

\* copy_destroy_input inside a block: each value to its new slot, in turn.
CopyDestroy(mem, first, last, dst) ==
  Each(LAMBDA m, i : Destroy(Construct(m, dst + i - first, m[i]), i), mem, first, last)

\* copy_destroy_input to a new block, which replaces the old one.
NewBlock(r, cap, start) ==
  Vector(cap, start, start + Size(r), ConstructRange(Block(cap), start, Contents(r)))

\* A value moves to slot j: constructed there, or assigned if that has a value.
MoveTo(mem, i, j, raw) ==
  [IF raw THEN Construct(mem, j, mem[i]) ELSE Assign(mem, j, mem[i]) EXCEPT ![i] = Moved]

\* Mutant: the first slot that still has an object is constructed over.
ConstructsOver(mem, first, dst, n) ==
  Each(LAMBDA m, i : MoveTo(m, i, dst + i - first, dst + i - first <= first),
       mem, first, first + n)

\* move_destroy_input to overlapping slots: the first n moves.
MoveLeft(mem, first, dst, n) ==
  Each(LAMBDA m, i : MoveTo(m, i, dst + i - first, dst + i - first < first),
       mem, first, first + n)
MoveRight(mem, last, dstEnd, n) ==
  Each(LAMBDA m, k : MoveTo(m, last - k, dstEnd - k, dstEnd - k >= last), mem, 1, n + 1)

\* std::move and std::move_backward: values move over values, and what was moved from stays.
MoveForward(mem, first, last, dst) ==
  Each(LAMBDA m, i : MoveTo(m, i, dst + i - first, FALSE), mem, first, last)

\* Mutant: the first value moves first, over the second.
MoveOnward(mem, first, last, dstEnd) == MoveForward(mem, first, last, dstEnd - (last - first))

MoveBackward(mem, first, last, dstEnd) ==
  Each(LAMBDA m, k : MoveTo(m, last - k, dstEnd - k, FALSE), mem, 1, last - first + 1)

\* std::rotate and std::reverse of the values from first to last.
Slots(mem, first, last) == [k \in 1 .. last - first |-> mem[first + k - 1]]
Rotate(mem, first, middle, last) ==
  AssignRange(mem, first, Slots(mem, middle, last) \o Slots(mem, first, middle))
Reversed(mem, first, last) == AssignRange(mem, first, Reverse(Slots(mem, first, last)))

\* memmove, and as a move of the objects themselves, which leaves raw slots.
Memmove(mem, first, last, dst) ==
  [k \in DOMAIN mem |->
     IF dst <= k /\ k < dst + last - first THEN mem[k - dst + first] ELSE mem[k]]
Relocate(mem, first, last, dst) ==
  [k \in DOMAIN mem |->
     IF first <= k /\ k < last /\ ~(dst <= k /\ k < dst + last - first) THEN Raw
     ELSE Memmove(mem, first, last, dst)[k]]

MoveDestroy(mem, first, last, dst) ==
  LET n == last - first
  IN IF dst + n < first \/ dst >= last THEN CopyDestroy(mem, first, last, dst)
     ELSE IF dst = first \/ n = 0 THEN mem
     ELSE IF dst < first THEN DestroyRange(MoveLeft(mem, first, dst, n), dst + n, last)
     ELSE DestroyRange(MoveRight(mem, last, dst + n, n), first, dst)

(***************************************************************************)
(* Move n + 1 throws, and what was constructed is destroyed.  To the left  *)
(* the code also destroys the values it assigned.                          *)
(***************************************************************************)
MoveThrows(mem, first, last, dst, n) ==
  LET end == dst + last - first
  IN IF dst < first
     THEN DestroyRange(MoveLeft(mem, first, dst, n), dst, dst + n)
     ELSE LET low == Max({end - n, last})
          IN DestroyRange(MoveRight(mem, last, end, n), low, Max({low, end}))

-----------------------------------------------------------------------------
(***************************************************************************)
(* The operations of DEVectorData, and of devector.                        *)
(***************************************************************************)
\* SEQ_GROW_FACTOR is 1.6.
GrowCapacity(r) ==
  LET c == (r.cap * 16) \div 10 IN Max({IF c = r.cap THEN c + 1 ELSE c, 2})

Slide(r, start) ==
  Vector(r.cap, start, start + Size(r), CopyDestroy(r.mem, r.start, r.end, start))

\* Mutant: any room would do.
SlidesIntoAnyRoom(r) == r.cap - Size(r) > 0

\* More room in front, or at the back, than the values take.
SlidesToFront(r) == r.start > Size(r)
SlidesToBack(r)  == r.cap - Size(r) > Size(r)

GrownBack(r) ==
  IF SlidesToFront(r) THEN Slide(r, 0)
  ELSE LET cap == GrowCapacity(r)
       IN NewBlock(r, cap, IF r.start + Size(r) = cap THEN r.start - 1 ELSE r.start)

GrownFront(r) ==
  IF SlidesToBack(r) THEN Slide(r, r.cap - Size(r))
  ELSE LET cap == GrowCapacity(r)
       IN NewBlock(r, cap, Max({cap - (r.cap - r.start), 1}))

EmplaceBack(r, v) ==
  LET s == IF r.end = r.cap THEN GrownBack(r) ELSE r
  IN Vector(s.cap, s.start, s.end + 1, Construct(s.mem, s.end, v))

EmplaceFront(r, v) ==
  LET s == IF r.start = 0 THEN GrownFront(r) ELSE r
  IN Vector(s.cap, s.start - 1, s.end, Construct(s.mem, s.start - 1, v))

PopBack(r)  == Vector(r.cap, r.start, r.end - 1, Destroy(r.mem, r.end - 1))
PopFront(r) == Vector(r.cap, r.start + 1, r.end, Destroy(r.mem, r.start))

WithSlots(r, mem) == Vector(r.cap, r.start, r.end, mem)
Overwrite(r, s)   == WithSlots(r, AssignRange(r.mem, r.start, s))

\* The first, or the last, n values are destroyed: by resize() as a range, by erase() in pops.
TrimFront(r, n) ==
  Vector(r.cap, r.start + n, r.end, DestroyRange(r.mem, r.start, r.start + n))
TrimBack(r, n) ==
  Vector(r.cap, r.start, r.end - n, DestroyRange(r.mem, r.end - n, r.end))

PushFrontAll(r, s) == FoldLeft(EmplaceFront, r, s)
PushBackAll(r, s)  == FoldLeft(EmplaceBack, r, s)

(***************************************************************************)
(* emplace().  On the left half a default constructed value is put in      *)
(* front, and those before the place move over it; on the right half the   *)
(* value is put behind and rotated to its place.                           *)
(***************************************************************************)
Insert(r, i, v) ==
  IF i < Size(r) \div 2
  THEN LET u == EmplaceFront(r, Value)
           m == MoveForward(u.mem, u.start + 1, u.start + 1 + i, u.start)
       IN WithSlots(u, Assign(m, u.start + i, v))
  ELSE LET u == EmplaceBack(r, v)
       IN WithSlots(u, Rotate(u.mem, u.start + i, u.end - 1, u.end))

(***************************************************************************)
(* On the left half, values that relocate move as bytes.  The value at the *)
(* place is then there twice, and the assignment frees what it owns: right *)
(* for values that own nothing, the only ones that are moved so here.      *)
(***************************************************************************)
InsertBytes(r, i, v) ==
  IF i < Size(r) \div 2
  THEN LET u == EmplaceFront(r, Value)
           m == Memmove(u.mem, u.start + 1, u.start + 1 + i, u.start)
       IN WithSlots(u, Assign(m, u.start + i, v))
  ELSE Insert(r, i, v)

MoveValues(r, start) ==
  Vector(r.cap, start, start + Size(r), MoveDestroy(r.mem, r.start, r.end, start))

\* Mutant: the block is taken to be large enough.
ReserveNoBlock(r, n) ==
  IF r.cap - r.end >= n THEN r ELSE MoveValues(r, Max({r.cap - n - Size(r), 0}))

ReserveBack(r, n) ==
  IF r.cap - r.end >= n THEN r
  ELSE IF n + Size(r) <= r.cap THEN MoveValues(r, r.cap - n - Size(r))
  ELSE NewBlock(r, n + Size(r), 0)

ReserveFront(r, n) ==
  IF r.start >= n THEN r
  ELSE IF n + Size(r) <= r.cap THEN MoveValues(r, n)
  ELSE NewBlock(r, n + Size(r), n)

Reserve(r, n) == IF n <= r.cap THEN r ELSE NewBlock(r, n, r.start)

\* insert(first, last): pushed at the nearer end, reversed in front, rotated.
InsertRange(r, i, s) ==
  IF s = <<>> THEN r
  ELSE IF i <= Size(r) \div 2
  THEN LET u   == PushFrontAll(ReserveFront(r, Len(s)), s)
           num == u.start + Size(u) - Size(r)
       IN WithSlots(u, Rotate(Reversed(u.mem, u.start, num), u.start, num, num + i))
  ELSE LET u == PushBackAll(ReserveBack(r, Len(s)), s)
       IN WithSlots(u, Rotate(u.mem, u.start + i, u.start + Size(r), u.end))

\* erase(): the values of the shorter side move over the hole, and those they leave are popped.
EraseRange(r, i, j) ==
  LET first == r.start + i
      last  == r.start + j
  IN IF i = j THEN r
     ELSE IF i < Size(r) - j
     THEN TrimFront(WithSlots(r, MoveBackward(r.mem, r.start, first, last)), j - i)
     ELSE TrimBack(WithSlots(r, MoveForward(r.mem, last, r.end, first)), j - i)

\* Of values that relocate, the erased ones are destroyed first.
EraseBytes(r, i, j) ==
  LET first == r.start + i
      last  == r.start + j
      n     == j - i
      gone  == DestroyRange(r.mem, first, last)
  IN IF n = 0 THEN r
     ELSE IF i < Size(r) - j
     THEN Vector(r.cap, r.start + n, r.end, Relocate(gone, r.start, first, r.start + n))
     ELSE Vector(r.cap, r.start, r.end - n, Relocate(gone, last, r.end, first))

Resize(r, n, v) ==
  LET more == n - Size(r) IN
  IF more <= 0 THEN TrimBack(r, -more)
  ELSE LET s == IF r.cap - r.end >= more THEN r ELSE NewBlock(r, n, 0)
       IN Vector(s.cap, s.start, s.end + more,
                 ConstructRange(s.mem, s.end, Copies(more, v)))

ResizeFront(r, n, v) ==
  LET more == n - Size(r) IN
  IF more <= 0 THEN TrimFront(r, -more)
  ELSE LET s == IF r.start >= more THEN r ELSE NewBlock(r, n, more)
       IN Vector(s.cap, s.start - more, s.end,
                 ConstructRange(s.mem, s.start - more, Copies(more, v)))

AssignAll(r, s) == Overwrite(Resize(r, Len(s), Value), s)
ShrinkToFit(r)  == IF Size(r) = r.cap THEN r ELSE NewBlock(r, Size(r), 0)
Clear(r)        == Vector(r.cap, 0, 0, DestroyRange(r.mem, r.start, r.end))

-----------------------------------------------------------------------------
Becomes(r) == r.cap <= MaxCapacity /\ d' = r
Sizes      == 0 .. MaxCapacity

CallEmplace    == \E i \in 0 .. Size(d) :
                    Becomes(Insert(d, i, Value)) \/ Becomes(InsertBytes(d, i, Value))
CallInsert(n)  == \E i \in 0 .. Size(d) : Becomes(InsertRange(d, i, Copies(n, Value)))
CallErase      == \E i \in 0 .. Size(d) : \E j \in i + 1 .. Size(d) :
                    Becomes(EraseRange(d, i, j)) \/ Becomes(EraseBytes(d, i, j))
CallPop        == Size(d) > 0 /\ (Becomes(PopBack(d)) \/ Becomes(PopFront(d)))
CallPush       == Becomes(EmplaceBack(d, Value)) \/ Becomes(EmplaceFront(d, Value))
CallReserve(n) == \/ Becomes(Reserve(d, n))
                  \/ Becomes(ReserveBack(d, n)) \/ Becomes(ReserveFront(d, n))
CallResize(n)  == Becomes(Resize(d, n, Value)) \/ Becomes(ResizeFront(d, n, Value))
CallAssign(n)  == Becomes(AssignAll(d, Copies(n, Value)))
CallTrim       == Becomes(ShrinkToFit(d)) \/ Becomes(Clear(d))

\* The values have slid when the construction of the new one throws.
PushThrows ==
  \/ d.end = d.cap /\ SlidesToFront(d) /\ Becomes(GrownBack(d))
  \/ d.start = 0 /\ SlidesToBack(d) /\ Becomes(GrownFront(d))

(***************************************************************************)
(* A move of reserve_back() or reserve_front() throws, after n others.  To *)
(* the left, only while values are constructed: see MoveThrows.            *)
(***************************************************************************)
Overlaps(dst) == dst + Size(d) >= d.start /\ dst < d.end /\ dst # d.start

ReserveThrows(n) ==
  \E room \in 1 .. d.cap - Size(d) : \E dst \in {room, d.cap - room - Size(d)} :
    /\ IF dst = room THEN d.start < room ELSE d.cap - d.end < room
    /\ Overlaps(dst) /\ n < Size(d)
    /\ dst < d.start => dst + n <= d.start
    /\ Becomes(Vector(d.cap, d.start, d.end, MoveThrows(d.mem, d.start, d.end, dst, n)))

(***************************************************************************)
(* A move of emplace() or erase() throws, after n others.  What was moved  *)
(* from stays, and nothing is popped.                                      *)
(***************************************************************************)
EmplaceThrows(n) ==
  /\ n + 1 < Size(d) \div 2
  /\ LET u == EmplaceFront(d, Value)
     IN Becomes(WithSlots(u, MoveForward(u.mem, u.start + 1, u.start + 1 + n, u.start)))

EraseStops(n, i, j) ==
  LET first == d.start + i
      last  == d.start + j
  IN \/ /\ i < Size(d) - j /\ n < i
        /\ Becomes(WithSlots(d, MoveBackward(d.mem, first - n, first, last)))
     \/ /\ i >= Size(d) - j /\ n < Size(d) - j
        /\ Becomes(WithSlots(d, MoveForward(d.mem, last, last + n, first)))
EraseThrows(n) == \E i \in 0 .. Size(d) : \E j \in i + 1 .. Size(d) : EraseStops(n, i, j)

Next ==
  \/ CallPush \/ CallPop \/ CallEmplace \/ CallErase \/ CallTrim
  \/ \E n \in Sizes :
       CallInsert(n) \/ CallReserve(n) \/ CallResize(n) \/ CallAssign(n) \/ ReserveThrows(n)
       \/ EmplaceThrows(n) \/ EraseThrows(n)
  \/ PushThrows

vars == <<d>>
Spec == Init /\ [][Next]_vars

-----------------------------------------------------------------------------
\* Properties.

(***************************************************************************)
(* There is an object in the slots from start to end and in no other, and  *)
(* none was constructed over, destroyed twice or assigned before it was    *)
(* there, whatever threw: the destructor, which destroys start to end,     *)
(* destroys each object once.                                              *)
(***************************************************************************)
SlotsExact ==
  /\ 0 <= d.start /\ d.start <= d.end /\ d.end <= d.cap
  /\ \A i \in 0 .. d.cap - 1 :
       IF d.start <= i /\ i < d.end THEN d.mem[i] \in {Value, Moved} ELSE d.mem[i] = Raw

Numbers(n)   == [i \in 1 .. n |-> i]
Negatives(n) == [i \in 1 .. n |-> -i]

\* What the calls make of the values s of r, for a new value v.
KeepsEach(r, s, v, n) ==
  /\ Contents(EmplaceBack(r, v)) = Splice(s, n, <<v>>)
  /\ Contents(EmplaceFront(r, v)) = Splice(s, 0, <<v>>)
  /\ n > 0 => Contents(PopBack(r)) = Cut(s, n - 1, n) /\ Contents(PopFront(r)) = Cut(s, 0, 1)
  /\ \A i \in 0 .. n : \A j \in i + 1 .. n :
       \A u \in {EraseRange(r, i, j), EraseBytes(r, i, j)} : Contents(u) = Cut(s, i, j)
  /\ \A i \in 0 .. n :
       \A u \in {Insert(r, i, v), InsertBytes(r, i, v)} : Contents(u) = Splice(s, i, <<v>>)

\* Those that take a number m, or m values t.
KeepsMany(r, s, v, n, m, t) ==
  /\ Contents(Resize(r, m, v)) = ResizedTo(s, m, v)
  /\ Contents(ResizeFront(r, m, v)) = ResizedFrontTo(s, m, v)
  /\ Contents(AssignAll(r, t)) = t
  /\ \A i \in 0 .. n : Contents(InsertRange(r, i, t)) = Splice(s, i, t)
  /\ \A u \in {Reserve(r, m), ReserveBack(r, m), ReserveFront(r, m)} : Contents(u) = s
  /\ ReserveBack(r, m).cap - ReserveBack(r, m).end >= m
  /\ ReserveFront(r, m).start >= m

(***************************************************************************)
(* Every call makes of the values what it promises: here in each state for *)
(* distinct values in its slots.  They move as objects, and as bytes where *)
(* they own nothing.                                                       *)
(***************************************************************************)
KeepsValues ==
  LET n == Size(d)
      s == Numbers(n)
      r == Overwrite(d, s)
  IN KeepsEach(r, s, 0, n) /\ \A m \in Sizes : KeepsMany(r, s, 0, n, m, Negatives(m))

(***************************************************************************)
(* "The complexity is amortized O(1)" (devector.hpp:799): a push that      *)
(* moves all the values leaves room, with its own slot, for half as many   *)
(* more.                                                                   *)
(***************************************************************************)
PushesAmortized ==
  /\ d.end = d.cap => LET r == GrownBack(d) IN 2 * (r.cap - r.end) + 1 >= Size(d)
  /\ d.start = 0   => LET r == GrownFront(d) IN 2 * r.start + 1 >= Size(d)
=============================================================================
