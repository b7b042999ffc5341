----------------------------- MODULE RingVector -----------------------------
(***************************************************************************)
(* The vector of circular buffers of seq/tiered_vector.hpp: CircularBuffer,*)
(* BucketManager, and the member functions of tiered_vector, each as a     *)
(* function of a vector.  The buckets have one size, a power of two that   *)
(* grows with the vector; all but the first and the last are full, which   *)
(* makes a position in the vector a bucket and a place in it by arithmetic.*)
(* The flat containers keep with each bucket a copy of its back value.     *)
(***************************************************************************)
EXTENDS LinearContainer

CONSTANTS
  MinBSize, MaxBSize,   \* bounds of the bucket size
  FindBSize(_),         \* the bucket size for so many values: a template parameter
  CheckBelow,           \* the bucket size is looked at in a vector of fewer values
  CheckEvery,           \* than this, and in one of a multiple of so many
  Raw                   \* a slot without a value

-----------------------------------------------------------------------------
(***************************************************************************)
(* CircularBuffer.                                                         *)
(***************************************************************************)
Ring(cap) == [cap |-> cap, begin |-> 0, size |-> 0, slot |-> [i \in 0 .. cap - 1 |-> Raw],
              back |-> Raw]

RingOf(cap, s) ==
  [Ring(cap) EXCEPT !.size = Len(s),
                    !.slot = [i \in 0 .. cap - 1 |-> IF i < Len(s) THEN s[i + 1] ELSE Raw]]

Full(b)   == b.size = b.cap
At(b, i)  == (b.begin + i) % b.cap
Get(b, i) == b.slot[At(b, i)]
FrontOf(b) == Get(b, 0)
BackOf(b)  == Get(b, b.size - 1)
Turned(b, n) == [b EXCEPT !.begin = At(b, n)]

\* StoreBucket::update
Update(b) == [b EXCEPT !.back = BackOf(b)]

(***************************************************************************)
(* The values of the slots after p, up to t, move back by one slot, and    *)
(* those of the slots before p, down to t, up by one: in two pieces if the *)
(* end of the buffer is between.                                           *)
(***************************************************************************)
Down(b, p, t) ==
  LET stop  == IF t < p THEN b.cap - 1 ELSE t
      Piece(s, lo, hi) == [i \in DOMAIN s |-> IF lo <= i /\ i < hi THEN s[i + 1] ELSE s[i]]
      first == Piece(b.slot, p, stop)
  IN [b EXCEPT !.slot = IF stop = t THEN first
                        ELSE Piece([first EXCEPT ![stop] = first[0]], 0, t)]

Up(b, p, t) ==
  LET stop  == IF t > p THEN 0 ELSE t
      Piece(s, lo, hi) == [i \in DOMAIN s |-> IF lo < i /\ i <= hi THEN s[i - 1] ELSE s[i]]
      first == Piece(b.slot, stop, p)
  IN [b EXCEPT !.slot = IF stop = t THEN first
                        ELSE Piece([first EXCEPT ![0] = first[b.cap - 1]], t, b.cap - 1)]

Put(b, i, v) == [b EXCEPT !.slot[At(b, i)] = v]

EmplaceBack(b, v)      == [Put(b, b.size, v) EXCEPT !.size = @ + 1]
EmplaceFront(b, v)     == [Put(Turned(b, -1), 0, v) EXCEPT !.size = @ + 1]
PushFrontPopBack(b, v) == Put(Turned(b, -1), 0, v)
PushBackPopFront(b, v) == Put(Turned(b, 1), b.size - 1, v)
DropBack(b)            == [Put(b, b.size - 1, Raw) EXCEPT !.size = @ - 1]
DropFront(b)           == [Turned(Put(b, 0, Raw), 1) EXCEPT !.size = @ - 1]

\* Values move on the side that has fewer of them.
Emplace(b, i, v) ==
  LET more == [b EXCEPT !.size = @ + 1]
      left == Turned(more, -1)
  IN Put(IF i > b.size \div 2 THEN Up(more, At(more, b.size), At(more, i))
         ELSE Down(left, At(left, 0), At(left, i)), i, v)

InsertPopBack(b, i, v) ==
  LET left == Turned(b, -1)
  IN Put(IF i > b.size \div 2 THEN Up(b, At(b, b.size - 1), At(b, i))
         ELSE Down(left, At(left, 0), At(left, i)), i, v)

InsertPopFront(b, i, v) ==
  LET right == Turned(b, 1)
  IN Put(IF i < b.size \div 2 THEN Down(b, At(b, 0), At(b, i - 1))
         ELSE Up(right, At(right, b.size - 1), At(right, i - 1)), i - 1, v)

\* Mutant: an erasure on the left half does not go past the end of the buffer.
EraseInOnePiece(b, i) ==
  IF i > b.size \div 2 THEN DropBack(Down(b, At(b, i), At(b, b.size - 1)))
  ELSE DropFront([b EXCEPT !.slot = [j \in DOMAIN @ |->
                   IF At(b, 0) < j /\ j <= At(b, i) THEN @[j - 1] ELSE @[j]]])

Erase(b, i) ==
  IF i > b.size \div 2 THEN DropBack(Down(b, At(b, i), At(b, b.size - 1)))
  ELSE DropFront(Up(b, At(b, i), At(b, 0)))

-----------------------------------------------------------------------------
(***************************************************************************)
(* BucketManager.                                                          *)
(***************************************************************************)
Vector(bsize) == [bsize |-> bsize, buckets |-> <<>>, size |-> 0]

BucketOf(t, pos) == (pos + t.bsize - Head(t.buckets).size) \div t.bsize
IndexOf(t, pos)  ==
  (pos - (IF pos < Head(t.buckets).size THEN 0 ELSE Head(t.buckets).size)) % t.bsize

ItemAt(t, pos) == Get(t.buckets[BucketOf(t, pos) + 1], IndexOf(t, pos))

\* for_each, iterators: bucket after bucket.
Values(t) ==
  FlattenSeq([k \in DOMAIN t.buckets |->
                [i \in 1 .. t.buckets[k].size |-> Get(t.buckets[k], i - 1)]])

UpdateAll(t) == [t EXCEPT !.buckets = [k \in DOMAIN @ |-> Update(@[k])]]

PushBack(t, v) ==
  LET room == IF t.buckets = <<>> \/ Full(Last(t.buckets))
              THEN Append(t.buckets, Ring(t.bsize)) ELSE t.buckets
  IN [t EXCEPT !.buckets = [room EXCEPT ![Len(room)] = Update(EmplaceBack(@, v))],
               !.size = @ + 1]

PushFront(t, v) ==
  LET room == IF t.buckets = <<>> \/ Full(Head(t.buckets))
              THEN <<Ring(t.bsize)>> \o t.buckets ELSE t.buckets
  IN [t EXCEPT !.buckets = [room EXCEPT ![1] = Update(EmplaceFront(@, v))],
               !.size = @ + 1]

\* Mutant: a bucket without values stays.
KeepsEmpty(buckets) == buckets

\* A bucket that lost its last value goes, unless it is the only one.
WithoutEmpty(buckets) ==
  IF Len(buckets) = 1 THEN buckets ELSE SelectSeq(buckets, LAMBDA b : b.size > 0)

PopBack(t) ==
  [t EXCEPT !.buckets = WithoutEmpty([@ EXCEPT ![Len(t.buckets)] = Update(DropBack(@))]),
            !.size = @ - 1]
PopFront(t) ==
  [t EXCEPT !.buckets = WithoutEmpty([@ EXCEPT ![1] = Update(DropFront(@))]),
            !.size = @ - 1]

(***************************************************************************)
(* insert_left: bucket k, if full, gives its front value to the one before,*)
(* which gives its own on, and so on to the first one; if that is full,    *)
(* its front value gets a bucket.                                          *)
(***************************************************************************)
InsertLeft(t, k, i, v) ==
  LET b == t.buckets
      Shifted(j) ==
        CASE j > k  -> b[j]
          [] j = k  -> Update(InsertPopFront(b[k], i, v))
          [] OTHER  -> Update(IF j = 1 /\ ~Full(b[1]) THEN EmplaceBack(b[1], FrontOf(b[2]))
                              ELSE PushBackPopFront(b[j], FrontOf(b[j + 1])))
  IN IF ~Full(b[k]) THEN [b EXCEPT ![k] = Update(Emplace(@, i, v))]
     ELSE (IF Full(b[1]) THEN <<Update(EmplaceBack(Ring(t.bsize), FrontOf(b[1])))>> ELSE <<>>)
          \o [j \in DOMAIN b |-> Shifted(j)]

\* insert_right, insert_one_bucket: the same to the right with back values.
InsertRight(t, k, i, v) ==
  LET b == t.buckets
      n == Len(b)
      Shifted(j) ==
        CASE j < k -> b[j]
          [] j = k -> Update(InsertPopBack(b[k], i, v))
          [] j = n /\ ~Full(b[n]) -> EmplaceFront(b[n], BackOf(b[n - 1]))
          [] OTHER -> Update(PushFrontPopBack(b[j], BackOf(b[j - 1])))
  IN IF ~Full(b[k]) THEN [b EXCEPT ![k] = Update(Emplace(@, i, v))]
     ELSE [j \in DOMAIN b |-> Shifted(j)]
          \o (IF ~Full(b[n]) THEN <<>>
              ELSE IF k = n THEN <<Update(EmplaceBack(Ring(t.bsize), BackOf(b[n])))>>
              ELSE <<Update(EmplaceFront(Ring(t.bsize), BackOf(b[n])))>>)

InsertMiddle(t, pos, v) ==
  Once(<<BucketOf(t, pos) + 1, IndexOf(t, pos)>>, LAMBDA p :
    [t EXCEPT
      !.size = @ + 1,
      !.buckets = CASE Len(@) = 1 \/ pos >= t.size \div 2 -> InsertRight(t, p[1], p[2], v)
                    [] p[2] = 0 -> InsertLeft(t, p[1] - 1, @[p[1] - 1].size, v)
                    [] OTHER -> InsertLeft(t, p[1], p[2], v)])

(***************************************************************************)
(* erase_left, erase_right: the hole in bucket k is filled from the buckets*)
(* on the side with fewer values.                                          *)
(***************************************************************************)
EraseLeft(t, k, i) ==
  LET b == t.buckets
  IN [j \in DOMAIN b |->
       CASE j = 1 -> Update(DropBack(b[1]))
         [] 1 < j /\ j < k -> Update(PushFrontPopBack(b[j], BackOf(b[j - 1])))
         [] j = k -> Update(EmplaceFront(Erase(b[k], i), BackOf(b[k - 1])))
         [] OTHER -> b[j]]

EraseRight(t, k, i) ==
  LET b == t.buckets
  IN [j \in DOMAIN b |->
       CASE j < k -> b[j]
         [] j = k -> Update(EmplaceBack(Erase(b[k], i), FrontOf(b[k + 1])))
         [] k < j /\ j < Len(b) -> Update(PushBackPopFront(b[j], FrontOf(b[j + 1])))
         [] OTHER -> Update(DropFront(b[j]))]

EraseMiddle(t, pos) ==
  Once(<<BucketOf(t, pos) + 1, IndexOf(t, pos)>>, LAMBDA p :
    [t EXCEPT
      !.size = @ - 1,
      !.buckets = WithoutEmpty(
        CASE p[1] \in {1, Len(@)} -> [@ EXCEPT ![p[1]] = Update(Erase(@, p[2]))]
          [] p[1] \notin {1, Len(@)} /\ pos < t.size \div 2 -> EraseLeft(t, p[1], p[2])
          [] OTHER -> EraseRight(t, p[1], p[2]))])

\* The values in buckets of another size: the move constructor.
Rebucket(bsize, s) ==
  [bsize |-> bsize, size |-> Len(s),
   buckets |-> [k \in 1 .. (Len(s) + bsize - 1) \div bsize |->
     Update(RingOf(bsize, SubSeq(s, (k - 1) * bsize + 1, Min({k * bsize, Len(s)}))))]]

-----------------------------------------------------------------------------
(***************************************************************************)
(* tiered_vector.  update_bucket_size is called before each value that is  *)
(* added or removed.                                                       *)
(***************************************************************************)
Checked(t) ==
  IF /\ MinBSize # MaxBSize
     /\ t.size < CheckBelow \/ t.size % CheckEvery = 0
     /\ FindBSize(t.size) # t.bsize
  THEN Rebucket(FindBSize(t.size), Values(t)) ELSE t

Insert(t, pos, v) ==
  Once(Checked(t), LAMBDA r :
    CASE pos = 0                 -> PushFront(r, v)
      [] pos > 0 /\ pos = t.size -> PushBack(r, v)
      [] OTHER                   -> InsertMiddle(r, pos, v))

EraseAt(t, pos) ==
  Once(Checked(t), LAMBDA r :
    CASE pos = 0                     -> PopFront(r)
      [] pos > 0 /\ pos = t.size - 1 -> PopBack(r)
      [] OTHER                       -> EraseMiddle(r, pos))

Cleared(t) == IF t.size = 0 THEN t ELSE Vector(MinBSize)

\* Assignments through iterators: the stored back values stay.
Overwrite(t, s) ==
  [t EXCEPT !.buckets = [k \in DOMAIN @ |->
     LET b      == @[k]
         before == IF k = 1 THEN 0 ELSE @[1].size + (k - 2) * t.bsize
         Nth(x) == before + 1 + ((x - b.begin) % b.cap)
     IN [b EXCEPT !.slot = [x \in DOMAIN @ |->
          IF Nth(x) - before <= b.size /\ Nth(x) <= Len(s) THEN s[Nth(x)] ELSE @[x]]]]]

Repeat(Op(_), r, n) == FoldLeft(LAMBDA s, k : Op(s), r, [k \in 1 .. n |-> k])

Sized(t, n, s) == IF FindBSize(n) # t.bsize THEN Rebucket(FindBSize(n), s) ELSE t

Resize(t, n, v) ==
  IF n = t.size THEN t
  ELSE IF n = 0 THEN Cleared(t)
  ELSE Once(Sized(t, n, SubSeq(Values(t), 1, Min({n, t.size}))), LAMBDA r :
         UpdateAll(IF n > r.size THEN FoldLeft(PushBack, r, Copies(n - r.size, v))
                   ELSE Repeat(PopBack, r, r.size - n)))

ResizeFront(t, n, v) ==
  IF n = t.size THEN t
  ELSE IF n = 0 THEN Cleared(t)
  ELSE Once(Sized(t, n, SubSeq(Values(t), Max({1, t.size - n + 1}), t.size)), LAMBDA r :
         UpdateAll(IF n > r.size THEN FoldLeft(PushFront, r, Copies(n - r.size, v))
                   ELSE Repeat(PopFront, r, r.size - n)))

(***************************************************************************)
(* Loops that assign n values through iterators, from position from to     *)
(* position to: the first one first, or, as std::move_backward, the last.  *)
(***************************************************************************)
Assigns(w, from, to, order) ==
  FoldLeft(LAMBDA s, k : [s EXCEPT ![to + k] = s[from + k]], w, order)

MovedForward(w, from, to, n)  == Assigns(w, from, to, [k \in 1 .. n |-> k])
MovedBackward(w, from, to, n) == Assigns(w, from, to, [k \in 1 .. n |-> n + 1 - k])

Written(w, pos, s) ==
  [k \in DOMAIN w |-> IF pos < k /\ k <= pos + Len(s) THEN s[k - pos] ELSE w[k]]

\* insert(first, last): room of default values v on the nearer side, moved to the place.
InsertRange(t, pos, s, v) ==
  LET n == Len(s)
      front(r) == Overwrite(r, Written(MovedForward(Values(r), n, 0, pos), pos, s))
      back(r)  == Overwrite(r, Written(MovedBackward(Values(r), pos, pos + n, t.size - pos), pos, s))
  IN IF n = 0 THEN t
     ELSE IF pos < t.size \div 2 THEN Once(ResizeFront(t, t.size + n, v), front)
     ELSE Once(Resize(t, t.size + n, v), back)

\* erase(first, last): the values of the shorter side move over those erased.
EraseRange(t, i, j) ==
  LET n == j - i
      w == Values(t)
  IN IF n = 0 THEN t
     ELSE IF i < t.size - j
     THEN ResizeFront(Overwrite(t, MovedBackward(w, 0, n, i)), t.size - n, Raw)
     ELSE Resize(Overwrite(t, MovedForward(w, j, i, t.size - j)), t.size - n, Raw)

Assign(t, s, v) ==
  LET n == Len(s)
  IN Overwrite(IF t.size # n /\ t.size > 0 /\ FindBSize(n) # t.bsize
               THEN FoldLeft(PushBack, Vector(FindBSize(n)), Copies(n, v))
               ELSE Resize(t, n, v), s)
=============================================================================
