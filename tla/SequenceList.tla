---------------------------- MODULE SequenceList ----------------------------
(***************************************************************************)
(* seq::sequence of seq/sequence.hpp: a list of chunks of Count slots with *)
(* a mask of the slots in use.  Values are added at either end, or in any  *)
(* free slot, which the list of chunks with free slots finds; they are     *)
(* removed anywhere.  Chunks carry ordered numbers, by which iterators are *)
(* compared.                                                               *)
(*                                                                         *)
(* The container is one value q, and the operations are functions of it.   *)
(* The list of partially free chunks is the one read along next_free.      *)
(***************************************************************************)
EXTENDS LinearContainer

CONSTANTS
  Count,        \* slots of a chunk: 64 down to 4 in the code, by sizeof(T)
  MaxChunks,    \* bound: chunks that can be allocated
  MaxIndex,     \* bound: node_index of a chunk
  Value,        \* a value; the code looks at values only to sort them
  Hole          \* an unused slot

SequenceAssumption ==
  Count \in Nat \ {0, 1} /\ MaxChunks \in Nat /\ Value \in Int

VARIABLE q      \* list, free: addresses in order; node: the chunks; size

Slots     == 0 .. Count - 1
Addresses == 1 .. MaxChunks

NoChunk == [slots |-> [i \in Slots |-> Hole], start |-> 0, end |-> 0, index |-> 0]
Empty   == [list |-> <<>>, free |-> <<>>, node |-> [a \in Addresses |-> NoChunk], size |-> 0]

Init == q = Empty

Used(c) == {i \in Slots : c.slots[i] # Hole}
Full(c) == Used(c) = Slots

\* The places <<chunk of the list, slot>> of the values, in order.
Places(r) ==
  FlattenSeq([k \in DOMAIN r.list |->
    SelectSeq([i \in 1 .. Count |-> <<k, i - 1>>],
              LAMBDA place : place[2] \in Used(r.node[r.list[k]]))])

ValueAt(r, place) == r.node[r.list[place[1]]].slots[place[2]]
Contents(r) == LET places == Places(r) IN [p \in DOMAIN places |-> ValueAt(r, places[p])]

-----------------------------------------------------------------------------
\* Mutant: a chunk is numbered past the last one wherever it goes.
IndexPastLast(r, back) ==
  IF r.list = <<>> THEN 0 ELSE r.node[Last(r.list)].index + 1

(***************************************************************************)
(* make_chunk: the first chunk of the free list, numbered past its         *)
(* neighbour.  One made at the front is filled from its end.               *)
(***************************************************************************)
NextIndex(r, back) ==
  IF r.list = <<>> THEN 0
  ELSE IF back THEN r.node[Last(r.list)].index + 1
  ELSE r.node[Head(r.list)].index - 1

NewChunk(r, back) ==
  LET a    == Min(Addresses \ ToSet(r.list))
      edge == IF back THEN 0 ELSE Count
  IN [r EXCEPT
       !.list = IF back THEN Append(@, a) ELSE <<a>> \o @,
       !.free = <<a>> \o @,
       !.node[a] = [NoChunk EXCEPT !.start = edge, !.end = edge,
                                   !.index = NextIndex(r, back)]]

\* A value is constructed in a free slot.
Put(r, a, i, v) ==
  LET c    == r.node[a]
      with == [c EXCEPT !.slots[i] = v,
                        !.end   = IF i = c.end THEN i + 1 ELSE @,
                        !.start = IF i # c.end /\ i < @ THEN i ELSE @]
  IN [r EXCEPT !.node[a] = with, !.size = @ + 1,
               !.free = IF Full(with) THEN Remove(@, a) ELSE @]

EmplaceBack(r, v) ==
  IF r.list = <<>> \/ r.node[Last(r.list)].slots[Count - 1] # Hole
  THEN LET s == NewChunk(r, TRUE) IN Put(s, Last(s.list), 0, v)
  ELSE Put(r, Last(r.list), r.node[Last(r.list)].end, v)

EmplaceFront(r, v) ==
  IF r.list = <<>> \/ r.node[Head(r.list)].slots[0] # Hole
  THEN LET s == NewChunk(r, FALSE) IN Put(s, Head(s.list), Count - 1, v)
  ELSE Put(r, Head(r.list), r.node[Head(r.list)].start - 1, v)

\* In the first chunk of the free list: before its values, after them, between.
Emplace(r, v) ==
  IF r.free = <<>> THEN EmplaceBack(r, v)
  ELSE LET a == Head(r.free)
           c == r.node[a]
           i == IF c.start # 0 THEN c.start - 1
                ELSE IF c.end # Count THEN c.end
                ELSE Min(Slots \ Used(c))
       IN Put(r, a, i, v)

\* Mutant: it is not offered for insertions.
NotOffered(r, a) == r.free

\* add_free_node: a chunk about to lose a value, if it was full.
Offered(r, a) == IF Full(r.node[a]) THEN <<a>> \o r.free ELSE r.free

\* A value is destroyed, and its chunk with it if it was the last one there.
Drop(r, a, i) ==
  LET c    == r.node[a]
      rest == Used(c) \ {i}
  IN IF rest = {}
     THEN [r EXCEPT !.list = Remove(@, a), !.free = Remove(@, a),
                    !.node[a] = NoChunk, !.size = @ - 1]
     ELSE [r EXCEPT
            !.free = Offered(r, a),
            !.size = @ - 1,
            !.node[a] = [c EXCEPT !.slots[i] = Hole,
                                  !.start = IF i = @ THEN Min(rest) ELSE @,
                                  !.end = IF i = @ - 1 THEN Max(rest) + 1 ELSE @]]

\* Mutant: the first slot of the first chunk, not that of its first value.
PopFirstSlot(r) == Drop(r, Head(r.list), 0)

PopBack(r)  == Drop(r, Last(r.list), r.node[Last(r.list)].end - 1)
PopFront(r) == Drop(r, Head(r.list), r.node[Head(r.list)].start)

\* The values i + 1 .. j, one after the other.
EraseRange(r, i, j) ==
  IF i = 0 /\ j = r.size THEN Empty
  ELSE FoldLeft(LAMBDA s, n : LET place == Places(s)[i + 1]
                              IN Drop(s, s.list[place[1]], place[2]),
                r, [n \in 1 .. j - i |-> n])

Repeat(Op(_), r, n) == FoldLeft(LAMBDA s, k : Op(s), r, [k \in 1 .. n |-> k])

(***************************************************************************)
(* The loops of resize(), resize_front() and assignments that remove n     *)
(* values at one end.  One of them counts down to -1 when it ends inside   *)
(* the chunk it began with, and the last one, which runs until 0, then     *)
(* removes everything.                                                     *)
(***************************************************************************)
Overruns(r, n, back) ==
  0 < n /\ n < Cardinality(Used(r.node[IF back THEN Last(r.list) ELSE Head(r.list)]))

RemoveBack(r, n)  == IF Overruns(r, n, TRUE) THEN Empty ELSE Repeat(PopBack, r, n)
RemoveFront(r, n) == IF Overruns(r, n, FALSE) THEN Empty ELSE Repeat(PopFront, r, n)

Resize(r, n, v) ==
  IF n = 0 THEN Empty
  ELSE IF n > r.size THEN FoldLeft(EmplaceBack, r, Copies(n - r.size, v))
  ELSE RemoveBack(r, r.size - n)

ResizeFront(r, n, v) ==
  IF n = 0 THEN Empty
  ELSE IF n > r.size THEN FoldLeft(EmplaceFront, r, Copies(n - r.size, v))
  ELSE RemoveFront(r, r.size - n)

(***************************************************************************)
(* The construction of value j + 1 of the n that resize() adds throws: the *)
(* last chunk keeps those it got, a new chunk goes with all of its values. *)
(***************************************************************************)
Kept(r, j) ==
  LET room == IF r.list = <<>> THEN 0 ELSE Count - r.node[Last(r.list)].end
  IN IF j <= room THEN j ELSE room + ((j - room) \div Count) * Count

Overwrite(r, s) ==
  LET places == Places(r)
  IN [r EXCEPT !.node = [a \in Addresses |->
       [@[a] EXCEPT !.slots = [i \in Slots |->
         LET at == {p \in 1 .. Len(s) :
                      p <= Len(places) /\ r.list[places[p][1]] = a /\ places[p][2] = i}
         IN IF at = {} THEN @[i] ELSE s[Min(at)]]]]]

\* import() and assign(): the values are assigned, then appended or removed.
Assign(r, s) ==
  LET begun == Overwrite(r, s)
      left  == SubSeq(s, r.size + 1, Len(s))
  IN IF s = <<>> THEN Empty
     ELSE IF Len(s) >= r.size THEN FoldLeft(EmplaceBack, begun, left)
     ELSE RemoveBack(begun, r.size - Len(s))

(***************************************************************************)
(* shrink_to_fit: the values move to the left, the chunks are numbered     *)
(* again, and the last one alone is partially free.  It keeps its links of *)
(* the free list unless it was the first chunk with a hole, so that a walk *)
(* along next_free goes on from it to chunks that are full or gone.        *)
(***************************************************************************)
Stale(r, last) ==
  LET dirty == {k \in DOMAIN r.list : ~Full(r.node[r.list[k]])}
  IN IF ~Contains(r.free, last) \/ r.list[Min(dirty)] = last THEN <<>>
     ELSE SubSeq(r.free, SelectInSeq(r.free, LAMBDA a : a = last) + 1, Len(r.free))

Shrunk(r) ==
  LET s    == Contents(r)
      keep == SubSeq(r.list, 1, (Len(s) + Count - 1) \div Count)
      Fill(k) == [i \in Slots |-> IF (k - 1) * Count + i < Len(s)
                                  THEN s[(k - 1) * Count + i + 1] ELSE Hole]
      Chunk(k) == [slots |-> Fill(k), start |-> 0, index |-> k - 1,
                   end |-> Cardinality({i \in Slots : Fill(k)[i] # Hole})]
      last == Last(keep)
  IN IF s = <<>> THEN r
     ELSE [r EXCEPT
            !.list = keep,
            !.node = [a \in Addresses |->
                       IF Contains(keep, a) THEN Chunk(SelectInSeq(keep, LAMBDA b : b = a))
                       ELSE NoChunk],
            !.free = IF Len(s) % Count = 0 THEN <<>>
                     ELSE <<last>> \o Stale(r, last)]

\* The last chunk would keep links that lead somewhere.
LeavesLinks(r) ==
  LET n == (r.size + Count - 1) \div Count
  IN r.size % Count # 0 /\
     LET last == r.list[n] IN
       Contains(r.free, last) /\ \E k \in 1 .. n - 1 : Contains(r.free, r.list[k])

Sorted(r) == LET s == Shrunk(r) IN Overwrite(s, SortSeq(Contents(s), <))

-----------------------------------------------------------------------------
(***************************************************************************)
(* Iterators: <<k, i>> is slot i of chunk k of the list, and chunk         *)
(* Len(list) + 1 the end node, full, numbered 0, with start and end 0.     *)
(***************************************************************************)
EndChunk == [slots |-> [i \in Slots |-> Value], start |-> 0, end |-> 0, index |-> 0]
ChunkAt(k) == IF k > Len(q.list) THEN EndChunk ELSE q.node[q.list[k]]
Begin(k)   == <<k, ChunkAt(k).start>>

Succ(it) ==
  LET k == it[1]
      i == it[2] + 1
  IN IF i < Count /\ i \in Used(ChunkAt(k)) THEN <<k, i>>
     ELSE IF i = ChunkAt(k).end THEN Begin(k + 1)
     ELSE <<k, Min({j \in Used(ChunkAt(k)) : j >= i})>>

Pred(it) ==
  LET k == it[1]
      i == it[2] - 1
  IN IF i \in Used(ChunkAt(k)) THEN <<k, i>>
     ELSE IF i < ChunkAt(k).start THEN <<k - 1, ChunkAt(k - 1).end - 1>>
     ELSE <<k, Max({j \in Used(ChunkAt(k)) : j < i})>>

SizeOf(k) == Cardinality(Used(ChunkAt(k)))

\* Mutant: each chunk that is passed would be full.
SkipFull(k, d) ==
  LET skip[j \in 1 .. Len(q.list) + 1, m \in 0 .. q.size] ==
        IF m > Count THEN skip[j + 1, m - Count] ELSE <<j, m>>
  IN skip[k, d]

\* Whole chunks are passed while more than Count values are to go.
SkipOver(k, d) ==
  LET skip[j \in 1 .. Len(q.list) + 1, m \in 0 .. q.size] ==
        IF m > Count THEN skip[j + 1, m - SizeOf(j)] ELSE <<j, m>>
  IN skip[k, d]

SkipBack(k, d) ==
  LET skip[j \in 1 .. Len(q.list), m \in 0 .. q.size] ==
        IF m > Count THEN skip[j - 1, m - SizeOf(j)] ELSE <<j, m>>
  IN skip[k, d]

\* operator+= and operator-=
Advance(it, d) ==
  LET right == Cardinality({j \in Used(ChunkAt(it[1])) : j > it[2]})
      left  == Cardinality({j \in Used(ChunkAt(it[1])) : j < it[2]})
  IN IF d >= 0
     THEN IF d <= right THEN Repeat(Succ, it, d)
          ELSE LET at == SkipOver(it[1] + 1, d - right - 1)
               IN Repeat(Succ, Begin(at[1]), at[2])
     ELSE IF -d <= left THEN Repeat(Pred, it, -d)
          ELSE LET at == SkipBack(it[1] - 1, -d - left - 1)
               IN Repeat(Pred, <<at[1], ChunkAt(at[1]).end - 1>>, at[2])

\* iterator_at(): from the nearer end.
IteratorAt(n) ==
  IF n < q.size \div 2 THEN Advance(Begin(1), n)
  ELSE Advance(Begin(Len(q.list) + 1), n - q.size)

After(x, y) ==
  LET a == ChunkAt(x[1]).index
      b == ChunkAt(y[1]).index
  IN a > b \/ (a = b /\ x[2] > y[2])

(***************************************************************************)
(* operator-, from the lower to the higher of the two; after the end node  *)
(* the list begins again.                                                  *)
(***************************************************************************)
Distance(x, y) ==
  LET from  == IF After(x, y) THEN y ELSE x
      to    == IF After(x, y) THEN x ELSE y
      rest  == Cardinality({j \in Used(ChunkAt(from[1])) : j > from[2]}) + 1
      between == {k \in DOMAIN q.list :
                    IF from[1] > Len(q.list) THEN k < to[1]
                    ELSE from[1] < k /\ k < to[1]}
      inside == Cardinality({j \in Used(ChunkAt(to[1])) : j < to[2]})
      sum[K \in SUBSET DOMAIN q.list] ==
        IF K = {} THEN 0 ELSE SizeOf(Max(K)) + sum[K \ {Max(K)}]
      same == Cardinality({j \in Used(ChunkAt(x[1])) :
                Min({x[2], y[2]}) <= j /\ j < Max({x[2], y[2]})})
  IN IF x[1] = y[1] THEN IF x[2] > y[2] THEN same ELSE -same
     ELSE (rest + sum[between] + inside) * (IF After(x, y) THEN 1 ELSE -1)

-----------------------------------------------------------------------------
(***************************************************************************)
(* Calls.  The bounds: the chunks there are, and their numbers.            *)
(***************************************************************************)
Fits(n)  == Len(q.list) + (n + Count - 1) \div Count <= MaxChunks
Indexed(r) == \A k \in DOMAIN r.list : r.node[r.list[k]].index \in -MaxIndex .. MaxIndex
Becomes(r) == Indexed(r) /\ q' = r

CallEmplaceBack  == Fits(1) /\ Becomes(EmplaceBack(q, Value))
CallEmplaceFront == Fits(1) /\ Becomes(EmplaceFront(q, Value))
CallEmplace      == Fits(1) /\ Becomes(Emplace(q, Value))
CallPopBack      == q.size > 0 /\ Becomes(PopBack(q))
CallPopFront     == q.size > 0 /\ Becomes(PopFront(q))
CallErase(i, j)  == Becomes(EraseRange(q, i, j))
CallResize(n)    == Fits(n - q.size) /\ Becomes(Resize(q, n, Value))
CallResizeFront(n) == Fits(n - q.size) /\ Becomes(ResizeFront(q, n, Value))
ResizeThrows(n, j) ==
  /\ j < n - q.size
  /\ Fits(n - q.size)
  /\ Becomes(FoldLeft(EmplaceBack, q, Copies(Kept(q, j), Value)))
CallAssign(n)    == Fits(n - q.size) /\ Becomes(Assign(q, Copies(n, Value)))
CallShrink       == Becomes(Shrunk(q))
CallSort         == Becomes(Sorted(q))
CallClear        == Becomes(Empty)

Sizes == 0 .. MaxChunks * Count

\* Calls that remove within one chunk, or leave links behind, go wrong.
Reduces(n)      == n \in 1 .. q.size - 1 /\ Overruns(q, q.size - n, TRUE)
ReducesFront(n) == n \in 1 .. q.size - 1 /\ Overruns(q, q.size - n, FALSE)

Next ==
  \/ CallEmplaceBack \/ CallEmplaceFront \/ CallEmplace
  \/ CallPopBack \/ CallPopFront
  \/ \E i \in Sizes : \E j \in i + 1 .. q.size : CallErase(i, j)
  \/ \E n \in Sizes :
       \/ ~Reduces(n) /\ CallResize(n)
       \/ ~ReducesFront(n) /\ CallResizeFront(n)
       \/ ~Reduces(n) /\ CallAssign(n)
       \/ \E j \in Sizes : ResizeThrows(n, j)
  \/ ~LeavesLinks(q) /\ (CallShrink \/ CallSort)
  \/ CallClear

vars == <<q>>
Spec == Init /\ [][Next]_vars

-----------------------------------------------------------------------------
\* Properties.

(***************************************************************************)
(* "the sequence maintains another linked list of partially free buckets   *)
(* in order to perform fast unordered insertion" (sequence.hpp:716): the   *)
(* chunks of that list are those with a free slot, each once.              *)
(***************************************************************************)
FreeListExact ==
  /\ IsInjective(q.free)
  /\ ToSet(q.free) = {a \in ToSet(q.list) : ~Full(q.node[a])}

(***************************************************************************)
(* A chunk holds a value, its bounds are those of its first and last       *)
(* value, and the chunks are numbered in their order.                      *)
(***************************************************************************)
ChunksInOrder ==
  /\ \A a \in ToSet(q.list) :
       /\ Used(q.node[a]) # {}
       /\ q.node[a].start = Min(Used(q.node[a]))
       /\ q.node[a].end = Max(Used(q.node[a])) + 1
  /\ \A j, k \in DOMAIN q.list :
       j < k => q.node[q.list[j]].index < q.node[q.list[k]].index

(***************************************************************************)
(* Jumps over whole chunks lead where single steps lead, from every place  *)
(* by every distance, and the difference and the order of two iterators to *)
(* values are those of their places.                                       *)
(***************************************************************************)
Marks == Append(Places(q), Begin(Len(q.list) + 1))

JumpsAgree ==
  LET marks == Marks IN
  /\ \A m, n \in DOMAIN marks : Advance(marks[m], n - m) = marks[n]
  /\ \A n \in DOMAIN marks : IteratorAt(n - 1) = marks[n]
  /\ \A m, n \in 1 .. q.size :
       /\ Distance(marks[m], marks[n]) = m - n
       /\ After(marks[m], marks[n]) <=> m > n

(***************************************************************************)
(* Every call makes of the values what it promises: here in each state for *)
(* distinct values in its places.  A resize() that throws leaves the old   *)
(* values and some of the new ones.                                        *)
(***************************************************************************)
KeepsPromise ==
  LET s == [i \in 1 .. q.size |-> i]
      r == Overwrite(q, s)
      v == 0
  IN
  /\ Contents(r) = s
  /\ Fits(1) =>
       /\ Contents(EmplaceBack(r, v)) = Splice(s, q.size, <<v>>)
       /\ Contents(EmplaceFront(r, v)) = Splice(s, 0, <<v>>)
       /\ \E i \in 0 .. q.size : Contents(Emplace(r, v)) = Splice(s, i, <<v>>)
  /\ q.size > 0 =>
       /\ Contents(PopBack(r)) = Cut(s, q.size - 1, q.size)
       /\ Contents(PopFront(r)) = Cut(s, 0, 1)
  /\ \A i \in 0 .. q.size : \A j \in i + 1 .. q.size :
       Contents(EraseRange(r, i, j)) = Cut(s, i, j)
  /\ \A n \in Sizes : Fits(n - q.size) =>
       /\ ~Reduces(n) => Contents(Resize(r, n, v)) = ResizedTo(s, n, v)
       /\ ~ReducesFront(n) => Contents(ResizeFront(r, n, v)) = ResizedFrontTo(s, n, v)
       /\ ~Reduces(n) => LET t == [i \in 1 .. n |-> -i] IN Contents(Assign(r, t)) = t
       /\ \A j \in 0 .. n - q.size - 1 : Kept(q, j) <= j
  /\ Contents(Shrunk(r)) = s
  /\ Contents(Sorted(Overwrite(q, Reverse(s)))) = s
=============================================================================
