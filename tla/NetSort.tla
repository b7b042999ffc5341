------------------------------- MODULE NetSort -------------------------------
(***************************************************************************)
(* net_sort, inplace_merge, merge, reverse_descending and unique of        *)
(* seq/algorithm.hpp, on values that have a key and the place where they   *)
(* stood at first.  A range is a sequence, two ranges next to each other   *)
(* are two sequences, and what is moved to the buffer and back is followed *)
(* only by the size of the buffer, which decides how ranges are merged.    *)
(***************************************************************************)
EXTENDS Integers, SequencesExt, Evaluation

CONSTANT Types       \* kinds of ranges, with the numbers that decide how one is sorted

NetSortAssumption ==
  \A ty \in Types :
    /\ {ty.maxKey, ty.maxLen, ty.small, ty.block, ty.chunk, ty.unbalance} \subseteq Nat
    /\ ty.block > 0 /\ ty.waves > 2 /\ ty.maxRuns > 2 /\ ty.chunk >= ty.block
    /\ ty.randomAccess => ty.block = 8

VARIABLES
  type,
  range       \* the keys of the range a user has

Keys         == 1 .. type.maxKey      \* bound
MaxLen       == type.maxLen           \* bound
Small        == type.small            \* 16: fewer values are sorted by insertion
Block        == type.block            \* 8: the values of a block
Chunk        == type.chunk            \* 128: the values of a chunk, a power of two of blocks
Waves        == type.waves            \* 5: runs that try_wave_sort looks for, and one
MaxRuns      == type.maxRuns          \* 65: runs that are merged at a time, and one
Unbalance    == type.unbalance        \* 32: how much shorter a range is than one to search
RandomAccess == type.randomAccess     \* a network sorts blocks of eight; unbalanced merges search
Relocatable  == type.relocatable      \* with random access: merges from both ends
Buffers      == type.buffers          \* sizes of the buffer

Init == type \in Types /\ range = <<>>

First(s, n)   == SubSeq(s, 1, n)
After(s, n)   == SubSeq(s, n + 1, Len(s))
Back(s)       == s[Len(s)]

\* A comparison, or the one with its arguments exchanged.
Less(x, y, up) == IF up THEN x.key < y.key ELSE y.key < x.key
Before(x, y)   == Less(x, y, TRUE)
InOrder(s, t)  == ~Before(Head(t), Back(s))

\* How many values there are from the front before one that Holds.
Until(s, Holds(_)) == Min({i \in DOMAIN s : Holds(s[i])} \cup {Len(s) + 1}) - 1

-----------------------------------------------------------------------------
(***************************************************************************)
(* merge_forward.  One range may be so much shorter that its values are    *)
(* searched for in the other one.                                          *)
(***************************************************************************)
\* Mutant: equal values of the second range go first.
AheadOrSame(b, x, up) == Until(b, LAMBDA y : Less(x, y, up))

NotAfter(a, x, up) == Until(a, LAMBDA y : Less(x, y, up))     \* upper_bound, in a sorted range
Ahead(b, x, up)    == Until(b, LAMBDA y : ~Less(y, x, up))    \* lower_bound

\* Values of the first range up to one, then the values of the second one before it.
RECURSIVE MergeEven(_, _, _)
MergeEven(a, b, up) ==
  LET n  == NotAfter(a, Head(b), up)
      x  == a[n + 1]
      m  == Ahead(b, x, up)
  IN IF a = <<>> \/ b = <<>> THEN a \o b
     ELSE IF n = Len(a) THEN a \o b
     ELSE First(a, n) \o First(b, m) \o <<x>> \o MergeEven(After(a, n + 1), After(b, m), up)

\* The same from the second range, if it is much shorter.
RECURSIVE MergeShortRight(_, _, _)
MergeShortRight(a, b, up) ==
  LET n  == Ahead(b, Head(a), up)
      x  == b[n + 1]
      m  == NotAfter(a, x, up)
  IN IF a = <<>> \/ b = <<>> THEN a \o b
     ELSE IF n = Len(b) THEN b \o a
     ELSE First(b, n) \o First(a, m) \o <<x>> \o MergeShortRight(After(a, m), After(b, n + 1), up)

MergeForward(a, b, up) ==
  IF RandomAccess /\ Len(a) * Unbalance >= Len(b) /\ Len(b) * Unbalance < Len(a)
  THEN MergeShortRight(a, b, up) ELSE MergeEven(a, b, up)

MergeBackward(a, b) == Reverse(MergeForward(Reverse(b), Reverse(a), FALSE))

(***************************************************************************)
(* merge_move_bidirectional: the least and the greatest value at a time,   *)
(* as long as two values of each range are left; it stops after a while,   *)
(* here after some steps, if the values look like long runs.               *)
(***************************************************************************)
RECURSIVE MergeEnds(_, _, _)
MergeEnds(a, b, steps) ==
  LET left  == Before(Head(b), Head(a))
      right == ~Before(Back(b), Back(a))
      Less1(s, front, back) == SubSeq(s, IF front THEN 2 ELSE 1, IF back THEN Len(s) - 1 ELSE Len(s))
  IN IF a = <<>> \/ b = <<>> THEN a \o b
     ELSE IF steps = 0 \/ Len(a) = 1 \/ Len(b) = 1 THEN MergeForward(a, b, TRUE)
     ELSE <<IF left THEN Head(b) ELSE Head(a)>>
          \o MergeEnds(Less1(a, ~left, ~right), Less1(b, left, right), steps - 1)
          \o <<IF right THEN Back(b) ELSE Back(a)>>

MergeMove(a, b, ends) ==
  MergeEnds(a, b, IF ends /\ RandomAccess /\ Relocatable THEN Len(a) + Len(b) ELSE 0)

(***************************************************************************)
(* merge_adaptive_n: values that are in place already stay; if no range    *)
(* fits into the buffer, a value of the longer one is rotated to where it  *)
(* belongs, and what is on either side of it is merged.                    *)
(***************************************************************************)
MergeWithBuffer(a, b) ==
  IF Len(a) <= Len(b) THEN MergeForward(a, b, TRUE) ELSE MergeBackward(a, b)

\* The value to rotate, the middle one of the longer range, and what is then before and after it.
Cuts(s, t) ==
  LET first == Len(s) < Len(t)
      k     == IF first THEN Len(s) \div 2 ELSE NotAfter(s, t[Len(t) \div 2 + 1], TRUE)
      l     == IF first THEN Ahead(t, s[Len(s) \div 2 + 1], TRUE) ELSE Len(t) \div 2
  IN IF first
     THEN [x |-> s[k + 1], before |-> <<First(s, k), First(t, l)>>, after |-> <<After(s, k + 1), After(t, l)>>]
     ELSE [x |-> t[l + 1], before |-> <<First(s, k), First(t, l)>>, after |-> <<After(s, k), After(t, l + 1)>>]

RECURSIVE MergeAdaptive(_, _, _)
MergeRest(s, t, size) ==
  CASE Len(t) = 1                                  -> t \o s
    [] Len(t) > 1 /\ Min({Len(s), Len(t)}) <= size -> MergeWithBuffer(s, t)
    [] OTHER -> Once(Cuts(s, t), LAMBDA c :
                  MergeAdaptive(c.before[1], c.before[2], size) \o <<c.x>>
                  \o MergeAdaptive(c.after[1], c.after[2], size))

MergeAdaptive(a, b, size) ==
  LET skip == NotAfter(a, Head(b), TRUE)
      keep == Until(Reverse(b), LAMBDA y : Before(y, Back(a)))
  IN IF a = <<>> \/ b = <<>> \/ InOrder(a, b) THEN a \o b
     ELSE IF Before(Back(b), Head(a)) THEN b \o a
     ELSE First(a, skip) \o MergeRest(After(a, skip), First(b, Len(b) - keep), size)
          \o After(b, Len(b) - keep)

(***************************************************************************)
(* ping_pong_merge_4 and ping_pong_merge_3: into the buffer and back, if   *)
(* it has room; three runs come back from it by merge_forward.  Two runs   *)
(* are merged in place.                                                    *)
(***************************************************************************)
MergeTwo(a, b, size, fits, ends) ==
  CASE ~fits                   -> MergeAdaptive(a, b, size)
    [] fits /\ InOrder(a, b)  -> a \o b
    [] fits /\ ~InOrder(a, b) -> MergeMove(a, b, ends)

RECURSIVE MergeTree(_, _, _)
MergeTree(runs, size, fits) ==
  LET h == (Len(runs) + 1) \div 2
  IN IF Len(runs) = 1 THEN runs[1]
     ELSE MergeTwo(MergeTree(First(runs, h), size, fits), MergeTree(After(runs, h), size, fits),
                   size, fits, Len(runs) # 3)

MergeSome(runs, size) ==        \* two to four of them
  LET fits == CASE Len(runs) = 2 -> FALSE
                [] Len(runs) = 3 -> Len(runs[1] \o runs[2]) <= size
                [] OTHER         -> Len(FlattenSeq(runs)) <= size
  IN IF fits /\ \A i \in 1 .. Len(runs) - 1 : InOrder(runs[i], runs[i + 1])
     THEN FlattenSeq(runs) ELSE MergeTree(runs, size, fits)

\* merge_sorted_runs_with_buffer
RECURSIVE MergeSortedRuns(_, _)
MergeSortedRuns(runs, size) ==
  LET n    == Len(runs)
      q    == n \div 4
      Part == <<0, q, 2 * q, 3 * q, n>>
  IN IF n < 2 THEN FlattenSeq(runs)
     ELSE MergeSome(IF n < 4 THEN runs
                    ELSE [i \in 1 .. 4 |-> MergeSortedRuns(SubSeq(runs, Part[i] + 1, Part[i + 1]), size)], size)

-----------------------------------------------------------------------------
(***************************************************************************)
(* Blocks.  The network compares fixed pairs of places.                    *)
(***************************************************************************)
InsertionSort(s) ==
  FoldLeft(LAMBDA sorted, x : InsertAt(sorted, 1 + NotAfter(sorted, x, TRUE), x), <<>>, s)

Pairs == << <<0, 1>>, <<2, 3>>, <<4, 5>>, <<6, 7>>, <<0, 2>>, <<1, 3>>, <<4, 6>>, <<5, 7>>,
            <<0, 4>>, <<1, 5>>, <<2, 6>>, <<3, 7>>, <<2, 4>>, <<3, 5>>, <<1, 4>>, <<3, 6>>,
            <<1, 2>>, <<3, 4>>, <<5, 6>> >>

NetworkSort(s) ==
  LET Swap(t, p) == LET l == p[1] + 1
                        r == p[2] + 1
                    IN IF Before(t[r], t[l]) THEN [t EXCEPT ![l] = t[r], ![r] = t[l]] ELSE t
  IN FoldLeft(Swap, s, Pairs)

SortBlock(s) == IF RandomAccess /\ Len(s) = 8 THEN NetworkSort(s) ELSE InsertionSort(s)

Blocks(s) == [i \in 1 .. (Len(s) + Block - 1) \div Block |->
                SortBlock(SubSeq(s, (i - 1) * Block + 1, Min({i * Block, Len(s)})))]

RECURSIVE MergeHalves(_)
MergeHalves(runs) ==
  LET h == Len(runs) \div 2
  IN IF h = 0 THEN runs[1]
     ELSE MergeMove(MergeHalves(First(runs, h)), MergeHalves(After(runs, h)), TRUE)

\* sort_128
SortChunk(s, size) ==
  IF Len(s) = Chunk /\ size >= Chunk THEN MergeHalves(Blocks(s)) ELSE MergeSortedRuns(Blocks(s), size)

\* reverse_sort: the equal values are reversed first, then all of them.
RECURSIVE ReverseSort(_)
ReverseSort(s) ==
  LET n == Until(s, LAMBDA y : y.key # Head(s).key)
  IN IF s = <<>> THEN <<>> ELSE ReverseSort(After(s, n)) \o First(s, n)

(***************************************************************************)
(* try_wave_sort: the first runs of s, upwards and downwards in turn.  A   *)
(* run of one value that is not the last allowed one goes the other way.   *)
(* It fails if the runs do not reach far enough.                           *)
(***************************************************************************)
RECURSIVE RunsFrom(_, _, _, _)
RunsFrom(s, i, up, allowed) ==
  LET Breaks(k) == IF up THEN Before(s[k], s[k - 1]) ELSE Before(s[k - 1], s[k])
      j   == Min({k \in i + 1 .. Len(s) : Breaks(k)} \cup {Len(s) + 1})
      run == [at |-> i, past |-> j, up |-> up]
  IN CASE j = i + 1 /\ j <= Len(s) /\ allowed > 1 -> RunsFrom(s, i, ~up, allowed)
       [] j > Len(s) \/ allowed = 1                -> <<run>>
       [] OTHER -> <<run>> \o RunsFrom(s, j, ~up, allowed - 1)

Run(s, r) == LET v == SubSeq(s, r.at, r.past - 1) IN IF r.up THEN v ELSE ReverseSort(v)

WaveSort(s, least, size) ==       \* the values sorted, none if it fails
  Once(RunsFrom(s, 1, Len(s) = 1 \/ ~Before(s[2], s[1]), Waves - 1), LAMBDA runs :
    IF s = <<>> \/ Back(runs).past <= least THEN <<>>
    ELSE MergeSortedRuns([i \in DOMAIN runs |-> Run(s, runs[i])], size))

\* What try_wave_sort makes of the front of s, or sort_128 of the least part of it.
SortFront(s, least, size) ==
  Once(WaveSort(s, least, size), LAMBDA wave :
    IF wave # <<>> THEN wave ELSE SortChunk(First(s, least), size))

-----------------------------------------------------------------------------
(***************************************************************************)
(* generic_merge_sort_internal: sorted runs, so many at a time, merged     *)
(* into longer ones, until one is left.  A next pass finds the runs by     *)
(* their least length.                                                     *)
(***************************************************************************)
RECURSIVE FirstPass(_, _)
FirstPass(s, size) ==
  IF s = <<>> THEN <<>>
  ELSE Once(SortFront(s, Min({Len(s), Chunk}), size), LAMBDA run :
         <<run>> \o FirstPass(After(s, Len(run)), size))

RECURSIVE NextPass(_, _)
NextPass(s, least) ==
  LET j == Min({k \in least + 1 .. Len(s) : Before(s[k], s[k - 1])} \cup {Len(s) + 1})
  IN IF s = <<>> THEN <<>>
     ELSE IF Len(s) < least THEN <<s>>
     ELSE <<First(s, j - 1)>> \o NextPass(After(s, j - 1), least)

RECURSIVE MergePasses(_, _)
MergePasses(runs, size) ==
  LET n == (Len(runs) + MaxRuns - 2) \div (MaxRuns - 1)
      Group(i) == SubSeq(runs, (i - 1) * (MaxRuns - 1) + 1, Min({i * (MaxRuns - 1), Len(runs)}))
  IN Once([i \in 1 .. n |-> MergeSortedRuns(Group(i), size)], LAMBDA merged :
       IF n = 1 THEN merged[1]
       ELSE MergePasses(NextPass(FlattenSeq(merged), Min({Len(merged[i]) : i \in 1 .. n - 1})), size))

\* net_sort_size, with merge_sort_internal; less than a chunk is one run.
Sort(s, size) ==
  IF Len(s) < Small THEN InsertionSort(s)
  ELSE Once(FirstPass(s, size), LAMBDA runs : MergePasses(runs, size))

\* unique, whose hash table is that of ChainingTable, used by one thread.
Unique(s) ==
  FoldLeft(LAMBDA kept, x : IF \E i \in DOMAIN kept : kept[i].key = x.key THEN kept ELSE Append(kept, x), <<>>, s)

-----------------------------------------------------------------------------
Tagged == [i \in DOMAIN range |-> [key |-> range[i], at |-> i]]
KeysIn(s) == [i \in DOMAIN s |-> s[i].key]

Sorted(s)     == \A i \in 1 .. Len(s) - 1 : ~Before(s[i + 1], s[i])
Descending(s) == \A i \in 1 .. Len(s) - 1 : ~Before(s[i], s[i + 1])

\* bound: up to MaxLen values
Becomes(s) == range' = s /\ UNCHANGED type
AddValue == Len(range) < MaxLen /\ \E k \in Keys : Becomes(Append(range, k))
CallSort == \E size \in Buffers : Becomes(KeysIn(Sort(Tagged, size)))
CallMerge ==
  \E m \in DOMAIN range : \E size \in Buffers :
    /\ Sorted(First(Tagged, m)) /\ Sorted(After(Tagged, m))
    /\ Becomes(KeysIn(MergeAdaptive(First(Tagged, m), After(Tagged, m), size)))
CallReverse == Descending(Tagged) /\ Becomes(KeysIn(ReverseSort(Tagged)))
CallUnique  == Becomes(KeysIn(Unique(Tagged)))

Next == AddValue \/ CallSort \/ CallMerge \/ CallReverse \/ CallUnique

vars == <<type, range>>
Spec == Init /\ [][Next]_vars

-----------------------------------------------------------------------------
\* Properties.

Precedes(x, y)  == x.key < y.key \/ (x.key = y.key /\ x.at < y.at)
StableOrder(s)  == SortSeq(s, Precedes)

(***************************************************************************)
(* All ways to merge two sorted ranges, at any length of either, from both *)
(* ends or in place with any buffer, are the same stable merge.            *)
(***************************************************************************)
Merges ==
  \A m \in 0 .. Len(range) :
    LET a == First(Tagged, m)
        b == After(Tagged, m)
        s == StableOrder(Tagged)
    IN Sorted(a) /\ Sorted(b) =>
         /\ MergeForward(a, b, TRUE) = s /\ MergeBackward(a, b) = s
         /\ \A steps \in 0 .. Len(range) : MergeEnds(a, b, steps) = s
         /\ \A size \in Buffers : MergeAdaptive(a, b, size) = s

Reverses == Descending(Tagged) => ReverseSort(Tagged) = StableOrder(Tagged)

Dedupes == Unique(Tagged) = SelectSeq(Tagged, LAMBDA x : \A i \in 1 .. x.at - 1 : range[i] # x.key)

(***************************************************************************)
(* "generic stable sorting algorithm" (docs/algorithm.md:18): equal values *)
(* keep their order.                                                       *)
(***************************************************************************)
SortsStably == \A size \in Buffers : Sort(Tagged, size) = StableOrder(Tagged)

\* The values of an array need not be stable.
SameOrder(s, t) == IF RandomAccess THEN KeysIn(s) = KeysIn(t) ELSE s = t
Sorts == \A size \in Buffers : SameOrder(Sort(Tagged, size), StableOrder(Tagged))

(***************************************************************************)
(* Each algorithm does what it says, whatever runs the values form.        *)
(***************************************************************************)
KeepsPromise == Merges /\ Reverses /\ Dedupes /\ Sorts
=============================================================================
