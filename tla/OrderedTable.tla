----------------------------- MODULE OrderedTable -----------------------------
(***************************************************************************)
(* SparseFlatNodeHashTable of seq/ordered_map.hpp, the table behind        *)
(* ordered_set and ordered_map: the values are in a sequence, in an order  *)
(* the user chooses, and the buckets hold iterators to them, by robin hood *)
(* hashing with backward shift deletion, or by linear probing with         *)
(* tombstones once a distance has reached MaxDistance.                     *)
(*                                                                         *)
(* An iterator is a number; the part of the hash that a bucket stores is   *)
(* left out, since it is compared together with the key.                   *)
(***************************************************************************)
EXTENDS Integers, FiniteSets, SequencesExt

CONSTANTS
  Keys,             \* numbers, in the order that sort() uses
  HashOf,           \* the hash of each key
  Iterators,        \* 1 .. n: the places of a sequence, used again when they are free
  MinMask,          \* 63, the mask of the first table
  MaxDistance,      \* 126
  LowDistance,      \* 7: no rehash up to it, whatever the load
  LoadNum, LoadDen, \* max_load_factor()
  Sizes,            \* the arguments of rehash(n) and, divided by the load factor, reserve(n)
  CopySizes,        \* how many values a container has that is copied, a bound
  Null

OrderedTableAssumption ==
  /\ Keys \subseteq Nat
  /\ HashOf \in [Keys -> Nat]
  /\ Iterators \in {1 .. n : n \in 1 .. 64}
  /\ MaxDistance \in Nat \ {0, 1}
  /\ LoadNum \in 1 .. LoadDen - 1
  /\ \A n \in CopySizes : n <= Cardinality(Iterators)
  /\ Null \notin Iterators \cup Keys

Tombstone == MaxDistance + 1        \* 127, in the place of a distance
Dirty     == MaxDistance + 2        \* mask_dirty, in the place of the largest distance

VARIABLES
  seq,      \* d_seq: its iterators in order
  key,      \* the key at each iterator
  tab,      \* d_buckets, d_hash_mask, d_next_target and d_max_dist
  past      \* whether a search for a slot went past the end of the buckets

vars == <<seq, key, tab, past>>

NoNode == [dist |-> -1, it |-> Null]
NullTable == [b |-> (0 :> NoNode), mask |-> 0, target |-> 0, max |-> 1]
DirtyTable == [NullTable EXCEPT !.max = Dirty]     \* nothing reads the buckets of a dirty table

Init ==
  /\ seq = <<>>
  /\ key = [i \in Iterators |-> Null]
  /\ tab = NullTable
  /\ past = FALSE

-----------------------------------------------------------------------------
\* Probing.  The index after wrap is 0.

Home(k, m)     == HashOf[k] % (m + 1)
After(i, wrap) == IF i = wrap THEN 0 ELSE i + 1

\* The first n slots of the probe for k, and how far slot i is from its home.
Path(k, m, n)     == {(Home(k, m) + j) % (m + 1) : j \in 0 .. n - 1}
Distance(k, m, i) == (i + m + 1 - Home(k, m)) % (m + 1)

Holds(ky, b, i, k) == b[i].it # Null /\ ky[b[i].it] = k

\* Mutant: it stops at a node that is as far from its home.
RECURSIVE ProbeShort(_, _, _, _)
ProbeShort(b, wrap, i, d) ==
  IF d < b[i].dist THEN ProbeShort(b, wrap, After(i, wrap), d + 1) ELSE [i |-> i, d |-> d]

\* The first slot whose node is nearer to its home than a node at distance d would be there.
RECURSIVE Probe(_, _, _, _)
Probe(b, wrap, i, d) ==
  IF d <= b[i].dist THEN Probe(b, wrap, After(i, wrap), d + 1) ELSE [i |-> i, d |-> d]

\* From slot i to the first slot without a value, be it a tombstone or not.
ToFree(b, m, i) ==
  CHOOSE n \in 0 .. m : /\ b[(i + n) % (m + 1)].it = Null
                        /\ \A j \in 0 .. n - 1 : b[(i + j) % (m + 1)].it # Null
FreeSlot(b, m, i) == (i + ToFree(b, m, i)) % (m + 1)

\* start_insert: a node that has lost its slot looks for the next one.
RECURSIVE StartInsert(_, _, _, _)
StartInsert(t, wrap, i, n) ==
  IF n.dist = -1 THEN t
  ELSE LET p == Probe(t.b, wrap, After(i, wrap), n.dist + 1)
           d == IF p.d > MaxDistance THEN MaxDistance ELSE p.d
       IN StartInsert([t EXCEPT !.b[p.i] = [n EXCEPT !.dist = d], !.max = IF d > @ THEN d ELSE @],
                      wrap, p.i, t.b[p.i])

InsertRobin(t, wrap, p, it) ==
  StartInsert([t EXCEPT !.b[p.i] = [dist |-> p.d, it |-> it], !.max = IF p.d > @ THEN p.d ELSE @],
              wrap, p.i, t.b[p.i])

InsertLinear(t, h, i, it) ==
  [t EXCEPT !.b[i] = [dist |-> IF i = h THEN 0 ELSE MaxDistance, it |-> it]]

-----------------------------------------------------------------------------
\* rehash and rehash_remove_duplicates, for a mask m and the iterators s.

NewTable(m) == [NullTable EXCEPT !.b = [i \in 0 .. m |-> NoNode]]
Sized(t, m) == [t EXCEPT !.mask = m, !.target = ((m + 1) * LoadNum) \div LoadDen]

Build(m, s, ky) ==
  LET Insert(t, it) ==
        LET h == Home(ky[it], m) IN
        IF t.max = MaxDistance THEN InsertLinear(t, h, FreeSlot(t.b, m, h), it)
        ELSE InsertRobin(t, m, Probe(t.b, m, h, 0), it)
  IN [t |-> Sized(FoldLeft(Insert, NewTable(m), s), m), s |-> s, past |-> FALSE]

\* Mutant: the bucket at home is not compared, as in rehash, which has a short cut for it.
FoundPastHome(t, ky, k, m, p) == \E i \in Path(k, m, p.d) \ {Home(k, m)} : Holds(ky, t.b, i, k)

\* The two loops that look for k: up to p, and in a linear table up to a free slot.
FoundDuplicate(t, ky, k, m, p) ==
  LET n == p.d + IF t.max = MaxDistance THEN ToFree(t.b, m, p.i) ELSE 0
  IN \E i \in Path(k, m, n) : Holds(ky, t.b, i, k)

(***************************************************************************)
(* rehash_remove_duplicates gives start_insert the number of buckets in    *)
(* the place of the mask: the search for a slot goes one past the end      *)
(* before it wraps.  What it may find there is not followed: the search    *)
(* takes that place, and past says so.                                     *)
(***************************************************************************)
Dedupe(m, s, ky) ==
  LET start == [t |-> [NewTable(m) EXCEPT !.b = @ @@ (m + 1 :> NoNode)], s |-> <<>>]
      Insert(r, it) ==
        LET k == ky[it]
            h == Home(k, m)
            p == Probe(r.t.b, m, h, 0)
        IN IF FoundDuplicate(r.t, ky, k, m, p) THEN r
           ELSE [t |-> IF r.t.max = MaxDistance THEN InsertLinear(r.t, h, FreeSlot(r.t.b, m, p.i), it)
                       ELSE InsertRobin(r.t, m + 1, p, it),
                 s |-> Append(r.s, it)]
      end == FoldLeft(Insert, start, s)
  IN [t |-> Sized([end.t EXCEPT !.b = Restrict(@, 0 .. m)], m), s |-> end.s,
      past |-> end.t.b[m + 1] # NoNode]

\* Mutant: a power of two becomes the mask.
MaskForSize(n) ==
  IF \E i \in 0 .. n : n = 2^i THEN n
  ELSE CHOOSE m \in 0 .. 2 * n : n <= m + 1 /\ m + 1 < 2 * n /\ \E i \in 0 .. n : m + 1 = 2^i

MaskFor(n)    == CHOOSE m \in 0 .. 2 * n : n <= m + 1 /\ m + 1 < 2 * n /\ \E i \in 0 .. n : m + 1 = 2^i
ByLoad(n)     == (n * LoadDen) \div LoadNum

\* rehash(n, force), where n = 0 stands for the number of values over the load factor.
Rehashed(t, s, ky, n, force) ==
  LET size   == IF n = 0 THEN ByLoad(Len(s)) ELSE n
      m      == MaskFor(size)
      linear == t.max = MaxDistance
  IN IF size = 0 THEN Build(MinMask, <<>>, ky)
     ELSE IF t.max = Dirty THEN Dedupe(m, s, ky)
     ELSE IF force \/ m # t.mask \/ linear
          THEN Build(IF linear /\ n = 0 THEN 2 * m + 1 ELSE m, s, ky)
     ELSE [t |-> t, s |-> s, past |-> FALSE]

\* The result of a rehash, or of one whose allocation throws, which leaves a dirty table.
Becomes(s, ky, r) ==
  \/ /\ tab' = r.t
     /\ seq' = r.s
     /\ key' = [i \in Iterators |-> IF i \in Range(r.s) THEN ky[i] ELSE Null]
     /\ past' = r.past
  \/ /\ r.t # tab
     /\ tab' = DirtyTable
     /\ seq' = s /\ key' = ky
     /\ UNCHANGED past

-----------------------------------------------------------------------------
\* Lookup and insertion.

\* find_hash: in a linear table only a free bucket that is no tombstone ends the search.
FindSlots(k) ==
  LET m == tab.mask
      h == Home(k, m)
      empty == {j \in 0 .. m : tab.b[(h + j) % (m + 1)].dist = -1}
      slots == IF tab.max < MaxDistance THEN Path(k, m, Probe(tab.b, m, h, 0).d)
               ELSE Path(k, m, IF empty = {} THEN m + 1 ELSE Min(empty))
  IN {i \in slots : Holds(key, tab.b, i, k)}

NewIterator == CHOOSE i \in Iterators : key[i] = Null /\ \A j \in 1 .. i - 1 : key[j] # Null

\* insert_fast, insert_slow and insert_linear: the slot of k and whether k is on the way to it.
SlotFor(t, k) ==
  LET h == Home(k, t.mask) IN
  IF t.max = MaxDistance THEN [i |-> FreeSlot(t.b, t.mask, h), d |-> ToFree(t.b, t.mask, h)]
  ELSE Probe(t.b, t.mask, h, 0)

Inserted(t, k, it) ==
  IF t.max = MaxDistance THEN InsertLinear(t, Home(k, t.mask), SlotFor(t, k).i, it)
  ELSE InsertRobin(t, t.mask, SlotFor(t, k), it)

MustRehash ==
  Len(seq) >= tab.mask \/ (tab.max > LowDistance /\ Len(seq) >= tab.target)

\* A linear table holds k behind the tombstone that ends the search of insert_linear.
Hidden(k) ==
  /\ tab.max = MaxDistance /\ ~MustRehash
  /\ ~(FindSlots(k) \subseteq Path(k, tab.mask, SlotFor(tab, k).d))

\* emplace; the new value goes to the back, to the front, or where the sequence has room.
Emplace(k) ==
  LET t == IF MustRehash THEN Rehashed(tab, seq, key, 2 * Len(seq), FALSE).t ELSE tab IN
  /\ tab.max # Dirty
  /\ \/ tab' = t /\ UNCHANGED <<seq, key>>        \* k is found, or the sequence throws
     \/ /\ ~\E i \in Path(k, t.mask, SlotFor(t, k).d) : Holds(key, t.b, i, k)
        /\ \E i \in Iterators : key[i] = Null
        /\ tab' = Inserted(t, k, NewIterator)
        /\ \E at \in 1 .. Len(seq) + 1 : seq' = InsertAt(seq, at, NewIterator)
        /\ key' = [key EXCEPT ![NewIterator] = k]
     \/ /\ t # tab                                \* the allocation of the rehash throws
        /\ tab' = DirtyTable
        /\ UNCHANGED <<seq, key>>
  /\ UNCHANGED past

-----------------------------------------------------------------------------
\* Erasure.

\* Mutant: the shift leaves the last node where it is.
RECURSIVE ShiftBackLess(_, _, _)
ShiftBackLess(b, m, i) ==
  LET n == After(i, m) IN
  IF b[n].dist > 1 THEN ShiftBackLess([b EXCEPT ![i] = [b[n] EXCEPT !.dist = @ - 1]], m, n)
  ELSE [b EXCEPT ![i] = NoNode]

RECURSIVE ShiftBack(_, _, _)
ShiftBack(b, m, i) ==
  LET n == After(i, m) IN
  IF b[n].dist > 0 THEN ShiftBack([b EXCEPT ![i] = [b[n] EXCEPT !.dist = @ - 1]], m, n)
  ELSE [b EXCEPT ![i] = NoNode]

Erase(k) ==
  /\ tab.max # Dirty
  /\ \E i \in FindSlots(k) :
       LET it == tab.b[i].it IN
       /\ tab' = [tab EXCEPT !.b =
            IF tab.max = MaxDistance THEN [@ EXCEPT ![i] = [dist |-> Tombstone, it |-> Null]]
            ELSE ShiftBack(@, tab.mask, i)]
       /\ seq' = SelectSeq(seq, LAMBDA j : j # it)
       /\ key' = [key EXCEPT ![it] = Null]
  /\ UNCHANGED past

\* erase(first, last), which may be called on a dirty table.
Without(s, i, j) == SubSeq(s, 1, i - 1) \o SubSeq(s, j + 1, Len(s))

EraseRange(i, j) ==
  LET s  == Without(seq, i, j)
      ky == [it \in Iterators |-> IF it \in Range(s) THEN key[it] ELSE Null]
  IN Becomes(s, ky, Rehashed(tab, s, ky, 0, TRUE))

Clear ==
  /\ tab' = NullTable
  /\ seq' = <<>>
  /\ key' = [i \in Iterators |-> Null]
  /\ UNCHANGED past

-----------------------------------------------------------------------------
\* rehash() is Rehash(0); with fewer buckets than values the search for a slot does not end.
RoomIn(n) == n # 0 => Len(seq) <= MaskFor(n) + 1

Rehash(n) ==
  /\ RoomIn(n)
  /\ Becomes(seq, key, Rehashed(tab, seq, key, n, FALSE))

\* sequence(), and what the user then does with the sequence.
Sequence ==
  /\ tab' = DirtyTable
  /\ UNCHANGED <<seq, key, past>>

PushBack(k) ==
  /\ tab.max = Dirty
  /\ \E i \in Iterators : key[i] = Null
  /\ seq' = Append(seq, NewIterator)
  /\ key' = [key EXCEPT ![NewIterator] = k]
  /\ UNCHANGED <<tab, past>>

KeysIn(s, ky)  == [i \in DOMAIN s |-> ky[s[i]]]

\* sort(): the iterators stay, the keys change places.
SortedKeys ==
  LET sorted == SortSeq(KeysIn(seq, key), <)
  IN [it \in Iterators |-> IF it \in Range(seq) THEN sorted[CHOOSE i \in DOMAIN seq : seq[i] = it] ELSE Null]

Sort == Becomes(seq, SortedKeys, Rehashed(DirtyTable, seq, SortedKeys, 0, FALSE))

Ascending(ks) == [i \in 1 .. Cardinality(ks) |-> CHOOSE k \in ks : Cardinality({j \in ks : j < k}) = i - 1]

\* Copy assignment, or copy construction when the table is new, from a table of the keys ks.
CopyAssign(ks, otherIsDirty) ==
  LET from == Ascending(ks)
      s    == [i \in DOMAIN from |-> i]
      ky   == [it \in Iterators |-> IF it \in DOMAIN from THEN from[it] ELSE Null]
      t    == IF otherIsDirty THEN DirtyTable ELSE tab
  IN /\ Cardinality(ks) \in CopySizes
     /\ Becomes(s, ky, Rehashed(t, s, ky, 0, FALSE))

(***************************************************************************)
(* Three things the code does break the table: a rehash of a dirty table   *)
(* that writes past the buckets, the insertion of a value that a tombstone *)
(* hides, and a copy whose rehash() finds nothing to do.  Next leaves them *)
(* out; the specifications after it put the first and the third back.      *)
(***************************************************************************)
Sequences ==
  \/ \E k \in Keys : Erase(k) \/ PushBack(k)
  \/ \E i, j \in DOMAIN seq : i <= j /\ EraseRange(i, j)
  \/ \E n \in Sizes \cup {0} : Rehash(n)
  \/ Sequence \/ Sort \/ Clear

Copies == \E ks \in SUBSET Keys, d \in BOOLEAN : CopyAssign(ks, d)

Next ==
  \/ Sequences /\ past' = FALSE
  \/ \E k \in Keys : ~Hidden(k) /\ Emplace(k)
  \/ Copies /\ past' = FALSE /\ tab' # tab

Spec       == Init /\ [][Next]_vars
SpecCopy   == Init /\ [][Next \/ Copies]_vars
SpecDedupe == Init /\ [][Next \/ Sequences]_vars

-----------------------------------------------------------------------------
(***************************************************************************)
(* The shape of the table: a mask is one less than a power of two, there   *)
(* is a bucket for every index up to it, and a table that is not dirty     *)
(* never stores a distance above the largest one (SparseFlatNodeHashTable).*)
(***************************************************************************)
TypeOK ==
  /\ key \in [Iterators -> Keys \cup {Null}]
  /\ IsInjective(seq) /\ Range(seq) = {i \in Iterators : key[i] # Null}
  /\ \E n \in 0 .. 10 : tab.mask + 1 = 2^n
  /\ tab.b \in [0 .. tab.mask -> [dist : -1 .. Tombstone, it : Iterators \cup {Null}]]
  /\ tab.max \in 1 .. MaxDistance \cup {Dirty}
  /\ tab.target = IF tab.mask = 0 /\ tab.b[0] = NoNode THEN 0 ELSE ((tab.mask + 1) * LoadNum) \div LoadDen

Clean  == tab.max # Dirty
Robin  == tab.max < MaxDistance
Values == {i \in 0 .. tab.mask : tab.b[i].it # Null}

(***************************************************************************)
(* The index is a robin hood table: a stored distance is the real one,     *)
(* nothing between a node's home and the node is free or nearer to its     *)
(* home than the node would be there, and no stored distance exceeds       *)
(* d_max_dist, so that lookup and backward shift may stop where they stop  *)
(* (start_insert, insert_slow, erase_hash).  A linear table has no free    *)
(* bucket that is not a tombstone between a key's home and the key.        *)
(***************************************************************************)
IndexIsSound ==
  Clean => \A i \in Values :
    LET k == key[tab.b[i].it]
        d == Distance(k, tab.mask, i)
    IN IF Robin
       THEN /\ tab.b[i].dist = d /\ d <= tab.max
            /\ \A j \in 0 .. d - 1 : tab.b[(Home(k, tab.mask) + j) % (tab.mask + 1)].dist >= j
       ELSE \A j \in Path(k, tab.mask, d) : tab.b[j].dist # -1

(***************************************************************************)
(* What the user sees: in a table that is not dirty, find(k) reaches one   *)
(* bucket if the sequence holds k and none if it does not, that bucket's   *)
(* iterator is the value's, and no key is in the sequence twice, whatever  *)
(* insertions, erasures, sorts, copies and failed rehashes came before.    *)
(***************************************************************************)
LookupFinds ==
  Clean => \A k \in Keys :
    {tab.b[i].it : i \in FindSlots(k)} = {it \in Iterators : key[it] = k}
    /\ Cardinality(FindSlots(k)) <= 1

FirstOnes(s) == FoldLeft(LAMBDA u, x : IF x \in Range(u) THEN u ELSE Append(u, x), <<>>, s)

(***************************************************************************)
(* rehash_remove_duplicates removes duplicates in a stable way: of equal   *)
(* keys in a dirty sequence the first one stays, in its place, and nothing *)
(* else is lost or moved.  The sequences that sort() and erase(first, last)*)
(* give to a rehash are among the dirty ones.                              *)
(***************************************************************************)
DedupeKeepsFirst ==
  tab.max = Dirty =>
    \A n \in Sizes \cup {0} : RoomIn(n) =>
      LET r == Rehashed(tab, seq, key, n, TRUE)
      IN r.past \/ KeysIn(r.s, key) = FirstOnes(KeysIn(seq, key))

(***************************************************************************)
(* A rehash of a dirty table writes to its own buckets only: the comment   *)
(* on ordered_set says to call rehash() after modifying the sequence, to   *)
(* rehash it and to remove potential duplicates.                           *)
(***************************************************************************)
InBounds == past = FALSE
=============================================================================
