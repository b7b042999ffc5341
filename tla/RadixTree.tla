------------------------------ MODULE RadixTree ------------------------------
(***************************************************************************)
(* RadixTree of seq/internal/radix_tree.hpp, the base of radix_set and     *)
(* radix_map (sorted) and of radix_hash_set and radix_hash_map (not).  The *)
(* bits of a key lead through directories; those between two directories   *)
(* of a sorted tree that all keys below share are a prefix, stored only as *)
(* a length and compared with those of any key below.  Full leaves become  *)
(* directories, a directory full of directories is merged with them, and   *)
(* leaves that run out of bits become vectors.                             *)
(*                                                                         *)
(* The tree is one value, a directory is named by the positions that lead  *)
(* to it, and the operations are functions of the tree.  The model follows *)
(* keys of a fixed number of bits.                                         *)
(***************************************************************************)
EXTENDS Integers, SequencesExt, Evaluation

CONSTANTS
  Keys,         \* a set of numbers
  Types,        \* the instances of the template: ordered, hash, hashBits
  Arity,        \* start_arity: bits that lead through a new directory
  LeafCap,      \* max_capacity: keys of a leaf, at least two
  NoKey         \* none, a negative number

RadixTreeAssumption ==
  /\ Keys \subseteq Nat /\ NoKey \in Int \ Nat
  /\ Arity \in Nat \ {0} /\ LeafCap \in Nat \ {0, 1}
  /\ \A ty \in Types :
       /\ ty.ordered \in BOOLEAN
       /\ \A k \in Keys : ty.hash[k] \in 0 .. 2 ^ ty.hashBits - 1 /\ (ty.ordered => ty.hash[k] = k)

VARIABLES
  type,
  d_data      \* root; size; astray: a step that went to no directory

Ordered  == type.ordered      \* a sorted tree, with prefixes; or neither
Hash(k)  == type.hash[k]      \* the bits of a key, as a number; in a sorted tree the key itself
HashBits == type.hashBits     \* Hash::max_bits

Null        == [tag |-> "null"]
Leaf(keys)  == [tag |-> "leaf", keys |-> keys]
Vector(keys) == [tag |-> "vector", keys |-> keys]
Invalid     == -1

\* first is first_valid_child, a position whose keys have the prefix.
Directory(len, prefix) ==
  [tag |-> "dir", len |-> len, prefix |-> prefix, first |-> Invalid,
   dirs |-> 0, kids |-> 0, child |-> [i \in 0 .. 2 ^ len - 1 |-> Null]]

Empty == [root |-> Directory(0, 0), size |-> 0, astray |-> FALSE]
Init  == type \in Types /\ d_data = Empty

n_bits(h, start, count) == (h \div 2 ^ (HashBits - start - count)) % 2 ^ count

Positions(d)   == DOMAIN d.child
Valid(d)       == {i \in Positions(d) : d.child[i] # Null}
Dirs(d)        == {i \in Positions(d) : d.child[i].tag = "dir"}
FullOfDirs(d)  == d.dirs = 2 ^ d.len

RECURSIVE KeysOf(_)
KeysOf(n) ==
  CASE n = Null       -> <<>>
    [] n.tag = "dir"  -> FlattenSeq([i \in 1 .. 2 ^ n.len |-> KeysOf(n.child[i - 1])])
    [] OTHER          -> n.keys

At(root, path) == FoldLeft(LAMBDA d, i : d.child[i], root, path)

RECURSIVE Graft(_, _, _)
Graft(d, path, new) ==
  IF path = <<>> THEN new
  ELSE [d EXCEPT !.child[Head(path)] = Graft(@, Tail(path), new)]

PutAt(r, path, new) == [r EXCEPT !.root = Graft(@, path, new)]

\* get_bit_pos
BitPos(root, path) ==
  FoldLeft(LAMBDA s, i : [bits |-> s.bits + s.dir.len + s.dir.child[i].prefix, dir |-> s.dir.child[i]],
           [bits |-> root.prefix, dir |-> root], path).bits

-----------------------------------------------------------------------------
(***************************************************************************)
(* any_child, a key below a directory: that of a leaf if it has one, else  *)
(* of the first child.  The position is kept in the directory, by lookups  *)
(* of a const tree too.                                                    *)
(***************************************************************************)
FirstValid(d) ==
  LET leaves == {i \in Valid(d) : d.child[i].tag = "leaf"}
  IN CASE d.first # Invalid                    -> d.first
       [] d.first = Invalid /\ Valid(d) = {}   -> Invalid
       [] OTHER -> IF leaves # {} THEN Min(leaves) ELSE Min(Valid(d))

RECURSIVE AnyChild(_)
AnyChild(d) ==
  LET i == FirstValid(d)
  IN IF i = Invalid THEN NoKey
     ELSE IF d.child[i].tag = "dir" THEN AnyChild(d.child[i])
     ELSE Last(d.child[i].keys)

RECURSIVE Asked(_)
Asked(d) ==
  LET i == FirstValid(d)
      e == [d EXCEPT !.first = i]
  IN IF i = Invalid \/ d.child[i].tag # "dir" THEN e
     ELSE [e EXCEPT !.child[i] = Asked(@)]

Invalidated(d, pos) == [d EXCEPT !.first = IF @ = pos THEN Invalid ELSE @]

SamePrefix(h, g, start, bits) == n_bits(h, start, bits) = n_bits(g, start, bits)

\* compute_common_bits, a multiple of start_arity.
CommonBits(keys, start) ==
  Max({n \in 0 .. HashBits - start :
         n % Arity = 0 /\ \A k, l \in keys : SamePrefix(Hash(k), Hash(l), start, n)})

(***************************************************************************)
(* check_prefix_create_intermediate: directory d, at pos in its parent,    *)
(* gets below a new one, whose prefix is what d's has in common with key.  *)
(***************************************************************************)
Intermediate(d, bits, key) ==
  LET common == CommonBits({key, AnyChild(d)}, bits)
      pos    == n_bits(Hash(AnyChild(d)), bits + common, Arity)
  IN [Directory(Arity, common) EXCEPT
       !.kids = 1, !.dirs = 1, !.first = pos,
       !.child[pos] = [d EXCEPT !.prefix = @ - Arity - common]]

(***************************************************************************)
(* From the directory at path, which begins at bits, down to that of key.  *)
(***************************************************************************)
RECURSIVE Descend(_, _, _, _)
Descend(r, path, bits, key) ==
  LET dir    == At(r.root, path)
      pos    == n_bits(Hash(key), bits, dir.len)
      below  == Append(path, pos)
      next   == bits + dir.len
      d      == dir.child[pos]
      any    == AnyChild(d)
      asked  == PutAt(r, below, Asked(d))
  IN CASE d.tag # "dir" -> [tree |-> r, path |-> path, bits |-> bits]
       [] d.tag = "dir" /\ d.prefix = 0 -> Descend(r, below, next, key)
       [] d.tag = "dir" /\ d.prefix # 0 ->
            IF any = NoKey THEN [tree |-> [r EXCEPT !.astray = TRUE], path |-> path, bits |-> bits]
            ELSE IF SamePrefix(Hash(key), Hash(any), next, d.prefix)
            THEN Descend(asked, below, next + d.prefix, key)
            ELSE LET new == Intermediate(Asked(d), next, key)
                 IN Descend(PutAt(r, below, new), below, next + new.prefix, key)

-----------------------------------------------------------------------------
(***************************************************************************)
(* merge_dir: the children of a directory full of directories come to a    *)
(* larger one in its place.  A child with a prefix stays a child; one of   *)
(* more than start_arity bits is cut into directories of its low bits,     *)
(* though there may be nothing in one; others give their children.         *)
(***************************************************************************)
Cut(c, part) ==
  LET low    == c.len - Arity
      child  == [j \in 0 .. 2 ^ low - 1 |-> c.child[part * 2 ^ low + j]]
      d      == [Directory(low, 0) EXCEPT !.child = child]
      leaves == Valid(d) \ Dirs(d)
  IN [d EXCEPT !.kids = Cardinality(Valid(d)), !.dirs = Cardinality(Dirs(d)),
               !.first = CASE leaves # {} -> Max(leaves)
                           [] leaves = {} /\ Valid(d) # {} -> Min(Valid(d))
                           [] OTHER -> Invalid]

\* Mutant: the bits of a prefix are those after it.
SpreadPastPrefix(c, i, bits) ==
  IF Ordered /\ c.prefix >= Arity
  THEN {<<i * 2 ^ Arity + n_bits(Hash(AnyChild(c)), bits + c.prefix, Arity),
          [Asked(c) EXCEPT !.prefix = @ - Arity]>>}
  ELSE IF c.len # Arity
  THEN {<<i * 2 ^ Arity + part, Cut(c, part)>> : part \in 0 .. 2 ^ Arity - 1}
  ELSE {<<i * 2 ^ Arity + j, c.child[j]>> : j \in Valid(c)}

\* Child i in a directory of start_arity more bits: <<position, child>>, ...
Spread(c, i, bits) ==
  IF Ordered /\ c.prefix >= Arity
  THEN {<<i * 2 ^ Arity + n_bits(Hash(AnyChild(c)), bits, Arity),
          [Asked(c) EXCEPT !.prefix = @ - Arity]>>}
  ELSE IF c.len # Arity
  THEN {<<i * 2 ^ Arity + part, Cut(c, part)>> : part \in 0 .. 2 ^ Arity - 1}
  ELSE {<<i * 2 ^ Arity + j, c.child[j]>> : j \in Valid(c)}

Joined(d, bits) ==
  Once(UNION {Spread(d.child[i], i, bits + d.len) : i \in Positions(d)}, LAMBDA moved :
    [Directory(d.len + Arity, d.prefix) EXCEPT
      !.child = [p \in DOMAIN @ |->
        IF \E m \in moved : m[1] = p THEN (CHOOSE m \in moved : m[1] = p)[2] ELSE Null],
      !.kids = Cardinality({m \in moved : m[2] # Null}),
      !.dirs = Cardinality({m \in moved : m[2].tag = "dir"})])

\* A directory below which a prefix has no key to be compared with.
Unasked(d) ==
  \E i \in Positions(d) : Ordered /\ d.child[i].prefix >= Arity /\ AnyChild(d.child[i]) = NoKey

\* It is merged again while it is full, and then its parent if that is.
RECURSIVE Merge(_, _)
Merge(r, path) ==
  LET up   == SubSeq(path, 1, Len(path) - 1)
      Kept(put) == IF path = <<>> THEN put
                   ELSE PutAt(put, up, Invalidated(At(put.root, up), Last(path)))
      Full(tree) == path # <<>> /\ FullOfDirs(At(tree.root, up))
  IN Once(At(r.root, path), LAMBDA d :
       IF Unasked(d) THEN [r EXCEPT !.astray = TRUE]
       ELSE Once(Joined(d, BitPos(r.root, path)), LAMBDA new :
              Once(Kept(PutAt(r, path, new)), LAMBDA put :
                IF FullOfDirs(new) THEN [Merge(put, path) EXCEPT !.astray = @ \/ Full(r)]
                ELSE IF Full(r) THEN Merge(put, up) ELSE put)))

-----------------------------------------------------------------------------
(***************************************************************************)
(* Insertion.  Leaves are only kept sorted in a sorted tree, and while a   *)
(* range is inserted not there either.                                     *)
(***************************************************************************)
WithKey(keys, k, sorted) ==
  LET i == IF sorted THEN Cardinality({j \in DOMAIN keys : keys[j] < k}) ELSE Len(keys)
  IN InsertAt(keys, i + 1, k)

\* The keys of a full leaf in a directory that begins at bits.
Distributed(keys, common, bits, sorted) ==
  LET Add(d, k) ==
        LET pos == n_bits(Hash(k), bits, Arity)
        IN IF d.child[pos] = Null
           THEN [d EXCEPT !.child[pos] = Leaf(<<k>>), !.kids = @ + 1, !.first = pos]
           ELSE [d EXCEPT !.child[pos].keys = WithKey(@, k, sorted)]
  IN FoldLeft(Add, Directory(Arity, common), keys)

\* The full leaf at pos of dir becomes a directory, below a prefix that begins at bits.
Split(dir, pos, bits, sorted) ==
  LET keys   == dir.child[pos].keys
      common == IF Ordered THEN CommonBits(ToSet(keys), bits) ELSE 0
  IN [dir EXCEPT !.child[pos] = Distributed(keys, common, bits + common, sorted), !.dirs = @ + 1]

\* Whether a key comes to stand in a directory itself, at bits, and what becomes of that.
Fits(leaf, bits) ==
  \/ leaf = Null \/ leaf.tag = "vector"
  \/ leaf.tag = "leaf" /\ (Len(leaf.keys) < LeafCap \/ bits > HashBits - Arity)

PutKey(dir, pos, leaf, key, sorted) ==
  CASE leaf = Null -> [dir EXCEPT !.child[pos] = Leaf(<<key>>), !.kids = @ + 1, !.first = pos]
    [] leaf # Null /\ leaf.tag = "vector" -> [dir EXCEPT !.child[pos].keys = WithKey(@, key, Ordered)]
    [] leaf # Null /\ leaf.tag = "leaf" ->
         IF Len(leaf.keys) < LeafCap
         THEN [dir EXCEPT !.child[pos].keys = WithKey(@, key, sorted), !.first = pos]
         ELSE [dir EXCEPT !.child[pos] = Vector(
                 WithKey(IF Ordered THEN SortSeq(leaf.keys, <) ELSE leaf.keys, key, Ordered))]

RECURSIVE InsertFrom(_, _, _, _)
InsertThere(r, path, dir, pos, next, key, sorted) ==
  LET leaf == dir.child[pos]
  IN IF leaf # Null /\ Contains(leaf.keys, key) THEN r
     ELSE IF Fits(leaf, next)
     THEN [PutAt(r, path, PutKey(dir, pos, leaf, key, sorted)) EXCEPT !.size = @ + 1]
     ELSE Once(Split(dir, pos, next, sorted), LAMBDA split :
            LET full == FullOfDirs(split)
                put  == PutAt(r, path, IF full THEN split ELSE Invalidated(split, pos))
            IN Once(IF full THEN Merge(put, path) ELSE put, LAMBDA new :
                 InsertFrom(new, IF full THEN <<>> ELSE path, key, sorted)))

InsertFrom(tree, at, key, sorted) ==
  Once(Descend(tree, at, BitPos(tree.root, at), key), LAMBDA f :
    Once(At(f.tree.root, f.path), LAMBDA dir :
      IF f.tree.astray THEN f.tree
      ELSE InsertThere(f.tree, f.path, dir, n_bits(Hash(key), f.bits, dir.len), f.bits + dir.len, key, sorted)))

\* The bits of the root that a reserve() may ask for.
RootBits == IF Ordered THEN {0} ELSE 1 .. HashBits

Made(r) == IF r.root.len = 0 THEN [r EXCEPT !.root = Directory(Arity, 0)] ELSE r

Insert(r, key) == InsertFrom(Made(r), <<>>, key, Ordered)

RECURSIVE PathFrom(_, _, _)
PathFrom(d, bits, key) ==
  LET pos == n_bits(Hash(key), bits, d.len)
      c   == d.child[pos]
  IN IF c.tag # "dir" THEN <<>> ELSE <<pos>> \o PathFrom(c, bits + d.len + c.prefix, key)

PathTo(r, key) == PathFrom(r.root, 0, key)

(***************************************************************************)
(* emplace_hash_hint: from the directory of an iterator to key near, if it *)
(* is not to a vector, and the bits before that directory are those of key.*)
(***************************************************************************)
InsertNear(r, near, key, sorted) ==
  LET path == PathTo(r, near)
      dir  == At(r.root, path)
      bits == BitPos(r.root, path)
      any  == AnyChild(dir)
      hint == Ordered /\ near # NoKey /\ dir.child[n_bits(Hash(near), bits, dir.len)].tag # "vector"
      same == hint /\ SamePrefix(Hash(key), Hash(any), 0, bits)
  IN IF hint /\ any = NoKey THEN [r EXCEPT !.astray = TRUE]
     ELSE Once(IF hint THEN PutAt(r, path, Asked(dir)) ELSE Made(r), LAMBDA tree :
            InsertFrom(tree, IF same THEN path ELSE <<>>, key, sorted))

RECURSIVE SortLeaves(_)
SortLeaves(n) ==
  CASE n.tag = "leaf" -> [n EXCEPT !.keys = SortSeq(@, <)]
    [] n.tag = "dir"  -> [n EXCEPT !.child = [i \in DOMAIN @ |-> SortLeaves(@[i])]]
    [] OTHER -> n

\* insert(first, last): each key near the last one.
RECURSIVE InsertAll(_, _, _)
InsertAll(r, near, keys) ==
  IF keys = <<>> THEN r
  ELSE Once(InsertNear(r, near, Head(keys), FALSE), LAMBDA tree : InsertAll(tree, Head(keys), Tail(keys)))

InsertRange(r, keys, sort) ==
  Once(InsertAll(r, NoKey, keys), LAMBDA all :
    IF Ordered /\ sort THEN [all EXCEPT !.root = SortLeaves(@)] ELSE all)

\* Copies, shrink_to_fit() and reserve(): all keys, in a tree whose root has so many bits.
Rebuilt(r, bits) ==
  InsertRange([Empty EXCEPT !.root = Directory(bits, 0)], KeysOf(r.root), FALSE)

-----------------------------------------------------------------------------
(***************************************************************************)
(* Erasure.  Directories that became empty go, but the root stays.  In a   *)
(* sorted tree a large directory with few children goes too, its keys are  *)
(* inserted again, and with them, as the last one, the key it stands at.   *)
(***************************************************************************)
RECURSIVE Pruned(_, _)
Pruned(r, path) ==
  LET up == SubSeq(path, 1, Len(path) - 1)
      p  == At(r.root, up)
      d  == [p EXCEPT !.child[Last(path)] = Null, !.kids = @ - 1, !.dirs = @ - 1]
  IN IF path = <<>> \/ At(r.root, path).kids # 0 THEN [tree |-> r, path |-> path]
     ELSE Pruned(PutAt(r, up, Invalidated(d, Last(path))), up)

RemoveDirectory(r, path) ==
  LET up == SubSeq(path, 1, Len(path) - 1)
      d  == At(r.root, path)
      p  == [At(r.root, up) EXCEPT !.child[Last(path)] = Null, !.kids = @ - 1,
                                   !.dirs = @ - 1, !.first = Invalid]
      cut == IF path = <<>> THEN PutAt(r, <<>>, Directory(d.len - Arity, 0))
             ELSE Pruned(PutAt(r, up, p), up).tree
  IN [cut EXCEPT !.size = @ - Len(KeysOf(d))]

Sparse(d) == Ordered /\ d.len # Arity /\ d.kids < 2 ^ (d.len - Arity)

RemoveKey(r, key) ==
  LET path  == PathTo(r, key)
      dir   == At(r.root, path)
      pos   == n_bits(Hash(key), BitPos(r.root, path), dir.len)
      rest  == Remove(dir.child[pos].keys, key)
      less  == [r EXCEPT !.size = @ - 1]
  IN IF rest # <<>>
     THEN [tree |-> PutAt(less, path, [dir EXCEPT !.child[pos].keys = rest]), path |-> path,
           emptied |-> FALSE]
     ELSE LET left == Pruned(PutAt(less, path, Invalidated([dir EXCEPT !.child[pos] = Null,
                                                                       !.kids = @ - 1], pos)), path)
          IN [tree |-> left.tree, path |-> left.path, emptied |-> TRUE]

RECURSIVE InsertAgain(_, _)
InsertAgain(r, keys) ==
  IF keys = <<>> \/ r.astray THEN r
  ELSE Once(InsertFrom(r, <<>>, Head(keys), TRUE), LAMBDA tree : InsertAgain(tree, Tail(keys)))

Rebalance(r, path, it) ==
  LET keys   == KeysOf(At(r.root, path))
      away   == IF it = NoKey \/ Contains(keys, it) THEN r ELSE RemoveKey(r, it).tree
      others == SelectSeq(keys, LAMBDA k : k # it)
  IN Once(RemoveDirectory(away, path), LAMBDA cut :
       InsertAgain(cut, IF it = NoKey THEN others ELSE Append(others, it)))

Next1(keys, key) ==
  LET i == SelectInSeq(keys, LAMBDA k : k = key)
  IN IF i = Len(keys) THEN NoKey ELSE keys[i + 1]

Erase(r, key) ==
  LET it == Next1(KeysOf(r.root), key)
  IN Once(RemoveKey(r, key), LAMBDA left :
       IF left.emptied /\ Sparse(At(left.tree.root, left.path))
       THEN Rebalance(left.tree, left.path, it) ELSE left.tree)

\* Keys i + 1 .. j; all of them at once.
EraseRange(r, i, j) ==
  LET keys == KeysOf(r.root)
  IN IF i = 0 /\ j = Len(keys) THEN Empty
     ELSE FoldLeft(LAMBDA s, k : IF s.astray THEN s ELSE Erase(s, k), r, SubSeq(keys, i + 1, j))

-----------------------------------------------------------------------------
(***************************************************************************)
(* Lookups and iterators.                                                  *)
(***************************************************************************)
RECURSIVE FindLeaf(_, _, _)
FindLeaf(d, bits, key) ==
  LET c    == d.child[n_bits(Hash(key), bits, d.len)]
      next == bits + d.len
  IN CASE c = Null -> <<>>
       [] c # Null /\ c.tag = "dir" ->
            IF SamePrefix(Hash(key), Hash(AnyChild(c)), next, c.prefix)
            THEN FindLeaf(c, next + c.prefix, key) ELSE <<>>
       [] OTHER -> c.keys

\* The positions that a lookup keeps.
RECURSIVE Looked(_, _, _)
Looked(d, bits, key) ==
  LET pos  == n_bits(Hash(key), bits, d.len)
      c    == IF d.child[pos].tag = "dir" /\ d.child[pos].prefix # 0 THEN Asked(d.child[pos]) ELSE d.child[pos]
      next == bits + d.len
  IN IF c.tag # "dir" THEN d
     ELSE [d EXCEPT !.child[pos] =
            IF SamePrefix(Hash(key), Hash(AnyChild(c)), next, c.prefix)
            THEN Looked(c, next + c.prefix, key) ELSE c]

Find(r, key) == Contains(FindLeaf(r.root, 0, key), key)

\* The first key from position pos of the directory at path on, or the last one up to it.
RECURSIVE FindNext(_, _, _)
FindNext(r, path, pos) ==
  LET d == At(r.root, path)
      P == {i \in Valid(d) : i >= pos}
      i == Min(P)
  IN IF P = {}
     THEN IF path = <<>> THEN NoKey ELSE FindNext(r, SubSeq(path, 1, Len(path) - 1), Last(path) + 1)
     ELSE IF d.child[i].tag = "dir" THEN FindNext(r, Append(path, i), 0)
     ELSE Head(d.child[i].keys)

RECURSIVE FindPrev(_, _, _)
FindPrev(r, path, pos) ==
  LET d == At(r.root, path)
      P == {i \in Valid(d) : i <= pos}
      i == Max(P)
  IN IF P = {}
     THEN IF path = <<>> THEN NoKey ELSE FindPrev(r, SubSeq(path, 1, Len(path) - 1), Last(path) - 1)
     ELSE IF d.child[i].tag = "dir" THEN FindPrev(r, Append(path, i), 2 ^ d.child[i].len)
     ELSE Last(d.child[i].keys)

\* The directory of a key, its position there, and the keys of its leaf.
Place(r, key) ==
  LET path == PathTo(r, key)
      d    == At(r.root, path)
      pos  == n_bits(Hash(key), BitPos(r.root, path), d.len)
  IN [path |-> path, pos |-> pos, keys |-> d.child[pos].keys]

Increment(r, key) ==
  LET p == Place(r, key)
      k == Next1(p.keys, key)
  IN IF k # NoKey THEN k ELSE FindNext(r, p.path, p.pos + 1)

Decrement(r, key) ==
  LET p == Place(r, key)
      k == Next1(Reverse(p.keys), key)
  IN IF k # NoKey THEN k ELSE FindPrev(r, p.path, p.pos - 1)

(***************************************************************************)
(* lower_bound_hash.  If the prefix is not that of the key, all keys below *)
(* the directory come before it, or all after it.                          *)
(***************************************************************************)
RECURSIVE Lower(_, _, _, _)
Lower(r, path, bits, key) ==
  LET d    == At(r.root, path)
      pos  == n_bits(Hash(key), bits, d.len)
      c    == d.child[pos]
      next == bits + d.len
      least == {k \in ToSet(c.keys) : k >= key}
  IN CASE c = Null -> FindNext(r, path, pos + 1)
       [] c # Null /\ c.tag = "dir" ->
            IF SamePrefix(key, AnyChild(c), next, c.prefix)
            THEN Lower(r, Append(path, pos), next + c.prefix, key)
            ELSE IF AnyChild(c) < key THEN FindNext(r, path, pos + 1)
            ELSE FindNext(r, Append(path, pos), 0)
       [] OTHER -> IF least # {} THEN Min(least) ELSE FindNext(r, path, pos + 1)

LowerBound(r, key) == Lower(r, <<>>, 0, key)

-----------------------------------------------------------------------------
(***************************************************************************)
(* Calls.  An empty directory that merge_dir made leads searches for a key *)
(* below astray: trees where one has been are left out.                    *)
(***************************************************************************)
RECURSIVE Barren(_)
Barren(d) ==
  \/ d.prefix # 0 /\ AnyChild(d) = NoKey
  \/ \E i \in Dirs(d) : Barren(d.child[i])

Becomes(r) == ~r.astray /\ ~Barren(r.root) /\ d_data' = r /\ UNCHANGED type

Values == KeysOf(d_data.root)
Ascending(K) == [i \in 1 .. Cardinality(K) |-> CHOOSE k \in K : Cardinality({l \in K : l < k}) = i - 1]
Nears  == ToSet(Values) \cup {NoKey}

CallEmplace     == \E k \in Keys : Becomes(Insert(d_data, k))
CallEmplaceHint == \E k \in Keys : \E near \in Nears : Becomes(InsertNear(d_data, near, k, Ordered))
CallErase       == \E k \in ToSet(Values) : Becomes(Erase(d_data, k))
CallEraseRange  == \E i \in 0 .. d_data.size : \E j \in i .. d_data.size : Becomes(EraseRange(d_data, i, j))
CallFind        == \E k \in Keys : Becomes([d_data EXCEPT !.root = Looked(@, 0, k)])
CallShrink      == \E bits \in RootBits : Becomes(Rebuilt(d_data, bits))

\* bound: the keys of a range are new, and in order
CallInsertRange ==
  \E K \in SUBSET (Keys \ ToSet(Values)) : Becomes(InsertRange(d_data, Ascending(K), TRUE))

Next ==
  \/ CallEmplace \/ CallEmplaceHint \/ CallInsertRange
  \/ CallErase \/ CallEraseRange \/ CallFind \/ CallShrink

vars == <<type, d_data>>
Spec == Init /\ [][Next]_vars

-----------------------------------------------------------------------------
\* Properties.

(***************************************************************************)
(* The counts a directory keeps are those of its children, keys are where  *)
(* their bits lead and share the prefix of each directory above, and no    *)
(* directory is left full of directories.                                  *)
(***************************************************************************)
RECURSIVE ExactFrom(_, _)
ExactFrom(d, start) ==
  LET bits == start + d.prefix
      keys == ToSet(KeysOf(d))
  IN
  /\ bits + d.len <= HashBits
  /\ \A k, l \in keys : SamePrefix(Hash(k), Hash(l), start, d.prefix)
  /\ d.kids = Cardinality(Valid(d)) /\ d.dirs = Cardinality(Dirs(d)) /\ ~FullOfDirs(d)
  /\ d.first \in Valid(d) \cup {Invalid}
  /\ \A i \in Valid(d) :
       LET c == d.child[i] IN
       /\ \A k \in ToSet(KeysOf(c)) : n_bits(Hash(k), bits, d.len) = i
       /\ c.tag = "dir" => ExactFrom(c, bits + d.len)
       /\ c.tag # "dir" => c.keys # <<>>
       /\ c.tag = "leaf" => Len(c.keys) <= LeafCap
       /\ c.tag = "vector" => bits + d.len > HashBits - Arity

Exact(r) == ExactFrom(r.root, 0) /\ r.size = Len(KeysOf(r.root))

TreeExact == Exact(d_data)

(***************************************************************************)
(* Every call changes the keys as it says, whatever directories it makes,  *)
(* merges and takes away; lookups and bounds find what is there, and       *)
(* iterators go over all of it, in order in a sorted tree.                 *)
(***************************************************************************)
Holds(r, K) == r.astray \/ (Len(KeysOf(r.root)) = Cardinality(K) /\ ToSet(KeysOf(r.root)) = K)

KeepsPromise ==
  LET r == d_data
      s == Values
      K == ToSet(s)
  IN
  /\ Ordered => s = Ascending(K)
  /\ \A k \in Keys :
       /\ Find(r, k) <=> k \in K
       /\ \A near \in Nears : Holds(InsertNear(r, near, k, Ordered), K \cup {k})
       /\ Ordered => LowerBound(r, k) = LET above == {l \in K : l >= k}
                                        IN IF above = {} THEN NoKey ELSE Min(above)
  /\ \A i \in DOMAIN s :
       /\ Holds(Erase(r, s[i]), K \ {s[i]})
       /\ Increment(r, s[i]) = (IF i = Len(s) THEN NoKey ELSE s[i + 1])
       /\ Decrement(r, s[i]) = (IF i = 1 THEN NoKey ELSE s[i - 1])
  /\ \A bits \in RootBits : Holds(Rebuilt(r, bits), K)

(***************************************************************************)
(* "SEQ_ASSERT_DEBUG(first_valid_child < size())" (radix_tree.hpp:1208):   *)
(* wherever an insertion goes for the prefix of a directory, it has a key. *)
(***************************************************************************)
AnyChildFinds == \A k \in Keys : ~Insert(d_data, k).astray
=============================================================================
