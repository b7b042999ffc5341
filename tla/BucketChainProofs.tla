--------------------------- MODULE BucketChainProofs ---------------------------
(***************************************************************************)
(* For every number of keys, nodes and buckets, every size of a node and   *)
(* every hash: the buckets of a ChainingHashTable are chains without a     *)
(* gap or a leak, a lookup finds the keys that are there and no other, and *)
(* erase_if asks for every value once, whatever was inserted, erased or    *)
(* rehashed before, and whichever allocation of a rehash failed.           *)
(***************************************************************************)
EXTENDS BucketChain, PowersOfTwo, SequenceTheorems

-----------------------------------------------------------------------------
(***************************************************************************)
(* The chains: ch[b] is the sequence of the nodes of bucket b, root[n] the *)
(* bucket of node n and depth[n] its place in the chain.                   *)
(***************************************************************************)
Height(ch, b) == Len(ch[b])

Numbered(D, B, ch, root, depth) ==
  /\ \A n \in D : root[n] \in B /\ depth[n] \in 1 .. Height(ch, root[n]) /\ ch[root[n]][depth[n]] = n
  /\ \A b \in B : ch[b] \in Seq(D) /\ Height(ch, b) > 0 /\ ch[b][1] = b
  /\ \A b \in B : \A i \in 1 .. Height(ch, b) : root[ch[b][i]] = b /\ depth[ch[b][i]] = i

\* Node n, which is d, is number i of h in the chain c.
Linked(d, n, c, h, i) ==
  /\ d \in NodeType(n)
  /\ d.left = (IF i = 1 THEN Null ELSE c[i - 1])
  /\ d.right = (IF i = h THEN Null ELSE c[i + 1])
  /\ i < h => d.count = Capacity(n)
  /\ i > 1 => n \in Addresses /\ d.count > 0

Links(mem, B, ch, root, depth) ==
  /\ DOMAIN mem \subseteq Nodes /\ DOMAIN mem \cap Main = B
  /\ Numbered(DOMAIN mem, B, ch, root, depth)
  /\ \A n \in DOMAIN mem : Linked(mem[n], n, ch[root[n]], Height(ch, root[n]), depth[n])

LastOf(ch, b) == ch[b][Height(ch, b)]

\* Addresses, buckets and Null are different things.
LEMMA Apart ==
  ASSUME BucketChainAssumption
  PROVE  Null \notin Nodes /\ Null \notin Keys /\ Addresses \cap Main = {}
BY DEF BucketChainAssumption

\* A node holds at least one value.
LEMMA CapacityPositive ==
  ASSUME BucketChainAssumption, NEW n
  PROVE  Capacity(n) \in Nat \ {0}
BY DEF BucketChainAssumption, Capacity

\* The largest mask is a positive number.
LEMMA MaxMaskType ==
  ASSUME BucketChainAssumption
  PROVE  MaxMask \in Nat \ {0}
BY DEF BucketChainAssumption

\* Where a node is, and what is on its left and on its right.
LEMMA Place ==
  ASSUME BucketChainAssumption, NEW mem, NEW B, NEW ch, NEW root, NEW depth,
         Links(mem, B, ch, root, depth), NEW n \in DOMAIN mem
  PROVE  /\ root[n] \in B /\ root[n] \in DOMAIN mem /\ root[n] \in Main
         /\ ch[root[n]] \in Seq(DOMAIN mem) /\ Height(ch, root[n]) \in Nat
         /\ depth[n] \in 1 .. Height(ch, root[n]) /\ ch[root[n]][depth[n]] = n
         /\ depth[n] = 1 => n = root[n] /\ mem[n].left = Null /\ n \in Main
         /\ depth[n] > 1 => n \in Addresses /\ mem[n].count > 0
         /\ mem[n] \in NodeType(n) /\ mem[n].count \in 0 .. Capacity(n)
         /\ n \in Nodes /\ n # Null /\ Capacity(n) \in Nat \ {0}
<1>1. root[n] \in B /\ depth[n] \in 1 .. Height(ch, root[n]) /\ ch[root[n]][depth[n]] = n
  BY DEF Links, Numbered
<1>2. ch[root[n]] \in Seq(DOMAIN mem) /\ ch[root[n]][1] = root[n]
  BY <1>1 DEF Links, Numbered
<1>3. Linked(mem[n], n, ch[root[n]], Height(ch, root[n]), depth[n]) /\ n \in Nodes
  BY DEF Links
<1>4. root[n] \in DOMAIN mem /\ root[n] \in Main
  BY <1>1 DEF Links
<1>5. Height(ch, root[n]) \in Nat
  BY <1>2, LenProperties DEF Height
<1>6. depth[n] = 1 => n = root[n] /\ mem[n].left = Null /\ n \in Main
  BY <1>1, <1>2, <1>3, <1>4 DEF Linked
<1>7. depth[n] > 1 => n \in Addresses /\ mem[n].count > 0
  BY <1>3 DEF Linked
<1>8. mem[n] \in NodeType(n) /\ mem[n].count \in 0 .. Capacity(n)
  BY <1>3 DEF Linked, NodeType
<1>9. n # Null /\ Capacity(n) \in Nat \ {0}
  BY <1>3, Apart, CapacityPositive
<1>10. QED
  BY <1>1, <1>2, <1>3, <1>4, <1>5, <1>6, <1>7, <1>8, <1>9

\* The first node of a chain is the one of the bucket.
LEMMA FirstNode ==
  ASSUME BucketChainAssumption, NEW mem, NEW B, NEW ch, NEW root, NEW depth,
         Links(mem, B, ch, root, depth), NEW n \in DOMAIN mem, depth[n] = 1
  PROVE  n = root[n] /\ mem[n].left = Null /\ n \in Main
<1>1. root[n] \in B /\ ch[root[n]][1] = n
  BY DEF Links, Numbered
<1>2. n = root[n] /\ n \in Main
  BY <1>1 DEF Links, Numbered
<1>3. Linked(mem[n], n, ch[root[n]], Height(ch, root[n]), 1)
  BY DEF Links
<1>4. QED
  BY <1>2, <1>3 DEF Linked

\* Bucket b is the first node of its chain.
LEMMA First ==
  ASSUME BucketChainAssumption, NEW mem, NEW B, NEW ch, NEW root, NEW depth,
         Links(mem, B, ch, root, depth), NEW b \in B
  PROVE  /\ b \in DOMAIN mem /\ root[b] = b /\ depth[b] = 1
         /\ ch[b] \in Seq(DOMAIN mem) /\ Height(ch, b) \in Nat \ {0}
         /\ LastOf(ch, b) \in DOMAIN mem
         /\ root[LastOf(ch, b)] = b /\ depth[LastOf(ch, b)] = Height(ch, b)
<1>1. ch[b] \in Seq(DOMAIN mem) /\ Height(ch, b) > 0 /\ ch[b][1] = b
  BY DEF Links, Numbered
<1>2. Height(ch, b) \in Nat \ {0} /\ 1 \in 1 .. Height(ch, b) /\ Height(ch, b) \in 1 .. Height(ch, b)
  BY <1>1, LenProperties DEF Height
<1>3. \A i \in 1 .. Height(ch, b) : root[ch[b][i]] = b /\ depth[ch[b][i]] = i
  BY DEF Links, Numbered
<1>4. b \in DOMAIN mem
  BY DEF Links
<1>5. root[b] = b /\ depth[b] = 1
  BY <1>1, <1>2, <1>3
<1>6. LastOf(ch, b) \in DOMAIN mem
  BY <1>1, <1>2, ElementOfSeq DEF LastOf, Height
<1>7. root[LastOf(ch, b)] = b /\ depth[LastOf(ch, b)] = Height(ch, b)
  BY <1>2, <1>3 DEF LastOf
<1>8. QED
  BY <1>1, <1>2, <1>4, <1>5, <1>6, <1>7

\* Two nodes with the same number in the same chain are one.
LEMMA OnePlace ==
  ASSUME BucketChainAssumption, NEW mem, NEW B, NEW ch, NEW root, NEW depth,
         Links(mem, B, ch, root, depth), NEW m \in DOMAIN mem, NEW n \in DOMAIN mem,
         root[m] = root[n], depth[m] = depth[n]
  PROVE  m = n
<1>1. ch[root[m]][depth[m]] = m /\ ch[root[n]][depth[n]] = n
  BY DEF Links, Numbered
<1>2. QED
  BY <1>1

\* The node on the right, and on the left, is the next, and the one before.
LEMMA Neighbours ==
  ASSUME BucketChainAssumption, NEW mem, NEW B, NEW ch, NEW root, NEW depth,
         Links(mem, B, ch, root, depth), NEW n \in DOMAIN mem
  PROVE  /\ depth[n] < Height(ch, root[n]) =>
              /\ mem[n].count = Capacity(n)
              /\ mem[n].right = ch[root[n]][depth[n] + 1]
              /\ mem[n].right \in DOMAIN mem
              /\ root[mem[n].right] = root[n] /\ depth[mem[n].right] = depth[n] + 1
         /\ depth[n] = Height(ch, root[n]) => mem[n].right = Null /\ n = LastOf(ch, root[n])
         /\ depth[n] > 1 =>
              /\ mem[n].left = ch[root[n]][depth[n] - 1]
              /\ mem[n].left \in DOMAIN mem
              /\ root[mem[n].left] = root[n] /\ depth[mem[n].left] = depth[n] - 1
<1> DEFINE c == ch[root[n]]
           h == Height(ch, root[n])
<1>1. /\ root[n] \in B /\ c \in Seq(DOMAIN mem) /\ h \in Nat
      /\ depth[n] \in 1 .. h /\ c[depth[n]] = n
  BY Place
<1>2. /\ mem[n].left = (IF depth[n] = 1 THEN Null ELSE c[depth[n] - 1])
      /\ mem[n].right = (IF depth[n] = h THEN Null ELSE c[depth[n] + 1])
      /\ depth[n] < h => mem[n].count = Capacity(n)
  BY DEF Links, Linked
<1>3. ASSUME NEW i \in 1 .. h
      PROVE  c[i] \in DOMAIN mem /\ root[c[i]] = root[n] /\ depth[c[i]] = i
  <2>1. c[i] \in DOMAIN mem
    BY <1>1, ElementOfSeq DEF Height
  <2>2. QED
    BY <1>1, <2>1 DEF Links, Numbered
<1> HIDE DEF c, h
<1>4. ASSUME depth[n] < h
      PROVE  /\ mem[n].count = Capacity(n) /\ mem[n].right = c[depth[n] + 1]
             /\ mem[n].right \in DOMAIN mem
             /\ root[mem[n].right] = root[n] /\ depth[mem[n].right] = depth[n] + 1
  <2>1. depth[n] + 1 \in 1 .. h /\ depth[n] # h
    BY <1>1, <1>4
  <2>2. QED
    BY <1>2, <1>3, <1>4, <2>1
<1>5. ASSUME depth[n] = h
      PROVE  mem[n].right = Null /\ n = c[h]
  BY <1>1, <1>2, <1>5
<1>6. ASSUME depth[n] > 1
      PROVE  /\ mem[n].left = c[depth[n] - 1] /\ mem[n].left \in DOMAIN mem
             /\ root[mem[n].left] = root[n] /\ depth[mem[n].left] = depth[n] - 1
  <2>1. depth[n] - 1 \in 1 .. h /\ depth[n] # 1
    BY <1>1, <1>6
  <2>2. QED
    BY <1>2, <1>3, <2>1
<1>7. QED
  BY <1>4, <1>5, <1>6 DEF c, h, LastOf

-----------------------------------------------------------------------------
(***************************************************************************)
(* Chain() follows the links to the right: induction on what is left of    *)
(* the chain.                                                              *)
(***************************************************************************)
LEMMA ChainIs ==
  ASSUME BucketChainAssumption, NEW mem, NEW B, NEW ch, NEW root, NEW depth,
         Links(mem, B, ch, root, depth), NEW n \in DOMAIN mem
  PROVE  Chain(mem, n) = SubSeq(ch[root[n]], depth[n], Height(ch, root[n]))
<1> DEFINE Rest(d) == SubSeq(ch[root[d]], depth[d], Height(ch, root[d]))
           F       == [d \in DOMAIN mem |-> Rest(d)]
           Eq(f)   == f = [d \in DOMAIN mem |->
                             IF mem[d].right \in DOMAIN mem THEN <<d>> \o f[mem[d].right] ELSE <<d>>]
           f       == CHOOSE g : Eq(g)
           Bad     == {j \in Nat : \E d \in DOMAIN mem :
                                     j = Height(ch, root[d]) - depth[d] /\ f[d] # Rest(d)}
<1>1. ASSUME NEW d \in DOMAIN mem
      PROVE  Rest(d) = IF mem[d].right \in DOMAIN mem THEN <<d>> \o Rest(mem[d].right) ELSE <<d>>
  <2> HIDE DEF F, Eq, f, Bad
  <2> DEFINE c == ch[root[d]]
             h == Height(ch, root[d])
             i == depth[d]
  <2>1. c \in Seq(DOMAIN mem) /\ h \in Nat /\ i \in 1 .. h /\ c[i] = d
    <3>1. c \in Seq(DOMAIN mem) /\ h \in Nat
      BY Place
    <3>2. i \in 1 .. h /\ c[i] = d
      BY Place
    <3>3. QED
      BY <3>1, <3>2
  <2>2. Null \notin DOMAIN mem
    BY Apart DEF Links
  <2>3. /\ i < h => /\ mem[d].right \in DOMAIN mem
                         /\ root[mem[d].right] = root[d] /\ depth[mem[d].right] = i + 1
        /\ i = h => mem[d].right = Null
    BY Neighbours
  <2> HIDE DEF c, h, i
  <2>4. SubSeq(c, i, h) = <<c[i]>> \o SubSeq(c, i + 1, h)
    <3>1. h \in i .. h
      BY <2>1
    <3>2. QED
      BY <2>1, <3>1, SubSeqRecursiveFirst DEF c, h, Height
  <2>5. CASE i < h
    <3>1. Rest(mem[d].right) = SubSeq(c, i + 1, h)
      BY <2>3, <2>5 DEF c, h, i
    <3>2. Rest(d) = SubSeq(c, i, h)
      BY DEF c, h, i
    <3> HIDE DEF Rest
    <3>3. QED
      BY <2>1, <2>3, <2>4, <2>5, <3>1, <3>2
  <2>6. CASE i = h
    <3>1. SubSeq(c, i + 1, h) = << >>
      BY <2>1, <2>6, SubSeqEmpty
    <3>2. <<d>> \in Seq(DOMAIN mem)
      OBVIOUS
    <3>3. <<d>> \o << >> = <<d>>
      BY <3>2, ConcatEmptySeq
    <3>4. Rest(d) = SubSeq(c, i, h)
      BY DEF c, h, i
    <3> HIDE DEF Rest
    <3>5. QED
      BY <2>1, <2>2, <2>3, <2>4, <2>6, <3>1, <3>3, <3>4
  <2> HIDE DEF Rest
  <2>7. QED
    BY <2>1, <2>5, <2>6
<1>2. Eq(F)
  <2> HIDE DEF Rest
  <2>1. \A d \in DOMAIN mem : Rest(d) = IF mem[d].right \in DOMAIN mem THEN <<d>> \o F[mem[d].right] ELSE <<d>>
    BY <1>1
  <2>2. QED
    BY <2>1, Zenon
<1>3. Eq(f)
  <2> HIDE DEF F, Eq
  <2> QED
    BY <1>2
<1>4. Chain(mem, n) = f[n]
  BY Zenon DEF Chain
<1>5. \A d \in DOMAIN mem :
        f[d] = IF mem[d].right \in DOMAIN mem THEN <<d>> \o f[mem[d].right] ELSE <<d>>
  <2> HIDE DEF f
  <2> QED
    BY <1>3
<1> HIDE DEF f, F, Eq
<1>6. Bad = {}
  <2> SUFFICES ASSUME Bad # {} PROVE FALSE
    OBVIOUS
  <2>1. Bad \in SUBSET Nat
    OBVIOUS
  <2>2. PICK j \in Bad : \A k \in Bad : j <= k
    <3> HIDE DEF Bad
    <3> QED
      BY <2>1, LeastNumber
  <2>3. PICK d \in DOMAIN mem : j = Height(ch, root[d]) - depth[d] /\ f[d] # Rest(d)
    OBVIOUS
  <2> DEFINE r == mem[d].right
  <2>4. /\ f[d] = IF r \in DOMAIN mem THEN <<d>> \o f[r] ELSE <<d>>
        /\ Rest(d) = IF r \in DOMAIN mem THEN <<d>> \o Rest(r) ELSE <<d>>
    BY <1>1, <1>5
  <2>5. r \in DOMAIN mem /\ f[r] # Rest(r)
    <3> HIDE DEF Rest, r
    <3> QED
      BY <2>3, <2>4
  <2>6. Height(ch, root[r]) - depth[r] = j - 1 /\ j - 1 \in Nat
    <3>1. depth[d] \in 1 .. Height(ch, root[d]) /\ Height(ch, root[d]) \in Nat
      BY Place
    <3>2. Null \notin DOMAIN mem
      BY Apart DEF Links
    <3>3. depth[d] < Height(ch, root[d])
      BY <2>5, <3>1, <3>2, Neighbours
    <3>4. root[r] = root[d] /\ depth[r] = depth[d] + 1
      BY <3>3, Neighbours
    <3>5. QED
      BY <2>3, <3>1, <3>3, <3>4
  <2>7. j - 1 \in Bad
    <3> HIDE DEF Rest, r
    <3> QED
      BY <2>5, <2>6
  <2>8. j <= j - 1 /\ j \in Nat
    <3>1. j \in Nat
      BY <2>1
    <3> HIDE DEF Bad
    <3>2. QED
      BY <2>2, <2>7, <3>1
  <2>9. QED
    BY <2>8
<1>7. f[n] = Rest(n)
  <2>1. depth[n] \in 1 .. Height(ch, root[n]) /\ Height(ch, root[n]) \in Nat
    BY Place
  <2> HIDE DEF Rest
  <2>2. f[n] # Rest(n) => Height(ch, root[n]) - depth[n] \in Bad
    <3>1. Height(ch, root[n]) - depth[n] \in Nat
      BY <2>1
    <3>2. QED
      BY <3>1
  <2>3. QED
    BY <1>6, <2>2
<1>8. QED
  BY <1>4, <1>7

\* The nodes of Chain() are those of the bucket from n on, and the last is the last.
LEMMA ChainOf ==
  ASSUME BucketChainAssumption, NEW mem, NEW B, NEW ch, NEW root, NEW depth,
         Links(mem, B, ch, root, depth), NEW n \in DOMAIN mem
  PROVE  /\ Range(Chain(mem, n)) = {d \in DOMAIN mem : root[d] = root[n] /\ depth[n] <= depth[d]}
         /\ Last(Chain(mem, n)) = LastOf(ch, root[n])
         /\ DOMAIN Chain(mem, n) = 1 .. Height(ch, root[n]) - depth[n] + 1
         /\ \A i \in DOMAIN Chain(mem, n) :
              /\ Chain(mem, n)[i] \in DOMAIN mem /\ root[Chain(mem, n)[i]] = root[n]
              /\ depth[Chain(mem, n)[i]] = depth[n] + i - 1
<1> DEFINE c == ch[root[n]]
           h == Height(ch, root[n])
           s == Chain(mem, n)
<1>1. /\ root[n] \in B /\ c \in Seq(DOMAIN mem) /\ h \in Nat
      /\ depth[n] \in 1 .. h
  BY Place
<1>2. s = SubSeq(c, depth[n], h)
  BY ChainIs
<1>3. \A i \in 1 .. h : c[i] \in DOMAIN mem /\ root[c[i]] = root[n] /\ depth[c[i]] = i
  <2>1. \A i \in 1 .. h : c[i] \in DOMAIN mem
    BY <1>1, ElementOfSeq DEF Height
  <2>2. QED
    BY <1>1, <2>1 DEF Links, Numbered
<1>4. ASSUME NEW d \in DOMAIN mem, root[d] = root[n]
      PROVE  depth[d] \in 1 .. h /\ c[depth[d]] = d
  <2>1. depth[d] \in 1 .. Height(ch, root[d]) /\ ch[root[d]][depth[d]] = d
    BY Place
  <2>2. QED
    BY <1>4, <2>1
<1> HIDE DEF c, h, s
<1>5. /\ s \in Seq(DOMAIN mem) /\ Len(s) = h - depth[n] + 1
      /\ \A i \in 1 .. h - depth[n] + 1 : s[i] = c[depth[n] + i - 1]
  <2>1. depth[n] \in Int /\ h \in Int /\ depth[n] <= h
    BY <1>1
  <2>2. \A i \in depth[n] .. h : c[i] \in DOMAIN mem
    BY <1>1, <1>3
  <2>3. QED
    BY <1>2, <2>1, <2>2, SubSeqProperties
<1>6. DOMAIN s = 1 .. h - depth[n] + 1
  BY <1>5, LenProperties
<1>7. \A i \in DOMAIN s : s[i] \in DOMAIN mem /\ root[s[i]] = root[n] /\ depth[s[i]] = depth[n] + i - 1
  <2> SUFFICES ASSUME NEW i \in DOMAIN s
               PROVE  s[i] \in DOMAIN mem /\ root[s[i]] = root[n] /\ depth[s[i]] = depth[n] + i - 1
    OBVIOUS
  <2>1. i \in 1 .. h - depth[n] + 1 /\ depth[n] + i - 1 \in 1 .. h
    BY <1>1, <1>6
  <2>2. QED
    BY <1>3, <1>5, <2>1
<1>8. Range(s) = {d \in DOMAIN mem : root[d] = root[n] /\ depth[n] <= depth[d]}
  <2>1. Range(s) = {s[i] : i \in DOMAIN s}
    BY DEF Range
  <2>2. ASSUME NEW i \in DOMAIN s
        PROVE  s[i] \in DOMAIN mem /\ root[s[i]] = root[n] /\ depth[n] <= depth[s[i]]
    BY <1>1, <1>6, <1>7
  <2>3. ASSUME NEW d \in DOMAIN mem, root[d] = root[n], depth[n] <= depth[d]
        PROVE  d \in Range(s)
    <3>1. depth[d] \in 1 .. h /\ c[depth[d]] = d
      BY <1>4, <2>3
    <3>2. depth[d] - depth[n] + 1 \in DOMAIN s
          /\ depth[n] + (depth[d] - depth[n] + 1) - 1 = depth[d]
      BY <1>1, <1>6, <2>3, <3>1
    <3>3. s[depth[d] - depth[n] + 1] = d
      BY <1>5, <1>6, <3>1, <3>2
    <3>4. QED
      BY <2>1, <3>2, <3>3
  <2>4. QED
    BY <2>1, <2>2, <2>3
<1>9. Last(s) = LastOf(ch, root[n])
  <2>1. Len(s) \in 1 .. h - depth[n] + 1 /\ depth[n] + Len(s) - 1 = h
    BY <1>1, <1>5
  <2>2. QED
    BY <1>5, <2>1 DEF Last, LastOf, c, h
<1>10. QED
  BY <1>6, <1>7, <1>8, <1>9 DEF c, h, s

\* A lookup goes through all nodes of its bucket: a chain of one node has no other.
LEMMA NodesOfIs ==
  ASSUME BucketChainAssumption, NEW mem, NEW B, NEW ch, NEW root, NEW depth,
         Links(mem, B, ch, root, depth), NEW b \in B
  PROVE  /\ NodesOf(mem, b) = Chain(mem, b)
         /\ Range(NodesOf(mem, b)) = {d \in DOMAIN mem : root[d] = b}
         /\ Last(NodesOf(mem, b)) = LastOf(ch, b)
<1>1. b \in DOMAIN mem /\ root[b] = b /\ depth[b] = 1 /\ Height(ch, b) \in Nat \ {0}
      /\ ch[b] \in Seq(DOMAIN mem)
  BY First
<1>2. NodesOf(mem, b) = Chain(mem, b)
  <2>1. CASE Full(mem, b)
    BY <2>1 DEF NodesOf
  <2>2. CASE ~Full(mem, b)
    <3>1. depth[b] < Height(ch, root[b]) => mem[b].count = Capacity(b)
      BY <1>1, Neighbours
    <3>2. Height(ch, b) = 1
      <4>1. mem[b].count # Capacity(b)
        BY <2>2 DEF Full
      <4>2. depth[b] < Height(ch, root[b]) <=> 1 < Height(ch, b)
        BY <1>1
      <4>3. Height(ch, b) \in Nat \ {0}
        BY <1>1
      <4>4. ~(1 < Height(ch, b))
        BY <3>1, <4>1, <4>2
      <4>5. QED
        BY <4>3, <4>4
    <3>3. Chain(mem, b) = ch[b]
      <4>1. b \in DOMAIN mem
        BY <1>1
      <4>2. Chain(mem, b) = SubSeq(ch[root[b]], depth[b], Height(ch, root[b]))
        BY <4>1, ChainIs
      <4>3. root[b] = b /\ depth[b] = 1 /\ Height(ch, b) = Len(ch[b])
        BY <1>1 DEF Height
      <4>4. Chain(mem, b) = SubSeq(ch[b], 1, Len(ch[b]))
        BY <4>2, <4>3, Zenon
      <4>5. SubSeq(ch[b], 1, Len(ch[b])) = ch[b]
        BY <1>1, SubSeqFull
      <4>6. QED
        BY <4>4, <4>5
    <3>4. ch[b][1] = b
      BY DEF Links, Numbered
    <3>5. ch[b] = <<b>>
      <4>1. <<b>> \in Seq(DOMAIN mem) /\ Len(<<b>>) = 1 /\ <<b>>[1] = b
        BY <1>1
      <4>2. \A i \in 1 .. Len(ch[b]) : ch[b][i] = <<b>>[i]
        BY <3>2, <3>4 DEF Height
      <4>5. QED
        BY <1>1, <3>2, <4>1, <4>2, SeqEqual DEF Height
    <3>6. QED
      BY <2>2, <3>3, <3>5 DEF NodesOf
  <2>3. QED
    BY <2>1, <2>2
<1>3. /\ Range(Chain(mem, b)) = {d \in DOMAIN mem : root[d] = b /\ 1 <= depth[d]}
      /\ Last(Chain(mem, b)) = LastOf(ch, b)
  BY <1>1, ChainOf
<1>4. \A d \in DOMAIN mem : 1 <= depth[d]
  <2> TAKE d \in DOMAIN mem
  <2>1. depth[d] \in 1 .. Height(ch, root[d]) /\ Height(ch, root[d]) \in Nat
    BY Place
  <2>2. QED
    BY <2>1
<1>5. QED
  BY <1>2, <1>3, <1>4

-----------------------------------------------------------------------------
(***************************************************************************)
(* What is written into a node.                                            *)
(***************************************************************************)
LEMMA TinyType ==
  ASSUME BucketChainAssumption, NEW k \in Keys
  PROVE  TinyOf[k] \in 0 .. 255 /\ TinyOf[k] # 0
<1>1. TinyOf[k] \in 1 .. 255
  BY DEF BucketChainAssumption
<1>2. QED
  BY <1>1

\* A node has the fields it is made of.
LEMMA NodeIs ==
  ASSUME NEW n, NEW c \in 0 .. Capacity(n), NEW hs \in [1 .. Capacity(n) -> 0 .. 255],
         NEW vs \in [1 .. Capacity(n) -> Keys \cup {Null}],
         NEW l \in Nodes \cup {Null}, NEW r \in Addresses \cup {Null}
  PROVE  /\ Node(c, hs, vs, l, r) \in NodeType(n)
         /\ Node(c, hs, vs, l, r).count = c /\ Node(c, hs, vs, l, r).left = l
         /\ Node(c, hs, vs, l, r).right = r
         /\ Node(c, hs, vs, l, r).vals = vs /\ Node(c, hs, vs, l, r).hashs = hs
BY DEF Node, NodeType

\* A node with one slot written is a node.
LEMMA SetSlotIs ==
  ASSUME NEW n, NEW d \in NodeType(n), NEW p \in 1 .. Capacity(n), NEW h \in 0 .. 255,
         NEW v \in Keys \cup {Null}
  PROVE  SetSlot(d, p, h, v) \in NodeType(n)
BY DEF SetSlot, Node, NodeType

\* A value goes behind the others of its node, with its tiny hash.
LEMMA WithValueIs ==
  ASSUME BucketChainAssumption, NEW n, NEW d \in NodeType(n), d.count < Capacity(n), NEW k \in Keys
  PROVE  /\ WithValue(d, k) \in NodeType(n)
         /\ WithValue(d, k).count = d.count + 1 /\ WithValue(d, k).left = d.left
         /\ WithValue(d, k).right = d.right
         /\ \A q \in 1 .. Capacity(n) :
              /\ WithValue(d, k).vals[q] = IF q = d.count + 1 THEN k ELSE d.vals[q]
              /\ WithValue(d, k).hashs[q] = IF q = d.count + 1 THEN TinyOf[k] ELSE d.hashs[q]
<1>1. TinyOf[k] \in 0 .. 255 /\ Capacity(n) \in Nat \ {0}
  BY TinyType, CapacityPositive
<1>2. d.count + 1 \in 1 .. Capacity(n)
  BY <1>1 DEF NodeType
<1> DEFINE p  == d.count + 1
           hs == [d.hashs EXCEPT ![p] = TinyOf[k]]
           vs == [d.vals EXCEPT ![p] = k]
<1>3. d.hashs \in [1 .. Capacity(n) -> 0 .. 255] /\ d.vals \in [1 .. Capacity(n) -> Keys \cup {Null}]
  BY DEF NodeType
<1>4. p \in 1 .. Capacity(n)
  BY <1>2
<1> HIDE DEF p
<1>5. /\ hs \in [1 .. Capacity(n) -> 0 .. 255] /\ vs \in [1 .. Capacity(n) -> Keys \cup {Null}]
      /\ \A q \in 1 .. Capacity(n) : /\ vs[q] = IF q = p THEN k ELSE d.vals[q]
                                     /\ hs[q] = IF q = p THEN TinyOf[k] ELSE d.hashs[q]
  BY <1>1, <1>3, <1>4
<1>6. WithValue(d, k) = Node(p, hs, vs, d.left, d.right)
  BY DEF WithValue, p
<1>7. d.left \in Nodes \cup {Null} /\ d.right \in Addresses \cup {Null}
  BY DEF NodeType
<1> HIDE DEF hs, vs
<1>8. p \in 0 .. Capacity(n)
  BY <1>1, <1>4
<1>9. hs \in [1 .. Capacity(n) -> 0 .. 255] /\ vs \in [1 .. Capacity(n) -> Keys \cup {Null}]
  BY <1>5
<1>10. /\ WithValue(d, k) \in NodeType(n)
       /\ WithValue(d, k).count = p /\ WithValue(d, k).left = d.left /\ WithValue(d, k).right = d.right
       /\ WithValue(d, k).vals = vs /\ WithValue(d, k).hashs = hs
  <2> DEFINE l == d.left
             r == d.right
             w == WithValue(d, k)
  <2>1. w = Node(p, hs, vs, l, r) /\ l \in Nodes \cup {Null} /\ r \in Addresses \cup {Null}
    BY <1>6, <1>7
  <2> HIDE DEF l, r, w
  <2>2. Node(p, hs, vs, l, r) \in NodeType(n)
    BY <1>8, <1>9, <2>1, NodeIs
  <2>3. w \in NodeType(n) /\ w.count = p /\ w.left = l /\ w.right = r /\ w.vals = vs /\ w.hashs = hs
    BY <2>1, <2>2 DEF Node
  <2>4. QED
    BY <2>3 DEF l, r, w
<1>11. p = d.count + 1
  BY DEF p
<1>12. QED
  <2> DEFINE w == WithValue(d, k)
  <2>1. w \in NodeType(n) /\ w.count = p /\ w.left = d.left /\ w.right = d.right
        /\ w.vals = vs /\ w.hashs = hs
    BY <1>10
  <2> HIDE DEF w
  <2>2. /\ w.count = d.count + 1
        /\ \A q \in 1 .. Capacity(n) :
             /\ w.vals[q] = IF q = d.count + 1 THEN k ELSE d.vals[q]
             /\ w.hashs[q] = IF q = d.count + 1 THEN TinyOf[k] ELSE d.hashs[q]
    BY <1>5, <1>11, <2>1
  <2>3. QED
    BY <2>1, <2>2 DEF w

\* A node with another one on its right is the same otherwise.
LEMMA WithRightIs ==
  ASSUME NEW n, NEW d \in NodeType(n), NEW r \in Addresses \cup {Null}
  PROVE  /\ WithRight(d, r) \in NodeType(n)
         /\ WithRight(d, r).count = d.count /\ WithRight(d, r).left = d.left
         /\ WithRight(d, r).right = r
         /\ WithRight(d, r).vals = d.vals /\ WithRight(d, r).hashs = d.hashs
BY DEF WithRight, Node, NodeType

\* A new node is empty.
LEMMA NewNodeIs ==
  ASSUME BucketChainAssumption, NEW n, NEW l \in Nodes \cup {Null}
  PROVE  /\ NewNode(n, l) \in NodeType(n)
         /\ NewNode(n, l).count = 0 /\ NewNode(n, l).left = l /\ NewNode(n, l).right = Null
         /\ \A q \in 1 .. Capacity(n) : NewNode(n, l).vals[q] = Null
<1>1. Capacity(n) \in Nat \ {0}
  BY CapacityPositive
<1>2. QED
  BY <1>1 DEF NewNode, Node, NodeType

-----------------------------------------------------------------------------
(***************************************************************************)
(* Changes that keep the chains.                                           *)
(***************************************************************************)
LEMMA LinksKept ==
  ASSUME BucketChainAssumption, NEW mem, NEW B, NEW ch, NEW root, NEW depth,
         Links(mem, B, ch, root, depth), NEW mem2, DOMAIN mem2 = DOMAIN mem,
         \A n \in DOMAIN mem :
           /\ mem2[n] \in NodeType(n)
           /\ mem2[n].left = mem[n].left /\ mem2[n].right = mem[n].right
           /\ \/ mem2[n].count = mem[n].count
              \/ depth[n] = Height(ch, root[n]) /\ (depth[n] > 1 => mem2[n].count > 0)
  PROVE  Links(mem2, B, ch, root, depth)
<1>1. /\ DOMAIN mem2 \subseteq Nodes /\ DOMAIN mem2 \cap Main = B
      /\ Numbered(DOMAIN mem2, B, ch, root, depth)
  BY DEF Links
<1>2. ASSUME NEW n \in DOMAIN mem
      PROVE  Linked(mem2[n], n, ch[root[n]], Height(ch, root[n]), depth[n])
  <2>1. Linked(mem[n], n, ch[root[n]], Height(ch, root[n]), depth[n])
    BY DEF Links
  <2>2. depth[n] \in 1 .. Height(ch, root[n]) /\ Height(ch, root[n]) \in Nat
    BY Place
  <2> DEFINE h == Height(ch, root[n])
             i == depth[n]
  <2>3. i \in 1 .. h /\ h \in Nat
    BY <2>2
  <2>4. mem2[n].count = mem[n].count \/ (i = h /\ (i > 1 => mem2[n].count > 0))
    OBVIOUS
  <2>5. Linked(mem[n], n, ch[root[n]], h, i)
    BY <2>1
  <2> HIDE DEF h, i
  <2>6. Linked(mem2[n], n, ch[root[n]], h, i)
    BY <2>3, <2>4, <2>5 DEF Linked
  <2>7. QED
    BY <2>6 DEF h, i
<1>3. QED
  BY <1>1, <1>2 DEF Links

-----------------------------------------------------------------------------
(***************************************************************************)
(* What is in the slots: no value is behind the count of a node; each key  *)
(* of keys has a slot, of node hn[k] at hp[k], in its bucket of the array  *)
(* a of m + 1 buckets; there is no other slot in this array.               *)
(***************************************************************************)
Beyond(mem) ==
  \A n \in DOMAIN mem : \A p \in mem[n].count + 1 .. Capacity(n) : mem[n].vals[p] = Null

Placed(mem, root, a, m, keys, hn, hp) ==
  /\ \A k \in keys : /\ hn[k] \in DOMAIN mem /\ hp[k] \in 1 .. mem[hn[k]].count
                     /\ root[hn[k]] = Bucket(a, m, k)
  /\ \A k, l \in keys : hn[k] = hn[l] /\ hp[k] = hp[l] => k = l

Covered(mem, root, a, keys, hn, hp) ==
  \A n \in DOMAIN mem : root[n][1] = a =>
    \A p \in 1 .. mem[n].count : \E k \in keys : hn[k] = n /\ hp[k] = p

Values(mem, keys, hn, hp) == \A k \in keys : mem[hn[k]].vals[hp[k]] = k
Hashes(mem, keys, hn, hp) == \A k \in keys : mem[hn[k]].hashs[hp[k]] = TinyOf[k]

\* The slots of values that have moved to another array.
Blank(mem, keys, hn, hp) ==
  \A k \in keys : mem[hn[k]].vals[hp[k]] = Null /\ mem[hn[k]].hashs[hp[k]] = 0

(***************************************************************************)
(* From mem to mem2 there is one more slot, p of node n in bucket b, and   *)
(* it has the key k.                                                       *)
(***************************************************************************)
Added(mem, root, mem2, root2, n, p, b, k) ==
  /\ n \in DOMAIN mem2 /\ root2[n] = b /\ p \in 1 .. mem2[n].count
  /\ mem2[n].vals[p] = k /\ mem2[n].hashs[p] = TinyOf[k]
  /\ DOMAIN mem \subseteq DOMAIN mem2
  /\ \A d \in DOMAIN mem : root2[d] = root[d]
  /\ \A d \in DOMAIN mem : \A q \in 1 .. mem[d].count :
       /\ q \in 1 .. mem2[d].count /\ ~(d = n /\ q = p)
       /\ mem2[d].vals[q] = mem[d].vals[q] /\ mem2[d].hashs[q] = mem[d].hashs[q]
  /\ \A d \in DOMAIN mem2 : \A q \in 1 .. mem2[d].count :
       (d = n /\ q = p) \/ (d \in DOMAIN mem /\ q \in 1 .. mem[d].count)

\* The memory with a value behind the others of n.
InLast(mem, n, k) == [mem EXCEPT ![n] = WithValue(@, k)]

\* A value behind the others of the last node, if that has room.
LEMMA PutInLast ==
  ASSUME BucketChainAssumption, NEW mem, NEW B, NEW ch, NEW root, NEW depth,
         Links(mem, B, ch, root, depth), Beyond(mem), NEW b \in B, NEW k \in Keys,
         NEW n, n = LastOf(ch, b), mem[n].count # Capacity(n),
         NEW mem2, mem2 = InLast(mem, n, k)
  PROVE  /\ Links(mem2, B, ch, root, depth) /\ Beyond(mem2)
         /\ Added(mem, root, mem2, root, n, mem[n].count + 1, b, k)
<1> DEFINE p == mem[n].count + 1
<1>1. n \in DOMAIN mem /\ root[n] = b /\ depth[n] = Height(ch, b)
  BY First
<1>2. mem[n] \in NodeType(n) /\ mem[n].count \in 0 .. Capacity(n) /\ Capacity(n) \in Nat \ {0}
  BY <1>1, Place
<1>3. mem[n].count < Capacity(n) /\ mem[n].count \in Nat
  BY <1>2
<1>4. /\ mem2[n] \in NodeType(n)
      /\ mem2[n].count = p /\ mem2[n].left = mem[n].left /\ mem2[n].right = mem[n].right
      /\ \A q \in 1 .. Capacity(n) :
           /\ mem2[n].vals[q] = IF q = p THEN k ELSE mem[n].vals[q]
           /\ mem2[n].hashs[q] = IF q = p THEN TinyOf[k] ELSE mem[n].hashs[q]
  <2>1. mem2[n] = WithValue(mem[n], k)
    BY <1>1 DEF InLast
  <2>2. QED
    BY <1>2, <1>3, <2>1, WithValueIs
<1>5. DOMAIN mem2 = DOMAIN mem /\ \A d \in DOMAIN mem : d # n => mem2[d] = mem[d]
  BY <1>1 DEF InLast
<1>6. Links(mem2, B, ch, root, depth)
  <2>1. ASSUME NEW d \in DOMAIN mem
        PROVE  /\ mem2[d] \in NodeType(d)
               /\ mem2[d].left = mem[d].left /\ mem2[d].right = mem[d].right
               /\ \/ mem2[d].count = mem[d].count
                  \/ depth[d] = Height(ch, root[d]) /\ mem2[d].count > 0
    <3>1. CASE d = n
      BY <1>1, <1>3, <1>4, <3>1
    <3>2. CASE d # n
      <4>1. mem[d] \in NodeType(d)
        BY Place
      <4>2. QED
        BY <1>5, <3>2, <4>1
    <3>3. QED
      BY <3>1, <3>2
  <2>2. QED
    BY <1>5, <2>1, LinksKept
<1>7. Beyond(mem2)
  <2> SUFFICES ASSUME NEW d \in DOMAIN mem, NEW q \in mem2[d].count + 1 .. Capacity(d)
               PROVE  mem2[d].vals[q] = Null
    BY <1>5 DEF Beyond
  <2>1. CASE d = n
    <3>1. q \in p + 1 .. Capacity(n) /\ q \in Int
      BY <1>4, <2>1
    <3>2. q \in 1 .. Capacity(n) /\ q # p /\ q \in mem[n].count + 1 .. Capacity(n)
      BY <1>2, <1>3, <3>1
    <3>3. QED
      BY <1>1, <1>4, <2>1, <3>2 DEF Beyond
  <2>2. CASE d # n
    BY <1>5, <2>2 DEF Beyond
  <2>3. QED
    BY <2>1, <2>2
<1>8. Added(mem, root, mem2, root, n, p, b, k)
  <2>1. p \in 1 .. Capacity(n) /\ p \in 1 .. mem2[n].count
    BY <1>2, <1>3, <1>4
  <2>2. mem2[n].vals[p] = k /\ mem2[n].hashs[p] = TinyOf[k]
    BY <1>4, <2>1
  <2>3. ASSUME NEW d \in DOMAIN mem, NEW q \in 1 .. mem[d].count
        PROVE  /\ q \in 1 .. mem2[d].count /\ ~(d = n /\ q = p)
               /\ mem2[d].vals[q] = mem[d].vals[q] /\ mem2[d].hashs[q] = mem[d].hashs[q]
    <3>1. CASE d = n
      <4>1. q \in 1 .. Capacity(n) /\ q # p /\ q \in 1 .. p
        BY <1>2, <1>3, <3>1
      <4>2. QED
        BY <1>4, <3>1, <4>1
    <3>2. CASE d # n
      BY <1>5, <3>2
    <3>3. QED
      BY <3>1, <3>2
  <2>4. ASSUME NEW d \in DOMAIN mem, NEW q \in 1 .. mem2[d].count
        PROVE  (d = n /\ q = p) \/ q \in 1 .. mem[d].count
    <3>1. CASE d = n
      BY <1>3, <1>4, <3>1
    <3>2. CASE d # n
      BY <1>5, <3>2
    <3>3. QED
      BY <3>1, <3>2
  <2> HIDE DEF p
  <2>5. QED
    BY <1>1, <1>5, <2>1, <2>2, <2>3, <2>4 DEF Added
<1>9. QED
  BY <1>6, <1>7, <1>8

\* A value in a new node a behind the last one, which is full.
LEMMA PutInNew ==
  ASSUME BucketChainAssumption, NEW mem, NEW B, NEW ch, NEW root, NEW depth,
         Links(mem, B, ch, root, depth), Beyond(mem), NEW b \in B, NEW k \in Keys,
         NEW n, n = LastOf(ch, b), mem[n].count = Capacity(n), NEW a \in Addresses \ DOMAIN mem,
         NEW mem2, mem2 = WithNode(mem, a, n, n, k)
  PROVE  \E ch2, root2, depth2 :
           /\ Links(mem2, B, ch2, root2, depth2) /\ Beyond(mem2)
           /\ Added(mem, root, mem2, root2, a, 1, b, k)
<1> DEFINE D      == DOMAIN mem
           h      == Height(ch, b)
           ch2    == [x \in B |-> IF x = b THEN Append(ch[b], a) ELSE ch[x]]
           root2  == [x \in D \cup {a} |-> IF x = a THEN b ELSE root[x]]
           depth2 == [x \in D \cup {a} |-> IF x = a THEN h + 1 ELSE depth[x]]
<1>1. /\ n \in D /\ root[n] = b /\ depth[n] = h /\ h \in Nat \ {0}
      /\ ch[b] \in Seq(D) /\ ch[b][h] = n
  BY First DEF LastOf
<1>2. mem[n] \in NodeType(n) /\ n \in Nodes
  BY <1>1, Place
<1>3. a \notin D /\ a \in Nodes /\ a \notin Main /\ a \in Addresses /\ a # n
  BY <1>1, Apart DEF Nodes
<1>4. DOMAIN mem2 = D \cup {a}
  BY DEF WithNode
<1>5. /\ mem2[a] \in NodeType(a) /\ mem2[a].count = 1 /\ mem2[a].left = n /\ mem2[a].right = Null
      /\ mem2[a].vals[1] = k /\ mem2[a].hashs[1] = TinyOf[k]
      /\ \A q \in 2 .. Capacity(a) : mem2[a].vals[q] = Null
  <2> DEFINE d == NewNode(a, n)
  <2>1. /\ d \in NodeType(a) /\ d.count = 0 /\ d.left = n /\ d.right = Null
        /\ \A q \in 1 .. Capacity(a) : d.vals[q] = Null
    BY <1>2, NewNodeIs
  <2>2. mem2[a] = WithValue(d, k)
    BY DEF WithNode
  <2>3. Capacity(a) \in Nat \ {0}
    BY CapacityPositive
  <2> HIDE DEF d
  <2>4. /\ mem2[a] \in NodeType(a)
        /\ mem2[a].count = d.count + 1 /\ mem2[a].left = d.left /\ mem2[a].right = d.right
        /\ \A q \in 1 .. Capacity(a) :
             /\ mem2[a].vals[q] = IF q = d.count + 1 THEN k ELSE d.vals[q]
             /\ mem2[a].hashs[q] = IF q = d.count + 1 THEN TinyOf[k] ELSE d.hashs[q]
    <3>1. d.count < Capacity(a)
      BY <2>1, <2>3
    <3>2. QED
      BY <2>1, <2>2, <3>1, WithValueIs
  <2>5. 1 \in 1 .. Capacity(a) /\ \A q \in 2 .. Capacity(a) : q \in 1 .. Capacity(a) /\ q # 1
    BY <2>3
  <2>6. d.count + 1 = 1
    BY <2>1
  <2>7. QED
    BY <2>1, <2>4, <2>5, <2>6
<1>6. /\ mem2[n] \in NodeType(n) /\ mem2[n].count = mem[n].count /\ mem2[n].left = mem[n].left
      /\ mem2[n].right = a /\ mem2[n].vals = mem[n].vals /\ mem2[n].hashs = mem[n].hashs
  <2>1. mem2[n] = WithRight(mem[n], a)
    BY <1>1, <1>3 DEF WithNode
  <2>2. QED
    BY <1>2, <1>3, <2>1, WithRightIs
<1>7. \A x \in D : x # n => mem2[x] = mem[x]
  BY <1>3 DEF WithNode
<1>8. /\ ch2[b] \in Seq(D \cup {a}) /\ Height(ch2, b) = h + 1 /\ ch2[b][h + 1] = a
      /\ \A i \in 1 .. h : ch2[b][i] = ch[b][i]
  <2>1. ch[b] \in Seq(D \cup {a}) /\ a \in D \cup {a}
    BY <1>1, SeqMonotonic
  <2>2. ch2[b] = Append(ch[b], a)
    OBVIOUS
  <2> HIDE DEF ch2
  <2>3. QED
    BY <2>1, <2>2, AppendProperties DEF Height
<1>9. \A x \in B : x # b => ch2[x] = ch[x] /\ Height(ch2, x) = Height(ch, x)
  BY DEF Height
<1>10. /\ root2[a] = b /\ depth2[a] = h + 1
       /\ \A x \in D : root2[x] = root[x] /\ depth2[x] = depth[x]
  BY <1>3
<1> HIDE DEF ch2, root2, depth2, D, h
<1>11. ASSUME NEW x \in B
       PROVE  /\ ch[x] \in Seq(D) /\ Height(ch, x) \in Nat \ {0} /\ ch[x][1] = x
              /\ \A i \in 1 .. Height(ch, x) : /\ ch[x][i] \in D /\ root[ch[x][i]] = x
                                               /\ depth[ch[x][i]] = i
  <2>1. ch[x] \in Seq(D) /\ Height(ch, x) \in Nat \ {0}
    BY First DEF D
  <2>2. \A i \in 1 .. Height(ch, x) : ch[x][i] \in D
    BY <2>1, ElementOfSeq DEF Height
  <2>3. QED
    BY <2>1, <2>2 DEF Links, Numbered
<1>12. ASSUME NEW x \in D
       PROVE  /\ root[x] \in B /\ depth[x] \in 1 .. Height(ch, root[x])
              /\ ch[root[x]][depth[x]] = x
              /\ Linked(mem[x], x, ch[root[x]], Height(ch, root[x]), depth[x])
  BY DEF Links, Numbered, D
<1>13. ASSUME NEW x \in B
       PROVE  /\ Height(ch2, x) \in Nat \ {0} /\ Height(ch, x) <= Height(ch2, x)
              /\ \A i \in 1 .. Height(ch, x) : ch2[x][i] = ch[x][i]
              /\ ch2[x] \in Seq(D \cup {a})
  <2>1. CASE x = b
    BY <1>1, <1>8, <2>1 DEF h
  <2>2. CASE x # b
    <3>1. ch[x] \in Seq(D \cup {a}) /\ Height(ch, x) \in Nat \ {0}
      BY <1>11, SeqMonotonic
    <3>2. QED
      BY <1>9, <2>2, <3>1
  <2>3. QED
    BY <2>1, <2>2
<1>14. Numbered(D \cup {a}, B, ch2, root2, depth2)
  <2>1. ASSUME NEW x \in D \cup {a}
        PROVE  /\ root2[x] \in B /\ depth2[x] \in 1 .. Height(ch2, root2[x])
               /\ ch2[root2[x]][depth2[x]] = x
    <3>1. CASE x = a
      BY <1>1, <1>8, <1>10, <3>1
    <3>2. CASE x \in D
      <4>1. root2[x] = root[x] /\ depth2[x] = depth[x] /\ root[x] \in B
        BY <1>10, <1>12, <3>2
      <4>2. depth[x] \in 1 .. Height(ch, root[x]) /\ ch[root[x]][depth[x]] = x
        BY <1>12, <3>2
      <4>3. Height(ch2, root[x]) \in Nat /\ Height(ch, root[x]) <= Height(ch2, root[x])
            /\ Height(ch, root[x]) \in Nat
        BY <1>11, <1>13, <4>1
      <4>4. depth[x] \in 1 .. Height(ch2, root[x])
        BY <4>2, <4>3
      <4>5. ch2[root[x]][depth[x]] = x
        BY <1>13, <4>1, <4>2
      <4>6. QED
        BY <4>1, <4>4, <4>5
    <3>3. QED
      BY <3>1, <3>2
  <2>2. ASSUME NEW x \in B
        PROVE  ch2[x] \in Seq(D \cup {a}) /\ Height(ch2, x) > 0 /\ ch2[x][1] = x
    <3>1. Height(ch, x) \in Nat \ {0} /\ Height(ch2, x) \in Nat \ {0} /\ ch[x][1] = x
      BY <1>11, <1>13
    <3>2. 1 \in 1 .. Height(ch, x)
      BY <3>1
    <3>3. QED
      BY <1>13, <3>1, <3>2
  <2>3. ASSUME NEW x \in B, NEW i \in 1 .. Height(ch2, x)
        PROVE  root2[ch2[x][i]] = x /\ depth2[ch2[x][i]] = i
    <3>1. CASE i \in 1 .. Height(ch, x)
      <4>1. ch[x][i] \in D /\ root[ch[x][i]] = x /\ depth[ch[x][i]] = i
        BY <1>11, <3>1
      <4>2. ch2[x][i] = ch[x][i]
        BY <1>13, <3>1
      <4>3. QED
        BY <1>10, <4>1, <4>2
    <3>2. CASE i \notin 1 .. Height(ch, x)
      <4>1. x = b /\ i = h + 1
        <5>1. x = b
          BY <1>9, <3>2
        <5>2. i \in 1 .. h + 1 /\ i \notin 1 .. h
          BY <1>8, <3>2, <5>1 DEF h
        <5>3. QED
          BY <1>1, <5>1, <5>2
      <4>2. QED
        BY <1>8, <1>10, <4>1
    <3>3. QED
      BY <3>1, <3>2
  <2>4. QED
    BY <2>1, <2>2, <2>3 DEF Numbered
<1>15. ASSUME NEW x \in D \cup {a}
       PROVE  Linked(mem2[x], x, ch2[root2[x]], Height(ch2, root2[x]), depth2[x])
  <2>1. CASE x = a
    <3>1. h + 1 # 1 /\ (h + 1) - 1 = h /\ h \in 1 .. h
      BY <1>1
    <3>2. ch2[b][h] = n
      BY <1>1, <1>8, <3>1
    <3>3. Linked(mem2[a], a, ch2[b], h + 1, h + 1)
      BY <1>3, <1>5, <3>1, <3>2 DEF Linked
    <3>4. QED
      BY <1>8, <1>10, <2>1, <3>3
  <2>2. CASE x = n
    <3>1. Linked(mem[n], n, ch[b], h, h)
      BY <1>1, <1>12 DEF h
    <3>2. h # 1 => h - 1 \in 1 .. h /\ ch2[b][h - 1] = ch[b][h - 1]
      BY <1>1, <1>8
    <3>3. Linked(mem2[n], n, ch2[b], h + 1, h)
      BY <1>1, <1>6, <1>8, <3>1, <3>2 DEF Linked
    <3>4. QED
      BY <1>1, <1>8, <1>10, <2>2, <3>3
  <2>3. CASE x \in D /\ x # n
    <3> DEFINE r == root[x]
               i == depth[x]
               g == Height(ch, r)
    <3>1. r \in B /\ i \in 1 .. g /\ Linked(mem[x], x, ch[r], g, i)
      BY <1>12, <2>3
    <3>2. g \in Nat \ {0} /\ \A j \in 1 .. g : ch2[r][j] = ch[r][j]
      BY <1>11, <1>13, <3>1
    <3>3. (Height(ch2, r) = g \/ (i < g /\ Height(ch2, r) = g + 1))
      <4>1. CASE r = b
        <5>1. i # h
          BY <1>1, <2>3, <4>1, OnePlace DEF D
        <5>2. g = h /\ Height(ch2, r) = h + 1
          BY <1>8, <4>1 DEF h
        <5>3. QED
          BY <3>1, <3>2, <5>1, <5>2
      <4>2. CASE r # b
        BY <1>9, <3>1, <4>2
      <4>3. QED
        BY <4>1, <4>2
    <3>4. mem2[x] = mem[x] /\ root2[x] = r /\ depth2[x] = i
      BY <1>7, <1>10, <2>3
    <3> HIDE DEF r, i, g
    <3>5. (i # 1 => i - 1 \in 1 .. g) /\ (i # g => i + 1 \in 1 .. g)
      BY <3>1, <3>2
    <3>6. Linked(mem[x], x, ch2[r], Height(ch2, r), i)
      <4>1. i # Height(ch2, r) <=> i # g
        BY <3>1, <3>2, <3>3
      <4>2. i < Height(ch2, r) <=> i < g
        BY <3>1, <3>2, <3>3
      <4>3. QED
        BY <3>1, <3>2, <3>5, <4>1, <4>2 DEF Linked
    <3>7. QED
      BY <3>4, <3>6
  <2>4. QED
    BY <2>1, <2>2, <2>3
<1>16. Links(mem2, B, ch2, root2, depth2)
  <2>1. D \subseteq Nodes /\ D \cap Main = B
    BY DEF Links, D
  <2>2. DOMAIN mem2 \subseteq Nodes /\ DOMAIN mem2 \cap Main = B
    BY <1>3, <1>4, <2>1
  <2>3. QED
    BY <1>4, <1>14, <1>15, <2>2 DEF Links
<1>17. Beyond(mem2)
  <2> SUFFICES ASSUME NEW x \in D \cup {a}, NEW q \in mem2[x].count + 1 .. Capacity(x)
               PROVE  mem2[x].vals[q] = Null
    BY <1>4 DEF Beyond
  <2>1. CASE x = a
    <3>1. q \in 2 .. Capacity(a)
      BY <1>5, <2>1
    <3>2. QED
      BY <1>5, <2>1, <3>1
  <2>2. CASE x = n
    BY <1>1, <1>6, <2>2 DEF Beyond, D
  <2>3. CASE x \in D /\ x # n
    BY <1>7, <2>3 DEF Beyond, D
  <2>4. QED
    BY <2>1, <2>2, <2>3
<1>18. Added(mem, root, mem2, root2, a, 1, b, k)
  <2>1. ASSUME NEW d \in D
        PROVE  mem2[d].count = mem[d].count /\ mem2[d].vals = mem[d].vals /\ mem2[d].hashs = mem[d].hashs
    BY <1>6, <1>7
  <2>2. ASSUME NEW d \in D \cup {a}, NEW q \in 1 .. mem2[d].count
        PROVE  (d = a /\ q = 1) \/ (d \in D /\ q \in 1 .. mem[d].count)
    <3>1. CASE d = a
      BY <1>5, <3>1
    <3>2. CASE d \in D
      BY <2>1, <3>2
    <3>3. QED
      BY <3>1, <3>2
  <2>3. 1 \in 1 .. mem2[a].count
    BY <1>5
  <2>4. QED
    BY <1>3, <1>4, <1>5, <1>10, <2>1, <2>2, <2>3 DEF Added, D
<1>19. QED
  BY <1>16, <1>17, <1>18

\* An insertion adds one slot, in the bucket of the key.
LEMMA PutAdds ==
  ASSUME BucketChainAssumption, NEW mem, NEW B, NEW ch, NEW root, NEW depth,
         Links(mem, B, ch, root, depth), Beyond(mem), NEW b \in B, NEW k \in Keys,
         NEW mem2 \in Put(mem, b, k)
  PROVE  \E ch2, root2, depth2, n, p :
           /\ Links(mem2, B, ch2, root2, depth2) /\ Beyond(mem2)
           /\ Added(mem, root, mem2, root2, n, p, b, k)
<1> DEFINE n == LastOf(ch, b)
<1>1. Last(NodesOf(mem, b)) = n
  BY NodesOfIs
<1>2. NeedsDense(mem, b) <=> mem[n].count = Capacity(n)
  BY <1>1 DEF NeedsDense, Full
<1>3. CASE ~NeedsDense(mem, b)
  <2>1. mem2 = InLast(mem, n, k)
    BY <1>1, <1>3 DEF Put, InLast
  <2>2. mem[n].count # Capacity(n) /\ n = LastOf(ch, b)
    BY <1>2, <1>3
  <2> HIDE DEF n
  <2>3. /\ Links(mem2, B, ch, root, depth) /\ Beyond(mem2)
        /\ Added(mem, root, mem2, root, n, mem[n].count + 1, b, k)
    BY <2>1, <2>2, PutInLast
  <2>4. QED
    BY <2>3, Zenon
<1>4. CASE NeedsDense(mem, b)
  <2>1. PICK a \in Addresses \ DOMAIN mem : mem2 = WithNode(mem, a, n, n, k)
    BY <1>1, <1>4 DEF Put
  <2>2. mem[n].count = Capacity(n) /\ n = LastOf(ch, b)
    BY <1>2, <1>4
  <2> HIDE DEF n
  <2>3. QED
    BY <2>1, <2>2, PutInNew
<1>5. QED
  BY <1>3, <1>4

-----------------------------------------------------------------------------
(***************************************************************************)
(* What an insertion does to the places of the keys.                       *)
(***************************************************************************)
\* The keys that were there stay where they were.
LEMMA AddedKeeps ==
  ASSUME NEW mem, NEW root, NEW mem2, NEW root2, NEW n, NEW p, NEW b, NEW k,
         Added(mem, root, mem2, root2, n, p, b, k),
         NEW a, NEW m, NEW keys, NEW hn, NEW hp, Placed(mem, root, a, m, keys, hn, hp)
  PROVE  /\ Placed(mem2, root2, a, m, keys, hn, hp)
         /\ \A l \in keys : /\ ~(hn[l] = n /\ hp[l] = p)
                            /\ mem2[hn[l]].vals[hp[l]] = mem[hn[l]].vals[hp[l]]
                            /\ mem2[hn[l]].hashs[hp[l]] = mem[hn[l]].hashs[hp[l]]
<1>1. ASSUME NEW l \in keys
      PROVE  /\ hn[l] \in DOMAIN mem /\ hp[l] \in 1 .. mem[hn[l]].count
             /\ root[hn[l]] = Bucket(a, m, l)
  BY DEF Placed
<1>2. ASSUME NEW l \in keys
      PROVE  /\ hp[l] \in 1 .. mem2[hn[l]].count /\ ~(hn[l] = n /\ hp[l] = p)
             /\ mem2[hn[l]].vals[hp[l]] = mem[hn[l]].vals[hp[l]]
             /\ mem2[hn[l]].hashs[hp[l]] = mem[hn[l]].hashs[hp[l]]
             /\ hn[l] \in DOMAIN mem2 /\ root2[hn[l]] = root[hn[l]]
  BY <1>1 DEF Added
<1>3. Placed(mem2, root2, a, m, keys, hn, hp)
  BY <1>1, <1>2 DEF Placed
<1>4. QED
  BY <1>2, <1>3

\* An insertion leaves the other values, hashes and blank slots as they are.
LEMMA AddedValues ==
  ASSUME NEW mem, NEW root, NEW mem2, NEW root2, NEW n, NEW p, NEW b, NEW k,
         Added(mem, root, mem2, root2, n, p, b, k),
         NEW a, NEW m, NEW keys, NEW hn, NEW hp, Placed(mem, root, a, m, keys, hn, hp),
         NEW some \in SUBSET keys
  PROVE  /\ Values(mem, some, hn, hp) => Values(mem2, some, hn, hp)
         /\ Hashes(mem, some, hn, hp) => Hashes(mem2, some, hn, hp)
         /\ Blank(mem, some, hn, hp) => Blank(mem2, some, hn, hp)
<1>1. \A l \in some : /\ mem2[hn[l]].vals[hp[l]] = mem[hn[l]].vals[hp[l]]
                      /\ mem2[hn[l]].hashs[hp[l]] = mem[hn[l]].hashs[hp[l]]
  BY AddedKeeps
<1>2. QED
  BY <1>1 DEF Values, Hashes, Blank

\* In another array nothing changes.
LEMMA AddedElsewhere ==
  ASSUME NEW mem, NEW root, NEW mem2, NEW root2, NEW n, NEW p, NEW b, NEW k,
         Added(mem, root, mem2, root2, n, p, b, k),
         NEW a, NEW keys, NEW hn, NEW hp, Covered(mem, root, a, keys, hn, hp), b[1] # a
  PROVE  Covered(mem2, root2, a, keys, hn, hp)
<1> SUFFICES ASSUME NEW d \in DOMAIN mem2, root2[d][1] = a, NEW q \in 1 .. mem2[d].count
             PROVE  \E l \in keys : hn[l] = d /\ hp[l] = q
  BY DEF Covered
<1>1. d # n
  BY DEF Added
<1>2. d \in DOMAIN mem /\ q \in 1 .. mem[d].count /\ root2[d] = root[d]
  BY <1>1 DEF Added
<1>3. QED
  BY <1>2 DEF Covered

\* In the array of the bucket the key has the new slot.
LEMMA AddedPlaced ==
  ASSUME NEW mem, NEW root, NEW mem2, NEW root2, NEW n, NEW p, NEW b, NEW k,
         Added(mem, root, mem2, root2, n, p, b, k),
         NEW a, NEW m, NEW keys, NEW hn, NEW hp, Placed(mem, root, a, m, keys, hn, hp),
         Covered(mem, root, a, keys, hn, hp), Values(mem, keys, hn, hp), Hashes(mem, keys, hn, hp),
         b = Bucket(a, m, k), k \notin keys,
         NEW hn2, hn2 = [l \in keys \cup {k} |-> IF l = k THEN n ELSE hn[l]],
         NEW hp2, hp2 = [l \in keys \cup {k} |-> IF l = k THEN p ELSE hp[l]]
  PROVE  /\ Placed(mem2, root2, a, m, keys \cup {k}, hn2, hp2)
         /\ Covered(mem2, root2, a, keys \cup {k}, hn2, hp2)
         /\ Values(mem2, keys \cup {k}, hn2, hp2)
         /\ Hashes(mem2, keys \cup {k}, hn2, hp2)
<1>1. hn2[k] = n /\ hp2[k] = p /\ \A l \in keys : hn2[l] = hn[l] /\ hp2[l] = hp[l]
  OBVIOUS
<1>2. n \in DOMAIN mem2 /\ root2[n] = b /\ p \in 1 .. mem2[n].count
      /\ mem2[n].vals[p] = k /\ mem2[n].hashs[p] = TinyOf[k]
  BY DEF Added
<1>3. Placed(mem2, root2, a, m, keys, hn, hp) /\ \A l \in keys : ~(hn[l] = n /\ hp[l] = p)
  BY AddedKeeps
<1>4. Values(mem2, keys, hn, hp) /\ Hashes(mem2, keys, hn, hp)
  BY AddedValues
<1>5. Placed(mem2, root2, a, m, keys \cup {k}, hn2, hp2)
  <2>1. ASSUME NEW l \in keys \cup {k}
        PROVE  hn2[l] \in DOMAIN mem2 /\ hp2[l] \in 1 .. mem2[hn2[l]].count
               /\ root2[hn2[l]] = Bucket(a, m, l)
    <3>1. CASE l = k
      BY <1>1, <1>2, <3>1
    <3>2. CASE l \in keys
      BY <1>1, <1>3, <3>2 DEF Placed
    <3>3. QED
      BY <3>1, <3>2
  <2>2. ASSUME NEW l \in keys \cup {k}, NEW o \in keys \cup {k}, hn2[l] = hn2[o], hp2[l] = hp2[o]
        PROVE  l = o
    <3>1. CASE l \in keys /\ o \in keys
      BY <1>1, <1>3, <2>2, <3>1 DEF Placed
    <3>2. CASE l = k /\ o \in keys
      BY <1>1, <1>3, <2>2, <3>2
    <3>3. CASE l \in keys /\ o = k
      BY <1>1, <1>3, <2>2, <3>3
    <3>4. QED
      BY <3>1, <3>2, <3>3
  <2>3. QED
    BY <2>1, <2>2 DEF Placed
<1>6. Covered(mem2, root2, a, keys \cup {k}, hn2, hp2)
  <2> SUFFICES ASSUME NEW d \in DOMAIN mem2, root2[d][1] = a, NEW q \in 1 .. mem2[d].count
               PROVE  \E l \in keys \cup {k} : hn2[l] = d /\ hp2[l] = q
    BY DEF Covered
  <2>1. CASE d = n /\ q = p
    BY <1>1, <2>1
  <2>2. CASE d \in DOMAIN mem /\ q \in 1 .. mem[d].count
    <3>1. root[d][1] = a
      BY <2>2 DEF Added
    <3>2. PICK l \in keys : hn[l] = d /\ hp[l] = q
      BY <2>2, <3>1 DEF Covered
    <3>3. QED
      BY <1>1, <3>2
  <2>3. QED
    BY <2>1, <2>2 DEF Added
<1>7. Values(mem2, keys \cup {k}, hn2, hp2) /\ Hashes(mem2, keys \cup {k}, hn2, hp2)
  <2> SUFFICES ASSUME NEW l \in keys \cup {k}
               PROVE  mem2[hn2[l]].vals[hp2[l]] = l /\ mem2[hn2[l]].hashs[hp2[l]] = TinyOf[l]
    BY DEF Values, Hashes
  <2>1. CASE l = k
    BY <1>1, <1>2, <2>1
  <2>2. CASE l \in keys
    BY <1>1, <1>4, <2>2 DEF Values, Hashes
  <2>3. QED
    BY <2>1, <2>2
<1>8. QED
  BY <1>5, <1>6, <1>7

-----------------------------------------------------------------------------
(***************************************************************************)
(* One slot is written over: slot p of node n gets the hash h and the      *)
(* value v.                                                                *)
(***************************************************************************)
Rewritten(mem, mem2, n, p, h, v) ==
  /\ DOMAIN mem2 = DOMAIN mem
  /\ \A d \in DOMAIN mem : mem2[d].count = mem[d].count
  /\ mem2[n].vals[p] = v /\ mem2[n].hashs[p] = h
  /\ \A d \in DOMAIN mem : \A q \in 1 .. mem[d].count : ~(d = n /\ q = p) =>
       mem2[d].vals[q] = mem[d].vals[q] /\ mem2[d].hashs[q] = mem[d].hashs[q]

WithSlot(mem, n, p, h, v) == [mem EXCEPT ![n] = SetSlot(@, p, h, v)]

CanWrite(mem, n, p, h, v) ==
  n \in DOMAIN mem /\ p \in 1 .. mem[n].count /\ h \in 0 .. 255 /\ v \in Keys \cup {Null}

\* A write to a slot in use changes that slot alone.
LEMMA SlotWritten ==
  ASSUME BucketChainAssumption, NEW mem, NEW B, NEW ch, NEW root, NEW depth,
         Links(mem, B, ch, root, depth), Beyond(mem),
         NEW n, NEW p, NEW h, NEW v, CanWrite(mem, n, p, h, v),
         NEW mem2, mem2 = WithSlot(mem, n, p, h, v)
  PROVE  /\ Links(mem2, B, ch, root, depth) /\ Beyond(mem2)
         /\ Rewritten(mem, mem2, n, p, h, v)
<1>1. n \in DOMAIN mem /\ p \in 1 .. mem[n].count /\ h \in 0 .. 255 /\ v \in Keys \cup {Null}
  BY DEF CanWrite
<1>2. mem[n] \in NodeType(n) /\ mem[n].count \in 0 .. Capacity(n) /\ Capacity(n) \in Nat \ {0}
  BY <1>1, Place
<1>3. p \in 1 .. Capacity(n)
  BY <1>1, <1>2
<1>4. /\ mem2[n] \in NodeType(n)
      /\ mem2[n].count = mem[n].count /\ mem2[n].left = mem[n].left /\ mem2[n].right = mem[n].right
      /\ \A q \in 1 .. Capacity(n) :
           /\ mem2[n].vals[q] = IF q = p THEN v ELSE mem[n].vals[q]
           /\ mem2[n].hashs[q] = IF q = p THEN h ELSE mem[n].hashs[q]
  <2> DEFINE d  == mem[n]
             hs == [d.hashs EXCEPT ![p] = h]
             vs == [d.vals EXCEPT ![p] = v]
  <2>1. mem2[n] = SetSlot(d, p, h, v)
    BY <1>1 DEF WithSlot
  <2>2. d \in NodeType(n)
    BY <1>2
  <2>3. d.hashs \in [1 .. Capacity(n) -> 0 .. 255] /\ d.vals \in [1 .. Capacity(n) -> Keys \cup {Null}]
    BY <2>2 DEF NodeType
  <2>4. /\ \A q \in 1 .. Capacity(n) : vs[q] = IF q = p THEN v ELSE d.vals[q]
        /\ \A q \in 1 .. Capacity(n) : hs[q] = IF q = p THEN h ELSE d.hashs[q]
    BY <2>3
  <2> HIDE DEF d, hs, vs
  <2>5. SetSlot(d, p, h, v) \in NodeType(n)
    BY <1>1, <1>3, <2>2, SetSlotIs
  <2>6. SetSlot(d, p, h, v) = Node(d.count, hs, vs, d.left, d.right)
    BY DEF SetSlot, hs, vs
  <2>7. /\ mem2[n].count = d.count /\ mem2[n].left = d.left /\ mem2[n].right = d.right
        /\ mem2[n].vals = vs /\ mem2[n].hashs = hs
    BY <2>1, <2>6 DEF Node
  <2>8. /\ mem2[n].count = mem[n].count /\ mem2[n].left = mem[n].left /\ mem2[n].right = mem[n].right
    BY <2>7 DEF d
  <2>9. \A q \in 1 .. Capacity(n) :
           /\ mem2[n].vals[q] = IF q = p THEN v ELSE mem[n].vals[q]
           /\ mem2[n].hashs[q] = IF q = p THEN h ELSE mem[n].hashs[q]
    BY <2>4, <2>7 DEF d
  <2>10. QED
    BY <2>1, <2>5, <2>8, <2>9
<1>5. DOMAIN mem2 = DOMAIN mem /\ \A d \in DOMAIN mem : d # n => mem2[d] = mem[d]
  BY DEF WithSlot
<1>6. Links(mem2, B, ch, root, depth)
  <2>1. ASSUME NEW d \in DOMAIN mem
        PROVE  /\ mem2[d] \in NodeType(d)
               /\ mem2[d].left = mem[d].left /\ mem2[d].right = mem[d].right
               /\ mem2[d].count = mem[d].count
    <3>1. CASE d = n
      BY <1>1, <1>4, <3>1
    <3>2. CASE d # n
      <4>1. mem[d] \in NodeType(d)
        BY Place
      <4>2. QED
        BY <1>5, <3>2, <4>1
    <3>3. QED
      BY <3>1, <3>2
  <2>2. QED
    BY <1>5, <2>1, LinksKept
<1>7. Beyond(mem2)
  <2> SUFFICES ASSUME NEW d \in DOMAIN mem, NEW q \in mem2[d].count + 1 .. Capacity(d)
               PROVE  mem2[d].vals[q] = Null
    BY <1>5 DEF Beyond
  <2>1. CASE d = n
    <3>1. q \in mem[n].count + 1 .. Capacity(n)
      BY <1>4, <2>1
    <3>2. q \in 1 .. Capacity(n) /\ q # p
      BY <1>1, <1>2, <3>1
    <3>3. QED
      BY <1>4, <2>1, <3>1, <3>2 DEF Beyond
  <2>2. CASE d # n
    BY <1>5, <2>2 DEF Beyond
  <2>3. QED
    BY <2>1, <2>2
<1>8. Rewritten(mem, mem2, n, p, h, v)
  <2>1. mem2[n].vals[p] = v /\ mem2[n].hashs[p] = h
    BY <1>3, <1>4
  <2>2. ASSUME NEW d \in DOMAIN mem PROVE mem2[d].count = mem[d].count
    BY <1>4, <1>5
  <2>3. ASSUME NEW d \in DOMAIN mem, NEW q \in 1 .. mem[d].count, ~(d = n /\ q = p)
        PROVE  mem2[d].vals[q] = mem[d].vals[q] /\ mem2[d].hashs[q] = mem[d].hashs[q]
    <3>1. CASE d = n
      <4>1. q \in 1 .. Capacity(n) /\ q # p
        BY <1>1, <1>2, <2>3, <3>1
      <4>2. QED
        BY <1>4, <3>1, <4>1
    <3>2. CASE d # n
      BY <1>5, <3>2
    <3>3. QED
      BY <3>1, <3>2
  <2>4. QED
    BY <1>5, <2>1, <2>2, <2>3 DEF Rewritten
<1>9. QED
  BY <1>6, <1>7, <1>8

\* No key loses its slot.
LEMMA RewrittenPlaced ==
  ASSUME NEW mem, NEW mem2, NEW n, NEW p, NEW h, NEW v, Rewritten(mem, mem2, n, p, h, v),
         NEW root, NEW a, NEW m, NEW keys, NEW hn, NEW hp
  PROVE  /\ Placed(mem, root, a, m, keys, hn, hp) => Placed(mem2, root, a, m, keys, hn, hp)
         /\ Covered(mem, root, a, keys, hn, hp) => Covered(mem2, root, a, keys, hn, hp)
<1>1. DOMAIN mem2 = DOMAIN mem /\ \A d \in DOMAIN mem : mem2[d].count = mem[d].count
  BY DEF Rewritten
<1>2. QED
  BY <1>1 DEF Placed, Covered

\* The other slots are as they were.
LEMMA RewrittenKeeps ==
  ASSUME NEW mem, NEW mem2, NEW n, NEW p, NEW h, NEW v, Rewritten(mem, mem2, n, p, h, v),
         NEW root, NEW a, NEW m, NEW keys, NEW hn, NEW hp, Placed(mem, root, a, m, keys, hn, hp),
         NEW some \in SUBSET keys, \A l \in some : ~(hn[l] = n /\ hp[l] = p)
  PROVE  /\ Values(mem, some, hn, hp) => Values(mem2, some, hn, hp)
         /\ Hashes(mem, some, hn, hp) => Hashes(mem2, some, hn, hp)
         /\ Blank(mem, some, hn, hp) => Blank(mem2, some, hn, hp)
<1>1. ASSUME NEW l \in some
      PROVE  /\ mem2[hn[l]].vals[hp[l]] = mem[hn[l]].vals[hp[l]]
             /\ mem2[hn[l]].hashs[hp[l]] = mem[hn[l]].hashs[hp[l]]
  <2>1. hn[l] \in DOMAIN mem /\ hp[l] \in 1 .. mem[hn[l]].count
    BY DEF Placed
  <2>2. QED
    BY <2>1 DEF Rewritten
<1>2. QED
  BY <1>1 DEF Values, Hashes, Blank

-----------------------------------------------------------------------------
(***************************************************************************)
(* An array of buckets appears and goes.                                   *)
(***************************************************************************)
Buckets(a, m) == IF a = 0 THEN {} ELSE {a} \X (0 .. m)

\* What is left in mem2 when the buckets of the array a have gone.
Dropped(mem, mem2, root, a) ==
  /\ DOMAIN mem2 = {n \in DOMAIN mem : root[n][1] # a}
  /\ \A n \in DOMAIN mem2 : mem2[n] = mem[n]

\* destroy_buckets: the nodes of the array go, and those of the other array stay as they are.
LEMMA DestroyDrops ==
  ASSUME BucketChainAssumption, NEW mem, NEW B, NEW ch, NEW root, NEW depth,
         Links(mem, B, ch, root, depth), NEW a \in 0 .. 2, NEW m \in Nat,
         NEW C, B = Buckets(a, m) \cup C, \A c \in C : c[1] # a
  PROVE  /\ Dropped(mem, Destroy(mem, a, m), root, a)
         /\ Links(Destroy(mem, a, m), C, ch, root, depth)
         /\ Beyond(mem) => Beyond(Destroy(mem, a, m))
<1> DEFINE D    == DOMAIN mem
           mem2 == Destroy(mem, a, m)
           gone == UNION {Range(NodesOf(mem, <<a, i>>)) : i \in {j \in 0 .. m : a # 0}}
<1>1. B \subseteq Main /\ C \subseteq Main /\ \A n \in D : root[n] \in B
  BY DEF Links, Numbered
<1>2. ASSUME NEW n \in D
      PROVE  n \in gone <=> root[n][1] = a
  <2>1. CASE a = 0
    <3>1. gone = {}
      BY <2>1
    <3>2. root[n][1] \in {1, 2}
      BY <1>1 DEF Main
    <3>3. QED
      BY <2>1, <3>1, <3>2
  <2>2. CASE a # 0
    <3>1. gone = UNION {Range(NodesOf(mem, <<a, i>>)) : i \in 0 .. m}
      BY <2>2
    <3>2. ASSUME NEW i \in 0 .. m
          PROVE  <<a, i>> \in B /\ Range(NodesOf(mem, <<a, i>>)) = {d \in D : root[d] = <<a, i>>}
      <4>1. <<a, i>> \in B
        BY <2>2 DEF Buckets
      <4>2. QED
        BY <4>1, NodesOfIs
    <3> HIDE DEF gone
    <3>3. n \in gone <=> \E i \in 0 .. m : root[n] = <<a, i>>
      BY <3>1, <3>2
    <3>4. root[n][1] = a => \E i \in 0 .. m : root[n] = <<a, i>>
      <4> SUFFICES ASSUME root[n][1] = a PROVE \E i \in 0 .. m : root[n] = <<a, i>>
        OBVIOUS
      <4>1. root[n] \in Buckets(a, m)
        BY <1>1
      <4>2. QED
        BY <2>2, <4>1 DEF Buckets
    <3>5. QED
      BY <3>3, <3>4
  <2>3. QED
    BY <2>1, <2>2
<1>3. mem2 = [n \in D \ gone |-> mem[n]]
  BY DEF Destroy, Restrict
<1> HIDE DEF gone, mem2
<1>4. Dropped(mem, mem2, root, a)
  <2>1. DOMAIN mem2 = D \ gone /\ \A n \in D \ gone : mem2[n] = mem[n]
    BY <1>3
  <2>2. D \ gone = {n \in D : root[n][1] # a}
    BY <1>2
  <2>3. QED
    BY <2>1, <2>2 DEF Dropped
<1>5. DOMAIN mem2 = {n \in D : root[n][1] # a} /\ \A n \in DOMAIN mem2 : mem2[n] = mem[n]
  BY <1>4 DEF Dropped
<1>6. ASSUME NEW c \in C
      PROVE  /\ ch[c] \in Seq(DOMAIN mem2) /\ Height(ch, c) > 0 /\ ch[c][1] = c
             /\ \A i \in 1 .. Height(ch, c) : root[ch[c][i]] = c /\ depth[ch[c][i]] = i
  <2>1. c \in B
    OBVIOUS
  <2>2. /\ ch[c] \in Seq(D) /\ Height(ch, c) > 0 /\ ch[c][1] = c
        /\ \A i \in 1 .. Height(ch, c) : root[ch[c][i]] = c /\ depth[ch[c][i]] = i
    BY <2>1 DEF Links, Numbered
  <2>3. \A i \in 1 .. Len(ch[c]) : ch[c][i] \in DOMAIN mem2
    <3> TAKE i \in 1 .. Len(ch[c])
    <3>1. ch[c][i] \in D /\ root[ch[c][i]] = c
      BY <2>2, ElementOfSeq DEF Height
    <3>2. QED
      BY <1>5, <3>1
  <2>4. ch[c] \in Seq(DOMAIN mem2)
    <3>1. ch[c] \in [1 .. Len(ch[c]) -> D] /\ Len(ch[c]) \in Nat
      BY <2>2, LenProperties
    <3>2. ch[c] \in [1 .. Len(ch[c]) -> DOMAIN mem2]
      BY <2>3, <3>1
    <3>3. QED
      BY <3>1, <3>2, SeqDef
  <2>5. QED
    BY <2>2, <2>4
<1>7. Links(mem2, C, ch, root, depth)
  <2>1. DOMAIN mem2 \subseteq Nodes
    BY <1>5 DEF Links
  <2>2. DOMAIN mem2 \cap Main = C
    <3>1. ASSUME NEW n \in DOMAIN mem2, n \in Main PROVE n \in C
      <4>1. n \in B /\ n \in D /\ root[n][1] # a
        BY <1>5, <3>1 DEF Links
      <4>2. root[n] = n
        BY <4>1, First
      <4>3. n \notin Buckets(a, m)
        BY <4>1, <4>2 DEF Buckets
      <4>4. QED
        BY <4>1, <4>3
    <3>2. ASSUME NEW c \in C PROVE c \in DOMAIN mem2 /\ c \in Main
      <4>1. c \in B /\ c \in Main /\ c[1] # a
        BY <1>1
      <4>2. c \in D /\ root[c] = c
        BY <4>1, First
      <4>3. QED
        BY <1>5, <4>1, <4>2
    <3>3. QED
      BY <3>1, <3>2
  <2>3. ASSUME NEW n \in DOMAIN mem2
        PROVE  /\ root[n] \in C /\ depth[n] \in 1 .. Height(ch, root[n]) /\ ch[root[n]][depth[n]] = n
               /\ Linked(mem2[n], n, ch[root[n]], Height(ch, root[n]), depth[n])
    <3>1. n \in D /\ root[n][1] # a /\ mem2[n] = mem[n]
      BY <1>5
    <3>2. /\ root[n] \in B /\ depth[n] \in 1 .. Height(ch, root[n]) /\ ch[root[n]][depth[n]] = n
          /\ Linked(mem[n], n, ch[root[n]], Height(ch, root[n]), depth[n])
      BY <3>1 DEF Links, Numbered
    <3>3. root[n] \notin Buckets(a, m)
      BY <3>1 DEF Buckets
    <3>4. QED
      BY <3>1, <3>2, <3>3
  <2>4. Numbered(DOMAIN mem2, C, ch, root, depth)
    BY <1>6, <2>3 DEF Numbered
  <2>5. QED
    BY <2>1, <2>2, <2>3, <2>4 DEF Links
<1>8. Beyond(mem) => Beyond(mem2)
  BY <1>5 DEF Beyond
<1>9. QED
  BY <1>4, <1>7, <1>8 DEF mem2

\* The other array keeps what it has.
LEMMA DroppedKeeps ==
  ASSUME NEW mem, NEW mem2, NEW root, NEW a, Dropped(mem, mem2, root, a),
         NEW o, o # a, NEW m, NEW keys, NEW hn, NEW hp, Placed(mem, root, o, m, keys, hn, hp)
  PROVE  /\ Placed(mem2, root, o, m, keys, hn, hp)
         /\ Covered(mem, root, o, keys, hn, hp) => Covered(mem2, root, o, keys, hn, hp)
         /\ Values(mem, keys, hn, hp) => Values(mem2, keys, hn, hp)
         /\ Hashes(mem, keys, hn, hp) => Hashes(mem2, keys, hn, hp)
<1>1. ASSUME NEW k \in keys
      PROVE  /\ hn[k] \in DOMAIN mem2 /\ mem2[hn[k]] = mem[hn[k]]
             /\ hp[k] \in 1 .. mem[hn[k]].count /\ root[hn[k]] = Bucket(o, m, k)
  <2>1. hn[k] \in DOMAIN mem /\ hp[k] \in 1 .. mem[hn[k]].count /\ root[hn[k]] = Bucket(o, m, k)
    BY DEF Placed
  <2>2. root[hn[k]][1] = o
    BY <2>1 DEF Bucket
  <2>3. QED
    BY <2>1, <2>2 DEF Dropped
<1>2. Placed(mem2, root, o, m, keys, hn, hp)
  BY <1>1 DEF Placed
<1>3. Covered(mem, root, o, keys, hn, hp) => Covered(mem2, root, o, keys, hn, hp)
  BY DEF Covered, Dropped
<1>4. /\ Values(mem, keys, hn, hp) => Values(mem2, keys, hn, hp)
      /\ Hashes(mem, keys, hn, hp) => Hashes(mem2, keys, hn, hp)
  BY <1>1 DEF Values, Hashes
<1>5. QED
  BY <1>2, <1>3, <1>4

\* What is in mem2 when the buckets of the array a have appeared, all empty.
ArrayAdded(mem, B, root, mem2, a, m) ==
  \E ch2, root2, depth2 :
    /\ Links(mem2, B \cup Buckets(a, m), ch2, root2, depth2) /\ Beyond(mem2)
    /\ DOMAIN mem \subseteq DOMAIN mem2
    /\ \A n \in DOMAIN mem : root2[n] = root[n] /\ mem2[n] = mem[n]
    /\ \A n \in DOMAIN mem2 \ DOMAIN mem : mem2[n].count = 0 /\ root2[n][1] = a

\* A new array of buckets adds chains of one empty node.
LEMMA NewNodesLink ==
  ASSUME BucketChainAssumption, NEW mem, NEW B, NEW ch, NEW root, NEW depth,
         Links(mem, B, ch, root, depth), Beyond(mem), NEW a \in 1 .. 2, NEW m \in 0 .. MaxMask,
         \A b \in B : b[1] # a
  PROVE  ArrayAdded(mem, B, root, WithArray(mem, a, m), a, m)
<1> DEFINE mem2   == WithArray(mem, a, m)
           D      == DOMAIN mem
           N      == {a} \X (0 .. m)
           ch2    == [x \in B \cup N |-> IF x \in N THEN <<x>> ELSE ch[x]]
           root2  == [x \in D \cup N |-> IF x \in N THEN x ELSE root[x]]
           depth2 == [x \in D \cup N |-> IF x \in N THEN 1 ELSE depth[x]]
<1>1. N \subseteq Main /\ N = Buckets(a, m) /\ \A x \in N : x[1] = a
  <2>1. 0 .. m \subseteq 0 .. MaxMask
    BY MaxMaskType
  <2>2. QED
    BY <2>1 DEF Main, Buckets
<1>2. N \cap D = {} /\ N \cap B = {} /\ D \cap Main = B /\ D \subseteq Nodes
  BY <1>1 DEF Links
<1>3. DOMAIN mem2 = D \cup N /\ (\A n \in D : mem2[n] = mem[n])
      /\ \A n \in N : mem2[n] = NewNode(n, Null)
  BY <1>2 DEF WithArray
<1>4. ASSUME NEW n \in N
      PROVE  /\ mem2[n] \in NodeType(n) /\ mem2[n].count = 0 /\ mem2[n].left = Null
             /\ mem2[n].right = Null /\ \A q \in 1 .. Capacity(n) : mem2[n].vals[q] = Null
             /\ Capacity(n) \in Nat \ {0}
  <2>1. mem2[n] = NewNode(n, Null) /\ Null \in Nodes \cup {Null}
    BY <1>3
  <2>2. Capacity(n) \in Nat \ {0}
    BY CapacityPositive
  <2>3. QED
    BY <2>1, <2>2, NewNodeIs
<1>5. /\ \A x \in N : root2[x] = x /\ depth2[x] = 1
      /\ \A x \in D : root2[x] = root[x] /\ depth2[x] = depth[x]
  BY <1>2
<1>6. ASSUME NEW x \in N
      PROVE  /\ ch2[x] \in Seq(D \cup N) /\ Height(ch2, x) = 1 /\ ch2[x][1] = x
  <2>1. ch2[x] = <<x>>
    OBVIOUS
  <2> HIDE DEF ch2
  <2>2. QED
    BY <2>1 DEF Height
<1>7. ASSUME NEW x \in B
      PROVE  ch2[x] = ch[x] /\ Height(ch2, x) = Height(ch, x) /\ ch2[x] \in Seq(D \cup N)
  <2>1. ch2[x] = ch[x]
    BY <1>2
  <2>2. ch[x] \in Seq(D)
    BY First
  <2> HIDE DEF ch2
  <2>3. ch[x] \in Seq(D \cup N)
    BY <2>2, SeqMonotonic
  <2>4. QED
    BY <2>1, <2>3 DEF Height
<1> HIDE DEF mem2, D, N, ch2, root2, depth2
<1>8. ASSUME NEW x \in D
      PROVE  /\ root[x] \in B /\ depth[x] \in 1 .. Height(ch, root[x]) /\ ch[root[x]][depth[x]] = x
             /\ Linked(mem[x], x, ch[root[x]], Height(ch, root[x]), depth[x])
  BY DEF Links, Numbered, D
<1>9. ASSUME NEW x \in B
      PROVE  /\ Height(ch, x) > 0 /\ ch[x][1] = x
             /\ \A i \in 1 .. Height(ch, x) : /\ ch[x][i] \in D
                                              /\ root[ch[x][i]] = x /\ depth[ch[x][i]] = i
  <2>1. ch[x] \in Seq(D)
    BY First DEF D
  <2>2. \A i \in 1 .. Height(ch, x) : ch[x][i] \in D
    BY <2>1, ElementOfSeq DEF Height
  <2>3. QED
    BY <2>2 DEF Links, Numbered
<1>10. ASSUME NEW x \in D \cup N
       PROVE  /\ root2[x] \in B \cup N /\ depth2[x] \in 1 .. Height(ch2, root2[x])
              /\ ch2[root2[x]][depth2[x]] = x
              /\ Linked(mem2[x], x, ch2[root2[x]], Height(ch2, root2[x]), depth2[x])
  <2>1. CASE x \in N
    <3>1. root2[x] = x /\ depth2[x] = 1 /\ Height(ch2, x) = 1 /\ ch2[x][1] = x
      BY <1>5, <1>6, <2>1
    <3>2. Linked(mem2[x], x, ch2[x], 1, 1)
      BY <1>4, <2>1 DEF Linked
    <3>3. QED
      BY <2>1, <3>1, <3>2
  <2>2. CASE x \in D
    <3>1. root2[x] = root[x] /\ depth2[x] = depth[x] /\ root[x] \in B /\ mem2[x] = mem[x]
      BY <1>3, <1>5, <1>8, <2>2 DEF D
    <3>2. ch2[root[x]] = ch[root[x]] /\ Height(ch2, root[x]) = Height(ch, root[x])
      BY <1>7, <3>1
    <3>3. /\ depth[x] \in 1 .. Height(ch, root[x]) /\ ch[root[x]][depth[x]] = x
          /\ Linked(mem[x], x, ch[root[x]], Height(ch, root[x]), depth[x])
      BY <1>8, <2>2
    <3>4. QED
      BY <3>1, <3>2, <3>3, Zenon
  <2>3. QED
    BY <2>1, <2>2
<1>11. ASSUME NEW x \in B \cup N
       PROVE  /\ ch2[x] \in Seq(D \cup N) /\ Height(ch2, x) > 0 /\ ch2[x][1] = x
              /\ \A i \in 1 .. Height(ch2, x) : root2[ch2[x][i]] = x /\ depth2[ch2[x][i]] = i
  <2>1. CASE x \in N
    <3>1. ch2[x] \in Seq(D \cup N) /\ Height(ch2, x) = 1 /\ ch2[x][1] = x
      BY <1>6, <2>1
    <3>2. \A i \in 1 .. 1 : i = 1
      OBVIOUS
    <3>3. QED
      BY <1>5, <2>1, <3>1, <3>2
  <2>2. CASE x \in B
    BY <1>5, <1>7, <1>9, <2>2
  <2>3. QED
    BY <2>1, <2>2
<1>12. Links(mem2, B \cup N, ch2, root2, depth2)
  <2>1. Numbered(D \cup N, B \cup N, ch2, root2, depth2)
    BY <1>10, <1>11 DEF Numbered
  <2>2. DOMAIN mem2 \subseteq Nodes /\ DOMAIN mem2 \cap Main = B \cup N
    BY <1>1, <1>2, <1>3 DEF Nodes, D
  <2>3. QED
    BY <1>3, <1>10, <2>1, <2>2 DEF Links, D
<1>13. Beyond(mem2)
  <2> SUFFICES ASSUME NEW n \in D \cup N, NEW q \in mem2[n].count + 1 .. Capacity(n)
               PROVE  mem2[n].vals[q] = Null
    BY <1>3 DEF Beyond, D
  <2>1. CASE n \in N
    BY <1>4, <2>1
  <2>2. CASE n \in D
    BY <1>3, <2>2 DEF Beyond, D
  <2>3. QED
    BY <2>1, <2>2
<1>14. /\ D \subseteq DOMAIN mem2 /\ \A n \in D : root2[n] = root[n] /\ mem2[n] = mem[n]
       /\ \A n \in DOMAIN mem2 \ D : mem2[n].count = 0 /\ root2[n][1] = a
  <2>1. ASSUME NEW n \in DOMAIN mem2 \ D PROVE n \in N
    BY <1>3 DEF D
  <2>2. QED
    BY <1>1, <1>3, <1>4, <1>5, <2>1 DEF D
<1>15. QED
  BY <1>1, <1>12, <1>13, <1>14 DEF D, mem2, ArrayAdded

-----------------------------------------------------------------------------
(***************************************************************************)
(* for_each goes over every slot once: what FlattenSeq does, by induction. *)
(***************************************************************************)
Enumerates(s, X) ==
  /\ s \in Seq(X)
  /\ \A x \in X : \E i \in 1 .. Len(s) : s[i] = x
  /\ \A i, j \in 1 .. Len(s) : s[i] = s[j] => i = j

\* Two enumerations, one after the other.
LEMMA ConcatEnumerates ==
  ASSUME NEW X, NEW Y, NEW s, NEW t, Enumerates(s, X), Enumerates(t, Y), X \cap Y = {}
  PROVE  Enumerates(s \o t, X \cup Y)
<1>1. s \in Seq(X \cup Y) /\ t \in Seq(X \cup Y)
  BY SeqMonotonic DEF Enumerates
<1>2. Len(s) \in Nat /\ Len(t) \in Nat
  BY <1>1, LenProperties
<1>3. /\ s \o t \in Seq(X \cup Y) /\ Len(s \o t) = Len(s) + Len(t)
      /\ \A i \in 1 .. Len(s) + Len(t) :
           (s \o t)[i] = IF i <= Len(s) THEN s[i] ELSE t[i - Len(s)]
  BY <1>1, ConcatProperties
<1> DEFINE u == s \o t
           g == Len(s)
           h == Len(t)
<1>4. ASSUME NEW i \in 1 .. g + h
      PROVE  /\ i <= g => i \in 1 .. g /\ u[i] = s[i] /\ u[i] \in X
             /\ ~(i <= g) => i - g \in 1 .. h /\ u[i] = t[i - g] /\ u[i] \in Y
  <2>1. \A j \in 1 .. g : s[j] \in X
    BY ElementOfSeq DEF Enumerates
  <2>2. \A j \in 1 .. h : t[j] \in Y
    BY ElementOfSeq DEF Enumerates
  <2>3. u[i] = IF i <= g THEN s[i] ELSE t[i - g]
    BY <1>3
  <2> HIDE DEF u, g, h
  <2>4. g \in Nat /\ h \in Nat
    BY <1>2 DEF g, h
  <2>5. QED
    BY <2>1, <2>2, <2>3, <2>4
<1>5. /\ \A x \in X : \E i \in 1 .. g : s[i] = x
      /\ \A i, j \in 1 .. g : s[i] = s[j] => i = j
      /\ \A x \in Y : \E i \in 1 .. h : t[i] = x
      /\ \A i, j \in 1 .. h : t[i] = t[j] => i = j
  BY DEF Enumerates
<1>6. u \in Seq(X \cup Y) /\ Len(u) = g + h /\ g \in Nat /\ h \in Nat
  BY <1>2, <1>3
<1>7. \A i \in 1 .. g + h : u[i] = IF i <= g THEN s[i] ELSE t[i - g]
  BY <1>3
<1> HIDE DEF u, g, h
<1>8. ASSUME NEW x \in X \cup Y PROVE \E i \in 1 .. g + h : u[i] = x
  <2>1. CASE x \in X
    <3>1. PICK i \in 1 .. g : s[i] = x
      BY <1>5, <2>1
    <3>2. i \in 1 .. g + h /\ i <= g
      BY <1>6
    <3>3. QED
      BY <1>7, <3>1, <3>2
  <2>2. CASE x \in Y
    <3>1. PICK i \in 1 .. h : t[i] = x
      BY <1>5, <2>2
    <3>2. g + i \in 1 .. g + h /\ ~(g + i <= g) /\ (g + i) - g = i
      BY <1>6
    <3>3. QED
      BY <1>7, <3>1, <3>2
  <2>3. QED
    BY <2>1, <2>2
<1>9. ASSUME NEW i \in 1 .. g + h, NEW j \in 1 .. g + h, u[i] = u[j] PROVE i = j
  <2>1. i <= g <=> j <= g
    BY <1>4, <1>9
  <2>2. CASE i <= g
    BY <1>4, <1>5, <1>9, <2>1, <2>2
  <2>3. CASE ~(i <= g)
    <3>1. i - g \in 1 .. h /\ j - g \in 1 .. h /\ t[i - g] = t[j - g]
      BY <1>4, <1>9, <2>1, <2>3
    <3>2. i - g = j - g
      BY <1>5, <3>1
    <3>3. QED
      BY <1>6, <3>2
  <2>4. QED
    BY <2>2, <2>3
<1>10. QED
  BY <1>6, <1>8, <1>9 DEF Enumerates, u

\* The function in FlattenSeq exists.
LEMMA FlattenExists ==
  ASSUME NEW ss, NEW h \in Nat \ {0}
  PROVE  \E f : f = [i \in 1 .. h |-> IF i = 1 THEN ss[i] ELSE f[i - 1] \o ss[i]]
<1> DEFINE Eq(f, j) == f = [i \in 1 .. j |-> IF i = 1 THEN ss[i] ELSE f[i - 1] \o ss[i]]
           Bad      == {j \in Nat \ {0} : ~\E f : Eq(f, j)}
<1>1. SUFFICES ASSUME Bad # {} PROVE FALSE
  OBVIOUS
<1>2. PICK j \in Bad : \A k \in Bad : j <= k
  <2>1. Bad \in SUBSET Nat
    OBVIOUS
  <2> HIDE DEF Bad
  <2>2. QED
    BY <1>1, <2>1, LeastNumber
<1>3. j # 1
  <2> DEFINE f == [i \in 1 .. 1 |-> ss[i]]
  <2>1. f = [i \in 1 .. 1 |-> IF i = 1 THEN ss[i] ELSE f[i - 1] \o ss[i]]
    OBVIOUS
  <2>2. \E g : Eq(g, 1)
    <3> HIDE DEF f
    <3> QED
      BY <2>1
  <2> HIDE DEF Eq
  <2>3. QED
    BY <2>2
<1>4. j - 1 \in Nat \ {0} /\ j - 1 \notin Bad
  <2>1. j \in Nat \ {0}
    OBVIOUS
  <2> HIDE DEF Bad
  <2>2. QED
    BY <1>2, <1>3, <2>1
<1>5. PICK g : Eq(g, j - 1)
  <2> HIDE DEF Eq
  <2> QED
    BY <1>4
<1> DEFINE f == [i \in 1 .. j |-> IF i = 1 THEN ss[i] ELSE g[i - 1] \o ss[i]]
<1>6. \A i \in 1 .. j - 1 : f[i] = g[i]
  <2>1. \A i \in 1 .. j - 1 : g[i] = IF i = 1 THEN ss[i] ELSE g[i - 1] \o ss[i]
    <3>1. j - 1 \in Nat
      BY <1>4
    <3>2. QED
      BY <1>5
  <2>2. \A i \in 1 .. j - 1 : i \in 1 .. j
    BY <1>4
  <2>3. QED
    BY <2>1, <2>2
<1>7. \A i \in 1 .. j : i # 1 => i - 1 \in 1 .. j - 1
  BY <1>4
<1>8. Eq(f, j)
  <2>1. \A i \in 1 .. j : f[i] = IF i = 1 THEN ss[i] ELSE f[i - 1] \o ss[i]
    <3> TAKE i \in 1 .. j
    <3>1. f[i] = IF i = 1 THEN ss[i] ELSE g[i - 1] \o ss[i]
      OBVIOUS
    <3>2. i # 1 => f[i - 1] = g[i - 1]
      BY <1>6, <1>7
    <3> HIDE DEF f
    <3>3. QED
      BY <3>1, <3>2
  <2>2. f = [i \in 1 .. j |-> f[i]]
    OBVIOUS
  <2> HIDE DEF f
  <2>3. QED
    BY <2>1, <2>2
<1>9. j \in Nat \ {0} /\ ~\E e : Eq(e, j)
  OBVIOUS
<1> HIDE DEF f, Eq, Bad
<1>10. QED
  BY <1>8, <1>9

\* Enumerations of disjoint sets, one after the other, are one of their union.
LEMMA FlattenEnumerates ==
  ASSUME NEW h \in Nat, NEW S, NEW ss \in Seq(S), Len(ss) = h, NEW X,
         \A i \in 1 .. h : Enumerates(ss[i], X[i]),
         \A i, j \in 1 .. h : i # j => X[i] \cap X[j] = {}
  PROVE  Enumerates(FlattenSeq(ss), UNION {X[i] : i \in 1 .. h})
<1>1. CASE h = 0
  <2>1. ss = << >>
    BY <1>1, EmptySeq
  <2>2. FlattenSeq(ss) = << >>
    BY <1>1, <2>1 DEF FlattenSeq
  <2>3. UNION {X[i] : i \in 1 .. h} = {}
    BY <1>1
  <2>4. Enumerates(<< >>, {})
    BY EmptySeq DEF Enumerates
  <2>5. QED
    BY <2>2, <2>3, <2>4
<1>2. CASE h # 0
  <2> DEFINE Eq(f) == f = [i \in 1 .. h |-> IF i = 1 THEN ss[i] ELSE f[i - 1] \o ss[i]]
             f     == CHOOSE g : Eq(g)
             Upto(i) == UNION {X[j] : j \in 1 .. i}
             Bad   == {i \in Nat : i \in 1 .. h /\ ~Enumerates(f[i], Upto(i))}
  <2>1. Eq(f)
    <3>1. h \in Nat \ {0}
      BY <1>2
    <3>2. \E g : g = [i \in 1 .. h |-> IF i = 1 THEN ss[i] ELSE g[i - 1] \o ss[i]]
      BY <3>1, FlattenExists
    <3>3. \E g : Eq(g)
      BY <3>2
    <3> HIDE DEF Eq
    <3>4. QED
      BY <3>3
  <2>2. FlattenSeq(ss) = f[h]
    BY <1>2 DEF FlattenSeq
  <2>3. \A i \in 1 .. h : f[i] = IF i = 1 THEN ss[i] ELSE f[i - 1] \o ss[i]
    <3> HIDE DEF f
    <3> QED
      BY <2>1
  <2> HIDE DEF f, Eq
  <2>4. Bad = {}
    <3> SUFFICES ASSUME Bad # {} PROVE FALSE
      OBVIOUS
    <3>1. PICK i \in Bad : \A j \in Bad : i <= j
      <4>1. Bad \in SUBSET Nat
        OBVIOUS
      <4> HIDE DEF Bad
      <4>2. QED
        BY <4>1, LeastNumber
    <3>2. i \in 1 .. h /\ ~Enumerates(f[i], Upto(i))
      OBVIOUS
    <3>3. i # 1
      <4> SUFFICES ASSUME i = 1 PROVE FALSE
        OBVIOUS
      <4>1. Upto(1) = X[1]
        OBVIOUS
      <4>2. 1 \in 1 .. h
        BY <3>2
      <4> HIDE DEF Upto, Bad
      <4>3. QED
        BY <2>3, <3>2, <4>1, <4>2
    <3>4. i - 1 \in 1 .. h /\ i - 1 \in Nat /\ i - 1 < i
      BY <3>2, <3>3
    <3>5. i - 1 \notin Bad
      <4> HIDE DEF Bad
      <4> QED
        BY <3>1, <3>2, <3>4
    <3>6. Enumerates(f[i - 1], Upto(i - 1))
      <4> HIDE DEF Upto
      <4> QED
        BY <3>4, <3>5
    <3>7. Upto(i) = Upto(i - 1) \cup X[i]
      <4>1. 1 .. i = 1 .. i - 1 \cup {i}
        BY <3>2
      <4>2. QED
        BY <4>1
    <3>8. Upto(i - 1) \cap X[i] = {}
      <4>1. \A j \in 1 .. i - 1 : j \in 1 .. h /\ j # i
        BY <3>2
      <4>2. QED
        BY <3>2, <4>1
    <3> HIDE DEF Upto, Bad
    <3>9. Enumerates(f[i - 1] \o ss[i], Upto(i - 1) \cup X[i])
      BY <3>2, <3>6, <3>8, ConcatEnumerates
    <3>10. QED
      BY <2>3, <3>2, <3>3, <3>7, <3>9
  <2>5. h \in 1 .. h
    BY <1>2
  <2>6. Enumerates(f[h], Upto(h))
    <3> HIDE DEF Upto
    <3> QED
      BY <2>4, <2>5
  <2>7. QED
    BY <2>2, <2>6
<1>3. QED
  BY <1>1, <1>2

\* The slots of the buckets 0 .. m of the array a, those that hold a value.
SlotsIn(mem, root, a, m) ==
  UNION {{<<n, p>> : p \in 1 .. mem[n].count} : n \in {d \in DOMAIN mem : root[d] \in Buckets(a, m)}}

\* The walk over an array meets every slot in use, and none twice.
LEMMA SlotsEnumerate ==
  ASSUME BucketChainAssumption, NEW mem, NEW B, NEW ch, NEW root, NEW depth,
         Links(mem, B, ch, root, depth), NEW a \in 1 .. 2, NEW m \in Nat, Buckets(a, m) \subseteq B
  PROVE  Enumerates(Slots(mem, a, m), SlotsIn(mem, root, a, m))
<1> DEFINE InNode(n) == [p \in 1 .. mem[n].count |-> <<n, p>>]
           Of(n)     == {<<n, p>> : p \in 1 .. mem[n].count}
           Inner(b)  == [i \in DOMAIN NodesOf(mem, b) |-> InNode(NodesOf(mem, b)[i])]
           All(b)    == UNION {Of(n) : n \in {d \in DOMAIN mem : root[d] = b}}
           Outer     == [i \in 1 .. m + 1 |-> FlattenSeq(Inner(<<a, i - 1>>))]
<1>1. Slots(mem, a, m) = FlattenSeq(Outer)
  BY DEF Slots
<1>2. ASSUME NEW n \in DOMAIN mem
      PROVE  Enumerates(InNode(n), Of(n))
  <2> DEFINE c == mem[n].count
             s == [p \in 1 .. c |-> <<n, p>>]
  <2>1. c \in Nat
    <3>1. mem[n].count \in 0 .. Capacity(n) /\ Capacity(n) \in Nat \ {0}
      BY Place
    <3>2. QED
      BY <3>1
  <2> HIDE DEF c
  <2>2. s \in Seq({<<n, p>> : p \in 1 .. c}) /\ Len(s) = c /\ \A p \in 1 .. c : s[p] = <<n, p>>
    BY <2>1
  <2> HIDE DEF s
  <2>3. \A x \in {<<n, p>> : p \in 1 .. c} : \E i \in 1 .. Len(s) : s[i] = x
    BY <2>2
  <2>4. \A i, j \in 1 .. Len(s) : s[i] = s[j] => i = j
    BY <2>2
  <2>5. Enumerates(s, {<<n, p>> : p \in 1 .. c})
    BY <2>2, <2>3, <2>4 DEF Enumerates
  <2>6. QED
    BY <2>5 DEF s, c
<1> HIDE DEF InNode, Of, Outer
<1>3. ASSUME NEW b \in B
      PROVE  Enumerates(FlattenSeq(Inner(b)), All(b))
  <2> DEFINE h == Height(ch, b)
             X == [i \in 1 .. h |-> Of(NodesOf(mem, b)[i])]
  <2>1. h \in Nat \ {0} /\ b \in DOMAIN mem /\ root[b] = b /\ depth[b] = 1
    BY First
  <2>2. NodesOf(mem, b) = Chain(mem, b) /\ Range(NodesOf(mem, b)) = {d \in DOMAIN mem : root[d] = b}
    BY NodesOfIs
  <2>3. /\ DOMAIN Chain(mem, b) = 1 .. h
        /\ \A i \in 1 .. h : /\ Chain(mem, b)[i] \in DOMAIN mem
                             /\ root[Chain(mem, b)[i]] = b /\ depth[Chain(mem, b)[i]] = i
    <3>1. h - 1 + 1 = h /\ \A i \in 1 .. h : 1 + i - 1 = i
      BY <2>1
    <3>2. DOMAIN Chain(mem, b) = 1 .. Height(ch, root[b]) - depth[b] + 1
      BY <2>1, ChainOf
    <3>3. DOMAIN Chain(mem, b) = 1 .. h
      BY <2>1, <3>1, <3>2
    <3>4. \A i \in DOMAIN Chain(mem, b) :
              /\ Chain(mem, b)[i] \in DOMAIN mem /\ root[Chain(mem, b)[i]] = root[b]
              /\ depth[Chain(mem, b)[i]] = depth[b] + i - 1
      BY <2>1, ChainOf
    <3> HIDE DEF h
    <3>5. QED
      BY <2>1, <3>1, <3>3, <3>4
  <2> DEFINE c == NodesOf(mem, b)
  <2>4. /\ DOMAIN c = 1 .. h
        /\ \A i \in 1 .. h : c[i] \in DOMAIN mem /\ depth[c[i]] = i
    BY <2>2, <2>3
  <2> HIDE DEF h
  <2>5. Inner(b) = [i \in 1 .. h |-> InNode(c[i])]
    BY <2>4
  <2> HIDE DEF c
  <2>6. \A i \in 1 .. h : Enumerates(InNode(c[i]), X[i])
    BY <1>2, <2>4 DEF c
  <2>7. \A i, j \in 1 .. h : i # j => X[i] \cap X[j] = {}
    BY <2>4 DEF Of, c
  <2>8. UNION {X[i] : i \in 1 .. h} = All(b)
    <3>1. {c[i] : i \in 1 .. h} = {d \in DOMAIN mem : root[d] = b}
      BY <2>2, <2>4 DEF Range, c
    <3>2. UNION {X[i] : i \in 1 .. h} = UNION {Of(c[i]) : i \in 1 .. h}
      BY DEF c
    <3>3. QED
      BY <3>1, <3>2
  <2> DEFINE ss == [i \in 1 .. h |-> InNode(c[i])]
  <2>9. ss \in Seq({InNode(c[i]) : i \in 1 .. h}) /\ Len(ss) = h /\ \A i \in 1 .. h : ss[i] = InNode(c[i])
    BY <2>1
  <2> HIDE DEF ss, X
  <2>10. \A i \in 1 .. h : Enumerates(ss[i], X[i])
    BY <2>6, <2>9
  <2>11. h \in Nat
    BY <2>1
  <2>12. Enumerates(FlattenSeq(ss), UNION {X[i] : i \in 1 .. h})
    BY <2>7, <2>9, <2>10, <2>11, FlattenEnumerates
  <2>13. QED
    BY <2>5, <2>8, <2>12 DEF ss
<1> HIDE DEF Inner, All
<1>4. \A i \in 1 .. m + 1 : <<a, i - 1>> \in B
  BY DEF Buckets
<1> DEFINE X == [i \in 1 .. m + 1 |-> All(<<a, i - 1>>)]
<1>5. /\ \A i \in 1 .. m + 1 : Enumerates(FlattenSeq(Inner(<<a, i - 1>>)), X[i])
  BY <1>3, <1>4
<1>6. \A i, j \in 1 .. m + 1 : i # j => X[i] \cap X[j] = {}
  <2> SUFFICES ASSUME NEW i \in 1 .. m + 1, NEW j \in 1 .. m + 1, NEW s \in X[i], s \in X[j]
               PROVE  i = j
    OBVIOUS
  <2>1. PICK d \in DOMAIN mem : root[d] = <<a, i - 1>> /\ s \in Of(d)
    BY DEF All
  <2>2. PICK e \in DOMAIN mem : root[e] = <<a, j - 1>> /\ s \in Of(e)
    BY DEF All
  <2>3. d = e
    BY <2>1, <2>2 DEF Of
  <2>4. i - 1 = j - 1
    BY <2>1, <2>2, <2>3
  <2>5. QED
    BY <2>4
<1>7. UNION {X[i] : i \in 1 .. m + 1} = SlotsIn(mem, root, a, m)
  <2>1. \A b : b \in Buckets(a, m) <=> \E i \in 1 .. m + 1 : b = <<a, i - 1>>
    <3>1. ASSUME NEW i \in 0 .. m PROVE i + 1 \in 1 .. m + 1 /\ (i + 1) - 1 = i
      OBVIOUS
    <3>2. ASSUME NEW b \in Buckets(a, m) PROVE \E i \in 1 .. m + 1 : b = <<a, i - 1>>
      <4>1. PICK i \in 0 .. m : b = <<a, i>>
        BY DEF Buckets
      <4>2. QED
        BY <3>1, <4>1
    <3>3. ASSUME NEW i \in 1 .. m + 1 PROVE <<a, i - 1>> \in Buckets(a, m)
      BY DEF Buckets
    <3>4. QED
      BY <3>2, <3>3
  <2>2. ASSUME NEW s
        PROVE  (\E i \in 1 .. m + 1 : s \in X[i]) <=> s \in SlotsIn(mem, root, a, m)
    <3>1. s \in SlotsIn(mem, root, a, m) <=> \E d \in DOMAIN mem : root[d] \in Buckets(a, m) /\ s \in Of(d)
      BY DEF SlotsIn, Of
    <3>2. \A i \in 1 .. m + 1 : s \in X[i] <=> \E d \in DOMAIN mem : root[d] = <<a, i - 1>> /\ s \in Of(d)
      BY DEF All
    <3> HIDE DEF X
    <3>3. QED
      BY <2>1, <3>1, <3>2
  <2> HIDE DEF X
  <2>3. QED
    BY <2>2
<1> DEFINE S == {FlattenSeq(Inner(<<a, i - 1>>)) : i \in 1 .. m + 1}
<1>8. /\ Outer \in Seq(S) /\ Len(Outer) = m + 1
      /\ \A i \in 1 .. m + 1 : Outer[i] = FlattenSeq(Inner(<<a, i - 1>>))
  BY SMTT(30) DEF Outer
<1> HIDE DEF S, X
<1>9. m + 1 \in Nat /\ \A i \in 1 .. m + 1 : Enumerates(Outer[i], X[i])
  <2>1. \A i \in 1 .. m + 1 : Enumerates(Outer[i], X[i])
    BY <1>5, <1>8, Zenon
  <2>2. QED
    BY <2>1
<1>10. Enumerates(FlattenSeq(Outer), UNION {X[i] : i \in 1 .. m + 1})
  BY <1>6, <1>8, <1>9, FlattenEnumerates
<1>11. QED
  BY <1>1, <1>7, <1>10

-----------------------------------------------------------------------------
(***************************************************************************)
(* What a rehash has to move: the slots of the keys.                       *)
(***************************************************************************)
Homes(keys, hn, hp) == {<<hn[k], hp[k]>> : k \in keys}

\* The slots that a rehash walks over are those of the keys.
LEMMA SlotsAreHomes ==
  ASSUME BucketChainAssumption, NEW mem, NEW B, NEW ch, NEW root, NEW depth,
         Links(mem, B, ch, root, depth), NEW a \in 1 .. 2, NEW m \in Masks,
         Buckets(a, m) \subseteq B, \A b \in B : b[1] = a => b \in Buckets(a, m),
         NEW keys, NEW hn, NEW hp,
         Placed(mem, root, a, m, keys, hn, hp), Covered(mem, root, a, keys, hn, hp)
  PROVE  Enumerates(Slots(mem, a, m), Homes(keys, hn, hp))
<1>1. m \in Nat
  BY DEF Masks
<1>2. Enumerates(Slots(mem, a, m), SlotsIn(mem, root, a, m))
  BY <1>1, SlotsEnumerate
<1>3. ASSUME NEW k \in keys PROVE <<hn[k], hp[k]>> \in SlotsIn(mem, root, a, m)
  <2>1. hn[k] \in DOMAIN mem /\ hp[k] \in 1 .. mem[hn[k]].count /\ root[hn[k]] = Bucket(a, m, k)
    BY DEF Placed
  <2>2. root[hn[k]] \in B
    BY <2>1, Place
  <2>3. root[hn[k]] \in Buckets(a, m)
    BY <2>1, <2>2 DEF Bucket
  <2>4. QED
    BY <2>1, <2>3 DEF SlotsIn
<1>4. ASSUME NEW s \in SlotsIn(mem, root, a, m) PROVE \E k \in keys : s = <<hn[k], hp[k]>>
  <2>1. PICK n \in DOMAIN mem : root[n] \in Buckets(a, m) /\ s \in {<<n, p>> : p \in 1 .. mem[n].count}
    BY DEF SlotsIn
  <2>2. PICK p \in 1 .. mem[n].count : s = <<n, p>>
    BY <2>1
  <2>3. root[n][1] = a
    BY <2>1 DEF Buckets
  <2>4. QED
    BY <2>2, <2>3 DEF Covered
<1>5. SlotsIn(mem, root, a, m) = Homes(keys, hn, hp)
  BY <1>3, <1>4 DEF Homes
<1>6. QED
  BY <1>2, <1>5

\* A slot off the list.
LEMMA TailEnumerates ==
  ASSUME NEW X, NEW s, Enumerates(s, X), s # << >>
  PROVE  Head(s) \in X /\ Enumerates(Tail(s), X \ {Head(s)})
<1>1. /\ s \in Seq(X) /\ (\A x \in X : \E i \in 1 .. Len(s) : s[i] = x)
      /\ \A i, j \in 1 .. Len(s) : s[i] = s[j] => i = j
  BY DEF Enumerates
<1>2. Head(s) \in X /\ Tail(s) \in Seq(X) /\ Len(Tail(s)) = Len(s) - 1
      /\ \A i \in 1 .. Len(Tail(s)) : Tail(s)[i] = s[i + 1]
  BY <1>1, HeadTailProperties
<1>3. Len(s) \in Nat \ {0} /\ Head(s) = s[1]
  BY <1>1, EmptySeq
<1> DEFINE t == Tail(s)
           h == Len(s)
           g == Len(t)
<1>4. /\ h \in Nat \ {0} /\ g = h - 1 /\ \A i \in 1 .. g : t[i] = s[i + 1]
      /\ (\A x \in X : \E i \in 1 .. h : s[i] = x)
      /\ \A i, j \in 1 .. h : s[i] = s[j] => i = j
  BY <1>1, <1>2, <1>3
<1> HIDE DEF t, g, h
<1>5. \A i \in 1 .. g : i + 1 \in 1 .. h /\ i + 1 # 1
  BY <1>4
<1>6. \A i, j \in 1 .. g : t[i] = t[j] => i = j
  <2> SUFFICES ASSUME NEW i \in 1 .. g, NEW j \in 1 .. g, t[i] = t[j] PROVE i = j
    OBVIOUS
  <2>1. i + 1 = j + 1
    BY <1>4, <1>5
  <2>2. QED
    BY <1>4, <2>1
<1>7. \A x \in X \ {s[1]} : \E i \in 1 .. g : t[i] = x
  <2> TAKE x \in X \ {s[1]}
  <2>1. PICK i \in 1 .. h : s[i] = x
    BY <1>4
  <2>2. i - 1 \in 1 .. g /\ (i - 1) + 1 = i
    BY <1>4, <2>1
  <2>3. QED
    BY <1>4, <2>1, <2>2
<1>8. \A i \in 1 .. g : t[i] \in X \ {s[1]}
  <2> TAKE i \in 1 .. g
  <2>1. t[i] \in X
    BY <1>2, ElementOfSeq DEF t, g
  <2>2. t[i] # s[1]
    <3>1. 1 \in 1 .. h
      BY <1>4
    <3>2. QED
      BY <1>4, <1>5, <3>1
  <2>3. QED
    BY <2>1, <2>2
<1>9. t \in Seq(X \ {s[1]})
  <2>1. t \in [1 .. g -> X] /\ g \in Nat
    BY <1>2, LenProperties DEF t, g
  <2>2. t \in [1 .. g -> X \ {s[1]}]
    BY <1>8, <2>1
  <2>3. QED
    BY <2>1, <2>2, SeqDef
<1>10. QED
  BY <1>2, <1>3, <1>6, <1>7, <1>9 DEF Enumerates, t, g

\* What is left is the slots of the other keys.
LEMMA OthersLeft ==
  ASSUME NEW keys, NEW hn, NEW hp, \A k, l \in keys : hn[k] = hn[l] /\ hp[k] = hp[l] => k = l,
         NEW todo, Enumerates(todo, Homes(keys, hn, hp)), todo # << >>
  PROVE  \E k \in keys : /\ Head(todo) = <<hn[k], hp[k]>>
                         /\ Enumerates(Tail(todo), Homes(keys \ {k}, hn, hp))
<1>1. Head(todo) \in Homes(keys, hn, hp)
      /\ Enumerates(Tail(todo), Homes(keys, hn, hp) \ {Head(todo)})
  BY TailEnumerates
<1>2. PICK k \in keys : Head(todo) = <<hn[k], hp[k]>>
  BY <1>1 DEF Homes
<1>3. Homes(keys, hn, hp) \ {<<hn[k], hp[k]>>} = Homes(keys \ {k}, hn, hp)
  BY DEF Homes
<1>4. QED
  BY <1>1, <1>2, <1>3

\* Nothing is left when no slot is.
LEMMA NothingLeft ==
  ASSUME NEW keys, NEW hn, NEW hp, Enumerates(<< >>, Homes(keys, hn, hp))
  PROVE  keys = {}
<1>1. Homes(keys, hn, hp) = {}
  BY EmptySeq DEF Enumerates
<1>2. QED
  BY <1>1 DEF Homes

-----------------------------------------------------------------------------
(***************************************************************************)
(* An erasure: first the values move to the left, then the last node goes  *)
(* if it is empty.                                                         *)
(***************************************************************************)
\* What is behind the hole moves one slot to the left.
LEMMA CloseHoleIs ==
  ASSUME BucketChainAssumption, NEW n, NEW d \in NodeType(n), NEW p \in 1 .. d.count
  PROVE  /\ CloseHole(d, p) \in NodeType(n) /\ CloseHole(d, p).count = d.count - 1
         /\ CloseHole(d, p).left = d.left /\ CloseHole(d, p).right = d.right
         /\ \A q \in 1 .. Capacity(n) :
              /\ CloseHole(d, p).vals[q] =
                   IF q < p THEN d.vals[q] ELSE IF q < d.count THEN d.vals[q + 1] ELSE Null
              /\ CloseHole(d, p).hashs[q] =
                   IF q < p THEN d.hashs[q] ELSE IF q < d.count THEN d.hashs[q + 1] ELSE 0
<1> DEFINE C  == Capacity(n)
           c  == d.count
           hs == Shift(d.hashs, p, c, 0)
           vs == Shift(d.vals, p, c, Null)
<1>1. C \in Nat \ {0} /\ c \in 0 .. C /\ p \in 1 .. c
  BY CapacityPositive DEF NodeType
<1>2. /\ d.hashs \in [1 .. C -> 0 .. 255] /\ d.vals \in [1 .. C -> Keys \cup {Null}]
      /\ d.left \in Nodes \cup {Null} /\ d.right \in Addresses \cup {Null}
  BY DEF NodeType
<1>3. CloseHole(d, p) = Node(c - 1, hs, vs, d.left, d.right)
  BY DEF CloseHole
<1> HIDE DEF C, c
<1>4. c - 1 \in 0 .. C /\ C \in Nat /\ p \in Nat /\ c \in 0 .. C /\ 0 \in 0 .. 255
  BY <1>1
<1>5. /\ hs \in [1 .. C -> 0 .. 255]
      /\ \A q \in 1 .. C : hs[q] = IF q < p THEN d.hashs[q] ELSE IF q < c THEN d.hashs[q + 1] ELSE 0
  <2> DEFINE f == d.hashs
  <2>1. f \in [1 .. C -> 0 .. 255]
    BY <1>2
  <2> HIDE DEF f
  <2>2. Shift(f, p, c, 0) = [q \in 1 .. C |-> IF q < p THEN f[q] ELSE IF q < c THEN f[q + 1] ELSE 0]
    BY <2>1 DEF Shift
  <2>3. \A q \in 1 .. C : q < c => q + 1 \in 1 .. C
    BY <1>4
  <2>4. Shift(f, p, c, 0) \in [1 .. C -> 0 .. 255]
    <3> DEFINE S == 0 .. 255
    <3>1. f \in [1 .. C -> S] /\ 0 \in S
      BY <2>1
    <3> HIDE DEF S
    <3>2. Shift(f, p, c, 0) \in [1 .. C -> S]
      BY <2>2, <2>3, <3>1
    <3>3. QED
      BY <3>2 DEF S
  <2>5. \A q \in 1 .. C : Shift(f, p, c, 0)[q] =
              IF q < p THEN f[q] ELSE IF q < c THEN f[q + 1] ELSE 0
    BY <2>2
  <2>6. QED
    BY <2>4, <2>5 DEF f
<1>6. /\ vs \in [1 .. C -> Keys \cup {Null}]
      /\ \A q \in 1 .. C : vs[q] = IF q < p THEN d.vals[q] ELSE IF q < c THEN d.vals[q + 1] ELSE Null
  <2> DEFINE f == d.vals
  <2>1. f \in [1 .. C -> Keys \cup {Null}] /\ Null \in Keys \cup {Null}
    BY <1>2
  <2> HIDE DEF f
  <2>2. Shift(f, p, c, Null) = [q \in 1 .. C |-> IF q < p THEN f[q] ELSE IF q < c THEN f[q + 1] ELSE Null]
    BY <2>1 DEF Shift
  <2>3. \A q \in 1 .. C : q < c => q + 1 \in 1 .. C
    BY <1>4
  <2>4. Shift(f, p, c, Null) \in [1 .. C -> Keys \cup {Null}]
    BY <2>1, <2>2, <2>3
  <2>5. \A q \in 1 .. C : Shift(f, p, c, Null)[q] =
              IF q < p THEN f[q] ELSE IF q < c THEN f[q + 1] ELSE Null
    BY <2>2
  <2>6. QED
    BY <2>4, <2>5 DEF f
<1> HIDE DEF hs, vs
<1>7. /\ CloseHole(d, p).count = c - 1 /\ CloseHole(d, p).left = d.left
      /\ CloseHole(d, p).right = d.right
      /\ CloseHole(d, p).vals = vs /\ CloseHole(d, p).hashs = hs
  BY <1>3 DEF Node
<1>8. CloseHole(d, p) \in NodeType(n)
  <2>1. /\ c - 1 \in 0 .. Capacity(n) /\ hs \in [1 .. Capacity(n) -> 0 .. 255]
        /\ vs \in [1 .. Capacity(n) -> Keys \cup {Null}]
    BY <1>4, <1>5, <1>6 DEF C
  <2>2. Node(c - 1, hs, vs, d.left, d.right) \in NodeType(n)
    BY <1>2, <2>1, NodeIs
  <2>3. QED
    BY <1>3, <2>2
<1>9. /\ \A q \in 1 .. C : CloseHole(d, p).vals[q] =
           IF q < p THEN d.vals[q] ELSE IF q < c THEN d.vals[q + 1] ELSE Null
      /\ \A q \in 1 .. C : CloseHole(d, p).hashs[q] =
           IF q < p THEN d.hashs[q] ELSE IF q < c THEN d.hashs[q + 1] ELSE 0
  BY <1>5, <1>6, <1>7, Zenon
<1>10. QED
  BY <1>7, <1>8, <1>9 DEF C, c

\* The last node has one value less.
Shrunk(mem, mem1, last) ==
  /\ DOMAIN mem1 = DOMAIN mem
  /\ \A d \in DOMAIN mem :
       /\ mem1[d] \in NodeType(d) /\ mem1[d].left = mem[d].left /\ mem1[d].right = mem[d].right
       /\ mem1[d].count = IF d = last THEN mem[d].count - 1 ELSE mem[d].count

\* From mem1, mem2 has lost the empty node last of bucket b, and nothing else.
Freed(mem, mem1, mem2, b, last, ch2) ==
  /\ DOMAIN mem2 = DOMAIN mem \ {last}
  /\ \A d \in DOMAIN mem2 : /\ mem2[d].count = mem1[d].count /\ mem2[d].left = mem1[d].left
                            /\ mem2[d].vals = mem1[d].vals /\ mem2[d].hashs = mem1[d].hashs
  /\ mem[last].left # Null /\ LastOf(ch2, b) = mem[last].left

\* If that was the only one of a dense node, the node goes.
LEMMA LastFreed ==
  ASSUME BucketChainAssumption, NEW mem, NEW B, NEW ch, NEW root, NEW depth,
         Links(mem, B, ch, root, depth), NEW b \in B, NEW last, last = LastOf(ch, b),
         NEW mem1, Shrunk(mem, mem1, last), Beyond(mem1), last \in Addresses, mem1[last].count = 0,
         NEW mem2, mem2 = FreeIfEmpty(mem1, last)
  PROVE  \E ch2 : /\ Links(mem2, B, ch2, root, depth) /\ Beyond(mem2)
                  /\ Freed(mem, mem1, mem2, b, last, ch2)
<1> DEFINE D   == DOMAIN mem
           h   == Height(ch, b)
           l   == mem[last].left
           ch2 == [x \in B |-> IF x = b THEN SubSeq(ch[b], 1, h - 1) ELSE ch[x]]
<1>1. /\ last \in D /\ root[last] = b /\ depth[last] = h /\ h \in Nat \ {0}
      /\ ch[b] \in Seq(D) /\ ch[b][h] = last
  BY First DEF LastOf
<1>2. h > 1
  <2>1. last \in DOMAIN mem
    BY <1>1
  <2>2. depth[last] = 1 => last \in Main
    BY <2>1, FirstNode
  <2>3. QED
    BY <1>1, <2>2, Apart
<1>3. l \in D /\ root[l] = b /\ depth[l] = h - 1 /\ l = ch[b][h - 1]
  BY <1>1, <1>2, Neighbours
<1>4. l # last /\ l # Null
  <2>1. l # last
    BY <1>1, <1>3
  <2>2. l # Null
    BY <1>3, Place
  <2>3. QED
    BY <2>1, <2>2
<1>5. DOMAIN mem1 = D /\ mem1[last].left = l /\ \A d \in D : mem1[d] \in NodeType(d)
  BY <1>1 DEF Shrunk
<1> DEFINE mem3 == [mem1 EXCEPT ![l] = WithRight(@, Null)]
<1>6. DOMAIN mem2 = D \ {last} /\ \A d \in D \ {last} : mem2[d] = mem3[d]
  <2>1. mem2 = Restrict(mem3, D \ {last})
    BY <1>5 DEF FreeIfEmpty
  <2> HIDE DEF mem3
  <2>2. QED
    BY <2>1 DEF Restrict
<1>7. mem3[l] = WithRight(mem1[l], Null) /\ \A d \in D : d # l => mem3[d] = mem1[d]
  BY <1>3, <1>5
<1> HIDE DEF mem3
<1>8. ASSUME NEW d \in D
      PROVE  /\ mem3[d] \in NodeType(d) /\ mem3[d].right = IF d = l THEN Null ELSE mem1[d].right
             /\ mem3[d].count = mem1[d].count /\ mem3[d].left = mem1[d].left
             /\ mem3[d].vals = mem1[d].vals /\ mem3[d].hashs = mem1[d].hashs
  <2>1. CASE d = l
    <3>1. mem1[l] \in NodeType(l) /\ mem3[l] = WithRight(mem1[l], Null)
      BY <1>3, <1>5, <1>7
    <3>2. QED
      BY <2>1, <3>1, WithRightIs
  <2>2. CASE d # l
    BY <1>5, <1>7, <2>2
  <2>3. QED
    BY <2>1, <2>2
<1>9. /\ ch2[b] \in Seq(D) /\ Height(ch2, b) = h - 1
      /\ \A i \in 1 .. h - 1 : ch2[b][i] = ch[b][i]
  <2>1. \A i \in 1 .. h - 1 : ch[b][i] \in D
    <3>1. \A i \in 1 .. h - 1 : i \in 1 .. h
      BY <1>1
    <3>2. \A i \in 1 .. h : ch[b][i] \in D
      BY <1>1, ElementOfSeq DEF Height
    <3>3. QED
      BY <3>1, <3>2
  <2>2. ch2[b] = SubSeq(ch[b], 1, h - 1)
    OBVIOUS
  <2> HIDE DEF ch2, h
  <2>3. h - 1 \in Int /\ 1 <= h - 1 /\ (h - 1) - 1 + 1 = h - 1
    BY <1>1, <1>2
  <2>4. /\ ch2[b] \in Seq(D) /\ Len(ch2[b]) = (h - 1) - 1 + 1
        /\ \A i \in 1 .. (h - 1) - 1 + 1 : ch2[b][i] = ch[b][1 + i - 1]
    BY <2>1, <2>2, <2>3, SubSeqProperties
  <2>5. \A i \in 1 .. h - 1 : 1 + i - 1 = i
    OBVIOUS
  <2>6. QED
    BY <2>3, <2>4, <2>5 DEF Height
<1>10. \A x \in B : x # b => ch2[x] = ch[x] /\ Height(ch2, x) = Height(ch, x)
  BY DEF Height
<1> HIDE DEF ch2, D, h, l
<1>11. ASSUME NEW x \in B
       PROVE  /\ ch[x] \in Seq(D) /\ Height(ch, x) \in Nat \ {0} /\ ch[x][1] = x
              /\ \A i \in 1 .. Height(ch, x) : /\ ch[x][i] \in D /\ root[ch[x][i]] = x
                                               /\ depth[ch[x][i]] = i
  <2>1. ch[x] \in Seq(D) /\ Height(ch, x) \in Nat \ {0}
    BY First DEF D
  <2>2. \A i \in 1 .. Height(ch, x) : ch[x][i] \in D
    BY <2>1, ElementOfSeq DEF Height
  <2>3. QED
    BY <2>1, <2>2 DEF Links, Numbered
<1>12. ASSUME NEW x \in B
       PROVE  /\ Height(ch2, x) \in Nat \ {0} /\ Height(ch2, x) <= Height(ch, x)
              /\ \A i \in 1 .. Height(ch2, x) : ch2[x][i] = ch[x][i] /\ i \in 1 .. Height(ch, x)
  <2>1. CASE x = b
    <3>1. Height(ch, b) = h /\ h - 1 \in Nat \ {0} /\ h - 1 <= h /\ \A i \in 1 .. h - 1 : i \in 1 .. h
      BY <1>1, <1>2 DEF h
    <3>2. QED
      BY <1>9, <2>1, <3>1
  <2>2. CASE x # b
    BY <1>10, <1>11, <2>2
  <2>3. QED
    BY <2>1, <2>2
<1>13. ASSUME NEW x \in B, NEW i \in 1 .. Height(ch2, x)
       PROVE  ch2[x][i] \in D \ {last} /\ root[ch2[x][i]] = x /\ depth[ch2[x][i]] = i
  <2>1. ch2[x][i] = ch[x][i] /\ i \in 1 .. Height(ch, x)
    BY <1>12
  <2>2. ch[x][i] \in D /\ root[ch[x][i]] = x /\ depth[ch[x][i]] = i
    BY <1>11, <2>1
  <2>3. x = b => i # h
    BY <1>1, <1>9
  <2>4. ch[x][i] # last
    BY <1>1, <2>2, <2>3
  <2>5. QED
    BY <2>1, <2>2, <2>4
<1>14. ASSUME NEW x \in B
       PROVE  ch2[x] \in Seq(D \ {last}) /\ Height(ch2, x) > 0 /\ ch2[x][1] = x
  <2>1. ch2[x] \in Seq(D)
    BY <1>9, <1>10, <1>11
  <2>2. ch2[x] \in [1 .. Height(ch2, x) -> D] /\ Height(ch2, x) \in Nat
    BY <2>1, LenProperties DEF Height
  <2>3. ch2[x] \in [1 .. Height(ch2, x) -> D \ {last}]
    BY <1>13, <2>2
  <2>4. ch2[x] \in Seq(D \ {last})
    BY <2>2, <2>3, SeqDef
  <2>5. 1 \in 1 .. Height(ch2, x)
    BY <1>12
  <2>6. QED
    BY <1>11, <1>12, <2>4, <2>5
<1>15. ASSUME NEW x \in D \ {last}
       PROVE  /\ root[x] \in B /\ depth[x] \in 1 .. Height(ch2, root[x])
              /\ ch2[root[x]][depth[x]] = x
              /\ Linked(mem2[x], x, ch2[root[x]], Height(ch2, root[x]), depth[x])
  <2> DEFINE r  == root[x]
             i  == depth[x]
             g  == Height(ch, r)
             g2 == Height(ch2, r)
             c  == ch[r]
             c2 == ch2[r]
  <2>1. /\ r \in B /\ i \in 1 .. g /\ c[i] = x
        /\ Linked(mem[x], x, c, g, i)
    BY DEF Links, Numbered, D
  <2>2. i \in 1 .. g2
    <3>1. CASE r = b
      <4>1. i # h
        <5> SUFFICES ASSUME i = h PROVE FALSE
          OBVIOUS
        <5>1. x = last
          BY <1>1, <2>1, <3>1
        <5>2. QED
          BY <5>1
      <4>2. i \in 1 .. h /\ h \in Nat
        BY <1>1, <2>1, <3>1 DEF h
      <4>3. i \in 1 .. h - 1
        BY <4>1, <4>2
      <4>4. QED
        BY <1>9, <3>1, <4>3
    <3>2. CASE r # b
      BY <1>10, <2>1, <3>2
    <3>3. QED
      BY <3>1, <3>2
  <2>3. x = l <=> (r = b /\ i = h - 1)
    <3>1. r = b /\ i = h - 1 => x = l
      BY <1>3, OnePlace DEF D
    <3>2. QED
      BY <1>3, <3>1
  <2>4. /\ g2 \in Nat \ {0} /\ g \in Nat \ {0} /\ g2 <= g
        /\ \A j \in 1 .. g2 : c2[j] = c[j]
    BY <1>11, <1>12, <2>1
  <2>5. IF r = b THEN g = h /\ g2 = h - 1 /\ h \in Nat /\ h > 1 ELSE g2 = g
    BY <1>1, <1>2, <1>9, <1>10, <2>1 DEF h
  <2>6. /\ mem2[x] \in NodeType(x) /\ mem2[x].left = mem[x].left
        /\ mem2[x].right = (IF x = l THEN Null ELSE mem[x].right)
        /\ mem2[x].count = mem[x].count
    <3>1. /\ mem3[x] \in NodeType(x) /\ mem3[x].right = IF x = l THEN Null ELSE mem1[x].right
          /\ mem3[x].count = mem1[x].count /\ mem3[x].left = mem1[x].left
      BY <1>8
    <3>2. mem1[x].left = mem[x].left /\ mem1[x].right = mem[x].right /\ mem1[x].count = mem[x].count
      BY DEF Shrunk, D
    <3>3. mem2[x] = mem3[x]
      BY <1>6
    <3>4. QED
      BY <3>1, <3>2, <3>3
  <2>7. r \in B /\ i \in 1 .. g2 /\ c2[i] = x
    BY <2>1, <2>2, <2>4
  <2>8. mem2[x].right = (IF i = g2 THEN Null ELSE c2[i + 1])
    <3>1. mem[x].right = (IF i = g THEN Null ELSE c[i + 1])
      BY <2>1 DEF Linked
    <3> HIDE DEF r, i, g, g2, c, c2
    <3>2. i # g2 => i + 1 \in 1 .. g2 /\ c2[i + 1] = c[i + 1] /\ i # g
      BY <2>2, <2>4
    <3>3. x = l <=> (i = g2 /\ r = b)
      BY <2>3, <2>5
    <3>4. QED
      BY <2>5, <2>6, <3>1, <3>2, <3>3
  <2>9. mem2[x].left = (IF i = 1 THEN Null ELSE c2[i - 1])
    <3>1. mem[x].left = (IF i = 1 THEN Null ELSE c[i - 1])
      BY <2>1 DEF Linked
    <3> HIDE DEF r, i, g, g2, c, c2
    <3>2. i # 1 => i - 1 \in 1 .. g2 /\ c2[i - 1] = c[i - 1]
      BY <2>2, <2>4
    <3>3. QED
      BY <2>6, <3>1, <3>2
  <2>10. /\ i < g2 => mem2[x].count = Capacity(x)
         /\ i > 1 => x \in Addresses /\ mem2[x].count > 0
    <3>1. /\ i < g => mem[x].count = Capacity(x)
          /\ i > 1 => x \in Addresses /\ mem[x].count > 0
      BY <2>1 DEF Linked
    <3> HIDE DEF r, i, g, g2, c, c2
    <3>2. i < g2 => i < g
      BY <2>2, <2>4
    <3>3. QED
      BY <2>6, <3>1, <3>2
  <2>11. Linked(mem2[x], x, c2, g2, i)
    <3> HIDE DEF r, i, g, g2, c, c2
    <3> QED
      BY <2>6, <2>8, <2>9, <2>10 DEF Linked
  <2>12. QED
    BY <2>7, <2>11
<1>16. Links(mem2, B, ch2, root, depth)
  <2>1. Numbered(D \ {last}, B, ch2, root, depth)
    BY <1>13, <1>14, <1>15 DEF Numbered
  <2>2. DOMAIN mem2 \subseteq Nodes /\ DOMAIN mem2 \cap Main = B
    BY <1>6, Apart DEF Links, D
  <2>3. QED
    BY <1>6, <1>15, <2>1, <2>2 DEF Links
<1>17. \A d \in DOMAIN mem2 : /\ mem2[d].count = mem1[d].count /\ mem2[d].left = mem1[d].left
                              /\ mem2[d].vals = mem1[d].vals /\ mem2[d].hashs = mem1[d].hashs
  BY <1>6, <1>8
<1>18. Beyond(mem2)
  BY <1>5, <1>6, <1>17 DEF Beyond
<1>19. LastOf(ch2, b) = l
  <2>1. h - 1 \in 1 .. h - 1
    BY <1>1, <1>2
  <2>2. QED
    BY <1>3, <1>9, <2>1 DEF LastOf
<1>20. Freed(mem, mem1, mem2, b, last, ch2)
  BY <1>4, <1>6, <1>17, <1>19 DEF Freed, l, D
<1>21. QED
  BY <1>16, <1>18, <1>20

(***************************************************************************)
(* The nodes whose values move when slot p of node n is erased, and where  *)
(* the hole is in each of them.                                            *)
(***************************************************************************)
InTail(root, depth, n, d) == root[d] = root[n] /\ depth[n] <= depth[d]

Hole(mem, n, p, d) == IF d = n THEN p ELSE mem[d].count

\* The hole of a node behind the erased slot is one of its slots, and the nodes behind it hang together.
LEMMA TailPlace ==
  ASSUME BucketChainAssumption, NEW mem, NEW B, NEW ch, NEW root, NEW depth,
         Links(mem, B, ch, root, depth), NEW n \in DOMAIN mem, NEW p \in 1 .. mem[n].count,
         NEW last, last = LastOf(ch, root[n]), NEW d \in DOMAIN mem, InTail(root, depth, n, d)
  PROVE  /\ Hole(mem, n, p, d) \in 1 .. mem[d].count
         /\ mem[d].count \in Nat /\ mem[d].count <= Capacity(d) /\ Capacity(d) \in Nat
         /\ d # last => /\ mem[d].right \in DOMAIN mem /\ InTail(root, depth, n, mem[d].right)
                        /\ mem[d].right # n /\ mem[mem[d].right].left = d
                        /\ mem[mem[d].right].count > 0
         /\ d # n => /\ mem[d].left \in DOMAIN mem /\ InTail(root, depth, n, mem[d].left)
                     /\ mem[d].left # last /\ mem[mem[d].left].right = d
<1> DEFINE h == Height(ch, root[n])
           r == mem[d].right
           l == mem[d].left
<1>1. root[d] = root[n] /\ depth[n] <= depth[d]
  BY DEF InTail
<1>2. depth[n] \in 1 .. h /\ h \in Nat /\ root[n] \in B
  BY Place
<1>3. depth[d] \in 1 .. h
  <2>1. depth[d] \in 1 .. Height(ch, root[d])
    BY Place
  <2>2. QED
    BY <1>1, <2>1
<1>4. depth[d] > 1 => mem[d].count > 0
  BY Place
<1>5. mem[d].count \in 0 .. Capacity(d) /\ Capacity(d) \in Nat \ {0}
  BY Place
<1>6. mem[n].count \in 0 .. Capacity(n)
  BY Place
<1>7. last \in DOMAIN mem /\ root[last] = root[n] /\ depth[last] = h
  BY <1>2, First
<1>8. d # n => depth[n] < depth[d]
  <2>1. depth[d] = depth[n] => d = n
    BY <1>1, OnePlace
  <2>2. QED
    BY <1>1, <1>2, <1>3, <2>1
<1>9. Hole(mem, n, p, d) \in 1 .. mem[d].count
  <2>1. CASE d = n
    BY <2>1 DEF Hole
  <2>2. CASE d # n
    <3>1. mem[d].count > 0
      BY <1>2, <1>3, <1>4, <1>8, <2>2
    <3>2. QED
      BY <1>5, <2>2, <3>1 DEF Hole
  <2>3. QED
    BY <2>1, <2>2
<1>10. ASSUME d # last
       PROVE  /\ r \in DOMAIN mem /\ InTail(root, depth, n, r) /\ r # n /\ mem[r].left = d
              /\ mem[r].count > 0
  <2>1. depth[d] < h
    <3>1. depth[d] = h => d = last
      BY <1>1, <1>7, OnePlace
    <3>2. QED
      BY <1>2, <1>3, <1>10, <3>1
  <2>2. depth[d] < Height(ch, root[d])
    BY <1>1, <2>1
  <2>3. r \in DOMAIN mem /\ root[r] = root[d] /\ depth[r] = depth[d] + 1
    BY <2>2, Neighbours
  <2> HIDE DEF r, h
  <2>4. depth[r] > 1 /\ depth[n] < depth[r]
    BY <1>1, <1>2, <1>3, <2>3
  <2>5. mem[r].left \in DOMAIN mem /\ root[mem[r].left] = root[r] /\ depth[mem[r].left] = depth[r] - 1
    BY <2>3, <2>4, Neighbours
  <2>6. mem[r].left = d
    <3>1. depth[mem[r].left] = depth[d]
      BY <1>3, <2>3, <2>5
    <3>2. root[mem[r].left] = root[d]
      BY <2>3, <2>5
    <3>3. QED
      BY <2>5, <3>1, <3>2, OnePlace
  <2>7. mem[r].count > 0
    <3>1. r \in DOMAIN mem
      BY <2>3
    <3>2. depth[r] > 1 => mem[r].count > 0
      BY <3>1, Place
    <3>3. QED
      BY <2>4, <3>2
  <2>8. InTail(root, depth, n, r)
    BY <1>1, <1>2, <1>3, <2>3, <2>4 DEF InTail
  <2>9. r # n
    BY <1>2, <2>4
  <2>10. QED
    BY <2>3, <2>6, <2>7, <2>8, <2>9
<1>11. ASSUME d # n
       PROVE  l \in DOMAIN mem /\ InTail(root, depth, n, l) /\ l # last /\ mem[l].right = d
  <2>1. depth[d] > 1
    BY <1>2, <1>3, <1>8, <1>11
  <2>2. l \in DOMAIN mem /\ root[l] = root[d] /\ depth[l] = depth[d] - 1
    BY <2>1, Neighbours
  <2> HIDE DEF l, h
  <2>3. depth[l] < h /\ depth[n] <= depth[l]
    BY <1>2, <1>3, <1>8, <1>11, <2>2
  <2>4. depth[l] < Height(ch, root[l])
    BY <1>1, <2>2, <2>3 DEF h
  <2>5. mem[l].right \in DOMAIN mem /\ root[mem[l].right] = root[l]
        /\ depth[mem[l].right] = depth[l] + 1
    BY <2>2, <2>4, Neighbours
  <2>6. mem[l].right = d
    <3>1. depth[mem[l].right] = depth[d]
      BY <1>3, <2>2, <2>5
    <3>2. root[mem[l].right] = root[d]
      BY <2>2, <2>5
    <3>3. QED
      BY <2>5, <3>1, <3>2, OnePlace
  <2>7. l # last
    BY <1>2, <1>7, <2>3
  <2>8. QED
    BY <1>1, <2>2, <2>3, <2>6, <2>7 DEF InTail
<1>12. QED
  BY <1>5, <1>9, <1>10, <1>11

(***************************************************************************)
(* What erase_from_bucket leaves before it frees a node.                   *)
(***************************************************************************)
Shifted(mem, mem1, root, depth, n, p, last) ==
  /\ \A d \in DOMAIN mem : ~InTail(root, depth, n, d) =>
       mem1[d].vals = mem[d].vals /\ mem1[d].hashs = mem[d].hashs
  /\ \A d \in DOMAIN mem : InTail(root, depth, n, d) /\ d # last =>
       LET r == mem[mem[d].right] IN
       \A q \in 1 .. Capacity(d) :
         /\ mem1[d].vals[q] = IF q = Hole(mem, n, p, d) THEN r.vals[r.count] ELSE mem[d].vals[q]
         /\ mem1[d].hashs[q] = IF q = Hole(mem, n, p, d) THEN r.hashs[r.count] ELSE mem[d].hashs[q]
  /\ \A q \in 1 .. Capacity(last) :
       /\ mem1[last].vals[q] = IF q < Hole(mem, n, p, last) THEN mem[last].vals[q]
                               ELSE IF q < mem[last].count THEN mem[last].vals[q + 1] ELSE Null
       /\ mem1[last].hashs[q] = IF q < Hole(mem, n, p, last) THEN mem[last].hashs[q]
                                ELSE IF q < mem[last].count THEN mem[last].hashs[q + 1] ELSE 0

\* The loop of an erasure moves every value behind the hole by one slot.
LEMMA HoleShifts ==
  ASSUME BucketChainAssumption, NEW mem, NEW B, NEW ch, NEW root, NEW depth,
         Links(mem, B, ch, root, depth), Beyond(mem),
         NEW n \in DOMAIN mem, NEW p \in 1 .. mem[n].count,
         NEW last, last = LastOf(ch, root[n]),
         NEW mem1, DOMAIN mem1 = DOMAIN mem,
         \A d \in DOMAIN mem :
           mem1[d] = IF ~InTail(root, depth, n, d) THEN mem[d]
                     ELSE IF d = last THEN CloseHole(mem[d], Hole(mem, n, p, d))
                     ELSE TakeLastOf(mem[d], Hole(mem, n, p, d), mem[mem[d].right])
  PROVE  Shrunk(mem, mem1, last) /\ Beyond(mem1) /\ Shifted(mem, mem1, root, depth, n, p, last)
<1>1. last \in DOMAIN mem /\ InTail(root, depth, n, last)
  <2>1. root[n] \in B /\ depth[n] \in 1 .. Height(ch, root[n]) /\ Height(ch, root[n]) \in Nat
    BY Place
  <2>2. last \in DOMAIN mem /\ root[last] = root[n] /\ depth[last] = Height(ch, root[n])
    BY <2>1, First
  <2>3. QED
    BY <2>1, <2>2 DEF InTail
<1>2. ASSUME NEW d \in DOMAIN mem, ~InTail(root, depth, n, d)
      PROVE  mem1[d] = mem[d] /\ mem[d] \in NodeType(d) /\ d # last
  BY <1>1, <1>2, Place
<1>3. ASSUME NEW d \in DOMAIN mem, InTail(root, depth, n, d), d # last
      PROVE  /\ mem1[d] \in NodeType(d) /\ mem1[d].left = mem[d].left
             /\ mem1[d].right = mem[d].right /\ mem1[d].count = mem[d].count
             /\ \A q \in 1 .. Capacity(d) :
                  /\ mem1[d].vals[q] = IF q = Hole(mem, n, p, d)
                                       THEN mem[mem[d].right].vals[mem[mem[d].right].count]
                                       ELSE mem[d].vals[q]
                  /\ mem1[d].hashs[q] = IF q = Hole(mem, n, p, d)
                                        THEN mem[mem[d].right].hashs[mem[mem[d].right].count]
                                        ELSE mem[d].hashs[q]
  <2> DEFINE e == mem[d]
             r == mem[d].right
             f == mem[r]
             o == Hole(mem, n, p, d)
  <2>1. /\ o \in 1 .. e.count /\ e.count \in Nat /\ e.count <= Capacity(d) /\ Capacity(d) \in Nat
        /\ r \in DOMAIN mem /\ f.count > 0
    BY <1>3, TailPlace
  <2>2. e \in NodeType(d)
    BY Place
  <2>3. f \in NodeType(r) /\ f.count \in 0 .. Capacity(r) /\ Capacity(r) \in Nat
    <3> HIDE DEF e, o
    <3>1. mem[r] \in NodeType(r) /\ mem[r].count \in 0 .. Capacity(r) /\ Capacity(r) \in Nat \ {0}
      BY <2>1, Place
    <3>2. QED
      BY <3>1
  <2>4. mem1[d] = SetSlot(e, o, f.hashs[f.count], f.vals[f.count])
    BY <1>3 DEF TakeLastOf
  <2> HIDE DEF e, f, o, r
  <2>5. f.hashs[f.count] \in 0 .. 255 /\ f.vals[f.count] \in Keys \cup {Null}
    <3>1. f.count \in 1 .. Capacity(r)
      BY <2>1, <2>3
    <3>2. QED
      BY <2>3, <3>1 DEF NodeType
  <2>6. o \in 1 .. Capacity(d)
    BY <2>1
  <2> DEFINE x == f.hashs[f.count]
             y == f.vals[f.count]
  <2>7. x \in 0 .. 255 /\ y \in Keys \cup {Null}
    BY <2>5
  <2>8. mem1[d] = SetSlot(e, o, x, y)
    BY <2>4
  <2> HIDE DEF x, y
  <2>9. SetSlot(e, o, x, y) \in NodeType(d)
    BY <2>2, <2>6, <2>7, SetSlotIs
  <2>10. /\ SetSlot(e, o, x, y).count = e.count /\ SetSlot(e, o, x, y).left = e.left
         /\ SetSlot(e, o, x, y).right = e.right
         /\ SetSlot(e, o, x, y).vals = [e.vals EXCEPT ![o] = y]
         /\ SetSlot(e, o, x, y).hashs = [e.hashs EXCEPT ![o] = x]
    BY DEF SetSlot, Node
  <2>11. /\ mem1[d] \in NodeType(d) /\ mem1[d].left = e.left /\ mem1[d].right = e.right
         /\ mem1[d].count = e.count
    BY <2>8, <2>9, <2>10
  <2>12. \A q \in 1 .. Capacity(d) :
             /\ mem1[d].vals[q] = IF q = o THEN y ELSE e.vals[q]
             /\ mem1[d].hashs[q] = IF q = o THEN x ELSE e.hashs[q]
    <3> DEFINE hs == e.hashs
               vs == e.vals
    <3>1. hs \in [1 .. Capacity(d) -> 0 .. 255] /\ vs \in [1 .. Capacity(d) -> Keys \cup {Null}]
      BY <2>2 DEF NodeType
    <3>2. mem1[d].vals = [vs EXCEPT ![o] = y] /\ mem1[d].hashs = [hs EXCEPT ![o] = x]
      BY <2>8, <2>10
    <3> HIDE DEF hs, vs
    <3>3. \A q \in 1 .. Capacity(d) : mem1[d].vals[q] = IF q = o THEN y ELSE vs[q]
      BY <3>1, <3>2
    <3>4. \A q \in 1 .. Capacity(d) : mem1[d].hashs[q] = IF q = o THEN x ELSE hs[q]
      BY <3>1, <3>2
    <3>5. QED
      BY <3>3, <3>4 DEF hs, vs
  <2>13. QED
    BY <2>11, <2>12 DEF e, f, o, r, x, y
<1>4. /\ mem1[last] \in NodeType(last) /\ mem1[last].count = mem[last].count - 1
      /\ mem1[last].left = mem[last].left /\ mem1[last].right = mem[last].right
      /\ \A q \in 1 .. Capacity(last) :
           /\ mem1[last].vals[q] = IF q < Hole(mem, n, p, last) THEN mem[last].vals[q]
                                   ELSE IF q < mem[last].count THEN mem[last].vals[q + 1] ELSE Null
           /\ mem1[last].hashs[q] = IF q < Hole(mem, n, p, last) THEN mem[last].hashs[q]
                                    ELSE IF q < mem[last].count THEN mem[last].hashs[q + 1] ELSE 0
  <2> DEFINE e == mem[last]
             o == Hole(mem, n, p, last)
  <2>1. o \in 1 .. e.count
    BY <1>1, TailPlace
  <2>2. e \in NodeType(last)
    BY <1>1, Place
  <2>3. mem1[last] = CloseHole(e, o)
    BY <1>1
  <2> HIDE DEF e, o
  <2>4. /\ CloseHole(e, o) \in NodeType(last) /\ CloseHole(e, o).count = e.count - 1
        /\ CloseHole(e, o).left = e.left /\ CloseHole(e, o).right = e.right
        /\ \A q \in 1 .. Capacity(last) :
              /\ CloseHole(e, o).vals[q] =
                   IF q < o THEN e.vals[q] ELSE IF q < e.count THEN e.vals[q + 1] ELSE Null
              /\ CloseHole(e, o).hashs[q] =
                   IF q < o THEN e.hashs[q] ELSE IF q < e.count THEN e.hashs[q + 1] ELSE 0
    BY <2>1, <2>2, CloseHoleIs
  <2>5. QED
    BY <2>3, <2>4 DEF e, o
<1>5. Shrunk(mem, mem1, last)
  <2>1. ASSUME NEW d \in DOMAIN mem
        PROVE  /\ mem1[d] \in NodeType(d) /\ mem1[d].left = mem[d].left
               /\ mem1[d].right = mem[d].right
               /\ mem1[d].count = IF d = last THEN mem[d].count - 1 ELSE mem[d].count
    <3>1. CASE ~InTail(root, depth, n, d)
      BY <1>2, <3>1
    <3>2. CASE d = last
      BY <1>4, <3>2
    <3>3. CASE InTail(root, depth, n, d) /\ d # last
      BY <1>3, <3>3
    <3>4. QED
      BY <3>1, <3>2, <3>3
  <2>2. QED
    BY <2>1 DEF Shrunk
<1>6. Shifted(mem, mem1, root, depth, n, p, last)
  <2>1. \A d \in DOMAIN mem : ~InTail(root, depth, n, d) =>
          mem1[d].vals = mem[d].vals /\ mem1[d].hashs = mem[d].hashs
    BY <1>2
  <2>2. QED
    BY <1>3, <1>4, <2>1, Zenon DEF Shifted
<1>7. Beyond(mem1)
  <2> SUFFICES ASSUME NEW d \in DOMAIN mem, NEW q \in mem1[d].count + 1 .. Capacity(d)
               PROVE  mem1[d].vals[q] = Null
    BY DEF Beyond
  <2>1. mem[d].count \in 0 .. Capacity(d) /\ Capacity(d) \in Nat \ {0}
    BY Place
  <2>2. \A u \in mem[d].count + 1 .. Capacity(d) : mem[d].vals[u] = Null
    BY DEF Beyond
  <2>3. CASE ~InTail(root, depth, n, d)
    BY <1>2, <2>2, <2>3
  <2>4. CASE InTail(root, depth, n, d) /\ d # last
    <3>1. mem1[d].count = mem[d].count
      BY <1>3, <2>4
    <3>2. Hole(mem, n, p, d) \in 1 .. mem[d].count
      BY <2>4, TailPlace
    <3>3. q \in 1 .. Capacity(d) /\ q \in mem[d].count + 1 .. Capacity(d) /\ q # Hole(mem, n, p, d)
      BY <2>1, <3>1, <3>2
    <3>4. mem1[d].vals[q] = mem[d].vals[q]
      BY <1>3, <2>4, <3>3
    <3>5. QED
      BY <2>2, <3>3, <3>4
  <2>5. CASE d = last
    <3>1. mem1[last].count = mem[last].count - 1
      BY <1>4
    <3>2. Hole(mem, n, p, last) \in 1 .. mem[last].count
      BY <1>1, TailPlace
    <3>3. q \in 1 .. Capacity(last) /\ ~(q < Hole(mem, n, p, last)) /\ ~(q < mem[last].count)
      BY <2>1, <2>5, <3>1, <3>2
    <3>4. QED
      BY <1>4, <2>5, <3>3
  <2>6. QED
    BY <2>3, <2>4, <2>5
<1>8. QED
  BY <1>5, <1>6, <1>7

-----------------------------------------------------------------------------
(***************************************************************************)
(* Slot q of node d goes to slot Goes()[2] of node Goes()[1].  The slots   *)
(* before slot p of node n are those that erase_if has not come to when it *)
(* is there; none of the others gets among them.                           *)
(***************************************************************************)
Goes(mem, root, depth, n, p, last, d, q) ==
  IF InTail(root, depth, n, d) /\ d # n /\ q = mem[d].count
  THEN <<mem[d].left, Hole(mem, n, p, mem[d].left)>>
  ELSE IF d = n /\ n = last /\ q > p THEN <<n, q - 1>>
  ELSE <<d, q>>

Before(root, depth, n, p, d, q) == ~InTail(root, depth, n, d) \/ (d = n /\ q < p)

\* Slot r of node e of mem2 has what slot q of node d of mem had.
Kept(mem, mem2, root, d, q, e, r) ==
  /\ e \in DOMAIN mem2 /\ r \in 1 .. mem2[e].count /\ root[e] = root[d]
  /\ mem2[e].vals[r] = mem[d].vals[q] /\ mem2[e].hashs[r] = mem[d].hashs[q]

\* Every other value of the chain is in its new slot, on the same side of the hole as before.
LEMMA SlotKept ==
  ASSUME BucketChainAssumption, NEW mem, NEW B, NEW ch, NEW root, NEW depth,
         Links(mem, B, ch, root, depth),
         NEW n \in DOMAIN mem, NEW p \in 1 .. mem[n].count, NEW last, last = LastOf(ch, root[n]),
         NEW mem1, Shrunk(mem, mem1, last), Shifted(mem, mem1, root, depth, n, p, last),
         NEW d \in DOMAIN mem, NEW q \in 1 .. mem[d].count, ~(d = n /\ q = p),
         NEW s, s = Goes(mem, root, depth, n, p, last, d, q)
  PROVE  /\ Kept(mem, mem1, root, d, q, s[1], s[2])
         /\ Before(root, depth, n, p, d, q) <=> Before(root, depth, n, p, s[1], s[2])
<1>1. DOMAIN mem1 = DOMAIN mem /\ \A e \in DOMAIN mem :
         mem1[e].count = IF e = last THEN mem[e].count - 1 ELSE mem[e].count
  BY DEF Shrunk
<1>2. p \in Nat /\ mem[n].count \in Nat /\ mem[n].count <= Capacity(n) /\ Capacity(n) \in Nat
  <2>1. mem[n].count \in 0 .. Capacity(n) /\ Capacity(n) \in Nat \ {0}
    BY Place
  <2>2. QED
    BY <2>1
<1>3. mem[d].count \in Nat /\ mem[d].count <= Capacity(d) /\ Capacity(d) \in Nat
  <2>1. mem[d].count \in 0 .. Capacity(d) /\ Capacity(d) \in Nat \ {0}
    BY Place
  <2>2. QED
    BY <2>1
<1>4. InTail(root, depth, n, n)
  <2>1. depth[n] \in 1 .. Height(ch, root[n])
    BY Place
  <2>2. QED
    BY <2>1 DEF InTail
<1>5. CASE InTail(root, depth, n, d) /\ d # n /\ q = mem[d].count
  <2> DEFINE l == mem[d].left
             o == Hole(mem, n, p, l)
  <2>1. l \in DOMAIN mem /\ InTail(root, depth, n, l) /\ l # last /\ mem[l].right = d
    BY <1>5, TailPlace
  <2>2. s = <<l, o>>
    BY <1>5 DEF Goes
  <2> HIDE DEF l
  <2>3. o \in 1 .. mem[l].count /\ mem[l].count \in Nat /\ mem[l].count <= Capacity(l)
        /\ Capacity(l) \in Nat
    BY <2>1, TailPlace
  <2> HIDE DEF o
  <2>4. o \in 1 .. Capacity(l)
    BY <2>3
  <2>5. mem1[l].vals[o] = mem[d].vals[q] /\ mem1[l].hashs[o] = mem[d].hashs[q]
    <3>1. \A u \in 1 .. Capacity(l) :
             /\ mem1[l].vals[u] = IF u = Hole(mem, n, p, l) THEN mem[d].vals[mem[d].count]
                                  ELSE mem[l].vals[u]
             /\ mem1[l].hashs[u] = IF u = Hole(mem, n, p, l) THEN mem[d].hashs[mem[d].count]
                                   ELSE mem[l].hashs[u]
      BY <2>1, Zenon DEF Shifted
    <3>2. QED
      BY <1>5, <2>4, <3>1 DEF o
  <2>6. mem1[l].count = mem[l].count
    BY <1>1, <2>1
  <2>7. root[l] = root[d]
    BY <1>5, <2>1 DEF InTail
  <2>8. Kept(mem, mem1, root, d, q, l, o)
    BY <1>1, <2>1, <2>3, <2>5, <2>6, <2>7 DEF Kept
  <2>9. ~Before(root, depth, n, p, l, o)
    <3>1. l = n => o = p
      BY DEF o, Hole
    <3>2. QED
      BY <1>2, <2>1, <3>1 DEF Before
  <2>10. ~Before(root, depth, n, p, d, q)
    BY <1>5 DEF Before
  <2>11. s[1] = l /\ s[2] = o
    BY <2>2
  <2>12. QED
    BY <2>8, <2>9, <2>10, <2>11
<1>6. CASE d = n /\ n = last /\ q > p
  <2>1. s[1] = n /\ s[2] = q - 1
    <3>1. s = <<n, q - 1>>
      BY <1>6 DEF Goes
    <3>2. QED
      BY <3>1
  <2>2. /\ q - 1 \in 1 .. Capacity(n) /\ ~(q - 1 < p) /\ q - 1 < mem[n].count /\ (q - 1) + 1 = q
        /\ q - 1 \in 1 .. mem[n].count - 1
    BY <1>2, <1>6
  <2>3. Hole(mem, n, p, n) = p
    BY DEF Hole
  <2>4. mem1[n].vals[q - 1] = mem[n].vals[q] /\ mem1[n].hashs[q - 1] = mem[n].hashs[q]
    <3>1. \A u \in 1 .. Capacity(n) :
             /\ mem1[n].vals[u] = IF u < p THEN mem[n].vals[u]
                                  ELSE IF u < mem[n].count THEN mem[n].vals[u + 1] ELSE Null
             /\ mem1[n].hashs[u] = IF u < p THEN mem[n].hashs[u]
                                   ELSE IF u < mem[n].count THEN mem[n].hashs[u + 1] ELSE 0
      BY <1>6, <2>3 DEF Shifted
    <3>2. QED
      BY <2>2, <3>1
  <2>5. mem1[n].count = mem[n].count - 1
    BY <1>1, <1>6
  <2>6. Kept(mem, mem1, root, d, q, n, q - 1)
    BY <1>1, <1>6, <2>2, <2>4, <2>5 DEF Kept
  <2>7. ~Before(root, depth, n, p, n, q - 1) /\ ~Before(root, depth, n, p, d, q)
    BY <1>2, <1>4, <1>6, <2>2 DEF Before
  <2>8. QED
    BY <2>1, <2>6, <2>7
<1>7. CASE /\ ~(InTail(root, depth, n, d) /\ d # n /\ q = mem[d].count)
           /\ ~(d = n /\ n = last /\ q > p)
  <2>1. s[1] = d /\ s[2] = q
    <3>1. s = <<d, q>>
      BY <1>7 DEF Goes
    <3>2. QED
      BY <3>1
  <2>2. q \in 1 .. Capacity(d)
    BY <1>3
  <2>3. CASE ~InTail(root, depth, n, d)
    <3>1. d # last
      <4>1. root[n] \in B /\ depth[n] \in 1 .. Height(ch, root[n]) /\ Height(ch, root[n]) \in Nat
        BY Place
      <4>2. root[last] = root[n] /\ depth[last] = Height(ch, root[n])
        BY <4>1, First
      <4>3. QED
        BY <2>3, <4>1, <4>2 DEF InTail
    <3>2. mem1[d].vals = mem[d].vals /\ mem1[d].hashs = mem[d].hashs /\ mem1[d].count = mem[d].count
      BY <1>1, <2>3, <3>1 DEF Shifted
    <3>3. Kept(mem, mem1, root, d, q, d, q)
      BY <1>1, <3>2 DEF Kept
    <3>4. QED
      BY <2>1, <3>3
  <2>4. CASE InTail(root, depth, n, d)
    <3>1. q # Hole(mem, n, p, d)
      BY <1>7, <2>4 DEF Hole
    <3>2. CASE d # last
      <4>1. \A u \in 1 .. Capacity(d) : u # Hole(mem, n, p, d) =>
              mem1[d].vals[u] = mem[d].vals[u] /\ mem1[d].hashs[u] = mem[d].hashs[u]
        BY <2>4, <3>2 DEF Shifted
      <4>2. mem1[d].count = mem[d].count
        BY <1>1, <3>2
      <4>3. Kept(mem, mem1, root, d, q, d, q)
        BY <1>1, <2>2, <3>1, <4>1, <4>2 DEF Kept
      <4>4. QED
        BY <2>1, <4>3
    <3>3. CASE d = last
      <4>1. q < Hole(mem, n, p, d) /\ Hole(mem, n, p, d) <= mem[d].count
        <5>1. Hole(mem, n, p, d) \in 1 .. mem[d].count
          BY <2>4, TailPlace
        <5>2. CASE d = n
          BY <1>2, <1>7, <3>1, <3>3, <5>1, <5>2 DEF Hole
        <5>3. CASE d # n
          BY <1>3, <3>1, <5>1, <5>3 DEF Hole
        <5>4. QED
          BY <5>2, <5>3
      <4>2. \A u \in 1 .. Capacity(d) : u < Hole(mem, n, p, d) =>
              mem1[d].vals[u] = mem[d].vals[u] /\ mem1[d].hashs[u] = mem[d].hashs[u]
        BY <3>3 DEF Shifted
      <4>3. mem1[d].vals[q] = mem[d].vals[q] /\ mem1[d].hashs[q] = mem[d].hashs[q]
        BY <2>2, <4>1, <4>2
      <4>4. q \in 1 .. mem1[d].count
        <5>1. mem1[d].count = mem[d].count - 1
          BY <1>1, <3>3
        <5>2. Hole(mem, n, p, d) \in 1 .. mem[d].count
          BY <2>4, TailPlace
        <5>3. QED
          BY <1>3, <4>1, <5>1, <5>2
      <4>5. Kept(mem, mem1, root, d, q, d, q)
        BY <1>1, <4>3, <4>4 DEF Kept
      <4>6. QED
        BY <2>1, <4>5
    <3>4. QED
      BY <3>2, <3>3
  <2>5. QED
    BY <2>3, <2>4
<1>8. QED
  BY <1>5, <1>6, <1>7

\* Every slot that is left has come from one of the others.
LEMMA SlotComes ==
  ASSUME BucketChainAssumption, NEW mem, NEW B, NEW ch, NEW root, NEW depth,
         Links(mem, B, ch, root, depth),
         NEW n \in DOMAIN mem, NEW p \in 1 .. mem[n].count, NEW last, last = LastOf(ch, root[n]),
         NEW mem1, Shrunk(mem, mem1, last),
         NEW e \in DOMAIN mem, NEW r \in 1 .. mem1[e].count
  PROVE  \E d \in DOMAIN mem : \E q \in 1 .. mem[d].count :
           ~(d = n /\ q = p) /\ Goes(mem, root, depth, n, p, last, d, q) = <<e, r>>
<1>1. mem1[e].count = IF e = last THEN mem[e].count - 1 ELSE mem[e].count
  BY DEF Shrunk
<1>2. p \in Nat /\ mem[n].count \in Nat
  <2>1. mem[n].count \in 0 .. Capacity(n) /\ Capacity(n) \in Nat \ {0}
    BY Place
  <2>2. QED
    BY <2>1
<1>3. mem[e].count \in Nat
  <2>1. mem[e].count \in 0 .. Capacity(e) /\ Capacity(e) \in Nat \ {0}
    BY Place
  <2>2. QED
    BY <2>1
<1>4. InTail(root, depth, n, n)
  <2>1. depth[n] \in 1 .. Height(ch, root[n])
    BY Place
  <2>2. QED
    BY <2>1 DEF InTail
<1>5. r \in 1 .. mem[e].count /\ r \in Nat
  BY <1>1, <1>3
<1>6. CASE ~InTail(root, depth, n, e)
  <2>1. e # n
    BY <1>4, <1>6
  <2>2. Goes(mem, root, depth, n, p, last, e, r) = <<e, r>>
    BY <1>6, <2>1 DEF Goes
  <2>3. QED
    BY <1>5, <2>1, <2>2
<1>7. CASE InTail(root, depth, n, e) /\ e # last
  <2>1. CASE r = Hole(mem, n, p, e)
    <3> DEFINE d == mem[e].right
               q == mem[d].count
    <3>1. d \in DOMAIN mem /\ InTail(root, depth, n, d) /\ d # n /\ mem[d].left = e /\ q > 0
      BY <1>7, TailPlace
    <3> HIDE DEF d
    <3>2. q \in 1 .. mem[d].count
      <4>1. mem[d].count \in 0 .. Capacity(d) /\ Capacity(d) \in Nat \ {0}
        BY <3>1, Place
      <4>2. QED
        BY <3>1, <4>1
    <3>3. Goes(mem, root, depth, n, p, last, d, q) = <<e, r>>
      BY <2>1, <3>1 DEF Goes
    <3>4. QED
      BY <3>1, <3>2, <3>3
  <2>2. CASE r # Hole(mem, n, p, e)
    <3>1. Goes(mem, root, depth, n, p, last, e, r) = <<e, r>> /\ ~(e = n /\ r = p)
      BY <1>7, <2>2 DEF Goes, Hole
    <3>2. QED
      BY <1>5, <3>1
  <2>3. QED
    BY <2>1, <2>2
<1>8. CASE e = last
  <2>1. r \in 1 .. mem[e].count - 1 /\ r # mem[e].count
    BY <1>1, <1>3, <1>8
  <2>2. CASE e = n /\ r >= p
    <3>1. r + 1 \in 1 .. mem[n].count /\ r + 1 > p /\ (r + 1) - 1 = r
      BY <1>2, <1>5, <2>1, <2>2
    <3>2. Goes(mem, root, depth, n, p, last, n, r + 1) = <<n, (r + 1) - 1>>
      BY <1>8, <2>2, <3>1 DEF Goes
    <3>3. r + 1 # p
      BY <1>2, <3>1
    <3>4. Goes(mem, root, depth, n, p, last, n, r + 1) = <<e, r>>
      BY <2>2, <3>1, <3>2
    <3>5. QED
      BY <3>1, <3>3, <3>4
  <2>3. CASE ~(e = n /\ r >= p)
    <3>1. ~(e = n /\ r = p) /\ ~(e = n /\ r > p)
      BY <1>2, <1>5, <2>3
    <3>2. Goes(mem, root, depth, n, p, last, e, r) = <<e, r>>
      BY <2>1, <3>1 DEF Goes
    <3>3. QED
      BY <1>5, <3>1, <3>2
  <2>4. QED
    BY <2>2, <2>3
<1>9. QED
  BY <1>6, <1>7, <1>8

\* What an erasure does to the slots.
Erased(mem, mem2, root, depth, n, p, last) ==
  /\ \A d \in DOMAIN mem : \A q \in 1 .. mem[d].count : ~(d = n /\ q = p) =>
       LET s == Goes(mem, root, depth, n, p, last, d, q) IN
       /\ Kept(mem, mem2, root, d, q, s[1], s[2])
       /\ Before(root, depth, n, p, d, q) <=> Before(root, depth, n, p, s[1], s[2])
  /\ \A e \in DOMAIN mem2 : \A r \in 1 .. mem2[e].count :
       \E d \in DOMAIN mem : \E q \in 1 .. mem[d].count :
         ~(d = n /\ q = p) /\ Goes(mem, root, depth, n, p, last, d, q) = <<e, r>>

\* What an erasure does to the chains, the slots, and the node it was called for.
LEMMA EraseMoves ==
  ASSUME BucketChainAssumption, NEW mem, NEW B, NEW ch, NEW root, NEW depth,
         Links(mem, B, ch, root, depth), Beyond(mem),
         NEW n \in DOMAIN mem, NEW p \in 1 .. mem[n].count,
         NEW mem2, mem2 = EraseSlot(mem, n, p)
  PROVE  \E ch2 :
           /\ Links(mem2, B, ch2, root, depth) /\ Beyond(mem2)
           /\ Erased(mem, mem2, root, depth, n, p, LastOf(ch, root[n]))
           /\ DOMAIN mem2 \subseteq DOMAIN mem
           /\ n \in DOMAIN mem2 => mem2[n].left = mem[n].left /\ p - 1 <= mem2[n].count
           /\ n \notin DOMAIN mem2 => /\ p = 1 /\ n \in Addresses /\ mem[n].left # Null
                                      /\ LastOf(ch2, root[n]) = mem[n].left
<1> DEFINE D    == DOMAIN mem
           b    == root[n]
           last == LastOf(ch, b)
           After(d) == IF d = last THEN CloseHole(mem[d], Hole(mem, n, p, d))
                       ELSE TakeLastOf(mem[d], Hole(mem, n, p, d), mem[mem[d].right])
           mem1 == [d \in D |-> IF d \in Range(Chain(mem, n)) THEN After(d) ELSE mem[d]]
<1>1. /\ Range(Chain(mem, n)) = {d \in D : InTail(root, depth, n, d)}
      /\ Last(Chain(mem, n)) = last
  BY ChainOf DEF InTail
<1>2. mem2 = FreeIfEmpty(mem1, last)
  <2>1. mem2 = FreeIfEmpty(mem1, Last(Chain(mem, n)))
    BY <1>1 DEF EraseSlot, Hole
  <2>2. QED
    BY <1>1, <2>1
<1>3. /\ DOMAIN mem1 = D
      /\ \A d \in D : mem1[d] = IF ~InTail(root, depth, n, d) THEN mem[d]
                     ELSE IF d = last THEN CloseHole(mem[d], Hole(mem, n, p, d))
                     ELSE TakeLastOf(mem[d], Hole(mem, n, p, d), mem[mem[d].right])
  BY <1>1
<1> HIDE DEF mem1
<1>4. Shrunk(mem, mem1, last) /\ Beyond(mem1) /\ Shifted(mem, mem1, root, depth, n, p, last)
  BY <1>3, HoleShifts
<1>5. b \in B
  BY Place
<1> HIDE DEF last
<1>6. last = LastOf(ch, b) /\ last \in D /\ root[last] = b /\ depth[last] = Height(ch, b)
  BY <1>5, First DEF last
<1>7. Erased(mem, mem1, root, depth, n, p, last)
  <2>1. ASSUME NEW d \in D, NEW q \in 1 .. mem[d].count, ~(d = n /\ q = p),
               NEW s, s = Goes(mem, root, depth, n, p, last, d, q)
        PROVE  /\ Kept(mem, mem1, root, d, q, s[1], s[2])
               /\ Before(root, depth, n, p, d, q) <=> Before(root, depth, n, p, s[1], s[2])
    BY <1>4, <1>6, <2>1, SlotKept
  <2>2. ASSUME NEW e \in D, NEW r \in 1 .. mem1[e].count
        PROVE  \E d \in DOMAIN mem : \E q \in 1 .. mem[d].count :
                 ~(d = n /\ q = p) /\ Goes(mem, root, depth, n, p, last, d, q) = <<e, r>>
    BY <1>4, <1>6, SlotComes
  <2>3. QED
    BY <1>3, <2>1, <2>2 DEF Erased
<1>8. ASSUME NEW d \in D
      PROVE  /\ mem1[d] \in NodeType(d) /\ mem1[d].left = mem[d].left /\ mem1[d].right = mem[d].right
             /\ mem1[d].count = IF d = last THEN mem[d].count - 1 ELSE mem[d].count
  BY <1>4 DEF Shrunk
<1>9. p \in Nat \ {0} /\ mem[n].count \in Nat /\ p <= mem[n].count
  <2>1. mem[n].count \in 0 .. Capacity(n) /\ Capacity(n) \in Nat \ {0}
    BY Place
  <2>2. QED
    BY <2>1
<1>10. mem1[n].left = mem[n].left /\ p - 1 <= mem1[n].count
  <2>1. mem1[n].left = mem[n].left
        /\ mem1[n].count = IF n = last THEN mem[n].count - 1 ELSE mem[n].count
    BY <1>8
  <2>2. QED
    BY <1>9, <2>1
<1>11. CASE last \in Addresses /\ mem1[last].count = 0
  <2>1. PICK ch2 :
           /\ Links(mem2, B, ch2, root, depth) /\ Beyond(mem2)
           /\ DOMAIN mem2 = DOMAIN mem \ {last}
           /\ \A d \in DOMAIN mem2 : /\ mem2[d].count = mem1[d].count /\ mem2[d].left = mem1[d].left
                                     /\ mem2[d].vals = mem1[d].vals /\ mem2[d].hashs = mem1[d].hashs
           /\ mem[last].left # Null /\ LastOf(ch2, b) = mem[last].left
    <3>1. \E ch2 : /\ Links(mem2, B, ch2, root, depth) /\ Beyond(mem2)
                   /\ Freed(mem, mem1, mem2, b, last, ch2)
      BY <1>2, <1>4, <1>5, <1>6, <1>11, LastFreed
    <3>2. QED
      BY <3>1 DEF Freed
  <2>2. Erased(mem, mem2, root, depth, n, p, last)
    <3>1. ASSUME NEW d \in D, NEW q \in 1 .. mem[d].count, NEW e, NEW r, Kept(mem, mem1, root, d, q, e, r)
          PROVE  Kept(mem, mem2, root, d, q, e, r)
      <4>1. e \in D /\ r \in 1 .. mem1[e].count
        BY <1>3, <3>1 DEF Kept
      <4>2. e # last
        BY <1>11, <4>1
      <4>3. e \in DOMAIN mem2
        BY <2>1, <4>1, <4>2
      <4>4. QED
        BY <2>1, <3>1, <4>1, <4>3 DEF Kept
    <3>2. ASSUME NEW d \in D, NEW q \in 1 .. mem[d].count, ~(d = n /\ q = p),
                 NEW s, s = Goes(mem, root, depth, n, p, last, d, q)
          PROVE  /\ Kept(mem, mem2, root, d, q, s[1], s[2])
                 /\ Before(root, depth, n, p, d, q) <=> Before(root, depth, n, p, s[1], s[2])
      <4>1. /\ Kept(mem, mem1, root, d, q, s[1], s[2])
            /\ Before(root, depth, n, p, d, q) <=> Before(root, depth, n, p, s[1], s[2])
        BY <1>7, <3>2 DEF Erased
      <4>2. Kept(mem, mem2, root, d, q, s[1], s[2])
        BY <3>1, <4>1
      <4>3. QED
        BY <4>1, <4>2
    <3>3. ASSUME NEW e \in DOMAIN mem2, NEW r \in 1 .. mem2[e].count
          PROVE  \E d \in DOMAIN mem : \E q \in 1 .. mem[d].count :
                   ~(d = n /\ q = p) /\ Goes(mem, root, depth, n, p, last, d, q) = <<e, r>>
      <4>1. e \in DOMAIN mem1 /\ mem2[e].count = mem1[e].count
        BY <1>3, <2>1
      <4>2. r \in 1 .. mem1[e].count
        BY <4>1
      <4>3. QED
        BY <1>7, <4>1, <4>2 DEF Erased
    <3>4. QED
      BY <3>2, <3>3 DEF Erased
  <2>3. n \in DOMAIN mem2 => mem2[n].left = mem[n].left /\ p - 1 <= mem2[n].count
    BY <1>10, <2>1
  <2>4. n \notin DOMAIN mem2 => /\ p = 1 /\ n \in Addresses /\ mem[n].left # Null
                                /\ LastOf(ch2, root[n]) = mem[n].left
    <3> SUFFICES ASSUME n \notin DOMAIN mem2
                 PROVE  /\ p = 1 /\ n \in Addresses /\ mem[n].left # Null
                        /\ LastOf(ch2, root[n]) = mem[n].left
      OBVIOUS
    <3>1. n = last
      BY <2>1
    <3>2. p = 1
      BY <1>9, <1>10, <1>11, <3>1
    <3>3. QED
      BY <1>11, <2>1, <3>1, <3>2
  <2>5. DOMAIN mem2 \subseteq DOMAIN mem
    BY <2>1
  <2>6. QED
    BY <2>1, <2>2, <2>3, <2>4, <2>5 DEF last
<1>12. CASE ~(last \in Addresses /\ mem1[last].count = 0)
  <2>1. mem2 = mem1
    BY <1>2, <1>12 DEF FreeIfEmpty
  <2>2. ASSUME NEW d \in D
        PROVE  \/ mem1[d].count = mem[d].count
               \/ depth[d] = Height(ch, root[d]) /\ (depth[d] > 1 => mem1[d].count > 0)
    <3>1. CASE d # last
      BY <1>8, <3>1
    <3>2. CASE d = last
      <4>1. depth[last] > 1 => last \in Addresses
        BY <1>6, Place
      <4>2. mem1[last].count \in Nat
        <5>1. mem1[last] \in NodeType(last) /\ Capacity(last) \in Nat \ {0}
          BY <1>6, <1>8, CapacityPositive
        <5>2. mem1[last].count \in 0 .. Capacity(last)
          BY <5>1 DEF NodeType
        <5>3. QED
          BY <5>1, <5>2
      <4>3. QED
        BY <1>6, <1>12, <3>2, <4>1, <4>2
    <3>3. QED
      BY <3>1, <3>2
  <2>3. Links(mem1, B, ch, root, depth)
    <3>1. \A d \in DOMAIN mem :
            /\ mem1[d] \in NodeType(d)
            /\ mem1[d].left = mem[d].left /\ mem1[d].right = mem[d].right
            /\ \/ mem1[d].count = mem[d].count
               \/ depth[d] = Height(ch, root[d]) /\ (depth[d] > 1 => mem1[d].count > 0)
      BY <1>8, <2>2
    <3>2. QED
      BY <1>3, <3>1, LinksKept
  <2>4. QED
    BY <1>3, <1>4, <1>7, <1>10, <2>1, <2>3 DEF last
<1>13. QED
  BY <1>11, <1>12

\* The other keys after an erasure.
LEMMA ErasedPlaced ==
  ASSUME NEW mem, NEW mem2, NEW root, NEW depth, NEW n, NEW p, NEW last,
         Erased(mem, mem2, root, depth, n, p, last),
         NEW a, NEW m, NEW keys, NEW hn, NEW hp, Placed(mem, root, a, m, keys, hn, hp),
         Covered(mem, root, a, keys, hn, hp), Values(mem, keys, hn, hp), Hashes(mem, keys, hn, hp),
         NEW k \in keys, hn[k] = n, hp[k] = p,
         NEW hn2, hn2 = [l \in keys \ {k} |-> Goes(mem, root, depth, n, p, last, hn[l], hp[l])[1]],
         NEW hp2, hp2 = [l \in keys \ {k} |-> Goes(mem, root, depth, n, p, last, hn[l], hp[l])[2]]
  PROVE  /\ Placed(mem2, root, a, m, keys \ {k}, hn2, hp2)
         /\ Covered(mem2, root, a, keys \ {k}, hn2, hp2)
         /\ Values(mem2, keys \ {k}, hn2, hp2) /\ Hashes(mem2, keys \ {k}, hn2, hp2)
         /\ \A l \in keys \ {k} : /\ root[hn2[l]] = root[hn[l]]
                                  /\ Before(root, depth, n, p, hn[l], hp[l]) <=>
                                       Before(root, depth, n, p, hn2[l], hp2[l])
<1>1. ASSUME NEW l \in keys \ {k}
      PROVE  /\ Kept(mem, mem2, root, hn[l], hp[l], hn2[l], hp2[l])
             /\ Before(root, depth, n, p, hn[l], hp[l]) <=>
                  Before(root, depth, n, p, hn2[l], hp2[l])
             /\ root[hn[l]] = Bucket(a, m, l)
  <2>1. hn[l] \in DOMAIN mem /\ hp[l] \in 1 .. mem[hn[l]].count /\ root[hn[l]] = Bucket(a, m, l)
    BY DEF Placed
  <2>2. ~(hn[l] = n /\ hp[l] = p)
    BY DEF Placed
  <2> DEFINE s == Goes(mem, root, depth, n, p, last, hn[l], hp[l])
  <2>3. /\ Kept(mem, mem2, root, hn[l], hp[l], s[1], s[2])
        /\ Before(root, depth, n, p, hn[l], hp[l]) <=> Before(root, depth, n, p, s[1], s[2])
    BY <2>1, <2>2 DEF Erased
  <2>4. hn2[l] = s[1] /\ hp2[l] = s[2]
    OBVIOUS
  <2> HIDE DEF s
  <2>5. QED
    BY <2>1, <2>3, <2>4
<1>2. ASSUME NEW l \in keys \ {k}
      PROVE  /\ hn2[l] \in DOMAIN mem2 /\ hp2[l] \in 1 .. mem2[hn2[l]].count
             /\ root[hn2[l]] = root[hn[l]] /\ root[hn2[l]] = Bucket(a, m, l)
             /\ mem2[hn2[l]].vals[hp2[l]] = l /\ mem2[hn2[l]].hashs[hp2[l]] = TinyOf[l]
  <2>1. mem[hn[l]].vals[hp[l]] = l /\ mem[hn[l]].hashs[hp[l]] = TinyOf[l]
    BY DEF Values, Hashes
  <2>2. QED
    BY <1>1, <2>1 DEF Kept
<1>3. Values(mem2, keys \ {k}, hn2, hp2) /\ Hashes(mem2, keys \ {k}, hn2, hp2)
  BY <1>2 DEF Values, Hashes
<1>4. Placed(mem2, root, a, m, keys \ {k}, hn2, hp2)
  <2>1. ASSUME NEW l \in keys \ {k}, NEW i \in keys \ {k}, hn2[l] = hn2[i], hp2[l] = hp2[i]
        PROVE  l = i
    BY <1>2, <2>1
  <2>2. QED
    BY <1>2, <2>1 DEF Placed
<1>5. Covered(mem2, root, a, keys \ {k}, hn2, hp2)
  <2> SUFFICES ASSUME NEW e \in DOMAIN mem2, root[e][1] = a, NEW r \in 1 .. mem2[e].count
               PROVE  \E l \in keys \ {k} : hn2[l] = e /\ hp2[l] = r
    BY DEF Covered
  <2>1. PICK d \in DOMAIN mem :
          \E q \in 1 .. mem[d].count :
            ~(d = n /\ q = p) /\ Goes(mem, root, depth, n, p, last, d, q) = <<e, r>>
    BY DEF Erased
  <2>2. PICK q \in 1 .. mem[d].count :
          ~(d = n /\ q = p) /\ Goes(mem, root, depth, n, p, last, d, q) = <<e, r>>
    BY <2>1
  <2>3. root[e] = root[d]
    <3> DEFINE s == Goes(mem, root, depth, n, p, last, d, q)
    <3>1. Kept(mem, mem2, root, d, q, s[1], s[2])
      BY <2>2 DEF Erased
    <3>2. s[1] = e
      BY <2>2
    <3> HIDE DEF s
    <3>3. QED
      BY <3>1, <3>2 DEF Kept
  <2>4. PICK l \in keys : hn[l] = d /\ hp[l] = q
    BY <2>3 DEF Covered
  <2>5. l \in keys \ {k}
    BY <2>2, <2>4
  <2>6. hn2[l] = e /\ hp2[l] = r
    BY <2>2, <2>4, <2>5
  <2>7. QED
    BY <2>5, <2>6
<1>6. QED
  BY <1>1, <1>2, <1>3, <1>4, <1>5

-----------------------------------------------------------------------------
(***************************************************************************)
(* The invariant.  In a rehash the keys of moved are in the new array, at  *)
(* gn and gp, and their slots of the old one are blank; when the rehash    *)
(* fails they come back, each to a blank slot of its old bucket, which     *)
(* need not be the one it had.                                             *)
(***************************************************************************)
Moving == op.pc \in {"move", "back"}

Live == Buckets(array, mask) \cup IF Moving THEN Buckets(NewArray, op.mask) ELSE {}

Basics ==
  /\ array \in 0 .. 2 /\ mask \in Masks
  /\ size \in Nat /\ nextTarget \in Nat /\ chainCount \in Nat
  /\ content \subseteq Keys /\ IsFiniteSet(content) /\ size = Cardinality(content)
  /\ op.pc \in {"idle", "move", "back", "insert", "erase_if"}
  /\ op.key \in Keys \cup {Null} /\ op.mask \in Masks
  /\ op.todo \in Seq(Nodes \X Nat) /\ walk.unasked \subseteq Keys
  /\ array = 0 => content = {} /\ mask = 0 /\ nextTarget = 0
  /\ op.pc = "insert" => op.key \in Keys /\ array # 0
  /\ op.pc = "erase_if" => array # 0

Contents(root, hn, hp, gn, gp, moved) ==
  /\ Placed(node, root, array, mask, content, hn, hp)
  /\ Covered(node, root, array, content, hn, hp)
  /\ moved \subseteq content
  /\ Values(node, content \ moved, hn, hp) /\ Hashes(node, content \ moved, hn, hp)
  /\ Blank(node, moved, hn, hp)
  /\ Placed(node, root, NewArray, op.mask, moved, gn, gp) /\ Values(node, moved, gn, gp)

Phase(root, hn, hp, gn, gp, moved) ==
  /\ ~Moving => moved = {}
  /\ op.pc = "move" => /\ Covered(node, root, NewArray, moved, gn, gp)
                       /\ Hashes(node, moved, gn, gp)
                       /\ Enumerates(op.todo, Homes(content \ moved, hn, hp))
  /\ op.pc = "back" => Enumerates(op.todo, Homes(moved, gn, gp))

\* The slots that erase_if has not come to.
Ahead(w, root, depth, d, q) ==
  \/ root[d][2] > w.bucket
  \/ root[d][2] = w.bucket /\ \/ w.prev # Null /\ depth[d] <= depth[w.prev]
                              \/ d = w.at /\ q <= w.pos

Asking(ch, root, depth, hn, hp) ==
  IF op.pc = "erase_if"
  THEN /\ walk.bucket \in 0 .. mask
       /\ \/ /\ walk.at \in DOMAIN node /\ root[walk.at] = <<array, walk.bucket>>
             /\ walk.prev = node[walk.at].left /\ walk.pos \in 0 .. node[walk.at].count
          \/ /\ walk.at \in Addresses \ DOMAIN node /\ walk.pos = 0
             /\ walk.prev = LastOf(ch, <<array, walk.bucket>>)
       /\ walk.unasked = {k \in content : Ahead(walk, root, depth, hn[k], hp[k])}
  ELSE walk.unasked = {}

BucketsInv ==
  /\ Basics /\ Beyond(node)
  /\ \E ch, root, depth, hn, hp, gn, gp, moved :
       /\ Links(node, Live, ch, root, depth)
       /\ Contents(root, hn, hp, gn, gp, moved)
       /\ Phase(root, hn, hp, gn, gp, moved)
       /\ Asking(ch, root, depth, hn, hp)

\* Masks, and the next larger one.
LEMMA MaskIs ==
  ASSUME BucketChainAssumption, NEW m \in Masks
  PROVE  m \in Nat /\ m \in 0 .. MaxMask
BY MaxMaskType DEF Masks

\* One bucket is a size that a table can have.
LEMMA SmallestMask ==
  ASSUME BucketChainAssumption
  PROVE  0 \in Masks
<1>1. 0 \in 0 .. MaxMask
  BY MaxMaskType
<1>2. 0 + 1 = 2 ^ 0
  BY PowerZero
<1>3. 0 \in 0 .. 0
  OBVIOUS
<1>4. QED
  BY <1>1, <1>2, <1>3 DEF Masks

\* Twice the buckets are a size that a table can have, unless the table is the largest.
LEMMA LargerMask ==
  ASSUME BucketChainAssumption, NEW m \in Masks, m < MaxMask
  PROVE  2 * m + 1 \in Masks
<1>1. m \in Nat /\ MaxMask \in Nat
  BY MaskIs, MaxMaskType
<1>2. PICK i \in 0 .. m : m + 1 = 2 ^ i
  BY DEF Masks
<1>3. PICK j \in 1 .. 31 : MaxMask + 1 = 2 ^ j
  BY DEF BucketChainAssumption
<1>4. i \in Nat /\ j \in Nat
  BY <1>1
<1>5. 2 ^ (i + 1) = 2 * 2 ^ i
  BY <1>4, PowerDoubles
<1>6. 2 ^ i \in Nat /\ 2 ^ j \in Nat /\ 2 ^ (j + 1) \in Nat
  BY <1>1, <1>2, <1>3, <1>4, PowerPositive
<1>7. i < j
  <2>1. j < i => 2 ^ (j + 1) <= 2 ^ i
    BY <1>4, PowerGrows
  <2>2. 2 ^ (j + 1) = 2 * 2 ^ j
    BY <1>4, PowerDoubles
  <2>3. ~(j < i)
    BY <1>1, <1>2, <1>3, <1>6, <2>1, <2>2
  <2>4. i # j
    BY <1>1, <1>2, <1>3
  <2>5. QED
    BY <1>4, <2>3, <2>4
<1>8. 2 ^ (i + 1) <= 2 ^ j
  BY <1>4, <1>7, PowerGrows
<1>9. (2 * m + 1) + 1 = 2 ^ (i + 1) /\ 2 * m + 1 \in 0 .. MaxMask /\ i + 1 \in 0 .. 2 * m + 1
  BY <1>1, <1>2, <1>3, <1>5, <1>6, <1>8
<1>10. QED
  BY <1>9 DEF Masks

\* The bucket of a key is one of its array.
LEMMA BucketOf ==
  ASSUME BucketChainAssumption, NEW a \in 1 .. 2, NEW m \in Masks, NEW k \in Keys
  PROVE  Bucket(a, m, k) \in Buckets(a, m)
<1>1. m \in Nat
  BY MaskIs
<1>2. HashOf[k] \in Nat
  BY DEF BucketChainAssumption
<1>3. HashOf[k] % (m + 1) \in 0 .. m
  BY <1>1, <1>2
<1>4. a # 0
  OBVIOUS
<1>5. QED
  BY <1>3, <1>4 DEF Bucket, Buckets

\* A lookup finds the slot of the key.
LEMMA FindIs ==
  ASSUME BucketChainAssumption, NEW mem, NEW B, NEW ch, NEW root, NEW depth,
         Links(mem, B, ch, root, depth), Beyond(mem), NEW a, NEW m, NEW keys, NEW hn, NEW hp,
         Placed(mem, root, a, m, keys, hn, hp), Covered(mem, root, a, keys, hn, hp),
         Values(mem, keys, hn, hp), Hashes(mem, keys, hn, hp),
         NEW k \in Keys, NEW b \in B, b = Bucket(a, m, k)
  PROVE  Find(mem, b, k) = IF k \in keys THEN {<<hn[k], hp[k]>>} ELSE {}
<1>1. Range(NodesOf(mem, b)) = {d \in DOMAIN mem : root[d] = b}
  BY NodesOfIs
<1>2. b[1] = a
  BY DEF Bucket
<1>3. NodeSize \in Nat \ {0} /\ DenseSize \in Nat \ {0}
  BY DEF BucketChainAssumption
<1>4. k # Null
  BY Apart
<1>5. ASSUME NEW n \in DOMAIN mem, root[n] = b, NEW p \in 1 .. NodeSize + DenseSize,
             p <= Capacity(n), mem[n].vals[p] = k
      PROVE  k \in keys /\ n = hn[k] /\ p = hp[k]
  <2>1. mem[n].count \in 0 .. Capacity(n) /\ Capacity(n) \in Nat \ {0}
    BY Place
  <2>2. p \in 1 .. mem[n].count
    <3>1. p \notin mem[n].count + 1 .. Capacity(n)
      BY <1>4, <1>5 DEF Beyond
    <3>2. QED
      BY <1>3, <1>5, <2>1, <3>1
  <2>3. PICK l \in keys : hn[l] = n /\ hp[l] = p
    BY <1>2, <1>5, <2>2 DEF Covered
  <2>4. l = k
    BY <1>5, <2>3 DEF Values
  <2>5. QED
    BY <2>3, <2>4
<1>6. ASSUME k \in keys
      PROVE  /\ hn[k] \in DOMAIN mem /\ root[hn[k]] = b /\ hp[k] \in 1 .. NodeSize + DenseSize
             /\ hp[k] <= Capacity(hn[k]) /\ mem[hn[k]].count > 0
             /\ mem[hn[k]].hashs[hp[k]] = TinyOf[k] /\ mem[hn[k]].vals[hp[k]] = k
  <2>1. hn[k] \in DOMAIN mem /\ hp[k] \in 1 .. mem[hn[k]].count /\ root[hn[k]] = b
    BY <1>6 DEF Placed
  <2> DEFINE n == hn[k]
             p == hp[k]
             c == mem[n].count
  <2> HIDE DEF n
  <2>2. n \in DOMAIN mem
    BY <2>1 DEF n
  <2>3. mem[n].count \in 0 .. Capacity(n) /\ Capacity(n) \in Nat \ {0}
    BY <2>2, Place
  <2>4. Capacity(n) <= NodeSize + DenseSize
    BY <1>3 DEF Capacity
  <2>5. p \in 1 .. c
    BY <2>1 DEF n
  <2>6. p \in 1 .. NodeSize + DenseSize /\ p <= Capacity(n) /\ c > 0
    <3> HIDE DEF p
    <3> QED
      BY <1>3, <2>3, <2>4, <2>5
  <2>7. QED
    BY <1>6, <2>1, <2>6 DEF Values, Hashes, n
<1>7. ASSUME NEW s
      PROVE  s \in Find(mem, b, k) <=> (k \in keys /\ s = <<hn[k], hp[k]>>)
  <2>1. ASSUME s \in Find(mem, b, k) PROVE k \in keys /\ s = <<hn[k], hp[k]>>
    <3>1. /\ s \in {<<n, p>> : n \in Range(NodesOf(mem, b)), p \in 1 .. NodeSize + DenseSize}
          /\ s[2] <= Capacity(s[1]) /\ mem[s[1]].vals[s[2]] = k
      BY <2>1 DEF Find
    <3>2. PICK n \in Range(NodesOf(mem, b)), p \in 1 .. NodeSize + DenseSize : s = <<n, p>>
      BY <3>1
    <3>3. n \in DOMAIN mem /\ root[n] = b
      BY <1>1
    <3>4. QED
      BY <1>5, <3>1, <3>2, <3>3
  <2>2. ASSUME k \in keys, s = <<hn[k], hp[k]>> PROVE s \in Find(mem, b, k)
    <3>1. hn[k] \in Range(NodesOf(mem, b))
      BY <1>1, <1>6, <2>2
    <3>2. s \in {<<n, p>> : n \in Range(NodesOf(mem, b)), p \in 1 .. NodeSize + DenseSize}
      BY <1>6, <2>2, <3>1
    <3>3. s[1] = hn[k] /\ s[2] = hp[k]
      BY <2>2
    <3>4. QED
      BY <1>6, <2>2, <3>2, <3>3 DEF Find
  <2>3. QED
    BY <2>1, <2>2
<1>8. QED
  BY <1>7

-----------------------------------------------------------------------------
(***************************************************************************)
(* Every step keeps the invariant.                                         *)
(***************************************************************************)
\* Which buckets there are.
LEMMA LiveBuckets ==
  ASSUME BucketChainAssumption, Basics
  PROVE  /\ mask \in Nat /\ op.mask \in Nat /\ NewArray \in 1 .. 2 /\ NewArray # array
         /\ Buckets(array, mask) \subseteq Live /\ \A b \in Live : b[1] = array => b \in Buckets(array, mask)
         /\ ~Moving => Live = Buckets(array, mask)
         /\ Moving => /\ Live = Buckets(array, mask) \cup Buckets(NewArray, op.mask)
                      /\ Buckets(NewArray, op.mask) \subseteq Live
                      /\ \A b \in Live : b[1] = NewArray => b \in Buckets(NewArray, op.mask)
<1>1. mask \in Nat /\ op.mask \in Nat
  BY MaskIs DEF Basics
<1>2. NewArray \in 1 .. 2 /\ NewArray # array
  BY DEF Basics, NewArray
<1>3. /\ \A b \in Buckets(array, mask) : b[1] = array
      /\ \A b \in Buckets(NewArray, op.mask) : b[1] = NewArray
  BY DEF Buckets
<1>4. QED
  BY <1>1, <1>2, <1>3 DEF Live

\* A new shard has no array and no key.
LEMMA InitBuckets ==
  ASSUME BucketChainAssumption, Init
  PROVE  BucketsInv
<1>1. op.pc = "idle" /\ op.key = Null /\ op.mask = 0 /\ op.todo = << >> /\ walk.unasked = {}
  BY DEF Init, NoOp, Op, NoWalk, Walk
<1>2. 0 \in Masks
  BY SmallestMask
<1>3. IsFiniteSet({}) /\ Cardinality({}) = 0
  BY FS_EmptySet
<1>4. Basics
  BY <1>1, <1>2, <1>3 DEF Init, Basics
<1>5. DOMAIN node = {} /\ content = {} /\ ~Moving /\ array = 0
  BY <1>1 DEF Init, Moving
<1>6. Live = {}
  BY <1>5 DEF Live, Buckets
<1>7. Links(node, Live, << >>, << >>, << >>)
  BY <1>5, <1>6 DEF Links, Numbered
<1>8. Contents(<< >>, << >>, << >>, << >>, << >>, {})
  BY <1>5 DEF Contents, Placed, Covered, Values, Hashes, Blank
<1>9. Phase(<< >>, << >>, << >>, << >>, << >>, {}) /\ Asking(<< >>, << >>, << >>, << >>, << >>)
  BY <1>1, <1>5 DEF Phase, Asking, Moving
<1>10. Beyond(node)
  BY <1>5 DEF Beyond
<1>11. QED
  BY <1>4, <1>7, <1>8, <1>9, <1>10 DEF BucketsInv

\* A rehash begins.
LEMMA EnterRehashKeeps ==
  ASSUME BucketChainAssumption, BucketsInv, op.pc = "idle",
         NEW m \in Masks, NEW k \in Keys \cup {Null}, EnterRehash(m, k)
  PROVE  BucketsInv'
<1>1. Basics /\ Beyond(node) /\ ~Moving
  BY DEF BucketsInv, Moving
<1>2. PICK ch, root, depth, hn, hp, gn, gp, moved :
         /\ Links(node, Live, ch, root, depth) /\ Contents(root, hn, hp, gn, gp, moved)
         /\ Phase(root, hn, hp, gn, gp, moved) /\ Asking(ch, root, depth, hn, hp)
  BY DEF BucketsInv
<1>3. moved = {} /\ walk.unasked = {}
  BY <1>1, <1>2 DEF Phase, Asking
<1>4. /\ Placed(node, root, array, mask, content, hn, hp)
      /\ Covered(node, root, array, content, hn, hp)
      /\ Values(node, content, hn, hp) /\ Hashes(node, content, hn, hp)
  <2>1. content \ {} = content
    OBVIOUS
  <2>2. QED
    BY <1>2, <1>3, <2>1 DEF Contents
<1>5. /\ mask \in Nat /\ NewArray \in 1 .. 2 /\ NewArray # array /\ Live = Buckets(array, mask)
      /\ m \in 0 .. MaxMask
  BY <1>1, LiveBuckets, MaskIs
<1>6. \A b \in Live : b[1] # NewArray
  BY <1>5 DEF Buckets
<1>7. node' = WithArray(node, NewArray, m)
  BY DEF EnterRehash
<1> DEFINE a == NewArray
<1>8. ArrayAdded(node, Live, root, node', a, m)
  BY <1>1, <1>2, <1>5, <1>6, <1>7, NewNodesLink
<1>9. PICK ch2, root2, depth2 :
         /\ Links(node', Live \cup Buckets(a, m), ch2, root2, depth2) /\ Beyond(node')
         /\ DOMAIN node \subseteq DOMAIN node'
         /\ \A n \in DOMAIN node : root2[n] = root[n] /\ node'[n] = node[n]
         /\ \A n \in DOMAIN node' \ DOMAIN node : node'[n].count = 0 /\ root2[n][1] = a
  BY <1>8 DEF ArrayAdded
<1>10. /\ UNCHANGED <<array, mask, size, nextTarget, walk, content>> /\ chainCount' = 0
       /\ op'.pc = "move" /\ op'.key = k /\ op'.mask = m
       /\ op'.todo = IF array = 0 THEN << >> ELSE Slots(node, array, mask)
  BY DEF EnterRehash, Op
<1>11. Enumerates(op'.todo, Homes(content, hn, hp))
  <2>1. CASE array = 0
    <3>1. Homes(content, hn, hp) = {}
      BY <1>1, <2>1 DEF Basics, Homes
    <3>2. Enumerates(<< >>, {})
      BY EmptySeq DEF Enumerates
    <3>3. QED
      BY <1>10, <2>1, <3>1, <3>2
  <2>2. CASE array # 0
    <3>1. array \in 1 .. 2 /\ mask \in Masks
      BY <1>1, <2>2 DEF Basics
    <3>2. Buckets(array, mask) \subseteq Live /\ \A b \in Live : b[1] = array => b \in Buckets(array, mask)
      BY <1>5
    <3>3. Enumerates(Slots(node, array, mask), Homes(content, hn, hp))
      BY <1>2, <1>4, <3>1, <3>2, SlotsAreHomes
    <3>4. QED
      BY <1>10, <2>2, <3>3
  <2>3. QED
    BY <2>1, <2>2
<1>12. ASSUME NEW l \in content
       PROVE  /\ hn[l] \in DOMAIN node /\ hn[l] \in DOMAIN node' /\ root2[hn[l]] = root[hn[l]]
              /\ node'[hn[l]] = node[hn[l]] /\ hp[l] \in 1 .. node[hn[l]].count
              /\ root[hn[l]] = Bucket(array, mask, l) /\ hn[l] \in Nodes /\ hp[l] \in Nat
  <2>1. hn[l] \in DOMAIN node /\ hp[l] \in 1 .. node[hn[l]].count /\ root[hn[l]] = Bucket(array, mask, l)
    BY <1>4 DEF Placed
  <2>2. hn[l] \in Nodes
    BY <1>2, <2>1 DEF Links
  <2>3. hp[l] \in Nat
    <3> DEFINE p == hp[l]
               c == node[hn[l]].count
    <3>1. c \in 0 .. Capacity(hn[l]) /\ Capacity(hn[l]) \in Nat \ {0}
      BY <1>2, <2>1, Place
    <3>2. p \in 1 .. c
      BY <2>1
    <3> HIDE DEF p, c
    <3>3. p \in Nat
      BY <3>1, <3>2
    <3>4. QED
      BY <3>3 DEF p
  <2>4. QED
    BY <1>9, <2>1, <2>2, <2>3
<1>13. op'.todo \in Seq(Nodes \X Nat)
  <2>1. Homes(content, hn, hp) \subseteq Nodes \X Nat
    BY <1>12 DEF Homes
  <2>2. op'.todo \in Seq(Homes(content, hn, hp))
    BY <1>11 DEF Enumerates
  <2>3. QED
    BY <2>1, <2>2, SeqMonotonic
<1>14. Basics'
  BY <1>1, <1>10, <1>13 DEF Basics
<1>15. NewArray' = NewArray /\ Live' = Live \cup Buckets(a, m)
  BY <1>5, <1>10 DEF NewArray, Live, Moving
<1>16. /\ Placed(node', root2, array, mask, content, hn, hp)
       /\ Values(node', content, hn, hp) /\ Hashes(node', content, hn, hp)
  <2>1. Placed(node', root2, array, mask, content, hn, hp)
    BY <1>4, <1>12 DEF Placed
  <2>2. QED
    BY <1>4, <1>12, <2>1 DEF Values, Hashes
<1>17. Covered(node', root2, array, content, hn, hp)
  <2> SUFFICES ASSUME NEW n \in DOMAIN node', root2[n][1] = array, NEW p \in 1 .. node'[n].count
               PROVE  \E l \in content : hn[l] = n /\ hp[l] = p
    BY DEF Covered
  <2>1. n \in DOMAIN node
    BY <1>5, <1>9
  <2>2. QED
    BY <1>4, <1>9, <2>1 DEF Covered
<1>18. Covered(node', root2, NewArray, {}, gn, gp)
  <2> SUFFICES ASSUME NEW n \in DOMAIN node', root2[n][1] = NewArray, NEW p \in 1 .. node'[n].count
               PROVE  FALSE
    BY DEF Covered
  <2>1. n \notin DOMAIN node
    <3> SUFFICES ASSUME n \in DOMAIN node PROVE FALSE
      OBVIOUS
    <3>1. root2[n] = root[n]
      BY <1>9
    <3>2. root[n] \in Live
      BY <1>2, Place
    <3>3. QED
      BY <1>6, <3>1, <3>2
  <2>2. node'[n].count = 0
    BY <1>9, <2>1
  <2>3. QED
    BY <2>2
<1>19. Contents(root2, hn, hp, gn, gp, {})'
  <2>1. content' \ {} = content
    BY <1>10
  <2>2. /\ Placed(node', root2, NewArray', op'.mask, {}, gn, gp) /\ Values(node', {}, gn, gp)
        /\ Blank(node', {}, hn, hp)
    BY DEF Placed, Values, Blank
  <2>3. QED
    BY <1>10, <1>16, <1>17, <2>1, <2>2 DEF Contents
<1>20. Phase(root2, hn, hp, gn, gp, {})'
  <2>1. content' \ {} = content /\ Moving'
    BY <1>10 DEF Moving
  <2>2. Hashes(node', {}, gn, gp)
    BY DEF Hashes
  <2>3. QED
    BY <1>10, <1>11, <1>15, <1>18, <2>1, <2>2 DEF Phase
<1>21. Asking(ch2, root2, depth2, hn, hp)'
  BY <1>3, <1>10 DEF Asking
<1>22. QED
  BY <1>9, <1>14, <1>15, <1>19, <1>20, <1>21 DEF BucketsInv

\* An insertion, or none if the key is there or a node cannot be allocated.
LEMMA InsertKeeps ==
  ASSUME BucketChainAssumption, BucketsInv, op.pc \in {"idle", "insert"}, array # 0,
         NEW k \in Keys, Insert(k)
  PROVE  BucketsInv'
<1>1. Basics /\ Beyond(node) /\ ~Moving
  BY DEF BucketsInv, Moving
<1>2. PICK ch, root, depth, hn, hp, gn, gp, moved :
         /\ Links(node, Live, ch, root, depth) /\ Contents(root, hn, hp, gn, gp, moved)
         /\ Phase(root, hn, hp, gn, gp, moved) /\ Asking(ch, root, depth, hn, hp)
  BY DEF BucketsInv
<1>3. moved = {} /\ walk.unasked = {}
  BY <1>1, <1>2 DEF Phase, Asking
<1>4. /\ Placed(node, root, array, mask, content, hn, hp)
      /\ Covered(node, root, array, content, hn, hp)
      /\ Values(node, content, hn, hp) /\ Hashes(node, content, hn, hp)
  <2>1. content \ {} = content
    OBVIOUS
  <2>2. QED
    BY <1>2, <1>3, <2>1 DEF Contents
<1>5. /\ mask \in Nat /\ array \in 1 .. 2 /\ Live = Buckets(array, mask) /\ mask \in Masks
  BY <1>1, LiveBuckets DEF Basics
<1> DEFINE b == Bucket(array, mask, k)
<1>6. b \in Live /\ b[1] = array
  <2>1. b \in Live
    BY <1>5, BucketOf
  <2>2. QED
    BY <2>1 DEF Bucket
<1>7. /\ op'.pc = "idle" /\ op'.key = Null /\ op'.mask = 0 /\ op'.todo = << >>
      /\ UNCHANGED <<array, mask, nextTarget, walk>> /\ ~Moving'
  BY DEF Insert, NoOp, Op, Moving
<1>8. Live' = Live
  BY <1>1, <1>7 DEF Live, NewArray
<1>9. 0 \in Masks
  BY SmallestMask
<1>10. ASSUME UNCHANGED <<node, chainCount, size, content>>
       PROVE  BucketsInv'
  <2>1. Basics'
    BY <1>1, <1>5, <1>7, <1>9, <1>10 DEF Basics
  <2>2. Contents(root, hn, hp, gn, gp, {})'
    <3>1. content' \ {} = content
      BY <1>10
    <3>2. /\ Placed(node', root, NewArray', op'.mask, {}, gn, gp) /\ Values(node', {}, gn, gp)
          /\ Blank(node', {}, hn, hp)
      BY DEF Placed, Values, Blank
    <3>3. QED
      BY <1>4, <1>7, <1>10, <3>1, <3>2 DEF Contents
  <2>3. Phase(root, hn, hp, gn, gp, {})' /\ Asking(ch, root, depth, hn, hp)'
    BY <1>3, <1>7 DEF Phase, Asking, Moving
  <2>4. Links(node', Live', ch, root, depth) /\ Beyond(node')
    BY <1>1, <1>2, <1>8, <1>10
  <2>5. QED
    BY <2>1, <2>2, <2>3, <2>4 DEF BucketsInv
<1>11. ASSUME Find(node, b, k) = {}, node' \in Put(node, b, k), chainCount' = Count(chainCount, node, b),
              size' = size + 1, content' = content \cup {k}
       PROVE  BucketsInv'
  <2>1. k \notin content
    <3>1. Find(node, b, k) = IF k \in content THEN {<<hn[k], hp[k]>>} ELSE {}
      BY <1>1, <1>2, <1>4, <1>6, FindIs
    <3> HIDE DEF b
    <3>2. QED
      BY <1>11, <3>1
  <2>2. chainCount' \in Nat
    BY <1>1, <1>11 DEF Basics, Count
  <2>3. IsFiniteSet(content') /\ size' = Cardinality(content')
    BY <1>1, <1>11, <2>1, FS_AddElement DEF Basics
  <2>4. Basics'
    <3>1. size' \in Nat /\ content' \subseteq Keys
      BY <1>1, <1>11 DEF Basics
    <3>2. QED
      BY <1>1, <1>5, <1>7, <1>9, <2>2, <2>3, <3>1 DEF Basics
  <2> HIDE DEF b
  <2>5. PICK ch2, root2, depth2, n, p :
           /\ Links(node', Live, ch2, root2, depth2) /\ Beyond(node')
           /\ Added(node, root, node', root2, n, p, b, k)
    BY <1>1, <1>2, <1>6, <1>11, PutAdds
  <2>6. PICK hn2, hp2 :
           /\ Placed(node', root2, array, mask, content \cup {k}, hn2, hp2)
           /\ Covered(node', root2, array, content \cup {k}, hn2, hp2)
           /\ Values(node', content \cup {k}, hn2, hp2)
           /\ Hashes(node', content \cup {k}, hn2, hp2)
    <3> DEFINE fn == [l \in content \cup {k} |-> IF l = k THEN n ELSE hn[l]]
               fp == [l \in content \cup {k} |-> IF l = k THEN p ELSE hp[l]]
    <3>1. b = Bucket(array, mask, k)
      BY DEF b
    <3>2. /\ Placed(node', root2, array, mask, content \cup {k}, fn, fp)
          /\ Covered(node', root2, array, content \cup {k}, fn, fp)
          /\ Values(node', content \cup {k}, fn, fp)
          /\ Hashes(node', content \cup {k}, fn, fp)
      BY <1>4, <2>1, <2>5, <3>1, AddedPlaced
    <3> HIDE DEF fn, fp
    <3>3. QED
      BY <3>2
  <2>7. Contents(root2, hn2, hp2, gn, gp, {})'
    <3>1. content' \ {} = content \cup {k} /\ content' = content \cup {k}
      BY <1>11
    <3>2. /\ Placed(node', root2, NewArray', op'.mask, {}, gn, gp) /\ Values(node', {}, gn, gp)
          /\ Blank(node', {}, hn2, hp2)
      BY DEF Placed, Values, Blank
    <3>3. QED
      BY <1>7, <2>6, <3>1, <3>2 DEF Contents
  <2>8. Phase(root2, hn2, hp2, gn, gp, {})' /\ Asking(ch2, root2, depth2, hn2, hp2)'
    BY <1>3, <1>7 DEF Phase, Asking, Moving
  <2>9. QED
    BY <1>8, <2>4, <2>5, <2>7, <2>8 DEF BucketsInv
<1>12. \/ UNCHANGED <<node, chainCount, size, content>>
       \/ /\ Find(node, b, k) = {} /\ node' \in Put(node, b, k)
          /\ chainCount' = Count(chainCount, node, b)
          /\ size' = size + 1 /\ content' = content \cup {k}
  BY DEF Insert
<1>13. QED
  BY <1>10, <1>11, <1>12

\* A value moves into the new array.
LEMMA MoveValueKeeps ==
  ASSUME BucketChainAssumption, BucketsInv, MoveValue
  PROVE  BucketsInv'
<1>1. Basics /\ Beyond(node) /\ Moving /\ op.pc = "move" /\ op.todo # << >>
  BY DEF BucketsInv, Moving, MoveValue
<1>2. PICK ch, root, depth, hn, hp, gn, gp, moved :
         /\ Links(node, Live, ch, root, depth) /\ Contents(root, hn, hp, gn, gp, moved)
         /\ Phase(root, hn, hp, gn, gp, moved) /\ Asking(ch, root, depth, hn, hp)
  BY DEF BucketsInv
<1>3. /\ Placed(node, root, array, mask, content, hn, hp)
      /\ Covered(node, root, array, content, hn, hp) /\ moved \subseteq content
      /\ Values(node, content \ moved, hn, hp) /\ Hashes(node, content \ moved, hn, hp)
      /\ Blank(node, moved, hn, hp)
      /\ Placed(node, root, NewArray, op.mask, moved, gn, gp) /\ Values(node, moved, gn, gp)
      /\ Covered(node, root, NewArray, moved, gn, gp) /\ Hashes(node, moved, gn, gp)
      /\ Enumerates(op.todo, Homes(content \ moved, hn, hp)) /\ walk.unasked = {}
  BY <1>1, <1>2 DEF Contents, Phase, Asking
<1>4. PICK k \in content \ moved :
         /\ Head(op.todo) = <<hn[k], hp[k]>>
         /\ Enumerates(Tail(op.todo), Homes((content \ moved) \ {k}, hn, hp))
  <2>1. \A i, j \in content \ moved : hn[i] = hn[j] /\ hp[i] = hp[j] => i = j
    BY <1>3 DEF Placed
  <2>2. QED
    BY <1>1, <1>3, <2>1, OthersLeft
<1> DEFINE n == hn[k]
           p == hp[k]
           a == NewArray
           b == Bucket(NewArray, op.mask, k)
<1>5. n \in DOMAIN node /\ p \in 1 .. node[n].count /\ root[n] = Bucket(array, mask, k)
      /\ node[n].vals[p] = k /\ k \in Keys
  BY <1>1, <1>3 DEF Placed, Values, Basics
<1>6. /\ op.mask \in Masks /\ a \in 1 .. 2 /\ a # array
      /\ Live = Buckets(array, mask) \cup Buckets(a, op.mask)
  BY <1>1, LiveBuckets DEF Basics
<1>7. b \in Live /\ b[1] = a
  <2>1. b \in Buckets(a, op.mask)
    BY <1>5, <1>6, BucketOf
  <2>2. QED
    BY <1>6, <2>1 DEF Bucket
<1>8. PICK mem \in Put(node, b, k) : node' = [mem EXCEPT ![n] = SetSlot(@, p, 0, Null)]
  <2>1. Head(op.todo)[1] = n /\ Head(op.todo)[2] = p
    BY <1>4
  <2>2. node[Head(op.todo)[1]].vals[Head(op.todo)[2]] = k
    BY <1>5, <2>1
  <2> HIDE DEF n, p
  <2>3. node' \in {Take(m, Head(op.todo)) : m \in Put(node, b, k)}
    BY <2>2 DEF MoveValue
  <2>4. PICK m \in Put(node, b, k) : node' = Take(m, Head(op.todo))
    BY <2>3
  <2>5. node' = [m EXCEPT ![n] = SetSlot(@, p, 0, Null)]
    BY <2>1, <2>4 DEF Take
  <2>6. QED
    BY <2>5
<1> HIDE DEF n, p, a, b
<1>9. PICK ch2, root2, depth2, e, r :
         /\ Links(mem, Live, ch2, root2, depth2) /\ Beyond(mem)
         /\ Added(node, root, mem, root2, e, r, b, k)
  BY <1>1, <1>2, <1>5, <1>7, <1>8, PutAdds
<1>10. n \in DOMAIN mem /\ p \in 1 .. mem[n].count /\ root2[n] = root[n]
  BY <1>5, <1>9 DEF Added
<1>11. /\ Links(node', Live, ch2, root2, depth2) /\ Beyond(node')
       /\ Rewritten(mem, node', n, p, 0, Null)
  <2> DEFINE mem2 == node'
  <2>1. mem2 = WithSlot(mem, n, p, 0, Null)
    BY <1>8 DEF WithSlot
  <2> HIDE DEF mem2
  <2>2. CanWrite(mem, n, p, 0, Null)
    BY <1>10 DEF CanWrite
  <2>3. Links(mem2, Live, ch2, root2, depth2) /\ Beyond(mem2) /\ Rewritten(mem, mem2, n, p, 0, Null)
    BY <1>9, <2>1, <2>2, SlotWritten
  <2>4. QED
    BY <2>3 DEF mem2
<1> DEFINE gn2  == [l \in moved \cup {k} |-> IF l = k THEN e ELSE gn[l]]
           gp2  == [l \in moved \cup {k} |-> IF l = k THEN r ELSE gp[l]]
           some == (content \ moved) \ {k}
           new  == moved \cup {k}
<1>12. /\ Placed(mem, root2, array, mask, content, hn, hp)
       /\ Covered(mem, root2, array, content, hn, hp)
       /\ Values(mem, some, hn, hp) /\ Hashes(mem, some, hn, hp) /\ Blank(mem, moved, hn, hp)
  <2>1. some \subseteq content /\ Values(node, some, hn, hp) /\ Hashes(node, some, hn, hp)
    BY <1>3 DEF Values, Hashes
  <2> HIDE DEF some
  <2>2. Placed(mem, root2, array, mask, content, hn, hp)
    BY <1>3, <1>9, AddedKeeps
  <2>3. Covered(mem, root2, array, content, hn, hp)
    <3>1. b[1] # array
      BY <1>6, <1>7
    <3>2. QED
      BY <1>3, <1>9, <3>1, AddedElsewhere
  <2>4. Values(mem, some, hn, hp) /\ Hashes(mem, some, hn, hp)
    BY <1>3, <1>9, <2>1, AddedValues
  <2>5. Blank(mem, moved, hn, hp)
    BY <1>3, <1>9, AddedValues
  <2>6. QED
    BY <2>2, <2>3, <2>4, <2>5
<1>13. /\ Placed(mem, root2, a, op.mask, new, gn2, gp2) /\ Covered(mem, root2, a, new, gn2, gp2)
       /\ Values(mem, new, gn2, gp2) /\ Hashes(mem, new, gn2, gp2)
  <2>1. b = Bucket(a, op.mask, k) /\ k \notin moved
    BY DEF a, b
  <2>2. /\ Placed(node, root, a, op.mask, moved, gn, gp) /\ Values(node, moved, gn, gp)
        /\ Covered(node, root, a, moved, gn, gp) /\ Hashes(node, moved, gn, gp)
    BY <1>3 DEF a
  <2>3. QED
    BY <1>9, <2>1, <2>2, AddedPlaced
<1> HIDE DEF gn2, gp2
<1>14. /\ Placed(node', root2, array, mask, content, hn, hp)
       /\ Covered(node', root2, array, content, hn, hp)
       /\ Placed(node', root2, a, op.mask, new, gn2, gp2) /\ Covered(node', root2, a, new, gn2, gp2)
  BY <1>11, <1>12, <1>13, RewrittenPlaced
<1>15. /\ Values(node', some, hn, hp) /\ Hashes(node', some, hn, hp) /\ Blank(node', moved, hn, hp)
  <2>1. some \subseteq content /\ \A l \in some : ~(hn[l] = n /\ hp[l] = p)
    BY <1>3 DEF Placed, n, p
  <2>2. \A l \in moved : ~(hn[l] = n /\ hp[l] = p)
    BY <1>3 DEF Placed, n, p
  <2> HIDE DEF some
  <2>3. Values(node', some, hn, hp) /\ Hashes(node', some, hn, hp)
    BY <1>11, <1>12, <2>1, RewrittenKeeps
  <2>4. Blank(node', moved, hn, hp)
    BY <1>3, <1>11, <1>12, <2>2, RewrittenKeeps
  <2>5. QED
    BY <2>3, <2>4
<1>16. Values(node', new, gn2, gp2) /\ Hashes(node', new, gn2, gp2)
  <2>1. \A l \in new : ~(gn2[l] = n /\ gp2[l] = p)
    <3> SUFFICES ASSUME NEW l \in new PROVE gn2[l] # n
      OBVIOUS
    <3>1. root2[gn2[l]] = Bucket(a, op.mask, l)
      BY <1>13 DEF Placed
    <3>2. root2[gn2[l]][1] = a /\ root2[n][1] = array
      BY <1>5, <1>10, <3>1 DEF Bucket
    <3>3. QED
      BY <1>6, <3>2
  <2> HIDE DEF new
  <2>2. QED
    BY <1>11, <1>13, <2>1, RewrittenKeeps
<1>17. Blank(node', new, hn, hp)
  <2>1. node'[hn[k]].vals[hp[k]] = Null /\ node'[hn[k]].hashs[hp[k]] = 0
    BY <1>11 DEF Rewritten, n, p
  <2>2. QED
    BY <1>15, <2>1 DEF Blank
<1>18. /\ chainCount' \in Nat /\ UNCHANGED <<array, mask, size, nextTarget, walk, content>>
       /\ op'.pc = "move" /\ op'.key = op.key /\ op'.mask = op.mask /\ op'.todo = Tail(op.todo)
  <2>1. chainCount \in Nat /\ \E c : chainCount' = Count(chainCount, node, c)
    BY <1>1 DEF Basics, MoveValue
  <2>2. chainCount' \in Nat
    BY <2>1 DEF Count
  <2>3. QED
    BY <1>1, <2>2 DEF MoveValue, ToDo, Op
<1>19. Tail(op.todo) \in Seq(Nodes \X Nat)
  BY <1>1, HeadTailProperties DEF Basics
<1>20. Basics'
  BY <1>1, <1>18, <1>19 DEF Basics
<1>21. Live' = Live /\ NewArray' = a /\ Moving'
  BY <1>1, <1>18 DEF Live, NewArray, Moving, a
<1>22. content \ new = some /\ new \subseteq content
  BY <1>3
<1> HIDE DEF new, some
<1>23. Contents(root2, hn, hp, gn2, gp2, new)'
  BY <1>14, <1>15, <1>16, <1>17, <1>18, <1>21, <1>22 DEF Contents
<1>24. Phase(root2, hn, hp, gn2, gp2, new)'
  <2>1. Enumerates(op'.todo, Homes(some, hn, hp))
    BY <1>4, <1>18 DEF some
  <2>2. QED
    BY <1>14, <1>16, <1>18, <1>21, <1>22, <2>1 DEF Phase
<1>25. Asking(ch2, root2, depth2, hn, hp)'
  BY <1>3, <1>18 DEF Asking
<1>26. QED
  BY <1>11, <1>20, <1>21, <1>23, <1>24, <1>25 DEF BucketsInv


\* emplace, and what is left of it after a rehash.
LEMMA EmplaceKeeps ==
  ASSUME BucketChainAssumption, BucketsInv, NEW k \in Keys, Emplace(k)
  PROVE  BucketsInv'
<1>1. Basics /\ op.pc = "idle"
  BY DEF BucketsInv, Emplace
<1>2. mask \in Masks /\ mask \in Nat /\ size \in Nat /\ nextTarget \in Nat /\ array \in 0 .. 2
  BY <1>1, MaskIs DEF Basics
<1>3. CASE MustRehash
  <2> DEFINE m == IF size = 0 THEN 0 ELSE 2 * mask + 1
  <2>1. EnterRehash(m, k)
    BY <1>3 DEF Emplace
  <2>2. m \in Masks
    <3>1. mask < MaxMask
      BY <1>3 DEF MustRehash
    <3>2. 2 * mask + 1 \in Masks
      BY <1>2, <3>1, LargerMask
    <3>3. 0 \in Masks
      BY SmallestMask
    <3>4. QED
      BY <3>2, <3>3
  <2> HIDE DEF m
  <2>3. QED
    BY <1>1, <2>1, <2>2, EnterRehashKeeps
<1>4. CASE ~MustRehash
  <2>1. array # 0
    <3> SUFFICES ASSUME array = 0 PROVE FALSE
      OBVIOUS
    <3>1. content = {} /\ mask = 0 /\ nextTarget = 0
      BY <1>1 DEF Basics
    <3>2. mask < MaxMask /\ size >= nextTarget
      BY <1>2, <3>1, MaxMaskType
    <3>3. QED
      BY <1>4, <3>2 DEF MustRehash
  <2>2. Insert(k)
    BY <1>4 DEF Emplace
  <2>3. QED
    BY <1>1, <2>1, <2>2, InsertKeeps
<1>5. QED
  BY <1>3, <1>4

\* After the rehash it waited for, an insertion keeps the invariant.
LEMMA EmplaceGoesOnKeeps ==
  ASSUME BucketChainAssumption, BucketsInv, EmplaceGoesOn
  PROVE  BucketsInv'
<1>1. op.pc = "insert" /\ op.key \in Keys /\ array # 0 /\ Insert(op.key)
  BY DEF BucketsInv, Basics, EmplaceGoesOn
<1>2. QED
  BY <1>1, InsertKeeps

\* A rehash that begins makes an array of empty chains beside the other one.
LEMMA RehashKeeps ==
  ASSUME BucketChainAssumption, BucketsInv, NEW m \in Masks, Rehash(m)
  PROVE  BucketsInv'
<1>1. op.pc = "idle" /\ EnterRehash(m, Null) /\ Null \in Keys \cup {Null}
  BY DEF Rehash
<1>2. QED
  BY <1>1, EnterRehashKeeps

\* The old array is destroyed when all values are in the new one.
LEMMA EndRehashKeeps ==
  ASSUME BucketChainAssumption, BucketsInv, EndRehash
  PROVE  BucketsInv'
<1>1. Basics /\ Beyond(node) /\ Moving /\ op.pc = "move" /\ op.todo = << >>
  BY DEF BucketsInv, Moving, EndRehash
<1>2. PICK ch, root, depth, hn, hp, gn, gp, moved :
         /\ Links(node, Live, ch, root, depth) /\ Contents(root, hn, hp, gn, gp, moved)
         /\ Phase(root, hn, hp, gn, gp, moved) /\ Asking(ch, root, depth, hn, hp)
  BY DEF BucketsInv
<1>3. /\ moved \subseteq content
      /\ Placed(node, root, NewArray, op.mask, moved, gn, gp) /\ Values(node, moved, gn, gp)
      /\ Covered(node, root, NewArray, moved, gn, gp) /\ Hashes(node, moved, gn, gp)
      /\ Enumerates(op.todo, Homes(content \ moved, hn, hp)) /\ walk.unasked = {}
  BY <1>1, <1>2 DEF Contents, Phase, Asking
<1>4. moved = content
  <2>1. content \ moved = {}
    BY <1>1, <1>3, NothingLeft
  <2>2. QED
    BY <1>3, <2>1
<1> DEFINE a == NewArray
           m == op.mask
<1>5. /\ mask \in Nat /\ m \in Masks /\ m \in Nat /\ a \in 1 .. 2 /\ a # array /\ array \in 0 .. 2
      /\ Live = Buckets(array, mask) \cup Buckets(a, m)
  BY <1>1, LiveBuckets DEF Basics
<1>6. /\ node' = Destroy(node, array, mask) /\ array' = a /\ mask' = m
      /\ nextTarget' = (m + 1) * PerBucket
      /\ UNCHANGED <<size, chainCount, walk, content>>
  BY DEF EndRehash
<1>7. /\ op'.pc \in {"idle", "insert"} /\ op'.key \in Keys \cup {Null} /\ op'.mask = 0
      /\ op'.todo = << >> /\ (op'.pc = "insert" => op'.key \in Keys)
  BY <1>1 DEF EndRehash, NoOp, Op, Basics
<1>8. ~Moving' /\ Live' = Buckets(a, m)
  BY <1>6, <1>7 DEF Moving, Live
<1> HIDE DEF a, m
<1>9. \A c \in Buckets(a, m) : c[1] # array
  BY <1>5 DEF Buckets
<1>10. /\ Dropped(node, node', root, array)
       /\ Links(node', Buckets(a, m), ch, root, depth) /\ Beyond(node')
  <2>1. Links(node, Live, ch, root, depth) /\ Beyond(node) /\ array \in 0 .. 2 /\ mask \in Nat
        /\ Live = Buckets(array, mask) \cup Buckets(a, m)
    BY <1>1, <1>2, <1>5
  <2>2. /\ Dropped(node, Destroy(node, array, mask), root, array)
        /\ Links(Destroy(node, array, mask), Buckets(a, m), ch, root, depth)
        /\ Beyond(Destroy(node, array, mask))
    BY <1>9, <2>1, DestroyDrops
  <2>3. QED
    BY <1>6, <2>2
<1>11. /\ Placed(node', root, a, m, content, gn, gp) /\ Covered(node', root, a, content, gn, gp)
       /\ Values(node', content, gn, gp) /\ Hashes(node', content, gn, gp)
  <2>1. /\ Placed(node, root, a, m, content, gn, gp) /\ Covered(node, root, a, content, gn, gp)
        /\ Values(node, content, gn, gp) /\ Hashes(node, content, gn, gp)
    BY <1>3, <1>4 DEF a, m
  <2>2. QED
    BY <1>5, <1>10, <2>1, DroppedKeeps
<1>12. Basics'
  <2>1. array' \in 0 .. 2 /\ array' # 0 /\ mask' \in Masks
    BY <1>5, <1>6
  <2>2. nextTarget' \in Nat
    <3>1. PerBucket \in Nat
      BY DEF BucketChainAssumption
    <3>2. QED
      BY <1>5, <1>6, <3>1
  <2>3. 0 \in Masks
    BY SmallestMask
  <2>4. op'.pc \in {"idle", "move", "back", "insert", "erase_if"} /\ op'.pc # "erase_if"
    BY <1>7
  <2>5. QED
    BY <1>1, <1>6, <1>7, <2>1, <2>2, <2>3, <2>4 DEF Basics
<1>13. Contents(root, gn, gp, hn, hp, {})'
  <2>1. content' \ {} = content
    BY <1>6
  <2>2. /\ Placed(node', root, NewArray', op'.mask, {}, hn, hp) /\ Values(node', {}, hn, hp)
        /\ Blank(node', {}, gn, gp)
    BY DEF Placed, Values, Blank
  <2>3. QED
    BY <1>6, <1>11, <2>1, <2>2 DEF Contents
<1>14. Phase(root, gn, gp, hn, hp, {})' /\ Asking(ch, root, depth, gn, gp)'
  BY <1>3, <1>6, <1>7, <1>8 DEF Phase, Asking, Moving
<1>15. QED
  BY <1>8, <1>10, <1>12, <1>13, <1>14 DEF BucketsInv

\* A dense node cannot be allocated: the values that moved have to go back.
LEMMA MoveFailsKeeps ==
  ASSUME BucketChainAssumption, BucketsInv, MoveFails
  PROVE  BucketsInv'
<1>1. Basics /\ Beyond(node) /\ Moving /\ op.pc = "move"
  BY DEF BucketsInv, Moving, MoveFails
<1>2. PICK ch, root, depth, hn, hp, gn, gp, moved :
         /\ Links(node, Live, ch, root, depth) /\ Contents(root, hn, hp, gn, gp, moved)
         /\ Phase(root, hn, hp, gn, gp, moved) /\ Asking(ch, root, depth, hn, hp)
  BY DEF BucketsInv
<1>3. /\ Placed(node, root, NewArray, op.mask, moved, gn, gp)
      /\ Covered(node, root, NewArray, moved, gn, gp) /\ walk.unasked = {}
  BY <1>1, <1>2 DEF Contents, Phase, Asking
<1>4. /\ op.mask \in Masks /\ NewArray \in 1 .. 2 /\ Buckets(NewArray, op.mask) \subseteq Live
      /\ \A b \in Live : b[1] = NewArray => b \in Buckets(NewArray, op.mask)
  BY <1>1, LiveBuckets DEF Basics
<1>5. Enumerates(Slots(node, NewArray, op.mask), Homes(moved, gn, gp))
  BY <1>2, <1>3, <1>4, SlotsAreHomes
<1>6. /\ UNCHANGED <<node, array, mask, size, nextTarget, chainCount, walk, content>>
      /\ op'.pc = "back" /\ op'.key = op.key /\ op'.mask = op.mask
      /\ op'.todo = Slots(node, NewArray, op.mask)
  BY DEF MoveFails, ToDo, Op
<1>7. op'.todo \in Seq(Nodes \X Nat)
  <2>1. ASSUME NEW l \in moved PROVE <<gn[l], gp[l]>> \in Nodes \X Nat
    <3> DEFINE n == gn[l]
               p == gp[l]
               c == node[n].count
    <3>1. n \in DOMAIN node /\ p \in 1 .. node[n].count
      BY <1>3 DEF Placed
    <3> HIDE DEF n, p
    <3>2. n \in Nodes
      BY <1>2, <3>1 DEF Links
    <3>3. c \in 0 .. Capacity(n) /\ Capacity(n) \in Nat \ {0}
      BY <1>2, <3>1, Place
    <3>4. p \in 1 .. c
      BY <3>1
    <3> HIDE DEF c
    <3>5. p \in Nat
      BY <3>3, <3>4
    <3>6. QED
      BY <3>2, <3>5 DEF n, p
  <2>2. Homes(moved, gn, gp) \subseteq Nodes \X Nat
    BY <2>1 DEF Homes
  <2>3. op'.todo \in Seq(Homes(moved, gn, gp))
    BY <1>5, <1>6 DEF Enumerates
  <2>4. QED
    BY <2>2, <2>3, SeqMonotonic
<1>8. Basics'
  BY <1>1, <1>6, <1>7 DEF Basics
<1>9. Live' = Live /\ NewArray' = NewArray /\ Moving'
  BY <1>1, <1>6 DEF Live, NewArray, Moving
<1>10. Contents(root, hn, hp, gn, gp, moved)'
  BY <1>2, <1>6, <1>9 DEF Contents
<1>11. Phase(root, hn, hp, gn, gp, moved)' /\ Asking(ch, root, depth, hn, hp)'
  BY <1>3, <1>5, <1>6, <1>9 DEF Phase, Asking
<1>12. Links(node', Live', ch, root, depth) /\ Beyond(node')
  BY <1>1, <1>2, <1>6, <1>9
<1>13. QED
  BY <1>8, <1>10, <1>11, <1>12 DEF BucketsInv

\* The new array is destroyed when all values are back.
LEMMA RehashThrowsKeeps ==
  ASSUME BucketChainAssumption, BucketsInv, RehashThrows
  PROVE  BucketsInv'
<1>1. Basics /\ Beyond(node) /\ Moving /\ op.pc = "back" /\ op.todo = << >>
  BY DEF BucketsInv, Moving, RehashThrows
<1>2. PICK ch, root, depth, hn, hp, gn, gp, moved :
         /\ Links(node, Live, ch, root, depth) /\ Contents(root, hn, hp, gn, gp, moved)
         /\ Phase(root, hn, hp, gn, gp, moved) /\ Asking(ch, root, depth, hn, hp)
  BY DEF BucketsInv
<1>3. moved = {} /\ walk.unasked = {}
  <2>1. Enumerates(<< >>, Homes(moved, gn, gp)) /\ walk.unasked = {}
    BY <1>1, <1>2 DEF Phase, Asking
  <2>2. QED
    BY <2>1, NothingLeft
<1>4. /\ Placed(node, root, array, mask, content, hn, hp)
      /\ Covered(node, root, array, content, hn, hp)
      /\ Values(node, content, hn, hp) /\ Hashes(node, content, hn, hp)
  <2>1. content \ {} = content
    OBVIOUS
  <2>2. QED
    BY <1>2, <1>3, <2>1 DEF Contents
<1> DEFINE a == NewArray
           m == op.mask
<1>5. /\ m \in Nat /\ a \in 1 .. 2 /\ a # array /\ a \in 0 .. 2
      /\ Live = Buckets(a, m) \cup Buckets(array, mask)
  BY <1>1, LiveBuckets
<1>6. /\ node' = Destroy(node, a, m) /\ UNCHANGED <<array, mask, size, nextTarget, chainCount, walk, content>>
      /\ op'.pc = "idle" /\ op'.key = Null /\ op'.mask = 0 /\ op'.todo = << >>
  BY DEF RehashThrows, NoOp, Op
<1>7. ~Moving' /\ Live' = Buckets(array, mask)
  BY <1>6 DEF Moving, Live
<1> HIDE DEF a, m
<1>8. \A c \in Buckets(array, mask) : c[1] # a
  BY <1>5 DEF Buckets
<1>9. /\ Dropped(node, node', root, a)
      /\ Links(node', Buckets(array, mask), ch, root, depth) /\ Beyond(node')
  <2>1. Links(node, Live, ch, root, depth) /\ Beyond(node) /\ a \in 0 .. 2 /\ m \in Nat
        /\ Live = Buckets(a, m) \cup Buckets(array, mask)
    BY <1>1, <1>2, <1>5
  <2>2. /\ Dropped(node, Destroy(node, a, m), root, a)
        /\ Links(Destroy(node, a, m), Buckets(array, mask), ch, root, depth)
        /\ Beyond(Destroy(node, a, m))
    BY <1>8, <2>1, DestroyDrops
  <2>3. QED
    BY <1>6, <2>2
<1>10. /\ Placed(node', root, array, mask, content, hn, hp)
       /\ Covered(node', root, array, content, hn, hp)
       /\ Values(node', content, hn, hp) /\ Hashes(node', content, hn, hp)
  BY <1>4, <1>5, <1>9, DroppedKeeps
<1>11. Basics'
  <2>1. 0 \in Masks
    BY SmallestMask
  <2>2. QED
    BY <1>1, <1>6, <2>1 DEF Basics
<1>12. Contents(root, hn, hp, gn, gp, {})'
  <2>1. content' \ {} = content
    BY <1>6
  <2>2. /\ Placed(node', root, NewArray', op'.mask, {}, gn, gp) /\ Values(node', {}, gn, gp)
        /\ Blank(node', {}, hn, hp)
    BY DEF Placed, Values, Blank
  <2>3. QED
    BY <1>6, <1>10, <2>1, <2>2 DEF Contents
<1>13. Phase(root, hn, hp, gn, gp, {})' /\ Asking(ch, root, depth, hn, hp)'
  BY <1>3, <1>6, <1>7 DEF Phase, Asking, Moving
<1>14. QED
  BY <1>7, <1>9, <1>11, <1>12, <1>13 DEF BucketsInv

\* clear
LEMMA ClearKeeps ==
  ASSUME BucketChainAssumption, BucketsInv, Clear
  PROVE  BucketsInv'
<1>1. Basics /\ Beyond(node) /\ ~Moving
  BY DEF BucketsInv, Moving, Clear
<1>2. PICK ch, root, depth, hn, hp, gn, gp, moved :
         /\ Links(node, Live, ch, root, depth) /\ Contents(root, hn, hp, gn, gp, moved)
         /\ Phase(root, hn, hp, gn, gp, moved) /\ Asking(ch, root, depth, hn, hp)
  BY DEF BucketsInv
<1>3. op.pc = "idle" /\ walk.unasked = {}
  BY <1>2 DEF Asking, Clear
<1>4. mask \in Nat /\ array \in 0 .. 2 /\ Live = Buckets(array, mask) \cup {}
  BY <1>1, LiveBuckets DEF Basics
<1>5. /\ node' = Destroy(node, array, mask) /\ array' = 0 /\ mask' = 0 /\ size' = 0
      /\ nextTarget' = 0 /\ content' = {} /\ UNCHANGED <<chainCount, op, walk>>
  BY DEF Clear
<1>6. ~Moving' /\ Live' = {}
  BY <1>3, <1>5 DEF Moving, Live, Buckets
<1>7. \A c \in {} : c[1] # array
  OBVIOUS
<1>8. Links(node', {}, ch, root, depth) /\ Beyond(node') /\ Dropped(node, node', root, array)
  <2>1. /\ Dropped(node, Destroy(node, array, mask), root, array)
        /\ Links(Destroy(node, array, mask), {}, ch, root, depth)
        /\ Beyond(Destroy(node, array, mask))
    BY <1>1, <1>2, <1>4, <1>7, DestroyDrops
  <2>2. QED
    BY <1>5, <2>1
<1>9. Basics'
  <2>1. 0 \in Masks
    BY SmallestMask
  <2>2. IsFiniteSet({}) /\ Cardinality({}) = 0
    BY FS_EmptySet
  <2>3. QED
    BY <1>1, <1>3, <1>5, <2>1, <2>2 DEF Basics
<1>10. ASSUME NEW n \in DOMAIN node' PROVE FALSE
  BY <1>8 DEF Links, Numbered
<1>11. Contents(root, hn, hp, gn, gp, {})'
  <2>1. /\ Placed(node', root, 0, 0, {}, hn, hp) /\ Values(node', {}, hn, hp)
        /\ Hashes(node', {}, hn, hp) /\ Covered(node', root, 0, {}, hn, hp)
        /\ Blank(node', {}, hn, hp)
        /\ Placed(node', root, NewArray', op'.mask, {}, gn, gp) /\ Values(node', {}, gn, gp)
    BY <1>10 DEF Placed, Values, Blank, Hashes, Covered
  <2>2. content' \ {} = {}
    BY <1>5
  <2>3. QED
    BY <1>5, <2>1, <2>2 DEF Contents
<1>12. Phase(root, hn, hp, gn, gp, {})' /\ Asking(ch, root, depth, hn, hp)'
  BY <1>3, <1>5, <1>6 DEF Phase, Asking, Moving
<1>13. QED
  BY <1>6, <1>8, <1>9, <1>11, <1>12 DEF BucketsInv

-----------------------------------------------------------------------------
\* The free slot that move_back takes is one of a value that moved.
FreeOf(n) == {<<n, p>> : p \in {q \in 1 .. Capacity(n) : node[n].hashs[q] = 0}}

\* The first free slot of a bucket is one whose hash is zero.
LEMMA FirstFree ==
  ASSUME BucketChainAssumption, NEW B, NEW ch, NEW root, NEW depth,
         Links(node, B, ch, root, depth), NEW b \in B,
         NEW n \in DOMAIN node, root[n] = b, NEW p \in 1 .. node[n].count, node[n].hashs[p] = 0,
         NEW f \in FreeSlots(b), \A g \in FreeSlots(b) : f[2] <= g[2]
  PROVE  /\ f[1] \in DOMAIN node /\ root[f[1]] = b /\ f[2] \in 1 .. node[f[1]].count
         /\ node[f[1]].hashs[f[2]] = 0
<1> DEFINE c    == Chain(node, b)
           h    == Height(ch, b)
           Leads(j) == j \in DOMAIN c /\ FreeOf(c[j]) # {} /\ \A l \in 1 .. j - 1 : FreeOf(c[l]) = {}
           i    == CHOOSE j : Leads(j)
<1>1. b \in DOMAIN node /\ root[b] = b /\ depth[b] = 1 /\ h \in Nat \ {0}
  BY First
<1>2. DOMAIN c = 1 .. h
  <2>1. DOMAIN c = 1 .. h - 1 + 1
    BY <1>1, ChainOf
  <2> HIDE DEF h, c
  <2>2. QED
    BY <1>1, <2>1
<1>3. ASSUME NEW j \in DOMAIN c
      PROVE  c[j] \in DOMAIN node /\ root[c[j]] = b /\ depth[c[j]] = j
  <2>1. c[j] \in DOMAIN node /\ root[c[j]] = b /\ depth[c[j]] = 1 + j - 1
    BY <1>1, ChainOf
  <2> HIDE DEF c, h
  <2>2. j \in 1 .. h
    BY <1>2
  <2>3. QED
    BY <1>1, <2>1, <2>2
<1>4. depth[n] \in 1 .. h /\ c[depth[n]] = n
  <2>1. depth[n] \in 1 .. h
    BY Place
  <2> HIDE DEF c, h
  <2>2. depth[n] \in DOMAIN c
    BY <1>2, <2>1
  <2>3. c[depth[n]] \in DOMAIN node /\ root[c[depth[n]]] = root[n] /\ depth[c[depth[n]]] = depth[n]
    BY <1>3, <2>2
  <2>4. c[depth[n]] = n
    BY <2>3, OnePlace
  <2>5. QED
    BY <2>1, <2>4
<1>5. node[n].count \in 0 .. Capacity(n) /\ Capacity(n) \in Nat \ {0}
  BY Place
<1>6. p \in 1 .. Capacity(n) /\ <<n, p>> \in FreeOf(n)
  <2> DEFINE k == node[n].count
  <2>1. p \in 1 .. k /\ k \in 0 .. Capacity(n)
    BY <1>5
  <2> HIDE DEF k
  <2>2. p \in 1 .. Capacity(n)
    BY <1>5, <2>1
  <2>3. QED
    BY <2>2 DEF FreeOf
<1> HIDE DEF c, h
<1>7. \E j : Leads(j)
  <2> DEFINE S == {j \in 1 .. h : FreeOf(c[j]) # {}}
  <2>1. S \in SUBSET Nat /\ depth[n] \in S
    BY <1>1, <1>4, <1>6
  <2> HIDE DEF S
  <2>2. PICK j \in S : \A l \in S : j <= l
    BY <2>1, LeastNumber
  <2>3. j \in 1 .. h /\ FreeOf(c[j]) # {}
    BY DEF S
  <2>4. ASSUME NEW l \in 1 .. j - 1 PROVE FreeOf(c[l]) = {}
    <3>1. l \in 1 .. h /\ ~(j <= l)
      BY <1>1, <2>3
    <3>2. l \notin S
      BY <2>2, <3>1
    <3>3. QED
      BY <3>1, <3>2 DEF S
  <2>5. Leads(j)
    BY <1>2, <2>3, <2>4
  <2>6. QED
    BY <2>5
<1>8. Leads(i)
  <2> HIDE DEF Leads
  <2>1. QED
    BY <1>7
<1>9. FreeSlots(b) = FreeOf(c[i])
  <2>1. \A m : FreeOf(m) = {<<m, q>> : q \in {r \in 1 .. Capacity(m) : node[m].hashs[r] = 0}}
    BY DEF FreeOf
  <2> DEFINE e == CHOOSE j \in DOMAIN c : FreeOf(c[j]) # {} /\ \A l \in 1 .. j - 1 : FreeOf(c[l]) = {}
  <2>2. FreeSlots(b) = FreeOf(c[e])
    BY Zenon DEF FreeSlots, FreeOf, c
  <2>3. e = i
    BY Zenon
  <2>4. QED
    BY <2>2, <2>3
<1>10. i \in 1 .. h /\ \A l \in 1 .. i - 1 : FreeOf(c[l]) = {}
  BY <1>2, <1>8
<1> DEFINE d == c[i]
<1>11. d \in DOMAIN node /\ root[d] = b /\ depth[d] = i
  BY <1>2, <1>3, <1>10
<1> HIDE DEF Leads, i
<1>12. PICK q \in 1 .. Capacity(d) : f = <<d, q>> /\ node[d].hashs[q] = 0
  BY <1>9 DEF FreeOf
<1>13. i <= depth[n]
  <2> SUFFICES ASSUME ~(i <= depth[n]) PROVE FALSE
    OBVIOUS
  <2>1. depth[n] \in 1 .. i - 1
    BY <1>1, <1>4, <1>10
  <2>2. QED
    BY <1>4, <1>6, <1>10, <2>1
<1>14. q \in 1 .. node[d].count
  <2>1. node[d].count \in 0 .. Capacity(d) /\ Capacity(d) \in Nat \ {0}
    BY <1>11, Place
  <2>2. i < h => node[d].count = Capacity(d)
    BY <1>11, Neighbours DEF h
  <2>3. CASE i < h
    BY <2>2, <2>3
  <2>4. CASE i = h
    <3>1. i = depth[n]
      BY <1>1, <1>4, <1>10, <1>13, <2>4
    <3>2. d = n
      BY <1>4, <3>1
    <3>3. f[2] = q /\ q <= p
      <4>1. <<n, p>> \in FreeSlots(b)
        BY <1>6, <1>9, <3>2
      <4>2. f[2] <= <<n, p>>[2]
        BY <4>1
      <4>3. QED
        BY <1>12, <4>2
    <3> DEFINE k == node[d].count
    <3>4. k \in 0 .. Capacity(d) /\ p \in 1 .. k
      BY <2>1, <3>2
    <3> HIDE DEF k, d
    <3>5. q \in 1 .. k
      BY <2>1, <3>3, <3>4
    <3>6. QED
      BY <3>5 DEF k
  <2>5. QED
    BY <1>1, <1>10, <2>3, <2>4
<1>15. QED
  BY <1>11, <1>12, <1>14

(***************************************************************************)
(* The keys of an array, of which those of moved have left a blank slot;   *)
(* two of these can exchange their slots.                                  *)
(***************************************************************************)
Partly(mem, root, a, m, keys, moved, hn, hp) ==
  /\ Placed(mem, root, a, m, keys, hn, hp) /\ Covered(mem, root, a, keys, hn, hp)
  /\ Values(mem, keys \ moved, hn, hp) /\ Hashes(mem, keys \ moved, hn, hp)
  /\ Blank(mem, moved, hn, hp)

\* Of two moved keys of one bucket, either may have the slot of the other.
LEMMA Exchange ==
  ASSUME NEW mem, NEW root, NEW a, NEW m, NEW keys, NEW moved, moved \subseteq keys, NEW hn, NEW hp,
         Partly(mem, root, a, m, keys, moved, hn, hp),
         NEW k \in moved, NEW j \in moved, Bucket(a, m, j) = Bucket(a, m, k)
  PROVE  \E hn2, hp2 : /\ Partly(mem, root, a, m, keys, moved, hn2, hp2)
                       /\ hn2[k] = hn[j] /\ hp2[k] = hp[j]
<1> DEFINE o(l) == IF l = k THEN j ELSE IF l = j THEN k ELSE l
           hn2  == [l \in keys |-> hn[o(l)]]
           hp2  == [l \in keys |-> hp[o(l)]]
<1>1. \A l \in keys : o(l) \in keys /\ Bucket(a, m, o(l)) = Bucket(a, m, l) /\ (l \in moved <=> o(l) \in moved)
  OBVIOUS
<1>2. \A l \in keys : o(o(l)) = l
  OBVIOUS
<1>3. \A l \in keys \ moved : o(l) = l
  OBVIOUS
<1>4. o(k) = j /\ k \in keys
  OBVIOUS
<1> HIDE DEF o
<1>5. \A l \in keys : hn2[l] = hn[o(l)] /\ hp2[l] = hp[o(l)]
  OBVIOUS
<1>6. hn2[k] = hn[j] /\ hp2[k] = hp[j]
  BY <1>4, <1>5
<1> HIDE DEF hn2, hp2
<1>7. Placed(mem, root, a, m, keys, hn2, hp2)
  <2>1. Placed(mem, root, a, m, keys, hn, hp)
    BY DEF Partly
  <2>2. ASSUME NEW l \in keys
        PROVE  /\ hn2[l] \in DOMAIN mem /\ hp2[l] \in 1 .. mem[hn2[l]].count
               /\ root[hn2[l]] = Bucket(a, m, l)
    <3>1. o(l) \in keys /\ Bucket(a, m, o(l)) = Bucket(a, m, l)
      BY <1>1
    <3>2. hn2[l] = hn[o(l)] /\ hp2[l] = hp[o(l)]
      BY <1>5
    <3>3. QED
      BY <2>1, <3>1, <3>2 DEF Placed
  <2>3. ASSUME NEW l \in keys, NEW i \in keys, hn2[l] = hn2[i], hp2[l] = hp2[i]
        PROVE  l = i
    <3>1. hn[o(l)] = hn[o(i)] /\ hp[o(l)] = hp[o(i)] /\ o(l) \in keys /\ o(i) \in keys
      BY <1>1, <1>5, <2>3
    <3>2. o(l) = o(i)
      BY <2>1, <3>1 DEF Placed
    <3>3. QED
      BY <1>2, <3>2
  <2>4. QED
    BY <2>2, <2>3 DEF Placed
<1>8. Covered(mem, root, a, keys, hn2, hp2)
  <2> SUFFICES ASSUME NEW n \in DOMAIN mem, root[n][1] = a, NEW p \in 1 .. mem[n].count
               PROVE  \E l \in keys : hn2[l] = n /\ hp2[l] = p
    BY DEF Covered
  <2>1. PICK l \in keys : hn[l] = n /\ hp[l] = p
    BY DEF Partly, Covered
  <2>2. o(l) \in keys /\ o(o(l)) = l
    BY <1>1, <1>2
  <2>3. hn2[o(l)] = n /\ hp2[o(l)] = p
    BY <1>5, <2>1, <2>2
  <2>4. QED
    BY <2>2, <2>3
<1>9. Values(mem, keys \ moved, hn2, hp2) /\ Hashes(mem, keys \ moved, hn2, hp2)
  BY <1>3, <1>5 DEF Partly, Values, Hashes
<1>10. Blank(mem, moved, hn2, hp2)
  BY <1>1, <1>5 DEF Partly, Blank
<1>11. QED
  BY <1>6, <1>7, <1>8, <1>9, <1>10 DEF Partly

\* move_back moves one value.
LEMMA MoveBackKeeps ==
  ASSUME BucketChainAssumption, BucketsInv, MoveBack
  PROVE  BucketsInv'
<1>1. Basics /\ Beyond(node) /\ Moving /\ op.pc = "back" /\ op.todo # << >>
  BY DEF BucketsInv, Moving, MoveBack
<1>2. PICK ch, root, depth, hn, hp, gn, gp, moved :
         /\ Links(node, Live, ch, root, depth) /\ Contents(root, hn, hp, gn, gp, moved)
         /\ Phase(root, hn, hp, gn, gp, moved) /\ Asking(ch, root, depth, hn, hp)
  BY DEF BucketsInv
<1>3. /\ moved \subseteq content /\ Partly(node, root, array, mask, content, moved, hn, hp)
      /\ Placed(node, root, NewArray, op.mask, moved, gn, gp) /\ Values(node, moved, gn, gp)
      /\ Enumerates(op.todo, Homes(moved, gn, gp)) /\ walk.unasked = {}
  BY <1>1, <1>2 DEF Contents, Phase, Asking, Partly
<1>4. PICK k \in moved :
         /\ Head(op.todo) = <<gn[k], gp[k]>>
         /\ Enumerates(Tail(op.todo), Homes(moved \ {k}, gn, gp))
  <2>1. \A i, j \in moved : gn[i] = gn[j] /\ gp[i] = gp[j] => i = j
    BY <1>3 DEF Placed
  <2>2. QED
    BY <1>1, <1>3, <2>1, OthersLeft
<1> DEFINE n == gn[k]
           p == gp[k]
           a == NewArray
           b == Bucket(array, mask, k)
<1>5. n \in DOMAIN node /\ p \in 1 .. node[n].count /\ root[n] = Bucket(a, op.mask, k)
      /\ node[n].vals[p] = k /\ k \in Keys /\ k \in content
  BY <1>1, <1>3 DEF Placed, Values, Basics
<1>6. /\ op.mask \in Masks /\ a \in 1 .. 2 /\ a # array /\ array \in 1 .. 2 /\ mask \in Masks
      /\ Buckets(array, mask) \subseteq Live
  <2>1. op.mask \in Masks /\ a \in 1 .. 2 /\ a # array /\ Buckets(array, mask) \subseteq Live
    BY <1>1, LiveBuckets DEF Basics
  <2>2. array \in 0 .. 2 /\ mask \in Masks /\ array # 0
    BY <1>1, <1>5 DEF Basics
  <2>3. QED
    BY <2>1, <2>2
<1>7. b \in Live /\ b[1] = array /\ root[n][1] = a
  <2>1. b \in Buckets(array, mask)
    BY <1>5, <1>6, BucketOf
  <2>2. QED
    BY <1>5, <1>6, <2>1 DEF Bucket
<1>8. PICK f \in FreeSlots(b) :
         /\ \A g \in FreeSlots(b) : f[2] <= g[2]
         /\ node' = Write(Cleared(node, <<n, p>>), f[1], f[2], k)
  <2>1. node[Head(op.todo)[1]].vals[Head(op.todo)[2]] = k
    BY <1>4, <1>5
  <2>2. QED
    BY <1>4, <2>1 DEF MoveBack
<1> DEFINE d == f[1]
           q == f[2]
<1>9. d \in DOMAIN node /\ root[d] = b /\ q \in 1 .. node[d].count /\ node[d].hashs[q] = 0
  <2>1. /\ hn[k] \in DOMAIN node /\ root[hn[k]] = b /\ hp[k] \in 1 .. node[hn[k]].count
        /\ node[hn[k]].hashs[hp[k]] = 0
    BY <1>3, <1>5 DEF Partly, Placed, Blank
  <2> HIDE DEF b
  <2>2. QED
    BY <1>2, <1>7, <1>8, <2>1, FirstFree
<1> HIDE DEF n, p, a, b, d, q
<1>10. PICK j \in moved : hn[j] = d /\ hp[j] = q
  <2>1. PICK l \in content : hn[l] = d /\ hp[l] = q
    BY <1>3, <1>7, <1>9 DEF Partly, Covered
  <2>2. l \in moved
    <3> SUFFICES ASSUME l \notin moved PROVE FALSE
      OBVIOUS
    <3>1. l \in content \ moved
      BY <2>1
    <3>2. node[hn[l]].hashs[hp[l]] = TinyOf[l] /\ l \in Keys
      BY <1>1, <1>3, <3>1 DEF Partly, Hashes, Basics
    <3>3. TinyOf[l] # 0
      BY <3>2, TinyType
    <3>4. QED
      BY <1>9, <2>1, <3>2, <3>3
  <2>3. QED
    BY <2>1, <2>2
<1>11. PICK hn2, hp2 :
         /\ Partly(node, root, array, mask, content, moved, hn2, hp2) /\ hn2[k] = d /\ hp2[k] = q
  <2>1. Bucket(array, mask, j) = Bucket(array, mask, k)
    <3>1. root[hn[j]] = Bucket(array, mask, j)
      BY <1>3, <1>10 DEF Partly, Placed
    <3>2. QED
      BY <1>9, <1>10, <3>1 DEF b
  <2>2. \E fn, fp : /\ Partly(node, root, array, mask, content, moved, fn, fp)
                    /\ fn[k] = hn[j] /\ fp[k] = hp[j]
    BY <1>3, <2>1, Exchange
  <2>3. QED
    BY <1>10, <2>2
<1> DEFINE h    == node[n].hashs[p]
           mem  == WithSlot(node, n, p, h, Null)
           some == moved \ {k}
           back == content \ moved
<1>12. /\ Placed(node, root, array, mask, content, hn2, hp2)
       /\ Covered(node, root, array, content, hn2, hp2)
       /\ Values(node, back, hn2, hp2) /\ Hashes(node, back, hn2, hp2) /\ Blank(node, some, hn2, hp2)
       /\ Placed(node, root, a, op.mask, some, gn, gp) /\ Values(node, some, gn, gp)
       /\ some \subseteq content /\ back \subseteq content
  BY <1>3, <1>11 DEF Partly, Blank, Placed, Values, a
<1>13. /\ \A l \in content : ~(hn2[l] = n /\ hp2[l] = p)
       /\ \A l \in some : ~(gn[l] = n /\ gp[l] = p) /\ ~(gn[l] = d /\ gp[l] = q)
       /\ \A l \in back \cup some : ~(hn2[l] = d /\ hp2[l] = q)
  <2>1. ASSUME NEW l \in content PROVE hn2[l] # n
    <3>1. root[hn2[l]] = Bucket(array, mask, l)
      BY <1>12 DEF Placed
    <3>2. root[hn2[l]][1] = array
      BY <3>1 DEF Bucket
    <3>3. QED
      BY <1>6, <1>7, <3>2
  <2>2. ASSUME NEW l \in some PROVE ~(gn[l] = n /\ gp[l] = p)
    BY <1>3 DEF Placed, n, p
  <2>3. ASSUME NEW l \in some PROVE gn[l] # d
    <3>1. root[gn[l]] = Bucket(a, op.mask, l)
      BY <1>12 DEF Placed
    <3>2. root[gn[l]][1] = a
      BY <3>1 DEF Bucket
    <3>3. QED
      BY <1>6, <1>7, <1>9, <3>2
  <2>4. ASSUME NEW l \in back \cup some PROVE ~(hn2[l] = d /\ hp2[l] = q)
    BY <1>3, <1>5, <1>11, <1>12 DEF Placed
  <2>5. QED
    BY <2>1, <2>2, <2>3, <2>4
<1>14. k \in content /\ TinyOf[k] \in 0 .. 255 /\ content \ some = back \cup {k}
  BY <1>3, <1>5, TinyType
<1>15. /\ Links(mem, Live, ch, root, depth) /\ Beyond(mem) /\ Rewritten(node, mem, n, p, h, Null)
  <2>1. h \in 0 .. 255
    <3>1. node[n] \in NodeType(n) /\ node[n].count \in 0 .. Capacity(n) /\ Capacity(n) \in Nat \ {0}
      BY <1>2, <1>5, Place
    <3> DEFINE c == node[n].count
    <3>2. p \in 1 .. c
      BY <1>5
    <3>3. c \in 0 .. Capacity(n)
      BY <3>1
    <3> HIDE DEF c
    <3>4. p \in 1 .. Capacity(n)
      BY <3>1, <3>2, <3>3
    <3>5. node[n].hashs \in [1 .. Capacity(n) -> 0 .. 255]
      BY <3>1 DEF NodeType
    <3>6. QED
      BY <3>4, <3>5
  <2>2. CanWrite(node, n, p, h, Null)
    BY <1>5, <2>1 DEF CanWrite
  <2> HIDE DEF h, mem
  <2>3. mem = WithSlot(node, n, p, h, Null)
    BY DEF mem
  <2>4. QED
    BY <1>1, <1>2, <2>2, <2>3, SlotWritten
<1>16. node' = WithSlot(mem, d, q, TinyOf[k], k)
  BY <1>8 DEF Write, Cleared, WithSlot, d, q
<1> HIDE DEF h, mem
<1>17. /\ Links(node', Live, ch, root, depth) /\ Beyond(node')
       /\ Rewritten(mem, node', d, q, TinyOf[k], k)
  <2> DEFINE mem2 == node'
  <2>1. mem2 = WithSlot(mem, d, q, TinyOf[k], k)
    BY <1>16
  <2> HIDE DEF mem2
  <2>2. CanWrite(mem, d, q, TinyOf[k], k)
    <3>1. d \in DOMAIN mem /\ q \in 1 .. mem[d].count
      BY <1>9, <1>15 DEF Rewritten
    <3>2. QED
      BY <1>5, <1>14, <3>1 DEF CanWrite
  <2>3. Links(mem2, Live, ch, root, depth) /\ Beyond(mem2) /\ Rewritten(mem, mem2, d, q, TinyOf[k], k)
    BY <1>15, <2>1, <2>2, SlotWritten
  <2>4. QED
    BY <2>3 DEF mem2
<1> HIDE DEF some, back
<1>18. /\ Placed(mem, root, array, mask, content, hn2, hp2) /\ Covered(mem, root, array, content, hn2, hp2)
       /\ Values(mem, back, hn2, hp2) /\ Hashes(mem, back, hn2, hp2) /\ Blank(mem, some, hn2, hp2)
       /\ Placed(mem, root, a, op.mask, some, gn, gp) /\ Values(mem, some, gn, gp)
  <2>1. /\ Placed(mem, root, array, mask, content, hn2, hp2) /\ Covered(mem, root, array, content, hn2, hp2)
        /\ Placed(mem, root, a, op.mask, some, gn, gp)
    BY <1>12, <1>15, RewrittenPlaced
  <2>2. Values(mem, back, hn2, hp2) /\ Hashes(mem, back, hn2, hp2)
    <3>1. \A l \in back : ~(hn2[l] = n /\ hp2[l] = p)
      BY <1>12, <1>13
    <3>2. QED
      BY <1>12, <1>15, <3>1, RewrittenKeeps
  <2>3. Blank(mem, some, hn2, hp2)
    <3>1. \A l \in some : ~(hn2[l] = n /\ hp2[l] = p)
      BY <1>12, <1>13
    <3>2. QED
      BY <1>12, <1>15, <3>1, RewrittenKeeps
  <2>4. Values(mem, some, gn, gp)
    <3>1. \A l \in some : ~(gn[l] = n /\ gp[l] = p)
      BY <1>13
    <3>2. QED
      BY <1>12, <1>15, <3>1, RewrittenKeeps
  <2>5. QED
    BY <2>1, <2>2, <2>3, <2>4
<1>19. /\ Placed(node', root, array, mask, content, hn2, hp2) /\ Covered(node', root, array, content, hn2, hp2)
       /\ Values(node', back, hn2, hp2) /\ Hashes(node', back, hn2, hp2) /\ Blank(node', some, hn2, hp2)
       /\ Placed(node', root, a, op.mask, some, gn, gp) /\ Values(node', some, gn, gp)
  <2>1. /\ Placed(node', root, array, mask, content, hn2, hp2) /\ Covered(node', root, array, content, hn2, hp2)
        /\ Placed(node', root, a, op.mask, some, gn, gp)
    BY <1>17, <1>18, RewrittenPlaced
  <2>2. Values(node', back, hn2, hp2) /\ Hashes(node', back, hn2, hp2)
    <3>1. \A l \in back : ~(hn2[l] = d /\ hp2[l] = q)
      BY <1>13
    <3>2. QED
      BY <1>12, <1>17, <1>18, <3>1, RewrittenKeeps
  <2>3. Blank(node', some, hn2, hp2)
    <3>1. \A l \in some : ~(hn2[l] = d /\ hp2[l] = q)
      BY <1>13
    <3>2. QED
      BY <1>12, <1>17, <1>18, <3>1, RewrittenKeeps
  <2>4. Values(node', some, gn, gp)
    <3>1. \A l \in some : ~(gn[l] = d /\ gp[l] = q)
      BY <1>13
    <3>2. QED
      BY <1>17, <1>18, <3>1, RewrittenKeeps
  <2>5. QED
    BY <2>1, <2>2, <2>3, <2>4
<1>20. Values(node', content \ some, hn2, hp2) /\ Hashes(node', content \ some, hn2, hp2)
  <2>1. node'[hn2[k]].vals[hp2[k]] = k /\ node'[hn2[k]].hashs[hp2[k]] = TinyOf[k]
    BY <1>11, <1>17 DEF Rewritten
  <2>2. Values(node', back \cup {k}, hn2, hp2) /\ Hashes(node', back \cup {k}, hn2, hp2)
    BY <1>19, <2>1 DEF Values, Hashes
  <2>3. QED
    BY <1>14, <2>2
<1>21. /\ UNCHANGED <<array, mask, size, nextTarget, chainCount, walk, content>>
       /\ op'.pc = "back" /\ op'.key = op.key /\ op'.mask = op.mask /\ op'.todo = Tail(op.todo)
  BY <1>1 DEF MoveBack, ToDo, Op
<1>22. Basics'
  <2>1. Tail(op.todo) \in Seq(Nodes \X Nat)
    BY <1>1, HeadTailProperties DEF Basics
  <2>2. QED
    BY <1>1, <1>21, <2>1 DEF Basics
<1>23. Live' = Live /\ NewArray' = a /\ Moving'
  BY <1>1, <1>21 DEF Live, NewArray, Moving, a
<1>24. Contents(root, hn2, hp2, gn, gp, some)'
  <2>1. some' = some
    BY DEF some
  <2>2. QED
    BY <1>12, <1>19, <1>20, <1>21, <1>23, <2>1 DEF Contents
<1>25. Phase(root, hn2, hp2, gn, gp, some)' /\ Asking(ch, root, depth, hn2, hp2)'
  <2>1. Enumerates(op'.todo, Homes(some, gn, gp)) /\ some' = some
    BY <1>4, <1>21 DEF some
  <2>2. QED
    BY <1>3, <1>21, <1>23, <2>1 DEF Phase, Asking
<1>26. QED
  BY <1>17, <1>22, <1>23, <1>24, <1>25 DEF BucketsInv

-----------------------------------------------------------------------------
\* From mem to mem2 the slot of the key k has gone.
SlotErased(mem, mem2, B, root, depth, a, m, keys, k, hn, hp) ==
  \E ch2, hn2, hp2 :
    /\ Links(mem2, B, ch2, root, depth) /\ Beyond(mem2)
    /\ Placed(mem2, root, a, m, keys \ {k}, hn2, hp2)
    /\ Covered(mem2, root, a, keys \ {k}, hn2, hp2)
    /\ Values(mem2, keys \ {k}, hn2, hp2) /\ Hashes(mem2, keys \ {k}, hn2, hp2)
    /\ \A l \in keys \ {k} : /\ root[hn2[l]] = root[hn[l]]
                             /\ Before(root, depth, hn[k], hp[k], hn[l], hp[l]) <=>
                                  Before(root, depth, hn[k], hp[k], hn2[l], hp2[l])
    /\ DOMAIN mem2 \subseteq DOMAIN mem
    /\ hn[k] \in DOMAIN mem2 => mem2[hn[k]].left = mem[hn[k]].left /\ hp[k] - 1 <= mem2[hn[k]].count
    /\ hn[k] \notin DOMAIN mem2 => /\ hp[k] = 1 /\ hn[k] \in Addresses /\ mem[hn[k]].left # Null
                                   /\ LastOf(ch2, root[hn[k]]) = mem[hn[k]].left

\* An erasure in terms of the homes of the keys.
LEMMA EraseIs ==
  ASSUME BucketChainAssumption, NEW mem, NEW B, NEW ch, NEW root, NEW depth,
         Links(mem, B, ch, root, depth), Beyond(mem), NEW a, NEW m, NEW keys, NEW hn, NEW hp,
         Placed(mem, root, a, m, keys, hn, hp), Covered(mem, root, a, keys, hn, hp),
         Values(mem, keys, hn, hp), Hashes(mem, keys, hn, hp),
         NEW k \in keys, NEW mem2, mem2 = EraseSlot(mem, hn[k], hp[k])
  PROVE  SlotErased(mem, mem2, B, root, depth, a, m, keys, k, hn, hp)
<1> DEFINE n == hn[k]
           p == hp[k]
           last == LastOf(ch, root[n])
<1>1. n \in DOMAIN mem /\ p \in 1 .. mem[n].count
  BY DEF Placed
<1> HIDE DEF n, p
<1>2. mem2 = EraseSlot(mem, n, p)
  BY DEF n, p
<1>3. PICK ch2 :
         /\ Links(mem2, B, ch2, root, depth) /\ Beyond(mem2)
         /\ Erased(mem, mem2, root, depth, n, p, LastOf(ch, root[n]))
         /\ DOMAIN mem2 \subseteq DOMAIN mem
         /\ n \in DOMAIN mem2 => mem2[n].left = mem[n].left /\ p - 1 <= mem2[n].count
         /\ n \notin DOMAIN mem2 => /\ p = 1 /\ n \in Addresses /\ mem[n].left # Null
                                    /\ LastOf(ch2, root[n]) = mem[n].left
  BY <1>1, <1>2, EraseMoves
<1> HIDE DEF last
<1>4. Erased(mem, mem2, root, depth, n, p, last) /\ hn[k] = n /\ hp[k] = p
  BY <1>3 DEF last, n, p
<1> DEFINE fn == [l \in keys \ {k} |-> Goes(mem, root, depth, n, p, last, hn[l], hp[l])[1]]
           fp == [l \in keys \ {k} |-> Goes(mem, root, depth, n, p, last, hn[l], hp[l])[2]]
<1>5. /\ fn = [l \in keys \ {k} |-> Goes(mem, root, depth, n, p, last, hn[l], hp[l])[1]]
      /\ fp = [l \in keys \ {k} |-> Goes(mem, root, depth, n, p, last, hn[l], hp[l])[2]]
  OBVIOUS
<1> HIDE DEF fn, fp
<1>6. /\ Placed(mem2, root, a, m, keys \ {k}, fn, fp)
      /\ Covered(mem2, root, a, keys \ {k}, fn, fp)
      /\ Values(mem2, keys \ {k}, fn, fp) /\ Hashes(mem2, keys \ {k}, fn, fp)
      /\ \A l \in keys \ {k} : /\ root[fn[l]] = root[hn[l]]
                               /\ Before(root, depth, n, p, hn[l], hp[l]) <=>
                                    Before(root, depth, n, p, fn[l], fp[l])
  BY <1>4, <1>5, ErasedPlaced
<1>7. QED
  BY <1>3, <1>4, <1>6 DEF SlotErased

\* What an erasure does to the rest of the table.
LEMMA EraseBasics ==
  ASSUME Basics, op.pc \in {"idle", "erase_if"}, NEW k \in content, array # 0,
         size' = size - 1, content' = content \ {k}, walk'.unasked \subseteq Keys,
         UNCHANGED <<array, mask, nextTarget, chainCount, op>>
  PROVE  Basics' /\ Live' = Live /\ ~Moving' /\ ~Moving
<1>1. IsFiniteSet(content) /\ size = Cardinality(content)
  BY DEF Basics
<1>2. IsFiniteSet(content') /\ Cardinality(content') = Cardinality(content) - 1
  BY <1>1, FS_RemoveElement
<1>3. size' = Cardinality(content') /\ Cardinality(content') \in Nat
  BY <1>1, <1>2, FS_CardinalityType
<1>4. Basics'
  BY <1>2, <1>3 DEF Basics
<1>5. QED
  BY <1>4 DEF Live, NewArray, Moving

\* The erasure of a key takes one slot from its bucket.
LEMMA EraseKeeps ==
  ASSUME BucketChainAssumption, BucketsInv, NEW k \in Keys, Erase(k)
  PROVE  BucketsInv'
<1>1. Basics /\ Beyond(node) /\ ~Moving /\ op.pc = "idle" /\ array # 0
  BY DEF BucketsInv, Moving, Erase
<1>2. PICK ch, root, depth, hn, hp, gn, gp, moved :
         /\ Links(node, Live, ch, root, depth) /\ Contents(root, hn, hp, gn, gp, moved)
         /\ Phase(root, hn, hp, gn, gp, moved) /\ Asking(ch, root, depth, hn, hp)
  BY DEF BucketsInv
<1>3. moved = {} /\ walk.unasked = {}
  BY <1>1, <1>2 DEF Phase, Asking
<1>4. /\ Placed(node, root, array, mask, content, hn, hp)
      /\ Covered(node, root, array, content, hn, hp)
      /\ Values(node, content, hn, hp) /\ Hashes(node, content, hn, hp)
  <2>1. content \ {} = content
    OBVIOUS
  <2>2. QED
    BY <1>2, <1>3, <2>1 DEF Contents
<1> DEFINE b == Bucket(array, mask, k)
<1>5. b \in Live
  <2>1. array \in 1 .. 2 /\ mask \in Masks /\ Live = Buckets(array, mask)
    BY <1>1, LiveBuckets DEF Basics
  <2>2. QED
    BY <2>1, BucketOf
<1>6. PICK s \in Find(node, b, k) : node' = EraseSlot(node, s[1], s[2])
  BY DEF Erase
<1>7. Find(node, b, k) = IF k \in content THEN {<<hn[k], hp[k]>>} ELSE {}
  BY <1>1, <1>2, <1>4, <1>5, FindIs
<1> HIDE DEF b
<1>8. k \in content /\ s[1] = hn[k] /\ s[2] = hp[k]
  BY <1>7
<1>9. SlotErased(node, node', Live, root, depth, array, mask, content, k, hn, hp)
  <2> DEFINE mem2 == node'
  <2>1. mem2 = EraseSlot(node, hn[k], hp[k])
    BY <1>6, <1>8
  <2> HIDE DEF mem2
  <2>2. SlotErased(node, mem2, Live, root, depth, array, mask, content, k, hn, hp)
    BY <1>1, <1>2, <1>4, <1>8, <2>1, EraseIs
  <2>3. QED
    BY <2>2 DEF mem2
<1>10. PICK ch2, hn2, hp2 :
         /\ Links(node', Live, ch2, root, depth) /\ Beyond(node')
         /\ Placed(node', root, array, mask, content \ {k}, hn2, hp2)
         /\ Covered(node', root, array, content \ {k}, hn2, hp2)
         /\ Values(node', content \ {k}, hn2, hp2) /\ Hashes(node', content \ {k}, hn2, hp2)
  BY <1>9 DEF SlotErased
<1>11. /\ size' = size - 1 /\ content' = content \ {k}
       /\ UNCHANGED <<array, mask, nextTarget, chainCount, op, walk>>
  BY DEF Erase
<1>12. Basics' /\ Live' = Live /\ ~Moving'
  BY <1>1, <1>3, <1>8, <1>11, EraseBasics
<1>13. Contents(root, hn2, hp2, gn, gp, {})'
  <2>1. content' \ {} = content \ {k} /\ content' = content \ {k}
    BY <1>11
  <2>2. /\ Placed(node', root, NewArray', op'.mask, {}, gn, gp) /\ Values(node', {}, gn, gp)
        /\ Blank(node', {}, hn2, hp2)
    BY DEF Placed, Values, Blank
  <2>3. QED
    BY <1>10, <1>11, <2>1, <2>2 DEF Contents
<1>14. Phase(root, hn2, hp2, gn, gp, {})' /\ Asking(ch2, root, depth, hn2, hp2)'
  BY <1>1, <1>3, <1>11, <1>12 DEF Phase, Asking, Moving
<1>15. QED
  BY <1>10, <1>12, <1>13, <1>14 DEF BucketsInv

-----------------------------------------------------------------------------
\* The slots erase_if still comes to: what Ahead says of a node that is there.
LEMMA AheadIs ==
  ASSUME BucketChainAssumption, NEW mem, NEW B, NEW ch, NEW root, NEW depth,
         Links(mem, B, ch, root, depth), NEW w, w.at \in DOMAIN mem, w.prev = mem[w.at].left,
         NEW a, root[w.at] = <<a, w.bucket>>,
         NEW d \in DOMAIN mem, root[d][1] = a, NEW q
  PROVE  Ahead(w, root, depth, d, q) <=>
           \/ root[d][2] > w.bucket
           \/ root[d] = root[w.at] /\ (depth[d] < depth[w.at] \/ (d = w.at /\ q <= w.pos))
<1>1. root[d] = root[w.at] <=> root[d][2] = w.bucket
  <2>1. root[d] \in {1, 2} \X (0 .. MaxMask)
    BY Place DEF Main
  <2>2. root[d] = <<root[d][1], root[d][2]>>
    BY <2>1
  <2>3. root[w.at] = <<a, w.bucket>> /\ root[d][1] = a
    OBVIOUS
  <2>4. QED
    BY <2>2, <2>3
<1>2. ASSUME root[d] = root[w.at]
      PROVE  (w.prev # Null /\ depth[d] <= depth[w.prev]) <=> depth[d] < depth[w.at]
  <2> DEFINE i == depth[w.at]
             h == Height(ch, root[w.at])
  <2>1. /\ i \in 1 .. h /\ h \in Nat /\ (i = 1 => mem[w.at].left = Null)
        /\ depth[d] \in 1 .. h
    <3>1. /\ depth[w.at] \in 1 .. Height(ch, root[w.at]) /\ Height(ch, root[w.at]) \in Nat
          /\ (depth[w.at] = 1 => mem[w.at].left = Null)
      <4>1. ASSUME NEW e \in DOMAIN mem
            PROVE  /\ depth[e] \in 1 .. Height(ch, root[e]) /\ Height(ch, root[e]) \in Nat
                   /\ depth[e] = 1 => mem[e].left = Null
        BY Place
      <4>2. QED
        BY <4>1
    <3>2. depth[d] \in 1 .. Height(ch, root[d])
      BY Place
    <3> HIDE DEF h
    <3>3. QED
      BY <1>2, <3>1, <3>2 DEF h
  <2>2. i > 1 => mem[w.at].left \in DOMAIN mem /\ depth[mem[w.at].left] = i - 1
    BY Neighbours
  <2>3. i > 1 => w.prev # Null /\ depth[w.prev] = i - 1
    BY <2>2, Place
  <2>4. i = 1 => w.prev = Null
    BY <2>1
  <2> DEFINE j == depth[d]
  <2> HIDE DEF i, h, j
  <2>5. (w.prev # Null /\ j <= depth[w.prev]) <=> j < i
    <3>1. j \in 1 .. h
      BY <2>1 DEF j
    <3>2. CASE i = 1
      BY <2>1, <2>4, <3>1, <3>2
    <3>3. CASE i > 1
      BY <2>1, <2>3, <3>1, <3>3
    <3>4. QED
      BY <2>1, <3>2, <3>3
  <2>6. QED
    BY <2>5 DEF i, j
<1>3. QED
  BY <1>1, <1>2 DEF Ahead

\* At the last value of a node.
LEMMA AheadOfNode ==
  ASSUME BucketChainAssumption, NEW mem, NEW B, NEW ch, NEW root, NEW depth,
         Links(mem, B, ch, root, depth), NEW w, w.at \in DOMAIN mem, w.prev = mem[w.at].left,
         w.pos = mem[w.at].count, NEW a, root[w.at] = <<a, w.bucket>>,
         NEW d \in DOMAIN mem, root[d][1] = a, NEW q \in 1 .. mem[d].count
  PROVE  Ahead(w, root, depth, d, q) <=>
           \/ root[d][2] > w.bucket
           \/ root[d] = root[w.at] /\ depth[d] <= depth[w.at]
<1>1. Ahead(w, root, depth, d, q) <=>
           \/ root[d][2] > w.bucket
           \/ root[d] = root[w.at] /\ (depth[d] < depth[w.at] \/ (d = w.at /\ q <= w.pos))
  BY AheadIs
<1>2. d = w.at => q <= w.pos
  <2>1. mem[d].count \in 0 .. Capacity(d) /\ Capacity(d) \in Nat \ {0}
    BY Place
  <2> DEFINE c == mem[d].count
  <2>2. c \in 0 .. Capacity(d) /\ q \in 1 .. c
    BY <2>1
  <2> HIDE DEF c
  <2>3. q <= c
    BY <2>1, <2>2
  <2>4. QED
    BY <2>3 DEF c
<1>3. ASSUME root[d] = root[w.at]
      PROVE  depth[d] <= depth[w.at] <=> (depth[d] < depth[w.at] \/ d = w.at)
  <2>1. depth[d] = depth[w.at] => d = w.at
    BY <1>3, OnePlace
  <2> DEFINE i == depth[w.at]
             h == Height(ch, root[w.at])
             j == depth[d]
  <2>2. i \in 1 .. h /\ h \in Nat /\ j \in 1 .. h /\ (i = j => d = w.at) /\ (d = w.at => i = j)
    <3>1. depth[w.at] \in 1 .. Height(ch, root[w.at]) /\ Height(ch, root[w.at]) \in Nat
      BY Place
    <3>2. depth[d] \in 1 .. Height(ch, root[d])
      BY Place
    <3>3. QED
      BY <1>3, <2>1, <3>1, <3>2
  <2> HIDE DEF i, h, j
  <2>3. j <= i <=> (j < i \/ d = w.at)
    BY <2>2
  <2>4. QED
    BY <2>3 DEF i, j
<1>4. QED
  BY <1>1, <1>2, <1>3

\* At the last value of the most right node of a bucket.
LEMMA AheadOfBucket ==
  ASSUME BucketChainAssumption, NEW mem, NEW B, NEW ch, NEW root, NEW depth,
         Links(mem, B, ch, root, depth), NEW w, NEW a, NEW b \in B, b = <<a, w.bucket>>,
         w.at = LastOf(ch, b), w.prev = mem[w.at].left, w.pos = mem[w.at].count,
         NEW d \in DOMAIN mem, root[d][1] = a, NEW q \in 1 .. mem[d].count
  PROVE  Ahead(w, root, depth, d, q) <=> root[d][2] > w.bucket \/ root[d][2] = w.bucket
<1>1. w.at \in DOMAIN mem /\ root[w.at] = b /\ depth[w.at] = Height(ch, b)
  BY First
<1>2. Ahead(w, root, depth, d, q) <=>
        \/ root[d][2] > w.bucket
        \/ root[d] = root[w.at] /\ depth[d] <= depth[w.at]
  BY <1>1, AheadOfNode
<1>3. root[d] = root[w.at] <=> root[d][2] = w.bucket
  <2>1. root[d] \in {1, 2} \X (0 .. MaxMask)
    BY Place DEF Main
  <2>2. root[d] = <<root[d][1], root[d][2]>>
    BY <2>1
  <2>3. root[w.at] = <<a, w.bucket>> /\ root[d][1] = a
    BY <1>1
  <2>4. QED
    BY <2>2, <2>3
<1>4. ASSUME root[d] = root[w.at] PROVE depth[d] <= depth[w.at]
  <2> DEFINE h == Height(ch, root[d])
  <2>1. depth[d] \in 1 .. h /\ h \in Nat /\ depth[w.at] = h
    BY <1>1, <1>4, Place
  <2> HIDE DEF h
  <2>2. QED
    BY <2>1
<1>5. QED
  BY <1>2, <1>3, <1>4

\* Where the keys are while erase_if is under way.
Whole(root, hn, hp) ==
  /\ Placed(node, root, array, mask, content, hn, hp) /\ Covered(node, root, array, content, hn, hp)
  /\ Values(node, content, hn, hp) /\ Hashes(node, content, hn, hp)

\* What an action that leaves the nodes alone has to show outside a rehash.
LEMMA SameNodes ==
  ASSUME BucketChainAssumption, Basics, Beyond(node), ~Moving, NEW ch, NEW root, NEW depth,
         NEW hn, NEW hp, NEW gn, NEW gp,
         Links(node, Live, ch, root, depth), Whole(root, hn, hp),
         UNCHANGED <<node, array, mask, size, nextTarget, chainCount, content>>,
         op'.pc \in {"idle", "erase_if"}, op'.key \in Keys \cup {Null}, op'.mask \in Masks,
         op'.todo \in Seq(Nodes \X Nat), walk'.unasked \subseteq Keys, array # 0,
         Asking(ch, root, depth, hn, hp)'
  PROVE  BucketsInv'
<1>1. Basics'
  BY DEF Basics
<1>2. ~Moving' /\ Live' = Live
  BY DEF Moving, Live
<1>3. Contents(root, hn, hp, gn, gp, {})'
  <2>1. content' \ {} = content
    OBVIOUS
  <2>2. /\ Placed(node', root, NewArray', op'.mask, {}, gn, gp) /\ Values(node', {}, gn, gp)
        /\ Blank(node', {}, hn, hp)
    BY DEF Placed, Values, Blank
  <2>3. QED
    BY <2>1, <2>2 DEF Contents, Whole
<1>4. Phase(root, hn, hp, gn, gp, {})'
  BY <1>2 DEF Phase, Moving
<1>5. Links(node', Live', ch, root, depth) /\ Beyond(node')
  BY <1>2
<1>6. QED
  BY <1>1, <1>3, <1>4, <1>5 DEF BucketsInv

\* The home of a key is a slot of the array.
LEMMA HomeIs ==
  ASSUME BucketChainAssumption, Basics, NEW root, NEW hn, NEW hp, array # 0, Whole(root, hn, hp),
         NEW k \in content
  PROVE  /\ hn[k] \in DOMAIN node /\ hp[k] \in 1 .. node[hn[k]].count
         /\ root[hn[k]][1] = array /\ root[hn[k]][2] \in 0 .. mask /\ mask \in Nat
<1>1. hn[k] \in DOMAIN node /\ hp[k] \in 1 .. node[hn[k]].count /\ root[hn[k]] = Bucket(array, mask, k)
  BY DEF Whole, Placed
<1>2. k \in Keys /\ array \in 1 .. 2 /\ mask \in Masks /\ mask \in Nat
  BY MaskIs DEF Basics
<1>3. Bucket(array, mask, k) \in {array} \X (0 .. mask)
  BY <1>2, BucketOf DEF Buckets
<1>4. QED
  BY <1>1, <1>2, <1>3

\* erase_if begins at the last node of the first bucket and has asked for nothing.
LEMMA EraseIfKeeps ==
  ASSUME BucketChainAssumption, BucketsInv, EraseIf
  PROVE  BucketsInv'
<1>1. Basics /\ Beyond(node) /\ ~Moving /\ op.pc = "idle" /\ array # 0
  BY DEF BucketsInv, Moving, EraseIf
<1>2. PICK ch, root, depth, hn, hp, gn, gp, moved :
         /\ Links(node, Live, ch, root, depth) /\ Contents(root, hn, hp, gn, gp, moved)
         /\ Phase(root, hn, hp, gn, gp, moved)
  BY DEF BucketsInv
<1>3. Whole(root, hn, hp)
  <2>1. moved = {} /\ content \ {} = content
    BY <1>1, <1>2 DEF Phase
  <2>2. QED
    BY <1>2, <2>1 DEF Contents, Whole
<1> DEFINE b == <<array, 0>>
           n == LastOf(ch, b)
<1>4. b \in Live /\ mask \in Nat
  <2>1. Live = Buckets(array, mask) /\ mask \in Nat
    BY <1>1, LiveBuckets
  <2>2. QED
    BY <1>1, <2>1 DEF Buckets
<1>5. n \in DOMAIN node /\ root[n] = b /\ MostRight(b) = n
  <2> HIDE DEF b
  <2>1. QED
    BY <1>2, <1>4, First, NodesOfIs DEF MostRight
<1> HIDE DEF n
<1>6. /\ op'.pc = "erase_if" /\ op'.key = Null /\ op'.mask = 0 /\ op'.todo = << >>
      /\ UNCHANGED <<node, array, mask, size, nextTarget, chainCount, content>>
      /\ walk'.bucket = 0 /\ walk'.at = n /\ walk'.pos = node[n].count /\ walk'.prev = node[n].left
      /\ walk'.unasked = content
  BY <1>5 DEF EraseIf, AtNode, Walk, Op
<1>7. ASSUME NEW k \in content PROVE Ahead(walk', root, depth, hn[k], hp[k])
  <2> DEFINE w == walk'
             d == hn[k]
             q == hp[k]
  <2>1. d \in DOMAIN node /\ q \in 1 .. node[d].count /\ root[d][1] = array /\ root[d][2] \in 0 .. mask
    BY <1>1, <1>3, HomeIs
  <2>2. w.bucket = 0 /\ w.at = n /\ w.pos = node[n].count /\ w.prev = node[n].left
    BY <1>6
  <2> HIDE DEF w, d, q
  <2>3. /\ b = <<array, w.bucket>> /\ w.at = LastOf(ch, b) /\ w.prev = node[w.at].left
        /\ w.pos = node[w.at].count
    BY <2>2 DEF n
  <2> HIDE DEF b
  <2>4. Ahead(w, root, depth, d, q) <=> root[d][2] > w.bucket \/ root[d][2] = w.bucket
    BY <1>2, <1>4, <2>1, <2>3, AheadOfBucket
  <2>5. root[d][2] > w.bucket \/ root[d][2] = w.bucket
    BY <1>4, <2>1, <2>2
  <2>6. QED
    BY <2>4, <2>5 DEF w, d, q
<1>8. Asking(ch, root, depth, hn, hp)'
  <2>1. walk'.unasked = {k \in content : Ahead(walk', root, depth, hn[k], hp[k])}
    BY <1>6, <1>7
  <2>2. walk'.bucket \in 0 .. mask
    BY <1>4, <1>6
  <2>3. walk'.pos \in 0 .. node[walk'.at].count
    <3> DEFINE c == node[n].count
    <3>1. c \in 0 .. Capacity(n) /\ Capacity(n) \in Nat \ {0}
      BY <1>2, <1>5, Place
    <3> HIDE DEF c
    <3>2. c \in 0 .. c
      BY <3>1
    <3>3. QED
      BY <1>6, <3>2 DEF c
  <2>4. walk'.at \in DOMAIN node /\ root[walk'.at] = <<array, walk'.bucket>> /\ walk'.prev = node[walk'.at].left
    BY <1>5, <1>6
  <2>5. QED
    BY <1>6, <2>1, <2>2, <2>3, <2>4 DEF Asking
<1>9. /\ op'.key \in Keys \cup {Null} /\ op'.mask \in Masks /\ op'.todo \in Seq(Nodes \X Nat)
      /\ walk'.unasked \subseteq Keys /\ op'.pc \in {"idle", "erase_if"}
  <2>1. 0 \in Masks
    BY SmallestMask
  <2>2. QED
    BY <1>1, <1>6, <2>1 DEF Basics
<1>10. QED
  BY <1>1, <1>2, <1>3, <1>6, <1>8, <1>9, SameNodes

\* The node erase_if goes to next is in the chain of its bucket.
LEMMA PrevIs ==
  ASSUME BucketChainAssumption, NEW mem, NEW B, NEW ch, NEW root, NEW depth,
         Links(mem, B, ch, root, depth), NEW b \in B, NEW e, NEW n, n # Null,
         \/ e \in DOMAIN mem /\ root[e] = b /\ n = mem[e].left
         \/ n = LastOf(ch, b)
  PROVE  n \in DOMAIN mem /\ root[n] = b
<1>1. CASE n = LastOf(ch, b)
  BY <1>1, First
<1>2. CASE e \in DOMAIN mem /\ root[e] = b /\ n = mem[e].left
  <2>1. depth[e] # 1
    BY <1>2, FirstNode
  <2>2. depth[e] > 1
    <3>1. depth[e] \in 1 .. Height(ch, root[e]) /\ Height(ch, root[e]) \in Nat
      BY <1>2, Place
    <3>2. QED
      BY <2>1, <3>1
  <2>3. QED
    BY <1>2, <2>2, Neighbours
<1>3. QED
  BY <1>1, <1>2

\* The loops go to the node on the left, to the next bucket, or end.
LEMMA NodeOnLeftKeeps ==
  ASSUME BucketChainAssumption, BucketsInv, NodeOnLeft
  PROVE  BucketsInv'
<1>1. Basics /\ Beyond(node) /\ ~Moving /\ op.pc = "erase_if" /\ walk.pos = 0 /\ array # 0
  BY DEF BucketsInv, Moving, NodeOnLeft, Basics
<1>2. PICK ch, root, depth, hn, hp, gn, gp, moved :
         /\ Links(node, Live, ch, root, depth) /\ Contents(root, hn, hp, gn, gp, moved)
         /\ Phase(root, hn, hp, gn, gp, moved) /\ Asking(ch, root, depth, hn, hp)
  BY DEF BucketsInv
<1>3. Whole(root, hn, hp)
  <2>1. moved = {} /\ content \ {} = content
    BY <1>1, <1>2 DEF Phase
  <2>2. QED
    BY <1>2, <2>1 DEF Contents, Whole
<1>4. /\ walk.bucket \in 0 .. mask /\ mask \in Nat
      /\ \A i \in 0 .. mask : <<array, i>> \in Live
      /\ walk.unasked = {k \in content : Ahead(walk, root, depth, hn[k], hp[k])}
  <2>1. Live = Buckets(array, mask) /\ mask \in Nat
    BY <1>1, LiveBuckets
  <2>2. \A i \in 0 .. mask : <<array, i>> \in Live
    BY <1>1, <2>1 DEF Buckets
  <2>3. QED
    BY <1>1, <1>2, <2>1, <2>2 DEF Asking
<1> DEFINE b == <<array, walk.bucket>>
<1>5. \/ /\ walk.at \in DOMAIN node /\ root[walk.at] = b /\ walk.prev = node[walk.at].left
      \/ walk.prev = LastOf(ch, b)
  BY <1>1, <1>2 DEF Asking
<1>6. b \in Live
  BY <1>4
<1>7. UNCHANGED <<node, array, mask, size, nextTarget, chainCount, content>>
  BY DEF NodeOnLeft
<1>8. ASSUME NEW k \in content
      PROVE  /\ hn[k] \in DOMAIN node /\ hp[k] \in 1 .. node[hn[k]].count
             /\ root[hn[k]][1] = array /\ root[hn[k]][2] \in 0 .. mask
  BY <1>1, <1>3, HomeIs
<1>9. walk.unasked \subseteq Keys /\ 0 \in Masks
  BY <1>1, SmallestMask DEF Basics
<1>10. ASSUME walk.prev # Null, walk' = AtNode(walk.bucket, walk.prev, walk.unasked), UNCHANGED op
       PROVE  BucketsInv'
  <2> DEFINE n == walk.prev
  <2>1. n \in DOMAIN node /\ root[n] = b
    BY <1>2, <1>5, <1>6, <1>10, PrevIs
  <2> HIDE DEF n
  <2>2. /\ walk'.bucket = walk.bucket /\ walk'.at = n /\ walk'.pos = node[n].count
        /\ walk'.prev = node[n].left /\ walk'.unasked = walk.unasked
    BY <1>10 DEF AtNode, Walk, n
  <2>3. ASSUME NEW k \in content
        PROVE  Ahead(walk, root, depth, hn[k], hp[k]) <=> Ahead(walk', root, depth, hn[k], hp[k])
    <3> DEFINE w == walk'
               d == hn[k]
               q == hp[k]
    <3>1. d \in DOMAIN node /\ q \in 1 .. node[d].count /\ root[d][1] = array /\ root[d][2] \in 0 .. mask
      BY <1>8
    <3>2. w.bucket = walk.bucket /\ w.at = n /\ w.pos = node[n].count /\ w.prev = node[n].left
      BY <2>2
    <3> HIDE DEF w, d, q
    <3>3. /\ w.at \in DOMAIN node /\ w.prev = node[w.at].left /\ w.pos = node[w.at].count
          /\ root[w.at] = <<array, w.bucket>>
      BY <2>1, <3>2
    <3>4. Ahead(w, root, depth, d, q) <=>
            \/ root[d][2] > w.bucket
            \/ root[d] = root[w.at] /\ depth[d] <= depth[w.at]
      BY <1>2, <3>1, <3>3, AheadOfNode
    <3>5. root[d] = root[w.at] <=> root[d][2] = walk.bucket
      <4>1. root[d] \in {1, 2} \X (0 .. MaxMask)
        BY <1>2, <3>1, Place DEF Main
      <4>2. root[d] = <<root[d][1], root[d][2]>>
        BY <4>1
      <4>3. root[w.at] = <<array, walk.bucket>>
        BY <3>2, <3>3
      <4>4. QED
        BY <3>1, <4>2, <4>3
    <3>6. ~(q <= walk.pos)
      <4>1. node[d].count \in 0 .. Capacity(d) /\ Capacity(d) \in Nat \ {0}
        BY <1>2, <3>1, Place
      <4> DEFINE c == node[d].count
      <4>2. c \in 0 .. Capacity(d) /\ q \in 1 .. c
        BY <3>1, <4>1
      <4> HIDE DEF c
      <4>3. q \in Nat /\ q > 0
        BY <4>1, <4>2
      <4>4. QED
        BY <1>1, <4>3
    <3>7. Ahead(walk, root, depth, d, q) <=>
            root[d][2] > walk.bucket \/ (root[d][2] = walk.bucket /\ depth[d] <= depth[n])
      BY <1>10, <3>6 DEF Ahead, n
    <3>8. QED
      BY <3>2, <3>4, <3>5, <3>7 DEF w, d, q
  <2>4. walk'.unasked = {k \in content : Ahead(walk', root, depth, hn[k], hp[k])}
    BY <1>4, <2>2, <2>3
  <2>5. walk'.pos \in 0 .. node[walk'.at].count
    <3> DEFINE c == node[n].count
    <3>1. c \in 0 .. Capacity(n) /\ Capacity(n) \in Nat \ {0}
      BY <1>2, <2>1, Place
    <3> HIDE DEF c
    <3>2. c \in 0 .. c
      BY <3>1
    <3>3. QED
      BY <2>2, <3>2 DEF c
  <2>6. Asking(ch, root, depth, hn, hp)'
    <3>1. walk'.at \in DOMAIN node /\ root[walk'.at] = <<array, walk'.bucket>> /\ walk'.prev = node[walk'.at].left
      BY <2>1, <2>2
    <3>2. walk'.bucket \in 0 .. mask /\ op'.pc = "erase_if"
      BY <1>1, <1>4, <1>10, <2>2
    <3>3. QED
      BY <1>7, <2>4, <2>5, <3>1, <3>2 DEF Asking
  <2>7. /\ op'.pc \in {"idle", "erase_if"} /\ op'.key \in Keys \cup {Null} /\ op'.mask \in Masks
        /\ op'.todo \in Seq(Nodes \X Nat) /\ walk'.unasked \subseteq Keys
    BY <1>1, <1>9, <1>10, <2>2 DEF Basics
  <2>8. QED
    BY <1>1, <1>2, <1>3, <1>7, <2>6, <2>7, SameNodes
<1>11. ASSUME walk.prev = Null, NEW k \in content
       PROVE  Ahead(walk, root, depth, hn[k], hp[k]) <=> root[hn[k]][2] > walk.bucket
  <2> DEFINE d == hn[k]
             q == hp[k]
             c == node[d].count
  <2>1. d \in DOMAIN node /\ q \in 1 .. c
    BY <1>8
  <2>2. c \in 0 .. Capacity(d) /\ Capacity(d) \in Nat \ {0}
    BY <1>2, <2>1, Place
  <2> HIDE DEF c, d, q
  <2>3. q \in Nat /\ q > 0
    BY <2>1, <2>2
  <2>4. ~(q <= walk.pos)
    BY <1>1, <2>3
  <2>5. QED
    BY <1>11, <2>4 DEF Ahead, d, q
<1>12. ASSUME walk.prev = Null, walk.bucket < mask, UNCHANGED op,
              walk' = AtNode(walk.bucket + 1, MostRight(<<array, walk.bucket + 1>>), walk.unasked)
       PROVE  BucketsInv'
  <2> DEFINE i == walk.bucket + 1
             e == <<array, i>>
             n == LastOf(ch, e)
  <2>1. i \in 0 .. mask /\ e \in Live
    BY <1>4, <1>12
  <2>2. n \in DOMAIN node /\ root[n] = e /\ MostRight(e) = n
    <3> HIDE DEF e
    <3>1. QED
      BY <1>2, <2>1, First, NodesOfIs DEF MostRight
  <2> HIDE DEF n
  <2>3. /\ walk'.bucket = i /\ walk'.at = n /\ walk'.pos = node[n].count
        /\ walk'.prev = node[n].left /\ walk'.unasked = walk.unasked
    BY <1>12, <2>2 DEF AtNode, Walk
  <2>4. ASSUME NEW k \in content
        PROVE  Ahead(walk, root, depth, hn[k], hp[k]) <=> Ahead(walk', root, depth, hn[k], hp[k])
    <3> DEFINE w == walk'
               d == hn[k]
               q == hp[k]
    <3>1. d \in DOMAIN node /\ q \in 1 .. node[d].count /\ root[d][1] = array /\ root[d][2] \in 0 .. mask
      BY <1>8
    <3>2. w.bucket = i /\ w.at = n /\ w.pos = node[n].count /\ w.prev = node[n].left
      BY <2>3
    <3>3. Ahead(walk, root, depth, d, q) <=> root[d][2] > walk.bucket
      BY <1>11, <1>12
    <3> HIDE DEF w, d, q
    <3>4. /\ e = <<array, w.bucket>> /\ w.at = LastOf(ch, e) /\ w.prev = node[w.at].left
          /\ w.pos = node[w.at].count
      BY <3>2 DEF n
    <3> HIDE DEF e
    <3>5. Ahead(w, root, depth, d, q) <=> root[d][2] > w.bucket \/ root[d][2] = w.bucket
      BY <1>2, <2>1, <3>1, <3>4, AheadOfBucket
    <3>6. root[d][2] > walk.bucket <=> (root[d][2] > w.bucket \/ root[d][2] = w.bucket)
      BY <1>4, <3>1, <3>2
    <3>7. QED
      BY <3>3, <3>5, <3>6 DEF w, d, q
  <2>5. walk'.unasked = {k \in content : Ahead(walk', root, depth, hn[k], hp[k])}
    BY <1>4, <2>3, <2>4
  <2>6. walk'.pos \in 0 .. node[walk'.at].count
    <3> DEFINE c == node[n].count
    <3>1. c \in 0 .. Capacity(n) /\ Capacity(n) \in Nat \ {0}
      BY <1>2, <2>2, Place
    <3> HIDE DEF c
    <3>2. c \in 0 .. c
      BY <3>1
    <3>3. QED
      BY <2>3, <3>2 DEF c
  <2>7. Asking(ch, root, depth, hn, hp)'
    <3>1. walk'.at \in DOMAIN node /\ root[walk'.at] = <<array, walk'.bucket>> /\ walk'.prev = node[walk'.at].left
      BY <2>2, <2>3
    <3>2. walk'.bucket \in 0 .. mask /\ op'.pc = "erase_if"
      BY <1>1, <1>12, <2>1, <2>3
    <3>3. QED
      BY <1>7, <2>5, <2>6, <3>1, <3>2 DEF Asking
  <2>8. /\ op'.pc \in {"idle", "erase_if"} /\ op'.key \in Keys \cup {Null} /\ op'.mask \in Masks
        /\ op'.todo \in Seq(Nodes \X Nat) /\ walk'.unasked \subseteq Keys
    BY <1>1, <1>9, <1>12, <2>3 DEF Basics
  <2>9. QED
    BY <1>1, <1>2, <1>3, <1>7, <2>7, <2>8, SameNodes
<1>13. ASSUME walk.prev = Null, walk.bucket = mask, op' = NoOp, walk' = Walk(0, Null, 0, Null, walk.unasked)
       PROVE  BucketsInv'
  <2>1. walk.unasked = {}
    <3> SUFFICES ASSUME NEW k \in content, Ahead(walk, root, depth, hn[k], hp[k]) PROVE FALSE
      BY <1>4
    <3>1. root[hn[k]][2] \in 0 .. mask
      BY <1>8
    <3>2. root[hn[k]][2] > mask
      BY <1>11, <1>13
    <3>3. QED
      BY <1>4, <3>1, <3>2
  <2>2. /\ op'.pc = "idle" /\ op'.key = Null /\ op'.mask = 0 /\ op'.todo = << >> /\ walk'.unasked = {}
    BY <1>13, <2>1 DEF NoOp, Op, Walk
  <2>3. Asking(ch, root, depth, hn, hp)'
    BY <2>2 DEF Asking
  <2>4. /\ op'.pc \in {"idle", "erase_if"} /\ op'.key \in Keys \cup {Null} /\ op'.mask \in Masks
        /\ op'.todo \in Seq(Nodes \X Nat) /\ walk'.unasked \subseteq Keys
    BY <1>9, <2>2
  <2>5. QED
    BY <1>1, <1>2, <1>3, <1>7, <2>3, <2>4, SameNodes
<1>14. \/ walk.prev # Null /\ walk' = AtNode(walk.bucket, walk.prev, walk.unasked) /\ UNCHANGED op
       \/ /\ walk.prev = Null /\ walk.bucket < mask /\ UNCHANGED op
          /\ walk' = AtNode(walk.bucket + 1, MostRight(<<array, walk.bucket + 1>>), walk.unasked)
       \/ walk.prev = Null /\ walk.bucket = mask /\ op' = NoOp /\ walk' = Walk(0, Null, 0, Null, walk.unasked)
  BY DEF NodeOnLeft
<1>15. QED
  BY <1>10, <1>12, <1>13, <1>14

\* The functor is called; a value it wants to go is erased on the spot.
LEMMA AskFunctorKeeps ==
  ASSUME BucketChainAssumption, BucketsInv, AskFunctor
  PROVE  BucketsInv'
<1>1. Basics /\ Beyond(node) /\ ~Moving /\ op.pc = "erase_if" /\ walk.pos > 0 /\ array # 0
  BY DEF BucketsInv, Moving, AskFunctor, Basics
<1>2. PICK ch, root, depth, hn, hp, gn, gp, moved :
         /\ Links(node, Live, ch, root, depth) /\ Contents(root, hn, hp, gn, gp, moved)
         /\ Phase(root, hn, hp, gn, gp, moved) /\ Asking(ch, root, depth, hn, hp)
  BY DEF BucketsInv
<1>3. Whole(root, hn, hp)
  <2>1. moved = {} /\ content \ {} = content
    BY <1>1, <1>2 DEF Phase
  <2>2. QED
    BY <1>2, <2>1 DEF Contents, Whole
<1> DEFINE n == walk.at
           p == walk.pos
           b == <<array, walk.bucket>>
<1>4. /\ walk.bucket \in 0 .. mask /\ n \in DOMAIN node /\ root[n] = b
      /\ walk.prev = node[n].left /\ p \in 0 .. node[n].count
      /\ walk.unasked = {l \in content : Ahead(walk, root, depth, hn[l], hp[l])}
  BY <1>1, <1>2 DEF Asking
<1>5. p \in Nat /\ p > 0 /\ p \in 1 .. node[n].count
  <2> DEFINE c == node[n].count
  <2>1. c \in 0 .. Capacity(n) /\ Capacity(n) \in Nat \ {0} /\ p \in 0 .. c /\ p > 0
    BY <1>1, <1>2, <1>4, Place
  <2> HIDE DEF c, p
  <2>2. p \in Nat /\ p > 0 /\ p \in 1 .. c
    BY <2>1
  <2>3. QED
    BY <2>2 DEF c
<1> HIDE DEF n, p, b
<1>6. PICK k \in content : hn[k] = n /\ hp[k] = p /\ node[n].vals[p] = k
  <2>1. root[n][1] = array
    BY <1>4 DEF b
  <2>2. PICK k \in content : hn[k] = n /\ hp[k] = p
    BY <1>3, <1>4, <1>5, <2>1 DEF Whole, Covered
  <2>3. QED
    BY <1>3, <2>2 DEF Whole, Values
<1>7. /\ walk'.bucket = walk.bucket /\ walk'.at = n /\ walk'.pos = p - 1 /\ walk'.prev = walk.prev
      /\ walk'.unasked = walk.unasked \ {k}
  BY <1>6 DEF AskFunctor, Walk, n, p
<1> DEFINE w == walk'
<1>8. w.bucket = walk.bucket /\ w.at = n /\ w.pos = p - 1 /\ w.prev = node[n].left
  BY <1>4, <1>7
<1> HIDE DEF w
<1>9. ASSUME NEW d \in DOMAIN node, root[d][1] = array, NEW q \in Nat
      PROVE  /\ Ahead(w, root, depth, d, q) <=>
                  root[d][2] > walk.bucket \/ (root[d] = b /\ Before(root, depth, n, p, d, q))
             /\ Ahead(walk, root, depth, d, q) <=> Ahead(w, root, depth, d, q) \/ (d = n /\ q = p)
  <2>1. w.at \in DOMAIN node /\ w.prev = node[w.at].left /\ root[w.at] = <<array, w.bucket>>
    BY <1>4, <1>8 DEF b
  <2>2. Ahead(w, root, depth, d, q) <=>
           \/ root[d][2] > w.bucket
           \/ root[d] = root[w.at] /\ (depth[d] < depth[w.at] \/ (d = w.at /\ q <= w.pos))
    BY <1>2, <1>9, <2>1, AheadIs
  <2>3. walk.at \in DOMAIN node /\ walk.prev = node[walk.at].left /\ root[walk.at] = <<array, walk.bucket>>
    BY <1>4 DEF b, n
  <2>4. Ahead(walk, root, depth, d, q) <=>
           \/ root[d][2] > walk.bucket
           \/ root[d] = root[walk.at] /\ (depth[d] < depth[walk.at] \/ (d = walk.at /\ q <= walk.pos))
    BY <1>2, <1>9, <2>3, AheadIs
  <2>5. /\ Ahead(w, root, depth, d, q) <=>
             \/ root[d][2] > walk.bucket
             \/ root[d] = b /\ (depth[d] < depth[n] \/ (d = n /\ q <= p - 1))
        /\ Ahead(walk, root, depth, d, q) <=>
             \/ root[d][2] > walk.bucket
             \/ root[d] = b /\ (depth[d] < depth[n] \/ (d = n /\ q <= p))
    BY <1>4, <1>8, <2>2, <2>4 DEF n, p
  <2>6. (q <= p - 1 <=> q < p) /\ (q <= p <=> q < p \/ q = p)
    BY <1>5
  <2>7. ASSUME root[d] = b PROVE depth[d] < depth[n] <=> ~InTail(root, depth, n, d)
    <3> DEFINE i == depth[d]
               j == depth[n]
               h == Height(ch, root[n])
    <3>1. depth[d] \in 1 .. Height(ch, root[d]) /\ Height(ch, root[d]) \in Nat
      BY <1>2, Place
    <3>2. depth[n] \in 1 .. Height(ch, root[n])
      BY <1>2, <1>4, Place
    <3>3. i \in 1 .. h /\ j \in 1 .. h /\ h \in Nat /\ root[d] = root[n]
      BY <1>4, <2>7, <3>1, <3>2
    <3> HIDE DEF i, j, h
    <3>4. i < j <=> ~(j <= i)
      BY <3>3
    <3>5. QED
      BY <3>3, <3>4 DEF i, j, InTail
  <2>8. root[n] = b
    BY <1>4
  <2>9. QED
    BY <2>5, <2>6, <2>7, <2>8 DEF Before
<1>10. ASSUME NEW l \in content
       PROVE  /\ hn[l] \in DOMAIN node /\ root[hn[l]][1] = array /\ hp[l] \in Nat
              /\ hn[l] = n /\ hp[l] = p <=> l = k
  <2>1. hn[l] \in DOMAIN node /\ hp[l] \in 1 .. node[hn[l]].count /\ root[hn[l]][1] = array
    BY <1>1, <1>3, HomeIs
  <2>2. hp[l] \in Nat
    <3> DEFINE q == hp[l]
               c == node[hn[l]].count
    <3>1. c \in 0 .. Capacity(hn[l]) /\ Capacity(hn[l]) \in Nat \ {0} /\ q \in 1 .. c
      BY <1>2, <2>1, Place
    <3> HIDE DEF q, c
    <3>2. q \in Nat
      BY <3>1
    <3>3. QED
      BY <3>2 DEF q
  <2>3. hn[l] = n /\ hp[l] = p <=> l = k
    BY <1>3, <1>6 DEF Whole, Placed
  <2>4. QED
    BY <2>1, <2>2, <2>3
<1>11. walk.unasked \ {k} = {l \in content \ {k} : Ahead(w, root, depth, hn[l], hp[l])}
  <2>1. ASSUME NEW l \in content, l # k
        PROVE  Ahead(walk, root, depth, hn[l], hp[l]) <=> Ahead(w, root, depth, hn[l], hp[l])
    BY <1>9, <1>10, <2>1
  <2>2. QED
    BY <1>4, <2>1
<1>12. /\ UNCHANGED <<array, mask, nextTarget, chainCount, op>>
       /\ walk'.bucket \in 0 .. mask /\ walk'.unasked \subseteq Keys /\ p - 1 \in Nat
       /\ op.key \in Keys \cup {Null} /\ op.mask \in Masks /\ op.todo \in Seq(Nodes \X Nat)
  <2>1. UNCHANGED <<array, mask, nextTarget, chainCount, op>>
    BY DEF AskFunctor
  <2>2. walk'.bucket \in 0 .. mask /\ p - 1 \in Nat
    BY <1>4, <1>5, <1>7
  <2>3. walk'.unasked \subseteq Keys
    BY <1>1, <1>7 DEF Basics
  <2>4. op.key \in Keys \cup {Null} /\ op.mask \in Masks /\ op.todo \in Seq(Nodes \X Nat)
    BY <1>1 DEF Basics
  <2>5. QED
    BY <2>1, <2>2, <2>3, <2>4
<1>13. ASSUME UNCHANGED <<node, size, content>>
       PROVE  BucketsInv'
  <2>1. ~Ahead(w, root, depth, hn[k], hp[k])
    <3>1. ~(root[n][2] > walk.bucket)
      BY <1>4, <1>12 DEF b
    <3>2. ~Before(root, depth, n, p, n, p)
      <4>1. depth[n] <= depth[n] /\ ~(p < p)
        <5>1. depth[n] \in 1 .. Height(ch, root[n]) /\ Height(ch, root[n]) \in Nat
          BY <1>2, <1>4, Place
        <5>2. QED
          BY <1>5, <5>1
      <4>2. QED
        BY <4>1 DEF Before, InTail
    <3>3. root[n][1] = array
      BY <1>4 DEF b
    <3>4. QED
      BY <1>4, <1>5, <1>6, <1>9, <3>1, <3>2, <3>3
  <2>2. walk'.unasked = {l \in content : Ahead(walk', root, depth, hn[l], hp[l])}
    BY <1>7, <1>11, <2>1 DEF w
  <2>3. p - 1 \in 0 .. node[n].count
    <3> DEFINE c == node[n].count
    <3>1. c \in 0 .. Capacity(n) /\ Capacity(n) \in Nat \ {0} /\ p \in 1 .. c
      BY <1>2, <1>4, <1>5, Place
    <3> HIDE DEF c
    <3>2. p - 1 \in 0 .. c
      BY <1>5, <3>1
    <3>3. QED
      BY <3>2 DEF c
  <2>4. Asking(ch, root, depth, hn, hp)'
    <3>1. /\ walk'.at \in DOMAIN node /\ root[walk'.at] = <<array, walk'.bucket>>
          /\ walk'.prev = node[walk'.at].left /\ walk'.pos \in 0 .. node[walk'.at].count
      BY <1>4, <1>7, <2>3 DEF b
    <3>2. QED
      BY <1>1, <1>12, <1>13, <2>2, <3>1 DEF Asking
  <2>5. UNCHANGED <<node, array, mask, size, nextTarget, chainCount, content>>
    BY <1>12, <1>13
  <2>6. /\ op'.pc \in {"idle", "erase_if"} /\ op'.key \in Keys \cup {Null} /\ op'.mask \in Masks
        /\ op'.todo \in Seq(Nodes \X Nat) /\ walk'.unasked \subseteq Keys
    BY <1>1, <1>12
  <2>7. QED
    BY <1>1, <1>2, <1>3, <2>4, <2>5, <2>6, SameNodes
<1>14. ASSUME node' = EraseSlot(node, n, p), size' = size - 1, content' = content \ {k}
       PROVE  BucketsInv'
  <2>1. SlotErased(node, node', Live, root, depth, array, mask, content, k, hn, hp)
    <3> DEFINE mem2 == node'
    <3>1. mem2 = EraseSlot(node, hn[k], hp[k])
      BY <1>6, <1>14
    <3> HIDE DEF mem2
    <3>2. /\ Placed(node, root, array, mask, content, hn, hp)
          /\ Covered(node, root, array, content, hn, hp)
          /\ Values(node, content, hn, hp) /\ Hashes(node, content, hn, hp)
      BY <1>3 DEF Whole
    <3>3. SlotErased(node, mem2, Live, root, depth, array, mask, content, k, hn, hp)
      BY <1>1, <1>2, <3>1, <3>2, EraseIs
    <3>4. QED
      BY <3>3 DEF mem2
  <2>2. PICK ch2, hn2, hp2 :
          /\ Links(node', Live, ch2, root, depth) /\ Beyond(node')
          /\ Placed(node', root, array, mask, content \ {k}, hn2, hp2)
          /\ Covered(node', root, array, content \ {k}, hn2, hp2)
          /\ Values(node', content \ {k}, hn2, hp2) /\ Hashes(node', content \ {k}, hn2, hp2)
          /\ \A l \in content \ {k} : /\ root[hn2[l]] = root[hn[l]]
                                      /\ Before(root, depth, n, p, hn[l], hp[l]) <=>
                                           Before(root, depth, n, p, hn2[l], hp2[l])
          /\ DOMAIN node' \subseteq DOMAIN node
          /\ n \in DOMAIN node' => node'[n].left = node[n].left /\ p - 1 <= node'[n].count
          /\ n \notin DOMAIN node' => /\ p = 1 /\ n \in Addresses /\ node[n].left # Null
                                      /\ LastOf(ch2, root[n]) = node[n].left
    BY <1>6, <2>1 DEF SlotErased
  <2>3. Basics' /\ Live' = Live /\ ~Moving'
    BY <1>1, <1>12, <1>14, EraseBasics
  <2>4. Contents(root, hn2, hp2, gn, gp, {})'
    <3>1. content' \ {} = content \ {k} /\ content' = content \ {k}
      BY <1>14
    <3>2. /\ Placed(node', root, NewArray', op'.mask, {}, gn, gp) /\ Values(node', {}, gn, gp)
          /\ Blank(node', {}, hn2, hp2)
      BY DEF Placed, Values, Blank
    <3>3. QED
      BY <1>12, <2>2, <3>1, <3>2 DEF Contents
  <2>5. Phase(root, hn2, hp2, gn, gp, {})'
    BY <1>1, <1>12, <2>3 DEF Phase, Moving
  <2>6. ASSUME NEW l \in content \ {k}
        PROVE  Ahead(w, root, depth, hn[l], hp[l]) <=> Ahead(w, root, depth, hn2[l], hp2[l])
    <3> DEFINE d == hn2[l]
               q == hp2[l]
               mem2 == node'
    <3>1. d \in DOMAIN node' /\ q \in 1 .. node'[d].count
      BY <2>2 DEF Placed
    <3>2. d \in DOMAIN node /\ root[d] = root[hn[l]] /\ root[d][1] = array
      BY <1>10, <2>2, <3>1
    <3>3. q \in Nat
      <4> DEFINE c == mem2[d].count
      <4>1. Links(mem2, Live, ch2, root, depth) /\ d \in DOMAIN mem2 /\ q \in 1 .. mem2[d].count
        BY <2>2, <3>1
      <4> HIDE DEF mem2, d, q
      <4>2. c \in 0 .. Capacity(d) /\ Capacity(d) \in Nat \ {0} /\ q \in 1 .. c
        BY <4>1, Place
      <4> HIDE DEF c
      <4>3. QED
        BY <4>2
    <3>4. Before(root, depth, n, p, hn[l], hp[l]) <=> Before(root, depth, n, p, d, q)
      BY <2>2
    <3> HIDE DEF d, q
    <3>5. Ahead(w, root, depth, d, q) <=>
            root[d][2] > walk.bucket \/ (root[d] = b /\ Before(root, depth, n, p, d, q))
      BY <1>9, <3>2, <3>3
    <3>6. Ahead(w, root, depth, hn[l], hp[l]) <=>
            root[d][2] > walk.bucket \/ (root[d] = b /\ Before(root, depth, n, p, hn[l], hp[l]))
      BY <1>9, <1>10, <3>2
    <3>7. QED
      BY <3>4, <3>5, <3>6 DEF d, q
  <2>7. walk'.unasked = {l \in content' : Ahead(walk', root, depth, hn2[l], hp2[l])}
    BY <1>7, <1>11, <1>14, <2>6 DEF w
  <2>8. \/ /\ walk'.at \in DOMAIN node' /\ root[walk'.at] = <<array, walk'.bucket>>
           /\ walk'.prev = node'[walk'.at].left /\ walk'.pos \in 0 .. node'[walk'.at].count
        \/ /\ walk'.at \in Addresses \ DOMAIN node' /\ walk'.pos = 0
           /\ walk'.prev = LastOf(ch2, <<array, walk'.bucket>>)
    <3>1. CASE n \in DOMAIN node'
      <4> DEFINE mem2 == node'
                 c == mem2[n].count
      <4>1. Links(mem2, Live, ch2, root, depth) /\ n \in DOMAIN mem2 /\ p - 1 <= c
        BY <2>2, <3>1
      <4> HIDE DEF mem2
      <4>2. c \in 0 .. Capacity(n) /\ Capacity(n) \in Nat \ {0}
        BY <4>1, Place
      <4> HIDE DEF c
      <4>3. p - 1 \in 0 .. c
        BY <1>12, <4>1, <4>2
      <4>4. p - 1 \in 0 .. node'[n].count
        BY <4>3 DEF c, mem2
      <4>5. QED
        BY <1>4, <1>7, <2>2, <3>1, <4>4 DEF b
    <3>2. CASE n \notin DOMAIN node'
      BY <1>4, <1>7, <2>2, <3>2 DEF b
    <3>3. QED
      BY <3>1, <3>2
  <2>9. Asking(ch2, root, depth, hn2, hp2)'
    BY <1>1, <1>12, <2>7, <2>8 DEF Asking
  <2>10. QED
    BY <2>2, <2>3, <2>4, <2>5, <2>9 DEF BucketsInv
<1>15. \/ UNCHANGED <<node, size, content>>
       \/ node' = EraseSlot(node, n, p) /\ size' = size - 1 /\ content' = content \ {k}
  BY <1>6 DEF AskFunctor, n, p
<1>16. QED
  BY <1>13, <1>14, <1>15

\* A step that changes nothing.
LEMMA StutterKeeps ==
  ASSUME BucketsInv, UNCHANGED vars
  PROVE  BucketsInv'
<1>1. UNCHANGED <<node, array, mask, size, nextTarget, chainCount, op, walk, content>>
  BY DEF vars
<1>2. PICK ch, root, depth, hn, hp, gn, gp, moved :
         /\ Links(node, Live, ch, root, depth) /\ Contents(root, hn, hp, gn, gp, moved)
         /\ Phase(root, hn, hp, gn, gp, moved) /\ Asking(ch, root, depth, hn, hp)
  BY DEF BucketsInv
<1>3. Live' = Live /\ Moving' = Moving /\ NewArray' = NewArray
  BY <1>1 DEF Live, Moving, NewArray
<1>4. Basics' /\ Beyond(node')
  BY <1>1 DEF BucketsInv, Basics
<1>5. Contents(root, hn, hp, gn, gp, moved)'
  BY <1>1, <1>2, <1>3 DEF Contents
<1>6. Phase(root, hn, hp, gn, gp, moved)'
  BY <1>1, <1>2, <1>3 DEF Phase
<1>7. Asking(ch, root, depth, hn, hp)'
  BY <1>1, <1>2 DEF Asking
<1>8. Links(node', Live', ch, root, depth)
  BY <1>1, <1>2, <1>3
<1>9. QED
  BY <1>4, <1>5, <1>6, <1>7, <1>8 DEF BucketsInv

-----------------------------------------------------------------------------
(***************************************************************************)
(* The inductive invariant: whatever is inserted, erased or rehashed, and  *)
(* whichever allocation fails, the nodes are in the chains of the live     *)
(* buckets, every key has one slot of its own bucket, and every slot in    *)
(* use is that of a key.                                                   *)
(***************************************************************************)
THEOREM BucketsHold ==
  ASSUME BucketChainAssumption
  PROVE  Spec => []BucketsInv
<1>1. Init => BucketsInv
  BY InitBuckets
<1>2. BucketsInv /\ [Next]_vars => BucketsInv'
  <2> SUFFICES ASSUME BucketsInv, [Next]_vars PROVE BucketsInv'
    OBVIOUS
  <2>1. ASSUME NEW k \in Keys, Emplace(k) PROVE BucketsInv'
    BY <2>1, EmplaceKeeps
  <2>2. ASSUME NEW k \in Keys, Erase(k) PROVE BucketsInv'
    BY <2>2, EraseKeeps
  <2>3. CASE EmplaceGoesOn
    BY <2>3, EmplaceGoesOnKeeps
  <2>4. ASSUME NEW m \in Masks, Rehash(m) PROVE BucketsInv'
    BY <2>4, RehashKeeps
  <2>5. CASE MoveValue
    BY <2>5, MoveValueKeeps
  <2>6. CASE EndRehash
    BY <2>6, EndRehashKeeps
  <2>7. CASE MoveFails
    BY <2>7, MoveFailsKeeps
  <2>8. CASE MoveBack
    BY <2>8, MoveBackKeeps
  <2>9. CASE RehashThrows
    BY <2>9, RehashThrowsKeeps
  <2>10. CASE EraseIf
    BY <2>10, EraseIfKeeps
  <2>11. CASE AskFunctor
    BY <2>11, AskFunctorKeeps
  <2>12. CASE NodeOnLeft
    BY <2>12, NodeOnLeftKeeps
  <2>13. CASE Clear
    BY <2>13, ClearKeeps
  <2>14. CASE UNCHANGED vars
    BY <2>14, StutterKeeps
  <2>15. QED
    BY <2>1, <2>2, <2>3, <2>4, <2>5, <2>6, <2>7, <2>8, <2>9, <2>10, <2>11, <2>12, <2>13, <2>14 DEF Next
<1>3. QED
  BY <1>1, <1>2, PTL DEF Spec

(***************************************************************************)
(* The type invariant: no node counts more values than it has room for,    *)
(* and erase_if never holds on to a node that has been freed.              *)
(***************************************************************************)
LEMMA InvType ==
  ASSUME BucketChainAssumption, BucketsInv
  PROVE  TypeOK
<1>1. Basics
  BY DEF BucketsInv
<1>2. PICK ch, root, depth, hn, hp :
         Links(node, Live, ch, root, depth) /\ Asking(ch, root, depth, hn, hp)
  BY DEF BucketsInv
<1>3. DOMAIN node \subseteq Nodes /\ \A n \in DOMAIN node : node[n] \in NodeType(n)
  BY <1>2, Place DEF Links
<1>4. ASSUME op.pc = "erase_if"
      PROVE  /\ walk.bucket \in 0 .. mask /\ walk.pos \in 0 .. Capacity(walk.at)
             /\ walk.pos > 0 => walk.at \in DOMAIN node
             /\ walk.prev \in DOMAIN node \cup {Null}
  <2> DEFINE b == <<array, walk.bucket>>
  <2>1. /\ walk.bucket \in 0 .. mask
        /\ \/ /\ walk.at \in DOMAIN node /\ root[walk.at] = b
              /\ walk.prev = node[walk.at].left /\ walk.pos \in 0 .. node[walk.at].count
           \/ walk.pos = 0 /\ walk.prev = LastOf(ch, b)
    BY <1>2, <1>4 DEF Asking
  <2>2. b \in Live
    <3>1. array # 0 /\ Buckets(array, mask) \subseteq Live
      BY <1>1, <1>4, LiveBuckets DEF Basics
    <3>2. QED
      BY <2>1, <3>1 DEF Buckets
  <2> HIDE DEF b
  <2>3. walk.prev # Null => walk.prev \in DOMAIN node
    BY <1>2, <2>1, <2>2, PrevIs
  <2>4. walk.pos \in 0 .. Capacity(walk.at) /\ (walk.pos > 0 => walk.at \in DOMAIN node)
    <3> DEFINE n == walk.at
               p == walk.pos
               c == node[n].count
    <3>1. Capacity(n) \in Nat \ {0}
      BY CapacityPositive
    <3>2. CASE n \in DOMAIN node /\ p \in 0 .. c
      <4>1. c \in 0 .. Capacity(n)
        BY <1>2, <3>2, Place
      <4> HIDE DEF c, n, p
      <4>2. p \in 0 .. Capacity(n) /\ n \in DOMAIN node
        BY <3>1, <3>2, <4>1
      <4>3. QED
        BY <4>2 DEF n, p
    <3>3. CASE p = 0
      BY <3>1, <3>3
    <3>4. QED
      BY <2>1, <3>2, <3>3
  <2>5. QED
    BY <2>1, <2>3, <2>4
<1>5. QED
  BY <1>1, <1>3, <1>4 DEF TypeOK, Basics

\* The type invariant: no node counts more values than it has room for, whatever insert, erase
\* and move_back do, and the nodes where erase_if is, and where it goes next, are allocated.
THEOREM BucketTypes ==
  ASSUME BucketChainAssumption
  PROVE  Spec => []TypeOK
<1>1. Spec => []BucketsInv
  BY BucketsHold
<1>2. BucketsInv => TypeOK
  BY InvType
<1>3. QED
  BY <1>1, <1>2, PTL

(***************************************************************************)
(* ChainShape: nothing dangles and nothing leaks, in both arrays of a      *)
(* rehash and after one that failed.                                       *)
(***************************************************************************)
LEMMA InvShape ==
  ASSUME BucketChainAssumption, BucketsInv
  PROVE  ChainShape
<1>1. Basics
  BY DEF BucketsInv
<1>2. PICK ch, root, depth : Links(node, Live, ch, root, depth)
  BY DEF BucketsInv
<1>3. ASSUME NEW n \in DOMAIN node, node[n].right # Null
      PROVE  /\ node[n].right \in DOMAIN node /\ Full(node, n)
             /\ node[node[n].right].left = n /\ node[node[n].right].count > 0
  <2> DEFINE r == node[n].right
             h == Height(ch, root[n])
             i == depth[n]
  <2>1. i \in 1 .. h /\ h \in Nat /\ ch[root[n]][i] = n
    BY <1>2, Place
  <2>2. i # h
    BY <1>2, <1>3, Neighbours
  <2>3. i < h
    <3> HIDE DEF i, h
    <3>1. QED
      BY <2>1, <2>2
  <2>4. r \in DOMAIN node /\ root[r] = root[n] /\ depth[r] = i + 1 /\ node[n].count = Capacity(n)
    BY <1>2, <2>3, Neighbours
  <2> HIDE DEF r, h, i
  <2>5. depth[r] > 1 /\ depth[r] - 1 = i
    BY <2>1, <2>4
  <2>6. node[r].left = ch[root[r]][depth[r] - 1]
    BY <1>2, <2>4, <2>5, Neighbours
  <2>7. node[r].count > 0
    BY <1>2, <2>4, <2>5, Place
  <2>8. node[r].left = n
    BY <2>1, <2>4, <2>5, <2>6
  <2>9. QED
    BY <2>4, <2>7, <2>8 DEF r, Full
<1>4. DOMAIN node \cap Main = Live
  BY <1>2 DEF Links
<1>5. ASSUME NEW b \in Live
      PROVE  /\ Range(Chain(node, b)) \ {b} = {d \in DOMAIN node : root[d] = b /\ d # b}
             /\ node[b].left = Null
  <2>1. b \in DOMAIN node /\ root[b] = b /\ depth[b] = 1
    BY <1>2, <1>5, First
  <2>2. Range(Chain(node, b)) = {d \in DOMAIN node : root[d] = b /\ 1 <= depth[d]}
    <3>1. Range(Chain(node, b)) = {d \in DOMAIN node : root[d] = root[b] /\ depth[b] <= depth[d]}
      BY <1>2, <2>1, ChainOf
    <3>2. QED
      BY <2>1, <3>1
  <2>3. ASSUME NEW d \in DOMAIN node PROVE 1 <= depth[d]
    <3>1. depth[d] \in 1 .. Height(ch, root[d]) /\ Height(ch, root[d]) \in Nat
      BY <1>2, Place
    <3>2. QED
      BY <3>1
  <2>4. node[b].left = Null
    <3>1. b \in DOMAIN node
      BY <2>1
    <3>2. depth[b] = 1 => node[b].left = Null
      BY <1>2, <3>1, FirstNode
    <3>3. QED
      BY <2>1, <3>2
  <2>5. QED
    BY <2>2, <2>3, <2>4
<1>6. ASSUME NEW n
      PROVE  n \in DOMAIN node \cap Addresses <=> \E b \in Live : n \in {d \in DOMAIN node : root[d] = b /\ d # b}
  <2>1. ASSUME n \in DOMAIN node, n \in Addresses PROVE root[n] \in Live /\ root[n] # n
    <3>1. root[n] \in Live /\ root[n] \in Main
      BY <1>2, <2>1, Place
    <3>2. QED
      BY <2>1, <3>1, Apart
  <2>2. ASSUME NEW b \in Live, n \in DOMAIN node, root[n] = b, n # b PROVE n \in Addresses
    <3>1. depth[n] \in 1 .. Height(ch, root[n]) /\ Height(ch, root[n]) \in Nat
      BY <1>2, <2>2, Place
    <3>2. depth[n] # 1
      <4>1. ASSUME depth[n] = 1 PROVE n = root[n]
        BY <1>2, <2>2, <4>1, FirstNode
      <4>2. QED
        BY <2>2, <4>1
    <3>3. depth[n] > 1
      BY <3>1, <3>2
    <3>4. QED
      BY <1>2, <2>2, <3>3, Place
  <2>3. QED
    BY <2>1, <2>2
<1>7. DOMAIN node \cap Addresses = UNION {Range(Chain(node, b)) \ {b} : b \in Live}
  BY <1>5, <1>6
<1>8. Live = (IF array = 0 THEN {} ELSE {array} \X (0 .. mask)) \cup
             (IF op.pc \in {"move", "back"} THEN {NewArray} \X (0 .. op.mask) ELSE {})
  <2>1. NewArray # 0
    BY <1>1, LiveBuckets
  <2>2. QED
    BY <2>1 DEF Live, Buckets, Moving
<1>9. QED
  BY <1>3, <1>4, <1>5, <1>7, <1>8 DEF ChainShape

\* Nothing dangles and nothing leaks through emplace, erase, clear and a rehash, done or failed:
\* every dense node is in the chain of a live bucket, is not empty, and the one before it is full.
THEOREM NothingLeaks ==
  ASSUME BucketChainAssumption
  PROVE  Spec => []ChainShape
<1>1. Spec => []BucketsInv
  BY BucketsHold
<1>2. BucketsInv => ChainShape
  BY InvShape
<1>3. QED
  BY <1>1, <1>2, PTL

(***************************************************************************)
(* LookupFinds: outside a rehash a lookup finds the keys that were         *)
(* inserted and not erased, each in one slot, and size() counts them.      *)
(***************************************************************************)
LEMMA InvFinds ==
  ASSUME BucketChainAssumption, BucketsInv
  PROVE  LookupFinds
<1> SUFFICES ASSUME op.pc \notin {"move", "back"}
             PROVE  /\ size = Cardinality(content)
                    /\ \A k \in Keys :
                         Cardinality(IF array = 0 THEN {} ELSE Find(node, Bucket(array, mask, k), k)) =
                           IF k \in content THEN 1 ELSE 0
  BY DEF LookupFinds
<1>1. Basics /\ Beyond(node) /\ ~Moving
  BY DEF BucketsInv, Moving
<1>2. PICK ch, root, depth, hn, hp, gn, gp, moved :
         /\ Links(node, Live, ch, root, depth) /\ Contents(root, hn, hp, gn, gp, moved)
         /\ Phase(root, hn, hp, gn, gp, moved)
  BY DEF BucketsInv
<1>3. Whole(root, hn, hp)
  <2>1. moved = {} /\ content \ {} = content
    BY <1>1, <1>2 DEF Phase
  <2>2. QED
    BY <1>2, <2>1 DEF Contents, Whole
<1>4. size = Cardinality(content) /\ (array = 0 => content = {})
  BY <1>1 DEF Basics
<1>5. ASSUME NEW k \in Keys
      PROVE  Cardinality(IF array = 0 THEN {} ELSE Find(node, Bucket(array, mask, k), k)) =
               IF k \in content THEN 1 ELSE 0
  <2> DEFINE F == IF array = 0 THEN {} ELSE Find(node, Bucket(array, mask, k), k)
  <2>1. F = IF k \in content THEN {<<hn[k], hp[k]>>} ELSE {}
    <3>1. CASE array = 0
      BY <1>4, <3>1
    <3>2. CASE array # 0
      <4> DEFINE b == Bucket(array, mask, k)
      <4>1. b \in Live
        <5>1. array \in 1 .. 2 /\ mask \in Masks /\ Live = Buckets(array, mask)
          BY <1>1, <3>2, LiveBuckets DEF Basics
        <5>2. QED
          BY <5>1, BucketOf
      <4>2. Find(node, b, k) = IF k \in content THEN {<<hn[k], hp[k]>>} ELSE {}
        <5>1. /\ Placed(node, root, array, mask, content, hn, hp)
              /\ Covered(node, root, array, content, hn, hp)
              /\ Values(node, content, hn, hp) /\ Hashes(node, content, hn, hp)
          BY <1>3 DEF Whole
        <5>2. QED
          BY <1>1, <1>2, <4>1, <5>1, FindIs
      <4>3. QED
        BY <3>2, <4>2
    <3>3. QED
      BY <3>1, <3>2
  <2>2. Cardinality({<<hn[k], hp[k]>>}) = 1 /\ Cardinality({}) = 0
    BY FS_Singleton, FS_EmptySet
  <2> HIDE DEF F
  <2>3. Cardinality(F) = IF k \in content THEN 1 ELSE 0
    BY <2>1, <2>2
  <2>4. QED
    BY <2>3 DEF F
<1>6. QED
  BY <1>4, <1>5

\* Outside a rehash, a lookup goes through the chain of the bucket of the hash, by tiny hashes
\* first, and finds every key that was inserted and not erased once, and no other; size() is exact.
THEOREM LookupIsExact ==
  ASSUME BucketChainAssumption
  PROVE  Spec => []LookupFinds
<1>1. Spec => []BucketsInv
  BY BucketsHold
<1>2. BucketsInv => LookupFinds
  BY InvFinds
<1>3. QED
  BY <1>1, <1>2, PTL

(***************************************************************************)
(* EraseIfAsksAll: the values that the functor has not seen are those in   *)
(* the slots the loops of erase_if still come to.                          *)
(***************************************************************************)
LEMMA InvAsks ==
  ASSUME BucketChainAssumption, BucketsInv
  PROVE  EraseIfAsksAll
<1>1. Basics
  BY DEF BucketsInv
<1>2. PICK ch, root, depth, hn, hp, gn, gp, moved :
         /\ Links(node, Live, ch, root, depth) /\ Contents(root, hn, hp, gn, gp, moved)
         /\ Phase(root, hn, hp, gn, gp, moved) /\ Asking(ch, root, depth, hn, hp)
  BY DEF BucketsInv
<1>3. CASE op.pc # "erase_if"
  BY <1>2, <1>3 DEF EraseIfAsksAll, Asking
<1>4. CASE op.pc = "erase_if"
  <2> DEFINE b       == <<array, walk.bucket>>
             n       == walk.at
             prev    == walk.prev
             Here    == {node[n].vals[p] : p \in 1 .. walk.pos}
             Upto(e) == {d \in DOMAIN node : e \in Range(Chain(node, d))}
             Left    == IF prev = Null THEN {} ELSE ValuesIn(Upto(prev))
             Rest    == ValuesIn(UNION {Range(Chain(node, <<array, i>>)) : i \in walk.bucket + 1 .. mask})
  <2>1. ~Moving /\ array # 0
    BY <1>1, <1>4 DEF Moving, Basics
  <2>2. Whole(root, hn, hp)
    <3>1. moved = {} /\ content \ {} = content
      BY <1>2, <2>1 DEF Phase
    <3>2. QED
      BY <1>2, <3>1 DEF Contents, Whole
  <2>3. /\ walk.bucket \in 0 .. mask
        /\ \/ /\ n \in DOMAIN node /\ root[n] = b
              /\ prev = node[n].left /\ walk.pos \in 0 .. node[n].count
           \/ walk.pos = 0 /\ prev = LastOf(ch, b)
        /\ walk.unasked = {k \in content : Ahead(walk, root, depth, hn[k], hp[k])}
    BY <1>2, <1>4 DEF Asking
  <2>4. mask \in Nat /\ \A i \in 0 .. mask : <<array, i>> \in Live
    <3>1. mask \in Nat /\ Buckets(array, mask) \subseteq Live
      BY <1>1, LiveBuckets
    <3>2. QED
      BY <2>1, <3>1 DEF Buckets
  <2>5. prev # Null => prev \in DOMAIN node /\ root[prev] = b
    <3>1. b \in Live
      BY <2>3, <2>4
    <3> HIDE DEF b, prev, n
    <3>2. QED
      BY <1>2, <2>3, <3>1, PrevIs
  <2>6. ASSUME NEW d \in DOMAIN node, NEW p \in 1 .. node[d].count, root[d][1] = array
        PROVE  \E k \in content : hn[k] = d /\ hp[k] = p /\ node[d].vals[p] = k
    <3>1. PICK k \in content : hn[k] = d /\ hp[k] = p
      BY <2>2, <2>6 DEF Whole, Covered
    <3>2. QED
      BY <2>2, <3>1 DEF Whole, Values
  <2>7. ASSUME NEW k \in content
        PROVE  /\ hn[k] \in DOMAIN node /\ hp[k] \in 1 .. node[hn[k]].count
               /\ root[hn[k]] = <<array, root[hn[k]][2]>> /\ root[hn[k]][2] \in 0 .. mask
               /\ node[hn[k]].vals[hp[k]] = k
    <3>1. /\ hn[k] \in DOMAIN node /\ hp[k] \in 1 .. node[hn[k]].count
          /\ root[hn[k]][1] = array /\ root[hn[k]][2] \in 0 .. mask
      BY <1>1, <2>1, <2>2, HomeIs
    <3>2. root[hn[k]] \in {1, 2} \X (0 .. MaxMask)
      BY <1>2, <3>1, Place DEF Main
    <3>3. root[hn[k]] = <<array, root[hn[k]][2]>>
      BY <3>1, <3>2
    <3>4. QED
      BY <2>2, <3>1, <3>3 DEF Whole, Values
  <2>8. prev # Null => Upto(prev) = {d \in DOMAIN node : root[d] = b /\ depth[d] <= depth[prev]}
    <3> SUFFICES ASSUME prev # Null, NEW d \in DOMAIN node
                 PROVE  prev \in Range(Chain(node, d)) <=> root[d] = b /\ depth[d] <= depth[prev]
      OBVIOUS
    <3>1. Range(Chain(node, d)) = {e \in DOMAIN node : root[e] = root[d] /\ depth[d] <= depth[e]}
      BY <1>2, ChainOf
    <3> HIDE DEF prev, b
    <3>2. QED
      BY <2>5, <3>1
  <2>9. ASSUME NEW i \in 0 .. mask
        PROVE  Range(Chain(node, <<array, i>>)) = {d \in DOMAIN node : root[d] = <<array, i>>}
    <3> DEFINE e == <<array, i>>
    <3>1. e \in Live
      BY <2>4
    <3> HIDE DEF e
    <3>2. NodesOf(node, e) = Chain(node, e) /\ Range(NodesOf(node, e)) = {d \in DOMAIN node : root[d] = e}
      BY <1>2, <3>1, NodesOfIs
    <3>3. QED
      BY <3>2 DEF e
  <2> HIDE DEF Upto
  <2>10. ASSUME NEW k \in content, Ahead(walk, root, depth, hn[k], hp[k])
         PROVE  k \in Here \cup Left \cup Rest
    <3> DEFINE d == hn[k]
               q == hp[k]
    <3>1. /\ d \in DOMAIN node /\ q \in 1 .. node[d].count /\ root[d] = <<array, root[d][2]>>
          /\ root[d][2] \in 0 .. mask /\ node[d].vals[q] = k
      BY <2>7
    <3> HIDE DEF d, q
    <3>2. CASE root[d][2] > walk.bucket
      <4>1. root[d][2] \in walk.bucket + 1 .. mask
        BY <2>3, <2>4, <3>1, <3>2
      <4>2. d \in Range(Chain(node, <<array, root[d][2]>>))
        BY <2>9, <3>1
      <4>3. k \in Rest
        BY <3>1, <4>1, <4>2 DEF ValuesIn
      <4>4. QED
        BY <4>3
    <3>3. CASE root[d][2] = walk.bucket /\ prev # Null /\ depth[d] <= depth[prev]
      <4>1. d \in Upto(prev)
        BY <2>8, <3>1, <3>3
      <4>2. k \in Left
        BY <3>1, <3>3, <4>1 DEF ValuesIn
      <4>3. QED
        BY <4>2
    <3>4. CASE d = n /\ q <= walk.pos
      <4> DEFINE c == node[d].count
      <4>1. c \in 0 .. Capacity(d) /\ Capacity(d) \in Nat \ {0}
        BY <1>2, <3>1, Place
      <4>2. walk.pos \in 0 .. c \/ walk.pos = 0
        BY <2>3, <3>4
      <4>3. q \in 1 .. c
        BY <3>1
      <4> HIDE DEF c
      <4>4. q \in 1 .. walk.pos
        BY <3>4, <4>1, <4>2, <4>3
      <4>5. QED
        BY <3>1, <3>4, <4>4
    <3>5. QED
      BY <2>10, <3>2, <3>3, <3>4 DEF Ahead, d, q
  <2>11. ASSUME NEW x \in Here PROVE x \in content /\ Ahead(walk, root, depth, hn[x], hp[x])
    <3>1. PICK p \in 1 .. walk.pos : x = node[n].vals[p]
      OBVIOUS
    <3>2. /\ n \in DOMAIN node /\ root[n] = b /\ walk.pos \in 0 .. node[n].count
      BY <2>3, <3>1
    <3> DEFINE c == node[n].count
               t == walk.pos
    <3>3. c \in 0 .. Capacity(n) /\ Capacity(n) \in Nat \ {0} /\ t \in 0 .. c /\ p \in 1 .. t
      BY <1>2, <3>1, <3>2, Place
    <3> HIDE DEF c, t
    <3>4. p \in 1 .. c /\ p <= t
      BY <3>3
    <3>5. PICK k \in content : hn[k] = n /\ hp[k] = p /\ node[n].vals[p] = k
      <4>1. p \in 1 .. node[n].count /\ root[n][1] = array
        BY <3>2, <3>4 DEF c
      <4>2. QED
        BY <2>6, <3>2, <4>1
    <3>6. root[n][2] = walk.bucket /\ p <= walk.pos
      BY <3>2, <3>4 DEF t
    <3>7. QED
      BY <3>1, <3>5, <3>6 DEF Ahead
  <2>12. ASSUME NEW x \in Left PROVE x \in content /\ Ahead(walk, root, depth, hn[x], hp[x])
    <3>1. prev # Null /\ x \in ValuesIn(Upto(prev))
      BY <2>12
    <3>2. PICK d \in Upto(prev) : x \in {node[d].vals[p] : p \in 1 .. node[d].count}
      BY <3>1 DEF ValuesIn
    <3>3. PICK p \in 1 .. node[d].count : x = node[d].vals[p]
      BY <3>2
    <3>4. d \in DOMAIN node /\ root[d] = b /\ depth[d] <= depth[prev]
      BY <2>8, <3>1
    <3>5. PICK k \in content : hn[k] = d /\ hp[k] = p /\ node[d].vals[p] = k
      BY <2>6, <3>4
    <3>6. QED
      BY <3>1, <3>3, <3>4, <3>5 DEF Ahead
  <2>13. ASSUME NEW x \in Rest PROVE x \in content /\ Ahead(walk, root, depth, hn[x], hp[x])
    <3>1. PICK d \in UNION {Range(Chain(node, <<array, i>>)) : i \in walk.bucket + 1 .. mask} :
            x \in {node[d].vals[p] : p \in 1 .. node[d].count}
      BY <2>13 DEF ValuesIn
    <3>2. PICK p \in 1 .. node[d].count : x = node[d].vals[p]
      BY <3>1
    <3>3. PICK i \in walk.bucket + 1 .. mask : d \in Range(Chain(node, <<array, i>>))
      BY <3>1
    <3>4. i \in 0 .. mask /\ i > walk.bucket
      BY <2>3, <2>4
    <3>5. d \in DOMAIN node /\ root[d] = <<array, i>>
      BY <2>9, <3>3, <3>4
    <3>6. PICK k \in content : hn[k] = d /\ hp[k] = p /\ node[d].vals[p] = k
      BY <2>6, <3>5
    <3>7. QED
      BY <3>2, <3>4, <3>5, <3>6 DEF Ahead
  <2>14. walk.unasked = Here \cup Left \cup Rest
    <3> HIDE DEF Here, Left, Rest
    <3>1. QED
      BY <2>3, <2>10, <2>11, <2>12, <2>13
  <2>15. QED
    BY <1>4, <2>14 DEF EraseIfAsksAll, Upto
<1>5. QED
  BY <1>3, <1>4

\* erase_if goes through a chain from the end while its erasures close the holes: what it has not
\* asked its functor about is what its loops have still to reach, so it asks about each value once.
THEOREM EraseIfIsComplete ==
  ASSUME BucketChainAssumption
  PROVE  Spec => []EraseIfAsksAll
<1>1. Spec => []BucketsInv
  BY BucketsHold
<1>2. BucketsInv => EraseIfAsksAll
  BY InvAsks
<1>3. QED
  BY <1>1, <1>2, PTL
=============================================================================
