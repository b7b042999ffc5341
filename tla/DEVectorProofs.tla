--------------------------- MODULE DEVectorProofs ---------------------------
(***************************************************************************)
(* For every capacity: a devector has its objects in the slots from start  *)
(* to end and in no other, whatever throws, its pushes are amortized, and  *)
(* each of its calls makes of the values what it promises.  The loops of   *)
(* the model are folds; what a fold computes is shown by induction on its  *)
(* steps, then what each operation makes of the slots, then of the values. *)
(***************************************************************************)
EXTENDS DEVector, PowersOfTwo, SequenceTheorems

-----------------------------------------------------------------------------
(***************************************************************************)
(* What a fold over a sequence computes, one step at a time: induction on  *)
(* the length of a prefix, from the least number of a set.                 *)
(***************************************************************************)
\* The largest number of a prefix, and of a set with the number after the prefix.
LEMMA TopOfPrefix ==
  ASSUME NEW n \in Nat, NEW s \in SUBSET (1 .. n + 1), n + 1 \in s
  PROVE  Max(s) = n + 1
<1>1. \A x \in s : (\A y \in s : x >= y) => x = n + 1
  OBVIOUS
<1>2. n + 1 \in s /\ \A y \in s : n + 1 >= y
  OBVIOUS
<1>3. Max(s) \in s /\ \A y \in s : Max(s) >= y
  BY <1>2 DEF Max
<1>4. QED
  BY <1>1, <1>3

\* A set of numbers of a sequence has a largest one: the least, counted down.
LEMMA TopIn ==
  ASSUME NEW n \in Nat, NEW s \in SUBSET (1 .. n), s # {}
  PROVE  Max(s) \in s /\ \A y \in s : Max(s) >= y
<1> DEFINE Down == {n - y : y \in s}
<1>1. Down \in SUBSET Nat /\ Down # {}
  <2>1. \A y \in s : y \in 1 .. n /\ n - y \in Nat
    OBVIOUS
  <2>2. QED
    BY <2>1
<1>2. PICK m \in Down : \A k \in Down : m <= k
  <2> HIDE DEF Down
  <2> QED
    BY <1>1, LeastNumber
<1>3. PICK x \in s : m = n - x
  BY <1>2
<1>4. ASSUME NEW y \in s PROVE x >= y
  <2>1. n - y \in Down /\ n - x <= n - y
    BY <1>2, <1>3
  <2>2. x \in 1 .. n /\ y \in 1 .. n
    OBVIOUS
  <2>3. QED
    BY <2>1, <2>2
<1>5. QED
  BY <1>4 DEF Max

\* g folds F over the places of every set, the last one last.
IsFold(g, F, base, seq, n) ==
  g = [s \in SUBSET (1 .. n) |->
        IF s = {} THEN base ELSE F[<<g[s \ {Max(s)}], seq[Max(s)]>>]]

\* A step function of values in M can be folded over any sequence.
LEMMA FoldExists ==
  ASSUME NEW M, NEW D, NEW F \in [M \X D -> M], NEW base \in M,
         NEW n \in Nat, NEW seq \in [1 .. n -> D]
  PROVE  \E g \in [SUBSET (1 .. n) -> M] : IsFold(g, F, base, seq, n)
<1> DEFINE Q(g, k) == IsFold(g, F, base, seq, k)
           Bad == {k \in 0 .. n : ~ \E g \in [SUBSET (1 .. k) -> M] : Q(g, k)}
<1> SUFFICES ASSUME Bad # {} PROVE FALSE
  <2>1. n \in 0 .. n
    OBVIOUS
  <2>2. n \notin Bad => \E g \in [SUBSET (1 .. n) -> M] : Q(g, n)
    <3> HIDE DEF Q, IsFold
    <3> QED
      BY <2>1
  <2>3. QED
    BY <2>2
<1> HIDE DEF Q, IsFold
<1>1. Bad \in SUBSET Nat
  OBVIOUS
<1>2. PICK k \in Bad : \A j \in Bad : k <= j
  <2> HIDE DEF Bad
  <2> QED
    BY <1>1, LeastNumber
<1>3. k # 0
  <2> DEFINE g == [s \in SUBSET (1 .. 0) |-> base]
  <2>1. SUBSET (1 .. 0) = {{}}
    OBVIOUS
  <2>2. g \in [SUBSET (1 .. 0) -> M] /\ Q(g, 0)
    BY <2>1 DEF Q, IsFold
  <2>3. QED
    BY <1>2, <2>2
<1>4. k - 1 \in 0 .. n /\ k - 1 \notin Bad /\ k \in 1 .. n
  <2>1. k \in 1 .. n
    BY <1>2, <1>3
  <2> HIDE DEF Bad
  <2>2. k - 1 \in Nat /\ ~(k <= k - 1)
    BY <2>1
  <2>3. QED
    BY <1>2, <2>1, <2>2
<1>5. PICK f \in [SUBSET (1 .. k - 1) -> M] : Q(f, k - 1)
  BY <1>4
<1> DEFINE g == [s \in SUBSET (1 .. k) |-> IF k \in s THEN F[<<f[s \ {k}], seq[k]>>] ELSE f[s]]
<1>6. ASSUME NEW s \in SUBSET (1 .. k)
      PROVE  /\ k \in s => s \ {k} \in SUBSET (1 .. k - 1) /\ Max(s) = k
             /\ k \notin s => s \in SUBSET (1 .. k - 1)
  <2>1. k - 1 \in Nat /\ (k - 1) + 1 = k
    BY <1>4
  <2>2. k \in s => Max(s) = k
    BY <2>1, TopOfPrefix
  <2>3. QED
    BY <2>1, <2>2
<1>7. g \in [SUBSET (1 .. k) -> M]
  <2> SUFFICES ASSUME NEW s \in SUBSET (1 .. k) PROVE g[s] \in M
    OBVIOUS
  <2>1. CASE k \in s
    <3>1. f[s \ {k}] \in M /\ seq[k] \in D
      BY <1>4, <1>6, <2>1
    <3>2. QED
      BY <2>1, <3>1
  <2>2. CASE k \notin s
    BY <1>6, <2>2
  <2>3. QED
    BY <2>1, <2>2
<1>8. ASSUME NEW s \in SUBSET (1 .. k)
      PROVE  g[s] = IF s = {} THEN base ELSE F[<<g[s \ {Max(s)}], seq[Max(s)]>>]
  <2>1. CASE k \in s
    <3>1. Max(s) = k /\ s \ {k} \in SUBSET (1 .. k) /\ k \notin s \ {k}
      BY <1>6, <2>1
    <3>2. g[s \ {k}] = f[s \ {k}]
      BY <3>1
    <3>3. QED
      BY <2>1, <3>1, <3>2
  <2>2. CASE k \notin s /\ s # {}
    <3>1. s \in SUBSET (1 .. k - 1)
      BY <1>6, <2>2
    <3>2. s \ {Max(s)} \in SUBSET (1 .. k) /\ s \ {Max(s)} \in SUBSET (1 .. k - 1)
          /\ k \notin s \ {Max(s)}
      BY <2>2, <3>1
    <3>3. g[s \ {Max(s)}] = f[s \ {Max(s)}] /\ g[s] = f[s]
      BY <2>2, <3>2
    <3>4. f[s] = F[<<f[s \ {Max(s)}], seq[Max(s)]>>]
      BY <1>5, <2>2, <3>1 DEF Q, IsFold
    <3>5. QED
      BY <2>2, <3>3, <3>4
  <2>3. CASE s = {}
    BY <1>5, <2>3 DEF Q, IsFold
  <2>4. QED
    BY <2>1, <2>2, <2>3
<1>9. Q(g, k)
  <2>1. \A s \in SUBSET (1 .. k) : g[s] = IF s = {} THEN base
        ELSE F[<<g[s \ {Max(s)}], seq[Max(s)]>>]
    BY <1>8
  <2>2. g = [s \in SUBSET (1 .. k) |-> g[s]]
    OBVIOUS
  <2> HIDE DEF g
  <2>3. QED
    BY <2>1, <2>2 DEF Q, IsFold
<1>10. QED
  BY <1>2, <1>7, <1>9

\* A fold in steps: from one prefix to the next.
LEMMA PrefixSteps ==
  ASSUME NEW n \in Nat, NEW k \in 1 .. n
  PROVE  /\ 1 .. k \in SUBSET (1 .. n) /\ 1 .. k # {} /\ Max(1 .. k) = k
         /\ (1 .. k) \ {k} = 1 .. k - 1
<1>1. k - 1 \in Nat /\ (k - 1) + 1 = k /\ k \in 1 .. k
  OBVIOUS
<1>2. Max(1 .. k) = k
  BY <1>1, TopOfPrefix
<1>3. QED
  BY <1>2

(***************************************************************************)
(* What a fold keeps from one prefix to the next it has at the end: S[k]   *)
(* is where the value is to be after k steps.                              *)
(***************************************************************************)
StepsInto(c, S, n) == \A k \in 1 .. n : c[1 .. k - 1] \in S[k - 1] => c[1 .. k] \in S[k]

\* From the prefix of length 0 to the whole sequence: no first step leads out of S.
LEMMA PrefixInduction ==
  ASSUME NEW n \in Nat, NEW c, NEW S, c[{}] \in S[0], StepsInto(c, S, n)
  PROVE  c[1 .. n] \in S[n]
<1> DEFINE Bad == {k \in 0 .. n : c[1 .. k] \notin S[k]}
<1> SUFFICES ASSUME Bad # {} PROVE FALSE
  <2>1. n \in 0 .. n
    OBVIOUS
  <2>2. QED
    BY <2>1
<1>1. PICK k \in Bad : \A j \in Bad : k <= j
  <2>1. Bad \in SUBSET Nat
    OBVIOUS
  <2> HIDE DEF Bad
  <2>2. QED
    BY <2>1, LeastNumber
<1>2. k # 0
  <2>1. 1 .. 0 = {}
    OBVIOUS
  <2>2. QED
    BY <1>1, <2>1
<1>3. k \in 1 .. n /\ k - 1 \in 0 .. n /\ k - 1 \notin Bad
  BY <1>1, <1>2
<1>4. QED
  BY <1>1, <1>3 DEF StepsInto

-----------------------------------------------------------------------------
(***************************************************************************)
(* The loops of the model, one step at a time: an instance of              *)
(* PrefixInduction for each. Every state of a fold is in S[k] after k      *)
(* steps if each step leads from S[k - 1] to S[k].                         *)
(***************************************************************************)
\* destroy_range, step by step.
LEMMA DestroyFold ==
  ASSUME NEW M, NEW mem \in M, NEW from \in Int, NEW to \in Int, from <= to,
         \A m \in M, i \in from .. to - 1 : Destroy(m, i) \in M,
         NEW S, mem \in S[0],
         \A k \in 1 .. to - from : \A m \in S[k - 1] : Destroy(m, from + k - 1) \in S[k]
  PROVE  DestroyRange(mem, from, to) \in S[to - from]
<1> DEFINE n == to - from
           seq == [k \in 1 .. to - from |-> from + k - 1]
           F == [p \in M \X (from .. to - 1) |-> Destroy(p[1], p[2])]
           Q(g) == g = [w \in SUBSET DOMAIN seq |->
                         IF w = {} THEN mem ELSE Destroy(g[w \ {Max(w)}], seq[Max(w)])]
           c == CHOOSE g : Q(g)
<1>1. DestroyRange(mem, from, to) = c[DOMAIN seq]
  BY DEF DestroyRange, Each, FoldLeft, MapThenFoldSet
<1>2. n \in Nat /\ seq \in [1 .. n -> from .. to - 1] /\ DOMAIN seq = 1 .. n
  OBVIOUS
<1> HIDE DEF n
<1>3. PICK f \in [SUBSET (1 .. n) -> M] : IsFold(f, F, mem, seq, n)
  <2> HIDE DEF F, seq
  <2>1. F \in [M \X (from .. to - 1) -> M]
    BY DEF F
  <2>2. QED
    BY <1>2, <2>1, FoldExists, Zenon
<1>4. Q(f)
  <2> HIDE DEF seq
  <2>1. ASSUME NEW w \in SUBSET (1 .. n), w # {} PROVE f[w] = Destroy(f[w \ {Max(w)}], seq[Max(w)])
    <3>1. Max(w) \in 1 .. n /\ f[w \ {Max(w)}] \in M /\ seq[Max(w)] \in from .. to - 1
      BY <1>2, <2>1, TopIn
    <3>2. f[w] = F[<<f[w \ {Max(w)}], seq[Max(w)]>>]
      <4> HIDE DEF F
      <4>1. QED
        BY <1>3, <2>1 DEF IsFold
    <3>3. QED
      BY <3>1, <3>2
  <2>2. f = [w \in SUBSET (1 .. n) |-> f[w]] /\ f[{}] = mem
    BY <1>2, <1>3 DEF IsFold
  <2>3. QED
    BY <1>2, <2>1, <2>2
<1>5. Q(c)
  <2> HIDE DEF Q
  <2>1. QED
    BY <1>4
<1> HIDE DEF c
<1>6. c[{}] = mem /\ StepsInto(c, S, n)
  <2>1. ASSUME NEW k \in 1 .. n PROVE c[1 .. k] = Destroy(c[1 .. k - 1], seq[k])
    <3> HIDE DEF seq
    <3>1. 1 .. k \in SUBSET (1 .. n) /\ 1 .. k # {} /\ Max(1 .. k) = k /\ (1 .. k) \ {k} =
          1 .. k - 1
      BY <1>2, PrefixSteps
    <3>2. QED
      BY <1>2, <1>5, <3>1
  <2>2. c[{}] = mem
    <3> HIDE DEF seq
    <3>1. QED
      BY <1>2, <1>5
  <2>3. ASSUME NEW k \in 1 .. n, c[1 .. k - 1] \in S[k - 1] PROVE c[1 .. k] \in S[k]
    <3>1. seq[k] = from + k - 1 /\ k \in 1 .. to - from
      BY DEF n
    <3> HIDE DEF seq
    <3>2. Destroy(c[1 .. k - 1], from + k - 1) \in S[k]
      BY <2>3, <3>1
    <3>3. QED
      BY <2>1, <3>1, <3>2
  <2>4. QED
    BY <2>2, <2>3 DEF StepsInto
<1>7. QED
  <2> HIDE DEF seq
  <2>1. c[1 .. n] \in S[n]
    BY <1>2, <1>6, PrefixInduction
  <2>2. QED
    BY <1>1, <1>2, <2>1 DEF n

\* construct_range.
LEMMA ConstructFold ==
  ASSUME NEW M, NEW mem \in M, NEW from \in Int, NEW s, Len(s) \in Nat,
         \A m \in M, i \in from .. from + Len(s) - 1 : Construct(m, i, s[i - from + 1]) \in M,
         NEW S, mem \in S[0],
         \A k \in 1 .. from + Len(s) - from :
               \A m \in S[k - 1] : Construct(m, from + k - 1, s[from + k - 1 - from + 1]) \in S[k]
  PROVE  ConstructRange(mem, from, s) \in S[from + Len(s) - from]
<1> DEFINE n == from + Len(s) - from
           seq == [k \in 1 .. from + Len(s) - from |-> from + k - 1]
           F == [p \in M \X (from .. from + Len(s) - 1) |->
                 Construct(p[1], p[2], s[p[2] - from + 1])]
           Q(g) == g = [w \in SUBSET DOMAIN seq |->
                         IF w = {} THEN mem ELSE Construct(g[w \ {Max(w)}], seq[Max(w)],
                               s[seq[Max(w)] - from + 1])]
           c == CHOOSE g : Q(g)
<1>1. ConstructRange(mem, from, s) = c[DOMAIN seq]
  BY DEF ConstructRange, Construct, Each, FoldLeft, MapThenFoldSet
<1>2. n \in Nat /\ seq \in [1 .. n -> from .. from + Len(s) - 1] /\ DOMAIN seq = 1 .. n
  OBVIOUS
<1> HIDE DEF n
<1>3. PICK f \in [SUBSET (1 .. n) -> M] : IsFold(f, F, mem, seq, n)
  <2> HIDE DEF F, seq
  <2>1. F \in [M \X (from .. from + Len(s) - 1) -> M]
    BY DEF F
  <2>2. QED
    BY <1>2, <2>1, FoldExists, Zenon
<1>4. Q(f)
  <2> HIDE DEF seq
  <2>1. ASSUME NEW w \in SUBSET (1 .. n), w # {}
        PROVE f[w] = Construct(f[w \ {Max(w)}], seq[Max(w)], s[seq[Max(w)] - from + 1])
    <3>1. Max(w) \in 1 .. n /\ f[w \ {Max(w)}] \in M /\ seq[Max(w)] \in from .. from + Len(s) - 1
      BY <1>2, <2>1, TopIn
    <3>2. f[w] = F[<<f[w \ {Max(w)}], seq[Max(w)]>>]
      <4> HIDE DEF F
      <4>1. QED
        BY <1>3, <2>1 DEF IsFold
    <3>3. QED
      BY <3>1, <3>2
  <2>2. f = [w \in SUBSET (1 .. n) |-> f[w]] /\ f[{}] = mem
    BY <1>2, <1>3 DEF IsFold
  <2>3. QED
    BY <1>2, <2>1, <2>2
<1>5. Q(c)
  <2> HIDE DEF Q
  <2>1. QED
    BY <1>4
<1> HIDE DEF c
<1>6. c[{}] = mem /\ StepsInto(c, S, n)
  <2>1. ASSUME NEW k \in 1 .. n
        PROVE c[1 .. k] = Construct(c[1 .. k - 1], seq[k], s[seq[k] - from + 1])
    <3> HIDE DEF seq
    <3>1. 1 .. k \in SUBSET (1 .. n) /\ 1 .. k # {} /\ Max(1 .. k) = k /\ (1 .. k) \ {k} =
          1 .. k - 1
      BY <1>2, PrefixSteps
    <3>2. QED
      BY <1>2, <1>5, <3>1
  <2>2. c[{}] = mem
    <3> HIDE DEF seq
    <3>1. QED
      BY <1>2, <1>5
  <2>3. ASSUME NEW k \in 1 .. n, c[1 .. k - 1] \in S[k - 1] PROVE c[1 .. k] \in S[k]
    <3>1. seq[k] = from + k - 1 /\ k \in 1 .. from + Len(s) - from
      BY DEF n
    <3> HIDE DEF seq
    <3>2. Construct(c[1 .. k - 1], from + k - 1, s[from + k - 1 - from + 1]) \in S[k]
      BY <2>3, <3>1
    <3>3. QED
      BY <2>1, <3>1, <3>2
  <2>4. QED
    BY <2>2, <2>3 DEF StepsInto
<1>7. QED
  <2> HIDE DEF seq
  <2>1. c[1 .. n] \in S[n]
    BY <1>2, <1>6, PrefixInduction
  <2>2. QED
    BY <1>1, <1>2, <2>1 DEF n

\* The values of a range are assigned.
LEMMA AssignFold ==
  ASSUME NEW M, NEW mem \in M, NEW from \in Int, NEW s, Len(s) \in Nat,
         \A m \in M, i \in from .. from + Len(s) - 1 : Assign(m, i, s[i - from + 1]) \in M,
         NEW S, mem \in S[0],
         \A k \in 1 .. from + Len(s) - from :
               \A m \in S[k - 1] : Assign(m, from + k - 1, s[from + k - 1 - from + 1]) \in S[k]
  PROVE  AssignRange(mem, from, s) \in S[from + Len(s) - from]
<1> DEFINE n == from + Len(s) - from
           seq == [k \in 1 .. from + Len(s) - from |-> from + k - 1]
           F == [p \in M \X (from .. from + Len(s) - 1) |-> Assign(p[1], p[2], s[p[2] - from + 1])]
           Q(g) == g = [w \in SUBSET DOMAIN seq |->
                         IF w = {} THEN mem ELSE Assign(g[w \ {Max(w)}], seq[Max(w)],
                               s[seq[Max(w)] - from + 1])]
           c == CHOOSE g : Q(g)
<1>1. AssignRange(mem, from, s) = c[DOMAIN seq]
  BY DEF AssignRange, Each, FoldLeft, MapThenFoldSet
<1>2. n \in Nat /\ seq \in [1 .. n -> from .. from + Len(s) - 1] /\ DOMAIN seq = 1 .. n
  OBVIOUS
<1> HIDE DEF n
<1>3. PICK f \in [SUBSET (1 .. n) -> M] : IsFold(f, F, mem, seq, n)
  <2> HIDE DEF F, seq
  <2>1. F \in [M \X (from .. from + Len(s) - 1) -> M]
    BY DEF F
  <2>2. QED
    BY <1>2, <2>1, FoldExists, Zenon
<1>4. Q(f)
  <2> HIDE DEF seq
  <2>1. ASSUME NEW w \in SUBSET (1 .. n), w # {}
        PROVE f[w] = Assign(f[w \ {Max(w)}], seq[Max(w)], s[seq[Max(w)] - from + 1])
    <3>1. Max(w) \in 1 .. n /\ f[w \ {Max(w)}] \in M /\ seq[Max(w)] \in from .. from + Len(s) - 1
      BY <1>2, <2>1, TopIn
    <3>2. f[w] = F[<<f[w \ {Max(w)}], seq[Max(w)]>>]
      <4> HIDE DEF F
      <4>1. QED
        BY <1>3, <2>1 DEF IsFold
    <3>3. QED
      BY <3>1, <3>2
  <2>2. f = [w \in SUBSET (1 .. n) |-> f[w]] /\ f[{}] = mem
    BY <1>2, <1>3 DEF IsFold
  <2>3. QED
    BY <1>2, <2>1, <2>2
<1>5. Q(c)
  <2> HIDE DEF Q
  <2>1. QED
    BY <1>4
<1> HIDE DEF c
<1>6. c[{}] = mem /\ StepsInto(c, S, n)
  <2>1. ASSUME NEW k \in 1 .. n
        PROVE c[1 .. k] = Assign(c[1 .. k - 1], seq[k], s[seq[k] - from + 1])
    <3> HIDE DEF seq
    <3>1. 1 .. k \in SUBSET (1 .. n) /\ 1 .. k # {} /\ Max(1 .. k) = k /\ (1 .. k) \ {k} =
          1 .. k - 1
      BY <1>2, PrefixSteps
    <3>2. QED
      BY <1>2, <1>5, <3>1
  <2>2. c[{}] = mem
    <3> HIDE DEF seq
    <3>1. QED
      BY <1>2, <1>5
  <2>3. ASSUME NEW k \in 1 .. n, c[1 .. k - 1] \in S[k - 1] PROVE c[1 .. k] \in S[k]
    <3>1. seq[k] = from + k - 1 /\ k \in 1 .. from + Len(s) - from
      BY DEF n
    <3> HIDE DEF seq
    <3>2. Assign(c[1 .. k - 1], from + k - 1, s[from + k - 1 - from + 1]) \in S[k]
      BY <2>3, <3>1
    <3>3. QED
      BY <2>1, <3>1, <3>2
  <2>4. QED
    BY <2>2, <2>3 DEF StepsInto
<1>7. QED
  <2> HIDE DEF seq
  <2>1. c[1 .. n] \in S[n]
    BY <1>2, <1>6, PrefixInduction
  <2>2. QED
    BY <1>1, <1>2, <2>1 DEF n

\* copy_destroy_input inside a block.
LEMMA CopyDestroyFold ==
  ASSUME NEW M, NEW mem \in M, NEW first \in Int, NEW last \in Int, first <= last, NEW dst \in Int,
         \A m \in M, i \in first .. last - 1 : Destroy(Construct(m, dst + i - first, m[i]),
               i) \in M,
         NEW S, mem \in S[0],
         \A k \in 1 .. last - first :
               \A m \in S[k - 1] : Destroy(Construct(m, dst + (first + k - 1) - first,
                     m[(first + k - 1)]), (first + k - 1)) \in S[k]
  PROVE  CopyDestroy(mem, first, last, dst) \in S[last - first]
<1> DEFINE n == last - first
           seq == [k \in 1 .. last - first |-> first + k - 1]
           F == [p \in M \X (first .. last - 1) |->
                 Destroy(Construct(p[1], dst + p[2] - first, p[1][p[2]]), p[2])]
           Q(g) == g = [w \in SUBSET DOMAIN seq |->
                         IF w = {} THEN mem ELSE Destroy(Construct(g[w \ {Max(w)}],
                               dst + seq[Max(w)] - first, g[w \ {Max(w)}][seq[Max(w)]]),
                                     seq[Max(w)])]
           c == CHOOSE g : Q(g)
<1>1. CopyDestroy(mem, first, last, dst) = c[DOMAIN seq]
  BY DEF CopyDestroy, Each, FoldLeft, MapThenFoldSet
<1>2. n \in Nat /\ seq \in [1 .. n -> first .. last - 1] /\ DOMAIN seq = 1 .. n
  OBVIOUS
<1> HIDE DEF n
<1>3. PICK f \in [SUBSET (1 .. n) -> M] : IsFold(f, F, mem, seq, n)
  <2> HIDE DEF F, seq
  <2>1. F \in [M \X (first .. last - 1) -> M]
    BY DEF F
  <2>2. QED
    BY <1>2, <2>1, FoldExists, Zenon
<1>4. Q(f)
  <2> HIDE DEF seq
  <2>1. ASSUME NEW w \in SUBSET (1 .. n), w # {}
        PROVE f[w] = Destroy(Construct(f[w \ {Max(w)}], dst + seq[Max(w)] - first,
              f[w \ {Max(w)}][seq[Max(w)]]), seq[Max(w)])
    <3>1. Max(w) \in 1 .. n /\ f[w \ {Max(w)}] \in M /\ seq[Max(w)] \in first .. last - 1
      BY <1>2, <2>1, TopIn
    <3>2. f[w] = F[<<f[w \ {Max(w)}], seq[Max(w)]>>]
      <4> HIDE DEF F
      <4>1. QED
        BY <1>3, <2>1 DEF IsFold
    <3>3. QED
      BY <3>1, <3>2
  <2>2. f = [w \in SUBSET (1 .. n) |-> f[w]] /\ f[{}] = mem
    BY <1>2, <1>3 DEF IsFold
  <2>3. QED
    BY <1>2, <2>1, <2>2
<1>5. Q(c)
  <2> HIDE DEF Q
  <2>1. QED
    BY <1>4
<1> HIDE DEF c
<1>6. c[{}] = mem /\ StepsInto(c, S, n)
  <2>1. ASSUME NEW k \in 1 .. n
        PROVE c[1 .. k] = Destroy(Construct(c[1 .. k - 1], dst + seq[k] - first,
              c[1 .. k - 1][seq[k]]), seq[k])
    <3> HIDE DEF seq
    <3>1. 1 .. k \in SUBSET (1 .. n) /\ 1 .. k # {} /\ Max(1 .. k) = k /\ (1 .. k) \ {k} =
          1 .. k - 1
      BY <1>2, PrefixSteps
    <3>2. QED
      BY <1>2, <1>5, <3>1
  <2>2. c[{}] = mem
    <3> HIDE DEF seq
    <3>1. QED
      BY <1>2, <1>5
  <2>3. ASSUME NEW k \in 1 .. n, c[1 .. k - 1] \in S[k - 1] PROVE c[1 .. k] \in S[k]
    <3>1. seq[k] = (first + k - 1) /\ k \in 1 .. last - first
      BY DEF n
    <3> HIDE DEF seq
    <3>2. Destroy(Construct(c[1 .. k - 1], dst + (first + k - 1) - first,
          c[1 .. k - 1][(first + k - 1)]), (first + k - 1)) \in S[k]
      BY <2>3, <3>1
    <3>3. QED
      BY <2>1, <3>1, <3>2
  <2>4. QED
    BY <2>2, <2>3 DEF StepsInto
<1>7. QED
  <2> HIDE DEF seq
  <2>1. c[1 .. n] \in S[n]
    BY <1>2, <1>6, PrefixInduction
  <2>2. QED
    BY <1>1, <1>2, <2>1 DEF n

\* The moves of move_destroy_input to the left.
LEMMA MoveLeftFold ==
  ASSUME NEW M, NEW mem \in M, NEW first \in Int, NEW dst \in Int, NEW moves \in Nat,
         \A m \in M, i \in first .. first + moves - 1 : MoveTo(m, i, dst + i - first,
               dst + i - first < first) \in M,
         NEW S, mem \in S[0],
         \A k \in 1 .. first + moves - first :
               \A m \in S[k - 1] : MoveTo(m, (first + k - 1), dst + (first + k - 1) - first,
                     dst + (first + k - 1) - first < first) \in S[k]
  PROVE  MoveLeft(mem, first, dst, moves) \in S[first + moves - first]
<1> DEFINE n == first + moves - first
           seq == [k \in 1 .. first + moves - first |-> first + k - 1]
           F == [p \in M \X (first .. first + moves - 1) |->
                 MoveTo(p[1], p[2], dst + p[2] - first, dst + p[2] - first < first)]
           Q(g) == g = [w \in SUBSET DOMAIN seq |->
                         IF w = {} THEN mem ELSE MoveTo(g[w \ {Max(w)}], seq[Max(w)],
                               dst + seq[Max(w)] - first, dst + seq[Max(w)] - first < first)]
           c == CHOOSE g : Q(g)
<1>1. MoveLeft(mem, first, dst, moves) = c[DOMAIN seq]
  BY DEF MoveLeft, MoveTo, Each, FoldLeft, MapThenFoldSet
<1>2. n \in Nat /\ seq \in [1 .. n -> first .. first + moves - 1] /\ DOMAIN seq = 1 .. n
  OBVIOUS
<1> HIDE DEF n
<1>3. PICK f \in [SUBSET (1 .. n) -> M] : IsFold(f, F, mem, seq, n)
  <2> HIDE DEF F, seq
  <2>1. F \in [M \X (first .. first + moves - 1) -> M]
    BY DEF F
  <2>2. QED
    BY <1>2, <2>1, FoldExists, Zenon
<1>4. Q(f)
  <2> HIDE DEF seq
  <2>1. ASSUME NEW w \in SUBSET (1 .. n), w # {}
        PROVE f[w] = MoveTo(f[w \ {Max(w)}], seq[Max(w)], dst + seq[Max(w)] - first,
              dst + seq[Max(w)] - first < first)
    <3>1. Max(w) \in 1 .. n /\ f[w \ {Max(w)}] \in M /\ seq[Max(w)] \in first .. first + moves - 1
      BY <1>2, <2>1, TopIn
    <3>2. f[w] = F[<<f[w \ {Max(w)}], seq[Max(w)]>>]
      <4> HIDE DEF F
      <4>1. QED
        BY <1>3, <2>1 DEF IsFold
    <3>3. QED
      BY <3>1, <3>2
  <2>2. f = [w \in SUBSET (1 .. n) |-> f[w]] /\ f[{}] = mem
    BY <1>2, <1>3 DEF IsFold
  <2>3. QED
    BY <1>2, <2>1, <2>2
<1>5. Q(c)
  <2> HIDE DEF Q
  <2>1. QED
    BY <1>4
<1> HIDE DEF c
<1>6. c[{}] = mem /\ StepsInto(c, S, n)
  <2>1. ASSUME NEW k \in 1 .. n
        PROVE c[1 .. k] = MoveTo(c[1 .. k - 1], seq[k], dst + seq[k] - first,
              dst + seq[k] - first < first)
    <3> HIDE DEF seq
    <3>1. 1 .. k \in SUBSET (1 .. n) /\ 1 .. k # {} /\ Max(1 .. k) = k /\ (1 .. k) \ {k} =
          1 .. k - 1
      BY <1>2, PrefixSteps
    <3>2. QED
      BY <1>2, <1>5, <3>1
  <2>2. c[{}] = mem
    <3> HIDE DEF seq
    <3>1. QED
      BY <1>2, <1>5
  <2>3. ASSUME NEW k \in 1 .. n, c[1 .. k - 1] \in S[k - 1] PROVE c[1 .. k] \in S[k]
    <3>1. seq[k] = (first + k - 1) /\ k \in 1 .. first + moves - first
      BY DEF n
    <3> HIDE DEF seq
    <3>2. MoveTo(c[1 .. k - 1], (first + k - 1), dst + (first + k - 1) - first,
          dst + (first + k - 1) - first < first) \in S[k]
      BY <2>3, <3>1
    <3>3. QED
      BY <2>1, <3>1, <3>2
  <2>4. QED
    BY <2>2, <2>3 DEF StepsInto
<1>7. QED
  <2> HIDE DEF seq
  <2>1. c[1 .. n] \in S[n]
    BY <1>2, <1>6, PrefixInduction
  <2>2. QED
    BY <1>1, <1>2, <2>1 DEF n

\* The moves of move_destroy_input to the right.
LEMMA MoveRightFold ==
  ASSUME NEW M, NEW mem \in M, NEW last \in Int, NEW dstEnd \in Int, NEW moves \in Nat,
         \A m \in M, i \in 1 .. moves + 1 - 1 : MoveTo(m, last - i, dstEnd - i,
               dstEnd - i >= last) \in M,
         NEW S, mem \in S[0],
         \A k \in 1 .. moves + 1 - 1 :
               \A m \in S[k - 1] : MoveTo(m, last - (1 + k - 1), dstEnd - (1 + k - 1),
                     dstEnd - (1 + k - 1) >= last) \in S[k]
  PROVE  MoveRight(mem, last, dstEnd, moves) \in S[moves + 1 - 1]
<1> DEFINE n == moves + 1 - 1
           seq == [k \in 1 .. moves + 1 - 1 |-> 1 + k - 1]
           F == [p \in M \X (1 .. moves + 1 - 1) |->
                 MoveTo(p[1], last - p[2], dstEnd - p[2], dstEnd - p[2] >= last)]
           Q(g) == g = [w \in SUBSET DOMAIN seq |->
                         IF w = {} THEN mem ELSE MoveTo(g[w \ {Max(w)}], last - seq[Max(w)],
                               dstEnd - seq[Max(w)], dstEnd - seq[Max(w)] >= last)]
           c == CHOOSE g : Q(g)
<1>1. MoveRight(mem, last, dstEnd, moves) = c[DOMAIN seq]
  BY DEF MoveRight, MoveTo, Each, FoldLeft, MapThenFoldSet
<1>2. n \in Nat /\ seq \in [1 .. n -> 1 .. moves + 1 - 1] /\ DOMAIN seq = 1 .. n
  OBVIOUS
<1> HIDE DEF n
<1>3. PICK f \in [SUBSET (1 .. n) -> M] : IsFold(f, F, mem, seq, n)
  <2> HIDE DEF F, seq
  <2>1. F \in [M \X (1 .. moves + 1 - 1) -> M]
    BY DEF F
  <2>2. QED
    BY <1>2, <2>1, FoldExists, Zenon
<1>4. Q(f)
  <2> HIDE DEF seq
  <2>1. ASSUME NEW w \in SUBSET (1 .. n), w # {}
        PROVE f[w] = MoveTo(f[w \ {Max(w)}], last - seq[Max(w)], dstEnd - seq[Max(w)],
              dstEnd - seq[Max(w)] >= last)
    <3>1. Max(w) \in 1 .. n /\ f[w \ {Max(w)}] \in M /\ seq[Max(w)] \in 1 .. moves + 1 - 1
      BY <1>2, <2>1, TopIn
    <3>2. f[w] = F[<<f[w \ {Max(w)}], seq[Max(w)]>>]
      <4> HIDE DEF F
      <4>1. QED
        BY <1>3, <2>1 DEF IsFold
    <3>3. QED
      BY <3>1, <3>2
  <2>2. f = [w \in SUBSET (1 .. n) |-> f[w]] /\ f[{}] = mem
    BY <1>2, <1>3 DEF IsFold
  <2>3. QED
    BY <1>2, <2>1, <2>2
<1>5. Q(c)
  <2> HIDE DEF Q
  <2>1. QED
    BY <1>4
<1> HIDE DEF c
<1>6. c[{}] = mem /\ StepsInto(c, S, n)
  <2>1. ASSUME NEW k \in 1 .. n
        PROVE c[1 .. k] = MoveTo(c[1 .. k - 1], last - seq[k], dstEnd - seq[k],
              dstEnd - seq[k] >= last)
    <3> HIDE DEF seq
    <3>1. 1 .. k \in SUBSET (1 .. n) /\ 1 .. k # {} /\ Max(1 .. k) = k /\ (1 .. k) \ {k} =
          1 .. k - 1
      BY <1>2, PrefixSteps
    <3>2. QED
      BY <1>2, <1>5, <3>1
  <2>2. c[{}] = mem
    <3> HIDE DEF seq
    <3>1. QED
      BY <1>2, <1>5
  <2>3. ASSUME NEW k \in 1 .. n, c[1 .. k - 1] \in S[k - 1] PROVE c[1 .. k] \in S[k]
    <3>1. seq[k] = (1 + k - 1) /\ k \in 1 .. moves + 1 - 1
      BY DEF n
    <3> HIDE DEF seq
    <3>2. MoveTo(c[1 .. k - 1], last - (1 + k - 1), dstEnd - (1 + k - 1),
          dstEnd - (1 + k - 1) >= last) \in S[k]
      BY <2>3, <3>1
    <3>3. QED
      BY <2>1, <3>1, <3>2
  <2>4. QED
    BY <2>2, <2>3 DEF StepsInto
<1>7. QED
  <2> HIDE DEF seq
  <2>1. c[1 .. n] \in S[n]
    BY <1>2, <1>6, PrefixInduction
  <2>2. QED
    BY <1>1, <1>2, <2>1 DEF n

\* std::move, value by value.
LEMMA MoveForwardFold ==
  ASSUME NEW M, NEW mem \in M, NEW first \in Int, NEW last \in Int, first <= last, NEW dst \in Int,
         \A m \in M, i \in first .. last - 1 : MoveTo(m, i, dst + i - first,
               FALSE) \in M,
         NEW S, mem \in S[0],
         \A k \in 1 .. last - first :
               \A m \in S[k - 1] : MoveTo(m, (first + k - 1), dst + (first + k - 1) - first,
                     FALSE) \in S[k]
  PROVE  MoveForward(mem, first, last, dst) \in S[last - first]
<1> DEFINE n == last - first
           seq == [k \in 1 .. last - first |-> first + k - 1]
           F == [p \in M \X (first .. last - 1) |->
                 MoveTo(p[1], p[2], dst + p[2] - first, FALSE)]
           Q(g) == g = [w \in SUBSET DOMAIN seq |->
                         IF w = {} THEN mem ELSE MoveTo(g[w \ {Max(w)}], seq[Max(w)],
                               dst + seq[Max(w)] - first, FALSE)]
           c == CHOOSE g : Q(g)
<1>1. MoveForward(mem, first, last, dst) = c[DOMAIN seq]
  BY DEF MoveForward, MoveTo, Each, FoldLeft, MapThenFoldSet
<1>2. n \in Nat /\ seq \in [1 .. n -> first .. last - 1] /\ DOMAIN seq = 1 .. n
  OBVIOUS
<1> HIDE DEF n
<1>3. PICK f \in [SUBSET (1 .. n) -> M] : IsFold(f, F, mem, seq, n)
  <2> HIDE DEF F, seq
  <2>1. F \in [M \X (first .. last - 1) -> M]
    BY DEF F
  <2>2. QED
    BY <1>2, <2>1, FoldExists, Zenon
<1>4. Q(f)
  <2> HIDE DEF seq
  <2>1. ASSUME NEW w \in SUBSET (1 .. n), w # {}
        PROVE f[w] = MoveTo(f[w \ {Max(w)}], seq[Max(w)], dst + seq[Max(w)] - first,
              FALSE)
    <3>1. Max(w) \in 1 .. n /\ f[w \ {Max(w)}] \in M /\ seq[Max(w)] \in first .. last - 1
      BY <1>2, <2>1, TopIn
    <3>2. f[w] = F[<<f[w \ {Max(w)}], seq[Max(w)]>>]
      <4> HIDE DEF F
      <4>1. QED
        BY <1>3, <2>1 DEF IsFold
    <3>3. QED
      BY <3>1, <3>2
  <2>2. f = [w \in SUBSET (1 .. n) |-> f[w]] /\ f[{}] = mem
    BY <1>2, <1>3 DEF IsFold
  <2>3. QED
    BY <1>2, <2>1, <2>2
<1>5. Q(c)
  <2> HIDE DEF Q
  <2>1. QED
    BY <1>4
<1> HIDE DEF c
<1>6. c[{}] = mem /\ StepsInto(c, S, n)
  <2>1. ASSUME NEW k \in 1 .. n
        PROVE c[1 .. k] = MoveTo(c[1 .. k - 1], seq[k], dst + seq[k] - first,
              FALSE)
    <3> HIDE DEF seq
    <3>1. 1 .. k \in SUBSET (1 .. n) /\ 1 .. k # {} /\ Max(1 .. k) = k /\ (1 .. k) \ {k} =
          1 .. k - 1
      BY <1>2, PrefixSteps
    <3>2. QED
      BY <1>2, <1>5, <3>1
  <2>2. c[{}] = mem
    <3> HIDE DEF seq
    <3>1. QED
      BY <1>2, <1>5
  <2>3. ASSUME NEW k \in 1 .. n, c[1 .. k - 1] \in S[k - 1] PROVE c[1 .. k] \in S[k]
    <3>1. seq[k] = (first + k - 1) /\ k \in 1 .. last - first
      BY DEF n
    <3> HIDE DEF seq
    <3>2. MoveTo(c[1 .. k - 1], (first + k - 1), dst + (first + k - 1) - first,
          FALSE) \in S[k]
      BY <2>3, <3>1
    <3>3. QED
      BY <2>1, <3>1, <3>2
  <2>4. QED
    BY <2>2, <2>3 DEF StepsInto
<1>7. QED
  <2> HIDE DEF seq
  <2>1. c[1 .. n] \in S[n]
    BY <1>2, <1>6, PrefixInduction
  <2>2. QED
    BY <1>1, <1>2, <2>1 DEF n

\* std::move_backward, the last value first.
LEMMA MoveBackwardFold ==
  ASSUME NEW M, NEW mem \in M, NEW first \in Int, NEW last \in Int, first <= last,
         NEW dstEnd \in Int,
         \A m \in M, i \in 1 .. (last - first + 1) - 1 : MoveTo(m, last - i, dstEnd - i,
               FALSE) \in M,
         NEW S, mem \in S[0],
         \A k \in 1 .. (last - first + 1) - 1 :
               \A m \in S[k - 1] : MoveTo(m, last - (1 + k - 1), dstEnd - (1 + k - 1),
                     FALSE) \in S[k]
  PROVE  MoveBackward(mem, first, last, dstEnd) \in S[(last - first + 1) - 1]
<1> DEFINE n == (last - first + 1) - 1
           seq == [k \in 1 .. (last - first + 1) - 1 |-> 1 + k - 1]
           F == [p \in M \X (1 .. (last - first + 1) - 1) |->
                 MoveTo(p[1], last - p[2], dstEnd - p[2], FALSE)]
           Q(g) == g = [w \in SUBSET DOMAIN seq |->
                         IF w = {} THEN mem ELSE MoveTo(g[w \ {Max(w)}], last - seq[Max(w)],
                               dstEnd - seq[Max(w)], FALSE)]
           c == CHOOSE g : Q(g)
<1>1. MoveBackward(mem, first, last, dstEnd) = c[DOMAIN seq]
  BY DEF MoveBackward, MoveTo, Each, FoldLeft, MapThenFoldSet
<1>2. n \in Nat /\ seq \in [1 .. n -> 1 .. (last - first + 1) - 1] /\ DOMAIN seq = 1 .. n
  OBVIOUS
<1> HIDE DEF n
<1>3. PICK f \in [SUBSET (1 .. n) -> M] : IsFold(f, F, mem, seq, n)
  <2> HIDE DEF F, seq
  <2>1. F \in [M \X (1 .. (last - first + 1) - 1) -> M]
    BY DEF F
  <2>2. QED
    BY <1>2, <2>1, FoldExists, Zenon
<1>4. Q(f)
  <2> HIDE DEF seq
  <2>1. ASSUME NEW w \in SUBSET (1 .. n), w # {}
        PROVE f[w] = MoveTo(f[w \ {Max(w)}], last - seq[Max(w)], dstEnd - seq[Max(w)],
              FALSE)
    <3>1. Max(w) \in 1 .. n /\ f[w \ {Max(w)}] \in M /\ seq[Max(w)] \in 1 .. (last - first + 1) - 1
      BY <1>2, <2>1, TopIn
    <3>2. f[w] = F[<<f[w \ {Max(w)}], seq[Max(w)]>>]
      <4> HIDE DEF F
      <4>1. QED
        BY <1>3, <2>1 DEF IsFold
    <3>3. QED
      BY <3>1, <3>2
  <2>2. f = [w \in SUBSET (1 .. n) |-> f[w]] /\ f[{}] = mem
    BY <1>2, <1>3 DEF IsFold
  <2>3. QED
    BY <1>2, <2>1, <2>2
<1>5. Q(c)
  <2> HIDE DEF Q
  <2>1. QED
    BY <1>4
<1> HIDE DEF c
<1>6. c[{}] = mem /\ StepsInto(c, S, n)
  <2>1. ASSUME NEW k \in 1 .. n
        PROVE c[1 .. k] = MoveTo(c[1 .. k - 1], last - seq[k], dstEnd - seq[k],
              FALSE)
    <3> HIDE DEF seq
    <3>1. 1 .. k \in SUBSET (1 .. n) /\ 1 .. k # {} /\ Max(1 .. k) = k /\ (1 .. k) \ {k} =
          1 .. k - 1
      BY <1>2, PrefixSteps
    <3>2. QED
      BY <1>2, <1>5, <3>1
  <2>2. c[{}] = mem
    <3> HIDE DEF seq
    <3>1. QED
      BY <1>2, <1>5
  <2>3. ASSUME NEW k \in 1 .. n, c[1 .. k - 1] \in S[k - 1] PROVE c[1 .. k] \in S[k]
    <3>1. seq[k] = (1 + k - 1) /\ k \in 1 .. (last - first + 1) - 1
      BY DEF n
    <3> HIDE DEF seq
    <3>2. MoveTo(c[1 .. k - 1], last - (1 + k - 1), dstEnd - (1 + k - 1),
          FALSE) \in S[k]
      BY <2>3, <3>1
    <3>3. QED
      BY <2>1, <3>1, <3>2
  <2>4. QED
    BY <2>2, <2>3 DEF StepsInto
<1>7. QED
  <2> HIDE DEF seq
  <2>1. c[1 .. n] \in S[n]
    BY <1>2, <1>6, PrefixInduction
  <2>2. QED
    BY <1>1, <1>2, <2>1 DEF n

\* Values pushed at the front, one by one.
LEMMA PushFrontFold ==
  ASSUME NEW M, NEW r \in M, NEW D, NEW len \in Nat, NEW seq \in [1 .. len -> D],
         \A m \in M, i \in D : EmplaceFront(m, i) \in M,
         NEW S, r \in S[0],
         \A k \in 1 .. len : \A m \in S[k - 1] : EmplaceFront(m, seq[k]) \in S[k]
  PROVE  PushFrontAll(r, seq) \in S[len]
<1> DEFINE n == len
           F == [p \in M \X (D) |-> EmplaceFront(p[1], p[2])]
           Q(g) == g = [w \in SUBSET DOMAIN seq |->
                         IF w = {} THEN r ELSE EmplaceFront(g[w \ {Max(w)}], seq[Max(w)])]
           c == CHOOSE g : Q(g)
<1>1. PushFrontAll(r, seq) = c[DOMAIN seq]
  BY DEF PushFrontAll, FoldLeft, MapThenFoldSet
<1>2. n \in Nat /\ seq \in [1 .. n -> D] /\ DOMAIN seq = 1 .. n
  OBVIOUS
<1> HIDE DEF n
<1>3. PICK f \in [SUBSET (1 .. n) -> M] : IsFold(f, F, r, seq, n)
  <2> HIDE DEF F
  <2>1. F \in [M \X (D) -> M]
    BY DEF F
  <2>2. QED
    BY <1>2, <2>1, FoldExists, Zenon
<1>4. Q(f)
  <2>1. ASSUME NEW w \in SUBSET (1 .. n), w # {}
        PROVE f[w] = EmplaceFront(f[w \ {Max(w)}], seq[Max(w)])
    <3>1. Max(w) \in 1 .. n /\ f[w \ {Max(w)}] \in M /\ seq[Max(w)] \in D
      BY <1>2, <2>1, TopIn
    <3>2. f[w] = F[<<f[w \ {Max(w)}], seq[Max(w)]>>]
      <4> HIDE DEF F
      <4>1. QED
        BY <1>3, <2>1 DEF IsFold
    <3>3. QED
      BY <3>1, <3>2
  <2>2. f = [w \in SUBSET (1 .. n) |-> f[w]] /\ f[{}] = r
    BY <1>2, <1>3 DEF IsFold
  <2>3. QED
    BY <1>2, <2>1, <2>2
<1>5. Q(c)
  <2> HIDE DEF Q
  <2>1. QED
    BY <1>4
<1> HIDE DEF c
<1>6. c[{}] = r /\ StepsInto(c, S, n)
  <2>1. ASSUME NEW k \in 1 .. n PROVE c[1 .. k] = EmplaceFront(c[1 .. k - 1], seq[k])
    <3>1. 1 .. k \in SUBSET (1 .. n) /\ 1 .. k # {} /\ Max(1 .. k) = k /\ (1 .. k) \ {k} =
          1 .. k - 1
      BY <1>2, PrefixSteps
    <3>2. QED
      BY <1>2, <1>5, <3>1
  <2>2. c[{}] = r
    <3>1. QED
      BY <1>2, <1>5
  <2>3. ASSUME NEW k \in 1 .. n, c[1 .. k - 1] \in S[k - 1] PROVE c[1 .. k] \in S[k]
    <3>1. seq[k] = seq[k] /\ k \in 1 .. len
      BY DEF n
    <3>2. EmplaceFront(c[1 .. k - 1], seq[k]) \in S[k]
      BY <2>3, <3>1
    <3>3. QED
      BY <2>1, <3>1, <3>2
  <2>4. QED
    BY <2>2, <2>3 DEF StepsInto
<1>7. QED
  <2>1. c[1 .. n] \in S[n]
    BY <1>2, <1>6, PrefixInduction
  <2>2. QED
    BY <1>1, <1>2, <2>1 DEF n

\* Values pushed at the back, one by one.
LEMMA PushBackFold ==
  ASSUME NEW M, NEW r \in M, NEW D, NEW len \in Nat, NEW seq \in [1 .. len -> D],
         \A m \in M, i \in D : EmplaceBack(m, i) \in M,
         NEW S, r \in S[0],
         \A k \in 1 .. len : \A m \in S[k - 1] : EmplaceBack(m, seq[k]) \in S[k]
  PROVE  PushBackAll(r, seq) \in S[len]
<1> DEFINE n == len
           F == [p \in M \X (D) |-> EmplaceBack(p[1], p[2])]
           Q(g) == g = [w \in SUBSET DOMAIN seq |->
                         IF w = {} THEN r ELSE EmplaceBack(g[w \ {Max(w)}], seq[Max(w)])]
           c == CHOOSE g : Q(g)
<1>1. PushBackAll(r, seq) = c[DOMAIN seq]
  BY DEF PushBackAll, FoldLeft, MapThenFoldSet
<1>2. n \in Nat /\ seq \in [1 .. n -> D] /\ DOMAIN seq = 1 .. n
  OBVIOUS
<1> HIDE DEF n
<1>3. PICK f \in [SUBSET (1 .. n) -> M] : IsFold(f, F, r, seq, n)
  <2> HIDE DEF F
  <2>1. F \in [M \X (D) -> M]
    BY DEF F
  <2>2. QED
    BY <1>2, <2>1, FoldExists, Zenon
<1>4. Q(f)
  <2>1. ASSUME NEW w \in SUBSET (1 .. n), w # {}
        PROVE f[w] = EmplaceBack(f[w \ {Max(w)}], seq[Max(w)])
    <3>1. Max(w) \in 1 .. n /\ f[w \ {Max(w)}] \in M /\ seq[Max(w)] \in D
      BY <1>2, <2>1, TopIn
    <3>2. f[w] = F[<<f[w \ {Max(w)}], seq[Max(w)]>>]
      <4> HIDE DEF F
      <4>1. QED
        BY <1>3, <2>1 DEF IsFold
    <3>3. QED
      BY <3>1, <3>2
  <2>2. f = [w \in SUBSET (1 .. n) |-> f[w]] /\ f[{}] = r
    BY <1>2, <1>3 DEF IsFold
  <2>3. QED
    BY <1>2, <2>1, <2>2
<1>5. Q(c)
  <2> HIDE DEF Q
  <2>1. QED
    BY <1>4
<1> HIDE DEF c
<1>6. c[{}] = r /\ StepsInto(c, S, n)
  <2>1. ASSUME NEW k \in 1 .. n PROVE c[1 .. k] = EmplaceBack(c[1 .. k - 1], seq[k])
    <3>1. 1 .. k \in SUBSET (1 .. n) /\ 1 .. k # {} /\ Max(1 .. k) = k /\ (1 .. k) \ {k} =
          1 .. k - 1
      BY <1>2, PrefixSteps
    <3>2. QED
      BY <1>2, <1>5, <3>1
  <2>2. c[{}] = r
    <3>1. QED
      BY <1>2, <1>5
  <2>3. ASSUME NEW k \in 1 .. n, c[1 .. k - 1] \in S[k - 1] PROVE c[1 .. k] \in S[k]
    <3>1. seq[k] = seq[k] /\ k \in 1 .. len
      BY DEF n
    <3>2. EmplaceBack(c[1 .. k - 1], seq[k]) \in S[k]
      BY <2>3, <3>1
    <3>3. QED
      BY <2>1, <3>1, <3>2
  <2>4. QED
    BY <2>2, <2>3 DEF StepsInto
<1>7. QED
  <2>1. c[1 .. n] \in S[n]
    BY <1>2, <1>6, PrefixInduction
  <2>2. QED
    BY <1>1, <1>2, <2>1 DEF n

-----------------------------------------------------------------------------
(***************************************************************************)
(* Blocks: what the loops make of the slots.                               *)
(***************************************************************************)
\* The contents of a block of cap slots, whose objects are in V.
Memory(cap, V) == [0 .. cap - 1 -> V \cup {Raw, Lost}]

\* What can be an object: a value, and what a move leaves of it.
Objects(V) == Moved \in V /\ Raw \notin V /\ Lost \notin V

\* The larger of two numbers.
LEMMA MaxOfTwo ==
  ASSUME NEW a \in Int, NEW b \in Int
  PROVE  Max({a, b}) = IF a >= b THEN a ELSE b
<1>1. \A x \in {a, b} : (\A y \in {a, b} : x >= y) => x = IF a >= b THEN a ELSE b
  OBVIOUS
<1>2. \E x \in {a, b} : \A y \in {a, b} : x >= y
  OBVIOUS
<1>3. Max({a, b}) \in {a, b} /\ \A y \in {a, b} : Max({a, b}) >= y
  BY <1>2 DEF Max
<1>4. QED
  BY <1>1, <1>3

\* destroy_range of slots with an object leaves them raw, and no other slot changed.
LEMMA DestroyRangeIs ==
  ASSUME NEW cap \in Nat, NEW V, Objects(V), NEW mem \in Memory(cap, V),
         NEW from \in Nat, NEW to \in Nat, from <= to, to <= cap,
         \A i \in from .. to - 1 : mem[i] # Raw
  PROVE  DestroyRange(mem, from, to) =
           [i \in 0 .. cap - 1 |-> IF from <= i /\ i < to THEN Raw ELSE mem[i]]
<1> DEFINE M == Memory(cap, V)
           g(k) == [i \in 0 .. cap - 1 |-> IF from <= i /\ i < from + k THEN Raw ELSE mem[i]]
           S == [k \in 0 .. to - from |-> {g(k)}]
<1>1. \A m \in M, i \in from .. to - 1 : Destroy(m, i) \in M
  BY DEF Memory, Destroy
<1>2. mem \in S[0]
  <2>1. mem = g(0)
    BY DEF Memory
  <2>2. QED
    BY <2>1
<1>3. ASSUME NEW k \in 1 .. to - from, NEW m \in S[k - 1] PROVE Destroy(m, from + k - 1) \in S[k]
  <2>1. m = g(k - 1) /\ S[k] = {g(k)}
    BY <1>3
  <2>2. Destroy(g(k - 1), from + k - 1) = g(k)
    <3> DEFINE j == from + k - 1
    <3>1. j \in 0 .. cap - 1 /\ g(k - 1)[j] = mem[j] /\ mem[j] # Raw
      OBVIOUS
    <3>2. ASSUME NEW i \in 0 .. cap - 1
          PROVE  g(k)[i] = IF i = j THEN Raw ELSE g(k - 1)[i]
      OBVIOUS
    <3>4. [g(k - 1) EXCEPT ![j] = Raw] = g(k)
      BY <3>2
    <3>3. QED
      BY <3>1, <3>4 DEF Destroy
  <2>3. QED
    BY <2>1, <2>2
<1>4. DestroyRange(mem, from, to) \in S[to - from]
  <2> HIDE DEF S, M
  <2>1. mem \in M
    BY DEF M
  <2>2. QED
    BY <1>1, <1>2, <1>3, <2>1, DestroyFold
<1>5. QED
  BY <1>4

\* Values constructed in raw slots are in them.
LEMMA ConstructRangeIs ==
  ASSUME NEW cap \in Nat, NEW V, Objects(V), NEW mem \in Memory(cap, V),
         NEW from \in Nat, NEW n \in Nat, NEW s \in [1 .. n -> V], Len(s) = n, from + n <= cap,
         \A i \in from .. from + n - 1 : mem[i] = Raw
  PROVE  ConstructRange(mem, from, s) =
           [i \in 0 .. cap - 1 |-> IF from <= i /\ i < from + n THEN s[i - from + 1] ELSE mem[i]]
<1> DEFINE M == Memory(cap, V)
           g(k) == [i \in 0 .. cap - 1 |->
                 IF from <= i /\ i < from + k THEN s[i - from + 1] ELSE mem[i]]
           S == [k \in 0 .. n |-> {g(k)}]
<1>1. \A m \in M, i \in from .. from + Len(s) - 1 : Construct(m, i, s[i - from + 1]) \in M
  BY DEF Memory, Construct
<1>2. mem \in S[0]
  <2>1. mem = g(0)
    BY DEF Memory
  <2>2. QED
    BY <2>1
<1>3. ASSUME NEW k \in 1 .. n, NEW m \in S[k - 1]
      PROVE  Construct(m, from + k - 1, s[from + k - 1 - from + 1]) \in S[k]
  <2>1. m = g(k - 1) /\ S[k] = {g(k)}
    BY <1>3
  <2>2. Construct(g(k - 1), from + k - 1, s[from + k - 1 - from + 1]) = g(k)
    <3> DEFINE j == from + k - 1
    <3>1. /\ j \in 0 .. cap - 1 /\ g(k - 1)[j] = mem[j] /\ mem[j] = Raw
          /\ from + k - 1 - from + 1 = k /\ j - from + 1 = k
      OBVIOUS
    <3>2. ASSUME NEW i \in 0 .. cap - 1
          PROVE  g(k)[i] = IF i = j THEN s[k] ELSE g(k - 1)[i]
      BY <3>1
    <3>4. [g(k - 1) EXCEPT ![j] = s[k]] = g(k)
      BY <3>2
    <3>3. QED
      BY <3>1, <3>4 DEF Construct
  <2>3. QED
    BY <2>1, <2>2
<1>4. ConstructRange(mem, from, s) \in S[from + Len(s) - from]
  <2> HIDE DEF S, M
  <2>1. mem \in M
    BY DEF M
  <2>2. from + Len(s) - from = n
    OBVIOUS
  <2>3. \A k \in 1 .. from + Len(s) - from : \A m \in S[k - 1] :
          Construct(m, from + k - 1, s[from + k - 1 - from + 1]) \in S[k]
    BY <1>3, <2>2
  <2>4. QED
    <3>1. from \in Int /\ Len(s) \in Nat
      OBVIOUS
    <3>2. QED
      BY <1>1, <1>2, <2>1, <2>3, <3>1, ConstructFold
<1>5. QED
  BY <1>4

\* Values assigned to slots with an object are in them.
LEMMA AssignRangeIs ==
  ASSUME NEW cap \in Nat, NEW V, Objects(V), NEW mem \in Memory(cap, V),
         NEW from \in Nat, NEW n \in Nat, NEW s \in [1 .. n -> V], Len(s) = n, from + n <= cap,
         \A i \in from .. from + n - 1 : mem[i] # Raw
  PROVE  AssignRange(mem, from, s) =
           [i \in 0 .. cap - 1 |-> IF from <= i /\ i < from + n THEN s[i - from + 1] ELSE mem[i]]
<1> DEFINE M == Memory(cap, V)
           g(k) == [i \in 0 .. cap - 1 |->
                 IF from <= i /\ i < from + k THEN s[i - from + 1] ELSE mem[i]]
           S == [k \in 0 .. n |-> {g(k)}]
<1>1. \A m \in M, i \in from .. from + Len(s) - 1 : Assign(m, i, s[i - from + 1]) \in M
  BY DEF Memory, Assign
<1>2. mem \in S[0]
  <2>1. mem = g(0)
    BY DEF Memory
  <2>2. QED
    BY <2>1
<1>3. ASSUME NEW k \in 1 .. n, NEW m \in S[k - 1]
      PROVE  Assign(m, from + k - 1, s[from + k - 1 - from + 1]) \in S[k]
  <2>1. m = g(k - 1) /\ S[k] = {g(k)}
    BY <1>3
  <2>2. Assign(g(k - 1), from + k - 1, s[from + k - 1 - from + 1]) = g(k)
    <3> DEFINE j == from + k - 1
    <3>1. /\ j \in 0 .. cap - 1 /\ g(k - 1)[j] = mem[j] /\ mem[j] # Raw
          /\ from + k - 1 - from + 1 = k /\ j - from + 1 = k
      OBVIOUS
    <3>2. ASSUME NEW i \in 0 .. cap - 1
          PROVE  g(k)[i] = IF i = j THEN s[k] ELSE g(k - 1)[i]
      BY <3>1
    <3>4. [g(k - 1) EXCEPT ![j] = s[k]] = g(k)
      BY <3>2
    <3>3. QED
      BY <3>1, <3>4 DEF Assign
  <2>3. QED
    BY <2>1, <2>2
<1>4. AssignRange(mem, from, s) \in S[from + Len(s) - from]
  <2> HIDE DEF S, M
  <2>1. mem \in M
    BY DEF M
  <2>2. from + Len(s) - from = n
    OBVIOUS
  <2>3. \A k \in 1 .. from + Len(s) - from : \A m \in S[k - 1] :
          Assign(m, from + k - 1, s[from + k - 1 - from + 1]) \in S[k]
    BY <1>3, <2>2
  <2>4. QED
    <3>1. from \in Int /\ Len(s) \in Nat
      OBVIOUS
    <3>2. QED
      BY <1>1, <1>2, <2>1, <2>3, <3>1, AssignFold
<1>5. QED
  BY <1>4

\* copy_destroy_input to raw slots: the values are there, and their old slots raw.
LEMMA CopyDestroyIs ==
  ASSUME NEW cap \in Nat, NEW V, Objects(V), NEW mem \in Memory(cap, V),
         NEW first \in Nat, NEW last \in Nat, NEW dst \in Nat, first <= last, last <= cap,
         dst + (last - first) <= cap, dst + (last - first) <= first \/ dst >= last,
         \A i \in first .. last - 1 : mem[i] # Raw,
         \A i \in dst .. dst + (last - first) - 1 : mem[i] = Raw
  PROVE  CopyDestroy(mem, first, last, dst) =
           [i \in 0 .. cap - 1 |->
             IF dst <= i /\ i < dst + (last - first) THEN mem[i - dst + first]
             ELSE IF first <= i /\ i < last THEN Raw ELSE mem[i]]
<1> DEFINE M == Memory(cap, V)
           g(k) == [i \in 0 .. cap - 1 |->
                     IF dst <= i /\ i < dst + k THEN mem[i - dst + first]
                     ELSE IF first <= i /\ i < first + k THEN Raw ELSE mem[i]]
           S == [k \in 0 .. last - first |-> {g(k)}]
<1>1. \A m \in M, i \in first .. last - 1 : Destroy(Construct(m, dst + i - first, m[i]), i) \in M
  <2>1. ASSUME NEW m \in M, NEW i \in first .. last - 1
        PROVE  Construct(m, dst + i - first, m[i]) \in M
    BY DEF Memory, Construct
  <2>2. \A m \in M, i \in first .. last - 1 : Destroy(m, i) \in M
    BY DEF Memory, Destroy
  <2> HIDE DEF M
  <2>3. QED
    BY <2>1, <2>2
<1>2. mem \in S[0]
  <2>1. mem = g(0)
    BY DEF Memory
  <2>2. QED
    BY <2>1
<1>3. ASSUME NEW k \in 1 .. last - first, NEW m \in S[k - 1]
      PROVE  Destroy(Construct(m, dst + (first + k - 1) - first, m[first + k - 1]),
            first + k - 1) \in S[k]
  <2> DEFINE j == first + k - 1
             t == dst + (first + k - 1) - first
  <2>1. m = g(k - 1) /\ S[k] = {g(k)}
    BY <1>3
  <2>2. /\ j \in 0 .. cap - 1 /\ t \in 0 .. cap - 1 /\ j # t
        /\ g(k - 1)[j] = mem[j] /\ mem[j] # Raw /\ g(k - 1)[t] = Raw
    OBVIOUS
  <2>3. ASSUME NEW i \in 0 .. cap - 1
        PROVE  g(k)[i] = IF i = j THEN Raw ELSE IF i = t THEN mem[j] ELSE g(k - 1)[i]
    <3>1. i = j => g(k)[i] = Raw
      BY <2>2
    <3>2. i = t => g(k)[i] = mem[j]
      BY <2>2
    <3>3. i # j /\ i # t => g(k)[i] = g(k - 1)[i]
      BY <2>2
    <3>4. QED
      BY <3>1, <3>2, <3>3, <2>2, Zenon
  <2>4. Construct(g(k - 1), t, mem[j]) = [g(k - 1) EXCEPT ![t] = mem[j]]
    BY <2>2 DEF Construct
  <2>5. Destroy([g(k - 1) EXCEPT ![t] = mem[j]], j) = [[g(k - 1) EXCEPT ![t] = mem[j]] EXCEPT ![j] =
        Raw]
    BY <2>2 DEF Destroy
  <2>6. [[g(k - 1) EXCEPT ![t] = mem[j]] EXCEPT ![j] = Raw] = g(k)
    BY <2>2, <2>3
  <2>7. QED
    BY <2>1, <2>2, <2>4, <2>5, <2>6
<1>4. CopyDestroy(mem, first, last, dst) \in S[last - first]
  <2> HIDE DEF S, M
  <2>1. mem \in M /\ first \in Int /\ last \in Int /\ dst \in Int
    BY DEF M
  <2>2. QED
    BY <1>1, <1>2, <1>3, <2>1, CopyDestroyFold
<1>5. QED
  BY <1>4

\* What n moves to the left leave.
LeftMoved(mem, cap, first, dst, n) ==
  [i \in 0 .. cap - 1 |->
    IF dst <= i /\ i < dst + n THEN mem[i - dst + first]
    ELSE IF first <= i /\ i < first + n THEN Moved ELSE mem[i]]

(***************************************************************************)
(* n moves to the left: the values of the first n slots are where they go, *)
(* and what was moved from stays behind them.                              *)
(***************************************************************************)
LEMMA MoveLeftIs ==
  ASSUME NEW cap \in Nat, NEW V, Objects(V), NEW mem \in Memory(cap, V),
         NEW first \in Nat, NEW dst \in Nat, NEW n \in Nat, dst < first, first + n <= cap,
         \A i \in first .. first + n - 1 : mem[i] # Raw,
         \A i \in dst .. first - 1 : mem[i] = Raw
  PROVE  MoveLeft(mem, first, dst, n) = LeftMoved(mem, cap, first, dst, n)
<1> DEFINE M == Memory(cap, V)
           g(k) == [i \in 0 .. cap - 1 |->
                     IF dst <= i /\ i < dst + k THEN mem[i - dst + first]
                     ELSE IF first <= i /\ i < first + k THEN Moved ELSE mem[i]]
           S == [k \in 0 .. n |-> {g(k)}]
<1>1. \A m \in M, i \in first .. first + n - 1 :
        MoveTo(m, i, dst + i - first, dst + i - first < first) \in M
  BY DEF Memory, MoveTo, Construct, Assign, Objects
<1>2. mem \in S[0]
  <2>1. mem = g(0)
    BY DEF Memory
  <2>2. QED
    BY <2>1
<1>3. ASSUME NEW k \in 1 .. n, NEW m \in S[k - 1]
      PROVE  MoveTo(m, first + k - 1, dst + (first + k - 1) - first,
                    dst + (first + k - 1) - first < first) \in S[k]
  <2> DEFINE j == first + k - 1
             t == dst + (first + k - 1) - first
  <2>1. m = g(k - 1) /\ S[k] = {g(k)}
    BY <1>3
  <2>2. /\ j \in 0 .. cap - 1 /\ t \in 0 .. cap - 1 /\ t < j /\ t = dst + k - 1
        /\ g(k - 1)[j] = mem[j] /\ (t < first => g(k - 1)[t] = Raw)
        /\ (~(t < first) => g(k - 1)[t] = Moved) /\ Moved # Raw
    BY DEF Objects
  <2>3. ASSUME NEW i \in 0 .. cap - 1
        PROVE  g(k)[i] = IF i = j THEN Moved ELSE IF i = t THEN mem[j] ELSE g(k - 1)[i]
    <3>1. CASE i = j
      BY <2>2, <3>1
    <3>2. CASE i = t
      BY <2>2, <3>2
    <3>3. CASE i # j /\ i # t
      BY <2>2, <3>3
    <3>4. QED
      BY <3>1, <3>2, <3>3, <2>2
  <2>4. MoveTo(g(k - 1), j, t, t < first) = [[g(k - 1) EXCEPT ![t] = mem[j]] EXCEPT ![j] = Moved]
    BY <2>2 DEF MoveTo, Construct, Assign
  <2>6. [[g(k - 1) EXCEPT ![t] = mem[j]] EXCEPT ![j] = Moved] = g(k)
    BY <2>2, <2>3
  <2>7. QED
    BY <2>1, <2>4, <2>6
<1>4. MoveLeft(mem, first, dst, n) \in S[first + n - first]
  <2> HIDE DEF S, M
  <2>1. mem \in M /\ first \in Int /\ dst \in Int /\ first + n - first = n
    BY DEF M
  <2>2. QED
    BY <1>1, <1>2, <1>3, <2>1, MoveLeftFold
<1>5. QED
  BY <1>4 DEF LeftMoved

-----------------------------------------------------------------------------
(***************************************************************************)
(* Blocks that are filled from start to end.                               *)
(***************************************************************************)
\* What n moves to the right leave.
RightMoved(mem, cap, last, dstEnd, n) ==
  [i \in 0 .. cap - 1 |->
    IF dstEnd - n <= i /\ i < dstEnd THEN mem[i - dstEnd + last]
    ELSE IF last - n <= i /\ i < last THEN Moved ELSE mem[i]]

\* n moves to the right, of the values before last, the last one first.
LEMMA MoveRightIs ==
  ASSUME NEW cap \in Nat, NEW V, Objects(V), NEW mem \in Memory(cap, V),
         NEW last \in Nat, NEW dstEnd \in Nat, NEW n \in Nat, n <= last, last < dstEnd,
               dstEnd <= cap,
         \A i \in last - n .. last - 1 : mem[i] # Raw,
         \A i \in last .. dstEnd - 1 : mem[i] = Raw
  PROVE  MoveRight(mem, last, dstEnd, n) = RightMoved(mem, cap, last, dstEnd, n)
<1> DEFINE M == Memory(cap, V)
           g(k) == [i \in 0 .. cap - 1 |->
                     IF dstEnd - k <= i /\ i < dstEnd THEN mem[i - dstEnd + last]
                     ELSE IF last - k <= i /\ i < last THEN Moved ELSE mem[i]]
           S == [k \in 0 .. n |-> {g(k)}]
<1>1. \A m \in M, i \in 1 .. n + 1 - 1 :
        MoveTo(m, last - i, dstEnd - i, dstEnd - i >= last) \in M
  BY DEF Memory, MoveTo, Construct, Assign, Objects
<1>2. mem \in S[0]
  <2>1. mem = g(0)
    BY DEF Memory
  <2>2. QED
    BY <2>1
<1>3. ASSUME NEW k \in 1 .. n, NEW m \in S[k - 1]
      PROVE  MoveTo(m, last - (1 + k - 1), dstEnd - (1 + k - 1),
            dstEnd - (1 + k - 1) >= last) \in S[k]
  <2> DEFINE j == last - (1 + k - 1)
             t == dstEnd - (1 + k - 1)
  <2>1. m = g(k - 1) /\ S[k] = {g(k)}
    BY <1>3
  <2>2. /\ j \in 0 .. cap - 1 /\ t \in 0 .. cap - 1 /\ j < t /\ t = dstEnd - k /\ j = last - k
        /\ g(k - 1)[j] = mem[j] /\ (t >= last => g(k - 1)[t] = Raw)
        /\ (~(t >= last) => g(k - 1)[t] = Moved) /\ Moved # Raw
    BY DEF Objects
  <2>3. ASSUME NEW i \in 0 .. cap - 1
        PROVE  g(k)[i] = IF i = j THEN Moved ELSE IF i = t THEN mem[j] ELSE g(k - 1)[i]
    <3>1. CASE i = j
      BY <2>2, <3>1
    <3>2. CASE i = t
      BY <2>2, <3>2
    <3>3. CASE i # j /\ i # t
      BY <2>2, <3>3
    <3>4. QED
      BY <3>1, <3>2, <3>3, <2>2
  <2>4. MoveTo(g(k - 1), j, t, t >= last) = [[g(k - 1) EXCEPT ![t] = mem[j]] EXCEPT ![j] = Moved]
    BY <2>2 DEF MoveTo, Construct, Assign
  <2>6. [[g(k - 1) EXCEPT ![t] = mem[j]] EXCEPT ![j] = Moved] = g(k)
    BY <2>2, <2>3
  <2>7. QED
    BY <2>1, <2>4, <2>6
<1>4. MoveRight(mem, last, dstEnd, n) \in S[n + 1 - 1]
  <2> HIDE DEF S, M
  <2>1. mem \in M /\ last \in Int /\ dstEnd \in Int /\ n + 1 - 1 = n
    BY DEF M
  <2>2. QED
    BY <1>1, <1>2, <1>3, <2>1, MoveRightFold
<1>5. QED
  BY <1>4 DEF RightMoved

(***************************************************************************)
(* The same moves over values: every slot from dst on has an object, and   *)
(* keeps one.                                                              *)
(***************************************************************************)
LEMMA MoveForwardIs ==
  ASSUME NEW cap \in Nat, NEW V, Objects(V), NEW mem \in Memory(cap, V),
         NEW first \in Nat, NEW last \in Nat, first <= last, last <= cap,
         NEW dst \in Nat, dst < first,
         \A i \in dst .. last - 1 : mem[i] # Raw
  PROVE  MoveForward(mem, first, last, dst) = LeftMoved(mem, cap, first, dst, last - first)
<1>0. PICK n \in Nat : n = last - first /\ last = first + n
  OBVIOUS
<1> DEFINE M == Memory(cap, V)
           g(k) == [i \in 0 .. cap - 1 |->
                     IF dst <= i /\ i < dst + k THEN mem[i - dst + first]
                     ELSE IF first <= i /\ i < first + k THEN Moved ELSE mem[i]]
           S == [k \in 0 .. n |-> {g(k)}]
<1>1. \A m \in M, i \in first .. last - 1 : MoveTo(m, i, dst + i - first, FALSE) \in M
  BY <1>0 DEF Memory, MoveTo, Assign, Objects
<1>2. mem \in S[0]
  <2>1. mem = g(0)
    BY DEF Memory
  <2>2. QED
    BY <2>1
<1>3. ASSUME NEW k \in 1 .. n, NEW m \in S[k - 1]
      PROVE  MoveTo(m, first + k - 1, dst + (first + k - 1) - first, FALSE) \in S[k]
  <2> DEFINE j == first + k - 1
             t == dst + (first + k - 1) - first
  <2>1. m = g(k - 1) /\ S[k] = {g(k)}
    BY <1>3
  <2>2. /\ j \in 0 .. cap - 1 /\ t \in 0 .. cap - 1 /\ t < j /\ t = dst + k - 1
        /\ g(k - 1)[j] = mem[j] /\ g(k - 1)[t] # Raw /\ Moved # Raw
    BY <1>0 DEF Objects
  <2>3. ASSUME NEW i \in 0 .. cap - 1
        PROVE  g(k)[i] = IF i = j THEN Moved ELSE IF i = t THEN mem[j] ELSE g(k - 1)[i]
    <3>1. CASE i = j
      BY <2>2, <3>1
    <3>2. CASE i = t
      BY <2>2, <3>2
    <3>3. CASE i # j /\ i # t
      BY <2>2, <3>3
    <3>4. QED
      BY <3>1, <3>2, <3>3, <2>2
  <2>4. MoveTo(g(k - 1), j, t, FALSE) = [[g(k - 1) EXCEPT ![t] = mem[j]] EXCEPT ![j] = Moved]
    BY <2>2 DEF MoveTo, Assign
  <2>6. [[g(k - 1) EXCEPT ![t] = mem[j]] EXCEPT ![j] = Moved] = g(k)
    BY <2>2, <2>3
  <2>7. QED
    BY <2>1, <2>4, <2>6
<1>4. MoveForward(mem, first, last, dst) \in S[last - first]
  <2> HIDE DEF S, M
  <2>1. mem \in M /\ first \in Int /\ last \in Int /\ dst \in Int
    BY DEF M
  <2>2. \A k \in 1 .. last - first : \A m \in S[k - 1] :
          MoveTo(m, first + k - 1, dst + (first + k - 1) - first, FALSE) \in S[k]
    BY <1>0, <1>3
  <2>3. QED
    BY <1>1, <1>2, <2>1, <2>2, MoveForwardFold
<1>5. QED
  BY <1>0, <1>4 DEF LeftMoved

\* To the right: every slot up to dstEnd has an object.
LEMMA MoveBackwardIs ==
  ASSUME NEW cap \in Nat, NEW V, Objects(V), NEW mem \in Memory(cap, V),
         NEW first \in Nat, NEW last \in Nat, first <= last,
         NEW dstEnd \in Nat, last < dstEnd, dstEnd <= cap,
         \A i \in first .. dstEnd - 1 : mem[i] # Raw
  PROVE  MoveBackward(mem, first, last, dstEnd)
           = RightMoved(mem, cap, last, dstEnd, last - first)
<1>0. PICK n \in Nat : n = last - first /\ last = first + n
  OBVIOUS
<1> DEFINE M == Memory(cap, V)
           g(k) == [i \in 0 .. cap - 1 |->
                     IF dstEnd - k <= i /\ i < dstEnd THEN mem[i - dstEnd + last]
                     ELSE IF last - k <= i /\ i < last THEN Moved ELSE mem[i]]
           S == [k \in 0 .. n |-> {g(k)}]
<1>1. \A m \in M, i \in 1 .. n : MoveTo(m, last - i, dstEnd - i, FALSE) \in M
  BY <1>0 DEF Memory, MoveTo, Assign, Objects
<1>2. mem \in S[0]
  <2>1. mem = g(0)
    BY DEF Memory
  <2>2. QED
    BY <2>1
<1>3. ASSUME NEW k \in 1 .. n, NEW m \in S[k - 1]
      PROVE  MoveTo(m, last - (1 + k - 1), dstEnd - (1 + k - 1), FALSE) \in S[k]
  <2> DEFINE j == last - (1 + k - 1)
             t == dstEnd - (1 + k - 1)
  <2>1. m = g(k - 1) /\ S[k] = {g(k)}
    BY <1>3
  <2>2. /\ j \in 0 .. cap - 1 /\ t \in 0 .. cap - 1 /\ j < t /\ t = dstEnd - k /\ j = last - k
        /\ g(k - 1)[j] = mem[j] /\ g(k - 1)[t] # Raw /\ Moved # Raw
    BY <1>0 DEF Objects
  <2>3. ASSUME NEW i \in 0 .. cap - 1
        PROVE  g(k)[i] = IF i = j THEN Moved ELSE IF i = t THEN mem[j] ELSE g(k - 1)[i]
    <3>1. CASE i = j
      BY <2>2, <3>1
    <3>2. CASE i = t
      BY <2>2, <3>2
    <3>3. CASE i # j /\ i # t
      BY <2>2, <3>3
    <3>4. QED
      BY <3>1, <3>2, <3>3, <2>2
  <2>4. MoveTo(g(k - 1), j, t, FALSE) = [[g(k - 1) EXCEPT ![t] = mem[j]] EXCEPT ![j] = Moved]
    BY <2>2 DEF MoveTo, Assign
  <2>6. [[g(k - 1) EXCEPT ![t] = mem[j]] EXCEPT ![j] = Moved] = g(k)
    BY <2>2, <2>3
  <2>7. QED
    BY <2>1, <2>4, <2>6
<1>4. MoveBackward(mem, first, last, dstEnd) \in S[(last - first + 1) - 1]
  <2> HIDE DEF S, M
  <2>1. /\ mem \in M /\ first \in Int /\ last \in Int /\ dstEnd \in Int
        /\ (last - first + 1) - 1 = n
    BY <1>0 DEF M
  <2>2. /\ \A m \in M, i \in 1 .. (last - first + 1) - 1 :
              MoveTo(m, last - i, dstEnd - i, FALSE) \in M
        /\ \A k \in 1 .. (last - first + 1) - 1 : \A m \in S[k - 1] :
              MoveTo(m, last - (1 + k - 1), dstEnd - (1 + k - 1), FALSE) \in S[k]
    BY <1>1, <1>3, <2>1
  <2>3. QED
    BY <1>2, <2>1, <2>2, MoveBackwardFold
<1>5. QED
  BY <1>0, <1>4 DEF RightMoved

\* Blocks with objects in the slots from start to end, and in no other.
Filled(cap, V, start, end) ==
  {m \in [0 .. cap - 1 -> V \cup {Raw}] :
     \A i \in 0 .. cap - 1 : m[i] # Raw <=> start <= i /\ i < end}

\* The objects are moved, to slots from dst on.
Shifted(mem, cap, start, end, dst) ==
  [i \in 0 .. cap - 1 |-> IF dst <= i /\ i < dst + (end - start) THEN mem[i - dst + start] ELSE Raw]

\* What is in such a block, slot by slot.
LEMMA FilledIsMemory ==
  ASSUME NEW cap \in Nat, NEW V, Objects(V), NEW start \in Nat, NEW end \in Nat, start <= end,
        end <= cap,
         NEW mem \in Filled(cap, V, start, end)
  PROVE  /\ mem \in Memory(cap, V)
         /\ \A i \in start .. end - 1 : mem[i] # Raw /\ mem[i] \in V
         /\ \A i \in 0 .. cap - 1 : i < start \/ i >= end => mem[i] = Raw
BY DEF Filled, Memory

\* Slots that are known make such a block.
LEMMA SlotsFill ==
  ASSUME NEW cap \in Nat, NEW V, Objects(V), NEW start \in Nat, NEW end \in Nat,
         NEW m, m = [i \in 0 .. cap - 1 |-> m[i]],
         \A i \in 0 .. cap - 1 : IF start <= i /\ i < end THEN m[i] \in V ELSE m[i] = Raw
  PROVE  m \in Filled(cap, V, start, end)
<1>1. \A i \in 0 .. cap - 1 :
        m[i] \in V \cup {Raw} /\ (m[i] # Raw <=> start <= i /\ i < end)
  BY DEF Objects
<1>2. m \in [0 .. cap - 1 -> V \cup {Raw}]
  BY <1>1
<1>3. QED
  BY <1>1, <1>2 DEF Filled

\* Some slots of a block of cap that has its values from start to end.
Within(cap, start, end, first, last) ==
  /\ cap \in Nat /\ start \in Nat /\ end \in Nat /\ first \in Nat /\ last \in Nat
  /\ start <= first /\ first <= last /\ last <= end /\ end <= cap

\* std::move over values: there are values in the same slots.
LEMMA MoveForwardFills ==
  ASSUME NEW V, Objects(V), NEW cap, NEW start, NEW end, NEW mem \in Filled(cap, V, start, end),
         NEW dst, NEW last, Within(cap, start, end, dst, last),
         NEW first \in Nat, dst < first, first <= last,
         NEW m, m = MoveForward(mem, first, last, dst)
  PROVE  /\ m \in Filled(cap, V, start, end)
         /\ \A i \in 0 .. cap - 1 :
              m[i] = IF dst <= i /\ i < dst + (last - first) THEN mem[i - dst + first]
                     ELSE IF first <= i /\ i < last THEN Moved ELSE mem[i]
<1>0. /\ cap \in Nat /\ start \in Nat /\ end \in Nat /\ dst \in Nat /\ last \in Nat
      /\ start <= dst /\ dst <= last /\ last <= end /\ end <= cap /\ start <= end
  BY DEF Within
<1>1. /\ mem \in Memory(cap, V) /\ \A i \in start .. end - 1 : mem[i] # Raw /\ mem[i] \in V
      /\ \A i \in 0 .. cap - 1 : i < start \/ i >= end => mem[i] = Raw
  BY <1>0, FilledIsMemory
<1>2. last <= cap /\ \A i \in dst .. last - 1 : mem[i] # Raw
  BY <1>0, <1>1
<1>3. m = LeftMoved(mem, cap, first, dst, last - first)
  BY <1>0, <1>1, <1>2, MoveForwardIs
<1>4. \A i \in 0 .. cap - 1 :
        m[i] = IF dst <= i /\ i < dst + (last - first) THEN mem[i - dst + first]
               ELSE IF first <= i /\ i < last THEN Moved ELSE mem[i]
  BY <1>0, <1>3 DEF LeftMoved
<1>5. m = [i \in 0 .. cap - 1 |-> m[i]]
  BY <1>3 DEF LeftMoved
<1>6. ASSUME NEW i \in 0 .. cap - 1
      PROVE  IF start <= i /\ i < end THEN m[i] \in V ELSE m[i] = Raw
  <2>1. m[i] = IF dst <= i /\ i < dst + (last - first) THEN mem[i - dst + first]
               ELSE IF first <= i /\ i < last THEN Moved ELSE mem[i]
    BY <1>4
  <2>2. dst <= i /\ i < dst + (last - first) =>
          i - dst + first \in start .. end - 1 /\ start <= i /\ i < end
    BY <1>0
  <2>3. first <= i /\ i < last => start <= i /\ i < end
    BY <1>0
  <2>4. start <= i /\ i < end => i \in start .. end - 1
    BY <1>0
  <2>5. QED
    BY <1>0, <1>1, <2>1, <2>2, <2>3, <2>4 DEF Objects
<1>7. m \in Filled(cap, V, start, end)
  BY <1>0, <1>5, <1>6, SlotsFill
<1>8. QED
  BY <1>4, <1>7

\* std::move_backward.
LEMMA MoveBackwardFills ==
  ASSUME NEW V, Objects(V), NEW cap, NEW start, NEW end, NEW mem \in Filled(cap, V, start, end),
         NEW first, NEW dstEnd, Within(cap, start, end, first, dstEnd),
         NEW last \in Nat, first <= last, last < dstEnd,
         NEW m, m = MoveBackward(mem, first, last, dstEnd)
  PROVE  /\ m \in Filled(cap, V, start, end)
         /\ \A i \in 0 .. cap - 1 :
              m[i] = IF dstEnd - (last - first) <= i /\ i < dstEnd THEN mem[i - dstEnd + last]
                     ELSE IF first <= i /\ i < last THEN Moved ELSE mem[i]
<1>0. /\ cap \in Nat /\ start \in Nat /\ end \in Nat /\ first \in Nat /\ dstEnd \in Nat
      /\ start <= first /\ first <= dstEnd /\ dstEnd <= end /\ end <= cap /\ start <= end
  BY DEF Within
<1>1. /\ mem \in Memory(cap, V) /\ \A i \in start .. end - 1 : mem[i] # Raw /\ mem[i] \in V
      /\ \A i \in 0 .. cap - 1 : i < start \/ i >= end => mem[i] = Raw
  BY <1>0, FilledIsMemory
<1>2. dstEnd <= cap /\ \A i \in first .. dstEnd - 1 : mem[i] # Raw
  BY <1>0, <1>1
<1>3. m = RightMoved(mem, cap, last, dstEnd, last - first)
  BY <1>0, <1>1, <1>2, MoveBackwardIs
<1>4. \A i \in 0 .. cap - 1 :
        m[i] = IF dstEnd - (last - first) <= i /\ i < dstEnd THEN mem[i - dstEnd + last]
               ELSE IF first <= i /\ i < last THEN Moved ELSE mem[i]
  BY <1>0, <1>3 DEF RightMoved
<1>5. m = [i \in 0 .. cap - 1 |-> m[i]]
  BY <1>3 DEF RightMoved
<1>6. ASSUME NEW i \in 0 .. cap - 1
      PROVE  IF start <= i /\ i < end THEN m[i] \in V ELSE m[i] = Raw
  <2>1. m[i] = IF dstEnd - (last - first) <= i /\ i < dstEnd THEN mem[i - dstEnd + last]
               ELSE IF first <= i /\ i < last THEN Moved ELSE mem[i]
    BY <1>4
  <2>2. dstEnd - (last - first) <= i /\ i < dstEnd =>
          i - dstEnd + last \in start .. end - 1 /\ start <= i /\ i < end
    BY <1>0
  <2>3. first <= i /\ i < last => start <= i /\ i < end
    BY <1>0
  <2>4. start <= i /\ i < end => i \in start .. end - 1
    BY <1>0
  <2>5. QED
    BY <1>0, <1>1, <2>1, <2>2, <2>3, <2>4 DEF Objects
<1>7. m \in Filled(cap, V, start, end)
  BY <1>0, <1>5, <1>6, SlotsFill
<1>8. QED
  BY <1>4, <1>7

\* Values assigned to slots with values.
LEMMA AssignRangeFills ==
  ASSUME NEW V, Objects(V), NEW cap, NEW start, NEW end, NEW mem \in Filled(cap, V, start, end),
         NEW from, NEW to, Within(cap, start, end, from, to),
         NEW s \in Seq(V), Len(s) = to - from, NEW m, m = AssignRange(mem, from, s)
  PROVE  /\ m \in Filled(cap, V, start, end)
         /\ \A i \in 0 .. cap - 1 :
              m[i] = IF from <= i /\ i < to THEN s[i - from + 1] ELSE mem[i]
<1>0. /\ cap \in Nat /\ start \in Nat /\ end \in Nat /\ from \in Nat /\ to \in Nat
      /\ start <= from /\ from <= to /\ to <= end /\ end <= cap /\ start <= end
  BY DEF Within
<1>1. /\ mem \in Memory(cap, V) /\ \A i \in start .. end - 1 : mem[i] # Raw /\ mem[i] \in V
      /\ \A i \in 0 .. cap - 1 : i < start \/ i >= end => mem[i] = Raw
  BY <1>0, FilledIsMemory
<1>2. PICK n \in Nat : n = Len(s) /\ to = from + n
  BY <1>0
<1>3. s \in [1 .. n -> V]
  BY <1>2
<1>4. m = [i \in 0 .. cap - 1 |->
             IF from <= i /\ i < from + n THEN s[i - from + 1] ELSE mem[i]]
  <2>1. from + n <= cap /\ \A i \in from .. from + n - 1 : mem[i] # Raw
    BY <1>0, <1>1, <1>2
  <2>2. QED
    BY <1>0, <1>1, <1>2, <1>3, <2>1, AssignRangeIs
<1>5. ASSUME NEW i \in 0 .. cap - 1
      PROVE  IF start <= i /\ i < end THEN m[i] \in V ELSE m[i] = Raw
  <2>1. from <= i /\ i < from + n => i - from + 1 \in 1 .. n /\ start <= i /\ i < end
    BY <1>0, <1>2
  <2>2. start <= i /\ i < end => i \in start .. end - 1
    BY <1>0
  <2>3. QED
    BY <1>0, <1>1, <1>3, <1>4, <2>1, <2>2
<1>6. m \in Filled(cap, V, start, end)
  <2>1. m = [i \in 0 .. cap - 1 |-> m[i]]
    BY <1>4
  <2>2. QED
    BY <1>0, <1>5, <2>1, SlotsFill
<1>7. QED
  BY <1>2, <1>4, <1>6

\* u is s, of m values in V, and behind it t, of n.
Joined(V, s, m, t, n, u) ==
  s \in Seq(V) /\ t \in Seq(V) /\ m = Len(s) /\ n = Len(t) /\ u = s \o t

\* Its values, one by one.
Join(V, s, m, t, n, u) ==
  /\ m \in Nat /\ n \in Nat /\ u \in Seq(V) /\ Len(u) = m + n
  /\ \A k \in 1 .. m + n : u[k] = IF k <= m THEN s[k] ELSE t[k - m]

\* One sequence behind another.
LEMMA JoinedIs ==
  ASSUME NEW V, NEW s, NEW m, NEW t, NEW n, NEW u, Joined(V, s, m, t, n, u)
  PROVE  Join(V, s, m, t, n, u)
<1>0. s \in Seq(V) /\ t \in Seq(V) /\ m = Len(s) /\ n = Len(t) /\ u = s \o t
  BY DEF Joined
<1>1. /\ s \o t \in Seq(V) /\ Len(s \o t) = Len(s) + Len(t)
      /\ \A k \in 1 .. Len(s) + Len(t) :
           (s \o t)[k] = IF k <= Len(s) THEN s[k] ELSE t[k - Len(s)]
  BY <1>0, ConcatProperties, Zenon
<1>2. m \in Nat /\ n \in Nat
  BY <1>0
<1>3. /\ u \in Seq(V) /\ Len(u) = m + n
      /\ \A k \in 1 .. m + n : u[k] = IF k <= m THEN s[k] ELSE t[k - m]
  BY <1>0, <1>1, Zenon
<1>4. QED
  BY <1>2, <1>3 DEF Join

\* The values of some slots, as a sequence.
LEMMA SlotsAre ==
  ASSUME NEW V, Objects(V), NEW cap, NEW start, NEW end, NEW mem \in Filled(cap, V, start, end),
         NEW first, NEW last, Within(cap, start, end, first, last),
         NEW s, s = Slots(mem, first, last)
  PROVE  s \in Seq(V) /\ Len(s) = last - first
<1>1. \A k \in 1 .. last - first : mem[first + k - 1] \in V
  <2>1. \A i \in start .. end - 1 : mem[i] \in V
    <3>1. cap \in Nat /\ start \in Nat /\ end \in Nat /\ start <= end /\ end <= cap
      BY DEF Within
    <3>2. QED
      BY <3>1, FilledIsMemory
  <2>2. \A k \in 1 .. last - first : first + k - 1 \in start .. end - 1
    BY DEF Within
  <2>3. QED
    BY <2>1, <2>2
<1>2. s = [k \in 1 .. last - first |-> mem[first + k - 1]]
  BY DEF Slots
<1>3. s \in [1 .. last - first -> V]
  BY <1>1, <1>2
<1>4. QED
  BY <1>3 DEF Within

\* The slots of m are those of mem, from first to last with those behind the middle first.
Rotated(mem, m, cap, first, middle, last) ==
  \A i \in 0 .. cap - 1 :
    m[i] = IF first <= i /\ i < first + (last - middle) THEN mem[i + (middle - first)]
           ELSE IF first + (last - middle) <= i /\ i < last
           THEN mem[i - (last - middle)] ELSE mem[i]

\* std::rotate: the values behind the middle come first.
LEMMA RotateFills ==
  ASSUME NEW V, Objects(V), NEW cap, NEW start, NEW end, NEW mem \in Filled(cap, V, start, end),
         NEW first, NEW middle \in Nat, NEW last, Within(cap, start, end, first, last),
         first <= middle, middle <= last, NEW m, m = Rotate(mem, first, middle, last)
  PROVE  m \in Filled(cap, V, start, end) /\ Rotated(mem, m, cap, first, middle, last)
<1>1. /\ cap \in Nat /\ start \in Nat /\ end \in Nat /\ first \in Nat /\ last \in Nat
      /\ start <= first /\ first <= last /\ last <= end /\ end <= cap /\ start <= end
  BY DEF Within
<1>2. PICK s : s = Slots(mem, middle, last)
  OBVIOUS
<1>3. PICK t : t = Slots(mem, first, middle)
  OBVIOUS
<1>4. PICK a \in Nat : a = middle - first
  BY <1>1
<1>5. PICK b \in Nat : b = last - middle
  BY <1>1
<1>6. s \in Seq(V) /\ Len(s) = b /\ \A k \in 1 .. b : s[k] = mem[middle + k - 1]
  <2>1. Within(cap, start, end, middle, last)
    BY <1>1 DEF Within
  <2>2. s \in Seq(V) /\ Len(s) = last - middle
    BY <1>2, <2>1, SlotsAre
  <2>3. QED
    BY <1>1, <1>2, <1>5, <2>2 DEF Slots
<1>7. t \in Seq(V) /\ Len(t) = a /\ \A k \in 1 .. a : t[k] = mem[first + k - 1]
  <2>1. Within(cap, start, end, first, middle)
    BY <1>1 DEF Within
  <2>2. t \in Seq(V) /\ Len(t) = middle - first
    BY <1>3, <2>1, SlotsAre
  <2>3. QED
    BY <1>1, <1>3, <1>4, <2>2 DEF Slots
<1>8. PICK u : u = s \o t
  OBVIOUS
<1>9. /\ u \in Seq(V) /\ Len(u) = b + a
      /\ \A k \in 1 .. b + a : u[k] = IF k <= b THEN s[k] ELSE t[k - b]
  <2>1. Joined(V, s, b, t, a, u)
    BY <1>6, <1>7, <1>8 DEF Joined
  <2>2. Join(V, s, b, t, a, u)
    BY <2>1, JoinedIs
  <2>3. QED
    BY <2>2 DEF Join
<1>10. m = AssignRange(mem, first, u)
  BY <1>2, <1>3, <1>8 DEF Rotate
<1>12. /\ m \in Filled(cap, V, start, end)
       /\ \A i \in 0 .. cap - 1 :
            m[i] = IF first <= i /\ i < last THEN u[i - first + 1] ELSE mem[i]
  <2>1. b + a = last - first
    BY <1>1, <1>4, <1>5
  <2>2. u \in Seq(V) /\ Len(u) = last - first
    BY <1>9, <2>1
  <2>3. QED
    BY <1>10, <2>2, AssignRangeFills
<1>13. ASSUME NEW i \in 0 .. cap - 1
       PROVE  m[i] = IF first <= i /\ i < first + b THEN mem[i + a]
                     ELSE IF first + b <= i /\ i < last THEN mem[i - b] ELSE mem[i]
  <2>1. CASE first <= i /\ i < first + b
    <3>1. PICK k \in 1 .. b : k = i - first + 1
      BY <1>1, <2>1
    <3>2. k \in 1 .. b + a /\ k <= b /\ middle + k - 1 = i + a
      BY <1>1, <1>4, <3>1
    <3>3. u[k] = s[k] /\ s[k] = mem[i + a]
      BY <1>6, <1>9, <3>1, <3>2
    <3>4. i < last
      BY <1>1, <1>4, <1>5, <2>1
    <3>5. QED
      BY <1>12, <2>1, <3>1, <3>3, <3>4
  <2>2. CASE first + b <= i /\ i < last
    <3>1. PICK k \in 1 .. b + a : k = i - first + 1
      BY <1>1, <1>4, <1>5, <2>2
    <3>2. k - b \in 1 .. a /\ ~ k <= b /\ first + (k - b) - 1 = i - b
      BY <1>1, <2>2, <3>1
    <3>3. u[k] = t[k - b] /\ t[k - b] = mem[i - b]
      BY <1>7, <1>9, <3>1, <3>2
    <3>4. first <= i /\ ~ i < first + b
      BY <1>1, <1>4, <1>5, <2>2
    <3>5. QED
      BY <1>12, <2>2, <3>1, <3>3, <3>4
  <2>3. CASE i < first \/ i >= last
    <3>1. /\ ~ (first <= i /\ i < last) /\ ~ (first <= i /\ i < first + b)
          /\ ~ (first + b <= i /\ i < last)
      BY <1>1, <1>4, <1>5, <2>3
    <3>2. QED
      BY <1>12, <3>1
  <2>4. \/ first <= i /\ i < first + b
        \/ first + b <= i /\ i < last
        \/ i < first \/ i >= last
    BY <1>1, <1>5
  <2>5. QED
    BY <2>1, <2>2, <2>3, <2>4, Zenon
<1>14. QED
  BY <1>4, <1>5, <1>12, <1>13 DEF Rotated

\* The block stays one with objects in a range and in no other slot.
LEMMA ShiftedIsFilled ==
  ASSUME NEW cap \in Nat, NEW V, Objects(V), NEW start \in Nat, NEW end \in Nat, start <= end,
        end <= cap,
         NEW mem \in Filled(cap, V, start, end), NEW dst \in Nat, dst + (end - start) <= cap
  PROVE  Shifted(mem, cap, start, end, dst) \in Filled(cap, V, dst, dst + (end - start))
<1> DEFINE h == Shifted(mem, cap, start, end, dst)
<1>1. ASSUME NEW i \in 0 .. cap - 1
      PROVE  h[i] \in V \cup {Raw} /\ (h[i] # Raw <=> dst <= i /\ i < dst + (end - start))
  <2>1. \A j \in start .. end - 1 : mem[j] # Raw /\ mem[j] \in V
    BY FilledIsMemory
  <2>2. dst <= i /\ i < dst + (end - start) => i - dst + start \in start .. end - 1
    OBVIOUS
  <2>3. QED
    BY <2>1, <2>2 DEF Shifted, Objects
<1>2. h = [i \in 0 .. cap - 1 |-> h[i]]
  BY DEF Shifted
<1> HIDE DEF h
<1>3. h \in [0 .. cap - 1 -> V \cup {Raw}]
  BY <1>1, <1>2
<1>4. h \in Filled(cap, V, dst, dst + (end - start))
  BY <1>1, <1>3 DEF Filled
<1>5. QED
  BY <1>4 DEF h

\* Slots that do not overlap.
LEMMA CopyDestroyShifts ==
  ASSUME NEW cap \in Nat, NEW V, Objects(V), NEW start \in Nat, NEW end \in Nat, start <= end,
        end <= cap,
         NEW mem \in Filled(cap, V, start, end), NEW dst \in Nat, dst + (end - start) <= cap,
         dst + (end - start) <= start \/ dst >= end
  PROVE  CopyDestroy(mem, start, end, dst) = Shifted(mem, cap, start, end, dst)
<1>1. /\ mem \in Memory(cap, V) /\ \A i \in start .. end - 1 : mem[i] # Raw
      /\ \A i \in dst .. dst + (end - start) - 1 : mem[i] = Raw
  BY FilledIsMemory
<1>2. CopyDestroy(mem, start, end, dst) =
           [i \in 0 .. cap - 1 |->
             IF dst <= i /\ i < dst + (end - start) THEN mem[i - dst + start]
             ELSE IF start <= i /\ i < end THEN Raw ELSE mem[i]]
  BY <1>1, CopyDestroyIs
<1>3. QED
  BY <1>2, FilledIsMemory DEF Shifted

\* move_destroy_input, wherever the values go.
LEMMA MoveDestroyShifts ==
  ASSUME NEW cap \in Nat, NEW V, Objects(V), NEW start \in Nat, NEW end \in Nat, start <= end,
        end <= cap,
         NEW mem \in Filled(cap, V, start, end), NEW dst \in Nat, dst + (end - start) <= cap
  PROVE  MoveDestroy(mem, start, end, dst) = Shifted(mem, cap, start, end, dst)
<1>6. PICK size \in Nat : size = end - start
  OBVIOUS
<1>0. /\ mem \in Memory(cap, V) /\ \A i \in start .. end - 1 : mem[i] # Raw /\ mem[i] \in V
      /\ \A i \in 0 .. cap - 1 : i < start \/ i >= end => mem[i] = Raw
  BY FilledIsMemory
<1>1. CASE dst + size < start \/ dst >= end
  BY <1>1, <1>6, CopyDestroyShifts DEF MoveDestroy
<1>2. CASE ~(dst + size < start \/ dst >= end) /\ (dst = start \/ size = 0)
  <2>1. MoveDestroy(mem, start, end, dst) = mem
    BY <1>2, <1>6 DEF MoveDestroy
  <2>2. mem = [i \in 0 .. cap - 1 |-> mem[i]]
    BY <1>0 DEF Memory
  <2>3. ASSUME NEW i \in 0 .. cap - 1
        PROVE  mem[i] = IF dst <= i /\ i < dst + (end - start) THEN mem[i - dst + start] ELSE Raw
    BY <1>0, <1>6, <1>2
  <2>5. mem = Shifted(mem, cap, start, end, dst)
    BY <2>2, <2>3 DEF Shifted
  <2>4. QED
    BY <2>1, <2>5
<1>3. CASE ~(dst + size < start) /\ dst < start /\ size # 0
  <2>0. PICK from \in Nat : from = dst + size
    OBVIOUS
  <2>1. PICK h : h = LeftMoved(mem, cap, start, dst, size)
    OBVIOUS
  <2>2. MoveLeft(mem, start, dst, size) = h
    <3>1. /\ size \in Nat /\ start + size <= cap /\ dst < start
          /\ \A i \in start .. start + size - 1 : mem[i] # Raw
          /\ \A i \in dst .. start - 1 : mem[i] = Raw
      BY <1>0, <1>6, <1>3
    <3>2. mem \in Memory(cap, V)
      BY <1>0
    <3>3. QED
      BY <2>1, <3>1, <3>2, MoveLeftIs
  <2>3. h \in Memory(cap, V) /\ \A i \in from .. end - 1 : h[i] # Raw
    BY <1>0, <1>6, <1>3, <2>0, <2>1 DEF Memory, Objects, LeftMoved
  <2>4. DestroyRange(h, from, end) =
          [i \in 0 .. cap - 1 |-> IF from <= i /\ i < end THEN Raw ELSE h[i]]
    <3>1. from <= end
      BY <1>3, <1>6, <2>0
    <3>2. QED
      BY <2>3, <3>1, DestroyRangeIs
  <2>5. [i \in 0 .. cap - 1 |-> IF from <= i /\ i < end THEN Raw ELSE h[i]] =
          Shifted(mem, cap, start, end, dst)
    BY <1>0, <1>6, <1>3, <2>0, <2>1 DEF Shifted, LeftMoved
  <2>6. MoveDestroy(mem, start, end, dst) = DestroyRange(MoveLeft(mem, start, dst, size), from, end)
    BY <1>3, <1>6, <2>0 DEF MoveDestroy
  <2>7. QED
    BY <2>2, <2>4, <2>5, <2>6
<1>4. CASE dst > start /\ dst < end
  <2>0. PICK dstEnd \in Nat : dstEnd = dst + size
    OBVIOUS
  <2>1. PICK h : h = RightMoved(mem, cap, end, dstEnd, size)
    OBVIOUS
  <2>2. MoveRight(mem, end, dstEnd, size) = h
    <3>1. /\ size <= end /\ end < dstEnd /\ dstEnd <= cap
          /\ \A i \in end - size .. end - 1 : mem[i] # Raw
          /\ \A i \in end .. dstEnd - 1 : mem[i] = Raw
      BY <1>0, <1>6, <1>4, <2>0
    <3>2. QED
      BY <1>0, <2>1, <3>1, MoveRightIs
  <2>3. h \in Memory(cap, V) /\ \A i \in start .. dst - 1 : h[i] # Raw
    BY <1>0, <1>6, <1>4, <2>0, <2>1 DEF Memory, Objects, RightMoved
  <2>4. DestroyRange(h, start, dst) =
          [i \in 0 .. cap - 1 |-> IF start <= i /\ i < dst THEN Raw ELSE h[i]]
    BY <2>3, <1>4, DestroyRangeIs
  <2>5. [i \in 0 .. cap - 1 |-> IF start <= i /\ i < dst THEN Raw ELSE h[i]] =
          Shifted(mem, cap, start, end, dst)
    BY <1>0, <1>6, <1>4, <2>0, <2>1 DEF Shifted, RightMoved
  <2>6. MoveDestroy(mem, start, end, dst) =
        DestroyRange(MoveRight(mem, end, dstEnd, size), start, dst)
    BY <1>4, <1>6, <2>0 DEF MoveDestroy
  <2>7. QED
    BY <2>2, <2>4, <2>5, <2>6
<1>5. QED
  BY <1>1, <1>2, <1>3, <1>4, <1>6

\* What a move that throws leaves has its objects where they were.
LEMMA MoveThrowsFills ==
  ASSUME NEW cap \in Nat, NEW V, Objects(V), NEW start \in Nat, NEW end \in Nat, start <= end,
        end <= cap,
         NEW mem \in Filled(cap, V, start, end), NEW dst \in Nat, dst + (end - start) <= cap,
         NEW n \in Nat, n < end - start, dst # start, dst < end,
         dst < start => dst + n <= start
  PROVE  MoveThrows(mem, start, end, dst, n) \in Filled(cap, V, start, end)
<1>0. /\ mem \in Memory(cap, V) /\ \A i \in start .. end - 1 : mem[i] # Raw /\ mem[i] \in V
      /\ \A i \in 0 .. cap - 1 : i < start \/ i >= end => mem[i] = Raw
  BY FilledIsMemory
<1>1. CASE dst < start
  <2>0. PICK dstEnd \in Nat : dstEnd = dst + n
    OBVIOUS
  <2>1. PICK h : h = LeftMoved(mem, cap, start, dst, n)
    OBVIOUS
  <2>2. MoveLeft(mem, start, dst, n) = h
    <3>1. /\ start + n <= cap /\ \A i \in start .. start + n - 1 : mem[i] # Raw
          /\ \A i \in dst .. start - 1 : mem[i] = Raw
      BY <1>0, <1>1
    <3>2. QED
      BY <1>0, <1>1, <2>1, <3>1, MoveLeftIs
  <2>3. h \in Memory(cap, V) /\ \A i \in dst .. dstEnd - 1 : h[i] # Raw
    BY <1>0, <1>1, <2>0, <2>1 DEF Memory, Objects, LeftMoved
  <2>4. DestroyRange(h, dst, dstEnd) =
          [i \in 0 .. cap - 1 |-> IF dst <= i /\ i < dstEnd THEN Raw ELSE h[i]]
    <3>1. dst <= dstEnd /\ dstEnd <= cap
      BY <1>1, <2>0
    <3>2. QED
      BY <2>3, <3>1, DestroyRangeIs
  <2>5. [i \in 0 .. cap - 1 |-> IF dst <= i /\ i < dstEnd THEN Raw ELSE h[i]]
           \in Filled(cap, V, start, end)
    <3>1. ASSUME NEW i \in 0 .. cap - 1
          PROVE  LET o == IF dst <= i /\ i < dstEnd THEN Raw ELSE h[i]
                 IN o \in V \cup {Raw} /\ (o # Raw <=> start <= i /\ i < end)
      BY <1>0, <1>1, <2>0, <2>1 DEF Objects, LeftMoved
    <3>2. QED
      BY <3>1 DEF Filled
  <2>6. MoveThrows(mem, start, end, dst, n) =
        DestroyRange(MoveLeft(mem, start, dst, n), dst, dstEnd)
    BY <1>1, <2>0 DEF MoveThrows
  <2>7. QED
    BY <2>2, <2>4, <2>5, <2>6
<1>2. CASE dst > start
  <2>0. PICK dstEnd \in Nat : dstEnd = dst + end - start
    OBVIOUS
  <2>1. PICK h : h = RightMoved(mem, cap, end, dstEnd, n)
    OBVIOUS
  <2>2. MoveRight(mem, end, dstEnd, n) = h
    <3>1. /\ n <= end /\ end < dstEnd /\ dstEnd <= cap
          /\ \A i \in end - n .. end - 1 : mem[i] # Raw
          /\ \A i \in end .. dstEnd - 1 : mem[i] = Raw
      BY <1>0, <1>2, <2>0
    <3>2. QED
      BY <1>0, <2>1, <3>1, MoveRightIs
  <2>3. PICK low \in Nat : low =
        Max({dstEnd - n, end}) /\ low >= end /\ low >= dstEnd - n /\ low <= dstEnd
                           /\ low \in {dstEnd - n, end}
    <3>1. Max({dstEnd - n, end}) = IF dstEnd - n >= end THEN dstEnd - n ELSE end
      BY MaxOfTwo
    <3>2. QED
      BY <3>1, <1>2, <2>0
  <2>4. Max({low, dstEnd}) = dstEnd
    BY <2>3, MaxOfTwo
  <2>5. h \in Memory(cap, V) /\ \A i \in low .. dstEnd - 1 : h[i] # Raw
    BY <1>0, <1>2, <2>0, <2>1, <2>3 DEF Memory, Objects, RightMoved
  <2>6. DestroyRange(h, low, dstEnd) =
          [i \in 0 .. cap - 1 |-> IF low <= i /\ i < dstEnd THEN Raw ELSE h[i]]
    <3>1. low \in Nat /\ low <= dstEnd /\ dstEnd <= cap
      BY <2>0, <2>3
    <3>2. QED
      BY <2>5, <3>1, DestroyRangeIs
  <2>7. [i \in 0 .. cap - 1 |-> IF low <= i /\ i < dstEnd THEN Raw ELSE h[i]]
           \in Filled(cap, V, start, end)
    <3>1. ASSUME NEW i \in 0 .. cap - 1
          PROVE  LET o == IF low <= i /\ i < dstEnd THEN Raw ELSE h[i]
                 IN o \in V \cup {Raw} /\ (o # Raw <=> start <= i /\ i < end)
      BY <1>0, <1>2, <2>0, <2>1, <2>3 DEF Objects, RightMoved
    <3>2. QED
      BY <3>1 DEF Filled
  <2>8. MoveThrows(mem, start, end, dst, n) =
        DestroyRange(MoveRight(mem, end, dstEnd, n), low, dstEnd)
    BY <1>2, <2>0, <2>3, <2>4 DEF MoveThrows
  <2>9. QED
    BY <2>2, <2>6, <2>7, <2>8
<1>3. QED
  BY <1>1, <1>2

\* The states of a devector whose objects are in V.
Vectors(V) ==
  {r \in [cap : Nat, start : Nat, end : Nat, mem : UNION {Memory(c, V) : c \in Nat}] :
     r.start <= r.end /\ r.end <= r.cap /\ r.mem \in Filled(r.cap, V, r.start, r.end)}

\* A state with such a block is a devector.
LEMMA VectorIs ==
  ASSUME NEW V, Objects(V), NEW cap \in Nat, NEW start \in Nat, NEW end \in Nat,
         start <= end, end <= cap, NEW mem \in Filled(cap, V, start, end)
  PROVE  Vector(cap, start, end, mem) \in Vectors(V)
<1>1. mem \in UNION {Memory(c, V) : c \in Nat}
  BY FilledIsMemory
<1>2. QED
  BY <1>1 DEF Vectors, Vector

\* The parts of a devector, and its size.
LEMMA VectorHas ==
  ASSUME NEW V, Objects(V), NEW r \in Vectors(V)
  PROVE  /\ r.cap \in Nat /\ r.start \in Nat /\ r.end \in Nat
         /\ r.start <= r.end /\ r.end <= r.cap
         /\ r.mem \in Filled(r.cap, V, r.start, r.end)
         /\ r = Vector(r.cap, r.start, r.end, r.mem)
         /\ Size(r) \in Nat /\ Size(r) = r.end - r.start
BY DEF Vectors, Vector, Size

\* The same as constants, with which the lemmas about blocks can be used.
LEMMA VectorParts ==
  ASSUME NEW V, Objects(V), NEW r \in Vectors(V)
  PROVE  \E cap, start, end \in Nat : \E mem \in Filled(cap, V, start, end) :
           /\ start <= end /\ end <= cap /\ Size(r) = end - start
           /\ r = Vector(cap, start, end, mem)
           /\ r.cap = cap /\ r.start = start /\ r.end = end /\ r.mem = mem
BY VectorHas

\* The values of a devector are a sequence of objects.
LEMMA ContentsAre ==
  ASSUME NEW V, Objects(V), NEW r \in Vectors(V)
  PROVE  Contents(r) \in [1 .. Size(r) -> V] /\ Contents(r) \in Seq(V) /\ Len(Contents(r)) = Size(r)
<1>1. /\ r.start \in Nat /\ r.end \in Nat /\ r.cap \in Nat /\ r.start <= r.end /\ r.end <= r.cap
      /\ r.mem \in Filled(r.cap, V, r.start, r.end) /\ Size(r) \in Nat /\ Size(r) = r.end - r.start
  BY VectorHas
<1>2. \A i \in r.start .. r.end - 1 : r.mem[i] \in V
  BY <1>1, FilledIsMemory
<1>3. Contents(r) \in [1 .. Size(r) -> V]
  BY <1>1, <1>2 DEF Contents
<1>4. QED
  BY <1>1, <1>3

\* u is a devector of the values s.
Holds(u, V, s) == u \in Vectors(V) /\ Contents(u) = s /\ Size(u) = Len(s)

\* A devector whose values have moved in its block holds the same values.
LEMMA ShiftedVector ==
  ASSUME NEW V, Objects(V), NEW r \in Vectors(V), NEW dst \in Nat, dst + Size(r) <= r.cap
  PROVE  Holds(Vector(r.cap, dst, dst + Size(r), Shifted(r.mem, r.cap, r.start, r.end, dst)), V,
        Contents(r))
<1> DEFINE mem == Shifted(r.mem, r.cap, r.start, r.end, dst)
           u == Vector(r.cap, dst, dst + Size(r), mem)
<1>1. /\ r.start \in Nat /\ r.end \in Nat /\ r.cap \in Nat /\ r.start <= r.end /\ r.end <= r.cap
      /\ r.mem \in Filled(r.cap, V, r.start, r.end) /\ Size(r) \in Nat /\ Size(r) = r.end - r.start
  BY VectorHas
<1>2. mem \in Filled(r.cap, V, dst, dst + Size(r))
  BY <1>1, ShiftedIsFilled
<1>3. u \in Vectors(V)
  <2> HIDE DEF mem
  <2>1. dst + Size(r) \in Nat /\ dst <= dst + Size(r)
    BY <1>1
  <2>2. QED
    BY <1>1, <1>2, <2>1, VectorIs
<1>4. u.mem = mem /\ u.start = dst /\ Size(u) = Size(r)
  BY <1>1 DEF Vector, Size
<1>5. ASSUME NEW i \in 1 .. Size(r) PROVE u.mem[dst + i - 1] = r.mem[r.start + i - 1]
  <2> DEFINE j == dst + i - 1
  <2>1. /\ j \in 0 .. r.cap - 1 /\ dst <= j /\ j < dst + (r.end - r.start)
        /\ j - dst + r.start = r.start + i - 1
    BY <1>1
  <2>2. mem[j] = r.mem[j - dst + r.start]
    BY <2>1 DEF Shifted
  <2>3. QED
    BY <1>4, <2>1, <2>2
<1>6. Contents(u) = Contents(r)
  <2> HIDE DEF u
  <2>1. QED
    BY <1>4, <1>5 DEF Contents
<1>7. QED
  BY <1>3, <1>4, <1>6, ContentsAre DEF Holds

-----------------------------------------------------------------------------
(***************************************************************************)
(* Devectors whose values move.                                            *)
(***************************************************************************)
\* The values slide to the other end of the block.
LEMMA SlideHolds ==
  ASSUME NEW V, Objects(V), NEW r \in Vectors(V), NEW dst \in Nat, dst + Size(r) <= r.cap,
         dst + Size(r) <= r.start \/ dst >= r.end
  PROVE  /\ Holds(Slide(r, dst), V, Contents(r))
         /\ Slide(r, dst).cap = r.cap /\ Slide(r, dst).start = dst /\ Slide(r, dst).end =
               dst + Size(r)
<1>1. PICK cap, start, end \in Nat : \E mem \in Filled(cap, V, start, end) :
        /\ start <= end /\ end <= cap /\ Size(r) = end - start
        /\ r = Vector(cap, start, end, mem)
        /\ r.cap = cap /\ r.start = start /\ r.end = end /\ r.mem = mem
  BY VectorParts
<1>2. PICK mem \in Filled(cap, V, start, end) :
        /\ start <= end /\ end <= cap /\ Size(r) = end - start
        /\ r = Vector(cap, start, end, mem)
        /\ r.cap = cap /\ r.start = start /\ r.end = end /\ r.mem = mem
  BY <1>1
<1>3. CopyDestroy(mem, start, end, dst) = Shifted(mem, cap, start, end, dst)
  BY <1>2, CopyDestroyShifts
<1>5. Slide(r, dst) = Vector(cap, dst, dst + Size(r), Shifted(mem, cap, start, end, dst))
  BY <1>2, <1>3 DEF Slide
<1>4. QED
  BY <1>2, <1>5, ShiftedVector DEF Vector

\* reserve_back() and reserve_front() move them wherever it is.
LEMMA MoveValuesHolds ==
  ASSUME NEW V, Objects(V), NEW r \in Vectors(V), NEW dst \in Nat, dst + Size(r) <= r.cap
  PROVE  /\ Holds(MoveValues(r, dst), V, Contents(r))
         /\ MoveValues(r, dst).cap = r.cap /\ MoveValues(r, dst).start = dst
         /\ MoveValues(r, dst).end = dst + Size(r)
<1>1. PICK cap, start, end \in Nat : \E mem \in Filled(cap, V, start, end) :
        /\ start <= end /\ end <= cap /\ Size(r) = end - start
        /\ r = Vector(cap, start, end, mem)
        /\ r.cap = cap /\ r.start = start /\ r.end = end /\ r.mem = mem
  BY VectorParts
<1>2. PICK mem \in Filled(cap, V, start, end) :
        /\ start <= end /\ end <= cap /\ Size(r) = end - start
        /\ r = Vector(cap, start, end, mem)
        /\ r.cap = cap /\ r.start = start /\ r.end = end /\ r.mem = mem
  BY <1>1
<1>3. MoveDestroy(mem, start, end, dst) = Shifted(mem, cap, start, end, dst)
  BY <1>2, MoveDestroyShifts
<1>5. MoveValues(r, dst) = Vector(cap, dst, dst + Size(r), Shifted(mem, cap, start, end, dst))
  BY <1>2, <1>3 DEF MoveValues
<1>4. QED
  BY <1>2, <1>5, ShiftedVector DEF Vector

\* A block of cap slots with the values s from start on.
Built(cap, start, s) ==
  Vector(cap, start, start + Len(s),
         [i \in 0 .. cap - 1 |-> IF start <= i /\ i < start + Len(s) THEN s[i - start + 1]
               ELSE Raw])

\* Such a block makes a devector of these values.
LEMMA BuiltHolds ==
  ASSUME NEW V, Objects(V), NEW cap \in Nat, NEW start \in Nat, NEW s \in Seq(V),
        start + Len(s) <= cap
  PROVE  Holds(Built(cap, start, s), V, s)
<1> DEFINE mem == [i \in 0 .. cap - 1 |->
      IF start <= i /\ i < start + Len(s) THEN s[i - start + 1] ELSE Raw]
<1>0. PICK n \in Nat : n = Len(s) /\ s \in [1 .. n -> V] /\ start + n <= cap /\ start + n \in Nat
  OBVIOUS
<1>1. ASSUME NEW i \in 0 .. cap - 1
      PROVE  mem[i] \in V \cup {Raw} /\ (mem[i] # Raw <=> start <= i /\ i < start + n)
  BY <1>0 DEF Objects
<1>2. mem \in Filled(cap, V, start, start + n)
  BY <1>1 DEF Filled
<1>3. Built(cap, start, s) = Vector(cap, start, start + n, mem)
  BY <1>0 DEF Built
<1>4. Built(cap, start, s) \in Vectors(V)
  <2> HIDE DEF mem
  <2>1. start <= start + n
    BY <1>0
  <2>2. QED
    BY <1>0, <1>2, <1>3, <2>1, VectorIs
<1>5. PICK u : u = Built(cap, start, s)
  OBVIOUS
<1>6. Size(u) = n /\ u.start = start /\ u.mem = mem
  BY <1>0, <1>3, <1>5 DEF Size, Vector
<1>7. ASSUME NEW i \in 1 .. n PROVE u.mem[u.start + i - 1] = s[i]
  <2>1. PICK j \in 0 .. cap - 1 : j = start + i - 1 /\ j - start + 1 = i /\ start <= j /\ j < start + n
    BY <1>0
  <2>2. mem[j] = s[j - start + 1]
    BY <1>0, <2>1
  <2>3. QED
    BY <1>6, <2>1, <2>2
<1>8. Contents(u) = s
  <2>1. Contents(u) = [i \in 1 .. n |-> s[i]]
    BY <1>6, <1>7 DEF Contents
  <2>2. QED
    BY <1>0, <2>1
<1>9. QED
  BY <1>0, <1>4, <1>5, <1>6, <1>8 DEF Holds

\* A new block takes the values of the old one.
LEMMA NewBlockHolds ==
  ASSUME NEW V, Objects(V), NEW r \in Vectors(V), NEW cap \in Nat, NEW start \in Nat,
         start + Size(r) <= cap
  PROVE  /\ Holds(NewBlock(r, cap, start), V, Contents(r))
         /\ NewBlock(r, cap, start).cap = cap /\ NewBlock(r, cap, start).start = start
         /\ NewBlock(r, cap, start).end = start + Size(r)
<1>1. PICK s \in Seq(V) : s = Contents(r)
  BY ContentsAre
<1>2. PICK n \in Nat : n = Size(r) /\ n = Len(s) /\ s \in [1 .. n -> V]
  BY <1>1, ContentsAre, VectorHas
<1>3. Block(cap) \in Memory(cap, V) /\ \A i \in start .. start + n - 1 : Block(cap)[i] = Raw
  BY <1>2 DEF Block, Memory
<1>4. ConstructRange(Block(cap), start, s) =
        [i \in 0 .. cap - 1 |-> IF start <= i /\ i < start + n THEN s[i - start + 1]
              ELSE Block(cap)[i]]
  BY SMTT(20), <1>2, <1>3, ConstructRangeIs
<1>5. NewBlock(r, cap, start) = Built(cap, start, s)
  BY <1>1, <1>2, <1>4 DEF NewBlock, Built, Block
<1>6. Holds(Built(cap, start, s), V, s)
  BY <1>2, BuiltHolds
<1>7. QED
  BY <1>1, <1>2, <1>5, <1>6 DEF Built, Vector

\* All the values are assigned.
LEMMA OverwriteHolds ==
  ASSUME NEW V, Objects(V), NEW r \in Vectors(V), NEW s \in Seq(V), Len(s) = Size(r)
  PROVE  /\ Holds(Overwrite(r, s), V, s)
         /\ Overwrite(r, s).cap = r.cap /\ Overwrite(r, s).start = r.start /\ Overwrite(r, s).end =
               r.end
<1>1. PICK cap, start, end \in Nat : \E mem \in Filled(cap, V, start, end) :
        /\ start <= end /\ end <= cap /\ Size(r) = end - start
        /\ r = Vector(cap, start, end, mem)
        /\ r.cap = cap /\ r.start = start /\ r.end = end /\ r.mem = mem
  BY VectorParts
<1>2. PICK mem \in Filled(cap, V, start, end) :
        /\ start <= end /\ end <= cap /\ Size(r) = end - start
        /\ r = Vector(cap, start, end, mem)
        /\ r.cap = cap /\ r.start = start /\ r.end = end /\ r.mem = mem
  BY <1>1
<1>3. PICK n \in Nat : n = Size(r) /\ n = Len(s) /\ s \in [1 .. n -> V] /\ start + n = end
  BY <1>2
<1>4. /\ mem \in Memory(cap, V) /\ \A i \in start .. start + n - 1 : mem[i] # Raw
      /\ \A i \in 0 .. cap - 1 : i < start \/ i >= start + n => mem[i] = Raw
  <2>1. start <= end /\ end <= cap /\ mem \in Filled(cap, V, start, end)
    BY <1>2
  <2>2. QED
    BY <1>3, <2>1, FilledIsMemory
<1>5. AssignRange(mem, start, s) =
        [i \in 0 .. cap - 1 |-> IF start <= i /\ i < start + n THEN s[i - start + 1] ELSE mem[i]]
  <2>1. start + n <= cap
    BY <1>2, <1>3
  <2>2. QED
    BY <1>3, <1>4, <2>1, AssignRangeIs
<1>6. AssignRange(mem, start, s) =
        [i \in 0 .. cap - 1 |-> IF start <= i /\ i < start + n THEN s[i - start + 1] ELSE Raw]
  <2>1. ASSUME NEW i \in 0 .. cap - 1
        PROVE  (IF start <= i /\ i < start + n THEN s[i - start + 1] ELSE mem[i])
                 = (IF start <= i /\ i < start + n THEN s[i - start + 1] ELSE Raw)
    BY <1>3, <1>4
  <2>2. QED
    BY <1>5, <2>1
<1>7. Overwrite(r, s) = Built(cap, start, s)
  BY <1>2, <1>3, <1>6 DEF Overwrite, WithSlots, Built
<1>8. Holds(Built(cap, start, s), V, s)
  BY <1>2, <1>3, BuiltHolds
<1>9. QED
  BY <1>2, <1>3, <1>7, <1>8 DEF Built, Vector

-----------------------------------------------------------------------------
(***************************************************************************)
(* Devectors from their values.                                            *)
(***************************************************************************)
\* The parts of a devector built from its values.
LEMMA BuiltHas ==
  ASSUME NEW V, Objects(V), NEW cap \in Nat, NEW start \in Nat, NEW s \in Seq(V),
        start + Len(s) <= cap
  PROVE  /\ Built(cap, start, s).cap = cap /\ Built(cap, start, s).start = start
         /\ Built(cap, start, s).end = start + Len(s)
         /\ \E mem \in Filled(cap, V, start, start + Len(s)) :
              /\ Built(cap, start, s).mem = mem
              /\ mem = [i \in 0 .. cap - 1 |->
                          IF start <= i /\ i < start + Len(s) THEN s[i - start + 1] ELSE Raw]
<1>1. PICK u : u = Built(cap, start, s)
  OBVIOUS
<1>2. u \in Vectors(V)
  BY <1>1, BuiltHolds DEF Holds
<1>3. u.cap = cap /\ u.start = start /\ u.end = start + Len(s)
      /\ u.mem = [i \in 0 .. cap - 1 |->
            IF start <= i /\ i < start + Len(s) THEN s[i - start + 1] ELSE Raw]
  BY <1>1 DEF Built, Vector
<1>4. u.mem \in Filled(cap, V, start, start + Len(s))
  BY <1>2, <1>3 DEF Vectors
<1>5. QED
  BY <1>1, <1>3, <1>4

\* Every devector is one built from its values.
LEMMA IsBuilt ==
  ASSUME NEW V, Objects(V), NEW r \in Vectors(V)
  PROVE  \E cap, start \in Nat : \E s \in Seq(V) :
           /\ start + Len(s) <= cap /\ s = Contents(r) /\ Size(r) = Len(s) /\ Len(s) \in Nat
           /\ r = Built(cap, start, s)
           /\ r.cap = cap /\ r.start = start /\ r.end = start + Len(s)
<1>1. PICK cap, start, end \in Nat : \E mem \in Filled(cap, V, start, end) :
        /\ start <= end /\ end <= cap /\ Size(r) = end - start
        /\ r = Vector(cap, start, end, mem)
        /\ r.cap = cap /\ r.start = start /\ r.end = end /\ r.mem = mem
  BY VectorParts
<1>2. PICK mem \in Filled(cap, V, start, end) :
        /\ start <= end /\ end <= cap /\ Size(r) = end - start
        /\ r = Vector(cap, start, end, mem)
        /\ r.cap = cap /\ r.start = start /\ r.end = end /\ r.mem = mem
  BY <1>1
<1>3. PICK s \in Seq(V) : s = Contents(r) /\ Len(s) = Size(r)
  BY ContentsAre
<1>4. PICK n \in Nat : n = Len(s) /\ end = start + n /\ start + n <= cap /\ Size(r) = n
  BY <1>2, <1>3
<1>5. \A j \in 1 .. n : s[j] = mem[start + j - 1]
  BY <1>2, <1>3, <1>4 DEF Contents
<1>6. ASSUME NEW i \in 0 .. cap - 1
      PROVE  mem[i] = IF start <= i /\ i < start + n THEN s[i - start + 1] ELSE Raw
  <2>1. CASE start <= i /\ i < start + n
    <3>1. i - start + 1 \in 1 .. n /\ start + (i - start + 1) - 1 = i
      BY <2>1, <1>4
    <3>2. QED
      BY <2>1, <3>1, <1>5
  <2>2. CASE ~ (start <= i /\ i < start + n)
    <3>1. start <= end /\ end <= cap /\ mem \in Filled(cap, V, start, end)
      BY <1>2
    <3>2. mem[i] = Raw
      BY <2>2, <1>4, <3>1, FilledIsMemory
    <3>3. QED
      BY <2>2, <3>2
  <2>3. QED
    BY <2>1, <2>2
<1>7. mem = [i \in 0 .. cap - 1 |-> IF start <= i /\ i < start + n THEN s[i - start + 1] ELSE Raw]
  <2>1. mem \in [0 .. cap - 1 -> V \cup {Raw}]
    BY <1>2 DEF Filled
  <2>2. QED
    BY <1>6, <2>1
<1>8. r = Built(cap, start, s)
  BY <1>2, <1>4, <1>7 DEF Built
<1>9. QED
  BY <1>2, <1>3, <1>4, <1>8

\* A block whose slots are known.
LEMMA SlotsAreBuilt ==
  ASSUME NEW V, Objects(V), NEW cap \in Nat, NEW start \in Nat, NEW s \in Seq(V), NEW end,
         end = start + Len(s), start + Len(s) <= cap, NEW m, m = [i \in 0 .. cap - 1 |-> m[i]],
         \A i \in 0 .. cap - 1 : m[i] = IF start <= i /\ i < start + Len(s) THEN s[i - start + 1]
               ELSE Raw
  PROVE  Vector(cap, start, end, m) = Built(cap, start, s)
<1>1. m = [i \in 0 .. cap - 1 |->
      IF start <= i /\ i < start + Len(s) THEN s[i - start + 1] ELSE Raw]
  <2>1. PICK n \in Nat : n = Len(s)
    OBVIOUS
  <2>2. QED
    BY <2>1
<1>2. QED
  BY <1>1 DEF Built

\* A value constructed behind the last.
LEMMA PutBack ==
  ASSUME NEW V, Objects(V), NEW r \in Vectors(V), r.end < r.cap, NEW v \in V
  PROVE  Holds(Vector(r.cap, r.start, r.end + 1, Construct(r.mem, r.end, v)), V,
        Contents(r) \o <<v>>)
<1>1. PICK cap, start \in Nat : \E s \in Seq(V) :
        /\ start + Len(s) <= cap /\ s = Contents(r) /\ Size(r) = Len(s) /\ Len(s) \in Nat
        /\ r = Built(cap, start, s)
        /\ r.cap = cap /\ r.start = start /\ r.end = start + Len(s)
  BY IsBuilt
<1>2. PICK s \in Seq(V) :
        /\ start + Len(s) <= cap /\ s = Contents(r) /\ Size(r) = Len(s) /\ Len(s) \in Nat
        /\ r = Built(cap, start, s)
        /\ r.cap = cap /\ r.start = start /\ r.end = start + Len(s)
  BY <1>1
<1>3. PICK mem \in Filled(cap, V, start, start + Len(s)) :
        r.mem = mem /\ mem = [i \in 0 .. cap - 1 |->
                          IF start <= i /\ i < start + Len(s) THEN s[i - start + 1] ELSE Raw]
  BY <1>2, BuiltHas
<1>4. PICK n \in Nat : n = Len(s) /\ start + n < cap
  BY <1>2
<1>5. PICK t \in Seq(V) : t = s \o <<v>> /\ Len(t) = n + 1
                          /\ (\A i \in 1 .. n : t[i] = s[i]) /\ t[n + 1] = v
  <2>1. <<v>> \in Seq(V) /\ Len(<<v>>) = 1 /\ <<v>>[1] = v
    OBVIOUS
  <2>2. PICK t : t = s \o <<v>>
    OBVIOUS
  <2>3. /\ t \in Seq(V) /\ Len(t) = Len(s) + Len(<<v>>)
        /\ \A i \in 1 .. Len(s) + Len(<<v>>) : t[i] = IF i <= Len(s) THEN s[i]
              ELSE <<v>>[i - Len(s)]
    BY <2>1, <2>2, ConcatProperties
  <2>8. PICK u : u = <<v>>
    OBVIOUS
  <2>4. u = <<v>> /\ Len(u) = 1 /\ u[1] = v
    BY <2>1, <2>8
  <2>5. /\ Len(t) = n + 1 /\ t \in Seq(V)
        /\ \A i \in 1 .. n + 1 : t[i] = IF i <= n THEN s[i] ELSE u[i - n]
    BY <2>3, <2>4, <1>4
  <2>6. t[n + 1] = v /\ \A i \in 1 .. n : t[i] = s[i]
    BY <2>4, <2>5
  <2>7. QED
    BY <2>2, <2>5, <2>6
<1>6. PICK m : m = Construct(mem, start + n, v)
  OBVIOUS
<1>7. m = [i \in 0 .. cap - 1 |-> m[i]]
      /\ \A i \in 0 .. cap - 1 : m[i] = IF i = start + n THEN v ELSE mem[i]
  <2>1. mem[start + n] = Raw /\ DOMAIN mem = 0 .. cap - 1
    BY <1>3, <1>4
  <2>2. QED
    BY <1>3, <1>6, <2>1 DEF Construct
<1>8. ASSUME NEW i \in 0 .. cap - 1
      PROVE  m[i] = IF start <= i /\ i < start + Len(t) THEN t[i - start + 1] ELSE Raw
  <2>1. m[i] = IF i = start + n THEN v ELSE
               IF start <= i /\ i < start + n THEN s[i - start + 1] ELSE Raw
    BY <1>3, <1>4, <1>7
  <2>2. start <= i /\ i < start + n => i - start + 1 \in 1 .. n
    BY <1>4
  <2>3. start <= i /\ i < start + n => t[i - start + 1] = s[i - start + 1]
    BY <1>5, <2>2
  <2>4. i = start + n => t[i - start + 1] = v
    BY <1>4, <1>5
  <2>5. Len(t) = n + 1
    BY <1>5
  <2>6. QED
    BY <1>4, <2>1, <2>3, <2>4, <2>5
<1>9. Vector(cap, start, start + n + 1, m) = Built(cap, start, t)
  <2>1. PICK end : end = start + n + 1
    OBVIOUS
  <2>2. end = start + Len(t) /\ start + Len(t) <= cap
    BY <1>4, <1>5, <2>1
  <2>3. QED
    BY <1>7, <1>8, <2>1, <2>2, SlotsAreBuilt
<1>10. Holds(Built(cap, start, t), V, t)
  <2>1. start + Len(t) <= cap
    BY <1>4, <1>5
  <2>2. QED
    BY <2>1, BuiltHolds
<1>11. QED
  BY <1>2, <1>3, <1>4, <1>5, <1>6, <1>9, <1>10

\* A value constructed in front of the first.
LEMMA PutFront ==
  ASSUME NEW V, Objects(V), NEW r \in Vectors(V), r.start > 0, NEW v \in V
  PROVE  Holds(Vector(r.cap, r.start - 1, r.end, Construct(r.mem, r.start - 1, v)), V,
        <<v>> \o Contents(r))
<1>1. PICK cap, start \in Nat : \E s \in Seq(V) :
        /\ start + Len(s) <= cap /\ s = Contents(r) /\ Size(r) = Len(s) /\ Len(s) \in Nat
        /\ r = Built(cap, start, s)
        /\ r.cap = cap /\ r.start = start /\ r.end = start + Len(s)
  BY IsBuilt
<1>2. PICK s \in Seq(V) :
        /\ start + Len(s) <= cap /\ s = Contents(r) /\ Size(r) = Len(s) /\ Len(s) \in Nat
        /\ r = Built(cap, start, s)
        /\ r.cap = cap /\ r.start = start /\ r.end = start + Len(s)
  BY <1>1
<1>3. PICK mem \in Filled(cap, V, start, start + Len(s)) :
        r.mem = mem /\ mem = [i \in 0 .. cap - 1 |->
                          IF start <= i /\ i < start + Len(s) THEN s[i - start + 1] ELSE Raw]
  BY <1>2, BuiltHas
<1>4. PICK n, first \in Nat : n = Len(s) /\ start + n <= cap /\ first = start - 1 /\ start =
      first + 1
  BY <1>2
<1>5. PICK t \in Seq(V) : t = <<v>> \o s /\ Len(t) = n + 1
                          /\ (\A i \in 2 .. n + 1 : t[i] = s[i - 1]) /\ t[1] = v
  <2>1. <<v>> \in Seq(V) /\ Len(<<v>>) = 1 /\ <<v>>[1] = v
    OBVIOUS
  <2>2. PICK t : t = <<v>> \o s
    OBVIOUS
  <2>3. /\ t \in Seq(V) /\ Len(t) = Len(<<v>>) + Len(s)
        /\ \A i \in 1 .. Len(<<v>>) + Len(s) : t[i] = IF i <= Len(<<v>>) THEN <<v>>[i]
              ELSE s[i - Len(<<v>>)]
    BY <2>1, <2>2, ConcatProperties
  <2>8. PICK u : u = <<v>>
    OBVIOUS
  <2>4. u = <<v>> /\ Len(u) = 1 /\ u[1] = v
    BY <2>1, <2>8
  <2>5. /\ Len(t) = n + 1 /\ t \in Seq(V)
        /\ \A i \in 1 .. n + 1 : t[i] = IF i <= 1 THEN u[i] ELSE s[i - 1]
    BY <2>3, <2>4, <1>4
  <2>6. t[1] = v /\ \A i \in 2 .. n + 1 : t[i] = s[i - 1]
    BY <2>4, <2>5
  <2>7. QED
    BY <2>2, <2>5, <2>6
<1>6. PICK m : m = Construct(mem, first, v)
  OBVIOUS
<1>7. m = [i \in 0 .. cap - 1 |-> m[i]]
      /\ \A i \in 0 .. cap - 1 : m[i] = IF i = first THEN v ELSE mem[i]
  <2>1. mem[first] = Raw /\ DOMAIN mem = 0 .. cap - 1
    BY <1>3, <1>4
  <2>2. QED
    BY <1>3, <1>6, <2>1 DEF Construct
<1>8. ASSUME NEW i \in 0 .. cap - 1
      PROVE  m[i] = IF first <= i /\ i < first + Len(t) THEN t[i - first + 1] ELSE Raw
  <2>1. m[i] = IF i = first THEN v ELSE
               IF start <= i /\ i < start + n THEN s[i - start + 1] ELSE Raw
    BY <1>3, <1>4, <1>7
  <2>2. start <= i /\ i < start + n => i - first + 1 \in 2 .. n + 1 /\ (i - first + 1) - 1 =
        i - start + 1
    BY <1>4
  <2>3. start <= i /\ i < start + n => t[i - first + 1] = s[i - start + 1]
    BY <1>5, <2>2
  <2>4. i = first => t[i - first + 1] = v
    BY <1>4, <1>5
  <2>5. Len(t) = n + 1
    BY <1>5
  <2>6. QED
    BY <1>4, <2>1, <2>3, <2>4, <2>5
<1>9. Vector(cap, first, start + n, m) = Built(cap, first, t)
  <2>1. start + n = first + Len(t) /\ first + Len(t) <= cap
    BY <1>4, <1>5
  <2>2. cap \in Nat /\ first \in Nat /\ t \in Seq(V) /\ m = [i \in 0 .. cap - 1 |-> m[i]]
    BY <1>3, <1>4, <1>5, <1>7
  <2>3. PICK end : end = start + n
    OBVIOUS
  <2>4. Vector(cap, first, end, m) = Built(cap, first, t)
    BY SMTT(20), <1>8, <2>1, <2>2, <2>3, SlotsAreBuilt
  <2>5. QED
    BY <2>3, <2>4
<1>10. Holds(Built(cap, first, t), V, t)
  <2>1. first + Len(t) <= cap
    BY SMTT(20), <1>4, <1>5
  <2>2. QED
    BY <2>1, BuiltHolds
<1>11. QED
  BY <1>2, <1>3, <1>4, <1>5, <1>6, <1>9, <1>10

\* SEQ_GROW_FACTOR, rounded down: a larger block always, by half of the old one in all but one
\* slot.
LEMMA GrowsCapacity ==
  ASSUME NEW r, r.cap \in Nat
  PROVE  /\ GrowCapacity(r) \in Nat /\ GrowCapacity(r) > r.cap /\ GrowCapacity(r) >= 2
         /\ 2 * (GrowCapacity(r) - r.cap) + 1 >= r.cap
<1>1. PICK cap \in Nat : cap = r.cap
  OBVIOUS
<1>2. PICK c \in Nat : c = (cap * 16) \div 10 /\ 10 * c <= cap * 16 /\ cap * 16 < 10 * c + 10
  OBVIOUS
<1>3. PICK g \in Nat : g = IF c = cap THEN c + 1 ELSE c
  OBVIOUS
<1>4. GrowCapacity(r) = Max({g, 2})
  BY <1>1, <1>2, <1>3 DEF GrowCapacity
<1>5. GrowCapacity(r) = IF g >= 2 THEN g ELSE 2
  BY <1>4, MaxOfTwo
<1>6. QED
  BY <1>1, <1>2, <1>3, <1>5

\* At the end of the block: room for one more, and the values as they were.
LEMMA GrownBackHolds ==
  ASSUME NEW V, Objects(V), NEW r \in Vectors(V)
  PROVE  /\ Holds(GrownBack(r), V, Contents(r))
         /\ GrownBack(r).end < GrownBack(r).cap
         /\ r.end = r.cap => 2 * (GrownBack(r).cap - GrownBack(r).end) + 1 >= Size(r)
<1>1. PICK cap, start, end, n \in Nat :
        /\ start <= end /\ end <= cap /\ Size(r) = n /\ n = end - start
        /\ r.cap = cap /\ r.start = start /\ r.end = end
  BY VectorParts, VectorHas
<1>2. CASE SlidesToFront(r)
  <2>1. start > n /\ GrownBack(r) = Slide(r, 0)
    BY <1>1, <1>2 DEF SlidesToFront, GrownBack
  <2>2. 0 + Size(r) <= r.cap /\ 0 + Size(r) <= r.start
    BY <1>1, <2>1
  <2>3. Holds(Slide(r, 0), V, Contents(r)) /\ Slide(r, 0).cap = r.cap /\ Slide(r, 0).end =
        0 + Size(r)
    BY <2>2, SlideHolds
  <2>4. QED
    BY <1>1, <2>1, <2>3
<1>3. CASE ~ SlidesToFront(r)
  <2>1. PICK g \in Nat : g = GrowCapacity(r) /\ g > cap /\ 2 * (g - cap) + 1 >= cap
    BY <1>1, GrowsCapacity
  <2>2. GrownBack(r) = NewBlock(r, g, start)
    BY <1>1, <1>3, <2>1 DEF GrownBack
  <2>3. start + Size(r) <= g
    BY <1>1, <2>1
  <2>4. /\ Holds(NewBlock(r, g, start), V, Contents(r)) /\ NewBlock(r, g, start).cap = g
        /\ NewBlock(r, g, start).end = start + Size(r)
    BY <2>3, NewBlockHolds
  <2>5. QED
    BY <1>1, <2>1, <2>2, <2>4
<1>4. QED
  BY <1>2, <1>3

\* At the front of the block.
LEMMA GrownFrontHolds ==
  ASSUME NEW V, Objects(V), NEW r \in Vectors(V), r.start = 0
  PROVE  /\ Holds(GrownFront(r), V, Contents(r))
         /\ GrownFront(r).start > 0
         /\ 2 * GrownFront(r).start + 1 >= Size(r)
<1>1. PICK cap, start, end, n \in Nat :
        /\ start <= end /\ end <= cap /\ Size(r) = n /\ n = end - start
        /\ r.cap = cap /\ r.start = start /\ r.end = end
  BY VectorParts, VectorHas
<1>2. CASE SlidesToBack(r)
  <2>1. PICK dst \in Nat : dst = cap - n /\ dst > n
    BY <1>1, <1>2 DEF SlidesToBack
  <2>2. GrownFront(r) = Slide(r, dst)
    BY <1>1, <1>2, <2>1 DEF GrownFront
  <2>3. dst + Size(r) <= r.cap /\ dst >= r.end
    BY <1>1, <2>1
  <2>4. Holds(Slide(r, dst), V, Contents(r)) /\ Slide(r, dst).start = dst
    BY <2>3, SlideHolds
  <2>5. QED
    BY <1>1, <2>1, <2>2, <2>4
<1>3. CASE ~ SlidesToBack(r)
  <2>1. PICK g \in Nat : g = GrowCapacity(r) /\ g > cap /\ 2 * (g - cap) + 1 >= cap
    BY <1>1, GrowsCapacity
  <2>2. PICK first \in Nat : first = g - cap /\ first > 0 /\ first = g - (r.cap - r.start)
    BY <1>1, <2>1
  <2>3. Max({first, 1}) = first
    BY <2>2, MaxOfTwo
  <2>4. GrownFront(r) = NewBlock(r, g, first)
    BY <1>3, <2>1, <2>2, <2>3 DEF GrownFront
  <2>5. first + Size(r) <= g
    BY <1>1, <2>2
  <2>6. Holds(NewBlock(r, g, first), V, Contents(r)) /\ NewBlock(r, g, first).start = first
    BY <2>5, NewBlockHolds
  <2>7. QED
    BY <1>1, <2>1, <2>2, <2>4, <2>6
<1>4. QED
  BY <1>2, <1>3

\* emplace_back() appends its value, whether the block has room, the values slide or a block is
\* made.
LEMMA EmplaceBackHolds ==
  ASSUME NEW V, Objects(V), NEW r \in Vectors(V), NEW v \in V
  PROVE  Holds(EmplaceBack(r, v), V, Contents(r) \o <<v>>)
<1>1. PICK s : s = IF r.end = r.cap THEN GrownBack(r) ELSE r
  OBVIOUS
<1>2. s \in Vectors(V) /\ Contents(s) = Contents(r) /\ s.end < s.cap
  <2>1. CASE r.end = r.cap
    BY <1>1, <2>1, GrownBackHolds DEF Holds
  <2>2. CASE r.end # r.cap
    BY <1>1, <2>2, VectorHas
  <2>3. QED
    BY <2>1, <2>2
<1>3. Holds(Vector(s.cap, s.start, s.end + 1, Construct(s.mem, s.end, v)), V, Contents(s) \o <<v>>)
  BY <1>2, PutBack
<1>4. QED
  BY <1>1, <1>2, <1>3 DEF EmplaceBack

\* emplace_front() puts its value in front.
LEMMA EmplaceFrontHolds ==
  ASSUME NEW V, Objects(V), NEW r \in Vectors(V), NEW v \in V
  PROVE  Holds(EmplaceFront(r, v), V, <<v>> \o Contents(r))
<1>1. PICK s : s = IF r.start = 0 THEN GrownFront(r) ELSE r
  OBVIOUS
<1>2. s \in Vectors(V) /\ Contents(s) = Contents(r) /\ s.start > 0
  <2>1. CASE r.start = 0
    BY <1>1, <2>1, GrownFrontHolds DEF Holds
  <2>2. CASE r.start # 0
    BY <1>1, <2>2, VectorHas
  <2>3. QED
    BY <2>1, <2>2
<1>3. Holds(Vector(s.cap, s.start - 1, s.end, Construct(s.mem, s.start - 1, v)), V,
      <<v>> \o Contents(s))
  BY <1>2, PutFront
<1>4. QED
  BY <1>1, <1>2, <1>3 DEF EmplaceFront

\* A part of a sequence, with bounds that are constants.
LEMMA SubSeqIs ==
  ASSUME NEW V, NEW s \in Seq(V), NEW p \in Int, NEW q \in Int, NEW t, t = SubSeq(s, p, q),
         \A i \in p .. q : s[i] \in V
  PROVE  /\ t \in Seq(V) /\ Len(t) = IF p <= q THEN q - p + 1 ELSE 0
         /\ \A i \in 1 .. q - p + 1 : t[i] = s[p + i - 1]
<1>1. t \in Seq(V) /\ Len(t) = IF p <= q THEN q - p + 1 ELSE 0
  BY SubSeqProperties
<1>2. \A i \in 1 .. q - p + 1 : t[i] = s[p + i - 1]
  BY SubSeqProperties
<1>3. QED
  BY <1>1, <1>2

\* n values of a sequence, behind the first a.
LEMMA PartOf ==
  ASSUME NEW V, NEW s \in Seq(V), NEW a \in Nat, NEW n \in Nat, a + n <= Len(s)
  PROVE  \A t : t = SubSeq(s, a + 1, a + n) =>
           t \in Seq(V) /\ Len(t) = n /\ \A i \in 1 .. n : t[i] = s[a + i]
<1>1. PICK p \in Int : p = a + 1
  OBVIOUS
<1>2. PICK q \in Int : q = a + n
  OBVIOUS
<1>3. PICK t : t = SubSeq(s, p, q)
  OBVIOUS
<1>4. \A i \in p .. q : s[i] \in V
  BY <1>1, <1>2
<1>5. /\ t \in Seq(V) /\ Len(t) = IF p <= q THEN q - p + 1 ELSE 0
      /\ \A i \in 1 .. q - p + 1 : t[i] = s[p + i - 1]
  BY <1>3, <1>4, SubSeqIs
<1>6. (IF p <= q THEN q - p + 1 ELSE 0) = n /\ q - p + 1 = n
  BY <1>1, <1>2
<1>7. ASSUME NEW i \in 1 .. n PROVE t[i] = s[a + i]
  <2>1. p + i - 1 = a + i
    BY <1>1
  <2>2. QED
    BY <1>5, <1>6, <2>1
<1>8. SubSeq(s, a + 1, a + n) = t
  BY <1>1, <1>2, <1>3
<1>9. QED
  BY <1>5, <1>6, <1>7, <1>8

\* What is left in a block of the values s: n of them, behind the first a.
Kept(cap, start, s, a, n) ==
  [i \in 0 .. cap - 1 |-> IF start + a <= i /\ i < start + a + n THEN s[i - start + 1] ELSE Raw]

\* A block with what is left makes a devector of these values.
LEMMA KeptHolds ==
  ASSUME NEW V, Objects(V), NEW cap \in Nat, NEW start \in Nat, NEW s \in Seq(V),
        start + Len(s) <= cap,
         NEW a \in Nat, NEW n \in Nat, a + n <= Len(s)
  PROVE  Holds(Vector(cap, start + a, start + a + n, Kept(cap, start, s, a, n)),
               V, SubSeq(s, a + 1, a + n))
<1>0. PICK l \in Nat : l = Len(s) /\ s \in [1 .. l -> V]
  OBVIOUS
<1>1. PICK first \in Nat : first = start + a
  OBVIOUS
<1>2. PICK end \in Nat : end = start + a + n
  OBVIOUS
<1>3. PICK t : t = SubSeq(s, a + 1, a + n)
  OBVIOUS
<1>8. t \in Seq(V) /\ Len(t) = n /\ \A i \in 1 .. n : t[i] = s[a + i]
  <2>1. \A w : w = SubSeq(s, a + 1, a + n) =>
          w \in Seq(V) /\ Len(w) = n /\ \A i \in 1 .. n : w[i] = s[a + i]
    BY PartOf
  <2>2. QED
    BY <1>3, <2>1, Zenon
<1>9. PICK m : m = Kept(cap, start, s, a, n)
  OBVIOUS
<1>4. ASSUME NEW i \in 0 .. cap - 1
      PROVE  m[i] = IF first <= i /\ i < first + Len(t) THEN t[i - first + 1] ELSE Raw
  <2>0. PICK j \in Int : j = i - first + 1
    OBVIOUS
  <2>1. first <= i /\ i < first + n => j \in 1 .. n /\ a + j = i - start + 1
    BY <1>1, <2>0
  <2>2. first <= i /\ i < first + n => t[j] = s[i - start + 1]
    BY <1>8, <2>1
  <2>3. m[i] = IF first <= i /\ i < first + n THEN s[i - start + 1] ELSE Raw
    BY <1>1, <1>9 DEF Kept
  <2>4. QED
    BY <1>8, <2>0, <2>2, <2>3
<1>5. end = first + Len(t) /\ first + Len(t) <= cap
  BY <1>0, <1>1, <1>2, <1>8
<1>6. Vector(cap, first, end, m) = Built(cap, first, t)
  <2>1. \A i \in 0 .. cap - 1 : m[i] = IF first <= i /\ i < first + Len(t) THEN t[i - first + 1]
        ELSE Raw
    BY <1>4
  <2>2. m = [i \in 0 .. cap - 1 |-> m[i]]
    BY <1>9 DEF Kept
  <2>3. m = [i \in 0 .. cap - 1 |->
        IF first <= i /\ i < first + Len(t) THEN t[i - first + 1] ELSE Raw]
    BY <2>1, <2>2, Zenon
  <2>4. QED
    BY <1>5, <2>3 DEF Built
<1>7. Holds(Built(cap, first, t), V, t)
  BY <1>8, <1>5, BuiltHolds
<1>10. QED
  BY <1>1, <1>2, <1>3, <1>6, <1>7, <1>9

-----------------------------------------------------------------------------
(***************************************************************************)
(* Values destroyed.                                                       *)
(***************************************************************************)
\* What the devector r is made of.
Parts(r, V, cap, start, n, s, mem) ==
  /\ cap \in Nat /\ start \in Nat /\ n \in Nat /\ s \in Seq(V) /\ mem \in Memory(cap, V)
  /\ n = Len(s) /\ start + n <= cap /\ s = Contents(r) /\ Size(r) = n
  /\ r.cap = cap /\ r.start = start /\ r.end = start + n /\ r.mem = mem
  /\ \A i \in 0 .. cap - 1 :
       mem[i] = IF start <= i /\ i < start + n THEN s[i - start + 1] ELSE Raw
  /\ \A i \in start .. start + n - 1 : mem[i] # Raw

\* Every devector has such parts.
LEMMA BuiltParts ==
  ASSUME NEW V, Objects(V), NEW r \in Vectors(V)
  PROVE  \E cap, start, n, s, mem : Parts(r, V, cap, start, n, s, mem)
<1>1. PICK cap, start \in Nat : \E s \in Seq(V) :
        /\ start + Len(s) <= cap /\ s = Contents(r) /\ Size(r) = Len(s) /\ Len(s) \in Nat
        /\ r = Built(cap, start, s)
        /\ r.cap = cap /\ r.start = start /\ r.end = start + Len(s)
  BY IsBuilt
<1>2. PICK s \in Seq(V) :
        /\ start + Len(s) <= cap /\ s = Contents(r) /\ Size(r) = Len(s) /\ Len(s) \in Nat
        /\ r = Built(cap, start, s)
        /\ r.cap = cap /\ r.start = start /\ r.end = start + Len(s)
  BY <1>1
<1>3. PICK mem \in Filled(cap, V, start, start + Len(s)) :
        r.mem = mem /\ mem = [i \in 0 .. cap - 1 |->
                          IF start <= i /\ i < start + Len(s) THEN s[i - start + 1] ELSE Raw]
  <2>1. start + Len(s) <= cap /\ r = Built(cap, start, s)
    BY <1>2
  <2>2. \E mem \in Filled(cap, V, start, start + Len(s)) :
          /\ Built(cap, start, s).mem = mem
          /\ mem = [i \in 0 .. cap - 1 |->
                      IF start <= i /\ i < start + Len(s) THEN s[i - start + 1] ELSE Raw]
    BY <2>1, BuiltHas
  <2>3. QED
    BY <2>1, <2>2
<1>4. PICK n \in Nat : n = Len(s)
  BY <1>2
<1>5. mem \in Memory(cap, V) /\ \A i \in start .. start + n - 1 : mem[i] # Raw
  <2>1. PICK end \in Nat : end = start + n
    BY <1>4
  <2>2. mem \in Filled(cap, V, start, end) /\ start <= end /\ end <= cap
    <3>1. end = start + Len(s)
      BY <1>4, <2>1
    <3>2. QED
      BY <1>2, <1>3, <1>4, <2>1, <3>1
  <2>3. mem \in Memory(cap, V) /\ \A i \in start .. end - 1 : mem[i] # Raw
    BY <2>2, FilledIsMemory
  <2>4. QED
    BY <2>1, <2>3
<1>6. \A i \in 0 .. cap - 1 :
        mem[i] = IF start <= i /\ i < start + n THEN s[i - start + 1] ELSE Raw
  BY <1>3, <1>4
<1>7. QED
  <2>1. Parts(r, V, cap, start, n, s, mem)
    BY <1>2, <1>3, <1>4, <1>5, <1>6 DEF Parts
  <2>2. QED
    BY <2>1

\* The first k values, or the last, are destroyed.
LEMMA KeptBehind ==
  ASSUME NEW V, NEW r, NEW cap, NEW start, NEW n, NEW s, NEW mem,
         Parts(r, V, cap, start, n, s, mem), NEW k \in 0 .. n
  PROVE  [i \in 0 .. cap - 1 |-> IF start <= i /\ i < start + k THEN Raw ELSE mem[i]]
           = Kept(cap, start, s, k, n - k)
<1>1. ASSUME NEW i \in 0 .. cap - 1
      PROVE  (IF start <= i /\ i < start + k THEN Raw ELSE mem[i])
               = IF start + k <= i /\ i < start + k + (n - k) THEN s[i - start + 1] ELSE Raw
  BY DEF Parts
<1>2. QED
  BY <1>1 DEF Kept

\* The last k values are destroyed.
LEMMA KeptBefore ==
  ASSUME NEW V, NEW r, NEW cap, NEW start, NEW n, NEW s, NEW mem,
         Parts(r, V, cap, start, n, s, mem), NEW k \in 0 .. n
  PROVE  [i \in 0 .. cap - 1 |-> IF start + n - k <= i /\ i < start + n THEN Raw ELSE mem[i]]
           = Kept(cap, start, s, 0, n - k)
<1>1. ASSUME NEW i \in 0 .. cap - 1
      PROVE  (IF start + n - k <= i /\ i < start + n THEN Raw ELSE mem[i])
               = IF start + 0 <= i /\ i < start + 0 + (n - k) THEN s[i - start + 1] ELSE Raw
  BY DEF Parts
<1>2. QED
  BY <1>1 DEF Kept

\* Values destroyed at the front: the others are kept.
LEMMA TrimFrontHolds ==
  ASSUME NEW V, Objects(V), NEW r \in Vectors(V), NEW k \in 0 .. Size(r)
  PROVE  Holds(TrimFront(r, k), V, SubSeq(Contents(r), k + 1, Size(r)))
<1>1. PICK cap, start, n, s, mem : Parts(r, V, cap, start, n, s, mem)
  BY BuiltParts
<1>3. /\ cap \in Nat /\ start \in Nat /\ n \in Nat /\ s \in Seq(V) /\ mem \in Memory(cap, V)
      /\ n = Len(s) /\ start + n <= cap /\ s = Contents(r) /\ Size(r) = n
      /\ r.cap = cap /\ r.start = start /\ r.end = start + n /\ r.mem = mem
  BY <1>1 DEF Parts
<1>2. k \in 0 .. n /\ n \in Nat /\ start \in Nat
  BY <1>3
<1>11. n - k \in Nat /\ start + n - k \in Nat /\ start + n \in Nat
  BY <1>2
<1>4. PICK to \in Nat : to = start + k
  BY <1>2, <1>3
<1>5. DestroyRange(mem, start, to) =
        [i \in 0 .. cap - 1 |-> IF start <= i /\ i < to THEN Raw ELSE mem[i]]
  <2>1. start <= to /\ to <= cap /\ \A i \in start .. to - 1 : mem[i] # Raw
    <3>1. \A i \in start .. start + n - 1 : mem[i] # Raw
      BY <1>1 DEF Parts
    <3>2. \A i \in start .. to - 1 : i \in start .. start + n - 1
      BY <1>2, <1>4
    <3>3. start <= to /\ to <= cap
      BY <1>2, <1>3, <1>4
    <3>4. QED
      BY <3>1, <3>2, <3>3, Zenon
  <2>2. cap \in Nat /\ mem \in Memory(cap, V) /\ start \in Nat
    BY <1>3
  <2>3. QED
    BY <2>1, <2>2, DestroyRangeIs
<1>6. DestroyRange(mem, start, start + k) = Kept(cap, start, s, k, n - k)
  <2>2. [i \in 0 .. cap - 1 |-> IF start <= i /\ i < start + k THEN Raw ELSE mem[i]]
          = Kept(cap, start, s, k, n - k)
    BY <1>1, <1>2, KeptBehind
  <2>3. QED
    BY <1>4, <1>5, <2>2
<1>7. PICK m \in Nat : m = n - k
  BY <1>11
<1>8. Holds(Vector(cap, start + k, start + k + m, Kept(cap, start, s, k, m)), V, SubSeq(s, k + 1,
      k + m))
  <2>1. k + m <= Len(s) /\ start + Len(s) <= cap /\ k \in Nat
    BY <1>2, <1>3, <1>7
  <2>2. QED
    BY <1>3, <1>7, <2>1, KeptHolds
<1>9. start + k + m = start + n /\ k + m = n
  BY <1>3, <1>7
<1>10. QED
  BY <1>3, <1>6, <1>7, <1>8, <1>9 DEF TrimFront

\* Values destroyed at the back: the others are kept.
LEMMA TrimBackHolds ==
  ASSUME NEW V, Objects(V), NEW r \in Vectors(V), NEW k \in 0 .. Size(r)
  PROVE  Holds(TrimBack(r, k), V, SubSeq(Contents(r), 1, Size(r) - k))
<1>1. PICK cap, start, n, s, mem : Parts(r, V, cap, start, n, s, mem)
  BY BuiltParts
<1>3. /\ cap \in Nat /\ start \in Nat /\ n \in Nat /\ s \in Seq(V) /\ mem \in Memory(cap, V)
      /\ n = Len(s) /\ start + n <= cap /\ s = Contents(r) /\ Size(r) = n
      /\ r.cap = cap /\ r.start = start /\ r.end = start + n /\ r.mem = mem
  BY <1>1 DEF Parts
<1>2. k \in 0 .. n /\ n \in Nat /\ start \in Nat
  BY <1>3
<1>11. n - k \in Nat /\ start + n - k \in Nat /\ start + n \in Nat
  BY <1>2
<1>4. PICK from \in Nat : from = start + n - k
  BY <1>11
<1>12. PICK to \in Nat : to = start + n
  BY <1>11
<1>5. DestroyRange(mem, from, to) =
        [i \in 0 .. cap - 1 |-> IF from <= i /\ i < to THEN Raw ELSE mem[i]]
  <2>1. from <= to /\ to <= cap /\ \A i \in from .. to - 1 : mem[i] # Raw
    <3>1. \A i \in start .. start + n - 1 : mem[i] # Raw
      BY <1>1 DEF Parts
    <3>2. \A i \in from .. to - 1 : i \in start .. start + n - 1
      BY <1>2, <1>4, <1>12
    <3>3. from <= to /\ to <= cap
      BY <1>2, <1>3, <1>4, <1>12
    <3>4. QED
      BY <3>1, <3>2, <3>3, Zenon
  <2>2. cap \in Nat /\ mem \in Memory(cap, V) /\ start \in Nat
    BY <1>3
  <2>3. QED
    BY <2>1, <2>2, DestroyRangeIs
<1>6. DestroyRange(mem, start + n - k, start + n) = Kept(cap, start, s, 0, n - k)
  <2>2. [i \in 0 .. cap - 1 |-> IF start + n - k <= i /\ i < start + n THEN Raw ELSE mem[i]]
          = Kept(cap, start, s, 0, n - k)
    BY <1>1, <1>2, KeptBefore
  <2>3. QED
    BY <1>4, <1>12, <1>5, <2>2
<1>7. PICK m \in Nat : m = n - k
  BY <1>11
<1>8. Holds(Vector(cap, start + 0, start + 0 + m, Kept(cap, start, s, 0, m)), V, SubSeq(s, 0 + 1,
      0 + m))
  <2>1. 0 + m <= Len(s) /\ start + Len(s) <= cap
    BY <1>3, <1>7
  <2>2. QED
    BY <1>3, <1>7, <2>1, KeptHolds
<1>9. start + 0 = start /\ start + 0 + m = start + n - k /\ 0 + m = n - k /\ 0 + 1 = 1
  BY <1>3, <1>7
<1>10. QED
  BY <1>3, <1>6, <1>7, <1>8, <1>9 DEF TrimBack

\* One slot is a range of one.
LEMMA DestroyOne ==
  ASSUME NEW cap \in Nat, NEW V, Objects(V), NEW mem \in Memory(cap, V),
         NEW j \in Nat, j + 1 <= cap, mem[j] # Raw
  PROVE  Destroy(mem, j) = DestroyRange(mem, j, j + 1)
<1>1. PICK to \in Nat : to = j + 1
  OBVIOUS
<1>2. DestroyRange(mem, j, to) = [i \in 0 .. cap - 1 |-> IF j <= i /\ i < to THEN Raw ELSE mem[i]]
  <2>1. j <= to /\ to <= cap /\ \A i \in j .. to - 1 : mem[i] # Raw
    BY <1>1
  <2>2. QED
    BY <2>1, DestroyRangeIs
<1>3. Destroy(mem, j) = [mem EXCEPT ![j] = Raw] /\ j \in 0 .. cap - 1
  BY DEF Destroy, Memory
<1>4. ASSUME NEW i \in 0 .. cap - 1
      PROVE  (IF j <= i /\ i < to THEN Raw ELSE mem[i]) = IF i = j THEN Raw ELSE mem[i]
  BY <1>1
<1>5. [mem EXCEPT ![j] = Raw] = [i \in 0 .. cap - 1 |-> IF i = j THEN Raw ELSE mem[i]]
  BY <1>3 DEF Memory
<1>6. QED
  BY <1>1, <1>2, <1>3, <1>4, <1>5

\* pop_back() removes the last value.
LEMMA PopBackHolds ==
  ASSUME NEW V, Objects(V), NEW r \in Vectors(V), Size(r) > 0
  PROVE  Holds(PopBack(r), V, SubSeq(Contents(r), 1, Size(r) - 1))
<1>1. PICK cap, start, n, s, mem : Parts(r, V, cap, start, n, s, mem)
  BY BuiltParts
<1>2. /\ cap \in Nat /\ start \in Nat /\ n \in Nat /\ s \in Seq(V) /\ mem \in Memory(cap, V)
      /\ n = Len(s) /\ start + n <= cap /\ s = Contents(r) /\ Size(r) = n
      /\ r.cap = cap /\ r.start = start /\ r.end = start + n /\ r.mem = mem
  BY <1>1 DEF Parts
<1>3. PICK j \in Nat : j = start + n - 1 /\ j + 1 = start + n /\ j \in start .. start + n - 1
  BY SMTT(20), <1>2
<1>4. Destroy(mem, j) = DestroyRange(mem, j, j + 1)
  <2>1. mem[j] # Raw /\ j + 1 <= cap /\ cap \in Nat /\ mem \in Memory(cap, V)
    BY <1>1, <1>2, <1>3 DEF Parts
  <2>2. QED
    BY <2>1, DestroyOne
<1>5. PopBack(r) = TrimBack(r, 1)
  BY <1>2, <1>3, <1>4 DEF PopBack, TrimBack
<1>6. 1 \in 0 .. Size(r)
  BY <1>2
<1>7. QED
  BY <1>5, <1>6, TrimBackHolds

\* pop_front() removes the first value.
LEMMA PopFrontHolds ==
  ASSUME NEW V, Objects(V), NEW r \in Vectors(V), Size(r) > 0
  PROVE  Holds(PopFront(r), V, SubSeq(Contents(r), 2, Size(r)))
<1>1. PICK cap, start, n, s, mem : Parts(r, V, cap, start, n, s, mem)
  BY BuiltParts
<1>2. /\ cap \in Nat /\ start \in Nat /\ n \in Nat /\ s \in Seq(V) /\ mem \in Memory(cap, V)
      /\ n = Len(s) /\ start + n <= cap /\ s = Contents(r) /\ Size(r) = n
      /\ r.cap = cap /\ r.start = start /\ r.end = start + n /\ r.mem = mem
  BY <1>1 DEF Parts
<1>3. start \in start .. start + n - 1 /\ start + 1 <= cap
  BY <1>2
<1>4. Destroy(mem, start) = DestroyRange(mem, start, start + 1)
  <2>1. mem[start] # Raw /\ start + 1 <= cap /\ cap \in Nat /\ mem \in Memory(cap,
        V) /\ start \in Nat
    BY <1>1, <1>2, <1>3 DEF Parts
  <2>2. QED
    BY <2>1, DestroyOne
<1>5. PopFront(r) = TrimFront(r, 1)
  BY <1>2, <1>4 DEF PopFront, TrimFront
<1>6. 1 \in 0 .. Size(r) /\ 1 + 1 = 2
  BY <1>2
<1>7. QED
  BY <1>5, <1>6, TrimFrontHolds

\* clear() leaves no value, and a block of raw slots.
LEMMA ClearHolds ==
  ASSUME NEW V, Objects(V), NEW r \in Vectors(V)
  PROVE  Holds(Clear(r), V, <<>>)
<1>1. PICK cap, start, n, s, mem : Parts(r, V, cap, start, n, s, mem)
  BY BuiltParts
<1>2. /\ cap \in Nat /\ start \in Nat /\ n \in Nat /\ s \in Seq(V) /\ mem \in Memory(cap, V)
      /\ n = Len(s) /\ start + n <= cap /\ s = Contents(r) /\ Size(r) = n
      /\ r.cap = cap /\ r.start = start /\ r.end = start + n /\ r.mem = mem
  BY <1>1 DEF Parts
<1>3. PICK end \in Nat : end = start + n
  BY <1>2
<1>4. DestroyRange(mem, start, end) = [i \in 0 .. cap - 1 |->
      IF start <= i /\ i < end THEN Raw ELSE mem[i]]
  <2>1. start <= end /\ end <= cap /\ \A i \in start .. end - 1 : mem[i] # Raw
    BY <1>1, <1>3 DEF Parts
  <2>2. cap \in Nat /\ mem \in Memory(cap, V) /\ start \in Nat
    BY <1>2
  <2>3. QED
    BY <2>1, <2>2, DestroyRangeIs
<1>5. PICK e : e = <<>>
  OBVIOUS
<1>6. e \in Seq(V) /\ Len(e) = 0
  BY <1>5
<1>7. PICK zero \in Nat : zero = 0
  OBVIOUS
<1>8. ASSUME NEW i \in 0 .. cap - 1
      PROVE  (IF start <= i /\ i < end THEN Raw ELSE mem[i]) = Raw
  BY <1>1, <1>3 DEF Parts
<1>9. ASSUME NEW i \in 0 .. cap - 1
      PROVE  Raw = IF zero <= i /\ i < zero + Len(e) THEN e[i - zero + 1] ELSE Raw
  BY <1>6, <1>7
<1>10. Vector(cap, zero, zero + Len(e), DestroyRange(mem, start, end)) = Built(cap, zero, e)
  BY <1>4, <1>8, <1>9 DEF Built
<1>11. Holds(Built(cap, zero, e), V, e)
  <2>1. zero + Len(e) <= cap /\ cap \in Nat
    BY <1>2, <1>6, <1>7
  <2>2. QED
    BY <1>6, <1>7, <2>1, BuiltHolds
<1>12. QED
  BY <1>2, <1>3, <1>5, <1>6, <1>7, <1>10, <1>11 DEF Clear

\* reserve() keeps the values.
LEMMA ReserveHolds ==
  ASSUME NEW V, Objects(V), NEW r \in Vectors(V), NEW n \in Nat
  PROVE  Holds(Reserve(r, n), V, Contents(r))
<1>1. r.cap \in Nat /\ r.start \in Nat /\ r.start + Size(r) <= r.cap
  BY VectorHas
<1>2. CASE n <= r.cap
  BY <1>2, ContentsAre DEF Reserve, Holds
<1>3. CASE n > r.cap
  <2>1. Reserve(r, n) = NewBlock(r, n, r.start) /\ r.start + Size(r) <= n /\ r.start \in Nat
    BY <1>1, <1>3, VectorHas DEF Reserve
  <2>2. QED
    BY <2>1, NewBlockHolds
<1>4. QED
  BY <1>1, <1>2, <1>3

\* reserve_back() keeps the values, and makes the room asked for behind them.
LEMMA ReserveBackHolds ==
  ASSUME NEW V, Objects(V), NEW r \in Vectors(V), NEW n \in Nat
  PROVE  /\ Holds(ReserveBack(r, n), V, Contents(r))
         /\ ReserveBack(r, n).cap - ReserveBack(r, n).end >= n
<1>1. PICK cap, start, end, l \in Nat :
        /\ start <= end /\ end <= cap /\ Size(r) = l /\ l = end - start
        /\ r.cap = cap /\ r.start = start /\ r.end = end
  BY VectorParts, VectorHas
<1>2. CASE cap - end >= n
  BY <1>1, <1>2, ContentsAre DEF ReserveBack, Holds
<1>3. CASE cap - end < n /\ n + l <= cap
  <2>1. PICK dst \in Nat : dst = cap - n - l /\ dst + l <= cap
    BY <1>1, <1>3
  <2>2. ReserveBack(r, n) = MoveValues(r, dst)
    BY <1>1, <1>3, <2>1 DEF ReserveBack
  <2>3. dst + Size(r) <= r.cap
    BY <1>1, <2>1
  <2>4. /\ Holds(MoveValues(r, dst), V, Contents(r)) /\ MoveValues(r, dst).cap = r.cap
        /\ MoveValues(r, dst).end = dst + Size(r)
    BY <2>3, MoveValuesHolds
  <2>5. QED
    BY <1>1, <2>1, <2>2, <2>4
<1>4. CASE cap - end < n /\ n + l > cap
  <2>1. PICK c \in Nat : c = n + l
    OBVIOUS
  <2>2. ReserveBack(r, n) = NewBlock(r, c, 0) /\ 0 + Size(r) <= c
    BY <1>1, <1>4, <2>1 DEF ReserveBack
  <2>3. Holds(NewBlock(r, c, 0), V, Contents(r)) /\ NewBlock(r, c, 0).cap =
        c /\ NewBlock(r, c, 0).end = 0 + Size(r)
    BY <2>2, NewBlockHolds
  <2>4. QED
    BY <1>1, <2>1, <2>2, <2>3
<1>5. QED
  BY <1>1, <1>2, <1>3, <1>4

\* reserve_front() keeps the values, and makes the room asked for in front of them.
LEMMA ReserveFrontHolds ==
  ASSUME NEW V, Objects(V), NEW r \in Vectors(V), NEW n \in Nat
  PROVE  /\ Holds(ReserveFront(r, n), V, Contents(r))
         /\ ReserveFront(r, n).start >= n
<1>1. PICK cap, start, end, l \in Nat :
        /\ start <= end /\ end <= cap /\ Size(r) = l /\ l = end - start
        /\ r.cap = cap /\ r.start = start /\ r.end = end
  BY VectorParts, VectorHas
<1>2. CASE start >= n
  BY <1>1, <1>2, ContentsAre DEF ReserveFront, Holds
<1>3. CASE start < n /\ n + l <= cap
  <2>1. ReserveFront(r, n) = MoveValues(r, n) /\ n + Size(r) <= r.cap
    BY <1>1, <1>3 DEF ReserveFront
  <2>2. Holds(MoveValues(r, n), V, Contents(r)) /\ MoveValues(r, n).start = n
    BY <2>1, MoveValuesHolds
  <2>3. QED
    BY <2>1, <2>2
<1>4. CASE start < n /\ n + l > cap
  <2>1. PICK c \in Nat : c = n + l
    OBVIOUS
  <2>2. ReserveFront(r, n) = NewBlock(r, c, n) /\ n + Size(r) <= c
    BY <1>1, <1>4, <2>1 DEF ReserveFront
  <2>3. Holds(NewBlock(r, c, n), V, Contents(r)) /\ NewBlock(r, c, n).start = n
    BY <2>2, NewBlockHolds
  <2>4. QED
    BY <2>2, <2>3
<1>5. QED
  BY <1>1, <1>2, <1>3, <1>4

\* shrink_to_fit() keeps the values.
LEMMA ShrinkToFitHolds ==
  ASSUME NEW V, Objects(V), NEW r \in Vectors(V)
  PROVE  Holds(ShrinkToFit(r), V, Contents(r))
<1>1. CASE Size(r) = r.cap
  BY <1>1, ContentsAre DEF ShrinkToFit, Holds
<1>2. CASE Size(r) # r.cap
  <2>1. PICK c \in Nat : c = Size(r)
    BY VectorHas
  <2>2. ShrinkToFit(r) = NewBlock(r, c, 0) /\ 0 + Size(r) <= c
    BY <1>2, <2>1 DEF ShrinkToFit
  <2>3. QED
    BY <2>2, NewBlockHolds
<1>3. QED
  BY <1>1, <1>2

-----------------------------------------------------------------------------
(***************************************************************************)
(* Values constructed.                                                     *)
(***************************************************************************)
\* Values constructed behind the last.
LEMMA AppendHolds ==
  ASSUME NEW V, Objects(V), NEW r \in Vectors(V), NEW l \in Nat, NEW t \in [1 .. l -> V], Len(t) =
        l,
         r.end + l <= r.cap
  PROVE  Holds(Vector(r.cap, r.start, r.end + l, ConstructRange(r.mem, r.end, t)), V,
        Contents(r) \o t)
<1>1. PICK cap, start, n, s, mem : Parts(r, V, cap, start, n, s, mem)
  BY BuiltParts
<1>2. /\ cap \in Nat /\ start \in Nat /\ n \in Nat /\ s \in Seq(V) /\ mem \in Memory(cap, V)
      /\ n = Len(s) /\ start + n <= cap /\ s = Contents(r) /\ Size(r) = n
      /\ r.cap = cap /\ r.start = start /\ r.end = start + n /\ r.mem = mem
  BY <1>1 DEF Parts
<1>3. PICK from \in Nat : from = start + n /\ from + l <= cap
  BY <1>2
<1>4. ConstructRange(mem, from, t) =
        [i \in 0 .. cap - 1 |-> IF from <= i /\ i < from + l THEN t[i - from + 1] ELSE mem[i]]
  <2>1. \A i \in from .. from + l - 1 : mem[i] = Raw
    BY <1>1, <1>3 DEF Parts
  <2>2. cap \in Nat /\ mem \in Memory(cap, V)
    BY <1>2
  <2>3. from + l <= cap
    BY <1>3
  <2>4. QED
    BY <2>1, <2>2, <2>3, ConstructRangeIs
<1>5. t \in Seq(V)
  OBVIOUS
<1>6. PICK u : u = s \o t
  OBVIOUS
<1>7. /\ u \in Seq(V) /\ Len(u) = n + l
      /\ \A i \in 1 .. n + l : u[i] = IF i <= n THEN s[i] ELSE t[i - n]
  <2>1. s \in Seq(V) /\ n \in Nat /\ n = Len(s)
    BY <1>2
  <2>2. QED
    <3>1. u \in Seq(V) /\ Len(u) = Len(s) + Len(t)
      BY <1>5, <1>6, <2>1, ConcatProperties
    <3>2. \A i \in 1 .. Len(s) + Len(t) : u[i] = IF i <= Len(s) THEN s[i] ELSE t[i - Len(s)]
      BY <1>5, <1>6, <2>1, ConcatProperties
    <3>3. QED
      BY <2>1, <3>1, <3>2
<1>8. ASSUME NEW i \in 0 .. cap - 1
      PROVE  (IF from <= i /\ i < from + l THEN t[i - from + 1] ELSE mem[i])
               = IF start <= i /\ i < start + Len(u) THEN u[i - start + 1] ELSE Raw
  <2>1. mem[i] = IF start <= i /\ i < from THEN s[i - start + 1] ELSE Raw
    BY <1>1, <1>3 DEF Parts
  <2>2. PICK j \in Int : j = i - start + 1
    BY <1>2
  <2>3. start <= i /\ i < from => j \in 1 .. n + l /\ j <= n
    BY <1>2, <1>3, <2>2
  <2>4. from <= i /\ i < from + l => j \in 1 .. n + l /\ j > n /\ j - n = i - from + 1
    BY <1>2, <1>3, <2>2
  <2>5. start <= i /\ i < from => u[j] = s[i - start + 1]
    BY <1>7, <2>2, <2>3
  <2>6. from <= i /\ i < from + l => u[j] = t[i - from + 1]
    <3>1. n \in Nat
      BY <1>2
    <3>2. from <= i /\ i < from + l => u[j] = t[j - n]
      BY <3>1, <1>7, <2>4
    <3>3. QED
      BY <2>4, <3>2
  <2>7. start + Len(u) = from + l /\ start <= from
    BY <1>2, <1>3, <1>7
  <2>8. QED
    BY <1>2, <1>3, <2>1, <2>2, <2>5, <2>6, <2>7
<1>9. Vector(cap, start, from + l, ConstructRange(mem, from, t)) = Built(cap, start, u)
  <2>1. from + l = start + Len(u)
    BY <1>2, <1>3, <1>7
  <2>2. QED
    BY <1>4, <1>8, <2>1 DEF Built
<1>10. Holds(Built(cap, start, u), V, u)
  <2>1. start + Len(u) <= cap /\ cap \in Nat /\ start \in Nat
    BY <1>2, <1>3, <1>7
  <2>2. QED
    BY <1>7, <2>1, BuiltHolds
<1>11. QED
  BY <1>2, <1>3, <1>6, <1>9, <1>10

\* Values constructed in front of the first.
LEMMA PrependHolds ==
  ASSUME NEW V, Objects(V), NEW r \in Vectors(V), NEW l \in Nat, NEW t \in [1 .. l -> V], Len(t) =
        l,
         r.start >= l
  PROVE  Holds(Vector(r.cap, r.start - l, r.end, ConstructRange(r.mem, r.start - l, t)), V,
        t \o Contents(r))
<1>1. PICK cap, start, n, s, mem : Parts(r, V, cap, start, n, s, mem)
  BY BuiltParts
<1>2. /\ cap \in Nat /\ start \in Nat /\ n \in Nat /\ s \in Seq(V) /\ mem \in Memory(cap, V)
      /\ n = Len(s) /\ start + n <= cap /\ s = Contents(r) /\ Size(r) = n
      /\ r.cap = cap /\ r.start = start /\ r.end = start + n /\ r.mem = mem
  BY <1>1 DEF Parts
<1>3. PICK from \in Nat : from = start - l /\ start = from + l /\ from + l <= cap
  BY <1>2
<1>4. ConstructRange(mem, from, t) =
        [i \in 0 .. cap - 1 |-> IF from <= i /\ i < from + l THEN t[i - from + 1] ELSE mem[i]]
  <2>1. \A i \in from .. from + l - 1 : mem[i] = Raw
    BY <1>1, <1>3 DEF Parts
  <2>2. cap \in Nat /\ mem \in Memory(cap, V)
    BY <1>2
  <2>3. from + l <= cap
    BY <1>3
  <2>4. QED
    BY <2>1, <2>2, <2>3, ConstructRangeIs
<1>5. t \in Seq(V)
  OBVIOUS
<1>6. PICK u : u = t \o s
  OBVIOUS
<1>7. /\ u \in Seq(V) /\ Len(u) = l + n
      /\ \A i \in 1 .. l + n : u[i] = IF i <= l THEN t[i] ELSE s[i - l]
  <2>1. s \in Seq(V) /\ n \in Nat /\ n = Len(s)
    BY <1>2
  <2>2. QED
    <3>1. u \in Seq(V) /\ Len(u) = Len(t) + Len(s)
      BY <1>5, <1>6, <2>1, ConcatProperties
    <3>2. \A i \in 1 .. Len(t) + Len(s) : u[i] = IF i <= Len(t) THEN t[i] ELSE s[i - Len(t)]
      BY <1>5, <1>6, <2>1, ConcatProperties
    <3>3. QED
      BY <2>1, <3>1, <3>2
<1>8. ASSUME NEW i \in 0 .. cap - 1
      PROVE  (IF from <= i /\ i < from + l THEN t[i - from + 1] ELSE mem[i])
               = IF from <= i /\ i < from + Len(u) THEN u[i - from + 1] ELSE Raw
  <2>1. mem[i] = IF start <= i /\ i < start + n THEN s[i - start + 1] ELSE Raw
    BY <1>1 DEF Parts
  <2>2. PICK j \in Int : j = i - from + 1
    BY <1>3
  <2>3. start <= i /\ i < start + n => j \in 1 .. l + n /\ j > l /\ j - l = i - start + 1
    BY <1>2, <1>3, <2>2
  <2>4. from <= i /\ i < from + l => j \in 1 .. l + n /\ j <= l
    BY <1>2, <1>3, <2>2
  <2>5. start <= i /\ i < start + n => u[j] = s[i - start + 1]
    BY <1>7, <2>3
  <2>6. from <= i /\ i < from + l => u[j] = t[j]
    BY <1>7, <2>4
  <2>7. from + Len(u) = start + n /\ from <= start
    BY <1>2, <1>3, <1>7
  <2>8. QED
    BY <1>2, <1>3, <2>1, <2>2, <2>5, <2>6, <2>7
<1>9. Vector(cap, from, start + n, ConstructRange(mem, from, t)) = Built(cap, from, u)
  <2>1. start + n = from + Len(u)
    BY <1>2, <1>3, <1>7
  <2>2. QED
    BY <1>4, <1>8, <2>1 DEF Built
<1>10. Holds(Built(cap, from, u), V, u)
  <2>1. from + Len(u) <= cap /\ cap \in Nat /\ from \in Nat
    BY <1>2, <1>3, <1>7
  <2>2. QED
    BY <1>7, <2>1, BuiltHolds
<1>11. QED
  BY <1>2, <1>3, <1>6, <1>9, <1>10

\* n copies of a value.
LEMMA CopiesAre ==
  ASSUME NEW V, NEW v \in V, NEW n \in Nat
  PROVE  Copies(n, v) \in [1 .. n -> V] /\ Len(Copies(n, v)) = n /\ Copies(n, v) \in Seq(V)
BY DEF Copies

\* resize() drops values at the back, or fills up there.
LEMMA ResizeHolds ==
  ASSUME NEW V, Objects(V), NEW r \in Vectors(V), NEW n \in Nat, NEW v \in V
  PROVE  Holds(Resize(r, n, v), V, ResizedTo(Contents(r), n, v))
<1>1. PICK cap, start, end, l \in Nat :
        /\ start <= end /\ end <= cap /\ Size(r) = l /\ l = end - start
        /\ r.cap = cap /\ r.start = start /\ r.end = end
  BY VectorParts, VectorHas
<1>2. PICK s : s = Contents(r) /\ Len(s) = l
  BY <1>1, ContentsAre
<1>3. CASE n <= l
  <2>1. PICK k \in 0 .. Size(r) : k = l - n /\ - (n - l) = k /\ Size(r) - k = n
    BY <1>1, <1>3
  <2>2. Resize(r, n, v) = TrimBack(r, k)
    BY <1>1, <1>3, <2>1 DEF Resize
  <2>3. Holds(TrimBack(r, k), V, SubSeq(Contents(r), 1, Size(r) - k))
    BY TrimBackHolds
  <2>4. QED
    BY <1>1, <1>2, <1>3, <2>1, <2>2, <2>3 DEF ResizedTo
<1>4. CASE n > l
  <2>1. PICK more \in Nat : more = n - l /\ ~ more <= 0 /\ more + l = n
    BY <1>1, <1>4
  <2>2. PICK u : u = IF r.cap - r.end >= more THEN r ELSE NewBlock(r, n, 0)
    OBVIOUS
  <2>3. u \in Vectors(V) /\ Contents(u) = s /\ u.end + more <= u.cap
    <3>1. CASE r.cap - r.end >= more
      BY <1>1, <1>2, <2>1, <2>2, <3>1
    <3>2. CASE ~ r.cap - r.end >= more
      <4>1. 0 + Size(r) <= n
        BY <1>1, <1>4
      <4>2. Holds(NewBlock(r, n, 0), V, Contents(r)) /\ NewBlock(r, n, 0).cap = n
            /\ NewBlock(r, n, 0).end = 0 + Size(r)
        BY <4>1, NewBlockHolds
      <4>3. QED
        BY <1>1, <1>2, <2>1, <2>2, <3>2, <4>2 DEF Holds
    <3>3. QED
      BY <3>1, <3>2
  <2>4. PICK t \in [1 .. more -> V] : t = Copies(more, v) /\ Len(t) = more
    BY CopiesAre
  <2>5. Holds(Vector(u.cap, u.start, u.end + more, ConstructRange(u.mem, u.end, t)), V,
        Contents(u) \o t)
    BY <2>3, <2>4, AppendHolds
  <2>6. Resize(r, n, v) = Vector(u.cap, u.start, u.end + more, ConstructRange(u.mem, u.end, t))
    BY <1>1, <2>1, <2>2, <2>4 DEF Resize
  <2>7. QED
    BY <1>1, <1>2, <1>4, <2>1, <2>3, <2>4, <2>5, <2>6 DEF ResizedTo
<1>5. QED
  BY <1>3, <1>4

\* resize_front() drops values at the front, or fills up there.
LEMMA ResizeFrontHolds ==
  ASSUME NEW V, Objects(V), NEW r \in Vectors(V), NEW n \in Nat, NEW v \in V
  PROVE  Holds(ResizeFront(r, n, v), V, ResizedFrontTo(Contents(r), n, v))
<1>1. PICK cap, start, end, l \in Nat :
        /\ start <= end /\ end <= cap /\ Size(r) = l /\ l = end - start
        /\ r.cap = cap /\ r.start = start /\ r.end = end
  BY VectorParts, VectorHas
<1>2. PICK s : s = Contents(r) /\ Len(s) = l
  BY <1>1, ContentsAre
<1>3. CASE n <= l
  <2>1. PICK k \in 0 .. Size(r) : k = l - n /\ - (n - l) = k /\ k + 1 = l - n + 1
    BY <1>1, <1>3
  <2>2. ResizeFront(r, n, v) = TrimFront(r, k)
    BY <1>1, <1>3, <2>1 DEF ResizeFront
  <2>3. Holds(TrimFront(r, k), V, SubSeq(Contents(r), k + 1, Size(r)))
    BY TrimFrontHolds
  <2>4. QED
    BY <1>1, <1>2, <1>3, <2>1, <2>2, <2>3 DEF ResizedFrontTo
<1>4. CASE n > l
  <2>1. PICK more \in Nat : more = n - l /\ ~ more <= 0 /\ more + l = n
    BY <1>1, <1>4
  <2>2. PICK u : u = IF r.start >= more THEN r ELSE NewBlock(r, n, more)
    OBVIOUS
  <2>3. u \in Vectors(V) /\ Contents(u) = s /\ u.start >= more
    <3>1. CASE r.start >= more
      BY <1>1, <1>2, <2>1, <2>2, <3>1
    <3>2. CASE ~ r.start >= more
      <4>1. more + Size(r) <= n
        BY <1>1, <2>1
      <4>2. Holds(NewBlock(r, n, more), V, Contents(r)) /\ NewBlock(r, n, more).start = more
        BY <4>1, NewBlockHolds
      <4>3. QED
        BY <1>1, <1>2, <2>1, <2>2, <3>2, <4>2 DEF Holds
    <3>3. QED
      BY <3>1, <3>2
  <2>4. PICK t \in [1 .. more -> V] : t = Copies(more, v) /\ Len(t) = more
    BY CopiesAre
  <2>5. Holds(Vector(u.cap, u.start - more, u.end, ConstructRange(u.mem, u.start - more, t)), V,
        t \o Contents(u))
    BY <2>3, <2>4, PrependHolds
  <2>6. ResizeFront(r, n, v) =
        Vector(u.cap, u.start - more, u.end, ConstructRange(u.mem, u.start - more, t))
    BY <1>1, <2>1, <2>2, <2>4 DEF ResizeFront
  <2>7. QED
    BY <1>1, <1>2, <1>4, <2>1, <2>3, <2>4, <2>5, <2>6 DEF ResizedFrontTo
<1>5. QED
  BY <1>3, <1>4

-----------------------------------------------------------------------------
(***************************************************************************)
(* Operations in the middle.                                               *)
(***************************************************************************)
\* The values in front of a place, and those behind it.
LEMMA FrontOf ==
  ASSUME NEW V, NEW s \in Seq(V), NEW i \in 0 .. Len(s), NEW t, t = SubSeq(s, 1, i)
  PROVE  t \in Seq(V) /\ Len(t) = i /\ \A k \in 1 .. i : t[k] = s[k]
<1>1. i \in Nat /\ 0 + i <= Len(s) /\ t = SubSeq(s, 0 + 1, 0 + i)
  OBVIOUS
<1>2. t \in Seq(V) /\ Len(t) = i /\ \A k \in 1 .. i : t[k] = s[0 + k]
  BY <1>1, PartOf
<1>3. QED
  BY <1>2

\* The values behind a place.
LEMMA BackOf ==
  ASSUME NEW V, NEW s \in Seq(V), NEW i \in 0 .. Len(s), NEW t, t = SubSeq(s, i + 1, Len(s))
  PROVE  t \in Seq(V) /\ Len(t) = Len(s) - i /\ \A k \in 1 .. Len(s) - i : t[k] = s[i + k]
<1>1. PICK n \in Nat : i + n = Len(s) /\ n = Len(s) - i /\ i \in Nat
  <2>1. PICK l \in Nat : l = Len(s) /\ i \in Nat /\ i <= l
    OBVIOUS
  <2>2. l - i \in Nat /\ i + (l - i) = l
    BY <2>1
  <2>3. QED
    BY <2>1, <2>2
<1>2. t = SubSeq(s, i + 1, i + n) /\ i + n <= Len(s)
  BY <1>1
<1>3. t \in Seq(V) /\ Len(t) = n /\ \A k \in 1 .. n : t[k] = s[i + k]
  <2>1. i \in Nat
    OBVIOUS
  <2>2. \A w : w = SubSeq(s, i + 1, i + n) =>
          w \in Seq(V) /\ Len(w) = n /\ \A k \in 1 .. n : w[k] = s[i + k]
    BY <1>2, <2>1, PartOf
  <2>3. QED
    BY <1>2, <2>2, Zenon
<1>4. QED
  BY <1>1, <1>3

\* u is s, of n values, with the l values of t behind the first i.
Spliced(V, s, t, i, n, l, u) ==
  /\ n \in Nat /\ l \in Nat /\ i \in Nat /\ i <= n /\ u \in Seq(V) /\ Len(u) = n + l
  /\ \A k \in 1 .. n + l :
       u[k] = IF k <= i THEN s[k] ELSE IF k <= i + l THEN t[k - i] ELSE s[k - l]

\* Values inserted in a sequence: which is where.
LEMMA SpliceIs ==
  ASSUME NEW V, NEW s \in Seq(V), NEW t \in Seq(V), NEW i \in 0 .. Len(s),
         NEW n, n = Len(s), NEW l, l = Len(t), NEW u, u = Splice(s, i, t)
  PROVE  Spliced(V, s, t, i, n, l, u)
<1>0. n \in Nat /\ l \in Nat /\ i \in Nat /\ i <= n
  OBVIOUS
<1>1. PICK a : a = SubSeq(s, 1, i)
  OBVIOUS
<1>2. PICK b : b = SubSeq(s, i + 1, Len(s))
  OBVIOUS
<1>3. a \in Seq(V) /\ i = Len(a) /\ \A k \in 1 .. i : a[k] = s[k]
  BY <1>1, FrontOf
<1>4. b \in Seq(V) /\ Len(b) = n - i /\ \A k \in 1 .. n - i : b[k] = s[i + k]
  BY <1>2, BackOf
<1>5. PICK c : c = a \o t
  OBVIOUS
<1>6. /\ c \in Seq(V) /\ Len(c) = i + l
      /\ \A k \in 1 .. i + l : c[k] = IF k <= i THEN a[k] ELSE t[k - i]
  <2>1. Joined(V, a, i, t, l, c)
    BY <1>3, <1>5 DEF Joined
  <2>2. Join(V, a, i, t, l, c)
    BY <2>1, JoinedIs
  <2>3. QED
    BY <2>2 DEF Join
<1>7. u = c \o b
  BY <1>1, <1>2, <1>5 DEF Splice
<1>8. PICK p : p = i + l
  OBVIOUS
<1>9. PICK q : q = n - i
  OBVIOUS
<1>10. /\ u \in Seq(V) /\ Len(u) = p + q
       /\ \A k \in 1 .. p + q : u[k] = IF k <= p THEN c[k] ELSE b[k - p]
  <2>1. Joined(V, c, p, b, q, u)
    BY <1>4, <1>6, <1>7, <1>8, <1>9 DEF Joined
  <2>2. Join(V, c, p, b, q, u)
    BY <2>1, JoinedIs
  <2>3. QED
    BY <2>2 DEF Join
<1>11. p + q = n + l
  BY <1>0, <1>8, <1>9
<1>12. ASSUME NEW k \in 1 .. n + l
       PROVE  u[k] = IF k <= i THEN s[k] ELSE IF k <= i + l THEN t[k - i] ELSE s[k - l]
  <2>1. CASE k <= i
    <3>1. k \in 1 .. i /\ k \in 1 .. i + l /\ k <= p /\ k \in 1 .. p + q
      BY <1>0, <1>8, <1>11, <2>1
    <3>2. QED
      BY <1>3, <1>6, <1>10, <2>1, <3>1
  <2>2. CASE ~ k <= i /\ k <= i + l
    <3>1. k \in 1 .. i + l /\ k <= p /\ k \in 1 .. p + q
      BY <1>0, <1>8, <1>11, <2>2
    <3>2. QED
      BY <1>6, <1>10, <2>2, <3>1
  <2>3. CASE ~ k <= i /\ ~ k <= i + l
    <3>1. ~ k <= p /\ k \in 1 .. p + q /\ k - p \in 1 .. n - i /\ i + (k - p) = k - l
      BY <1>0, <1>8, <1>11, <2>3
    <3>2. u[k] = b[k - p]
      BY <1>10, <3>1
    <3>3. b[k - p] = s[k - l]
      BY <1>4, <3>1
    <3>4. QED
      BY <2>3, <3>2, <3>3
  <2>4. QED
    BY <2>1, <2>2, <2>3
<1>13. QED
  BY <1>0, <1>10, <1>11, <1>12 DEF Spliced

\* u is s, of n values, without those from i + 1 to j.
CutTo(V, s, i, j, n, u) ==
  /\ u \in Seq(V) /\ Len(u) = n - (j - i)
  /\ \A k \in 1 .. n - (j - i) : u[k] = IF k <= i THEN s[k] ELSE s[k + (j - i)]

\* Values removed from a sequence: which is where.
LEMMA CutIs ==
  ASSUME NEW V, NEW s \in Seq(V), NEW i \in 0 .. Len(s), NEW j \in i .. Len(s),
         NEW n, n = Len(s), NEW u, u = Cut(s, i, j)
  PROVE  CutTo(V, s, i, j, n, u)
<1>0. n \in Nat /\ i \in Nat /\ j \in Nat /\ i <= j /\ j <= n /\ j \in 0 .. Len(s)
  OBVIOUS
<1>1. PICK a : a = SubSeq(s, 1, i)
  OBVIOUS
<1>2. PICK b : b = SubSeq(s, j + 1, Len(s))
  OBVIOUS
<1>3. a \in Seq(V) /\ i = Len(a) /\ \A k \in 1 .. i : a[k] = s[k]
  BY <1>1, FrontOf
<1>4. b \in Seq(V) /\ Len(b) = n - j /\ \A k \in 1 .. n - j : b[k] = s[j + k]
  BY <1>0, <1>2, BackOf
<1>5. PICK q : q = n - j
  OBVIOUS
<1>6. /\ u \in Seq(V) /\ Len(u) = i + q
      /\ \A k \in 1 .. i + q : u[k] = IF k <= i THEN a[k] ELSE b[k - i]
  <2>1. u = a \o b
    BY <1>1, <1>2 DEF Cut
  <2>2. Joined(V, a, i, b, q, u)
    BY <1>3, <1>4, <1>5, <2>1 DEF Joined
  <2>3. Join(V, a, i, b, q, u)
    BY <2>2, JoinedIs
  <2>4. QED
    BY <2>3 DEF Join
<1>7. i + q = n - (j - i)
  BY <1>0, <1>5
<1>8. ASSUME NEW k \in 1 .. n - (j - i)
      PROVE  u[k] = IF k <= i THEN s[k] ELSE s[k + (j - i)]
  <2>1. CASE k <= i
    <3>1. k \in 1 .. i /\ k \in 1 .. i + q
      BY <1>0, <1>7, <2>1
    <3>2. QED
      BY <1>3, <1>6, <2>1, <3>1
  <2>2. CASE ~ k <= i
    <3>1. k \in 1 .. i + q /\ k - i \in 1 .. n - j /\ j + (k - i) = k + (j - i)
      BY <1>0, <1>7, <2>2
    <3>2. u[k] = b[k - i]
      BY <1>6, <2>2, <3>1
    <3>3. b[k - i] = s[k + (j - i)]
      BY <1>4, <3>1
    <3>4. QED
      BY <2>2, <3>2, <3>3
  <2>3. QED
    BY <2>1, <2>2
<1>9. QED
  BY <1>6, <1>7, <1>8 DEF CutTo

\* No value inserted: the sequence as it was.
LEMMA SpliceNothing ==
  ASSUME NEW V, NEW s \in Seq(V), NEW i \in 0 .. Len(s)
  PROVE  Splice(s, i, <<>>) = s
<1>1. PICK a \in Seq(V) : a = SubSeq(s, 1, i)
  BY FrontOf
<1>2. PICK n \in Nat : n = Len(s)
  OBVIOUS
<1>3. a \o <<>> = a
  BY ConcatEmptySeq
<1>4. SubSeq(s, 1, i) \o SubSeq(s, i + 1, n) = SubSeq(s, 1, n)
  <2>1. 1 \in 1 .. Len(s) + 1 /\ i \in 1 - 1 .. Len(s) /\ n \in i .. Len(s)
    BY <1>2
  <2>2. QED
    BY <2>1, ConcatAdjacentSubSeq
<1>5. SubSeq(s, 1, n) = s
  BY <1>2, SubSeqFull
<1>6. QED
  BY <1>1, <1>2, <1>3, <1>4, <1>5 DEF Splice

\* A devector of the values s, with its parts as constants.
Of(r, V, cap, start, end, mem, s) ==
  /\ cap \in Nat /\ start \in Nat /\ end \in Nat /\ start <= end /\ end <= cap
  /\ mem \in Filled(cap, V, start, end) /\ s \in Seq(V) /\ Len(s) = end - start
  /\ r = Vector(cap, start, end, mem)
  /\ r.cap = cap /\ r.start = start /\ r.end = end /\ r.mem = mem
  /\ Size(r) = end - start /\ Contents(r) = s
  /\ \A k \in 1 .. end - start : mem[start + k - 1] = s[k]

\* Every devector is one.
LEMMA ValuesOf ==
  ASSUME NEW V, Objects(V), NEW r \in Vectors(V)
  PROVE  \E cap, start, end, mem, s : Of(r, V, cap, start, end, mem, s)
<1>1. PICK cap, start, end \in Nat : \E mem \in Filled(cap, V, start, end) :
        /\ start <= end /\ end <= cap /\ Size(r) = end - start
        /\ r = Vector(cap, start, end, mem)
        /\ r.cap = cap /\ r.start = start /\ r.end = end /\ r.mem = mem
  BY VectorParts
<1>2. PICK mem \in Filled(cap, V, start, end) :
        /\ start <= end /\ end <= cap /\ Size(r) = end - start
        /\ r = Vector(cap, start, end, mem)
        /\ r.cap = cap /\ r.start = start /\ r.end = end /\ r.mem = mem
  BY <1>1
<1>3. PICK s : s = Contents(r)
  OBVIOUS
<1>4. s \in Seq(V) /\ Len(s) = Size(r)
  BY <1>3, ContentsAre
<1>5. \A k \in 1 .. end - start : mem[start + k - 1] = s[k]
  BY <1>2, <1>3 DEF Contents
<1>6. Of(r, V, cap, start, end, mem, s)
  BY <1>2, <1>3, <1>4, <1>5 DEF Of
<1>7. QED
  BY <1>6

\* What Of says of a devector whose parts are constants.
LEMMA OfIs ==
  ASSUME NEW V, Objects(V), NEW r, NEW cap, NEW start, NEW end, NEW mem, NEW s,
         Of(r, V, cap, start, end, mem, s)
  PROVE  /\ r \in Vectors(V) /\ Holds(r, V, s) /\ Len(s) = end - start /\ Size(r) = end - start
         /\ cap \in Nat /\ start \in Nat /\ end \in Nat /\ start <= end /\ end <= cap
         /\ end - start \in Nat /\ mem \in Filled(cap, V, start, end)
         /\ s \in Seq(V) /\ Contents(r) = s
         /\ r.cap = cap /\ r.start = start /\ r.end = end /\ r.mem = mem
<1>1. /\ cap \in Nat /\ start \in Nat /\ end \in Nat /\ start <= end /\ end <= cap
      /\ mem \in Filled(cap, V, start, end)
  BY DEF Of
<1>2. Vector(cap, start, end, mem) \in Vectors(V)
  BY <1>1, VectorIs
<1>3. r \in Vectors(V)
  BY <1>2 DEF Of
<1>4. Len(s) = end - start /\ Size(r) = end - start /\ s \in Seq(V) /\ Contents(r) = s
  BY DEF Of
<1>5. Holds(r, V, s)
  BY <1>3, <1>4 DEF Holds
<1>6. end - start \in Nat
  BY <1>1
<1>7. QED
  BY <1>1, <1>3, <1>4, <1>5, <1>6 DEF Of

\* The values written in its slots are those it holds.
LEMMA WithSlotsHolds ==
  ASSUME NEW V, Objects(V), NEW r, NEW cap, NEW start, NEW end, NEW mem, NEW s,
         Of(r, V, cap, start, end, mem, s), NEW m \in Filled(cap, V, start, end),
         NEW t \in Seq(V), Len(t) = end - start,
         \A k \in 1 .. end - start : m[start + k - 1] = t[k], NEW u, u = WithSlots(r, m)
  PROVE  Of(u, V, cap, start, end, m, t) /\ Holds(u, V, t)
<1>1. /\ cap \in Nat /\ start \in Nat /\ end \in Nat /\ start <= end /\ end <= cap
      /\ r.cap = cap /\ r.start = start /\ r.end = end
  BY DEF Of
<1>2. u = Vector(cap, start, end, m)
  BY <1>1 DEF WithSlots
<1>3. u.cap = cap /\ u.start = start /\ u.end = end /\ u.mem = m /\ Size(u) = end - start
  BY <1>2 DEF Vector, Size
<1>4. Contents(u) = [k \in 1 .. end - start |-> m[start + k - 1]]
  BY <1>3 DEF Contents
<1>5. Contents(u) = t
  <2>1. t = [k \in 1 .. end - start |-> t[k]]
    BY <1>1
  <2>2. [k \in 1 .. end - start |-> m[start + k - 1]] = [k \in 1 .. end - start |-> t[k]]
    OBVIOUS
  <2>3. QED
    BY <1>4, <2>1, <2>2
<1>6. Of(u, V, cap, start, end, m, t)
  BY <1>1, <1>2, <1>3, <1>5 DEF Of
<1>7. QED
  BY <1>6, OfIs

\* Whatever they are.
LEMMA WithSlotsIs ==
  ASSUME NEW V, Objects(V), NEW r, NEW cap, NEW start, NEW end, NEW mem, NEW s,
         Of(r, V, cap, start, end, mem, s), NEW m \in Filled(cap, V, start, end),
         NEW u, u = WithSlots(r, m)
  PROVE  \E t : Of(u, V, cap, start, end, m, t)
<1>1. Within(cap, start, end, start, end)
  BY DEF Of, Within
<1>2. PICK t : t = Slots(m, start, end)
  OBVIOUS
<1>3. t \in Seq(V) /\ Len(t) = end - start
  BY <1>1, <1>2, SlotsAre
<1>4. \A k \in 1 .. end - start : m[start + k - 1] = t[k]
  BY <1>2 DEF Slots
<1>5. Of(u, V, cap, start, end, m, t)
  BY <1>3, <1>4, WithSlotsHolds
<1>6. QED
  BY <1>5

\* A sequence in reverse.
LEMMA ReverseIs ==
  ASSUME NEW V, NEW t \in Seq(V), NEW l, l = Len(t), NEW b, b = Reverse(t)
  PROVE  b \in Seq(V) /\ Len(b) = l /\ \A p \in 1 .. l : b[p] = t[(l - p) + 1]
<1>1. l \in Nat /\ t \in [1 .. l -> V]
  OBVIOUS
<1>2. b = [p \in 1 .. l |-> t[(l - p) + 1]]
  BY DEF Reverse
<1>3. b \in [1 .. l -> V]
  BY <1>1, <1>2
<1>4. b \in Seq(V) /\ Len(b) = l
  BY <1>1, <1>3
<1>5. QED
  BY <1>2, <1>4

\* Values pushed at the back are behind the others.
LEMMA PushBackAllHolds ==
  ASSUME NEW V, Objects(V), NEW r \in Vectors(V), NEW t \in Seq(V), NEW s, s = Contents(r)
  PROVE  Holds(PushBackAll(r, t), V, s \o t)
<1>1. PICK n \in Nat : n = Len(s) /\ s \in Seq(V) /\ s \in [1 .. n -> V]
  BY ContentsAre, VectorHas
<1>2. PICK l \in Nat : l = Len(t) /\ t \in [1 .. l -> V]
  OBVIOUS
<1> DEFINE h(k) == [p \in 1 .. n + k |-> IF p <= n THEN s[p] ELSE t[p - n]]
           M == Vectors(V)
           S == [k \in 0 .. l |-> {m \in M : Contents(m) = h(k)}]
<1>3. ASSUME NEW k \in 0 .. l PROVE h(k) \in Seq(V) /\ Len(h(k)) = n + k
  <2>1. h(k) \in [1 .. n + k -> V]
    BY <1>1, <1>2
  <2> HIDE DEF h
  <2>2. n + k \in Nat
    OBVIOUS
  <2>3. QED
    BY <2>1, <2>2
<1>4. r \in S[0]
  <2>1. s = h(0)
    BY <1>1
  <2> HIDE DEF h
  <2>2. 0 \in 0 .. l /\ r \in M /\ Contents(r) = h(0)
    BY <2>1
  <2>3. QED
    BY <2>2
<1>5. ASSUME NEW k \in 1 .. l, NEW m \in S[k - 1] PROVE EmplaceBack(m, t[k]) \in S[k]
  <2>1. m \in M /\ Contents(m) = h(k - 1) /\ k - 1 \in 0 .. l /\ k \in 0 .. l /\ t[k] \in V
    BY <1>2, <1>5
  <2>2. PICK one : one = <<t[k]>>
    OBVIOUS
  <2>3. one \in Seq(V) /\ Len(one) = 1 /\ one[1] = t[k]
    BY <2>1, <2>2
  <2>4. PICK g : g = h(k - 1)
    OBVIOUS
  <2>5. PICK f : f = h(k)
    OBVIOUS
  <2>6. g \in Seq(V) /\ Len(g) = n + (k - 1) /\ f \in Seq(V) /\ Len(f) = n + k
    BY <1>3, <2>1, <2>4, <2>5
  <2>7. PICK c : c = g \o one
    OBVIOUS
  <2>8. PICK q \in Nat : q = n + (k - 1) /\ q + 1 = n + k
    OBVIOUS
  <2>9. /\ c \in Seq(V) /\ Len(c) = q + 1
        /\ \A p \in 1 .. q + 1 : c[p] = IF p <= q THEN g[p] ELSE one[p - q]
    <3>1. q = Len(g) /\ 1 = Len(one)
      BY <2>3, <2>6, <2>8
    <3>2. g \in Seq(V) /\ one \in Seq(V)
      BY <2>3, <2>6
    <3>3. Joined(V, g, q, one, 1, c)
      BY <2>7, <3>1, <3>2 DEF Joined
    <3>4. Join(V, g, q, one, 1, c)
      BY <3>3, JoinedIs
    <3>5. QED
      BY <3>4 DEF Join
  <2>10. ASSUME NEW p \in 1 .. q + 1 PROVE c[p] = f[p]
    <3>1. CASE p <= q
      <4>1. c[p] = g[p] /\ p \in 1 .. n + (k - 1) /\ p \in 1 .. n + k
        BY <2>8, <2>9, <3>1
      <4>2. g[p] = f[p]
        BY <2>4, <2>5, <4>1
      <4>3. QED
        BY <4>1, <4>2
    <3>2. CASE ~ p <= q
      <4>1. p = n + k /\ p - q = 1 /\ ~ p <= n /\ p - n = k /\ p \in 1 .. n + k
        BY <2>8, <3>2
      <4>2. c[p] = t[k]
        BY <2>3, <2>9, <3>2, <4>1
      <4>3. f[p] = t[k]
        BY <2>5, <4>1
      <4>4. QED
        BY <4>2, <4>3
    <3>3. QED
      BY <3>1, <3>2
  <2>11. c = f
    <3> HIDE DEF h
    <3>1. Len(c) = Len(f) /\ Len(c) = q + 1
      BY <2>6, <2>8, <2>9
    <3>2. QED
      BY <2>6, <2>9, <2>10, <3>1, SeqEqual
  <2> HIDE DEF h
  <2>12. Holds(EmplaceBack(m, t[k]), V, Contents(m) \o <<t[k]>>)
    BY <2>1, EmplaceBackHolds
  <2>13. QED
    BY <2>1, <2>2, <2>4, <2>5, <2>7, <2>11, <2>12 DEF Holds
<1>6. PushBackAll(r, t) \in S[l]
  <2>1. \A m \in M, v \in V : EmplaceBack(m, v) \in M
    BY EmplaceBackHolds DEF Holds
  <2> HIDE DEF S
  <2>2. r \in M
    OBVIOUS
  <2> HIDE DEF M
  <2>3. QED
    BY <1>2, <1>4, <1>5, <2>1, <2>2, PushBackFold
<1>7. PICK f : f = h(l)
  OBVIOUS
<1>8. PICK c : c = s \o t
  OBVIOUS
<1>9. /\ c \in Seq(V) /\ Len(c) = n + l
      /\ \A p \in 1 .. n + l : c[p] = IF p <= n THEN s[p] ELSE t[p - n]
  <2>1. Joined(V, s, n, t, l, c)
    BY <1>1, <1>2, <1>8 DEF Joined
  <2>2. Join(V, s, n, t, l, c)
    BY <2>1, JoinedIs
  <2>3. QED
    BY <2>2 DEF Join
<1>10. c = f
  <2>1. f \in Seq(V) /\ Len(f) = n + l
    <3> HIDE DEF h
    <3>1. l \in 0 .. l
      OBVIOUS
    <3>2. h(l) \in Seq(V) /\ Len(h(l)) = n + l
      BY <1>3, <3>1
    <3>3. QED
      BY <1>7, <3>2
  <2>2. ASSUME NEW p \in 1 .. n + l PROVE c[p] = f[p]
    <3>1. f[p] = IF p <= n THEN s[p] ELSE t[p - n]
      BY <1>7
    <3>2. QED
      BY <1>9, <3>1
  <2> HIDE DEF h
  <2>3. Len(c) = Len(f) /\ Len(c) = n + l
    BY <1>9, <2>1
  <2>4. QED
    BY <1>9, <2>1, <2>2, <2>3, SeqEqual
<1>11. QED
  <2> HIDE DEF h
  <2>1. PushBackAll(r, t) \in Vectors(V) /\ Contents(PushBackAll(r, t)) = c
    BY <1>6, <1>7, <1>10
  <2>2. Size(PushBackAll(r, t)) = Len(c)
    BY <2>1, ContentsAre
  <2>3. QED
    BY <1>8, <2>1, <2>2 DEF Holds

\* Values pushed at the front are there in reverse.
LEMMA PushFrontAllHolds ==
  ASSUME NEW V, Objects(V), NEW r \in Vectors(V), NEW t \in Seq(V), NEW s, s = Contents(r)
  PROVE  Holds(PushFrontAll(r, t), V, Reverse(t) \o s)
<1>1. PICK n \in Nat : n = Len(s) /\ s \in Seq(V) /\ s \in [1 .. n -> V]
  BY ContentsAre, VectorHas
<1>2. PICK l \in Nat : l = Len(t) /\ t \in [1 .. l -> V]
  OBVIOUS
<1> DEFINE h(k) == [p \in 1 .. k + n |-> IF p <= k THEN t[(k - p) + 1] ELSE s[p - k]]
           M == Vectors(V)
           S == [k \in 0 .. l |-> {m \in M : Contents(m) = h(k)}]
<1>3. ASSUME NEW k \in 0 .. l PROVE h(k) \in Seq(V) /\ Len(h(k)) = k + n
  <2>1. h(k) \in [1 .. k + n -> V]
    BY <1>1, <1>2
  <2> HIDE DEF h
  <2>2. k + n \in Nat
    OBVIOUS
  <2>3. QED
    BY <2>1, <2>2
<1>4. r \in S[0]
  <2>1. s = h(0)
    BY <1>1
  <2> HIDE DEF h
  <2>2. 0 \in 0 .. l /\ r \in M /\ Contents(r) = h(0)
    BY <2>1
  <2>3. QED
    BY <2>2
<1>5. ASSUME NEW k \in 1 .. l, NEW m \in S[k - 1] PROVE EmplaceFront(m, t[k]) \in S[k]
  <2>1. m \in M /\ Contents(m) = h(k - 1) /\ k - 1 \in 0 .. l /\ k \in 0 .. l /\ t[k] \in V
    BY <1>2, <1>5
  <2>2. PICK one : one = <<t[k]>>
    OBVIOUS
  <2>3. one \in Seq(V) /\ Len(one) = 1 /\ one[1] = t[k]
    BY <2>1, <2>2
  <2>4. PICK g : g = h(k - 1)
    OBVIOUS
  <2>5. PICK f : f = h(k)
    OBVIOUS
  <2>6. g \in Seq(V) /\ Len(g) = (k - 1) + n /\ f \in Seq(V) /\ Len(f) = k + n
    BY <1>3, <2>1, <2>4, <2>5
  <2>7. PICK c : c = one \o g
    OBVIOUS
  <2>8. PICK q \in Nat : q = (k - 1) + n /\ 1 + q = k + n
    OBVIOUS
  <2>9. /\ c \in Seq(V) /\ Len(c) = 1 + q
        /\ \A p \in 1 .. 1 + q : c[p] = IF p <= 1 THEN one[p] ELSE g[p - 1]
    <3>1. q = Len(g) /\ 1 = Len(one)
      BY <2>3, <2>6, <2>8
    <3>2. g \in Seq(V) /\ one \in Seq(V)
      BY <2>3, <2>6
    <3>3. Joined(V, one, 1, g, q, c)
      BY <2>7, <3>1, <3>2 DEF Joined
    <3>4. Join(V, one, 1, g, q, c)
      BY <3>3, JoinedIs
    <3>5. QED
      BY <3>4 DEF Join
  <2>10. ASSUME NEW p \in 1 .. 1 + q PROVE c[p] = f[p]
    <3>1. CASE p = 1
      <4>1. c[p] = t[k] /\ p \in 1 .. k + n /\ p <= k /\ (k - p) + 1 = k
        BY <2>3, <2>8, <2>9, <3>1
      <4>2. QED
        BY <2>5, <4>1
    <3>2. CASE p # 1 /\ p <= k
      <4>1. /\ p - 1 \in 1 .. (k - 1) + n /\ p - 1 <= k - 1 /\ p \in 1 .. k + n /\ ~ p <= 1
            /\ ((k - 1) - (p - 1)) + 1 = (k - p) + 1
        BY <2>8, <3>2
      <4>2. g[p - 1] = t[(k - p) + 1] /\ f[p] = t[(k - p) + 1]
        BY <2>4, <2>5, <3>2, <4>1
      <4>3. QED
        BY <2>9, <4>1, <4>2
    <3>3. CASE ~ p <= k
      <4>1. /\ p - 1 \in 1 .. (k - 1) + n /\ ~ p - 1 <= k - 1 /\ p \in 1 .. k + n /\ ~ p <= 1
            /\ (p - 1) - (k - 1) = p - k
        BY <2>8, <3>3
      <4>2. g[p - 1] = s[p - k] /\ f[p] = s[p - k]
        BY <2>4, <2>5, <3>3, <4>1
      <4>3. QED
        BY <2>9, <4>1, <4>2
    <3>4. QED
      BY <3>1, <3>2, <3>3
  <2>11. c = f
    <3> HIDE DEF h
    <3>1. Len(c) = Len(f) /\ Len(c) = 1 + q
      BY <2>6, <2>8, <2>9
    <3>2. QED
      BY <2>6, <2>9, <2>10, <3>1, SeqEqual
  <2> HIDE DEF h
  <2>12. Holds(EmplaceFront(m, t[k]), V, <<t[k]>> \o Contents(m))
    BY <2>1, EmplaceFrontHolds
  <2>13. QED
    BY <2>1, <2>2, <2>4, <2>5, <2>7, <2>11, <2>12 DEF Holds
<1>6. PushFrontAll(r, t) \in S[l]
  <2>1. \A m \in M, v \in V : EmplaceFront(m, v) \in M
    BY EmplaceFrontHolds DEF Holds
  <2> HIDE DEF S
  <2>2. r \in M
    OBVIOUS
  <2> HIDE DEF M
  <2>3. QED
    BY <1>2, <1>4, <1>5, <2>1, <2>2, PushFrontFold
<1>7. PICK f : f = h(l)
  OBVIOUS
<1>8. PICK b : b = Reverse(t)
  OBVIOUS
<1>9. b \in Seq(V) /\ Len(b) = l /\ \A p \in 1 .. l : b[p] = t[(l - p) + 1]
  BY <1>2, <1>8, ReverseIs
<1>10. PICK c : c = b \o s
  OBVIOUS
<1>11. /\ c \in Seq(V) /\ Len(c) = l + n
       /\ \A p \in 1 .. l + n : c[p] = IF p <= l THEN b[p] ELSE s[p - l]
  <2>1. Joined(V, b, l, s, n, c)
    BY <1>1, <1>9, <1>10 DEF Joined
  <2>2. Join(V, b, l, s, n, c)
    BY <2>1, JoinedIs
  <2>3. QED
    BY <2>2 DEF Join
<1>12. c = f
  <2>1. f \in Seq(V) /\ Len(f) = l + n
    <3> HIDE DEF h
    <3>1. l \in 0 .. l
      OBVIOUS
    <3>2. h(l) \in Seq(V) /\ Len(h(l)) = l + n
      BY <1>3, <3>1
    <3>3. QED
      BY <1>7, <3>2
  <2>2. ASSUME NEW p \in 1 .. l + n PROVE c[p] = f[p]
    <3>1. f[p] = IF p <= l THEN t[(l - p) + 1] ELSE s[p - l]
      BY <1>7
    <3>2. p <= l => p \in 1 .. l
      OBVIOUS
    <3>3. QED
      BY <1>9, <1>11, <3>1, <3>2
  <2> HIDE DEF h
  <2>3. Len(c) = Len(f) /\ Len(c) = l + n
    BY <1>11, <2>1
  <2>4. QED
    BY <1>11, <2>1, <2>2, <2>3, SeqEqual
<1>13. QED
  <2> HIDE DEF h
  <2>1. PushFrontAll(r, t) \in Vectors(V) /\ Contents(PushFrontAll(r, t)) = c
    BY <1>6, <1>7, <1>12
  <2>2. Size(PushFrontAll(r, t)) = Len(c)
    BY <2>1, ContentsAre
  <2>3. QED
    BY <1>8, <1>10, <2>1, <2>2 DEF Holds

\* m is mem with v at a slot.
Placed(mem, m, cap, at, v) == \A x \in 0 .. cap - 1 : m[x] = IF x = at THEN v ELSE mem[x]

\* A value assigned to a slot with a value.
LEMMA AssignFills ==
  ASSUME NEW V, Objects(V), NEW cap, NEW start, NEW end, NEW mem \in Filled(cap, V, start, end),
         NEW at, Within(cap, start, end, at, at + 1), NEW v \in V, NEW m, m = Assign(mem, at, v)
  PROVE  m \in Filled(cap, V, start, end) /\ Placed(mem, m, cap, at, v)
<1>1. /\ cap \in Nat /\ start \in Nat /\ end \in Nat /\ at \in Nat
      /\ start <= at /\ at < end /\ end <= cap /\ start <= end
  BY DEF Within
<1>2. /\ mem \in Memory(cap, V) /\ \A x \in start .. end - 1 : mem[x] # Raw /\ mem[x] \in V
      /\ \A x \in 0 .. cap - 1 : x < start \/ x >= end => mem[x] = Raw
  BY <1>1, FilledIsMemory
<1>3. mem[at] # Raw /\ at \in 0 .. cap - 1
  BY <1>1, <1>2
<1>4. m = [mem EXCEPT ![at] = v]
  BY <1>3 DEF Assign
<1>5. /\ m = [x \in 0 .. cap - 1 |-> m[x]]
      /\ \A x \in 0 .. cap - 1 : m[x] = IF x = at THEN v ELSE mem[x]
  BY <1>2, <1>3, <1>4 DEF Memory
<1>6. ASSUME NEW x \in 0 .. cap - 1
      PROVE  IF start <= x /\ x < end THEN m[x] \in V ELSE m[x] = Raw
  <2>1. start <= x /\ x < end => x \in start .. end - 1
    BY <1>1
  <2>2. QED
    BY <1>1, <1>2, <1>5, <2>1
<1>7. m \in Filled(cap, V, start, end)
  BY <1>1, <1>5, <1>6, SlotsFill
<1>8. QED
  BY <1>5, <1>7 DEF Placed

\* memmove of one slot to the left, for values that own nothing.
LEMMA MemmoveFills ==
  ASSUME NEW V, Objects(V), NEW cap, NEW start, NEW end, NEW mem \in Filled(cap, V, start, end),
         NEW dst, NEW last, Within(cap, start, end, dst, last),
         NEW first \in Nat, dst < first, first <= last,
         NEW m, m = Memmove(mem, first, last, dst)
  PROVE  /\ m \in Filled(cap, V, start, end)
         /\ \A x \in 0 .. cap - 1 :
              m[x] = IF dst <= x /\ x < dst + last - first THEN mem[x - dst + first] ELSE mem[x]
<1>1. /\ cap \in Nat /\ start \in Nat /\ end \in Nat /\ dst \in Nat /\ last \in Nat
      /\ start <= dst /\ dst <= last /\ last <= end /\ end <= cap /\ start <= end
  BY DEF Within
<1>2. /\ mem \in Memory(cap, V) /\ \A x \in start .. end - 1 : mem[x] # Raw /\ mem[x] \in V
      /\ \A x \in 0 .. cap - 1 : x < start \/ x >= end => mem[x] = Raw
  BY <1>1, FilledIsMemory
<1>3. m = [x \in 0 .. cap - 1 |->
             IF dst <= x /\ x < dst + last - first THEN mem[x - dst + first] ELSE mem[x]]
  BY <1>2 DEF Memmove, Memory
<1>4. m = [x \in 0 .. cap - 1 |-> m[x]]
  BY <1>3
<1>5. ASSUME NEW x \in 0 .. cap - 1
      PROVE  IF start <= x /\ x < end THEN m[x] \in V ELSE m[x] = Raw
  <2>1. m[x] = IF dst <= x /\ x < dst + last - first THEN mem[x - dst + first] ELSE mem[x]
    BY <1>3
  <2>2. dst <= x /\ x < dst + last - first =>
          x - dst + first \in start .. end - 1 /\ start <= x /\ x < end
    BY <1>1
  <2>3. start <= x /\ x < end => x \in start .. end - 1
    BY <1>1
  <2>4. QED
    BY <1>1, <1>2, <2>1, <2>2, <2>3
<1>6. m \in Filled(cap, V, start, end)
  BY <1>1, <1>4, <1>5, SlotsFill
<1>7. QED
  BY <1>3, <1>6

\* The slots from start to end of a block hold the values t, and no others hold any.
Shows(V, cap, start, end, m, t) ==
  /\ cap \in Nat /\ start \in Nat /\ end \in Nat /\ start <= end /\ end <= cap
  /\ m = [x \in 0 .. cap - 1 |-> m[x]] /\ t \in Seq(V) /\ Len(t) = end - start
  /\ \A x \in 0 .. cap - 1 :
       m[x] = IF start <= x /\ x < end THEN t[(x - start) + 1] ELSE Raw

\* Such a block makes a devector.
LEMMA ShowsHolds ==
  ASSUME NEW V, Objects(V), NEW cap, NEW start, NEW end, NEW m, NEW t,
         Shows(V, cap, start, end, m, t), NEW u, u = Vector(cap, start, end, m)
  PROVE  Holds(u, V, t)
<1>1. /\ cap \in Nat /\ start \in Nat /\ end \in Nat /\ start <= end /\ end <= cap
      /\ m = [x \in 0 .. cap - 1 |-> m[x]] /\ t \in Seq(V) /\ Len(t) = end - start
  BY DEF Shows
<1>2. PICK n \in Nat : n = end - start
  BY <1>1
<1>3. t \in [1 .. n -> V] /\ n = Len(t) /\ end = start + n
  BY <1>1, <1>2
<1>4. m = [x \in 0 .. cap - 1 |-> IF start <= x /\ x < start + n THEN t[x - start + 1] ELSE Raw]
  <2>1. ASSUME NEW x \in 0 .. cap - 1
        PROVE  m[x] = IF start <= x /\ x < start + n THEN t[x - start + 1] ELSE Raw
    <3>1. m[x] = IF start <= x /\ x < end THEN t[(x - start) + 1] ELSE Raw
      BY DEF Shows
    <3>2. QED
      BY <1>3, <3>1
  <2>2. QED
    BY <1>1, <2>1
<1>5. u = Built(cap, start, t)
  BY <1>3, <1>4 DEF Built
<1>6. start + Len(t) <= cap
  BY <1>1, <1>3
<1>7. Holds(Built(cap, start, t), V, t)
  BY <1>1, <1>6, BuiltHolds
<1>8. QED
  BY <1>5, <1>7

\* Values rotated in their slots: those from a + 1 to c, of which the ones behind b come first.
Rotation(w, a, b, c, t) ==
  \A k \in 1 .. Len(w) :
    t[k] = IF a < k /\ k <= a + (c - b) THEN w[k + (b - a)]
           ELSE IF a + (c - b) < k /\ k <= c THEN w[k - (c - b)] ELSE w[k]

\* std::rotate makes of the values such a rotation.
LEMMA RotateHolds ==
  ASSUME NEW V, Objects(V), NEW u, NEW cap, NEW start, NEW end, NEW mem, NEW w,
         Of(u, V, cap, start, end, mem, w),
         NEW a \in Nat, NEW b \in Nat, NEW c \in Nat, a <= b, b <= c, c <= end - start,
         NEW t \in Seq(V), Len(t) = Len(w), Rotation(w, a, b, c, t)
  PROVE  Holds(WithSlots(u, Rotate(mem, start + a, start + b, start + c)), V, t)
<1>1. /\ cap \in Nat /\ start \in Nat /\ end \in Nat /\ start <= end /\ end <= cap
      /\ mem \in Filled(cap, V, start, end) /\ Len(w) = end - start
      /\ \A k \in 1 .. end - start : mem[start + k - 1] = w[k]
  BY DEF Of
<1>2. PICK first \in Nat : first = start + a
  BY <1>1
<1>3. PICK middle \in Nat : middle = start + b
  BY <1>1
<1>4. PICK last \in Nat : last = start + c
  BY <1>1
<1>5. Within(cap, start, end, first, last) /\ first <= middle /\ middle <= last
  BY <1>1, <1>2, <1>3, <1>4 DEF Within
<1>6. PICK m : m = Rotate(mem, first, middle, last)
  OBVIOUS
<1>7. m \in Filled(cap, V, start, end) /\ Rotated(mem, m, cap, first, middle, last)
  BY <1>1, <1>5, <1>6, RotateFills
<1>8. PICK n \in Nat : n = end - start
  BY <1>1
<1>9. ASSUME NEW k \in 1 .. end - start PROVE m[start + k - 1] = t[k]
  <2>1. k \in 1 .. n /\ k \in Nat
    BY <1>8
  <2>2. start + k - 1 \in 0 .. cap - 1
    <3>1. start \in Nat /\ cap \in Nat /\ start + n <= cap
      BY <1>1, <1>8
    <3>2. k - 1 \in 0 .. n - 1 /\ start + k - 1 = start + (k - 1)
      BY <2>1, <3>1
    <3>3. 0 <= start + (k - 1) /\ start + (k - 1) < start + n
      BY <3>1, <3>2
    <3>4. QED
      BY <3>1, <3>2, <3>3
  <2>3. PICK x \in 0 .. cap - 1 : x = start + k - 1
    BY <2>2
  <2>4. t[k] = IF a < k /\ k <= a + (c - b) THEN w[k + (b - a)]
               ELSE IF a + (c - b) < k /\ k <= c THEN w[k - (c - b)] ELSE w[k]
    BY <1>1 DEF Rotation
  <2>5. m[x] = IF first <= x /\ x < first + (last - middle) THEN mem[x + (middle - first)]
               ELSE IF first + (last - middle) <= x /\ x < last
               THEN mem[x - (last - middle)] ELSE mem[x]
    BY <1>7 DEF Rotated
  <2>6. start \in Nat
    BY <1>1
  <2>7. last - middle = c - b /\ middle - first = b - a
    BY <1>2, <1>3, <1>4, <2>6
  <2>8. first + (last - middle) = start + (a + (c - b))
    BY <1>2, <2>6, <2>7
  <2>9. (first <= x <=> a < k) /\ (x < last <=> k <= c)
    BY <1>2, <1>4, <2>3, <2>1, <2>6
  <2>10. /\ x < first + (last - middle) <=> k <= a + (c - b)
         /\ first + (last - middle) <= x <=> a + (c - b) < k
    BY <2>3, <2>1, <2>6, <2>8
  <2>11. \A q \in 1 .. end - start : mem[start + q - 1] = w[q]
    BY <1>1
  <2>12. CASE a < k /\ k <= a + (c - b)
    <3>1. PICK q \in 1 .. end - start : q = k + (b - a)
      BY <1>8, <2>1, <2>12
    <3>2. x + (middle - first) = start + q - 1
      BY <2>3, <2>1, <2>6, <2>7, <3>1
    <3>3. t[k] = w[q] /\ m[x] = mem[start + q - 1]
      BY <2>4, <2>5, <2>12, <2>9, <2>10, <3>1, <3>2
    <3>4. QED
      BY <2>3, <2>11, <3>3
  <2>13. CASE a + (c - b) < k /\ k <= c
    <3>1. PICK q \in 1 .. end - start : q = k - (c - b)
      BY <1>8, <2>1, <2>13
    <3>2. x - (last - middle) = start + q - 1
      BY <2>3, <2>1, <2>6, <2>7, <3>1
    <3>3. ~ (k <= a + (c - b))
      BY <2>1, <2>13
    <3>4. t[k] = w[q] /\ m[x] = mem[start + q - 1]
      BY <2>4, <2>5, <2>13, <2>9, <2>10, <3>1, <3>2, <3>3
    <3>5. QED
      BY <2>3, <2>11, <3>4
  <2>14. CASE ~ (a < k /\ k <= a + (c - b)) /\ ~ (a + (c - b) < k /\ k <= c)
    <3>1. t[k] = w[k] /\ m[x] = mem[x]
      BY <2>4, <2>5, <2>14, <2>9, <2>10
    <3>2. QED
      BY <2>3, <2>11, <3>1
  <2>15. QED
    BY <2>12, <2>13, <2>14
<1>10. Len(t) = end - start
  BY <1>1
<1>11. PICK r : r = WithSlots(u, m)
  OBVIOUS
<1>12. Holds(r, V, t)
  BY <1>7, <1>9, <1>10, <1>11, WithSlotsHolds
<1>13. QED
  BY <1>2, <1>3, <1>4, <1>6, <1>11, <1>12

\* Values behind the others are rotated to their place.
LEMMA RotatedBack ==
  ASSUME NEW V, Objects(V), NEW u, NEW s \in Seq(V), NEW t \in Seq(V), Holds(u, V, s \o t),
         NEW n, n = Len(s), NEW i \in 0 .. n
  PROVE  Holds(WithSlots(u, Rotate(u.mem, u.start + i, u.start + n, u.end)), V, Splice(s, i, t))
<1>1. u \in Vectors(V)
  BY DEF Holds
<1>2. PICK cap, start, end, mem, w : Of(u, V, cap, start, end, mem, w)
  BY <1>1, ValuesOf
<1>3. PICK l \in Nat : l = Len(t)
  OBVIOUS
<1>4. n \in Nat /\ i \in Nat /\ i <= n /\ i \in 0 .. Len(s)
  OBVIOUS
<1>5. /\ cap \in Nat /\ start \in Nat /\ end \in Nat /\ start <= end /\ end - start \in Nat
      /\ Len(w) = end - start /\ w = s \o t /\ u.start = start /\ u.end = end /\ u.mem = mem
  BY <1>2 DEF Of, Holds
<1>6. Join(V, s, n, t, l, w)
  <2>1. Joined(V, s, n, t, l, w)
    BY <1>3, <1>5 DEF Joined
  <2>2. QED
    BY <2>1, JoinedIs
<1>7. /\ Len(w) = n + l
      /\ \A k \in 1 .. n + l : w[k] = IF k <= n THEN s[k] ELSE t[k - n]
  BY <1>6 DEF Join
<1>8. PICK p : p = Splice(s, i, t)
  OBVIOUS
<1>9. /\ p \in Seq(V) /\ Len(p) = n + l
      /\ \A k \in 1 .. n + l :
           p[k] = IF k <= i THEN s[k] ELSE IF k <= i + l THEN t[k - i] ELSE s[k - l]
  <2>1. Spliced(V, s, t, i, n, l, p)
    BY <1>3, <1>4, <1>8, SpliceIs
  <2>2. QED
    BY <2>1 DEF Spliced
<1>10. PICK c \in Nat : c = n + l /\ c = end - start /\ end = start + c
  <2>1. PICK c \in Nat : c = end - start
    BY <1>5
  <2>2. c = n + l
    BY <1>5, <1>7, <2>1
  <2>3. end = start + c
    BY <1>5, <2>1
  <2>4. QED
    BY <2>1, <2>2, <2>3
<1>11. Rotation(w, i, n, c, p)
  <2>1. ASSUME NEW k \in 1 .. n + l
        PROVE  p[k] = IF i < k /\ k <= i + (c - n) THEN w[k + (n - i)]
                      ELSE IF i + (c - n) < k /\ k <= c THEN w[k - (c - n)] ELSE w[k]
    <3>1. c - n = l
      BY <1>3, <1>4, <1>10
    <3>2. CASE k <= i
      <4>1. w[k] = s[k] /\ ~ i < k /\ ~ i + (c - n) < k
        BY <1>3, <1>4, <1>7, <3>1, <3>2
      <4>2. QED
        BY <1>9, <3>2, <4>1
    <3>3. CASE ~ k <= i /\ k <= i + l
      <4>1. k + (n - i) \in 1 .. n + l /\ ~ k + (n - i) <= n /\ (k + (n - i)) - n = k - i /\ i < k
        BY <1>3, <1>4, <3>3
      <4>2. w[k + (n - i)] = t[k - i]
        BY <1>7, <4>1
      <4>3. QED
        BY <1>9, <3>1, <3>3, <4>1, <4>2
    <3>4. CASE ~ k <= i /\ ~ k <= i + l
      <4>1. k - l \in 1 .. n + l /\ k - l <= n /\ i + l < k /\ k <= c
        BY <1>3, <1>4, <1>10, <3>4
      <4>2. w[k - l] = s[k - l]
        BY <1>7, <4>1
      <4>3. QED
        BY <1>9, <3>1, <3>4, <4>1, <4>2
    <3>5. QED
      BY <3>2, <3>3, <3>4
  <2>2. QED
    BY <1>7, <2>1 DEF Rotation
<1>12. Holds(WithSlots(u, Rotate(mem, start + i, start + n, start + c)), V, p)
  <2>1. i <= n /\ n <= c /\ c <= end - start /\ Len(p) = Len(w)
    BY <1>3, <1>4, <1>7, <1>9, <1>10
  <2>2. QED
    BY <1>2, <1>4, <1>9, <1>11, <2>1, RotateHolds
<1>13. QED
  BY <1>5, <1>8, <1>10, <1>12

\* Those in front of the others too.
LEMMA RotatedFront ==
  ASSUME NEW V, Objects(V), NEW u, NEW s \in Seq(V), NEW t \in Seq(V), Holds(u, V, t \o s),
         NEW n, n = Len(s), NEW i \in 0 .. n, NEW l, l = Len(t),
         NEW num, num = u.start + l
  PROVE  Holds(WithSlots(u, Rotate(u.mem, u.start, num, num + i)), V, Splice(s, i, t))
<1>1. u \in Vectors(V)
  BY DEF Holds
<1>2. PICK cap, start, end, mem, w : Of(u, V, cap, start, end, mem, w)
  BY <1>1, ValuesOf
<1>4. n \in Nat /\ i \in Nat /\ i <= n /\ i \in 0 .. Len(s) /\ l \in Nat
  OBVIOUS
<1>5. /\ cap \in Nat /\ start \in Nat /\ end \in Nat /\ start <= end /\ end - start \in Nat
      /\ Len(w) = end - start /\ w = t \o s /\ u.start = start /\ u.end = end /\ u.mem = mem
  BY <1>2 DEF Of, Holds
<1>6. Join(V, t, l, s, n, w)
  <2>1. Joined(V, t, l, s, n, w)
    BY <1>5 DEF Joined
  <2>2. QED
    BY <2>1, JoinedIs
<1>7. /\ Len(w) = l + n
      /\ \A k \in 1 .. l + n : w[k] = IF k <= l THEN t[k] ELSE s[k - l]
  BY <1>6 DEF Join
<1>8. PICK p : p = Splice(s, i, t)
  OBVIOUS
<1>9. /\ p \in Seq(V) /\ Len(p) = n + l
      /\ \A k \in 1 .. n + l :
           p[k] = IF k <= i THEN s[k] ELSE IF k <= i + l THEN t[k - i] ELSE s[k - l]
  <2>1. Spliced(V, s, t, i, n, l, p)
    BY <1>4, <1>8, SpliceIs
  <2>2. QED
    BY <2>1 DEF Spliced
<1>10. PICK c \in Nat : c = l + i /\ c <= n + l /\ n + l = end - start
  BY <1>4, <1>5, <1>7
<1>11. Rotation(w, 0, l, c, p)
  <2>1. ASSUME NEW k \in 1 .. l + n
        PROVE  p[k] = IF 0 < k /\ k <= 0 + (c - l) THEN w[k + (l - 0)]
                      ELSE IF 0 + (c - l) < k /\ k <= c THEN w[k - (c - l)] ELSE w[k]
    <3>1. c - l = i /\ 0 + (c - l) = i /\ l - 0 = l /\ k \in 1 .. n + l /\ 0 < k
      BY <1>4, <1>10
    <3>2. CASE k <= i
      <4>1. k + l \in 1 .. l + n /\ ~ k + l <= l /\ (k + l) - l = k
        BY <1>4, <3>2
      <4>2. w[k + l] = s[k]
        BY <1>7, <4>1
      <4>3. QED
        BY <1>9, <3>1, <3>2, <4>2
    <3>3. CASE ~ k <= i /\ k <= i + l
      <4>1. k - i \in 1 .. l + n /\ k - i <= l /\ i < k /\ k <= c
        BY <1>4, <1>10, <3>3
      <4>2. w[k - i] = t[k - i]
        BY <1>7, <4>1
      <4>3. QED
        BY <1>9, <3>1, <3>3, <4>1, <4>2
    <3>4. CASE ~ k <= i /\ ~ k <= i + l
      <4>1. ~ k <= l /\ ~ k <= c
        BY <1>4, <1>10, <3>4
      <4>2. w[k] = s[k - l]
        BY <1>7, <4>1
      <4>3. QED
        BY <1>9, <3>1, <3>4, <4>1, <4>2
    <3>5. QED
      BY <3>2, <3>3, <3>4
  <2>2. QED
    BY <1>7, <2>1 DEF Rotation
<1>12. Holds(WithSlots(u, Rotate(mem, start + 0, start + l, start + c)), V, p)
  <2>1. 0 <= l /\ l <= c /\ c <= end - start /\ Len(p) = Len(w) /\ 0 \in Nat
    BY <1>4, <1>5, <1>7, <1>9, <1>10
  <2>2. QED
    BY <1>2, <1>4, <1>9, <1>11, <2>1, RotateHolds
<1>13. start + 0 = start /\ start + l = num /\ start + c = num + i
  BY <1>4, <1>5, <1>10
<1>14. QED
  BY <1>5, <1>8, <1>12, <1>13

\* Values pushed in front are there in reverse, and std::reverse puts them in order.
LEMMA ReversedFront ==
  ASSUME NEW V, Objects(V), NEW u, NEW s \in Seq(V), NEW t \in Seq(V),
         Holds(u, V, Reverse(t) \o s), NEW l, l = Len(t), NEW num, num = u.start + l
  PROVE  LET m == Reversed(u.mem, u.start, num)
         IN Holds(WithSlots(u, m), V, t \o s) /\ WithSlots(u, m).start = u.start
            /\ WithSlots(u, m).mem = m
<1>1. u \in Vectors(V)
  BY DEF Holds
<1>2. PICK cap, start, end, mem, w : Of(u, V, cap, start, end, mem, w)
  BY <1>1, ValuesOf
<1>3. PICK n : n = Len(s)
  OBVIOUS
<1>4. n \in Nat /\ l \in Nat
  BY <1>3
<1>5. /\ cap \in Nat /\ start \in Nat /\ end \in Nat /\ start <= end /\ end <= cap
      /\ mem \in Filled(cap, V, start, end)
      /\ Len(w) = end - start /\ w = Reverse(t) \o s /\ u.start = start /\ u.mem = mem
      /\ \A k \in 1 .. end - start : mem[start + k - 1] = w[k]
  BY <1>2 DEF Of, Holds
<1>6. PICK b : b = Reverse(t)
  OBVIOUS
<1>7. b \in Seq(V) /\ Len(b) = l /\ \A k \in 1 .. l : b[k] = t[(l - k) + 1]
  BY <1>6, ReverseIs
<1>8. /\ Len(w) = l + n
      /\ \A k \in 1 .. l + n : w[k] = IF k <= l THEN b[k] ELSE s[k - l]
  <2>1. Joined(V, b, l, s, n, w)
    BY <1>3, <1>5, <1>6, <1>7 DEF Joined
  <2>2. Join(V, b, l, s, n, w)
    BY <2>1, JoinedIs
  <2>3. QED
    BY <2>2 DEF Join
<1>9. PICK p : p = t \o s
  OBVIOUS
<1>10. /\ p \in Seq(V) /\ Len(p) = l + n
       /\ \A k \in 1 .. l + n : p[k] = IF k <= l THEN t[k] ELSE s[k - l]
  <2>1. Joined(V, t, l, s, n, p)
    BY <1>3, <1>9 DEF Joined
  <2>2. Join(V, t, l, s, n, p)
    BY <2>1, JoinedIs
  <2>3. QED
    BY <2>2 DEF Join
<1>11. end - start = l + n /\ num = start + l /\ num \in Nat
  BY <1>4, <1>5, <1>8
<1>12. Within(cap, start, end, start, num)
  BY <1>4, <1>5, <1>11 DEF Within
<1>13. PICK f : f = Slots(mem, start, num)
  OBVIOUS
<1>14. f \in Seq(V) /\ Len(f) = l /\ \A k \in 1 .. l : f[k] = t[(l - k) + 1]
  <2>1. f \in Seq(V) /\ Len(f) = num - start
    BY <1>5, <1>12, <1>13, SlotsAre
  <2>2. num - start = l
    BY <1>4, <1>5, <1>11
  <2>3. ASSUME NEW k \in 1 .. l PROVE f[k] = t[(l - k) + 1]
    <3>1. f[k] = mem[start + k - 1]
      BY <1>13, <2>2 DEF Slots
    <3>2. k \in 1 .. l + n /\ k \in 1 .. end - start /\ k <= l
      BY <1>4, <1>11
    <3>3. mem[start + k - 1] = w[k] /\ w[k] = b[k]
      BY <1>5, <1>8, <3>2
    <3>4. QED
      BY <1>7, <3>1, <3>3
  <2>4. QED
    BY <2>1, <2>2, <2>3
<1>15. PICK g : g = Reverse(f)
  OBVIOUS
<1>16. g \in Seq(V) /\ Len(g) = l /\ \A k \in 1 .. l : g[k] = t[k]
  <2>1. g \in Seq(V) /\ Len(g) = l /\ \A k \in 1 .. l : g[k] = f[(l - k) + 1]
    BY <1>14, <1>15, ReverseIs
  <2>2. ASSUME NEW k \in 1 .. l PROVE g[k] = t[k]
    <3>0. l \in Nat /\ (l - k) + 1 \in 1 .. l /\ (l - ((l - k) + 1)) + 1 = k
      BY <1>4
    <3>1. PICK q \in 1 .. l : q = (l - k) + 1 /\ (l - q) + 1 = k
      BY <3>0
    <3>2. QED
      BY <1>14, <2>1, <3>1
  <2>3. QED
    BY <2>1, <2>2
<1>17. PICK m : m = AssignRange(mem, start, g)
  OBVIOUS
<1>18. /\ m \in Filled(cap, V, start, end)
       /\ \A x \in 0 .. cap - 1 :
            m[x] = IF start <= x /\ x < num THEN g[x - start + 1] ELSE mem[x]
  <2>1. Len(g) = num - start
    BY <1>4, <1>5, <1>11, <1>16
  <2>2. mem \in Filled(cap, V, start, end) /\ g \in Seq(V)
    BY <1>5, <1>16
  <2>3. QED
    BY <1>12, <1>17, <2>1, <2>2, AssignRangeFills
<1>19. ASSUME NEW k \in 1 .. end - start PROVE m[start + k - 1] = p[k]
  <2>1. PICK x \in 0 .. cap - 1 : x = start + k - 1 /\ start <= x /\ x - start + 1 = k
    BY <1>5
  <2>2. m[x] = IF start <= x /\ x < num THEN g[x - start + 1] ELSE mem[x]
    BY <1>18
  <2>3. k \in 1 .. l + n
    BY <1>11
  <2>4. CASE k <= l
    <3>1. x < num /\ k \in 1 .. l
      BY <1>4, <1>5, <1>11, <2>1, <2>4
    <3>2. m[x] = t[k] /\ p[k] = t[k]
      BY <1>10, <1>16, <2>1, <2>2, <2>3, <2>4, <3>1
    <3>3. QED
      BY <2>1, <3>2
  <2>5. CASE ~ k <= l
    <3>1. ~ x < num
      BY <1>4, <1>5, <1>11, <2>1, <2>5
    <3>2. m[x] = mem[x] /\ mem[x] = w[k]
      BY <1>5, <2>1, <2>2, <3>1
    <3>3. w[k] = s[k - l] /\ p[k] = s[k - l]
      BY <1>8, <1>10, <2>3, <2>5
    <3>4. QED
      BY <2>1, <3>2, <3>3
  <2>6. QED
    BY <2>4, <2>5
<1>20. Reversed(u.mem, u.start, num) = m
  BY <1>5, <1>13, <1>15, <1>17 DEF Reversed
<1>21. PICK r : r = WithSlots(u, m)
  OBVIOUS
<1>22. Len(p) = end - start
  BY <1>10, <1>11
<1>23. Holds(r, V, p)
  BY <1>2, <1>10, <1>18, <1>19, <1>21, <1>22, WithSlotsHolds
<1>24. r.start = u.start /\ r.mem = m
  BY <1>21 DEF WithSlots, Vector
<1>25. QED
  BY <1>9, <1>20, <1>21, <1>23, <1>24

\* The values in front of a place moved over the one put before them, and v at the place.
LEMMA PlacedHolds ==
  ASSUME NEW V, Objects(V), NEW u, NEW s \in Seq(V), NEW one \in Seq(V), Len(one) = 1,
         NEW cap, NEW start, NEW end, NEW mem, NEW w, Of(u, V, cap, start, end, mem, w),
         w = one \o s, NEW n, n = Len(s), NEW i \in 0 .. n, NEW v \in V,
         NEW m \in Filled(cap, V, start, end),
         \A x \in 0 .. cap - 1 : start <= x /\ x < start + i => m[x] = mem[x + 1],
         \A x \in 0 .. cap - 1 : x > start + i => m[x] = mem[x]
  PROVE  Holds(WithSlots(u, Assign(m, start + i, v)), V, Splice(s, i, <<v>>))
<1>1. /\ cap \in Nat /\ start \in Nat /\ end \in Nat /\ start <= end /\ end <= cap
      /\ Len(w) = end - start /\ \A k \in 1 .. end - start : mem[start + k - 1] = w[k]
  BY DEF Of
<1>2. n \in Nat /\ i \in Nat /\ i <= n /\ i \in 0 .. Len(s)
  OBVIOUS
<1>3. /\ Len(w) = 1 + n
      /\ \A k \in 1 .. 1 + n : w[k] = IF k <= 1 THEN one[k] ELSE s[k - 1]
  <2>1. 1 = Len(one)
    OBVIOUS
  <2>2. Joined(V, one, 1, s, n, w)
    BY <2>1 DEF Joined
  <2>3. Join(V, one, 1, s, n, w)
    BY <2>2, JoinedIs
  <2>4. QED
    BY <2>3 DEF Join
<1>4. PICK q \in Nat : q = 1 + n
  BY <1>2
<1>5. end - start = q /\ end = start + q
  <2>1. start \in Nat /\ end \in Nat /\ end - start = 1 + n
    BY <1>1, <1>3
  <2>2. QED
    BY <1>4, <2>1
<1>6. PICK at \in Nat : at = start + i
  BY <1>1, <1>2
<1>7. Within(cap, start, end, at, at + 1)
  BY <1>1, <1>2, <1>4, <1>5, <1>6 DEF Within
<1>8. PICK a : a = Assign(m, at, v)
  OBVIOUS
<1>9. /\ a \in Filled(cap, V, start, end)
      /\ \A x \in 0 .. cap - 1 : a[x] = IF x = at THEN v ELSE m[x]
  <2>1. a \in Filled(cap, V, start, end) /\ Placed(m, a, cap, at, v)
    BY <1>7, <1>8, AssignFills
  <2>2. QED
    BY <2>1 DEF Placed
<1>10. PICK p : p = Splice(s, i, <<v>>)
  OBVIOUS
<1>11. PICK t : t = <<v>>
  OBVIOUS
<1>12. t \in Seq(V) /\ 1 = Len(t) /\ t[1] = v
  BY <1>11
<1>13. /\ p \in Seq(V) /\ Len(p) = n + 1
       /\ \A k \in 1 .. n + 1 :
            p[k] = IF k <= i THEN s[k] ELSE IF k <= i + 1 THEN t[k - i] ELSE s[k - 1]
  <2>1. p = Splice(s, i, t)
    BY <1>10, <1>11
  <2>2. Spliced(V, s, t, i, n, 1, p)
    BY <1>2, <1>12, <2>1, SpliceIs
  <2>3. QED
    BY <2>2 DEF Spliced
<1>14. ASSUME NEW k \in 1 .. end - start PROVE a[start + k - 1] = p[k]
  <2>1. k \in 1 .. q /\ k \in 1 .. n + 1 /\ k \in 1 .. 1 + n /\ k \in Nat
    BY <1>2, <1>4, <1>5
  <2>2. start + (k - 1) \in 0 .. cap - 1 /\ start + k - 1 = start + (k - 1)
    BY <1>1, <1>5, <2>1
  <2>3. PICK x \in 0 .. cap - 1 : x = start + (k - 1) /\ x = start + k - 1
    BY <2>2
  <2>4. a[x] = IF x = at THEN v ELSE m[x]
    BY <1>9
  <2>5. CASE k <= i
    <3>1. k + 1 \in 1 .. end - start /\ k + 1 \in 1 .. 1 + n /\ ~ k + 1 <= 1 /\ (k + 1) - 1 = k
      <4>1. k + 1 \in 1 .. q
        BY <1>2, <1>4, <2>1, <2>5
      <4>2. k + 1 \in 1 .. end - start /\ k + 1 \in 1 .. 1 + n
        BY <1>4, <1>5, <4>1
      <4>3. QED
        BY <2>1, <4>2
    <3>2. mem[start + (k + 1) - 1] = w[k + 1] /\ w[k + 1] = s[k]
      BY <1>1, <1>3, <3>1
    <3>3. x # at /\ start <= x /\ x < start + i /\ x + 1 = start + (k + 1) - 1
      BY <1>1, <1>2, <1>6, <2>1, <2>3, <2>5
    <3>4. m[x] = mem[x + 1]
      BY <3>3
    <3>5. p[k] = s[k]
      BY <1>13, <2>1, <2>5
    <3>6. QED
      BY <2>3, <2>4, <3>2, <3>3, <3>4, <3>5
  <2>6. CASE k = i + 1
    <3>1. x = at /\ ~ k <= i /\ k <= i + 1 /\ k - i = 1
      BY <1>1, <1>2, <1>6, <2>3, <2>6
    <3>2. p[k] = t[1]
      BY <1>13, <2>1, <3>1
    <3>3. QED
      BY <1>12, <2>3, <2>4, <3>1, <3>2
  <2>7. CASE k > i + 1
    <3>1. x > start + i /\ x # at /\ ~ k <= i /\ ~ k <= i + 1 /\ ~ k <= 1
      BY <1>1, <1>2, <1>6, <2>1, <2>3, <2>7
    <3>2. m[x] = mem[x]
      BY <3>1
    <3>3. mem[start + k - 1] = w[k] /\ w[k] = s[k - 1] /\ p[k] = s[k - 1]
      BY <1>1, <1>3, <1>13, <2>1, <3>1
    <3>4. QED
      BY <2>3, <2>4, <3>1, <3>2, <3>3
  <2>8. QED
    BY <1>2, <2>1, <2>5, <2>6, <2>7
<1>15. Len(p) = end - start
  BY <1>2, <1>4, <1>5, <1>13
<1>16. PICK r : r = WithSlots(u, a)
  OBVIOUS
<1>17. Holds(r, V, p)
  <2>1. p \in Seq(V) /\ a \in Filled(cap, V, start, end)
    BY <1>9, <1>13
  <2>2. QED
    BY <1>14, <1>15, <1>16, <2>1, WithSlotsHolds
<1>18. QED
  BY <1>6, <1>8, <1>10, <1>16, <1>17

\* emplace() on the right half: the value is put behind and rotated.
LEMMA InsertedBack ==
  ASSUME NEW V, Objects(V), NEW r \in Vectors(V), NEW s \in Seq(V), s = Contents(r),
         NEW n, n = Len(s), NEW i \in 0 .. n, NEW v \in V, NEW u, u = EmplaceBack(r, v)
  PROVE  Holds(WithSlots(u, Rotate(u.mem, u.start + i, u.end - 1, u.end)), V, Splice(s, i, <<v>>))
<1>1. PICK t : t = <<v>>
  OBVIOUS
<1>2. t \in Seq(V) /\ 1 = Len(t)
  BY <1>1
<1>3. Holds(u, V, s \o t)
  BY <1>1, EmplaceBackHolds
<1>4. Holds(WithSlots(u, Rotate(u.mem, u.start + i, u.start + n, u.end)), V, Splice(s, i, t))
  BY <1>2, <1>3, RotatedBack
<1>5. u.start + n = u.end - 1
  <2>1. u.start \in Nat /\ u.end \in Nat /\ Size(u) = u.end - u.start
    BY <1>3, VectorHas DEF Holds
  <2>2. PICK w : w = s \o t
    OBVIOUS
  <2>3. Joined(V, s, n, t, 1, w)
    BY <1>2, <2>2 DEF Joined
  <2>4. Join(V, s, n, t, 1, w)
    BY <2>3, JoinedIs
  <2>5. Len(w) = n + 1 /\ n \in Nat
    BY <2>4 DEF Join
  <2>6. Size(u) = Len(w)
    BY <1>3, <2>2 DEF Holds
  <2>7. u.end - u.start = n + 1
    BY <2>1, <2>5, <2>6, Zenon
  <2>8. PICK a \in Nat : a = u.start
    BY <2>1
  <2>9. PICK b \in Nat : b = u.end
    BY <2>1
  <2>10. b - a = n + 1 /\ n \in Nat
    BY <2>5, <2>7, <2>8, <2>9
  <2>11. a + n = b - 1
    BY <2>10
  <2>12. QED
    BY <2>8, <2>9, <2>11
<1>6. QED
  BY <1>1, <1>4, <1>5

\* emplace() of a value at a place, from whichever end.
LEMMA InsertHolds ==
  ASSUME NEW V, Objects(V), Value \in V, NEW r \in Vectors(V), NEW i \in 0 .. Size(r), NEW v \in V
  PROVE  /\ Holds(Insert(r, i, v), V, Splice(Contents(r), i, <<v>>))
         /\ Holds(InsertBytes(r, i, v), V, Splice(Contents(r), i, <<v>>))
<1>1. PICK s \in Seq(V) : s = Contents(r) /\ Len(s) = Size(r)
  BY ContentsAre
<1>2. PICK n \in Nat : n = Len(s) /\ n = Size(r) /\ i \in 0 .. n /\ i \in Nat
  BY <1>1
<1>3. CASE ~ i < Size(r) \div 2
  <2>1. PICK u : u = EmplaceBack(r, v)
    OBVIOUS
  <2>2. Holds(WithSlots(u, Rotate(u.mem, u.start + i, u.end - 1, u.end)), V, Splice(s, i, <<v>>))
    BY <1>1, <1>2, <2>1, InsertedBack
  <2>3. Insert(r, i, v) = WithSlots(u, Rotate(u.mem, u.start + i, u.end - 1, u.end))
    BY <1>3, <2>1 DEF Insert
  <2>4. InsertBytes(r, i, v) = Insert(r, i, v)
    BY <1>3 DEF InsertBytes
  <2>5. QED
    BY <1>1, <2>2, <2>3, <2>4
<1>4. CASE i < Size(r) \div 2
  <2>1. PICK u : u = EmplaceFront(r, Value)
    OBVIOUS
  <2>2. PICK one : one = <<Value>>
    OBVIOUS
  <2>3. one \in Seq(V) /\ Len(one) = 1 /\ 1 = Len(one)
    BY <2>2
  <2>4. Holds(u, V, one \o s)
    BY <1>1, <2>1, <2>2, EmplaceFrontHolds
  <2>5. PICK cap, start, end, mem, w : Of(u, V, cap, start, end, mem, w)
    BY <2>4, ValuesOf DEF Holds
  <2>6. /\ cap \in Nat /\ start \in Nat /\ end \in Nat /\ start <= end /\ end <= cap
        /\ mem \in Filled(cap, V, start, end) /\ Len(w) = end - start /\ w = one \o s
        /\ u.start = start /\ u.mem = mem
    BY <2>4, <2>5 DEF Of, Holds
  <2>7. Len(w) = 1 + n
    <3>1. Joined(V, one, 1, s, n, w)
      BY <1>2, <2>3, <2>6 DEF Joined
    <3>2. Join(V, one, 1, s, n, w)
      BY <3>1, JoinedIs
    <3>3. QED
      BY <3>2 DEF Join
  <2>8. PICK first \in Nat : first = start + 1
    BY <2>6
  <2>9. PICK last \in Nat : last = start + 1 + i
    BY <1>2, <2>6
  <2>10. Within(cap, start, end, start, last) /\ start < first /\ first <= last
    BY <1>2, <2>6, <2>7, <2>8, <2>9 DEF Within
  <2>11. last - first = i /\ start + (last - first) = start + i /\ start + last - first = start + i
    BY <1>2, <2>6, <2>8, <2>9
  <2>12. ASSUME NEW x \in 0 .. cap - 1
         PROVE  /\ x - start + first = x + 1
                /\ x > start + i => ~ (first <= x /\ x < last) /\ ~ x < start + i
    BY <1>2, <2>6, <2>8, <2>9
  <2>13. mem \in Filled(cap, V, start, end)
    BY <2>6
  <2>14. Holds(Insert(r, i, v), V, Splice(s, i, <<v>>))
    <3>1. PICK m : m = MoveForward(mem, first, last, start)
      OBVIOUS
    <3>2. /\ m \in Filled(cap, V, start, end)
          /\ \A x \in 0 .. cap - 1 :
               m[x] = IF start <= x /\ x < start + (last - first) THEN mem[x - start + first]
                      ELSE IF first <= x /\ x < last THEN Moved ELSE mem[x]
      BY <2>10, <2>13, <3>1, MoveForwardFills
    <3>3. \A x \in 0 .. cap - 1 : start <= x /\ x < start + i => m[x] = mem[x + 1]
      BY <2>11, <2>12, <3>2
    <3>4. \A x \in 0 .. cap - 1 : x > start + i => m[x] = mem[x]
      BY <2>11, <2>12, <3>2
    <3>5. Holds(WithSlots(u, Assign(m, start + i, v)), V, Splice(s, i, <<v>>))
      <4>1. m \in Filled(cap, V, start, end) /\ w = one \o s
        BY <2>6, <3>2
      <4>2. QED
        BY <1>2, <2>3, <2>5, <3>3, <3>4, <4>1, PlacedHolds
    <3>6. Insert(r, i, v) = WithSlots(u, Assign(m, start + i, v))
      BY <1>4, <2>1, <2>6, <2>8, <2>9, <3>1 DEF Insert
    <3>7. QED
      BY <3>5, <3>6
  <2>15. Holds(InsertBytes(r, i, v), V, Splice(s, i, <<v>>))
    <3>1. PICK m : m = Memmove(mem, first, last, start)
      OBVIOUS
    <3>2. /\ m \in Filled(cap, V, start, end)
          /\ \A x \in 0 .. cap - 1 :
               m[x] = IF start <= x /\ x < start + last - first THEN mem[x - start + first]
                      ELSE mem[x]
      BY <2>10, <2>13, <3>1, MemmoveFills
    <3>3. \A x \in 0 .. cap - 1 : start <= x /\ x < start + i => m[x] = mem[x + 1]
      BY <2>11, <2>12, <3>2
    <3>4. \A x \in 0 .. cap - 1 : x > start + i => m[x] = mem[x]
      BY <2>11, <2>12, <3>2
    <3>5. Holds(WithSlots(u, Assign(m, start + i, v)), V, Splice(s, i, <<v>>))
      <4>1. m \in Filled(cap, V, start, end) /\ w = one \o s
        BY <2>6, <3>2
      <4>2. QED
        BY <1>2, <2>3, <2>5, <3>3, <3>4, <4>1, PlacedHolds
    <3>6. InsertBytes(r, i, v) = WithSlots(u, Assign(m, start + i, v))
      BY <1>4, <2>1, <2>6, <2>8, <2>9, <3>1 DEF InsertBytes
    <3>7. QED
      BY <3>5, <3>6
  <2>16. QED
    BY <1>1, <2>14, <2>15
<1>5. QED
  BY <1>3, <1>4

\* insert() of a range: pushed at the nearer end, then put in its place.
LEMMA InsertRangeHolds ==
  ASSUME NEW V, Objects(V), NEW r \in Vectors(V), NEW i \in 0 .. Size(r), NEW q \in Seq(V)
  PROVE  Holds(InsertRange(r, i, q), V, Splice(Contents(r), i, q))
<1>1. PICK s \in Seq(V) : s = Contents(r) /\ Len(s) = Size(r)
  BY ContentsAre
<1>2. PICK n \in Nat : n = Len(s) /\ n = Size(r) /\ i \in 0 .. n
  BY <1>1
<1>3. PICK l \in Nat : l = Len(q)
  OBVIOUS
<1>4. CASE q = <<>>
  <2>1. Splice(s, i, <<>>) = s
    BY <1>1, SpliceNothing
  <2>2. QED
    BY <1>1, <1>4, <2>1 DEF InsertRange, Holds
<1>5. CASE q # <<>> /\ i <= Size(r) \div 2
  <2>1. PICK o : o = ReserveFront(r, l)
    OBVIOUS
  <2>2. o \in Vectors(V) /\ s = Contents(o)
    BY <1>1, <2>1, ReserveFrontHolds DEF Holds
  <2>3. PICK u : u = PushFrontAll(o, q)
    OBVIOUS
  <2>4. Holds(u, V, Reverse(q) \o s)
    BY <2>2, <2>3, PushFrontAllHolds
  <2>5. PICK num : num = u.start + l
    OBVIOUS
  <2>6. PICK m : m = Reversed(u.mem, u.start, num)
    OBVIOUS
  <2>7. PICK w : w = WithSlots(u, m)
    OBVIOUS
  <2>8. Holds(w, V, q \o s) /\ w.start = u.start /\ w.mem = m
    BY <1>3, <2>4, <2>5, <2>6, <2>7, ReversedFront
  <2>9. num = w.start + l
    BY <2>5, <2>8
  <2>10. Holds(WithSlots(w, Rotate(w.mem, w.start, num, num + i)), V, Splice(s, i, q))
    BY <1>2, <1>3, <2>8, <2>9, RotatedFront
  <2>11. WithSlots(w, Rotate(w.mem, w.start, num, num + i))
           = WithSlots(u, Rotate(m, u.start, num, num + i))
    BY <2>7, <2>8 DEF WithSlots, Vector
  <2>12. num = u.start + Size(u) - Size(r)
    <3>1. PICK b : b = Reverse(q)
      OBVIOUS
    <3>2. b \in Seq(V) /\ l = Len(b)
      BY <1>3, <3>1, ReverseIs
    <3>3. PICK c : c = b \o s
      OBVIOUS
    <3>4. Joined(V, b, l, s, n, c)
      BY <1>2, <3>2, <3>3 DEF Joined
    <3>5. Join(V, b, l, s, n, c)
      BY <3>4, JoinedIs
    <3>6. Len(c) = l + n
      BY <3>5 DEF Join
    <3>7. Size(u) = l + n /\ u.start \in Nat
      BY <2>4, <3>1, <3>3, <3>6, VectorHas DEF Holds
    <3>8. QED
      BY <1>2, <2>5, <3>7
  <2>13. InsertRange(r, i, q) = WithSlots(u, Rotate(m, u.start, num, num + i))
    BY <1>3, <1>5, <2>1, <2>3, <2>6, <2>12 DEF InsertRange
  <2>14. QED
    BY <1>1, <2>10, <2>11, <2>13
<1>6. CASE q # <<>> /\ ~ i <= Size(r) \div 2
  <2>1. PICK o : o = ReserveBack(r, l)
    OBVIOUS
  <2>2. o \in Vectors(V) /\ s = Contents(o)
    BY <1>1, <2>1, ReserveBackHolds DEF Holds
  <2>3. PICK u : u = PushBackAll(o, q)
    OBVIOUS
  <2>4. Holds(u, V, s \o q)
    BY <2>2, <2>3, PushBackAllHolds
  <2>5. Holds(WithSlots(u, Rotate(u.mem, u.start + i, u.start + n, u.end)), V, Splice(s, i, q))
    BY <1>2, <2>4, RotatedBack
  <2>6. InsertRange(r, i, q) = WithSlots(u, Rotate(u.mem, u.start + i, u.start + n, u.end))
    BY <1>2, <1>3, <1>6, <2>1, <2>3 DEF InsertRange
  <2>7. QED
    BY <1>1, <2>5, <2>6
<1>7. QED
  BY <1>4, <1>5, <1>6

\* Of n values in mem, those up to i and those behind j lie in m from low to high, at one end
\* of where they were.
Closed(mem, m, cap, start, n, i, j, c, low, high) ==
  /\ i <= j /\ j <= n /\ c = j - i /\ high = low + (n - c)
  /\ low \in {start, start + c} /\ m = [x \in 0 .. cap - 1 |-> m[x]]
  /\ \A x \in 0 .. cap - 1 :
       m[x] = IF low <= x /\ x < low + i THEN mem[(x - low) + start]
              ELSE IF low + i <= x /\ x < high THEN mem[(x - low) + start + c] ELSE Raw

\* Slots that hold what is left of the values.
LEMMA CutShown ==
  ASSUME NEW V, Objects(V), NEW r, NEW cap, NEW start, NEW end, NEW mem, NEW s,
         Of(r, V, cap, start, end, mem, s), NEW n \in Nat, n = Len(s),
         NEW i \in Nat, NEW j \in Nat, NEW c \in Nat, NEW low \in Nat, NEW high \in Nat,
         NEW m, Closed(mem, m, cap, start, n, i, j, c, low, high)
  PROVE  Holds(Vector(cap, low, high, m), V, Cut(s, i, j))
<1>1. /\ cap \in Nat /\ start \in Nat /\ end \in Nat /\ start <= end /\ end <= cap
      /\ s \in Seq(V) /\ Len(s) = end - start
      /\ \A k \in 1 .. end - start : mem[start + k - 1] = s[k]
  BY DEF Of
<1>0. i <= j /\ j <= n /\ c = j - i /\ high = low + (n - c)
  BY DEF Closed
<1>2. n - c \in Nat /\ i <= n - c /\ end - start = n /\ end = start + n
  BY <1>0, <1>1
<1>3. PICK h \in Nat : h = n - c
  BY <1>2
<1>4. high = low + h /\ low <= high /\ start <= low /\ high <= cap
  <2>0. start \in Nat /\ cap \in Nat /\ start + n <= cap
    BY <1>1, <1>2
  <2>7. c + h = n
    BY <1>3
  <2>1. start \in Nat /\ c + h = n /\ start + n <= cap /\ cap \in Nat
    BY <2>0, <2>7
  <2>2. high = low + h
    BY <1>0, <1>3
  <2>3. CASE low = start
    BY <2>1, <2>2, <2>3
  <2>4. CASE low = start + c
    BY <2>1, <2>2, <2>4
  <2>5. QED
    BY <2>3, <2>4 DEF Closed
<1>5. PICK p : p = Cut(s, i, j)
  OBVIOUS
<1>6. p \in Seq(V) /\ Len(p) = h /\ \A k \in 1 .. h : p[k] = IF k <= i THEN s[k] ELSE s[k + c]
  <2>1. i \in 0 .. Len(s) /\ j \in i .. Len(s)
    BY <1>0
  <2>2. CutTo(V, s, i, j, n, p)
    BY <1>1, <1>5, <2>1, CutIs
  <2>3. QED
    BY <1>0, <1>3, <2>2 DEF CutTo
<1>7. ASSUME NEW x \in 0 .. cap - 1
      PROVE  m[x] = IF low <= x /\ x < high THEN p[(x - low) + 1] ELSE Raw
  <2>1. m[x] = IF low <= x /\ x < low + i THEN mem[(x - low) + start]
               ELSE IF low + i <= x /\ x < high THEN mem[(x - low) + start + c] ELSE Raw
    BY DEF Closed
  <2>2. CASE low <= x /\ x < low + i
    <3>0. i \in Nat /\ i <= h /\ low \in Nat
      BY <1>2, <1>3, <1>4
    <3>1. PICK k \in 1 .. h : k = (x - low) + 1 /\ k <= i
      BY <2>2, <3>0
    <3>2. k \in 1 .. end - start /\ (x - low) + start = start + k - 1 /\ x < high
      <4>1. k \in 1 .. n
        BY <1>2, <1>3, <3>0
      <4>2. k \in 1 .. end - start
        BY <1>2, <4>1
      <4>3. x < high
        BY <1>4, <2>2, <3>0
      <4>4. start \in Nat
        BY <1>1
      <4>5. QED
        BY <3>0, <3>1, <4>2, <4>3, <4>4
    <3>3. mem[start + k - 1] = s[k] /\ p[k] = s[k]
      BY <1>1, <1>6, <3>1, <3>2
    <3>4. QED
      BY <2>1, <2>2, <3>1, <3>2, <3>3
  <2>3. CASE low + i <= x /\ x < high
    <3>0. high = low + h
      BY <1>4
    <3>6. (x - low) + 1 \in 1 .. h /\ ~ (x - low) + 1 <= i
      BY <2>3, <3>0
    <3>1. PICK k \in 1 .. h : k = (x - low) + 1 /\ ~ k <= i
      BY <3>6
    <3>2. k + c \in 1 .. end - start /\ (x - low) + start + c = start + (k + c) - 1
      BY <1>1, <1>2, <1>3, <1>4, <3>1
    <3>3. mem[start + (k + c) - 1] = s[k + c] /\ p[k] = s[k + c]
      BY <1>1, <1>6, <3>1, <3>2
    <3>4. low <= x /\ ~ (low <= x /\ x < low + i)
      BY <1>2, <1>4, <2>3
    <3>5. QED
      BY <2>1, <2>3, <3>1, <3>2, <3>3, <3>4
  <2>4. CASE ~ (low <= x /\ x < high)
    <3>1. ~ (low <= x /\ x < low + i) /\ ~ (low + i <= x /\ x < high)
      BY <1>2, <1>3, <1>4, <2>4
    <3>2. QED
      BY <2>1, <2>4, <3>1
  <2>5. (low <= x /\ x < high) => (low <= x /\ x < low + i) \/ (low + i <= x /\ x < high)
    BY <1>2, <1>4
  <2>6. QED
    BY <2>2, <2>3, <2>4, <2>5
<1>8. Shows(V, cap, low, high, m, p)
  <2>1. Len(p) = high - low
    BY <1>3, <1>4, <1>6
  <2>2. QED
    BY <1>1, <1>4, <1>6, <1>7, <2>1 DEF Shows, Closed
<1>9. PICK u : u = Vector(cap, low, high, m)
  OBVIOUS
<1>10. Holds(u, V, p)
  BY <1>8, <1>9, ShowsHolds
<1>11. QED
  BY <1>5, <1>9, <1>10

\* erase(): the values of the shorter side move over the hole, and those they leave are popped.
LEMMA EraseRangeHolds ==
  ASSUME NEW V, Objects(V), NEW r \in Vectors(V), NEW i \in 0 .. Size(r),
         NEW j \in i + 1 .. Size(r)
  PROVE  Holds(EraseRange(r, i, j), V, Cut(Contents(r), i, j))
<1>1. PICK cap, start, end, mem, s : Of(r, V, cap, start, end, mem, s)
  BY ValuesOf
<1>2. /\ cap \in Nat /\ start \in Nat /\ end \in Nat /\ start <= end /\ end <= cap
      /\ mem \in Filled(cap, V, start, end) /\ s \in Seq(V) /\ Len(s) = end - start
      /\ r.start = start /\ r.end = end /\ r.mem = mem /\ Size(r) = end - start /\ Contents(r) = s
      /\ \A k \in 1 .. end - start : mem[start + k - 1] = s[k]
  BY <1>1 DEF Of
<1>3. PICK n \in Nat : n = end - start /\ n = Len(s) /\ n = Size(r) /\ end = start + n
  BY <1>2
<1>4. /\ i \in Nat /\ j \in Nat /\ i < j /\ j <= n /\ start \in Nat /\ start + n <= cap
      /\ i \in 0 .. Len(s) /\ j \in i .. Len(s)
  BY <1>2, <1>3
<1>5. PICK c \in 0 .. n : c = j - i
  BY <1>4
<1>6. PICK first \in Nat : first = start + i
  BY <1>4
<1>7. PICK last \in Nat : last = start + j
  BY <1>4
<1>8. PICK p : p = Cut(s, i, j)
  OBVIOUS
<1>9. /\ p \in Seq(V) /\ Len(p) = n - c
      /\ \A k \in 1 .. n - c : p[k] = IF k <= i THEN s[k] ELSE s[k + c]
  <2>1. CutTo(V, s, i, j, n, p)
    <3>1. s \in Seq(V) /\ n = Len(s) /\ i \in 0 .. Len(s) /\ j \in i .. Len(s)
      BY <1>2, <1>3, <1>4
    <3>2. QED
      BY <1>8, <3>1, CutIs
  <2>2. QED
    BY <1>5, <2>1 DEF CutTo
<1>10. mem \in Filled(cap, V, start, end)
  BY <1>2
<1>11. \A k \in 1 .. n : mem[start + k - 1] = s[k]
  BY <1>2, <1>3
<1>12. n - c \in Nat /\ c + (n - c) = n /\ i <= n - c /\ c \in Nat
  BY <1>4, <1>5
<1>13. CASE i < Size(r) - j
  <2>1. Within(cap, start, end, start, last) /\ start <= first /\ first < last
    BY <1>2, <1>3, <1>4, <1>6, <1>7 DEF Within
  <2>2. PICK m : m = MoveBackward(mem, start, first, last)
    OBVIOUS
  <2>3. /\ m \in Filled(cap, V, start, end)
        /\ \A x \in 0 .. cap - 1 :
             m[x] = IF last - (first - start) <= x /\ x < last THEN mem[x - last + first]
                    ELSE IF start <= x /\ x < first THEN Moved ELSE mem[x]
    BY <1>10, <2>1, <2>2, MoveBackwardFills
  <2>4. PICK u : u = WithSlots(r, m)
    OBVIOUS
  <2>5. PICK t : Of(u, V, cap, start, end, m, t)
    <3>1. m \in Filled(cap, V, start, end)
      BY <2>3
    <3>2. QED
      BY <1>1, <2>4, <3>1, WithSlotsIs
  <2>6. /\ t \in Seq(V) /\ Len(t) = n /\ t = Contents(u) /\ Size(u) = n /\ u \in Vectors(V)
        /\ \A k \in 1 .. n : m[start + k - 1] = t[k]
    <3>1. /\ t \in Seq(V) /\ Len(t) = end - start /\ t = Contents(u) /\ Size(u) = end - start
          /\ \A k \in 1 .. end - start : m[start + k - 1] = t[k]
      BY <2>5 DEF Of
    <3>2. u \in Vectors(V)
      BY <2>5, OfIs
    <3>3. end - start = n
      BY <1>3
    <3>4. QED
      BY <3>1, <3>2, <3>3
  <2>7. PICK b : b = SubSeq(t, c + 1, Len(t))
    OBVIOUS
  <2>8. b \in Seq(V) /\ Len(b) = n - c /\ \A k \in 1 .. n - c : b[k] = t[c + k]
    <3>1. t \in Seq(V) /\ c \in 0 .. Len(t)
      BY <1>5, <2>6
    <3>2. b \in Seq(V) /\ Len(b) = Len(t) - c /\ \A k \in 1 .. Len(t) - c : b[k] = t[c + k]
      BY <2>7, <3>1, BackOf
    <3>3. Len(t) = n
      BY <2>6
    <3>4. QED
      BY <3>2, <3>3
  <2>9. ASSUME NEW k \in 1 .. n - c PROVE b[k] = p[k]
    <3>1. c + k \in 1 .. n /\ k \in 1 .. n
      BY <1>12
    <3>2. b[k] = m[start + (c + k) - 1]
      BY <2>6, <2>8, <3>1
    <3>3. start + (c + k) - 1 \in 0 .. cap - 1
      <4>1. start \in Nat /\ cap \in Nat /\ start + n <= cap
        BY <1>2, <1>4
      <4>2. c + k \in 1 .. n
        BY <3>1
      <4>3. QED
        BY <4>1, <4>2
    <3>4. PICK x \in 0 .. cap - 1 : x = start + (c + k) - 1
      BY <3>3
    <3>5. m[x] = IF last - (first - start) <= x /\ x < last THEN mem[x - last + first]
                 ELSE IF start <= x /\ x < first THEN Moved ELSE mem[x]
      BY <2>3
    <3>6. last - (first - start) = start + c /\ last = start + c + i /\ start + c <= x
      BY <1>4, <1>5, <1>6, <1>7, <1>12, <3>4
    <3>7. CASE k <= i
      <4>1. x < last /\ x - last + first = start + k - 1
        BY <1>4, <1>6, <1>12, <3>4, <3>6, <3>7
      <4>2. m[x] = mem[start + k - 1] /\ mem[start + k - 1] = s[k]
        BY <1>11, <3>1, <3>5, <3>6, <4>1
      <4>3. QED
        BY <1>9, <3>2, <3>4, <3>7, <4>2
    <3>8. CASE ~ k <= i
      <4>1. ~ x < last /\ ~ x < first
        BY <1>4, <1>6, <1>12, <3>4, <3>6, <3>8
      <4>2. m[x] = mem[x] /\ mem[x] = s[c + k] /\ c + k = k + c
        BY <1>11, <1>12, <3>1, <3>4, <3>5, <4>1
      <4>3. QED
        BY <1>9, <3>2, <3>4, <3>8, <4>2
    <3>9. QED
      BY <3>7, <3>8
  <2>10. b = p
    <3>1. Len(b) = Len(p) /\ Len(b) = n - c
      BY <1>9, <2>8
    <3>2. b \in Seq(V) /\ p \in Seq(V)
      BY <1>9, <2>8
    <3>3. QED
      BY <2>9, <3>1, <3>2, SeqEqual
  <2>11. Holds(TrimFront(u, c), V, b)
    <3>1. c \in 0 .. Size(u) /\ SubSeq(Contents(u), c + 1, Size(u)) = b
      BY <1>5, <2>6, <2>7
    <3>2. Holds(TrimFront(u, c), V, SubSeq(Contents(u), c + 1, Size(u)))
      BY <2>6, <3>1, TrimFrontHolds
    <3>3. QED
      BY <3>1, <3>2
  <2>12. EraseRange(r, i, j) = TrimFront(u, c)
    BY <1>2, <1>4, <1>5, <1>6, <1>7, <1>13, <2>2, <2>4 DEF EraseRange
  <2>13. QED
    BY <1>2, <1>8, <2>10, <2>11, <2>12
<1>14. CASE ~ i < Size(r) - j
  <2>1. Within(cap, start, end, first, end) /\ first < last /\ last <= end
    BY <1>2, <1>3, <1>4, <1>6, <1>7 DEF Within
  <2>2. PICK m : m = MoveForward(mem, last, end, first)
    OBVIOUS
  <2>3. /\ m \in Filled(cap, V, start, end)
        /\ \A x \in 0 .. cap - 1 :
             m[x] = IF first <= x /\ x < first + (end - last) THEN mem[x - first + last]
                    ELSE IF last <= x /\ x < end THEN Moved ELSE mem[x]
    BY <1>10, <2>1, <2>2, MoveForwardFills
  <2>4. PICK u : u = WithSlots(r, m)
    OBVIOUS
  <2>5. PICK t : Of(u, V, cap, start, end, m, t)
    <3>1. m \in Filled(cap, V, start, end)
      BY <2>3
    <3>2. QED
      BY <1>1, <2>4, <3>1, WithSlotsIs
  <2>6. /\ t \in Seq(V) /\ Len(t) = n /\ t = Contents(u) /\ Size(u) = n /\ u \in Vectors(V)
        /\ \A k \in 1 .. n : m[start + k - 1] = t[k]
    <3>1. /\ t \in Seq(V) /\ Len(t) = end - start /\ t = Contents(u) /\ Size(u) = end - start
          /\ \A k \in 1 .. end - start : m[start + k - 1] = t[k]
      BY <2>5 DEF Of
    <3>2. u \in Vectors(V)
      BY <2>5, OfIs
    <3>3. end - start = n
      BY <1>3
    <3>4. QED
      BY <3>1, <3>2, <3>3
  <2>7. PICK h \in 0 .. n : h = n - c
    BY <1>12
  <2>8. PICK b : b = SubSeq(t, 1, h)
    OBVIOUS
  <2>9. b \in Seq(V) /\ Len(b) = h /\ \A k \in 1 .. h : b[k] = t[k]
    BY <2>6, <2>7, <2>8, FrontOf
  <2>10. ASSUME NEW k \in 1 .. h PROVE b[k] = p[k]
    <3>1. k + c \in 1 .. n /\ k \in 1 .. n /\ k \in 1 .. n - c
      BY <1>12, <2>7
    <3>2. b[k] = m[start + k - 1]
      BY <2>6, <2>9, <3>1
    <3>3. start + k - 1 \in 0 .. cap - 1
      <4>1. start \in Nat /\ cap \in Nat /\ start + n <= cap
        BY <1>2, <1>4
      <4>2. k \in 1 .. n
        BY <3>1
      <4>3. QED
        BY <4>1, <4>2
    <3>4. PICK x \in 0 .. cap - 1 : x = start + k - 1
      BY <3>3
    <3>5. m[x] = IF first <= x /\ x < first + (end - last) THEN mem[x - first + last]
                 ELSE IF last <= x /\ x < end THEN Moved ELSE mem[x]
      BY <2>3
    <3>6. last = first + c /\ end = start + n
      BY <1>3, <1>4, <1>5, <1>6, <1>7
    <3>7. first + (end - last) = start + h
      BY <1>4, <1>6, <1>12, <2>7, <3>6
    <3>8. CASE k <= i
      <4>1. ~ first <= x /\ ~ last <= x
        BY <1>4, <1>6, <1>12, <3>4, <3>6, <3>8
      <4>2. m[x] = mem[start + k - 1] /\ mem[start + k - 1] = s[k]
        BY <1>11, <3>1, <3>4, <3>5, <4>1
      <4>3. QED
        BY <1>9, <3>1, <3>2, <3>4, <3>8, <4>2
    <3>9. CASE ~ k <= i
      <4>1. first <= x /\ x < start + h /\ x - first + last = start + (k + c) - 1
        BY <1>4, <1>6, <1>12, <3>4, <3>6, <3>9
      <4>2. m[x] = mem[start + (k + c) - 1] /\ mem[start + (k + c) - 1] = s[k + c]
        BY <1>11, <3>1, <3>5, <3>7, <4>1
      <4>3. QED
        BY <1>9, <3>1, <3>2, <3>4, <3>9, <4>2
    <3>10. QED
      BY <3>8, <3>9
  <2>11. b = p
    <3>1. Len(b) = Len(p) /\ Len(b) = h
      BY <1>9, <2>7, <2>9
    <3>2. b \in Seq(V) /\ p \in Seq(V)
      BY <1>9, <2>9
    <3>3. QED
      BY <2>10, <3>1, <3>2, SeqEqual
  <2>12. Holds(TrimBack(u, c), V, b)
    <3>1. c \in 0 .. Size(u) /\ SubSeq(Contents(u), 1, Size(u) - c) = b
      BY <1>5, <2>6, <2>7, <2>8
    <3>2. Holds(TrimBack(u, c), V, SubSeq(Contents(u), 1, Size(u) - c))
      BY <2>6, <3>1, TrimBackHolds
    <3>3. QED
      BY <3>1, <3>2
  <2>13. EraseRange(r, i, j) = TrimBack(u, c)
    BY <1>2, <1>4, <1>5, <1>6, <1>7, <1>14, <2>2, <2>4 DEF EraseRange
  <2>14. QED
    BY <1>2, <1>8, <2>11, <2>12, <2>13
<1>15. QED
  BY <1>13, <1>14

\* erase() of values that relocate: those erased are destroyed, and the others move as they are.
LEMMA EraseBytesHolds ==
  ASSUME NEW V, Objects(V), NEW r \in Vectors(V), NEW i \in 0 .. Size(r),
         NEW j \in i + 1 .. Size(r)
  PROVE  Holds(EraseBytes(r, i, j), V, Cut(Contents(r), i, j))
<1>1. PICK cap, start, end, mem, s : Of(r, V, cap, start, end, mem, s)
  BY ValuesOf
<1>2. /\ cap \in Nat /\ start \in Nat /\ end \in Nat /\ start <= end /\ end <= cap
      /\ mem \in Filled(cap, V, start, end) /\ s \in Seq(V) /\ Len(s) = end - start
      /\ r.cap = cap /\ r.start = start /\ r.end = end /\ r.mem = mem
      /\ Size(r) = end - start /\ Contents(r) = s
  BY <1>1 DEF Of
<1>3. PICK n \in Nat : n = end - start /\ n = Len(s) /\ n = Size(r) /\ end = start + n
  BY <1>2
<1>4. /\ i \in Nat /\ j \in Nat /\ i < j /\ j <= n /\ start \in Nat /\ start + n <= cap
      /\ i \in 0 .. n /\ j \in i .. n /\ cap \in Nat
  BY <1>2, <1>3
<1>5. PICK c \in Nat : c = j - i
  BY <1>4
<1>6. PICK first \in Nat : first = start + i
  BY <1>4
<1>7. PICK last \in Nat : last = start + j
  BY <1>4
<1>8. PICK p : p = Cut(s, i, j)
  OBVIOUS
<1>9. PICK gone : gone = DestroyRange(mem, first, last)
  OBVIOUS
<1>10. /\ mem \in Memory(cap, V) /\ \A x \in start .. end - 1 : mem[x] # Raw
       /\ \A x \in 0 .. cap - 1 : x < start \/ x >= end => mem[x] = Raw
  BY <1>2, FilledIsMemory
<1>11. gone = [x \in 0 .. cap - 1 |-> IF first <= x /\ x < last THEN Raw ELSE mem[x]]
  <2>1. first <= last /\ last <= cap /\ \A x \in first .. last - 1 : mem[x] # Raw
    BY <1>3, <1>4, <1>6, <1>7, <1>10
  <2>2. mem \in Memory(cap, V)
    BY <1>10
  <2>3. QED
    BY <1>4, <1>9, <2>1, <2>2, DestroyRangeIs
<1>12. /\ last = first + c /\ n - c \in Nat /\ c <= n /\ c > 0 /\ end = start + n
       /\ first = start + i /\ last = start + j /\ j = i + c
  BY <1>3, <1>4, <1>5, <1>6, <1>7
<1>13. CASE i < Size(r) - j
  <2>1. PICK low \in Nat : low = start + c
    BY <1>4
  <2>2. PICK high : high = low + (n - c)
    OBVIOUS
  <2>3. PICK m : m = Relocate(gone, start, first, low)
    OBVIOUS
  <2>4. m = [x \in 0 .. cap - 1 |->
               IF start <= x /\ x < first /\ ~ (low <= x /\ x < low + first - start) THEN Raw
               ELSE IF low <= x /\ x < low + first - start THEN gone[x - low + start]
               ELSE gone[x]]
    BY <1>11, <2>3 DEF Relocate, Memmove
  <2>5. low + first - start = low + i /\ low + i = last /\ high = end /\ end <= cap
    BY <1>2, <1>4, <1>12, <2>1, <2>2
  <2>6. ASSUME NEW x \in 0 .. cap - 1
        PROVE  m[x] = IF low <= x /\ x < low + i THEN mem[(x - low) + start]
                      ELSE IF low + i <= x /\ x < high THEN mem[(x - low) + start + c] ELSE Raw
    <3>1. m[x] = IF start <= x /\ x < first /\ ~ (low <= x /\ x < low + i) THEN Raw
                 ELSE IF low <= x /\ x < low + i THEN gone[x - low + start] ELSE gone[x]
      BY <2>4, <2>5
    <3>2. CASE low <= x /\ x < low + i
      <4>1. x - low + start \in 0 .. cap - 1 /\ ~ first <= x - low + start
        BY <1>4, <1>12, <2>1, <2>5, <3>2
      <4>2. gone[x - low + start] = mem[x - low + start]
        BY <1>11, <4>1
      <4>3. QED
        BY <3>1, <3>2, <4>2
    <3>3. CASE low + i <= x /\ x < high
      <4>1. /\ ~ (low <= x /\ x < low + i) /\ ~ x < first /\ ~ x < last
            /\ (x - low) + start + c = x
        BY <1>4, <1>12, <2>1, <2>5, <3>3
      <4>2. gone[x] = mem[x]
        BY <1>11, <4>1
      <4>3. QED
        BY <3>1, <3>3, <4>1, <4>2
    <3>4. CASE ~ (low <= x /\ x < low + i) /\ ~ (low + i <= x /\ x < high)
      <4>1. gone[x] = IF first <= x /\ x < last THEN Raw ELSE mem[x]
        BY <1>11
      <4>2. x < start \/ x >= end => mem[x] = Raw
        BY <1>10
      <4>3. \/ x < start \/ x >= end
            \/ start <= x /\ x < first
            \/ first <= x /\ x < last
        BY <1>4, <1>12, <2>1, <2>5, <3>4
      <4>4. m[x] = Raw
        BY <3>1, <3>4, <4>1, <4>2, <4>3
      <4>5. QED
        BY <3>4, <4>4
    <3>5. QED
      BY <3>2, <3>3, <3>4
  <2>7. m = [x \in 0 .. cap - 1 |-> m[x]]
    BY <2>4
  <2>8. Holds(Vector(cap, low, high, m), V, p)
    <3>1. i \in Nat /\ j \in Nat /\ i <= j /\ j <= n /\ high \in Nat
      BY <1>4, <1>12, <2>2
    <3>2. Closed(mem, m, cap, start, n, i, j, c, low, high)
      BY <1>5, <2>1, <2>2, <2>6, <2>7, <3>1 DEF Closed
    <3>3. QED
      BY <1>1, <1>3, <1>8, <3>1, <3>2, CutShown
  <2>9. EraseBytes(r, i, j) = Vector(cap, low, high, m)
    <3>1. j - i # 0
      BY <1>5, <1>12
    <3>2. EraseBytes(r, i, j)
            = Vector(r.cap, r.start + (j - i), r.end,
                     Relocate(DestroyRange(r.mem, r.start + i, r.start + j), r.start,
                              r.start + i, r.start + (j - i)))
      BY <1>13, <3>1 DEF EraseBytes
    <3>3. QED
      BY <1>2, <1>5, <1>6, <1>7, <1>9, <2>1, <2>3, <2>5, <3>2
  <2>10. QED
    BY <1>2, <1>8, <2>8, <2>9
<1>14. CASE ~ i < Size(r) - j
  <2>1. PICK high \in Nat : high = start + (n - c)
    BY <1>4, <1>12
  <2>2. PICK m : m = Relocate(gone, last, end, first)
    OBVIOUS
  <2>3. m = [x \in 0 .. cap - 1 |->
               IF last <= x /\ x < end /\ ~ (first <= x /\ x < first + end - last) THEN Raw
               ELSE IF first <= x /\ x < first + end - last THEN gone[x - first + last]
               ELSE gone[x]]
    BY <1>11, <2>2 DEF Relocate, Memmove
  <2>4. first + end - last = high /\ high = end - c /\ end <= cap /\ first <= high
    BY <1>2, <1>4, <1>12, <2>1
  <2>5. ASSUME NEW x \in 0 .. cap - 1
        PROVE  m[x] = IF start <= x /\ x < start + i THEN mem[(x - start) + start]
                      ELSE IF start + i <= x /\ x < high THEN mem[(x - start) + start + c]
                      ELSE Raw
    <3>1. m[x] = IF last <= x /\ x < end /\ ~ (first <= x /\ x < high) THEN Raw
                 ELSE IF first <= x /\ x < high THEN gone[x - first + last] ELSE gone[x]
      BY <2>3, <2>4
    <3>2. CASE start <= x /\ x < start + i
      <4>1. ~ last <= x /\ ~ first <= x /\ (x - start) + start = x
        BY <1>4, <1>12, <3>2
      <4>2. gone[x] = mem[x]
        BY <1>11, <4>1
      <4>3. QED
        BY <3>1, <3>2, <4>1, <4>2
    <3>3. CASE start + i <= x /\ x < high
      <4>1. /\ first <= x /\ x - first + last = (x - start) + start + c
            /\ x - first + last \in 0 .. cap - 1 /\ ~ x - first + last < last
            /\ ~ (start <= x /\ x < start + i)
        BY <1>4, <1>12, <2>4, <3>3
      <4>2. gone[x - first + last] = mem[x - first + last]
        BY <1>11, <4>1
      <4>3. QED
        BY <3>1, <3>3, <4>1, <4>2
    <3>4. CASE ~ (start <= x /\ x < start + i) /\ ~ (start + i <= x /\ x < high)
      <4>1. gone[x] = IF first <= x /\ x < last THEN Raw ELSE mem[x]
        BY <1>11
      <4>2. x < start \/ x >= end => mem[x] = Raw
        BY <1>10
      <4>3. \/ x < start \/ x >= end
            \/ first <= x /\ x < last
            \/ last <= x /\ x < end
        BY <1>4, <1>12, <2>4, <3>4
      <4>4. ~ (first <= x /\ x < high)
        BY <1>12, <3>4
      <4>5. m[x] = Raw
        BY <3>1, <4>1, <4>2, <4>3, <4>4
      <4>6. QED
        BY <3>4, <4>5
    <3>5. QED
      BY <3>2, <3>3, <3>4
  <2>6. m = [x \in 0 .. cap - 1 |-> m[x]]
    BY <2>3
  <2>7. Holds(Vector(cap, start, high, m), V, p)
    <3>1. i \in Nat /\ j \in Nat /\ i <= j /\ j <= n /\ start \in Nat
      BY <1>4
    <3>2. Closed(mem, m, cap, start, n, i, j, c, start, high)
      BY <1>5, <2>1, <2>5, <2>6, <3>1 DEF Closed
    <3>3. QED
      BY <1>1, <1>3, <1>8, <3>1, <3>2, CutShown
  <2>8. EraseBytes(r, i, j) = Vector(cap, start, high, m)
    <3>1. j - i # 0
      BY <1>5, <1>12
    <3>2. EraseBytes(r, i, j)
            = Vector(r.cap, r.start, r.end - (j - i),
                     Relocate(DestroyRange(r.mem, r.start + i, r.start + j), r.start + j,
                              r.end, r.start + i))
      BY <1>14, <3>1 DEF EraseBytes
    <3>3. QED
      BY <1>2, <1>5, <1>6, <1>7, <1>9, <2>2, <2>4, <3>2
  <2>9. QED
    BY <1>2, <1>8, <2>7, <2>8
<1>15. QED
  BY <1>13, <1>14

\* assign() replaces all the values.
LEMMA AssignAllHolds ==
  ASSUME NEW V, Objects(V), Value \in V, NEW r \in Vectors(V), NEW q \in Seq(V)
  PROVE  Holds(AssignAll(r, q), V, q)
<1>1. PICK n \in Nat : n = Len(q)
  OBVIOUS
<1>2. Holds(Resize(r, n, Value), V, ResizedTo(Contents(r), n, Value))
  BY ResizeHolds
<1>3. Len(ResizedTo(Contents(r), n, Value)) = n
  <2>1. PICK s \in Seq(V) : s = Contents(r)
    BY ContentsAre
  <2>2. CASE n <= Len(s)
    <3>1. n \in 0 .. Len(s)
      BY <2>2
    <3>2. PICK b : b = SubSeq(s, 1, n)
      OBVIOUS
    <3>3. Len(b) = n
      BY <3>1, <3>2, FrontOf
    <3>4. QED
      BY <2>1, <2>2, <3>2, <3>3 DEF ResizedTo
  <2>3. CASE ~ n <= Len(s)
    <3>1. PICK more \in Nat : more = n - Len(s)
      BY <2>3
    <3>2. PICK t \in Seq(V) : t = Copies(more, Value) /\ Len(t) = more
      BY CopiesAre
    <3>3. Len(s \o t) = Len(s) + Len(t)
      BY ConcatProperties
    <3>4. QED
      BY <2>1, <2>3, <3>1, <3>2, <3>3 DEF ResizedTo
  <2>4. QED
    BY <2>2, <2>3
<1>4. PICK u : u = Resize(r, n, Value)
  OBVIOUS
<1>5. u \in Vectors(V) /\ Size(u) = Len(q)
  BY <1>1, <1>2, <1>3, <1>4 DEF Holds
<1>6. Holds(Overwrite(u, q), V, q)
  BY <1>5, OverwriteHolds
<1>7. QED
  BY <1>1, <1>4, <1>6 DEF AssignAll

-----------------------------------------------------------------------------
(***************************************************************************)
(* The promises, of any devector.                                          *)
(***************************************************************************)
\* Inserting behind the last value is appending.
LEMMA SpliceBehind ==
  ASSUME NEW V, NEW s \in Seq(V), NEW t \in Seq(V)
  PROVE  Splice(s, Len(s), t) = s \o t
<1>1. SubSeq(s, 1, Len(s)) = s
  BY SubSeqFull
<1>2. SubSeq(s, Len(s) + 1, Len(s)) = <<>>
  BY SubSeqEmpty
<1>3. PICK u \in Seq(V) : u = s \o t
  BY ConcatProperties
<1>4. u \o <<>> = u
  BY ConcatEmptySeq
<1>5. QED
  BY <1>1, <1>2, <1>3, <1>4 DEF Splice

\* Inserting before the first.
LEMMA SpliceBefore ==
  ASSUME NEW V, NEW s \in Seq(V), NEW t \in Seq(V)
  PROVE  Splice(s, 0, t) = t \o s
<1>1. SubSeq(s, 0 + 1, Len(s)) = s
  BY SubSeqFull
<1>2. SubSeq(s, 1, 0) = <<>>
  BY SubSeqEmpty
<1>3. <<>> \o t = t
  BY ConcatEmptySeq
<1>4. QED
  BY <1>1, <1>2, <1>3 DEF Splice

\* Removing the last value.
LEMMA CutLast ==
  ASSUME NEW V, NEW s \in Seq(V), NEW n, n = Len(s), n > 0
  PROVE  Cut(s, n - 1, n) = SubSeq(s, 1, n - 1)
<1>1. SubSeq(s, n + 1, Len(s)) = <<>>
  BY SubSeqEmpty
<1>2. PICK i \in 0 .. Len(s) : i = n - 1
  <2>1. n - 1 \in 0 .. Len(s)
    OBVIOUS
  <2>2. QED
    BY <2>1
<1>3. PICK u : u = SubSeq(s, 1, i)
  OBVIOUS
<1>4. u \in Seq(V)
  BY <1>3, FrontOf
<1>5. u \o <<>> = u
  BY <1>4, ConcatEmptySeq
<1>6. QED
  BY <1>1, <1>2, <1>3, <1>5 DEF Cut

\* Removing the first value.
LEMMA CutFirst ==
  ASSUME NEW V, NEW s \in Seq(V), NEW n, n = Len(s), n > 0
  PROVE  Cut(s, 0, 1) = SubSeq(s, 2, n)
<1>1. SubSeq(s, 1, 0) = <<>>
  BY SubSeqEmpty
<1>2. 1 \in 0 .. Len(s)
  OBVIOUS
<1>3. PICK u : u = SubSeq(s, 1 + 1, Len(s))
  OBVIOUS
<1>4. u \in Seq(V)
  BY <1>2, <1>3, BackOf
<1>5. <<>> \o u = u
  BY <1>4, ConcatEmptySeq
<1>6. u = SubSeq(s, 2, n)
  BY <1>3
<1>7. Cut(s, 0, 1) = SubSeq(s, 1, 0) \o u
  BY <1>3 DEF Cut
<1>8. QED
  BY <1>1, <1>5, <1>6, <1>7

\* The promises of the calls that take a value hold of every devector of whatever objects.
THEOREM EachKept ==
  ASSUME NEW V, Objects(V), NEW r \in Vectors(V), NEW s \in Seq(V), s = Contents(r), NEW n \in Nat,
         n = Size(r), Len(s) = n, Value \in V, NEW v \in V
  PROVE  KeepsEach(r, s, v, n)
<1>1. PICK one : one = <<v>>
  OBVIOUS
<1>2. one \in Seq(V)
  BY <1>1
<1>3. Contents(EmplaceBack(r, v)) = Splice(s, n, <<v>>)
  <2>1. Splice(s, Len(s), one) = s \o one
    BY <1>2, SpliceBehind
  <2>2. Contents(EmplaceBack(r, v)) = s \o one
    BY <1>1, EmplaceBackHolds DEF Holds
  <2>3. QED
    BY <1>1, <2>1, <2>2
<1>4. Contents(EmplaceFront(r, v)) = Splice(s, 0, <<v>>)
  <2>1. Splice(s, 0, one) = one \o s
    BY <1>2, SpliceBefore
  <2>2. Contents(EmplaceFront(r, v)) = one \o s
    BY <1>1, EmplaceFrontHolds DEF Holds
  <2>3. QED
    BY <1>1, <2>1, <2>2
<1>5. ASSUME n > 0
      PROVE  Contents(PopBack(r)) = Cut(s, n - 1, n) /\ Contents(PopFront(r)) = Cut(s, 0, 1)
  <2>1. Contents(PopBack(r)) = SubSeq(s, 1, n - 1) /\ Contents(PopFront(r)) = SubSeq(s, 2, n)
    BY <1>5, PopBackHolds, PopFrontHolds DEF Holds
  <2>2. Cut(s, n - 1, n) = SubSeq(s, 1, n - 1) /\ Cut(s, 0, 1) = SubSeq(s, 2, n)
    BY <1>5, CutLast, CutFirst
  <2>3. QED
    BY <2>1, <2>2
<1>6. ASSUME NEW i \in 0 .. n, NEW j \in i + 1 .. n, NEW u \in {EraseRange(r, i, j), EraseBytes(r, i, j)}
      PROVE  Contents(u) = Cut(s, i, j)
  <2>1. i \in 0 .. Size(r) /\ j \in i + 1 .. Size(r)
    OBVIOUS
  <2>2. Contents(EraseRange(r, i, j)) = Cut(s, i, j)
    BY <2>1, EraseRangeHolds DEF Holds
  <2>3. Contents(EraseBytes(r, i, j)) = Cut(s, i, j)
    BY <2>1, EraseBytesHolds DEF Holds
  <2>4. QED
    BY <2>2, <2>3
<1>7. ASSUME NEW i \in 0 .. n, NEW u \in {Insert(r, i, v), InsertBytes(r, i, v)}
      PROVE  Contents(u) = Splice(s, i, <<v>>)
  BY InsertHolds DEF Holds
<1>8. QED
  BY <1>3, <1>4, <1>5, <1>6, <1>7 DEF KeepsEach

\* So do those of the calls that take a number of values.
THEOREM ManyKept ==
  ASSUME NEW V, Objects(V), Value \in V, NEW r \in Vectors(V), NEW s \in Seq(V), s = Contents(r),
         NEW n \in Nat, n = Size(r), Len(s) = n, NEW v \in V, NEW m \in Nat, NEW t \in Seq(V)
  PROVE  KeepsMany(r, s, v, n, m, t)
<1>1. Contents(Resize(r, m, v)) = ResizedTo(s, m, v)
  BY ResizeHolds DEF Holds
<1>2. Contents(ResizeFront(r, m, v)) = ResizedFrontTo(s, m, v)
  BY ResizeFrontHolds DEF Holds
<1>3. Contents(AssignAll(r, t)) = t
  BY AssignAllHolds DEF Holds
<1>4. ASSUME NEW i \in 0 .. n PROVE Contents(InsertRange(r, i, t)) = Splice(s, i, t)
  BY InsertRangeHolds DEF Holds
<1>5. Contents(Reserve(r, m)) = s
  BY ReserveHolds DEF Holds
<1>6. Contents(ReserveBack(r, m)) = s
  BY ReserveBackHolds DEF Holds
<1>7. Contents(ReserveFront(r, m)) = s
  BY ReserveFrontHolds DEF Holds
<1>8. ReserveBack(r, m).cap - ReserveBack(r, m).end >= m /\ ReserveFront(r, m).start >= m
  BY ReserveBackHolds, ReserveFrontHolds
<1>9. QED
  BY <1>1, <1>2, <1>3, <1>4, <1>5, <1>6, <1>7, <1>8 DEF KeepsMany

-----------------------------------------------------------------------------
(***************************************************************************)
(* The specification.                                                      *)
(***************************************************************************)
\* What the slots of a run hold, and with numbers beside them.
Held  == {Value, Moved}
Mixed == Held \cup Int

\* The objects of a run are none of the marks for raw and lost slots.
LEMMA HeldAreObjects ==
  ASSUME DEVectorAssumption
  PROVE  Objects(Held) /\ Objects(Mixed) /\ Value \in Held /\ Value \in Mixed /\ MaxCapacity \in Nat
BY DEF DEVectorAssumption, Objects, Held, Mixed

\* The inductive invariant.
VectorInv == d \in Vectors(Held)

\* An empty devector, without a block.
LEMMA EmptyIsVector ==
  ASSUME DEVectorAssumption
  PROVE  Empty \in Vectors(Held)
<1>1. Block(0) \in Filled(0, Held, 0, 0)
  BY DEF Block, Filled
<1>2. QED
  BY <1>1, HeldAreObjects, VectorIs DEF Empty

\* A reserve_back() or reserve_front() whose move throws leaves its objects in the slots from
\* start to end.
LEMMA ThrowKeepsVector ==
  ASSUME DEVectorAssumption, VectorInv, NEW n \in Sizes, ReserveThrows(n)
  PROVE  VectorInv'
<1>0. PICK room \in 1 .. d.cap - Size(d) : \E dst \in {room, d.cap - room - Size(d)} :
        /\ Overlaps(dst) /\ n < Size(d)
        /\ dst < d.start => dst + n <= d.start
        /\ Becomes(Vector(d.cap, d.start, d.end, MoveThrows(d.mem, d.start, d.end, dst, n)))
  BY DEF ReserveThrows
<1>1. PICK dst \in {room, d.cap - room - Size(d)} :
        /\ Overlaps(dst) /\ n < Size(d)
        /\ dst < d.start => dst + n <= d.start
        /\ Becomes(Vector(d.cap, d.start, d.end, MoveThrows(d.mem, d.start, d.end, dst, n)))
  BY <1>0
<1>2. Objects(Held) /\ MaxCapacity \in Nat
  BY HeldAreObjects
<1>3. PICK cap, start, end \in Nat : \E mem \in Filled(cap, Held, start, end) :
        /\ start <= end /\ end <= cap /\ Size(d) = end - start
        /\ d = Vector(cap, start, end, mem)
        /\ d.cap = cap /\ d.start = start /\ d.end = end /\ d.mem = mem
  BY <1>2, VectorParts DEF VectorInv
<1>4. PICK mem \in Filled(cap, Held, start, end) :
        /\ start <= end /\ end <= cap /\ Size(d) = end - start
        /\ d = Vector(cap, start, end, mem)
        /\ d.cap = cap /\ d.start = start /\ d.end = end /\ d.mem = mem
  BY <1>3
<1>5. n \in Nat
  BY <1>2 DEF Sizes
<1>6. dst \in Nat /\ dst + (end - start) <= cap
  BY <1>1, <1>4
<1>7. /\ n < end - start /\ dst # start /\ dst < end
      /\ dst < start => dst + n <= start
  BY <1>1, <1>4 DEF Overlaps
<1>8. PICK m : m = MoveThrows(mem, start, end, dst, n)
  OBVIOUS
<1>9. m \in Filled(cap, Held, start, end)
  BY <1>2, <1>4, <1>5, <1>6, <1>7, <1>8, MoveThrowsFills
<1>10. Vector(cap, start, end, m) \in Vectors(Held)
  BY <1>2, <1>4, <1>9, VectorIs
<1>11. d' = Vector(cap, start, end, m)
  BY <1>1, <1>4, <1>8 DEF Becomes
<1>12. QED
  BY <1>10, <1>11 DEF VectorInv

\* So do an emplace() and an erase() whose move throws.
LEMMA MoveThrowKeepsVector ==
  ASSUME DEVectorAssumption, VectorInv, NEW n \in Sizes, EmplaceThrows(n) \/ EraseThrows(n)
  PROVE  VectorInv'
<1>1. Objects(Held) /\ Value \in Held /\ MaxCapacity \in Nat /\ d \in Vectors(Held)
  BY HeldAreObjects DEF VectorInv
<1>2. n \in Nat
  BY <1>1 DEF Sizes
<1>3. CASE EmplaceThrows(n)
  <2>1. PICK u : u = EmplaceFront(d, Value)
    OBVIOUS
  <2>2. PICK s : s = Contents(d)
    OBVIOUS
  <2>3. PICK one : one = <<Value>>
    OBVIOUS
  <2>4. Holds(u, Held, one \o s)
    BY <1>1, <2>1, <2>2, <2>3, EmplaceFrontHolds
  <2>5. PICK l \in Nat : l = Size(d) /\ l = Len(s) /\ s \in Seq(Held)
    BY <1>1, <2>2, ContentsAre, VectorHas
  <2>6. PICK cap, start, end, mem, w : Of(u, Held, cap, start, end, mem, w)
    BY <1>1, <2>4, ValuesOf DEF Holds
  <2>7. /\ cap \in Nat /\ start \in Nat /\ end \in Nat /\ start <= end /\ end <= cap
        /\ mem \in Filled(cap, Held, start, end) /\ Len(w) = end - start /\ w = one \o s
        /\ u.start = start /\ u.mem = mem
    BY <2>4, <2>6 DEF Of, Holds
  <2>8. Len(w) = 1 + l
    <3>1. one \in Seq(Held) /\ 1 = Len(one)
      BY <1>1, <2>3
    <3>2. Joined(Held, one, 1, s, l, w)
      BY <2>5, <2>7, <3>1 DEF Joined
    <3>3. Join(Held, one, 1, s, l, w)
      BY <3>2, JoinedIs
    <3>4. QED
      BY <3>3 DEF Join
  <2>9. n + 1 < l
    <3>1. PICK h \in Nat : h = l \div 2 /\ h <= l
      OBVIOUS
    <3>2. n + 1 < h
      BY <1>3, <2>5, <3>1 DEF EmplaceThrows
    <3>3. QED
      BY <1>2, <3>1, <3>2
  <2>10. end = start + 1 + l
    BY <2>5, <2>7, <2>8
  <2>11. PICK first \in Nat : first = start + 1
    BY <2>7
  <2>12. PICK last \in Nat : last = start + 1 + n
    BY <1>2, <2>7
  <2>13. Within(cap, start, end, start, last) /\ start < first /\ first <= last
    BY <1>2, <2>7, <2>9, <2>10, <2>11, <2>12 DEF Within
  <2>14. PICK m : m = MoveForward(mem, first, last, start)
    OBVIOUS
  <2>15. m \in Filled(cap, Held, start, end)
    <3>1. mem \in Filled(cap, Held, start, end)
      BY <2>7
    <3>2. QED
      BY <1>1, <2>13, <2>14, <3>1, MoveForwardFills
  <2>16. PICK r : r = WithSlots(u, m)
    OBVIOUS
  <2>17. r \in Vectors(Held)
    <3>1. PICK t : Of(r, Held, cap, start, end, m, t)
      BY <1>1, <2>6, <2>15, <2>16, WithSlotsIs
    <3>2. QED
      BY <1>1, <3>1, OfIs
  <2>18. d' = r
    BY <1>3, <2>1, <2>7, <2>11, <2>12, <2>14, <2>16 DEF EmplaceThrows, Becomes
  <2>19. QED
    BY <2>17, <2>18 DEF VectorInv
<1>4. CASE EraseThrows(n)
  <2>1. PICK cap, start, end, mem, s : Of(d, Held, cap, start, end, mem, s)
    BY <1>1, ValuesOf
  <2>2. /\ cap \in Nat /\ start \in Nat /\ end \in Nat /\ start <= end /\ end <= cap
        /\ d.start = start /\ d.end = end /\ d.mem = mem /\ Size(d) = end - start
    BY <2>1 DEF Of
  <2>3. mem \in Filled(cap, Held, start, end)
    BY <2>1 DEF Of
  <2>4. PICK l \in Nat : l = Size(d) /\ end = start + l
    BY <2>2
  <2>5. ASSUME NEW m \in Filled(cap, Held, start, end), d' = WithSlots(d, m)
        PROVE  VectorInv'
    <3>1. PICK r : r = WithSlots(d, m)
      OBVIOUS
    <3>2. PICK t : Of(r, Held, cap, start, end, m, t)
      BY <1>1, <2>1, <3>1, WithSlotsIs
    <3>3. r \in Vectors(Held)
      BY <1>1, <3>2, OfIs
    <3>4. QED
      BY <2>5, <3>1, <3>3 DEF VectorInv
  <2>6. PICK i \in 0 .. Size(d) : \E j \in i + 1 .. Size(d) : EraseStops(n, i, j)
    BY <1>4 DEF EraseThrows
  <2>7. PICK j \in i + 1 .. Size(d) : EraseStops(n, i, j)
    BY <2>6
  <2>8. \/ /\ n < i
            /\ d' = WithSlots(d, MoveBackward(d.mem, (d.start + i) - n, d.start + i, d.start + j))
         \/ /\ n < Size(d) - j
            /\ d' = WithSlots(d, MoveForward(d.mem, d.start + j, d.start + j + n, d.start + i))
    BY <2>7 DEF EraseStops, Becomes
  <2>9. i \in Nat /\ j \in Nat /\ i < j /\ j <= l
    BY <2>4
  <2>10. d.start = start /\ d.mem = mem /\ Size(d) = l
    BY <2>2, <2>4
  <2>11. PICK first \in Nat : first = start + i
    BY <2>2, <2>9
  <2>12. PICK last \in Nat : last = start + j
    BY <2>2, <2>9
  <2>13. CASE /\ n < i
              /\ d' = WithSlots(d, MoveBackward(d.mem, (d.start + i) - n, d.start + i, d.start + j))
    <3>1. PICK low \in Nat : low = (start + i) - n
      BY <1>2, <2>2, <2>9, <2>13
    <3>2. Within(cap, start, end, low, last) /\ low <= first /\ first < last
      BY <1>2, <2>2, <2>4, <2>9, <2>11, <2>12, <2>13, <3>1 DEF Within
    <3>3. PICK m : m = MoveBackward(mem, low, first, last)
      OBVIOUS
    <3>4. m \in Filled(cap, Held, start, end)
      BY <1>1, <2>3, <3>2, <3>3, MoveBackwardFills
    <3>5. d' = WithSlots(d, m)
      BY <2>11, <2>12, <2>13, <2>10, <3>1, <3>3
    <3>6. QED
      BY <2>5, <3>4, <3>5
  <2>14. CASE /\ n < Size(d) - j
              /\ d' = WithSlots(d, MoveForward(d.mem, d.start + j, d.start + j + n, d.start + i))
    <3>1. PICK high \in Nat : high = start + j + n
      BY <1>2, <2>2, <2>9
    <3>2. Within(cap, start, end, first, high) /\ first < last /\ last <= high
      BY <1>2, <2>2, <2>4, <2>9, <2>11, <2>12, <2>14, <2>10, <3>1 DEF Within
    <3>3. PICK m : m = MoveForward(mem, last, high, first)
      OBVIOUS
    <3>4. m \in Filled(cap, Held, start, end)
      BY <1>1, <2>3, <3>2, <3>3, MoveForwardFills
    <3>5. d' = WithSlots(d, m)
      BY <2>11, <2>12, <2>14, <2>10, <3>1, <3>3
    <3>6. QED
      BY <2>5, <3>4, <3>5
  <2>15. QED
    BY <2>13, <2>14, <2>8
<1>5. QED
  BY <1>3, <1>4

\* Every call, whether it returns or throws, leaves a devector.
LEMMA StepKeepsVector ==
  ASSUME DEVectorAssumption, VectorInv, [Next]_vars
  PROVE  VectorInv'
<1>1. Objects(Held) /\ Value \in Held /\ MaxCapacity \in Nat /\ d \in Vectors(Held)
  BY HeldAreObjects DEF VectorInv
<1>2. ASSUME NEW n \in Sizes PROVE n \in Nat /\ Copies(n, Value) \in Seq(Held)
  <2>1. n \in Nat
    BY <1>1 DEF Sizes
  <2>2. QED
    BY <1>1, <2>1, CopiesAre
<1>3. Size(d) \in Nat
  BY <1>1, VectorHas
<1>4. CASE CallPush
  BY <1>1, <1>4, EmplaceBackHolds, EmplaceFrontHolds DEF CallPush, Becomes, VectorInv, Holds
<1>5. CASE CallPop
  BY <1>1, <1>5, PopBackHolds, PopFrontHolds DEF CallPop, Becomes, VectorInv, Holds
<1>6. CASE CallEmplace
  BY <1>1, <1>6, InsertHolds DEF CallEmplace, Becomes, VectorInv, Holds
<1>7. CASE CallErase
  <2>1. PICK i \in 0 .. Size(d) : \E j \in i + 1 .. Size(d) :
          d' = EraseRange(d, i, j) \/ d' = EraseBytes(d, i, j)
    BY <1>7 DEF CallErase, Becomes
  <2>2. PICK j \in i + 1 .. Size(d) : d' = EraseRange(d, i, j) \/ d' = EraseBytes(d, i, j)
    BY <2>1
  <2>3. /\ Holds(EraseRange(d, i, j), Held, Cut(Contents(d), i, j))
        /\ Holds(EraseBytes(d, i, j), Held, Cut(Contents(d), i, j))
    BY <1>1, EraseRangeHolds, EraseBytesHolds
  <2>4. QED
    BY <2>2, <2>3 DEF VectorInv, Holds
<1>8. CASE CallTrim
  BY <1>1, <1>8, ShrinkToFitHolds, ClearHolds DEF CallTrim, Becomes, VectorInv, Holds
<1>9. ASSUME NEW n \in Sizes, CallInsert(n) PROVE VectorInv'
  BY <1>1, <1>2, <1>9, InsertRangeHolds DEF CallInsert, Becomes, VectorInv, Holds
<1>10. ASSUME NEW n \in Sizes, CallReserve(n) PROVE VectorInv'
  BY <1>1, <1>2, <1>10, ReserveHolds, ReserveBackHolds, ReserveFrontHolds
  DEF CallReserve, Becomes, VectorInv, Holds
<1>11. ASSUME NEW n \in Sizes, CallResize(n) PROVE VectorInv'
  BY <1>1, <1>2, <1>11, ResizeHolds, ResizeFrontHolds DEF CallResize, Becomes, VectorInv, Holds
<1>12. ASSUME NEW n \in Sizes, CallAssign(n) PROVE VectorInv'
  BY <1>1, <1>2, <1>12, AssignAllHolds DEF CallAssign, Becomes, VectorInv, Holds
<1>13. ASSUME NEW n \in Sizes, ReserveThrows(n) PROVE VectorInv'
  BY <1>13, ThrowKeepsVector
<1>14. CASE PushThrows
  BY <1>1, <1>14, GrownBackHolds, GrownFrontHolds DEF PushThrows, Becomes, VectorInv, Holds
<1>15. CASE UNCHANGED vars
  BY <1>15 DEF vars, VectorInv
<1>16. ASSUME NEW n \in Sizes, EmplaceThrows(n) \/ EraseThrows(n) PROVE VectorInv'
  BY <1>16, MoveThrowKeepsVector
<1>17. QED
  BY <1>4, <1>5, <1>6, <1>7, <1>8, <1>9, <1>10, <1>11, <1>12, <1>13, <1>14, <1>15, <1>16 DEF Next

\* The inductive invariant: in every state the devector is one, with objects in the slots from
\* start to end, raw slots elsewhere and nothing lost, for every MaxCapacity.
THEOREM VectorInvHolds ==
  ASSUME DEVectorAssumption
  PROVE  Spec => []VectorInv
<1>1. Init => VectorInv
  BY EmptyIsVector DEF Init, VectorInv
<1>2. VectorInv /\ [Next]_vars => VectorInv'
  BY StepKeepsVector
<1>3. QED
  BY <1>1, <1>2, PTL DEF Spec

\* A devector has its objects in the slots from start to end, and nothing lost.
LEMMA VectorsAreExact ==
  ASSUME DEVectorAssumption, VectorInv
  PROVE  SlotsExact
<1>1. Objects(Held) /\ d \in Vectors(Held)
  BY HeldAreObjects DEF VectorInv
<1>2. /\ d.cap \in Nat /\ d.start \in Nat /\ d.end \in Nat
      /\ d.start <= d.end /\ d.end <= d.cap /\ d.mem \in Filled(d.cap, Held, d.start, d.end)
  BY <1>1, VectorHas
<1>3. ASSUME NEW i \in 0 .. d.cap - 1
      PROVE  IF d.start <= i /\ i < d.end THEN d.mem[i] \in {Value, Moved} ELSE d.mem[i] = Raw
  BY <1>2 DEF Filled, Held
<1>4. QED
  BY <1>2, <1>3 DEF SlotsExact

\* A push that moves all the values leaves room for half as many.
LEMMA VectorsAmortize ==
  ASSUME DEVectorAssumption, VectorInv
  PROVE  PushesAmortized
<1>1. Objects(Held) /\ d \in Vectors(Held)
  BY HeldAreObjects DEF VectorInv
<1>2. d.end = d.cap => 2 * (GrownBack(d).cap - GrownBack(d).end) + 1 >= Size(d)
  BY <1>1, GrownBackHolds
<1>3. d.start = 0 => 2 * GrownFront(d).start + 1 >= Size(d)
  BY <1>1, GrownFrontHolds
<1>4. QED
  BY <1>2, <1>3 DEF PushesAmortized

\* Every object is destroyed once: objects lie from start to end and nowhere else, whatever
\* threw (devector.hpp, the moves and destructions of DEVectorData), for every MaxCapacity.
THEOREM SlotsExactHolds ==
  ASSUME DEVectorAssumption
  PROVE  Spec => []SlotsExact
<1>1. VectorInv => SlotsExact
  BY VectorsAreExact
<1>2. QED
  BY <1>1, VectorInvHolds, PTL

\* A push that moves all values leaves room for half as many more (devector.hpp:799), for every
\* MaxCapacity.
THEOREM PushesAmortizedHolds ==
  ASSUME DEVectorAssumption
  PROVE  Spec => []PushesAmortized
<1>1. VectorInv => PushesAmortized
  BY VectorsAmortize
<1>2. QED
  BY <1>1, VectorInvHolds, PTL

\* A devector that holds distinct values, as any could.
LEMMA VectorsKeepValues ==
  ASSUME DEVectorAssumption, VectorInv
  PROVE  KeepsValues
<1>1. Objects(Mixed) /\ Value \in Mixed /\ 0 \in Mixed /\ MaxCapacity \in Nat
  BY HeldAreObjects DEF Mixed
<1>2. d \in Vectors(Mixed)
  <2>1. PICK cap, start, end \in Nat : \E mem \in Filled(cap, Held, start, end) :
          /\ start <= end /\ end <= cap /\ Size(d) = end - start
          /\ d = Vector(cap, start, end, mem)
          /\ d.cap = cap /\ d.start = start /\ d.end = end /\ d.mem = mem
    BY HeldAreObjects, VectorParts DEF VectorInv
  <2>2. PICK mem \in Filled(cap, Held, start, end) :
          start <= end /\ end <= cap /\ d = Vector(cap, start, end, mem)
    BY <2>1
  <2>3. mem \in Filled(cap, Mixed, start, end)
    BY DEF Filled, Mixed
  <2>4. QED
    BY <1>1, <2>2, <2>3, VectorIs
<1>3. PICK n \in Nat : n = Size(d)
  BY <1>1, <1>2, VectorHas
<1>4. PICK s : s = Numbers(n)
  OBVIOUS
<1>5. PICK r : r = Overwrite(d, s)
  OBVIOUS
<1>6. s \in Seq(Mixed) /\ Len(s) = n
  <2>1. s \in [1 .. n -> Mixed]
    BY <1>4 DEF Numbers, Mixed
  <2>2. QED
    BY <2>1
<1>7. r \in Vectors(Mixed) /\ Contents(r) = s /\ Size(r) = n
  BY <1>1, <1>2, <1>3, <1>5, <1>6, OverwriteHolds DEF Holds
<1>8. PICK v \in Mixed : v = 0
  BY <1>1
<1>9. KeepsEach(r, s, v, n)
  BY <1>1, <1>6, <1>7, EachKept
<1>10. ASSUME NEW m \in Sizes PROVE KeepsMany(r, s, v, n, m, Negatives(m))
  <2>1. m \in Nat
    BY <1>1 DEF Sizes
  <2>2. PICK t : t = Negatives(m)
    OBVIOUS
  <2>3. t \in [1 .. m -> Mixed]
    BY <2>1, <2>2 DEF Negatives, Mixed
  <2>4. t \in Seq(Mixed)
    BY <2>1, <2>3
  <2>5. KeepsMany(r, s, v, n, m, t)
    BY <1>1, <1>6, <1>7, <2>1, <2>4, ManyKept
  <2>6. QED
    BY <2>2, <2>5
<1>11. QED
  BY <1>3, <1>4, <1>5, <1>8, <1>9, <1>10 DEF KeepsValues

\* In every reachable state every call makes of distinct values what it promises, for every
\* MaxCapacity.
THEOREM KeepsValuesHolds ==
  ASSUME DEVectorAssumption
  PROVE  Spec => []KeepsValues
<1>1. VectorInv => KeepsValues
  BY VectorsKeepValues
<1>2. QED
  BY <1>1, VectorInvHolds, PTL
=============================================================================
