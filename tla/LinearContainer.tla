--------------------------- MODULE LinearContainer ---------------------------
(***************************************************************************)
(* What the operations of the library's linear containers (sequence,       *)
(* devector, tiered_vector) promise: the values s, in order, before a call *)
(* against those after it.  How a container lays them out in memory is the *)
(* matter of its own module.                                               *)
(***************************************************************************)
EXTENDS Integers, SequencesExt, Evaluation

Copies(n, v)    == [i \in 1 .. n |-> v]
Splice(s, i, t) == SubSeq(s, 1, i) \o t \o SubSeq(s, i + 1, Len(s))
Cut(s, i, j)    == SubSeq(s, 1, i) \o SubSeq(s, j + 1, Len(s))

\* The first n values, filled up at the back; the last n, filled up in front.
ResizedTo(s, n, v) ==
  IF n <= Len(s) THEN SubSeq(s, 1, n) ELSE s \o Copies(n - Len(s), v)
ResizedFrontTo(s, n, v) ==
  IF n <= Len(s) THEN SubSeq(s, Len(s) - n + 1, Len(s)) ELSE Copies(n - Len(s), v) \o s
=============================================================================
