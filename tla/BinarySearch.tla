---------------------------- MODULE BinarySearch ----------------------------
(***************************************************************************)
(* seq/internal/binary_search.hpp: the number of leading elements that     *)
(* come before a searched value, where c[i] compares element i with it,    *)
(* for i from 0 on: -1 before, 0 equal, 1 after.                           *)
(***************************************************************************)
EXTENDS Integers, FiniteSetsExt

(***************************************************************************)
(* Numbers: halves without a branch, two at a time, then one by one once   *)
(* at most probe elements are left.                                        *)
(***************************************************************************)
Halve(r, c) ==
  LET half == r.size \div 2
  IN [low |-> IF c[r.low + half] < 0 THEN r.low + r.size - half ELSE r.low, size |-> half]

Probed(c, probe) ==
  LET n == Cardinality(DOMAIN c)
      search[r \in [low : 0 .. n, size : 0 .. n]] ==
        IF r.size > probe THEN search[Halve(Halve(r, c), c)] ELSE r
      last == search[[low |-> 0, size |-> n]]
      end  == last.low + last.size
  IN Min({i \in last.low .. end : i = end \/ c[i] >= 0})

(***************************************************************************)
(* Other keys.  Keys with a three-way comparison are found at the first    *)
(* equal one that is met, where keys are unique.                           *)
(***************************************************************************)
Bisected(c, stop) ==
  LET search[s \in Nat, e \in Nat] ==
        IF s = e THEN s
        ELSE LET mid == (s + e) \div 2
             IN IF c[mid] < 0 THEN search[mid + 1, e]
                ELSE IF c[mid] = 0 /\ stop THEN mid
                ELSE search[s, mid]
  IN search[0, Cardinality(DOMAIN c)]
=============================================================================
