---------------------------- MODULE ConcurrentSet ----------------------------
(***************************************************************************)
(* What a concurrent_set (or the keys of a concurrent_map) promises to the *)
(* threads that share it.  A call on one key takes effect at one instant   *)
(* between its invocation and its return.  A walk over the table           *)
(* (visit_all, erase_if) is not atomic: it sees no key that is not there,  *)
(* no key twice, and every key that is there from its start to its end.    *)
(***************************************************************************)
CONSTANTS Threads, Keys

VARIABLES
  contents,  \* the keys in the set
  call       \* per thread, the call it is in

vars == <<contents, call>>

PointOps == {"insert", "erase", "visit", "cvisit"}
WalkOps  == {"visit_all", "cvisit_all", "erase_if"}
WholeOps == {"rehash", "clear"}

(***************************************************************************)
(* A call: its operation and key, whether it took effect and with what     *)
(* result, and for a walk the keys it passed to the functor, those that    *)
(* have been present since it started, and whether the functor stopped it. *)
(***************************************************************************)
Idle == [op |-> "none"]
Point(op, k)       == [op |-> op, key |-> k, res |-> "pending"]
Whole(op)          == [op |-> op]
Walk(op, seen, steady, stop) ==
  [op |-> op, seen |-> seen, steady |-> steady, stop |-> stop]

Init ==
  /\ contents = {}
  /\ call = [t \in Threads |-> Idle]

InvokePoint(t, op, k) ==
  /\ call[t] = Idle
  /\ call' = [call EXCEPT ![t] = Point(op, k)]
  /\ UNCHANGED contents

InvokeWalk(t, op) ==
  /\ call[t] = Idle
  /\ call' = [call EXCEPT ![t] = Walk(op, {}, contents, FALSE)]
  /\ UNCHANGED contents

InvokeWhole(t, op) ==
  /\ call[t] = Idle
  /\ call' = [call EXCEPT ![t] = Whole(op)]
  /\ UNCHANGED contents

\* The walks of other threads can no longer count on the keys in gone.
Unsteady(calls, gone) ==
  [s \in Threads |-> IF calls[s].op \in WalkOps
                     THEN [calls[s] EXCEPT !.steady = @ \ gone]
                     ELSE calls[s]]

\* The one instant at which a call on a key takes effect.
Apply(t) ==
  /\ call[t].op \in PointOps
  /\ call[t].res = "pending"
  /\ LET k     == call[t].key
         found == k \in contents
         done  == [call EXCEPT ![t].res = IF found THEN "found" ELSE "absent"]
     IN CASE call[t].op = "insert" -> /\ contents' = contents \cup {k}
                                      /\ call' = done
          [] call[t].op = "erase"  -> /\ contents' = contents \ {k}
                                      /\ call' = Unsteady(done, {k})
          [] OTHER                 -> /\ call' = done
                                      /\ UNCHANGED contents

\* A walk passes keys of the set, none of them for the second time.
WalkOver(t, S, stop) ==
  /\ call[t].op \in WalkOps
  /\ ~call[t].stop
  /\ S \subseteq contents
  /\ S \cap call[t].seen = {}
  /\ \E gone \in {{}} \cup (IF call[t].op = "erase_if" THEN SUBSET S ELSE {}) :
       /\ contents' = contents \ gone
       /\ call' = Unsteady([call EXCEPT ![t].seen = @ \cup S, ![t].stop = stop], gone)

Wipe(t) ==
  /\ call[t].op = "clear"
  /\ contents' = {}
  /\ call' = Unsteady(call, contents)

(***************************************************************************)
(* A call on a key returns once it took effect; a walk that its functor    *)
(* did not stop has passed every steady key.  Only an insertion and a      *)
(* rehash allocate, and may throw: an insertion then did nothing.          *)
(***************************************************************************)
Return(t) ==
  /\ call[t] # Idle
  /\ call[t].op \in PointOps => call[t].res # "pending"
  /\ (call[t].op \in WalkOps /\ ~call[t].stop) => call[t].steady \subseteq call[t].seen
  /\ call' = [call EXCEPT ![t] = Idle]
  /\ UNCHANGED contents

Throw(t) ==
  /\ \/ call[t].op = "insert" /\ call[t].res = "pending"
     \/ call[t].op = "rehash"
  /\ call' = [call EXCEPT ![t] = Idle]
  /\ UNCHANGED contents

Next ==
  \E t \in Threads :
    \/ \E op \in PointOps, k \in Keys : InvokePoint(t, op, k)
    \/ \E op \in WalkOps : InvokeWalk(t, op)
    \/ \E op \in WholeOps : InvokeWhole(t, op)
    \/ Apply(t)
    \/ \E S \in SUBSET Keys, stop \in BOOLEAN : WalkOver(t, S, stop)
    \/ Wipe(t)
    \/ Return(t)
    \/ Throw(t)

Spec == Init /\ [][Next]_vars
=============================================================================
