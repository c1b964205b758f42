------------------------------ MODULE Recency ------------------------------
(***************************************************************************)
(* An LRU list seen as its strict order: behind[k] is the set of keys      *)
(* nearer the tail (used less recently) than k; the list holds the keys of *)
(* DOMAIN behind.                                                          *)
(***************************************************************************)

EmptyOrder == [k \in {} |-> {}]

Unlink(behind, S) == [k \in DOMAIN behind \ S |-> behind[k] \ S]

(* k is not in the list. *)
PushFront(behind, k) ==
    [x \in DOMAIN behind \cup {k} |-> IF x = k THEN DOMAIN behind ELSE behind[x]]
=============================================================================
