------------------------------ MODULE LruList ------------------------------
(***************************************************************************)
(* The intrusive doubly-linked LRU list of fastdb.Cache (pushFrontLocked,  *)
(* moveToFrontLocked and the unlinking in removeLocked, cache.go; the same *)
(* three helpers are repeated in cmd/main/output_cache.go).  A removed     *)
(* node keeps its prev and next as they were: only pushFront resets them.  *)
(*                                                                         *)
(* The history variable behind is the order the caches are specified with  *)
(* in TaggedLru: behind[n] are the nodes nearer the tail than n.           *)
(* PointersMatch says that the pointers are that order and nothing else.   *)
(***************************************************************************)
EXTENDS Recency

CONSTANTS Node, Nil

ASSUME NilAssumption == Nil \notin Node

VARIABLES head, tail, prev, next, \* the pointers
          behind                  \* history: the order of the list

listVars == <<head, tail, prev, next, behind>>

live == DOMAIN behind   \* the nodes in the map, so in the list

EmptyList ==
    /\ head = Nil /\ tail = Nil
    /\ prev = [n \in Node |-> Nil] /\ next = [n \in Node |-> Nil]
    /\ behind = EmptyOrder

(* Called by Put for an entry that is not in the list. *)
PushFrontLocked(e) ==
    /\ e \notin live
    /\ next' = [next EXCEPT ![e] = head]
    /\ prev' = [n \in Node |-> IF n = e THEN Nil ELSE IF n = head THEN e ELSE prev[n]]
    /\ head' = e
    /\ tail' = IF tail = Nil THEN e ELSE tail
    /\ behind' = PushFront(behind, e)

(* Mutant: moving the tail to the front leaves c.tail on it. *)
MoveToFrontKeepsTail(e) ==
    /\ e \in live
    /\ behind' = PushFront(Unlink(behind, {e}), e)
    /\ \/ /\ e = head
          /\ UNCHANGED <<head, tail, prev, next>>
       \/ /\ e # head
          /\ next' = [n \in Node |-> IF n = e THEN head
                                     ELSE IF n = prev[e] THEN next[e] ELSE next[n]]
          /\ prev' = [n \in Node |-> IF n = e THEN Nil
                                     ELSE IF n = head THEN e
                                     ELSE IF n = next[e] THEN prev[e] ELSE prev[n]]
          /\ head' = e
          /\ UNCHANGED tail

(* Called by Get on a hit. *)
MoveToFrontLocked(e) ==
    /\ e \in live
    /\ behind' = PushFront(Unlink(behind, {e}), e)
    /\ \/ /\ e = head
          /\ UNCHANGED <<head, tail, prev, next>>
       \/ /\ e # head
          /\ next' = [n \in Node |-> IF n = e THEN head
                                     ELSE IF n = prev[e] THEN next[e] ELSE next[n]]
          /\ prev' = [n \in Node |-> IF n = e THEN Nil
                                     ELSE IF n = head THEN e
                                     ELSE IF n = next[e] THEN prev[e] ELSE prev[n]]
          /\ tail' = IF e = tail THEN prev[e] ELSE tail
          /\ head' = e

(* The list part of removeLocked: Put's replacement and invalidation. *)
RemoveLockedNode(e) ==
    /\ e \in live
    /\ next' = [n \in Node |-> IF n = prev[e] THEN next[e] ELSE next[n]]
    /\ prev' = [n \in Node |-> IF n = next[e] THEN prev[e] ELSE prev[n]]
    /\ head' = IF prev[e] = Nil THEN next[e] ELSE head
    /\ tail' = IF next[e] = Nil THEN prev[e] ELSE tail
    /\ behind' = Unlink(behind, {e})

(* Mutant: the loop drops the most recently used entry. *)
EvictHead == head # Nil /\ RemoveLockedNode(head)

(* One turn of the eviction loop. *)
EvictTail == tail # Nil /\ RemoveLockedNode(tail)

(* FlushAll drops both ends; the nodes are garbage with stale pointers,    *)
(* and a later Put always links a fresh node.                              *)
Flush ==
    /\ head' = Nil /\ tail' = Nil
    /\ behind' = EmptyOrder
    /\ UNCHANGED <<prev, next>>

ListNext ==
    \/ \E e \in Node : PushFrontLocked(e) \/ MoveToFrontLocked(e) \/ RemoveLockedNode(e)
    \/ EvictTail
    \/ Flush

ListSpec == EmptyList /\ [][ListNext]_listVars

---------------------------------------------------------------------------
(* Type invariant. *)
ListTypeOK ==
    /\ live \subseteq Node
    /\ behind \in [live -> SUBSET live]
    /\ head \in Node \cup {Nil} /\ tail \in Node \cup {Nil}
    /\ prev \in [Node -> Node \cup {Nil}] /\ next \in [Node -> Node \cup {Nil}]

StrictTotal ==
    /\ \A a \in live : a \notin behind[a]
    /\ \A a, b \in live : a # b => b \in behind[a] \/ a \in behind[b]
    /\ \A a, b, c \in live : b \in behind[a] /\ c \in behind[b] => c \in behind[a]

(* a is directly before b in the list. *)
Adjacent(a, b) ==
    b \in behind[a] /\ \A c \in live : ~(c \in behind[a] /\ b \in behind[c])

EndsMatch ==
    /\ IF live = {} THEN head = Nil /\ tail = Nil
                    ELSE head \in live /\ tail \in live
    /\ \A a \in live : (a = head <=> \A b \in live \ {a} : b \in behind[a])
    /\ \A a \in live : (a = tail <=> \A b \in live \ {a} : a \in behind[b])

LinksMatch ==
    /\ \A a \in live : next[a] \in live \cup {Nil} /\ prev[a] \in live \cup {Nil}
    /\ \A a \in live : next[a] = Nil <=> a = tail
    /\ \A a \in live : prev[a] = Nil <=> a = head
    /\ \A a, b \in live : next[a] = b <=> Adjacent(a, b)
    /\ \A a, b \in live : prev[b] = a <=> Adjacent(a, b)

(* Whatever sequence of pushes, moves, removals, evictions and flushes has *)
(* happened, walking the pointers in either direction visits exactly the   *)
(* live entries in recency order, and tail is the least recently used one. *)
PointersMatch == StrictTotal /\ EndsMatch /\ LinksMatch

(* An eviction removes the entry that was used least recently. *)
EvictsOldest ==
    [][EvictTail => \E e \in live : live' = live \ {e}
                                    /\ \A a \in live \ {e} : e \in behind[a]]_listVars
=============================================================================
