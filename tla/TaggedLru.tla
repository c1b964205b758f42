----------------------------- MODULE TaggedLru -----------------------------
(***************************************************************************)
(* The storage shared in shape by fastdb.Cache (modules/fastdb/cache.go)   *)
(* and outputCache (cmd/main/output_cache.go): a map of entries, a reverse *)
(* index from a table name to the keys that read it, an LRU list and a     *)
(* byte counter, all under one mutex.  Every operator below is what one    *)
(* critical section, or one helper called inside it, does to the cache     *)
(*                                                                         *)
(*   c.entries   key -> entry   (a record with at least .tables, .bytes)   *)
(*   c.reverse   table -> set of keys                                      *)
(*   c.behind    the LRU list as its order (module Recency; LruList        *)
(*               relates it to the intrusive prev/next pointers)           *)
(*   c.curBytes  the running byte count                                    *)
(***************************************************************************)
EXTENDS Integers, FiniteSets, FiniteSetsExt, Recency

CONSTANTS MaxEntries, MaxBytes

ASSUME CapsAssumption == MaxEntries \in Nat \ {0} /\ MaxBytes \in Nat \ {0}

EmptyFcn == [x \in {} |-> x]

Empty == [entries |-> EmptyFcn, reverse |-> EmptyFcn, behind |-> EmptyOrder, curBytes |-> 0]

Live(c) == DOMAIN c.entries

BytesOf(c, S) == MapThenSumSet(LAMBDA k : c.entries[k].bytes, S)

---------------------------------------------------------------------------
MoveToFront(c, k) ==
    [entries  |-> c.entries,
     reverse  |-> c.reverse,
     behind   |-> PushFront(Unlink(c.behind, {k}), k),
     curBytes |-> c.curBytes]

(***************************************************************************)
(* removeLocked, applied to every key of S \subseteq Live(c): the key      *)
(* leaves the list, the map and the index sets of its own tables, an index *)
(* set that becomes empty leaves the index, and the bytes are given back.  *)
(***************************************************************************)
LeavesIndex(c, S, t) == {k \in S : t \in c.entries[k].tables}

(* Mutant: an emptied index set is left behind. *)
RemoveLockedKeepsSets(c, S) ==
    [entries  |-> [k \in Live(c) \ S |-> c.entries[k]],
     reverse  |-> [t \in DOMAIN c.reverse |-> c.reverse[t] \ LeavesIndex(c, S, t)],
     behind   |-> Unlink(c.behind, S),
     curBytes |-> c.curBytes - BytesOf(c, S)]

RemoveLocked(c, S) ==
    [entries  |-> [k \in Live(c) \ S |-> c.entries[k]],
     reverse  |-> [t \in {u \in DOMAIN c.reverse :
                            LeavesIndex(c, S, u) # {}
                              => c.reverse[u] \ LeavesIndex(c, S, u) # {}}
                     |-> c.reverse[t] \ LeavesIndex(c, S, t)],
     behind   |-> Unlink(c.behind, S),
     curBytes |-> c.curBytes - BytesOf(c, S)]

(* The insertion half of Put: k is not in c. *)
Insert(c, k, e) ==
    [entries  |-> [x \in Live(c) \cup {k} |-> IF x = k THEN e ELSE c.entries[x]],
     reverse  |-> [t \in DOMAIN c.reverse \cup e.tables |->
                     (IF t \in DOMAIN c.reverse THEN c.reverse[t] ELSE {})
                       \cup (IF t \in e.tables THEN {k} ELSE {})],
     behind   |-> PushFront(c.behind, k),
     curBytes |-> c.curBytes + e.bytes]

(***************************************************************************)
(* The eviction loop of Put drops the tail while a cap is exceeded and the *)
(* list is not empty.  The keys it leaves are a head segment of the list:  *)
(* the largest one that respects both caps, or nothing.                    *)
(***************************************************************************)
HeadSegments(c) ==
    {{}} \cup {Live(c) \ c.behind[k] : k \in Live(c)}

(* Mutant: the eviction loop stops one entry too early. *)
FitsOneMore(c, K) == /\ Cardinality(K) <= MaxEntries + 1
                     /\ c.curBytes - BytesOf(c, Live(c) \ K) <= MaxBytes

Fits(c, K) == /\ Cardinality(K) <= MaxEntries
              /\ c.curBytes - BytesOf(c, Live(c) \ K) <= MaxBytes

EvictionStopsAt(c, K) ==
    /\ K \in HeadSegments(c)
    /\ K = {} \/ Fits(c, K)
    /\ \A J \in HeadSegments(c) : Fits(c, J) => ~(K \subseteq J /\ K # J)

Evicted(c) == {RemoveLocked(c, Live(c) \ K) :
                 K \in {J \in HeadSegments(c) : EvictionStopsAt(c, J)}}

(* Put: replace what the key holds, insert, evict.  (A singleton set.) *)
PutLocked(c, k, e) == Evicted(Insert(RemoveLocked(c, {k} \cap Live(c)), k, e))

(* Mutant: the dropped entries' bytes are not given back. *)
InvalidateKeepsBytes(c, t) ==
    IF t \notin DOMAIN c.reverse
    THEN c
    ELSE LET r == RemoveLocked(c, c.reverse[t] \cap Live(c))
         IN  [entries  |-> r.entries,
              reverse  |-> [u \in DOMAIN r.reverse \ {t} |-> r.reverse[u]],
              behind   |-> r.behind,
              curBytes |-> c.curBytes]

(* Drop every entry indexed under table t, then the index set itself. *)
InvalidateLocked(c, t) ==
    IF t \notin DOMAIN c.reverse
    THEN c
    ELSE LET r == RemoveLocked(c, c.reverse[t] \cap Live(c))
         IN  [entries  |-> r.entries,
              reverse  |-> [u \in DOMAIN r.reverse \ {t} |-> r.reverse[u]],
              behind   |-> r.behind,
              curBytes |-> r.curBytes]

---------------------------------------------------------------------------
(* Well-formedness, one named part per structure. *)

(* The reverse index is exactly the inverse of the entries' table lists:   *)
(* a key missing from it would survive a write to its table (a stale read  *)
(* for ever), and an empty or dangling set would leak.                     *)
IndexExact(c) ==
    /\ \A t \in DOMAIN c.reverse : c.reverse[t] # {}
    /\ \A k \in Live(c) : c.entries[k].tables \subseteq DOMAIN c.reverse
    /\ \A t \in DOMAIN c.reverse :
         c.reverse[t] = {k \in Live(c) : t \in c.entries[k].tables}

(* The LRU list holds exactly the live entries, in a strict total order. *)
OrderTotal(c) ==
    /\ DOMAIN c.behind = Live(c)
    /\ \A a \in Live(c) : c.behind[a] \subseteq Live(c) \ {a}
    /\ \A a, b \in Live(c) : a # b => b \in c.behind[a] \/ a \in c.behind[b]
    /\ \A a, b \in Live(c) : b \in c.behind[a] => c.behind[b] \subseteq c.behind[a]

(* The byte counter never drifts from the entries it counts. *)
BytesExact(c) == c.curBytes = BytesOf(c, Live(c))

WithinCaps(c) == Cardinality(Live(c)) <= MaxEntries /\ c.curBytes <= MaxBytes
=============================================================================
