-------------------------- MODULE TaggedLruProofs --------------------------
(***************************************************************************)
(* What every helper of the shared cache storage preserves, for any keys,  *)
(* tables and entries, and that the linked list in it keeps the recency    *)
(* order the storage is specified with.                                    *)
(***************************************************************************)
EXTENDS TaggedLru, LruList, FiniteSetTheorems, TLAPS

WellFormed(c) == IndexExact(c) /\ OrderTotal(c)

LEMMA EmptyWellFormed == WellFormed(Empty) /\ Live(Empty) = {}
  BY DEF WellFormed, IndexExact, OrderTotal, Empty, EmptyFcn, EmptyOrder, Live

LEMMA RemoveWellFormed ==
    ASSUME NEW c, WellFormed(c), NEW S, S \subseteq Live(c)
    PROVE  /\ WellFormed(RemoveLocked(c, S))
           /\ Live(RemoveLocked(c, S)) = Live(c) \ S
           /\ \A k \in Live(c) \ S : RemoveLocked(c, S).entries[k] = c.entries[k]
<1> DEFINE r == RemoveLocked(c, S)
<1>1. /\ Live(r) = Live(c) \ S
      /\ \A k \in Live(r) : r.entries[k] = c.entries[k]
  BY DEF RemoveLocked, Live
<1>2. OrderTotal(r)
  <2>1. /\ DOMAIN r.behind = Live(c) \ S
        /\ \A k \in Live(c) \ S : r.behind[k] = c.behind[k] \ S
    BY DEF RemoveLocked, Unlink, WellFormed, OrderTotal
  <2> HIDE DEF r
  <2> QED BY <1>1, <2>1 DEF WellFormed, OrderTotal
<1>3. IndexExact(r)
  <2>1. \A t \in DOMAIN c.reverse :
          c.reverse[t] \ LeavesIndex(c, S, t) = {k \in Live(c) \ S : t \in c.entries[k].tables}
    BY DEF WellFormed, IndexExact, LeavesIndex
  <2>2. /\ DOMAIN r.reverse = {u \in DOMAIN c.reverse : c.reverse[u] \ LeavesIndex(c, S, u) # {}}
        /\ \A t \in DOMAIN r.reverse : r.reverse[t] = c.reverse[t] \ LeavesIndex(c, S, t)
    BY DEF RemoveLocked, WellFormed, IndexExact
  <2> HIDE DEF r
  <2> QED BY <1>1, <2>1, <2>2 DEF WellFormed, IndexExact
<1> QED BY <1>1, <1>2, <1>3 DEF WellFormed

LEMMA InsertWellFormed ==
    ASSUME NEW c, WellFormed(c), NEW k, k \notin Live(c), NEW e
    PROVE  /\ WellFormed(Insert(c, k, e))
           /\ Live(Insert(c, k, e)) = Live(c) \cup {k}
           /\ Insert(c, k, e).entries[k] = e
           /\ \A x \in Live(c) : Insert(c, k, e).entries[x] = c.entries[x]
<1> DEFINE r == Insert(c, k, e)
<1>1. /\ Live(r) = Live(c) \cup {k}
      /\ r.entries[k] = e
      /\ \A x \in Live(c) : r.entries[x] = c.entries[x]
  BY DEF Insert, Live
<1>2. OrderTotal(r)
  <2>1. /\ DOMAIN r.behind = Live(c) \cup {k}
        /\ r.behind[k] = Live(c)
        /\ \A x \in Live(c) : r.behind[x] = c.behind[x]
    BY DEF Insert, PushFront, WellFormed, OrderTotal
  <2> HIDE DEF r
  <2> QED BY <1>1, <2>1 DEF WellFormed, OrderTotal
<1>3. IndexExact(r)
  <2>1. /\ DOMAIN r.reverse = DOMAIN c.reverse \cup e.tables
        /\ \A t \in DOMAIN r.reverse :
             r.reverse[t] = (IF t \in DOMAIN c.reverse THEN c.reverse[t] ELSE {})
                              \cup (IF t \in e.tables THEN {k} ELSE {})
    BY DEF Insert
  <2> HIDE DEF r
  <2> QED BY <1>1, <2>1 DEF WellFormed, IndexExact
<1> QED BY <1>1, <1>2, <1>3 DEF WellFormed
LEMMA MoveWellFormed ==
    ASSUME NEW c, WellFormed(c), NEW k \in Live(c)
    PROVE  /\ WellFormed(MoveToFront(c, k))
           /\ MoveToFront(c, k).entries = c.entries
           /\ MoveToFront(c, k).reverse = c.reverse
<1> DEFINE r == MoveToFront(c, k)
<1>1. r.entries = c.entries /\ r.reverse = c.reverse /\ Live(r) = Live(c)
  BY DEF MoveToFront, Live
<1>2. /\ DOMAIN r.behind = Live(c)
      /\ r.behind[k] = Live(c) \ {k}
      /\ \A x \in Live(c) \ {k} : r.behind[x] = c.behind[x] \ {k}
  BY DEF MoveToFront, PushFront, Unlink, WellFormed, OrderTotal
<1> HIDE DEF r
<1>3. IndexExact(r)
  BY <1>1 DEF WellFormed, IndexExact
<1>4. OrderTotal(r)
  BY <1>1, <1>2 DEF WellFormed, OrderTotal
<1> QED BY <1>1, <1>3, <1>4 DEF WellFormed, r

(* Put, eviction included: only the key's own entry is new, and the entry  *)
(* cap holds whatever was evicted.                                         *)
LEMMA PutWellFormed ==
    ASSUME NEW c, WellFormed(c), NEW k, NEW e, NEW r \in PutLocked(c, k, e)
    PROVE  /\ WellFormed(r)
           /\ Live(r) \subseteq Live(c) \cup {k}
           /\ \A x \in Live(r) : r.entries[x] = IF x = k THEN e ELSE c.entries[x]
           /\ Cardinality(Live(r)) <= MaxEntries
<1> DEFINE d == RemoveLocked(c, {k} \cap Live(c))
           i == Insert(d, k, e)
<1>1. /\ WellFormed(d) /\ Live(d) = Live(c) \ {k}
      /\ \A x \in Live(d) : d.entries[x] = c.entries[x]
  <2>1. {k} \cap Live(c) \subseteq Live(c)
    OBVIOUS
  <2> QED BY <2>1, RemoveWellFormed
<1> HIDE DEF d
<1>2. /\ WellFormed(i) /\ Live(i) = Live(c) \cup {k} /\ i.entries[k] = e
      /\ \A x \in Live(d) : i.entries[x] = c.entries[x]
  BY <1>1, InsertWellFormed
<1>3. PICK K \in HeadSegments(i) :
         EvictionStopsAt(i, K) /\ r = RemoveLocked(i, Live(i) \ K)
  BY DEF PutLocked, Evicted, d
<1> HIDE DEF i
<1>4. K \subseteq Live(i)
  BY <1>3 DEF HeadSegments
<1>5. /\ WellFormed(r) /\ Live(r) = K
      /\ \A x \in K : r.entries[x] = i.entries[x]
  <2>1. Live(i) \ K \subseteq Live(i) /\ Live(i) \ (Live(i) \ K) = K
    BY <1>4
  <2>2. /\ WellFormed(RemoveLocked(i, Live(i) \ K))
        /\ Live(RemoveLocked(i, Live(i) \ K)) = Live(i) \ (Live(i) \ K)
        /\ \A x \in Live(i) \ (Live(i) \ K) :
             RemoveLocked(i, Live(i) \ K).entries[x] = i.entries[x]
    BY <2>1, <1>2, RemoveWellFormed
  <2> QED BY <2>1, <2>2, <1>3
<1>6. Cardinality(K) <= MaxEntries
  <2>1. CASE K = {}
    BY <2>1, FS_EmptySet, CapsAssumption
  <2>2. CASE Fits(i, K)
    BY <2>2 DEF Fits
  <2> QED BY <1>3, <2>1, <2>2 DEF EvictionStopsAt
<1> QED BY <1>1, <1>2, <1>4, <1>5, <1>6

(* Invalidation keeps exactly the entries that do not read the table. *)
LEMMA InvalidateWellFormed ==
    ASSUME NEW c, WellFormed(c), NEW t
    PROVE  /\ WellFormed(InvalidateLocked(c, t))
           /\ Live(InvalidateLocked(c, t)) = {k \in Live(c) : t \notin c.entries[k].tables}
           /\ \A k \in Live(InvalidateLocked(c, t)) :
                InvalidateLocked(c, t).entries[k] = c.entries[k]
<1>1. CASE t \notin DOMAIN c.reverse
  BY <1>1 DEF InvalidateLocked, WellFormed, IndexExact
<1>2. CASE t \in DOMAIN c.reverse
  <2> DEFINE S == c.reverse[t] \cap Live(c)
             r == RemoveLocked(c, S)
             q == InvalidateLocked(c, t)
  <2>1. S = {k \in Live(c) : t \in c.entries[k].tables}
    BY <1>2 DEF WellFormed, IndexExact
  <2>2. /\ WellFormed(r) /\ Live(r) = Live(c) \ S
        /\ \A k \in Live(r) : r.entries[k] = c.entries[k]
    BY RemoveWellFormed
  <2>3. /\ q.entries = r.entries /\ q.behind = r.behind
        /\ DOMAIN q.reverse = DOMAIN r.reverse \ {t}
        /\ \A u \in DOMAIN q.reverse : q.reverse[u] = r.reverse[u]
    BY <1>2 DEF InvalidateLocked
  <2> HIDE DEF r, q, S
  <2>4. Live(q) = Live(r)
    BY <2>3 DEF Live
  <2>5. t \notin DOMAIN r.reverse
    BY <2>1, <2>2 DEF WellFormed, IndexExact
  <2>6. IndexExact(q)
    BY <2>2, <2>3, <2>4, <2>5 DEF WellFormed, IndexExact
  <2>7. OrderTotal(q)
    BY <2>2, <2>3, <2>4 DEF WellFormed, OrderTotal
  <2> QED BY <2>1, <2>2, <2>3, <2>4, <2>6, <2>7 DEF WellFormed, q
<1> QED BY <1>1, <1>2
---------------------------------------------------------------------------
(* The byte sums.  BytesOf is a recursion over sets whose value may not    *)
(* depend on the order in which it picks the keys.  Each fact is proved of *)
(* a smallest set for which it would fail (LeastSubset).                   *)

Bytes(c, k) == c.entries[k].bytes

Sized(c, S) == IsFiniteSet(S) /\ \A k \in S : Bytes(c, k) \in Nat

(* A table of the byte sums of all subsets of S. *)
Sums(c, S, g) ==
    /\ g \in [SUBSET S -> Int]
    /\ g[{}] = 0
    /\ \A U \in SUBSET S : \A x \in U : g[U] = Bytes(c, x) + g[U \ {x}]

Pick(U) == CHOOSE x \in U : TRUE

(* The recursion BytesOf unfolds to. *)
Unfolds(c, S, g) ==
    g = [U \in SUBSET S |-> IF U = {} THEN 0 ELSE Bytes(c, Pick(U)) + g[U \ {Pick(U)}]]

LEMMA BytesUnfold ==
    ASSUME NEW c, NEW S
    PROVE  BytesOf(c, S) = (CHOOSE g : Unfolds(c, S, g))[S]
  BY DEF BytesOf, MapThenSumSet, MapThenFoldSet, Unfolds, Bytes, Pick

LEMMA LeastSubset ==
    ASSUME NEW S, IsFiniteSet(S), NEW F \in SUBSET (SUBSET S), F # {}
    PROVE  \E U \in F : \A W \in SUBSET U : W # U => W \notin F
<1>1. FiniteSubsetsOf(S) = SUBSET S
  BY FS_FiniteSubsetsOfFinite
<1>2. IsWellFoundedOn(StrictSubsetOrdering(S), FiniteSubsetsOf(S))
  BY FS_StrictSubsetOrderingWellFounded
<1>3. \E U \in F : \A W \in F : ~ (<<W, U>> \in StrictSubsetOrdering(S))
  BY <1>1, <1>2, WFMin
<1>4. PICK U \in F : \A W \in F : ~ (<<W, U>> \in StrictSubsetOrdering(S))
  BY <1>3
<1>5. \A W \in SUBSET U : W # U => W \notin F
  BY <1>4 DEF StrictSubsetOrdering
<1> QED BY <1>5

LEMMA SumsExist ==
    ASSUME NEW c, NEW S, Sized(c, S)
    PROVE  \E g : Sums(c, S, g)
<1> DEFINE F == {U \in SUBSET S : ~ \E g : Sums(c, U, g)}
<1> SUFFICES F = {}
  OBVIOUS
<1> SUFFICES ASSUME F # {} PROVE FALSE
  OBVIOUS
<1>1. PICK T \in F : \A W \in SUBSET T : W # T => W \notin F
  <2>1. F \in SUBSET (SUBSET S) /\ IsFiniteSet(S)
    BY DEF Sized
  <2> HIDE DEF F
  <2> QED BY <2>1, LeastSubset
<1>2. T # {}
  <2>1. Sums(c, {}, [U \in SUBSET {} |-> 0])
    BY DEF Sums
  <2> QED BY <2>1, <1>1
<1>3. PICK y \in T : TRUE
  BY <1>2
<1>4. PICK h : Sums(c, T \ {y}, h)
  BY <1>1, <1>3
<1> DEFINE g == [U \in SUBSET T |-> IF y \in U THEN Bytes(c, y) + h[U \ {y}] ELSE h[U]]
<1>5. Bytes(c, y) \in Int /\ \A x \in T : Bytes(c, x) \in Int
  BY <1>1, <1>3 DEF Sized
<1>6. \A U \in SUBSET T : U \ {y} \in SUBSET (T \ {y}) /\ h[U \ {y}] \in Int
  BY <1>4 DEF Sums
<1>7. g \in [SUBSET T -> Int]
  <2>1. ASSUME NEW U \in SUBSET T PROVE g[U] \in Int
    <3>1. CASE y \in U
      BY <3>1, <1>5, <1>6
    <3>2. CASE y \notin U
      <4>1. U \ {y} = U
        BY <3>2
      <4> QED BY <4>1, <3>2, <1>6
    <3> QED BY <3>1, <3>2
  <2> QED BY <2>1
<1>8. ASSUME NEW U \in SUBSET T, NEW x \in U
      PROVE  g[U] = Bytes(c, x) + g[U \ {x}]
  <2>1. CASE x = y
    BY <2>1, <1>8
  <2>2. CASE x # y /\ y \in U
    <3>1. h[U \ {y}] = Bytes(c, x) + h[(U \ {y}) \ {x}]
      BY <2>2, <1>4, <1>6 DEF Sums
    <3>2. (U \ {y}) \ {x} = (U \ {x}) \ {y} /\ y \in U \ {x} /\ U \ {x} \in SUBSET T
      BY <2>2
    <3>3. g[U] = Bytes(c, y) + h[U \ {y}] /\ g[U \ {x}] = Bytes(c, y) + h[(U \ {x}) \ {y}]
      BY <2>2, <3>2
    <3>4. h[(U \ {y}) \ {x}] = h[(U \ {x}) \ {y}]
      BY <3>2
    <3>5. /\ Bytes(c, x) \in Int /\ Bytes(c, y) \in Int
          /\ h[(U \ {x}) \ {y}] \in Int
      BY <1>5, <1>6, <3>2
    <3> HIDE DEF g
    <3>6. g[U] = Bytes(c, y) + (Bytes(c, x) + h[(U \ {x}) \ {y}])
      BY <3>1, <3>3, <3>4
    <3> QED BY <3>3, <3>5, <3>6
  <2>3. CASE y \notin U
    <3>1. U \in SUBSET (T \ {y}) /\ y \notin U \ {x} /\ U \ {x} \in SUBSET T
      BY <2>3
    <3>2. h[U] = Bytes(c, x) + h[U \ {x}]
      BY <3>1, <1>4 DEF Sums
    <3> QED BY <3>1, <3>2, <2>3
  <2> QED BY <2>1, <2>2, <2>3
<1>9. g[{}] = 0
  BY <1>4 DEF Sums
<1> HIDE DEF g
<1>10. Sums(c, T, g)
  BY <1>7, <1>8, <1>9 DEF Sums
<1> QED BY <1>10, <1>1

(* BytesOf is the last entry of every such table. *)
LEMMA BytesAreSums ==
    ASSUME NEW c, NEW S, Sized(c, S), NEW g, Sums(c, S, g)
    PROVE  BytesOf(c, S) = g[S]
<1>1. \A U \in SUBSET S : U # {} => Pick(U) \in U
  BY DEF Pick
<1>2. Unfolds(c, S, g)
  <2>1. \A U \in SUBSET S : g[U] = IF U = {} THEN 0 ELSE Bytes(c, Pick(U)) + g[U \ {Pick(U)}]
    BY <1>1 DEF Sums
  <2>2. g = [U \in SUBSET S |-> g[U]]
    BY DEF Sums
  <2> QED BY <2>1, <2>2 DEF Unfolds
<1> DEFINE f == CHOOSE h : Unfolds(c, S, h)
<1>3. Unfolds(c, S, f)
  BY <1>2
<1> HIDE DEF f
<1> DEFINE F == {U \in SUBSET S : f[U] # g[U]}
<1>4. F = {}
  <2> SUFFICES ASSUME F # {} PROVE FALSE
    OBVIOUS
  <2>1. PICK T \in F : \A W \in SUBSET T : W # T => W \notin F
    <3>1. F \in SUBSET (SUBSET S) /\ IsFiniteSet(S)
      BY DEF Sized
    <3> HIDE DEF F
    <3> QED BY <3>1, LeastSubset
  <2>2. /\ f[T] = IF T = {} THEN 0 ELSE Bytes(c, Pick(T)) + f[T \ {Pick(T)}]
        /\ g[T] = IF T = {} THEN 0 ELSE Bytes(c, Pick(T)) + g[T \ {Pick(T)}]
    BY <2>1, <1>2, <1>3 DEF Unfolds
  <2>3. T # {} => f[T \ {Pick(T)}] = g[T \ {Pick(T)}]
    BY <2>1, <1>1
  <2> QED BY <2>1, <2>2, <2>3
<1>5. f[S] = g[S]
  BY <1>4
<1> QED BY <1>5, BytesUnfold DEF f

LEMMA BytesEmpty == ASSUME NEW c PROVE BytesOf(c, {}) = 0
<1>1. Sums(c, {}, [U \in SUBSET {} |-> 0])
  BY DEF Sums
<1> QED BY <1>1, BytesAreSums, FS_EmptySet DEF Sized

(* Entries that agree on S weigh the same there. *)
LEMMA BytesSame ==
    ASSUME NEW c, NEW d, NEW S, Sized(c, S), \A k \in S : d.entries[k] = c.entries[k]
    PROVE  Sized(d, S) /\ BytesOf(d, S) = BytesOf(c, S)
<1>1. \A k \in S : Bytes(d, k) = Bytes(c, k)
  BY DEF Bytes
<1>2. PICK g : Sums(c, S, g)
  BY SumsExist
<1>3. Sums(d, S, g) /\ Sized(d, S)
  BY <1>1, <1>2 DEF Sums, Sized
<1> QED BY <1>2, <1>3, BytesAreSums

LEMMA BytesSplit ==
    ASSUME NEW c, NEW S, Sized(c, S), NEW T \in SUBSET S
    PROVE  /\ BytesOf(c, S) = BytesOf(c, T) + BytesOf(c, S \ T)
           /\ BytesOf(c, S) \in Nat /\ BytesOf(c, T) \in Nat /\ BytesOf(c, S \ T) \in Nat
<1>1. PICK g : Sums(c, S, g)
  BY SumsExist
<1>2. ASSUME NEW U \in SUBSET S PROVE BytesOf(c, U) = g[U]
  <2> DEFINE h == [W \in SUBSET U |-> g[W]]
  <2>1. Sized(c, U)
    BY FS_Subset DEF Sized
  <2>2. \A W \in SUBSET U : W \in SUBSET S /\ h[W] = g[W] /\ \A x \in W : W \ {x} \in SUBSET U
    OBVIOUS
  <2>3. h \in [SUBSET U -> Int]
    BY <1>1 DEF Sums
  <2> HIDE DEF h
  <2>4. Sums(c, U, h)
    BY <2>2, <2>3, <1>1 DEF Sums
  <2> QED BY <2>1, <2>2, <2>4, BytesAreSums
<1>3. \A U \in SUBSET S : g[U] \in Nat
  <2> DEFINE F == {U \in SUBSET S : g[U] \notin Nat}
  <2> SUFFICES ASSUME F # {} PROVE FALSE
    OBVIOUS
  <2>1. PICK U \in F : \A W \in SUBSET U : W # U => W \notin F
    <3>1. F \in SUBSET (SUBSET S) /\ IsFiniteSet(S)
      BY DEF Sized
    <3> HIDE DEF F
    <3> QED BY <3>1, LeastSubset
  <2>2. U # {}
    <3>1. g[{}] \in Nat
      BY <1>1 DEF Sums
    <3> QED BY <3>1, <2>1
  <2>3. PICK x \in U : TRUE
    BY <2>2
  <2>4. g[U] = Bytes(c, x) + g[U \ {x}] /\ Bytes(c, x) \in Nat
    BY <2>1, <2>3, <1>1 DEF Sums, Sized
  <2>5. g[U \ {x}] \in Nat
    BY <2>1, <2>3
  <2> QED BY <2>1, <2>4, <2>5
<1>4. \A U \in SUBSET S : g[S] = g[U] + g[S \ U]
  <2> DEFINE F == {U \in SUBSET S : g[S] # g[U] + g[S \ U]}
  <2> SUFFICES ASSUME F # {} PROVE FALSE
    OBVIOUS
  <2>1. PICK U \in F : \A W \in SUBSET U : W # U => W \notin F
    <3>1. F \in SUBSET (SUBSET S) /\ IsFiniteSet(S)
      BY DEF Sized
    <3> HIDE DEF F
    <3> QED BY <3>1, LeastSubset
  <2>2. U # {}
    <3>1. S \ {} = S /\ S \in SUBSET S /\ g[{}] = 0 /\ g[S] \in Nat
      BY <1>1, <1>3 DEF Sums
    <3>2. g[S] = g[{}] + g[S \ {}]
      <4>1. g[S \ {}] = g[S]
        BY <3>1
      <4> HIDE DEF F
      <4> QED BY <3>1, <4>1
    <3> QED BY <3>2, <2>1
  <2>3. PICK x \in U : TRUE
    BY <2>2
  <2> DEFINE W == U \ {x}
  <2>4. W \in SUBSET S /\ S \ W \in SUBSET S /\ x \in S \ W /\ (S \ W) \ {x} = S \ U /\ U \in SUBSET S
    BY <2>1, <2>3
  <2>5. g[S] = g[W] + g[S \ W]
    BY <2>1, <2>3
  <2>6. g[U] = Bytes(c, x) + g[W]
    BY <2>3, <2>4, <1>1 DEF Sums
  <2>7. g[S \ W] = Bytes(c, x) + g[(S \ W) \ {x}]
    BY <2>4, <1>1 DEF Sums
  <2>8. Bytes(c, x) \in Nat /\ g[W] \in Nat /\ g[S \ U] \in Nat
    BY <2>4, <1>3 DEF Sized
  <2>9. g[S] # g[U] + g[S \ U]
    BY <2>1
  <2>10. g[(S \ W) \ {x}] = g[S \ U]
    BY <2>4
  <2> HIDE DEF W, F
  <2> DEFINE a == g[S]
             b == g[W]
             d == g[S \ W]
             m == g[U]
             n == g[S \ U]
             z == Bytes(c, x)
  <2>11. a = b + d /\ m = z + b /\ d = z + n /\ a # m + n
         /\ z \in Nat /\ b \in Nat /\ n \in Nat
    BY <2>5, <2>6, <2>7, <2>8, <2>9, <2>10
  <2> HIDE DEF a, b, d, m, n, z
  <2> QED BY <2>11
<1>5. S \in SUBSET S /\ S \ T \in SUBSET S
  OBVIOUS
<1> QED BY <1>2, <1>3, <1>4, <1>5

LEMMA BytesOne == ASSUME NEW c, NEW k, Sized(c, {k}) PROVE BytesOf(c, {k}) = Bytes(c, k)
<1>1. PICK g : Sums(c, {k}, g)
  BY SumsExist
<1>2. g[{k}] = Bytes(c, k) + g[{k} \ {k}] /\ g[{}] = 0
  BY <1>1 DEF Sums
<1>3. {k} \ {k} = {} /\ Bytes(c, k) \in Nat
  BY DEF Sized
<1>4. BytesOf(c, {k}) = g[{k}]
  BY <1>1, BytesAreSums
<1> QED BY <1>2, <1>3, <1>4
---------------------------------------------------------------------------
(* What every helper does to the byte count. *)

Accounted(c) == Sized(c, Live(c)) /\ BytesExact(c)

LEMMA EmptyAccounted == Accounted(Empty) /\ WithinCaps(Empty)
<1>1. Live(Empty) = {} /\ Empty.curBytes = 0
  BY DEF Empty, EmptyFcn, Live
<1>2. Cardinality({}) <= MaxEntries /\ 0 <= MaxBytes
  BY FS_EmptySet, CapsAssumption
<1> QED BY <1>1, <1>2, BytesEmpty, FS_EmptySet DEF Accounted, Sized, BytesExact, WithinCaps

(* Fewer entries of the same cache, never more bytes. *)
LEMMA RemoveAccounted ==
    ASSUME NEW c, Accounted(c), NEW S \in SUBSET Live(c)
    PROVE  /\ Accounted(RemoveLocked(c, S))
           /\ RemoveLocked(c, S).curBytes = c.curBytes - BytesOf(c, S)
           /\ WithinCaps(c) => WithinCaps(RemoveLocked(c, S))
<1> DEFINE r == RemoveLocked(c, S)
<1>1. /\ Live(r) = Live(c) \ S
      /\ \A k \in Live(c) \ S : r.entries[k] = c.entries[k]
      /\ r.curBytes = c.curBytes - BytesOf(c, S)
  BY DEF RemoveLocked, Live
<1> HIDE DEF r
<1>2. /\ IsFiniteSet(Live(c) \ S)
      /\ Cardinality(Live(c) \ S) <= Cardinality(Live(c))
      /\ Cardinality(Live(c)) \in Nat /\ Cardinality(Live(c) \ S) \in Nat
  <2>1. Live(c) \ S \in SUBSET Live(c) /\ IsFiniteSet(Live(c))
    BY DEF Accounted, Sized
  <2>2. /\ IsFiniteSet(Live(c) \ S)
        /\ Cardinality(Live(c) \ S) <= Cardinality(Live(c))
    BY <2>1, FS_Subset
  <2> QED BY <2>1, <2>2, FS_CardinalityType
<1>3. Sized(c, Live(c) \ S)
  BY <1>2 DEF Accounted, Sized
<1>4. Sized(r, Live(c) \ S) /\ BytesOf(r, Live(c) \ S) = BytesOf(c, Live(c) \ S)
  BY <1>1, <1>3, BytesSame
<1>5. /\ BytesOf(c, Live(c)) = BytesOf(c, S) + BytesOf(c, Live(c) \ S)
      /\ BytesOf(c, S) \in Nat /\ BytesOf(c, Live(c) \ S) \in Nat
  BY BytesSplit DEF Accounted
<1>6. c.curBytes = BytesOf(c, Live(c))
  BY DEF Accounted, BytesExact
<1>7. r.curBytes = BytesOf(c, Live(c) \ S) /\ r.curBytes <= c.curBytes /\ c.curBytes \in Nat
  BY <1>1, <1>5, <1>6
<1>8. Accounted(r)
  BY <1>1, <1>4, <1>7 DEF Accounted, BytesExact
<1>9. WithinCaps(c) => WithinCaps(r)
  BY <1>1, <1>2, <1>5, <1>7, CapsAssumption DEF WithinCaps
<1> QED BY <1>1, <1>8, <1>9 DEF r

LEMMA InsertAccounted ==
    ASSUME NEW c, Accounted(c), NEW k, k \notin Live(c), NEW e, e.bytes \in Nat
    PROVE  Accounted(Insert(c, k, e))
<1> DEFINE r == Insert(c, k, e)
<1>1. /\ Live(r) = Live(c) \cup {k}
      /\ Bytes(r, k) = e.bytes
      /\ \A x \in Live(c) : r.entries[x] = c.entries[x]
      /\ r.curBytes = c.curBytes + e.bytes
  BY DEF Insert, Live, Bytes
<1> HIDE DEF r
<1>2. Sized(r, Live(c)) /\ BytesOf(r, Live(c)) = BytesOf(c, Live(c))
  BY <1>1, BytesSame DEF Accounted
<1>3. Sized(r, {k})
  BY <1>1, FS_Singleton DEF Sized
<1>4. Sized(r, Live(r))
  <2>1. IsFiniteSet(Live(c) \cup {k})
    BY FS_AddElement DEF Accounted, Sized
  <2> QED BY <1>1, <1>2, <1>3, <2>1 DEF Sized
<1>5. BytesOf(r, Live(r)) = BytesOf(r, {k}) + BytesOf(r, Live(c))
  <2>1. {k} \in SUBSET Live(r) /\ Live(r) \ {k} = Live(c)
    BY <1>1
  <2>2. BytesOf(r, Live(r)) = BytesOf(r, {k}) + BytesOf(r, Live(r) \ {k})
    BY <1>4, <2>1, BytesSplit
  <2> QED BY <2>1, <2>2
<1>6. BytesOf(r, {k}) = e.bytes
  BY <1>1, <1>3, BytesOne
<1>7. BytesOf(c, Live(c)) \in Nat /\ c.curBytes = BytesOf(c, Live(c))
  BY BytesSplit DEF Accounted, BytesExact
<1>8. r.curBytes = BytesOf(r, Live(r))
  BY <1>1, <1>2, <1>5, <1>6, <1>7
<1> QED BY <1>4, <1>8 DEF Accounted, BytesExact, r

LEMMA MoveAccounted ==
    ASSUME NEW c, Accounted(c), NEW k
    PROVE  /\ Accounted(MoveToFront(c, k))
           /\ WithinCaps(c) => WithinCaps(MoveToFront(c, k))
<1> DEFINE r == MoveToFront(c, k)
<1>1. r.entries = c.entries /\ Live(r) = Live(c) /\ r.curBytes = c.curBytes
  BY DEF MoveToFront, Live
<1> HIDE DEF r
<1>2. Sized(r, Live(c)) /\ BytesOf(r, Live(c)) = BytesOf(c, Live(c))
  BY <1>1, BytesSame DEF Accounted
<1> QED BY <1>1, <1>2 DEF Accounted, BytesExact, WithinCaps, r

(* Put leaves both caps respected, whatever the sizes: what the eviction   *)
(* keeps fits, or is nothing at all, and nothing weighs nothing.           *)
LEMMA PutAccounted ==
    ASSUME NEW c, Accounted(c), NEW k, NEW e, e.bytes \in Nat, NEW r \in PutLocked(c, k, e)
    PROVE  Accounted(r) /\ WithinCaps(r)
<1> DEFINE d == RemoveLocked(c, {k} \cap Live(c))
           i == Insert(d, k, e)
<1>1. Accounted(d) /\ k \notin Live(d)
  <2>1. {k} \cap Live(c) \in SUBSET Live(c)
    OBVIOUS
  <2>2. k \notin Live(d)
    BY DEF RemoveLocked, Live
  <2> QED BY <2>1, <2>2, RemoveAccounted
<1> HIDE DEF d
<1>2. Accounted(i)
  BY <1>1, InsertAccounted
<1>3. PICK K \in HeadSegments(i) :
         EvictionStopsAt(i, K) /\ r = RemoveLocked(i, Live(i) \ K)
  BY DEF PutLocked, Evicted, d
<1> HIDE DEF i
<1>4. Live(i) \ K \in SUBSET Live(i) /\ Live(i) \ (Live(i) \ K) = K
  BY <1>3 DEF HeadSegments
<1>5. Accounted(r) /\ r.curBytes = i.curBytes - BytesOf(i, Live(i) \ K)
  BY <1>2, <1>3, <1>4, RemoveAccounted
<1>6. Live(r) = K
  BY <1>3, <1>4 DEF RemoveLocked, Live
<1>7. CASE K = {}
  <2>1. r.curBytes = 0
    BY <1>5, <1>6, <1>7, BytesEmpty DEF Accounted, BytesExact
  <2>2. Cardinality(Live(r)) = 0
    BY <1>6, <1>7, FS_EmptySet
  <2> QED BY <1>5, <2>1, <2>2, CapsAssumption DEF WithinCaps
<1>8. CASE Fits(i, K)
  BY <1>5, <1>6, <1>8 DEF Fits, WithinCaps
<1> QED BY <1>3, <1>5, <1>7, <1>8 DEF EvictionStopsAt

LEMMA InvalidateAccounted ==
    ASSUME NEW c, Accounted(c), WithinCaps(c), NEW t
    PROVE  Accounted(InvalidateLocked(c, t)) /\ WithinCaps(InvalidateLocked(c, t))
<1>1. CASE t \notin DOMAIN c.reverse
  BY <1>1 DEF InvalidateLocked
<1>2. CASE t \in DOMAIN c.reverse
  <2> DEFINE S == c.reverse[t] \cap Live(c)
             r == RemoveLocked(c, S)
             q == InvalidateLocked(c, t)
  <2>1. Accounted(r) /\ WithinCaps(r)
    BY RemoveAccounted
  <2>2. q.entries = r.entries /\ q.curBytes = r.curBytes /\ Live(q) = Live(r)
    BY <1>2 DEF InvalidateLocked, Live
  <2> HIDE DEF r, q, S
  <2>3. Sized(q, Live(r)) /\ BytesOf(q, Live(r)) = BytesOf(r, Live(r))
    BY <2>1, <2>2, BytesSame DEF Accounted
  <2> QED BY <2>1, <2>2, <2>3 DEF Accounted, BytesExact, WithinCaps, q
<1> QED BY <1>1, <1>2

---------------------------------------------------------------------------
(* The linked list.  The invariant is inductive as it stands.              *)
ListInv == ListTypeOK /\ PointersMatch

LEMMA ListInitInv == EmptyList => ListInv
  BY NilAssumption DEF
        EmptyList, EmptyOrder, ListInv, ListTypeOK, PointersMatch, StrictTotal, EndsMatch,
        LinksMatch, Adjacent, live

LEMMA ListPushInv ==
    ASSUME ListInv, NEW e \in Node, PushFrontLocked(e)
    PROVE  ListInv'
<1>1. live' = live \cup {e} /\ e \notin live /\ live \subseteq Node
  BY DEF PushFrontLocked, PushFront, ListInv, ListTypeOK, live
<1>2. \A a \in live' : behind'[a] = IF a = e THEN live ELSE behind[a]
  BY DEF PushFrontLocked, PushFront, ListInv, ListTypeOK, live
<1>3. \A a \in live : behind[a] \subseteq live
  BY DEF ListInv, ListTypeOK
<1>4. ListTypeOK'
  BY <1>1, <1>2, <1>3 DEF PushFrontLocked, PushFront, ListInv, ListTypeOK, live
<1>5. StrictTotal'
  BY <1>1, <1>2, <1>3 DEF ListInv, PointersMatch, StrictTotal
<1>6. EndsMatch'
  BY <1>1, <1>2, <1>3, NilAssumption DEF ListInv, PointersMatch, EndsMatch, PushFrontLocked
<1>7. LinksMatch'
  BY <1>1, <1>2, <1>3, <1>4, <1>5, <1>6, NilAssumption DEF
        ListInv, ListTypeOK, PointersMatch, StrictTotal, EndsMatch, LinksMatch,
        PushFrontLocked, Adjacent
<1> QED BY <1>4, <1>5, <1>6, <1>7 DEF ListInv, PointersMatch

(* What the pointers of a live node say about the order around it. *)
LEMMA Neighbours ==
    ASSUME ListInv, NEW e \in live
    PROVE  /\ next[e] = Nil => \A c \in live \ {e} : e \in behind[c] /\ c \notin behind[e]
           /\ prev[e] = Nil => \A c \in live \ {e} : c \in behind[e] /\ e \notin behind[c]
           /\ next[e] # Nil =>
                /\ next[e] \in live \ {e} /\ next[e] \in behind[e] /\ e \notin behind[next[e]]
                /\ \A c \in live \ {e, next[e]} :
                     /\ c \in behind[e] <=> c \in behind[next[e]]
                     /\ e \in behind[c] <=> next[e] \in behind[c]
           /\ prev[e] # Nil =>
                /\ prev[e] \in live \ {e} /\ e \in behind[prev[e]] /\ prev[e] \notin behind[e]
                /\ \A c \in live \ {e, prev[e]} :
                     /\ c \in behind[e] <=> c \in behind[prev[e]]
                     /\ e \in behind[c] <=> prev[e] \in behind[c]
<1>1. next[e] = Nil => \A c \in live \ {e} : e \in behind[c] /\ c \notin behind[e]
  BY DEF ListInv, ListTypeOK, PointersMatch, StrictTotal, EndsMatch, LinksMatch
<1>2. prev[e] = Nil => \A c \in live \ {e} : c \in behind[e] /\ e \notin behind[c]
  BY DEF ListInv, ListTypeOK, PointersMatch, StrictTotal, EndsMatch, LinksMatch
<1>3. ASSUME next[e] # Nil
      PROVE  /\ next[e] \in live \ {e} /\ next[e] \in behind[e] /\ e \notin behind[next[e]]
             /\ \A c \in live \ {e, next[e]} :
                  /\ c \in behind[e] <=> c \in behind[next[e]]
                  /\ e \in behind[c] <=> next[e] \in behind[c]
  <2>1. next[e] \in live /\ Adjacent(e, next[e])
    BY <1>3 DEF ListInv, PointersMatch, LinksMatch
  <2> QED BY <2>1 DEF ListInv, PointersMatch, StrictTotal, Adjacent
<1>4. ASSUME prev[e] # Nil
      PROVE  /\ prev[e] \in live \ {e} /\ e \in behind[prev[e]] /\ prev[e] \notin behind[e]
             /\ \A c \in live \ {e, prev[e]} :
                  /\ c \in behind[e] <=> c \in behind[prev[e]]
                  /\ e \in behind[c] <=> prev[e] \in behind[c]
  <2>1. prev[e] \in live /\ Adjacent(prev[e], e)
    BY <1>4 DEF ListInv, PointersMatch, LinksMatch
  <2> QED BY <2>1 DEF ListInv, PointersMatch, StrictTotal, Adjacent
<1> QED BY <1>1, <1>2, <1>3, <1>4

LEMMA ListMoveInv ==
    ASSUME ListInv, NEW e \in Node, MoveToFrontLocked(e)
    PROVE  ListInv'
<1>1. live' = live /\ e \in live /\ live \subseteq Node
  BY DEF MoveToFrontLocked, PushFront, Unlink, ListInv, ListTypeOK, live
<1>2. \A a, b \in live :
        b \in behind'[a] <=> b # e /\ (a = e \/ b \in behind[a])
  BY DEF MoveToFrontLocked, PushFront, Unlink, ListInv, ListTypeOK, live
<1>3. ListTypeOK'
  BY <1>1, NilAssumption DEF MoveToFrontLocked, PushFront, Unlink, ListInv, ListTypeOK, live
<1>4. StrictTotal'
  BY <1>1, <1>2 DEF ListInv, PointersMatch, StrictTotal
<1>5. CASE e = head
  <2>1. \A a, b \in live : b \in behind'[a] <=> b \in behind[a]
    BY <1>1, <1>2, <1>5 DEF ListInv, PointersMatch, StrictTotal, EndsMatch
  <2>2. UNCHANGED <<head, tail, prev, next>>
    BY <1>5 DEF MoveToFrontLocked
  <2>3. EndsMatch'
    BY <2>1, <2>2, <1>1 DEF ListInv, PointersMatch, EndsMatch
  <2>4. LinksMatch'
    BY <2>1, <2>2, <1>1 DEF ListInv, PointersMatch, LinksMatch, Adjacent
  <2> QED BY <2>3, <2>4, <1>3, <1>4 DEF ListInv, PointersMatch
<1>6. CASE e # head
  <2>n. /\ head' = e
        /\ tail' = IF e = tail THEN prev[e] ELSE tail
        /\ \A a \in live : next'[a] = IF a = e THEN head
                                       ELSE IF a = prev[e] THEN next[e] ELSE next[a]
        /\ \A a \in live : prev'[a] = IF a = e THEN Nil
                                       ELSE IF a = head THEN e
                                       ELSE IF a = next[e] THEN prev[e] ELSE prev[a]
    BY <1>6, <1>1 DEF MoveToFrontLocked
  <2>p. /\ prev[e] \in live \ {e} /\ head \in live \ {e} /\ prev[head] = Nil
        /\ \A a \in live \ {head} : a \in behind[head]
    BY <1>6, <1>1, Neighbours DEF ListInv, PointersMatch, EndsMatch, LinksMatch
  <2>1. EndsMatch'
    <3>1. tail' \in live /\ \A b \in live \ {tail'} : tail' \in behind'[b]
      <4>1. CASE e = tail
        <5>1. next[e] = Nil
          BY <4>1, <1>1 DEF ListInv, PointersMatch, LinksMatch
        <5> QED BY <5>1, <4>1, <1>1, <1>2, <2>n, <2>p, Neighbours
      <4>2. CASE e # tail
        BY <4>2, <1>1, <1>2, <2>n DEF ListInv, PointersMatch, EndsMatch
      <4> QED BY <4>1, <4>2
    <3>2. head' \in live /\ \A b \in live \ {head'} : b \in behind'[head']
      BY <1>1, <1>2, <2>n
    <3> QED BY <3>1, <3>2, <1>1, <1>4 DEF EndsMatch, StrictTotal
  <2>2. LinksMatch'
    <3>1. \A a \in live \ {e} : a # prev[e] => next[a] # e
      BY <1>1, NilAssumption DEF ListInv, PointersMatch, LinksMatch
    <3>2. \A a \in live \ {e} : a # next[e] => prev[a] # e
      BY <1>1, NilAssumption DEF ListInv, PointersMatch, LinksMatch
    <3>3. \A a \in live : next'[a] \in live \cup {Nil} /\ prev'[a] \in live \cup {Nil}
      BY <3>1, <3>2, <1>1, <2>n, <2>p, Neighbours DEF ListInv, PointersMatch, LinksMatch
    <3>4. \A a, b \in live : Adjacent(a, b)' <=>
             \/ a = e /\ b = head
             \/ a # e /\ b # e /\ (Adjacent(a, b) \/ (a = prev[e] /\ b = next[e]))
      <4>1. \A b \in live : Adjacent(e, b)' <=> b = head
        BY <1>1, <1>2, <2>p DEF ListInv, PointersMatch, StrictTotal, Adjacent
      <4>2. \A a \in live : ~Adjacent(a, e)'
        BY <1>1, <1>2 DEF Adjacent
      <4>3. \A a, b \in live \ {e} : Adjacent(a, b)' <=>
               Adjacent(a, b) \/ (a = prev[e] /\ b = next[e])
        BY <1>1, <1>2, Neighbours DEF ListInv, PointersMatch, StrictTotal, Adjacent
      <4> QED BY <4>1, <4>2, <4>3, <1>1, <2>p
    <3>5. \A a, b \in live : next'[a] = b <=> Adjacent(a, b)'
      BY <3>1, <3>4, <1>1, <2>n, <2>p, NilAssumption DEF ListInv, PointersMatch, LinksMatch
    <3>6. \A a, b \in live : prev'[b] = a <=> Adjacent(a, b)'
      BY <3>2, <3>4, <1>1, <2>n, <2>p, NilAssumption DEF ListInv, PointersMatch, LinksMatch
    <3>7. \A a \in live : next'[a] = Nil <=> a = tail'
      BY <3>3, <3>5, <1>1, <2>1, <2>n, <2>p, NilAssumption DEF
            ListInv, PointersMatch, LinksMatch
    <3>8. \A a \in live : prev'[a] = Nil <=> a = head'
      BY <3>3, <3>6, <1>1, <2>1, <2>n, <2>p, NilAssumption DEF
            ListInv, PointersMatch, LinksMatch
    <3> QED BY <3>3, <3>5, <3>6, <3>7, <3>8, <1>1 DEF LinksMatch
  <2> QED BY <2>1, <2>2, <1>3, <1>4 DEF ListInv, PointersMatch
<1> QED BY <1>5, <1>6

LEMMA ListRemoveInv ==
    ASSUME ListInv, NEW e \in Node, RemoveLockedNode(e)
    PROVE  ListInv'
<1>1. live' = live \ {e} /\ e \in live /\ live \subseteq Node
  BY DEF RemoveLockedNode, Unlink, ListInv, ListTypeOK, live
<1>2. \A a, b \in live' : b \in behind'[a] <=> b \in behind[a]
  BY DEF RemoveLockedNode, Unlink, ListInv, ListTypeOK, live
<1>3. ListTypeOK'
  BY <1>1, NilAssumption DEF RemoveLockedNode, Unlink, ListInv, ListTypeOK, live
<1>4. StrictTotal'
  BY <1>1, <1>2 DEF ListInv, PointersMatch, StrictTotal
<1>n. /\ head' = IF prev[e] = Nil THEN next[e] ELSE head
      /\ tail' = IF next[e] = Nil THEN prev[e] ELSE tail
      /\ \A a \in live' : next'[a] = IF a = prev[e] THEN next[e] ELSE next[a]
      /\ \A a \in live' : prev'[a] = IF a = next[e] THEN prev[e] ELSE prev[a]
  BY <1>1 DEF RemoveLockedNode
<1>5. EndsMatch'
  <2>1. CASE live' = {}
    <3>1. next[e] = Nil /\ prev[e] = Nil
      BY <2>1, <1>1, Neighbours
    <3> QED BY <3>1, <2>1, <1>n DEF EndsMatch
  <2>2. CASE live' # {}
    <3>1. head' \in live' /\ \A b \in live' \ {head'} : b \in behind[head']
      <4>1. CASE prev[e] = Nil
        BY <4>1, <2>2, <1>1, <1>n, Neighbours
      <4>2. CASE prev[e] # Nil
        BY <4>2, <1>1, <1>n DEF ListInv, PointersMatch, EndsMatch, LinksMatch
      <4> QED BY <4>1, <4>2
    <3>2. tail' \in live' /\ \A b \in live' \ {tail'} : tail' \in behind[b]
      <4>1. CASE next[e] = Nil
        BY <4>1, <2>2, <1>1, <1>n, Neighbours
      <4>2. CASE next[e] # Nil
        BY <4>2, <1>1, <1>n DEF ListInv, PointersMatch, EndsMatch, LinksMatch
      <4> QED BY <4>1, <4>2
    <3> QED BY <2>2, <3>1, <3>2, <1>2, <1>4 DEF EndsMatch, StrictTotal
  <2> QED BY <2>1, <2>2
<1>6. LinksMatch'
  <2>1. \A a \in live' : next'[a] \in live' \cup {Nil} /\ prev'[a] \in live' \cup {Nil}
    <3>1. \A a \in live' : a # prev[e] => next[a] # e
      BY <1>1, NilAssumption DEF ListInv, PointersMatch, LinksMatch
    <3>2. \A a \in live' : a # next[e] => prev[a] # e
      BY <1>1, NilAssumption DEF ListInv, PointersMatch, LinksMatch
    <3> QED BY <3>1, <3>2, <1>1, <1>n, Neighbours DEF ListInv, PointersMatch, LinksMatch
  <2>2. \A a, b \in live' : (Adjacent(a, b))' <=>
                              Adjacent(a, b) \/ (a = prev[e] /\ b = next[e])
    BY <1>1, <1>2, Neighbours DEF ListInv, PointersMatch, StrictTotal, Adjacent
  <2>3. \A a, b \in live' : next'[a] = b <=> Adjacent(a, b)'
    BY <2>2, <1>1, <1>n DEF ListInv, PointersMatch, LinksMatch
  <2>4. \A a, b \in live' : prev'[b] = a <=> Adjacent(a, b)'
    BY <2>2, <1>1, <1>n DEF ListInv, PointersMatch, LinksMatch
  <2>5. \A a \in live' : next'[a] = Nil <=> a = tail'
    BY <2>1, <2>3, <1>1, <1>n, <1>5, NilAssumption DEF ListInv, PointersMatch, LinksMatch
  <2>6. \A a \in live' : prev'[a] = Nil <=> a = head'
    BY <2>1, <2>3, <1>1, <1>n, <1>5, NilAssumption DEF ListInv, PointersMatch, LinksMatch
  <2> QED BY <2>1, <2>3, <2>4, <2>5, <2>6 DEF LinksMatch
<1> QED BY <1>3, <1>4, <1>5, <1>6 DEF ListInv, PointersMatch

LEMMA ListFlushInv == ListInv /\ Flush => ListInv'
  BY NilAssumption DEF
        Flush, EmptyOrder, ListInv, ListTypeOK, PointersMatch, StrictTotal, EndsMatch,
        LinksMatch, Adjacent, live

(***************************************************************************)
(* For every set of nodes and every sequence of list operations the        *)
(* intrusive pointers of cache.go:296-350 spell out the recency order.     *)
(***************************************************************************)
THEOREM ListIsRecencyOrder == ListSpec => [](ListTypeOK /\ PointersMatch)
<1>1. ListInv /\ [ListNext]_listVars => ListInv'
  <2> SUFFICES ASSUME ListInv, [ListNext]_listVars PROVE ListInv'
    OBVIOUS
  <2>1. ASSUME NEW e \in Node, PushFrontLocked(e) PROVE ListInv'
    BY <2>1, ListPushInv
  <2>2. ASSUME NEW e \in Node, MoveToFrontLocked(e) PROVE ListInv'
    BY <2>2, ListMoveInv
  <2>3. ASSUME NEW e \in Node, RemoveLockedNode(e) PROVE ListInv'
    BY <2>3, ListRemoveInv
  <2>4. CASE EvictTail
    <3>1. tail \in Node
      BY <2>4 DEF EvictTail, ListInv, ListTypeOK
    <3> QED BY <3>1, <2>4, ListRemoveInv DEF EvictTail
  <2>5. CASE Flush
    BY <2>5, ListFlushInv
  <2>6. CASE UNCHANGED listVars
    BY <2>6 DEF
          listVars, ListInv, ListTypeOK, PointersMatch, StrictTotal, EndsMatch, LinksMatch,
          Adjacent, live
  <2> QED BY <2>1, <2>2, <2>3, <2>4, <2>5, <2>6 DEF ListNext
<1> QED BY ListInitInv, <1>1, PTL DEF ListSpec, ListInv

(***************************************************************************)
(* For every set of nodes, the victim of the eviction loop (cache.go:196-  *)
(* 202) is the entry used least recently.                                  *)
(***************************************************************************)
THEOREM EvictionIsLru == ListSpec => EvictsOldest
<1>1. ListInv /\ [ListNext]_listVars =>
        [EvictTail => \E e \in live : live' = live \ {e}
                                     /\ \A a \in live \ {e} : e \in behind[a]]_listVars
  <2> SUFFICES ASSUME ListInv, EvictTail
               PROVE  /\ tail \in live /\ live' = live \ {tail}
                      /\ \A a \in live \ {tail} : tail \in behind[a]
    OBVIOUS
  <2>1. tail \in live
    BY DEF EvictTail, ListInv, PointersMatch, EndsMatch
  <2>2. live' = live \ {tail}
    BY DEF EvictTail, RemoveLockedNode, Unlink, live
  <2>3. \A a \in live \ {tail} : tail \in behind[a]
    BY <2>1 DEF ListInv, PointersMatch, EndsMatch
  <2> QED BY <2>1, <2>2, <2>3
<1>2. ListSpec => []ListInv
  BY ListIsRecencyOrder DEF ListInv
<1> QED BY <1>1, <1>2, PTL DEF ListSpec, EvictsOldest
=============================================================================
