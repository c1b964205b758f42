------------------------- MODULE OutputCacheProofs -------------------------
(***************************************************************************)
(* Proofs about rendered pages: how outputCache keeps them (OutputCache)   *)
(* and whose bindings they show (HoleRender).  The inductive invariant of  *)
(* the cache adds to the index and the list that a page carries its        *)
(* route's table list: without it an exact index would not make the        *)
(* invalidation of a table complete.  That of the rendering says whose     *)
(* bindings a row map may hold, and who else has it.                       *)
(***************************************************************************)
EXTENDS OutputCache, HoleRender, TaggedLruProofs

IInv ==
    /\ TypeOK
    /\ WellFormed(cache)
    /\ Accounted(cache)
    /\ CapsRespected
    /\ EntriesFiledByRoute

LEMMA EmptyIInv == ASSUME cache = Empty PROVE IInv
<1>1. WellFormed(cache) /\ Live(cache) = {}
  BY EmptyWellFormed
<1>2. Accounted(cache) /\ CapsRespected
  BY EmptyAccounted DEF CapsRespected
<1>3. TypeOK
  BY <1>1 DEF TypeOK, Empty, EmptyFcn, EmptyOrder
<1> QED BY <1>1, <1>2, <1>3 DEF IInv, EntriesFiledByRoute

(* The entries' types carry over to the index and the list. *)
LEMMA CacheTypes ==
    ASSUME NEW c, WellFormed(c), Live(c) \subseteq Key,
           \A k \in Live(c) : c.entries[k] \in Entry
    PROVE  /\ DOMAIN c.reverse \subseteq Table
           /\ \A t \in DOMAIN c.reverse : c.reverse[t] \subseteq Key
           /\ \A k \in DOMAIN c.behind : c.behind[k] \subseteq Key
<1>1. \A t \in DOMAIN c.reverse : \E k \in Live(c) : t \in c.entries[k].tables
  BY DEF WellFormed, IndexExact
<1>2. \A k \in Live(c) : c.entries[k].tables \subseteq Table
  BY DEF Entry
<1> QED BY <1>1, <1>2 DEF WellFormed, IndexExact, OrderTotal

LEMMA GetIInv == ASSUME IInv, NEW key \in Key, Get(key) PROVE IInv'
<1>1. CASE UNCHANGED cache
  BY <1>1 DEF IInv, TypeOK, CapsRespected, EntriesFiledByRoute
<1>2. CASE key \in Live(cache) /\ cache' = MoveToFront(cache, key)
  <2>1. WellFormed(cache') /\ cache'.entries = cache.entries /\ Live(cache') = Live(cache)
    BY <1>2, MoveWellFormed DEF IInv, Live
  <2>2. TypeOK'
    BY <2>1, CacheTypes DEF IInv, TypeOK
  <2>3. Accounted(cache') /\ WithinCaps(cache')
    BY <1>2, MoveAccounted DEF IInv, CapsRespected
  <2> QED BY <2>1, <2>2, <2>3 DEF IInv, CapsRespected, EntriesFiledByRoute
<1> QED BY <1>1, <1>2 DEF Get

LEMMA PutIInv ==
    ASSUME IInv, NEW key \in Key, NEW page \in Page, Put(key, page)
    PROVE  IInv'
<1>1. CASE UNCHANGED cache
  BY <1>1 DEF IInv, TypeOK, CapsRespected, EntriesFiledByRoute
<1>2. CASE key \in Attributable /\ cache' \in PutLocked(cache, key, NewEntry(key, page))
  <2> DEFINE e == NewEntry(key, page)
  <2>1. /\ WellFormed(cache')
        /\ Live(cache') \subseteq Live(cache) \cup {key}
        /\ \A x \in Live(cache') : cache'.entries[x] = IF x = key THEN e ELSE cache.entries[x]
        /\ Cardinality(Live(cache')) <= MaxEntries
    BY <1>2, PutWellFormed DEF IInv
  <2>2. e \in Entry /\ e.tables = TablesOf[key]
    BY OutputCacheAssumption DEF NewEntry, Entry
  <2> HIDE DEF e
  <2>3. TypeOK'
    BY <2>1, <2>2, CacheTypes DEF IInv, TypeOK
  <2>4. EntriesFiledByRoute'
    BY <1>2, <2>1, <2>2 DEF IInv, EntriesFiledByRoute
  <2>5. Accounted(cache') /\ WithinCaps(cache')
    <3>1. e.bytes \in Nat
      BY <2>2 DEF Entry
    <3> QED BY <1>2, <3>1, PutAccounted DEF IInv, e
  <2> QED BY <2>1, <2>3, <2>4, <2>5 DEF IInv, CapsRespected
<1> QED BY <1>1, <1>2 DEF Put

LEMMA InvalidateIInv ==
    ASSUME IInv, NEW table \in Table, Invalidate(table)
    PROVE  IInv'
<1>1. /\ WellFormed(cache')
      /\ Live(cache') = {k \in Live(cache) : table \notin cache.entries[k].tables}
      /\ \A k \in Live(cache') : cache'.entries[k] = cache.entries[k]
  BY InvalidateWellFormed DEF IInv, Invalidate
<1>2. TypeOK'
  BY <1>1, CacheTypes DEF IInv, TypeOK
<1>3. Accounted(cache') /\ CapsRespected'
  BY InvalidateAccounted DEF IInv, Invalidate, CapsRespected
<1>4. EntriesFiledByRoute'
  BY <1>1 DEF IInv, EntriesFiledByRoute
<1> QED BY <1>1, <1>2, <1>3, <1>4 DEF IInv

LEMMA FlushIInv == ASSUME InvalidateAll PROVE IInv'
<1>1. cache' = Empty /\ WellFormed(cache') /\ Live(cache') = {}
  BY EmptyWellFormed DEF InvalidateAll
<1>2. Accounted(cache') /\ CapsRespected'
  BY <1>1, EmptyAccounted DEF CapsRespected
<1>3. TypeOK'
  BY <1>1 DEF TypeOK, Empty, EmptyFcn, EmptyOrder
<1> QED BY <1>1, <1>2, <1>3 DEF IInv, EntriesFiledByRoute

LEMMA Inductive == Spec => []IInv
<1>1. IInv /\ [Next]_vars => IInv'
  <2> SUFFICES ASSUME IInv, [Next]_vars PROVE IInv'
    OBVIOUS
  <2>1. ASSUME NEW key \in Key, Get(key) PROVE IInv'
    BY <2>1, GetIInv
  <2>2. ASSUME NEW key \in Key, NEW page \in Page, Put(key, page) PROVE IInv'
    BY <2>2, PutIInv
  <2>3. ASSUME NEW table \in Table, Invalidate(table) PROVE IInv'
    BY <2>3, InvalidateIInv
  <2>4. CASE InvalidateAll
    BY <2>4, FlushIInv
  <2>5. CASE UNCHANGED vars
    BY <2>5 DEF vars, IInv, TypeOK, CapsRespected, EntriesFiledByRoute
  <2> QED BY <2>1, <2>2, <2>3, <2>4, <2>5 DEF Next
<1>2. NewOutputCache => IInv
  BY EmptyIInv DEF NewOutputCache
<1> QED BY <1>1, <1>2, PTL DEF Spec

(* Every state of outputCache is well typed, for all constants. *)
THEOREM TypeCorrect == Spec => []TypeOK
  BY Inductive, PTL DEF IInv

(* Every call of Get, Put and Invalidate leaves the reverse index the      *)
(* inverse of the entries and the LRU list holding the same entries.       *)
THEOREM IndexCorrect == Spec => [](IndexMatchesEntries /\ LruHoldsLiveEntries)
<1>1. IInv => IndexMatchesEntries /\ LruHoldsLiveEntries
  BY DEF IInv, WellFormed, IndexMatchesEntries, LruHoldsLiveEntries
<1> QED BY <1>1, Inductive, PTL

(* Put never returns with more than maxEntries pages or maxBytes bytes, a  *)
(* page larger than maxBytes included.                                     *)
THEOREM CapsCorrect == Spec => []CapsRespected
  BY Inductive, PTL DEF IInv

---------------------------------------------------------------------------
LEMMA PutRefines ==
    ASSUME IInv, IInv', NEW key \in Key, NEW page \in Page, Put(key, page)
    PROVE  Store!StorePut(key, page)
<1>1. CASE UNCHANGED cache
  BY <1>1 DEF Put, Store!StorePut, Answers
<1>2. CASE cache' \in PutLocked(cache, key, NewEntry(key, page))
  <2> DEFINE W == [m \in DOMAIN Answers \cup {key} |-> IF m = key THEN page ELSE Answers[m]]
  <2>1. /\ Live(cache') \subseteq Live(cache) \cup {key}
        /\ \A x \in Live(cache') :
             cache'.entries[x] = IF x = key THEN NewEntry(key, page) ELSE cache.entries[x]
    BY <1>2, PutWellFormed DEF IInv
  <2>2. DOMAIN Answers' \subseteq DOMAIN W /\ Answers' = [k \in DOMAIN Answers' |-> W[k]]
    BY <2>1 DEF Answers, NewEntry
  <2>3. Answers' \in Store!Shrinks(W)
    BY <2>2 DEF Store!Shrinks
  <2>4. W = Store!With(key, page)
    BY DEF Store!With
  <2> QED BY <2>3, <2>4 DEF Put, Store!StorePut
<1> QED BY <1>1, <1>2 DEF Put

LEMMA InvalidateRefines ==
    ASSUME IInv, NEW table \in Table, Invalidate(table)
    PROVE  Store!StoreInvalidate(table)
<1>1. /\ Live(cache') = {k \in Live(cache) : table \notin cache.entries[k].tables}
      /\ \A k \in Live(cache') : cache'.entries[k] = cache.entries[k]
  BY InvalidateWellFormed DEF IInv, Invalidate
<1>2. Answers' \in Store!Shrinks(Answers)
  <2>1. DOMAIN Answers' \subseteq DOMAIN Answers /\ Answers' = [k \in DOMAIN Answers' |-> Answers[k]]
    BY <1>1 DEF Answers
  <2> QED BY <2>1 DEF Store!Shrinks
<1>3. \A k \in DOMAIN Answers' : table \notin TagsOf[k]
  BY <1>1 DEF IInv, TypeOK, Answers, TagsOf, EntriesFiledByRoute
<1> QED BY <1>2, <1>3 DEF Invalidate, Store!StoreInvalidate

(***************************************************************************)
(* outputCache is a TaggedStore for every set of routes and tables: a hit  *)
(* is the page last stored, and a write to a table leaves no page that     *)
(* reads it.                                                               *)
(***************************************************************************)
THEOREM Refinement == Spec => ImplementsTaggedStore
<1>1. NewOutputCache => Store!StoreInit
  BY EmptyWellFormed DEF NewOutputCache, Store!StoreInit, Answers
<1>2. IInv /\ IInv' /\ [Next]_vars => [Store!StoreNext]_(Store!storeVars)
  <2> SUFFICES ASSUME IInv, IInv', [Next]_vars
               PROVE  [Store!StoreNext]_(Store!storeVars)
    OBVIOUS
  <2>1. ASSUME NEW key \in Key, Get(key) PROVE Store!StoreGet(key)
    <3>1. Answers' = Answers
      <4>1. cache'.entries = cache.entries
        BY <2>1, MoveWellFormed DEF Get, IInv
      <4> QED BY <4>1 DEF Answers, Live
    <3> QED BY <2>1, <3>1 DEF Get, Store!StoreGet, Answers
  <2>2. ASSUME NEW key \in Key, NEW page \in Page, Put(key, page)
        PROVE  Store!StorePut(key, page)
    BY <2>2, PutRefines
  <2>3. ASSUME NEW table \in Table, Invalidate(table) PROVE Store!StoreInvalidate(table)
    BY <2>3, InvalidateRefines
  <2>4. ASSUME InvalidateAll PROVE Store!StoreFlush
    <3>1. Live(cache') = {}
      BY <2>4, EmptyWellFormed DEF InvalidateAll
    <3> QED BY <2>4, <3>1 DEF InvalidateAll, Store!StoreFlush, Answers
  <2>5. ASSUME UNCHANGED vars PROVE UNCHANGED Store!storeVars
    BY <2>5 DEF vars, Store!storeVars, Answers
  <2> QED BY <2>1, <2>2, <2>3, <2>4, <2>5 DEF Next, Store!StoreNext
<1> QED BY <1>1, <1>2, Inductive, PTL DEF Spec, ImplementsTaggedStore, Store!StoreSpec

---------------------------------------------------------------------------
(* The rendering of a page (HoleRender).                                   *)

Pcs == {"idle", "hole", "set", "execute", "delete", "put", "output"}
Params == Binding \cup {NoParams}

(* A request that has a fill's maps in hand. *)
Visiting == {"set", "execute", "delete", "put"}

ReqType == [pc : Pcs, own : Params, hole : Nat, fill : Nat, shared : BOOLEAN,
            row : Nat, failed : BOOLEAN, out : Seq(Params), reused : BOOLEAN]

(* What a request's fields mean, with n fills made so far.  A page without a *)
(* reused row has only its request's bindings from the start.                *)
Coherent(q, n) ==
    /\ q.hole \in 0..Len(Holes) /\ q.row \in 0..NumRows /\ q.fill \in 0..n
    /\ q.pc \notin {"idle"} => q.hole \in 1..Len(Holes)
    /\ q.pc \in Visiting => q.fill \in 1..n /\ q.row \in 1..NumRows
    /\ q.pc \in Visiting /\ ~q.reused => ~q.shared
    /\ ~q.reused => \A i \in DOMAIN q.out : q.out[i] = q.own

Shape ==
    /\ maps \in Seq([1..NumRows -> Params])
    /\ cached \in 0..Len(maps) /\ up \in BOOLEAN
    /\ req \in [Request -> ReqType]
    /\ \A r \in Request : Coherent(req[r], Len(maps))

PagesTyped ==
    /\ DOMAIN pages \subseteq Params
    /\ \A b \in DOMAIN pages : IsOut(pages[b].out) /\ pages[b].reused \in BOOLEAN

(* A binding in a row map is that of a request between its set and its delete. *)
Dirty(r, f, i) == /\ req[r].pc \in {"execute", "delete"} /\ req[r].own # NoParams
                  /\ req[r].fill = f /\ req[r].row = i

Owned == \A f \in 1..Len(maps), i \in 1..NumRows :
            maps[f][i] # NoParams => \E r \in Request : Dirty(r, f, i)

(* A visit of maps that the request's own fill made: they are nobody else's, *)
(* and hold what the request put there.                                      *)
OwnFill(r) == req[r].pc \in Visiting /\ ~req[r].shared

Unshared ==
    \A r \in Request : OwnFill(r) =>
      /\ req[r].fill # cached
      /\ \A s \in Request \ {r} : req[s].pc \in Visiting => req[s].fill # req[r].fill

SetByOwner ==
    \A r \in Request : OwnFill(r) /\ req[r].pc = "execute" =>
        maps[req[r].fill][req[r].row] = req[r].own

RenderInv == Shape /\ PagesTyped /\ Owned /\ Unshared /\ SetByOwner /\ OwnFillShowsOwnParams

(* How the steps change a request's record. *)
LEMMA StartFields ==
    ASSUME NEW q \in ReqType, NEW p \in Pcs, NEW b \in Params, NEW h \in Nat, NEW n,
           n = [q EXCEPT !.pc = p, !.own = b, !.hole = h]
    PROVE  /\ n \in ReqType /\ n.pc = p /\ n.own = b /\ n.hole = h
           /\ n.fill = q.fill /\ n.shared = q.shared /\ n.row = q.row
           /\ n.failed = q.failed /\ n.out = q.out /\ n.reused = q.reused
<1>1. n \in ReqType
  BY DEF ReqType
<1>2. n.pc = p /\ n.own = b /\ n.hole = h
  BY DEF ReqType
<1>3. n.fill = q.fill /\ n.shared = q.shared /\ n.row = q.row
  BY DEF ReqType
<1>4. n.failed = q.failed /\ n.out = q.out /\ n.reused = q.reused
  BY DEF ReqType
<1> QED BY <1>1, <1>2, <1>3, <1>4

LEMMA HoleFields ==
    ASSUME NEW q \in ReqType, NEW p \in Pcs, NEW h \in Nat, NEW n,
           n = [q EXCEPT !.pc = p, !.hole = h]
    PROVE  /\ n \in ReqType /\ n.pc = p /\ n.own = q.own /\ n.hole = h
           /\ n.fill = q.fill /\ n.shared = q.shared /\ n.row = q.row
           /\ n.failed = q.failed /\ n.out = q.out /\ n.reused = q.reused
<1>1. n \in ReqType
  BY DEF ReqType
<1>2. n.pc = p /\ n.own = q.own /\ n.hole = h
  BY DEF ReqType
<1>3. n.fill = q.fill /\ n.shared = q.shared /\ n.row = q.row
  BY DEF ReqType
<1>4. n.failed = q.failed /\ n.out = q.out /\ n.reused = q.reused
  BY DEF ReqType
<1> QED BY <1>1, <1>2, <1>3, <1>4

LEMMA OutFields ==
    ASSUME NEW q \in ReqType, NEW o \in Seq(Params), NEW n,
           n = [q EXCEPT !.out = o]
    PROVE  /\ n \in ReqType /\ n.pc = q.pc /\ n.own = q.own /\ n.hole = q.hole
           /\ n.fill = q.fill /\ n.shared = q.shared /\ n.row = q.row
           /\ n.failed = q.failed /\ n.out = o /\ n.reused = q.reused
<1>1. n \in ReqType
  BY DEF ReqType
<1>2. n.pc = q.pc /\ n.own = q.own /\ n.hole = q.hole
  BY DEF ReqType
<1>3. n.fill = q.fill /\ n.shared = q.shared /\ n.row = q.row
  BY DEF ReqType
<1>4. n.failed = q.failed /\ n.out = o /\ n.reused = q.reused
  BY DEF ReqType
<1> QED BY <1>1, <1>2, <1>3, <1>4

LEMMA HitFields ==
    ASSUME NEW q \in ReqType, NEW p \in Pcs, NEW f \in Nat, NEW c \in BOOLEAN, NEW i \in Nat, NEW u \in BOOLEAN, NEW n,
           n = [q EXCEPT !.pc = p, !.fill = f, !.shared = c, !.row = i, !.reused = u]
    PROVE  /\ n \in ReqType /\ n.pc = p /\ n.own = q.own /\ n.hole = q.hole
           /\ n.fill = f /\ n.shared = c /\ n.row = i
           /\ n.failed = q.failed /\ n.out = q.out /\ n.reused = u
<1>1. n \in ReqType
  BY DEF ReqType
<1>2. n.pc = p /\ n.own = q.own /\ n.hole = q.hole
  BY DEF ReqType
<1>3. n.fill = f /\ n.shared = c /\ n.row = i
  BY DEF ReqType
<1>4. n.failed = q.failed /\ n.out = q.out /\ n.reused = u
  BY DEF ReqType
<1> QED BY <1>1, <1>2, <1>3, <1>4

LEMMA MissFields ==
    ASSUME NEW q \in ReqType, NEW p \in Pcs, NEW f \in Nat, NEW c \in BOOLEAN, NEW i \in Nat, NEW n,
           n = [q EXCEPT !.pc = p, !.fill = f, !.shared = c, !.row = i]
    PROVE  /\ n \in ReqType /\ n.pc = p /\ n.own = q.own /\ n.hole = q.hole
           /\ n.fill = f /\ n.shared = c /\ n.row = i
           /\ n.failed = q.failed /\ n.out = q.out /\ n.reused = q.reused
<1>1. n \in ReqType
  BY DEF ReqType
<1>2. n.pc = p /\ n.own = q.own /\ n.hole = q.hole
  BY DEF ReqType
<1>3. n.fill = f /\ n.shared = c /\ n.row = i
  BY DEF ReqType
<1>4. n.failed = q.failed /\ n.out = q.out /\ n.reused = q.reused
  BY DEF ReqType
<1> QED BY <1>1, <1>2, <1>3, <1>4

LEMMA PcFields ==
    ASSUME NEW q \in ReqType, NEW p \in Pcs, NEW n,
           n = [q EXCEPT !.pc = p]
    PROVE  /\ n \in ReqType /\ n.pc = p /\ n.own = q.own /\ n.hole = q.hole
           /\ n.fill = q.fill /\ n.shared = q.shared /\ n.row = q.row
           /\ n.failed = q.failed /\ n.out = q.out /\ n.reused = q.reused
<1>1. n \in ReqType
  BY DEF ReqType
<1>2. n.pc = p /\ n.own = q.own /\ n.hole = q.hole
  BY DEF ReqType
<1>3. n.fill = q.fill /\ n.shared = q.shared /\ n.row = q.row
  BY DEF ReqType
<1>4. n.failed = q.failed /\ n.out = q.out /\ n.reused = q.reused
  BY DEF ReqType
<1> QED BY <1>1, <1>2, <1>3, <1>4

LEMMA PrintFields ==
    ASSUME NEW q \in ReqType, NEW p \in Pcs, NEW o \in Seq(Params), NEW n,
           n = [q EXCEPT !.pc = p, !.out = o]
    PROVE  /\ n \in ReqType /\ n.pc = p /\ n.own = q.own /\ n.hole = q.hole
           /\ n.fill = q.fill /\ n.shared = q.shared /\ n.row = q.row
           /\ n.failed = q.failed /\ n.out = o /\ n.reused = q.reused
<1>1. n \in ReqType
  BY DEF ReqType
<1>2. n.pc = p /\ n.own = q.own /\ n.hole = q.hole
  BY DEF ReqType
<1>3. n.fill = q.fill /\ n.shared = q.shared /\ n.row = q.row
  BY DEF ReqType
<1>4. n.failed = q.failed /\ n.out = o /\ n.reused = q.reused
  BY DEF ReqType
<1> QED BY <1>1, <1>2, <1>3, <1>4

LEMMA FailFields ==
    ASSUME NEW q \in ReqType, NEW p \in Pcs, NEW e \in BOOLEAN, NEW n,
           n = [q EXCEPT !.pc = p, !.failed = e]
    PROVE  /\ n \in ReqType /\ n.pc = p /\ n.own = q.own /\ n.hole = q.hole
           /\ n.fill = q.fill /\ n.shared = q.shared /\ n.row = q.row
           /\ n.failed = e /\ n.out = q.out /\ n.reused = q.reused
<1>1. n \in ReqType
  BY DEF ReqType
<1>2. n.pc = p /\ n.own = q.own /\ n.hole = q.hole
  BY DEF ReqType
<1>3. n.fill = q.fill /\ n.shared = q.shared /\ n.row = q.row
  BY DEF ReqType
<1>4. n.failed = e /\ n.out = q.out /\ n.reused = q.reused
  BY DEF ReqType
<1> QED BY <1>1, <1>2, <1>3, <1>4

LEMMA RowFields ==
    ASSUME NEW q \in ReqType, NEW p \in Pcs, NEW i \in Nat, NEW n,
           n = [q EXCEPT !.pc = p, !.row = i]
    PROVE  /\ n \in ReqType /\ n.pc = p /\ n.own = q.own /\ n.hole = q.hole
           /\ n.fill = q.fill /\ n.shared = q.shared /\ n.row = i
           /\ n.failed = q.failed /\ n.out = q.out /\ n.reused = q.reused
<1>1. n \in ReqType
  BY DEF ReqType
<1>2. n.pc = p /\ n.own = q.own /\ n.hole = q.hole
  BY DEF ReqType
<1>3. n.fill = q.fill /\ n.shared = q.shared /\ n.row = i
  BY DEF ReqType
<1>4. n.failed = q.failed /\ n.out = q.out /\ n.reused = q.reused
  BY DEF ReqType
<1> QED BY <1>1, <1>2, <1>3, <1>4

LEMMA Advances ==
    ASSUME NEW q \in ReqType, q.hole \in 1..Len(Holes)
    PROVE  /\ Advance(q) \in ReqType
           /\ Advance(q).pc \in {"output", "hole"} /\ Advance(q).hole \in 1..Len(Holes)
           /\ Advance(q).own = q.own /\ Advance(q).fill = q.fill /\ Advance(q).row = q.row
           /\ Advance(q).reused = q.reused /\ Advance(q).out = q.out
<1>1. Len(Holes) \in Nat
  BY HoleRenderAssumption
<1>2. CASE q.hole = Len(Holes)
  BY <1>1, <1>2 DEF Advance, ReqType, Pcs
<1>3. CASE q.hole # Len(Holes)
  <2> DEFINE h == q.hole + 1
             a == Advance(q)
  <2>1. a = [q EXCEPT !.pc = "hole", !.hole = h]
    BY <1>3 DEF Advance
  <2>2. h \in Nat /\ "hole" \in Pcs /\ h \in 1..Len(Holes)
    BY <1>1, <1>3 DEF Pcs
  <2> HIDE DEF h, a
  <2>3. /\ a \in ReqType /\ a.pc = "hole" /\ a.hole = h /\ a.own = q.own /\ a.fill = q.fill
        /\ a.row = q.row /\ a.reused = q.reused /\ a.out = q.out
    BY ONLY <2>1, <2>2, q \in ReqType, HoleFields DEF ReqType
  <2> QED BY <2>2, <2>3 DEF a
<1> QED BY <1>2, <1>3

LEMMA IdleType ==
    /\ Idle \in ReqType /\ Idle.pc = "idle" /\ Coherent(Idle, 0)
    /\ Idle.fill = 0 /\ Idle.row = 0 /\ Idle.out = <<>>
  BY HoleRenderAssumption DEF Idle, ReqType, Pcs, Params, Coherent, Visiting

(* What a step of r leaves alone. *)
LEMMA Frame ==
    ASSUME Shape, NEW r \in Request, NEW new \in ReqType, Step(r, new)
    PROVE  /\ req' \in [Request -> ReqType] /\ req'[r] = new
           /\ \A s \in Request \ {r} : req'[s] = req[s]
           /\ up' = up
  BY DEF Shape, Step

(* Typing after a step of r that may add maps. *)
LEMMA ShapeStep ==
    ASSUME Shape, NEW r \in Request, NEW new \in ReqType, Step(r, new), Coherent(new, Len(maps')),
           maps' \in Seq([1..NumRows -> Params]), Len(maps) <= Len(maps'), cached' \in 0..Len(maps')
    PROVE  Shape'
<1>1. \A s \in Request \ {r} : Coherent(req'[s], Len(maps'))
  <2> SUFFICES ASSUME NEW s \in Request \ {r} PROVE Coherent(req'[s], Len(maps'))
    OBVIOUS
  <2>1. Coherent(req[s], Len(maps)) /\ req'[s] = req[s] /\ req[s] \in ReqType
    BY Frame DEF Shape
  <2>2. Len(maps) \in Nat /\ Len(maps') \in Nat
    BY DEF Shape
  <2> QED BY <2>1, <2>2 DEF Coherent, ReqType
<1> QED BY <1>1, Frame DEF Shape


(* A step of a request that has no maps in hand, before or after.            *)
LEMMA QuietStep ==
    ASSUME RenderInv, NEW r \in Request, NEW new \in ReqType, Step(r, new),
           req[r].pc \notin {"set", "execute", "delete"}, new.pc \notin Visiting, maps' = maps,
           cached' = cached
    PROVE  Owned' /\ Unshared' /\ SetByOwner'
<1>1. Owned'
  <2> SUFFICES ASSUME NEW f \in 1..Len(maps), NEW i \in 1..NumRows, maps[f][i] # NoParams
               PROVE  \E s \in Request : Dirty(s, f, i)'
    BY DEF Owned
  <2>1. PICK s \in Request : Dirty(s, f, i)
    BY DEF RenderInv, Owned
  <2>2. s # r
    BY <2>1 DEF Dirty
  <2> QED BY <2>1, <2>2, Frame DEF Dirty, RenderInv
<1>2. \A s \in Request : OwnFill(s)' => s # r /\ OwnFill(s) /\ req'[s] = req[s]
  BY Frame DEF RenderInv, OwnFill
<1>3. Unshared'
  BY <1>2, Frame DEF RenderInv, Unshared, Visiting
<1>4. SetByOwner'
  BY <1>2, Frame DEF RenderInv, SetByOwner
<1> QED BY <1>1, <1>3, <1>4

LEMMA StartInv ==
    ASSUME RenderInv, NEW r \in Request, NEW b \in Params, Start(r, b) PROVE RenderInv'
<1> DEFINE new == [Idle EXCEPT !.pc = "hole", !.own = b, !.hole = 1]
<1>1. new = [Idle EXCEPT !.pc = "hole", !.own = b, !.hole = 1]
  OBVIOUS
<1>2. Step(r, new) /\ req[r].pc = "idle" /\ UNCHANGED <<maps, cached, pages>>
  BY DEF Start
<1> HIDE DEF new
<1>3. Len(Holes) \in Nat \ {0} /\ Len(maps) \in Nat
  BY HoleRenderAssumption DEF RenderInv, Shape
<1>4. "hole" \in Pcs /\ 1 \in Nat
  BY DEF Pcs
<1>5. new \in ReqType /\ new.pc = "hole" /\ new.hole = 1 /\ new.fill = 0 /\ new.row = 0
      /\ new.out = <<>>
  <2>1. /\ new \in ReqType /\ new.pc = "hole" /\ new.hole = 1
        /\ new.fill = Idle.fill /\ new.row = Idle.row /\ new.out = Idle.out
    BY ONLY <1>1, <1>4, IdleType, StartFields, b \in Params DEF ReqType
  <2> QED BY <2>1, IdleType
<1>6. Coherent(new, Len(maps))
  BY <1>3, <1>5, HoleRenderAssumption DEF Coherent, Visiting
<1>7. Shape'
  BY <1>2, <1>3, <1>5, <1>6, ShapeStep DEF RenderInv, Shape
<1>8. Owned' /\ Unshared' /\ SetByOwner'
  BY <1>2, <1>5, QuietStep DEF Visiting
<1>9. PagesTyped' /\ OwnFillShowsOwnParams'
  BY <1>2 DEF RenderInv, PagesTyped, OwnFillShowsOwnParams
<1> QED BY <1>7, <1>8, <1>9 DEF RenderInv

(* The next hole, or the end, after one that printed its own bindings only   *)
(* or reused a cached row.                                                   *)
LEMMA AdvanceInv ==
    ASSUME RenderInv, NEW r \in Request, NEW q \in ReqType, Coherent(q, Len(maps)), q.pc # "idle",
           Step(r, Advance(q)), req[r].pc \in {"hole", "put"}, maps' = maps, cached' = cached,
           pages' = pages
    PROVE  RenderInv'
<1>1. Advance(q) \in ReqType /\ Advance(q).pc \notin Visiting /\ Coherent(Advance(q), Len(maps))
  BY Advances DEF Coherent, Visiting
<1>2. Shape'
  BY <1>1, ShapeStep DEF RenderInv, Shape
<1>3. Owned' /\ Unshared' /\ SetByOwner'
  BY <1>1, QuietStep
<1>4. PagesTyped' /\ OwnFillShowsOwnParams'
  BY DEF RenderInv, PagesTyped, OwnFillShowsOwnParams
<1> QED BY <1>2, <1>3, <1>4 DEF RenderInv

LEMMA ToIdleInv ==
    ASSUME RenderInv, NEW r \in Request, Step(r, Idle), req[r].pc \in {"hole", "output"},
           maps' = maps, cached' = cached, PagesTyped', OwnFillShowsOwnParams'
    PROVE  RenderInv'
<1>1. Idle \in ReqType /\ Idle.pc \notin Visiting /\ Coherent(Idle, Len(maps))
  BY IdleType DEF Coherent, Visiting, RenderInv, Shape
<1>2. Shape'
  BY <1>1, ShapeStep DEF RenderInv, Shape
<1>3. Owned' /\ Unshared' /\ SetByOwner'
  BY <1>1, QuietStep
<1> QED BY <1>2, <1>3 DEF RenderInv

LEMMA ParamHoleInv ==
    ASSUME RenderInv, NEW r \in Request, ParamHole(r) PROVE RenderInv'
<1> DEFINE q == req[r]
<1>1. /\ q \in ReqType /\ Coherent(q, Len(maps)) /\ q.pc = "hole" /\ q.own \in Params
      /\ q.out \in Seq(Params)
  BY DEF RenderInv, Shape, ReqType, ParamHole
<1>2. CASE Step(r, Advance([q EXCEPT !.out = Append(@, q.own)]))
  <2> DEFINE o == Append(q.out, q.own)
             n == [q EXCEPT !.out = o]
  <2>0. n = [q EXCEPT !.out = o]
    OBVIOUS
  <2>1. Step(r, Advance(n))
    BY <1>2
  <2>2. o \in Seq(Params) /\ \A i \in DOMAIN o : \/ i \in DOMAIN q.out /\ o[i] = q.out[i]
                                               \/ o[i] = q.own
    BY <1>1
  <2> HIDE DEF n, o
  <2>3. /\ n \in ReqType /\ n.pc = q.pc /\ n.own = q.own /\ n.hole = q.hole
        /\ n.fill = q.fill /\ n.row = q.row /\ n.out = o /\ n.reused = q.reused
    <3> HIDE DEF q
    <3> QED BY <1>1, <2>0, <2>2, OutFields
  <2>4. Coherent(n, Len(maps))
    BY <1>1, <2>2, <2>3 DEF Coherent, Visiting
  <2> QED BY <1>1, <2>1, <2>3, <2>4, AdvanceInv DEF ParamHole
<1>3. CASE Step(r, Idle)
  <2>1. PagesTyped' /\ OwnFillShowsOwnParams'
    BY DEF RenderInv, PagesTyped, OwnFillShowsOwnParams, ParamHole
  <2> QED BY <1>3, <2>1, ToIdleInv DEF ParamHole
<1> QED BY <1>2, <1>3 DEF ParamHole


(* A step of r that leaves the rows alone and keeps r on the same row or     *)
(* takes r to one nobody else can have.                                      *)
LEMMA RowHitInv ==
    ASSUME RenderInv, NEW r \in Request, RowHit(r) PROVE RenderInv'
<1> DEFINE q == req[r]
           n == [q EXCEPT !.pc = "set", !.fill = cached, !.shared = TRUE, !.row = 1,
                          !.reused = TRUE]
<1>1. n = [q EXCEPT !.pc = "set", !.fill = cached, !.shared = TRUE, !.row = 1, !.reused = TRUE]
  OBVIOUS
<1>2. Step(r, n) /\ q.pc = "hole" /\ cached # 0 /\ UNCHANGED <<maps, cached, pages>>
  BY DEF RowHit
<1>3. q \in ReqType /\ Coherent(q, Len(maps)) /\ Len(maps) \in Nat /\ cached \in 1..Len(maps)
  BY <1>2 DEF RenderInv, Shape
<1>4. "set" \in Pcs /\ 1 \in 1..NumRows /\ cached \in Nat /\ 1 \in Nat /\ TRUE \in BOOLEAN
  BY <1>3, HoleRenderAssumption DEF Pcs
<1> HIDE DEF n
<1>5. /\ n \in ReqType /\ n.pc = "set" /\ n.fill = cached /\ n.shared /\ n.row = 1 /\ n.reused
      /\ n.hole = q.hole
  <2> HIDE DEF q
  <2>1. /\ n \in ReqType /\ n.pc = "set" /\ n.fill = cached /\ n.shared = TRUE /\ n.row = 1
        /\ n.reused = TRUE /\ n.hole = q.hole
    BY ONLY <1>1, <1>3, <1>4, HitFields DEF ReqType
  <2> QED BY <2>1
<1>6. Coherent(n, Len(maps))
  BY <1>2, <1>3, <1>4, <1>5 DEF Coherent
<1>7. Shape'
  BY <1>2, <1>3, <1>5, <1>6, ShapeStep DEF RenderInv, Shape
<1>8. Owned'
  <2> SUFFICES ASSUME NEW f \in 1..Len(maps), NEW i \in 1..NumRows, maps[f][i] # NoParams
               PROVE  \E s \in Request : Dirty(s, f, i)'
    BY <1>2 DEF Owned
  <2>1. PICK s \in Request : Dirty(s, f, i)
    BY DEF RenderInv, Owned
  <2>2. s # r
    BY <1>2, <2>1 DEF Dirty
  <2> QED BY <1>2, <1>5, <2>1, <2>2, Frame DEF Dirty, RenderInv
<1>9. \A s \in Request : OwnFill(s)' => s # r /\ OwnFill(s) /\ req'[s] = req[s]
  BY <1>2, <1>5, Frame DEF RenderInv, OwnFill
<1>10. Unshared'
  BY <1>2, <1>5, <1>9, Frame DEF RenderInv, Unshared
<1>11. SetByOwner'
  BY <1>2, <1>9 DEF RenderInv, SetByOwner
<1>12. PagesTyped' /\ OwnFillShowsOwnParams'
  BY <1>2 DEF RenderInv, PagesTyped, OwnFillShowsOwnParams
<1> QED BY <1>7, <1>8, <1>10, <1>11, <1>12 DEF RenderInv

LEMMA RowMissInv ==
    ASSUME RenderInv, NEW r \in Request, RowMiss(r) PROVE RenderInv'
<1> DEFINE q == req[r]
           new == Len(maps) + 1
           n == [q EXCEPT !.pc = "set", !.fill = new, !.shared = FALSE, !.row = 1]
           clean == [i \in 1..NumRows |-> NoParams]
<1>1. n = [q EXCEPT !.pc = "set", !.fill = new, !.shared = FALSE, !.row = 1]
  OBVIOUS
<1>2. Step(r, n) /\ q.pc = "hole" /\ maps' = Append(maps, clean) /\ UNCHANGED <<cached, pages>>
  BY DEF RowMiss
<1>3. /\ q \in ReqType /\ Coherent(q, Len(maps)) /\ Len(maps) \in Nat /\ cached \in 0..Len(maps)
      /\ q.pc = "hole"
  BY <1>2 DEF RenderInv, Shape
<1>4. "set" \in Pcs /\ 1 \in 1..NumRows /\ new \in Nat /\ 1 \in Nat /\ FALSE \in BOOLEAN
  BY <1>3, HoleRenderAssumption DEF Pcs
<1>5. /\ maps' \in Seq([1..NumRows -> Params]) /\ Len(maps') = new
      /\ \A f \in 1..Len(maps) : maps'[f] = maps[f]
      /\ \A i \in 1..NumRows : maps'[new][i] = NoParams
  <2>1. clean \in [1..NumRows -> Params] /\ \A i \in 1..NumRows : clean[i] = NoParams
    BY DEF Params
  <2> HIDE DEF clean
  <2>2. maps \in Seq([1..NumRows -> Params])
    BY DEF RenderInv, Shape
  <2> QED BY <1>2, <2>1, <2>2
<1> HIDE DEF n
<1>6. /\ n \in ReqType /\ n.pc = "set" /\ n.fill = new /\ ~n.shared /\ n.row = 1
      /\ n.hole = q.hole /\ n.own = q.own /\ n.out = q.out /\ n.reused = q.reused
  <2> HIDE DEF q, new
  <2>1. /\ n \in ReqType /\ n.pc = "set" /\ n.fill = new /\ n.shared = FALSE /\ n.row = 1
        /\ n.hole = q.hole /\ n.own = q.own /\ n.out = q.out /\ n.reused = q.reused
    BY ONLY <1>1, <1>3, <1>4, MissFields DEF ReqType
  <2> QED BY <2>1
<1>7. Coherent(n, new)
  BY <1>3, <1>4, <1>6 DEF Coherent
<1>8. Shape'
  BY <1>2, <1>3, <1>5, <1>6, <1>7, ShapeStep DEF RenderInv, Shape
<1>9. Owned'
  <2> SUFFICES ASSUME NEW f \in 1..Len(maps'), NEW i \in 1..NumRows, maps'[f][i] # NoParams
               PROVE  \E s \in Request : Dirty(s, f, i)'
    BY DEF Owned
  <2>0. f \in 1..Len(maps) /\ maps[f][i] # NoParams
    BY <1>3, <1>5
  <2>1. PICK s \in Request : Dirty(s, f, i)
    BY <2>0 DEF RenderInv, Owned
  <2>2. s # r
    BY <1>2, <2>1 DEF Dirty
  <2> QED BY <1>2, <1>6, <2>1, <2>2, Frame DEF Dirty, RenderInv
<1>10. \A s \in Request \ {r} : req'[s] = req[s] /\ Coherent(req[s], Len(maps))
  BY <1>2, <1>6, Frame DEF RenderInv, Shape
<1>11. req'[r] = n
  BY <1>2, <1>6, Frame DEF RenderInv
<1>12. Unshared'
  <2> SUFFICES ASSUME NEW t \in Request, OwnFill(t)'
               PROVE  /\ req'[t].fill # cached
                      /\ \A s \in Request \ {t} :
                           req'[s].pc \in Visiting => req'[s].fill # req'[t].fill
    BY <1>2 DEF Unshared
  <2>1. CASE t = r
    BY <2>1, <1>3, <1>6, <1>10, <1>11 DEF Coherent
  <2>2. CASE t # r
    <3>1. OwnFill(t) /\ req[t].fill \in 1..Len(maps) /\ req'[t] = req[t]
      BY <2>2, <1>10 DEF OwnFill, Coherent
    <3> QED BY <2>2, <3>1, <1>3, <1>6, <1>10, <1>11 DEF RenderInv, Unshared
  <2> QED BY <2>1, <2>2
<1>13. SetByOwner'
  <2> SUFFICES ASSUME NEW t \in Request, OwnFill(t)', req'[t].pc = "execute"
               PROVE  maps'[req'[t].fill][req'[t].row] = req'[t].own
    BY DEF SetByOwner
  <2>1. t # r /\ OwnFill(t) /\ req[t].fill \in 1..Len(maps) /\ req'[t] = req[t]
    BY <1>6, <1>10, <1>11 DEF OwnFill, Coherent
  <2> QED BY <2>1, <1>5 DEF RenderInv, SetByOwner
<1>14. PagesTyped' /\ OwnFillShowsOwnParams'
  BY <1>2 DEF RenderInv, PagesTyped, OwnFillShowsOwnParams
<1> QED BY <1>8, <1>9, <1>12, <1>13, <1>14 DEF RenderInv


(* A step of r within a visit: r keeps its maps, and of them only its row    *)
(* may change.                                                               *)
Within(r) ==
    /\ req[r].pc \in {"set", "execute", "delete"}
    /\ req'[r] \in ReqType /\ req'[r].pc \in Visiting /\ req'[r].fill = req[r].fill
    /\ req'[r].shared = req[r].shared /\ req'[r].own = req[r].own
    /\ \A s \in Request \ {r} : req'[s] = req[s]
    /\ Len(maps') = Len(maps) /\ cached' = cached /\ pages' = pages
    /\ \A f \in 1..Len(maps), i \in 1..NumRows :
         f # req[r].fill \/ i # req[r].row => maps'[f][i] = maps[f][i]

LEMMA VisitStep ==
    ASSUME RenderInv, NEW r \in Request, Within(r)
    PROVE  /\ Unshared' /\ PagesTyped' /\ OwnFillShowsOwnParams'
           /\ \A s \in Request \ {r} : OwnFill(s)' /\ req'[s].pc = "execute" =>
                maps'[req'[s].fill][req'[s].row] = req'[s].own
           /\ \A f \in 1..Len(maps), i \in 1..NumRows :
                \A s \in Request \ {r} : Dirty(s, f, i) => Dirty(s, f, i)'
<1>1. \A s \in Request : Coherent(req[s], Len(maps)) /\ (OwnFill(s)' <=> OwnFill(s))
                         /\ (req'[s].pc \in Visiting <=> req[s].pc \in Visiting)
                         /\ (req[s].pc \in Visiting => req'[s].fill = req[s].fill)
  BY DEF RenderInv, Shape, Within, OwnFill, Visiting
<1>2. Unshared'
  <2> SUFFICES ASSUME NEW t \in Request, OwnFill(t)'
               PROVE  /\ req'[t].fill # cached
                      /\ \A s \in Request \ {t} :
                           req'[s].pc \in Visiting => req'[s].fill # req'[t].fill
    BY DEF Unshared, Within
  <2>1. OwnFill(t) /\ req[t].pc \in Visiting
    BY <1>1 DEF OwnFill
  <2> QED BY <2>1, <1>1 DEF RenderInv, Unshared
<1>3. PagesTyped' /\ OwnFillShowsOwnParams'
  BY DEF RenderInv, PagesTyped, OwnFillShowsOwnParams, Within
<1>4. ASSUME NEW s \in Request \ {r}, OwnFill(s)', req'[s].pc = "execute"
      PROVE  maps'[req'[s].fill][req'[s].row] = req'[s].own
  <2>1. OwnFill(s) /\ req'[s] = req[s] /\ req[s].pc = "execute"
    BY <1>1, <1>4 DEF Within
  <2>2. req[s].fill \in 1..Len(maps) /\ req[s].row \in 1..NumRows
    BY <1>1, <2>1 DEF Coherent, Visiting
  <2>3. req[s].fill # req[r].fill
    BY <2>1 DEF RenderInv, Unshared, Within, Visiting
  <2> QED BY <2>1, <2>2, <2>3 DEF RenderInv, SetByOwner, Within
<1>5. \A f \in 1..Len(maps), i \in 1..NumRows :
        \A s \in Request \ {r} : Dirty(s, f, i) => Dirty(s, f, i)'
  BY DEF Within, Dirty
<1> QED BY <1>2, <1>3, <1>4, <1>5

(* Writing one cell of a row map. *)
LEMMA SetCell ==
    ASSUME maps \in Seq([1..NumRows -> Params]), NEW f \in 1..Len(maps), NEW i \in 1..NumRows,
           NEW p \in Params, NEW m, m = [maps EXCEPT ![f][i] = p]
    PROVE  /\ m \in Seq([1..NumRows -> Params]) /\ Len(m) = Len(maps) /\ m[f][i] = p
           /\ \A g \in 1..Len(maps), j \in 1..NumRows :
                g # f \/ j # i => m[g][j] = maps[g][j]
<1>1. m \in Seq([1..NumRows -> Params]) /\ Len(m) = Len(maps)
  OBVIOUS
<1>2. maps[f] \in [1..NumRows -> Params] /\ m[f] = [maps[f] EXCEPT ![i] = p]
  OBVIOUS
<1>3. m[f][i] = p
  BY <1>2
<1>4. ASSUME NEW g \in 1..Len(maps), NEW j \in 1..NumRows, g # f \/ j # i
      PROVE  m[g][j] = maps[g][j]
  <2>1. CASE g # f
    BY <2>1
  <2>2. CASE g = f
    BY <2>2, <1>2, <1>4
  <2> QED BY <2>1, <2>2
<1> QED BY <1>1, <1>3, <1>4

LEMMA SetParamsInv ==
    ASSUME RenderInv, NEW r \in Request, SetParams(r) PROVE RenderInv'
<1> DEFINE q == req[r]
           n == [q EXCEPT !.pc = "execute"]
<1>1. n = [q EXCEPT !.pc = "execute"]
  OBVIOUS
<1>2. Step(r, n) /\ q.pc = "set" /\ UNCHANGED <<cached, pages>>
  BY DEF SetParams
<1>3. /\ q \in ReqType /\ Coherent(q, Len(maps)) /\ Len(maps) \in Nat
      /\ q.fill \in 1..Len(maps) /\ q.row \in 1..NumRows /\ q.own \in Params
      /\ maps \in Seq([1..NumRows -> Params])
  BY <1>2 DEF RenderInv, Shape, Coherent, Visiting, ReqType
<1>4. "execute" \in Pcs
  BY DEF Pcs
<1> HIDE DEF n
<1>5. /\ n \in ReqType /\ n.pc = "execute" /\ n.own = q.own /\ n.hole = q.hole /\ n.fill = q.fill
      /\ n.shared = q.shared /\ n.row = q.row /\ n.out = q.out /\ n.reused = q.reused
  <2> HIDE DEF q
  <2> QED BY ONLY <1>1, <1>3, <1>4, PcFields DEF ReqType
<1>6. /\ maps' \in Seq([1..NumRows -> Params]) /\ Len(maps') = Len(maps)
      /\ q.own # NoParams => maps'[q.fill][q.row] = q.own
      /\ q.own = NoParams => maps' = maps
      /\ \A g \in 1..Len(maps), j \in 1..NumRows :
           g # q.fill \/ j # q.row => maps'[g][j] = maps[g][j]
  <2>1. CASE q.own = NoParams
    BY <2>1, <1>3 DEF SetParams
  <2>2. CASE q.own # NoParams
    <3>1. maps' = [maps EXCEPT ![q.fill][q.row] = q.own]
      BY <2>2 DEF SetParams
    <3>2. /\ maps' \in Seq([1..NumRows -> Params]) /\ Len(maps') = Len(maps)
          /\ maps'[q.fill][q.row] = q.own
          /\ \A g \in 1..Len(maps), j \in 1..NumRows :
               g # q.fill \/ j # q.row => maps'[g][j] = maps[g][j]
      <4> HIDE DEF q
      <4> QED BY ONLY <3>1, <1>3, SetCell
    <3> QED BY <2>2, <3>2
  <2> QED BY <2>1, <2>2
<1>7. Coherent(n, Len(maps))
  BY <1>2, <1>3, <1>5 DEF Coherent, Visiting
<1>8. Shape'
  BY <1>2, <1>3, <1>5, <1>6, <1>7, ShapeStep DEF RenderInv, Shape
<1>9. req'[r] = n /\ \A s \in Request \ {r} : req'[s] = req[s]
  BY <1>2, <1>5, Frame DEF RenderInv
<1>10. Within(r)
  BY <1>2, <1>5, <1>6, <1>9 DEF Within, Visiting
<1>11. Owned'
  <2> SUFFICES ASSUME NEW f \in 1..Len(maps), NEW i \in 1..NumRows, maps'[f][i] # NoParams
               PROVE  \E s \in Request : Dirty(s, f, i)'
    BY <1>6 DEF Owned
  <2>1. CASE maps[f][i] # NoParams
    <3>1. PICK s \in Request : Dirty(s, f, i)
      BY <2>1 DEF RenderInv, Owned
    <3>2. s # r
      BY <1>2, <3>1 DEF Dirty
    <3> QED BY <3>1, <3>2, <1>10, VisitStep
  <2>2. CASE maps[f][i] = NoParams
    <3>1. f = q.fill /\ i = q.row /\ q.own # NoParams
      BY <2>2, <1>6
    <3> QED BY <3>1, <1>5, <1>9 DEF Dirty
  <2> QED BY <2>1, <2>2
<1>12. SetByOwner'
  <2>1. ASSUME OwnFill(r)' PROVE maps'[n.fill][n.row] = n.own
    <3>1. CASE q.own # NoParams
      BY <3>1, <1>5, <1>6
    <3>2. CASE q.own = NoParams
      <4>1. OwnFill(r)
        BY <2>1, <1>2, <1>5, <1>9 DEF OwnFill, Visiting
      <4>2. \A s \in Request : ~Dirty(s, q.fill, q.row)
        BY <4>1, <1>2 DEF RenderInv, Unshared, Dirty, Visiting
      <4> QED BY <3>2, <4>2, <1>3, <1>5, <1>6 DEF RenderInv, Owned
    <3> QED BY <3>1, <3>2
  <2> QED BY <2>1, <1>9, <1>10, VisitStep DEF SetByOwner
<1> QED BY <1>8, <1>10, <1>11, <1>12, VisitStep DEF RenderInv


LEMMA ExecuteInv ==
    ASSUME RenderInv, NEW r \in Request, Execute(r) PROVE RenderInv'
<1> DEFINE q == req[r]
           o == Append(q.out, maps[q.fill][q.row])
<1>1. q.pc = "execute" /\ UNCHANGED <<maps, cached, pages>>
  BY DEF Execute
<1>2. /\ q \in ReqType /\ Coherent(q, Len(maps)) /\ Len(maps) \in Nat
      /\ q.fill \in 1..Len(maps) /\ q.row \in 1..NumRows /\ q.own \in Params
      /\ maps \in Seq([1..NumRows -> Params]) /\ q.out \in Seq(Params)
  BY <1>1 DEF RenderInv, Shape, Coherent, Visiting, ReqType
<1>3. "delete" \in Pcs /\ TRUE \in BOOLEAN /\ o \in Seq(Params)
  <2>1. maps[q.fill] \in [1..NumRows -> Params]
    BY <1>2
  <2>2. maps[q.fill][q.row] \in Params
    BY <1>2, <2>1
  <2>3. o \in Seq(Params)
    BY <1>2, <2>2
  <2> QED BY <2>3 DEF Pcs
<1>4. q.reused \/ \A i \in DOMAIN o : o[i] = q.own
  <2> SUFFICES ASSUME ~q.reused, NEW i \in DOMAIN o PROVE o[i] = q.own
    OBVIOUS
  <2>1. OwnFill(r)
    BY <1>1, <1>2 DEF OwnFill, Coherent, Visiting
  <2>2. maps[q.fill][q.row] = q.own
    BY <1>1, <2>1 DEF RenderInv, SetByOwner
  <2>3. \A j \in DOMAIN q.out : q.out[j] = q.own
    BY <1>2 DEF Coherent
  <2> QED BY <1>2, <2>2, <2>3
<1> HIDE DEF o
<1>5. PICK n \in ReqType :
        /\ Step(r, n) /\ n.pc = "delete" /\ n.own = q.own /\ n.hole = q.hole
        /\ n.fill = q.fill /\ n.shared = q.shared /\ n.row = q.row /\ n.reused = q.reused
        /\ n.out = q.out \/ n.out = o
  <2>1. CASE Step(r, [q EXCEPT !.pc = "delete", !.out = o])
    <3> DEFINE n == [q EXCEPT !.pc = "delete", !.out = o]
    <3>1. n = [q EXCEPT !.pc = "delete", !.out = o]
      OBVIOUS
    <3>2. Step(r, n)
      BY <2>1
    <3> HIDE DEF n, q
    <3>3. /\ n \in ReqType /\ n.pc = "delete" /\ n.own = q.own /\ n.hole = q.hole
          /\ n.fill = q.fill /\ n.shared = q.shared /\ n.row = q.row /\ n.reused = q.reused
          /\ n.out = o
      BY ONLY <3>1, <1>2, <1>3, PrintFields DEF ReqType
    <3> QED BY <3>2, <3>3
  <2>2. CASE Step(r, [q EXCEPT !.pc = "delete", !.failed = TRUE])
    <3> DEFINE n == [q EXCEPT !.pc = "delete", !.failed = TRUE]
    <3>1. n = [q EXCEPT !.pc = "delete", !.failed = TRUE]
      OBVIOUS
    <3>2. Step(r, n)
      BY <2>2
    <3> HIDE DEF n, q
    <3>3. /\ n \in ReqType /\ n.pc = "delete" /\ n.own = q.own /\ n.hole = q.hole
          /\ n.fill = q.fill /\ n.shared = q.shared /\ n.row = q.row /\ n.reused = q.reused
          /\ n.out = q.out
      BY ONLY <3>1, <1>2, <1>3, FailFields DEF ReqType
    <3> QED BY <3>2, <3>3
  <2> QED BY <2>1, <2>2 DEF Execute, o
<1>6. Coherent(n, Len(maps))
  BY <1>1, <1>2, <1>4, <1>5 DEF Coherent, Visiting
<1>7. Shape'
  BY <1>1, <1>2, <1>5, <1>6, ShapeStep DEF RenderInv, Shape
<1>8. req'[r] = n /\ \A s \in Request \ {r} : req'[s] = req[s]
  BY <1>5, Frame DEF RenderInv
<1>9. Within(r)
  BY <1>1, <1>5, <1>8 DEF Within, Visiting
<1>10. Owned'
  <2> SUFFICES ASSUME NEW f \in 1..Len(maps), NEW i \in 1..NumRows, maps[f][i] # NoParams
               PROVE  \E s \in Request : Dirty(s, f, i)'
    BY <1>1 DEF Owned
  <2>1. PICK s \in Request : Dirty(s, f, i)
    BY DEF RenderInv, Owned
  <2>2. s = r => Dirty(r, f, i)'
    BY <2>1, <1>5, <1>8 DEF Dirty
  <2> QED BY <2>1, <2>2, <1>9, VisitStep
<1>11. SetByOwner'
  BY <1>5, <1>8, <1>9, VisitStep DEF SetByOwner
<1> QED BY <1>7, <1>9, <1>10, <1>11, VisitStep DEF RenderInv

(* The three ways on from a row: nobody is in a visit of it through r any    *)
(* more, and it is clean unless somebody else set it.                        *)
LEMMA LeaveRow ==
    ASSUME RenderInv, NEW r \in Request, req[r].pc = "delete", NEW n \in ReqType, Step(r, n),
           Coherent(n, Len(maps)), maps' = Deleted(r), cached' = cached, pages' = pages,
           \/ n.pc \notin Visiting
           \/ n.pc \in {"set", "put"} /\ n.fill = req[r].fill /\ n.shared = req[r].shared
    PROVE  RenderInv'
<1> DEFINE q == req[r]
<1>1. /\ q \in ReqType /\ Coherent(q, Len(maps)) /\ Len(maps) \in Nat
      /\ q.fill \in 1..Len(maps) /\ q.row \in 1..NumRows /\ q.own \in Params
      /\ maps \in Seq([1..NumRows -> Params])
  BY DEF RenderInv, Shape, Coherent, Visiting, ReqType
<1>2. /\ maps' \in Seq([1..NumRows -> Params]) /\ Len(maps') = Len(maps)
      /\ q.own # NoParams => maps'[q.fill][q.row] = NoParams
      /\ q.own = NoParams => maps' = maps
      /\ \A g \in 1..Len(maps), j \in 1..NumRows :
           g # q.fill \/ j # q.row => maps'[g][j] = maps[g][j]
  <2>1. CASE q.own = NoParams
    BY <2>1, <1>1 DEF Deleted
  <2>2. CASE q.own # NoParams
    <3>1. maps' = [maps EXCEPT ![q.fill][q.row] = NoParams] /\ NoParams \in Params
      BY <2>2 DEF Deleted, Params
    <3>2. /\ maps' \in Seq([1..NumRows -> Params]) /\ Len(maps') = Len(maps)
          /\ maps'[q.fill][q.row] = NoParams
          /\ \A g \in 1..Len(maps), j \in 1..NumRows :
               g # q.fill \/ j # q.row => maps'[g][j] = maps[g][j]
      <4> HIDE DEF q
      <4> QED BY ONLY <3>1, <1>1, SetCell
    <3> QED BY <2>2, <3>2
  <2> QED BY <2>1, <2>2
<1>3. Shape'
  BY <1>1, <1>2, ShapeStep DEF RenderInv, Shape
<1>4. req'[r] = n /\ \A s \in Request \ {r} : req'[s] = req[s]
  BY Frame DEF RenderInv
<1>5. Owned'
  <2> SUFFICES ASSUME NEW f \in 1..Len(maps), NEW i \in 1..NumRows, maps'[f][i] # NoParams
               PROVE  \E s \in Request : Dirty(s, f, i)'
    BY <1>2 DEF Owned
  <2>1. maps[f][i] # NoParams /\ ~(q.own # NoParams /\ f = q.fill /\ i = q.row)
    BY <1>2
  <2>2. PICK s \in Request : Dirty(s, f, i)
    BY <2>1 DEF RenderInv, Owned
  <2>3. s # r
    BY <2>1, <2>2 DEF Dirty
  <2> QED BY <2>2, <2>3, <1>4 DEF Dirty
<1>6. \A s \in Request : OwnFill(s)' => /\ OwnFill(s) /\ req'[s].fill = req[s].fill
                                        /\ req[s].fill \in 1..Len(maps)
  BY <1>4 DEF OwnFill, RenderInv, Shape, Coherent, Visiting
<1>7. \A s \in Request : req'[s].pc \in Visiting =>
        req[s].pc \in Visiting /\ req'[s].fill = req[s].fill
  BY <1>4 DEF Visiting
<1>8. Unshared'
  <2> SUFFICES ASSUME NEW t \in Request, OwnFill(t)'
               PROVE  /\ req'[t].fill # cached
                      /\ \A s \in Request \ {t} :
                           req'[s].pc \in Visiting => req'[s].fill # req'[t].fill
    BY DEF Unshared
  <2> QED BY <1>6, <1>7 DEF RenderInv, Unshared
<1>9. SetByOwner'
  <2> SUFFICES ASSUME NEW t \in Request, OwnFill(t)', req'[t].pc = "execute"
               PROVE  maps'[req'[t].fill][req'[t].row] = req'[t].own
    BY DEF SetByOwner
  <2>1. t # r /\ OwnFill(t) /\ req'[t] = req[t]
    BY <1>4, <1>6 DEF Visiting
  <2>2. req[t].fill # q.fill /\ req[t].row \in 1..NumRows
    BY <2>1 DEF RenderInv, Unshared, Visiting, Shape, Coherent, OwnFill
  <2> QED BY <2>1, <2>2, <1>2, <1>6 DEF RenderInv, SetByOwner
<1>10. PagesTyped' /\ OwnFillShowsOwnParams'
  BY DEF RenderInv, PagesTyped, OwnFillShowsOwnParams
<1> QED BY <1>3, <1>5, <1>8, <1>9, <1>10 DEF RenderInv


LEMMA DeleteParamsInv ==
    ASSUME RenderInv, NEW r \in Request, DeleteParams(r) PROVE RenderInv'
<1> DEFINE q == req[r]
<1>1. q.pc = "delete" /\ maps' = Deleted(r) /\ UNCHANGED <<cached, pages>>
  BY DEF DeleteParams
<1>2. /\ q \in ReqType /\ Coherent(q, Len(maps)) /\ Len(maps) \in Nat
      /\ q.hole \in 1..Len(Holes) /\ q.fill \in 1..Len(maps) /\ q.row \in 1..NumRows
      /\ NumRows \in Nat
  BY <1>1, HoleRenderAssumption DEF RenderInv, Shape, Coherent, Visiting
<1>3. CASE Step(r, Idle)
  <2>1. Idle \in ReqType /\ Idle.pc \notin Visiting /\ Coherent(Idle, Len(maps))
    BY <1>2, IdleType DEF Coherent, Visiting
  <2> QED BY <1>1, <1>3, <2>1, LeaveRow
<1>4. CASE q.row < NumRows /\ Step(r, [q EXCEPT !.pc = "set", !.row = q.row + 1])
  <2> DEFINE i == q.row + 1
             n == [q EXCEPT !.pc = "set", !.row = i]
  <2>1. n = [q EXCEPT !.pc = "set", !.row = i]
    OBVIOUS
  <2>2. Step(r, n)
    BY <1>4
  <2>3. i \in Nat /\ i \in 1..NumRows /\ "set" \in Pcs
    BY <1>2, <1>4 DEF Pcs
  <2> HIDE DEF n, i
  <2>4. /\ n \in ReqType /\ n.pc = "set" /\ n.own = q.own /\ n.hole = q.hole /\ n.fill = q.fill
        /\ n.shared = q.shared /\ n.row = i /\ n.reused = q.reused /\ n.out = q.out
    <3> HIDE DEF q
    <3> QED BY ONLY <2>1, <2>3, <1>2, RowFields DEF ReqType
  <2>5. Coherent(n, Len(maps))
    BY <1>1, <1>2, <2>3, <2>4 DEF Coherent, Visiting
  <2> QED BY <1>1, <2>2, <2>4, <2>5, LeaveRow
<1>5. CASE Step(r, Advance(q))
  <2>1. Advance(q) \in ReqType /\ Advance(q).pc \notin Visiting /\ Coherent(Advance(q), Len(maps))
    BY <1>1, <1>2, Advances DEF Coherent, Visiting
  <2> QED BY <1>1, <1>5, <2>1, LeaveRow
<1>6. CASE Step(r, [q EXCEPT !.pc = "put"])
  <2> DEFINE n == [q EXCEPT !.pc = "put"]
  <2>1. n = [q EXCEPT !.pc = "put"]
    OBVIOUS
  <2>2. Step(r, n)
    BY <1>6
  <2>3. "put" \in Pcs
    BY DEF Pcs
  <2> HIDE DEF n
  <2>4. /\ n \in ReqType /\ n.pc = "put" /\ n.own = q.own /\ n.hole = q.hole /\ n.fill = q.fill
        /\ n.shared = q.shared /\ n.row = q.row /\ n.reused = q.reused /\ n.out = q.out
    <3> HIDE DEF q
    <3> QED BY ONLY <2>1, <2>3, <1>2, PcFields DEF ReqType
  <2>5. Coherent(n, Len(maps))
    BY <1>1, <1>2, <2>4 DEF Coherent, Visiting
  <2> QED BY <1>1, <2>2, <2>4, <2>5, LeaveRow
<1> QED BY <1>3, <1>4, <1>5, <1>6 DEF DeleteParams

LEMMA RowPutInv ==
    ASSUME RenderInv, NEW r \in Request, RowPut(r) PROVE RenderInv'
<1> DEFINE q == req[r]
           n == Advance(q)
<1>1. q.pc = "put" /\ cached' = q.fill /\ Step(r, n) /\ UNCHANGED <<maps, pages>>
  BY DEF RowPut
<1>2. /\ q \in ReqType /\ Coherent(q, Len(maps)) /\ q.hole \in 1..Len(Holes)
      /\ q.fill \in 1..Len(maps) /\ Len(maps) \in Nat
  BY <1>1 DEF RenderInv, Shape, Coherent, Visiting
<1>3. n \in ReqType /\ n.pc \notin Visiting /\ Coherent(n, Len(maps))
  BY <1>1, <1>2, Advances DEF Coherent, Visiting
<1> HIDE DEF n
<1>4. Shape'
  BY <1>1, <1>2, <1>3, ShapeStep DEF RenderInv, Shape
<1>5. req'[r] = n /\ \A s \in Request \ {r} : req'[s] = req[s]
  BY <1>1, <1>3, Frame DEF RenderInv
<1>6. Owned'
  <2> SUFFICES ASSUME NEW f \in 1..Len(maps), NEW i \in 1..NumRows, maps[f][i] # NoParams
               PROVE  \E s \in Request : Dirty(s, f, i)'
    BY <1>1 DEF Owned
  <2>1. PICK s \in Request : Dirty(s, f, i)
    BY DEF RenderInv, Owned
  <2>2. s # r
    BY <1>1, <2>1 DEF Dirty
  <2> QED BY <2>1, <2>2, <1>5 DEF Dirty
<1>7. \A s \in Request : OwnFill(s)' => s # r /\ OwnFill(s) /\ req'[s] = req[s]
  BY <1>3, <1>5 DEF OwnFill
<1>8. Unshared'
  <2> SUFFICES ASSUME NEW t \in Request, OwnFill(t)'
               PROVE  /\ req'[t].fill # cached'
                      /\ \A s \in Request \ {t} :
                           req'[s].pc \in Visiting => req'[s].fill # req'[t].fill
    BY DEF Unshared
  <2>1. t # r /\ OwnFill(t) /\ req'[t] = req[t]
    BY <1>7
  <2>2. req[t].fill # q.fill
    BY <1>1, <2>1 DEF RenderInv, Unshared, Visiting
  <2>3. \A s \in Request \ {t} : req'[s].pc \in Visiting => req'[s] = req[s]
    BY <1>3, <1>5
  <2> QED BY <1>1, <2>1, <2>2, <2>3 DEF RenderInv, Unshared
<1>9. SetByOwner'
  BY <1>1, <1>7 DEF RenderInv, SetByOwner
<1>10. PagesTyped' /\ OwnFillShowsOwnParams'
  BY <1>1 DEF RenderInv, PagesTyped, OwnFillShowsOwnParams
<1> QED BY <1>4, <1>6, <1>8, <1>9, <1>10 DEF RenderInv

LEMMA OutputPutInv ==
    ASSUME RenderInv, NEW r \in Request, OutputPut(r) PROVE RenderInv'
<1> DEFINE q == req[r]
<1>1. q.pc = "output" /\ Step(r, Idle) /\ UNCHANGED <<maps, cached>>
  BY DEF OutputPut
<1>2. /\ q.own \in Params /\ q.out \in Seq(Params) /\ q.reused \in BOOLEAN
      /\ q.reused \/ \A i \in DOMAIN q.out : q.out[i] = q.own
  BY <1>1 DEF RenderInv, Shape, Coherent, ReqType
<1>3. DOMAIN pages' = DOMAIN pages \cup {q.own}
  BY DEF OutputPut
<1>4. pages'[q.own].out = q.out /\ pages'[q.own].reused = q.reused
  BY DEF OutputPut
<1>5. \A b \in DOMAIN pages \ {q.own} : pages'[b] = pages[b]
  BY DEF OutputPut
<1>6. PagesTyped'
  BY <1>2, <1>3, <1>4, <1>5 DEF RenderInv, PagesTyped, IsOut, Params
<1>7. OwnFillShowsOwnParams'
  BY <1>2, <1>3, <1>4, <1>5 DEF RenderInv, OwnFillShowsOwnParams
<1> QED BY <1>1, <1>6, <1>7, ToIdleInv

LEMMA TableWrittenInv == ASSUME RenderInv, TableWritten PROVE RenderInv'
<1>1. /\ cached' = 0 /\ UNCHANGED <<maps, req, up>> /\ DOMAIN pages' = {}
  BY DEF TableWritten
<1>2. Shape' /\ Owned' /\ SetByOwner'
  BY <1>1 DEF RenderInv, Shape, Owned, SetByOwner, OwnFill, Dirty
<1>3. Unshared'
  <2> SUFFICES ASSUME NEW t \in Request, OwnFill(t) PROVE req[t].fill # 0
    BY <1>1 DEF RenderInv, Unshared, OwnFill
  <2> QED BY DEF RenderInv, Shape, Coherent, OwnFill
<1>4. PagesTyped' /\ OwnFillShowsOwnParams'
  BY <1>1 DEF PagesTyped, OwnFillShowsOwnParams
<1> QED BY <1>2, <1>3, <1>4 DEF RenderInv

LEMMA StutterInv == ASSUME RenderInv, UNCHANGED <<maps, cached, pages, req>>, up' \in BOOLEAN PROVE RenderInv'
  BY DEF RenderInv, Shape, Owned, Unshared, SetByOwner, OwnFill, Dirty, PagesTyped, OwnFillShowsOwnParams

LEMMA InitInv == ASSUME RenderInit PROVE RenderInv
<1>1. maps = <<>> /\ Len(maps) = 0 /\ cached = 0 /\ up = TRUE /\ DOMAIN pages = {}
      /\ req = [r \in Request |-> Idle]
  BY DEF RenderInit
<1>2. Shape
  BY <1>1, IdleType DEF Shape
<1>3. \A r \in Request : req[r].pc = "idle"
  BY <1>1, IdleType
<1> QED BY <1>1, <1>2, <1>3 DEF RenderInv, Owned, Unshared, SetByOwner, OwnFill, Visiting, PagesTyped,
      OwnFillShowsOwnParams

LEMMA RenderInductive == RenderSpec => []RenderInv
<1>1. RenderInv /\ [RenderNext]_renderVars => RenderInv'
  <2> SUFFICES ASSUME RenderInv, [RenderNext]_renderVars PROVE RenderInv'
    OBVIOUS
  <2>1. ASSUME NEW r \in Request, NEW b \in Params, Start(r, b) PROVE RenderInv'
    BY <2>1, StartInv
  <2>2. ASSUME NEW r \in Request, ParamHole(r) \/ RowHit(r) \/ RowMiss(r) PROVE RenderInv'
    BY <2>2, ParamHoleInv, RowHitInv, RowMissInv
  <2>3. ASSUME NEW r \in Request, SetParams(r) \/ Execute(r) \/ DeleteParams(r) PROVE RenderInv'
    BY <2>3, SetParamsInv, ExecuteInv, DeleteParamsInv
  <2>4. ASSUME NEW r \in Request, RowPut(r) \/ OutputPut(r) PROVE RenderInv'
    BY <2>4, RowPutInv, OutputPutInv
  <2>5. CASE TableWritten
    BY <2>5, TableWrittenInv
  <2>6. CASE ConcurrentMapFault
    BY <2>6, StutterInv DEF ConcurrentMapFault
  <2>7. CASE UNCHANGED renderVars
    BY <2>7, StutterInv DEF renderVars, RenderInv, Shape
  <2> QED BY <2>1, <2>2, <2>3, <2>4, <2>5, <2>6, <2>7 DEF RenderNext, Params
<1> QED BY <1>1, InitInv, PTL DEF RenderSpec

(* Every state of the rendering is well typed, for all constants.            *)
THEOREM RenderTypeCorrect == RenderSpec => []RenderTypeOK
<1>1. RenderInv => RenderTypeOK
  <2> SUFFICES ASSUME RenderInv PROVE RenderTypeOK
    OBVIOUS
  <2>1. \A r \in Request : /\ req[r] \in ReqType /\ Coherent(req[r], Len(maps))
    BY DEF RenderInv, Shape
  <2>2. \A r \in Request : {req[r].shared, req[r].failed, req[r].reused} \subseteq BOOLEAN
    BY <2>1 DEF ReqType
  <2>3. \A r \in Request : /\ req[r].pc \in Pcs /\ req[r].own \in Params
                           /\ req[r].out \in Seq(Params)
    BY <2>1 DEF ReqType
  <2> QED BY <2>1, <2>2, <2>3 DEF RenderInv, Shape, PagesTyped, RenderTypeOK, Coherent, IsOut,
        Pcs, Params
<1> QED BY <1>1, RenderInductive, PTL

(* Whatever the number of requests, rows and holes, whoever visits the same  *)
(* cached rows at the same time and whichever templates fail, the rows are   *)
(* without bindings once nobody is visiting them (holes.go).                 *)
THEOREM RowsLeftClean == RenderSpec => []CachedRowsClean
<1>1. RenderInv => CachedRowsClean
  BY DEF RenderInv, CachedRowsClean, Owned, Dirty, Shape
<1> QED BY <1>1, RenderInductive, PTL

(* A page made of the request's own fill or without rows shows the request's *)
(* own bindings: a fill's maps are nobody else's until Put.                  *)
THEOREM OwnParamsShown == RenderSpec => []OwnFillShowsOwnParams
  BY RenderInductive, PTL DEF RenderInv
=============================================================================
