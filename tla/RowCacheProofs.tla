--------------------------- MODULE RowCacheProofs ---------------------------
(***************************************************************************)
(* Proofs about fastdb.Cache.  The inductive invariant joins what the      *)
(* single invariants need of each other: the index must be exact for an    *)
(* invalidation to find the entries of a table, and entries must be filed  *)
(* under their own query for the bypass test of Put to be about the tables *)
(* the entry is stored with.                                               *)
(***************************************************************************)
EXTENDS RowCache, TaggedLruProofs

IInv ==
    /\ TypeOK
    /\ WellFormed(cache)
    /\ Accounted(cache)
    /\ CapsRespected
    /\ BypassedTablesUncached
    /\ FiledByQuery(cache)

LEMMA InitIInv == NewCache => IInv
<1> SUFFICES ASSUME NewCache PROVE IInv
  OBVIOUS
<1>1. cache = Empty /\ WellFormed(cache) /\ Live(cache) = {}
  BY EmptyWellFormed DEF NewCache
<1>2. Accounted(cache) /\ CapsRespected
  BY <1>1, EmptyAccounted DEF CapsRespected
<1>3. TypeOK
  BY <1>1 DEF TypeOK, NewCache, Empty, EmptyFcn, EmptyOrder
<1> QED BY <1>1, <1>2, <1>3 DEF IInv, BypassedTablesUncached, FiledByQuery

(* The entries' types carry over to the index and the list. *)
LEMMA CacheTypes ==
    ASSUME NEW c, WellFormed(c), Live(c) \subseteq Key,
           \A k \in Live(c) : c.entries[k] \in Entry
    PROVE  /\ DOMAIN c.reverse \subseteq Table
           /\ \A t \in DOMAIN c.reverse : c.reverse[t] \subseteq Key
           /\ \A k \in DOMAIN c.behind : c.behind[k] \subseteq Key
<1>1. \A t \in DOMAIN c.reverse : \E k \in Live(c) : t \in c.entries[k].tables
  BY DEF WellFormed, IndexExact
<1>2. \A k \in Live(c) : c.entries[k].tables \subseteq Table
  BY DEF Entry
<1> QED BY <1>1, <1>2 DEF WellFormed, IndexExact, OrderTotal

LEMMA NewEntryType ==
    ASSUME NEW sql \in Sql, NEW rows \in Rows
    PROVE  NewEntry(sql, rows) \in Entry
  BY RowCacheAssumption DEF NewEntry, Entry

LEMMA GetHitIInv ==
    ASSUME IInv, NEW sql \in Sql, NEW now \in Nows, GetHit(sql, now)
    PROVE  IInv'
<1>1. HashOf[sql] \in Live(cache) /\ cache' = MoveToFront(cache, HashOf[sql])
  BY DEF GetHit, Hit
<1>2. WellFormed(cache') /\ cache'.entries = cache.entries /\ Live(cache') = Live(cache)
  BY <1>1, MoveWellFormed DEF IInv, Live
<1>3. TypeOK'
  BY <1>2, CacheTypes DEF IInv, TypeOK, GetHit
<1>4. Accounted(cache') /\ WithinCaps(cache')
  BY <1>1, MoveAccounted DEF IInv, CapsRespected
<1> QED BY <1>2, <1>3, <1>4 DEF IInv, GetHit, CapsRespected, BypassedTablesUncached, Bypassed, FiledByQuery

LEMMA PutIInv ==
    ASSUME IInv, NEW sql \in Sql, NEW rows \in Rows, NEW now \in Nows, Put(sql, rows, now)
    PROVE  IInv'
<1>1. CASE UNCHANGED cache
  BY <1>1 DEF IInv, Put, TypeOK, CapsRespected, BypassedTablesUncached, Bypassed, FiledByQuery
<1>2. CASE /\ \A t \in TablesOf[sql] : ~Bypassed(t, now)
           /\ cache' \in PutLocked(cache, HashOf[sql], NewEntry(sql, rows))
  <2> DEFINE key == HashOf[sql]
             e == NewEntry(sql, rows)
  <2>1. /\ WellFormed(cache')
        /\ Live(cache') \subseteq Live(cache) \cup {key}
        /\ \A x \in Live(cache') : cache'.entries[x] = IF x = key THEN e ELSE cache.entries[x]
        /\ Cardinality(Live(cache')) <= MaxEntries
    BY <1>2, PutWellFormed DEF IInv
  <2>2. /\ e \in Entry /\ key \in Key
        /\ e.sql = sql /\ e.tables = TablesOf[sql]
    BY NewEntryType, RowCacheAssumption DEF NewEntry
  <2>3. UNCHANGED <<tables, clock>>
    BY DEF Put
  <2> HIDE DEF e
  <2>4. TypeOK'
    BY <2>1, <2>2, <2>3, CacheTypes DEF IInv, TypeOK
  <2>5. BypassedTablesUncached'
    <3>1. \A t \in TablesOf[sql] : ~Bypassed(t, clock)
      BY <1>2, RowCacheAssumption DEF IInv, TypeOK, Bypassed, TableStats, Nows
    <3> QED BY <3>1, <2>1, <2>2, <2>3 DEF IInv, BypassedTablesUncached, Bypassed
  <2>6. FiledByQuery(cache')
    BY <2>1, <2>2 DEF IInv, FiledByQuery
  <2>7. Accounted(cache') /\ WithinCaps(cache')
    <3>1. e.bytes \in Nat
      BY <2>2 DEF Entry
    <3> QED BY <1>2, <3>1, PutAccounted DEF IInv, e
  <2> QED BY <2>1, <2>4, <2>5, <2>6, <2>7 DEF IInv, CapsRespected
<1> QED BY <1>1, <1>2 DEF Put

LEMMA InvalidateIInv ==
    ASSUME IInv, NEW t \in Table, NEW now \in Nows, InvalidateTable(t, now)
    PROVE  IInv'
<1>1. /\ WellFormed(cache')
      /\ Live(cache') = {k \in Live(cache) : t \notin cache.entries[k].tables}
      /\ \A k \in Live(cache') : cache'.entries[k] = cache.entries[k]
  BY InvalidateWellFormed DEF IInv, InvalidateTable
<1>2. TypeOK'
  <2>1. CountWrite(t, now) \in TableStats
    <3> DEFINE st == IF t \in DOMAIN tables
                     THEN tables[t]
                     ELSE [windowStart |-> now, writes |-> 0, bypassedUntil |-> 0]
               counted == IF now - st.windowStart > BypassWindow
                          THEN [st EXCEPT !.windowStart = now, !.writes = 1]
                          ELSE [st EXCEPT !.writes = @ + 1]
    <3>1. now \in Nat
      BY DEF IInv, TypeOK, Nows
    <3>2. st \in TableStats
      BY <3>1 DEF IInv, TypeOK, TableStats
    <3> HIDE DEF st
    <3>3. counted \in TableStats
      <4>1. [st EXCEPT !.windowStart = now, !.writes = 1] \in TableStats
        BY <3>1, <3>2 DEF TableStats
      <4>2. [st EXCEPT !.writes = @ + 1] \in TableStats
        BY <3>2 DEF TableStats
      <4> QED BY <4>1, <4>2
    <3>4. CountWrite(t, now) =
            IF counted.writes > BypassWriteThreshold /\ now >= counted.bypassedUntil
            THEN [counted EXCEPT !.bypassedUntil = now + BypassCooldown]
            ELSE counted
      BY DEF CountWrite, st
    <3> HIDE DEF counted
    <3> QED BY <3>1, <3>3, <3>4, RowCacheAssumption DEF TableStats
  <2>2. /\ DOMAIN tables' \subseteq Table /\ tables' \in [DOMAIN tables' -> TableStats]
        /\ clock' = clock
    BY <2>1 DEF IInv, TypeOK, InvalidateTable
  <2> QED BY <1>1, <2>2, CacheTypes DEF IInv, TypeOK
<1>3. Accounted(cache') /\ CapsRespected'
  BY InvalidateAccounted DEF IInv, InvalidateTable, CapsRespected
<1>4. BypassedTablesUncached'
  BY <1>1 DEF IInv, BypassedTablesUncached, Bypassed, InvalidateTable
<1>5. FiledByQuery(cache')
  BY <1>1 DEF IInv, FiledByQuery
<1> QED BY <1>1, <1>2, <1>3, <1>4, <1>5 DEF IInv
LEMMA FlushIInv == IInv /\ FlushAll => IInv'
<1> SUFFICES ASSUME IInv, FlushAll PROVE IInv'
  OBVIOUS
<1>1. cache' = Empty /\ WellFormed(cache') /\ Live(cache') = {} /\ UNCHANGED <<tables, clock>>
  BY EmptyWellFormed DEF FlushAll
<1>2. Accounted(cache') /\ CapsRespected'
  BY <1>1, EmptyAccounted DEF CapsRespected
<1>3. TypeOK'
  BY <1>1 DEF IInv, TypeOK, Empty, EmptyFcn, EmptyOrder
<1> QED BY <1>1, <1>2, <1>3 DEF IInv, BypassedTablesUncached, FiledByQuery

LEMMA TickIInv == IInv /\ Tick => IInv'
<1> SUFFICES ASSUME IInv, Tick PROVE IInv'
  OBVIOUS
<1>1. UNCHANGED <<cache, tables>> /\ clock' = clock + 1
  BY DEF Tick
<1>2. BypassedTablesUncached'
  BY <1>1 DEF IInv, TypeOK, BypassedTablesUncached, Bypassed, TableStats
<1> QED BY <1>1, <1>2 DEF IInv, TypeOK, CapsRespected, FiledByQuery

LEMMA StutterIInv == ASSUME IInv, UNCHANGED <<cache, tables, clock>> PROVE IInv'
  BY DEF IInv, TypeOK, CapsRespected, BypassedTablesUncached, Bypassed, FiledByQuery

LEMMA StepIInv == IInv /\ [Next]_vars => IInv'
<1> SUFFICES ASSUME IInv, [Next]_vars PROVE IInv'
  OBVIOUS
<1>1. ASSUME NEW sql \in Sql, NEW now \in Nows, GetHit(sql, now) PROVE IInv'
  BY <1>1, GetHitIInv
<1>2. ASSUME NEW sql \in Sql, NEW now \in Nows, GetMiss(sql, now) PROVE IInv'
  BY <1>2, StutterIInv DEF GetMiss
<1>3. ASSUME NEW sql \in Sql, NEW now \in Nows, NEW rows \in Rows, Put(sql, rows, now)
      PROVE  IInv'
  BY <1>3, PutIInv
<1>4. ASSUME NEW t \in Table, NEW now \in Nows, InvalidateTable(t, now) PROVE IInv'
  BY <1>4, InvalidateIInv
<1>5. CASE FlushAll
  BY <1>5, FlushIInv
<1>6. CASE Tick
  BY <1>6, TickIInv
<1>7. CASE UNCHANGED vars
  BY <1>7, StutterIInv DEF vars
<1> QED BY <1>1, <1>2, <1>3, <1>4, <1>5, <1>6, <1>7 DEF Next

LEMMA Inductive == Spec => []IInv
  BY InitIInv, StepIInv, PTL DEF Spec

(* Every state of fastdb.Cache is well typed, for all constants. *)
THEOREM TypeCorrect == Spec => []TypeOK
  BY Inductive, PTL DEF IInv

(* The reverse index never loses or keeps a key it should not: every call  *)
(* of Get, Put, invalidateTable and FlushAll leaves it the inverse of the  *)
(* entries, and the LRU list holds the same entries.                       *)
THEOREM IndexCorrect == Spec => [](IndexMatchesEntries /\ LruHoldsLiveEntries)
<1>1. IInv => IndexMatchesEntries /\ LruHoldsLiveEntries
  BY DEF IInv, WellFormed, IndexMatchesEntries, LruHoldsLiveEntries
<1> QED BY <1>1, Inductive, PTL

(* curBytes never drifts from the sizes of the entries in the cache, for   *)
(* any sizes and whatever is replaced, evicted, invalidated or flushed.    *)
THEOREM BytesCorrect == Spec => []BytesAccounted
<1>1. IInv => BytesAccounted
  BY DEF IInv, Accounted, BytesAccounted
<1> QED BY <1>1, Inductive, PTL

(* Put never returns with more than maxEntries entries or maxBytes bytes,  *)
(* a result larger than maxBytes included.                                 *)
THEOREM CapsCorrect == Spec => []CapsRespected
  BY Inductive, PTL DEF IInv

(* However late a Put reaches its critical section, no result of a table   *)
(* that is bypassed at that moment is cached.                              *)
THEOREM BypassCorrect == Spec => []BypassedTablesUncached
  BY Inductive, PTL DEF IInv
---------------------------------------------------------------------------
(* The refinement to TaggedStore. *)

LEMMA AnswersDomain ==
    ASSUME NEW c, FiledByQuery(c)
    PROVE  /\ \A k \in Live(c) : c.entries[k].sql \in DOMAIN AnswersOf(c)
           /\ \A s \in DOMAIN AnswersOf(c) :
                /\ HashOf[s] \in Live(c) /\ c.entries[HashOf[s]].sql = s
                /\ AnswersOf(c)[s] = c.entries[HashOf[s]].rows
  BY DEF FiledByQuery, AnswersOf

(* A cache whose entries are among those of c answers a part of what c     *)
(* answers.                                                                *)
LEMMA AnswersShrink ==
    ASSUME NEW c, NEW d, FiledByQuery(c), FiledByQuery(d), Live(d) \subseteq Live(c),
           \A k \in Live(d) : d.entries[k] = c.entries[k]
    PROVE  AnswersOf(d) \in Store!Shrinks(AnswersOf(c))
<1>1. DOMAIN AnswersOf(d) \subseteq DOMAIN AnswersOf(c)
  BY DEF AnswersOf
<1>2. AnswersOf(d) = [s \in DOMAIN AnswersOf(d) |-> AnswersOf(c)[s]]
  <2>1. \A s \in DOMAIN AnswersOf(d) : AnswersOf(d)[s] = AnswersOf(c)[s]
    BY <1>1, AnswersDomain
  <2> QED BY <2>1 DEF AnswersOf
<1> QED BY <1>1, <1>2 DEF Store!Shrinks

LEMMA PutRefines ==
    ASSUME IInv, IInv', NEW sql \in Sql, NEW rows \in Rows, NEW now \in Nows,
           Put(sql, rows, now)
    PROVE  Store!StorePut(sql, rows)
<1>1. CASE UNCHANGED cache
  BY <1>1 DEF Put, Store!StorePut, Answers
<1>2. CASE cache' \in PutLocked(cache, HashOf[sql], NewEntry(sql, rows))
  <2> DEFINE key == HashOf[sql]
             e == NewEntry(sql, rows)
             A == AnswersOf(cache)
             B == AnswersOf(cache')
             W == [m \in DOMAIN A \cup {sql} |-> IF m = sql THEN rows ELSE A[m]]
  <2>1. /\ Live(cache') \subseteq Live(cache) \cup {key}
        /\ \A x \in Live(cache') : cache'.entries[x] = IF x = key THEN e ELSE cache.entries[x]
    BY <1>2, PutWellFormed DEF IInv
  <2>2. e.sql = sql /\ e.rows = rows
    BY DEF NewEntry
  <2> HIDE DEF e
  <2>3. ASSUME NEW s \in DOMAIN B
        PROVE  s \in DOMAIN W /\ B[s] = W[s]
    <3>1. /\ HashOf[s] \in Live(cache') /\ cache'.entries[HashOf[s]].sql = s
          /\ B[s] = cache'.entries[HashOf[s]].rows
      BY <2>3, AnswersDomain DEF IInv
    <3>2. CASE HashOf[s] = key
      BY <3>1, <3>2, <2>1, <2>2
    <3>3. CASE HashOf[s] # key
      <4>1. HashOf[s] \in Live(cache) /\ cache.entries[HashOf[s]] = cache'.entries[HashOf[s]]
        BY <3>1, <3>3, <2>1
      <4>2. s \in DOMAIN A /\ A[s] = B[s] /\ s # sql
        BY <4>1, <3>1, <3>3, AnswersDomain DEF IInv
      <4> QED BY <4>2
    <3> QED BY <3>2, <3>3
  <2>4. B = [s \in DOMAIN B |-> W[s]]
    BY <2>3 DEF AnswersOf
  <2>5. B \in Store!Shrinks(W)
    BY <2>3, <2>4 DEF Store!Shrinks
  <2>6. W = Store!With(sql, rows)
    BY DEF Store!With, Answers
  <2> QED BY <2>5, <2>6 DEF Put, Store!StorePut, Answers
<1> QED BY <1>1, <1>2 DEF Put

LEMMA InvalidateRefines ==
    ASSUME IInv, IInv', NEW t \in Table, NEW now \in Nows, InvalidateTable(t, now)
    PROVE  Store!StoreInvalidate(t)
<1>1. /\ Live(cache') = {k \in Live(cache) : t \notin cache.entries[k].tables}
      /\ \A k \in Live(cache') : cache'.entries[k] = cache.entries[k]
  BY InvalidateWellFormed DEF IInv, InvalidateTable
<1>2. Answers' \in Store!Shrinks(Answers)
  BY <1>1, AnswersShrink DEF IInv, Answers
<1>3. \A s \in DOMAIN Answers' : t \notin TablesOf[s]
  BY <1>1, AnswersDomain DEF IInv, Answers, FiledByQuery
<1> QED BY <1>2, <1>3 DEF InvalidateTable, Store!StoreInvalidate

(***************************************************************************)
(* fastdb.Cache is a TaggedStore for every choice of queries, hash         *)
(* function (collisions included), caps and bypass parameters: a hit is    *)
(* what was last accepted for that query, and invalidation is complete.    *)
(***************************************************************************)
THEOREM Refinement == Spec => ImplementsTaggedStore
<1>1. NewCache => Store!StoreInit
  BY EmptyWellFormed DEF NewCache, Store!StoreInit, Answers, AnswersOf
<1>2. IInv /\ IInv' /\ [Next]_vars => [Store!StoreNext]_(Store!storeVars)
  <2> SUFFICES ASSUME IInv, IInv', [Next]_vars
               PROVE  [Store!StoreNext]_(Store!storeVars)
    OBVIOUS
  <2>1. ASSUME NEW sql \in Sql, NEW now \in Nows, GetHit(sql, now)
        PROVE  Store!StoreGet(sql)
    <3>1. HashOf[sql] \in Live(cache) /\ cache.entries[HashOf[sql]].sql = sql
      BY <2>1 DEF GetHit, Hit
    <3>2. cache'.entries = cache.entries
      BY <2>1, <3>1, MoveWellFormed DEF GetHit, IInv
    <3>3. Answers' = Answers
      BY <3>2 DEF Answers, AnswersOf, Live
    <3>4. sql \in DOMAIN Answers /\ Answers[sql] = cache.entries[HashOf[sql]].rows
      BY <3>1, AnswersDomain DEF IInv, Answers
    <3> QED BY <2>1, <3>3, <3>4 DEF GetHit, Store!StoreGet
  <2>2. ASSUME NEW sql \in Sql, NEW now \in Nows, GetMiss(sql, now)
        PROVE  Store!StoreGet(sql)
    BY <2>2 DEF GetMiss, Store!StoreGet, Answers
  <2>3. ASSUME NEW sql \in Sql, NEW now \in Nows, NEW rows \in Rows, Put(sql, rows, now)
        PROVE  Store!StorePut(sql, rows)
    BY <2>3, PutRefines
  <2>4. ASSUME NEW t \in Table, NEW now \in Nows, InvalidateTable(t, now)
        PROVE  Store!StoreInvalidate(t)
    BY <2>4, InvalidateRefines
  <2>5. ASSUME FlushAll PROVE Store!StoreFlush
    <3>1. Live(cache') = {}
      BY <2>5, EmptyWellFormed DEF FlushAll
    <3> QED BY <2>5, <3>1 DEF FlushAll, Store!StoreFlush, Answers, AnswersOf
  <2>6. ASSUME Tick \/ UNCHANGED vars PROVE UNCHANGED Store!storeVars
    BY <2>6 DEF Tick, vars, Store!storeVars, Answers
  <2> QED BY <2>1, <2>2, <2>3, <2>4, <2>5, <2>6 DEF Next, Store!StoreNext
<1> QED BY <1>1, <1>2, Inductive, PTL DEF Spec, ImplementsTaggedStore, Store!StoreSpec
=============================================================================
