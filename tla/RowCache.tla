------------------------------ MODULE RowCache ------------------------------
(***************************************************************************)
(* fastdb.Cache (modules/fastdb/cache.go): the query-result cache of a     *)
(* connection pool, with the per-table write-rate bypass.  One action per  *)
(* method; each is one critical section of Cache.mu.  The methods read the *)
(* clock before they take the mutex, so the `now' a critical section works *)
(* with may be up to MaxLag behind the clock.                              *)
(***************************************************************************)
EXTENDS TaggedLru

CONSTANTS
    Sql,        \* query texts whose table list could be extracted
    Key,        \* values of the 64-bit FNV hash
    Table,
    Rows,       \* query results
    Miss,       \* the answer (nil, false)
    HashOf,     \* Sql -> Key: hashSQL, which may collide
    TablesOf,   \* Sql -> SUBSET Table: tablesFor
    SizeOf,     \* Rows -> Nat: estimateBytes
    BypassWriteThreshold, BypassWindow, BypassCooldown,
    MaxLag,     \* bound: ticks between time.Now() and mu.Lock()
    MaxClock,   \* bound: ticks in a behaviour
    MaxWrites   \* bound: hook fires counted in one window

ASSUME RowCacheAssumption ==
    /\ HashOf \in [Sql -> Key]
    /\ TablesOf \in [Sql -> (SUBSET Table) \ {{}}]
    /\ SizeOf \in [Rows -> Nat \ {0}]
    /\ Miss \notin Rows
    /\ BypassWriteThreshold \in Nat \ {0}
    /\ BypassWindow \in Nat \ {0}
    /\ BypassCooldown \in Nat \ {0}
    /\ MaxLag \in Nat /\ MaxClock \in Nat \ {0} /\ MaxWrites \in Nat \ {0}

VARIABLES
    cache,      \* entries, reverse, LRU order, curBytes
    tables,     \* table -> tableStats
    clock,      \* time.Now(); 0 is the zero time
    last        \* the last call and what it returned

vars == <<cache, tables, clock, last>>

Entry == [sql : Sql, rows : Rows, tables : SUBSET Table, bytes : Nat]

TableStats == [windowStart : Nat, writes : Nat, bypassedUntil : Nat]

Nows == {n \in 1..clock : n + MaxLag >= clock}

Bypassed(t, now) == t \in DOMAIN tables /\ now < tables[t].bypassedUntil

---------------------------------------------------------------------------
NewCache ==
    /\ cache = Empty
    /\ tables = EmptyFcn
    /\ clock = 1
    /\ last = [op |-> "none"]

(* Mutant: the hash alone decides. *)
HitOnHash(sql) == HashOf[sql] \in Live(cache)

Hit(sql) == HashOf[sql] \in Live(cache) /\ cache.entries[HashOf[sql]].sql = sql

GetHit(sql, now) ==
    /\ \A t \in TablesOf[sql] : ~Bypassed(t, now)
    /\ Hit(sql)
    /\ cache' = MoveToFront(cache, HashOf[sql])
    /\ last' = [op |-> "get", name |-> sql, answer |-> cache.entries[HashOf[sql]].rows]
    /\ UNCHANGED <<tables, clock>>

GetMiss(sql, now) ==
    /\ (\E t \in TablesOf[sql] : Bypassed(t, now)) \/ ~Hit(sql)
    /\ last' = [op |-> "get", name |-> sql, answer |-> Miss]
    /\ UNCHANGED <<cache, tables, clock>>

NewEntry(sql, rows) ==
    [sql |-> sql, rows |-> rows, tables |-> TablesOf[sql], bytes |-> SizeOf[rows]]

(* Mutant: Put stores whether or not a table is bypassed. *)
PutIgnoresBypass(sql, rows, now) ==
    /\ cache' \in PutLocked(cache, HashOf[sql], NewEntry(sql, rows))
    /\ last' = [op |-> "put", name |-> sql, value |-> rows]
    /\ UNCHANGED <<tables, clock>>

Put(sql, rows, now) ==
    /\ \/ /\ \E t \in TablesOf[sql] : Bypassed(t, now)
          /\ UNCHANGED cache
       \/ /\ \A t \in TablesOf[sql] : ~Bypassed(t, now)
          /\ cache' \in PutLocked(cache, HashOf[sql], NewEntry(sql, rows))
    /\ last' = [op |-> "put", name |-> sql, value |-> rows]
    /\ UNCHANGED <<tables, clock>>

(* Mutant: the cooldown is counted backwards. *)
CountWriteBackwards(t, now) ==
    IF t \in DOMAIN tables
    THEN [tables[t] EXCEPT !.writes = @ + 1, !.bypassedUntil = now - BypassCooldown]
    ELSE [windowStart |-> now, writes |-> 1, bypassedUntil |-> 0]

(* The write-rate bookkeeping of invalidateTable. *)
CountWrite(t, now) ==
    LET st == IF t \in DOMAIN tables
              THEN tables[t]
              ELSE [windowStart |-> now, writes |-> 0, bypassedUntil |-> 0]
        counted == IF now - st.windowStart > BypassWindow
                   THEN [st EXCEPT !.windowStart = now, !.writes = 1]
                   ELSE [st EXCEPT !.writes = @ + 1]
    IN  IF counted.writes > BypassWriteThreshold /\ now >= counted.bypassedUntil
        THEN [counted EXCEPT !.bypassedUntil = now + BypassCooldown]
        ELSE counted

InvalidateTable(t, now) ==
    /\ CountWrite(t, now).writes <= MaxWrites
    /\ tables' = [u \in DOMAIN tables \cup {t} |->
                    IF u = t THEN CountWrite(t, now) ELSE tables[u]]
    /\ cache' = InvalidateLocked(cache, t)
    /\ last' = [op |-> "invalidate", table |-> t]
    /\ UNCHANGED clock

(* The write-rate history survives a flush. *)
FlushAll ==
    /\ cache' = Empty
    /\ last' = [op |-> "flush"]
    /\ UNCHANGED <<tables, clock>>

Tick ==
    /\ clock < MaxClock
    /\ clock' = clock + 1
    /\ UNCHANGED <<cache, tables, last>>

Next ==
    \/ \E sql \in Sql, now \in Nows :
         \/ GetHit(sql, now)
         \/ GetMiss(sql, now)
         \/ \E rows \in Rows : Put(sql, rows, now)
    \/ \E t \in Table, now \in Nows : InvalidateTable(t, now)
    \/ FlushAll
    \/ Tick

Spec == NewCache /\ [][Next]_vars

---------------------------------------------------------------------------
(* Type invariant.  (That the byte counter is an integer of the right      *)
(* value is BytesAccounted.)                                               *)
TypeOK ==
    /\ Live(cache) \subseteq Key
    /\ \A k \in Live(cache) : cache.entries[k] \in Entry
    /\ DOMAIN cache.reverse \subseteq Table
    /\ \A t \in DOMAIN cache.reverse : cache.reverse[t] \subseteq Key
    /\ \A k \in DOMAIN cache.behind : cache.behind[k] \subseteq Key
    /\ DOMAIN tables \subseteq Table
    /\ tables \in [DOMAIN tables -> TableStats]
    /\ clock \in Nat \ {0}

(* After any sequence of calls the reverse index is the exact inverse of   *)
(* the entries' table lists (removeLocked and Put keep both in step).      *)
IndexMatchesEntries == IndexExact(cache)

(* After any sequence of calls the LRU list holds exactly the live entries *)
(* in one line, so the eviction loop can always find a victim.             *)
LruHoldsLiveEntries == OrderTotal(cache)

(* curBytes equals the size of the live entries after every replacement,   *)
(* eviction, invalidation and flush: drift would starve or unbound Put.    *)
BytesAccounted == BytesExact(cache)

(* Neither cap is exceeded once Put has returned, an oversized result      *)
(* included (the loop then empties the list).                              *)
CapsRespected == WithinCaps(cache)

(* No entry reads a table that is bypassed now, though Put tests the       *)
(* bypass with a clock value older than its critical section.              *)
BypassedTablesUncached ==
    \A k \in Live(cache) : \A t \in cache.entries[k].tables : ~Bypassed(t, clock)

(* An entry is filed under the hash of its own query and carries exactly   *)
(* the tables of that query, so that a colliding query neither hits it nor *)
(* leaves its own tables behind in the index.                              *)
FiledByQuery(c) ==
    \A k \in Live(c) : /\ HashOf[c.entries[k].sql] = k
                       /\ c.entries[k].tables = TablesOf[c.entries[k].sql]

(***************************************************************************)
(* Refinement: with the stored answers read off the entries, the cache is  *)
(* a TaggedStore.                                                          *)
(***************************************************************************)
AnswersOf(c) == [sql \in {c.entries[k].sql : k \in Live(c)} |-> c.entries[HashOf[sql]].rows]

Answers == AnswersOf(cache)

Store == INSTANCE TaggedStore
             WITH Name <- Sql, Value <- Rows, TagsOf <- TablesOf, store <- Answers

(* A hit is the result last accepted for that very query text and not      *)
(* invalidated or flushed since: Cache implements TaggedStore.             *)
ImplementsTaggedStore == Store!StoreSpec
=============================================================================
