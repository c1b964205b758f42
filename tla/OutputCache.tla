---------------------------- MODULE OutputCache ----------------------------
(***************************************************************************)
(* outputCache (cmd/main/output_cache.go): rendered hole pages, keyed by   *)
(* (manifest, hole offset, hash of the URL bindings) and dropped when a    *)
(* table one of their holes reads is written.  One action per method; each *)
(* is one critical section of outputCache.mu.                              *)
(***************************************************************************)
EXTENDS TaggedLru

CONSTANTS
    Key,        \* outputKey values
    Table,
    Page,       \* rendered entries (the three encoded variants together)
    Miss,       \* the answer (nil, false)
    Attributable,  \* keys of routes whose every hole's SQL has a table list;
                   \* for the others unionTables returns nil
    TablesOf,   \* Key -> SUBSET Table: unionTables, for the attributable keys
    SizeOf      \* Page -> Nat: entrySize

ASSUME OutputCacheAssumption ==
    /\ Attributable \subseteq Key
    /\ TablesOf \in [Key -> SUBSET Table]
    /\ SizeOf \in [Page -> Nat]
    /\ Miss \notin Page

VARIABLES
    cache,      \* entries, reverse, LRU order, curBytes
    last        \* the last call and what it returned

vars == <<cache, last>>

Entry == [page : Page, tables : SUBSET Table, bytes : Nat]

---------------------------------------------------------------------------
NewOutputCache == cache = Empty /\ last = [op |-> "none"]

Get(key) ==
    \/ /\ key \in Live(cache)
       /\ cache' = MoveToFront(cache, key)
       /\ last' = [op |-> "get", name |-> key, answer |-> cache.entries[key].page]
    \/ /\ key \notin Live(cache)
       /\ last' = [op |-> "get", name |-> key, answer |-> Miss]
       /\ UNCHANGED cache

NewEntry(key, page) ==
    [page |-> page, tables |-> TablesOf[key], bytes |-> SizeOf[page]]

(* Mutant: pages of unattributable routes are stored too. *)
PutUnattributed(key, page) ==
    /\ cache' \in PutLocked(cache, key, NewEntry(key, page))
    /\ last' = [op |-> "put", name |-> key, value |-> page]

Put(key, page) ==
    /\ \/ key \notin Attributable /\ UNCHANGED cache
       \/ key \in Attributable /\ cache' \in PutLocked(cache, key, NewEntry(key, page))
    /\ last' = [op |-> "put", name |-> key, value |-> page]

Invalidate(table) ==
    /\ cache' = InvalidateLocked(cache, table)
    /\ last' = [op |-> "invalidate", table |-> table]

(* Invalidate(""): an out-of-pool write, any table may have changed. *)
InvalidateAll ==
    /\ cache' = Empty
    /\ last' = [op |-> "flush"]

Next ==
    \/ \E key \in Key : Get(key) \/ \E page \in Page : Put(key, page)
    \/ \E table \in Table : Invalidate(table)
    \/ InvalidateAll

Spec == NewOutputCache /\ [][Next]_vars

---------------------------------------------------------------------------
(* Type invariant. *)
TypeOK ==
    /\ Live(cache) \subseteq Key
    /\ \A k \in Live(cache) : cache.entries[k] \in Entry
    /\ DOMAIN cache.reverse \subseteq Table
    /\ \A t \in DOMAIN cache.reverse : cache.reverse[t] \subseteq Key
    /\ \A k \in DOMAIN cache.behind : cache.behind[k] \subseteq Key

(* After any sequence of calls the reverse index is the exact inverse of   *)
(* the entries' table lists, pages that read no table included.            *)
IndexMatchesEntries == IndexExact(cache)

(* After any sequence of calls the LRU list holds exactly the live pages. *)
LruHoldsLiveEntries == OrderTotal(cache)

(* Neither cap is exceeded once Put has returned. *)
CapsRespected == WithinCaps(cache)

(* A page is stored only with the table list of its route. *)
EntriesFiledByRoute ==
    /\ Live(cache) \subseteq Attributable
    /\ \A k \in Live(cache) : cache.entries[k].tables = TablesOf[k]

Answers == [k \in Live(cache) |-> cache.entries[k].page]

(* A page nobody can attribute counts as reading every table. *)
TagsOf == [k \in Key |-> IF k \in Attributable THEN TablesOf[k] ELSE Table]

Store == INSTANCE TaggedStore WITH Name <- Key, Value <- Page, store <- Answers

(* A hit is the page last stored under the key and not invalidated since,  *)
(* and a page of an unattributable route is never stored: outputCache      *)
(* implements the same TaggedStore as the row cache.                       *)
ImplementsTaggedStore == Store!StoreSpec
=============================================================================
