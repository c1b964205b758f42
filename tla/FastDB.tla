------------------------------- MODULE FastDB -------------------------------
(***************************************************************************)
(* How cached rows and pages keep up with the database: the connection     *)
(* pool and QueryEach (modules/fastdb/fastdb.go), the update hook and the  *)
(* data_version watcher (invalidate.go), and the two-level read-through of *)
(* composeHoleBodyCached (cmd/main/output_cache.go, holes.go).             *)
(*                                                                         *)
(* The two caches appear here as what RowCache and OutputCache are shown   *)
(* to implement, a TaggedStore: a partial function that may forget an      *)
(* entry at any time.  SQLite is external: WAL mode, one writer at a time, *)
(* no busy timeout, a hook that fires inside the writer's sqlite3_step     *)
(* before the commit, and a data_version that a connection finds increased *)
(* when it starts a read after somebody else's commit.                     *)
(***************************************************************************)
EXTENDS Integers, Sequences, FiniteSets

CONSTANTS
    Request,    \* goroutines serving connections
    Route,      \* routes with holes
    Query,      \* hole SQL
    Table,
    Conn,       \* the pool
    HolesOf,    \* Route -> Seq(Query)
    ReadsOf,    \* Query -> SUBSET Table, what it reads
    FiledUnder, \* Query -> the tables extractTables finds in its text, {} for nil
    None,
    MaxPoolWrites,  \* bound: writes started per table
    MaxExtWrites,   \* bound: writes that bypass the pool
    MaxHooks        \* bound: rows changed by one statement

ASSUME FastDBAssumption ==
    /\ Route \subseteq DOMAIN HolesOf /\ \A p \in Route : HolesOf[p] \in Seq(Query) \ {<<>>}
    /\ ReadsOf \in [Query -> SUBSET Table] /\ DOMAIN FiledUnder = Query
    /\ IsFiniteSet(Conn) /\ Conn # {}
    /\ None \notin Conn \cup Request \cup Route \cup Table
    /\ MaxPoolWrites \in Nat /\ MaxExtWrites \in Nat /\ MaxHooks \in Nat \ {0}

(* What a read of q returns, and what a fill remembers of it.              *)
SnapOf(q) == [pool : [ReadsOf[q] -> Nat], ext : Nat]
FillOf(q) == [snap : SnapOf(q), raced : BOOLEAN]

ASSUME NoneAssumption == \A q \in Query : None \notin FillOf(q)

(* The scanner attributes a query to every table it reads, or to none:     *)
(* ExtractTables!TablesAttributed, for the statements of its grammar.      *)
ASSUME AttributionAssumption ==
    \A q \in Query : FiledUnder[q] = {} \/ ReadsOf[q] \subseteq FiledUnder[q]

VARIABLES
    db,       \* SQLite: content, commit count, write lock, data_version per conn
    free,     \* p.conns, a FIFO channel
    rows,     \* the row cache: query -> fill
    pages,    \* the output cache: route -> page
    req,      \* what each goroutine is doing
    watcher   \* the poller's locals

vars == <<db, free, rows, pages, req, watcher>>

---------------------------------------------------------------------------
(* SQLite. A snapshot is what a read of S returns: how many pool writes of *)
(* each table and how many external writes it reflects.                    *)
Snapshot(S) == [pool |-> [t \in S |-> db.pool[t]], ext |-> db.ext]

BeginRead(c) ==
    [db EXCEPT !.seen[c] = db.commits,
               !.dataVersion[c] = IF db.seen[c] = db.commits THEN @ ELSE @ + 1]

NoFcn == [x \in {} |-> x]

Idle == [pc |-> "idle", route |-> None, got |-> <<>>, row |-> None, conn |-> None,
         table |-> None, hooks |-> 0, ok |-> TRUE, notified |-> FALSE]

Without(f, D) == [x \in DOMAIN f \ D |-> f[x]]

With(f, x, v) == [y \in DOMAIN f \cup {x} |-> IF y = x THEN v ELSE f[y]]

NewPool ==
    /\ db = [pool |-> [t \in Table |-> 0], ext |-> 0, commits |-> 0, writer |-> None,
             seen |-> [c \in Conn |-> 0], dataVersion |-> [c \in Conn |-> 1]]
    /\ free \in {s \in [1..Cardinality(Conn) -> Conn] : \A c \in Conn : \E i \in DOMAIN s : s[i] = c}
    /\ rows = NoFcn /\ pages = NoFcn
    /\ req = [r \in Request |-> Idle]
    /\ watcher = [pc |-> "sleep", conn |-> None, ver |-> 0, lastVer |-> -1,
                  ext |-> 0, lastExt |-> 0, base |-> 0]

Goto(r, pc) == req' = [req EXCEPT ![r].pc = pc]

---------------------------------------------------------------------------
(***************************************************************************)
(* Rendering a page.  An output-cache hit changes nothing here; on a miss  *)
(* the holes are evaluated in order, each from the row cache or the        *)
(* database, and the page is stored at the end.                            *)
(*                                                                         *)
(* History for the properties: a fill is raced when its snapshot was taken *)
(* between the row invalidation and the commit of a write of one of its    *)
(* tables, or when an invalidation of such a table fell between its        *)
(* snapshot and its Put; a page is raced when a fill it used is, or when a *)
(* notification for one of its tables fell between obtaining the rows and  *)
(* the page's Put (req[r].notified).                                       *)
(***************************************************************************)
Hole(r) == HolesOf[req[r].route][Len(req[r].got) + 1]

(* Tables some write has announced but not committed. *)
Announced == {req[w].table : w \in {x \in Request : db.writer = x /\ req[x].hooks > 0}}

OutputMiss(r, p) ==
    /\ req[r].pc = "idle"
    /\ p \notin DOMAIN pages
    /\ req' = [req EXCEPT ![r] = [Idle EXCEPT !.pc = "row", !.route = p]]
    /\ UNCHANGED <<db, free, rows, pages, watcher>>

NextHole(r, fill) ==
    LET got == Append(req[r].got, fill)
    IN  [req[r] EXCEPT !.got = got, !.row = None, !.conn = None,
                       !.pc = IF Len(got) = Len(HolesOf[req[r].route]) THEN "output" ELSE "row"]

RowHit(r) ==
    /\ req[r].pc = "row" /\ Hole(r) \in DOMAIN rows
    /\ req' = [req EXCEPT ![r] = NextHole(r, rows[Hole(r)])]
    /\ UNCHANGED <<db, free, rows, pages, watcher>>

RowMiss(r) ==
    /\ req[r].pc = "row" /\ Hole(r) \notin DOMAIN rows
    /\ Goto(r, "acquire")
    /\ UNCHANGED <<db, free, rows, pages, watcher>>

Acquire(r) ==
    /\ req[r].pc = "acquire" /\ free # <<>>
    /\ free' = Tail(free)
    /\ req' = [req EXCEPT ![r].conn = Head(free),
                          ![r].pc = IF req[r].table = None THEN "read" ELSE "begin"]
    /\ UNCHANGED <<db, rows, pages, watcher>>

(* Stepping the statement to its end, or to an error. *)
Read(r) ==
    /\ req[r].pc = "read"
    /\ db' = BeginRead(req[r].conn)
    /\ \/ req' = [req EXCEPT ![r].pc = "release",
                             ![r].row = [snap  |-> Snapshot(ReadsOf[Hole(r)]),
                                         raced |-> ReadsOf[Hole(r)] \cap Announced # {}]]
       \/ req' = [req EXCEPT ![r].pc = "release", ![r].ok = FALSE]
    /\ UNCHANGED <<free, rows, pages, watcher>>

(* Mutant: the connection is not given back after an error. *)
ReleaseUnlessError(r) ==
    /\ req[r].pc = "release"
    /\ free' = IF req[r].ok THEN Append(free, req[r].conn) ELSE free
    /\ req' = [req EXCEPT ![r] = IF req[r].table = None /\ req[r].ok
                                 THEN [@ EXCEPT !.pc = "put", !.conn = None]
                                 ELSE Idle]
    /\ UNCHANGED <<db, rows, pages, watcher>>

(* The deferred send on p.conns; an error ends the request with a 500. *)
Release(r) ==
    /\ req[r].pc = "release"
    /\ free' = Append(free, req[r].conn)
    /\ req' = [req EXCEPT ![r] = IF req[r].table = None /\ req[r].ok
                                 THEN [@ EXCEPT !.pc = "put", !.conn = None]
                                 ELSE Idle]
    /\ UNCHANGED <<db, rows, pages, watcher>>

(* Nothing is stored for a query that is filed under no table. *)
RowPut(r) ==
    /\ req[r].pc = "put"
    /\ rows' = IF FiledUnder[Hole(r)] = {} THEN rows ELSE With(rows, Hole(r), req[r].row)
    /\ req' = [req EXCEPT ![r] = NextHole(r, req[r].row)]
    /\ UNCHANGED <<db, free, pages, watcher>>

(* unionTables: one hole that cannot be attributed keeps the page out. *)
Attributable(p) == \A i \in DOMAIN HolesOf[p] : FiledUnder[HolesOf[p][i]] # {}

OutputPut(r) ==
    /\ req[r].pc = "output"
    /\ pages' = IF ~Attributable(req[r].route) THEN pages
                ELSE With(pages, req[r].route,
                     [snaps |-> [i \in DOMAIN req[r].got |-> req[r].got[i].snap],
                      raced |-> \/ req[r].notified
                                \/ \E i \in DOMAIN req[r].got : req[r].got[i].raced])
    /\ req' = [req EXCEPT ![r] = Idle]
    /\ UNCHANGED <<db, free, rows, watcher>>

(* Eviction, bypass, or a Put the cache declined. *)
ForgetRow(q) ==
    /\ q \in DOMAIN rows /\ rows' = Without(rows, {q})
    /\ UNCHANGED <<db, free, pages, req, watcher>>

ForgetPage(p) ==
    /\ p \in DOMAIN pages /\ pages' = Without(pages, {p})
    /\ UNCHANGED <<db, free, rows, req, watcher>>

---------------------------------------------------------------------------
(***************************************************************************)
(* Invalidation goes by the tables a row or a page is filed under; whether *)
(* it should have happened, by those that holes 1..n of a page read.       *)
(***************************************************************************)
HoleTables(p, n) == UNION {ReadsOf[HolesOf[p][i]] : i \in 1..n}

PageTables(p) == UNION {FiledUnder[HolesOf[p][i]] : i \in DOMAIN HolesOf[p]}

RowsReading(S) == {q \in DOMAIN rows : FiledUnder[q] \cap S # {}}

PagesReading(S) == {p \in DOMAIN pages : PageTables(p) \cap S # {}}

(* History: fills between snapshot and Put when tables S are invalidated. *)
RaceFills(R, S) ==
    [r \in Request |->
       IF R[r].row # None /\ ReadsOf[HolesOf[R[r].route][Len(R[r].got) + 1]] \cap S # {}
       THEN [R[r] EXCEPT !.row.raced = TRUE] ELSE R[r]]

(* History: pages half rendered when a notification for S is delivered. *)
RacePages(R, S) ==
    [r \in Request |->
       IF R[r].route # None /\ HoleTables(R[r].route, Len(R[r].got)) \cap S # {}
       THEN [R[r] EXCEPT !.notified = TRUE] ELSE R[r]]

---------------------------------------------------------------------------
(***************************************************************************)
(* A write statement in a hole: it has no table list, so QueryEach runs it *)
(* directly, and its page is never cached.                                 *)
(***************************************************************************)
StartWrite(r, t) ==
    /\ req[r].pc = "idle" /\ db.pool[t] < MaxPoolWrites
    /\ req' = [req EXCEPT ![r] = [Idle EXCEPT !.pc = "acquire", !.table = t]]
    /\ UNCHANGED <<db, free, rows, pages, watcher>>

(* The write lock, or SQLITE_BUSY. *)
BeginWrite(r) ==
    /\ req[r].pc = "begin"
    /\ IF db.writer = None
       THEN db' = [BeginRead(req[r].conn) EXCEPT !.writer = r] /\ Goto(r, "hook")
       ELSE db' = BeginRead(req[r].conn) /\ Goto(r, "release")
    /\ UNCHANGED <<free, rows, pages, watcher>>

(* Mutants: the hook leaves the row cache alone; the subscriber acts only  *)
(* on table "".                                                            *)
HookOnlyNotifies(r) ==
    /\ req[r].pc = "hook"
    /\ req' = RaceFills([req EXCEPT ![r].pc = "notify", ![r].hooks = @ + 1], {req[r].table})
    /\ UNCHANGED <<db, free, rows, pages, watcher>>

HookNotifyIgnored(r) ==
    /\ req[r].pc = "notify"
    /\ req' = RacePages([req EXCEPT ![r].pc = "applied"], {req[r].table})
    /\ UNCHANGED <<db, free, rows, pages, watcher>>

(* updateHookTrampoline, once per changed row: the row cache first ... *)
HookInvalidate(r) ==
    /\ req[r].pc = "hook" \/ (req[r].pc = "applied" /\ req[r].hooks < MaxHooks)
    /\ rows' = Without(rows, RowsReading({req[r].table}))
    /\ req' = RaceFills([req EXCEPT ![r].pc = "notify", ![r].hooks = @ + 1], {req[r].table})
    /\ UNCHANGED <<db, free, pages, watcher>>

(* ... then the subscribed output cache. *)
HookNotify(r) ==
    /\ req[r].pc = "notify"
    /\ pages' = Without(pages, PagesReading({req[r].table}))
    /\ req' = RacePages([req EXCEPT ![r].pc = "applied"], {req[r].table})
    /\ UNCHANGED <<db, free, rows, watcher>>

(* The statement's auto-commit ... *)
Commit(r) ==
    /\ req[r].pc = "applied"
    /\ db' = [db EXCEPT !.pool[req[r].table] = @ + 1, !.commits = @ + 1,
                        !.seen[req[r].conn] = db.commits + 1, !.writer = None]
    /\ Goto(r, "release")
    /\ UNCHANGED <<free, rows, pages, watcher>>

(* ... or its rollback, after the hook has already fired. *)
Rollback(r) ==
    /\ req[r].pc = "applied"
    /\ db' = [db EXCEPT !.writer = None]
    /\ Goto(r, "release")
    /\ UNCHANGED <<free, rows, pages, watcher>>

(* modules/db, the sqlite3 shell, another process. *)
ExternalWrite ==
    /\ db.writer = None /\ db.ext < MaxExtWrites
    /\ db' = [db EXCEPT !.ext = @ + 1, !.commits = @ + 1]
    /\ UNCHANGED <<free, rows, pages, req, watcher>>

---------------------------------------------------------------------------
(***************************************************************************)
(* dataVersionWatcher.run.  ext, lastExt and base are history: the         *)
(* external writes the poll in hand, the last finished poll and the first  *)
(* poll have seen.                                                         *)
(***************************************************************************)
PollAcquire ==
    /\ watcher.pc = "sleep" /\ free # <<>>
    /\ watcher' = [watcher EXCEPT !.pc = "poll", !.conn = Head(free)]
    /\ free' = Tail(free)
    /\ UNCHANGED <<db, rows, pages, req>>

PollRead ==
    /\ watcher.pc = "poll"
    /\ db' = BeginRead(watcher.conn)
    /\ watcher' = [watcher EXCEPT !.pc = "compare", !.ext = db.ext,
                                  !.ver = db'.dataVersion[watcher.conn]]
    /\ UNCHANGED <<free, rows, pages, req>>

Polled(w) == [w EXCEPT !.pc = "sleep", !.conn = None, !.ver = 0, !.lastVer = w.ver,
                       !.ext = 0, !.lastExt = w.ext,
                       !.base = IF w.lastVer = -1 THEN w.ext ELSE @]

(* Mutant: a failed poll still moves lastVer on. *)
PollErrorAdvances ==
    /\ watcher.pc = "compare"
    /\ free' = Append(free, watcher.conn)
    /\ watcher' = Polled(watcher)
    /\ UNCHANGED <<db, rows, pages, req>>

(* The connection goes back; then the versions are compared. *)
PollCompare ==
    /\ watcher.pc = "compare"
    /\ free' = Append(free, watcher.conn)
    /\ watcher' = IF watcher.lastVer # -1 /\ watcher.ver # watcher.lastVer
                  THEN [watcher EXCEPT !.pc = "flush", !.conn = None]
                  ELSE Polled(watcher)
    /\ UNCHANGED <<db, rows, pages, req>>

(* readDataVersion failed: try again at the next tick. *)
PollError ==
    /\ watcher.pc = "compare"
    /\ free' = Append(free, watcher.conn)
    /\ watcher' = [watcher EXCEPT !.pc = "sleep", !.conn = None, !.ver = 0, !.ext = 0]
    /\ UNCHANGED <<db, rows, pages, req>>

PollFlush ==
    /\ watcher.pc = "flush"
    /\ rows' = NoFcn
    /\ req' = RaceFills(req, Table)
    /\ watcher' = [watcher EXCEPT !.pc = "broadcast"]
    /\ UNCHANGED <<db, free, pages>>

PollBroadcast ==
    /\ watcher.pc = "broadcast"
    /\ pages' = NoFcn
    /\ req' = RacePages(req, Table)
    /\ watcher' = Polled(watcher)
    /\ UNCHANGED <<db, free, rows>>

---------------------------------------------------------------------------
RequestStep(r) ==
    \/ RowHit(r) \/ RowMiss(r) \/ Read(r) \/ Release(r) \/ RowPut(r) \/ OutputPut(r)
    \/ BeginWrite(r) \/ HookInvalidate(r) \/ HookNotify(r) \/ Commit(r) \/ Rollback(r)

WatcherStep == PollRead \/ PollCompare \/ PollError \/ PollFlush \/ PollBroadcast

Next ==
    \/ \E r \in Request :
         \/ \E p \in Route : OutputMiss(r, p)
         \/ \E t \in Table : StartWrite(r, t)
         \/ Acquire(r)
         \/ RequestStep(r)
    \/ \E q \in Query : ForgetRow(q)
    \/ \E p \in Route : ForgetPage(p)
    \/ ExternalWrite
    \/ PollAcquire
    \/ WatcherStep

Spec == NewPool /\ [][Next]_vars

(* A goroutine that can run does run; receivers blocked on p.conns are     *)
(* served first come first served, which strong fairness stands for.       *)
Fairness ==
    /\ \A r \in Request : WF_vars(RequestStep(r)) /\ SF_vars(Acquire(r))
    /\ WF_vars(WatcherStep) /\ SF_vars(PollAcquire)

FairSpec == Spec /\ Fairness

---------------------------------------------------------------------------
IsSnap(s) ==
    /\ DOMAIN s = {"pool", "ext"} /\ s.ext \in Nat
    /\ DOMAIN s.pool \subseteq Table /\ \A t \in DOMAIN s.pool : s.pool[t] \in Nat

IsFill(f) == DOMAIN f = {"snap", "raced"} /\ IsSnap(f.snap) /\ f.raced \in BOOLEAN

PC == {"idle", "row", "acquire", "read", "begin", "hook", "notify", "applied",
       "release", "put", "output"}

(* Type invariant. *)
TypeOK ==
    /\ db \in [pool : [Table -> Nat], ext : Nat, commits : Nat, writer : Request \cup {None},
               seen : [Conn -> Nat], dataVersion : [Conn -> Nat]]
    /\ free \in Seq(Conn)
    /\ DOMAIN rows \subseteq Query /\ \A q \in DOMAIN rows : IsFill(rows[q])
    /\ DOMAIN pages \subseteq Route
    /\ \A p \in DOMAIN pages :
         /\ pages[p].raced \in BOOLEAN
         /\ \A i \in DOMAIN pages[p].snaps : IsSnap(pages[p].snaps[i])
    /\ \A r \in Request :
         /\ req[r].pc \in PC
         /\ req[r].route \in Route \cup {None} /\ req[r].table \in Table \cup {None}
         /\ req[r].conn \in Conn \cup {None}
         /\ req[r].row # None => IsFill(req[r].row)
         /\ \A i \in DOMAIN req[r].got : IsFill(req[r].got[i])
         /\ req[r].hooks \in 0..MaxHooks
         /\ req[r].ok \in BOOLEAN /\ req[r].notified \in BOOLEAN
    /\ watcher \in [pc : {"sleep", "poll", "compare", "flush", "broadcast"},
                    conn : Conn \cup {None}, ver : Nat, lastVer : Nat \cup {-1},
                    ext : Nat, lastExt : Nat, base : Nat]

Held == ({req[r].conn : r \in Request} \cup {watcher.conn}) \ {None}

(* A connection is in the channel exactly once or held by exactly one      *)
(* goroutine, on every path out of queryDirect, the error paths included:  *)
(* a lost one shrinks the pool for ever, a doubled one lets two goroutines *)
(* step the same statement.                                                *)
ConnsConserved ==
    /\ \A i, j \in DOMAIN free : free[i] = free[j] => i = j
    /\ \A i \in DOMAIN free : free[i] \notin Held
    /\ \A c \in Conn : c \in Held \/ \E i \in DOMAIN free : free[i] = c
    /\ \A r \in Request : req[r].conn # None =>
         /\ req[r].conn # watcher.conn
         /\ \A s \in Request \ {r} : req[r].conn # req[s].conn

Current(snap) == \A t \in DOMAIN snap.pool : snap.pool[t] = db.pool[t]

(* A cached result differs from what the pool has written only if its fill *)
(* overlapped the write: the hook leaves no other window, whatever the     *)
(* number of rows a statement changes and whether it commits or not.       *)
RowFreshUnlessRaced == \A q \in DOMAIN rows : Current(rows[q].snap) \/ rows[q].raced

(* The same of a cached page, which is built from cached rows: because the *)
(* hook drops rows before it notifies the output cache, a page rendered    *)
(* after the notification cannot have picked up rows from before it.       *)
PageFreshUnlessRaced ==
    \A p \in DOMAIN pages :
      pages[p].raced \/ \A i \in DOMAIN pages[p].snaps : Current(pages[p].snaps[i])

(* invalidate.go:26-28: "writes are reflected in cache (and visible to     *)
(* subscribers) before the calling goroutine sees the write's return", so  *)
(* with no write in progress no cached result predates a pool write.       *)
RowFreshAfterWriteReturns ==
    (\A r \in Request : req[r].table = None) => \A q \in DOMAIN rows : Current(rows[q].snap)

(* What was read from a table and cached before an external write is gone  *)
(* once a poll that saw the write has finished (invalidate.go:236-238: "up *)
(* to ~1 second of staleness for external writes"), unless it is older     *)
(* than the first poll or was stored by a fill or a render that overlapped *)
(* the flush.                                                              *)
PollDropsOlder ==
    LET Old(snap) == /\ DOMAIN snap.pool # {}
                     /\ watcher.base <= snap.ext /\ snap.ext < watcher.lastExt
    IN  /\ \A q \in DOMAIN rows : Old(rows[q].snap) => rows[q].raced
        /\ \A p \in DOMAIN pages :
             (\E i \in DOMAIN pages[p].snaps : Old(pages[p].snaps[i])) => pages[p].raced

(* Every request that waits for a connection, reads, writes or meets an    *)
(* error ends; no combination of readers, writers and the poller starves   *)
(* one of them.                                                            *)
RequestsFinish == \A r \in Request : req[r].pc # "idle" ~> req[r].pc = "idle"
=============================================================================
