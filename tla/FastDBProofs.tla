---------------------------- MODULE FastDBProofs ----------------------------
(***************************************************************************)
(* Proofs about the pool, the query path and the invalidation of           *)
(* modules/fastdb, for every number of goroutines, connections, tables,    *)
(* queries, routes, writes and rows a write changes.                       *)
(***************************************************************************)
EXTENDS FastDB, FiniteSetTheorems, TLAPS

Fills == UNION {FillOf(q) : q \in Query}

ReqState ==
    [pc : PC, route : Route \cup {None}, got : Seq(Fills), row : Fills \cup {None}, conn : Conn \cup {None},
     table : Table \cup {None}, hooks : 0..MaxHooks, ok : BOOLEAN, notified : BOOLEAN]

WatcherState ==
    [pc : {"sleep", "poll", "compare", "flush", "broadcast"},
     conn : Conn \cup {None}, ver : Nat, lastVer : Nat \cup {-1},
     ext : Nat, lastExt : Nat, base : Nat]

DbState ==
    [pool : [Table -> Nat], ext : Nat, commits : Nat, writer : Request \cup {None},
     seen : [Conn -> Nat], dataVersion : [Conn -> Nat]]

DbTyped == db \in DbState

(* Only queries that are filed are cached, and only routes of such queries. *)
RowsTyped ==
    \A q \in DOMAIN rows : q \in Query /\ FiledUnder[q] # {} /\ rows[q] \in FillOf(q)

PageOf(p, g) ==
    /\ g.raced \in BOOLEAN /\ DOMAIN g.snaps = DOMAIN HolesOf[p]
    /\ \A i \in DOMAIN HolesOf[p] : g.snaps[i] \in SnapOf(HolesOf[p][i])

PagesTyped ==
    \A p \in DOMAIN pages : p \in Route /\ Attributable(p) /\ PageOf(p, pages[p])

(* What the control state of a goroutine says of its other fields. *)
Holding(x) == x.pc \in {"read", "begin", "hook", "notify", "applied", "release"}

Renders(x) ==
    x.route \in Route =>
      /\ x.table = None
      /\ Len(x.got) <= Len(HolesOf[x.route])
      /\ x.pc = "output" <=> Len(x.got) = Len(HolesOf[x.route])
      /\ \A i \in DOMAIN x.got : x.got[i] \in FillOf(HolesOf[x.route][i])
      /\ x.row # None => x.row \in FillOf(HolesOf[x.route][Len(x.got) + 1])

Coherent(x) ==
    /\ x.pc = "idle" => x = Idle
    /\ x.pc \in {"row", "read", "put", "output"} => x.table = None
    /\ x.pc \in {"begin", "hook", "notify", "applied"} => x.table \in Table
    /\ x.pc # "idle" /\ x.table = None => x.route \in Route
    /\ Renders(x)
    /\ x.row # None => x.route \in Route /\ x.pc \in {"release", "put"}
    /\ x.pc = "put" \/ (x.pc = "release" /\ x.table = None /\ x.ok) => x.row # None
    /\ Holding(x) <=> x.conn # None
    /\ x.table = None \/ x.pc \notin {"notify", "applied", "release"} => x.hooks = 0
    /\ x.pc \in {"notify", "applied"} => x.hooks > 0

RequestsTyped == req \in [Request -> ReqState] /\ \A r \in Request : Coherent(req[r])

WatcherTyped ==
    /\ watcher \in WatcherState
    /\ watcher.pc \in {"poll", "compare"} <=> watcher.conn # None

(* The write lock is held from BeginWrite to the end of the statement, by a *)
(* connection that has seen every commit.                                   *)
WriterHoldsLock ==
    \A r \in Request :
      /\ db.writer = r <=> req[r].pc \in {"hook", "notify", "applied"}
      /\ db.writer = r => db.seen[req[r].conn] = db.commits

(* Tables whose write in progress has already dropped the pages. *)
Delivered == {req[w].table : w \in {x \in Request : req[x].pc = "applied"}}

(* A snapshot of q that no write has overlapped shows the tables as they    *)
(* are, and no table of q is in S, those about to be committed.             *)
Agrees(snap, q, S, pool) ==
    ReadsOf[q] \cap S = {} /\ \A t \in ReadsOf[q] : snap.pool[t] = pool[t]

FreshFill(f, q, S, pool) == f.raced \/ Agrees(f.snap, q, S, pool)

FreshPage(g, p, S, pool) ==
    g.raced \/ \A i \in DOMAIN HolesOf[p] : Agrees(g.snaps[i], HolesOf[p][i], S, pool)

(* The fill in hand is held against the tables the hook has dropped the     *)
(* rows of, the fills the page has used against those it has dropped the    *)
(* pages of.                                                                *)
FreshRequest(x, A, D, pool) ==
    /\ x.row # None => FreshFill(x.row, HolesOf[x.route][Len(x.got) + 1], A, pool)
    /\ x.route \in Route =>
         x.notified \/ \A i \in DOMAIN x.got : FreshFill(x.got[i], HolesOf[x.route][i], D, pool)

RowsFresh == \A q \in DOMAIN rows : FreshFill(rows[q], q, Announced, db.pool)

PagesFresh == \A p \in DOMAIN pages : FreshPage(pages[p], p, Delivered, db.pool)

RequestsFresh == \A r \in Request : FreshRequest(req[r], Announced, Delivered, db.pool)

Typed == DbTyped /\ free \in Seq(Conn) /\ RowsTyped /\ PagesTyped /\ RequestsTyped /\ WatcherTyped

(* The invariant comes in layers: the shape of the state by itself, then    *)
(* the connections, the freshness of what is cached, and the poller, each   *)
(* of which needs the shape only.                                           *)
Shape == Typed /\ WriterHoldsLock

Fresh == RowsFresh /\ PagesFresh /\ RequestsFresh

---------------------------------------------------------------------------
(* The poller, when every poll uses the same connection: a data_version    *)
(* that has not changed since a poll means no external write since.  The   *)
(* connection that writes has seen every commit but its own, which is why  *)
(* its own commit does not hide somebody else's.                           *)
OneConn == \A c, d \in Conn : c = d

Versioned(v, e, d) ==
    \A c \in Conn : /\ d.dataVersion[c] >= v
                    /\ d.dataVersion[c] = v /\ d.seen[c] = d.commits => e = d.ext

Behind(d) == \A c \in Conn : d.seen[c] <= d.commits

PollVersions ==
    /\ Behind(db)
    /\ watcher.lastVer # -1 => Versioned(watcher.lastVer, watcher.lastExt, db)
    /\ watcher.lastExt <= db.ext /\ watcher.ext <= db.ext
    /\ watcher.pc \in {"compare", "flush", "broadcast"} =>
         /\ Versioned(watcher.ver, watcher.ext, db)
         /\ watcher.lastExt <= watcher.ext
         /\ watcher.lastVer = watcher.ver => watcher.ext = watcher.lastExt
    /\ watcher.pc \in {"flush", "broadcast"} => watcher.lastVer # -1

(* Of the external writes between the first poll and poll e, a snapshot has *)
(* all or reads nothing: the row cache is emptied before the pages, so in   *)
(* between the rows are ahead.                                              *)
NotOld(snap, q, b, e) == ReadsOf[q] = {} \/ snap.ext < b \/ snap.ext >= e

PolledFill(f, q, b, e) == f.raced \/ NotOld(f.snap, q, b, e)

PolledPage(g, p, b, e) ==
    g.raced \/ \A i \in DOMAIN HolesOf[p] : NotOld(g.snaps[i], HolesOf[p][i], b, e)

PolledRequest(x, b, eRow, ePage) ==
    /\ x.row # None => PolledFill(x.row, HolesOf[x.route][Len(x.got) + 1], b, eRow)
    /\ x.route \in Route =>
         x.notified \/ \A i \in DOMAIN x.got : PolledFill(x.got[i], HolesOf[x.route][i], b, ePage)

RowBound == IF watcher.pc = "broadcast" THEN watcher.ext ELSE watcher.lastExt

PolledRows == \A q \in DOMAIN rows : PolledFill(rows[q], q, watcher.base, RowBound)

PolledPages == \A p \in DOMAIN pages : PolledPage(pages[p], p, watcher.base, watcher.lastExt)

PolledRequests ==
    \A r \in Request : PolledRequest(req[r], watcher.base, RowBound, watcher.lastExt)

Polls == PollVersions /\ PolledRows /\ PolledPages /\ PolledRequests

---------------------------------------------------------------------------
(* Facts about the constants. *)
LEMMA Nones ==
    /\ None \notin Conn /\ None \notin Request /\ None \notin Route /\ None \notin Table
    /\ None \notin Fills
  BY FastDBAssumption, NoneAssumption DEF Fills

LEMMA FillsUnion == \A q \in Query : \A f \in FillOf(q) : f \in Fills
  BY DEF Fills

LEMMA FillFields ==
    ASSUME NEW q \in Query, NEW f \in FillOf(q)
    PROVE  f.snap \in SnapOf(q) /\ f.raced \in BOOLEAN
  BY DEF FillOf

LEMMA HolesSeq ==
    \A p \in Route :
      /\ HolesOf[p] \in Seq(Query) /\ Len(HolesOf[p]) \in Nat /\ Len(HolesOf[p]) > 0
      /\ DOMAIN HolesOf[p] = 1..Len(HolesOf[p])
      /\ \A i \in 1..Len(HolesOf[p]) : HolesOf[p][i] \in Query
  BY FastDBAssumption

LEMMA AppendFacts ==
    ASSUME NEW S, NEW seq \in Seq(S), NEW e \in S
    PROVE  /\ Append(seq, e) \in Seq(S)
           /\ Len(Append(seq, e)) = Len(seq) + 1 /\ Len(seq) \in Nat
           /\ DOMAIN seq = 1..Len(seq)
           /\ DOMAIN Append(seq, e) = 1..(Len(seq) + 1)
           /\ Append(seq, e)[Len(seq) + 1] = e
           /\ \A i \in 1..Len(seq) : Append(seq, e)[i] = seq[i]
  OBVIOUS

LEMMA TailFacts ==
    ASSUME NEW S, NEW seq \in Seq(S), seq # <<>>
    PROVE  /\ Tail(seq) \in Seq(S) /\ Len(seq) \in Nat /\ Len(seq) > 0
           /\ Len(Tail(seq)) = Len(seq) - 1
           /\ DOMAIN seq = 1..Len(seq) /\ DOMAIN Tail(seq) = 1..(Len(seq) - 1)
           /\ Head(seq) = seq[1] /\ Head(seq) \in S
           /\ \A i \in 1..(Len(seq) - 1) : Tail(seq)[i] = seq[i + 1]
  OBVIOUS

(* The hole a goroutine is at, while it is rendering. *)
LEMMA HoleInQuery ==
    ASSUME NEW x \in ReqState, Coherent(x), x.route \in Route, x.pc # "output"
    PROVE  /\ Len(x.got) \in Nat /\ Len(x.got) + 1 \in DOMAIN HolesOf[x.route]
           /\ HolesOf[x.route][Len(x.got) + 1] \in Query
<1>1. Len(x.got) \in Nat
  BY DEF ReqState
<1>2. Len(x.got) < Len(HolesOf[x.route])
  BY <1>1, HolesSeq DEF Coherent, Renders
<1> QED BY <1>1, <1>2, HolesSeq

---------------------------------------------------------------------------
(* The control state: what a goroutine's record becomes at each step.      *)
LEMMA IdleState == Idle \in ReqState /\ Coherent(Idle)
<1>1. <<>> \in Seq(Fills)
  OBVIOUS
<1> QED BY <1>1, Nones, FastDBAssumption DEF Idle, ReqState, PC, Coherent, Renders, Holding

LEMMA StartRender ==
    ASSUME NEW p \in Route
    PROVE  LET y == [Idle EXCEPT !.pc = "row", !.route = p]
           IN  y \in ReqState /\ Coherent(y)
<1> DEFINE y == [Idle EXCEPT !.pc = "row", !.route = p]
<1>1. <<>> \in Seq(Fills) /\ Len(<<>>) = 0 /\ DOMAIN <<>> = {}
  OBVIOUS
<1>2. Len(HolesOf[p]) \in Nat /\ Len(HolesOf[p]) > 0
  BY HolesSeq
<1>3. y \in ReqState
  BY IdleState DEF ReqState, PC
<1>4. /\ y.pc = "row" /\ y.route = p /\ y.table = None /\ y.got = <<>> /\ y.row = None
      /\ y.conn = None /\ y.hooks = 0
  BY DEF Idle
<1> HIDE DEF y
<1>5. Renders(y)
  BY <1>1, <1>2, <1>4 DEF Renders
<1>6. Coherent(y)
  BY <1>4, <1>5, Nones DEF Coherent, Holding
<1> QED BY <1>3, <1>6 DEF y

LEMMA StartWriting ==
    ASSUME NEW t \in Table
    PROVE  LET y == [Idle EXCEPT !.pc = "acquire", !.table = t]
           IN  y \in ReqState /\ Coherent(y)
<1> DEFINE y == [Idle EXCEPT !.pc = "acquire", !.table = t]
<1>1. y \in ReqState
  BY IdleState DEF ReqState, PC
<1>2. /\ y.pc = "acquire" /\ y.route = None /\ y.table = t /\ y.row = None
      /\ y.conn = None /\ y.hooks = 0
  BY DEF Idle
<1> HIDE DEF y
<1>3. Coherent(y)
  BY <1>2, Nones DEF Coherent, Holding, Renders
<1> QED BY <1>1, <1>3 DEF y

(* A fill of the hole at hand moves the rendering on. *)
LEMMA NextHoleState ==
    ASSUME NEW x \in ReqState, Coherent(x), x.pc \in {"row", "put"},
           NEW fill \in FillOf(HolesOf[x.route][Len(x.got) + 1]), NEW got, NEW y,
           got = Append(x.got, fill),
           y = [x EXCEPT !.got = got, !.row = None, !.conn = None,
                         !.pc = IF Len(got) = Len(HolesOf[x.route]) THEN "output" ELSE "row"]
    PROVE  y \in ReqState /\ Coherent(y)
<1>1. x.route \in Route /\ x.table = None /\ x.hooks = 0
  BY DEF Coherent
<1>2. /\ Len(x.got) \in Nat /\ HolesOf[x.route][Len(x.got) + 1] \in Query
      /\ Len(x.got) < Len(HolesOf[x.route]) /\ Len(HolesOf[x.route]) \in Nat
      /\ x.got \in Seq(Fills) /\ DOMAIN x.got = 1..Len(x.got)
  BY <1>1, HoleInQuery, HolesSeq DEF ReqState
<1>3. fill \in Fills
  BY <1>2, FillsUnion
<1>4. /\ got \in Seq(Fills) /\ Len(got) = Len(x.got) + 1 /\ DOMAIN got = 1..(Len(x.got) + 1)
      /\ got[Len(x.got) + 1] = fill /\ \A i \in 1..Len(x.got) : got[i] = x.got[i]
  BY <1>2, <1>3, AppendFacts
<1>5. y \in ReqState
  BY <1>4 DEF ReqState, PC
<1>6. /\ y.got = got /\ y.row = None /\ y.conn = None /\ y.route = x.route
      /\ y.table = None /\ y.hooks = 0
      /\ y.pc = IF Len(got) = Len(HolesOf[x.route]) THEN "output" ELSE "row"
  BY <1>1 DEF ReqState
<1>7. \A i \in DOMAIN got : got[i] \in FillOf(HolesOf[x.route][i])
  <2>1. \A i \in 1..Len(x.got) : x.got[i] \in FillOf(HolesOf[x.route][i])
    BY <1>1, <1>2 DEF Coherent, Renders
  <2> QED BY <1>2, <1>4, <2>1
<1>8. Renders(y)
  BY <1>1, <1>2, <1>4, <1>6, <1>7 DEF Renders
<1> QED BY <1>1, <1>5, <1>6, <1>8, Nones DEF Coherent, Holding

LEMMA AcquireState ==
    ASSUME NEW x \in ReqState, Coherent(x), NEW c \in Conn, x.pc = "acquire"
    PROVE  LET y == [x EXCEPT !.conn = c, !.pc = IF x.table = None THEN "read" ELSE "begin"]
           IN  y \in ReqState /\ Coherent(y)
  BY Nones DEF ReqState, PC, Coherent, Renders, Holding

(* Steps that move only the control state. *)
LEMMA MoveState ==
    ASSUME NEW x \in ReqState, Coherent(x), NEW pc,
           \/ x.pc = "row" /\ pc = "acquire"
           \/ x.pc = "begin" /\ pc \in {"hook", "release"}
           \/ x.pc = "notify" /\ pc = "applied"
           \/ x.pc = "applied" /\ pc = "release"
    PROVE  LET y == [x EXCEPT !.pc = pc]
           IN  y \in ReqState /\ Coherent(y)
  BY Nones DEF ReqState, PC, Coherent, Renders, Holding

LEMMA ReadState ==
    ASSUME NEW x \in ReqState, Coherent(x), x.pc = "read",
           NEW f \in FillOf(HolesOf[x.route][Len(x.got) + 1])
    PROVE  LET y == [x EXCEPT !.pc = "release", !.row = f]
           IN  y \in ReqState /\ Coherent(y)
<1>1. x.route \in Route
  BY DEF Coherent
<1>2. f \in Fills
  BY <1>1, HoleInQuery, FillsUnion
<1> QED BY <1>1, <1>2, Nones DEF ReqState, PC, Coherent, Renders, Holding

LEMMA ReadErrorState ==
    ASSUME NEW x \in ReqState, Coherent(x), x.pc = "read"
    PROVE  LET y == [x EXCEPT !.pc = "release", !.ok = FALSE]
           IN  y \in ReqState /\ Coherent(y)
  BY Nones DEF ReqState, PC, Coherent, Renders, Holding

LEMMA ReleaseState ==
    ASSUME NEW x \in ReqState, Coherent(x), x.pc = "release", x.table = None, x.ok
    PROVE  LET y == [x EXCEPT !.pc = "put", !.conn = None]
           IN  y \in ReqState /\ Coherent(y)
<1> DEFINE y == [x EXCEPT !.pc = "put", !.conn = None]
<1>1. y \in ReqState
  BY DEF ReqState, PC
<1>2. /\ y.pc = "put" /\ y.conn = None /\ y.route = x.route /\ y.table = x.table
      /\ y.row = x.row /\ y.got = x.got
  BY DEF ReqState
<1>3. x.row # None /\ x.route \in Route
  BY DEF Coherent
<1>4. Renders(y)
  BY <1>2 DEF Coherent, Renders
<1>5. y.hooks = 0
  BY DEF Coherent, ReqState
<1> HIDE DEF y
<1>6. Coherent(y)
  BY <1>2, <1>3, <1>4, <1>5 DEF Coherent, Holding
<1> QED BY <1>1, <1>6 DEF y

LEMMA HookState ==
    ASSUME NEW x \in ReqState, Coherent(x),
           x.pc = "hook" \/ (x.pc = "applied" /\ x.hooks < MaxHooks)
    PROVE  LET y == [x EXCEPT !.pc = "notify", !.hooks = @ + 1]
           IN  y \in ReqState /\ Coherent(y)
<1> DEFINE y == [x EXCEPT !.pc = "notify", !.hooks = @ + 1]
<1>1. x.hooks \in 0..MaxHooks /\ x.hooks + 1 \in 0..MaxHooks /\ x.hooks + 1 > 0
  BY FastDBAssumption DEF ReqState, Coherent
<1>2. y \in ReqState
  BY <1>1 DEF ReqState, PC
<1>3. /\ y.pc = "notify" /\ y.conn = x.conn /\ y.route = x.route /\ y.table = x.table
      /\ y.row = x.row /\ y.got = x.got /\ y.hooks = x.hooks + 1
  BY DEF ReqState
<1> HIDE DEF y
<1>4. Renders(y)
  BY <1>3, Nones DEF Coherent, Renders
<1>5. Coherent(y)
  BY <1>1, <1>3, <1>4, Nones DEF Coherent, Holding
<1> QED BY <1>2, <1>5 DEF y

(* What the history of a race changes in a goroutine's record: nothing but *)
(* a mark on the fill in hand or on the page being rendered.               *)
SameControl(y, x) ==
    /\ y.pc = x.pc /\ y.route = x.route /\ y.got = x.got /\ y.conn = x.conn
    /\ y.table = x.table /\ y.hooks = x.hooks

LEMMA RaceFillsFacts ==
    ASSUME NEW R \in [Request -> ReqState], \A r \in Request : Coherent(R[r]), NEW S, NEW R2,
           R2 = RaceFills(R, S)
    PROVE  /\ R2 \in [Request -> ReqState]
           /\ \A r \in Request :
                /\ Coherent(R2[r]) /\ SameControl(R2[r], R[r])
                /\ R2[r].notified = R[r].notified
                /\ R[r].row = None => R2[r].row = None
                /\ R[r].row # None =>
                     /\ R2[r].row # None /\ R2[r].row.snap = R[r].row.snap
                     /\ R[r].row.raced => R2[r].row.raced
                     /\ ReadsOf[HolesOf[R[r].route][Len(R[r].got) + 1]] \cap S # {} =>
                          R2[r].row.raced
<1> SUFFICES ASSUME NEW r \in Request
             PROVE  /\ R2[r] \in ReqState
                    /\ Coherent(R2[r]) /\ SameControl(R2[r], R[r])
                    /\ R2[r].notified = R[r].notified
                    /\ R[r].row = None => R2[r].row = None
                    /\ R[r].row # None =>
                         /\ R2[r].row # None /\ R2[r].row.snap = R[r].row.snap
                         /\ R[r].row.raced => R2[r].row.raced
                         /\ ReadsOf[HolesOf[R[r].route][Len(R[r].got) + 1]] \cap S # {} =>
                              R2[r].row.raced
  BY DEF RaceFills
<1> DEFINE x == R[r]
           q == HolesOf[x.route][Len(x.got) + 1]
<1>1. x \in ReqState /\ Coherent(x)
  OBVIOUS
<1>2. R2[r] = IF x.row # None /\ ReadsOf[q] \cap S # {}
              THEN [x EXCEPT !.row.raced = TRUE] ELSE x
  BY DEF RaceFills
<1>3. CASE x.row # None /\ ReadsOf[q] \cap S # {}
  <2> DEFINE f == [x.row EXCEPT !.raced = TRUE]
             y == [x EXCEPT !.row = f]
  <2>1. R2[r] = y
    BY <1>2, <1>3
  <2>2. q \in Query /\ x.row \in FillOf(q)
    <3>1. x.route \in Route /\ x.pc # "output"
      BY <1>1, <1>3 DEF Coherent
    <3>2. x.row \in FillOf(q)
      BY <1>1, <1>3, <3>1 DEF Coherent, Renders
    <3> HIDE DEF x
    <3> QED BY <1>1, <3>1, <3>2, HoleInQuery
  <2> HIDE DEF x, q
  <2>3. f \in FillOf(q) /\ f.snap = x.row.snap /\ f.raced
    BY <2>2 DEF FillOf
  <2>4. f \in Fills /\ f # None
    BY <2>2, <2>3, FillsUnion, Nones
  <2> HIDE DEF f
  <2>5. /\ y \in ReqState /\ SameControl(y, x) /\ y.row = f /\ y.notified = x.notified
        /\ y.ok = x.ok
    BY <1>1, <2>4 DEF ReqState, SameControl
  <2> HIDE DEF y
  <2>6. Renders(y)
    BY <1>1, <2>3, <2>5 DEF Coherent, Renders, SameControl, q
  <2>7. y.pc # "idle"
    BY <1>1, <1>3, <2>5, Nones DEF Coherent, SameControl
  <2>8. Coherent(y)
    BY <1>1, <1>3, <2>4, <2>5, <2>6, <2>7 DEF Coherent, Holding, SameControl
  <2> QED BY <2>1, <2>3, <2>4, <2>5, <2>8, <1>3 DEF x
<1>4. CASE ~(x.row # None /\ ReadsOf[q] \cap S # {})
  BY <1>1, <1>2, <1>4 DEF SameControl
<1> QED BY <1>3, <1>4

LEMMA RacePagesFacts ==
    ASSUME NEW R \in [Request -> ReqState], \A r \in Request : Coherent(R[r]), NEW S, NEW R2,
           R2 = RacePages(R, S)
    PROVE  /\ R2 \in [Request -> ReqState]
           /\ \A r \in Request :
                /\ Coherent(R2[r]) /\ SameControl(R2[r], R[r])
                /\ R2[r].row = R[r].row
                /\ R[r].notified => R2[r].notified
                /\ R[r].route \in Route /\ ~R2[r].notified =>
                     \A i \in DOMAIN R[r].got : ReadsOf[HolesOf[R[r].route][i]] \cap S = {}
<1> SUFFICES ASSUME NEW r \in Request
             PROVE  /\ R2[r] \in ReqState
                    /\ Coherent(R2[r]) /\ SameControl(R2[r], R[r])
                    /\ R2[r].row = R[r].row
                    /\ R[r].notified => R2[r].notified
                    /\ R[r].route \in Route /\ ~R2[r].notified =>
                         \A i \in DOMAIN R[r].got :
                           ReadsOf[HolesOf[R[r].route][i]] \cap S = {}
  BY DEF RacePages
<1> DEFINE x == R[r]
<1>1. x \in ReqState /\ Coherent(x)
  OBVIOUS
<1>2. R2[r] = IF x.route # None /\ HoleTables(x.route, Len(x.got)) \cap S # {}
              THEN [x EXCEPT !.notified = TRUE] ELSE x
  BY DEF RacePages
<1>3. CASE x.route # None /\ HoleTables(x.route, Len(x.got)) \cap S # {}
  <2> DEFINE y == [x EXCEPT !.notified = TRUE]
  <2>1. R2[r] = y
    BY <1>2, <1>3
  <2> HIDE DEF x
  <2>2. /\ y \in ReqState /\ SameControl(y, x) /\ y.row = x.row /\ y.notified /\ y.ok = x.ok
    BY <1>1 DEF ReqState, SameControl
  <2> HIDE DEF y
  <2>3. Renders(y)
    BY <1>1, <2>2 DEF Coherent, Renders, SameControl
  <2>4. y.pc # "idle"
    BY <1>1, <1>3, <2>2 DEF Coherent, SameControl, Idle
  <2>5. Coherent(y)
    BY <1>1, <2>2, <2>3, <2>4 DEF Coherent, Holding, SameControl
  <2> QED BY <2>1, <2>2, <2>5 DEF x
<1>4. CASE ~(x.route # None /\ HoleTables(x.route, Len(x.got)) \cap S # {})
  <2>1. R2[r] = x
    BY <1>2, <1>4
  <2>2. ASSUME x.route \in Route, NEW i \in DOMAIN x.got
        PROVE  ReadsOf[HolesOf[x.route][i]] \cap S = {}
    <3>1. i \in 1..Len(x.got)
      BY <2>2 DEF ReqState
    <3>2. HoleTables(x.route, Len(x.got)) \cap S = {}
      BY <1>4, <2>2, Nones
    <3> QED BY <3>1, <3>2 DEF HoleTables
  <2> QED BY <1>1, <2>1, <2>2 DEF SameControl
<1> QED BY <1>3, <1>4

---------------------------------------------------------------------------
(* The shape of the state.                                                 *)
Locks == {"hook", "notify", "applied"}

LEMMA OneRequest ==
    ASSUME RequestsTyped, NEW r \in Request, NEW y \in ReqState, Coherent(y),
           req' = [req EXCEPT ![r] = y]
    PROVE  /\ RequestsTyped' /\ req'[r] = y
           /\ \A s \in Request : s # r => req'[s] = req[s]
  BY DEF RequestsTyped

LEMMA ReadFacts ==
    ASSUME DbTyped, NEW c \in Conn, NEW d, d = BeginRead(c)
    PROVE  /\ d \in DbState
           /\ d.pool = db.pool /\ d.ext = db.ext /\ d.commits = db.commits
           /\ d.writer = db.writer
           /\ d.seen[c] = db.commits
           /\ \A k \in Conn : d.seen[k] = db.seen[k] \/ d.seen[k] = db.commits
           /\ \A k \in Conn : k # c => /\ d.seen[k] = db.seen[k]
                                       /\ d.dataVersion[k] = db.dataVersion[k]
           /\ d.dataVersion[c] = IF db.seen[c] = db.commits THEN db.dataVersion[c]
                                 ELSE db.dataVersion[c] + 1
<1> DEFINE n == IF db.seen[c] = db.commits THEN db.dataVersion[c] ELSE db.dataVersion[c] + 1
           seen == [db.seen EXCEPT ![c] = db.commits]
           versions == [db.dataVersion EXCEPT ![c] = n]
<1>1. db.seen \in [Conn -> Nat] /\ db.dataVersion \in [Conn -> Nat] /\ db.commits \in Nat
  BY DEF DbTyped, DbState
<1>2. n \in Nat
  BY <1>1
<1>3. d = [db EXCEPT !.seen = seen, !.dataVersion = versions]
  BY DEF BeginRead, DbTyped, DbState
<1> HIDE DEF n
<1>4. /\ seen \in [Conn -> Nat] /\ versions \in [Conn -> Nat]
      /\ seen[c] = db.commits /\ versions[c] = n
      /\ \A k \in Conn : k # c => seen[k] = db.seen[k] /\ versions[k] = db.dataVersion[k]
  BY <1>1, <1>2
<1> HIDE DEF seen, versions
<1>5. /\ d \in DbState /\ d.seen = seen /\ d.dataVersion = versions
      /\ d.pool = db.pool /\ d.ext = db.ext /\ d.commits = db.commits /\ d.writer = db.writer
  BY <1>3, <1>4 DEF DbTyped, DbState
<1> QED BY <1>4, <1>5 DEF n

LEMMA HoldersHaveConns ==
    ASSUME NEW x \in ReqState, Coherent(x), Holding(x)
    PROVE  x.conn \in Conn
  BY DEF Coherent, ReqState

(* Who holds the write lock is unchanged by a step that takes no lock and  *)
(* commits nothing.                                                        *)
LEMMA LockKept ==
    ASSUME Shape, db'.writer = db.writer, db'.commits = db.commits,
           \A c \in Conn : db'.seen[c] = db.seen[c] \/ db'.seen[c] = db.commits,
           \A s \in Request : /\ req'[s].pc \in Locks <=> req[s].pc \in Locks
                              /\ req[s].pc \in Locks => req'[s].conn = req[s].conn
    PROVE  WriterHoldsLock'
<1> SUFFICES ASSUME NEW s \in Request
             PROVE  /\ db'.writer = s <=> req'[s].pc \in Locks
                    /\ db'.writer = s => db'.seen[req'[s].conn] = db'.commits
  BY DEF WriterHoldsLock, Locks
<1>1. db'.writer = s <=> req'[s].pc \in Locks
  BY DEF Shape, WriterHoldsLock, Locks
<1>2. ASSUME db'.writer = s PROVE db'.seen[req'[s].conn] = db'.commits
  <2>1. req[s].pc \in Locks /\ req'[s].conn = req[s].conn /\ db.seen[req[s].conn] = db.commits
    BY <1>1, <1>2 DEF Shape, WriterHoldsLock
  <2>2. req[s].conn \in Conn
    BY <2>1, HoldersHaveConns DEF Shape, Typed, RequestsTyped, Holding, Locks
  <2> QED BY <2>1, <2>2
<1> QED BY <1>1, <1>2

(* A step of one goroutine that leaves the database alone. *)
LEMMA OneRequestShape ==
    ASSUME Shape, NEW r \in Request, NEW y \in ReqState, Coherent(y),
           req' = [req EXCEPT ![r] = y], UNCHANGED <<db, watcher>>,
           y.pc \in Locks <=> req[r].pc \in Locks,
           y.pc \in Locks => y.conn = req[r].conn
    PROVE  /\ DbTyped' /\ RequestsTyped' /\ WatcherTyped' /\ WriterHoldsLock'
           /\ req'[r] = y /\ \A s \in Request : s # r => req'[s] = req[s]
<1>1. /\ RequestsTyped' /\ req'[r] = y /\ \A s \in Request : s # r => req'[s] = req[s]
  BY OneRequest DEF Shape, Typed
<1>2. WriterHoldsLock'
  BY <1>1, LockKept DEF Shape
<1> QED BY <1>1, <1>2 DEF Shape, Typed, DbTyped, WatcherTyped

LEMMA InitShape == NewPool => Shape
<1> SUFFICES ASSUME NewPool PROVE Shape
  OBVIOUS
<1>1. DbTyped
  BY DEF NewPool, DbTyped, DbState
<1>2. free \in Seq(Conn)
  <2>1. Cardinality(Conn) \in Nat
    BY FS_CardinalityType, FastDBAssumption
  <2>2. free \in [1..Cardinality(Conn) -> Conn]
    BY Zenon DEF NewPool
  <2> QED BY <2>1, <2>2
<1>3. RowsTyped /\ PagesTyped
  BY DEF NewPool, NoFcn, RowsTyped, PagesTyped
<1>4. RequestsTyped /\ \A r \in Request : req[r] = Idle
  BY IdleState DEF NewPool, RequestsTyped
<1>5. WatcherTyped
  BY DEF NewPool, WatcherTyped, WatcherState
<1>6. WriterHoldsLock
  <2>1. db.writer = None
    BY DEF NewPool
  <2> QED BY <1>4, <2>1, Nones DEF WriterHoldsLock, Idle
<1> QED BY <1>1, <1>2, <1>3, <1>4, <1>5, <1>6 DEF Shape, Typed

(* The steps of a goroutine that neither reads nor writes the database.    *)
LEMMA OutputMissShape ==
    ASSUME Shape, NEW r \in Request, NEW p \in Route, OutputMiss(r, p)
    PROVE  Shape'
<1> DEFINE y == [Idle EXCEPT !.pc = "row", !.route = p]
<1>1. y \in ReqState /\ Coherent(y) /\ y.pc = "row"
  BY StartRender DEF Idle
<1>2. /\ req' = [req EXCEPT ![r] = y] /\ req[r].pc = "idle"
      /\ UNCHANGED <<db, free, rows, pages, watcher>>
  BY DEF OutputMiss
<1> HIDE DEF y
<1>3. DbTyped' /\ RequestsTyped' /\ WatcherTyped' /\ WriterHoldsLock'
  BY <1>1, <1>2, OneRequestShape DEF Locks
<1> QED BY <1>2, <1>3 DEF Shape, Typed, RowsTyped, PagesTyped

LEMMA StartWriteShape ==
    ASSUME Shape, NEW r \in Request, NEW t \in Table, StartWrite(r, t)
    PROVE  Shape'
<1> DEFINE y == [Idle EXCEPT !.pc = "acquire", !.table = t]
<1>1. y \in ReqState /\ Coherent(y) /\ y.pc = "acquire"
  BY StartWriting DEF Idle
<1>2. /\ req' = [req EXCEPT ![r] = y] /\ req[r].pc = "idle"
      /\ UNCHANGED <<db, free, rows, pages, watcher>>
  BY DEF StartWrite
<1> HIDE DEF y
<1>3. DbTyped' /\ RequestsTyped' /\ WatcherTyped' /\ WriterHoldsLock'
  BY <1>1, <1>2, OneRequestShape DEF Locks
<1> QED BY <1>2, <1>3 DEF Shape, Typed, RowsTyped, PagesTyped

(* Where a goroutine is: its route, the hole at hand, and its record.      *)
LEMMA Here ==
    ASSUME Shape, NEW r \in Request
    PROVE  /\ req[r] \in ReqState /\ Coherent(req[r])
           /\ req[r].pc \in {"row", "read", "put", "output"} =>
                req[r].route \in Route /\ req[r].table = None
           /\ req[r].pc \in {"row", "read", "put"} => Hole(r) \in Query
<1>1. req[r] \in ReqState /\ Coherent(req[r])
  BY DEF Shape, Typed, RequestsTyped
<1>2. req[r].pc \in {"row", "read", "put", "output"} => req[r].route \in Route /\ req[r].table = None
  BY <1>1 DEF Coherent
<1>3. req[r].pc \in {"row", "read", "put"} => Hole(r) \in Query
  BY <1>1, <1>2, HoleInQuery DEF Hole
<1> QED BY <1>1, <1>2, <1>3

LEMMA NextHoleShape ==
    ASSUME Shape, NEW r \in Request, req[r].pc \in {"row", "put"},
           NEW fill \in FillOf(Hole(r)), req' = [req EXCEPT ![r] = NextHole(r, fill)],
           UNCHANGED <<db, watcher>>
    PROVE  /\ DbTyped' /\ RequestsTyped' /\ WatcherTyped' /\ WriterHoldsLock'
           /\ req'[r] = NextHole(r, fill) /\ \A s \in Request : s # r => req'[s] = req[s]
<1> DEFINE x == req[r]
           got == Append(x.got, fill)
           y == [x EXCEPT !.got = got, !.row = None, !.conn = None,
                          !.pc = IF Len(got) = Len(HolesOf[x.route]) THEN "output" ELSE "row"]
<1>1. x \in ReqState /\ Coherent(x)
  BY Here
<1>2. y = NextHole(r, fill)
  BY DEF NextHole
<1>3. fill \in FillOf(HolesOf[x.route][Len(x.got) + 1])
  BY DEF Hole
<1>4. y.pc \in {"output", "row"}
  BY <1>1 DEF ReqState
<1>5. y \in ReqState /\ Coherent(y)
  <2> HIDE DEF x
  <2>1. x.pc \in {"row", "put"}
    BY DEF x
  <2> QED BY <1>1, <1>3, <2>1, NextHoleState
<1> HIDE DEF y
<1> QED BY <1>2, <1>4, <1>5, OneRequestShape DEF Locks

LEMMA RowHitShape ==
    ASSUME Shape, NEW r \in Request, RowHit(r)
    PROVE  Shape'
<1>1. rows[Hole(r)] \in FillOf(Hole(r))
  BY DEF RowHit, Shape, Typed, RowsTyped
<1>2. DbTyped' /\ RequestsTyped' /\ WatcherTyped' /\ WriterHoldsLock'
  BY <1>1, NextHoleShape DEF RowHit
<1> QED BY <1>2 DEF Shape, Typed, RowsTyped, PagesTyped, RowHit

LEMMA RowMissShape ==
    ASSUME Shape, NEW r \in Request, RowMiss(r)
    PROVE  Shape'
<1> DEFINE y == [req[r] EXCEPT !.pc = "acquire"]
<1>1. /\ req' = [req EXCEPT ![r] = y] /\ req[r].pc = "row"
      /\ UNCHANGED <<db, free, rows, pages, watcher>>
  BY DEF RowMiss, Goto
<1>2. y \in ReqState /\ Coherent(y) /\ y.pc = "acquire"
  <2>1. req[r] \in ReqState /\ Coherent(req[r])
    BY Here
  <2>2. y.pc = "acquire"
    BY <2>1 DEF ReqState
  <2> QED BY <1>1, <2>1, <2>2, MoveState
<1> HIDE DEF y
<1>3. DbTyped' /\ RequestsTyped' /\ WatcherTyped' /\ WriterHoldsLock'
  BY <1>1, <1>2, OneRequestShape DEF Locks
<1> QED BY <1>1, <1>3 DEF Shape, Typed, RowsTyped, PagesTyped

LEMMA AcquireShape ==
    ASSUME Shape, NEW r \in Request, Acquire(r)
    PROVE  Shape'
<1> DEFINE c == Head(free)
           y == [req[r] EXCEPT !.conn = c, !.pc = IF req[r].table = None THEN "read" ELSE "begin"]
<1>1. /\ req' = [req EXCEPT ![r] = y] /\ req[r].pc = "acquire" /\ free # <<>>
      /\ free' = Tail(free)
      /\ UNCHANGED <<db, rows, pages, watcher>>
  BY DEF Acquire
<1>2. c \in Conn /\ free' \in Seq(Conn)
  BY <1>1, TailFacts DEF Shape, Typed
<1>3. y \in ReqState /\ Coherent(y) /\ y.pc \in {"read", "begin"}
  <2> HIDE DEF c
  <2>1. req[r] \in ReqState /\ Coherent(req[r])
    BY Here
  <2>2. y.pc \in {"read", "begin"}
    BY <2>1 DEF ReqState
  <2> QED BY <1>1, <1>2, <2>1, <2>2, AcquireState
<1> HIDE DEF y
<1>4. DbTyped' /\ RequestsTyped' /\ WatcherTyped' /\ WriterHoldsLock'
  BY <1>1, <1>3, OneRequestShape DEF Locks
<1> QED BY <1>1, <1>2, <1>4 DEF Shape, Typed, RowsTyped, PagesTyped

LEMMA ReleaseShape ==
    ASSUME Shape, NEW r \in Request, Release(r)
    PROVE  Shape'
<1> DEFINE y == IF req[r].table = None /\ req[r].ok
                THEN [req[r] EXCEPT !.pc = "put", !.conn = None] ELSE Idle
<1>1. /\ req' = [req EXCEPT ![r] = y] /\ req[r].pc = "release"
      /\ free' = Append(free, req[r].conn)
      /\ UNCHANGED <<db, rows, pages, watcher>>
  BY DEF Release
<1>2. req[r] \in ReqState /\ Coherent(req[r])
  BY Here
<1>3. req[r].conn \in Conn
  BY <1>1, <1>2, HoldersHaveConns DEF Holding
<1>4. free' \in Seq(Conn)
  BY <1>1, <1>3, AppendFacts DEF Shape, Typed
<1>5. y \in ReqState /\ Coherent(y) /\ y.pc \in {"put", "idle"}
  <2>1. CASE req[r].table = None /\ req[r].ok
    <3>1. y = [req[r] EXCEPT !.pc = "put", !.conn = None]
      BY <2>1
    <3>2. y.pc = "put"
      BY <1>2, <3>1 DEF ReqState
    <3> QED BY <1>1, <1>2, <2>1, <3>1, <3>2, ReleaseState
  <2>2. CASE ~(req[r].table = None /\ req[r].ok)
    <3>1. y = Idle
      BY <2>2
    <3> QED BY <3>1, IdleState DEF Idle
  <2> QED BY <2>1, <2>2
<1> HIDE DEF y
<1>6. DbTyped' /\ RequestsTyped' /\ WatcherTyped' /\ WriterHoldsLock'
  BY <1>1, <1>5, OneRequestShape DEF Locks
<1> QED BY <1>1, <1>4, <1>6 DEF Shape, Typed, RowsTyped, PagesTyped

(* Reads and writes of the database. *)
LEMMA SnapshotFacts ==
    ASSUME DbTyped, NEW q \in Query, NEW b \in BOOLEAN, NEW f,
           f = [snap |-> Snapshot(ReadsOf[q]), raced |-> b]
    PROVE  /\ f \in FillOf(q) /\ f.raced = b
           /\ f.snap.ext = db.ext /\ DOMAIN f.snap.pool = ReadsOf[q]
           /\ \A t \in ReadsOf[q] : f.snap.pool[t] = db.pool[t]
<1> DEFINE pool == [t \in ReadsOf[q] |-> db.pool[t]]
           snap == [pool |-> pool, ext |-> db.ext]
<1>1. ReadsOf[q] \subseteq Table
  BY FastDBAssumption
<1>2. db.pool \in [Table -> Nat] /\ db.ext \in Nat
  BY DEF DbTyped, DbState
<1>3. pool \in [ReadsOf[q] -> Nat] /\ \A t \in ReadsOf[q] : pool[t] = db.pool[t]
  BY <1>1, <1>2
<1>4. f = [snap |-> snap, raced |-> b]
  BY DEF Snapshot
<1> HIDE DEF pool
<1>5. snap \in SnapOf(q) /\ snap.pool = pool /\ snap.ext = db.ext
  BY <1>2, <1>3 DEF SnapOf
<1> HIDE DEF snap
<1>6. f \in FillOf(q) /\ f.snap = snap /\ f.raced = b
  BY <1>4, <1>5 DEF FillOf
<1> QED BY <1>3, <1>5, <1>6

(* A reader that takes no lock. *)
LEMMA ReadingShape ==
    ASSUME Shape, NEW r \in Request, NEW y \in ReqState, Coherent(y),
           req' = [req EXCEPT ![r] = y], db' = BeginRead(req[r].conn),
           req[r].pc \notin Locks, Holding(req[r]), y.pc \notin Locks,
           UNCHANGED <<free, rows, pages, watcher>>
    PROVE  Shape'
<1>1. req[r].conn \in Conn
  BY Here, HoldersHaveConns
<1>2. /\ RequestsTyped' /\ req'[r] = y /\ \A s \in Request : s # r => req'[s] = req[s]
  BY OneRequest DEF Shape, Typed
<1>3. /\ DbTyped' /\ db'.commits = db.commits /\ db'.writer = db.writer
      /\ \A k \in Conn : db'.seen[k] = db.seen[k] \/ db'.seen[k] = db.commits
  <2>1. DbTyped
    BY DEF Shape, Typed
  <2> QED BY <1>1, <2>1, ReadFacts DEF DbTyped
<1>4. WriterHoldsLock'
  BY <1>2, <1>3, LockKept
<1> QED BY <1>2, <1>3, <1>4 DEF Shape, Typed, RowsTyped, PagesTyped, WatcherTyped

LEMMA ReadShape ==
    ASSUME Shape, NEW r \in Request, Read(r)
    PROVE  Shape'
<1> DEFINE q == Hole(r)
           f == [snap |-> Snapshot(ReadsOf[q]), raced |-> ReadsOf[q] \cap Announced # {}]
<1>1. /\ req[r].pc = "read" /\ db' = BeginRead(req[r].conn)
      /\ UNCHANGED <<free, rows, pages, watcher>>
      /\ \/ req' = [req EXCEPT ![r] = [req[r] EXCEPT !.pc = "release", !.row = f]]
         \/ req' = [req EXCEPT ![r] = [req[r] EXCEPT !.pc = "release", !.ok = FALSE]]
  BY DEF Read
<1>2. req[r] \in ReqState /\ Coherent(req[r]) /\ q \in Query /\ Holding(req[r])
  BY <1>1, Here DEF Holding
<1>3. f \in FillOf(q)
  BY <1>2, SnapshotFacts DEF Shape, Typed
<1> HIDE DEF f
<1>4. CASE req' = [req EXCEPT ![r] = [req[r] EXCEPT !.pc = "release", !.row = f]]
  <2> DEFINE y == [req[r] EXCEPT !.pc = "release", !.row = f]
  <2>1. y \in ReqState /\ Coherent(y)
    BY <1>1, <1>2, <1>3, ReadState DEF Hole
  <2>2. y.pc = "release"
    BY <1>2 DEF ReqState
  <2> HIDE DEF y, q
  <2> QED BY <1>1, <1>2, <1>4, <2>1, <2>2, ReadingShape DEF Locks, y
<1>5. CASE req' = [req EXCEPT ![r] = [req[r] EXCEPT !.pc = "release", !.ok = FALSE]]
  <2> DEFINE y == [req[r] EXCEPT !.pc = "release", !.ok = FALSE]
  <2>1. y \in ReqState /\ Coherent(y)
    BY <1>1, <1>2, ReadErrorState
  <2>2. y.pc = "release"
    BY <1>2 DEF ReqState
  <2> HIDE DEF y, q
  <2> QED BY <1>1, <1>2, <1>5, <2>1, <2>2, ReadingShape DEF Locks, y
<1> QED BY <1>1, <1>4, <1>5

LEMMA RowPutShape ==
    ASSUME Shape, NEW r \in Request, RowPut(r)
    PROVE  Shape'
<1>1. req[r].pc = "put" /\ Hole(r) \in Query /\ req[r].row \in FillOf(Hole(r))
  <2>1. req[r].row # None /\ req[r].route \in Route
    BY Here DEF RowPut, Coherent
  <2>2. req[r].row \in FillOf(Hole(r))
    BY <2>1, Here DEF Coherent, Renders, Hole
  <2> QED BY <2>2, Here DEF RowPut
<1>2. DbTyped' /\ RequestsTyped' /\ WatcherTyped' /\ WriterHoldsLock'
  BY <1>1, NextHoleShape DEF RowPut
<1>3. RowsTyped'
  <2>1. CASE rows' = rows
    BY <2>1 DEF Shape, Typed, RowsTyped
  <2>2. CASE FiledUnder[Hole(r)] # {} /\ rows' = With(rows, Hole(r), req[r].row)
    <3> DEFINE q == Hole(r)
               f == req[r].row
    <3>1. q \in Query /\ f \in FillOf(q) /\ FiledUnder[q] # {} /\ rows' = With(rows, q, f)
      BY <1>1, <2>2
    <3> HIDE DEF q, f
    <3>2. /\ DOMAIN rows' = DOMAIN rows \cup {q} /\ rows'[q] = f
          /\ \A k \in DOMAIN rows : k # q => rows'[k] = rows[k]
      BY <3>1 DEF With
    <3> QED BY <3>1, <3>2 DEF Shape, Typed, RowsTyped
  <2> QED BY <2>1, <2>2 DEF RowPut
<1> QED BY <1>2, <1>3 DEF Shape, Typed, PagesTyped, RowPut

LEMMA OutputPutShape ==
    ASSUME Shape, NEW r \in Request, OutputPut(r)
    PROVE  Shape'
<1> DEFINE x == req[r]
           g == [snaps |-> [i \in DOMAIN x.got |-> x.got[i].snap],
                 raced |-> x.notified \/ \E i \in DOMAIN x.got : x.got[i].raced]
<1>1. /\ req' = [req EXCEPT ![r] = Idle] /\ x.pc = "output"
      /\ pages' = IF ~Attributable(x.route) THEN pages ELSE With(pages, x.route, g)
      /\ UNCHANGED <<db, free, rows, watcher>>
  BY DEF OutputPut
<1>2. x \in ReqState /\ Coherent(x) /\ x.route \in Route
  BY <1>1, Here
<1>3. DbTyped' /\ RequestsTyped' /\ WatcherTyped' /\ WriterHoldsLock'
  BY <1>1, IdleState, OneRequestShape DEF Locks, Idle
<1>4. PageOf(x.route, g)
  <2>1. /\ DOMAIN x.got = DOMAIN HolesOf[x.route]
        /\ \A i \in DOMAIN x.got : x.got[i] \in FillOf(HolesOf[x.route][i])
    BY <1>1, <1>2, HolesSeq DEF Coherent, Renders, ReqState
  <2>2. \A i \in DOMAIN x.got : x.got[i].snap \in SnapOf(HolesOf[x.route][i])
    <3> HIDE DEF x
    <3> QED BY <1>2, <2>1, HolesSeq, FillFields
  <2>3. /\ DOMAIN g.snaps = DOMAIN x.got /\ g.raced \in BOOLEAN
        /\ \A i \in DOMAIN x.got : g.snaps[i] = x.got[i].snap
    OBVIOUS
  <2> HIDE DEF x, g
  <2> QED BY <2>1, <2>2, <2>3 DEF PageOf
<1>5. PagesTyped'
  <2>1. CASE pages' = pages
    BY <2>1 DEF Shape, Typed, PagesTyped
  <2>2. CASE Attributable(x.route) /\ pages' = With(pages, x.route, g)
    <3> DEFINE p == x.route
    <3>1. p \in Route /\ PageOf(p, g) /\ Attributable(p) /\ pages' = With(pages, p, g)
      BY <1>2, <1>4, <2>2
    <3> HIDE DEF g, p
    <3>2. /\ DOMAIN pages' = DOMAIN pages \cup {p} /\ pages'[p] = g
          /\ \A k \in DOMAIN pages : k # p => pages'[k] = pages[k]
      BY <3>1 DEF With
    <3> QED BY <3>1, <3>2 DEF Shape, Typed, PagesTyped
  <2> QED BY <1>1, <2>1, <2>2
<1> QED BY <1>1, <1>3, <1>5 DEF Shape, Typed, RowsTyped

LEMMA BeginWriteShape ==
    ASSUME Shape, NEW r \in Request, BeginWrite(r)
    PROVE  Shape'
<1>1. /\ req[r].pc = "begin" /\ UNCHANGED <<free, rows, pages, watcher>>
      /\ req[r] \in ReqState /\ Coherent(req[r]) /\ Holding(req[r])
  BY Here DEF BeginWrite, Holding
<1>2. req[r].conn \in Conn
  BY <1>1, HoldersHaveConns
<1>3. CASE db.writer = None
  <2> DEFINE d == BeginRead(req[r].conn)
             y == [req[r] EXCEPT !.pc = "hook"]
  <2>1. db' = [d EXCEPT !.writer = r] /\ req' = [req EXCEPT ![r] = y]
    BY <1>3 DEF BeginWrite, Goto
  <2>2. y \in ReqState /\ Coherent(y) /\ y.pc = "hook" /\ y.conn = req[r].conn
    <3>1. y.pc = "hook" /\ y.conn = req[r].conn
      BY <1>1 DEF ReqState
    <3> QED BY <1>1, <3>1, MoveState
  <2>3. /\ d \in DbState /\ d.commits = db.commits
        /\ d.seen[req[r].conn] = db.commits
    <3>1. DbTyped
      BY DEF Shape, Typed
    <3> QED BY <1>2, <3>1, ReadFacts
  <2> HIDE DEF d, y
  <2>4. /\ DbTyped' /\ db'.writer = r /\ db'.commits = db.commits
        /\ db'.seen[req[r].conn] = db.commits
    BY <2>1, <2>3 DEF DbTyped, DbState
  <2>5. RequestsTyped' /\ req'[r] = y /\ \A s \in Request : s # r => req'[s] = req[s]
    BY <2>1, <2>2, OneRequest DEF Shape, Typed
  <2>6. \A s \in Request : req[s].pc \notin Locks
    BY <1>3, Nones DEF Shape, WriterHoldsLock, Locks
  <2>7. WriterHoldsLock'
    BY <2>2, <2>4, <2>5, <2>6 DEF WriterHoldsLock, Locks
  <2> QED BY <1>1, <2>4, <2>5, <2>7 DEF Shape, Typed, RowsTyped, PagesTyped, WatcherTyped
<1>4. CASE db.writer # None
  <2> DEFINE y == [req[r] EXCEPT !.pc = "release"]
  <2>1. db' = BeginRead(req[r].conn) /\ req' = [req EXCEPT ![r] = y]
    BY <1>4 DEF BeginWrite, Goto
  <2>2. y \in ReqState /\ Coherent(y) /\ y.pc = "release"
    <3>1. y.pc = "release"
      BY <1>1 DEF ReqState
    <3> QED BY <1>1, <3>1, MoveState
  <2> HIDE DEF y
  <2> QED BY <1>1, <2>1, <2>2, ReadingShape DEF Locks
<1> QED BY <1>3, <1>4

(* The update hook, the end of the statement, and the writes of others.    *)
LEMMA HookInvalidateFacts ==
    ASSUME Shape, NEW r \in Request, HookInvalidate(r)
    PROVE  /\ RequestsTyped' /\ req[r].table \in Table /\ req'[r].pc = "notify"
           /\ req'[r].table = req[r].table /\ req'[r].conn = req[r].conn
           /\ \A s \in Request :
                /\ s # r => SameControl(req'[s], req[s])
                /\ req'[s].route = req[s].route /\ req'[s].got = req[s].got
                /\ req'[s].notified = req[s].notified
                /\ req[s].row = None => req'[s].row = None
                /\ req[s].row # None =>
                     /\ req'[s].row # None /\ req'[s].row.snap = req[s].row.snap
                     /\ req[s].row.raced => req'[s].row.raced
                     /\ req[r].table \in ReadsOf[HolesOf[req[s].route][Len(req[s].got) + 1]] =>
                          req'[s].row.raced
<1> DEFINE t == req[r].table
           y == [req[r] EXCEPT !.pc = "notify", !.hooks = @ + 1]
           R == [req EXCEPT ![r] = y]
<1>1. /\ req' = RaceFills(R, {t})
      /\ req[r].pc = "hook" \/ (req[r].pc = "applied" /\ req[r].hooks < MaxHooks)
  BY DEF HookInvalidate
<1>2. req[r] \in ReqState /\ Coherent(req[r])
  BY Here
<1>3. y \in ReqState /\ Coherent(y)
  BY <1>1, <1>2, HookState
<1>4. /\ y.pc = "notify" /\ y.table = t /\ y.conn = req[r].conn /\ y.route = req[r].route
      /\ y.got = req[r].got /\ y.row = req[r].row /\ y.notified = req[r].notified
  BY <1>2 DEF ReqState
<1>5. t \in Table
  BY <1>1, <1>2 DEF Coherent
<1> HIDE DEF y, t
<1>6. /\ R \in [Request -> ReqState] /\ R[r] = y /\ \A s \in Request : s # r => R[s] = req[s]
      /\ \A s \in Request : Coherent(R[s])
  BY <1>3 DEF Shape, Typed, RequestsTyped
<1> HIDE DEF R
<1>7. /\ req' \in [Request -> ReqState]
      /\ \A s \in Request :
           /\ Coherent(req'[s]) /\ SameControl(req'[s], R[s])
           /\ req'[s].notified = R[s].notified
           /\ R[s].row = None => req'[s].row = None
           /\ R[s].row # None =>
                /\ req'[s].row # None /\ req'[s].row.snap = R[s].row.snap
                /\ R[s].row.raced => req'[s].row.raced
                /\ ReadsOf[HolesOf[R[s].route][Len(R[s].got) + 1]] \cap {t} # {} =>
                     req'[s].row.raced
  <2> DEFINE S == {t}
  <2>1. req' = RaceFills(R, S)
    BY <1>1
  <2> HIDE DEF S
  <2>2. /\ req' \in [Request -> ReqState]
        /\ \A s \in Request :
             /\ Coherent(req'[s]) /\ SameControl(req'[s], R[s])
             /\ req'[s].notified = R[s].notified
             /\ R[s].row = None => req'[s].row = None
             /\ R[s].row # None =>
                  /\ req'[s].row # None /\ req'[s].row.snap = R[s].row.snap
                  /\ R[s].row.raced => req'[s].row.raced
                  /\ ReadsOf[HolesOf[R[s].route][Len(R[s].got) + 1]] \cap S # {} =>
                       req'[s].row.raced
    BY <1>6, <2>1, RaceFillsFacts
  <2> QED BY <2>2, Zenon DEF S
<1>8. RequestsTyped' /\ req'[r].pc = "notify" /\ req'[r].table = t /\ req'[r].conn = req[r].conn
  BY <1>4, <1>6, <1>7 DEF RequestsTyped, SameControl
<1>9. ASSUME NEW s \in Request
      PROVE  /\ s # r => SameControl(req'[s], req[s])
             /\ req'[s].route = req[s].route /\ req'[s].got = req[s].got
             /\ req'[s].notified = req[s].notified
             /\ req[s].row = None => req'[s].row = None
             /\ req[s].row # None =>
                  /\ req'[s].row # None /\ req'[s].row.snap = req[s].row.snap
                  /\ req[s].row.raced => req'[s].row.raced
                  /\ t \in ReadsOf[HolesOf[req[s].route][Len(req[s].got) + 1]] =>
                       req'[s].row.raced
  <2>1. /\ R[s].route = req[s].route /\ R[s].got = req[s].got /\ R[s].row = req[s].row
        /\ R[s].notified = req[s].notified
    BY <1>4, <1>6
  <2> QED BY <1>6, <1>7, <2>1 DEF SameControl
<1> QED BY <1>5, <1>8, <1>9 DEF t

LEMMA HookInvalidateShape ==
    ASSUME Shape, NEW r \in Request, HookInvalidate(r)
    PROVE  Shape'
<1>1. /\ rows' = Without(rows, RowsReading({req[r].table})) /\ req[r].pc \in Locks
      /\ UNCHANGED <<db, free, pages, watcher>>
  BY DEF HookInvalidate, Locks
<1>2. RowsTyped'
  <2> DEFINE D == RowsReading({req[r].table})
  <2>1. DOMAIN rows' = DOMAIN rows \ D /\ \A q \in DOMAIN rows' : rows'[q] = rows[q]
    BY <1>1 DEF Without
  <2> HIDE DEF D
  <2> QED BY <2>1 DEF Shape, Typed, RowsTyped
<1>3. RequestsTyped'
  BY HookInvalidateFacts
<1>4. \A s \in Request : /\ req'[s].pc \in Locks <=> req[s].pc \in Locks
                         /\ req[s].pc \in Locks => req'[s].conn = req[s].conn
  BY <1>1, HookInvalidateFacts DEF SameControl, Locks
<1>5. WriterHoldsLock'
  BY <1>1, <1>4, LockKept
<1> QED BY <1>1, <1>2, <1>3, <1>5 DEF Shape, Typed, DbTyped, PagesTyped, WatcherTyped

LEMMA HookNotifyFacts ==
    ASSUME Shape, NEW r \in Request, HookNotify(r)
    PROVE  /\ RequestsTyped' /\ req[r].table \in Table /\ req'[r].pc = "applied"
           /\ req'[r].table = req[r].table /\ req'[r].conn = req[r].conn
           /\ \A s \in Request :
                /\ s # r => SameControl(req'[s], req[s])
                /\ req'[s].route = req[s].route /\ req'[s].got = req[s].got
                /\ req'[s].row = req[s].row
                /\ req[s].notified => req'[s].notified
                /\ req[s].route \in Route /\ ~req'[s].notified =>
                     \A i \in DOMAIN req[s].got :
                       req[r].table \notin ReadsOf[HolesOf[req[s].route][i]]
<1> DEFINE t == req[r].table
           y == [req[r] EXCEPT !.pc = "applied"]
           R == [req EXCEPT ![r] = y]
<1>1. req' = RacePages(R, {t}) /\ req[r].pc = "notify"
  BY DEF HookNotify
<1>2. req[r] \in ReqState /\ Coherent(req[r])
  BY Here
<1>3. y \in ReqState /\ Coherent(y)
  BY <1>1, <1>2, MoveState
<1>4. /\ y.pc = "applied" /\ y.table = t /\ y.conn = req[r].conn /\ y.route = req[r].route
      /\ y.got = req[r].got /\ y.row = req[r].row /\ y.notified = req[r].notified
  BY <1>2 DEF ReqState
<1>5. t \in Table
  BY <1>1, <1>2, Nones DEF Coherent, ReqState
<1> HIDE DEF y, t
<1>6. /\ R \in [Request -> ReqState] /\ R[r] = y /\ \A s \in Request : s # r => R[s] = req[s]
      /\ \A s \in Request : Coherent(R[s])
  BY <1>3 DEF Shape, Typed, RequestsTyped
<1> HIDE DEF R
<1>7. /\ req' \in [Request -> ReqState]
      /\ \A s \in Request :
           /\ Coherent(req'[s]) /\ SameControl(req'[s], R[s])
           /\ req'[s].row = R[s].row
           /\ R[s].notified => req'[s].notified
           /\ R[s].route \in Route /\ ~req'[s].notified =>
                \A i \in DOMAIN R[s].got : ReadsOf[HolesOf[R[s].route][i]] \cap {t} = {}
  BY <1>1, <1>6, RacePagesFacts
<1>8. RequestsTyped' /\ req'[r].pc = "applied" /\ req'[r].table = t /\ req'[r].conn = req[r].conn
  BY <1>4, <1>6, <1>7 DEF RequestsTyped, SameControl
<1>9. ASSUME NEW s \in Request
      PROVE  /\ s # r => SameControl(req'[s], req[s])
             /\ req'[s].route = req[s].route /\ req'[s].got = req[s].got
             /\ req'[s].row = req[s].row
             /\ req[s].notified => req'[s].notified
             /\ req[s].route \in Route /\ ~req'[s].notified =>
                  \A i \in DOMAIN req[s].got : t \notin ReadsOf[HolesOf[req[s].route][i]]
  <2>1. /\ R[s].route = req[s].route /\ R[s].got = req[s].got /\ R[s].row = req[s].row
        /\ R[s].notified = req[s].notified
    BY <1>4, <1>6
  <2> QED BY <1>6, <1>7, <2>1 DEF SameControl
<1> QED BY <1>5, <1>8, <1>9 DEF t

LEMMA HookNotifyShape ==
    ASSUME Shape, NEW r \in Request, HookNotify(r)
    PROVE  Shape'
<1>1. /\ pages' = Without(pages, PagesReading({req[r].table})) /\ req[r].pc \in Locks
      /\ UNCHANGED <<db, free, rows, watcher>>
  BY DEF HookNotify, Locks
<1>2. PagesTyped'
  <2> DEFINE D == PagesReading({req[r].table})
  <2>1. DOMAIN pages' = DOMAIN pages \ D /\ \A p \in DOMAIN pages' : pages'[p] = pages[p]
    BY <1>1 DEF Without
  <2> HIDE DEF D
  <2> QED BY <2>1 DEF Shape, Typed, PagesTyped
<1>3. RequestsTyped'
  BY HookNotifyFacts
<1>4. \A s \in Request : /\ req'[s].pc \in Locks <=> req[s].pc \in Locks
                         /\ req[s].pc \in Locks => req'[s].conn = req[s].conn
  BY <1>1, HookNotifyFacts DEF SameControl, Locks
<1>5. WriterHoldsLock'
  BY <1>1, <1>4, LockKept
<1> QED BY <1>1, <1>2, <1>3, <1>5 DEF Shape, Typed, DbTyped, RowsTyped, WatcherTyped

(* A statement that ends, either way, gives the lock back. *)
LEMMA EndOfWrite ==
    ASSUME Shape, NEW r \in Request, req[r].pc = "applied", Goto(r, "release"),
           DbTyped', db'.writer = None
    PROVE  /\ RequestsTyped' /\ WriterHoldsLock'
           /\ req'[r] = [req[r] EXCEPT !.pc = "release"] /\ req'[r].pc = "release"
           /\ \A s \in Request : s # r => req'[s] = req[s]
           /\ \A s \in Request : req[s].pc \in Locks <=> s = r
<1> DEFINE y == [req[r] EXCEPT !.pc = "release"]
<1>1. req[r] \in ReqState /\ Coherent(req[r])
  BY Here
<1>2. y \in ReqState /\ Coherent(y) /\ y.pc = "release"
  <2>1. y.pc = "release"
    BY <1>1 DEF ReqState
  <2> QED BY <1>1, <2>1, MoveState
<1> HIDE DEF y
<1>3. RequestsTyped' /\ req'[r] = y /\ \A s \in Request : s # r => req'[s] = req[s]
  BY <1>2, OneRequest DEF Shape, Typed, Goto, y
<1>4. \A s \in Request : req[s].pc \in Locks <=> s = r
  BY DEF Shape, WriterHoldsLock, Locks
<1>5. WriterHoldsLock'
  BY <1>2, <1>3, <1>4, Nones DEF WriterHoldsLock, Locks
<1> QED BY <1>2, <1>3, <1>4, <1>5 DEF y

LEMMA CommitFacts ==
    ASSUME Shape, NEW r \in Request, Commit(r)
    PROVE  /\ DbTyped' /\ db'.writer = None /\ db'.commits = db.commits + 1
           /\ db'.ext = db.ext /\ db'.dataVersion = db.dataVersion
           /\ req[r].conn \in Conn /\ db'.seen = [db.seen EXCEPT ![req[r].conn] = db.commits + 1]
           /\ \A t \in Table : t # req[r].table => db'.pool[t] = db.pool[t]
<1> DEFINE c == req[r].conn
           t == req[r].table
           pool == [db.pool EXCEPT ![t] = @ + 1]
           seen == [db.seen EXCEPT ![c] = db.commits + 1]
<1>1. req[r] \in ReqState /\ Coherent(req[r]) /\ req[r].pc = "applied"
  BY Here DEF Commit
<1>2. c \in Conn /\ t \in Table
  BY <1>1, HoldersHaveConns DEF Coherent, Holding
<1>3. /\ db.pool \in [Table -> Nat] /\ db.seen \in [Conn -> Nat] /\ db.commits \in Nat
      /\ db \in DbState
  BY DEF Shape, Typed, DbTyped, DbState
<1>4. /\ pool \in [Table -> Nat] /\ seen \in [Conn -> Nat]
      /\ \A k \in Table : k # t => pool[k] = db.pool[k]
  <2> HIDE DEF c, t
  <2> QED BY <1>2, <1>3
<1>5. db' = [db EXCEPT !.pool = pool, !.commits = db.commits + 1, !.seen = seen,
                       !.writer = None]
  BY <1>3 DEF Commit, DbState
<1>6. /\ DbTyped' /\ db'.writer = None /\ db'.commits = db.commits + 1
      /\ db'.ext = db.ext /\ db'.dataVersion = db.dataVersion
      /\ db'.seen = seen /\ db'.pool = pool
  <2> DEFINE n == db.commits + 1
  <2>1. n \in Nat
    BY <1>3
  <2>2. db' = [db EXCEPT !.pool = pool, !.commits = n, !.seen = seen, !.writer = None]
    BY <1>5
  <2> HIDE DEF pool, seen, n
  <2>3. /\ db' \in DbState /\ db'.writer = None /\ db'.commits = n
        /\ db'.ext = db.ext /\ db'.dataVersion = db.dataVersion
        /\ db'.seen = seen /\ db'.pool = pool
    BY <1>3, <1>4, <2>1, <2>2 DEF DbState
  <2> QED BY <2>3 DEF DbTyped, n
<1> QED BY <1>2, <1>4, <1>6

LEMMA CommitShape ==
    ASSUME Shape, NEW r \in Request, Commit(r)
    PROVE  Shape'
<1>1. DbTyped' /\ db'.writer = None
  BY CommitFacts
<1>2. RequestsTyped' /\ WriterHoldsLock'
  BY <1>1, EndOfWrite DEF Commit
<1> QED BY <1>1, <1>2 DEF Commit, Shape, Typed, RowsTyped, PagesTyped, WatcherTyped

LEMMA RollbackShape ==
    ASSUME Shape, NEW r \in Request, Rollback(r)
    PROVE  Shape'
<1>1. DbTyped' /\ db'.writer = None
  BY DEF Rollback, Shape, Typed, DbTyped, DbState
<1>2. RequestsTyped' /\ WriterHoldsLock'
  BY <1>1, EndOfWrite DEF Rollback
<1> QED BY <1>1, <1>2 DEF Rollback, Shape, Typed, RowsTyped, PagesTyped, WatcherTyped

LEMMA ExternalWriteShape ==
    ASSUME Shape, ExternalWrite
    PROVE  Shape'
<1>1. DbTyped' /\ db'.writer = None /\ db.writer = None
  <2> DEFINE e == db.ext + 1
             n == db.commits + 1
  <2>1. db \in DbState /\ e \in Nat /\ n \in Nat
    BY DEF Shape, Typed, DbTyped, DbState
  <2>2. db' = [db EXCEPT !.ext = e, !.commits = n] /\ db.writer = None
    BY <2>1 DEF ExternalWrite, DbState
  <2> HIDE DEF e, n
  <2>3. db' \in DbState /\ db'.writer = db.writer
    BY <2>1, <2>2 DEF DbState
  <2> QED BY <2>2, <2>3 DEF DbTyped
<1>2. WriterHoldsLock'
  BY <1>1, Nones DEF ExternalWrite, Shape, WriterHoldsLock
<1> QED BY <1>1, <1>2
        DEF ExternalWrite, Shape, Typed, RowsTyped, PagesTyped, RequestsTyped, WatcherTyped

LEMMA ForgetShape ==
    ASSUME Shape, (\E q \in Query : ForgetRow(q)) \/ (\E p \in Route : ForgetPage(p))
    PROVE  Shape'
<1>1. UNCHANGED <<db, free, req, watcher>>
  BY DEF ForgetRow, ForgetPage
<1>2. /\ DOMAIN rows' \subseteq DOMAIN rows /\ DOMAIN pages' \subseteq DOMAIN pages
      /\ \A q \in DOMAIN rows' : rows'[q] = rows[q]
      /\ \A p \in DOMAIN pages' : pages'[p] = pages[p]
  BY DEF ForgetRow, ForgetPage, Without
<1>3. RowsTyped' /\ PagesTyped'
  BY <1>2 DEF Shape, Typed, RowsTyped, PagesTyped
<1> QED BY <1>1, <1>3 DEF Shape, Typed, DbTyped, RequestsTyped, WatcherTyped, WriterHoldsLock

(* The poller. *)
LEMMA PolledState ==
    ASSUME NEW w \in WatcherState
    PROVE  /\ Polled(w) \in WatcherState
           /\ Polled(w).pc = "sleep" /\ Polled(w).conn = None /\ Polled(w).ver = 0
           /\ Polled(w).lastVer = w.ver /\ Polled(w).ext = 0 /\ Polled(w).lastExt = w.ext
           /\ Polled(w).base = IF w.lastVer = -1 THEN w.ext ELSE w.base
  BY DEF Polled, WatcherState

LEMMA PollAcquireShape ==
    ASSUME Shape, PollAcquire
    PROVE  Shape'
<1> DEFINE c == Head(free)
<1>1. c \in Conn /\ free' \in Seq(Conn)
  BY TailFacts DEF PollAcquire, Shape, Typed
<1>2. watcher' = [watcher EXCEPT !.pc = "poll", !.conn = c] /\ UNCHANGED <<db, rows, pages, req>>
  BY DEF PollAcquire
<1> HIDE DEF c
<1>3. WatcherTyped'
  BY <1>1, <1>2, Nones DEF Shape, Typed, WatcherTyped, WatcherState
<1> QED BY <1>1, <1>2, <1>3
        DEF Shape, Typed, DbTyped, RowsTyped, PagesTyped, RequestsTyped, WriterHoldsLock

LEMMA PollReadShape ==
    ASSUME Shape, PollRead
    PROVE  Shape'
<1> DEFINE v == db'.dataVersion[watcher.conn]
           e == db.ext
<1>1. /\ watcher.pc = "poll" /\ UNCHANGED <<free, rows, pages, req>>
      /\ db' = BeginRead(watcher.conn)
      /\ watcher' = [watcher EXCEPT !.pc = "compare", !.ext = e, !.ver = v]
  BY DEF PollRead
<1>2. watcher.conn \in Conn /\ DbTyped
  BY <1>1 DEF Shape, Typed, WatcherTyped, WatcherState
<1>3. /\ DbTyped' /\ db'.commits = db.commits /\ db'.writer = db.writer
      /\ \A k \in Conn : db'.seen[k] = db.seen[k] \/ db'.seen[k] = db.commits
  BY <1>1, <1>2, ReadFacts DEF DbTyped
<1>4. v \in Nat /\ e \in Nat
  BY <1>2, <1>3 DEF DbTyped, DbState
<1> HIDE DEF v, e
<1>5. WatcherTyped'
  BY <1>1, <1>4, Nones DEF Shape, Typed, WatcherTyped, WatcherState
<1>6. WriterHoldsLock'
  BY <1>1, <1>3, LockKept
<1> QED BY <1>1, <1>3, <1>5, <1>6 DEF Shape, Typed, RowsTyped, PagesTyped, RequestsTyped

LEMMA PollCompareShape ==
    ASSUME Shape, PollCompare \/ PollError
    PROVE  Shape'
<1>1. watcher.pc = "compare" /\ UNCHANGED <<db, rows, pages, req>> /\ free' = Append(free, watcher.conn)
  BY DEF PollCompare, PollError
<1>2. watcher \in WatcherState /\ watcher.conn \in Conn
  BY <1>1 DEF Shape, Typed, WatcherTyped, WatcherState
<1>3. free' \in Seq(Conn)
  BY <1>1, <1>2, AppendFacts DEF Shape, Typed
<1>4. WatcherTyped'
  <2>1. CASE watcher' = [watcher EXCEPT !.pc = "flush", !.conn = None]
    BY <1>2, <2>1 DEF WatcherTyped, WatcherState
  <2>2. CASE watcher' = Polled(watcher)
    BY <1>2, <2>2, PolledState DEF WatcherTyped
  <2>3. CASE watcher' = [watcher EXCEPT !.pc = "sleep", !.conn = None, !.ver = 0, !.ext = 0]
    BY <1>2, <2>3 DEF WatcherTyped, WatcherState
  <2> QED BY <2>1, <2>2, <2>3 DEF PollCompare, PollError
<1> QED BY <1>1, <1>3, <1>4
        DEF Shape, Typed, DbTyped, RowsTyped, PagesTyped, RequestsTyped, WriterHoldsLock

LEMMA PollFlushShape ==
    ASSUME Shape, PollFlush
    PROVE  Shape'
<1>1. /\ rows' = NoFcn /\ req' = RaceFills(req, Table) /\ watcher.pc = "flush"
      /\ watcher' = [watcher EXCEPT !.pc = "broadcast"] /\ UNCHANGED <<db, free, pages>>
  BY DEF PollFlush
<1>2. /\ req \in [Request -> ReqState] /\ \A r \in Request : Coherent(req[r])
  BY DEF Shape, Typed, RequestsTyped
<1>3. /\ RequestsTyped' /\ \A s \in Request : SameControl(req'[s], req[s])
  BY <1>1, <1>2, RaceFillsFacts DEF RequestsTyped
<1>4. WriterHoldsLock'
  BY <1>1, <1>3, LockKept DEF SameControl
<1>5. RowsTyped' /\ WatcherTyped'
  BY <1>1 DEF RowsTyped, NoFcn, Shape, Typed, WatcherTyped, WatcherState
<1> QED BY <1>1, <1>3, <1>4, <1>5 DEF Shape, Typed, DbTyped, PagesTyped

LEMMA PollBroadcastShape ==
    ASSUME Shape, PollBroadcast
    PROVE  Shape'
<1>1. /\ pages' = NoFcn /\ req' = RacePages(req, Table) /\ watcher.pc = "broadcast"
      /\ watcher' = Polled(watcher) /\ UNCHANGED <<db, free, rows>>
  BY DEF PollBroadcast
<1>2. /\ req \in [Request -> ReqState] /\ \A r \in Request : Coherent(req[r])
  BY DEF Shape, Typed, RequestsTyped
<1>3. /\ RequestsTyped' /\ \A s \in Request : SameControl(req'[s], req[s])
  BY <1>1, <1>2, RacePagesFacts DEF RequestsTyped
<1>4. WriterHoldsLock'
  BY <1>1, <1>3, LockKept DEF SameControl
<1>5. PagesTyped' /\ WatcherTyped'
  BY <1>1, PolledState DEF PagesTyped, NoFcn, Shape, Typed, WatcherTyped
<1> QED BY <1>1, <1>3, <1>4, <1>5 DEF Shape, Typed, DbTyped, RowsTyped

LEMMA NextShape == Shape /\ [Next]_vars => Shape'
<1> SUFFICES ASSUME Shape, [Next]_vars PROVE Shape'
  OBVIOUS
<1>1. ASSUME NEW r \in Request, NEW p \in Route, OutputMiss(r, p) PROVE Shape'
  BY <1>1, OutputMissShape
<1>2. ASSUME NEW r \in Request, NEW t \in Table, StartWrite(r, t) PROVE Shape'
  BY <1>2, StartWriteShape
<1>3. ASSUME NEW r \in Request, Acquire(r) PROVE Shape'
  BY <1>3, AcquireShape
<1>4. ASSUME NEW r \in Request, RequestStep(r) PROVE Shape'
  BY <1>4, RowHitShape, RowMissShape, ReadShape, ReleaseShape, RowPutShape, OutputPutShape,
     BeginWriteShape, HookInvalidateShape, HookNotifyShape, CommitShape, RollbackShape
  DEF RequestStep
<1>5. ASSUME (\E q \in Query : ForgetRow(q)) \/ (\E p \in Route : ForgetPage(p)) PROVE Shape'
  BY <1>5, ForgetShape
<1>6. ASSUME PollAcquire \/ WatcherStep PROVE Shape'
  BY <1>6, PollAcquireShape, PollReadShape, PollCompareShape, PollFlushShape, PollBroadcastShape
  DEF WatcherStep
<1>7. ASSUME UNCHANGED vars PROVE Shape'
  BY <1>7 DEF vars, Shape, Typed, DbTyped, RowsTyped, PagesTyped, RequestsTyped, WatcherTyped,
              WriterHoldsLock
<1> QED BY <1>1, <1>2, <1>3, <1>4, <1>5, <1>6, <1>7, ExternalWriteShape DEF Next

LEMMA SpecShape == Spec => []Shape
  BY InitShape, NextShape, PTL DEF Spec

(* The database, the pool, the caches, the goroutines and the poller are   *)
(* well typed at every moment.                                             *)
THEOREM TypeCorrect == Spec => []TypeOK
<1>1. Shape => TypeOK
  <2> SUFFICES ASSUME Shape PROVE TypeOK
    OBVIOUS
  <2>1. ASSUME NEW q \in Query, NEW s \in SnapOf(q) PROVE IsSnap(s)
    BY FastDBAssumption DEF SnapOf, IsSnap
  <2>2. ASSUME NEW q \in Query, NEW f \in FillOf(q) PROVE IsFill(f)
    BY <2>1 DEF FillOf, IsFill
  <2>3. \A f \in Fills : IsFill(f)
    BY <2>2 DEF Fills
  <2>4. \A p \in DOMAIN pages :
          /\ pages[p].raced \in BOOLEAN
          /\ \A i \in DOMAIN pages[p].snaps : IsSnap(pages[p].snaps[i])
    BY <2>1, HolesSeq DEF Shape, Typed, PagesTyped, PageOf
  <2>5. ASSUME NEW r \in Request
        PROVE  /\ req[r].pc \in PC
               /\ req[r].route \in Route \cup {None} /\ req[r].table \in Table \cup {None}
               /\ req[r].conn \in Conn \cup {None}
               /\ req[r].row # None => IsFill(req[r].row)
               /\ \A i \in DOMAIN req[r].got : IsFill(req[r].got[i])
               /\ req[r].hooks \in 0..MaxHooks
               /\ req[r].ok \in BOOLEAN /\ req[r].notified \in BOOLEAN
    <3>1. req[r] \in ReqState
      BY Here
    <3>2. \A i \in DOMAIN req[r].got : req[r].got[i] \in Fills
      BY <3>1 DEF ReqState
    <3> QED BY <2>3, <3>1, <3>2 DEF ReqState
  <2>6. DOMAIN rows \subseteq Query /\ \A q \in DOMAIN rows : IsFill(rows[q])
    BY <2>2 DEF Shape, Typed, RowsTyped
  <2>7. DOMAIN pages \subseteq Route
    BY DEF Shape, Typed, PagesTyped
  <2> QED BY <2>4, <2>5, <2>6, <2>7
          DEF TypeOK, Shape, Typed, DbTyped, DbState, WatcherTyped, WatcherState
<1> QED BY <1>1, SpecShape, PTL

---------------------------------------------------------------------------
(* The connections: a FIFO without duplicates that covers, with what the   *)
(* goroutines hold, the whole pool.                                        *)
QueueOK(f, H) ==
    /\ \A i, j \in DOMAIN f : f[i] = f[j] => i = j
    /\ \A i \in DOMAIN f : f[i] \notin H
    /\ \A c \in Conn : c \in H \/ \E i \in DOMAIN f : f[i] = c

HoldersDistinct ==
    \A r \in Request : req[r].conn # None =>
      /\ req[r].conn # watcher.conn
      /\ \A s \in Request \ {r} : req[r].conn # req[s].conn

LEMMA ConservedSplit == ConnsConserved <=> QueueOK(free, Held) /\ HoldersDistinct
  BY DEF ConnsConserved, QueueOK, HoldersDistinct

LEMMA ConservedSplitPrimed == ConnsConserved' <=> QueueOK(free', Held') /\ HoldersDistinct'
  BY DEF ConnsConserved, QueueOK, HoldersDistinct

LEMMA QueueTake ==
    ASSUME NEW f \in Seq(Conn), NEW H, QueueOK(f, H), f # <<>>
    PROVE  Head(f) \notin H /\ QueueOK(Tail(f), H \cup {Head(f)})
<1> DEFINE n == Len(f)
<1>1. /\ n \in Nat /\ n > 0 /\ DOMAIN f = 1..n /\ DOMAIN Tail(f) = 1..(n - 1)
      /\ Head(f) = f[1] /\ \A i \in 1..(n - 1) : Tail(f)[i] = f[i + 1]
  BY TailFacts
<1>2. \A i \in 1..(n - 1) : i + 1 \in 1..n /\ i + 1 # 1
  BY <1>1
<1>3. 1 \in 1..n
  BY <1>1
<1> HIDE DEF n
<1>4. \A i, j \in 1..(n - 1) : Tail(f)[i] = Tail(f)[j] => i = j
  BY <1>1, <1>2 DEF QueueOK
<1>5. \A i \in 1..(n - 1) : Tail(f)[i] \notin H \cup {Head(f)}
  BY <1>1, <1>2, <1>3 DEF QueueOK
<1>6. ASSUME NEW c \in Conn, c \notin H \cup {Head(f)}
      PROVE  \E i \in 1..(n - 1) : Tail(f)[i] = c
  <2>1. PICK i \in 1..n : f[i] = c
    BY <1>1, <1>6 DEF QueueOK
  <2>2. i # 1
    BY <1>1, <1>6, <2>1
  <2>3. i - 1 \in 1..(n - 1) /\ (i - 1) + 1 = i
    BY <1>1, <2>2
  <2> QED BY <1>1, <2>1, <2>3
<1>7. Head(f) \notin H
  BY <1>1, <1>3 DEF QueueOK
<1> QED BY <1>1, <1>4, <1>5, <1>6, <1>7 DEF QueueOK

LEMMA QueueGive ==
    ASSUME NEW f \in Seq(Conn), NEW H, QueueOK(f, H), NEW c \in Conn, c \in H
    PROVE  QueueOK(Append(f, c), H \ {c})
<1> DEFINE n == Len(f)
           g == Append(f, c)
<1>1. /\ n \in Nat /\ DOMAIN f = 1..n /\ DOMAIN g = 1..(n + 1) /\ g[n + 1] = c
      /\ \A i \in 1..n : g[i] = f[i]
  BY AppendFacts
<1>2. \A i \in 1..(n + 1) : i \in 1..n \/ i = n + 1
  BY <1>1
<1>3. n + 1 \in 1..(n + 1) /\ \A i \in 1..n : i \in 1..(n + 1)
  BY <1>1
<1>4. \A i \in 1..n : f[i] # c
  BY <1>1 DEF QueueOK
<1> HIDE DEF n, g
<1>5. \A i, j \in 1..(n + 1) : g[i] = g[j] => i = j
  BY <1>1, <1>2, <1>4 DEF QueueOK
<1>6. \A i \in 1..(n + 1) : g[i] \notin H \ {c}
  BY <1>1, <1>2 DEF QueueOK
<1>7. \A d \in Conn : d \in H \ {c} \/ \E i \in 1..(n + 1) : g[i] = d
  BY <1>1, <1>3 DEF QueueOK
<1> QED BY <1>1, <1>5, <1>6, <1>7 DEF QueueOK, g

LEMMA ConnsSame ==
    ASSUME ConnsConserved, free' = free, watcher'.conn = watcher.conn,
           \A s \in Request : req'[s].conn = req[s].conn
    PROVE  ConnsConserved'
<1>1. Held' = Held
  BY DEF Held
<1> QED BY <1>1 DEF ConnsConserved

(* A goroutine takes the connection at the head of the channel ... *)
LEMMA ConnsTaken ==
    ASSUME Shape, ConnsConserved, free # <<>>, free' = Tail(free),
           \/ /\ watcher'.conn = watcher.conn
              /\ \E r \in Request : /\ req'[r].conn = Head(free) /\ req[r].conn = None
                                    /\ \A s \in Request \ {r} : req'[s].conn = req[s].conn
           \/ /\ watcher'.conn = Head(free) /\ watcher.conn = None
              /\ \A s \in Request : req'[s].conn = req[s].conn
    PROVE  ConnsConserved'
<1> DEFINE c == Head(free)
<1>1. QueueOK(free, Held) /\ HoldersDistinct /\ free \in Seq(Conn)
  BY ConservedSplit DEF Shape, Typed
<1>2. c \notin Held /\ QueueOK(free', Held \cup {c})
  BY <1>1, QueueTake
<1>3. c \in Conn /\ c # None
  BY <1>1, TailFacts, Nones
<1> HIDE DEF c
<1>4. Held' = Held \cup {c}
  BY <1>3 DEF Held, c
<1>5. HoldersDistinct'
  BY <1>1, <1>2, <1>3 DEF HoldersDistinct, Held, c
<1> QED BY <1>2, <1>4, <1>5, ConservedSplitPrimed

(* ... and gives back the one it holds. *)
LEMMA ConnsGiven ==
    ASSUME Shape, ConnsConserved, NEW c \in Conn, free' = Append(free, c),
           \/ /\ watcher'.conn = watcher.conn
              /\ \E r \in Request : /\ req[r].conn = c /\ req'[r].conn = None
                                    /\ \A s \in Request \ {r} : req'[s].conn = req[s].conn
           \/ /\ watcher.conn = c /\ watcher'.conn = None
              /\ \A s \in Request : req'[s].conn = req[s].conn
    PROVE  ConnsConserved'
<1>1. QueueOK(free, Held) /\ HoldersDistinct /\ free \in Seq(Conn) /\ c # None
  BY ConservedSplit, Nones DEF Shape, Typed
<1>2. c \in Held
  BY <1>1 DEF Held
<1>3. QueueOK(free', Held \ {c})
  BY <1>1, <1>2, QueueGive
<1>4. Held' = Held \ {c}
  BY <1>1 DEF HoldersDistinct, Held
<1>5. HoldersDistinct'
  BY <1>1 DEF HoldersDistinct
<1> QED BY <1>3, <1>4, <1>5, ConservedSplitPrimed

LEMMA InitConserved == NewPool => ConnsConserved
<1> SUFFICES ASSUME NewPool PROVE ConnsConserved
  OBVIOUS
<1> DEFINE n == Cardinality(Conn)
<1>1. n \in Nat
  BY FS_CardinalityType, FastDBAssumption
<1>2. Held = {}
  BY DEF NewPool, Held, Idle
<1>3. free \in [1..n -> Conn] /\ \A c \in Conn : \E i \in 1..n : free[i] = c
  BY Zenon DEF NewPool
<1>4. \A i, j \in 1..n : free[i] = free[j] => i = j
  <2>1. IsFiniteSet(1..n) /\ Cardinality(1..n) = n
    BY <1>1, FS_Interval
  <2>2. free \in Surjection(1..n, Conn)
    BY <1>3 DEF Surjection
  <2>3. free \in Injection(1..n, Conn)
    BY <2>1, <2>2, FS_SurjSameCardinalityImpliesInj
  <2> QED BY <2>3 DEF Injection, IsInjective
<1>5. HoldersDistinct
  BY DEF NewPool, Idle, HoldersDistinct
<1> QED BY <1>2, <1>3, <1>4, <1>5, ConservedSplit DEF QueueOK

LEMMA NextConserved == Shape /\ ConnsConserved /\ [Next]_vars => ConnsConserved'
<1> SUFFICES ASSUME Shape, ConnsConserved, [Next]_vars PROVE ConnsConserved'
  OBVIOUS
<1>1. \A r \in Request : /\ req[r] \in ReqState /\ Coherent(req[r])
                         /\ ~Holding(req[r]) => req[r].conn = None
  BY Here DEF Coherent
<1>2. req \in [Request -> ReqState]
  BY DEF Shape, Typed, RequestsTyped
<1>3. ASSUME NEW r \in Request, NEW y, req' = [req EXCEPT ![r] = y], y.conn = req[r].conn,
             free' = free, watcher' = watcher
      PROVE  ConnsConserved'
  BY <1>2, <1>3, ConnsSame
<1>4. ASSUME NEW r \in Request, NEW p \in Route, OutputMiss(r, p) PROVE ConnsConserved'
  BY <1>1, <1>3, <1>4 DEF OutputMiss, Idle, Holding
<1>5. ASSUME NEW r \in Request, NEW t \in Table, StartWrite(r, t) PROVE ConnsConserved'
  BY <1>1, <1>3, <1>5 DEF StartWrite, Idle, Holding
<1>6. ASSUME NEW r \in Request, Acquire(r) PROVE ConnsConserved'
  <2>1. /\ free # <<>> /\ free' = Tail(free) /\ watcher' = watcher
        /\ req[r].conn = None
        /\ req'[r].conn = Head(free) /\ \A s \in Request \ {r} : req'[s].conn = req[s].conn
    BY <1>1, <1>2, <1>6 DEF Acquire, Holding, ReqState
  <2> QED BY <2>1, ConnsTaken
<1>7. ASSUME NEW r \in Request, Release(r) PROVE ConnsConserved'
  <2>1. req[r].conn \in Conn
    BY <1>1, <1>7, HoldersHaveConns DEF Release, Holding
  <2>2. /\ free' = Append(free, req[r].conn) /\ watcher' = watcher
        /\ req'[r].conn = None /\ \A s \in Request \ {r} : req'[s].conn = req[s].conn
    BY <1>1, <1>2, <1>7 DEF Release, ReqState, Idle
  <2> QED BY <2>1, <2>2, ConnsGiven
<1>8. ASSUME NEW r \in Request, RowHit(r) \/ RowPut(r) PROVE ConnsConserved'
  <2>1. PICK fill : req' = [req EXCEPT ![r] = NextHole(r, fill)]
    BY <1>8 DEF RowHit, RowPut
  <2>2. NextHole(r, fill).conn = None
    BY <1>1 DEF NextHole, ReqState
  <2>3. req[r].conn = None /\ free' = free /\ watcher' = watcher
    BY <1>1, <1>8 DEF RowHit, RowPut, Holding
  <2> QED BY <1>3, <2>1, <2>2, <2>3
<1>9. ASSUME NEW r \in Request, OutputPut(r) PROVE ConnsConserved'
  BY <1>1, <1>3, <1>9 DEF OutputPut, Idle, Holding
<1>10. ASSUME NEW r \in Request, NEW pc, Goto(r, pc), free' = free, watcher' = watcher
       PROVE  ConnsConserved'
  <2>1. [req[r] EXCEPT !.pc = pc].conn = req[r].conn
    BY <1>1 DEF ReqState
  <2> QED BY <1>3, <1>10, <2>1 DEF Goto
<1>11. ASSUME NEW r \in Request, Read(r) PROVE ConnsConserved'
  <2>1. PICK y : req' = [req EXCEPT ![r] = y] /\ y.conn = req[r].conn
    <3> DEFINE f == [snap |-> Snapshot(ReadsOf[Hole(r)]),
                     raced |-> ReadsOf[Hole(r)] \cap Announced # {}]
    <3>1. \/ req' = [req EXCEPT ![r] = [req[r] EXCEPT !.pc = "release", !.row = f]]
          \/ req' = [req EXCEPT ![r] = [req[r] EXCEPT !.pc = "release", !.ok = FALSE]]
      BY <1>11 DEF Read
    <3> HIDE DEF f
    <3>2. /\ [req[r] EXCEPT !.pc = "release", !.row = f].conn = req[r].conn
          /\ [req[r] EXCEPT !.pc = "release", !.ok = FALSE].conn = req[r].conn
      BY <1>1 DEF ReqState
    <3> QED BY <3>1, <3>2
  <2> QED BY <1>3, <1>11, <2>1 DEF Read
<1>12. ASSUME NEW r \in Request, HookInvalidate(r) \/ HookNotify(r) PROVE ConnsConserved'
  <2>1. \A s \in Request : req'[s].conn = req[s].conn
    BY <1>12, HookInvalidateFacts, HookNotifyFacts DEF SameControl
  <2> QED BY <1>12, <2>1, ConnsSame DEF HookInvalidate, HookNotify
<1>13. ASSUME NEW r \in Request, RequestStep(r) PROVE ConnsConserved'
  BY <1>7, <1>8, <1>9, <1>10, <1>11, <1>12, <1>13
  DEF RequestStep, RowMiss, BeginWrite, Commit, Rollback
<1>14. ASSUME UNCHANGED <<free, req, watcher>> PROVE ConnsConserved'
  BY <1>14, ConnsSame
<1>15. ASSUME PollAcquire PROVE ConnsConserved'
  <2>1. /\ free # <<>> /\ free' = Tail(free) /\ req' = req
        /\ watcher.conn = None /\ watcher'.conn = Head(free)
    BY <1>15 DEF PollAcquire, Shape, Typed, WatcherTyped, WatcherState
  <2> QED BY <2>1, ConnsTaken
<1>16. ASSUME PollCompare \/ PollError PROVE ConnsConserved'
  <2>1. watcher \in WatcherState /\ watcher.conn \in Conn
    BY <1>16 DEF PollCompare, PollError, Shape, Typed, WatcherTyped, WatcherState
  <2>2. /\ free' = Append(free, watcher.conn) /\ req' = req
        /\ watcher'.conn = None
    BY <1>16, <2>1, PolledState DEF PollCompare, PollError, WatcherState
  <2> QED BY <2>1, <2>2, ConnsGiven
<1>17. ASSUME PollRead \/ PollFlush \/ PollBroadcast PROVE ConnsConserved'
  <2>1. watcher \in WatcherState
    BY DEF Shape, Typed, WatcherTyped
  <2>2. watcher'.conn = watcher.conn
    BY <1>17, <2>1, PolledState
    DEF PollRead, PollFlush, PollBroadcast, Shape, Typed, WatcherTyped, WatcherState
  <2>3. free' = free
    BY <1>17 DEF PollRead, PollFlush, PollBroadcast
  <2>4. \A s \in Request : req'[s].conn = req[s].conn
    BY <1>1, <1>2, <1>17, RaceFillsFacts, RacePagesFacts
    DEF PollRead, PollFlush, PollBroadcast, SameControl
  <2> QED BY <2>2, <2>3, <2>4, ConnsSame
<1> QED BY <1>4, <1>5, <1>6, <1>13, <1>14, <1>15, <1>16, <1>17
        DEF Next, ForgetRow, ForgetPage, ExternalWrite, WatcherStep, vars

(* No connection is lost or doubled on any path out of queryDirect, write, *)
(* poll or error: each is in p.conns once or held by one goroutine.        *)
THEOREM PoolConserved == Spec => []ConnsConserved
  BY InitConserved, NextConserved, SpecShape, PTL DEF Spec

---------------------------------------------------------------------------
(* Freshness: which tables a write has announced, to the rows and then to  *)
(* the pages.                                                              *)
AnnouncedRight ==
    /\ \A t : t \in Announced <=>
             \E w \in Request : req[w].pc \in {"notify", "applied"} /\ req[w].table = t
    /\ \A t : t \in Delivered <=> \E w \in Request : req[w].pc = "applied" /\ req[w].table = t

LEMMA AnnouncedIs == Shape => AnnouncedRight
<1> SUFFICES ASSUME Shape PROVE AnnouncedRight
  OBVIOUS
<1>1. \A w \in Request : db.writer = w /\ req[w].hooks > 0 <=> req[w].pc \in {"notify", "applied"}
  <2> SUFFICES ASSUME NEW w \in Request
               PROVE  db.writer = w /\ req[w].hooks > 0 <=> req[w].pc \in {"notify", "applied"}
    OBVIOUS
  <2>1. req[w].pc = "hook" => ~(req[w].hooks > 0)
    BY Here DEF Coherent
  <2>2. req[w].pc \in {"notify", "applied"} => req[w].hooks > 0
    BY Here DEF Coherent
  <2> QED BY <2>1, <2>2 DEF Shape, WriterHoldsLock
<1>2. \A t : t \in Announced <=>
             \E w \in Request : req[w].pc \in {"notify", "applied"} /\ req[w].table = t
  BY <1>1 DEF Announced
<1>3. \A t : t \in Delivered <=> \E w \in Request : req[w].pc = "applied" /\ req[w].table = t
  BY DEF Delivered
<1> QED BY <1>2, <1>3 DEF AnnouncedRight

LEMMA AnnouncedPrimed == Shape' => AnnouncedRight'
  BY AnnouncedIs, PTL

(* A goroutine in the middle of a statement is the only one. *)
LEMMA OneWriter ==
    ASSUME Shape, NEW r \in Request, req[r].pc \in Locks
    PROVE  \A s \in Request : s # r => req[s].pc \notin Locks
  BY DEF Shape, WriterHoldsLock, Locks

(* What is fresh stays so when less is announced. *)
LEMMA Weaker ==
    ASSUME NEW A, NEW A2, A2 \subseteq A, NEW D, NEW D2, D2 \subseteq D, NEW pool
    PROVE  /\ \A f, q : FreshFill(f, q, A, pool) => FreshFill(f, q, A2, pool)
           /\ \A g, p : FreshPage(g, p, D, pool) => FreshPage(g, p, D2, pool)
           /\ \A x : FreshRequest(x, A, D, pool) => FreshRequest(x, A2, D2, pool)
<1>1. ASSUME NEW S, NEW S2, S2 \subseteq S, NEW snap, NEW q, Agrees(snap, q, S, pool)
      PROVE  Agrees(snap, q, S2, pool)
  BY <1>1 DEF Agrees
<1>2. ASSUME NEW S, NEW S2, S2 \subseteq S, NEW f, NEW q, FreshFill(f, q, S, pool)
      PROVE  FreshFill(f, q, S2, pool)
  BY <1>1, <1>2 DEF FreshFill
<1>3. \A f, q : FreshFill(f, q, A, pool) => FreshFill(f, q, A2, pool)
  BY <1>2
<1>4. ASSUME NEW g, NEW p, FreshPage(g, p, D, pool) PROVE FreshPage(g, p, D2, pool)
  BY <1>1, <1>4 DEF FreshPage
<1>5. ASSUME NEW x, FreshRequest(x, A, D, pool) PROVE FreshRequest(x, A2, D2, pool)
  BY <1>2, <1>5 DEF FreshRequest
<1> QED BY <1>3, <1>4, <1>5

(* A step that announces nothing and commits nothing. *)
LEMMA QuietStep ==
    ASSUME Fresh, db'.pool = db.pool, Announced' \subseteq Announced, Delivered' \subseteq Delivered,
           \A q \in DOMAIN rows' : \/ q \in DOMAIN rows /\ rows'[q] = rows[q]
                                  \/ FreshFill(rows'[q], q, Announced, db.pool),
           \A p \in DOMAIN pages' : \/ p \in DOMAIN pages /\ pages'[p] = pages[p]
                                   \/ FreshPage(pages'[p], p, Delivered, db.pool),
           \A s \in Request : \/ req'[s] = req[s]
                              \/ FreshRequest(req'[s], Announced, Delivered, db.pool)
    PROVE  Fresh'
<1>1. RowsFresh'
  BY Weaker DEF Fresh, RowsFresh
<1>2. PagesFresh'
  BY Weaker DEF Fresh, PagesFresh
<1>3. RequestsFresh'
  BY Weaker DEF Fresh, RequestsFresh
<1> QED BY <1>1, <1>2, <1>3 DEF Fresh

(* A step that takes no goroutine into the hook. *)
LEMMA NotAnnouncing ==
    ASSUME Shape, Shape', 
           \A s \in Request :
             /\ req'[s].pc \in {"notify", "applied"} =>
                  req'[s].pc = req[s].pc /\ req'[s].table = req[s].table
    PROVE  Announced' \subseteq Announced /\ Delivered' \subseteq Delivered
  BY AnnouncedIs, AnnouncedPrimed DEF AnnouncedRight

(* One goroutine's step that leaves both caches and every table alone. *)
LEMMA QuietRequest ==
    ASSUME Shape, Shape', Fresh, NEW r \in Request, NEW y, req' = [req EXCEPT ![r] = y],
           db'.pool = db.pool, y.pc \notin {"notify", "applied"},
           FreshRequest(y, Announced, Delivered, db.pool)
    PROVE  /\ Announced' \subseteq Announced /\ Delivered' \subseteq Delivered
           /\ \A s \in Request : \/ req'[s] = req[s]
                                 \/ FreshRequest(req'[s], Announced, Delivered, db.pool)
           /\ UNCHANGED <<rows, pages>> => Fresh'
<1>1. req'[r] = y /\ \A s \in Request : s # r => req'[s] = req[s]
  BY DEF Shape, Typed, RequestsTyped
<1>2. Announced' \subseteq Announced /\ Delivered' \subseteq Delivered
  BY <1>1, NotAnnouncing
<1>3. \A s \in Request : req'[s] = req[s] \/ FreshRequest(req'[s], Announced, Delivered, db.pool)
  BY <1>1
<1>4. ASSUME UNCHANGED <<rows, pages>> PROVE Fresh'
  BY <1>2, <1>3, <1>4, QuietStep
<1> QED BY <1>2, <1>3, <1>4

LEMMA SameFresh ==
    ASSUME NEW x, NEW y, NEW A, NEW D, NEW pool, FreshRequest(x, A, D, pool),
           y.route = x.route, y.got = x.got, y.notified = x.notified,
           y.row # None => y.row = x.row
    PROVE  FreshRequest(y, A, D, pool)
  BY DEF FreshRequest

LEMMA NewcomerFresh ==
    ASSUME NEW x, NEW A, NEW D, NEW pool, x.row = None, x.got = <<>>
    PROVE  FreshRequest(x, A, D, pool)
<1>1. DOMAIN <<>> = {}
  OBVIOUS
<1> QED BY <1>1 DEF FreshRequest

LEMMA StartFresh ==
    ASSUME Shape, Shape', Fresh, NEW r \in Request
    PROVE  /\ \A p \in Route : OutputMiss(r, p) => Fresh'
           /\ \A t \in Table : StartWrite(r, t) => Fresh'
<1>1. ASSUME NEW z, req' = [req EXCEPT ![r] = z], UNCHANGED <<db, rows, pages>>,
             z.pc \in {"row", "acquire"}, z.row = None, z.got = <<>>
      PROVE  Fresh'
  <2>1. FreshRequest(z, Announced, Delivered, db.pool)
    BY <1>1, NewcomerFresh
  <2> QED BY <1>1, <2>1, QuietRequest
<1>2. ASSUME NEW p \in Route, OutputMiss(r, p) PROVE Fresh'
  <2> DEFINE z == [Idle EXCEPT !.pc = "row", !.route = p]
  <2>1. z.pc = "row" /\ z.row = None /\ z.got = <<>>
    BY DEF Idle
  <2>2. req' = [req EXCEPT ![r] = z] /\ UNCHANGED <<db, free, rows, pages, watcher>>
    BY <1>2 DEF OutputMiss
  <2> HIDE DEF z
  <2> QED BY <1>1, <2>1, <2>2
<1>3. ASSUME NEW t \in Table, StartWrite(r, t) PROVE Fresh'
  <2> DEFINE z == [Idle EXCEPT !.pc = "acquire", !.table = t]
  <2>1. z.pc = "acquire" /\ z.row = None /\ z.got = <<>>
    BY DEF Idle
  <2>2. req' = [req EXCEPT ![r] = z] /\ UNCHANGED <<db, free, rows, pages, watcher>>
    BY <1>3 DEF StartWrite
  <2> HIDE DEF z
  <2> QED BY <1>1, <2>1, <2>2
<1> QED BY <1>2, <1>3

(* Steps after which the goroutine renders what it rendered before. *)
LEMMA MoveFresh ==
    ASSUME Shape, Shape', Fresh, NEW r \in Request, NEW pc, pc \notin {"notify", "applied"},
           Goto(r, pc), db'.pool = db.pool, UNCHANGED <<rows, pages>>
    PROVE  Fresh'
<1> DEFINE y == [req[r] EXCEPT !.pc = pc]
<1>1. req' = [req EXCEPT ![r] = y]
  BY DEF Goto
<1>2. /\ y.pc = pc /\ y.route = req[r].route /\ y.got = req[r].got
      /\ y.notified = req[r].notified /\ y.row = req[r].row
  BY Here DEF ReqState
<1>3. FreshRequest(req[r], Announced, Delivered, db.pool)
  BY DEF Fresh, RequestsFresh
<1> HIDE DEF y
<1>4. FreshRequest(y, Announced, Delivered, db.pool)
  BY <1>2, <1>3, SameFresh
<1> QED BY <1>1, <1>2, <1>4, QuietRequest

LEMMA AcquireFresh ==
    ASSUME Shape, Shape', Fresh, NEW r \in Request, Acquire(r)
    PROVE  Fresh'
<1> DEFINE c == Head(free)
           pc == IF req[r].table = None THEN "read" ELSE "begin"
           y == [req[r] EXCEPT !.conn = c, !.pc = pc]
<1>1. req' = [req EXCEPT ![r] = y] /\ UNCHANGED <<db, rows, pages>>
  BY DEF Acquire
<1>2. pc \notin {"notify", "applied"}
  OBVIOUS
<1> HIDE DEF c, pc
<1>3. /\ y.pc = pc /\ y.route = req[r].route /\ y.got = req[r].got
      /\ y.notified = req[r].notified /\ y.row = req[r].row
  BY Here DEF ReqState
<1>4. FreshRequest(req[r], Announced, Delivered, db.pool)
  BY DEF Fresh, RequestsFresh
<1> HIDE DEF y
<1>5. FreshRequest(y, Announced, Delivered, db.pool)
  BY <1>3, <1>4, SameFresh
<1> QED BY <1>1, <1>2, <1>3, <1>5, QuietRequest

LEMMA ReleaseFresh ==
    ASSUME Shape, Shape', Fresh, NEW r \in Request, Release(r)
    PROVE  Fresh'
<1> DEFINE y == IF req[r].table = None /\ req[r].ok
                THEN [req[r] EXCEPT !.pc = "put", !.conn = None] ELSE Idle
<1>1. req' = [req EXCEPT ![r] = y] /\ UNCHANGED <<db, rows, pages>>
  BY DEF Release
<1>2. FreshRequest(req[r], Announced, Delivered, db.pool)
  BY DEF Fresh, RequestsFresh
<1>3. y.pc \in {"put", "idle"} /\ FreshRequest(y, Announced, Delivered, db.pool)
  <2>1. CASE req[r].table = None /\ req[r].ok
    <3>1. y = [req[r] EXCEPT !.pc = "put", !.conn = None]
      BY <2>1
    <3>2. /\ y.pc = "put" /\ y.route = req[r].route /\ y.got = req[r].got
          /\ y.notified = req[r].notified /\ y.row = req[r].row
      BY <3>1, Here DEF ReqState
    <3> HIDE DEF y
    <3> QED BY <1>2, <3>2, SameFresh
  <2>2. CASE ~(req[r].table = None /\ req[r].ok)
    <3>1. y.pc = "idle" /\ y.row = None /\ y.got = <<>>
      BY <2>2 DEF Idle
    <3> HIDE DEF y
    <3> QED BY <3>1, NewcomerFresh
  <2> QED BY <2>1, <2>2
<1> HIDE DEF y
<1> QED BY <1>1, <1>3, QuietRequest

LEMMA ReadFresh ==
    ASSUME Shape, Shape', Fresh, NEW r \in Request, Read(r)
    PROVE  Fresh'
<1> DEFINE q == Hole(r)
           b == ReadsOf[q] \cap Announced # {}
           f == [snap |-> Snapshot(ReadsOf[q]), raced |-> b]
<1>1. /\ req[r].pc = "read" /\ db' = BeginRead(req[r].conn) /\ UNCHANGED <<free, rows, pages, watcher>>
      /\ \/ req' = [req EXCEPT ![r] = [req[r] EXCEPT !.pc = "release", !.row = f]]
         \/ req' = [req EXCEPT ![r] = [req[r] EXCEPT !.pc = "release", !.ok = FALSE]]
  BY DEF Read
<1>2. req[r] \in ReqState /\ Coherent(req[r]) /\ q \in Query /\ Holding(req[r])
  BY <1>1, Here DEF Holding
<1>3. db'.pool = db.pool
  <2>1. DbTyped /\ req[r].conn \in Conn
    BY <1>2, HoldersHaveConns DEF Shape, Typed
  <2> QED BY <1>1, <2>1, ReadFacts
<1>4. FreshFill(f, q, Announced, db.pool)
  <2>1. /\ b \in BOOLEAN /\ DbTyped /\ f = [snap |-> Snapshot(ReadsOf[q]), raced |-> b]
        /\ b <=> ReadsOf[q] \cap Announced # {}
    BY DEF Shape, Typed
  <2> HIDE DEF f, b, q
  <2>2. /\ f.raced = b /\ \A t \in ReadsOf[q] : f.snap.pool[t] = db.pool[t]
    BY <1>2, <2>1, SnapshotFacts
  <2> QED BY <2>1, <2>2 DEF FreshFill, Agrees
<1>5. FreshRequest(req[r], Announced, Delivered, db.pool)
  BY DEF Fresh, RequestsFresh
<1> HIDE DEF f, b
<1>6. CASE req' = [req EXCEPT ![r] = [req[r] EXCEPT !.pc = "release", !.row = f]]
  <2> DEFINE y == [req[r] EXCEPT !.pc = "release", !.row = f]
  <2>1. /\ y.pc = "release" /\ y.route = req[r].route /\ y.got = req[r].got
        /\ y.notified = req[r].notified /\ y.row = f
    BY <1>2 DEF ReqState
  <2>2. req' = [req EXCEPT ![r] = y]
    BY <1>6
  <2> HIDE DEF y
  <2>3. FreshRequest(y, Announced, Delivered, db.pool)
    BY <1>4, <1>5, <2>1 DEF FreshRequest, Hole, q
  <2> QED BY <1>1, <1>3, <2>1, <2>2, <2>3, QuietRequest
<1>7. CASE req' = [req EXCEPT ![r] = [req[r] EXCEPT !.pc = "release", !.ok = FALSE]]
  <2> DEFINE y == [req[r] EXCEPT !.pc = "release", !.ok = FALSE]
  <2>1. /\ y.pc = "release" /\ y.route = req[r].route /\ y.got = req[r].got
        /\ y.notified = req[r].notified /\ y.row = req[r].row
    BY <1>2 DEF ReqState
  <2>2. req' = [req EXCEPT ![r] = y]
    BY <1>7
  <2> HIDE DEF y
  <2>3. FreshRequest(y, Announced, Delivered, db.pool)
    BY <1>5, <2>1, SameFresh
  <2> QED BY <1>1, <1>3, <2>1, <2>2, <2>3, QuietRequest
<1> QED BY <1>1, <1>6, <1>7

(* A fill that is fresh when it is used makes the page no less fresh.      *)
LEMMA NextHoleFresh ==
    ASSUME Shape, Fresh, NEW r \in Request, req[r].pc \in {"row", "put"},
           NEW fill \in FillOf(Hole(r)), FreshFill(fill, Hole(r), Announced, db.pool)
    PROVE  /\ FreshRequest(NextHole(r, fill), Announced, Delivered, db.pool)
           /\ NextHole(r, fill).pc \notin {"notify", "applied"}
<1> DEFINE x == req[r]
           got == Append(x.got, fill)
           y == NextHole(r, fill)
<1>1. x \in ReqState /\ Coherent(x) /\ Hole(r) \in Query /\ x.route \in Route
  BY Here
<1>2. x.got \in Seq(Fills) /\ fill \in Fills
  BY <1>1, FillsUnion DEF ReqState
<1>3. /\ DOMAIN x.got = 1..Len(x.got) /\ DOMAIN got = 1..(Len(x.got) + 1) /\ Len(x.got) \in Nat
      /\ got[Len(x.got) + 1] = fill /\ \A i \in 1..Len(x.got) : got[i] = x.got[i]
  BY <1>2, AppendFacts
<1>4. /\ y.got = got /\ y.row = None /\ y.route = x.route /\ y.notified = x.notified
      /\ y.pc \in {"output", "row"}
  BY <1>1 DEF NextHole, ReqState
<1>5. FreshFill(fill, HolesOf[x.route][Len(x.got) + 1], Delivered, db.pool)
  <2>1. Delivered \subseteq Announced
    BY AnnouncedIs DEF AnnouncedRight
  <2> QED BY <2>1, Weaker DEF Hole
<1>6. FreshRequest(x, Announced, Delivered, db.pool)
  BY DEF Fresh, RequestsFresh
<1> HIDE DEF got, y, x
<1>7. FreshRequest(y, Announced, Delivered, db.pool)
  <2>1. ASSUME ~x.notified, NEW i \in DOMAIN got
        PROVE  FreshFill(got[i], HolesOf[x.route][i], Delivered, db.pool)
    <3>1. CASE i = Len(x.got) + 1
      BY <1>3, <1>5, <3>1
    <3>2. CASE i \in DOMAIN x.got
      <4>1. FreshFill(x.got[i], HolesOf[x.route][i], Delivered, db.pool)
        BY <1>1, <1>6, <2>1, <3>2 DEF FreshRequest
      <4> QED BY <1>3, <3>2, <4>1
    <3> QED BY <1>3, <3>1, <3>2
  <2> QED BY <1>4, <2>1 DEF FreshRequest
<1> QED BY <1>4, <1>7 DEF y

LEMMA RowHitFresh ==
    ASSUME Shape, Shape', Fresh, NEW r \in Request, RowHit(r)
    PROVE  Fresh'
<1> DEFINE fill == rows[Hole(r)]
           y == NextHole(r, fill)
<1>1. /\ req' = [req EXCEPT ![r] = y] /\ UNCHANGED <<db, free, rows, pages, watcher>>
      /\ req[r].pc = "row" /\ Hole(r) \in DOMAIN rows
  BY DEF RowHit
<1>2. fill \in FillOf(Hole(r)) /\ FreshFill(fill, Hole(r), Announced, db.pool)
  BY <1>1 DEF Shape, Typed, RowsTyped, Fresh, RowsFresh
<1> HIDE DEF fill
<1>3. FreshRequest(y, Announced, Delivered, db.pool) /\ y.pc \notin {"notify", "applied"}
  BY <1>1, <1>2, NextHoleFresh
<1> HIDE DEF y
<1> QED BY <1>1, <1>3, QuietRequest

LEMMA RowPutFresh ==
    ASSUME Shape, Shape', Fresh, NEW r \in Request, RowPut(r)
    PROVE  Fresh'
<1> DEFINE fill == req[r].row
           q == Hole(r)
           y == NextHole(r, fill)
<1>1. /\ req' = [req EXCEPT ![r] = y] /\ UNCHANGED <<db, free, pages, watcher>> /\ req[r].pc = "put"
      /\ rows' = IF FiledUnder[q] = {} THEN rows ELSE With(rows, q, fill)
  BY DEF RowPut
<1>2. fill \in FillOf(q) /\ FreshFill(fill, q, Announced, db.pool)
  <2>1. req[r].row # None /\ req[r].route \in Route
    BY <1>1, Here DEF Coherent
  <2>2. req[r].row \in FillOf(Hole(r))
    BY <2>1, Here DEF Coherent, Renders, Hole
  <2>3. FreshRequest(req[r], Announced, Delivered, db.pool)
    BY DEF Fresh, RequestsFresh
  <2> QED BY <2>1, <2>2, <2>3 DEF FreshRequest, Hole
<1> HIDE DEF fill
<1>3. FreshRequest(y, Announced, Delivered, db.pool) /\ y.pc \notin {"notify", "applied"}
  BY <1>1, <1>2, NextHoleFresh
<1> HIDE DEF y, q
<1>4. /\ Announced' \subseteq Announced /\ Delivered' \subseteq Delivered
      /\ \A s \in Request : \/ req'[s] = req[s]
                            \/ FreshRequest(req'[s], Announced, Delivered, db.pool)
  BY <1>1, <1>3, QuietRequest
<1>5. \A k \in DOMAIN rows' : \/ k \in DOMAIN rows /\ rows'[k] = rows[k]
                              \/ FreshFill(rows'[k], k, Announced, db.pool)
  <2>1. CASE rows' = rows
    BY <2>1
  <2>2. CASE rows' = With(rows, q, fill)
    <3>1. /\ DOMAIN rows' = DOMAIN rows \cup {q} /\ rows'[q] = fill
          /\ \A k \in DOMAIN rows : k # q => rows'[k] = rows[k]
      BY <2>2 DEF With
    <3> QED BY <1>2, <3>1
  <2> QED BY <1>1, <2>1, <2>2
<1> QED BY <1>1, <1>4, <1>5, QuietStep

LEMMA OutputPutFresh ==
    ASSUME Shape, Shape', Fresh, NEW r \in Request, OutputPut(r)
    PROVE  Fresh'
<1> DEFINE x == req[r]
           g == [snaps |-> [i \in DOMAIN x.got |-> x.got[i].snap],
                 raced |-> x.notified \/ \E i \in DOMAIN x.got : x.got[i].raced]
<1>1. /\ req' = [req EXCEPT ![r] = Idle] /\ x.pc = "output"
      /\ pages' = IF ~Attributable(x.route) THEN pages ELSE With(pages, x.route, g)
      /\ UNCHANGED <<db, free, rows, watcher>>
  BY DEF OutputPut
<1>2. x \in ReqState /\ Coherent(x) /\ x.route \in Route
  BY <1>1, Here
<1>3. DOMAIN x.got = DOMAIN HolesOf[x.route]
  BY <1>1, <1>2, HolesSeq DEF Coherent, Renders, ReqState
<1>4. FreshRequest(x, Announced, Delivered, db.pool)
  BY DEF Fresh, RequestsFresh
<1>5. /\ g.raced <=> x.notified \/ \E i \in DOMAIN x.got : x.got[i].raced
      /\ \A i \in DOMAIN x.got : g.snaps[i] = x.got[i].snap
  OBVIOUS
<1> HIDE DEF g
<1>6. FreshPage(g, x.route, Delivered, db.pool)
  BY <1>2, <1>3, <1>4, <1>5 DEF FreshPage, FreshRequest, FreshFill
<1>7. FreshRequest(Idle, Announced, Delivered, db.pool) /\ Idle.pc = "idle"
  BY NewcomerFresh DEF Idle
<1>8. /\ Announced' \subseteq Announced /\ Delivered' \subseteq Delivered
      /\ \A s \in Request : \/ req'[s] = req[s]
                            \/ FreshRequest(req'[s], Announced, Delivered, db.pool)
  BY <1>1, <1>7, QuietRequest
<1>9. \A p \in DOMAIN pages' : \/ p \in DOMAIN pages /\ pages'[p] = pages[p]
                               \/ FreshPage(pages'[p], p, Delivered, db.pool)
  <2>1. CASE pages' = pages
    BY <2>1
  <2>2. CASE pages' = With(pages, x.route, g)
    <3> DEFINE p == x.route
    <3>1. FreshPage(g, p, Delivered, db.pool) /\ pages' = With(pages, p, g)
      BY <1>6, <2>2
    <3> HIDE DEF p
    <3>2. /\ DOMAIN pages' = DOMAIN pages \cup {p} /\ pages'[p] = g
          /\ \A k \in DOMAIN pages : k # p => pages'[k] = pages[k]
      BY <3>1 DEF With
    <3> QED BY <3>1, <3>2
  <2> QED BY <1>1, <2>1, <2>2
<1> QED BY <1>1, <1>8, <1>9, QuietStep

LEMMA BeginWriteFresh ==
    ASSUME Shape, Shape', Fresh, NEW r \in Request, BeginWrite(r)
    PROVE  Fresh'
<1>1. UNCHANGED <<free, rows, pages, watcher>> /\ (Goto(r, "hook") \/ Goto(r, "release"))
  BY DEF BeginWrite
<1>2. db'.pool = db.pool
  <2> DEFINE d == BeginRead(req[r].conn)
  <2>1. req[r].conn \in Conn
    BY Here, HoldersHaveConns DEF BeginWrite, Holding
  <2>2. d \in DbState /\ d.pool = db.pool
    BY <2>1, ReadFacts DEF Shape, Typed
  <2>3. db' = [d EXCEPT !.writer = r] \/ db' = d
    BY DEF BeginWrite
  <2> HIDE DEF d
  <2> QED BY <2>2, <2>3 DEF DbState
<1> QED BY <1>1, <1>2, MoveFresh

(* The hook, before the commit: what is left in the row cache does not read *)
(* the table that is about to change, and the fills in hand that do are     *)
(* marked.                                                                  *)
LEMMA HookInvalidateFresh ==
    ASSUME Shape, Shape', Fresh, NEW r \in Request, HookInvalidate(r)
    PROVE  Fresh'
<1> DEFINE t == req[r].table
           D == RowsReading({t})
<1>1. /\ rows' = Without(rows, D) /\ UNCHANGED <<db, free, pages, watcher>>
      /\ req[r].pc \in {"hook", "applied"}
  BY DEF HookInvalidate
<1>2. \A s \in Request : req'[s].pc \in {"notify", "applied"} <=> s = r
  <2>1. \A s \in Request : s # r => req[s].pc \notin Locks
    BY <1>1, OneWriter DEF Locks
  <2> QED BY <2>1, HookInvalidateFacts DEF SameControl, Locks
<1>3. /\ \A u : u \in Announced' <=> u = t
      /\ \A u : u \notin Delivered'
  BY <1>2, HookInvalidateFacts, AnnouncedPrimed DEF AnnouncedRight
<1>4. \A q \in DOMAIN rows' : q \in DOMAIN rows /\ rows'[q] = rows[q] /\ t \notin FiledUnder[q]
  <2>1. \A q \in DOMAIN rows : q \notin D => t \notin FiledUnder[q]
    BY DEF RowsReading
  <2> HIDE DEF t, D
  <2> QED BY <1>1, <2>1 DEF Without
<1>5. ASSUME NEW f, NEW q, FreshFill(f, q, Announced, db.pool), t \notin ReadsOf[q] \/ f.raced
      PROVE  FreshFill(f, q, Announced', db'.pool)
  BY <1>1, <1>3, <1>5 DEF FreshFill, Agrees
<1>6. RowsFresh'
  <2> SUFFICES ASSUME NEW q \in DOMAIN rows' PROVE FreshFill(rows'[q], q, Announced', db'.pool)
    BY DEF RowsFresh
  <2>1. q \in DOMAIN rows /\ rows'[q] = rows[q] /\ t \notin FiledUnder[q]
    BY <1>4
  <2>2. t \notin ReadsOf[q]
    BY <2>1, AttributionAssumption DEF Shape, Typed, RowsTyped
  <2>3. FreshFill(rows[q], q, Announced, db.pool)
    BY <2>1 DEF Fresh, RowsFresh
  <2> HIDE DEF t
  <2> QED BY <1>5, <2>1, <2>2, <2>3
<1>7. PagesFresh'
  <2>1. Delivered' \subseteq Delivered
    BY <1>3
  <2>2. \A p \in DOMAIN pages : FreshPage(pages[p], p, Delivered, db.pool)
    BY DEF Fresh, PagesFresh
  <2> QED BY <1>1, <2>1, <2>2, Weaker DEF PagesFresh
<1>8. RequestsFresh'
  <2> SUFFICES ASSUME NEW s \in Request
               PROVE  FreshRequest(req'[s], Announced', Delivered', db'.pool)
    BY DEF RequestsFresh
  <2> DEFINE x == req[s]
             y == req'[s]
             q == HolesOf[x.route][Len(x.got) + 1]
  <2>1. /\ y.route = x.route /\ y.got = x.got /\ y.notified = x.notified
        /\ x.row = None => y.row = None
        /\ x.row # None => /\ y.row # None /\ y.row.snap = x.row.snap
                           /\ x.row.raced => y.row.raced
                           /\ t \in ReadsOf[q] => y.row.raced
    BY HookInvalidateFacts
  <2>2. FreshRequest(x, Announced, Delivered, db.pool)
    BY DEF Fresh, RequestsFresh
  <2> HIDE DEF x, y, t
  <2>3. ASSUME y.row # None
        PROVE  FreshFill(y.row, HolesOf[y.route][Len(y.got) + 1], Announced', db'.pool)
    <3>1. FreshFill(x.row, q, Announced, db.pool)
      BY <2>1, <2>2, <2>3 DEF FreshRequest
    <3>2. y.row.raced \/ (t \notin ReadsOf[q] /\ FreshFill(y.row, q, Announced, db.pool))
      BY <2>1, <2>3, <3>1 DEF FreshFill
    <3>3. FreshFill(y.row, q, Announced', db'.pool)
      BY <1>5, <3>2 DEF FreshFill
    <3> QED BY <2>1, <3>3
  <2>4. ASSUME y.route \in Route, ~y.notified, NEW i \in DOMAIN y.got
        PROVE  FreshFill(y.got[i], HolesOf[y.route][i], Delivered', db'.pool)
    <3>1. FreshFill(x.got[i], HolesOf[x.route][i], Delivered, db.pool)
      BY <2>1, <2>2, <2>4 DEF FreshRequest
    <3>2. Delivered' \subseteq Delivered
      BY <1>3
    <3> QED BY <1>1, <2>1, <3>1, <3>2, Weaker
  <2> QED BY <2>3, <2>4 DEF FreshRequest, y
<1> QED BY <1>6, <1>7, <1>8 DEF Fresh

LEMMA HookNotifyFresh ==
    ASSUME Shape, Shape', Fresh, NEW r \in Request, HookNotify(r)
    PROVE  Fresh'
<1> DEFINE t == req[r].table
           D == PagesReading({t})
<1>1. /\ pages' = Without(pages, D) /\ UNCHANGED <<db, free, rows, watcher>>
      /\ req[r].pc = "notify"
  BY DEF HookNotify
<1>2. \A s \in Request : /\ req'[s].pc \in {"notify", "applied"} <=> s = r
                         /\ req[s].pc \in {"notify", "applied"} <=> s = r
                         /\ req'[s].pc = "applied" <=> s = r
  <2>1. \A s \in Request : s # r => req[s].pc \notin Locks
    BY <1>1, OneWriter DEF Locks
  <2> QED BY <1>1, <2>1, HookNotifyFacts DEF SameControl, Locks
<1>3. /\ \A u : u \in Announced <=> u = t
      /\ \A u : u \in Announced' <=> u = t
      /\ \A u : u \in Delivered' <=> u = t
      /\ Delivered \subseteq Announced
  BY <1>2, HookNotifyFacts, AnnouncedIs, AnnouncedPrimed DEF AnnouncedRight
<1>4. Announced' \subseteq Announced
  BY <1>3
<1>5. \A p \in DOMAIN pages' : p \in DOMAIN pages /\ pages'[p] = pages[p] /\ t \notin PageTables(p)
  <2>1. \A p \in DOMAIN pages : p \notin D => t \notin PageTables(p)
    BY DEF PagesReading
  <2> HIDE DEF t, D
  <2> QED BY <1>1, <2>1 DEF Without
<1>6. ASSUME NEW snap, NEW q, Agrees(snap, q, Delivered, db.pool), t \notin ReadsOf[q]
      PROVE  Agrees(snap, q, Delivered', db'.pool)
  BY <1>1, <1>3, <1>6 DEF Agrees
<1>7. RowsFresh'
  <2>1. \A q \in DOMAIN rows : FreshFill(rows[q], q, Announced, db.pool)
    BY DEF Fresh, RowsFresh
  <2> QED BY <1>1, <1>4, <2>1, Weaker DEF RowsFresh
<1>8. PagesFresh'
  <2> SUFFICES ASSUME NEW p \in DOMAIN pages' PROVE FreshPage(pages'[p], p, Delivered', db'.pool)
    BY DEF PagesFresh
  <2>1. p \in DOMAIN pages /\ pages'[p] = pages[p] /\ t \notin PageTables(p)
    BY <1>5
  <2>2. p \in Route /\ Attributable(p)
    BY <2>1 DEF Shape, Typed, PagesTyped
  <2>3. \A i \in DOMAIN HolesOf[p] : t \notin ReadsOf[HolesOf[p][i]]
    BY <2>1, <2>2, HolesSeq, AttributionAssumption DEF PageTables, Attributable
  <2>4. FreshPage(pages[p], p, Delivered, db.pool)
    BY <2>1 DEF Fresh, PagesFresh
  <2> HIDE DEF t
  <2> QED BY <1>6, <2>1, <2>3, <2>4 DEF FreshPage
<1>9. RequestsFresh'
  <2> SUFFICES ASSUME NEW s \in Request
               PROVE  FreshRequest(req'[s], Announced', Delivered', db'.pool)
    BY DEF RequestsFresh
  <2> DEFINE x == req[s]
             y == req'[s]
  <2>1. /\ y.route = x.route /\ y.got = x.got /\ y.row = x.row
        /\ x.notified => y.notified
        /\ x.route \in Route /\ ~y.notified =>
             \A i \in DOMAIN x.got : t \notin ReadsOf[HolesOf[x.route][i]]
    BY HookNotifyFacts
  <2>2. FreshRequest(x, Announced, Delivered, db.pool)
    BY DEF Fresh, RequestsFresh
  <2> HIDE DEF x, y, t
  <2>3. ASSUME y.row # None
        PROVE  FreshFill(y.row, HolesOf[y.route][Len(y.got) + 1], Announced', db'.pool)
    <3>1. FreshFill(x.row, HolesOf[x.route][Len(x.got) + 1], Announced, db.pool)
      BY <2>1, <2>2, <2>3 DEF FreshRequest
    <3> QED BY <1>1, <1>4, <2>1, <3>1, Weaker
  <2>4. ASSUME y.route \in Route, ~y.notified, NEW i \in DOMAIN y.got
        PROVE  FreshFill(y.got[i], HolesOf[y.route][i], Delivered', db'.pool)
    <3>1. FreshFill(x.got[i], HolesOf[x.route][i], Delivered, db.pool)
      BY <2>1, <2>2, <2>4 DEF FreshRequest
    <3>2. t \notin ReadsOf[HolesOf[x.route][i]]
      BY <2>1, <2>4
    <3> QED BY <1>6, <2>1, <3>1, <3>2 DEF FreshFill
  <2> QED BY <2>3, <2>4 DEF FreshRequest, y
<1> QED BY <1>7, <1>8, <1>9 DEF Fresh

(* The commit changes one table, and by then nothing unmarked reads it. *)
LEMMA EndFresh ==
    ASSUME Shape, Shape', Fresh, NEW r \in Request, Commit(r) \/ Rollback(r)
    PROVE  Fresh'
<1> DEFINE t == req[r].table
<1>1. req[r].pc = "applied" /\ Goto(r, "release") /\ UNCHANGED <<free, rows, pages, watcher>>
  BY DEF Commit, Rollback
<1>2. db'.writer = None /\ \A u \in Table : u # t => db'.pool[u] = db.pool[u]
  <2>1. ASSUME Rollback(r) PROVE db'.writer = None /\ db'.pool = db.pool
    BY <2>1 DEF Rollback, Shape, Typed, DbTyped, DbState
  <2> QED BY <2>1, CommitFacts
<1>3. /\ req'[r] = [req[r] EXCEPT !.pc = "release"] /\ req'[r].pc = "release"
      /\ \A s \in Request : s # r => req'[s] = req[s]
      /\ \A s \in Request : req[s].pc \in Locks <=> s = r
  <2>1. DbTyped'
    BY DEF Shape, Typed
  <2> QED BY <1>1, <1>2, <2>1, EndOfWrite
<1>4. t \in Announced /\ t \in Delivered
  BY <1>1, AnnouncedIs DEF AnnouncedRight
<1>5. (\A u : u \notin Announced') /\ (\A u : u \notin Delivered')
  <2>1. \A s \in Request : req'[s].pc \notin {"notify", "applied"}
    BY <1>3 DEF Locks
  <2> QED BY <2>1, AnnouncedPrimed DEF AnnouncedRight
<1>6. ASSUME NEW snap, NEW q \in Query, NEW S, t \in S, Agrees(snap, q, S, db.pool)
      PROVE  /\ Agrees(snap, q, Announced', db'.pool)
             /\ Agrees(snap, q, Delivered', db'.pool)
  <2>1. t \notin ReadsOf[q] /\ ReadsOf[q] \subseteq Table
    BY <1>6, FastDBAssumption DEF Agrees
  <2> HIDE DEF t
  <2> QED BY <1>2, <1>5, <1>6, <2>1 DEF Agrees
<1>7. RowsFresh'
  <2>1. \A q \in DOMAIN rows : q \in Query /\ FreshFill(rows[q], q, Announced, db.pool)
    BY DEF Fresh, RowsFresh, Shape, Typed, RowsTyped
  <2> HIDE DEF t
  <2> QED BY <1>1, <1>4, <1>6, <2>1 DEF RowsFresh, FreshFill
<1>8. PagesFresh'
  <2> SUFFICES ASSUME NEW p \in DOMAIN pages PROVE FreshPage(pages[p], p, Delivered', db'.pool)
    BY <1>1 DEF PagesFresh
  <2>1. p \in Route /\ FreshPage(pages[p], p, Delivered, db.pool)
    BY DEF Fresh, PagesFresh, Shape, Typed, PagesTyped
  <2>2. \A i \in DOMAIN HolesOf[p] : HolesOf[p][i] \in Query
    BY <2>1, HolesSeq
  <2> HIDE DEF t
  <2> QED BY <1>4, <1>6, <2>1, <2>2 DEF FreshPage
<1>9. RequestsFresh'
  <2> SUFFICES ASSUME NEW s \in Request
               PROVE  FreshRequest(req'[s], Announced', Delivered', db'.pool)
    BY DEF RequestsFresh
  <2> DEFINE x == req[s]
             y == req'[s]
  <2>1. /\ y.route = x.route /\ y.got = x.got /\ y.row = x.row /\ y.notified = x.notified
        /\ x \in ReqState /\ Coherent(x)
    BY <1>3, Here DEF ReqState
  <2>2. FreshRequest(x, Announced, Delivered, db.pool)
    BY DEF Fresh, RequestsFresh
  <2> HIDE DEF x, y, t
  <2>3. ASSUME y.row # None
        PROVE  FreshFill(y.row, HolesOf[y.route][Len(y.got) + 1], Announced', db'.pool)
    <3>1. FreshFill(x.row, HolesOf[x.route][Len(x.got) + 1], Announced, db.pool)
      BY <2>1, <2>2, <2>3 DEF FreshRequest
    <3>2. HolesOf[x.route][Len(x.got) + 1] \in Query
      BY <2>1, <2>3, HoleInQuery DEF Coherent
    <3> QED BY <1>4, <1>6, <2>1, <3>1, <3>2 DEF FreshFill
  <2>4. ASSUME y.route \in Route, ~y.notified, NEW i \in DOMAIN y.got
        PROVE  FreshFill(y.got[i], HolesOf[y.route][i], Delivered', db'.pool)
    <3>1. FreshFill(x.got[i], HolesOf[x.route][i], Delivered, db.pool)
      BY <2>1, <2>2, <2>4 DEF FreshRequest
    <3>2. HolesOf[x.route][i] \in Query
      BY <2>1, <2>4, HolesSeq DEF Coherent, Renders, ReqState
    <3> QED BY <1>4, <1>6, <2>1, <3>1, <3>2 DEF FreshFill
  <2> QED BY <2>3, <2>4 DEF FreshRequest, y
<1> QED BY <1>7, <1>8, <1>9 DEF Fresh

(* Steps that change no goroutine's control: others' writes, evictions and  *)
(* the poller, whose flush only takes entries away and marks fills.         *)
LEMMA RestFresh ==
    ASSUME Shape, Shape', Fresh, db'.pool = db.pool,
           DOMAIN rows' \subseteq DOMAIN rows, DOMAIN pages' \subseteq DOMAIN pages,
           \A q \in DOMAIN rows' : rows'[q] = rows[q],
           \A p \in DOMAIN pages' : pages'[p] = pages[p],
           \A s \in Request :
             /\ SameControl(req'[s], req[s])
             /\ req[s].notified => req'[s].notified
             /\ req[s].row = None => req'[s].row = None
             /\ req[s].row # None =>
                  req'[s].row.snap = req[s].row.snap /\ (req[s].row.raced => req'[s].row.raced)
    PROVE  Fresh'
<1>1. Announced' \subseteq Announced /\ Delivered' \subseteq Delivered
  BY NotAnnouncing DEF SameControl
<1>2. ASSUME NEW s \in Request PROVE FreshRequest(req'[s], Announced, Delivered, db.pool)
  <2> DEFINE x == req[s]
             y == req'[s]
  <2>1. /\ y.route = x.route /\ y.got = x.got
        /\ x.notified => y.notified
        /\ x.row = None => y.row = None
        /\ x.row # None => y.row.snap = x.row.snap /\ (x.row.raced => y.row.raced)
    BY DEF SameControl
  <2>2. FreshRequest(x, Announced, Delivered, db.pool)
    BY DEF Fresh, RequestsFresh
  <2> HIDE DEF x, y
  <2>3. ASSUME y.row # None
        PROVE  FreshFill(y.row, HolesOf[y.route][Len(y.got) + 1], Announced, db.pool)
    BY <2>1, <2>2, <2>3 DEF FreshRequest, FreshFill
  <2>4. ASSUME y.route \in Route, ~y.notified, NEW i \in DOMAIN y.got
        PROVE  FreshFill(y.got[i], HolesOf[y.route][i], Delivered, db.pool)
    BY <2>1, <2>2, <2>4 DEF FreshRequest
  <2> QED BY <2>3, <2>4 DEF FreshRequest, y
<1> QED BY <1>1, <1>2, QuietStep

LEMMA PollFresh ==
    ASSUME Shape, Shape', Fresh, PollAcquire \/ WatcherStep
    PROVE  Fresh'
<1>1. ASSUME db'.pool = db.pool, UNCHANGED <<rows, pages, req>> PROVE Fresh'
  BY <1>1, RestFresh DEF SameControl
<1>2. ASSUME PollRead PROVE Fresh'
  <2>1. DbTyped /\ watcher.conn \in Conn
    BY <1>2 DEF PollRead, Shape, Typed, WatcherTyped, WatcherState
  <2>2. db'.pool = db.pool /\ UNCHANGED <<rows, pages, req>>
    BY <1>2, <2>1, ReadFacts DEF PollRead
  <2> QED BY <1>1, <2>2
<1>3. req \in [Request -> ReqState] /\ \A s \in Request : Coherent(req[s])
  BY DEF Shape, Typed, RequestsTyped
<1>4. ASSUME PollFlush PROVE Fresh'
  <2>1. /\ rows' = NoFcn /\ req' = RaceFills(req, Table) /\ UNCHANGED <<db, pages>>
    BY <1>4 DEF PollFlush
  <2>2. DOMAIN rows' = {}
    BY <2>1 DEF NoFcn
  <2>3. \A s \in Request :
          /\ SameControl(req'[s], req[s])
          /\ req[s].notified => req'[s].notified
          /\ req[s].row = None => req'[s].row = None
          /\ req[s].row # None =>
               req'[s].row.snap = req[s].row.snap /\ (req[s].row.raced => req'[s].row.raced)
    BY <1>3, <2>1, RaceFillsFacts
  <2> QED BY <2>1, <2>2, <2>3, RestFresh
<1>5. ASSUME PollBroadcast PROVE Fresh'
  <2>1. /\ pages' = NoFcn /\ req' = RacePages(req, Table) /\ UNCHANGED <<db, rows>>
    BY <1>5 DEF PollBroadcast
  <2>2. DOMAIN pages' = {}
    BY <2>1 DEF NoFcn
  <2>3. \A s \in Request : /\ SameControl(req'[s], req[s]) /\ req'[s].row = req[s].row
                           /\ req[s].notified => req'[s].notified
    BY <1>3, <2>1, RacePagesFacts
  <2> QED BY <2>1, <2>2, <2>3, RestFresh
<1> QED BY <1>1, <1>2, <1>4, <1>5 DEF PollAcquire, WatcherStep, PollCompare, PollError

LEMMA OthersFresh ==
    ASSUME Shape, Shape', Fresh,
           \/ ExternalWrite \/ UNCHANGED vars
           \/ \E q \in Query : ForgetRow(q)
           \/ \E p \in Route : ForgetPage(p)
    PROVE  Fresh'
<1>1. db'.pool = db.pool
  BY DEF ExternalWrite, ForgetRow, ForgetPage, vars, Shape, Typed, DbTyped, DbState
<1>2. req' = req
  BY DEF ExternalWrite, ForgetRow, ForgetPage, vars
<1>3. /\ DOMAIN rows' \subseteq DOMAIN rows /\ DOMAIN pages' \subseteq DOMAIN pages
      /\ \A q \in DOMAIN rows' : rows'[q] = rows[q]
      /\ \A p \in DOMAIN pages' : pages'[p] = pages[p]
  BY DEF ExternalWrite, ForgetRow, ForgetPage, vars, Without
<1> QED BY <1>1, <1>2, <1>3, RestFresh DEF SameControl

LEMMA InitFresh == NewPool => Fresh
<1> SUFFICES ASSUME NewPool PROVE Fresh
  OBVIOUS
<1>1. \A r \in Request : req[r].row = None /\ req[r].got = <<>>
  BY DEF NewPool, Idle
<1>2. RequestsFresh
  BY <1>1, NewcomerFresh DEF RequestsFresh
<1> QED BY <1>2 DEF NewPool, NoFcn, Fresh, RowsFresh, PagesFresh

LEMMA NextFresh == Shape /\ Shape' /\ Fresh /\ [Next]_vars => Fresh'
<1> SUFFICES ASSUME Shape, Shape', Fresh, [Next]_vars PROVE Fresh'
  OBVIOUS
<1>1. ASSUME NEW r \in Request, RowMiss(r) PROVE Fresh'
  BY <1>1, MoveFresh DEF RowMiss
<1>2. ASSUME NEW r \in Request, RequestStep(r) PROVE Fresh'
  BY <1>1, <1>2, RowHitFresh, ReadFresh, ReleaseFresh, RowPutFresh, OutputPutFresh,
     BeginWriteFresh, HookInvalidateFresh, HookNotifyFresh, EndFresh
  DEF RequestStep
<1> QED BY <1>2, StartFresh, AcquireFresh, PollFresh, OthersFresh DEF Next

LEMMA SpecFresh == Spec => [](Shape /\ Fresh)
  BY InitShape, InitFresh, NextShape, NextFresh, PTL DEF Spec

(* Whatever the number of rows a statement changes, and whether it commits  *)
(* or rolls back, a cached result that is not what the pool has written was *)
(* filled while the write was under way.                                    *)
THEOREM RowFresh == Spec => []RowFreshUnlessRaced
<1>1. Shape /\ Fresh => RowFreshUnlessRaced
  <2> SUFFICES ASSUME Shape, Fresh, NEW q \in DOMAIN rows, ~rows[q].raced
               PROVE  Current(rows[q].snap)
    BY DEF RowFreshUnlessRaced
  <2>1. q \in Query /\ rows[q] \in FillOf(q)
    BY DEF Shape, Typed, RowsTyped
  <2>2. DOMAIN rows[q].snap.pool = ReadsOf[q]
    BY <2>1, FillFields DEF SnapOf
  <2>3. Agrees(rows[q].snap, q, Announced, db.pool)
    BY DEF Fresh, RowsFresh, FreshFill
  <2> QED BY <2>2, <2>3 DEF Current, Agrees
<1> QED BY <1>1, SpecFresh, PTL

(* The same of pages, which are built from cached rows: the hook drops the  *)
(* rows before it drops the pages, so no page rendered after the second can *)
(* have picked up a row from before the first.                              *)
THEOREM PageFresh == Spec => []PageFreshUnlessRaced
<1>1. Shape /\ Fresh => PageFreshUnlessRaced
  <2> SUFFICES ASSUME Shape, Fresh, NEW p \in DOMAIN pages, ~pages[p].raced,
                      NEW i \in DOMAIN pages[p].snaps
               PROVE  Current(pages[p].snaps[i])
    BY DEF PageFreshUnlessRaced
  <2>1. /\ p \in Route /\ i \in DOMAIN HolesOf[p]
        /\ pages[p].snaps[i] \in SnapOf(HolesOf[p][i])
    BY DEF Shape, Typed, PagesTyped, PageOf
  <2>2. DOMAIN pages[p].snaps[i].pool = ReadsOf[HolesOf[p][i]]
    BY <2>1 DEF SnapOf
  <2>3. Agrees(pages[p].snaps[i], HolesOf[p][i], Delivered, db.pool)
    BY <2>1 DEF Fresh, PagesFresh, FreshPage
  <2> QED BY <2>2, <2>3 DEF Current, Agrees
<1> QED BY <1>1, SpecFresh, PTL

---------------------------------------------------------------------------
(* The poller and the versions of its connection. *)
LEMMA VersionedRead ==
    ASSUME OneConn, NEW d \in DbState, NEW d2 \in DbState, NEW c \in Conn,
           d2.ext = d.ext, d2.commits = d.commits, d2.seen[c] = d.commits,
           d2.dataVersion[c] = IF d.seen[c] = d.commits THEN d.dataVersion[c]
                               ELSE d.dataVersion[c] + 1
    PROVE  /\ Behind(d2)
           /\ \A v \in Int : \A e : Versioned(v, e, d) => Versioned(v, e, d2)
           /\ \A v, e : v = d2.dataVersion[c] /\ e = d2.ext => Versioned(v, e, d2)
<1>1. \A k \in Conn : k = c
  BY DEF OneConn
<1>2. /\ d.dataVersion[c] \in Nat /\ d2.dataVersion[c] \in Nat /\ d.commits \in Nat
      /\ d.seen[c] \in Nat
  BY DEF DbState
<1>3. Behind(d2)
  BY <1>1, <1>2 DEF Behind
<1>4. ASSUME NEW v \in Int, NEW e, Versioned(v, e, d) PROVE Versioned(v, e, d2)
  <2>1. d.dataVersion[c] >= v /\ (d.dataVersion[c] = v /\ d.seen[c] = d.commits => e = d.ext)
    BY <1>4 DEF Versioned
  <2>2. d2.dataVersion[c] >= v /\ (d2.dataVersion[c] = v => e = d2.ext)
    BY <1>2, <2>1
  <2> QED BY <1>1, <2>2 DEF Versioned
<1>5. ASSUME NEW v, NEW e, v = d2.dataVersion[c], e = d2.ext PROVE Versioned(v, e, d2)
  BY <1>1, <1>2, <1>5 DEF Versioned
<1> QED BY <1>3, <1>4, <1>5

LEMMA VersionedWrite ==
    ASSUME OneConn, NEW d \in DbState, NEW d2 \in DbState, NEW c \in Conn, Behind(d),
           d2.dataVersion = d.dataVersion, d2.commits = d.commits + 1,
           \/ d2.ext = d.ext /\ d.seen[c] = d.commits /\ d2.seen[c] = d2.commits
           \/ d2.ext = d.ext + 1 /\ d2.seen[c] = d.seen[c]
    PROVE  /\ Behind(d2)
           /\ \A v, e : Versioned(v, e, d) => Versioned(v, e, d2)
<1>1. \A k \in Conn : k = c
  BY DEF OneConn
<1>2. d.commits \in Nat /\ d.seen[c] \in Nat /\ d.seen[c] <= d.commits
  BY DEF DbState, Behind
<1>3. Behind(d2)
  BY <1>1, <1>2 DEF Behind
<1>4. ASSUME NEW v, NEW e, Versioned(v, e, d) PROVE Versioned(v, e, d2)
  <2>1. d.dataVersion[c] >= v /\ (d.dataVersion[c] = v /\ d.seen[c] = d.commits => e = d.ext)
    BY <1>4 DEF Versioned
  <2>2. d2.dataVersion[c] >= v /\ (d2.dataVersion[c] = v /\ d2.seen[c] = d2.commits => e = d2.ext)
    BY <1>2, <2>1
  <2> QED BY <1>1, <2>2 DEF Versioned
<1> QED BY <1>3, <1>4

(* Steps of others leave what the poller knows of the versions true. *)
LEMMA VersionsKept ==
    ASSUME Shape, Shape', PollVersions, watcher' = watcher, Behind(db'), db'.ext >= db.ext,
           \A v \in Int : \A e : Versioned(v, e, db) => Versioned(v, e, db')
    PROVE  PollVersions'
<1>1. watcher \in WatcherState /\ db.ext \in Nat /\ db'.ext \in Nat
  BY DEF Shape, Typed, WatcherTyped, DbTyped, DbState
<1>2. watcher.lastVer \in Int /\ watcher.ver \in Int /\ watcher.lastExt \in Nat /\ watcher.ext \in Nat
  BY <1>1 DEF WatcherState
<1>3. watcher'.lastExt <= db'.ext /\ watcher'.ext <= db'.ext
  BY <1>1, <1>2 DEF PollVersions
<1> QED BY <1>2, <1>3 DEF PollVersions

LEMMA ReadVersions ==
    ASSUME OneConn, Shape, Shape', PollVersions, NEW r \in Request, Read(r) \/ BeginWrite(r)
    PROVE  PollVersions'
<1> DEFINE c == req[r].conn
           d == BeginRead(c)
<1>1. c \in Conn /\ DbTyped /\ DbTyped' /\ watcher' = watcher
  BY Here, HoldersHaveConns DEF Read, BeginWrite, Holding, Shape, Typed
<1>2. d \in DbState /\ d.ext = db.ext /\ d.commits = db.commits /\ d.seen[c] = db.commits
      /\ d.dataVersion[c] = IF db.seen[c] = db.commits THEN db.dataVersion[c]
                            ELSE db.dataVersion[c] + 1
  <2> HIDE DEF c
  <2> QED BY <1>1, ReadFacts
<1>3. db' = d \/ db' = [d EXCEPT !.writer = r]
  BY DEF Read, BeginWrite
<1> HIDE DEF d, c
<1>4. /\ db'.ext = db.ext /\ db'.commits = db.commits /\ db'.seen = d.seen
      /\ db'.dataVersion = d.dataVersion
  BY <1>2, <1>3 DEF DbState
<1>5. /\ Behind(db')
      /\ \A v \in Int : \A e : Versioned(v, e, db) => Versioned(v, e, db')
  BY <1>1, <1>2, <1>4, VersionedRead DEF DbTyped
<1>6. db'.ext >= db.ext
  BY <1>1, <1>4 DEF DbTyped, DbState
<1> QED BY <1>1, <1>5, <1>6, VersionsKept

LEMMA WriteVersions ==
    ASSUME OneConn, Shape, Shape', PollVersions, watcher' = watcher
    PROVE  /\ ExternalWrite => PollVersions'
           /\ \A r \in Request : Commit(r) \/ Rollback(r) => PollVersions'
<1>1. DbTyped /\ DbTyped' /\ Behind(db) /\ db.ext \in Nat /\ db.commits \in Nat
  BY DEF Shape, Typed, DbTyped, DbState, PollVersions
<1>2. ASSUME NEW r \in Request, Commit(r) PROVE PollVersions'
  <2> DEFINE c == req[r].conn
  <2>0. req[r].pc = "applied"
    BY <1>2 DEF Commit
  <2>1. /\ c \in Conn /\ db'.commits = db.commits + 1 /\ db'.ext = db.ext
        /\ db'.dataVersion = db.dataVersion
        /\ db'.seen = [db.seen EXCEPT ![c] = db.commits + 1]
    BY <1>2, CommitFacts
  <2>2. db.seen[c] = db.commits
    BY <2>0 DEF Shape, WriterHoldsLock
  <2> HIDE DEF c
  <2>3. db'.seen[c] = db'.commits
    BY <1>1, <2>1 DEF DbTyped, DbState
  <2>4. Behind(db') /\ \A v, e : Versioned(v, e, db) => Versioned(v, e, db')
    BY <1>1, <2>1, <2>2, <2>3, VersionedWrite DEF DbTyped
  <2>5. db'.ext >= db.ext
    BY <1>1, <2>1
  <2> QED BY <1>1, <2>4, <2>5, VersionsKept
<1>3. ASSUME ExternalWrite PROVE PollVersions'
  <2>1. /\ db'.commits = db.commits + 1 /\ db'.ext = db.ext + 1
        /\ db'.dataVersion = db.dataVersion /\ db'.seen = db.seen
    BY <1>1, <1>3 DEF ExternalWrite, DbTyped, DbState
  <2>2. PICK c \in Conn : TRUE
    BY FastDBAssumption
  <2>3. Behind(db') /\ \A v, e : Versioned(v, e, db) => Versioned(v, e, db')
    BY <1>1, <2>1, <2>2, VersionedWrite DEF DbTyped
  <2>4. db'.ext >= db.ext
    BY <1>1, <2>1
  <2> QED BY <1>1, <2>3, <2>4, VersionsKept
<1>4. ASSUME NEW r \in Request, Rollback(r) PROVE PollVersions'
  <2>1. /\ db'.commits = db.commits /\ db'.ext = db.ext
        /\ db'.dataVersion = db.dataVersion /\ db'.seen = db.seen
    BY <1>1, <1>4 DEF Rollback, DbTyped, DbState
  <2>2. Behind(db') /\ \A v, e : Versioned(v, e, db) => Versioned(v, e, db')
    BY <1>1, <2>1 DEF Behind, Versioned
  <2>3. db'.ext >= db.ext
    BY <1>1, <2>1
  <2> QED BY <1>1, <2>2, <2>3, VersionsKept
<1> QED BY <1>2, <1>3, <1>4

(* What is cached, and what is being rendered, between polls. *)
PolledCaches == PolledRows /\ PolledPages /\ PolledRequests

(* The same rendering, perhaps with marks added or the fill gone.          *)
Marked(y, x) ==
    /\ y.route = x.route /\ y.got = x.got
    /\ x.notified => y.notified
    /\ y.row # None => /\ x.row # None /\ y.row.snap = x.row.snap
                       /\ x.row.raced => y.row.raced

Newcomer(y) == y.row = None /\ y.got = <<>>

LEMMA MarkedPolled ==
    ASSUME NEW x, NEW y, NEW b, NEW e, NEW e2, PolledRequest(x, b, e, e2), Marked(y, x)
    PROVE  PolledRequest(y, b, e, e2)
<1>1. ASSUME y.row # None
      PROVE  PolledFill(y.row, HolesOf[y.route][Len(y.got) + 1], b, e)
  BY <1>1 DEF Marked, PolledRequest, PolledFill
<1>2. ASSUME y.route \in Route, ~y.notified, NEW i \in DOMAIN y.got
      PROVE  PolledFill(y.got[i], HolesOf[y.route][i], b, e2)
  BY <1>2 DEF Marked, PolledRequest
<1> QED BY <1>1, <1>2 DEF PolledRequest

LEMMA NewcomerPolled ==
    ASSUME NEW x, NEW b, NEW e, NEW e2, Newcomer(x)
    PROVE  PolledRequest(x, b, e, e2)
<1>1. DOMAIN <<>> = {}
  OBVIOUS
<1> QED BY <1>1 DEF PolledRequest, Newcomer

LEMMA PolledKept ==
    ASSUME PolledCaches, watcher'.base = watcher.base, watcher'.lastExt = watcher.lastExt,
           RowBound' = RowBound,
           \A q \in DOMAIN rows' : \/ q \in DOMAIN rows /\ rows'[q] = rows[q]
                                  \/ PolledFill(rows'[q], q, watcher.base, RowBound),
           \A p \in DOMAIN pages' : \/ p \in DOMAIN pages /\ pages'[p] = pages[p]
                                   \/ PolledPage(pages'[p], p, watcher.base, watcher.lastExt),
           \A s \in Request :
             \/ Marked(req'[s], req[s]) \/ Newcomer(req'[s])
             \/ PolledRequest(req'[s], watcher.base, RowBound, watcher.lastExt)
    PROVE  PolledCaches'
<1>1. PolledRows' /\ PolledPages'
  BY DEF PolledCaches, PolledRows, PolledPages
<1>2. PolledRequests'
  BY MarkedPolled, NewcomerPolled DEF PolledCaches, PolledRequests
<1> QED BY <1>1, <1>2 DEF PolledCaches

LEMMA Markings ==
    ASSUME Shape, NEW r \in Request, NEW y, req' = [req EXCEPT ![r] = y],
           Marked(y, req[r]) \/ Newcomer(y)
    PROVE  \A s \in Request : Marked(req'[s], req[s]) \/ Newcomer(req'[s])
<1>1. \A s \in Request : IF s = r THEN req'[s] = y ELSE req'[s] = req[s]
  BY DEF Shape, Typed, RequestsTyped
<1>2. \A s \in Request : Marked(req[s], req[s])
  BY DEF Marked
<1> QED BY <1>1, <1>2

LEMMA GotoMarks ==
    ASSUME Shape, NEW r \in Request, NEW pc, Goto(r, pc)
    PROVE  \A s \in Request : Marked(req'[s], req[s]) \/ Newcomer(req'[s])
<1> DEFINE y == [req[r] EXCEPT !.pc = pc]
<1>1. req' = [req EXCEPT ![r] = y]
  BY DEF Goto
<1>2. Marked(y, req[r])
  BY Here DEF ReqState, Marked
<1> HIDE DEF y
<1> QED BY <1>1, <1>2, Markings

LEMMA StepMarks ==
    ASSUME Shape, NEW r \in Request
    PROVE  /\ \A p \in Route : OutputMiss(r, p) =>
                \A s \in Request : Marked(req'[s], req[s]) \/ Newcomer(req'[s])
           /\ \A t \in Table : StartWrite(r, t) =>
                \A s \in Request : Marked(req'[s], req[s]) \/ Newcomer(req'[s])
           /\ Acquire(r) \/ Release(r) \/ HookInvalidate(r) \/ HookNotify(r) =>
                \A s \in Request : Marked(req'[s], req[s]) \/ Newcomer(req'[s])
<1> DEFINE Marks == \A s \in Request : Marked(req'[s], req[s]) \/ Newcomer(req'[s])
<1>1. ASSUME NEW p \in Route, OutputMiss(r, p) PROVE Marks
  <2> DEFINE y == [Idle EXCEPT !.pc = "row", !.route = p]
  <2>1. Newcomer(y)
    BY DEF Idle, Newcomer
  <2>2. req' = [req EXCEPT ![r] = y]
    BY <1>1 DEF OutputMiss
  <2> HIDE DEF y
  <2> QED BY <2>1, <2>2, Markings
<1>2. ASSUME NEW t \in Table, StartWrite(r, t) PROVE Marks
  <2> DEFINE y == [Idle EXCEPT !.pc = "acquire", !.table = t]
  <2>1. Newcomer(y)
    BY DEF Idle, Newcomer
  <2>2. req' = [req EXCEPT ![r] = y]
    BY <1>2 DEF StartWrite
  <2> HIDE DEF y
  <2> QED BY <2>1, <2>2, Markings
<1>3. ASSUME Acquire(r) PROVE Marks
  <2> DEFINE c == Head(free)
             pc == IF req[r].table = None THEN "read" ELSE "begin"
             y == [req[r] EXCEPT !.conn = c, !.pc = pc]
  <2>1. req' = [req EXCEPT ![r] = y]
    BY <1>3 DEF Acquire
  <2> HIDE DEF c, pc
  <2>2. Marked(y, req[r])
    BY Here DEF ReqState, Marked
  <2> HIDE DEF y
  <2> QED BY <2>1, <2>2, Markings
<1>4. ASSUME Release(r) PROVE Marks
  <2> DEFINE y == IF req[r].table = None /\ req[r].ok
                  THEN [req[r] EXCEPT !.pc = "put", !.conn = None] ELSE Idle
  <2>1. req' = [req EXCEPT ![r] = y]
    BY <1>4 DEF Release
  <2>2. Marked(y, req[r]) \/ Newcomer(y)
    BY Here DEF ReqState, Marked, Newcomer, Idle
  <2> HIDE DEF y
  <2> QED BY <2>1, <2>2, Markings
<1>5. ASSUME HookInvalidate(r) PROVE Marks
  BY <1>5, HookInvalidateFacts DEF Marked
<1>6. ASSUME HookNotify(r) PROVE Marks
  BY <1>6, HookNotifyFacts DEF Marked
<1> QED BY <1>1, <1>2, <1>3, <1>4, <1>5, <1>6

(* The bounds on the two caches: every read is at least as recent as both. *)
LEMMA Bounds ==
    ASSUME Shape, PollVersions
    PROVE  /\ RowBound \in Nat /\ watcher.lastExt \in Nat /\ watcher.base \in Nat /\ db.ext \in Nat
           /\ watcher.lastExt <= RowBound /\ RowBound <= db.ext
<1>1. watcher \in WatcherState /\ db.ext \in Nat
  BY DEF Shape, Typed, WatcherTyped, DbTyped, DbState
<1>2. watcher.lastExt \in Nat /\ watcher.ext \in Nat /\ watcher.base \in Nat
  BY <1>1 DEF WatcherState
<1> QED BY <1>1, <1>2 DEF PollVersions, RowBound

LEMMA Earlier ==
    ASSUME NEW q \in Query, NEW f \in FillOf(q), NEW b \in Nat, NEW e \in Nat, NEW e2 \in Nat, e2 <= e,
           PolledFill(f, q, b, e)
    PROVE  PolledFill(f, q, b, e2)
<1>1. f.snap.ext \in Nat
  BY FillFields DEF SnapOf
<1> QED BY <1>1 DEF PolledFill, NotOld

LEMMA ReadPolled ==
    ASSUME Shape, PollVersions, PolledCaches, NEW r \in Request, Read(r)
    PROVE  PolledCaches'
<1> DEFINE q == Hole(r)
           b == ReadsOf[q] \cap Announced # {}
           f == [snap |-> Snapshot(ReadsOf[q]), raced |-> b]
<1>1. /\ req[r].pc = "read" /\ UNCHANGED <<free, rows, pages, watcher>>
      /\ \/ req' = [req EXCEPT ![r] = [req[r] EXCEPT !.pc = "release", !.row = f]]
         \/ req' = [req EXCEPT ![r] = [req[r] EXCEPT !.pc = "release", !.ok = FALSE]]
  BY DEF Read
<1>2. req[r] \in ReqState /\ q \in Query
  BY <1>1, Here
<1>3. PolledFill(f, q, watcher.base, RowBound)
  <2>1. b \in BOOLEAN /\ DbTyped /\ f = [snap |-> Snapshot(ReadsOf[q]), raced |-> b]
    BY DEF Shape, Typed
  <2> HIDE DEF f, b, q
  <2>2. f.snap.ext = db.ext
    BY <1>2, <2>1, SnapshotFacts
  <2> QED BY <2>2, Bounds DEF PolledFill, NotOld
<1> HIDE DEF f, b
<1>4. PolledRequest(req[r], watcher.base, RowBound, watcher.lastExt)
  BY DEF PolledCaches, PolledRequests
<1>5. RowBound' = RowBound /\ watcher'.base = watcher.base /\ watcher'.lastExt = watcher.lastExt
  BY <1>1 DEF RowBound
<1>6. CASE req' = [req EXCEPT ![r] = [req[r] EXCEPT !.pc = "release", !.row = f]]
  <2> DEFINE y == [req[r] EXCEPT !.pc = "release", !.row = f]
  <2>1. /\ y.route = req[r].route /\ y.got = req[r].got
        /\ y.notified = req[r].notified /\ y.row = f
    BY <1>2 DEF ReqState
  <2>2. req' = [req EXCEPT ![r] = y]
    BY <1>6
  <2> HIDE DEF y
  <2>3. PolledRequest(y, watcher.base, RowBound, watcher.lastExt)
    BY <1>3, <1>4, <2>1 DEF PolledRequest, Hole, q
  <2>4. \A s \in Request : IF s = r THEN req'[s] = y ELSE Marked(req'[s], req[s])
    BY <2>2 DEF Shape, Typed, RequestsTyped, Marked
  <2> QED BY <1>1, <1>5, <2>3, <2>4, PolledKept
<1>7. CASE req' = [req EXCEPT ![r] = [req[r] EXCEPT !.pc = "release", !.ok = FALSE]]
  <2> DEFINE y == [req[r] EXCEPT !.pc = "release", !.ok = FALSE]
  <2>1. Marked(y, req[r])
    BY <1>2 DEF ReqState, Marked
  <2>2. req' = [req EXCEPT ![r] = y]
    BY <1>7
  <2> HIDE DEF y
  <2> QED BY <1>1, <1>5, <2>1, <2>2, Markings, PolledKept
<1> QED BY <1>1, <1>6, <1>7

LEMMA NextHolePolled ==
    ASSUME Shape, PollVersions, PolledCaches, NEW r \in Request, req[r].pc \in {"row", "put"},
           NEW fill \in FillOf(Hole(r)), PolledFill(fill, Hole(r), watcher.base, RowBound),
           req' = [req EXCEPT ![r] = NextHole(r, fill)]
    PROVE  \A s \in Request :
             \/ Marked(req'[s], req[s])
             \/ PolledRequest(req'[s], watcher.base, RowBound, watcher.lastExt)
<1> DEFINE x == req[r]
           got == Append(x.got, fill)
           y == NextHole(r, fill)
<1>1. x \in ReqState /\ Coherent(x) /\ Hole(r) \in Query /\ x.route \in Route
  BY Here
<1>2. x.got \in Seq(Fills) /\ fill \in Fills
  BY <1>1, FillsUnion DEF ReqState
<1>3. /\ DOMAIN x.got = 1..Len(x.got) /\ DOMAIN got = 1..(Len(x.got) + 1) /\ Len(x.got) \in Nat
      /\ got[Len(x.got) + 1] = fill /\ \A i \in 1..Len(x.got) : got[i] = x.got[i]
  BY <1>2, AppendFacts
<1>4. y.got = got /\ y.row = None /\ y.route = x.route /\ y.notified = x.notified
  BY <1>1 DEF NextHole, ReqState
<1>5. PolledFill(fill, HolesOf[x.route][Len(x.got) + 1], watcher.base, watcher.lastExt)
  BY <1>1, Bounds, Earlier DEF Hole
<1>6. PolledRequest(x, watcher.base, RowBound, watcher.lastExt)
  BY DEF PolledCaches, PolledRequests
<1>7. req' = [req EXCEPT ![r] = y]
  OBVIOUS
<1> HIDE DEF got, y, x
<1>8. PolledRequest(y, watcher.base, RowBound, watcher.lastExt)
  <2>1. ASSUME ~x.notified, NEW i \in DOMAIN got
        PROVE  PolledFill(got[i], HolesOf[x.route][i], watcher.base, watcher.lastExt)
    <3>1. CASE i = Len(x.got) + 1
      BY <1>3, <1>5, <3>1
    <3>2. CASE i \in DOMAIN x.got
      <4>1. PolledFill(x.got[i], HolesOf[x.route][i], watcher.base, watcher.lastExt)
        BY <1>1, <1>6, <2>1, <3>2 DEF PolledRequest
      <4> QED BY <1>3, <3>2, <4>1
    <3> QED BY <1>3, <3>1, <3>2
  <2> QED BY <1>4, <2>1 DEF PolledRequest
<1>9. \A s \in Request : IF s = r THEN req'[s] = y ELSE Marked(req'[s], req[s])
  BY <1>7 DEF Shape, Typed, RequestsTyped, Marked
<1> QED BY <1>8, <1>9

LEMMA RowHitPolled ==
    ASSUME Shape, PollVersions, PolledCaches, NEW r \in Request, RowHit(r)
    PROVE  PolledCaches'
<1> DEFINE fill == rows[Hole(r)]
<1>1. /\ req' = [req EXCEPT ![r] = NextHole(r, fill)] /\ UNCHANGED <<db, free, rows, pages, watcher>>
      /\ req[r].pc = "row" /\ Hole(r) \in DOMAIN rows
  BY DEF RowHit
<1>2. fill \in FillOf(Hole(r)) /\ PolledFill(fill, Hole(r), watcher.base, RowBound)
  BY <1>1 DEF Shape, Typed, RowsTyped, PolledCaches, PolledRows
<1> HIDE DEF fill
<1>3. \A s \in Request :
        \/ Marked(req'[s], req[s])
        \/ PolledRequest(req'[s], watcher.base, RowBound, watcher.lastExt)
  BY <1>1, <1>2, NextHolePolled
<1>4. RowBound' = RowBound
  BY <1>1 DEF RowBound
<1> QED BY <1>1, <1>3, <1>4, PolledKept

LEMMA RowPutPolled ==
    ASSUME Shape, PollVersions, PolledCaches, NEW r \in Request, RowPut(r)
    PROVE  PolledCaches'
<1> DEFINE fill == req[r].row
           q == Hole(r)
<1>1. /\ req' = [req EXCEPT ![r] = NextHole(r, fill)] /\ UNCHANGED <<db, free, pages, watcher>>
      /\ req[r].pc = "put"
      /\ rows' = IF FiledUnder[q] = {} THEN rows ELSE With(rows, q, fill)
  BY DEF RowPut
<1>2. fill \in FillOf(q) /\ PolledFill(fill, q, watcher.base, RowBound)
  <2>1. req[r].row # None /\ req[r].route \in Route
    BY <1>1, Here DEF Coherent
  <2>2. req[r].row \in FillOf(Hole(r))
    BY <2>1, Here DEF Coherent, Renders, Hole
  <2>3. PolledRequest(req[r], watcher.base, RowBound, watcher.lastExt)
    BY DEF PolledCaches, PolledRequests
  <2> QED BY <2>1, <2>2, <2>3 DEF PolledRequest, Hole
<1> HIDE DEF fill
<1>3. \A s \in Request :
        \/ Marked(req'[s], req[s])
        \/ PolledRequest(req'[s], watcher.base, RowBound, watcher.lastExt)
  BY <1>1, <1>2, NextHolePolled
<1>4. RowBound' = RowBound
  BY <1>1 DEF RowBound
<1> HIDE DEF q
<1>5. \A k \in DOMAIN rows' : \/ k \in DOMAIN rows /\ rows'[k] = rows[k]
                              \/ PolledFill(rows'[k], k, watcher.base, RowBound)
  <2>1. CASE rows' = rows
    BY <2>1
  <2>2. CASE rows' = With(rows, q, fill)
    <3>1. /\ DOMAIN rows' = DOMAIN rows \cup {q} /\ rows'[q] = fill
          /\ \A k \in DOMAIN rows : k # q => rows'[k] = rows[k]
      BY <2>2 DEF With
    <3> QED BY <1>2, <3>1
  <2> QED BY <1>1, <2>1, <2>2
<1> QED BY <1>1, <1>3, <1>4, <1>5, PolledKept

LEMMA OutputPutPolled ==
    ASSUME Shape, PolledCaches, NEW r \in Request, OutputPut(r)
    PROVE  PolledCaches'
<1> DEFINE x == req[r]
           g == [snaps |-> [i \in DOMAIN x.got |-> x.got[i].snap],
                 raced |-> x.notified \/ \E i \in DOMAIN x.got : x.got[i].raced]
<1>1. /\ req' = [req EXCEPT ![r] = Idle] /\ x.pc = "output"
      /\ pages' = IF ~Attributable(x.route) THEN pages ELSE With(pages, x.route, g)
      /\ UNCHANGED <<db, free, rows, watcher>>
  BY DEF OutputPut
<1>2. x \in ReqState /\ Coherent(x) /\ x.route \in Route
  BY <1>1, Here
<1>3. DOMAIN x.got = DOMAIN HolesOf[x.route]
  BY <1>1, <1>2, HolesSeq DEF Coherent, Renders, ReqState
<1>4. PolledRequest(x, watcher.base, RowBound, watcher.lastExt)
  BY DEF PolledCaches, PolledRequests
<1>5. /\ g.raced <=> x.notified \/ \E i \in DOMAIN x.got : x.got[i].raced
      /\ \A i \in DOMAIN x.got : g.snaps[i] = x.got[i].snap
  OBVIOUS
<1> HIDE DEF g
<1>6. PolledPage(g, x.route, watcher.base, watcher.lastExt)
  BY <1>2, <1>3, <1>4, <1>5 DEF PolledPage, PolledRequest, PolledFill
<1>7. \A s \in Request : Marked(req'[s], req[s]) \/ Newcomer(req'[s])
  <2>1. Newcomer(Idle)
    BY DEF Newcomer, Idle
  <2> QED BY <1>1, <2>1, Markings
<1>8. RowBound' = RowBound
  BY <1>1 DEF RowBound
<1>9. \A p \in DOMAIN pages' : \/ p \in DOMAIN pages /\ pages'[p] = pages[p]
                               \/ PolledPage(pages'[p], p, watcher.base, watcher.lastExt)
  <2>1. CASE pages' = pages
    BY <2>1
  <2>2. CASE pages' = With(pages, x.route, g)
    <3> DEFINE p == x.route
    <3>1. PolledPage(g, p, watcher.base, watcher.lastExt) /\ pages' = With(pages, p, g)
      BY <1>6, <2>2
    <3> HIDE DEF p
    <3>2. /\ DOMAIN pages' = DOMAIN pages \cup {p} /\ pages'[p] = g
          /\ \A k \in DOMAIN pages : k # p => pages'[k] = pages[k]
      BY <3>1 DEF With
    <3> QED BY <3>1, <3>2
  <2> QED BY <1>1, <2>1, <2>2
<1> QED BY <1>1, <1>7, <1>8, <1>9, PolledKept

(* The other steps of goroutines, and of everybody but the poller. *)
LEMMA MarkingPolled ==
    ASSUME PolledCaches, watcher' = watcher,
           DOMAIN rows' \subseteq DOMAIN rows, DOMAIN pages' \subseteq DOMAIN pages,
           \A q \in DOMAIN rows' : rows'[q] = rows[q],
           \A p \in DOMAIN pages' : pages'[p] = pages[p],
           \A s \in Request : Marked(req'[s], req[s]) \/ Newcomer(req'[s])
    PROVE  PolledCaches'
<1>1. RowBound' = RowBound
  BY DEF RowBound
<1> QED BY <1>1, PolledKept

LEMMA QuietPolled ==
    ASSUME Shape, PolledCaches
    PROVE  /\ \A r \in Request :
                /\ \A p \in Route : OutputMiss(r, p) => PolledCaches'
                /\ \A t \in Table : StartWrite(r, t) => PolledCaches'
                /\ Acquire(r) \/ Release(r) => PolledCaches'
                /\ RowMiss(r) \/ BeginWrite(r) \/ Commit(r) \/ Rollback(r) => PolledCaches'
                /\ HookInvalidate(r) \/ HookNotify(r) => PolledCaches'
           /\ (\E q \in Query : ForgetRow(q)) \/ (\E p \in Route : ForgetPage(p)) => PolledCaches'
           /\ ExternalWrite \/ UNCHANGED vars => PolledCaches'
<1>1. ASSUME UNCHANGED <<rows, pages, watcher>>,
             \A s \in Request : Marked(req'[s], req[s]) \/ Newcomer(req'[s])
      PROVE  PolledCaches'
  BY <1>1, MarkingPolled
<1>2. ASSUME NEW r \in Request, NEW pc, Goto(r, pc), UNCHANGED <<rows, pages, watcher>>
      PROVE  PolledCaches'
  BY <1>1, <1>2, GotoMarks
<1>3. ASSUME NEW r \in Request, NEW p \in Route, OutputMiss(r, p) PROVE PolledCaches'
  <2>1. UNCHANGED <<rows, pages, watcher>>
    BY <1>3 DEF OutputMiss
  <2> QED BY <1>1, <1>3, <2>1, StepMarks
<1>4. ASSUME NEW r \in Request, NEW t \in Table, StartWrite(r, t) PROVE PolledCaches'
  <2>1. UNCHANGED <<rows, pages, watcher>>
    BY <1>4 DEF StartWrite
  <2> QED BY <1>1, <1>4, <2>1, StepMarks
<1>5. ASSUME NEW r \in Request, Acquire(r) \/ Release(r) PROVE PolledCaches'
  <2>1. UNCHANGED <<rows, pages, watcher>>
    BY <1>5 DEF Acquire, Release
  <2> QED BY <1>1, <1>5, <2>1, StepMarks
<1>6. ASSUME NEW r \in Request, RowMiss(r) \/ BeginWrite(r) \/ Commit(r) \/ Rollback(r)
      PROVE  PolledCaches'
  <2>1. UNCHANGED <<rows, pages, watcher>>
    BY <1>6 DEF RowMiss, BeginWrite, Commit, Rollback
  <2>2. \E pc \in {"acquire", "hook", "release"} : Goto(r, pc)
    BY <1>6 DEF RowMiss, BeginWrite, Commit, Rollback
  <2> QED BY <1>2, <2>1, <2>2
<1>7. ASSUME NEW r \in Request, HookInvalidate(r) \/ HookNotify(r) PROVE PolledCaches'
  <2>1. /\ DOMAIN rows' \subseteq DOMAIN rows /\ DOMAIN pages' \subseteq DOMAIN pages
        /\ \A q \in DOMAIN rows' : rows'[q] = rows[q]
        /\ \A p \in DOMAIN pages' : pages'[p] = pages[p]
        /\ watcher' = watcher
    BY <1>7 DEF HookInvalidate, HookNotify, Without
  <2> QED BY <1>7, <2>1, StepMarks, MarkingPolled
<1>8. ASSUME req' = req PROVE \A s \in Request : Marked(req'[s], req[s])
  BY <1>8 DEF Marked
<1>9. ASSUME (\E q \in Query : ForgetRow(q)) \/ (\E p \in Route : ForgetPage(p))
      PROVE  PolledCaches'
  <2>1. /\ DOMAIN rows' \subseteq DOMAIN rows /\ DOMAIN pages' \subseteq DOMAIN pages
        /\ \A q \in DOMAIN rows' : rows'[q] = rows[q]
        /\ \A p \in DOMAIN pages' : pages'[p] = pages[p]
        /\ watcher' = watcher /\ req' = req
    BY <1>9 DEF ForgetRow, ForgetPage, Without
  <2> QED BY <1>8, <2>1, MarkingPolled
<1>10. ASSUME ExternalWrite \/ UNCHANGED vars PROVE PolledCaches'
  <2>1. UNCHANGED <<rows, pages, watcher, req>>
    BY <1>10 DEF ExternalWrite, vars
  <2> QED BY <1>1, <1>8, <2>1
<1> QED BY <1>3, <1>4, <1>5, <1>6, <1>7, <1>9, <1>10

(* The poller's own steps. *)
LEMMA PollReadPolled ==
    ASSUME OneConn, Shape, Shape', Polls, PollAcquire \/ PollRead
    PROVE  Polls'
<1>1. UNCHANGED <<rows, pages, req>>
  BY DEF PollAcquire, PollRead
<1>2. watcher \in WatcherState /\ DbTyped /\ DbTyped'
  BY DEF Shape, Typed, WatcherTyped
<1>3. CASE PollAcquire
  <2> DEFINE c == Head(free)
  <2>1. /\ db' = db /\ watcher' = [watcher EXCEPT !.pc = "poll", !.conn = c]
        /\ watcher.pc = "sleep"
    BY <1>3 DEF PollAcquire
  <2> HIDE DEF c
  <2>2. /\ watcher'.pc = "poll" /\ watcher'.lastVer = watcher.lastVer
        /\ watcher'.lastExt = watcher.lastExt /\ watcher'.ext = watcher.ext
        /\ watcher'.base = watcher.base
    BY <1>2, <2>1 DEF WatcherState
  <2>3. RowBound' = RowBound
    BY <2>1, <2>2 DEF RowBound
  <2>4. PollVersions'
    BY <2>1, <2>2 DEF Polls, PollVersions
  <2> QED BY <1>1, <2>2, <2>3, <2>4 DEF Polls, PolledRows, PolledPages, PolledRequests
<1>4. CASE PollRead
  <2> DEFINE c == watcher.conn
             v == db'.dataVersion[c]
             e == db.ext
  <2>1. /\ watcher.pc = "poll" /\ db' = BeginRead(c)
        /\ watcher' = [watcher EXCEPT !.pc = "compare", !.ext = e, !.ver = v]
    BY <1>4 DEF PollRead
  <2>2. c \in Conn
    BY <1>2, <2>1 DEF Shape, Typed, WatcherTyped, WatcherState
  <2>3. /\ db'.ext = db.ext /\ db'.commits = db.commits /\ db'.seen[c] = db.commits
        /\ db'.dataVersion[c] = IF db.seen[c] = db.commits THEN db.dataVersion[c]
                                ELSE db.dataVersion[c] + 1
    <3> HIDE DEF c
    <3> QED BY <1>2, <2>1, <2>2, ReadFacts
  <2>4. v \in Nat /\ e \in Nat
    BY <1>2, <2>2 DEF DbTyped, DbState
  <2>5. /\ Behind(db') /\ Versioned(v, e, db')
        /\ \A w \in Int : \A x : Versioned(w, x, db) => Versioned(w, x, db')
    <3> HIDE DEF c
    <3> QED BY <1>2, <2>2, <2>3, VersionedRead DEF DbTyped
  <2>6. v = db'.dataVersion[c] /\ db'.seen[c] = db'.commits /\ e = db'.ext /\ e = db.ext
    BY <2>3
  <2> HIDE DEF v, e, c
  <2>7. /\ watcher'.pc = "compare" /\ watcher'.lastVer = watcher.lastVer
        /\ watcher'.lastExt = watcher.lastExt /\ watcher'.ext = e /\ watcher'.ver = v
        /\ watcher'.base = watcher.base
    BY <1>2, <2>1 DEF WatcherState
  <2>8. RowBound' = RowBound
    BY <2>1, <2>7 DEF RowBound
  <2>9. /\ watcher.lastVer \in Int /\ watcher.lastExt \in Nat /\ watcher.lastExt <= db.ext
        /\ watcher.lastVer # -1 => Versioned(watcher.lastVer, watcher.lastExt, db)
    BY <1>2 DEF WatcherState, Polls, PollVersions
  <2>10. watcher.lastVer = v => e = watcher.lastExt
    <3> SUFFICES ASSUME watcher.lastVer = v PROVE e = watcher.lastExt
      OBVIOUS
    <3>1. Versioned(v, watcher.lastExt, db')
      BY <2>4, <2>5, <2>9
    <3> QED BY <2>2, <2>6, <3>1 DEF Versioned
  <2>11. PollVersions'
    BY <2>4, <2>5, <2>6, <2>7, <2>9, <2>10 DEF PollVersions
  <2> QED BY <1>1, <2>7, <2>8, <2>11 DEF Polls, PolledRows, PolledPages, PolledRequests
<1> QED BY <1>3, <1>4

(* A poll that finds no change, or the first: the bounds may move, but not  *)
(* past anything cached.                                                    *)
LEMMA PollComparePolled ==
    ASSUME Shape, Shape', Polls, PollCompare \/ PollError
    PROVE  Polls'
<1>1. UNCHANGED <<db, rows, pages, req>> /\ watcher.pc = "compare"
  BY DEF PollCompare, PollError
<1>2. watcher \in WatcherState /\ db.ext \in Nat
  BY DEF Shape, Typed, WatcherTyped, DbTyped, DbState
<1>3. /\ watcher.ext \in Nat /\ watcher.lastExt \in Nat /\ watcher.ver \in Nat
      /\ Versioned(watcher.ver, watcher.ext, db) /\ watcher.ext <= db.ext /\ Behind(db)
      /\ watcher.lastVer = watcher.ver => watcher.ext = watcher.lastExt
  BY <1>1, <1>2 DEF WatcherState, Polls, PollVersions
<1>4. ASSUME watcher'.base = watcher.base, watcher'.lastExt = watcher.lastExt, PollVersions',
             watcher'.pc # "broadcast"
      PROVE  Polls'
  <2>1. RowBound' = RowBound
    BY <1>1, <1>4 DEF RowBound
  <2> QED BY <1>1, <1>4, <2>1 DEF Polls, PolledRows, PolledPages, PolledRequests
<1>5. CASE watcher' = [watcher EXCEPT !.pc = "flush", !.conn = None] /\ watcher.lastVer # -1
  <2>1. /\ watcher'.pc = "flush" /\ watcher'.lastVer = watcher.lastVer /\ watcher'.ver = watcher.ver
        /\ watcher'.lastExt = watcher.lastExt /\ watcher'.ext = watcher.ext
        /\ watcher'.base = watcher.base
    BY <1>2, <1>5 DEF WatcherState
  <2>2. PollVersions'
    BY <1>1, <1>5, <2>1 DEF Polls, PollVersions
  <2> QED BY <1>4, <2>1, <2>2
<1>6. CASE watcher' = [watcher EXCEPT !.pc = "sleep", !.conn = None, !.ver = 0, !.ext = 0]
  <2>1. /\ watcher'.pc = "sleep" /\ watcher'.lastVer = watcher.lastVer
        /\ watcher'.lastExt = watcher.lastExt /\ watcher'.ext = 0
        /\ watcher'.base = watcher.base
    BY <1>2, <1>6 DEF WatcherState
  <2>2. PollVersions'
    BY <1>1, <1>2, <2>1 DEF Polls, PollVersions
  <2> QED BY <1>4, <2>1, <2>2
<1>7. CASE watcher' = Polled(watcher) /\ (watcher.lastVer = -1 \/ watcher.ver = watcher.lastVer)
  <2>1. /\ watcher'.pc = "sleep" /\ watcher'.lastVer = watcher.ver
        /\ watcher'.lastExt = watcher.ext /\ watcher'.ext = 0
        /\ watcher'.base = IF watcher.lastVer = -1 THEN watcher.ext ELSE watcher.base
    BY <1>2, <1>7, PolledState
  <2>2. PollVersions'
    BY <1>1, <1>2, <1>3, <2>1 DEF PollVersions
  <2>3. CASE watcher.lastVer # -1
    BY <1>3, <1>4, <1>7, <2>1, <2>2, <2>3
  <2>4. CASE watcher.lastVer = -1
    <3> DEFINE e == watcher.ext
    <3>1. watcher'.base = e /\ watcher'.lastExt = e /\ RowBound' = e /\ e \in Nat
      BY <1>3, <2>1, <2>4 DEF RowBound
    <3> HIDE DEF e
    <3>2. ASSUME NEW q \in Query, NEW snap \in SnapOf(q) PROVE NotOld(snap, q, e, e)
      BY <3>1, <3>2 DEF NotOld, SnapOf
    <3>3. ASSUME NEW q \in Query, NEW f \in FillOf(q) PROVE PolledFill(f, q, e, e)
      BY <3>2, FillFields DEF PolledFill
    <3>4. PolledRows'
      BY <1>1, <3>1, <3>3 DEF PolledRows, Shape, Typed, RowsTyped
    <3>5. PolledPages'
      <4> SUFFICES ASSUME NEW p \in DOMAIN pages PROVE PolledPage(pages[p], p, e, e)
        BY <1>1, <3>1 DEF PolledPages
      <4> QED BY <3>2, HolesSeq DEF PolledPage, Shape, Typed, PagesTyped, PageOf
    <3>6. PolledRequests'
      <4> SUFFICES ASSUME NEW r \in Request PROVE PolledRequest(req[r], e, e, e)
        BY <1>1, <3>1 DEF PolledRequests
      <4> DEFINE x == req[r]
      <4>1. x \in ReqState /\ Coherent(x)
        BY Here
      <4> HIDE DEF x
      <4>2. ASSUME x.row # None PROVE PolledFill(x.row, HolesOf[x.route][Len(x.got) + 1], e, e)
        <5>1. x.route \in Route /\ x.pc # "output"
          BY <4>1, <4>2 DEF Coherent
        <5>2. x.row \in FillOf(HolesOf[x.route][Len(x.got) + 1])
          BY <4>1, <4>2, <5>1 DEF Coherent, Renders
        <5> QED BY <3>3, <4>1, <5>1, <5>2, HoleInQuery
      <4>3. ASSUME x.route \in Route, NEW i \in DOMAIN x.got
            PROVE  PolledFill(x.got[i], HolesOf[x.route][i], e, e)
        <5>1. x.got[i] \in FillOf(HolesOf[x.route][i]) /\ HolesOf[x.route][i] \in Query
          BY <4>1, <4>3, HolesSeq DEF Coherent, Renders, ReqState
        <5> QED BY <3>3, <5>1
      <4> QED BY <4>2, <4>3 DEF PolledRequest, x
    <3> QED BY <2>2, <3>4, <3>5, <3>6 DEF Polls
  <2> QED BY <2>3, <2>4
<1> QED BY <1>5, <1>6, <1>7 DEF PollCompare, PollError

(* A poll that finds a change: what is older than it goes, rows first. *)
LEMMA PollFlushPolled ==
    ASSUME Shape, Shape', Polls, PollFlush
    PROVE  Polls'
<1>1. /\ rows' = NoFcn /\ req' = RaceFills(req, Table) /\ watcher.pc = "flush"
      /\ watcher' = [watcher EXCEPT !.pc = "broadcast"] /\ UNCHANGED <<db, free, pages>>
  BY DEF PollFlush
<1>2. watcher \in WatcherState /\ req \in [Request -> ReqState] /\ \A r \in Request : Coherent(req[r])
  BY DEF Shape, Typed, WatcherTyped, RequestsTyped
<1>3. /\ watcher'.pc = "broadcast" /\ watcher'.lastVer = watcher.lastVer
      /\ watcher'.ver = watcher.ver /\ watcher'.lastExt = watcher.lastExt
      /\ watcher'.ext = watcher.ext /\ watcher'.base = watcher.base
  BY <1>1, <1>2 DEF WatcherState
<1>4. PollVersions'
  BY <1>1, <1>3 DEF Polls, PollVersions
<1>5. PolledRows' /\ PolledPages'
  <2>1. DOMAIN rows' = {}
    BY <1>1 DEF NoFcn
  <2> QED BY <1>1, <1>3, <2>1 DEF PolledRows, Polls, PolledPages
<1>6. PolledRequests'
  <2> SUFFICES ASSUME NEW r \in Request
               PROVE  PolledRequest(req'[r], watcher'.base, RowBound', watcher'.lastExt)
    BY DEF PolledRequests
  <2> DEFINE x == req[r]
             y == req'[r]
             q == HolesOf[x.route][Len(x.got) + 1]
  <2>1. /\ SameControl(y, x) /\ y.notified = x.notified
        /\ x.row = None => y.row = None
        /\ x.row # None /\ ReadsOf[q] \cap Table # {} => y.row.raced
    BY <1>1, <1>2, RaceFillsFacts
  <2>2. PolledRequest(x, watcher.base, RowBound, watcher.lastExt)
    BY DEF Polls, PolledRequests
  <2>3. x \in ReqState /\ Coherent(x)
    BY Here
  <2> HIDE DEF x, y
  <2>4. ASSUME y.row # None
        PROVE  PolledFill(y.row, HolesOf[y.route][Len(y.got) + 1], watcher'.base, RowBound')
    <3>1. x.row # None /\ q \in Query
      BY <2>1, <2>3, <2>4, HoleInQuery DEF Coherent
    <3>2. ReadsOf[q] = {} \/ y.row.raced
      BY <2>1, <3>1, FastDBAssumption
    <3>3. PolledFill(y.row, q, watcher'.base, RowBound')
      BY <3>2 DEF PolledFill, NotOld
    <3> QED BY <2>1, <3>3 DEF SameControl
  <2>5. ASSUME y.route \in Route, ~y.notified, NEW i \in DOMAIN y.got
        PROVE  PolledFill(y.got[i], HolesOf[y.route][i], watcher'.base, watcher'.lastExt)
    BY <1>3, <2>1, <2>2, <2>5 DEF PolledRequest, SameControl
  <2> QED BY <2>4, <2>5 DEF PolledRequest, y
<1> QED BY <1>4, <1>5, <1>6 DEF Polls

LEMMA PollBroadcastPolled ==
    ASSUME Shape, Shape', Polls, PollBroadcast
    PROVE  Polls'
<1>1. /\ pages' = NoFcn /\ req' = RacePages(req, Table) /\ watcher.pc = "broadcast"
      /\ watcher' = Polled(watcher) /\ UNCHANGED <<db, free, rows>>
  BY DEF PollBroadcast
<1>2. watcher \in WatcherState /\ req \in [Request -> ReqState] /\ \A r \in Request : Coherent(req[r])
  BY DEF Shape, Typed, WatcherTyped, RequestsTyped
<1>3. /\ watcher'.pc = "sleep" /\ watcher'.lastVer = watcher.ver
      /\ watcher'.lastExt = watcher.ext /\ watcher'.ext = 0 /\ watcher'.base = watcher.base
  BY <1>1, <1>2, PolledState DEF Polls, PollVersions
<1>4. RowBound' = watcher.ext /\ RowBound = watcher.ext
  BY <1>1, <1>3 DEF RowBound
<1>5. PollVersions'
  <2>1. db.ext \in Nat
    BY DEF Shape, Typed, DbTyped, DbState
  <2> QED BY <1>1, <1>3, <2>1 DEF Polls, PollVersions
<1>6. PolledRows' /\ PolledPages'
  <2>1. DOMAIN pages' = {}
    BY <1>1 DEF NoFcn
  <2>2. PolledRows'
    BY <1>1, <1>3, <1>4 DEF Polls, PolledRows
  <2> QED BY <2>1, <2>2 DEF PolledPages
<1>7. PolledRequests'
  <2> SUFFICES ASSUME NEW r \in Request
               PROVE  PolledRequest(req'[r], watcher'.base, RowBound', watcher'.lastExt)
    BY DEF PolledRequests
  <2> DEFINE x == req[r]
             y == req'[r]
  <2>1. /\ SameControl(y, x) /\ y.row = x.row
        /\ x.route \in Route /\ ~y.notified =>
             \A i \in DOMAIN x.got : ReadsOf[HolesOf[x.route][i]] \cap Table = {}
    BY <1>1, <1>2, RacePagesFacts
  <2>2. PolledRequest(x, watcher.base, RowBound, watcher.lastExt)
    BY DEF Polls, PolledRequests
  <2>3. x \in ReqState /\ Coherent(x)
    BY Here
  <2> HIDE DEF x, y
  <2>4. ASSUME y.row # None
        PROVE  PolledFill(y.row, HolesOf[y.route][Len(y.got) + 1], watcher'.base, RowBound')
    BY <1>3, <1>4, <2>1, <2>2, <2>4 DEF PolledRequest, SameControl
  <2>5. ASSUME y.route \in Route, ~y.notified, NEW i \in DOMAIN y.got
        PROVE  PolledFill(y.got[i], HolesOf[y.route][i], watcher'.base, watcher'.lastExt)
    <3>1. x.route \in Route /\ i \in DOMAIN x.got
      BY <2>1, <2>5 DEF SameControl
    <3>2. HolesOf[x.route][i] \in Query
      BY <2>3, <3>1, HolesSeq DEF Coherent, Renders, ReqState
    <3>3. ReadsOf[HolesOf[x.route][i]] = {}
      BY <2>1, <2>5, <3>1, <3>2, FastDBAssumption
    <3> QED BY <2>1, <3>3 DEF PolledFill, NotOld, SameControl
  <2> QED BY <2>4, <2>5 DEF PolledRequest, y
<1> QED BY <1>5, <1>6, <1>7 DEF Polls

LEMMA InitPolls == NewPool => Polls
<1> SUFFICES ASSUME NewPool PROVE Polls
  OBVIOUS
<1>1. \A r \in Request : Newcomer(req[r])
  BY DEF NewPool, Idle, Newcomer
<1>2. PolledRequests
  BY <1>1, NewcomerPolled DEF PolledRequests
<1>3. PolledRows /\ PolledPages
  BY DEF NewPool, NoFcn, PolledRows, PolledPages
<1>4. PollVersions
  <2>1. /\ watcher.pc = "sleep" /\ watcher.lastVer = -1 /\ watcher.lastExt = 0 /\ watcher.ext = 0
        /\ db.ext = 0 /\ db.commits = 0 /\ \A c \in Conn : db.seen[c] = 0
    BY DEF NewPool
  <2> QED BY <2>1 DEF PollVersions, Behind
<1> QED BY <1>2, <1>3, <1>4 DEF Polls

LEMMA NextPolls == OneConn /\ Shape /\ Shape' /\ Polls /\ [Next]_vars => Polls'
<1> SUFFICES ASSUME OneConn, Shape, Shape', Polls, [Next]_vars PROVE Polls'
  OBVIOUS
<1>1. PollVersions /\ PolledCaches
  BY DEF Polls, PolledCaches
<1>2. ASSUME PollVersions', PolledCaches' PROVE Polls'
  BY <1>2 DEF Polls, PolledCaches
<1>3. ASSUME UNCHANGED <<db, watcher>> PROVE PollVersions'
  BY <1>1, <1>3 DEF PollVersions
<1>4. ASSUME NEW r \in Request, NEW p \in Route, OutputMiss(r, p) PROVE Polls'
  <2>1. UNCHANGED <<db, watcher>>
    BY <1>4 DEF OutputMiss
  <2> QED BY <1>1, <1>2, <1>3, <1>4, <2>1, QuietPolled
<1>5. ASSUME NEW r \in Request, NEW t \in Table, StartWrite(r, t) PROVE Polls'
  <2>1. UNCHANGED <<db, watcher>>
    BY <1>5 DEF StartWrite
  <2> QED BY <1>1, <1>2, <1>3, <1>5, <2>1, QuietPolled
<1>6. ASSUME NEW r \in Request, Acquire(r) PROVE Polls'
  <2>1. UNCHANGED <<db, watcher>>
    BY <1>6 DEF Acquire
  <2> QED BY <1>1, <1>2, <1>3, <1>6, <2>1, QuietPolled
<1>7. ASSUME NEW r \in Request, RowHit(r) \/ RowPut(r) \/ OutputPut(r) PROVE Polls'
  <2>1. UNCHANGED <<db, watcher>>
    BY <1>7 DEF RowHit, RowPut, OutputPut
  <2> QED BY <1>1, <1>2, <1>3, <1>7, <2>1, RowHitPolled, RowPutPolled, OutputPutPolled
<1>8. ASSUME NEW r \in Request,
             RowMiss(r) \/ Release(r) \/ HookInvalidate(r) \/ HookNotify(r)
      PROVE  Polls'
  <2>1. UNCHANGED <<db, watcher>>
    BY <1>8 DEF RowMiss, Release, HookInvalidate, HookNotify
  <2> QED BY <1>1, <1>2, <1>3, <1>8, <2>1, QuietPolled
<1>9. ASSUME NEW r \in Request, Read(r) \/ BeginWrite(r) PROVE Polls'
  BY <1>1, <1>2, <1>9, ReadVersions, ReadPolled, QuietPolled
<1>10. ASSUME NEW r \in Request, Commit(r) \/ Rollback(r) PROVE Polls'
  <2>1. watcher' = watcher
    BY <1>10 DEF Commit, Rollback
  <2> QED BY <1>1, <1>2, <1>10, <2>1, WriteVersions, QuietPolled
<1>11. ASSUME ExternalWrite PROVE Polls'
  <2>1. watcher' = watcher
    BY <1>11 DEF ExternalWrite
  <2> QED BY <1>1, <1>2, <1>11, <2>1, WriteVersions, QuietPolled
<1>12. ASSUME (\E q \in Query : ForgetRow(q)) \/ (\E p \in Route : ForgetPage(p)) \/ UNCHANGED vars
       PROVE  Polls'
  <2>1. UNCHANGED <<db, watcher>>
    BY <1>12 DEF ForgetRow, ForgetPage, vars
  <2> QED BY <1>1, <1>2, <1>3, <1>12, <2>1, QuietPolled
<1>13. ASSUME NEW r \in Request, RequestStep(r) PROVE Polls'
  BY <1>7, <1>8, <1>9, <1>10, <1>13 DEF RequestStep
<1>14. ASSUME PollAcquire \/ WatcherStep PROVE Polls'
  BY <1>14, PollReadPolled, PollComparePolled, PollFlushPolled, PollBroadcastPolled
  DEF WatcherStep
<1> QED BY <1>4, <1>5, <1>6, <1>11, <1>12, <1>13, <1>14 DEF Next

(* With one connection, once a poll that saw an external write is done, no  *)
(* row and no page still shows what was read before the write, unless its   *)
(* fill or rendering overlapped the flush.  With more connections the polls *)
(* compare the data_version of different connections and this is false.     *)
THEOREM PollCorrect == ASSUME OneConn PROVE Spec => []PollDropsOlder
<1>1. Polls /\ Shape => PollDropsOlder
  <2> SUFFICES ASSUME Polls, Shape PROVE PollDropsOlder
    OBVIOUS
  <2> DEFINE Old(snap) == /\ DOMAIN snap.pool # {}
                          /\ watcher.base <= snap.ext /\ snap.ext < watcher.lastExt
  <2>1. ASSUME NEW q \in Query, NEW snap \in SnapOf(q), NEW e \in Nat, watcher.lastExt <= e,
               NotOld(snap, q, watcher.base, e)
        PROVE  ~Old(snap)
    <3>1. DOMAIN snap.pool = ReadsOf[q] /\ snap.ext \in Nat
      BY DEF SnapOf
    <3>2. watcher.lastExt \in Nat /\ watcher.base \in Nat
      BY Bounds DEF Polls
    <3> QED BY <2>1, <3>1, <3>2 DEF NotOld
  <2>2. RowBound \in Nat /\ watcher.lastExt <= RowBound /\ watcher.lastExt \in Nat
    BY Bounds DEF Polls
  <2> HIDE DEF Old
  <2>3. \A q \in DOMAIN rows : Old(rows[q].snap) => rows[q].raced
    <3> SUFFICES ASSUME NEW q \in DOMAIN rows, ~rows[q].raced PROVE ~Old(rows[q].snap)
      OBVIOUS
    <3>1. q \in Query /\ rows[q].snap \in SnapOf(q)
      BY FillFields DEF Shape, Typed, RowsTyped
    <3>2. NotOld(rows[q].snap, q, watcher.base, RowBound)
      BY DEF Polls, PolledRows, PolledFill
    <3> QED BY <2>1, <2>2, <3>1, <3>2
  <2>4. \A p \in DOMAIN pages :
          (\E i \in DOMAIN pages[p].snaps : Old(pages[p].snaps[i])) => pages[p].raced
    <3> SUFFICES ASSUME NEW p \in DOMAIN pages, NEW i \in DOMAIN pages[p].snaps, ~pages[p].raced
                 PROVE  ~Old(pages[p].snaps[i])
      OBVIOUS
    <3>1. /\ i \in DOMAIN HolesOf[p] /\ HolesOf[p][i] \in Query
          /\ pages[p].snaps[i] \in SnapOf(HolesOf[p][i])
      BY HolesSeq DEF Shape, Typed, PagesTyped, PageOf
    <3>2. NotOld(pages[p].snaps[i], HolesOf[p][i], watcher.base, watcher.lastExt)
      BY <3>1 DEF Polls, PolledPages, PolledPage
    <3>3. watcher.lastExt <= watcher.lastExt
      BY <2>2
    <3> QED BY <2>1, <2>2, <3>1, <3>2, <3>3
  <2> QED BY <2>3, <2>4 DEF PollDropsOlder, Old
<1>2. OneConn
  OBVIOUS
<1> QED BY <1>1, <1>2, InitPolls, NextPolls, SpecShape, PTL DEF Spec

=============================================================================
