# A TLA+ development of the gogogo web engine

The repository is a Go web engine: a build step compiles sites into binary
manifests, and a server answers requests from them. Pages may have *holes*,
places filled at request time by SQL whose results are rendered through a
template. The engine's own difficulty is in keeping what it serves for holes both
cached and current, in replacing everything it serves without stopping, in
getting from source trees to the right bytes for a URL, and in an HTTP/1.1 server
of its own. These are what is modelled.

## Inventory

| part | source | state | operations |
|---|---|---|---|
| row cache | `modules/fastdb/cache.go` | entries by SQL hash, reverse index table → keys, intrusive LRU list, byte counter, per-table write rate | `Get`, `Put`, `invalidateTable`, `FlushAll` |
| pool and query path | `modules/fastdb/fastdb.go` | channel of connections, prepared statements per connection | `NewPool`, `QueryEach`, `queryDirect`, `Close` |
| update hook, data_version watcher | `modules/fastdb/invalidate.go` | hook registry; the poller's last version | trampoline, `run`, `extractTables` |
| subscriptions | `modules/fastdb/subscribe.go` | copy-on-write list | `Subscribe`, `Close`, `notifySubscribers` |
| output cache | `cmd/main/output_cache.go` | pages by (manifest, offset, bindings hash), same structures as the row cache | `Get`, `Put`, `Invalidate`, `composeHoleBodyCached` |
| hole rendering | `cmd/main/holes.go` | parsed holes, buffers | `composeHoleBody` |
| server state, hot reload | `cmd/main/main.go` | `state` pointer, registry, subscription | `loadState`, SIGHUP goroutine, `serve` |
| request dispatch | `cmd/main/main.go` | hosts → sites, tries, middleware chains | `buildHandler`, `serve`, `pickVariant` |
| HTTP server | `modules/gogohttp` | per-connection buffer (pooled), active registry, WaitGroup | `Serve`, `serveConn`, `serveOne`, parser, response modes, `Shutdown` |
| file serving | `cmd/main/files.go` | open files | `serveFile`, `parseByteRange`, `registerFileMime` |
| router | `modules/router`, `cmd/build/v2_compiler.go` | trie, manifest tables | `Compile`, `Write`, `Load`, `Insert`, `Match` |
| build | `cmd/build` | source walk, aliases, worker pool, build cache, manifest, debounce timers | `build`, `Submit`, `Wait`, `Save`, watch mode |
| rest | actions, studio, `modules/db`, metrics, profiler, config, tools | – | see `PROJECT.json` |

How they interact. `cmd/build` walks a source tree, hands changed files to
workers, compiles the manifest of each site from its build cache and renames it
into place; large files go to `dist/`. The server loads all manifests into one
state with one header registry. A request goroutine (`serveOne`) parses a request
out of its connection's buffer, loads the header registry, then the application
state, finds site, route and middleware, and answers from the mapped manifest,
from a file, through an action, or, for a hole page, through the output cache; on
a miss there it evaluates the holes in order through `QueryEach`, which asks the
row cache and on a miss borrows a connection. A write statement in a hole runs on
a pool connection; inside its `sqlite3_step`, before the commit, SQLite calls the
update hook, which drops rows and then notifies the subscribed output caches.
Writes from `modules/db`, the shell or other processes raise no hook; a goroutine
polls `PRAGMA data_version` once a second and flushes everything when it changes.
SIGHUP makes another goroutine build a new state (with an output cache of its
own, subscribed before it is published), swap it in, replace the registry and
close the old subscription.

What is hard: fills that overlap writes; polling a per-connection counter on
arbitrary connections; two loads against two stores during a reload; row maps
shared between goroutines; three linked structures and a counter kept in step
under caps; requests cut anywhere by the network, over a buffer that other
connections have used; replies that fail half way; offsets, head ids and
middleware names laid out by one program and read back by another; files edited
while they are built, served while they are rewritten; a build that dies between
two writes. The `hazards` of `PROJECT.json` list them at their lines.

What makes each part correct: the caches answer only with what was last stored
under the very same query or page and not invalidated since, stay within their
caps, and keep index, list and counter exact; the pool neither loses nor doubles
a connection and every request ends; a cached row or page lags behind the
database only in windows that can be named; a reload neither serves older data
nor leaves a served state's subscription behind, and the last SIGHUP wins; a page
shows the bindings of its own URL; a reply is what the best fitting page or action
of the host's site asks for, behind its middleware; handlers see requests as sent,
replies can be told apart, and Shutdown drains; an incremental build skips only
what is current, and the watcher catches up.

## Modules

* `Recency`, `LruList`. `LruList` is the pointer code of
  `pushFrontLocked`, `moveToFrontLocked` and `removeLocked`, with the order of
  the list as a history variable `behind` (`behind[k]`: the keys nearer the
  tail). `PointersMatch` says that the pointers are that order; the caches then
  use the order (`Recency`) instead of pointers.
* `TaggedLru`. The structure both caches have: entries, reverse index, order,
  byte counter; one operator per helper or per critical section.
* `TaggedStore`. The abstract specification: a store that may forget or refuse,
  whose hits are the value last stored under that name, and in which nothing
  tagged with a table survives the table's invalidation.
* `RowCache`, `OutputCache`, with `MC…` modules and `…Proofs`. One action per
  method. `RowCache` has the clock, read up to `MaxLag` ticks before the mutex is
  taken, and the write-rate bypass. Both are shown to implement `TaggedStore`.
* `FastDB`, `FastDBProofs`. Requests, pool, hook, poller and an external SQLite, with both
  caches as tagged stores (a partial function, `ForgetRow`/`ForgetPage` for
  eviction and bypass). Each request is a program counter over the steps of
  `composeHoleBodyCached` / `QueryEach` / `queryDirect`; data are version
  numbers: a snapshot records how many pool writes of each table and how many
  external writes it reflects. `raced` and `notified` are history: they mark a
  fill or a page whose reading overlapped an invalidation. `FiledUnder` gives the
  tables a query is filed under, which need not be the ones it reads.
* `ExtractTables`. The FROM/JOIN scanner over tokens, and a grammar of statements
  (joins, quoted names, subqueries, WITH clauses) with the tables they read.
  `TablesAttributed`: a statement is filed under every table it reads, or under
  none and then no cache takes it. It is a statement about constants, so `MCFastDB`
  assumes it (`ScannerSound`) and TLC evaluates it over all 1204 statements, together
  with `FiledByScanner`, which ties `FiledUnder` of the FastDB runs to the scanner.
* `Reload`, `AppStateProofs`. The reload goroutine, the two loads of a request, and a write that
  reads the subscription list once and then calls each subscriber. A state is a
  generation with its own registry, subscription and (one-page) output cache;
  `abandoned` (history) are the generations whose load failed after `Subscribe`.
* `HoleRender`. The `_params` key written into and deleted from row maps that
  are private during a fill and shared afterwards. The data race is modelled as
  either outcome of the Go runtime: the steps interleave, or the process stops.
* `Trie`, `Manifest`, `Site`, `MCSite`, `AppStateProofs`. `Trie` is `Insert` and the backtracking
  `walk` over sequences of segments; `Manifest` is `V2Compiler` and `Load`, with
  sections as sequences and offsets into them; `Site` composes them with
  `loadState` (one registry for all sites, head remapping, hosts, middleware
  chains) and `serve`. Its actions are builds of each site (any order of its
  results; a write may be cut short or lose its end, since write errors are
  ignored), the studio's manifest, `Reload` and `Serve`. The properties say what a
  reply must be in terms of the pages alone, without offsets, tables or a trie.
  The loops of the code are folds, each over a named operator for one turn
  (`Descend`, `claim`, `InsertRoute`, `remapNext`), and `walk` is a function of how many
  pieces of the path are left, whose values are functions of node and captures; that
  is what the proofs hold on to. The specification is `SiteSpec` over `files` (the
  manifest files), `st` (the published state), `reply` and `builds`.
* `HttpConn`, `MCHttpConn`, `HttpConnProofs`. One program counter per connection over `serveConn`
  and `serveOne`; requests are cells (the first cell of a line holds its meaning,
  then padding and the line end), a read delivers any part of what is outstanding
  or fails, and buffers go through the pool. Responses are buffered, streamed in
  chunks, or hijacked; handlers may panic. Shutdown is the listener's end and the
  WaitGroup.
* `BuildPipeline`, `MCBuildPipeline`, `BuildPipelineProofs`. Walk, aliases, workers with a bounded channel,
  `Wait`, the manifest and cache writes, watch mode with its debounce map; edits and
  the death of the process at any step. A file's version stands for its content and
  its time; a cache entry has the time the walk saw and the version the worker read.
  `UrlsFollowAliases` is about builds nobody edited under, told by the number of edits
  (`opts.edits`): a page removed and put back leaves the tree as it was at the start
  but not the aliases the walk collected in between.
* `FileServe`, `MCFileServe`, `FileServeProofs`. `serveFile` from the opening of the file to the end of
  the copy, byte by byte (a byte is the build that wrote it and its position),
  against a build that truncates and rewrites the file and a reload that swaps state
  and registry in two steps.

Operators called mutants in the comments are deliberate variations of a
definition (a dropped guard, a missing reset); replacing the definition by its
mutant makes the named property fail, which shows that the property depends on
that code. No specification uses them.

SQLite is external and modelled from how the code uses it: WAL readers see the
last commit, one writer at a time, `BUSY` at once (no busy timeout is set), a
statement may roll back after its hook has fired, and a connection's
`data_version` grows when it starts a read after a commit by another connection.

## Runs

| run | instance | question | result |
|---|---|---|---|
| `row_cache` | caps of 2 entries and 3 bytes, 4 queries (2 colliding), results of 1, 2 and 4 bytes (one larger than the budget), 4 ticks, cooldown longer than the window | are index, byte counter, caps and bypass right, and does it implement `TaggedStore`? | holds |
| `output_cache` | 5 routes: one table, two tables, none, unattributable; pages of 0, 2 and 6 bytes | the same for pages | holds |
| `lru_list` | 4 nodes, every sequence | do the pointers form the recency order, and is the oldest evicted? | holds |
| `fastdb_pool` | 2 requests, 2 connections, a page of two holes and one no cache takes, writes of up to two rows | are connections conserved; is a row or page stale only if its fill overlapped a write? | holds |
| `fastdb_poll` | 1 connection, 2 requests and the poller, two external writes, one pool write | does a poll drop what is older than a write it saw; does every request end? | holds |
| `fastdb_fill_race` | 2 requests, 2 connections, one write | is a write reflected in the row cache when it returns? | violated |
| `reload` | 2 requests, 1 write, up to 2 reloads, a good or bad deployment, signals at any time | is data as fresh as without reloads; is the registry never ahead; which subscriptions are open; is the last SIGHUP served? | holds |
| `hole_render` | 2 requests, 2 bindings and none, 2 rows, 2 fills, template errors | whose bindings are in the cache and on the page? | holds |
| `site` | 2 sites and the studio, 8 and 2 contents (parameters, catch-all, colliding and unroutable URLs, empty and disk files, holes), 3 builds, 2 kinds of damaged write, 56 requests | is every reply what the site's content asks for, every action guarded, and does only a bad manifest fail to load? | holds |
| `http_conn` | one client with 24 request sequences (pipelined, at and over each limit, bad framing, streams, hijack), one with bodies up to the limit | what is handled, refused and written; how far do buffers grow; does Shutdown drain and return? | holds |
| `build` | a page, a page below it and a stylesheet; 2 edits, 2 runs (batch, forced, targeted, or watch), 2 workers, channel of 1 | what may an incremental build skip; does the manifest hold the tree under its URLs; do builds end and does the watcher catch up? | holds |
| `file_serve` | files of 1 or 3 bytes, one rewrite, 29 Range headers, chunks of 2 bytes, one reload | is a clean reply exact, the range as asked, the file released, the head fitting? | holds |

The violated one states what the repository says; `findings` quotes it.
`RowFreshUnlessRaced` and `PageFreshUnlessRaced` show that the overlap of a fill
with a write is the *only* way a pool write is missed.

Type invariants (`TypeOK`) say the shape of the state. That of `RowCache` is
checked; those of `LruList`, `RowCache`, `OutputCache`, `HoleRender`, `FastDB` and
`Reload` are proved. `LruList` and `HoleRender` have names of their own for it and for
their specification (`ListSpec`, `RenderSpec`), because their proofs stand in one module
with those of the caches.

Why the bounds are enough. The caches need two entries at the cap and one more
to evict, a collision, and one tick more than the cooldown; the byte budget is
met exactly, exceeded by a sum and exceeded by one entry. A stale fill needs one
reader, one writer and two connections, a poll that must flush twice two external
writes, the doubled hook two rows. A reload problem needs one reload around one
write and two requests that still hold the old state, one filling its page and one
hitting it; two reloads let generations differ by two. Requests start again when
they end, so two goroutines stand for any number of successive requests. In `site`
three builds let both sites and the studio be there, or one be rebuilt and
reloaded; the contents hold every pair of precedences (literal, parameter,
catch-all) and every way to clash. In `http_conn` every limit is met exactly and
passed by one, and the second connection can take over the buffer the first one
grew. A build problem needs one edit while a file is being built and one more run;
two edits let the second fall into any window of the first. A range is
determined by its two ends relative to the file's; three bytes have a first, a
middle and a last. Symmetry is used only in runs without temporal properties.

Deadlock is not checked where a behaviour may really end: `hole_render` (the bound
on fills, or the stopped process), `site` (the bound on builds with nothing to
reload or serve), `http_conn` (the process exits), `build` (runs and edits are
used up) and `file_serve` (one request).

Fairness. A goroutine that can run does run (weak fairness of each request's and
the poller's steps, of the reload goroutine, of the build's main goroutine, its
workers and the watcher). Receivers blocked on a Go channel are queued first come
first served, so a request waiting for a connection gets one: strong fairness of
`Acquire` and `PollAcquire`. In `HttpConn` some connection or `main` makes a step
again and again while any can (`Busy` spells out when; that is weak fairness of
`Step`): reads and buffered writes have deadlines, and every connection's part is
finite, so this is enough. Stream and hijack closures are taken to return, though
the code gives their writes no deadline. Nothing makes clients, requests, signals,
writes, edits or deployments happen. `Site`, `HoleRender`, `FileServe` and the
caches state no liveness.

## What the models show besides

These are behaviours of the code that the properties name as exceptions, or that
came up in translating it, and that have no run of their own.

* Database. `data_version` is a per-connection counter, polled on any connection
  (`invalidate.go:298`; the comment at 237-238 promises about a second): with
  several connections a flush can be skipped, and pool writes can cause flushes
  that nobody outside asked for. An external write between a fill and the first
  poll is taken for the baseline (`PollDropsOlder` excepts it through
  `watcher.base`). A bypass ends on time alone, while `cache.go:36-39` has it
  last until the rate is low. `extractTables` overlooks comma joins and comments
  after FROM, takes the schema of a qualified name for the table, and compares
  names in the case they are written in.
* Reload. State and registry are swapped one after the other (`main.go:174`; the
  comment at 163 says atomically), so a request may have an old registry with a
  new state, never the reverse (`RegistryNeverAhead`). `loadState` leaves its
  subscription open when it fails at `main.go:361`; `SubscriptionsAccounted` says
  that this is the only leak.
* Holes. Rows in the cache are shared, so a page may show the `_params` of another
  request that writes them at the same time (`holes.go:200`); a request that fills
  the row itself shows its own (`OwnFillShowsOwnParams`).
* HTTP. A request line of exactly the maximum is refused if a read ends between its
  CR and LF. The buffer's growth for a body is not clamped, so pooled buffers may
  exceed `MaxReadBuf` (by less than a factor of two). The idle timeout never
  applies. A panic inside a stream writes a 500 into the chunked body. A connection
  accepted but not yet counted by the WaitGroup is cut off by Shutdown.
* Manifest. What `f.Write` returns is ignored (`v2_compiler.go:196-211`): after a
  full disk a page may be served with the bytes of the next section. Patterns that
  clash are found only by `Load`, and of two pages with one URL the first in map
  order wins. An empty static file keeps the manifest's own head id.
* Build. The pool is sized before the configured concurrency is clamped: with no
  workers the build waits for ever. Deleted sources stay in cache and manifest;
  watch mode writes neither, under keys that differ from a build's; the dependency
  graph is never filled; an alias that changes does not rebuild the pages below
  it without `-force`; `-target` of a nested directory drops the aliases above it;
  new directories are not watched; a file with an older time is never rebuilt. Two
  workers may hold the same file and the older result be stored last.
* Files. After a range that does not parse the file is closed and then streamed: a
  200 head and a cut body, where the comment at `files.go:126-127` has the whole
  file. Of several ranges the first is honoured, though the comment says 200. A
  suffix range of a file just truncated is answered with `0--1/0`. When the head
  cannot be written the file is left to the garbage collector.

## Proofs

Checked by TLAPS for all values of the constants, under the named assumptions
(`CapsAssumption`: both caps positive; `RowCacheAssumption`,
`OutputCacheAssumption`: the constants are functions of the right shape, hashes
arbitrary; `NilAssumption`).

* `TaggedLruProofs`, the list. For `ListIsRecencyOrder` `ListTypeOK /\ PointersMatch` is
  inductive as it stands.
  Each operation is split into what it does to the order, to the two ends and to
  the links. `EvictionIsLru` follows from the invariant: `tail` is behind
  every other node.
* `TaggedLruProofs`, the storage: it proves once what both caches use: removal, insertion,
  promotion, `Put` (with eviction) and invalidation keep a well-formed cache
  well formed (`WellFormed`) and its byte counter the sum of its entries' sizes
  (`Accounted`). `BytesOf` is a fold over a set; what is needed of it (it is
  additive) is an induction on the set. That induction is written as "take a smallest
  subset for which the statement fails", from the library's theorem that strict
  inclusion of finite sets is well founded: the induction theorems proper cannot be
  applied by the provers.
* `RowCacheProofs`. The inductive invariant adds to the checked properties that
  `Accounted` (also that the set of entries is finite, which the eviction argument
  counts) and `FiledByQuery`: an entry sits under the hash of its own text with exactly the
  tables of that text. Without the latter the index could be exact and an
  invalidation still miss a query, so both `IndexCorrect` and `Refinement` need
  it. From it follow `TypeCorrect`, `IndexCorrect`,
  `BytesCorrect`, `CapsCorrect`, `BypassCorrect`
  (a `Put` that passes its test with an old clock value passes it with the
  present one too) and `Refinement`.
* `OutputCacheProofs`. For the cached pages the same, with `EntriesFiledByRoute`. For
  the rendering of a page (`HoleRender`) the invariant `RenderInv`: a binding in a row
  map is that of a request between its `SetParams` and its `DeleteParams` on that row
  (`Owned`), whichever fill the map belongs to; the maps of a request's own fill are not
  in the cache and nobody else visits them (`Unshared`), so there the request finds what
  it has set (`SetByOwner`). `RowsLeftClean` follows from the first,
  `OwnParamsShown` needs all three: the clean row of a request *without* bindings too.

* `AppStateProofs`, the reload. The invariant follows the order of the reload goroutine. `Loaded`
  says for each of its steps which generation is being loaded, published or
  detached, `Subscribed` which generations are subscribed then; so the published
  state is subscribed at every moment. `CachesFresh` says that a state not yet
  published has no page, that the published page has every committed write or was
  overlapped by one, and that once the write under way has notified the cache only
  the latter is possible; also that a replaced state's page is fresh enough for the
  requests still holding that state. `RequestsFresh` says the same of the page a
  request has in hand. `RegistryOrder`, `SubscriptionsExact` and `Freshness` follow.
* `AppStateProofs`, what a state answers, for all hosts, contents, route tables and
  requests. The state's part is small: `SiteIInv` says that every manifest on disk is one
  the compiler writes for some order of its content (`Built`), that `st` is what
  `loadState` made of such manifests, and `reply` what `serve` makes of `st`. The
  properties say what those operators compute, so the rest follows the data:
  1. `Compiled`: whatever the order, each entry of the table is that of a claim, its
     paths, blob, middleware names and variants lie where its offsets say (`Describes`,
     `Held`), later entries leave them there (`Grows`), and no claimed URL is without an
     entry. `Write` sorts the table and may cut the payloads (`Sections`).
  2. `TrieOf`: the trie of the first `n` patterns has a node for each beginning of a
     pattern and a route at each leaf; `Insert` takes the next one exactly if it can be
     routed and clashes with none of them. From it `LoadFailsForCause`.
  3. `StateOf`: heads interned later leave earlier ids alone (`Begins`), so each
     manifest of the state is its file's with ids of the one registry (`RemappedTo`);
     a host's site is the last that names it (`HostGetsSite`). With `ServeIs`, the
     branches of `serve`, this gives `ActionsGuarded`.
  4. `Finds`: of the patterns under a node that fit what is left of the path, `walk`
     returns the first, with its captures appended to those it was given, or leaves them
     as they were. It is shown for all nodes at once, from the end of the path
     (`AllFind`); `MatchIsBest` is the root's case.
  5. `ClaimAnswered` puts these together by the kind of the claim: a variant's bytes are
     the claim's under the encoding `Wanted` names unless the payloads were cut short
     (`SliceHolds`), its head is that of its type (`VariantHolds`, `HtmlHead`). From it
     and `HitIsBest` follows `SiteServedAsBuilt`.

  Each fold is read as the function of its intermediate results (`MainRun`,
  `SegmentsRun`, ...), so that a fact about it is a set of numbers which holds 0 and with
  `n` also `n + 1` (`Induction`, from the library's theorem that `<` on the naturals is
  well founded).
* `FastDBProofs`, in layers, each using the ones before it. `Shape` types the state,
  field by field and by program counter (`Coherent`), and says that SQLite's write
  lock is held by a goroutine between its hook and its commit. `ConnsConserved` is
  inductive over it. `Fresh` is the strengthening of the two freshness properties: a
  row whose fill no write overlapped shows the pool's writes *and* reads no table about
  to be committed, one whose hook has run (`Announced`); a page likewise for those
  whose notification is through (`Delivered`); and the same is said of what each
  request has in hand, the results it has collected for a page included. Without the
  first addition a commit, without the second a fill could break the property. `Polls` bounds the `ext` of every snapshot from below by what the
  last finished (rows: the running) poll has seen.
  `PollCorrect` assumes that there is one connection (`OneConn`). This is no
  convenience: with two, `data_version` of one connection is compared with that of
  the other, and TLC refutes `PollDropsOlder` at once when `Conn` has two elements.
* `BuildPipelineProofs`, in layers. `Shape`: what items, workers and caches hold,
  `activeJobs` counts exactly the items queued and in hands, and once `Wait` has
  returned there are none. `Versions`: an entry's time is never later than the version
  whose bytes it has, and neither is ahead of the source;
  `SkippedIsCurrent` follows. `Covered`: a file the walk has passed failed, is in work,
  or is in the cache, no older than at the start; after `Wait` this is
  `ManifestHasTree`. `Located`: the alias map is what the pages declare for the
  directories passed, and every item and entry made by this build has the declared
  URL; it needs that the walk meets a directory before what is below it.
* `FileServeProofs`. `ParseSelects`: `parseByteRange` gives exactly the bytes the
  header selects, for every header and size (this uses no invariant). `Shape` says
  which bytes the file has, in which of four kinds a reply is and how each kind fits
  the request, and where the handle may be open: `RangeCorrect` and
  `HandleReleased` follow. `Copied` ties the offset to what has been sent and each
  byte sent to its position, and to the byte on disk while nobody rewrote it;
  `BodyCorrect` follows. `HeadsSent` says where in a state's table the 200 and the 206
  head of each mime type are (`Located`, kept by `Register`), that a reply's head id is
  one of them, and what a head that was sent must be; `HeadCorrect` follows. The table
  is built by a recursive function over the registered mime types, unfolded with the
  least number for which the statement fails.
* `HttpConnProofs`, three invariants. `Drains`: the WaitGroup's counter is the number
  of connections between `Start` and `Close` (`Drained`). `RepliesInv`: by the place of
  a connection, how its last write left the response, and for a stream that its chunks
  are the last writes (`RepliesStayFramed`). `TrackInv`: what the buffer holds followed
  by what is unread is the client's stream from some request on, and by the place of the
  connection which request that is, what was parsed from it and how much of it is held;
  buffers in use and in the pool are below twice `MaxReadBuf`. From it follow
  `HandlerGetsRequests`, `RefusesWithCause` and `BuffersStayBounded`. It is inductive
  by `ParseVerdict`: on a buffer that begins with what was read of request `r`, `Parse`
  refuses no good `r`, asks for more only while the head is cut, and otherwise returns
  where the head of `r` ends and how long its body is, unless `r` is bad. For this
  `Wire` is laid out cell by cell (`WireOf`, `FlattenLaidOut`) and each turn of the
  header loop is followed along it (`HeaderVerdict`, `LoopEnds`).

Assumptions on constants, besides those above. `NoneAssumption`: `None` is not a
result (a nil result is told apart by the code with an `ok`). `AttributionAssumption`:
a query is filed under all tables it reads or under none; `ExtractTables` checks it
for the statements of its grammar (`ScannerSound`), and where `extractTables`
overlooks a table, freshness is lost. `PipelineConstants`: finitely many workers, at least one;
a walk that passes a file once and a directory before its files, as
`filepath.WalkDir` does. `FileConstants`: the first number of a Range header is not
negative, as it is the text before the first `-`, and a state's mime types and base heads are
finite lists. `HttpConstants`: limits are naturals, `initialReadBuf` is positive and
at most `MaxReadBuf`, and a client that declares one length sends a body of that length,
one that declares none sends no body (what it sends beyond is its next request, for the
server as for the model); its framing may be broken in every other way.
`HashInjective`: URLs of the instance have hashes of their own (64 bits of FNV-1a; two
URLs with one hash are outside the model). `SiteConstants`, `StudioConstants`: the contents of a site are
finite sets of results; only HTML pages have holes, and such a page has bytes around
them; no handler is registered under the ids of static pages and of disk files; the
studio's routes are literal paths, each its own (`studio.Routes` is a table in the
source), because `buildStudioManifest` does not look for collisions as `Compile` does.
TLC evaluates all of them on the instances.

Changes that the proofs asked for. `UrlsFollowAliases` compared trees and not edits
at first, and is false in that form: with four edits TLC shows a page removed after
the walk collected its alias and put back. `PollDropsOlder` now leaves out snapshots
that read no table: no query without tables shows external data. `Trie`, `Manifest` and
`Site` had recursive operators where they now have folds and one recursive function; the
states TLC finds are the same.

Only model-checked, and why.

* Liveness: `RequestsFinish`, `LastSighupServed`, `BuildEnds`, `WatchCatchesUp`,
  `ShutdownReturns`.
* `ExtractTables` is evaluated over its grammar.

## Plan

The modules of the plan are written, and every safety invariant and action property of
the runs is proved for all constants. What is left is to model more: the bindings a page
key stands for (a hit compares only a hash of them), and the actions' handlers.

## Not modelled

Metrics, profiler, configuration, compression, the studio's forms, `modules/db`,
benchmarks and command-line tools: no behaviour of the served system depends on
their state. The text processing of templates and directives, minification and the
decoding of SQL columns: functions of their input whose results are the pages and
rows of the models. The byte layout of the manifest beyond its sections, offsets
and counts, `Manifest.Close` (nobody calls it on a reload), the older manifest
formats, statement preparation and `Pool.Close`.
