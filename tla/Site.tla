-------------------------------- MODULE Site --------------------------------
(***************************************************************************)
(* From build results to replies: cmd/build writes the manifest of each     *)
(* configured site and of the studio, cmd/main's loadState loads them all    *)
(* into one appState with one header registry, and appState.serve answers    *)
(* requests from it.  Pages are named by their source, bodies by their cells.*)
(***************************************************************************)
EXTENDS Manifest

CONSTANTS
    SiteHosts,    \* the hosts of each [[site]] entry in order, "*" for default
    Contents,     \* for each site the sets of build results it may have
    Routes,       \* actions.Routes, the same in every site
    StudioBody,   \* the studio's index page
    StudioRoutes, \* studio.Routes
    Handlers,     \* the actions actionTable has a handler for
    Middlewares,  \* the names in actions.MiddlewareRegistry
    Requests,     \* [host, path, method, accept, deny]
    Faults,       \* what may befall a manifest write
    MaxBuilds     \* bound: builds in a behaviour

(* What the builds and the two route tables give the compiler.  Holes are    *)
(* looked for in HTML only, and a page with holes is rendered in a master    *)
(* page, which has bytes of its own; the identifiers of static pages and of  *)
(* disk files are no handler's; the studio's paths are names, each its own.  *)
HTML == "html"
IsResult(r) ==
    /\ r.url \in DOMAIN Hash /\ r.kind \in {"static", "hole", "file", "meta"}
    /\ r.body \in Seq(ToSet(r.body))
    /\ r.kind = "hole" => r.mime = HTML /\ r.body # <<>>
IsRoute(r) ==
    r.url \in DOMAIN Hash /\ r.mw \in Seq(STRING) /\ r.action \notin {"static", "file"}

ASSUME SiteConstants ==
    /\ SiteHosts \in Seq(SUBSET STRING) /\ SiteHosts # <<>> /\ MaxBuilds \in Nat
    /\ \A s \in DOMAIN SiteHosts : \A content \in Contents[s] :
          IsFiniteSet(content) /\ \A r \in content : IsResult(r)
    /\ Routes \in Seq(ToSet(Routes)) /\ \A r \in ToSet(Routes) : IsRoute(r)
    /\ {"static", "file"} \cap Handlers = {}
    /\ \A req \in Requests : req.path \in Seq(STRING) /\ req.path # <<>>
    /\ Faults \subseteq {"none", "short", "lost"}
ASSUME StudioConstants ==
    /\ <<>> \in DOMAIN Hash /\ StudioBody \in Seq(ToSet(StudioBody))
    /\ StudioRoutes \in Seq(ToSet(StudioRoutes)) /\ \A r \in ToSet(StudioRoutes) : IsRoute(r)
    /\ \A i, j \in DOMAIN StudioRoutes : StudioRoutes[i].url = StudioRoutes[j].url => i = j
    /\ \A r \in ToSet(StudioRoutes) :
          r.url # <<>> /\ \A i \in DOMAIN r.url : r.url[i].kind = "lit" /\ r.url[i].text # ""

Studio == Len(SiteHosts) + 1
StudioHost == "studio"
Absent == [kind |-> "absent"]

VARIABLES
    files,   \* the manifest file of each site: [kind, file, content, fault]
    st,      \* the published appState, with the files it was loaded from
    reply,   \* a request of this appState and its reply
    builds
siteVars == <<files, st, reply, builds>>

-----------------------------------------------------------------------------
(* The header registry.  Ids count from 0; id 0 is the unset sentinel, the   *)
(* status heads follow, the application's heads come after them.             *)
StatusHead(code) == [status |-> code, mime |-> "text", enc |-> "identity"]
MimeHead(key) == [status |-> 200, mime |-> key[1], enc |-> key[2]]
FileHead(code, mime) == [status |-> code, mime |-> mime, enc |-> "ranges"]
NoHead == [status |-> 0, mime |-> "", enc |-> ""]
DefaultRegistry == <<NoHead, StatusHead(404), StatusHead(500)>>
HeadID404 == 1
HeadID500 == 2
HeadAt(reg, id) == IF id < Len(reg) THEN reg[id + 1] ELSE NoHead

internAll(reg, heads) == FoldLeft(internMime, reg, heads)
MimeHeads(keys) == [i \in DOMAIN keys |-> MimeHead(keys[i])]
MimeID(reg, key) == IndexOf(reg, MimeHead(key)) - 1

(* The manifest's mime indexes become head ids of the registry built so far, *)
(* in the variants that have bytes.                                          *)
moved(all, mimes, v) ==
    IF v.len > 0 THEN [v EXCEPT !.head = MimeID(all, mimes[v.head + 1])] ELSE v
remapEntry(all, mimes, e) ==
    [e EXCEPT !.variants = [enc \in Encodings |-> moved(all, mimes, e.variants[enc])]]
remap(reg, m) ==
    LET all == internAll(reg, MimeHeads(m.mimes))
    IN  [reg |-> all,
         m |-> [m EXCEPT !.table = [i \in DOMAIN m.table |-> remapEntry(all, m.mimes, m.table[i])]]]

(* mainSite: the first site until one is met that is the default.            *)
nextMain(main, hosts, s) == IF "*" \in hosts[s] \/ main = 0 THEN s ELSE main
mainSite(hosts) == FoldLeftDomain(LAMBDA main, s : nextMain(main, hosts, s), 0, hosts)

(* The manifests in the order they are taken, each remapped into the         *)
(* registry so far.                                                          *)
remapNext(a, loaded, s) ==
    LET r == remap(a.reg, loaded[s])
    IN  [reg |-> r.reg, ms |-> Append(a.ms, r.m)]
remapAll(loaded, n) ==
    FoldLeftDomain(LAMBDA a, s : remapNext(a, loaded, s),
                   [reg |-> DefaultRegistry, ms |-> <<>>], [s \in 1..n |-> s])

(* Heads for the engine's own pages, then for every method set and every     *)
(* type of disk file in the tables.                                          *)
BaseHeads == MimeHeads(<< <<"json", "identity">>, <<HTML, "identity">>, <<"text", "identity">>,
                          <<HTML, "gzip">>, <<HTML, "br">> >>)
allowHeads(m) == [i \in DOMAIN m.table |-> [status |-> 405, allow |-> m.table[i].methods]]
fileHeads(m) ==
    FlattenSeq([i \in DOMAIN m.table |->
        LET mime == m.holeBlobs[m.table[i].hole + 1].mime
        IN  IF m.table[i].action # "file" THEN <<>>
            ELSE <<FileHead(200, mime), FileHead(206, mime)>>])
appRegistry(reg, ms) ==
    internAll(internAll(internAll(reg, BaseHeads),
                        FlattenSeq([s \in DOMAIN ms |-> allowHeads(ms[s])])),
              FlattenSeq([s \in DOMAIN ms |-> fileHeads(ms[s])]))

(* The middleware names of each route of a manifest.                         *)
mwChain(m) ==
    [i \in DOMAIN m.table |->
        LET e == m.table[i]
        IN  IF e.mwCount = 0 THEN <<>> ELSE MiddlewareNamesAt(m, e.mwOff, e.mwCount)]

(* A name two sites claim is the later one's, and the studio's is its own.   *)
sitesByHost(n) ==
    LET named == (UNION {SiteHosts[s] : s \in DOMAIN SiteHosts}) \ {"*"}
    IN  [h \in named \cup (IF n = Studio THEN {StudioHost} ELSE {}) |->
            IF h = StudioHost /\ n = Studio THEN Studio
            ELSE Max({s \in DOMAIN SiteHosts : h \in SiteHosts[s]})]

appState(d, n, maps) ==
    [kind |-> "state", from |-> d, ms |-> maps.ms,
     reg |-> appRegistry(maps.reg, maps.ms),
     main |-> mainSite(SiteHosts), hosts |-> sitesByHost(n),
     chains |-> [s \in 1..n |-> mwChain(maps.ms[s])]]

(* It fails when a site's manifest does not load or a route names a          *)
(* middleware nobody registered; a studio that does not load is left out.    *)
resolve(state) ==
    IF \A s \in DOMAIN state.chains : \A i \in DOMAIN state.chains[s] :
          ToSet(state.chains[s][i]) \subseteq Middlewares
    THEN state ELSE Absent
withLoaded(d, loaded) ==
    LET n == IF loaded[Studio].ok THEN Studio ELSE Studio - 1
    IN  IF \A s \in DOMAIN SiteHosts : loaded[s].ok
        THEN resolve(appState(d, n, remapAll(loaded, n))) ELSE Absent
loadState(d) ==
    withLoaded(d, [s \in DOMAIN d |-> IF d[s] = Absent THEN [ok |-> FALSE] ELSE Load(d[s].file)])

-----------------------------------------------------------------------------
Reply(kind, head, body, ran, params) ==
    [kind |-> kind, head |-> head, body |-> body, ran |-> ran, params |-> params]
Status(state, kind, id) == Reply(kind, HeadAt(state.reg, id), <<>>, <<>>, <<>>)

(* brotli, then gzip, where the client accepts it and the entry has it.      *)
pickVariant(e, accept) ==
    e.variants[CHOOSE enc \in Encodings :
        IF "br" \in accept /\ e.variants["br"].len > 0 THEN enc = "br"
        ELSE IF "gzip" \in accept /\ e.variants["gzip"].len > 0 THEN enc = "gzip"
        ELSE enc = "identity"]

(* The middlewares that run, up to the first that refuses.                   *)
RunChain(chain, deny) ==
    LET refused == {i \in DOMAIN chain : chain[i] \in deny}
    IN  IF refused = {} THEN chain
        ELSE SubSeq(chain, 1, Min(refused))

(* A slice of the payloads may run past their end: they are a part of the    *)
(* mapped file, whose next sections (here one foreign cell) follow.  Past    *)
(* the file's end it panics, and the server answers 500.                     *)
Foreign == [kind |-> "foreign"]
Mapped(m) == Append(m.payloads, Foreign)
Slice(m, v) == SubSeq(Mapped(m), v.off + 1, v.off + v.len)

(* A rendered page, by its encoding, its source and the bytes around holes.  *)
Rendered(enc, src, bytes) == <<enc, src>> \o bytes

(* A page whose every hole is filed under tables is kept in all encodings,   *)
(* with the registry's html heads; any other is rendered as it is.           *)
composeHoleBodyCached(state, m, blob, v, accept) ==
    LET enc == IF ~blob.tables THEN "identity"
               ELSE IF "br" \in accept THEN "br"
               ELSE IF "gzip" \in accept THEN "gzip" ELSE "identity"
    IN  [head |-> HeadAt(state.reg, IF enc = "identity" THEN v.head
                                    ELSE MimeID(state.reg, <<HTML, enc>>)),
         body |-> Rendered(enc, blob.src, Slice(m, v))]

serve(state, req) ==
    LET s == IF req.host \in DOMAIN state.hosts THEN state.hosts[req.host] ELSE state.main
        m == state.ms[s]
        hit == Match(m.trie, req.path)
        e == m.table[hit.route]
        chain == state.chains[s][hit.route]
        ran == RunChain(chain, req.deny)
        blob == m.holeBlobs[e.hole + 1]
        v == IF e.hole # 0 THEN e.variants["identity"] ELSE pickVariant(e, req.accept)
        page == composeHoleBodyCached(state, m, blob, v, req.accept)
    IN  IF ~Found(hit) THEN Status(state, "notFound", HeadID404)
        ELSE IF req.method \notin e.methods
             THEN Reply("notAllowed", [status |-> 405, allow |-> e.methods], <<>>, <<>>, <<>>)
        ELSE IF ToSet(chain) \cap req.deny # {} THEN Reply("refused", NoHead, <<>>, ran, <<>>)
        ELSE CASE e.action = "file" -> Reply("file", NoHead, <<blob.src>>, ran, hit.params)
               [] e.action = "static" ->
                    IF v.off + v.len > Len(Mapped(m)) THEN Status(state, "panic", HeadID500)
                    ELSE IF e.hole # 0
                    THEN Reply("hole", page.head, page.body, ran, hit.params)
                    ELSE Reply("body", HeadAt(state.reg, v.head), Slice(m, v), ran, hit.params)
               [] e.action \in Handlers -> Reply("action", NoHead, <<e.action>>, ran, hit.params)
               [] OTHER -> Status(state, "error", HeadID500)

-----------------------------------------------------------------------------
SiteInit ==
    /\ files = [s \in 1..Studio |-> Absent]
    /\ st = Absent
    /\ reply = Absent
    /\ builds = 0

(* Bound: at most one manifest on disk is damaged at a time.                 *)
Installed(s, content, c, fault) ==
    /\ fault = "none" \/ {x \in DOMAIN files : files[x] # Absent /\ files[x].fault # "none"} = {}
    /\ files' = [files EXCEPT ![s] = [kind |-> "file", file |-> Write(c, fault),
                                    content |-> content, fault |-> fault]]

(* BuildContext.build for one site; a collision with an action route fails   *)
(* it before anything is written.                                            *)
Build(s) ==
    /\ builds < MaxBuilds /\ reply = Absent
    /\ builds' = builds + 1
    /\ \E content \in Contents[s], fault \in Faults :
         \E order \in SetToSeqs(content) :
            LET out == Compile(order, Routes)
            IN  IF out.ok THEN Installed(s, content, out.c, fault) ELSE UNCHANGED files
    /\ UNCHANGED <<st, reply>>

buildStudioManifest ==
    /\ builds < MaxBuilds /\ reply = Absent
    /\ builds' = builds + 1
    /\ \E fault \in Faults :
         LET page == AddStaticRoute(NewV2Compiler, <<>>, StudioBody, HTML)
         IN  Installed(Studio, {}, AddActionRoutes(page, StudioRoutes), fault)
    /\ UNCHANGED <<st, reply>>

(* Start or SIGHUP: a state that fails to load leaves the old one in place.  *)
Reload ==
    /\ reply = Absent
    /\ st' \in {loadState(files)} \ {Absent}
    /\ UNCHANGED <<files, reply, builds>>

(* A request leaves nothing behind that the next one sees, and a build writes *)
(* a new file under the mapped one's name: one request per loaded state, made *)
(* before the next build, stands for all of them.                            *)
Serve ==
    /\ st # Absent /\ reply = Absent /\ st.from = files
    /\ \E req \in Requests : reply' = [kind |-> "reply", req |-> req, out |-> serve(st, req)]
    /\ UNCHANGED <<files, st, builds>>

SiteNext == (\E s \in DOMAIN SiteHosts : Build(s)) \/ buildStudioManifest \/ Reload \/ Serve
SiteSpec == SiteInit /\ [][SiteNext]_siteVars

-----------------------------------------------------------------------------
(* What a site's content asks for, without manifest, offsets or trie.        *)
ActionClaim(r) ==
    [kind |-> "action", url |-> r.url, methods |-> r.methods, mw |-> r.mw, action |-> r.action]
Claims(s, d) ==
    IF s = Studio
    THEN {[url |-> <<>>, kind |-> "static", src |-> "studio", mime |-> HTML, body |-> StudioBody]}
         \cup {ActionClaim(r) : r \in ToSet(StudioRoutes)}
    ELSE {r \in d[s].content : r.kind # "meta"} \cup {ActionClaim(r) : r \in ToSet(Routes)}

SiteFor(host) ==
    LET named(h) == {s \in DOMAIN SiteHosts : h \in SiteHosts[s]}
    IN  IF host = StudioHost /\ st.from[Studio] # Absent /\ st.from[Studio].fault # "lost" THEN Studio
        ELSE IF named(host) # {} THEN Max(named(host))
        ELSE Max(named("*") \cup {1})

Wanted(x, req, segs) ==
    LET methods == IF x.kind = "action" THEN ParseMethods(x.methods) ELSE GetHead
        mw == IF x.kind = "action" THEN x.mw ELSE <<>>
        enc == IF \/ x.kind = "static" /\ x.mime \notin Compressible
                  \/ x.kind = "hole" /\ ~x.tables
               THEN "identity"
               ELSE IF "br" \in req.accept THEN "br"
               ELSE IF "gzip" \in req.accept THEN "gzip" ELSE "identity"
        bytes == IF enc = "identity" THEN x.body ELSE Compressed(x.body, enc)
        params == Captures(Segments(x.url), segs)
    IN  IF req.method \notin methods
        THEN Reply("notAllowed", [status |-> 405, allow |-> methods], <<>>, <<>>, <<>>)
        ELSE IF ToSet(mw) \cap req.deny # {}
             THEN Reply("refused", NoHead, <<>>, RunChain(mw, req.deny), <<>>)
        ELSE CASE x.kind = "static" -> Reply("body", MimeHead(<<x.mime, enc>>), bytes, <<>>, params)
               [] x.kind = "hole" -> Reply("hole", MimeHead(<<x.mime, enc>>),
                                          Rendered(enc, x.src, x.body), <<>>, params)
               [] x.kind = "file" -> Reply("file", NoHead, <<x.src>>, <<>>, params)
               [] x.kind = "action" /\ x.action \in Handlers ->
                    Reply("action", NoHead, <<x.action>>, mw, params)
               [] OTHER -> Reply("error", StatusHead(500), <<>>, <<>>, <<>>)

(* A reply is the one that the best fitting page or action of the host's     *)
(* site asks for: its bytes, its content type and encoding, its parameters,  *)
(* whatever order the compiler met the pages in, whatever else shares the    *)
(* manifest and the registry.  Only a manifest whose payloads a full disk    *)
(* cut short (nothing notices) answers 500 or with bytes of the sections     *)
(* behind them.  (Empty pages have no say in their head.)                    *)
ServedAsBuilt ==
    reply # Absent =>
        LET req == reply.req
            s == SiteFor(req.host)
            segs == splitPath(req.path)
            fit == {x \in Claims(s, st.from) : Fits(Segments(x.url), segs)}
            best == {x \in fit : \A y \in fit : ~Before(Segments(y.url), Segments(x.url))}
            short == st.from[s].fault = "short"
            Answers(x) ==
                LET w == Wanted(x, req, segs)
                IN  IF x.kind = "static" /\ x.body = <<>> THEN reply.out.body = <<>>
                    ELSE /\ reply.out = [w EXCEPT !.body = reply.out.body]
                         /\ Len(reply.out.body) = Len(w.body)
                         /\ \A i \in DOMAIN w.body :
                               reply.out.body[i] = w.body[i] \/ (short /\ reply.out.body[i] = Foreign)
        IN  IF fit = {} THEN reply.out.kind = "notFound"
            ELSE \/ \E x \in best : Answers(x)
                 \/ short /\ reply.out.kind = "panic"

(* An action's handler runs only when every middleware its route declares    *)
(* ran before it, in order, and none refused.                                *)
GuardedActions ==
    reply # Absent /\ reply.out.kind = "action" =>
        \E r \in ToSet(Routes) \cup ToSet(StudioRoutes) :
            /\ <<r.action>> = reply.out.body
            /\ reply.out.ran = r.mw
            /\ ToSet(r.mw) \cap reply.req.deny = {}

(* A manifest written in full fails to load only for patterns that cannot    *)
(* be told apart; the compiler does not look for those.                      *)
LoadFailsOnlyForCause ==
    \A s \in 1..Studio : files[s] # Absent =>
        LET pats == {Segments(x.url) : x \in Claims(s, files)}
            urls == {x.url : x \in Claims(s, files)}
        IN  Load(files[s].file).ok <=>
                /\ files[s].fault # "lost"
                /\ Cardinality(urls) = Cardinality(pats)
                /\ \A u \in urls : Routable(u)
                /\ \A p, q \in pats : ~Clash(p, q)
=============================================================================
