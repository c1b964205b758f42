------------------------------ MODULE Manifest ------------------------------
(***************************************************************************)
(* The site manifest: what cmd/build's V2Compiler lays out and what         *)
(* modules/router's Load makes of it.  The sections are sequences of cells: *)
(* a payload cell is one byte of a body under an encoding, a path cell one  *)
(* segment of a URL pattern, a blob cell one whole hole list or disk path.  *)
(* Offsets, lengths and local mime indexes count from 0 as in the file.     *)
(*                                                                         *)
(* A build result is a record [src, url, kind, mime, body]: kind "static",  *)
(* "hole" (static with holes), "file" (ActionFile) or "meta" (.toml, .swp). *)
(* An action route is [url, methods, mw, action].                           *)
(***************************************************************************)
EXTENDS Trie, FiniteSets

CONSTANTS
    Hash,          \* hashPath: URL patterns to numbers
    Compressible   \* the mime types isCompressible accepts

ASSUME HashInjective ==
    /\ DOMAIN Hash \subseteq Seq([kind : {"lit", "param", "all"}, text : STRING])
    /\ \A p, q \in DOMAIN Hash : Hash[p] \in Nat /\ (Hash[p] = Hash[q] => p = q)

Encodings == {"identity", "gzip", "br"}
NoVariant == [head |-> 0, off |-> 0, len |-> 0]
GetHead == {"GET", "HEAD"}

(* Declaring GET enables HEAD; no method at all means GET. *)
ParseMethods(spec) ==
    LET bits == IF spec = {} THEN {"GET"} ELSE spec
    IN  bits \cup (IF "GET" \in bits THEN {"HEAD"} ELSE {})

-----------------------------------------------------------------------------
NewV2Compiler == [nodes |-> <<>>, payloads |-> <<>>, paths |-> <<>>,
                  holeBlobs |-> <<>>, mwBlobs |-> <<>>, mimes |-> <<>>]

(* A new entry e beside the compiler c that has taken its path. *)
NewEntry(c, url, action, methods) ==
    [c |-> [c EXCEPT !.paths = @ \o url],
     e |-> [hash |-> Hash[url], pathOff |-> Len(c.paths), pathLen |-> Len(url),
            action |-> action, methods |-> methods, hole |-> 0,
            variants |-> [enc \in Encodings |-> NoVariant], mwOff |-> 0, mwCount |-> 0]]

Add(s) == [s.c EXCEPT !.nodes = Append(@, s.e)]

internMime(mimes, key) == IF key \in ToSet(mimes) THEN mimes ELSE Append(mimes, key)
IndexOf(s, x) == CHOOSE i \in DOMAIN s : s[i] = x

(* Body appended to the payloads, its place and mime recorded as a variant. *)
PutVariant(s, mime, enc, body) ==
    LET mimes == internMime(s.c.mimes, <<mime, enc>>)
    IN  [c |-> [s.c EXCEPT !.mimes = mimes, !.payloads = @ \o body],
         e |-> [s.e EXCEPT !.variants[enc] =
                    [head |-> IndexOf(mimes, <<mime, enc>>) - 1,
                     off |-> Len(s.c.payloads), len |-> Len(body)]]]

(* compress.Gzip and compress.Brotli: another sequence, here of one cell. *)
Compressed(body, enc) == <<[Head(body) EXCEPT !.enc = enc]>>

fillStaticVariants(s, body, mime) ==
    LET id == PutVariant(s, mime, "identity", body)
        gz == PutVariant(id, mime, "gzip", Compressed(body, "gzip"))
    IN  IF mime \in Compressible /\ body # <<>>
        THEN PutVariant(gz, mime, "br", Compressed(body, "br")) ELSE id

(* appendHoleBlob, appendFileBlob: offset 0 is reserved for "no holes".      *)
appendBlob(s, blob) ==
    LET blobs == IF s.c.holeBlobs = <<>> THEN <<[kind |-> "reserved"]>> ELSE s.c.holeBlobs
    IN  [c |-> [s.c EXCEPT !.holeBlobs = Append(blobs, blob)],
         e |-> [s.e EXCEPT !.hole = Len(blobs)]]

addPipelineEntry(c, r) ==
    LET s == NewEntry(c, r.url, IF r.kind = "file" THEN "file" ELSE "static", GetHead)
    IN  Add(CASE r.kind = "file" -> appendBlob(s, [kind |-> "file", src |-> r.src, mime |-> r.mime])
              [] r.kind = "hole" -> appendBlob(PutVariant(s, r.mime, "identity", r.body),
                                               [kind |-> "hole", src |-> r.src, tables |-> r.tables])
              [] OTHER -> fillStaticVariants(s, r.body, r.mime))

AddStaticRoute(c, url, body, mime) ==
    LET s == NewEntry(c, url, "static", GetHead)
    IN  Add(IF body # <<>> THEN fillStaticVariants(s, body, mime) ELSE s)

(* Mutant: the middleware of a route is recorded from the end of its list.   *)
AddActionRouteLateOffset(c, route) ==
    LET s == NewEntry(c, route.url, route.action, ParseMethods(route.methods))
    IN  Add([c |-> [s.c EXCEPT !.mwBlobs = @ \o route.mw],
             e |-> [s.e EXCEPT !.mwOff = Len(c.mwBlobs \o route.mw), !.mwCount = Len(route.mw)]])

AddActionRoute(c, route) ==
    LET s == NewEntry(c, route.url, route.action, ParseMethods(route.methods))
    IN  Add(IF route.mw = <<>> THEN s
            ELSE [c |-> [s.c EXCEPT !.mwBlobs = @ \o route.mw],
                  e |-> [s.e EXCEPT !.mwOff = Len(c.mwBlobs), !.mwCount = Len(route.mw)]])

-----------------------------------------------------------------------------
(* Compile over the build cache in map order: the first result to claim a    *)
(* URL keeps it, later ones are ignored; an action route may not collide with *)
(* anything.                                                                  *)
claim(a, r) ==
    IF r.kind = "meta" \/ Hash[r.url] \in a.claimed THEN a
    ELSE [c |-> addPipelineEntry(a.c, r), claimed |-> a.claimed \cup {Hash[r.url]}]
Claimed(order) == FoldLeft(claim, [c |-> NewV2Compiler, claimed |-> {}], order)
AddActionRoutes(c, routes) == FoldLeft(AddActionRoute, c, routes)
Compile(order, routes) ==
    LET pages == Claimed(order)
        hashes == [i \in DOMAIN routes |-> Hash[routes[i].url]]
    IN  [ok |-> ToSet(hashes) \cap pages.claimed = {} /\ IsInjective(hashes),
         c |-> AddActionRoutes(pages.c, routes)]

(* Write: the table sorted by hash, the other sections as they are.  What    *)
(* f.Write returns is never looked at: a full disk can shorten the payloads,  *)
(* here by half ("short"), or lose the end of the file ("lost"), and the file *)
(* is renamed into place all the same.                                        *)
Sorted(nodes) ==
    [i \in DOMAIN nodes |->
        CHOOSE e \in ToSet(nodes) : Cardinality({x \in ToSet(nodes) : x.hash < e.hash}) = i - 1]
Write(c, fault) ==
    [table |-> Sorted(c.nodes),
     payloads |-> IF fault = "short" THEN SubSeq(c.payloads, 1, Len(c.payloads) \div 2)
                  ELSE c.payloads,
     paths |-> c.paths, holeBlobs |-> c.holeBlobs, mwBlobs |-> c.mwBlobs,
     mimes |-> c.mimes, trailer |-> fault # "lost"]

PathOf(file, e) == SubSeq(file.paths, e.pathOff + 1, e.pathOff + e.pathLen)

(* Load: the trailer's sizes must fit the file and every path enter the trie. *)
InsertRoute(a, file, i) == IF a.ok THEN Insert(a.nodes, PathOf(file, file.table[i]), i) ELSE a
LoadTrie(file) ==
    FoldLeftDomain(LAMBDA a, i : InsertRoute(a, file, i), [ok |-> TRUE, nodes |-> NewTrie], file.table)
Load(file) ==
    LET t == LoadTrie(file)
    IN  [ok |-> file.trailer /\ t.ok, trie |-> t.nodes, table |-> file.table,
         payloads |-> file.payloads, paths |-> file.paths, holeBlobs |-> file.holeBlobs,
         mwBlobs |-> file.mwBlobs, mimes |-> file.mimes]

MiddlewareNamesAt(m, off, count) ==
    IF off + count > Len(m.mwBlobs) THEN <<>> ELSE SubSeq(m.mwBlobs, off + 1, off + count)
=============================================================================
