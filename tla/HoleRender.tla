----------------------------- MODULE HoleRender -----------------------------
(***************************************************************************)
(* composeHoleBody (cmd/main/holes.go) over QueryEach (fastdb.go): how the *)
(* URL bindings of a request reach the template of a hole.  The visit      *)
(* callback writes "_params" into the row map it is given, executes the    *)
(* template on that map and deletes the key.  On a row-cache miss the map  *)
(* is a fresh copy that nobody else has yet; on a hit it is the map stored *)
(* in the cache, the same one every concurrent hit is given.               *)
(*                                                                         *)
(* One route whose holes all use the same query; requests differ in their  *)
(* bindings only, so the output cache is a function of the bindings.       *)
(***************************************************************************)
EXTENDS Integers, Sequences, FiniteSets

CONSTANTS
    Request,
    Binding,      \* values of paramsMap
    NoParams,     \* a map without the key; also paramsMap = nil
    Holes,        \* kinds of the route's holes, in order: "sql" or "params"
    NumRows,      \* rows the query returns
    MaxFills      \* bound: results ever stored in the row cache

ASSUME HoleRenderAssumption ==
    /\ NoParams \notin Binding
    /\ Holes \in Seq({"sql", "params"}) \ {<<>>}
    /\ NumRows \in Nat \ {0} /\ MaxFills \in Nat \ {0}

VARIABLES
    maps,     \* fill -> row -> the "_params" of that row map
    cached,   \* the fill the row cache holds, 0 if none
    pages,    \* the output cache: bindings -> what the templates printed
    req,
    up        \* FALSE once the Go runtime has stopped the process

renderVars == <<maps, cached, pages, req, up>>

Idle == [pc |-> "idle", own |-> NoParams, hole |-> 0, fill |-> 0, shared |-> FALSE,
         row |-> 0, failed |-> FALSE, out |-> <<>>, reused |-> FALSE]

RenderInit ==
    /\ maps = <<>> /\ cached = 0
    /\ pages = [b \in {} |-> b]
    /\ req = [r \in Request |-> Idle]
    /\ up = TRUE

Step(r, new) == up /\ up' = up /\ req' = [req EXCEPT ![r] = new]

(* After hole h of request q: the next one, or the end of the loop. *)
Advance(q) ==
    IF q.hole = Len(Holes) THEN [q EXCEPT !.pc = "output"]
    ELSE [q EXCEPT !.pc = "hole", !.hole = @ + 1]

---------------------------------------------------------------------------
(* An output-cache miss; paramsMap is the request's own. *)
Start(r, b) ==
    /\ req[r].pc = "idle" /\ b \notin DOMAIN pages
    /\ Step(r, [Idle EXCEPT !.pc = "hole", !.own = b, !.hole = 1])
    /\ UNCHANGED <<maps, cached, pages>>

(* A hole without SQL: a context map of its own. *)
ParamHole(r) ==
    /\ req[r].pc = "hole" /\ Holes[req[r].hole] = "params"
    /\ \/ Step(r, Advance([req[r] EXCEPT !.out = Append(@, req[r].own)]))
       \/ Step(r, Idle)   \* the template failed
    /\ UNCHANGED <<maps, cached, pages>>

RowHit(r) ==
    /\ req[r].pc = "hole" /\ Holes[req[r].hole] = "sql" /\ cached # 0
    /\ Step(r, [req[r] EXCEPT !.pc = "set", !.fill = cached, !.shared = TRUE,
                              !.row = 1, !.reused = TRUE])
    /\ UNCHANGED <<maps, cached, pages>>

(* Mutant: the result is cached before it is visited. *)
RowMissPutsFirst(r) ==
    /\ req[r].pc = "hole" /\ Holes[req[r].hole] = "sql" /\ cached = 0
    /\ Len(maps) < MaxFills
    /\ maps' = Append(maps, [i \in 1..NumRows |-> NoParams])
    /\ cached' = Len(maps) + 1
    /\ Step(r, [req[r] EXCEPT !.pc = "set", !.fill = Len(maps) + 1, !.shared = FALSE, !.row = 1])
    /\ UNCHANGED pages

(* The copies cp made for this fill. *)
RowMiss(r) ==
    /\ req[r].pc = "hole" /\ Holes[req[r].hole] = "sql" /\ cached = 0
    /\ Len(maps) < MaxFills
    /\ maps' = Append(maps, [i \in 1..NumRows |-> NoParams])
    /\ Step(r, [req[r] EXCEPT !.pc = "set", !.fill = Len(maps) + 1, !.shared = FALSE, !.row = 1])
    /\ UNCHANGED <<cached, pages>>

(* row["_params"] = paramsMap, unless the route has no bindings. *)
SetParams(r) ==
    /\ req[r].pc = "set"
    /\ maps' = IF req[r].own = NoParams THEN maps
               ELSE [maps EXCEPT ![req[r].fill][req[r].row] = req[r].own]
    /\ Step(r, [req[r] EXCEPT !.pc = "execute"])
    /\ UNCHANGED <<cached, pages>>

(* Template.Execute, which may fail. *)
Execute(r) ==
    /\ req[r].pc = "execute"
    /\ \/ Step(r, [req[r] EXCEPT !.pc = "delete", !.out = Append(@, maps[req[r].fill][req[r].row])])
       \/ Step(r, [req[r] EXCEPT !.pc = "delete", !.failed = TRUE])
    /\ UNCHANGED <<maps, cached, pages>>

(* Mutant: a template error returns before the delete. *)
DeletedUnlessFailed(r) ==
    IF req[r].own = NoParams \/ req[r].failed THEN maps
    ELSE [maps EXCEPT ![req[r].fill][req[r].row] = NoParams]

Deleted(r) ==
    IF req[r].own = NoParams THEN maps
    ELSE [maps EXCEPT ![req[r].fill][req[r].row] = NoParams]

(* delete(row, "_params") whatever Execute returned; an error then ends    *)
(* the request, and the last row ends the hole, through Put after a miss.  *)
DeleteParams(r) ==
    /\ req[r].pc = "delete"
    /\ maps' = Deleted(r)
    /\ Step(r, IF req[r].failed THEN Idle
               ELSE IF req[r].row < NumRows THEN [req[r] EXCEPT !.pc = "set", !.row = @ + 1]
               ELSE IF req[r].shared THEN Advance(req[r])
               ELSE [req[r] EXCEPT !.pc = "put"])
    /\ UNCHANGED <<cached, pages>>

(* The fill's maps become everybody's. *)
RowPut(r) ==
    /\ req[r].pc = "put"
    /\ cached' = req[r].fill
    /\ Step(r, Advance(req[r]))
    /\ UNCHANGED <<maps, pages>>

OutputPut(r) ==
    /\ req[r].pc = "output"
    /\ pages' = [b \in DOMAIN pages \cup {req[r].own} |->
                   IF b = req[r].own THEN [out |-> req[r].out, reused |-> req[r].reused]
                   ELSE pages[b]]
    /\ Step(r, Idle)
    /\ UNCHANGED <<maps, cached>>

(* A write: both caches drop what reads the table. *)
TableWritten ==
    /\ up /\ (cached # 0 \/ DOMAIN pages # {})
    /\ cached' = 0 /\ pages' = [b \in {} |-> b]
    /\ UNCHANGED <<maps, req, up>>

(* Two goroutines on one map, one of them writing: the runtime may notice  *)
(* and stop the process; if it does not, the steps interleave as above.    *)
WritesMap(r) == req[r].pc \in {"set", "delete"} /\ req[r].own # NoParams

ConcurrentMapFault ==
    /\ up
    /\ \E r, s \in Request :
         /\ r # s /\ WritesMap(r) /\ (WritesMap(s) \/ req[s].pc = "execute")
         /\ req[r].fill = req[s].fill /\ req[r].row = req[s].row
    /\ up' = FALSE
    /\ UNCHANGED <<maps, cached, pages, req>>

RenderNext ==
    \/ \E r \in Request :
         \/ \E b \in Binding \cup {NoParams} : Start(r, b)
         \/ ParamHole(r) \/ RowHit(r) \/ RowMiss(r) \/ SetParams(r) \/ Execute(r)
         \/ DeleteParams(r) \/ RowPut(r) \/ OutputPut(r)
    \/ TableWritten
    \/ ConcurrentMapFault

RenderSpec == RenderInit /\ [][RenderNext]_renderVars

---------------------------------------------------------------------------
IsOut(s) == s \in Seq(Binding \cup {NoParams})

(* Type invariant. *)
RenderTypeOK ==
    /\ maps \in Seq([1..NumRows -> Binding \cup {NoParams}])
    /\ cached \in 0..Len(maps) /\ up \in BOOLEAN
    /\ DOMAIN pages \subseteq Binding \cup {NoParams}
    /\ \A b \in DOMAIN pages : IsOut(pages[b].out) /\ pages[b].reused \in BOOLEAN
    /\ \A r \in Request :
         /\ req[r].pc \in {"idle", "hole", "set", "execute", "delete", "put", "output"}
         /\ req[r].own \in Binding \cup {NoParams}
         /\ req[r].hole \in 0..Len(Holes) /\ req[r].row \in 0..NumRows
         /\ req[r].fill \in 0..Len(maps)
         /\ IsOut(req[r].out)
         /\ {req[r].shared, req[r].failed, req[r].reused} \subseteq BOOLEAN

(* Whatever the interleaving, and whichever templates failed, no binding   *)
(* stays behind in a cached row once nobody is visiting it: the deletions  *)
(* leave the cache as the fill left it.                                    *)
CachedRowsClean ==
    \A i \in 1..NumRows :
      /\ cached # 0
      /\ \A r \in Request : req[r].pc \in {"set", "execute", "delete"} => req[r].fill # cached
      => maps[cached][i] = NoParams

(* A page whose every row came from the request's own fill, or that uses   *)
(* no rows, shows the request's own bindings in every hole: a fill's maps  *)
(* are not reachable through the cache before its last visit is over.      *)
OwnFillShowsOwnParams ==
    \A b \in DOMAIN pages :
      ~pages[b].reused => \A i \in DOMAIN pages[b].out : pages[b].out[i] = b
=============================================================================
