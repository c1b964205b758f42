-------------------------------- MODULE Trie --------------------------------
(***************************************************************************)
(* The routing tree of modules/router/trie.go.  A pattern is a sequence of *)
(* segments [kind, text], kind "lit", "param" (":text") or "all" ("*text");*)
(* a URL path is the sequence of the pieces between its slashes.  A node is *)
(* named by the edges that lead to it from the root <<>>, so that a trie is *)
(* a function from nodes to their label and route (0: no route ends here).  *)
(***************************************************************************)
EXTENDS Integers, Sequences, SequencesExt, TLC

Lit(s) == [kind |-> "lit", text |-> s]
ParamEdge == [kind |-> "param", text |-> ""]
AllEdge == [kind |-> "all", text |-> ""]
Edge(seg) == IF seg.kind = "lit" THEN seg ELSE [seg EXCEPT !.text = ""]

NewTrie == [n \in {<<>>} |-> [label |-> "", route |-> 0]]

(* One leading and one trailing slash are ignored; empty pieces inside stay. *)
splitPath(pieces) ==
    LET tail == IF Len(pieces) > 1 /\ Head(pieces) = "" THEN Tail(pieces) ELSE pieces
        body == IF Len(tail) > 1 /\ Last(tail) = "" THEN Front(tail) ELSE tail
    IN  IF body = <<"">> THEN <<>> ELSE body

-----------------------------------------------------------------------------
(* One turn of Insert's loop: follow the edge of the segment, adding the node. *)
Descend(a, pattern, i) ==
    LET seg == pattern[i]
        isLast == i = Len(pattern)
        child == Append(a.cursor, Edge(seg))
        known == child \in DOMAIN a.nodes
        bad == \/ seg.kind # "lit" /\ seg.text = ""
               \/ seg.kind = "all" /\ ~isLast
               \/ known /\ a.nodes[child].label # seg.text
    IN  IF ~a.ok \/ seg = Lit("") THEN a
        ELSE IF bad THEN [a EXCEPT !.ok = FALSE]
        ELSE [a EXCEPT !.cursor = child,
                       !.nodes = [n \in DOMAIN a.nodes \cup {child} |->
                                     IF n \in DOMAIN a.nodes THEN a.nodes[n]
                                     ELSE [label |-> seg.text, route |-> 0]]]

(* Insert's loop over the segments of the pattern, from the root. *)
Descended(nodes, pattern) ==
    FoldLeftDomain(LAMBDA a, i : Descend(a, pattern, i),
                   [ok |-> TRUE, cursor |-> <<>>, nodes |-> nodes], pattern)

(* Mutant: a second route at the same leaf replaces the first.               *)
InsertOverwrites(nodes, pattern, routeIdx) ==
    LET a == Descended(nodes, pattern)
    IN  IF a.ok THEN [ok |-> TRUE, nodes |-> [a.nodes EXCEPT ![a.cursor].route = routeIdx]]
        ELSE [ok |-> FALSE, nodes |-> a.nodes]

Insert(nodes, pattern, routeIdx) ==
    LET a == Descended(nodes, pattern)
    IN  IF a.ok /\ a.nodes[a.cursor].route = 0
        THEN [ok |-> TRUE, nodes |-> [a.nodes EXCEPT ![a.cursor].route = routeIdx]]
        ELSE [ok |-> FALSE, nodes |-> a.nodes]

-----------------------------------------------------------------------------
Found(r) == r.route # 0

(* Mutant: a failed parameter branch leaves its capture behind.              *)
KeepParams(params) == params

(* Backtrack: drop the parameter appended before a branch that failed.       *)
DropParam(params) == Front(params)

(* A capture is a parameter's name and the pieces it took.                   *)
Params == Seq(STRING \X Seq(STRING))
Result(route, params) == [route |-> route, params |-> params]

(* The catch-all child of node n captures what is left of the path.          *)
take(t, n, rest, ps) ==
    LET c == Append(n, AllEdge)
    IN  IF c \in DOMAIN t /\ t[c].route > 0
        THEN Result(t[c].route, Append(ps, <<t[c].label, rest>>)) ELSE Result(0, ps)

(* walk at node n with the captures ps, where rest is what is left of the    *)
(* path: the route found and the captures, route 0 for none.  deeper is walk *)
(* for the path behind the first piece of rest.                              *)
visit(t, deeper, n, rest, ps) ==
    LET l == Append(n, Lit(Head(rest)))
        p == Append(n, ParamEdge)
        lit == IF l \in DOMAIN t THEN deeper[l][ps] ELSE Result(0, ps)
        sub == deeper[p][Append(lit.params, <<t[p].label, <<Head(rest)>>>>)]
        param == IF p \notin DOMAIN t THEN lit
                 ELSE IF Found(sub) THEN sub
                 ELSE [sub EXCEPT !.params = DropParam(@)]
    IN  IF rest = <<>> THEN IF t[n].route > 0 THEN Result(t[n].route, ps) ELSE take(t, n, rest, ps)
        ELSE IF Found(lit) THEN lit
        ELSE IF Found(param) THEN param
        ELSE take(t, n, rest, param.params)

Match(t, pieces) ==
    LET segs == splitPath(pieces)
        N == Len(segs)
        walk[left \in 0..N] ==
            [n \in DOMAIN t |-> [ps \in Params |->
                visit(t, walk[left - 1], n, SubSeq(segs, N - left + 1, N), ps)]]
    IN  walk[N][<<>>][<<>>]

-----------------------------------------------------------------------------
(* The reference: which patterns fit a path, which of them comes first, and *)
(* what it captures, each read off the pattern alone.                        *)
AddSegment(segs, s) == IF s = Lit("") THEN segs ELSE Append(segs, s)
Segments(pattern) == FoldLeft(AddSegment, <<>>, pattern)
HasAll(p) == p # <<>> /\ Last(p).kind = "all"
Fits(p, segs) ==
    /\ IF HasAll(p) THEN Len(segs) >= Len(p) - 1 ELSE Len(segs) = Len(p)
    /\ \A i \in DOMAIN p : p[i].kind = "lit" => i \in DOMAIN segs /\ segs[i] = p[i].text

Rank(p, i) == IF i > Len(p) THEN 0
              ELSE CASE p[i].kind = "lit" -> 1 [] p[i].kind = "param" -> 2 [] OTHER -> 3
Before(p, q) == \E i \in 1..(Len(p) + 1) :
                    /\ Rank(p, i) < Rank(q, i)
                    /\ \A j \in 1..(i - 1) : Rank(p, j) = Rank(q, j)

Capture(p, i, segs) ==
    <<p[i].text, IF p[i].kind = "all" THEN SubSeq(segs, i, Len(segs)) ELSE <<segs[i]>>>>
AddCapture(caps, p, i, segs) ==
    IF p[i].kind = "lit" THEN caps ELSE Append(caps, Capture(p, i, segs))
Captures(p, segs) == FoldLeftDomain(LAMBDA caps, i : AddCapture(caps, p, i, segs), <<>>, p)

(* Which patterns can be routed, and which two cannot both be: those with    *)
(* one leaf, or one parameter under two names.                               *)
Routable(pattern) == \A i \in DOMAIN pattern : /\ pattern[i].kind # "lit" => pattern[i].text # ""
                                               /\ pattern[i].kind = "all" => i = Len(pattern)
Shape(p) == [i \in DOMAIN p |-> Edge(p[i])]
Clash(p, q) ==
    \/ p # q /\ Shape(p) = Shape(q)
    \/ \E n \in (DOMAIN p) \cap (DOMAIN q) :
          /\ Shape(SubSeq(p, 1, n)) = Shape(SubSeq(q, 1, n))
          /\ p[n] # q[n]
=============================================================================
