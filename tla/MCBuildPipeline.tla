--------------------------- MODULE MCBuildPipeline ---------------------------
(* A page with a page below it and a stylesheet beside it. *)
EXTENDS BuildPipeline

CONSTANT X

In(d, f) == [dir |-> d, file |-> f]
MCWalk == <<In("d1", ""), In("d1", "p1"), In("d2", ""), In("d2", "p2"), In("d1", "style")>>
MCPath == [d1 |-> <<"d1">>, d2 |-> <<"d1", "d2">>]
MCFirstAlias == [p1 |-> NoAlias, p2 |-> X, style |-> NoAlias]
MCPageOf == [d1 |-> "p1", d2 |-> "p2"]
=============================================================================
