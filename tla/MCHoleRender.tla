---------------------------- MODULE MCHoleRender ----------------------------
(* A page with a query hole and a parameter hole. *)
EXTENDS HoleRender, TLC

MCHoles == <<"sql", "params">>
Interchangeable == Permutations(Request) \cup Permutations(Binding)
=============================================================================
