---------------------------- MODULE MCFileServe ----------------------------
(* A file of up to three bytes, and a reload that adds a mime type before its. *)
EXTENDS FileServe

Other(c) == [status |-> c]
MCRouteMimes == <<<<"video">>, <<"zip", "video", "video">>>>
MCBaseHeads == <<<<Other(404), Other(500)>>, <<Other(404), Other(500), Other(200)>>>>
Header(u, d, f, l) == [unit |-> u, dash |-> d, first |-> f, last |-> l]
MCRanges ==
    {NoRange, Header(FALSE, TRUE, 0, 1), Header(TRUE, FALSE, 0, Empty), Header(TRUE, TRUE, Bad, 1),
     Header(TRUE, TRUE, 0, Bad)}
    \cup {Header(TRUE, TRUE, f, l) : f \in {0, 1, 3, Empty}, l \in {-1, 0, 1, 2, 5, Empty}}
=============================================================================
