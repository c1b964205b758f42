------------------------------ MODULE MCFastDB ------------------------------
(* Three queries: one table, a join with a subquery in its WHERE clause,   *)
(* and a subquery in FROM, which no cache takes; a page of two holes, one  *)
(* of one, and one that cannot be cached.                                  *)
EXTENDS FastDB, ExtractTables, TLC

CONSTANTS q1, q2, q3, p1, p2, p3

MCHolesOf == p1 :> <<q1, q2>> @@ p2 :> <<q1>> @@ p3 :> <<q3>>
MCReadsOf == q1 :> {"a"} @@ q2 :> {"a"} @@ q3 :> {"a"}
MCFiledUnder == q1 :> {"a"} @@ q2 :> {"a", "b"} @@ q3 :> {}
Interchangeable == Permutations(Request) \cup Permutations(Conn)

(* The scanner is right about every statement of the grammar ...           *)
ASSUME ScannerSound == TablesAttributed

(* ... and the three queries are filed under what it finds in their texts. *)
Select(from, join, inner) ==
    [with |-> "none", cte |-> "a", from |-> from, join |-> join, inner |-> inner]
Plain(t) == [shape |-> "plain", table |-> t]
TextOf == q1 :> Select(Plain("a"), <<>>, <<>>)
          @@ q2 :> Select(Plain("b"), <<Plain("a")>>, <<Plain("b")>>)
          @@ q3 :> Select([shape |-> "sub", table |-> "a"], <<>>, <<>>)

ASSUME FiledByScanner ==
    \A q \in Query : /\ MCFiledUnder[q] = extractTables(SQL(TextOf[q]))
                     /\ MCReadsOf[q] = Reads(TextOf[q]) \cap Table
=============================================================================
