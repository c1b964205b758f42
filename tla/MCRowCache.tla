----------------------------- MODULE MCRowCache -----------------------------
(* Four queries over two tables; q1 and q2 have colliding hashes. *)
EXTENDS RowCache

CONSTANTS q1, q2, q3, q4, k1, k2, k3, t1, t2, r1, r2, r3

MCHashOf == [s \in Sql |-> CASE s \in {q1, q2} -> k1 [] s = q3 -> k2 [] s = q4 -> k3]
MCTablesOf == [s \in Sql |-> CASE s = q1 -> {t1} [] s \in {q2, q4} -> {t2} [] s = q3 -> {t1, t2}]
MCSizeOf == [r \in Rows |-> CASE r = r1 -> 1 [] r = r2 -> 2 [] r = r3 -> 4]
=============================================================================
