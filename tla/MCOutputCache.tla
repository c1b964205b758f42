--------------------------- MODULE MCOutputCache ---------------------------
(* Five routes: single table, two tables, no table, unattributable. *)
EXTENDS OutputCache

CONSTANTS k1, k2, k3, k4, k5, t1, t2, p1, p2, p3

MCTablesOf == [k \in Key |-> CASE k = k1 -> {t1} [] k = k2 -> {t1, t2}
                               [] k = k3 -> {}
                               [] OTHER -> {t2}]
MCSizeOf == [p \in Page |-> CASE p = p1 -> 0 [] p = p2 -> 2 [] p = p3 -> 6]
=============================================================================
