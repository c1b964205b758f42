---------------------------- MODULE ExtractTables ----------------------------
(***************************************************************************)
(* fastdb/invalidate.go: which tables a query is filed under, found by     *)
(* scanning its text for FROM and JOIN.  A write invalidates what is filed *)
(* under its table, so a table that is missed leaves stale rows; nil, here *)
(* {}, keeps a query out of both caches.                                   *)
(*                                                                         *)
(* A text is a sequence of tokens, lower case, blanks dropped: a word and  *)
(* any keyword is a run of identifier bytes, everything else stands for    *)
(* itself.  The blank after WITH matters and is part of that token.        *)
(***************************************************************************)
EXTENDS Sequences
LOCAL INSTANCE SequencesExt

Tables == {"a", "b"}
Quote == "\""
Punctuation == {"(", ")", Quote, "*"}

(* findFromOrJoin, nextKeyword: the word alone, not part of an identifier. *)
FromOrJoin(token) == token \in {"from", "join"}

(* "with" is recognised before a space, a tab or a newline. *)
containsCTE(sql) == Head(sql) = "with "

(* One turn of the scan: looking for a keyword, or at what follows one.    *)
Scan(s, token) ==
    CASE s.at = "look" -> IF FromOrJoin(token) THEN [s EXCEPT !.at = "name"] ELSE s
      [] s.at = "bail" -> s
      [] s.at = "name" ->
           IF token \in {"(", Quote} THEN [at |-> "bail", out |-> {}]
           ELSE [at |-> "look",
                 out |-> IF token \in Punctuation THEN s.out ELSE s.out \cup {token}]

extractTables(sql) ==
    IF containsCTE(sql) THEN {} ELSE FoldLeft(Scan, [at |-> "look", out |-> {}], sql).out

---------------------------------------------------------------------------
(* Statements and what they read.  A source is a table name, a quoted one, a  *)
(* subquery, or (shape "cte") the name a WITH clause defines over a table. *)
Shapes == {"plain", "quoted", "sub", "cte"}
Source == [shape : Shapes, table : Tables]
Sources == {<<>>} \cup {<<x>> : x \in Source}
Statement == [with : {"none", "with ", "with\r"}, cte : Tables,
              from : Source, join : Sources, inner : Sources]

Parts(q) == <<q.from>> \o q.join \o q.inner

(* The WITH clause is there if, and only if, the name it defines is used. *)
Statements ==
    {q \in Statement : {x.table : x \in {y \in ToSet(Parts(q)) : y.shape = "cte"}}
                     = (IF q.with = "none" THEN {} ELSE {q.cte})}

Text(x) == CASE x.shape = "plain"  -> <<x.table>>
             [] x.shape = "quoted" -> <<Quote, x.table, Quote>>
             [] x.shape = "sub"    -> <<"(", "select", "*", "from", x.table, ")">>
             [] x.shape = "cte"    -> <<"c">>

SQL(q) ==
    (IF q.with = "none" THEN <<>>
     ELSE <<q.with, "c", "as", "(", "select", "*", "from", q.cte, ")">>)
    \o <<"select", "*", "from">> \o Text(q.from)
    \o (IF q.join = <<>> THEN <<>> ELSE <<"join">> \o Text(q.join[1]) \o <<"on", "x">>)
    \o (IF q.inner = <<>> THEN <<>>
        ELSE <<"where", "x", "in", "(", "select", "*", "from">> \o Text(q.inner[1]) \o <<")">>)

Reads(q) == {x.table : x \in ToSet(Parts(q))}

(* A query over joins, subqueries in the WHERE clause or in the FROM       *)
(* clause, quoted names and common table expressions is filed under every  *)
(* table it reads, or kept out of the caches; and it is kept out only for  *)
(* a source that is not a plain name.  (Left out, because extractTables    *)
(* files them wrongly: comma joins, schema-qualified names, names written  *)
(* in another case than the table's, and comments after FROM.)             *)
TablesAttributed ==
    \A q \in Statements :
      LET tables == extractTables(SQL(q))
      IN /\ tables = {} \/ Reads(q) \subseteq tables
         /\ tables = {} => \E x \in ToSet(Parts(q)) : x.shape # "plain"
=============================================================================
