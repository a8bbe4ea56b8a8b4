------------------------------- MODULE Tables -------------------------------
(***************************************************************************)
(* What PostgreSQL does with the rows of a table, a table being a function  *)
(* from keys to rows.                                                        *)
(***************************************************************************)
EXTENDS Naturals, FiniteSets

(* Rows written, and the table with those written over it.                   *)
Nothing == [x \in {} |-> 0]
one(x, r) == [y \in {x} |-> r]
over(written, f) ==
    [x \in DOMAIN f \cup DOMAIN written |-> IF x \in DOMAIN written THEN written[x] ELSE f[x]]

(* SUM of a column, counted unit by unit.                                    *)
Units(f) == UNION {{x} \X (1 .. f[x]) : x \in DOMAIN f}
Total(f) == Cardinality(Units(f))
=============================================================================
