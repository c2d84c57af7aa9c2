------------------------------- MODULE RowSums -------------------------------
(***************************************************************************)
(* SUM(column) over a set of table rows, as the database computes it.      *)
(* The sum is the number of units the rows hold, so that it is additive by *)
(* the laws of cardinality; a row whose column is not positive (a row that *)
(* is missing is written as -1) adds nothing.  The columns summed this way *)
(* are PositiveIntegerFields; SignedTotal is for those that may be         *)
(* negative.                                                               *)
(***************************************************************************)
EXTENDS Integers, FiniteSets

Units(f, K) == UNION {{k} \X (1 .. f[k]) : k \in K}

Total(f, K) == Cardinality(Units(f, K))

SignedTotal(f, K) == Total(f, K) - Total([k \in K |-> -f[k]], K)
=============================================================================
