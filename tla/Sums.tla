-------------------------------- MODULE Sums --------------------------------
(***************************************************************************)
(* Sums of amounts over a finite set.  An amount is counted unit by unit:  *)
(* the sum of f over S is the number of units <<x, i>> that the elements   *)
(* of S have, so that what is known of the cardinality of sets is known of *)
(* sums.                                                                   *)
(***************************************************************************)
EXTENDS Integers, FiniteSets

Units(f, S) == UNION {{x} \X (1 .. f[x]) : x \in S}

SumOf(f, S) == Cardinality(Units(f, S))
=============================================================================
