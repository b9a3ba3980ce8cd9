-------------------------- MODULE MCCategorization --------------------------
(* Two rows: a line of the supplier "acme", and a line that names nobody   *)
(* and may be matched with a receipt of the same supplier. The match is    *)
(* approved at first, so that the two rows are one cluster until it is     *)
(* rejected, or cannot be read.                                            *)
EXTENDS Categorization

TheVendors == <<"acme", "misc">>
TheLines == [t \in Txns |-> IF t = "bare" THEN None ELSE "acme"]
TheReceipts == [t \in Txns |-> IF t = "bare" THEN "acme" ELSE None]
(* bound: the user does one thing, or one thing goes wrong                *)
Few == (MaxVerbs - left.verbs) + (MaxMishaps - left.mishaps) <= 1
EitherRun == Permutations(Recategorizers)
=============================================================================
