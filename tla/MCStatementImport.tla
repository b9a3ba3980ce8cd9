-------------------------- MODULE MCStatementImport --------------------------
(***************************************************************************)
(* A small instance of StatementImport: two statements that share one      *)
(* charge, as two months exported in one file and one month alone do.      *)
(***************************************************************************)
EXTENDS StatementImport, TLC

TwoJobs == 1..2
AnyUpload == Permutations(Uploads)
Overlapping == [b \in Bytes |-> IF b = "march" THEN {1} ELSE {1, 2}]
=============================================================================
