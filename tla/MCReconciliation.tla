-------------------------- MODULE MCReconciliation --------------------------
(***************************************************************************)
(* Small books for Reconciliation and Reports: interchangeable             *)
(* transactions, receipts and row ids.                                     *)
(***************************************************************************)
EXTENDS Reports, TLC

Interchangeable == Permutations(Txns) \cup Permutations(Docs) \cup Permutations(Rows)
=============================================================================
