--------------------------- MODULE MCDocumentQueue ---------------------------
(***************************************************************************)
(* Small instances of DocumentQueue for TLC.                               *)
(***************************************************************************)
EXTENDS DocumentQueue

TwoJobs == 1..2
=============================================================================
