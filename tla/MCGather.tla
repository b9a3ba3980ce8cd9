------------------------------ MODULE MCGather ------------------------------
(***************************************************************************)
(* A small instance of Gather and ReceiptIntake: one photo and one PDF, the*)
(* photo offered as an attachment and again in a folder, and a body whose  *)
(* print has the bytes of the PDF. Beside it, a long receipt that is read: *)
(* machines that share nothing, one of them at a time.                     *)
(***************************************************************************)
EXTENDS Gather, ReceiptPages, TLC

VARIABLE machine

TwoJobs == 1..2
Kinds == [i \in Items |-> CASE i = "mail" -> "attachment" [] i = "text" -> "body"
                            [] i = "wise" -> "wise" [] OTHER -> "manual"]
Contents == [i \in Items |-> IF i \in {"mail", "copy"} THEN "photo" ELSE "pdf"]
(* bound: two jobs, or one job and one scan                                *)
Few == scans + Cardinality({j \in Jobs : job[j] # None}) <= 2

AnyUpload == Permutations(Uploads)

MCInit ==
  /\ Init /\ PagesInit
  /\ \/ machine = "receipts" /\ plan = "one_pass"
     \/ machine = "pages"

MCNext ==
  \/ machine = "receipts" /\ Next /\ UNCHANGED <<pages, machine>>
  \/ machine = "pages" /\ PagesNext /\ UNCHANGED <<vars, machine>>

MCSpec == MCInit /\ [][MCNext]_<<vars, pages, machine>>
=============================================================================
