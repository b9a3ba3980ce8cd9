------------------------------- MODULE Reports -------------------------------
(***************************************************************************)
(* What the dashboard, the month page's counts and the record binder say   *)
(* of the books of Reconciliation.                                         *)
(*                                                                         *)
(* A binder reads in several database transactions: the rows, then their   *)
(* proofs, then the links. No handler comes between those of one month,    *)
(* they share the event loop, but the run's thread does: the run may write *)
(* once between the first read (unprimed) and the last (primed). All rows  *)
(* are of one month; names, money, folders and layout are left out.        *)
(***************************************************************************)
EXTENDS Reconciliation

(* EXCLUDED rows are not real: no list and no total has them               *)
Countable(t) == txn[t] \notin {"EXCLUDED", "gone"}
Listed == {t \in Txns : Countable(t)}              \* get_transactions_by_month

-----------------------------------------------------------------------------
(* The counts on the screen                                                *)

(* Resolved: dismissed, or with a live match, or with a live link          *)
Resolved(t) == txn[t] = "IGNORED" \/ ProofsOf(t) # {} \/ HasLink(t)

MonthLine == [total |-> Listed, resolved |-> {t \in Listed : Resolved(t)}]

-----------------------------------------------------------------------------
(* The binder. "read" is what it was given: the status of each row listed, *)
(* the receipts of approved match rows, the links; "lost" are the receipts *)
(* whose bytes do not come.                                                *)

(* mutant of Paths: a match that waits for review counts as a proof        *)
PathsOfLive == [t \in Txns |-> {row[r].doc : r \in ProofsOf(t)}]

Paths == [t \in Txns |-> {row[r].doc : r \in {q \in ProofsOf(t) : row[q].status \in Settling}}]
Statuses == [t \in Listed |-> txn[t]]

Reading(status, paths, links, lost) ==
  [status |-> status, paths |-> paths, lost |-> lost,
   links |-> {p \in links : p \subseteq DOMAIN status}]
Rowset(read) == DOMAIN read.status

Verified(read, t) == read.paths[t] \ read.lost    \* verified_receipt_map

(* a row of index.html, and of a ledger sheet                              *)
HtmlCell(read, t) ==
  IF Verified(read, t) # {} THEN "linked"
  ELSE IF read.status[t] = "MATCHED" THEN "not_archived"
  ELSE IF read.status[t] = "IGNORED" THEN "na" ELSE "none"

XlsxCell(read, t) ==
  IF Verified(read, t) # {} THEN "file"
  ELSE IF read.paths[t] # {} THEN "name only"
  ELSE IF read.status[t] = "LINKED" THEN "transfers"
  ELSE IF read.status[t] = "IGNORED" THEN "na" ELSE "missing"

(* its pairs on the Transfers sheet                                        *)
Transfers(read, t) == {p \in read.links : t \in p}

(* binder_proof_counts, in the README and in index.html                    *)
Class(read, t) ==
  IF Verified(read, t) # {} THEN "with_proof"
  ELSE CASE read.status[t] = "MATCHED" -> "matched_no_proof_file"
         [] read.status[t] = "LINKED" -> "linked_to_transfer"
         [] read.status[t] = "PENDING_REVIEW" -> "pending_review"
         [] read.status[t] = "IGNORED" -> "no_receipt_needed"
         [] OTHER -> "no_document"

(* _missing_proof_rows: the README's reason for each MATCHED row without   *)
MissingProof(read, t) ==
  IF read.status[t] # "MATCHED" \/ Verified(read, t) # {} THEN "nothing missing"
  ELSE IF read.paths[t] = {} THEN "no match record" ELSE "file gone"

(* all that a binder says of one row                                       *)
Line(read, t) == [class |-> Class(read, t), html |-> HtmlCell(read, t), xlsx |-> XlsxCell(read, t),
                  missing |-> MissingProof(read, t), transfers |-> Transfers(read, t)]

(* A month's binder when the run writes between its first and second read, *)
(* or between its second and third.                                        *)
MonthBinders(lost) ==
  {Reading(Statuses, Paths', linked', lost), Reading(Statuses, Paths, linked', lost)}

(* what one that reads all at once would have been given, before or after  *)
Whole(lost) == Reading(Statuses, Paths, linked, lost)

RunWrites ==
  /\ ~At("idle") /\ books' # books
  /\ (\E p \in Pairs : LinkFound(p)) \/ (\E t \in Txns : StampIgnored(t)) \/ Store

(* the workbook's Summary goes by the status alone                         *)
Documented(t) == txn[t] \in {"MATCHED", "LINKED"}

-----------------------------------------------------------------------------
(* What the workbook counts as documented, from the status column alone,   *)
(* the dashboard and the month's line count as resolved, from the match    *)
(* and link rows: every verb that takes a match or a link away re-derives  *)
(* the status with it. Only the run's late write of MATCHED (_settle)      *)
(* breaks this.                                                            *)
Overstated(t) == Documented(t) /\ t \notin MonthLine.resolved
DocumentedIsResolved ==
  [][/\ TypeOK'
     /\ \A t \in Txns : (Overstated(t)' /\ ~Overstated(t)) => SettleTxn /\ run.now.txn = t]_vars

(* The two writes of the run that tear a row: a link, stored when the row  *)
(* was read as free of one, and the displacement of a match that was still *)
(* under review when the run read it and has been approved since.          *)
Torn(t) ==
  \/ \E p \in Pairs : t \in p /\ LinkFound(p)
  \/ \E r \in Rows : /\ Supersede(r) /\ row[r].status \in Settling /\ row[r].txn = t
                    /\ run.seen[r].status = "pending"

(* A binder shows every row as the books had it at some moment, before the *)
(* run's write or after it, although it read statuses, proofs and links    *)
(* apart (download_binder): no row is called matched without a proof, or   *)
(* left without a document, that never was. But for the writes above.      *)
NoRowIsTorn ==
  [][RunWrites => \A lost \in SUBSET Docs : \A read \in MonthBinders(lost) : \A t \in Listed :
       Line(read, t) \in {Line(Whole(lost), t), Line(Whole(lost), t)'} \/ Torn(t)]_vars
=============================================================================
