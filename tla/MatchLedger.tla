----------------------------- MODULE MatchLedger -----------------------------
(***************************************************************************)
(* The reconciled books of one user: transactions, receipts (documents),   *)
(* the match rows between them, the links between transactions, and the    *)
(* statuses derived from all three. One operator per verb of the API, each *)
(* with everything its handler writes. Reconciliation runs them beside the *)
(* background matcher.                                                     *)
(*                                                                         *)
(* Group ids are left out: a bundle verb works on some set of rows of one  *)
(* transaction. Scores are left out but for what the code asks of them,    *)
(* the grade of a row. A row's id is what the code holds on to; see Unheld *)
(* in Reconciliation for when an id may be used again.                     *)
(***************************************************************************)
EXTENDS Naturals, FiniteSets

CONSTANTS Txns,   \* transactions rows
          Docs,   \* documents rows
          Rows,   \* reconciliation_matches rows
          FirstTxn, FirstDoc,  \* the statuses import and extraction leave
          HandScores  \* whether a pair made by hand scores over the floor

ASSUME ScopeAssumption ==
  /\ FirstTxn \subseteq {"UNMATCHED", "PENDING_REVIEW"}
  /\ FirstDoc \subseteq {"EXTRACTED", "FLAGGED"}
  /\ HandScores \subseteq BOOLEAN

VARIABLES
  txn,      \* transactions.status, "gone" once deleted
  doc,      \* documents.status, "gone" once deleted
  row,      \* the match rows
  linked,   \* pairs with an active transaction_links row
  unlinked  \* pairs with a USER_REJECTED one

books == <<txn, doc, row, linked, unlinked>>

Preserved == {"IGNORED", "EXCLUDED", "PENDING_REVIEW"}   \* PRESERVED_TXN_STATUSES
Settling == {"auto", "approved"}                         \* SETTLING_MATCH_STATUSES
LiveStatus == Settling \cup {"pending"}                  \* ACTIVE_MATCH_STATUSES
TxnStatus == Preserved \cup {"UNMATCHED", "MATCHED", "LINKED", "gone"}
DocStatus == {"EXTRACTED", "FLAGGED", "MATCHED", "gone"}

(* kind: ONE_TO_ONE, or a part of a bundle or of a split payment. sure:    *)
(* confidence at or over MATCH_CONFIDENCE_FLOOR. manual: match_source.     *)
(* action: user_action, as far as anything reads it.                       *)
NoMatch == [status |-> "none"]
Kinds == {"whole", "part"}
Matches == [txn : Txns, doc : Docs, kind : Kinds, sure : BOOLEAN, manual : BOOLEAN,
            status : LiveStatus \cup {"rejected"},
            action : {"none", "refused", "superseded"}]
Pairs == {p \in SUBSET Txns : Cardinality(p) = 2}

BooksTypeOK ==
  /\ txn \in [Txns -> TxnStatus] /\ doc \in [Docs -> DocStatus]
  /\ row \in [Rows -> Matches \cup {NoMatch}]
  /\ linked \subseteq Pairs /\ unlinked \subseteq Pairs

BooksInit ==
  /\ txn \in [Txns -> FirstTxn] /\ doc \in [Docs -> FirstDoc]
  /\ row = [r \in Rows |-> NoMatch]
  /\ linked = {} /\ unlinked = {}

-----------------------------------------------------------------------------
Live(r) == row[r].status \in LiveStatus
LiveRows == {r \in Rows : Live(r)}
ProofsOf(t) == {r \in LiveRows : row[r].txn = t}
UsesOf(d) == {r \in LiveRows : row[r].doc = d}
RowsOf(T, D) == {r \in Rows : row[r] # NoMatch /\ (row[r].txn \in T \/ row[r].doc \in D)}
TxnsOf(R) == {row[r].txn : r \in R}
DocsOf(R) == {row[r].doc : r \in R}

Proven(t) == \E r \in ProofsOf(t) : row[r].status \in Settling
Proving(d) == \E r \in UsesOf(d) : row[r].status \in Settling
HasLink(t) == \E p \in linked : t \in p

(* idx_matches_dedup and idx_matches_doc_one_to_one                        *)
Unique(rows) ==
  \A r, q \in Rows :
    (r # q /\ rows[r].status \in LiveStatus /\ rows[q].status \in LiveStatus
           /\ rows[r].doc = rows[q].doc) =>
      rows[r].txn # rows[q].txn /\ "part" \in {rows[r].kind, rows[q].kind}

KeepLinks == UNCHANGED <<linked, unlinked>>

(* A statement the indexes refuse fails, and its transaction with it.      *)
Put(rows) == Unique(rows) /\ row' = rows /\ KeepLinks

With(R, f(_)) == [r \in Rows |-> IF r \in R THEN f(row[r]) ELSE row[r]]
Marked(R, s, a) == With(R, LAMBDA m : [m EXCEPT !.status = s, !.action = a])
Without(R) == With(R, LAMBDA m : NoMatch)

(* mutant of DerivedTxn: EXCLUDED is not among the preserved statuses      *)
ForgetsExcluded(t) ==
  IF txn[t] \in {"IGNORED", "PENDING_REVIEW", "gone"}
  THEN IF txn[t] = "IGNORED" /\ HasLink(t)' THEN "LINKED" ELSE txn[t]
  ELSE IF Proven(t)' THEN "MATCHED"
  ELSE IF ProofsOf(t)' # {} THEN txn[t]
  ELSE IF HasLink(t)' THEN "LINKED" ELSE "UNMATCHED"

(* _resync_transaction_statuses, on the rows and links just written        *)
DerivedTxn(t) ==
  IF txn[t] \in Preserved \cup {"gone"}
  THEN IF txn[t] = "IGNORED" /\ HasLink(t)' THEN "LINKED" ELSE txn[t]
  ELSE IF Proven(t)' THEN "MATCHED"
  ELSE IF ProofsOf(t)' # {} THEN txn[t]          \* pending is neutral
  ELSE IF HasLink(t)' THEN "LINKED" ELSE "UNMATCHED"

(* ... once per row of a bundle: LINKED, no longer preserved, is re-derived *)
DerivedPerRow(t, R) ==
  IF Cardinality(R) > 1 /\ txn[t] = "IGNORED" /\ HasLink(t)' /\ Proven(t)'
  THEN "MATCHED" ELSE DerivedTxn(t)

(* _resync_document_statuses                                               *)
DerivedDoc(d) ==
  IF doc[d] = "EXTRACTED" /\ Proving(d)' THEN "MATCHED"
  ELSE IF doc[d] = "MATCHED" /\ UsesOf(d)' = {} THEN "EXTRACTED" ELSE doc[d]

ResyncTxns(T) == txn' = [t \in Txns |-> IF t \in T THEN DerivedTxn(t) ELSE txn[t]]
ResyncDocs(D) == doc' = [d \in Docs |-> IF d \in D THEN DerivedDoc(d) ELSE doc[d]]
Resync(T, D) == ResyncTxns(T) /\ ResyncDocs(D)
ResyncRows(R) == Resync(TxnsOf(R), DocsOf(R))

HereT == {t \in Txns : txn[t] # "gone"}
HereD == {d \in Docs : doc[d] # "gone"}

-----------------------------------------------------------------------------
(* Matches made by hand                                                    *)

Filed(t, proof, kind) ==
  [txn |-> t, doc |-> proof.doc, kind |-> kind, sure |-> proof.sure, manual |-> TRUE,
   status |-> "approved", action |-> "none"]
Proofs == [doc : HereD, sure : HandScores]
Batches(free) == UNION {[R -> Proofs] : R \in SUBSET free \ {{}}}
File(t, batch, kind) ==
  [r \in Rows |-> IF r \in DOMAIN batch THEN Filed(t, batch[r], kind) ELSE row[r]]
DocsIn(batch) == {batch[r].doc : r \in DOMAIN batch}

(* POST /matches/manual of one receipt: alone, or as a split payment       *)
ManualMatch(t, r, proof, kind) ==
  /\ txn[t] \notin {"MATCHED", "gone"}
  /\ kind = "whole" => doc[proof.doc] # "MATCHED"
  /\ Put([row EXCEPT ![r] = Filed(t, proof, kind)])
  /\ Resync({t}, {proof.doc})

(* ... and of several, a database transaction for each                     *)
ManualBundle(t, batch) ==
  /\ txn[t] \notin {"MATCHED", "gone"} /\ Cardinality(DOMAIN batch) > 1
  /\ \A d \in DocsIn(batch) : doc[d] # "MATCHED"
  /\ Put(File(t, batch, "part"))
  /\ txn' = [txn EXCEPT ![t] = DerivedPerRow(t, DOMAIN batch)]
  /\ ResyncDocs(DocsIn(batch))

(* POST /{txn}/proofs: the whole match there is becomes a part first       *)
Parted(t, rows) ==
  [r \in Rows |-> IF r \in ProofsOf(t) THEN [rows[r] EXCEPT !.kind = "part"] ELSE rows[r]]

AddProofs(t, batch) ==
  /\ txn[t] # "gone" /\ \A d \in DocsIn(batch) : UsesOf(d) = {}
  /\ LET several == Cardinality(DOMAIN batch) + Cardinality(ProofsOf(t)) > 1
     IN Put(Parted(t, File(t, batch, IF several THEN "part" ELSE "whole")))
  /\ txn' = [txn EXCEPT ![t] = DerivedPerRow(t, DOMAIN batch)]
  /\ ResyncDocs(DocsIn(batch))

(* ... which stays so when the receipts are then refused (409)             *)
AddNothing(t) ==
  /\ ProofsOf(t) # {} /\ Put(Parted(t, row))
  /\ UNCHANGED <<txn, doc>>

(* mutant of RemoveProof: the statuses are not derived again               *)
RemovesRowOnly(r) ==
  /\ Live(r) /\ Put(Marked({r}, "rejected", "refused"))
  /\ UNCHANGED <<txn, doc>>

(* DELETE of a proof: the last one left of a bundle is whole again         *)
RemoveProof(r) ==
  /\ Live(r)
  /\ LET rest == ProofsOf(row[r].txn) \ {r}
         gone == Marked({r}, "rejected", "refused")
     IN Put([q \in Rows |-> IF rest = {q} THEN [gone[q] EXCEPT !.kind = "whole"] ELSE gone[q]])
  /\ ResyncRows({r})

Reassign(r, q, proof) ==
  /\ Live(r) /\ doc[proof.doc] # "MATCHED"
  /\ Put([Marked({r}, "rejected", "refused") EXCEPT ![q] = Filed(row[r].txn, proof, "whole")])
  /\ Resync({row[r].txn}, {row[r].doc, proof.doc})

-----------------------------------------------------------------------------
(* Review. A bundle verb takes rows of one transaction.                    *)

Together(R) == R # {} /\ Cardinality(TxnsOf(R)) = 1

Approve(R) ==
  /\ R \subseteq LiveRows /\ Together(R) /\ \A r \in R : row[r].status = "pending"
  /\ Put(Marked(R, "approved", "none"))
  /\ txn' = [t \in Txns |-> IF t \in TxnsOf(R) THEN DerivedPerRow(t, R) ELSE txn[t]]
  /\ ResyncDocs(DocsOf(R))

(* with nothing pending in the bundle the row named is approved as it is   *)
ApproveAnyway(r) ==
  /\ row[r].status \in Settling \cup {"rejected"}
  /\ Put(Marked({r}, "approved", "none"))
  /\ ResyncRows({r})

(* reject, and unmatch: both leave a rejection the matcher remembers       *)
Reject(R) ==
  /\ R \subseteq LiveRows /\ Together(R)
  /\ Put(Marked(R, "rejected", "refused"))
  /\ ResyncRows(R)

(* undo: the pair goes back to review, settled if it is over the floor     *)
Revert(r) ==
  /\ row[r].status \in Settling \cup {"rejected"}
  /\ Put(Marked({r}, "pending", "none"))
  /\ LET t == row[r].txn
         d == row[r].doc
         settled == row[r].sure
     IN /\ txn' = [txn EXCEPT ![t] =
              IF settled /\ DerivedTxn(t) \notin Preserved THEN "MATCHED" ELSE DerivedTxn(t)]
        /\ doc' = [doc EXCEPT ![d] =
              IF settled /\ DerivedDoc(d) = "EXTRACTED" THEN "MATCHED" ELSE DerivedDoc(d)]

(* PATCH /{txn}/review writes no user_action                               *)
ReviewApprove(r) ==
  /\ row[r].status = "pending"
  /\ Put(Marked({r}, "approved", row[r].action))
  /\ ResyncRows({r})

(* ... and overwrites what was derived                                     *)
ReviewReject(r) ==
  /\ row[r].status = "pending"
  /\ Put(Marked({r}, "rejected", row[r].action))
  /\ txn' = [txn EXCEPT ![row[r].txn] = "UNMATCHED"]
  /\ doc' = [doc EXCEPT ![row[r].doc] = "EXTRACTED"]

(* POST /reviews/approve-all, over a bar at or above the floor             *)
ApproveAll(R) ==
  /\ R # {} /\ \A r \in R : row[r].status = "pending" /\ row[r].sure
  /\ Put(Marked(R, "approved", "none"))
  /\ UNCHANGED <<txn, doc>>

-----------------------------------------------------------------------------
(* The transaction's own standing                                          *)

ToggleIgnore(t) ==
  /\ txn[t] # "gone"
  /\ txn' = [txn EXCEPT ![t] =
       IF @ \notin {"IGNORED", "EXCLUDED"} THEN "IGNORED"
       ELSE IF ProofsOf(t) # {} THEN "MATCHED"
       ELSE IF HasLink(t) THEN "LINKED" ELSE "UNMATCHED"]
  /\ UNCHANGED <<doc, row>> /\ KeepLinks

(* statement review: the rows named are not real, whatever they are        *)
RejectImport(t) ==
  /\ txn[t] # "gone" /\ txn' = [txn EXCEPT ![t] = "EXCLUDED"]
  /\ UNCHANGED <<doc, row>> /\ KeepLinks

ApproveImport(t) ==
  /\ txn[t] = "PENDING_REVIEW" /\ txn' = [txn EXCEPT ![t] = "UNMATCHED"]
  /\ UNCHANGED <<doc, row>> /\ KeepLinks

-----------------------------------------------------------------------------
(* Links. The trigger refuses one that would close a cycle.                *)

Closed(S) == \A p \in linked : p \cap S # {} => p \subseteq S
Connected(s, t) == \A S \in SUBSET Txns : (s \in S /\ Closed(S)) => t \in S
Acyclic(s, T) == \A t \in T : \A u \in (T \ {t}) \cup {s} : ~Connected(u, t)

(* _insert_link                                                            *)
InsertLinks(P) ==
  /\ linked' = linked \cup P
  /\ txn' = [t \in Txns |-> IF t \in UNION P /\ txn[t] \in {"UNMATCHED", "IGNORED"}
                            THEN "LINKED" ELSE txn[t]]
  /\ UNCHANGED <<doc, row, unlinked>>

(* one anchor and its counterparts: every leg or none                      *)
Link(s, T) ==
  /\ T # {} /\ {s} \cup T \subseteq HereT /\ s \notin T /\ Acyclic(s, T)
  /\ InsertLinks({{s, t} : t \in T})

Unlink(P) ==
  /\ P # {} /\ P \subseteq linked
  /\ linked' = linked \ P /\ unlinked' = unlinked \cup P
  /\ UNCHANGED <<doc, row>> /\ ResyncTxns(UNION P)

(* a rejected link approved after all: the row counts again, the statuses  *)
(* are not derived. An older rejection of the pair may remain.             *)
Relink(p, remembered) ==
  /\ p \in unlinked /\ Acyclic(CHOOSE s \in p : TRUE, {t \in p : t # CHOOSE s \in p : TRUE})
  /\ linked' = linked \cup {p}
  /\ unlinked' = IF remembered THEN unlinked ELSE unlinked \ {p}
  /\ UNCHANGED <<txn, doc, row>>

-----------------------------------------------------------------------------
(* Deletions                                                               *)

(* one receipt, or all of them                                             *)
DeleteDocs(D) ==
  /\ D # {} /\ D \subseteq HereD
  /\ Put(Without(RowsOf({}, D)))
  /\ ResyncTxns(TxnsOf(RowsOf({}, D)))
  /\ doc' = [d \in Docs |-> IF d \in D THEN "gone" ELSE doc[d]]

Partners(T) == (UNION {p \in linked \cup unlinked : p \cap T # {}}) \ T
DropTxns(T) ==
  /\ T # {} /\ T \subseteq HereT
  /\ row' = Without(RowsOf(T, {}))
  /\ linked' = {p \in linked : p \cap T = {}}
  /\ unlinked' = {p \in unlinked : p \cap T = {}}

(* mutant of DeleteStatement: a receipt still used elsewhere is released   *)
ReleasesShared(T) ==
  /\ DropTxns(T)
  /\ txn' = [t \in Txns |->
       IF t \in T THEN "gone"
       ELSE IF t \in Partners(T) /\ txn[t] \in {"LINKED", "MATCHED"}
               /\ ~HasLink(t)' /\ ProofsOf(t)' = {} THEN "UNMATCHED" ELSE txn[t]]
  /\ doc' = [d \in Docs |->
       IF d \in DocsOf(RowsOf(T, {})) /\ doc[d] = "MATCHED" THEN "EXTRACTED" ELSE doc[d]]

(* DELETE /source-files: the transactions of one statement, with a rule of *)
(* its own for their partners and receipts                                 *)
DeleteStatement(T) ==
  /\ DropTxns(T)
  /\ txn' = [t \in Txns |->
       IF t \in T THEN "gone"
       ELSE IF t \in Partners(T) /\ txn[t] \in {"LINKED", "MATCHED"}
               /\ ~HasLink(t)' /\ ProofsOf(t)' = {} THEN "UNMATCHED" ELSE txn[t]]
  /\ doc' = [d \in Docs |->
       IF d \in DocsOf(RowsOf(T, {})) /\ doc[d] = "MATCHED" /\ UsesOf(d)' = {}
       THEN "EXTRACTED" ELSE doc[d]]

(* mutant of ReplaceStatement: the partners of its links are forgotten     *)
ForgetsPartners(T) ==
  /\ DropTxns(T)
  /\ txn' = [t \in Txns |-> IF t \in T THEN "gone" ELSE txn[t]]
  /\ ResyncDocs(DocsOf(RowsOf(T, {})))

(* replaced by a re-upload: delete_transactions_by_source_file             *)
ReplaceStatement(T) ==
  /\ DropTxns(T)
  /\ txn' = [t \in Txns |-> IF t \in T THEN "gone"
                            ELSE IF t \in Partners(T) THEN DerivedTxn(t) ELSE txn[t]]
  /\ ResyncDocs(DocsOf(RowsOf(T, {})))

ReleaseAllDocs == doc' = [d \in Docs |-> IF doc[d] = "MATCHED" THEN "EXTRACTED" ELSE doc[d]]

(* POST /source-files/clear-all                                            *)
ClearStatements ==
  /\ HereT # {} /\ row' = Without(Rows) /\ linked' = {} /\ unlinked' = {}
  /\ txn' = [t \in Txns |-> "gone"] /\ ReleaseAllDocs

(* POST /reconciliation/reset-and-start, before the run it starts          *)
Reset ==
  /\ row' = Without(Rows) /\ linked' = {} /\ unlinked' = {}
  /\ txn' = [t \in Txns |->
       IF txn[t] \in {"MATCHED", "IGNORED", "LINKED"} THEN "UNMATCHED" ELSE txn[t]]
  /\ ReleaseAllDocs

-----------------------------------------------------------------------------
(* repair_status_drift, the sweep at startup                               *)

(* mutant of RepairedTxn: no rule for MATCHED with nothing behind it       *)
LeavesStranded(t) ==
  IF txn[t] = "LINKED" /\ ~HasLink(t) /\ ProofsOf(t) = {} THEN "UNMATCHED"
  ELSE IF txn[t] \notin Preserved \cup {"gone"} /\ Proven(t) THEN "MATCHED"
  ELSE IF txn[t] = "IGNORED" /\ HasLink(t) THEN "LINKED" ELSE txn[t]

RepairedTxn(t) ==
  IF txn[t] = "MATCHED" /\ ProofsOf(t) = {}
  THEN IF HasLink(t) THEN "LINKED" ELSE "UNMATCHED"
  ELSE IF txn[t] = "LINKED" /\ ~HasLink(t) /\ ProofsOf(t) = {} THEN "UNMATCHED"
  ELSE IF txn[t] \notin Preserved \cup {"gone"} /\ Proven(t) THEN "MATCHED"
  ELSE IF txn[t] = "IGNORED" /\ HasLink(t) THEN "LINKED" ELSE txn[t]

RepairedDoc(d) ==
  IF doc[d] = "MATCHED" /\ UsesOf(d) = {} THEN "EXTRACTED"
  ELSE IF doc[d] = "EXTRACTED" /\ Proving(d) THEN "MATCHED" ELSE doc[d]

Repair ==
  /\ txn' = [t \in Txns |-> RepairedTxn(t)] /\ doc' = [d \in Docs |-> RepairedDoc(d)]
  /\ UNCHANGED row /\ KeepLinks
=============================================================================
