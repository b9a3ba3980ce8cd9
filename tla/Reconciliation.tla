---------------------------- MODULE Reconciliation ----------------------------
(***************************************************************************)
(* The background reconciliation run beside the verbs of MatchLedger.      *)
(*                                                                         *)
(* A handler runs on the event loop from start to end, so handlers are     *)
(* atomic to each other. The run is a thread: it reads the pool, links,    *)
(* stamps, asks the model for pairs and stores them, each in database      *)
(* transactions of their own, and any verb may come between two of them.   *)
(* It works on what it read, and names match rows by id.                   *)
(***************************************************************************)
EXTENDS MatchLedger

CONSTANT MaxVerbs  \* bound: verbs that come in while one run is going

ASSUME VerbsAssumption == MaxVerbs \in Nat

VARIABLE run  \* the run: the step it is at and what it has read

vars == <<books, run>>

NoPair == [status |-> "none"]
Found == [txn : Txns, doc : Docs, sure : BOOLEAN, flagged : BOOLEAN,
          status : {"auto", "pending"}]
Steps == {"idle", "linking", "stamping", "matching", "storing", "displacing",
          "settling txn", "settling doc", "linking all"}

NoRun == [at |-> "idle", txns |-> {}, docs |-> {}, pairs |-> {}, refused |-> {},
          seen |-> [r \in Rows |-> NoMatch], now |-> NoPair, out |-> {}, verbs |-> 0]

RunStates ==
  [at : Steps, txns : SUBSET Txns, docs : SUBSET Docs, pairs : SUBSET Pairs,
   refused : SUBSET (Txns \X Docs), seen : [Rows -> Matches \cup {NoMatch}],
   now : Found \cup {NoPair}, out : SUBSET Rows, verbs : 0..MaxVerbs]

TypeOK == BooksTypeOK /\ run \in RunStates

Init == BooksInit /\ run = NoRun

(* Row ids nobody has or remembers: PostgreSQL never gives one out twice.  *)
Unheld == {r \in Rows : row[r] = NoMatch /\ run.seen[r] = NoMatch /\ r \notin run.out}

At(step) == run.at = step
Go(step) == run' = [run EXCEPT !.at = step]
KeepBooks == UNCHANGED books

-----------------------------------------------------------------------------
(* POST /start claims the run (_try_claim_run); the thread takes its        *)
(* advisory lock and reads the pool. (A verb between the two is one before  *)
(* the claim.)                                                             *)
Begin(txns, docs) ==
  run' = IF txns = {} /\ docs = {} THEN NoRun
         ELSE [run EXCEPT !.at = "linking", !.txns = txns, !.docs = docs, !.verbs = MaxVerbs,
                 !.pairs = {p \in Pairs \ unlinked' : \A t \in p :
                              txn'[t] \in {"UNMATCHED", "IGNORED"} /\ ~HasLink(t)'}]
ReadPool == Begin({t \in Txns : txn'[t] = "UNMATCHED"}, {d \in Docs : doc'[d] = "EXTRACTED"})

Start == At("idle") /\ KeepBooks /\ ReadPool

(* POST /reset-and-start                                                   *)
ResetAndStart == At("idle") /\ Reset /\ ReadPool

(* The claim goes stale when a model call keeps the run quiet for ten      *)
(* minutes: the books are reset under it, and the run that was to follow   *)
(* finds the advisory lock taken.                                          *)
ResetUnderRun == run.at \in {"matching", "linking all"} /\ Reset /\ UNCHANGED run

(* One pair the linker found among those it read; the trigger, the index   *)
(* or the foreign key may refuse it by now. A linked row leaves the pool.  *)
LinkFound(p) ==
  /\ run.at \in {"linking", "linking all"} /\ p \in run.pairs
  /\ p \subseteq HereT /\ \E s \in p : Acyclic(s, p \ {s})
  /\ InsertLinks({p})
  /\ run' = [run EXCEPT !.pairs = @ \ {p}, !.txns = @ \ p]

EndLinking ==
  /\ At("linking") /\ run' = [run EXCEPT !.at = "stamping", !.pairs = {}]
  /\ KeepBooks

(* A description that speaks for itself: IGNORED, whatever it is by now    *)
StampIgnored(t) ==
  /\ At("stamping") /\ t \in run.txns
  /\ txn' = [txn EXCEPT ![t] = IF @ = "gone" THEN @ ELSE "IGNORED"]
  /\ run' = [run EXCEPT !.txns = @ \ {t}]
  /\ UNCHANGED <<doc, row>> /\ KeepLinks

(* get_user_rejected_pairs, once per run                                   *)
Remembered == {<<row[r].txn, row[r].doc>> :
                 r \in {q \in Rows : row[q] # NoMatch /\ row[q].status = "rejected"
                                                     /\ row[q].action = "refused"}}
ReadRefusals ==
  /\ At("stamping")
  /\ run' = [run EXCEPT !.at = "matching", !.refused = Remembered \cap (run.txns \X run.docs)]
  /\ KeepBooks

(* What was read is of no use when no pair is left to propose, but of the  *)
(* rows about to be displaced.                                             *)
Forget(r) == IF r.txns # {} /\ r.docs # {} THEN r
             ELSE [NoRun EXCEPT !.at = r.at, !.now = r.now, !.out = r.out, !.verbs = r.verbs,
                     !.seen = [q \in Rows |-> IF q \in r.out THEN r.seen[q] ELSE NoMatch]]

(* _store_matches reads once, after the model has answered, the live rows  *)
(* of the transactions and receipts in the proposals                       *)
ReadMatches ==
  /\ At("matching")
  /\ LET read == LiveRows \cap RowsOf(run.txns, run.docs)
     IN run' = Forget([run EXCEPT !.at = "storing",
                 !.seen = [r \in Rows |-> IF r \in read THEN row[r] ELSE NoMatch]])
  /\ KeepBooks

SeenFor(found) ==
  {r \in Rows : /\ run.seen[r] # NoMatch
                /\ (run.seen[r].txn = found.txn \/ run.seen[r].doc = found.doc)}
SeenAs(found) ==
  {r \in SeenFor(found) : run.seen[r].txn = found.txn /\ run.seen[r].doc = found.doc}
(* mutant of Displaceable: a match already settled is displaced too        *)
DisplaceableWeak(r) == ~run.seen[r].manual /\ ~run.seen[r].sure
Displaceable(r) == run.seen[r].status = "pending" /\ ~run.seen[r].manual /\ ~run.seen[r].sure

(* A transaction and a receipt are each in one proposal of the run at most *)
Proposed(found) ==
  /\ At("storing") /\ found.txn \in run.txns /\ found.doc \in run.docs
  /\ <<found.txn, found.doc>> \notin run.refused
  /\ ~found.sure => found.flagged
  /\ found.flagged => found.status = "pending"

Taken(found) == [run EXCEPT !.now = found, !.txns = @ \ {found.txn}, !.docs = @ \ {found.doc}]
Stored(found, r) == Forget(IF found.flagged THEN [r EXCEPT !.at = "storing", !.now = NoPair]
                           ELSE [r EXCEPT !.at = "settling txn"])

(* The pair is on file for review: its row is scored again, by id          *)
Refresh(found, r) ==
  /\ Proposed(found) /\ r \in SeenAs(found) /\ run.seen[r].status = "pending"
  /\ LET fresh == [row[r] EXCEPT !.status = found.status, !.sure = found.sure]
     IN Put(IF row[r] = NoMatch THEN row ELSE [row EXCEPT ![r] = fresh])
  /\ run' = Stored(found, [Taken(found) EXCEPT
                           !.seen[r] = [@ EXCEPT !.status = found.status, !.sure = found.sure]])
  /\ UNCHANGED <<txn, doc>>

(* It is settled, or some row that holds either side cannot be displaced   *)
(* (or is not beaten by the margin)                                        *)
NotStored(found) ==
  /\ Proposed(found) /\ SeenFor(found) # {}
  /\ \A r \in SeenAs(found) : run.seen[r].status # "pending"
  /\ run' = Forget([Taken(found) EXCEPT !.now = NoPair])
  /\ KeepBooks

(* Every competitor is weak, unreviewed and beaten                         *)
Displace(found) ==
  /\ Proposed(found) /\ SeenAs(found) = {} /\ \A r \in SeenFor(found) : Displaceable(r)
  /\ run' = Forget([Taken(found) EXCEPT !.at = "displacing", !.out = SeenFor(found)])
  /\ KeepBooks

(* supersede_match, by id                                                  *)
Supersede(r) ==
  /\ At("displacing") /\ r \in run.out
  /\ run' = Forget([run EXCEPT !.out = @ \ {r}, !.seen[r].status = "rejected"])
  /\ IF row[r] = NoMatch THEN KeepBooks
     ELSE /\ Put(Marked({r}, "rejected", "superseded")) /\ ResyncRows({r})

(* insert_match, under the indexes and the foreign keys                    *)
Insert(r) ==
  /\ At("displacing") /\ run.out = {} /\ r \in Unheld
  /\ run.now.txn \in HereT /\ run.now.doc \in HereD
  /\ Put([row EXCEPT ![r] =
       [txn |-> run.now.txn, doc |-> run.now.doc, kind |-> "whole", sure |-> run.now.sure,
        manual |-> FALSE, status |-> run.now.status, action |-> "none"]])
  /\ run' = Stored(run.now, run)
  /\ UNCHANGED <<txn, doc>>

(* _settle: two more transactions that look at nothing                     *)
SettleTxn ==
  /\ At("settling txn")
  /\ txn' = [txn EXCEPT ![run.now.txn] = IF @ = "gone" THEN @ ELSE "MATCHED"]
  /\ Go("settling doc") /\ UNCHANGED <<doc, row>> /\ KeepLinks

SettleDoc ==
  /\ At("settling doc")
  /\ doc' = [doc EXCEPT ![run.now.doc] = IF @ = "gone" THEN @ ELSE "MATCHED"]
  /\ run' = [run EXCEPT !.at = "storing", !.now = NoPair]
  /\ UNCHANGED <<txn, row>> /\ KeepLinks

(* The fourth pass: every pair of transactions without an active link      *)
FourthPass ==
  /\ At("storing")
  /\ run' = [NoRun EXCEPT !.at = "linking all", !.verbs = run.verbs,
               !.pairs = {p \in Pairs \ unlinked : p \subseteq HereT /\ \A t \in p : ~HasLink(t)}]
  /\ KeepBooks

(* done; a run scoped to one statement has no fourth pass                  *)
Finish ==
  /\ run.at \in {"storing", "linking all"} /\ run' = NoRun
  /\ KeepBooks

(* The thread dies of an exception: a statement the indexes or the foreign *)
(* keys refuse, a lost connection                                          *)
Fail == ~At("idle") /\ run' = NoRun /\ KeepBooks

Restart == run' = NoRun /\ Repair

-----------------------------------------------------------------------------
Verb == IF At("idle") THEN UNCHANGED run
        ELSE run.verbs > 0 /\ run' = [run EXCEPT !.verbs = @ - 1]
(* the verbs refused while a run is going                                  *)
Guarded == At("idle") /\ Verb

Books ==
  \/ Guarded /\ \E t \in Txns, r \in Unheld, p \in Proofs, k \in Kinds : ManualMatch(t, r, p, k)
  \/ Guarded /\ \E t \in Txns, b \in Batches(Unheld) : ManualBundle(t, b)
  \/ Guarded /\ \E r \in Rows, q \in Unheld, p \in Proofs : Reassign(r, q, p)
  \/ Verb /\ \E t \in Txns, b \in Batches(Unheld) : AddProofs(t, b)
  \/ Verb /\ \E t \in Txns : AddNothing(t) \/ ToggleIgnore(t) \/ RejectImport(t) \/ ApproveImport(t)
  \/ Verb /\ \E r \in Rows : \/ RemoveProof(r) \/ ApproveAnyway(r) \/ Revert(r)
                             \/ ReviewApprove(r) \/ ReviewReject(r)
  \/ Verb /\ \E R \in SUBSET Rows : Approve(R) \/ Reject(R) \/ ApproveAll(R)
  \/ Verb /\ \E s \in Txns, T \in SUBSET Txns : Link(s, T)
  \/ Verb /\ \E P \in SUBSET linked : Unlink(P)
  \/ Verb /\ \E p \in unlinked, b \in BOOLEAN : Relink(p, b)
  \/ Verb /\ ((\E d \in Docs : DeleteDocs({d})) \/ DeleteDocs(HereD))
  \/ Verb /\ \E T \in SUBSET Txns : DeleteStatement(T) \/ ReplaceStatement(T)
  \/ Verb /\ ClearStatements

Store ==
  \/ \E f \in Found : NotStored(f) \/ Displace(f) \/ \E r \in Rows : Refresh(f, r)
  \/ \E r \in Rows : Supersede(r) \/ Insert(r)
  \/ SettleTxn \/ SettleDoc

Next ==
  \/ Books \/ Store
  \/ Start \/ ResetAndStart \/ ResetUnderRun
  \/ EndLinking \/ ReadRefusals \/ ReadMatches \/ FourthPass \/ Finish
  \/ \E p \in Pairs : LinkFound(p)
  \/ \E t \in Txns : StampIgnored(t)
  \/ Fail \/ Restart

Spec == Init /\ [][Next]_vars

-----------------------------------------------------------------------------
(* A transaction shown as reconciled with no receipt behind it.            *)
Stranded(t) == txn[t] = "MATCHED" /\ ProofsOf(t) = {}

(* "Status MATCHED, zero proofs is a state no caller can observe"          *)
(* (database_pg.py, _resync_transaction_statuses)                          *)
NeverStranded == \A t \in Txns : ~Stranded(t)

(* EXCLUDED, money that is not real, is brought back by the user's toggle  *)
(* or overwritten by the writes that look at nothing (the run's, and the   *)
(* review endpoint's rejection). No derivation and no sweep does it.       *)
ExclusionStands ==
  [][\A t \in Txns : (txn[t] = "EXCLUDED" /\ txn'[t] \notin {"EXCLUDED", "gone"}) =>
       \/ ToggleIgnore(t) \/ StampIgnored(t) \/ SettleTxn
       \/ \E r \in Rows : ReviewReject(r)]_vars

(* A receipt that an approved row proves with is not handed back to the    *)
(* pool, but by the review endpoint's rejection of another of its rows.    *)
ReceiptKept ==
  [][\A d \in Docs : (doc[d] = "MATCHED" /\ doc'[d] = "EXTRACTED" /\ Proving(d)') =>
       \E r \in Rows : ReviewReject(r)]_vars

(* After the sweep at startup nothing is stranded, and the request path    *)
(* would derive the statuses the sweep left, but for a transaction with    *)
(* both a proof and a link, which it may leave LINKED.                     *)
SweepAgrees ==
  [][Restart =>
       /\ \A t \in Txns : LET s == txn'[t] IN
            /\ s = "MATCHED" => ProofsOf(t)' # {}
            /\ s = "UNMATCHED" => ~Proven(t)'
            /\ s = "LINKED" => HasLink(t)' \/ (ProofsOf(t)' # {} /\ ~Proven(t)')
            /\ s = "IGNORED" => ~HasLink(t)'
       /\ \A d \in Docs : /\ doc'[d] = "MATCHED" => UsesOf(d)' # {}
                          /\ doc'[d] = "EXTRACTED" => ~Proving(d)']_vars
=============================================================================
