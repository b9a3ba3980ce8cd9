----------------------------- MODULE BooksProofs -----------------------------
(***************************************************************************)
(* What the verbs of MatchLedger, the run of Reconciliation and the sweep  *)
(* at startup do to the statuses, for any number of transactions, receipts *)
(* and match rows, and any number of verbs while a run is going.           *)
(***************************************************************************)
EXTENDS Reports, FiniteSetTheorems, TLAPS

-----------------------------------------------------------------------------
(* The types of the books                                                  *)

LEMMA DerivedIsTyped ==
  ASSUME BooksTypeOK
  PROVE  /\ \A t \in Txns : DerivedTxn(t) \in TxnStatus /\ RepairedTxn(t) \in TxnStatus
         /\ \A t \in Txns : \A R : DerivedPerRow(t, R) \in TxnStatus
         /\ \A d \in Docs : DerivedDoc(d) \in DocStatus /\ RepairedDoc(d) \in DocStatus
BY DEF BooksTypeOK, DerivedTxn, RepairedTxn, DerivedPerRow, DerivedDoc, RepairedDoc, TxnStatus,
       DocStatus, Preserved

LEMMA ResyncIsTyped ==
  ASSUME BooksTypeOK, NEW T, NEW D
  PROVE  /\ ResyncTxns(T) => txn' \in [Txns -> TxnStatus]
         /\ ResyncDocs(D) => doc' \in [Docs -> DocStatus]
BY DerivedIsTyped DEF BooksTypeOK, ResyncTxns, ResyncDocs

LEMMA MarkedIsTyped ==
  ASSUME BooksTypeOK, NEW R, \A r \in R : row[r].status # "none",
         NEW s \in LiveStatus \cup {"rejected"}, NEW a \in {"none", "refused", "superseded"}
  PROVE  Marked(R, s, a) \in [Rows -> Matches \cup {NoMatch}]
<1>1. ASSUME NEW r \in Rows, r \in R
      PROVE  [row[r] EXCEPT !.status = s, !.action = a] \in Matches
  <2>1. row[r] \in Matches
    BY <1>1 DEF BooksTypeOK, NoMatch
  <2>2. QED
    BY <2>1 DEF Matches
<1>2. QED
  BY <1>1 DEF BooksTypeOK, Marked, With

LEMMA WithoutIsTyped ==
  ASSUME BooksTypeOK, NEW R
  PROVE  Without(R) \in [Rows -> Matches \cup {NoMatch}]
BY DEF BooksTypeOK, Without, With

LEMMA FiledIsTyped ==
  ASSUME NEW t \in Txns, NEW p \in Proofs, NEW k \in Kinds
  PROVE  Filed(t, p, k) \in Matches
BY ScopeAssumption DEF Filed, Proofs, HereD, Matches, LiveStatus, Settling

LEMMA FileIsTyped ==
  ASSUME BooksTypeOK, NEW t \in Txns, NEW F, NEW b \in Batches(F), NEW k \in Kinds
  PROVE  /\ File(t, b, k) \in [Rows -> Matches \cup {NoMatch}]
         /\ Parted(t, File(t, b, k)) \in [Rows -> Matches \cup {NoMatch}]
<1>1. File(t, b, k) \in [Rows -> Matches \cup {NoMatch}]
  BY FiledIsTyped DEF File, Batches, BooksTypeOK
<1>2. ASSUME NEW r \in Rows, r \in ProofsOf(t)
      PROVE  [File(t, b, k)[r] EXCEPT !.kind = "part"] \in Matches
  <2>1. File(t, b, k)[r] \in Matches
    BY <1>2, FiledIsTyped
    DEF File, Batches, BooksTypeOK, ProofsOf, LiveRows, Live, LiveStatus, Settling, NoMatch
  <2>2. QED
    BY <2>1 DEF Matches, Kinds
<1>3. QED
  BY <1>1, <1>2 DEF Parted

LEMMA PairsOfLegs ==
  ASSUME NEW s \in Txns, NEW T \in SUBSET Txns, s \notin T
  PROVE  {{s, t} : t \in T} \subseteq Pairs
<1>1. ASSUME NEW t \in T PROVE Cardinality({s, t}) = 2
  <2>1. IsFiniteSet({s}) /\ Cardinality({s}) = 1 /\ t \notin {s} /\ {s, t} = {s} \cup {t}
    BY FS_Singleton
  <2>2. Cardinality({s} \cup {t}) = Cardinality({s}) + 1
    BY <2>1, FS_AddElement
  <2>3. QED
    BY <2>1, <2>2
<1>2. QED
  BY <1>1 DEF Pairs

(* Every verb leaves the books well formed.                                *)
LEMMA VerbsKeepTypes ==
  ASSUME BooksTypeOK, Books
  PROVE  BooksTypeOK'
<1> USE DerivedIsTyped, ResyncIsTyped DEF Resync, ResyncRows, Put, KeepLinks
<1>1. ASSUME NEW t \in Txns, NEW r \in Unheld, NEW p \in Proofs, NEW k \in Kinds,
             ManualMatch(t, r, p, k)
      PROVE  BooksTypeOK'
  BY <1>1, FiledIsTyped DEF ManualMatch, BooksTypeOK, Unheld
<1>2. ASSUME NEW t \in Txns, NEW b \in Batches(Unheld), ManualBundle(t, b) \/ AddProofs(t, b)
      PROVE  BooksTypeOK'
  <2>1. row' \in [Rows -> Matches \cup {NoMatch}]
    BY <1>2, FileIsTyped DEF ManualBundle, AddProofs, Kinds
  <2>2. txn' \in [Txns -> TxnStatus] /\ doc' \in [Docs -> DocStatus]
    BY <1>2 DEF ManualBundle, AddProofs, BooksTypeOK
  <2>3. QED
    BY <1>2, <2>1, <2>2 DEF ManualBundle, AddProofs, BooksTypeOK
<1>3. ASSUME NEW r \in Rows, NEW q \in Unheld, NEW p \in Proofs, Reassign(r, q, p)
      PROVE  BooksTypeOK'
  <2>1. row[r] \in Matches
    BY <1>3 DEF Reassign, Live, LiveStatus, Settling, BooksTypeOK, NoMatch
  <2>2. Marked({r}, "rejected", "refused") \in [Rows -> Matches \cup {NoMatch}]
    BY <1>3, MarkedIsTyped DEF Reassign, Live, LiveStatus, Settling
  <2>3. row' \in [Rows -> Matches \cup {NoMatch}]
    BY <1>3, <2>1, <2>2, FiledIsTyped DEF Reassign, Matches, Kinds
  <2>4. QED
    BY <1>3, <2>3 DEF Reassign, BooksTypeOK
<1>4. ASSUME NEW t \in Txns, AddNothing(t) PROVE BooksTypeOK'
  <2>1. ASSUME NEW r \in Rows, r \in ProofsOf(t)
        PROVE  [row[r] EXCEPT !.kind = "part"] \in Matches
    <3>1. row[r] \in Matches
      BY <2>1 DEF BooksTypeOK, ProofsOf, LiveRows, Live, LiveStatus, Settling, NoMatch
    <3>2. QED
      BY <3>1 DEF Matches, Kinds
  <2>2. QED
    BY <1>4, <2>1 DEF AddNothing, Parted, BooksTypeOK
<1>5. ASSUME NEW t \in Txns, ToggleIgnore(t) \/ RejectImport(t) \/ ApproveImport(t)
      PROVE  BooksTypeOK'
  BY <1>5 DEF ToggleIgnore, RejectImport, ApproveImport, BooksTypeOK, TxnStatus, Preserved
<1>6. ASSUME NEW r \in Rows, RemoveProof(r) PROVE BooksTypeOK'
  <2>1. Marked({r}, "rejected", "refused") \in [Rows -> Matches \cup {NoMatch}]
    BY <1>6, MarkedIsTyped DEF RemoveProof, Live, LiveStatus, Settling
  <2>2. ASSUME NEW q \in ProofsOf(row[r].txn) \ {r}
        PROVE  [Marked({r}, "rejected", "refused")[q] EXCEPT !.kind = "whole"] \in Matches
    <3>1. Marked({r}, "rejected", "refused")[q] = row[q] /\ row[q] \in Matches
      BY <2>2 DEF Marked, With, BooksTypeOK, ProofsOf, LiveRows, Live, LiveStatus, Settling, NoMatch
    <3>2. QED
      BY <3>1 DEF Matches, Kinds
  <2>3. row' \in [Rows -> Matches \cup {NoMatch}]
    BY <1>6, <2>1, <2>2 DEF RemoveProof
  <2>4. QED
    BY <1>6, <2>3 DEF RemoveProof, BooksTypeOK
<1>7. ASSUME NEW r \in Rows, ApproveAnyway(r) PROVE BooksTypeOK'
  <2>1. Marked({r}, "approved", "none") \in [Rows -> Matches \cup {NoMatch}]
    BY <1>7, MarkedIsTyped DEF ApproveAnyway, LiveStatus, Settling
  <2>2. QED
    BY <1>7, <2>1 DEF ApproveAnyway, BooksTypeOK
<1>8. ASSUME NEW r \in Rows, Revert(r) PROVE BooksTypeOK'
  <2>1. Marked({r}, "pending", "none") \in [Rows -> Matches \cup {NoMatch}]
    BY <1>8, MarkedIsTyped DEF Revert, LiveStatus, Settling
  <2>2. row[r].txn \in Txns /\ row[r].doc \in Docs
    BY <1>8 DEF Revert, BooksTypeOK, Matches, NoMatch, Settling
  <2>3. QED
    BY <1>8, <2>1, <2>2 DEF Revert, BooksTypeOK, TxnStatus, DocStatus
<1>9. ASSUME NEW r \in Rows, ReviewApprove(r) \/ ReviewReject(r) PROVE BooksTypeOK'
  <2>1. row[r].action \in {"none", "refused", "superseded"} /\ row[r].status # "none"
    BY <1>9 DEF ReviewApprove, ReviewReject, BooksTypeOK, Matches, NoMatch
  <2>2. /\ Marked({r}, "approved", row[r].action) \in [Rows -> Matches \cup {NoMatch}]
        /\ Marked({r}, "rejected", row[r].action) \in [Rows -> Matches \cup {NoMatch}]
    BY <2>1, MarkedIsTyped DEF LiveStatus, Settling
  <2>3. QED
    BY <1>9, <2>2 DEF ReviewApprove, ReviewReject, BooksTypeOK, TxnStatus, DocStatus
<1>10. ASSUME NEW R \in SUBSET Rows, Approve(R) \/ Reject(R) \/ ApproveAll(R)
       PROVE  BooksTypeOK'
  <2>1. \A r \in R : row[r].status # "none"
    BY <1>10 DEF Approve, Reject, ApproveAll, LiveRows, Live, LiveStatus, Settling
  <2>2. /\ Marked(R, "approved", "none") \in [Rows -> Matches \cup {NoMatch}]
        /\ Marked(R, "rejected", "refused") \in [Rows -> Matches \cup {NoMatch}]
    BY <2>1, MarkedIsTyped DEF LiveStatus, Settling
  <2>3. QED
    BY <1>10, <2>2 DEF Approve, Reject, ApproveAll, BooksTypeOK
<1>11. ASSUME NEW s \in Txns, NEW T \in SUBSET Txns, Link(s, T) PROVE BooksTypeOK'
  BY <1>11, PairsOfLegs DEF Link, InsertLinks, BooksTypeOK, TxnStatus
<1>12. ASSUME NEW P \in SUBSET linked, Unlink(P) PROVE BooksTypeOK'
  BY <1>12 DEF Unlink, BooksTypeOK
<1>13. ASSUME NEW p \in unlinked, NEW b \in BOOLEAN, Relink(p, b) PROVE BooksTypeOK'
  BY <1>13 DEF Relink, BooksTypeOK
<1>14. ASSUME NEW D, DeleteDocs(D) PROVE BooksTypeOK'
  BY <1>14, WithoutIsTyped DEF DeleteDocs, BooksTypeOK, DocStatus
<1>15. ASSUME NEW T \in SUBSET Txns, DeleteStatement(T) \/ ReplaceStatement(T)
       PROVE  BooksTypeOK'
  BY <1>15, WithoutIsTyped
  DEF DeleteStatement, ReplaceStatement, DropTxns, BooksTypeOK, TxnStatus, DocStatus
<1>16. CASE ClearStatements
  BY <1>16, WithoutIsTyped DEF ClearStatements, ReleaseAllDocs, BooksTypeOK, TxnStatus, DocStatus
<1>17. QED
  BY <1>1, <1>2, <1>3, <1>4, <1>5, <1>6, <1>7, <1>8, <1>9, <1>10, <1>11, <1>12, <1>13, <1>14,
     <1>15, <1>16 DEF Books

-----------------------------------------------------------------------------
(* The types of the run                                                    *)

(* A run that is storing a pair has one.                                   *)
Working == run.at \in {"displacing", "settling txn", "settling doc"}
RunHasPair == Working => run.now \in Found
(* The rows it is about to displace were read under review.                *)
OutIsWeak == \A r \in run.out : run.at = "displacing" /\ run.seen[r].status = "pending"

IInv == TypeOK /\ RunHasPair /\ OutIsWeak

LEMMA OutIsEmpty ==
  ASSUME OutIsWeak, run.at # "displacing"
  PROVE  run.out = {}
BY DEF OutIsWeak

LEMMA IdleIsTyped == NoRun \in RunStates /\ NoRun.at = "idle" /\ NoRun.out = {}
<1>1. 0 \in 0..MaxVerbs
  BY VerbsAssumption
<1>2. QED
  BY <1>1 DEF NoRun, RunStates, Steps

LEMMA RestingRun ==
  ASSUME BooksTypeOK', run' \in RunStates, run'.out = {},
         run'.at \in Steps \ {"displacing", "settling txn", "settling doc"}
  PROVE  IInv'
BY DEF IInv, TypeOK, RunHasPair, Working, OutIsWeak

LEMMA InitInvariant == Init => IInv
<1> SUFFICES ASSUME Init PROVE IInv
  OBVIOUS
<1>1. BooksTypeOK
  BY ScopeAssumption DEF Init, BooksInit, BooksTypeOK, TxnStatus, DocStatus, Preserved
<1>2. QED
  BY <1>1, IdleIsTyped DEF Init, IInv, TypeOK, RunHasPair, Working, OutIsWeak, NoRun

LEMMA ForgetIsTyped ==
  ASSUME NEW r \in RunStates
  PROVE  /\ Forget(r) \in RunStates /\ Forget(r).now = r.now /\ Forget(r).at = r.at
         /\ Forget(r).out = r.out /\ \A q \in r.out : Forget(r).seen[q] = r.seen[q]
<1>1. [q \in Rows |-> IF q \in r.out THEN r.seen[q] ELSE NoMatch] \in [Rows -> Matches \cup {NoMatch}]
  BY DEF RunStates
<1>2. QED
  BY <1>1, VerbsAssumption DEF Forget, RunStates, NoRun

LEMMA StoredIsTyped ==
  ASSUME NEW f \in Found, NEW r \in RunStates, r.now = f
  PROVE  /\ Stored(f, r) \in RunStates
         /\ Stored(f, r).at = "settling txn" => Stored(f, r).now = f
         /\ Stored(f, r).at \in {"storing", "settling txn"} /\ Stored(f, r).out = r.out
<1>1. /\ [r EXCEPT !.at = "storing", !.now = NoPair] \in RunStates
      /\ [r EXCEPT !.at = "settling txn"] \in RunStates
  BY DEF RunStates, Steps
<1>2. /\ [r EXCEPT !.at = "storing", !.now = NoPair].at = "storing"
      /\ [r EXCEPT !.at = "storing", !.now = NoPair].out = r.out
      /\ [r EXCEPT !.at = "settling txn"].at = "settling txn"
      /\ [r EXCEPT !.at = "settling txn"].now = f
      /\ [r EXCEPT !.at = "settling txn"].out = r.out
  BY DEF RunStates
<1>3. QED
  BY <1>1, <1>2, ForgetIsTyped DEF Stored

LEMMA TakenIsTyped ==
  ASSUME run \in RunStates, NEW f \in Found
  PROVE  /\ Taken(f) \in RunStates /\ Taken(f).now = f /\ Taken(f).seen = run.seen
         /\ Taken(f).at = run.at /\ Taken(f).out = run.out
BY DEF Taken, RunStates

LEMMA MovedIsTyped ==
  ASSUME NEW s \in RunStates, NEW R \in SUBSET Rows
  PROVE  /\ [s EXCEPT !.now = NoPair] \in RunStates
         /\ [s EXCEPT !.at = "displacing", !.out = R] \in RunStates
BY DEF RunStates, Steps

LEMMA BeginIsTyped ==
  ASSUME run \in RunStates, NEW T \in SUBSET Txns, NEW D \in SUBSET Docs, Begin(T, D)
  PROVE  run' \in RunStates /\ run'.at \in {"idle", "linking"} /\ run'.out \in {{}, run.out}
<1>1. MaxVerbs \in 0..MaxVerbs
  BY VerbsAssumption
<1>2. QED
  BY <1>1, IdleIsTyped DEF Begin, RunStates, Steps, NoRun

-----------------------------------------------------------------------------
(* Every step of the run keeps IInv.                                       *)

LEMMA RunPreserves ==
  ASSUME IInv, Next, ~Books, ~Store
  PROVE  IInv'
<1> USE DEF IInv, TypeOK, RunHasPair, Working, OutIsWeak, KeepBooks, books, At, Go
<1>1. ASSUME KeepBooks \/ UNCHANGED books PROVE BooksTypeOK'
  BY <1>1 DEF BooksTypeOK
<1>2. CASE Start
  <2>1. /\ run' \in RunStates /\ run'.at \in {"idle", "linking"} /\ run'.out \in {{}, run.out}
        /\ BooksTypeOK'
    <3>1. BooksTypeOK' /\ ReadPool
      BY <1>1, <1>2 DEF Start
    <3>2. {t \in Txns : txn'[t] = "UNMATCHED"} \in SUBSET Txns
          /\ {d \in Docs : doc'[d] = "EXTRACTED"} \in SUBSET Docs
      OBVIOUS
    <3>3. QED
      BY ONLY <3>1, <3>2, BeginIsTyped, IInv DEF ReadPool, IInv, TypeOK
  <2>2. run.out = {}
    BY <1>2, OutIsEmpty DEF Start
  <2>3. QED
    BY ONLY <2>1, <2>2, RestingRun DEF Steps
<1>3. CASE ResetAndStart \/ ResetUnderRun
  <2>1. BooksTypeOK'
    BY <1>3, WithoutIsTyped
    DEF ResetAndStart, ResetUnderRun, Reset, ReleaseAllDocs, BooksTypeOK, TxnStatus, DocStatus
  <2>2. QED
    <3>1. CASE ResetAndStart
      <4>1. /\ run' \in RunStates /\ run'.at \in {"idle", "linking"} /\ run'.out \in {{}, run.out}
        BY <3>1, BeginIsTyped DEF ResetAndStart, ReadPool
      <4>2. run.out = {}
        BY <3>1, OutIsEmpty DEF ResetAndStart
      <4>3. QED
        BY ONLY <2>1, <4>1, <4>2, RestingRun DEF Steps
    <3>2. CASE ResetUnderRun
      BY <2>1, <3>2 DEF ResetUnderRun
    <3>3. QED
      BY <1>3, <3>1, <3>2
<1>4. CASE EndLinking
  BY <1>1, <1>4 DEF EndLinking, RunStates, Steps
<1>5. CASE ReadRefusals
  <2>1. run' \in RunStates /\ run'.at = "matching" /\ run'.out = run.out
    BY <1>5 DEF ReadRefusals, RunStates, Steps
  <2>2. QED
    BY <1>1, <1>5, <2>1 DEF ReadRefusals
<1>6. CASE ReadMatches
  <2>1. [run EXCEPT !.at = "storing",
           !.seen = [r \in Rows |-> IF r \in LiveRows \cap RowsOf(run.txns, run.docs)
                                    THEN row[r] ELSE NoMatch]] \in RunStates
    BY <1>6 DEF RunStates, Steps, BooksTypeOK
  <2>2. QED
    BY <1>1, <1>6, <2>1, ForgetIsTyped DEF ReadMatches, RunStates
<1>7. CASE FourthPass
  <2>1. /\ run.verbs \in 0..MaxVerbs /\ "linking all" \in Steps
        /\ {p \in Pairs \ unlinked : p \subseteq HereT /\ \A t \in p : ~HasLink(t)} \in SUBSET Pairs
    BY DEF RunStates, Steps
  <2>2. run' \in RunStates /\ run'.at = "linking all" /\ run'.out = {}
    BY <1>7, <2>1, IdleIsTyped DEF FourthPass, RunStates, NoRun
  <2>3. QED
    BY <1>1, <1>7, <2>2 DEF FourthPass
<1>8. CASE Finish \/ Fail
  <2>1. BooksTypeOK' /\ run' = NoRun
    BY <1>1, <1>8 DEF Finish, Fail
  <2>2. QED
    BY ONLY <2>1, IdleIsTyped, RestingRun DEF Steps
<1>9. ASSUME NEW p \in Pairs, LinkFound(p) PROVE IInv'
  <2>1. run' \in RunStates /\ run'.at = run.at /\ run'.now = run.now /\ run'.out = run.out
    BY <1>9 DEF LinkFound, RunStates
  <2>2. QED
    BY <1>9, <2>1 DEF LinkFound, InsertLinks, BooksTypeOK, TxnStatus
<1>10. ASSUME NEW t \in Txns, StampIgnored(t) PROVE IInv'
  <2>1. run' \in RunStates /\ run'.at = run.at /\ run'.now = run.now /\ run'.out = run.out
    BY <1>10 DEF StampIgnored, RunStates
  <2>2. QED
    BY <1>10, <2>1 DEF StampIgnored, BooksTypeOK, TxnStatus, Preserved, KeepLinks
<1>11. CASE Restart
  BY <1>11, DerivedIsTyped, IdleIsTyped DEF Restart, Repair, BooksTypeOK, KeepLinks, NoRun
<1>12. QED
  BY <1>2, <1>3, <1>4, <1>5, <1>6, <1>7, <1>8, <1>9, <1>10, <1>11 DEF Next

LEMMA StorePreserves ==
  ASSUME IInv, Store
  PROVE  IInv'
<1> USE DEF IInv, TypeOK, RunHasPair, Working, OutIsWeak, KeepBooks, books, At, Go
<1>0. ASSUME KeepBooks PROVE BooksTypeOK'
  BY <1>0 DEF BooksTypeOK
<1>1. ASSUME NEW f \in Found, NotStored(f) \/ Displace(f) PROVE IInv'
  <2>1. /\ [Taken(f) EXCEPT !.now = NoPair] \in RunStates
        /\ [Taken(f) EXCEPT !.at = "displacing", !.out = SeenFor(f)] \in RunStates
    <3>1. Taken(f) \in RunStates /\ SeenFor(f) \in SUBSET Rows
      BY TakenIsTyped DEF SeenFor
    <3>2. QED
      BY ONLY <3>1, MovedIsTyped
  <2>2. /\ [Taken(f) EXCEPT !.now = NoPair].at = run.at
        /\ [Taken(f) EXCEPT !.now = NoPair].out = run.out
        /\ [Taken(f) EXCEPT !.at = "displacing", !.out = SeenFor(f)].at = "displacing"
        /\ [Taken(f) EXCEPT !.at = "displacing", !.out = SeenFor(f)].now = f
        /\ [Taken(f) EXCEPT !.at = "displacing", !.out = SeenFor(f)].out = SeenFor(f)
        /\ [Taken(f) EXCEPT !.at = "displacing", !.out = SeenFor(f)].seen = run.seen
    BY DEF Taken, RunStates
  <2>3. CASE NotStored(f)
    <3>1. run' \in RunStates /\ run'.at = "storing" /\ run'.out = run.out
      BY <2>1, <2>2, <2>3, ForgetIsTyped DEF NotStored, Proposed
    <3>2. run.out = {}
      BY <2>3, OutIsEmpty DEF NotStored, Proposed
    <3>3. QED
      BY <2>3, <3>1, <3>2, <1>0 DEF NotStored
  <2>4. CASE Displace(f)
    <3>1. run' \in RunStates /\ run'.now = f /\ run'.at = "displacing" /\ run'.out = SeenFor(f)
          /\ \A q \in SeenFor(f) : run'.seen[q] = run.seen[q]
      <4> DEFINE moved == [Taken(f) EXCEPT !.at = "displacing", !.out = SeenFor(f)]
      <4>1. /\ moved \in RunStates /\ moved.at = "displacing" /\ moved.now = f
            /\ moved.out = SeenFor(f) /\ moved.seen = run.seen
        BY <2>1, <2>2
      <4>2. run' = Forget(moved)
        BY <2>4 DEF Displace
      <4> HIDE DEF moved
      <4>3. QED
        BY ONLY <4>1, <4>2, ForgetIsTyped
    <3>2. \A q \in SeenFor(f) : run.seen[q].status = "pending"
      BY <2>4 DEF Displace, Displaceable
    <3>3. QED
      BY <2>4, <3>1, <3>2, <1>0 DEF Displace
  <2>5. QED
    BY <1>1, <2>3, <2>4
<1>2. ASSUME NEW f \in Found, NEW r \in Rows, Refresh(f, r) PROVE IInv'
  <2>1. [Taken(f) EXCEPT !.seen[r] = [@ EXCEPT !.status = f.status, !.sure = f.sure]] \in RunStates
    <3>1. run.seen[r] \in Matches
      BY <1>2 DEF Refresh, SeenAs, SeenFor, RunStates
    <3>2. [run.seen[r] EXCEPT !.status = f.status, !.sure = f.sure] \in Matches
      BY <3>1 DEF Matches, Found, LiveStatus, Settling
    <3>3. Taken(f) \in RunStates /\ Taken(f).seen = run.seen
      BY TakenIsTyped
    <3>4. QED
      BY ONLY <3>2, <3>3 DEF RunStates
  <2>2. row' \in [Rows -> Matches \cup {NoMatch}]
    <3> DEFINE fresh == [row[r] EXCEPT !.status = f.status, !.sure = f.sure]
    <3>1. row \in [Rows -> Matches \cup {NoMatch}]
      BY DEF BooksTypeOK
    <3>2. row' = (IF row[r] = NoMatch THEN row ELSE [row EXCEPT ![r] = fresh])
      BY <1>2 DEF Refresh, Put
    <3>3. f.status \in LiveStatus \cup {"rejected"} /\ f.sure \in BOOLEAN
      BY DEF Found, LiveStatus, Settling
    <3>4. row[r] # NoMatch => fresh \in Matches
      <4>1. row[r] \in Matches \cup {NoMatch}
        BY <3>1
      <4>2. QED
        BY ONLY <3>3, <4>1 DEF Matches
    <3> HIDE DEF fresh
    <3>5. QED
      BY ONLY <3>1, <3>2, <3>4
  <2>3. [Taken(f) EXCEPT !.seen[r] = [@ EXCEPT !.status = f.status, !.sure = f.sure]].now = f
        /\ [Taken(f) EXCEPT !.seen[r] = [@ EXCEPT !.status = f.status, !.sure = f.sure]].out = run.out
    BY TakenIsTyped DEF RunStates
  <2>4. run' \in RunStates /\ (run'.at = "settling txn" => run'.now = f)
        /\ run'.at \in {"storing", "settling txn"} /\ run'.out = run.out
    BY <1>2, <2>1, <2>3, StoredIsTyped DEF Refresh
  <2>5. run.out = {}
    BY <1>2, OutIsEmpty DEF Refresh, Proposed
  <2>6. QED
    BY <1>2, <2>2, <2>4, <2>5 DEF Refresh, Put, KeepLinks, BooksTypeOK
<1>3. ASSUME NEW r \in Rows, Supersede(r) PROVE IInv'
  <2> DEFINE fewer == [run EXCEPT !.out = @ \ {r}, !.seen[r].status = "rejected"]
  <2>1. /\ run' \in RunStates /\ run'.at = run.at /\ run'.now = run.now
        /\ run'.out = run.out \ {r} /\ \A q \in run.out \ {r} : run'.seen[q] = run.seen[q]
    <3>1. run.seen[r] \in Matches
      BY <1>3 DEF Supersede, RunStates, NoMatch
    <3>2. [run.seen[r] EXCEPT !.status = "rejected"] \in Matches
      BY <3>1 DEF Matches
    <3>3. /\ fewer \in RunStates /\ fewer.at = run.at /\ fewer.now = run.now
          /\ fewer.out = run.out \ {r} /\ \A q \in run.out \ {r} : fewer.seen[q] = run.seen[q]
      BY <3>2 DEF RunStates
    <3> HIDE DEF fewer
    <3>4. run' = Forget(fewer)
      BY <1>3 DEF Supersede, fewer
    <3>5. QED
      BY <3>3, <3>4, ForgetIsTyped
  <2> HIDE DEF fewer
  <2>2. CASE row[r] = NoMatch
    BY <1>3, <2>1, <2>2 DEF Supersede, BooksTypeOK
  <2>3. CASE row[r] # NoMatch
    <3>1. Marked({r}, "rejected", "superseded") \in [Rows -> Matches \cup {NoMatch}]
      BY <2>3, MarkedIsTyped DEF BooksTypeOK, Matches, LiveStatus, Settling
    <3>2. QED
      BY <1>3, <2>1, <2>3, <3>1, ResyncIsTyped
      DEF Supersede, Put, KeepLinks, Resync, ResyncRows, BooksTypeOK
  <2>4. QED
    BY <2>2, <2>3
<1>4. ASSUME NEW r \in Rows, Insert(r) PROVE IInv'
  <2>1. run.now \in Found
    BY <1>4 DEF Insert
  <2>2. row' \in [Rows -> Matches \cup {NoMatch}]
    BY <1>4, <2>1
    DEF Insert, Put, BooksTypeOK, Matches, Found, Kinds, LiveStatus, Settling
  <2>3. QED
    BY <1>4, <2>1, <2>2, StoredIsTyped DEF Insert, Put, KeepLinks, BooksTypeOK
<1>5. CASE SettleTxn
  BY <1>5 DEF SettleTxn, KeepLinks, BooksTypeOK, TxnStatus, RunStates, Steps
<1>6. CASE SettleDoc
  BY <1>6 DEF SettleDoc, KeepLinks, BooksTypeOK, DocStatus, RunStates, Steps
<1>7. QED
  BY <1>1, <1>2, <1>3, <1>4, <1>5, <1>6 DEF Store

LEMMA BooksPreserve ==
  ASSUME IInv, Books
  PROVE  IInv'
<1>1. BooksTypeOK'
  BY VerbsKeepTypes DEF IInv, TypeOK
<1>2. /\ run' \in RunStates /\ run'.at = run.at /\ run'.now = run.now
      /\ run'.out = run.out /\ run'.seen = run.seen
  <2>1. Verb
    BY DEF Books, Guarded
  <2>2. QED
    BY <2>1, VerbsAssumption DEF Verb, IInv, TypeOK, RunStates
<1>3. QED
  BY <1>1, <1>2 DEF IInv, TypeOK, RunHasPair, Working, OutIsWeak

LEMMA StepInvariant == IInv /\ [Next]_vars => IInv'
<1> SUFFICES ASSUME IInv, [Next]_vars PROVE IInv'
  OBVIOUS
<1>1. CASE Next
  BY <1>1, BooksPreserve, StorePreserves, RunPreserves
<1>2. CASE UNCHANGED vars
  BY <1>2 DEF vars, books, IInv, TypeOK, BooksTypeOK, RunHasPair, Working, OutIsWeak
<1>3. QED
  BY <1>1, <1>2

LEMMA InvariantHolds == Spec => []IInv
BY InitInvariant, StepInvariant, PTL DEF Spec

-----------------------------------------------------------------------------
(* The derivations                                                         *)

(* A status set by a person is kept, but for IGNORED once there is a link. *)
LEMMA PreservedIsKept ==
  ASSUME NEW t \in Txns, NEW R, txn[t] = "EXCLUDED"
  PROVE  DerivedTxn(t) = "EXCLUDED" /\ DerivedPerRow(t, R) = "EXCLUDED"
BY DEF DerivedTxn, DerivedPerRow, Preserved

(* A receipt goes back to the pool only when no live row uses it.          *)
LEMMA ReleasedIsUnused ==
  ASSUME NEW d \in Docs, doc[d] = "MATCHED", DerivedDoc(d) = "EXTRACTED"
  PROVE  ~Proving(d)'
BY DEF DerivedDoc, Proving

-----------------------------------------------------------------------------
(* ExclusionStands, verb by verb                                           *)

Included(t) == txn[t] = "EXCLUDED" /\ txn'[t] \notin {"EXCLUDED", "gone"}

LEMMA VerbsKeepExclusions ==
  ASSUME IInv, Books, NEW t \in Txns, Included(t)
  PROVE  ToggleIgnore(t) \/ \E r \in Rows : ReviewReject(r)
<1> USE PreservedIsKept DEF Included, IInv, TypeOK, BooksTypeOK, Resync, ResyncTxns, ResyncRows
<1>1. ASSUME NEW s \in Txns, NEW r \in Unheld, NEW p \in Proofs, NEW k \in Kinds,
             ManualMatch(s, r, p, k)
      PROVE  FALSE
  BY <1>1 DEF ManualMatch
<1>2. ASSUME NEW s \in Txns, NEW b, ManualBundle(s, b) \/ AddProofs(s, b) PROVE FALSE
  BY <1>2 DEF ManualBundle, AddProofs
<1>3. ASSUME NEW r \in Rows, NEW q \in Unheld, NEW p \in Proofs, Reassign(r, q, p) PROVE FALSE
  BY <1>3 DEF Reassign
<1>4. ASSUME NEW s \in Txns, AddNothing(s) \/ RejectImport(s) \/ ApproveImport(s) PROVE FALSE
  BY <1>4 DEF AddNothing, RejectImport, ApproveImport
<1>5. ASSUME NEW s \in Txns, ToggleIgnore(s) PROVE ToggleIgnore(t)
  BY <1>5 DEF ToggleIgnore
<1>6. ASSUME NEW r \in Rows, RemoveProof(r) \/ ApproveAnyway(r) \/ ReviewApprove(r) PROVE FALSE
  BY <1>6 DEF RemoveProof, ApproveAnyway, ReviewApprove
<1>7. ASSUME NEW r \in Rows, Revert(r) PROVE FALSE
  BY <1>7 DEF Revert, Preserved
<1>8. ASSUME NEW R \in SUBSET Rows, Approve(R) \/ Reject(R) \/ ApproveAll(R) PROVE FALSE
  BY <1>8 DEF Approve, Reject, ApproveAll
<1>9. ASSUME NEW s \in Txns, NEW T \in SUBSET Txns, Link(s, T) PROVE FALSE
  BY <1>9 DEF Link, InsertLinks
<1>10. ASSUME NEW P \in SUBSET linked, Unlink(P) PROVE FALSE
  BY <1>10 DEF Unlink
<1>11. ASSUME NEW p \in unlinked, NEW b \in BOOLEAN, Relink(p, b) PROVE FALSE
  BY <1>11 DEF Relink
<1>12. ASSUME NEW D, DeleteDocs(D) PROVE FALSE
  BY <1>12 DEF DeleteDocs
<1>13. ASSUME NEW T \in SUBSET Txns, DeleteStatement(T) \/ ReplaceStatement(T) PROVE FALSE
  BY <1>13 DEF DeleteStatement, ReplaceStatement
<1>14. ASSUME ClearStatements PROVE FALSE
  BY <1>14 DEF ClearStatements
<1>15. QED
  BY <1>1, <1>2, <1>3, <1>4, <1>5, <1>6, <1>7, <1>8, <1>9, <1>10, <1>11, <1>12, <1>13, <1>14
  DEF Books

LEMMA RunKeepsExclusions ==
  ASSUME IInv, Next, ~Books, NEW t \in Txns, Included(t)
  PROVE  StampIgnored(t) \/ SettleTxn
<1> USE PreservedIsKept DEF Included, IInv, TypeOK, BooksTypeOK, Resync, ResyncTxns, ResyncRows, KeepBooks, books
<1>1. ASSUME NEW f \in Found, NotStored(f) \/ Displace(f) \/ \E r \in Rows : Refresh(f, r)
      PROVE  FALSE
  BY <1>1 DEF NotStored, Displace, Refresh
<1>2. ASSUME NEW r \in Rows, Supersede(r) \/ Insert(r) PROVE FALSE
  BY <1>2 DEF Supersede, Insert
<1>3. ASSUME SettleDoc PROVE FALSE
  BY <1>3 DEF SettleDoc
<1>4. ASSUME Start \/ EndLinking \/ ReadRefusals \/ ReadMatches \/ FourthPass \/ Finish \/ Fail
      PROVE  FALSE
  BY <1>4 DEF Start, EndLinking, ReadRefusals, ReadMatches, FourthPass, Finish, Fail
<1>5. ASSUME ResetAndStart \/ ResetUnderRun PROVE FALSE
  BY <1>5 DEF ResetAndStart, ResetUnderRun, Reset
<1>6. ASSUME NEW p \in Pairs, LinkFound(p) PROVE FALSE
  BY <1>6 DEF LinkFound, InsertLinks
<1>7. ASSUME NEW s \in Txns, StampIgnored(s) PROVE StampIgnored(t)
  BY <1>7 DEF StampIgnored
<1>8. ASSUME Restart PROVE FALSE
  BY <1>8 DEF Restart, Repair, RepairedTxn, Preserved
<1>9. QED
  BY <1>1, <1>2, <1>3, <1>4, <1>5, <1>6, <1>7, <1>8 DEF Next, Store

(* Money the user set aside as not real comes back by his own toggle or by *)
(* a write that looks at nothing, the run's or the review endpoint's.      *)
THEOREM ExclusionKept == Spec => ExclusionStands
<1>1. IInv /\ [Next]_vars =>
        [\A t \in Txns : (txn[t] = "EXCLUDED" /\ txn'[t] \notin {"EXCLUDED", "gone"}) =>
           \/ ToggleIgnore(t) \/ StampIgnored(t) \/ SettleTxn
           \/ \E r \in Rows : ReviewReject(r)]_vars
  BY VerbsKeepExclusions, RunKeepsExclusions DEF Included, vars, books
<1>2. QED
  BY <1>1, InvariantHolds, PTL DEF Spec, ExclusionStands

-----------------------------------------------------------------------------
(* ReceiptKept, verb by verb                                               *)

Released(d) == doc[d] = "MATCHED" /\ doc'[d] = "EXTRACTED" /\ Proving(d)'

LEMMA NothingProves ==
  ASSUME row' = Without(Rows), NEW d \in Docs
  PROVE  ~Proving(d)'
BY DEF Without, With, Proving, UsesOf, LiveRows, Live, LiveStatus, Settling, NoMatch

LEMMA VerbsKeepReceipts ==
  ASSUME IInv, Books, NEW d \in Docs, Released(d)
  PROVE  \E r \in Rows : ReviewReject(r)
<1> USE ReleasedIsUnused DEF Released, IInv, TypeOK, BooksTypeOK, Resync, ResyncDocs, ResyncRows
<1>1. ASSUME NEW s \in Txns, NEW r \in Unheld, NEW p \in Proofs, NEW k \in Kinds,
             ManualMatch(s, r, p, k)
      PROVE  FALSE
  BY <1>1 DEF ManualMatch
<1>2. ASSUME NEW s \in Txns, NEW b, ManualBundle(s, b) \/ AddProofs(s, b) PROVE FALSE
  BY <1>2 DEF ManualBundle, AddProofs
<1>3. ASSUME NEW r \in Rows, NEW q \in Unheld, NEW p \in Proofs, Reassign(r, q, p) PROVE FALSE
  BY <1>3 DEF Reassign
<1>4. ASSUME NEW s \in Txns,
             AddNothing(s) \/ RejectImport(s) \/ ApproveImport(s) \/ ToggleIgnore(s)
      PROVE  FALSE
  BY <1>4 DEF AddNothing, RejectImport, ApproveImport, ToggleIgnore
<1>5. ASSUME NEW r \in Rows, RemoveProof(r) \/ ApproveAnyway(r) \/ ReviewApprove(r) PROVE FALSE
  BY <1>5 DEF RemoveProof, ApproveAnyway, ReviewApprove
<1>6. ASSUME NEW r \in Rows, Revert(r) PROVE FALSE
  BY <1>6 DEF Revert
<1>7. ASSUME NEW R \in SUBSET Rows, Approve(R) \/ Reject(R) \/ ApproveAll(R) PROVE FALSE
  BY <1>7 DEF Approve, Reject, ApproveAll
<1>8. ASSUME NEW s \in Txns, NEW T \in SUBSET Txns, Link(s, T) PROVE FALSE
  BY <1>8 DEF Link, InsertLinks
<1>9. ASSUME NEW P \in SUBSET linked, Unlink(P) PROVE FALSE
  BY <1>9 DEF Unlink
<1>10. ASSUME NEW p \in unlinked, NEW b \in BOOLEAN, Relink(p, b) PROVE FALSE
  BY <1>10 DEF Relink
<1>11. ASSUME NEW D, DeleteDocs(D) PROVE FALSE
  BY <1>11 DEF DeleteDocs
<1>12. ASSUME NEW T \in SUBSET Txns, DeleteStatement(T) \/ ReplaceStatement(T) PROVE FALSE
  BY <1>12 DEF DeleteStatement, ReplaceStatement, Proving
<1>13. ASSUME ClearStatements PROVE FALSE
  BY <1>13, NothingProves DEF ClearStatements
<1>14. QED
  BY <1>1, <1>2, <1>3, <1>4, <1>5, <1>6, <1>7, <1>8, <1>9, <1>10, <1>11, <1>12, <1>13
  DEF Books

LEMMA RunKeepsReceipts ==
  ASSUME IInv, Next, ~Books, NEW d \in Docs
  PROVE  ~Released(d)
<1> SUFFICES ASSUME Released(d) PROVE FALSE
  OBVIOUS
<1> USE ReleasedIsUnused DEF Released, IInv, TypeOK, BooksTypeOK, Resync, ResyncDocs, ResyncRows,
        KeepBooks, books
<1>1. ASSUME NEW f \in Found, NotStored(f) \/ Displace(f) \/ \E r \in Rows : Refresh(f, r)
      PROVE  FALSE
  BY <1>1 DEF NotStored, Displace, Refresh
<1>2. ASSUME NEW r \in Rows, Supersede(r) \/ Insert(r) PROVE FALSE
  BY <1>2 DEF Supersede, Insert
<1>3. ASSUME SettleTxn \/ SettleDoc PROVE FALSE
  BY <1>3 DEF SettleTxn, SettleDoc
<1>4. ASSUME Start \/ EndLinking \/ ReadRefusals \/ ReadMatches \/ FourthPass \/ Finish \/ Fail
      PROVE  FALSE
  BY <1>4 DEF Start, EndLinking, ReadRefusals, ReadMatches, FourthPass, Finish, Fail
<1>5. ASSUME ResetAndStart \/ ResetUnderRun PROVE FALSE
  BY <1>5, NothingProves DEF ResetAndStart, ResetUnderRun, Reset
<1>6. ASSUME NEW p \in Pairs, LinkFound(p) PROVE FALSE
  BY <1>6 DEF LinkFound, InsertLinks
<1>7. ASSUME NEW s \in Txns, StampIgnored(s) PROVE FALSE
  BY <1>7 DEF StampIgnored
<1>8. ASSUME Restart PROVE FALSE
  BY <1>8 DEF Restart, Repair, RepairedDoc, Proving, UsesOf, LiveRows, Live
<1>9. QED
  BY <1>1, <1>2, <1>3, <1>4, <1>5, <1>6, <1>7, <1>8 DEF Next, Store

(* A receipt that an approved row proves with stays out of the pool, but   *)
(* for the review endpoint's rejection of another of its rows.             *)
THEOREM ReceiptsKept == Spec => ReceiptKept
<1>1. IInv /\ [Next]_vars =>
        [\A d \in Docs : (doc[d] = "MATCHED" /\ doc'[d] = "EXTRACTED" /\ Proving(d)') =>
           \E r \in Rows : ReviewReject(r)]_vars
  BY VerbsKeepReceipts, RunKeepsReceipts DEF Released, vars, books
<1>2. QED
  BY <1>1, InvariantHolds, PTL DEF Spec, ReceiptKept

-----------------------------------------------------------------------------
(* What the sweep at startup leaves                                        *)

LEMMA SweepIsSound ==
  ASSUME IInv, Restart
  PROVE  /\ \A t \in Txns :
              /\ txn'[t] = "MATCHED" => ProofsOf(t)' # {}
              /\ txn'[t] = "UNMATCHED" => ~Proven(t)'
              /\ txn'[t] = "LINKED" => HasLink(t)' \/ (ProofsOf(t)' # {} /\ ~Proven(t)')
              /\ txn'[t] = "IGNORED" => ~HasLink(t)'
         /\ \A d \in Docs : /\ doc'[d] = "MATCHED" => UsesOf(d)' # {}
                            /\ doc'[d] = "EXTRACTED" => ~Proving(d)'
<1>1. \A t \in Txns : /\ txn'[t] = RepairedTxn(t) /\ ProofsOf(t)' = ProofsOf(t)
                      /\ (Proven(t)' <=> Proven(t)) /\ (HasLink(t)' <=> HasLink(t))
                      /\ (Proven(t) => ProofsOf(t) # {})
  BY DEF Restart, Repair, KeepLinks, ProofsOf, Proven, HasLink, LiveRows, Live
<1>2. \A d \in Docs : /\ doc'[d] = RepairedDoc(d) /\ UsesOf(d)' = UsesOf(d)
                      /\ (Proving(d)' <=> Proving(d)) /\ (Proving(d) => UsesOf(d) # {})
  BY DEF Restart, Repair, KeepLinks, UsesOf, Proving, LiveRows, Live
<1>3. QED
  BY <1>1, <1>2 DEF RepairedTxn, RepairedDoc, Preserved

(* After the sweep nothing is stranded and the request path would derive   *)
(* the same statuses, whatever a crash had left.                           *)
THEOREM SweepSettles == Spec => SweepAgrees
<1>1. IInv /\ [Next]_vars =>
        [Restart =>
           /\ \A t \in Txns : LET s == txn'[t] IN
                /\ s = "MATCHED" => ProofsOf(t)' # {}
                /\ s = "UNMATCHED" => ~Proven(t)'
                /\ s = "LINKED" => HasLink(t)' \/ (ProofsOf(t)' # {} /\ ~Proven(t)')
                /\ s = "IGNORED" => ~HasLink(t)'
           /\ \A d \in Docs : /\ doc'[d] = "MATCHED" => UsesOf(d)' # {}
                              /\ doc'[d] = "EXTRACTED" => ~Proving(d)']_vars
  BY SweepIsSound
<1>2. QED
  BY <1>1, InvariantHolds, PTL DEF Spec, SweepAgrees

-----------------------------------------------------------------------------
(* DocumentedIsResolved, verb by verb. A transaction is honest when it is  *)
(* not overstated: its status was just derived, or what backs it is kept.  *)

LEMMA DerivedIsHonest ==
  ASSUME NEW t \in Txns, NEW R, txn'[t] \in {DerivedTxn(t), DerivedPerRow(t, R), "UNMATCHED",
                                             "EXCLUDED", "IGNORED", "gone"}
  PROVE  ~Overstated(t)'
BY DEF DerivedTxn, DerivedPerRow, Overstated, MonthLine, Listed, Countable, Documented, Resolved, Proven, Preserved

LEMMA KeptIsHonest ==
  ASSUME NEW t \in Txns, ~Overstated(t), txn'[t] = txn[t],
         ProofsOf(t) # {} => ProofsOf(t)' # {}, HasLink(t) => HasLink(t)'
  PROVE  ~Overstated(t)'
BY DEF Overstated, MonthLine, Listed, Countable, Documented, Resolved

LEMMA BackedIsHonest ==
  ASSUME NEW t \in Txns, ProofsOf(t)' # {} \/ HasLink(t)'
  PROVE  ~Overstated(t)'
BY DEF Overstated, MonthLine, Listed, Countable, Documented, Resolved

(* The proofs of a transaction after its rows, or those of others, changed.*)
LEMMA OthersKeepProofs ==
  ASSUME NEW t \in Txns, NEW R,
         \A r \in Rows \ R : row'[r] = row[r],
         \A r \in ProofsOf(t) : r \in R => row'[r].txn = t /\ row'[r].status \in LiveStatus
  PROVE  ProofsOf(t) # {} => ProofsOf(t)' # {}
BY DEF ProofsOf, LiveRows, Live

LEMMA LinksKept ==
  ASSUME NEW t \in Txns, \A p \in linked : t \in p => p \in linked'
  PROVE  HasLink(t) => HasLink(t)'
BY DEF HasLink

(* A transaction none of whose matches, nor its links, were touched.       *)
LEMMA UntouchedIsHonest ==
  ASSUME NEW t \in Txns, ~Overstated(t), txn'[t] = txn[t], linked' = linked,
         NEW R, R \cap ProofsOf(t) = {}, \A r \in Rows \ R : row'[r] = row[r]
  PROVE  ~Overstated(t)'
<1>1. ProofsOf(t) # {} => ProofsOf(t)' # {}
  BY OthersKeepProofs
<1>2. HasLink(t) => HasLink(t)'
  BY DEF HasLink
<1>3. QED
  BY <1>1, <1>2, KeptIsHonest

LEMMA VerbsAreHonest ==
  ASSUME IInv, Books, NEW t \in Txns, ~Overstated(t)
  PROVE  ~Overstated(t)'
<1> USE DEF IInv, TypeOK, BooksTypeOK, Resync, ResyncTxns, ResyncRows, Put, KeepLinks
<1>1. ASSUME NEW s \in Txns, NEW r \in Unheld, NEW p \in Proofs, NEW k \in Kinds,
             ManualMatch(s, r, p, k)
      PROVE  ~Overstated(t)'
  <2>1. CASE t = s
    BY <1>1, <2>1, DerivedIsHonest DEF ManualMatch
  <2>2. CASE t # s
    <3>1. r \notin ProofsOf(t) /\ \A q \in Rows \ {r} : row'[q] = row[q]
      BY <1>1 DEF ManualMatch, Unheld, ProofsOf, LiveRows, Live, LiveStatus, Settling, NoMatch
    <3>2. txn'[t] = txn[t] /\ linked' = linked /\ {r} \cap ProofsOf(t) = {}
      BY <1>1, <2>2, <3>1 DEF ManualMatch, ResyncTxns
    <3>3. QED
      BY <3>1, <3>2, UntouchedIsHonest
  <2>3. QED
    BY <2>1, <2>2
<1>2. ASSUME NEW s \in Txns, NEW b \in Batches(Unheld), ManualBundle(s, b) \/ AddProofs(s, b)
      PROVE  ~Overstated(t)'
  <2>1. CASE t = s
    BY <1>2, <2>1, DerivedIsHonest DEF ManualBundle, AddProofs
  <2>2. CASE t # s
    <3>1. DOMAIN b \cap ProofsOf(t) = {}
      BY DEF Batches, Unheld, ProofsOf, LiveRows, Live, LiveStatus, Settling, NoMatch
    <3>2. ProofsOf(s) \cap ProofsOf(t) = {}
      BY <2>2 DEF ProofsOf
    <3>3. ASSUME NEW q \in Rows \ (DOMAIN b \cup ProofsOf(s)) PROVE row'[q] = row[q]
      BY <1>2 DEF ManualBundle, AddProofs, File, Parted
    <3>4. txn'[t] = txn[t] /\ linked' = linked
      BY <1>2, <2>2 DEF ManualBundle, AddProofs
    <3>5. QED
      BY <3>1, <3>2, <3>3, <3>4, UntouchedIsHonest
  <2>3. QED
    BY <2>1, <2>2
<1>3. ASSUME NEW r \in Rows, NEW q \in Unheld, NEW p \in Proofs, Reassign(r, q, p)
      PROVE  ~Overstated(t)'
  <2>1. CASE t = row[r].txn
    BY <1>3, <2>1, DerivedIsHonest DEF Reassign
  <2>2. CASE t # row[r].txn
    <3>1. r \notin ProofsOf(t) /\ q \notin ProofsOf(t)
      BY <2>2 DEF Unheld, ProofsOf, LiveRows, Live, LiveStatus, Settling, NoMatch
    <3>2. \A x \in Rows \ {r, q} : row'[x] = row[x]
      BY <1>3 DEF Reassign, Marked, With
    <3>3. txn'[t] = txn[t] /\ linked' = linked /\ {r, q} \cap ProofsOf(t) = {}
      BY <1>3, <2>2, <3>1 DEF Reassign, ResyncTxns
    <3>4. QED
      BY <3>2, <3>3, UntouchedIsHonest
  <2>3. QED
    BY <2>1, <2>2
<1>4. ASSUME NEW s \in Txns, AddNothing(s) PROVE ~Overstated(t)'
  <2>1. \A q \in ProofsOf(t) : row'[q].txn = t /\ row'[q].status \in LiveStatus
    BY <1>4 DEF AddNothing, Parted, ProofsOf, LiveRows, Live, LiveStatus, Settling, Matches, NoMatch
  <2>2. ProofsOf(t) # {} => ProofsOf(t)' # {}
    BY <2>1 DEF ProofsOf, LiveRows, Live
  <2>3. QED
    BY <1>4, <2>2, KeptIsHonest, LinksKept DEF AddNothing
<1>5. ASSUME NEW s \in Txns, ToggleIgnore(s) \/ RejectImport(s) \/ ApproveImport(s)
      PROVE  ~Overstated(t)'
  <2>1. ProofsOf(t)' = ProofsOf(t) /\ (HasLink(t)' <=> HasLink(t))
    BY <1>5 DEF ToggleIgnore, RejectImport, ApproveImport, ProofsOf, LiveRows, Live, HasLink
  <2>2. QED
    BY <1>5, <2>1 DEF ToggleIgnore, RejectImport, ApproveImport, Overstated, MonthLine, Listed, Countable, Documented, Resolved
<1>6. ASSUME NEW r \in Rows, RemoveProof(r) PROVE ~Overstated(t)'
  <2>1. CASE t = row[r].txn
    BY <1>6, <2>1, DerivedIsHonest DEF RemoveProof, TxnsOf
  <2>2. CASE t # row[r].txn
    <3>1. ({r} \cup ProofsOf(row[r].txn)) \cap ProofsOf(t) = {}
      BY <2>2 DEF ProofsOf
    <3>2. ASSUME NEW q \in Rows \ ({r} \cup ProofsOf(row[r].txn)) PROVE row'[q] = row[q]
      <4>1. ProofsOf(row[r].txn) \ {r} # {q} /\ q # r
        BY <3>2
      <4>2. QED
        BY <1>6, <4>1 DEF RemoveProof, Marked, With
    <3>3. txn'[t] = txn[t] /\ linked' = linked
      BY <1>6, <2>2 DEF RemoveProof, TxnsOf, ResyncTxns
    <3>4. QED
      BY <3>1, <3>2, <3>3, UntouchedIsHonest
  <2>3. QED
    BY <2>1, <2>2
<1>7. ASSUME NEW r \in Rows, ApproveAnyway(r) \/ ReviewApprove(r) \/ ReviewReject(r) \/ Revert(r)
      PROVE  ~Overstated(t)'
  <2>1. /\ row[r] \in Matches /\ row[r].txn \in Txns
        /\ \A q \in Rows \ {r} : row'[q] = row[q]
    <3>1. row[r] # NoMatch
      BY <1>7 DEF ApproveAnyway, ReviewApprove, ReviewReject, Revert, Settling, NoMatch
    <3>2. row[r] \in Matches /\ row[r].txn \in Txns
      BY <3>1 DEF Matches
    <3>3. ASSUME NEW q \in Rows \ {r} PROVE row'[q] = row[q]
      BY <1>7, <3>3 DEF ApproveAnyway, ReviewApprove, ReviewReject, Revert, Marked, With
    <3>4. QED
      BY <3>2, <3>3
  <2>2. CASE t = row[r].txn
    <3>1. CASE Revert(r)
      <4>1. row'[r] = [row[r] EXCEPT !.status = "pending", !.action = "none"]
        BY <3>1 DEF Revert, Marked, With
      <4>2. row'[r].txn = t /\ row'[r].status = "pending"
        BY <2>1, <2>2, <4>1 DEF Matches
      <4>3. ProofsOf(t)' # {}
        BY <4>2 DEF ProofsOf, LiveRows, Live, LiveStatus
      <4>4. QED
        BY <4>3, BackedIsHonest
    <3>2. CASE ApproveAnyway(r) \/ ReviewApprove(r)
      BY <2>2, <3>2, DerivedIsHonest DEF ApproveAnyway, ReviewApprove, TxnsOf, ResyncTxns
    <3>3. CASE ReviewReject(r)
      BY <2>2, <3>3, DerivedIsHonest DEF ReviewReject
    <3>4. QED
      BY <1>7, <3>1, <3>2, <3>3
  <2>3. CASE t # row[r].txn
    <3>1. {r} \cap ProofsOf(t) = {}
      BY <2>3 DEF ProofsOf
    <3>2. txn'[t] = txn[t] /\ linked' = linked
      BY <1>7, <2>3 DEF ApproveAnyway, ReviewApprove, ReviewReject, Revert, TxnsOf, ResyncTxns
    <3>3. QED
      BY <2>1, <3>1, <3>2, UntouchedIsHonest
  <2>4. QED
    BY <2>2, <2>3
<1>8. ASSUME NEW R \in SUBSET Rows, Approve(R) \/ Reject(R) PROVE ~Overstated(t)'
  <2>1. CASE t \in TxnsOf(R)
    BY <1>8, <2>1, DerivedIsHonest DEF Approve, Reject
  <2>2. CASE t \notin TxnsOf(R)
    <3>1. R \cap ProofsOf(t) = {} /\ \A q \in Rows \ R : row'[q] = row[q]
      BY <1>8, <2>2 DEF Approve, Reject, Marked, With, TxnsOf, ProofsOf
    <3>2. QED
      BY <1>8, <2>2, <3>1, KeptIsHonest, OthersKeepProofs, LinksKept DEF Approve, Reject
  <2>3. QED
    BY <2>1, <2>2
<1>9. ASSUME NEW R \in SUBSET Rows, ApproveAll(R) PROVE ~Overstated(t)'
  <2>1. \A r \in R : row[r] \in Matches
    BY <1>9 DEF ApproveAll, NoMatch
  <2>2. \A q \in ProofsOf(t) : q \in R => row'[q].txn = t /\ row'[q].status \in LiveStatus
    BY <1>9, <2>1 DEF ApproveAll, Marked, With, ProofsOf, LiveStatus, Settling, Matches
  <2>3. \A q \in Rows \ R : row'[q] = row[q]
    BY <1>9 DEF ApproveAll, Marked, With
  <2>4. QED
    BY <1>9, <2>2, <2>3, KeptIsHonest, OthersKeepProofs, LinksKept DEF ApproveAll
<1>10. ASSUME NEW s \in Txns, NEW T \in SUBSET Txns, Link(s, T) PROVE ~Overstated(t)'
  <2>1. CASE t \in UNION {{s, u} : u \in T}
    BY <1>10, <2>1, BackedIsHonest DEF Link, InsertLinks, HasLink
  <2>2. CASE t \notin UNION {{s, u} : u \in T}
    BY <1>10, <2>2, KeptIsHonest, LinksKept DEF Link, InsertLinks, ProofsOf, LiveRows, Live
  <2>3. QED
    BY <2>1, <2>2
<1>11. ASSUME NEW P \in SUBSET linked, Unlink(P) PROVE ~Overstated(t)'
  <2>1. CASE t \in UNION P
    BY <1>11, <2>1, DerivedIsHonest DEF Unlink
  <2>2. CASE t \notin UNION P
    BY <1>11, <2>2, KeptIsHonest, LinksKept DEF Unlink, ProofsOf, LiveRows, Live
  <2>3. QED
    BY <2>1, <2>2
<1>12. ASSUME NEW p \in unlinked, NEW b \in BOOLEAN, Relink(p, b) PROVE ~Overstated(t)'
  BY <1>12, KeptIsHonest, LinksKept DEF Relink, ProofsOf, LiveRows, Live
<1>13. ASSUME NEW D, DeleteDocs(D) PROVE ~Overstated(t)'
  <2>1. CASE t \in TxnsOf(RowsOf({}, D))
    BY <1>13, <2>1, DerivedIsHonest DEF DeleteDocs
  <2>2. CASE t \notin TxnsOf(RowsOf({}, D))
    <3>1. /\ RowsOf({}, D) \cap ProofsOf(t) = {}
          /\ \A q \in Rows \ RowsOf({}, D) : row'[q] = row[q]
      BY <1>13, <2>2 DEF DeleteDocs, Without, With, TxnsOf, ProofsOf
    <3>2. QED
      BY <1>13, <2>2, <3>1, KeptIsHonest, OthersKeepProofs, LinksKept DEF DeleteDocs
  <2>3. QED
    BY <2>1, <2>2
<1>14. ASSUME NEW T \in SUBSET Txns, DropTxns(T), t \notin T
       PROVE  /\ ProofsOf(t) # {} => ProofsOf(t)' # {}
              /\ t \notin Partners(T) => (HasLink(t) => HasLink(t)')
  <2>1. RowsOf(T, {}) \cap ProofsOf(t) = {} /\ \A q \in Rows \ RowsOf(T, {}) : row'[q] = row[q]
    BY <1>14 DEF DropTxns, Without, With, RowsOf, ProofsOf
  <2>2. ProofsOf(t) # {} => ProofsOf(t)' # {}
    BY <2>1, OthersKeepProofs
  <2>3. t \notin Partners(T) => (HasLink(t) => HasLink(t)')
    <3>1. ASSUME NEW p \in linked, t \in p, t \notin Partners(T) PROVE p \cap T = {}
      BY <1>14, <3>1 DEF Partners
    <3>2. linked' = {p \in linked : p \cap T = {}}
      BY <1>14 DEF DropTxns
    <3>3. QED
      BY <3>1, <3>2, LinksKept
  <2>4. QED
    BY <2>2, <2>3
<1>15. ASSUME NEW T \in SUBSET Txns, ReplaceStatement(T) PROVE ~Overstated(t)'
  BY <1>14, <1>15, DerivedIsHonest, KeptIsHonest DEF ReplaceStatement
<1>16. ASSUME NEW T \in SUBSET Txns, DeleteStatement(T) PROVE ~Overstated(t)'
  <2>1. CASE t \in T
    BY <1>16, <2>1, DerivedIsHonest DEF DeleteStatement
  <2>2. CASE t \notin T /\ t \notin Partners(T)
    BY <1>14, <1>16, <2>2, KeptIsHonest DEF DeleteStatement
  <2>3. CASE t \notin T /\ t \in Partners(T)
    BY <1>16, <2>3 DEF DeleteStatement, Overstated, MonthLine, Listed, Countable, Documented, Resolved
  <2>4. QED
    BY <2>1, <2>2, <2>3
<1>17. ASSUME ClearStatements PROVE ~Overstated(t)'
  BY <1>17, DerivedIsHonest DEF ClearStatements
<1>18. QED
  BY <1>1, <1>2, <1>3, <1>4, <1>5, <1>6, <1>7, <1>8, <1>9, <1>10, <1>11, <1>12, <1>13, <1>15,
     <1>16, <1>17 DEF Books

LEMMA RunIsHonest ==
  ASSUME IInv, Next, ~Books, NEW t \in Txns, ~Overstated(t), Overstated(t)'
  PROVE  SettleTxn /\ run.now.txn = t
<1> USE DEF IInv, TypeOK, BooksTypeOK, Resync, ResyncTxns, ResyncRows, Put, KeepLinks, KeepBooks,
        books
<1>1. ASSUME UNCHANGED <<txn, row, linked>> PROVE FALSE
  BY <1>1, KeptIsHonest DEF ProofsOf, LiveRows, Live, HasLink
<1>2. ASSUME NEW f \in Found, NotStored(f) \/ Displace(f) PROVE FALSE
  BY <1>1, <1>2 DEF NotStored, Displace
<1>3. ASSUME NEW f \in Found, NEW r \in Rows, Refresh(f, r) PROVE FALSE
  <2>1. /\ \A q \in Rows \ {r} : row'[q] = row[q]
        /\ row[r] # NoMatch => row'[r].txn = row[r].txn /\ row'[r].status \in LiveStatus
    BY <1>3 DEF Refresh, Matches, Found, LiveStatus, Settling
  <2>2. r \in ProofsOf(t) => row[r] # NoMatch /\ row[r].txn = t
    BY DEF ProofsOf, LiveRows, Live, LiveStatus, Settling, NoMatch
  <2>3. ProofsOf(t) # {} => ProofsOf(t)' # {}
    <3>1. \A q \in ProofsOf(t) : q \in {r} => row'[q].txn = t /\ row'[q].status \in LiveStatus
      BY <2>1, <2>2
    <3>2. QED
      BY <2>1, <3>1, OthersKeepProofs
  <2>4. txn' = txn /\ (HasLink(t) <=> HasLink(t)')
    BY <1>3 DEF Refresh, HasLink
  <2>5. QED
    BY <2>3, <2>4, KeptIsHonest
<1>4. ASSUME NEW r \in Rows, Supersede(r) PROVE FALSE
  <2>1. CASE row[r] = NoMatch
    BY <1>1, <1>4, <2>1 DEF Supersede
  <2>2. CASE row[r] # NoMatch /\ t = row[r].txn
    BY <1>4, <2>2, DerivedIsHonest DEF Supersede, TxnsOf
  <2>3. CASE row[r] # NoMatch /\ t # row[r].txn
    <3>1. r \notin ProofsOf(t) /\ \A q \in Rows \ {r} : row'[q] = row[q]
      BY <1>4, <2>3 DEF Supersede, Marked, With, ProofsOf
    <3>2. txn'[t] = txn[t] /\ linked' = linked /\ {r} \cap ProofsOf(t) = {}
      BY <1>4, <2>3, <3>1 DEF Supersede, TxnsOf, ResyncTxns
    <3>3. QED
      BY <3>1, <3>2, UntouchedIsHonest
  <2>4. QED
    BY <2>1, <2>2, <2>3
<1>5. ASSUME NEW r \in Rows, Insert(r) PROVE FALSE
  <2>1. r \notin ProofsOf(t) /\ \A q \in Rows \ {r} : row'[q] = row[q]
    BY <1>5 DEF Insert, Unheld, ProofsOf, LiveRows, Live, LiveStatus, Settling, NoMatch
  <2>2. txn' = txn /\ linked' = linked /\ {r} \cap ProofsOf(t) = {}
    BY <1>5, <2>1 DEF Insert
  <2>3. QED
    BY <2>1, <2>2, UntouchedIsHonest
<1>6. CASE SettleTxn
  <2>1. run.now.txn # t => txn'[t] = txn[t]
    BY <1>6 DEF SettleTxn
  <2>2. QED
    BY <1>6, <2>1, KeptIsHonest DEF SettleTxn, ProofsOf, LiveRows, Live, HasLink
<1>7. ASSUME SettleDoc PROVE FALSE
  BY <1>1, <1>7 DEF SettleDoc
<1>8. ASSUME Start \/ EndLinking \/ ReadRefusals \/ ReadMatches \/ FourthPass \/ Finish \/ Fail
      PROVE  FALSE
  BY <1>1, <1>8 DEF Start, EndLinking, ReadRefusals, ReadMatches, FourthPass, Finish, Fail
<1>9. ASSUME ResetAndStart \/ ResetUnderRun PROVE FALSE
  BY <1>9 DEF ResetAndStart, ResetUnderRun, Reset, Overstated, MonthLine, Listed, Countable, Documented, TxnStatus, Preserved
<1>10. ASSUME NEW p \in Pairs, LinkFound(p) PROVE FALSE
  <2>1. CASE t \in p
    BY <1>10, <2>1, BackedIsHonest DEF LinkFound, InsertLinks, HasLink
  <2>2. CASE t \notin p
    BY <1>10, <2>2, KeptIsHonest, LinksKept DEF LinkFound, InsertLinks, ProofsOf, LiveRows, Live
  <2>3. QED
    BY <2>1, <2>2
<1>11. ASSUME NEW s \in Txns, StampIgnored(s) PROVE FALSE
  <2>1. txn'[t] = txn[t] \/ txn'[t] = "IGNORED"
    BY <1>11 DEF StampIgnored
  <2>2. QED
    BY <1>11, <2>1, KeptIsHonest, DerivedIsHonest
    DEF StampIgnored, ProofsOf, LiveRows, Live, HasLink
<1>12. ASSUME Restart PROVE FALSE
  <2>1. /\ txn'[t] = RepairedTxn(t) /\ ProofsOf(t)' = ProofsOf(t) /\ (HasLink(t)' <=> HasLink(t))
        /\ (Proven(t) => ProofsOf(t) # {})
    BY <1>12 DEF Restart, Repair, ProofsOf, Proven, HasLink, LiveRows, Live
  <2>2. QED
    BY <2>1 DEF RepairedTxn, Overstated, MonthLine, Listed, Countable, Documented, Resolved, Preserved
<1>13. QED
  BY <1>2, <1>3, <1>4, <1>5, <1>6, <1>7, <1>8, <1>9, <1>10, <1>11, <1>12 DEF Next, Store

(* What the workbook counts as documented has a match or a link behind it, *)
(* unless it already had none or the run just wrote MATCHED over it; and   *)
(* the books and the run stay well formed.                                 *)
THEOREM DocumentedHolds == Spec => DocumentedIsResolved
<1>1. IInv /\ [Next]_vars =>
        [/\ TypeOK'
         /\ \A t \in Txns : (Overstated(t)' /\ ~Overstated(t))
                              => SettleTxn /\ run.now.txn = t]_vars
  <2>1. IInv /\ [Next]_vars => TypeOK'
    BY StepInvariant DEF IInv
  <2>2. QED
    BY <2>1, VerbsAreHonest, RunIsHonest
<1>2. QED
  BY <1>1, InvariantHolds, PTL DEF Spec, DocumentedIsResolved

-----------------------------------------------------------------------------
(* What a binder says of a row is what it says of the row's own status,    *)
(* proofs and pairs.                                                       *)

LEMMA LineIsLocal ==
  ASSUME NEW a, NEW b, NEW t,
         a.lost = b.lost, a.status[t] = b.status[t], a.paths[t] = b.paths[t],
         Transfers(a, t) = Transfers(b, t)
  PROVE  Line(a, t) = Line(b, t)
<1>1. Verified(a, t) = Verified(b, t)
  BY DEF Verified
<1>2. QED
  BY <1>1 DEF Line, Class, HtmlCell, XlsxCell, MissingProof

LEMMA SupersedeIsWhole ==
  ASSUME IInv, NEW r \in Rows, Supersede(r), NEW lost, NEW read \in MonthBinders(lost),
         NEW t \in Listed, ~Torn(t)
  PROVE  Line(read, t) = Line(Whole(lost), t)
<1> USE DEF IInv, TypeOK, BooksTypeOK, KeepBooks, books, Put, KeepLinks, Resync, ResyncRows
<1>1. linked' = linked
  BY DEF Supersede
<1>2. Paths'[t] = Paths[t]
  <2>1. ~(row[r].status \in Settling /\ row[r].txn = t)
    BY DEF Torn, Supersede, OutIsWeak
  <2>2. \A q \in Rows \ {r} : row'[q] = row[q]
    BY DEF Supersede, Marked, With
  <2>3. row[r] = NoMatch => row' = row
    BY DEF Supersede
  <2>4. row[r] # NoMatch => row'[r].status = "rejected"
    BY DEF Supersede, Marked, With, Matches
  <2>5. {q \in ProofsOf(t)' : row'[q].status \in Settling} = {q \in ProofsOf(t) : row[q].status \in Settling}
    BY <2>1, <2>2, <2>3, <2>4 DEF ProofsOf, LiveRows, Live, LiveStatus, Settling, NoMatch
  <2>6. r \notin {q \in ProofsOf(t) : row[q].status \in Settling}
    BY <2>1 DEF ProofsOf
  <2>7. {row'[q].doc : q \in {x \in ProofsOf(t)' : row'[x].status \in Settling}} =
          {row[q].doc : q \in {x \in ProofsOf(t) : row[x].status \in Settling}}
    BY <2>2, <2>5, <2>6 DEF ProofsOf, LiveRows
  <2>8. QED
    BY <2>7 DEF Paths, Listed
<1>3. /\ read.lost = Whole(lost).lost /\ read.status[t] = Whole(lost).status[t]
      /\ read.paths[t] = Whole(lost).paths[t] /\ Transfers(read, t) = Transfers(Whole(lost), t)
  BY <1>1, <1>2 DEF MonthBinders, Whole, Reading, Transfers
<1>4. QED
  BY <1>3, LineIsLocal

LEMMA RunTearsNoOther ==
  ASSUME IInv, RunWrites, NEW lost \in SUBSET Docs, NEW read \in MonthBinders(lost),
         NEW t \in Listed, ~Torn(t)
  PROVE  Line(read, t) \in {Line(Whole(lost), t), Line(Whole(lost), t)'}
<1> USE DEF KeepBooks, books, Put, KeepLinks
<1>1. ASSUME row' = row, linked' = linked PROVE read = Whole(lost)
  BY <1>1 DEF MonthBinders, Whole, Paths, ProofsOf, LiveRows, Live
<1>2. ASSUME txn' = txn PROVE read = Whole(lost) \/ read = Whole(lost)' \/ linked' # linked
  BY <1>2 DEF MonthBinders, Whole, Statuses, Listed, Countable
<1>3. ASSUME NEW p \in Pairs, LinkFound(p) PROVE Line(read, t) = Line(Whole(lost), t)
  <2>1. t \notin p
    BY <1>3 DEF Torn
  <2>2. Paths' = Paths /\ linked' = linked \cup {p}
    BY <1>3 DEF LinkFound, InsertLinks, Paths, ProofsOf, LiveRows, Live
  <2>3. /\ read.lost = Whole(lost).lost /\ read.status = Whole(lost).status
        /\ read.paths = Whole(lost).paths /\ Transfers(read, t) = Transfers(Whole(lost), t)
    BY <2>1, <2>2 DEF MonthBinders, Whole, Reading, Transfers
  <2>4. QED
    BY <2>3, LineIsLocal
<1>4. CASE \E s \in Txns : StampIgnored(s)
  BY <1>1, <1>4 DEF StampIgnored
<1>5. CASE SettleTxn \/ SettleDoc
  BY <1>1, <1>5 DEF SettleTxn, SettleDoc
<1>6. ASSUME NEW f \in Found, NotStored(f) \/ Displace(f) PROVE FALSE
  BY <1>6 DEF NotStored, Displace, RunWrites
<1>7. CASE \/ \E f \in Found, r \in Rows : Refresh(f, r)
           \/ \E r \in Rows : Insert(r)
  <2>1. txn' = txn /\ linked' = linked
    BY <1>7 DEF Refresh, Insert
  <2>2. QED
    BY <1>2, <2>1
<1>8. CASE \E r \in Rows : Supersede(r)
  BY <1>8, SupersedeIsWhole
<1>9. QED
  BY <1>3, <1>4, <1>5, <1>6, <1>7, <1>8 DEF RunWrites, Store

(* For any number of rows and receipts and any set of lost files, a binder *)
(* shows each row as the books had it before the run's write or after it,  *)
(* but where the run links the row or displaces a match approved since it  *)
(* was read.                                                               *)
THEOREM RowsAreWhole == Spec => NoRowIsTorn
<1> DEFINE Shown == RunWrites => \A lost \in SUBSET Docs : \A read \in MonthBinders(lost) :
             \A t \in Listed : Line(read, t) \in {Line(Whole(lost), t), Line(Whole(lost), t)'} \/ Torn(t)
<1>1. IInv /\ [Next]_vars => [Shown]_vars
  BY RunTearsNoOther
<1> HIDE DEF Shown
<1>2. QED
  BY <1>1, InvariantHolds, PTL DEF Spec, NoRowIsTorn, Shown
=============================================================================
